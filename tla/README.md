# Verification of the ships game server

This directory specifies, model-checks and partly proves the behaviour of
*Síťová hra lodě* (battleships over TCP): a server in C (`src/server`) and a
client in Java (`src/client`). The specification is translated from the source;
`PROJECT.json` maps every definition to the lines it stands for.

## The system

The **server** is one process with one thread. `server_listen` waits in `select`
for the listening socket and all client sockets, and for every readable one runs
one handler to completion, so that handlers never overlap. What makes it hard is
what happens *between* handlers: sockets become readable in any order, a
connection may be lost at any time and resumed on another socket, and requests of
both players of a game arrive in every order and in states they do not fit.

| Component | State | Operations | What makes it correct |
|---|---|---|---|
| connections, `communication/server.c` | `master_fd_set`, `server->clients` (socket to struct), `s_curr_players` | accept, notice a hangup, `server_disconnect`, `close_connection` | a socket has one connected struct of its own; a dead socket is closed |
| sessions, `cmd_login`, `cmd_logout` | `struct client`, `server->players` (name to struct) | log in, resume, be refused, log out | one name, one struct, one socket; nobody loses a seat by a lost connection; the player counter |
| rooms, `cmd_room_*`, `room_create`, `game_end` | `struct game`: two seats, a state, an id; `s_curr_rooms` | create, list, join, leave, end | seats and players point at each other; no dead seat in the list; no room leaks |
| list of rooms, `structures/arraylist.c` | two lists through one array | insert, delete, get | no index lost or in both lists; the list holds the rooms there are |
| table of names, `structures/hashmap.c` | chains of elements | put, get, remove, clear | it is a function from names to structs |
| game, `cmd_game_*` | two boards, two fleets, two counts, whose turn | prepare, fire, info, end | the rules of the game; one player on turn; the end when a fleet is sunk |
| ships, `game/ship.c`, `shipsGame.c` | start, direction, length, health | place, hit, mark the surroundings | a layout is accepted exactly if it is lawful |
| dispatch, `main.c` | the received bytes, `invalid_count` | split into a name and arguments, find the handler, count unknown commands | each request is handled once, as it was sent; five unknown commands in a row end the connection |
| options, statistics, trace, signals, `main.c` | files | | I/O, not modelled |
| client: connection and messages, `Receiver`, `MessageHandler` | the reader thread; scene, `gameStatus` | one branch per message, some of it handed to the window thread | the client agrees with the server, also after a resume; the reader never ends |
| client: game model, `GameModel`, `GameBoard` | `myBoard`, `enemyBoard`, `boardShips`, the ship in hand | place at random, turn, pick up, drop, mark shots and sunk ships | every fleet a player can make is lawful; the boards are those of the server |
| client: controllers and windows | the window thread's queue | connect, Ready, fire, leave, continue | requests are sent when the server can accept them; dialogs and drawing are not modelled |

Components interact by calls inside the server, by pointers (a socket, a name and
a seat may all lead to one struct client, and structs outlive their sockets) and
by messages to and from the clients. Inside a client the reader thread and the
window thread share `gameModel` and the scene without locks, and the reader hands
work over by `Platform.runLater`.

## The modules

- **ShipsServer** - the server: sockets, sessions, rooms, and the part of a game
  that decides states and turns. Its variables are the fields of the C structs,
  as functions from the addresses `malloc` can return; one action is one round of
  the select loop with the whole handler it runs. Boards are abstracted to the
  outcome a request has (a layout is accepted or not, a shot is refused, passes
  the turn, or sinks the last ship).
- **Match** - one game with its boards and fleets, from `game_init` to `game_end`.
- **Duel** - what Match promises: two hidden fleets that are lawful, the squares
  opened of each, a turn, a winner. Nothing in it knows of characters, counters or
  ships built square by square.
- **Lobby** - what ShipsServer promises: who has a session, what each is doing and
  with whom, by name. Nothing in it knows of sockets, structs or rooms.
- **Ships** - board, ship and layout operators, used by Match, and beside them the
  rules of the game as a reference (`Lawful`, `Complete`, `Adjacent`).
- **Layouts** - a layout character by character, and what both programs make of it:
  the code of Ships and GameModel compared with those rules.
- **RoomList** - `arraylist.c`; **RoomPool** is what it promises: a pool of ids.
- **HashMap** - `hashmap.c`; **NameTable** is what it promises: a function from
  names to structs, which ShipsServer has as `players`.
- **Framing** - one connection from the lines a client writes to the calls of
  handlers: `recv` and `process_message`. A text is a sequence of tokens.
- **GameModel** - the client's boards as operators, on the same characters and
  squares as Ships: `canPlaceShip`, `turnShip`, `markDestroyedShip`, the
  conversions.
- **Editor** - a player prepares a fleet with the mouse (GameBoard, GameModel).
- **System** - Match, two connections and two clients: each client with its
  reader, its window thread's queue and its boards. It extends Match, whose
  handlers are conjuncts of its server steps, and GameModel.
- **Agreement** - what a client and the server of System have in common at every
  moment, also while messages are on their way: the core of System's inductive
  invariant, as a property of its own.
- **ShipsServerProofs**, **ShipsServerLobbyProofs**, **RoomListProofs**,
  **HashMapProofs**, **MatchProofs**, **FleetProofs** (about Layouts and Editor) and
  **SystemProofs** hold the theorems; **ShipsProofs** has the lemmas about boards
  and ships that the last three share.
- **MC...** modules give the constants for TLC, one per specification.

The mappings: `ShipsServer.Sessions` finds the struct of a name in `players` and
reads session, phase and rival from it; `Match.Game` takes the squares of a ship
from its struct, what is opened from the board's characters `H` and `M`, and the
turn from the two states. `RoomList.Pool` and `HashMap`'s mapping follow the lists.
A step of the code that changes nothing of these is a stutter there.

ShipsServer composes with the others by their abstractions: it takes any free id
for a new room (RoomPool) and a function for the names (NameTable); its outcomes
of layouts and shots are those of Match. `Match.StatesWhenPrepared` and
`Match.PassTurn` are what `ShipsServer.cmd_game_prepared` and
`ShipsServer.PassTurn` do to the two seats.

How code becomes TLA+:

- *Freed memory.* A struct client nothing leads to any more is indistinguishable
  from a fresh one, and a room is free exactly when its `state` is
  `GAME_STATE_ERASED`, which every `free(game)` is preceded by. `rooms` keeps
  entries of freed rooms, and a later `malloc` may hand out the same block: this
  is the stale id that `cmd_room_join` can meet. `state` lies behind the words an
  allocator writes into a freed block. A block reused for something other than a
  room, before any room has it again, is not modelled.
- *client_set_name returns no value.* As built, the caller finds a pointer in the
  return register, which is not 0, and goes on. The model takes that outcome.
- *What clients know.* `told` and `toldOpp` are what the messages sent so far have
  told a client about its state and about its opponent's presence.
- *Names* are model values; `BadName` stands for every name that is refused and
  `NoName` for a request without argument. A resumed session is found by name.
- *Bounds of the model.* `MaxLoss` bounds how far `s_curr_players` may fall (it
  stops new connections); `SizeBound` bounds the insertions into the room list,
  whose `size` never falls when the first room is deleted.
- *Environment.* `Relogin` says whether a logged in client may send `login_req`
  again. The code allows it, and much of the state is then wrong (see the smaller
  differences); the runs assume a client that does not, like the Java client,
  which sends it once, on `connected` (`MessageHandler.java:75`). So do the proofs
  about names, seats and rooms; those of types and sockets do not.
- *Threads of a client (System).* A message is one step of the reader, an action
  of `runLater` one of the window thread. A click that fires is two steps, sending
  and setting `WAITING`, as the reader may run between them. `Prompt` says that
  the window thread has done what it was handed before the reader's next message
  and the user's next click. Nothing in the code enforces it: the reader sleeps for
  20 ms after each message (`Receiver.java:99`). `Patient` says that a user who
  has pressed Ready or resumed waits for the answer before pressing Ready or
  firing. `system` assumes both; without either of them `TurnAgrees` does not hold,
  see below.
- *An uncaught exception* ends the reader (`reader = "dead"`): a null `gameModel`
  or a cast of a controller of another scene. On the window thread it only ends
  the action.
- *Losses (System).* A connection that breaks delivers any prefix of what is on
  its way in each direction, then its end; a client that crashes forgets
  everything and starts again. `connect` takes place once the server has noticed:
  an earlier attempt is refused and changes nothing (`commands.c:110`).
- *What System leaves out:* the lobby before and after the game, and messages that
  only raise an alert or are logged. `game_fire_ok` sets `PLAYING` for the moment
  in which it marks the shot (`MessageHandler.java:495`); a click in that moment is
  refused by the server and not modelled. `game_info_data` is taken to end its
  boards where they end, though they have no terminator.

## The runs

| Run | Instance | Shows |
|---|---|---|
| `sessions` | 4 structs, 3 sockets, 2 names, 1 room, limit of 2 players | sockets, structs and names agree while connections are lost, resumed, refused and thrown out; the counter never exceeds the players |
| `rooms` | 4 structs, 3 sockets, 3 names, 2 rooms | seats and rooms agree; no abandoned room; ids lead to rooms; clients are told the truth; the server implements Lobby |
| `liveness` | 3 structs, 2 sockets, 2 names, 1 room | a hangup is noticed; when all peers are gone everything is given back |
| `layouts` (module Layouts) | all layouts of a 4x4 board with ships of 3 and 1 squares | what `game_prepared` accepts is what the rules allow; what a sunk ship marks, in C and in Java |
| `rules` | 3x3 board, ships of 2 and 1 squares, 8 layouts, all shots | boards, fleets and counts agree; Match implements Duel |
| `room_list` | 4 rooms in 3 entries | the room list implements RoomPool |
| `names` | 4 names in 2 chains, 3 of them collide, 2 structs | the hash table implements NameTable; clearing empties it |
| `editor` | 5x5 board, ships of 3, 2 and 1 squares | the server accepts every fleet the client's editor can make; random placing never gets stuck |
| `system` | 3x3 board, 2 ships of one square, 2 squares clicked, 2 requests on their way per client, 1 loss or crash | at every moment what is on its way makes of a client what the server has (`AllAgree`); once all has arrived the clients show the server's boards and turn, also after a resume; the turn arrives; a lost player gets back |
| `limit`, `crossing`, `joined` | as above; up to 2 of 5 requests per `recv` | the code does other than the documentation says, see below |

The largest runs (`rooms`, `rules`) take about three minutes on two workers,
`system` half of that.

**Why the bounds are enough.** Two names and three sockets let a player lose a
connection, resume, and meet a third socket that never logs in or uses a name that
is taken; one struct more than sockets lets a freed struct be reused while the old
one of a lost connection is still there. Three players and two rooms are the least
that let a room be freed, its block reused under another id, and both ids be used
by a late `room_join_req`; four structs suffice as none of the properties concerns
more than two players of one room and a third one. `MaxLoss` 1 to 4 lets sockets be
closed without login before and between the logins. The 4x4 board has inner
squares, all edges and corners, and room for both directions; a ship of three
squares has a start, a middle and an end. On 3x3 with a long and a short ship all
orders of hits, misses, sinkings and the end are explored; shots include the first
number off the board, one that `atoi` takes for 0, and something that is no number.
Three colliding names make a chain with a first, a middle and a last element.
On 5x5 three ships fit in many ways and also stand in each other's way when they
are turned. In `system` the squares clicked are those of the two ships:
shots sink a ship and mark the water around it, are refused as already hit, and end
the game; a miss differs from a hit in one character only. Two requests on their way let one cross the answer to the other. One
loss may happen to either client at any point, in the middle of a shot too; the
loss of both is `NoAbandonedRoom` and `AbandonedRoomsReaped` of ShipsServer.

**Symmetry and views.** Sockets, structs, names and rooms are interchangeable in
`sessions`, `rooms` and `limit` (the initial state and the actions treat all
alike), and so are the rooms of `room_list`; the runs with liveness use no
symmetry. `MCView` of MCShipsServer drops what no handler can read before writing
it again: fields of structs nothing leads to, `playerNum` outside a game, the count
of a lost connection, entries of closed sockets. `MCView` of MCMatch drops the last
error, which only action properties look at, and the boards of a game that has
ended; that of MCSystem drops the last error
and, once the game has ended, the boards and what messages say of them, which no
handler reads any more.

**Fairness.** In ShipsServer only `ReadEof` is weakly fair, per socket: `select`
reports a socket whose peer is gone as readable until it is closed, and the loop
serves every readable socket of a round. That requests the peer left unread come
first does not matter to `AbandonedRoomsReaped`, which starts when every open
socket is hung up for good. In System the server's next request (`Served`), a
reader's next message (`Received`) and the next action of a window thread
(`Window`) are weakly fair: `select` again, and two threads of one process of
which neither waits for the other. Users owe nothing, no request or click is fair;
a connection may break, and a property excuses a client whose connection is down.

**Deadlock** is switched off where the model stops by itself: `MaxLoss` ends new
connections, `SizeBound` the insertions, a layout has a last character, nothing
follows `ht_destroy`, `MaxSent` ends the requests, and two players may stop in the
lobby after a game. The server itself always accepts; the Match and Editor runs
check deadlock, in Editor that is the termination of the inner loop of
`populateMyShips`: on that board there always is a place for the next ship. Whether
there is for seven ships on 10x10 is beyond TLC.

## What the violated runs show

- `limit`: closing a socket that never logged in decrements `s_curr_players`, so
  more players than `s_max_players` get in (`server.c:305`, `README.md:32`).
- `crossing`: a player leaves a game and presses Ready while `game_end` is on its
  way; the refusal `game_prepared_err` is read in the scene of the result, where
  the handler's cast fails and the reader ends (`MessageHandler.java:435`,
  `document.tex:272` and `:315`).
- `joined`: two requests that one `recv` returns are handled as one
  (`server.c:188`, `document.tex:61`). With one request per `recv` the property
  holds, for both kinds of line end. `room_leave_req` after a shot turns both into
  a refused shot; a request after a layout is dropped behind the layout's null
  character; two without arguments are an unknown command, on whose `error` the
  Java client disconnects (`MessageHandler.java:646`).

Without `Prompt` or `Patient` TLC finds `TurnAgrees` violated in System, which no
document speaks about:

- a second click on Ready before `game_prepared_ok` is read: the second layout is
  refused, and the client goes back to `PREPARING` while the server waits for its
  shot (`GameController.java:134`, `MessageHandler.java:458`);
- the window thread sets `WAITING` after the answer to the shot, or an older status
  after a newer one (`GameBoard.java:276`, `MessageHandler.java:150`): the player on
  turn is never allowed to fire;
- a player who resumes, sees `game_play` and fires before `game_info_data` is there.

Smaller differences seen while modelling, without a run: a logged in client may log
in again under a second name, and both lead to its struct (`commands.c:41`,
`document.tex:91`); a player who waits in a room and loses the connection comes
back to the lobby (`server.c:231`, `document.tex:79` and `:130`); a fleet with a
wrong length is reported to player 2 as a wrong placement (`commands.c:795`,
`document.tex:121`); who leaves a game is named as its winner (`commands.c:404` and
`:504`, `document.tex:232`); names of 20 characters are
accepted (`document.tex:130` says 19); a full server answers with error 1, not 12;
leaving a game is not answered with `room_leave_ok` (`document.tex:175`);
`game_end` for two lost players prints a null name; `arraylist_double_capacity`
leaves `capacity` as it was; deleting the first room leaves `size` as it was;
`atoi` takes some numbers beyond an int for squares of the board
(`document.tex:211`).

## What is proved

TLC checks the instances above; the theorems hold for every number of sockets,
structs, names and rooms, every capacity and hash, every size of the board, every
fleet, whatever the players send and whatever connections are lost. Every safety
property that a passing run checks is a theorem, and so are the four refinements.

| Module | Theorems | Properties |
|---|---|---|
| ShipsServerProofs | `TypeCorrect`, `SocketsCorrect` | `TypeOK`, `SocketsConsistent` |
| ShipsServerProofs | `UnloggedPrivate`, `NamesCorrect`, `NoPhantoms`, `SeatsCorrect`, `WaitingRoomsCorrect`, `TurnCorrect`, `NoRoomAbandoned`, `RoomsCountedCorrect`, `TruthTold` | the other invariants of ShipsServer |
| ShipsServerLobbyProofs | `LobbyImplemented` | ShipsServer implements Lobby |
| RoomListProofs | `ListsPartitioned`, `RoomsListed`, `InsertionFits`, `SizeSuffices`, `PoolImplemented` | the invariants of RoomList; it implements RoomPool |
| HashMapProofs | `OneElementPerName`, `ClearFreesAll`, `NamesImplemented` | `KeysFound`, `ClearEmpties`; HashMap implements NameTable |
| MatchProofs | `MatchTypeCorrect`, `FleetStaysOnBoard`, `SunkMarked`, `FleetsStayAfloat`, `InternalErrorImpossible`, `DuelImplemented` | the invariants of Match and `NoInternalError`; Match implements Duel |
| FleetProofs | `LayoutsReadLawfully`, `FleetsAccepted`, `RefusedForgotten`, `WaterMarked`, `ClientMarksLikeServer` | the properties of Layouts |
| FleetProofs | `ShipsWhereTheySay`, `ReadyIsAccepted` | the properties of Editor |
| SystemProofs | `SystemTypes`, `SystemPlaysDuel` | messages and clients are well formed; System implements Duel |
| SystemProofs | `SystemInvariant`, `ClientsInStep`, `ClientsShowTheBoards`, `ClientsShowTheTurn` | the inductive invariant; `AllAgree`, `BoardsAgree`, `TurnAgrees` |

**Assumptions.** About the constants, each named in the module that declares them:
`NullAssumption` (null is no address, socket or name), `LimitAssumption` (limits are
numbers, at least one unknown command is allowed), `RoomListAssumption`,
`HashAssumption` (a capacity of at least one, every name has a bucket),
`BoardAssumption` (a board of at least one square and a fleet of at least one ship,
of which each has a length; a fleet need not fit on the board), `MatchAssumption`
(layouts are sequences of integers, a shot's coordinates are numbers or none; the
numbers of an int are more than twice those of the board) and `SystemAssumption`
(clicks are on the board, there is a fleet to start with, bounds are numbers).

In ShipsServerProofs and ShipsServerLobbyProofs all theorems but `TypeCorrect` and
`SocketsCorrect` also assume `~Relogin`: the C code does not refuse a second
`login_req`. With clients that send one TLC finds six of the nine properties
violated; and as a second login under a lost player's name frees a struct that may
still have a seat, what the model says of such clients afterwards is what the struct
held, not what the memory may be used for. The same reservation applies to
`TypeCorrect` and `SocketsCorrect` when `Relogin` holds.

**Layout of the proofs.** An *effect lemma* says what a helper or handler does
field by field, a *frame lemma* what a part of the invariant does not depend on,
and then there is one lemma per action, which a last one puts together, one case
per disjunct of `Next`. Invariants are proved of their strengthening, below.

**ShipsServer.** Types are not inductive alone: a handler runs on `clients[f]`, and
only if every open socket has a struct that points back to it are its writes writes
to a struct; so `SessionInv` joins types and `SocketsConsistent`. `invalid_count` is
bounded because a count that reaches the limit closes the socket in the same step
and a resumed one is cleared.

`ServerInv` adds one part for each room in use (`RoomOK`: two different seats, whose
players are registered and point back, one of them connected; a waiting room has one
player, a started one a `PairOK` of states, player numbers and what each was told of
the other), for each name (`PlayerOK`: the struct carries the name, is connected
exactly if a socket leads to it, and sits in a room in use if its state says so), for
each open socket (`SocketOK`: the client was told its state; without a login the
struct is nobody else's), and the count and ids of rooms. None of the properties is
inductive without the others: whether the loss of a connection keeps `Turn` or
`NoAbandonedRoom` depends on where the opponent points, and whether a resume does
depends on the struct that the name leads to. As each part speaks of one room, name or
socket, a handler has to be looked at only at the rooms, names and sockets it
touches; the frame lemmas do the others. `PlayersCounted` compares the counter of
players with the sockets that are logged in. Both counts carry the finiteness of the
set they count, so that the sets in the constants may be infinite.

The refinement of Lobby reads `Session`, `Phase` and `Rival` of a name through
`players`, says of every handler which names it changes in which of the three, and
concludes the step of Lobby from that. Resuming a seat as it was left is the case in
which all three but the session stay.

**RoomList.** `ListInv` says that there are two sequences of positions without
repetition that `next` follows from `first` and from `empty`, which together have as
many members as the array has entries, and that the first has the rooms. Positions
replace induction along a list: insertion and deletion are shifts of a sequence.
That all indices are in one of the lists follows from their number.

**HashMap.** What `ht_put` and `ht_remove` do is proved of one chain first (names in
it differ and belong to the bucket), then of the table, where chains do not
interfere. `HashInv` also says what the iterator of `ht_clear` may rely on: it stands
on the head of a chain, and the chains before it are empty.

**Ships.** `cmd_game_prepared` reads a layout square by square. The invariant of its
loop (`Reading`, or `Refused`) says that each ship built so far covers exactly the
squares before the next one that show its number, in a line without a gap, and that
squares of different ships do not touch: four neighbours are enough because the
others have not been read. Induction over the characters is the least-number
principle (`NatMin`) applied to the first round at which the invariant would fail;
`ReadLayout` is a recursive function over positions, of which only its defining
equation is needed. The result is `Placed`, a fleet on its board; shots keep
`Afloat`, in which a square of a ship shows its number or a hit, the health is the
number of squares not hit, and around a sunk ship there is no unopened water.

**Match.** `MatchInv` adds to the types which states the two players can be in
together (`Phases`) and, for each player whose layout was accepted, that the fleet is
`Afloat` and that the opponent's count is the number of its sunk ships, below the
size of the fleet (`Sides`). The refinement of Duel takes the squares of a ship from
its struct and what is opened from the board; `ShotOpens` says that a shot with the
marking it causes opens in the one what it opens in the other.

**Layouts.** That no unlawful layout is accepted is the loop's invariant. That no
lawful one is refused takes the first character that is refused: in a lawful layout
its ship so far is a line, the square continues it (`LineContinues`), and no
neighbour read before belongs to another ship. Independence of what is on the board
compares two readings that agree on the squares read so far (`Alike`). The client
searches the run of hits through the last square; `RunIsShip` proves that run to be
the sunk ship, whatever else is hit, as no other ship touches it and its direction
can be seen from a neighbouring hit if it has more than one square.

**Editor.** `EditorInv` says that exactly the ships placed so far are on the board,
each on the squares that its position and direction say, and no two touch
(`Edited`). Every operation of GameModel is removal (`TakeDoes`) and placing of a
ship where it is free (`PutDoes`); `CanPlaceIsFree` is why it suffices to look at the
first square of a vertical ship, and `FreeCanPlace` why a ship that has just been
removed can be put back. `ReadyIsAccepted` then follows from `FleetsAccepted`'s
lemma: an edited fleet is complete, and complete layouts are accepted.

Some definitions are written so that they can be proved about: `ReadLayout` as a
recursive function rather than a fold, the refinement mapping of Match through
operators (`FleetsSeen`, `OpenedSeen`, `OnTurn`, `Over`, `WinnerSeen`).

**System.** `SystemTypes` and `SystemPlaysDuel` ask nothing of threads and users.
The server's half of a step is an action of Match, so each step is one that
`MatchInv` and the refinement of Duel have been proved for, or leaves the game alone
(`SysStepPlays`); in particular a shot that arrives twice, late, or out of turn is
refused by the handlers alone.

`BoardsAgree` and `TurnAgrees` speak of a client that has read everything, and no
step preserves them by itself: reading the last message makes a client quiet, and
whether it then agrees depends on what had been sent. The inductive invariant
(`SysInv`) therefore says at every moment what will come of the messages on their
way. For a client that the server has in a game (`Playing`), `Final` applies to what
the client shows, first the one action its window has to do and then the messages to
be read, at most two; the result is the scene of the game, the status that fits the
player's state, the player's own board and what is opened of the opponent's
(`Faithful`). While the boards are still to be asked for, or the answer is to come
(`InfoDue`, after a login), only the scene need agree, as `game_info_data` will
replace the rest. What keeps this so are the orders in which messages can come:
a login or a new game starts them (`Opening`), a user's request waits alone
(`Ordered`), and a fleet is replaced only before it has been accepted (`Sketching`).
For a client that the server has in the lobby (`Ended`), `game_end` is to come or
was seen, and only refusals follow. `Lines` says what a lost connection may still
deliver. The invariant is one row per player, `Agrees`; a step of the reader, the
window, the user or the line changes one row, and a step of the server the row of the
player served, by an answer, and that of the opponent, by a notice. Each kind of
change is a lemma about one row; the lemmas about Match say what the boards become on
both sides of a shot. `SysInv` also has `Unshot`, as `game_info_data` during the
preparation shows an enemy board without shots.

The hypotheses `Prompt` and `Patient` are constants of System. Without either the
properties are false (see above), so they are hypotheses of these theorems and not of
the first two. TLC checks `AllAgree` in `system`, where one connection or client is
lost; the theorem is for any number of losses, in any order, on any board.

**Only model-checked.** Liveness (`HangupNoticed`, `AbandonedRoomsReaped`,
`TurnArrives`, `ResumeArrives`) and the absence of deadlock: the proof system has no
rules for fairness and `ENABLED`. The properties of the runs that show a difference
do not hold.

## What is not modelled

- *Undefined behaviour without a set of outcomes:* the growth of the array of
  clients, which frees the server struct (`server.c:283`); the buffers of
  `room_list_data` (`commands.c:251`) and `game_info_data` (`commands.c:1080`).
- *`send` to a reset connection*, which raises SIGPIPE and ends the server
  (`main.c:227`): nothing is left to state a property of.
- *A request split over two segments*: the part would be taken for a message, like
  a joined one; `joined` shows the hazard with whole lines.
- *The Java client outside of a game*: lists of rooms, joining and creating, logout,
  dialogs, drawing; the count of invalid messages; the reader's going on after an
  exception of the socket (`Receiver.java:76`), which queues further closings.
- *Options, trace, statistics, SIGINT*, apart from the clearing of the table of
  names; `server_free`, `arraylist_free`.

## Plan

Done, in this order: ShipsServer (sockets, sessions, rooms, turns), Ships and
Match, RoomList, HashMap, the first theorems; then GameModel and Editor, System,
Framing, and the abstract specifications Duel and Lobby; then the theorems about
ShipsServer, RoomList, HashMap, Match, Layouts and Editor and the four refinements;
last those about System.

What could follow: the lobby's messages in System, so that a game is created and
joined by the two clients and ShipsServer itself is the server between them; and the
reader that goes on after an exception (`Receiver.java:76`).
