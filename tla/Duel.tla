-------------------------------- MODULE Duel --------------------------------
(***************************************************************************)
(* What a game promises its players, without boards, characters, counters  *)
(* and ships that are built square by square: two hidden fleets, the       *)
(* squares opened of each, whose turn it is and who has won.  Module Match *)
(* implements it.                                                          *)
(***************************************************************************)
EXTENDS Integers

CONSTANTS
  Size,        \* squares in a row and in a column
  Ship,        \* the ships of a fleet
  Length,      \* how many squares each has
  Player, First, \* two players, and the one who begins
  Nobody       \* the winner of a game that has not ended, and of one that both left

Squares == (0 .. Size - 1) \X (0 .. Size - 1)

VARIABLES
  fleet,       \* the squares of the ships of each player, NoFleet before that
  opened,      \* the squares of each player that the opponent knows
  turn,        \* the player who is to fire, Nobody before both are ready
  over,
  winner

duelVars == <<fleet, opened, turn, over, winner>>

Other(p) == CHOOSE q \in Player : q # p
NoFleet  == [s \in Ship |-> {}]

Near(a, b) == a[1] - b[1] \in -1 .. 1 /\ a[2] - b[2] \in -1 .. 1

\* The rows and columns of n squares.
Lines(n) ==
  {{<<c[1] + k, c[2]>> : k \in 0 .. n - 1} : c \in Squares}
    \cup {{<<c[1], c[2] + k>> : k \in 0 .. n - 1} : c \in Squares}

\* All ships in their lengths, on the board and nowhere next to one another.
LawfulFleets ==
  {f \in [Ship -> UNION {Lines(Length[s]) : s \in Ship}] :
     /\ \A s \in Ship : f[s] \in Lines(Length[s]) /\ f[s] \subseteq Squares
     /\ \A s, t \in Ship : s # t =>
          \A a \in f[s], b \in f[t] : ~Near(a, b)}

DuelInit ==
  /\ fleet = [p \in Player |-> NoFleet]
  /\ opened = [p \in Player |-> {}]
  /\ turn = Nobody /\ winner = Nobody /\ over = FALSE

\* A fleet is placed once; the game begins with the second one.
Place(p) ==
  /\ ~over /\ turn = Nobody /\ fleet[p] = NoFleet
  /\ fleet'[p] \in LawfulFleets
  /\ fleet' = [fleet EXCEPT ![p] = fleet'[p]]
  /\ turn' = IF fleet[Other(p)] = NoFleet THEN Nobody ELSE First
  /\ UNCHANGED <<opened, over, winner>>

Around(squares) == {c \in Squares : \E a \in squares : Near(a, c)}

\* A shot opens a square that was closed, and with the last square of a ship all
\* around it.  It passes the turn, or wins with the last ship.
Fire(p) ==
  LET o     == Other(p)
      ships == {fleet[o][s] : s \in Ship}
  IN /\ turn = p /\ turn' # p
     /\ \E c \in opened'[o] \ opened[o] :
          LET shot == opened[o] \cup {c}
              sunk == {squares \in ships : squares \subseteq shot}
          IN /\ opened' = [opened EXCEPT
                             ![o] = shot \cup UNION {Around(s) : s \in sunk}]
             /\ over' = (sunk = ships)
             /\ IF over' THEN turn' = Nobody /\ winner' = p
                ELSE turn' = o /\ UNCHANGED winner
     /\ UNCHANGED fleet

\* A player leaves, or both are lost: a game that is not decided by shots.
Abandon ==
  /\ ~over /\ over'
  /\ turn' = Nobody /\ winner' \in Player \cup {Nobody}
  /\ UNCHANGED <<fleet, opened>>

DuelNext ==
  \/ \E p \in Player : Place(p) \/ Fire(p)
  \/ Abandon

DuelSpec == DuelInit /\ [][DuelNext]_duelVars
=============================================================================
