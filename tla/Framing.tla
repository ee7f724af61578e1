------------------------------ MODULE Framing ------------------------------
(***************************************************************************)
(* From the bytes of one connection to the calls of handlers: the client   *)
(* writes each request as a line, server_listen receives whatever has      *)
(* arrived, and process_message takes that for one message.  A text is a   *)
(* sequence of tokens, the words between the characters that matter.       *)
(***************************************************************************)
EXTENDS Naturals, SequencesExt

CONSTANTS
  Requests,      \* what the client sends, each the words of a line, at least one
  Newline,       \* what println ends a line with: LF, or CR and LF
  MaxTogether,   \* how many lines one recv may return
  MaxSent        \* bound: requests sent

SEP == ";"
LF  == "LF"
CR  == "CR"
NUL == "NUL"

VARIABLES
  sent,          \* all requests so far
  stream,        \* those that the server has not received
  handled,       \* the calls of handlers
  invalid,       \* client->invalid_count
  open           \* the server has the connection

vars == <<sent, stream, handled, invalid, open>>

COMMANDS ==
  {"login_req", "room_create_req", "room_list_req", "room_join_req",
   "room_leave_req", "game_prepared", "game_fire_req", "game_info_req",
   "logout_req"}

MAX_INVALID_MESSAGES == 5

\* A request on the wire; getMyBoardStringForm ends a board with a null character.
Line(r) ==
  Tail(FlattenSeq([i \in DOMAIN r |-> <<SEP, r[i]>>]))
    \o (IF r[1] = "game_prepared" THEN <<NUL>> ELSE <<>>) \o Newline

-----------------------------------------------------------------------------
(* process_message *)

\* What the functions on strings see of a buffer.
CString(buf) ==
  LET ends == {i \in DOMAIN buf : buf[i] = NUL}
  IN IF ends = {} THEN buf ELSE SubSeq(buf, 1, Min(ends) - 1)

\* The newline at the end, or all from a carriage return one before the end, and
\* then one separator at the end.
Chomp(text, end) ==
  IF IsSuffix(<<end>>, text) THEN Front(text) ELSE text

Trimmed(buf) ==
  LET text == CString(buf)
      n    == Len(text)
  IN Chomp(IF n > 1 /\ text[n - 1] = CR THEN SubSeq(text, 1, n - 2)
           ELSE Chomp(text, LF), SEP)

\* strtok: the texts between separators, without the empty ones.
Fields(text) ==
  LET Step(fields, token) ==
        IF token = SEP THEN Append(fields, <<>>)
        ELSE Append(Front(fields), Append(Last(fields), token))
  IN SelectSeq(FoldLeft(Step, << <<>> >>, text), LAMBDA field : field # <<>>)

\* The type and argv; line ends in the middle of a field are part of it.
process_message(buf) == Fields(Trimmed(buf))

get_handler(type) == type \in {<<command>> : command \in COMMANDS}

-----------------------------------------------------------------------------
Init ==
  /\ sent = <<>> /\ stream = <<>> /\ handled = <<>>
  /\ invalid = 0 /\ open = TRUE

Send(r) ==
  /\ Len(sent) < MaxSent
  /\ sent' = Append(sent, r)
  /\ stream' = IF open THEN Append(stream, r) ELSE stream
  /\ UNCHANGED <<handled, invalid, open>>

\* recv returns the lines that have arrived; small ones are hardly ever cut, and
\* a part of one would be taken for a message, too.
Receive ==
  /\ open
  /\ \E n \in 1 .. Min({Len(stream), MaxTogether}) :
       LET message == process_message(FlattenSeq([i \in 1 .. n |-> Line(stream[i])]))
       IN /\ stream' = SubSeq(stream, n + 1, Len(stream))
          /\ IF get_handler(message[1])
             THEN /\ handled' = Append(handled, message)
                  /\ invalid' = 0 /\ open' = TRUE
             ELSE /\ handled' = handled
                  /\ invalid' = invalid + 1
                  /\ open' = (invalid' < MAX_INVALID_MESSAGES)
  /\ UNCHANGED sent

Next == Receive \/ \E r \in Requests : Send(r)

Spec == Init /\ [][Next]_vars

-----------------------------------------------------------------------------
(* What must hold *)

\* The documentation: each message is a line.  Whatever the client has sent in
\* lines has been handled as it was sent, or has still to be received.
LinesAreMessages ==
  LET Messages(lines) ==
        [i \in DOMAIN lines |-> [j \in DOMAIN lines[i] |-> <<lines[i][j]>>]]
  IN open => handled \o Messages(stream) = Messages(sent)
=============================================================================
