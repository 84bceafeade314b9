--------------------------- MODULE OrderedPipeline ---------------------------
(***************************************************************************)
(* What a connection promises its client (README: "Requests on one         *)
(* connection are processed in order (ordered pipelining)"), without       *)
(* buffers, handles or threads: the lines the client sends are executed    *)
(* one at a time, each once and whole, in the order sent, and each reply   *)
(* goes out before the next line is executed; until the connection goes    *)
(* down, and nothing more is executed then.                                *)
(***************************************************************************)
EXTENDS Integers, Sequences, FiniteSets

CONSTANTS Conns, SilentCommands

VARIABLES
  stream,    \* what each client sent: is byte p a newline?
  lines,     \* the lines executed, a byte being its position in stream
  inFlight,  \* the last of them is being executed or answered
  replies,   \* the lines answered
  up         \* the connection serves its client

vars == <<stream, lines, inFlight, replies, up>>

\* The positions of the k-th line, between two newlines.
NewlinesUpTo(s, p) == {q \in 1 .. p : s[q]}
EndOfLine(s, k) ==
  IF k = 0 THEN 0
  ELSE CHOOSE p \in DOMAIN s : s[p] /\ Cardinality(NewlinesUpTo(s, p)) = k
HasLine(s, k) == k <= Cardinality(NewlinesUpTo(s, Len(s)))
Line(s, k) ==
  LET start == EndOfLine(s, k - 1)
  IN  [i \in 1 .. EndOfLine(s, k) - start - 1 |-> start + i]

Init ==
  /\ stream = [c \in Conns |-> <<>>]
  /\ lines = [c \in Conns |-> <<>>]
  /\ inFlight = [c \in Conns |-> FALSE]
  /\ replies = [c \in Conns |-> <<>>]
  /\ up = [c \in Conns |-> TRUE]

Send(c) ==
  /\ \E newline \in BOOLEAN : stream' = [stream EXCEPT ![c] = Append(@, newline)]
  /\ UNCHANGED <<lines, inFlight, replies, up>>

TakeNext(c) ==
  LET k == Len(lines[c]) + 1
  IN  /\ up[c] /\ HasLine(stream[c], k)
      /\ lines' = [lines EXCEPT ![c] = Append(@, Line(stream[c], k))]
      /\ inFlight' = [inFlight EXCEPT ![c] = TRUE]
      /\ UNCHANGED up

GoesIdle(c) ==
  /\ inFlight' = [inFlight EXCEPT ![c] = FALSE]
  /\ UNCHANGED lines
  /\ up' \in {up, [up EXCEPT ![c] = FALSE]}

Take(c) ==
  /\ ~inFlight[c]
  /\ TakeNext(c)
  /\ UNCHANGED <<stream, replies>>

\* The reply goes out and the next line, if it is there, may be taken.
Reply(c) ==
  /\ inFlight[c]
  /\ replies' = [replies EXCEPT ![c] = Append(@, Len(lines[c]))]
  /\ TakeNext(c) \/ GoesIdle(c)
  /\ UNCHANGED stream

\* A line without reply: the command has none, or nobody is there to read it.
NoReply(c) ==
  /\ inFlight[c]
  /\ GoesIdle(c)
  /\ SilentCommands \/ ~up'[c]
  /\ UNCHANGED <<stream, replies>>

Drop(c) ==
  /\ up' = [up EXCEPT ![c] = FALSE]
  /\ UNCHANGED <<stream, lines, inFlight, replies>>

Next == \E c \in Conns : Send(c) \/ Take(c) \/ Reply(c) \/ NoReply(c) \/ Drop(c)
Spec == Init /\ [][Next]_vars
=============================================================================
