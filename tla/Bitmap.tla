------------------------------- MODULE Bitmap -------------------------------
(***************************************************************************)
(* What the bit commands promise (README: "behaving like the Redis bit     *)
(* commands"), without files, descriptors or buffers: a bitmap per key,    *)
(* and every command atomic.                                               *)
(***************************************************************************)
EXTENDS Bytes

CONSTANTS
  Keys,
  Workers,
  Requests,         \* the commands clients may send
  FILE_SIZE_LIMIT,  \* bytes a bitmap may have ("2G - 1")
  AllocFails,       \* whether memory may be short
  FilesystemFails   \* whether files may fail to be made or opened

VARIABLES
  store,   \* the bitmap of each key
  answer   \* what each worker answered last: the request and its reply

vars == <<store, answer>>

ERR == -1

\* The bytes start..end of a key of n bytes: negative positions count from the
\* end, and none precedes the first byte.
Position(x, n) == IF x < 0 THEN Larger(0, n + x) ELSE x
InRange(q, n, o) ==
  LET end == IF q.end = NULL THEN -1 ELSE q.end
  IN  /\ ~(q.start < 0 /\ end < 0 /\ q.start > end)
      /\ Position(q.start, n) <= o /\ o <= Position(end, n)

Longest(srcs) == CHOOSE n \in {Len(store[srcs[i]]) : i \in DOMAIN srcs} :
                   \A i \in DOMAIN srcs : Len(store[srcs[i]]) <= n

OpResult(q) ==
  [o \in 1 .. Longest(q.srcs) |->
     Combine(q.option, [i \in DOMAIN q.srcs |-> ByteAt(store[q.srcs[i]], o - 1)])]

\* The bitmaps after q.  Setting a bit to 0 beyond the end does nothing.
After(q) ==
  CASE q.op = "SETBIT" ->
         LET old == ByteAt(store[q.key], q.byte)
             new == IF q.value = 1 THEN old \cup {q.bit} ELSE old \ {q.bit}
         IN  IF q.value = 0 /\ q.byte >= Len(store[q.key]) THEN store
             ELSE [store EXCEPT ![q.key] = WriteAt(@, q.byte, <<new>>)]
    [] q.op = "BITOP" /\ q.hook = "NONE" -> [store EXCEPT ![q.dest] = OpResult(q)]
    [] OTHER -> store

\* The reply to q: the old bit; a count; the length of BITOP's result.
Reply(q) ==
  CASE q.op \in {"SETBIT", "GETBIT"} ->
         IF q.bit \in ByteAt(store[q.key], q.byte) THEN 1 ELSE 0
    [] q.op = "BITCOUNT" ->
         Cardinality({p \in Ones(store[q.key]) : InRange(q, Len(store[q.key]), p[1])})
    [] q.op = "BITOP" /\ q.hook = "COUNTOP" -> PopCount(OpResult(q))
    [] OTHER -> Len(OpResult(q))

TooFar(q) == q.op \in {"SETBIT", "GETBIT"} /\ q.byte >= FILE_SIZE_LIMIT

Init ==
  /\ store \in [Keys -> Seq(Byte)]
  /\ answer = [w \in Workers |-> NULL]

Begin(w) ==
  /\ answer' = [answer EXCEPT ![w] = NULL]
  /\ UNCHANGED store

Execute(w, q) ==
  /\ answer[w] = NULL /\ ~TooFar(q)
  /\ answer' = [answer EXCEPT ![w] = <<q, Reply(q)>>]
  /\ store' = After(q)

\* A command is refused for its offset, or because something failed; it changes
\* nothing.
Refuse(w, q) ==
  /\ answer[w] = NULL
  /\ TooFar(q) \/ (AllocFails /\ q.op \in {"BITCOUNT", "BITOP"}) \/ FilesystemFails
  /\ answer' = [answer EXCEPT ![w] = <<q, ERR>>]
  /\ UNCHANGED store

Next == \E w \in Workers : Begin(w) \/ \E q \in Requests : Execute(w, q) \/ Refuse(w, q)
Spec == Init /\ [][Next]_vars
=============================================================================
