-------------------------- MODULE ConnectionProofs --------------------------
(***************************************************************************)
(* Proofs about Connection, for any connections, pool size, buffer sizes   *)
(* and failures: types and life cycle; then what it does to the lines a    *)
(* client sends: however the network cuts them, the commands executed are  *)
(* the lines, one at a time and in order, and so are the replies; and with *)
(* that, Connection implements OrderedPipeline.                            *)
(***************************************************************************)
EXTENDS Connection, FiniteSetTheorems, TLAPS

-----------------------------------------------------------------------------
(* Types.                                                                  *)

\* maybe_close, with or without the assignment to closing before it, keeps the
\* types of handle and closing.
LEMMA ClosingTypes ==
  ASSUME TypeOK, NEW c \in Conns,
         \/ Teardown(c)
         \/ maybe_close(c) /\ UNCHANGED closing
         \/ UNCHANGED <<handle, closing>>
  PROVE  /\ handle' \in [Conns -> {"none", "open", "closing", "freed", "aborted"}]
         /\ closing' \in [Conns -> BOOLEAN]
BY DEF TypeOK, Teardown, maybe_close, uv_close

\* A request that moves on to another stage is still a request.
LEMMA MovedTypes ==
  ASSUME works \subseteq Work, NEW w \in works, NEW stage \in Stages
  PROVE  Moved(w, stage) \subseteq Work
<1>1. [w EXCEPT !.stage = stage] \in Work
  BY DEF Work
<1> QED BY <1>1 DEF Moved

\* What dispatch_line leaves behind, given a buffer and requests of their types.
LEMMA DispatchTypes ==
  ASSUME TypeOK, NEW c \in Conns, NEW buf \in Seq(Nat), NEW rest \in SUBSET Work,
         dispatch_line(c, buf, rest)
  PROVE  /\ handle' \in [Conns -> {"none", "open", "closing", "freed", "aborted"}]
         /\ busy' \in [Conns -> BOOLEAN]
         /\ closing' \in [Conns -> BOOLEAN]
         /\ rbuf' \in [Conns -> Seq(Nat)]
         /\ works' \subseteq Work
         /\ dispatched' \in [Conns -> Seq(Seq(Nat))]
<1>1. PICK i \in DOMAIN buf :
        /\ rbuf' = [rbuf EXCEPT ![c] = AfterLine(buf, i)]
        /\ \/ /\ busy' = [busy EXCEPT ![c] = TRUE]
              /\ dispatched' = [dispatched EXCEPT ![c] = Append(@, SubSeq(buf, 1, i - 1))]
              /\ works' = rest \cup {[conn |-> c, no |-> Len(dispatched[c]) + 1,
                                      stage |-> "queued", silent |-> FALSE]}
              /\ UNCHANGED <<handle, closing>>
           \/ /\ busy' = [busy EXCEPT ![c] = FALSE]
              /\ works' = rest
              /\ Teardown(c)
              /\ UNCHANGED dispatched
  BY DEF dispatch_line
<1>2. /\ i \in 1 .. Len(buf)
      /\ AfterLine(buf, i) \in Seq(Nat)
      /\ SubSeq(buf, 1, i - 1) \in Seq(Nat)
  BY DEF AfterLine
<1>3. [conn |-> c, no |-> Len(dispatched[c]) + 1,
       stage |-> "queued", silent |-> FALSE] \in Work
  BY DEF TypeOK, Work, Stages
<1>4. /\ handle' \in [Conns -> {"none", "open", "closing", "freed", "aborted"}]
      /\ closing' \in [Conns -> BOOLEAN]
  BY <1>1, ClosingTypes
<1>5. dispatched' \in [Conns -> Seq(Seq(Nat))]
  <2> DEFINE line == SubSeq(buf, 1, i - 1)
  <2>1. line \in Seq(Nat)
    BY <1>2
  <2>2. \/ dispatched' = [dispatched EXCEPT ![c] = Append(@, line)]
        \/ dispatched' = dispatched
    BY <1>1
  <2> HIDE DEF line
  <2>3. Append(dispatched[c], line) \in Seq(Seq(Nat))
    BY <2>1 DEF TypeOK
  <2> QED BY <2>2, <2>3 DEF TypeOK
<1> QED
  BY <1>1, <1>2, <1>3, <1>4, <1>5 DEF TypeOK

\* Every variable keeps its type under every callback, thread and client step.
THEOREM TypeCorrect == Spec => []TypeOK
<1>1. Init => TypeOK
  BY ConnectionAssumption DEF Init, TypeOK
<1>2. TypeOK /\ [Next]_vars => TypeOK'
  <2> SUFFICES ASSUME TypeOK, [Next]_vars PROVE TypeOK'
    OBVIOUS
  <2>1. CASE UNCHANGED vars
    BY <2>1 DEF TypeOK, vars, connVars, clientVars, history
  <2>2. CASE Next
    <3> PICK c \in Conns : Client(c) \/ Server(c)
      BY <2>2 DEF Next
    <3>1. ASSUME NEW newline \in BOOLEAN, Send(c, newline) PROVE TypeOK'
      BY <3>1 DEF TypeOK, Send, connVars, history
    <3>2. CASE HangUp(c)
      BY <3>2 DEF TypeOK, HangUp, connVars, history
    <3>3. CASE on_connection(c)
      BY <3>3 DEF TypeOK, on_connection, clientVars, history
    <3>4. ASSUME NEW n \in 1 .. READ_CHUNK, on_read_data(c, n) PROVE TypeOK'
      <4> DEFINE new == [i \in 1 .. n |-> taken[c] + i]
      <4> DEFINE buf == rbuf[c] \o new
      <4>1. n \in Nat
        BY ConnectionAssumption
      <4>2. new \in Seq(Nat)
        BY <4>1 DEF TypeOK
      <4>3. buf \in Seq(Nat)
        BY <4>2 DEF TypeOK
      <4>4. rcap' \in [Conns -> Nat]
        BY <3>4, ConnectionAssumption DEF TypeOK, on_read_data, Capacities
      <4>5. taken' \in [Conns -> Nat]
        BY <3>4, <4>1 DEF TypeOK, on_read_data
      <4>6. \/ dispatch_line(c, buf, works)
            \/ /\ rbuf' = [rbuf EXCEPT ![c] = buf]
               /\ UNCHANGED <<handle, busy, closing, works, dispatched>>
        BY <3>4 DEF on_read_data
      <4>7. /\ handle' \in [Conns -> {"none", "open", "closing", "freed", "aborted"}]
            /\ busy' \in [Conns -> BOOLEAN]
            /\ closing' \in [Conns -> BOOLEAN]
            /\ rbuf' \in [Conns -> Seq(Nat)]
            /\ works' \subseteq Work
            /\ dispatched' \in [Conns -> Seq(Seq(Nat))]
        <5>1. CASE dispatch_line(c, buf, works)
          <6> HIDE DEF buf
          <6> works \in SUBSET Work
            BY DEF TypeOK
          <6> QED BY <5>1, <4>3, DispatchTypes
        <5>2. CASE /\ rbuf' = [rbuf EXCEPT ![c] = buf]
                   /\ UNCHANGED <<handle, busy, closing, works, dispatched>>
          <6> HIDE DEF buf
          <6> QED BY <5>2, <4>3 DEF TypeOK
        <5> QED BY <4>6, <5>1, <5>2
      <4> QED BY <3>4, <4>4, <4>5, <4>7 DEF TypeOK, on_read_data
    <3>5. ASSUME NEW n \in 1 .. READ_CHUNK, on_read_dropped(c, n) PROVE TypeOK'
      BY <3>5, ClosingTypes, ConnectionAssumption DEF TypeOK, on_read_dropped, history
    <3>6. CASE on_read_failed(c)
      BY <3>6, ClosingTypes DEF TypeOK, on_read_failed, clientVars, history
    <3>7. ASSUME NEW w \in WorksOf(c), after_work_cb(w) PROVE TypeOK'
      <4>1. w.conn = c /\ w \in works
        BY <3>7 DEF WorksOf
      <4>2. works' \subseteq Work
        BY <3>7, <4>1, MovedTypes DEF TypeOK, after_work_cb, Stages
      <4>3. busy' \in [Conns -> BOOLEAN]
        BY <3>7, <4>1 DEF TypeOK, after_work_cb
      <4>4. /\ handle' \in [Conns -> {"none", "open", "closing", "freed", "aborted"}]
            /\ closing' \in [Conns -> BOOLEAN]
        BY <3>7, <4>1, ClosingTypes DEF after_work_cb
      <4> QED BY <3>7, <4>2, <4>3, <4>4 DEF TypeOK, after_work_cb, clientVars, history
    <3>8. ASSUME NEW w \in WorksOf(c), on_write_done(w) PROVE TypeOK'
      <4>1. w.conn = c /\ w \in works /\ w \in Work
        BY <3>8 DEF WorksOf, TypeOK
      <4>2. replies' \in [Conns -> Seq(Nat)]
        BY <3>8, <4>1 DEF TypeOK, on_write_done, Work
      <4>3. CASE dispatch_line(c, rbuf[c], works \ {w})
        <5>1. rbuf[c] \in Seq(Nat) /\ works \ {w} \in SUBSET Work
          BY DEF TypeOK
        <5>2. /\ handle' \in [Conns -> {"none", "open", "closing", "freed", "aborted"}]
              /\ busy' \in [Conns -> BOOLEAN]
              /\ closing' \in [Conns -> BOOLEAN]
              /\ rbuf' \in [Conns -> Seq(Nat)]
              /\ works' \subseteq Work
              /\ dispatched' \in [Conns -> Seq(Seq(Nat))]
          BY <4>3, <5>1, DispatchTypes
        <5>3. UNCHANGED <<listening, reading, rcap, clientVars>>
          BY <3>8 DEF on_write_done
        <5> QED BY <4>2, <5>2, <5>3 DEF TypeOK, clientVars
      <4>4. CASE /\ busy' = [busy EXCEPT ![c] = FALSE]
                 /\ works' = works \ {w}
                 /\ UNCHANGED <<closing, rbuf, dispatched>>
                 /\ maybe_close(c)
        BY <3>8, <4>2, <4>4, ClosingTypes DEF TypeOK, on_write_done, clientVars
      <4> QED BY <3>8, <4>1, <4>3, <4>4 DEF on_write_done
    <3>9. ASSUME NEW w \in WorksOf(c), on_write_failed(w) PROVE TypeOK'
      <4>1. w.conn = c /\ w \in works
        BY <3>9 DEF WorksOf
      <4> QED BY <3>9, <4>1, ClosingTypes DEF TypeOK, on_write_failed, clientVars, history
    <3>10. CASE on_close(c)
      BY <3>10 DEF TypeOK, on_close, clientVars, history
    <3>11. ASSUME NEW w \in WorksOf(c), StartWork(w) PROVE TypeOK'
      <4>1. works' \subseteq Work
        BY <3>11, MovedTypes DEF TypeOK, StartWork, Stages
      <4> QED BY <3>11, <4>1 DEF TypeOK, StartWork, connVars, clientVars, history
    <3>12. ASSUME NEW w \in WorksOf(c), work_cb(w) PROVE TypeOK'
      <4>1. w \in Work /\ {FALSE, SilentCommands} \subseteq BOOLEAN
        BY <3>12, ConnectionAssumption DEF TypeOK, WorksOf
      <4>2. works' \subseteq Work
        BY <3>12, <4>1 DEF TypeOK, work_cb, Work, Stages
      <4> QED BY <3>12, <4>2 DEF TypeOK, work_cb, connVars, clientVars, history
    <3> QED
      BY <3>1, <3>2, <3>3, <3>4, <3>5, <3>6, <3>7, <3>8, <3>9, <3>10, <3>11, <3>12
      DEF Client, Server, OnRead, AfterWork, OnWrite, Start, Run
  <2> QED BY <2>1, <2>2
<1> QED BY <1>1, <1>2, PTL DEF Spec

-----------------------------------------------------------------------------
(* The life of a connection and of its requests.                           *)

\* What the four safety properties say of one connection.  Together they are
\* inductive: each step of a request relies on the handle being open while
\* there is one, each uv_close on there being none.
LifecycleOf(c) ==
  /\ busy[c] <=> WorksOf(c) # {}
  /\ \A v, w \in WorksOf(c) : v = w
  /\ handle[c] # "aborted"
  /\ handle[c] # "open" => WorksOf(c) = {}
  /\ closing[c] /\ ~busy[c] => handle[c] \in {"closing", "freed"}

Lifecycle == \A c \in Conns : LifecycleOf(c)

\* A step of connection c leaves the others as they are.
OthersKept(c) ==
  \A d \in Conns \ {c} :
    /\ handle'[d] = handle[d] /\ busy'[d] = busy[d] /\ closing'[d] = closing[d]
    /\ WorksOf(d)' = WorksOf(d)

\* So only c has to be looked at.
LEMMA LifecycleLocal ==
  ASSUME Lifecycle, NEW c \in Conns, OthersKept(c), LifecycleOf(c)'
  PROVE  Lifecycle'
BY DEF Lifecycle, LifecycleOf, OthersKept

\* A connection with a request has that one only, and is open and busy.
LEMMA OnlyRequest ==
  ASSUME Lifecycle, NEW c \in Conns, NEW w \in WorksOf(c)
  PROVE  /\ w \in works /\ w.conn = c
         /\ WorksOf(c) = {w} /\ busy[c] /\ handle[c] = "open"
BY DEF Lifecycle, LifecycleOf, WorksOf

\* A request ends: its connection has none left.
LEMMA RequestEnds ==
  ASSUME Lifecycle, NEW c \in Conns, NEW w \in WorksOf(c), works' = works \ {w}
  PROVE  WorksOf(c)' = {} /\ \A d \in Conns \ {c} : WorksOf(d)' = WorksOf(d)
<1>1. w.conn = c /\ WorksOf(c) = {w}
  BY OnlyRequest
<1> QED BY <1>1 DEF WorksOf

\* A request becomes another one of the same connection.
LEMMA RequestReplaced ==
  ASSUME Lifecycle, NEW c \in Conns, NEW w \in WorksOf(c),
         NEW v, v.conn = c, works' = (works \ {w}) \cup {v}
  PROVE  WorksOf(c)' = {v} /\ \A d \in Conns \ {c} : WorksOf(d)' = WorksOf(d)
<1>1. w.conn = c /\ WorksOf(c) = {w}
  BY OnlyRequest
<1> QED BY <1>1 DEF WorksOf

\* Moving to another stage or changing the reply keeps the connection.
LEMMA SameConnection ==
  ASSUME NEW w \in Work, NEW stage \in Stages, NEW silent \in BOOLEAN
  PROVE  /\ [w EXCEPT !.stage = stage].conn = w.conn
         /\ [w EXCEPT !.stage = stage, !.silent = silent].conn = w.conn
BY DEF Work

\* With nothing in flight afterwards, an open connection is closed by
\* maybe_close when it is closing and stays open when it is not.
LEMMA IdleLifecycle ==
  ASSUME TypeOK, NEW c \in Conns, handle[c] = "open",
         closing' \in [Conns -> BOOLEAN], ~busy'[c], WorksOf(c)' = {}, maybe_close(c)
  PROVE  LifecycleOf(c)'
BY DEF TypeOK, LifecycleOf, maybe_close, uv_close

\* maybe_close and the assignments before it concern one connection.
LEMMA ClosingLocal ==
  ASSUME TypeOK, NEW c \in Conns,
         \/ Teardown(c)
         \/ maybe_close(c) /\ UNCHANGED closing
         \/ UNCHANGED <<handle, closing>>
  PROVE  \A d \in Conns \ {c} : handle'[d] = handle[d] /\ closing'[d] = closing[d]
BY DEF TypeOK, Teardown, maybe_close, uv_close

\* Tearing down an open connection: at once, or once its request is over.
LEMMA TeardownLifecycle ==
  ASSUME TypeOK, NEW c \in Conns, handle[c] = "open", Teardown(c),
         busy'[c] <=> WorksOf(c)' # {}, \A v, w \in WorksOf(c)' : v = w
  PROVE  LifecycleOf(c)'
BY DEF TypeOK, LifecycleOf, Teardown, maybe_close, uv_close

\* dispatch_line on an open connection without a request: it has one after, or
\* is torn down.
LEMMA DispatchLifecycle ==
  ASSUME TypeOK, NEW c \in Conns, handle[c] = "open", ~closing[c],
         NEW buf, NEW rest, dispatch_line(c, buf, rest),
         {w \in rest : w.conn = c} = {},
         \A d \in Conns \ {c} : {w \in rest : w.conn = d} = WorksOf(d)
  PROVE  LifecycleOf(c)' /\ OthersKept(c)
<1> DEFINE new == [conn |-> c, no |-> Len(dispatched[c]) + 1,
                   stage |-> "queued", silent |-> FALSE]
<1>1. CASE /\ busy' = [busy EXCEPT ![c] = TRUE]
           /\ works' = rest \cup {new}
           /\ UNCHANGED <<handle, closing>>
  <2>1. WorksOf(c)' = {new} /\ \A d \in Conns \ {c} : WorksOf(d)' = WorksOf(d)
    BY <1>1 DEF WorksOf
  <2> QED BY <1>1, <2>1 DEF TypeOK, LifecycleOf, OthersKept
<1>2. CASE /\ busy' = [busy EXCEPT ![c] = FALSE]
           /\ works' = rest
           /\ Teardown(c)
  <2>1. WorksOf(c)' = {} /\ \A d \in Conns \ {c} : WorksOf(d)' = WorksOf(d)
    BY <1>2 DEF WorksOf
  <2>2. ~busy'[c] /\ \A d \in Conns \ {c} : busy'[d] = busy[d]
    BY <1>2 DEF TypeOK
  <2>3. LifecycleOf(c)'
    BY <1>2, <2>1, <2>2, TeardownLifecycle
  <2>4. \A d \in Conns \ {c} : handle'[d] = handle[d] /\ closing'[d] = closing[d]
    BY <1>2, ClosingLocal
  <2> QED BY <2>1, <2>2, <2>3, <2>4 DEF OthersKept
<1>3. \/ /\ busy' = [busy EXCEPT ![c] = TRUE]
         /\ works' = rest \cup {new}
         /\ UNCHANGED <<handle, closing>>
      \/ /\ busy' = [busy EXCEPT ![c] = FALSE]
         /\ works' = rest
         /\ Teardown(c)
  <2> HIDE DEF new
  <2>1. PICK i \in DOMAIN buf :
          \/ /\ busy' = [busy EXCEPT ![c] = TRUE]
             /\ works' = rest \cup {new}
             /\ UNCHANGED <<handle, closing>>
          \/ /\ busy' = [busy EXCEPT ![c] = FALSE]
             /\ works' = rest
             /\ Teardown(c)
    BY Zenon DEF dispatch_line, new
  <2> QED BY <2>1
<1> HIDE DEF new
<1> QED BY <1>1, <1>2, <1>3, Zenon

\* The loop, the pool and the client together keep the life cycle intact.
LEMMA LifecycleStep == TypeOK /\ Lifecycle /\ [Next]_vars => Lifecycle'
<1> SUFFICES ASSUME TypeOK, Lifecycle, [Next]_vars PROVE Lifecycle'
  OBVIOUS
<1>1. CASE UNCHANGED vars
  BY <1>1 DEF Lifecycle, LifecycleOf, WorksOf, vars, connVars
<1>2. CASE Next
  <2> PICK c \in Conns : Client(c) \/ Server(c)
    BY <1>2 DEF Next
  <2>1. CASE Client(c)
    BY <2>1 DEF Client, Send, HangUp, Lifecycle, LifecycleOf, WorksOf, connVars
  <2>2. CASE on_connection(c)
    <3>1. UNCHANGED <<busy, closing, works>> /\ \A d \in Conns : WorksOf(d)' = WorksOf(d)
      BY <2>2 DEF on_connection, WorksOf
    <3>2. handle[c] = "none" /\ WorksOf(c) = {} /\ ~busy[c] /\ ~closing[c]
      BY <2>2 DEF on_connection, Lifecycle, LifecycleOf
    <3>3. /\ handle'[c] \in {"none", "open", "closing"}
          /\ \A d \in Conns \ {c} : handle'[d] = handle[d]
      BY <2>2, <3>2 DEF on_connection, TypeOK
    <3>4. LifecycleOf(c)'
      BY <3>1, <3>2, <3>3 DEF LifecycleOf
    <3>5. OthersKept(c)
      BY <3>1, <3>3 DEF OthersKept
    <3> QED BY <3>4, <3>5, LifecycleLocal
  <2>3. ASSUME NEW n \in 1 .. READ_CHUNK, on_read_data(c, n) PROVE Lifecycle'
    <3> DEFINE buf == rbuf[c] \o [i \in 1 .. n |-> taken[c] + i]
    <3>1. CASE /\ MayDispatch(c)
               /\ dispatch_line(c, buf, works)
      <4>1. handle[c] = "open" /\ ~busy[c] /\ ~closing[c]
        BY <2>3, <3>1 DEF on_read_data, CanRead, MayDispatch
      <4>2. /\ {w \in works : w.conn = c} = {}
            /\ \A d \in Conns \ {c} : {w \in works : w.conn = d} = WorksOf(d)
        BY <4>1 DEF Lifecycle, LifecycleOf, WorksOf
      <4> HIDE DEF buf
      <4> QED BY <3>1, <4>1, <4>2, DispatchLifecycle, LifecycleLocal
    <3>2. CASE UNCHANGED <<handle, busy, closing, works, dispatched>>
      BY <3>2 DEF Lifecycle, LifecycleOf, WorksOf
    <3> QED BY <2>3, <3>1, <3>2 DEF on_read_data
  <2>4. CASE \/ \E n \in 1 .. READ_CHUNK : on_read_dropped(c, n)
             \/ on_read_failed(c)
    <3>1. handle[c] = "open" /\ Teardown(c) /\ UNCHANGED <<busy, works>>
      BY <2>4 DEF on_read_dropped, on_read_failed, CanRead
    <3>2. \A d \in Conns : WorksOf(d)' = WorksOf(d)
      BY <3>1 DEF WorksOf
    <3>3. LifecycleOf(c)'
      BY <3>1, <3>2, TeardownLifecycle DEF Lifecycle, LifecycleOf
    <3>4. OthersKept(c)
      BY <3>1, <3>2, ClosingLocal DEF OthersKept
    <3> QED BY <3>3, <3>4, LifecycleLocal
  <2>5. ASSUME NEW w \in WorksOf(c), after_work_cb(w) PROVE Lifecycle'
    <3>1. /\ w \in works /\ w \in Work /\ w.conn = c
          /\ WorksOf(c) = {w} /\ busy[c] /\ handle[c] = "open"
      BY OnlyRequest DEF TypeOK
    <3>2. CASE works' = Moved(w, "writing") /\ UNCHANGED <<handle, busy, closing>>
      <4> DEFINE v == [w EXCEPT !.stage = "writing"]
      <4>1. works' = (works \ {w}) \cup {v}
        BY <3>2 DEF Moved
      <4>2. v.conn = c
        BY <3>1, SameConnection DEF Stages
      <4> HIDE DEF v
      <4>3. WorksOf(c)' = {v} /\ \A d \in Conns \ {c} : WorksOf(d)' = WorksOf(d)
        BY <4>1, <4>2, RequestReplaced
      <4> QED BY <3>1, <3>2, <4>3, LifecycleLocal DEF Lifecycle, LifecycleOf, OthersKept
    <3>3. CASE /\ busy' = [busy EXCEPT ![c] = FALSE] /\ works' = works \ {w}
               /\ Teardown(c) \/ (UNCHANGED closing /\ maybe_close(c))
      <4>1. WorksOf(c)' = {} /\ \A d \in Conns \ {c} : WorksOf(d)' = WorksOf(d)
        BY <3>3, RequestEnds
      <4>2. ~busy'[c] /\ \A d \in Conns \ {c} : busy'[d] = busy[d]
        BY <3>3 DEF TypeOK
      <4>3. maybe_close(c) /\ closing' \in [Conns -> BOOLEAN]
        BY <3>3, ClosingTypes DEF Teardown
      <4>4. LifecycleOf(c)'
        BY <3>1, <4>1, <4>2, <4>3, IdleLifecycle
      <4>5. OthersKept(c)
        BY <3>3, <4>1, <4>2, ClosingLocal DEF OthersKept
      <4> QED BY <4>4, <4>5, LifecycleLocal
    <3> QED BY <2>5, <3>1, <3>2, <3>3 DEF after_work_cb
  <2>6. ASSUME NEW w \in WorksOf(c), on_write_done(w) PROVE Lifecycle'
    <3>1. w.conn = c /\ WorksOf(c) = {w} /\ handle[c] = "open"
      BY OnlyRequest
    <3>2. CASE ~closing[c] /\ dispatch_line(c, rbuf[c], works \ {w})
      <4>1. /\ {v \in works \ {w} : v.conn = c} = {}
            /\ \A d \in Conns \ {c} : {v \in works \ {w} : v.conn = d} = WorksOf(d)
        BY <3>1 DEF WorksOf
      <4> QED BY <3>1, <3>2, <4>1, DispatchLifecycle, LifecycleLocal
    <3>3. CASE /\ busy' = [busy EXCEPT ![c] = FALSE] /\ works' = works \ {w}
               /\ UNCHANGED closing /\ maybe_close(c)
      <4>1. WorksOf(c)' = {} /\ \A d \in Conns \ {c} : WorksOf(d)' = WorksOf(d)
        BY <3>3, RequestEnds
      <4>2. ~busy'[c] /\ \A d \in Conns \ {c} : busy'[d] = busy[d]
        BY <3>3 DEF TypeOK
      <4>3. closing' \in [Conns -> BOOLEAN]
        BY <3>3 DEF TypeOK
      <4>4. LifecycleOf(c)'
        BY <3>1, <3>3, <4>1, <4>2, <4>3, IdleLifecycle
      <4>5. OthersKept(c)
        BY <3>3, <4>1, <4>2, ClosingLocal DEF OthersKept
      <4> QED BY <4>4, <4>5, LifecycleLocal
    <3> QED BY <2>6, <3>1, <3>2, <3>3 DEF on_write_done
  <2>7. ASSUME NEW w \in WorksOf(c), on_write_failed(w) PROVE Lifecycle'
    <3>1. w.conn = c /\ handle[c] = "open"
      BY OnlyRequest
    <3>2. busy' = [busy EXCEPT ![c] = FALSE] /\ works' = works \ {w} /\ Teardown(c)
      BY <2>7, <3>1 DEF on_write_failed
    <3>3. WorksOf(c)' = {} /\ \A d \in Conns \ {c} : WorksOf(d)' = WorksOf(d)
      BY <3>2, RequestEnds
    <3>4. ~busy'[c] /\ \A d \in Conns \ {c} : busy'[d] = busy[d]
      BY <3>2 DEF TypeOK
    <3>5. LifecycleOf(c)'
      BY <3>1, <3>2, <3>3, <3>4, TeardownLifecycle
    <3>6. OthersKept(c)
      <4>1. \A d \in Conns \ {c} : handle'[d] = handle[d] /\ closing'[d] = closing[d]
        BY <3>2, ClosingLocal
      <4> QED BY <3>3, <3>4, <4>1 DEF OthersKept
    <3> QED BY <3>5, <3>6, LifecycleLocal
  <2>8. CASE on_close(c)
    <3>1. /\ handle[c] = "closing" /\ handle' = [handle EXCEPT ![c] = "freed"]
          /\ UNCHANGED <<busy, closing, works>>
      BY <2>8 DEF on_close
    <3>2. \A d \in Conns : WorksOf(d)' = WorksOf(d)
      BY <3>1 DEF WorksOf
    <3>3. handle'[c] = "freed" /\ \A d \in Conns \ {c} : handle'[d] = handle[d]
      BY <3>1 DEF TypeOK
    <3>4. LifecycleOf(c)
      BY DEF Lifecycle
    <3>5. LifecycleOf(c)'
      BY <3>1, <3>2, <3>3, <3>4 DEF LifecycleOf
    <3>6. OthersKept(c)
      BY <3>1, <3>2, <3>3 DEF OthersKept
    <3> QED BY <3>5, <3>6, LifecycleLocal
  <2>9. ASSUME NEW w \in WorksOf(c), StartWork(w) \/ work_cb(w) PROVE Lifecycle'
    <3>1. w \in Work /\ w.conn = c /\ WorksOf(c) = {w}
      BY OnlyRequest DEF TypeOK
    <3>2. PICK v : v.conn = c /\ works' = (works \ {w}) \cup {v}
      <4>1. CASE StartWork(w)
        BY <3>1, <4>1, SameConnection DEF StartWork, Moved, Stages
      <4>2. CASE work_cb(w)
        <5>1. PICK silent \in {FALSE, SilentCommands} :
                works' = (works \ {w}) \cup {[w EXCEPT !.stage = "over", !.silent = silent]}
          BY <4>2 DEF work_cb
        <5>2. silent \in BOOLEAN
          BY <5>1, ConnectionAssumption
        <5> QED BY <3>1, <5>1, <5>2, SameConnection DEF Stages
      <4> QED BY <2>9, <4>1, <4>2
    <3>3. WorksOf(c)' = {v} /\ \A d \in Conns \ {c} : WorksOf(d)' = WorksOf(d)
      BY <3>2, RequestReplaced
    <3>4. UNCHANGED <<handle, busy, closing>>
      BY <2>9 DEF StartWork, work_cb, connVars
    <3> QED BY <3>1, <3>3, <3>4, LifecycleLocal DEF Lifecycle, LifecycleOf, OthersKept
  <2> QED
    BY <2>1, <2>2, <2>3, <2>4, <2>5, <2>6, <2>7, <2>8, <2>9
    DEF Server, OnRead, AfterWork, OnWrite, Start, Run
<1> QED BY <1>1, <1>2

\* In every reachable state the requests, busy, closing and the handle of each
\* connection fit together: one request at a time, held for as long as busy is
\* set; uv_close once, with nothing in flight; no closing connection forgotten.
THEOREM LifecycleCorrect ==
  Spec => [](BusyIffInFlight /\ ClosedOnce /\ ClosedWhenIdle /\ ClosingIsClosed)
<1>1. Init => Lifecycle
  BY DEF Init, Lifecycle, LifecycleOf, WorksOf
<1>2. Lifecycle => BusyIffInFlight /\ ClosedOnce /\ ClosedWhenIdle /\ ClosingIsClosed
  BY DEF Lifecycle, LifecycleOf, BusyIffInFlight, ClosedOnce, ClosedWhenIdle, ClosingIsClosed
<1> QED BY <1>1, <1>2, TypeCorrect, LifecycleStep, PTL DEF Spec

-----------------------------------------------------------------------------
(* The read buffer.                                                        *)

\* Taking the first line out of a buffer that fits leaves one that fits.
LEMMA DispatchShrinks ==
  ASSUME TypeOK, NEW c \in Conns, NEW buf \in Seq(Nat), NEW rest,
         dispatch_line(c, buf, rest)
  PROVE  /\ Len(rbuf'[c]) < Len(buf)
         /\ \A d \in Conns \ {c} : rbuf'[d] = rbuf[d]
<1>1. PICK i \in DOMAIN buf : rbuf' = [rbuf EXCEPT ![c] = AfterLine(buf, i)]
  BY DEF dispatch_line
<1>2. i \in 1 .. Len(buf) /\ Len(AfterLine(buf, i)) = Len(buf) - i
  BY DEF AfterLine
<1> QED BY <1>1, <1>2 DEF TypeOK

\* memcpy never writes past rcap, and rcap never passes RBUF_MAX_CAP.
THEOREM BufferCorrect == Spec => []BufferBounded
<1>1. Init => BufferBounded
  BY ConnectionAssumption DEF Init, BufferBounded
<1>2. TypeOK /\ BufferBounded /\ [Next]_vars => BufferBounded'
  <2> SUFFICES ASSUME TypeOK, BufferBounded, [Next]_vars PROVE BufferBounded'
    OBVIOUS
  <2>1. CASE UNCHANGED <<rbuf, rcap>>
    BY <2>1 DEF BufferBounded
  <2>2. ASSUME NEW c \in Conns, NEW n \in 1 .. READ_CHUNK, on_read_data(c, n)
        PROVE  BufferBounded'
    <3> DEFINE new == [i \in 1 .. n |-> taken[c] + i]
    <3> DEFINE buf == rbuf[c] \o new
    <3>1. new \in Seq(Nat)
      <4>1. n \in Nat
        BY ConnectionAssumption
      <4> QED BY <4>1 DEF TypeOK
    <3>2. buf \in Seq(Nat)
      <4> HIDE DEF new
      <4> QED BY <3>1 DEF TypeOK
    <3>3. PICK cap \in Capacities :
            MakesRoom(c, Len(buf), cap) /\ rcap' = [rcap EXCEPT ![c] = cap]
      BY <2>2 DEF on_read_data
    <3>4. \/ dispatch_line(c, buf, works)
          \/ rbuf' = [rbuf EXCEPT ![c] = buf]
      BY <2>2 DEF on_read_data
    <3> HIDE DEF buf
    <3>5. Len(rbuf'[c]) <= Len(buf) /\ \A d \in Conns \ {c} : rbuf'[d] = rbuf[d]
      <4>1. Len(buf) \in Nat
        BY <3>2
      <4>2. CASE dispatch_line(c, buf, works)
        <5>1. rbuf' \in [Conns -> Seq(Nat)]
          BY <4>2, <3>2, DispatchTypes DEF TypeOK
        <5> QED BY <4>1, <4>2, <5>1, <3>2, DispatchShrinks
      <4>3. CASE rbuf' = [rbuf EXCEPT ![c] = buf]
        BY <4>1, <4>3 DEF TypeOK
      <4> QED BY <3>4, <4>2, <4>3
    <3>6. Len(buf) <= cap /\ cap \in Nat /\ cap <= RBUF_MAX_CAP
      BY <3>3, ConnectionAssumption DEF MakesRoom, Capacities
    <3>7. Len(rbuf'[c]) \in Nat
      <4>1. rbuf' \in [Conns -> Seq(Nat)]
        BY <3>2, <3>4, DispatchTypes DEF TypeOK
      <4> QED BY <4>1
    <3>8. Len(rbuf'[c]) <= cap
      BY <3>2, <3>5, <3>6, <3>7
    <3> QED BY <3>3, <3>5, <3>6, <3>8 DEF TypeOK, BufferBounded
  <2>3. ASSUME NEW c \in Conns, NEW w \in WorksOf(c), on_write_done(w)
        PROVE  BufferBounded'
    <3>1. w.conn = c /\ rcap' = rcap
      BY <2>3 DEF WorksOf, on_write_done
    <3>2. CASE dispatch_line(c, rbuf[c], works \ {w})
      <4>1. /\ rbuf' \in [Conns -> Seq(Nat)]
            /\ Len(rbuf'[c]) < Len(rbuf[c])
            /\ \A d \in Conns \ {c} : rbuf'[d] = rbuf[d]
        <5>1. rbuf[c] \in Seq(Nat) /\ works \ {w} \in SUBSET Work
          BY DEF TypeOK
        <5> QED BY <3>2, <5>1, DispatchTypes, DispatchShrinks
      <4>2. Len(rbuf'[c]) \in Nat /\ Len(rbuf[c]) \in Nat /\ rcap[c] \in Nat
        BY <4>1 DEF TypeOK
      <4>3. Len(rbuf'[c]) <= rcap[c]
        BY <4>1, <4>2 DEF BufferBounded
      <4> QED BY <3>1, <4>1, <4>3 DEF BufferBounded
    <3>3. CASE UNCHANGED rbuf
      BY <3>1, <3>3 DEF BufferBounded
    <3> QED BY <2>3, <3>1, <3>2, <3>3 DEF on_write_done
  <2> QED
    BY <2>1, <2>2, <2>3
    DEF Next, vars, connVars, Client, Server, Send, HangUp, on_connection, OnRead,
        on_read_dropped, on_read_failed, Start, StartWork, Run, work_cb,
        AfterWork, after_work_cb, OnWrite, on_write_failed, on_close
<1> QED BY <1>1, <1>2, TypeCorrect, PTL DEF Spec

-----------------------------------------------------------------------------
(* Counting newlines.                                                      *)

\* Finitely many, whatever the client sends.
LEMMA NewlinesFinite ==
  ASSUME NEW c \in Conns, NEW p \in Int
  PROVE  /\ IsFiniteSet(NewlinesUpTo(c, p))
         /\ Cardinality(NewlinesUpTo(c, p)) \in Nat
<1>1. IsFiniteSet(1 .. p)
  BY FS_Interval
<1>2. NewlinesUpTo(c, p) \in SUBSET (1 .. p)
  BY DEF NewlinesUpTo
<1> HIDE DEF NewlinesUpTo
<1>3. IsFiniteSet(NewlinesUpTo(c, p))
  BY <1>1, <1>2, FS_Subset
<1> QED BY <1>3, FS_CardinalityType

\* The first newline behind s makes one more.
LEMMA NextNewline ==
  ASSUME NEW c \in Conns, NEW s \in Nat, NEW p \in Nat, s < p,
         stream[c][p], \A q \in s + 1 .. p - 1 : ~stream[c][q]
  PROVE  Cardinality(NewlinesUpTo(c, p)) = Cardinality(NewlinesUpTo(c, s)) + 1
<1>1. NewlinesUpTo(c, p) = NewlinesUpTo(c, s) \cup {p} /\ p \notin NewlinesUpTo(c, s)
  BY DEF NewlinesUpTo
<1>2. IsFiniteSet(NewlinesUpTo(c, s))
  BY NewlinesFinite
<1> HIDE DEF NewlinesUpTo
<1> QED BY <1>1, <1>2, FS_AddElement

-----------------------------------------------------------------------------
(* The buffer and the lines.                                               *)

\* Where in the stream the buffer of c begins.
Begin(c) == taken[c] - Len(rbuf[c])

\* The buffer holds the bytes received behind the last line dispatched, so long
\* as the connection is not going away (bytes are dropped then).
Follows(c) ==
  /\ Len(rbuf[c]) <= taken[c]
  /\ \A i \in DOMAIN rbuf[c] : rbuf[c][i] = Begin(c) + i
  /\ Begin(c) = 0 \/ stream[c][Begin(c)]
  /\ Cardinality(NewlinesUpTo(c, Begin(c))) = Len(dispatched[c])

FramingOf(c) ==
  /\ taken[c] <= Len(stream[c])
  /\ ~closing[c] => Follows(c)
  /\ \A k \in DOMAIN dispatched[c] : IsLine(c, k, dispatched[c][k])

Framing == \A c \in Conns : FramingOf(c)

\* What FramingOf looks at.
SameFraming(c) ==
  /\ taken'[c] = taken[c] /\ stream'[c] = stream[c] /\ rbuf'[c] = rbuf[c]
  /\ dispatched'[c] = dispatched[c]
  /\ closing[c] => closing'[c]

\* Nothing happens to what the client sent to c.
LEMMA FramingKept ==
  ASSUME NEW c \in Conns, FramingOf(c), SameFraming(c)
  PROVE  FramingOf(c)'
<1>1. /\ taken'[c] = taken[c] /\ stream'[c] = stream[c] /\ rbuf'[c] = rbuf[c]
      /\ dispatched'[c] = dispatched[c]
  BY DEF SameFraming
<1>2. \A p : NewlinesUpTo(c, p)' = NewlinesUpTo(c, p)
  BY <1>1 DEF NewlinesUpTo
<1>3. Follows(c) => Follows(c)'
  BY <1>1, <1>2 DEF Follows, Begin
<1>4. ASSUME NEW k, NEW line, IsLine(c, k, line) PROVE IsLine(c, k, line)'
  BY <1>1, <1>2, <1>4 DEF IsLine
<1>5. \A k \in DOMAIN dispatched'[c] : IsLine(c, k, dispatched[c][k])'
  BY <1>1, <1>4 DEF FramingOf
<1> QED BY <1>1, <1>3, <1>5 DEF FramingOf, SameFraming

\* The client sends another byte: the lines before are what they were.
LEMMA FramingSent ==
  ASSUME TypeOK, NEW c \in Conns, FramingOf(c), NEW newline \in BOOLEAN, Send(c, newline)
  PROVE  FramingOf(c)'
<1>1. /\ stream' = [stream EXCEPT ![c] = Append(@, newline)]
      /\ UNCHANGED <<taken, rbuf, closing, dispatched>>
  BY DEF Send, connVars, history
<1>2. /\ stream[c] \in Seq(BOOLEAN)
      /\ stream'[c] = Append(stream[c], newline)
      /\ taken[c] \in Nat /\ rbuf[c] \in Seq(Nat)
  BY <1>1 DEF TypeOK
<1>3. /\ Len(stream'[c]) = Len(stream[c]) + 1
      /\ \A q \in 1 .. Len(stream[c]) : stream'[c][q] = stream[c][q]
  BY <1>2
<1>4. ASSUME NEW p \in Int, p <= Len(stream[c])
      PROVE  NewlinesUpTo(c, p)' = NewlinesUpTo(c, p)
  BY <1>2, <1>3, <1>4 DEF NewlinesUpTo
<1>5. ~closing[c] => Follows(c)'
  <2> SUFFICES ASSUME ~closing[c] PROVE Follows(c)'
    OBVIOUS
  <2>1. Begin(c) \in Nat /\ Begin(c) <= Len(stream[c]) /\ Begin(c)' = Begin(c)
    BY <1>1, <1>2 DEF FramingOf, Follows, Begin
  <2>2. NewlinesUpTo(c, Begin(c))' = NewlinesUpTo(c, Begin(c))
    BY <2>1, <1>2, <1>3 DEF NewlinesUpTo
  <2>3. Begin(c)' = 0 \/ stream'[c][Begin(c)']
    BY <2>1, <1>3 DEF FramingOf, Follows
  <2> QED BY <1>1, <2>1, <2>2, <2>3 DEF FramingOf, Follows
<1>6. ASSUME NEW k, NEW line, line \in Seq(Nat), IsLine(c, k, line)
      PROVE  IsLine(c, k, line)'
  <2>1. PICK p \in DOMAIN stream[c] :
    /\ stream[c][p] /\ Cardinality(NewlinesUpTo(c, p)) = k
    /\ Len(line) < p
    /\ \A i \in DOMAIN line : line[i] = p - 1 - Len(line) + i /\ ~stream[c][line[i]]
    /\ p - 1 - Len(line) = 0 \/ stream[c][p - 1 - Len(line)]
    BY <1>6 DEF IsLine
  <2>2. p \in 1 .. Len(stream[c]) /\ p \in DOMAIN stream'[c] /\ stream'[c][p]
    BY <1>2, <1>3, <2>1
  <2>3. Cardinality(NewlinesUpTo(c, p))' = k
    BY <1>4, <2>1, <2>2
  <2>4. ASSUME NEW i \in DOMAIN line
        PROVE  line[i] = p - 1 - Len(line) + i /\ ~stream'[c][line[i]]
    <3>1. i \in 1 .. Len(line) /\ Len(line) \in Nat /\ p \in Nat
      BY <1>6, <2>2
    <3>2. line[i] \in 1 .. Len(stream[c])
      BY <2>1, <2>2, <3>1
    <3> QED BY <1>3, <2>1, <3>2
  <2>5. p - 1 - Len(line) = 0 \/ stream'[c][p - 1 - Len(line)]
    <3>1. Len(line) \in Nat /\ p \in Nat
      BY <1>6, <2>2
    <3>2. p - 1 - Len(line) = 0 \/ p - 1 - Len(line) \in 1 .. Len(stream[c])
      BY <2>1, <2>2, <3>1
    <3> QED BY <1>3, <2>1, <3>2
  <2> QED BY <2>1, <2>2, <2>3, <2>4, <2>5 DEF IsLine
<1>7. \A k \in DOMAIN dispatched'[c] : IsLine(c, k, dispatched[c][k])'
  BY <1>1, <1>6 DEF TypeOK, FramingOf
<1> QED BY <1>1, <1>2, <1>3, <1>5, <1>7 DEF FramingOf

\* A line behind the lines dispatched so far.
LEMMA AppendedLine ==
  ASSUME NEW s \in Seq(Seq(Nat)), NEW line \in Seq(Nat), NEW t, t = Append(s, line)
  PROVE  /\ Len(t) = Len(s) + 1
         /\ DOMAIN t = 1 .. Len(s) + 1
         /\ t[Len(s) + 1] = line
         /\ \A k \in 1 .. Len(s) : t[k] = s[k]
OBVIOUS

\* The two pieces a buffer is cut into at its i-th byte.
LEMMA Pieces ==
  ASSUME NEW buf \in Seq(Nat), NEW i \in 1 .. Len(buf)
  PROVE  /\ SubSeq(buf, 1, i - 1) \in Seq(Nat)
         /\ Len(SubSeq(buf, 1, i - 1)) = i - 1
         /\ \A j \in 1 .. i - 1 : SubSeq(buf, 1, i - 1)[j] = buf[j]
         /\ AfterLine(buf, i) \in Seq(Nat)
         /\ Len(AfterLine(buf, i)) = Len(buf) - i
         /\ \A j \in 1 .. Len(buf) - i : AfterLine(buf, i)[j] = buf[i + j]
<1>1. Len(buf) \in Nat /\ i \in Nat
  OBVIOUS
<1>2. SubSeq(buf, 1, i - 1) = [j \in 1 .. i - 1 |-> buf[j]]
  BY <1>1
<1>3. AfterLine(buf, i) = [j \in 1 .. Len(buf) - i |-> buf[i + j]]
  BY <1>1 DEF AfterLine
<1>4. SubSeq(buf, 1, i - 1) \in Seq(Nat) /\ AfterLine(buf, i) \in Seq(Nat)
  BY <1>1 DEF AfterLine
<1>5. Len(SubSeq(buf, 1, i - 1)) = i - 1 /\ Len(AfterLine(buf, i)) = Len(buf) - i
  BY <1>1 DEF AfterLine
<1> QED BY <1>1, <1>2, <1>3, <1>4, <1>5

\* dispatch_line of the first line of what is there, the bytes from s on: it is
\* the next line of the stream, and the rest follows it.
LEMMA FramingDispatched ==
  ASSUME TypeOK, NEW c \in Conns, FramingOf(c), ~closing[c],
         NEW buf \in Seq(Nat), NEW rest, dispatch_line(c, buf, rest),
         taken'[c] \in Nat, taken'[c] <= Len(stream[c]), UNCHANGED stream,
         Len(buf) <= taken'[c], Begin(c) = taken'[c] - Len(buf),
         \A i \in DOMAIN buf : buf[i] = Begin(c) + i
  PROVE  FramingOf(c)'
<1> DEFINE s == Begin(c)
<1>1. PICK i \in DOMAIN buf :
        /\ FirstNewline(c, buf, i)
        /\ rbuf' = [rbuf EXCEPT ![c] = AfterLine(buf, i)]
        /\ \/ dispatched' = [dispatched EXCEPT ![c] = Append(@, SubSeq(buf, 1, i - 1))]
              /\ UNCHANGED closing
           \/ Teardown(c) /\ UNCHANGED dispatched
  BY DEF dispatch_line
<1> DEFINE p == s + i
           line == SubSeq(buf, 1, i - 1)
<1>2. /\ i \in 1 .. Len(buf) /\ Len(buf) \in Nat
      /\ s \in Nat /\ p \in Nat /\ s < p /\ p <= Len(stream[c]) /\ p = s + i
      /\ stream[c] \in Seq(BOOLEAN) /\ DOMAIN buf = 1 .. Len(buf)
  <2>1. i \in 1 .. Len(buf) /\ Len(buf) \in Nat /\ DOMAIN buf = 1 .. Len(buf)
    OBVIOUS
  <2>2. stream[c] \in Seq(BOOLEAN) /\ Len(stream[c]) \in Nat
    BY DEF TypeOK
  <2>3. s = taken'[c] - Len(buf) /\ p = s + i
    OBVIOUS
  <2> HIDE DEF s, p
  <2> QED BY <2>1, <2>2, <2>3
<1>3. stream[c][p] /\ \A q \in s + 1 .. p - 1 : ~stream[c][q]
  <2>1. stream[c][p]
    BY <1>1 DEF FirstNewline
  <2>2. ASSUME NEW q \in s + 1 .. p - 1 PROVE ~stream[c][q]
    <3> HIDE DEF s, p
    <3>1. q - s \in 1 .. Len(buf) /\ q - s < i /\ s + (q - s) = q
      BY <1>2
    <3>2. buf[q - s] = q
      BY <3>1, <1>2 DEF s
    <3> QED BY <1>1, <1>2, <3>1, <3>2 DEF FirstNewline
  <2> QED BY <2>1, <2>2
<1>4. line \in Seq(Nat) /\ Len(line) = i - 1 /\ \A j \in 1 .. i - 1 : line[j] = s + j
  <2>1. /\ line \in Seq(Nat) /\ Len(line) = i - 1
        /\ \A j \in 1 .. i - 1 : line[j] = buf[j]
    BY <1>2, Pieces
  <2>2. \A j \in 1 .. i - 1 : j \in DOMAIN buf
    BY <1>2
  <2> HIDE DEF line
  <2> QED BY <2>1, <2>2
<1> HIDE DEF s, p, line
<1>5. Cardinality(NewlinesUpTo(c, p)) = Len(dispatched[c]) + 1
  <2>1. Cardinality(NewlinesUpTo(c, s)) = Len(dispatched[c])
    BY DEF FramingOf, Follows, s
  <2>2. Cardinality(NewlinesUpTo(c, p)) = Cardinality(NewlinesUpTo(c, s)) + 1
    <3>1. s \in Nat /\ p \in Nat /\ s < p
      BY <1>2
    <3>2. stream[c][p] /\ \A q \in s + 1 .. p - 1 : ~stream[c][q]
      BY <1>3
    <3> QED BY <3>1, <3>2, NextNewline
  <2> QED BY <2>1, <2>2
<1>6. IsLine(c, Len(dispatched[c]) + 1, line)
  <2>1. p - 1 - Len(line) = s /\ Len(line) < p
    BY <1>2, <1>4
  <2>2. ASSUME NEW j \in DOMAIN line PROVE line[j] = s + j /\ ~stream[c][line[j]]
    <3>1. j \in 1 .. i - 1 /\ line[j] = s + j
      BY <1>4
    <3>2. s + j \in s + 1 .. p - 1
      <4>1. j \in 1 .. i - 1 /\ i \in Nat /\ s \in Nat /\ p = s + i
        BY <1>2, <3>1
      <4>2. \A a, b \in Nat : \A k \in 1 .. b - 1 : a + k \in a + 1 .. (a + b) - 1
        OBVIOUS
      <4> QED BY <4>1, <4>2
    <3> QED BY <1>3, <3>1, <3>2
  <2>3. s = 0 \/ stream[c][s]
    BY DEF FramingOf, Follows, s
  <2>4. p \in DOMAIN stream[c]
    BY <1>2
  <2> QED BY <1>3, <1>5, <2>1, <2>2, <2>3, <2>4 DEF IsLine
<1>7. \A q : NewlinesUpTo(c, q)' = NewlinesUpTo(c, q)
  BY DEF NewlinesUpTo
<1>8. ASSUME \A k \in DOMAIN dispatched'[c] : IsLine(c, k, dispatched'[c][k])
      PROVE  \A k \in DOMAIN dispatched'[c] : IsLine(c, k, dispatched[c][k])'
  BY <1>7, <1>8 DEF IsLine
<1>9. CASE /\ dispatched' = [dispatched EXCEPT ![c] = Append(@, line)]
           /\ UNCHANGED closing
  <2>1. /\ dispatched'[c] = Append(dispatched[c], line)
        /\ dispatched[c] \in Seq(Seq(Nat))
    BY <1>9 DEF TypeOK
  <2>2. /\ Len(dispatched'[c]) = Len(dispatched[c]) + 1
        /\ DOMAIN dispatched'[c] = 1 .. Len(dispatched[c]) + 1
        /\ dispatched'[c][Len(dispatched[c]) + 1] = line
        /\ \A k \in 1 .. Len(dispatched[c]) : dispatched'[c][k] = dispatched[c][k]
    <3>1. line \in Seq(Nat)
      BY <1>4
    <3> QED BY <2>1, <3>1, AppendedLine
  <2>3. \A k \in DOMAIN dispatched'[c] : IsLine(c, k, dispatched'[c][k])
    <3> SUFFICES ASSUME NEW k \in DOMAIN dispatched'[c]
                 PROVE  IsLine(c, k, dispatched'[c][k])
      OBVIOUS
    <3>1. Len(dispatched[c]) \in Nat /\ DOMAIN dispatched[c] = 1 .. Len(dispatched[c])
      BY <2>1
    <3>2. k \in 1 .. Len(dispatched[c]) \/ k = Len(dispatched[c]) + 1
      BY <2>2, <3>1
    <3>3. CASE k \in 1 .. Len(dispatched[c])
      <4>1. IsLine(c, k, dispatched[c][k])
        BY <3>1, <3>3 DEF FramingOf
      <4> QED BY <2>2, <3>3, <4>1
    <3>4. CASE k = Len(dispatched[c]) + 1
      BY <1>6, <2>2, <3>4
    <3> QED BY <3>2, <3>3, <3>4
  <2>4. Follows(c)'
    <3>1. rbuf'[c] = AfterLine(buf, i)
      BY <1>1 DEF TypeOK
    <3>2. /\ Len(rbuf'[c]) = Len(buf) - i
          /\ \A j \in 1 .. Len(buf) - i : rbuf'[c][j] = buf[i + j]
          /\ DOMAIN rbuf'[c] = 1 .. Len(buf) - i
      <4>1. AfterLine(buf, i) \in Seq(Nat) /\ Len(AfterLine(buf, i)) = Len(buf) - i
        BY <1>2, Pieces
      <4>2. \A j \in 1 .. Len(buf) - i : AfterLine(buf, i)[j] = buf[i + j]
        BY <1>2, Pieces
      <4> QED BY <3>1, <4>1, <4>2
    <3>3. Begin(c)' = p
      <4>1. Begin(c)' = taken'[c] - (Len(buf) - i) /\ s = taken'[c] - Len(buf)
        BY <3>2 DEF Begin, s
      <4> QED BY <1>2, <4>1
    <3>4. \A j \in DOMAIN rbuf'[c] : rbuf'[c][j] = p + j
      <4> SUFFICES ASSUME NEW j \in 1 .. Len(buf) - i PROVE rbuf'[c][j] = p + j
        BY <3>2
      <4>1. i + j \in DOMAIN buf /\ p + j = s + (i + j)
        <5>1. /\ i \in 1 .. Len(buf) /\ Len(buf) \in Nat /\ s \in Nat
              /\ p = s + i /\ DOMAIN buf = 1 .. Len(buf)
          BY <1>2
        <5>2. \A a, b \in Nat : \A k \in 1 .. a - b : b + k \in 1 .. a
          OBVIOUS
        <5>3. i + j \in 1 .. Len(buf) /\ i \in Nat /\ j \in Nat
          <6>1. i \in Nat
            BY <5>1
          <6> QED BY <5>1, <5>2, <6>1
        <5>4. p + j = s + (i + j)
          BY <5>1, <5>3
        <5> QED BY <5>1, <5>3, <5>4
      <4>2. buf[i + j] = s + (i + j)
        BY <4>1 DEF s
      <4> QED BY <3>2, <4>1, <4>2
    <3>5. Len(rbuf'[c]) <= taken'[c]
      <4>1. \A a, b, t \in Nat : a <= t => a - b <= t
        OBVIOUS
      <4>2. Len(buf) \in Nat /\ i \in Nat
        BY <1>2
      <4>3. taken'[c] \in Nat /\ Len(buf) <= taken'[c]
        OBVIOUS
      <4>4. Len(buf) - i <= taken'[c]
        <5> HIDE DEF AfterLine
        <5> QED BY <4>1, <4>2, <4>3
      <4> QED BY <3>2, <4>4
    <3>6. stream'[c][p]
      <4>1. stream[c][p]
        BY <1>3
      <4> QED BY <4>1
    <3>7. Cardinality(NewlinesUpTo(c, Begin(c)))' = Len(dispatched'[c])
      <4>1. NewlinesUpTo(c, Begin(c))' = NewlinesUpTo(c, p)
        BY <1>7, <3>3
      <4>2. Len(dispatched'[c]) = Len(dispatched[c]) + 1
        BY <2>2
      <4> QED BY <1>5, <4>1, <4>2
    <3> QED BY <3>3, <3>4, <3>5, <3>6, <3>7 DEF Follows
  <2> QED BY <1>8, <2>3, <2>4 DEF FramingOf
<1>10. CASE Teardown(c) /\ UNCHANGED dispatched
  <2>1. closing'[c]
    BY <1>10 DEF Teardown, TypeOK
  <2>2. \A k \in DOMAIN dispatched'[c] : IsLine(c, k, dispatched'[c][k])
    BY <1>10 DEF FramingOf
  <2> QED BY <1>8, <2>1, <2>2 DEF FramingOf
<1> QED BY <1>1, <1>9, <1>10 DEF line

\* The buffer with n bytes read; they continue those in it.
Joined(c, n) == rbuf[c] \o [i \in 1 .. n |-> taken[c] + i]

Continues(c, n, buf) ==
  /\ buf \in Seq(Nat) /\ n \in Nat
  /\ Len(buf) = Len(rbuf[c]) + n
  /\ Len(buf) <= taken[c] + n /\ Begin(c) = taken[c] + n - Len(buf)
  /\ \A i \in DOMAIN buf : buf[i] = Begin(c) + i

\* Sequences put together.
LEMMA Concatenated ==
  ASSUME NEW s \in Seq(Nat), NEW t \in Seq(Nat)
  PROVE  /\ s \o t \in Seq(Nat) /\ Len(s \o t) = Len(s) + Len(t)
         /\ \A i \in 1 .. Len(s) : (s \o t)[i] = s[i]
         /\ \A i \in 1 .. Len(t) : (s \o t)[Len(s) + i] = t[i]
OBVIOUS

\* What on_read has after the memcpy is the stream from Begin(c) on.
LEMMA ReadContinues ==
  ASSUME TypeOK, NEW c \in Conns, FramingOf(c), ~closing[c], NEW n \in 1 .. READ_CHUNK
  PROVE  Continues(c, n, Joined(c, n))
<1> DEFINE new == [i \in 1 .. n |-> taken[c] + i]
<1>1. n \in Nat
  BY ConnectionAssumption
<1>2. /\ rbuf[c] \in Seq(Nat) /\ taken[c] \in Nat
      /\ new \in Seq(Nat) /\ Len(new) = n /\ \A i \in 1 .. n : new[i] = taken[c] + i
  BY <1>1 DEF TypeOK
<1>3. Joined(c, n) = rbuf[c] \o new
  BY DEF Joined
<1>4. /\ Len(rbuf[c]) \in Nat /\ Len(rbuf[c]) <= taken[c]
      /\ \A i \in 1 .. Len(rbuf[c]) : rbuf[c][i] = Begin(c) + i
      /\ Begin(c) = taken[c] - Len(rbuf[c])
  BY <1>2 DEF FramingOf, Follows, Begin
<1>5. SUFFICES ASSUME NEW s \in Seq(Nat), s = rbuf[c],
                      NEW t \in Seq(Nat), t = new,
                      NEW buf, buf = Joined(c, n)
               PROVE  Continues(c, n, buf)
  BY <1>2
<1> HIDE DEF new
<1>6. /\ buf = s \o t
      /\ Len(s) \in Nat /\ Len(t) = n /\ taken[c] \in Nat /\ Len(s) <= taken[c]
      /\ \A i \in 1 .. n : t[i] = taken[c] + i
      /\ \A i \in 1 .. Len(s) : s[i] = Begin(c) + i
      /\ Begin(c) = taken[c] - Len(s)
  BY <1>2, <1>3, <1>4, <1>5
<1>7. buf \in Seq(Nat) /\ Len(buf) = Len(s) + n
  BY <1>6, Concatenated
<1>8. ASSUME NEW i \in DOMAIN buf PROVE buf[i] = Begin(c) + i
  <2>1. i \in 1 .. Len(s) + n
    BY <1>7
  <2>2. CASE i <= Len(s)
    BY <1>1, <1>6, <2>1, <2>2, Concatenated
  <2>3. CASE i > Len(s)
    <3>1. PICK j \in 1 .. n : i = Len(s) + j
      <4>1. \A a, b \in Nat : \A x \in 1 .. a + b : x > a
              => x - a \in 1 .. b /\ x = a + (x - a)
        OBVIOUS
      <4>2. Len(s) \in Nat /\ n \in Nat
        BY <1>1, <1>6
      <4> QED BY <2>1, <2>3, <4>1, <4>2
    <3>2. buf[i] = t[j]
      BY <1>6, <3>1, Concatenated
    <3>3. t[j] = taken[c] + j
      BY <1>6
    <3>4. taken[c] + j = Begin(c) + i
      <4>1. /\ taken[c] \in Nat /\ Len(s) \in Nat /\ j \in Nat
            /\ Begin(c) = taken[c] - Len(s)
        BY <1>6
      <4> QED BY <3>1, <4>1
    <3> QED BY <3>2, <3>3, <3>4
  <2> QED BY <1>1, <1>6, <2>1, <2>2, <2>3
<1>9. Len(buf) <= taken[c] + n /\ Begin(c) = taken[c] + n - Len(buf)
  BY <1>1, <1>6, <1>7
<1> QED BY <1>1, <1>5, <1>7, <1>8, <1>9 DEF Continues

\* A read with no line in it to dispatch, or on a connection in use.
LEMMA FramingReceived ==
  ASSUME TypeOK, NEW c \in Conns, FramingOf(c),
         NEW n \in 1 .. READ_CHUNK, taken[c] + n <= Len(stream[c]),
         taken' = [taken EXCEPT ![c] = @ + n],
         rbuf' = [rbuf EXCEPT ![c] = Joined(c, n)],
         UNCHANGED <<stream, closing, dispatched>>
  PROVE  FramingOf(c)'
<1> SUFFICES ASSUME NEW buf, buf = Joined(c, n) PROVE FramingOf(c)'
  OBVIOUS
<1>1. taken[c] \in Nat /\ taken'[c] = taken[c] + n /\ rbuf'[c] = buf
  BY DEF TypeOK
<1>2. \A q : NewlinesUpTo(c, q)' = NewlinesUpTo(c, q)
  BY DEF NewlinesUpTo
<1>3. \A k \in DOMAIN dispatched'[c] : IsLine(c, k, dispatched[c][k])'
  BY <1>2 DEF FramingOf, IsLine
<1>4. ~closing[c] => Follows(c)'
  <2> SUFFICES ASSUME ~closing[c] PROVE Follows(c)'
    OBVIOUS
  <2>1. /\ Len(buf) <= taken'[c] /\ Begin(c) = taken'[c] - Len(buf)
        /\ \A i \in DOMAIN buf : buf[i] = Begin(c) + i
    <3>1. Continues(c, n, buf)
      BY ReadContinues
    <3> QED BY <1>1, <3>1 DEF Continues
  <2>2. Begin(c)' = Begin(c)
    BY <1>1, <2>1 DEF Begin
  <2>3. /\ Begin(c) = 0 \/ stream[c][Begin(c)]
        /\ Cardinality(NewlinesUpTo(c, Begin(c))) = Len(dispatched[c])
    BY DEF FramingOf, Follows
  <2> QED BY <1>1, <1>2, <2>1, <2>2, <2>3 DEF Follows
<1> QED BY <1>1, <1>3, <1>4 DEF FramingOf

\* No callback disturbs the framing of any connection.
LEMMA FramingStep == TypeOK /\ Framing /\ [Next]_vars => Framing'
<1> SUFFICES ASSUME TypeOK, Framing, [Next]_vars, NEW d \in Conns PROVE FramingOf(d)'
  BY DEF Framing
<1>1. FramingOf(d)
  BY DEF Framing
<1>2. CASE UNCHANGED vars
  BY <1>1, <1>2, FramingKept DEF SameFraming, vars, connVars, clientVars, history
<1>3. CASE Next
  <2> PICK c \in Conns : Client(c) \/ Server(c)
    BY <1>3 DEF Next
  <2>1. ASSUME NEW newline \in BOOLEAN, Send(c, newline) PROVE FramingOf(d)'
    <3>1. CASE d = c
      BY <1>1, <2>1, <3>1, FramingSent
    <3>2. CASE d # c
      BY <1>1, <2>1, <3>2, FramingKept DEF TypeOK, Send, SameFraming, connVars, history
    <3> QED BY <3>1, <3>2
  <2>2. ASSUME NEW n \in 1 .. READ_CHUNK, on_read_data(c, n) PROVE FramingOf(d)'
    <3> DEFINE buf == Joined(c, n)
    <3>1. /\ taken[c] + n <= Len(stream[c])
          /\ taken' = [taken EXCEPT ![c] = @ + n]
          /\ UNCHANGED stream
      BY <2>2 DEF on_read_data
    <3>2. CASE MayDispatch(c) /\ dispatch_line(c, buf, works)
      <4> HIDE DEF buf
      <4>1. ~closing[c]
        BY <3>2 DEF MayDispatch
      <4>2. CASE d = c
        <5>0. FramingOf(c)
          BY <1>1, <4>2
        <5>1. /\ buf \in Seq(Nat) /\ n \in Nat
              /\ Len(buf) <= taken[c] + n /\ Begin(c) = taken[c] + n - Len(buf)
              /\ \A i \in DOMAIN buf : buf[i] = Begin(c) + i
          BY <4>1, <5>0, ReadContinues DEF Continues, buf
        <5>2. /\ taken'[c] = taken[c] + n /\ taken'[c] \in Nat
              /\ Len(buf) <= taken'[c] /\ Begin(c) = taken'[c] - Len(buf)
          BY <3>1, <5>1 DEF TypeOK
        <5> QED BY <1>1, <3>1, <3>2, <4>1, <4>2, <5>1, <5>2, FramingDispatched
      <4>3. CASE d # c
        <5>1. /\ rbuf'[d] = rbuf[d] /\ dispatched'[d] = dispatched[d]
              /\ closing'[d] = closing[d]
          BY <3>2, <4>3 DEF TypeOK, dispatch_line, Teardown
        <5>2. taken'[d] = taken[d]
          BY <3>1, <4>3 DEF TypeOK
        <5> QED BY <1>1, <3>1, <5>1, <5>2, FramingKept DEF SameFraming
      <4> QED BY <4>2, <4>3
    <3>3. CASE /\ rbuf' = [rbuf EXCEPT ![c] = buf]
               /\ UNCHANGED <<handle, busy, closing, works, dispatched>>
      <4>1. CASE d = c
        BY <1>1, <3>1, <3>3, <4>1, FramingReceived
      <4>2. CASE d # c
        <5> HIDE DEF buf
        <5> QED BY <1>1, <3>1, <3>3, <4>2, FramingKept DEF SameFraming, TypeOK
      <4> QED BY <4>1, <4>2
    <3> QED BY <2>2, <3>2, <3>3 DEF on_read_data, Joined
  <2>3. ASSUME NEW n \in 1 .. READ_CHUNK, on_read_dropped(c, n) PROVE FramingOf(d)'
    <3>1. /\ taken[c] + n <= Len(stream[c])
          /\ taken' = [taken EXCEPT ![c] = @ + n] /\ closing' = [closing EXCEPT ![c] = TRUE]
          /\ UNCHANGED <<stream, rbuf, dispatched>>
      BY <2>3 DEF on_read_dropped, Teardown, history
    <3>2. CASE d = c
      <4>1. taken'[d] <= Len(stream'[d]) /\ closing'[d]
        BY <3>1, <3>2 DEF TypeOK
      <4>2. \A k \in DOMAIN dispatched'[d] : IsLine(d, k, dispatched[d][k])'
        <5>1. \A p : NewlinesUpTo(d, p)' = NewlinesUpTo(d, p)
          BY <3>1 DEF NewlinesUpTo
        <5> QED BY <1>1, <3>1, <5>1 DEF FramingOf, IsLine
      <4> QED BY <4>1, <4>2 DEF FramingOf
    <3>3. CASE d # c
      BY <1>1, <3>1, <3>3, FramingKept DEF SameFraming, TypeOK
    <3> QED BY <3>2, <3>3
  <2>4. ASSUME NEW w \in WorksOf(c), on_write_done(w) PROVE FramingOf(d)'
    <3>1. w.conn = c /\ UNCHANGED <<taken, stream>>
      BY <2>4 DEF WorksOf, on_write_done, clientVars
    <3>2. CASE ~closing[c] /\ dispatch_line(c, rbuf[c], works \ {w})
      <4>1. CASE d = c
        <5>1. /\ rbuf[c] \in Seq(Nat) /\ taken'[c] \in Nat /\ taken'[c] <= Len(stream[c])
              /\ Len(rbuf[c]) <= taken'[c] /\ Begin(c) = taken'[c] - Len(rbuf[c])
              /\ \A i \in DOMAIN rbuf[c] : rbuf[c][i] = Begin(c) + i
          BY <1>1, <3>1, <3>2, <4>1 DEF TypeOK, FramingOf, Follows, Begin
        <5> QED BY <1>1, <3>1, <3>2, <4>1, <5>1, FramingDispatched
      <4>2. CASE d # c
        <5>1. /\ rbuf'[d] = rbuf[d] /\ dispatched'[d] = dispatched[d]
              /\ closing'[d] = closing[d]
          BY <3>2, <4>2 DEF TypeOK, dispatch_line, Teardown
        <5> QED BY <1>1, <3>1, <5>1, FramingKept DEF SameFraming
      <4> QED BY <4>1, <4>2
    <3>3. CASE UNCHANGED <<closing, rbuf, dispatched>>
      BY <1>1, <3>1, <3>3, FramingKept DEF SameFraming
    <3> QED BY <2>4, <3>1, <3>2, <3>3 DEF on_write_done
  <2>5. ASSUME UNCHANGED <<taken, stream, rbuf, dispatched>>,
               closing' = closing \/ Teardown(c)
        PROVE  FramingOf(d)'
    BY <1>1, <2>5, FramingKept DEF SameFraming, Teardown, TypeOK
  <2>6. ASSUME NEW w \in WorksOf(c),
               StartWork(w) \/ work_cb(w) \/ after_work_cb(w) \/ on_write_failed(w)
        PROVE  FramingOf(d)'
    <3>1. w.conn = c
      BY DEF WorksOf
    <3> QED BY <2>5, <2>6, <3>1 DEF StartWork, work_cb, after_work_cb, on_write_failed, connVars,
                clientVars, history
  <2>7. ASSUME HangUp(c) \/ on_connection(c) \/ on_read_failed(c) \/ on_close(c)
        PROVE  FramingOf(d)'
    BY <2>5, <2>7 DEF HangUp, on_connection, on_read_failed, on_close, connVars, clientVars,
                history
  <2> QED
    BY <2>1, <2>2, <2>3, <2>4, <2>6, <2>7
    DEF Client, Server, OnRead, AfterWork, OnWrite, Start, Run
<1> QED BY <1>2, <1>3

\* Nothing sent, nothing buffered, nothing dispatched.
LEMMA FramingInit == Init => Framing
<1> SUFFICES ASSUME Init, NEW c \in Conns PROVE FramingOf(c)
  BY DEF Framing
<1>1. Begin(c) = 0 /\ rbuf[c] = <<>> /\ dispatched[c] = <<>> /\ taken[c] = 0 /\ stream[c] = <<>>
  BY DEF Init, Begin
<1>2. Cardinality(NewlinesUpTo(c, 0)) = 0
  <2>1. NewlinesUpTo(c, 0) = {}
    BY DEF NewlinesUpTo
  <2> QED BY <2>1, FS_EmptySet
<1> QED BY <1>1, <1>2 DEF FramingOf, Follows

\* So it is intact for ever.
LEMMA FramingHolds == Spec => []Framing
BY FramingInit, FramingStep, TypeCorrect, PTL DEF Spec

\* The k-th command executed is the k-th line sent, however the network cuts
\* the stream and the buffer grows and shifts (on_read, dispatch_line).
THEOREM FramingCorrect == Spec => []FramingExact
<1>1. Framing => FramingExact
  BY DEF Framing, FramingOf, FramingExact
<1> QED BY <1>1, FramingHolds, PTL

\* The bytes behind the last line dispatched, those that cannot be kept included.
LEMMA PendingBytes ==
  ASSUME TypeOK, NEW c \in Conns, FramingOf(c), ~closing[c],
         NEW n \in 1 .. READ_CHUNK, on_read_dropped(c, n)
  PROVE  Cardinality(Pending(c)') \in Nat /\ Len(rbuf[c]) + n <= Cardinality(Pending(c)')
<1>1. /\ n \in Nat /\ taken[c] \in Nat /\ taken'[c] = taken[c] + n
      /\ Len(rbuf[c]) \in Nat /\ Len(rbuf[c]) <= taken[c]
      /\ UNCHANGED <<stream, dispatched>>
  BY ConnectionAssumption DEF TypeOK, on_read_dropped, FramingOf, Follows, history
<1>2. Begin(c) \in Nat /\ Begin(c) = taken[c] - Len(rbuf[c])
  BY <1>1 DEF Begin
<1> DEFINE P == Pending(c)'
           new == Begin(c) + 1 .. taken'[c]
<1>3. P \in SUBSET (1 .. taken'[c]) /\ IsFiniteSet(P)
  <2>1. IsFiniteSet(1 .. taken'[c]) /\ P \in SUBSET (1 .. taken'[c])
    BY <1>1, FS_Interval DEF Pending
  <2> HIDE DEF P
  <2> QED BY <2>1, FS_Subset
<1>4. new \in SUBSET P
  <2> SUFFICES ASSUME NEW p \in new PROVE p \in P
    OBVIOUS
  <2>1. p \in 1 .. taken'[c] /\ p - 1 \in Int /\ Begin(c) <= p - 1
    BY <1>1, <1>2
  <2>2. NewlinesUpTo(c, Begin(c)) \subseteq NewlinesUpTo(c, p - 1)
    BY <1>2, <2>1 DEF NewlinesUpTo
  <2>3. Cardinality(NewlinesUpTo(c, Begin(c))) <= Cardinality(NewlinesUpTo(c, p - 1))
    BY <2>1, <2>2, NewlinesFinite, FS_Subset
  <2>4. Cardinality(NewlinesUpTo(c, p - 1)) >= Len(dispatched[c])
    BY <1>2, <2>1, <2>3, NewlinesFinite DEF FramingOf, Follows
  <2>5. NewlinesUpTo(c, p - 1)' = NewlinesUpTo(c, p - 1)
    BY <1>1 DEF NewlinesUpTo
  <2> QED BY <1>1, <2>1, <2>4, <2>5 DEF Pending
<1>5. Cardinality(new) = Len(rbuf[c]) + n
  <2>1. Begin(c) + 1 \in Int /\ taken'[c] \in Int
    BY <1>1, <1>2
  <2>2. Cardinality(new) = IF Begin(c) + 1 > taken'[c] THEN 0 ELSE taken'[c] - (Begin(c) + 1) + 1
    BY <2>1, FS_Interval
  <2> QED BY <1>1, <1>2, <2>2
<1>6. Cardinality(new) <= Cardinality(P)
  <2> HIDE DEF new, P
  <2> QED BY <1>3, <1>4, FS_Subset
<1>7. Cardinality(P) \in Nat
  BY <1>3, FS_CardinalityType
<1> QED BY <1>5, <1>6, <1>7

\* A client is dropped for want of room only with more than RBUF_MAX_CAP bytes
\* (or the largest capacity below) behind the last line dispatched (on_read).
THEOREM DropsCorrect == Spec => DroppedOnlyOverfull
<1>1. ASSUME TypeOK, Framing,
             NEW c \in Conns, NEW n \in 1 .. READ_CHUNK,
             on_read_dropped(c, n), NoRoom(c, Len(rbuf[c]) + n), ~closing[c],
             NEW cap \in Capacities
      PROVE  cap < Cardinality(Pending(c)')
  <2>1. Cardinality(Pending(c)') \in Nat /\ Len(rbuf[c]) + n <= Cardinality(Pending(c)')
    BY <1>1, PendingBytes DEF Framing
  <2>2. cap < Len(rbuf[c]) + n /\ cap \in Nat /\ Len(rbuf[c]) \in Nat /\ n \in Nat
    BY <1>1, ConnectionAssumption DEF NoRoom, Capacities, TypeOK
  <2> QED BY <2>1, <2>2
<1>2. TypeOK /\ Framing =>
        \A c \in Conns : \A n \in 1 .. READ_CHUNK :
          on_read_dropped(c, n) /\ NoRoom(c, Len(rbuf[c]) + n) /\ ~closing[c]
            => \A cap \in Capacities : cap < Cardinality(Pending(c)')
  BY <1>1
<1> QED BY <1>2, TypeCorrect, FramingHolds, PTL DEF DroppedOnlyOverfull

-----------------------------------------------------------------------------
(* The order of the replies.                                               *)

\* The replies of c, of lines 1 to n: in order, and all of them if each line
\* has one.
InOrder(c, n) ==
  /\ LastAnswered(c) <= n
  /\ \A k \in DOMAIN replies[c] :
       /\ replies[c][k] \in 1 .. n
       /\ k > 1 => replies[c][k - 1] < replies[c][k]
  /\ ~SilentCommands => \A k \in DOMAIN replies[c] : replies[c][k] = k

\* A request in flight is of the last line, and that is not answered; nor is it
\* when a line waits behind it with nobody to dispatch it.
OrderOf(c) ==
  /\ InOrder(c, Len(dispatched[c]))
  /\ \A w \in WorksOf(c) : w.no = Len(dispatched[c]) /\ (w.silent => SilentCommands)
  /\ busy[c] => LastAnswered(c) < Len(dispatched[c])
  /\ ~busy[c] /\ ~closing[c] /\ HasLine(c, rbuf[c]) => LastAnswered(c) < Len(dispatched[c])
  /\ ~SilentCommands =>
       /\ busy[c] => Len(dispatched[c]) = Len(replies[c]) + 1
       /\ Len(replies[c]) <= Len(dispatched[c])
       /\ ~busy[c] /\ ~closing[c] => Len(dispatched[c]) = Len(replies[c])

Order == \A c \in Conns : OrderOf(c)

SameOrder(c) ==
  /\ busy'[c] = busy[c] /\ closing'[c] = closing[c]
  /\ dispatched'[c] = dispatched[c] /\ replies'[c] = replies[c]

\* Nothing happens to c, or nothing to its requests' numbers.
LEMMA OrderKept ==
  ASSUME NEW c \in Conns, OrderOf(c), SameOrder(c),
         \A v \in WorksOf(c)' : v.no = Len(dispatched[c]) /\ (v.silent => SilentCommands),
         ~busy[c] /\ ~closing[c] /\ HasLine(c, rbuf[c])' => HasLine(c, rbuf[c])
  PROVE  OrderOf(c)'
BY DEF OrderOf, SameOrder, InOrder, LastAnswered

\* A request ends without a reply, and the connection is going away or the
\* line has none.
LEMMA OrderEnds ==
  ASSUME NEW c \in Conns, OrderOf(c), busy[c], ~busy'[c], WorksOf(c)' = {},
         closing'[c] \/ SilentCommands,
         dispatched'[c] = dispatched[c], replies'[c] = replies[c]
  PROVE  OrderOf(c)'
BY DEF OrderOf, InOrder, LastAnswered

\* The reply of the last line goes out behind those of earlier ones.
LEMMA ReplyGoesOut ==
  ASSUME TypeOK, NEW c \in Conns, NEW n \in Nat, OrderOf(c), busy[c],
         n = Len(dispatched[c]), replies'[c] = Append(replies[c], n)
  PROVE  /\ InOrder(c, n)' /\ LastAnswered(c)' = n
         /\ ~SilentCommands => Len(replies'[c]) = n
<1>1. /\ replies[c] \in Seq(Nat) /\ LastAnswered(c) \in Nat
      /\ LastAnswered(c) < n /\ InOrder(c, n)
      /\ ~SilentCommands => n = Len(replies[c]) + 1
  BY DEF TypeOK, OrderOf, InOrder, LastAnswered
<1>2. /\ Len(replies'[c]) = Len(replies[c]) + 1 /\ Len(replies[c]) \in Nat
      /\ replies'[c] \in Seq(Nat)
      /\ replies'[c][Len(replies[c]) + 1] = n
      /\ \A k \in 1 .. Len(replies[c]) : replies'[c][k] = replies[c][k]
  BY <1>1
<1>3. LastAnswered(c)' = n
  BY <1>2 DEF LastAnswered
<1>4. ASSUME NEW k \in DOMAIN replies'[c]
      PROVE  /\ replies'[c][k] \in 1 .. n
             /\ k > 1 => replies'[c][k - 1] < replies'[c][k]
             /\ ~SilentCommands => replies'[c][k] = k
  <2>1. CASE k \in 1 .. Len(replies[c])
    <3>1. k \in DOMAIN replies[c] /\ (k > 1 => k - 1 \in 1 .. Len(replies[c]))
      BY <1>1, <1>2, <2>1
    <3>2. /\ replies[c][k] \in 1 .. n
          /\ k > 1 => replies[c][k - 1] < replies[c][k]
          /\ ~SilentCommands => replies[c][k] = k
      BY <1>1, <3>1 DEF InOrder
    <3>3. replies'[c][k] = replies[c][k] /\ (k > 1 => replies'[c][k - 1] = replies[c][k - 1])
      BY <1>2, <2>1, <3>1
    <3> QED BY <3>2, <3>3
  <2>2. CASE k = Len(replies[c]) + 1
    <3>1. n >= 1
      BY <1>1
    <3>2. k > 1 => replies'[c][k - 1] = LastAnswered(c)
      BY <1>1, <1>2, <2>2 DEF LastAnswered
    <3> QED BY <1>1, <1>2, <2>2, <3>1, <3>2
  <2>3. k \in 1 .. Len(replies[c]) \/ k = Len(replies[c]) + 1
    <3>1. DOMAIN replies'[c] = 1 .. Len(replies'[c])
      BY <1>2
    <3> QED BY <1>2, <3>1
  <2> QED BY <2>1, <2>2, <2>3
<1>5. LastAnswered(c)' <= n
  BY <1>3
<1>6. InOrder(c, n)'
  BY <1>4, <1>5 DEF InOrder
<1>7. ~SilentCommands => Len(replies'[c]) = n
  BY <1>1, <1>2
<1> QED BY <1>3, <1>6, <1>7

\* dispatch_line with every line before answered, unless some have no reply.
LEMMA OrderDispatched ==
  ASSUME TypeOK, NEW c \in Conns, NEW n \in Nat, n = Len(dispatched[c]), InOrder(c, n)',
         replies'[c] \in Seq(Nat), ~SilentCommands => Len(replies'[c]) = n,
         NEW buf, NEW rest, dispatch_line(c, buf, rest), {w \in rest : w.conn = c} = {}
  PROVE  OrderOf(c)'
<1>1. PICK line :
        \/ /\ busy' = [busy EXCEPT ![c] = TRUE]
           /\ dispatched' = [dispatched EXCEPT ![c] = Append(@, line)]
           /\ works' = rest \cup {[conn |-> c, no |-> Len(dispatched[c]) + 1,
                                   stage |-> "queued", silent |-> FALSE]}
        \/ /\ busy' = [busy EXCEPT ![c] = FALSE]
           /\ works' = rest
           /\ closing' = [closing EXCEPT ![c] = TRUE]
           /\ UNCHANGED dispatched
  BY DEF dispatch_line, Teardown
<1>2. LastAnswered(c)' \in Nat /\ Len(replies'[c]) \in Nat
  BY DEF LastAnswered, InOrder
<1>3. CASE /\ busy' = [busy EXCEPT ![c] = TRUE]
           /\ dispatched' = [dispatched EXCEPT ![c] = Append(@, line)]
           /\ works' = rest \cup {[conn |-> c, no |-> Len(dispatched[c]) + 1,
                                   stage |-> "queued", silent |-> FALSE]}
  <2>1. busy'[c] /\ Len(dispatched'[c]) = n + 1
    BY <1>3 DEF TypeOK
  <2>2. WorksOf(c)' = {[conn |-> c, no |-> n + 1, stage |-> "queued", silent |-> FALSE]}
    BY <1>3 DEF WorksOf
  <2>3. InOrder(c, Len(dispatched[c]))'
    BY <1>2, <2>1 DEF InOrder
  <2>4. LastAnswered(c)' < Len(dispatched'[c])
    BY <1>2, <2>1 DEF InOrder
  <2>5. ~SilentCommands => Len(dispatched'[c]) = Len(replies'[c]) + 1
    BY <2>1
  <2> QED BY <1>2, <2>1, <2>2, <2>3, <2>4, <2>5 DEF OrderOf
<1>4. CASE /\ busy' = [busy EXCEPT ![c] = FALSE]
           /\ works' = rest
           /\ closing' = [closing EXCEPT ![c] = TRUE]
           /\ UNCHANGED dispatched
  <2>1. ~busy'[c] /\ closing'[c] /\ WorksOf(c)' = {} /\ Len(dispatched'[c]) = n
    BY <1>4 DEF TypeOK, WorksOf
  <2> QED BY <1>2, <2>1 DEF OrderOf
<1> QED BY <1>1, <1>3, <1>4

\* Nothing happens to d.
LEMMA OrderElsewhere ==
  ASSUME NEW d \in Conns, OrderOf(d), SameOrder(d), WorksOf(d)' = WorksOf(d),
         rbuf'[d] = rbuf[d], stream'[d] = stream[d]
  PROVE  OrderOf(d)'
<1>1. \A v \in WorksOf(d)' : v.no = Len(dispatched[d]) /\ (v.silent => SilentCommands)
  BY DEF OrderOf
<1>2. HasLine(d, rbuf[d])' => HasLine(d, rbuf[d])
  BY DEF HasLine
<1> QED BY <1>1, <1>2, OrderKept

\* dispatch_line concerns one connection.
LEMMA DispatchElsewhere ==
  ASSUME TypeOK, NEW c \in Conns, NEW buf, NEW rest, dispatch_line(c, buf, rest),
         \A d \in Conns \ {c} : {w \in rest : w.conn = d} = WorksOf(d)
  PROVE  \A d \in Conns \ {c} :
           /\ busy'[d] = busy[d] /\ closing'[d] = closing[d]
           /\ dispatched'[d] = dispatched[d] /\ rbuf'[d] = rbuf[d]
           /\ WorksOf(d)' = WorksOf(d)
<1> SUFFICES ASSUME NEW d \in Conns, d # c
             PROVE  /\ busy'[d] = busy[d] /\ closing'[d] = closing[d]
                    /\ dispatched'[d] = dispatched[d] /\ rbuf'[d] = rbuf[d]
                    /\ WorksOf(d)' = WorksOf(d)
  OBVIOUS
<1>1. /\ busy'[d] = busy[d] /\ closing'[d] = closing[d]
      /\ dispatched'[d] = dispatched[d] /\ rbuf'[d] = rbuf[d]
  BY DEF TypeOK, dispatch_line, Teardown
<1>2. WorksOf(d) = {w \in rest : w.conn = d}
  OBVIOUS
<1>3. WorksOf(d)' = {w \in rest : w.conn = d}
  BY DEF dispatch_line, WorksOf
<1> QED BY <1>1, <1>2, <1>3

\* The requests of a connection that is not busy, or no longer.
LEMMA OtherRequests ==
  ASSUME Lifecycle, NEW c \in Conns
  PROVE  /\ ~busy[c] => {v \in works : v.conn = c} = {}
         /\ \A w \in WorksOf(c) : {v \in works \ {w} : v.conn = c} = {}
         /\ \A d \in Conns \ {c} : {v \in works : v.conn = d} = WorksOf(d)
         /\ \A d \in Conns \ {c} : \A w \in WorksOf(c) :
              {v \in works \ {w} : v.conn = d} = WorksOf(d)
BY DEF Lifecycle, LifecycleOf, WorksOf

\* A connection is torn down with its request, if any, left to end.
LEMMA OrderTornDown ==
  ASSUME NEW c \in Conns, OrderOf(c), closing'[c], busy'[c] = busy[c],
         WorksOf(c)' = WorksOf(c), dispatched'[c] = dispatched[c], replies'[c] = replies[c]
  PROVE  OrderOf(c)'
BY DEF OrderOf, InOrder, LastAnswered

\* The last line is answered and no other one is there.
LEMMA OrderIdle ==
  ASSUME TypeOK, NEW c \in Conns, NEW n \in Nat, InOrder(c, n)',
         ~SilentCommands => Len(replies'[c]) = n, Len(dispatched'[c]) = n,
         ~busy'[c], WorksOf(c)' = {}, closing'[c] \/ ~HasLine(c, rbuf[c])'
  PROVE  OrderOf(c)'
BY DEF OrderOf

\* No callback disturbs the order of the replies of any connection.
LEMMA OrderStep == TypeOK /\ Lifecycle /\ Framing /\ Order /\ [Next]_vars => Order'
<1> SUFFICES ASSUME TypeOK, Lifecycle, Framing, Order, [Next]_vars, NEW d \in Conns
             PROVE  OrderOf(d)'
  BY DEF Order
<1>1. OrderOf(d)
  BY DEF Order
<1>2. CASE UNCHANGED vars
  BY <1>1, <1>2, OrderElsewhere
  DEF SameOrder, WorksOf, vars, connVars, clientVars, history
<1>3. CASE Next
  <2> PICK c \in Conns : Client(c) \/ Server(c)
    BY <1>3 DEF Next
  <2>1. ASSUME NEW newline \in BOOLEAN, Send(c, newline) PROVE OrderOf(d)'
    <3>1. SameOrder(d) /\ WorksOf(d)' = WorksOf(d) /\ UNCHANGED rbuf
      BY <2>1 DEF Send, SameOrder, WorksOf, connVars, history
    <3>2. ~closing[d] /\ HasLine(d, rbuf[d])' => HasLine(d, rbuf[d])
      <4> SUFFICES ASSUME ~closing[d], NEW i \in DOMAIN rbuf[d], stream'[d][rbuf[d][i]]
                   PROVE  stream[d][rbuf[d][i]]
        BY <3>1 DEF HasLine
      <4>1. /\ Len(rbuf[d]) <= taken[d] /\ taken[d] <= Len(stream[d])
            /\ rbuf[d][i] = Begin(d) + i
        BY DEF Framing, FramingOf, Follows
      <4>2. rbuf[d][i] \in 1 .. Len(stream[d])
        BY <4>1 DEF TypeOK, Begin
      <4>3. \A p \in 1 .. Len(stream[d]) : stream'[d][p] = stream[d][p]
        BY <2>1 DEF Send, TypeOK
      <4> QED BY <4>2, <4>3
    <3>3. \A v \in WorksOf(d)' : v.no = Len(dispatched[d]) /\ (v.silent => SilentCommands)
      BY <1>1, <3>1 DEF OrderOf
    <3> QED BY <1>1, <3>1, <3>2, <3>3, OrderKept
  <2>2. ASSUME UNCHANGED stream, NEW buf, NEW rest, dispatch_line(c, buf, rest),
               {v \in rest : v.conn = c} = {},
               \A e \in Conns \ {c} : {v \in rest : v.conn = e} = WorksOf(e),
               \A e \in Conns \ {c} : replies'[e] = replies[e],
               NEW n \in Nat, n = Len(dispatched[c]), InOrder(c, n)',
               replies'[c] \in Seq(Nat), ~SilentCommands => Len(replies'[c]) = n
        PROVE  OrderOf(d)'
    <3>1. CASE d = c
      BY <2>2, <3>1, OrderDispatched
    <3>2. CASE d # c
      <4>1. /\ busy'[d] = busy[d] /\ closing'[d] = closing[d]
            /\ dispatched'[d] = dispatched[d] /\ rbuf'[d] = rbuf[d]
            /\ WorksOf(d)' = WorksOf(d)
        BY <2>2, <3>2, DispatchElsewhere
      <4> QED BY <1>1, <2>2, <3>2, <4>1, OrderElsewhere DEF SameOrder
    <3> QED BY <3>1, <3>2
  <2>3. ASSUME NEW n \in 1 .. READ_CHUNK, on_read_data(c, n) PROVE OrderOf(d)'
    <3>1. UNCHANGED <<stream, replies>>
      BY <2>3 DEF on_read_data
    <3> SUFFICES ASSUME NEW buf, buf = Joined(c, n) PROVE OrderOf(d)'
      OBVIOUS
    <3>2. CASE MayDispatch(c) /\ dispatch_line(c, buf, works)
      <4>1. ~busy[c] /\ ~closing[c] /\ OrderOf(c)
        BY <3>2 DEF MayDispatch, Order
      <4>2. /\ InOrder(c, Len(dispatched[c])) /\ Len(dispatched[c]) \in Nat
            /\ ~SilentCommands => Len(replies[c]) = Len(dispatched[c])
            /\ replies[c] \in Seq(Nat)
        BY <4>1 DEF OrderOf, TypeOK
      <4> SUFFICES ASSUME NEW k \in Nat, k = Len(dispatched[c]) PROVE OrderOf(d)'
        BY <4>2
      <4>3. InOrder(c, k)'
        BY <3>1, <4>2 DEF InOrder, LastAnswered
      <4> QED BY <2>2, <3>1, <3>2, <4>1, <4>2, <4>3, OtherRequests
    <3>3. CASE /\ ~(MayDispatch(c) /\ HasLine(c, buf))
               /\ rbuf' = [rbuf EXCEPT ![c] = buf]
               /\ UNCHANGED <<handle, busy, closing, works, dispatched>>
      <4>1. SameOrder(d) /\ WorksOf(d)' = WorksOf(d)
        BY <3>1, <3>3 DEF SameOrder, WorksOf
      <4>2. CASE d = c
        <5>1. rbuf'[c] = buf
          BY <3>3 DEF TypeOK
        <5>2. ~busy[c] /\ ~closing[c] => ~HasLine(c, rbuf[c])'
          BY <3>1, <3>3, <5>1 DEF MayDispatch, HasLine
        <5>3. \A v \in WorksOf(d)' : v.no = Len(dispatched[d]) /\ (v.silent => SilentCommands)
          BY <1>1, <4>1 DEF OrderOf
        <5> QED BY <1>1, <4>1, <4>2, <5>2, <5>3, OrderKept
      <4>3. CASE d # c
        <5>1. rbuf'[d] = rbuf[d]
          BY <3>3, <4>3 DEF TypeOK
        <5> QED BY <1>1, <3>1, <4>1, <5>1, OrderElsewhere
      <4> QED BY <4>2, <4>3
    <3> QED BY <2>3, <3>2, <3>3 DEF on_read_data, Joined
  <2>4. CASE \/ \E n \in 1 .. READ_CHUNK : on_read_dropped(c, n)
             \/ on_read_failed(c)
    <3>1. /\ closing' = [closing EXCEPT ![c] = TRUE]
          /\ UNCHANGED <<busy, works, rbuf, stream, dispatched, replies>>
      BY <2>4 DEF on_read_dropped, on_read_failed, Teardown, history, clientVars
    <3>2. WorksOf(d)' = WorksOf(d)
      BY <3>1 DEF WorksOf
    <3>3. CASE d = c
      BY <1>1, <3>1, <3>2, <3>3, OrderTornDown DEF TypeOK
    <3>4. CASE d # c
      BY <1>1, <3>1, <3>2, <3>4, OrderElsewhere DEF SameOrder, TypeOK
    <3> QED BY <3>3, <3>4
  <2>5. ASSUME NEW w \in WorksOf(c), NEW v, v.conn = c, v.no = w.no,
               v.silent => SilentCommands, works' = (works \ {w}) \cup {v},
               UNCHANGED <<busy, closing, rbuf, stream, dispatched, replies>>
        PROVE  OrderOf(d)'
    <3>1. WorksOf(c)' = {v} /\ \A e \in Conns \ {c} : WorksOf(e)' = WorksOf(e)
      BY <2>5, RequestReplaced
    <3>2. CASE d = c
      <4>1. w.no = Len(dispatched[c])
        BY <1>1, <3>2 DEF OrderOf
      <4>2. SameOrder(c) /\ (HasLine(c, rbuf[c])' => HasLine(c, rbuf[c]))
        BY <2>5 DEF SameOrder, HasLine
      <4>3. \A u \in WorksOf(c)' : u.no = Len(dispatched[c]) /\ (u.silent => SilentCommands)
        BY <2>5, <3>1, <4>1
      <4> QED BY <1>1, <3>2, <4>2, <4>3, OrderKept
    <3>3. CASE d # c
      BY <1>1, <2>5, <3>1, <3>3, OrderElsewhere DEF SameOrder
    <3> QED BY <3>2, <3>3
  <2>6. ASSUME NEW w \in WorksOf(c), works' = works \ {w},
               busy' = [busy EXCEPT ![c] = FALSE],
               closing' = closing \/ closing' = [closing EXCEPT ![c] = TRUE],
               closing'[c] \/ w.silent,
               UNCHANGED <<rbuf, stream, dispatched, replies>>
        PROVE  OrderOf(d)'
    <3>1. WorksOf(c)' = {} /\ \A e \in Conns \ {c} : WorksOf(e)' = WorksOf(e)
      BY <2>6, RequestEnds
    <3>2. CASE d = c
      <4>1. busy[c] /\ ~busy'[c]
        BY <2>6, OnlyRequest DEF TypeOK
      <4>2. closing'[c] \/ SilentCommands
        BY <1>1, <2>6, <3>2 DEF OrderOf
      <4> QED BY <1>1, <2>6, <3>1, <3>2, <4>1, <4>2, OrderEnds
    <3>3. CASE d # c
      BY <1>1, <2>6, <3>1, <3>3, OrderElsewhere DEF SameOrder, TypeOK
    <3> QED BY <3>2, <3>3
  <2>7. ASSUME NEW w \in WorksOf(c), on_write_done(w) PROVE OrderOf(d)'
    <3>1. w.conn = c /\ busy[c] /\ OrderOf(c) /\ UNCHANGED stream
      BY <2>7, OnlyRequest DEF Order, on_write_done, clientVars
    <3>2. w.no = Len(dispatched[c]) /\ w.no \in Nat
      BY <2>7, <3>1 DEF OrderOf, TypeOK
    <3> SUFFICES ASSUME NEW k \in Nat, k = w.no PROVE OrderOf(d)'
      BY <3>2
    <3>3. /\ replies'[c] = Append(replies[c], k) /\ replies'[c] \in Seq(Nat)
          /\ \A e \in Conns \ {c} : replies'[e] = replies[e]
      BY <2>7, <3>1 DEF on_write_done, TypeOK
    <3>4. InOrder(c, k)' /\ (~SilentCommands => Len(replies'[c]) = k)
      BY <3>1, <3>2, <3>3, ReplyGoesOut
    <3>5. CASE dispatch_line(c, rbuf[c], works \ {w})
      BY <2>2, <3>1, <3>2, <3>3, <3>4, <3>5, OtherRequests
    <3>6. CASE /\ closing[c] \/ ~HasLine(c, rbuf[c])
               /\ busy' = [busy EXCEPT ![c] = FALSE] /\ works' = works \ {w}
               /\ UNCHANGED <<closing, rbuf, dispatched>>
      <4>1. WorksOf(c)' = {} /\ \A e \in Conns \ {c} : WorksOf(e)' = WorksOf(e)
        BY <3>6, RequestEnds
      <4>2. CASE d = c
        <5>1. ~busy'[c] /\ (closing'[c] \/ ~HasLine(c, rbuf[c])')
          BY <3>1, <3>6 DEF TypeOK, HasLine
        <5> QED BY <3>2, <3>4, <3>6, <4>1, <4>2, <5>1, OrderIdle
      <4>3. CASE d # c
        <5>1. SameOrder(d)
          BY <3>3, <3>6, <4>3 DEF SameOrder, TypeOK
        <5> QED BY <1>1, <3>1, <3>6, <4>1, <4>3, <5>1, OrderElsewhere
      <4> QED BY <4>2, <4>3
    <3> QED BY <2>7, <3>1, <3>5, <3>6 DEF on_write_done
  <2>8. ASSUME NEW w \in WorksOf(c), after_work_cb(w) PROVE OrderOf(d)'
    <3>1. w.conn = c /\ w \in Work /\ UNCHANGED <<rbuf, stream, dispatched, replies>>
      BY <2>8 DEF WorksOf, TypeOK, after_work_cb, clientVars, history
    <3>2. CASE works' = Moved(w, "writing") /\ UNCHANGED <<handle, busy, closing>>
      <4> DEFINE v == [w EXCEPT !.stage = "writing"]
      <4>1. v.conn = c /\ v.no = w.no /\ v.silent = w.silent
        BY <3>1 DEF Work
      <4>2. works' = (works \ {w}) \cup {v}
        BY <3>2 DEF Moved
      <4>3. w.silent => SilentCommands
        BY DEF Order, OrderOf
      <4> HIDE DEF v
      <4> QED BY <2>5, <3>1, <3>2, <4>1, <4>2, <4>3
    <3>3. CASE /\ closing[c] \/ w.silent
               /\ busy' = [busy EXCEPT ![c] = FALSE] /\ works' = works \ {w}
               /\ UNCHANGED closing
      BY <2>6, <3>1, <3>3
    <3>4. CASE /\ busy' = [busy EXCEPT ![c] = FALSE] /\ works' = works \ {w}
               /\ Teardown(c)
      <4>1. closing' = [closing EXCEPT ![c] = TRUE] /\ closing'[c]
        BY <3>4 DEF Teardown, TypeOK
      <4> QED BY <2>6, <3>1, <3>4, <4>1
    <3> QED BY <2>8, <3>1, <3>2, <3>3, <3>4 DEF after_work_cb
  <2>9. ASSUME NEW w \in WorksOf(c), on_write_failed(w) PROVE OrderOf(d)'
    <3>1. w.conn = c /\ UNCHANGED <<rbuf, stream, dispatched, replies>>
      BY <2>9 DEF WorksOf, on_write_failed, clientVars, history
    <3>2. closing' = [closing EXCEPT ![c] = TRUE] /\ closing'[c]
      BY <2>9, <3>1 DEF on_write_failed, Teardown, TypeOK
    <3> QED BY <2>6, <2>9, <3>1, <3>2 DEF on_write_failed
  <2>10. ASSUME NEW w \in WorksOf(c), StartWork(w) PROVE OrderOf(d)'
    <3> DEFINE v == [w EXCEPT !.stage = "running"]
    <3>1. w.conn = c /\ w \in Work
      BY DEF WorksOf, TypeOK
    <3>2. v.conn = c /\ v.no = w.no /\ v.silent = w.silent
      BY <3>1 DEF Work
    <3>3. w.silent => SilentCommands
      BY DEF Order, OrderOf
    <3>4. works' = (works \ {w}) \cup {v}
      BY <2>10 DEF StartWork, Moved
    <3> HIDE DEF v
    <3> QED BY <2>5, <2>10, <3>2, <3>3, <3>4 DEF StartWork, connVars, clientVars, history
  <2>11. ASSUME NEW w \in WorksOf(c), work_cb(w) PROVE OrderOf(d)'
    <3>1. w.conn = c /\ w \in Work
      BY DEF WorksOf, TypeOK
    <3>2. PICK silent \in {FALSE, SilentCommands} :
            works' = (works \ {w}) \cup {[w EXCEPT !.stage = "over", !.silent = silent]}
      BY <2>11 DEF work_cb
    <3> DEFINE v == [w EXCEPT !.stage = "over", !.silent = silent]
    <3>3. v.conn = c /\ v.no = w.no /\ v.silent = silent
      BY <3>1 DEF Work
    <3>4. silent => SilentCommands
      BY <3>2
    <3>5. works' = (works \ {w}) \cup {v}
      BY <3>2
    <3> HIDE DEF v
    <3> QED BY <2>5, <2>11, <3>3, <3>4, <3>5 DEF work_cb, connVars, clientVars, history
  <2>12. CASE HangUp(c) \/ on_connection(c) \/ on_close(c)
    <3>1. UNCHANGED <<busy, closing, rbuf, works, stream, dispatched, replies>>
      BY <2>12 DEF HangUp, on_connection, on_close, connVars, clientVars, history
    <3> QED BY <1>1, <3>1, OrderElsewhere DEF SameOrder, WorksOf
  <2> QED
    BY <2>1, <2>3, <2>4, <2>7, <2>8, <2>9, <2>10, <2>11, <2>12
    DEF Client, Server, OnRead, AfterWork, OnWrite, Start, Run
<1> QED BY <1>2, <1>3

\* No reply has been written, and no line dispatched.
LEMMA OrderInit == Init => Order
<1> SUFFICES ASSUME Init, NEW c \in Conns PROVE OrderOf(c)
  BY DEF Order
<1>1. /\ replies[c] = <<>> /\ dispatched[c] = <<>> /\ rbuf[c] = <<>> /\ ~busy[c]
      /\ WorksOf(c) = {}
  BY DEF Init, WorksOf
<1> QED BY <1>1 DEF OrderOf, InOrder, LastAnswered, HasLine

\* Connections begin without requests.
LEMMA LifecycleInit == Init => Lifecycle
BY DEF Init, Lifecycle, LifecycleOf, WorksOf

\* So the order holds for ever.
LEMMA OrderHolds == Spec => []Order
BY OrderInit, OrderStep, LifecycleInit, LifecycleStep, FramingHolds, TypeCorrect, PTL DEF Spec

\* One reply per line, in the order of the lines, if every command has one
\* (busy: "serial execution keeps replies ordered").
THEOREM RepliesCorrect == Spec => []RepliesOrdered
<1>1. TypeOK /\ Order => RepliesOrdered
  <2> SUFFICES ASSUME TypeOK, Order, ~SilentCommands, NEW c \in Conns
               PROVE  /\ \A k \in DOMAIN replies[c] : replies[c][k] = k
                      /\ Len(replies[c]) <= Len(dispatched[c])
                      /\ ~closing[c] =>
                           Len(dispatched[c]) = Len(replies[c]) + (IF busy[c] THEN 1 ELSE 0)
    BY DEF RepliesOrdered
  <2>1. OrderOf(c)
    BY DEF Order
  <2>2. /\ \A k \in DOMAIN replies[c] : replies[c][k] = k
        /\ Len(replies[c]) <= Len(dispatched[c])
    BY <2>1 DEF OrderOf, InOrder
  <2>3. CASE busy[c]
    <3>1. Len(dispatched[c]) = Len(replies[c]) + 1
      BY <2>1, <2>3 DEF OrderOf
    <3> QED BY <2>2, <2>3, <3>1
  <2>4. CASE ~busy[c]
    <3>1. ~closing[c] => Len(dispatched[c]) = Len(replies[c])
      BY <2>1, <2>4 DEF OrderOf
    <3>2. Len(replies[c]) + 0 = Len(replies[c])
      BY DEF TypeOK
    <3> QED BY <2>2, <2>4, <3>1, <3>2
  <2> QED BY <2>3, <2>4
<1> QED BY <1>1, OrderHolds, TypeCorrect, PTL

\* At most one reply per line, in the order of the lines, whatever the commands
\* and the failures (on_write, after_work_cb).
THEOREM RepliesIncreasing == Spec => []RepliesIncrease
<1>1. TypeOK /\ Order => RepliesIncrease
  <2> SUFFICES ASSUME TypeOK, Order, NEW c \in Conns, NEW k \in DOMAIN replies[c]
               PROVE  /\ replies[c][k] \in DOMAIN dispatched[c]
                      /\ k > 1 => replies[c][k - 1] < replies[c][k]
    BY DEF RepliesIncrease
  <2>1. InOrder(c, Len(dispatched[c]))
    BY DEF Order, OrderOf
  <2>2. DOMAIN dispatched[c] = 1 .. Len(dispatched[c])
    BY DEF TypeOK
  <2> QED BY <2>1, <2>2 DEF InOrder
<1> QED BY <1>1, OrderHolds, TypeCorrect, PTL

\* A complete line never waits behind a reply that has been written
\* (try_dispatch_next at the end of on_write).
THEOREM NoStallCorrect == Spec => []NoStall
<1>1. Order => NoStall
  BY DEF Order, OrderOf, NoStall
<1> QED BY <1>1, OrderHolds, PTL

\* A request is in flight exactly while busy is set, and there is one at a time.
THEOREM BusyCorrect == Spec => []BusyIffInFlight
BY LifecycleCorrect, PTL

\* No path through the callbacks calls uv_close twice (maybe_close).
THEOREM ClosedOnceCorrect == Spec => []ClosedOnce
BY LifecycleCorrect, PTL

\* A connection going away with nothing in flight has been closed.
THEOREM ClosingCorrect == Spec => []ClosingIsClosed
BY LifecycleCorrect, PTL

-----------------------------------------------------------------------------
(* The promise of OrderedPipeline.                                         *)

\* The instance counts as this module does.
LEMMA SameCount ==
  ASSUME NEW S
  PROVE  Pipeline!Cardinality(S) = Cardinality(S)
BY DEF Pipeline!Cardinality, Cardinality

\* A newline is the end of one line only.
LEMMA OneEnd ==
  ASSUME NEW c \in Conns, NEW p \in Nat \ {0}, NEW q \in Nat \ {0},
         stream[c][p], stream[c][q],
         Cardinality(NewlinesUpTo(c, p)) = Cardinality(NewlinesUpTo(c, q))
  PROVE  p = q
<1>1. ASSUME NEW a \in Nat \ {0}, NEW b \in Nat \ {0}, a < b, stream[c][b]
      PROVE  Cardinality(NewlinesUpTo(c, a)) < Cardinality(NewlinesUpTo(c, b))
  <2>1. /\ b \notin NewlinesUpTo(c, a)
        /\ NewlinesUpTo(c, a) \cup {b} \in SUBSET NewlinesUpTo(c, b)
    BY <1>1 DEF NewlinesUpTo
  <2>2. /\ IsFiniteSet(NewlinesUpTo(c, a)) /\ Cardinality(NewlinesUpTo(c, a)) \in Nat
        /\ IsFiniteSet(NewlinesUpTo(c, b)) /\ Cardinality(NewlinesUpTo(c, b)) \in Nat
    BY NewlinesFinite
  <2>3. Cardinality(NewlinesUpTo(c, a) \cup {b}) = Cardinality(NewlinesUpTo(c, a)) + 1
    BY <2>1, <2>2, FS_AddElement
  <2>4. Cardinality(NewlinesUpTo(c, a) \cup {b}) <= Cardinality(NewlinesUpTo(c, b))
    BY <2>1, <2>2, FS_Subset
  <2> QED BY <2>2, <2>3, <2>4
<1>2. /\ Cardinality(NewlinesUpTo(c, p)) \in Nat
      /\ p < q \/ q < p \/ p = q
  BY NewlinesFinite
<1> QED BY <1>1, <1>2

\* What FramingExact calls the k-th line is the k-th line of OrderedPipeline.
LEMMA LineIsLine ==
  ASSUME TypeOK, NEW c \in Conns, NEW k \in Nat \ {0}, NEW line \in Seq(Nat),
         IsLine(c, k, line)
  PROVE  Pipeline!HasLine(stream[c], k) /\ line = Pipeline!Line(stream[c], k)
<1>1. PICK p \in DOMAIN stream[c] :
        /\ stream[c][p] /\ Cardinality(NewlinesUpTo(c, p)) = k
        /\ Len(line) < p
        /\ \A i \in DOMAIN line : line[i] = p - 1 - Len(line) + i /\ ~stream[c][line[i]]
        /\ p - 1 - Len(line) = 0 \/ stream[c][p - 1 - Len(line)]
  BY DEF IsLine
<1> SUFFICES ASSUME NEW len \in Nat, len = Len(line)
             PROVE  Pipeline!HasLine(stream[c], k) /\ line = Pipeline!Line(stream[c], k)
  OBVIOUS
<1> DEFINE e == p - 1 - len
<1>2. /\ p \in Nat /\ p >= 1 /\ p <= Len(stream[c]) /\ Len(stream[c]) \in Nat
      /\ DOMAIN stream[c] = 1 .. Len(stream[c])
      /\ e \in Nat /\ e < p /\ len = p - e - 1
      /\ DOMAIN line = 1 .. len
  <2>1. /\ p \in 1 .. Len(stream[c]) /\ Len(stream[c]) \in Nat
        /\ DOMAIN stream[c] = 1 .. Len(stream[c])
    <3>1. stream[c] \in Seq(BOOLEAN)
      BY DEF TypeOK
    <3> QED BY <3>1
  <2>2. DOMAIN line = 1 .. len /\ len < p
    BY <1>1
  <2> QED BY <2>1, <2>2
<1>3. \A i \in 1 .. len : line[i] = e + i /\ ~stream[c][e + i]
  BY <1>1, <1>2
<1>4. e = 0 \/ stream[c][e]
  BY <1>1
<1> HIDE DEF e
<1>5. \A q : Pipeline!NewlinesUpTo(stream[c], q) = NewlinesUpTo(c, q)
  BY DEF Pipeline!NewlinesUpTo, NewlinesUpTo
<1>6. k = Cardinality(NewlinesUpTo(c, e)) + 1 /\ Cardinality(NewlinesUpTo(c, e)) \in Nat
  <2>1. \A q \in e + 1 .. p - 1 : ~stream[c][q]
    <3> SUFFICES ASSUME NEW q \in e + 1 .. p - 1 PROVE ~stream[c][q]
      OBVIOUS
    <3>1. q - e \in 1 .. len /\ e + (q - e) = q
      BY <1>2
    <3> QED BY <1>3, <3>1
  <2>2. Cardinality(NewlinesUpTo(c, p)) = Cardinality(NewlinesUpTo(c, e)) + 1
    BY <1>1, <1>2, <2>1, NextNewline
  <2>3. Cardinality(NewlinesUpTo(c, e)) \in Nat
    BY <1>2, NewlinesFinite
  <2> QED BY <1>1, <2>2, <2>3
<1>7. ASSUME NEW q \in DOMAIN stream[c], stream[c][q], NEW n \in Nat \ {0},
             Cardinality(NewlinesUpTo(c, q)) = n
      PROVE  Pipeline!EndOfLine(stream[c], n) = q
  <2>1. \A r \in DOMAIN stream[c] :
          stream[c][r] /\ Cardinality(NewlinesUpTo(c, r)) = n => r = q
    BY <1>2, <1>7, OneEnd
  <2>2. /\ \A r \in DOMAIN stream[c] :
             stream[c][r] /\ Pipeline!Cardinality(Pipeline!NewlinesUpTo(stream[c], r)) = n
               => r = q
        /\ Pipeline!Cardinality(Pipeline!NewlinesUpTo(stream[c], q)) = n
    BY <1>5, <1>7, <2>1, SameCount
  <2> QED BY <1>7, <2>2 DEF Pipeline!EndOfLine
<1>8. Pipeline!EndOfLine(stream[c], k) = p
  BY <1>1, <1>7
<1>9. Pipeline!EndOfLine(stream[c], k - 1) = e
  <2>1. CASE e = 0
    <3>1. NewlinesUpTo(c, e) = {}
      BY <2>1 DEF NewlinesUpTo
    <3>2. k - 1 = 0
      BY <1>6, <3>1, FS_EmptySet
    <3> QED BY <2>1, <3>2 DEF Pipeline!EndOfLine
  <2>2. CASE e # 0
    <3>1. e \in DOMAIN stream[c] /\ stream[c][e] /\ e \in NewlinesUpTo(c, e)
      BY <1>2, <1>4, <2>2 DEF NewlinesUpTo
    <3>2. Cardinality(NewlinesUpTo(c, e)) # 0
      BY <1>2, <3>1, NewlinesFinite, FS_EmptySet
    <3>3. k - 1 \in Nat \ {0} /\ Cardinality(NewlinesUpTo(c, e)) = k - 1
      BY <1>6, <3>2
    <3> QED BY <1>7, <3>1, <3>3
  <2> QED BY <2>1, <2>2
<1>10. line = Pipeline!Line(stream[c], k)
  <2>1. Pipeline!Line(stream[c], k) = [i \in 1 .. len |-> e + i]
    BY <1>2, <1>8, <1>9 DEF Pipeline!Line
  <2>2. line = [i \in 1 .. len |-> line[i]]
    BY <1>2
  <2> QED BY <1>3, <2>1, <2>2
<1>11. Pipeline!HasLine(stream[c], k)
  <2>1. NewlinesUpTo(c, p) \in SUBSET NewlinesUpTo(c, Len(stream[c]))
    BY <1>2 DEF NewlinesUpTo
  <2>2. Cardinality(NewlinesUpTo(c, p)) <= Cardinality(NewlinesUpTo(c, Len(stream[c])))
    <3>1. Len(stream[c]) \in Nat
      BY <1>2
    <3>2. IsFiniteSet(NewlinesUpTo(c, Len(stream[c])))
      BY <3>1, NewlinesFinite
    <3> QED BY <2>1, <3>2, FS_Subset
  <2>3. Pipeline!Cardinality(Pipeline!NewlinesUpTo(stream[c], Len(stream[c])))
          = Cardinality(NewlinesUpTo(c, Len(stream[c])))
    BY <1>5, SameCount
  <2> QED BY <1>1, <2>2, <2>3 DEF Pipeline!HasLine
<1> QED BY <1>10, <1>11

\* What Pipeline sees of a connection that is torn down.
LEMMA GoesDown ==
  ASSUME TypeOK, NEW c \in Conns, closing' = [closing EXCEPT ![c] = TRUE]
  PROVE  [e \in Conns |-> ~closing'[e]] = [[e \in Conns |-> ~closing[e]] EXCEPT ![c] = FALSE]
BY DEF TypeOK

\* Dispatching takes the next line, or brings the connection down.
LEMMA DispatchTakes ==
  ASSUME TypeOK, NEW c \in Conns, FramingOf(c)', ~closing[c], UNCHANGED stream,
         NEW buf \in Seq(Nat), NEW rest \in SUBSET Work, dispatch_line(c, buf, rest)
  PROVE  \/ Pipeline!TakeNext(c)
         \/ /\ busy' = [busy EXCEPT ![c] = FALSE]
            /\ closing' = [closing EXCEPT ![c] = TRUE]
            /\ UNCHANGED dispatched
<1>1. PICK line \in Seq(Nat) :
        \/ /\ busy' = [busy EXCEPT ![c] = TRUE]
           /\ dispatched' = [dispatched EXCEPT ![c] = Append(@, line)]
           /\ UNCHANGED closing
        \/ /\ busy' = [busy EXCEPT ![c] = FALSE]
           /\ closing' = [closing EXCEPT ![c] = TRUE]
           /\ UNCHANGED dispatched
  <2>1. PICK i \in DOMAIN buf :
          \/ /\ busy' = [busy EXCEPT ![c] = TRUE]
             /\ dispatched' = [dispatched EXCEPT ![c] = Append(@, SubSeq(buf, 1, i - 1))]
             /\ UNCHANGED closing
          \/ /\ busy' = [busy EXCEPT ![c] = FALSE]
             /\ closing' = [closing EXCEPT ![c] = TRUE]
             /\ UNCHANGED dispatched
    BY DEF dispatch_line, Teardown
  <2>2. SubSeq(buf, 1, i - 1) \in Seq(Nat)
    BY Pieces
  <2> QED BY <2>1, <2>2
<1>2. CASE /\ busy' = [busy EXCEPT ![c] = TRUE]
           /\ dispatched' = [dispatched EXCEPT ![c] = Append(@, line)]
           /\ UNCHANGED closing
  <2>1. /\ dispatched'[c] = Append(dispatched[c], line)
        /\ dispatched[c] \in Seq(Seq(Nat))
    BY <1>2 DEF TypeOK
  <2> SUFFICES ASSUME NEW k \in Nat \ {0}, k = Len(dispatched[c]) + 1 PROVE Pipeline!TakeNext(c)
    BY <2>1
  <2>2. k \in DOMAIN dispatched'[c] /\ dispatched'[c][k] = line
    BY <2>1
  <2>3. IsLine(c, k, line)
    <3>1. \A q : NewlinesUpTo(c, q)' = NewlinesUpTo(c, q)
      BY DEF NewlinesUpTo
    <3>2. IsLine(c, k, dispatched[c][k])'
      BY <2>2 DEF FramingOf
    <3>3. IsLine(c, k, dispatched'[c][k])
      BY <3>1, <3>2 DEF IsLine
    <3> QED BY <2>2, <3>3
  <2>4. Pipeline!HasLine(stream[c], k) /\ line = Pipeline!Line(stream[c], k)
    BY <2>3, LineIsLine
  <2>5. [e \in Conns |-> ~closing[e]][c] /\ UNCHANGED [e \in Conns |-> ~closing[e]]
    BY <1>2
  <2> QED BY <1>2, <2>4, <2>5 DEF Pipeline!TakeNext
<1> QED BY <1>1, <1>2

\* Every step of the callbacks is a step of the pipeline, or none it sees.
LEMMA PipelineStep ==
  TypeOK /\ Lifecycle /\ Framing /\ Framing' /\ Order /\ [Next]_vars
    => [Pipeline!Next]_(Pipeline!vars)
<1> SUFFICES ASSUME TypeOK, Lifecycle, Framing, Framing', Order, Next
             PROVE  Pipeline!Next \/ UNCHANGED Pipeline!vars
  <2>1. UNCHANGED vars => UNCHANGED Pipeline!vars
    BY DEF vars, connVars, clientVars, history, Pipeline!vars
  <2> QED BY <2>1
<1> PICK c \in Conns : Client(c) \/ Server(c)
  BY DEF Next
<1> DEFINE up == [e \in Conns |-> ~closing[e]]
<1>0. /\ FramingOf(c)' /\ busy \in [Conns -> BOOLEAN]
      /\ up' = [e \in Conns |-> ~closing'[e]]
      /\ (UNCHANGED closing => UNCHANGED up)
      /\ (closing' = [closing EXCEPT ![c] = TRUE] => up' = [up EXCEPT ![c] = FALSE])
  BY GoesDown DEF Framing, TypeOK
<1>1. CASE UNCHANGED <<stream, dispatched, busy, replies, closing>>
  BY <1>1 DEF Pipeline!vars
<1>2. CASE /\ closing' = [closing EXCEPT ![c] = TRUE]
           /\ UNCHANGED <<stream, dispatched, busy, replies>>
  <2>1. Pipeline!Drop(c)
    BY <1>0, <1>2 DEF Pipeline!Drop
  <2> QED BY <2>1 DEF Pipeline!Next
<1>3. ASSUME NEW newline \in BOOLEAN, Send(c, newline) PROVE Pipeline!Next
  <2>1. Pipeline!Send(c)
    BY <1>0, <1>3 DEF Send, Pipeline!Send, connVars, history
  <2> QED BY <2>1 DEF Pipeline!Next
<1>4. ASSUME NEW n \in 1 .. READ_CHUNK, on_read_data(c, n)
      PROVE  Pipeline!Next \/ UNCHANGED Pipeline!vars
  <2>1. UNCHANGED <<stream, replies>>
    BY <1>4 DEF on_read_data
  <2>2. CASE MayDispatch(c) /\ dispatch_line(c, Joined(c, n), works)
    <3>1. ~busy[c] /\ ~closing[c]
      BY <2>2 DEF MayDispatch
    <3>2. Joined(c, n) \in Seq(Nat) /\ works \in SUBSET Work
      BY <3>1, ReadContinues DEF Continues, Framing, TypeOK
    <3> HIDE DEF Joined
    <3>3. CASE Pipeline!TakeNext(c)
      <4>1. Pipeline!Take(c)
        BY <2>1, <3>1, <3>3 DEF Pipeline!Take
      <4> QED BY <4>1 DEF Pipeline!Next
    <3>4. CASE /\ busy' = [busy EXCEPT ![c] = FALSE]
               /\ closing' = [closing EXCEPT ![c] = TRUE]
               /\ UNCHANGED dispatched
      BY <1>0, <1>2, <2>1, <3>1, <3>4
    <3> QED BY <1>0, <2>1, <2>2, <3>1, <3>2, <3>3, <3>4, DispatchTakes
  <2>3. CASE UNCHANGED <<handle, busy, closing, works, dispatched>>
    BY <1>1, <2>1, <2>3
  <2> QED BY <1>4, <2>2, <2>3 DEF on_read_data, Joined
<1>5. CASE \/ \E n \in 1 .. READ_CHUNK : on_read_dropped(c, n)
           \/ on_read_failed(c)
  BY <1>2, <1>5 DEF on_read_dropped, on_read_failed, Teardown, history, clientVars
<1>6. ASSUME busy[c], busy' = [busy EXCEPT ![c] = FALSE],
             \/ closing' = [closing EXCEPT ![c] = TRUE]
             \/ UNCHANGED closing /\ (closing[c] \/ SilentCommands),
             UNCHANGED <<stream, dispatched, replies>>
      PROVE  Pipeline!Next
  <2>1. up'[c] = ~closing'[c] /\ up' \in {up, [up EXCEPT ![c] = FALSE]}
    BY <1>0, <1>6
  <2>2. SilentCommands \/ ~up'[c]
    BY <1>6, <2>1 DEF TypeOK
  <2>3. Pipeline!NoReply(c)
    BY <1>6, <2>1, <2>2 DEF Pipeline!NoReply, Pipeline!GoesIdle
  <2> QED BY <2>3 DEF Pipeline!Next
<1>7. ASSUME NEW w \in WorksOf(c), after_work_cb(w)
      PROVE  Pipeline!Next \/ UNCHANGED Pipeline!vars
  <2>1. /\ w.conn = c /\ busy[c] /\ (w.silent => SilentCommands)
        /\ UNCHANGED <<stream, dispatched, replies>>
    BY <1>7, OnlyRequest DEF Order, OrderOf, after_work_cb, clientVars, history
  <2> QED BY <1>1, <1>6, <1>7, <2>1 DEF after_work_cb, Teardown
<1>8. ASSUME NEW w \in WorksOf(c), on_write_failed(w) PROVE Pipeline!Next
  <2>1. w.conn = c /\ busy[c]
    BY OnlyRequest
  <2> QED BY <1>6, <1>8, <2>1 DEF on_write_failed, Teardown, clientVars, history
<1>9. ASSUME NEW w \in WorksOf(c), on_write_done(w) PROVE Pipeline!Next
  <2>1. w.conn = c /\ busy[c] /\ w.no = Len(dispatched[c]) /\ UNCHANGED stream
    BY <1>9, OnlyRequest DEF Order, OrderOf, on_write_done, clientVars
  <2>2. replies' = [replies EXCEPT ![c] = Append(@, Len(dispatched[c]))]
    BY <1>9, <2>1 DEF on_write_done
  <2>3. Pipeline!TakeNext(c) \/ Pipeline!GoesIdle(c)
    <3>1. CASE ~closing[c] /\ dispatch_line(c, rbuf[c], works \ {w})
      <4>1. rbuf[c] \in Seq(Nat) /\ works \ {w} \in SUBSET Work
        BY DEF TypeOK
      <4>2. CASE /\ busy' = [busy EXCEPT ![c] = FALSE]
                 /\ closing' = [closing EXCEPT ![c] = TRUE]
                 /\ UNCHANGED dispatched
        BY <1>0, <4>2 DEF Pipeline!GoesIdle
      <4> QED BY <1>0, <2>1, <3>1, <4>1, <4>2, DispatchTakes
    <3>2. CASE busy' = [busy EXCEPT ![c] = FALSE] /\ UNCHANGED <<closing, rbuf, dispatched>>
      BY <1>0, <3>2 DEF Pipeline!GoesIdle
    <3> QED BY <1>9, <2>1, <3>1, <3>2 DEF on_write_done
  <2>4. Pipeline!Reply(c)
    BY <2>1, <2>2, <2>3 DEF Pipeline!Reply
  <2> QED BY <2>4 DEF Pipeline!Next
<1>10. CASE \/ HangUp(c) \/ on_connection(c) \/ on_close(c)
            \/ \E w \in WorksOf(c) : StartWork(w) \/ work_cb(w)
  BY <1>1, <1>10
  DEF HangUp, on_connection, on_close, StartWork, work_cb, connVars, clientVars, history
<1> QED
  BY <1>3, <1>4, <1>5, <1>7, <1>8, <1>9, <1>10
  DEF Client, Server, OnRead, AfterWork, OnWrite, Start, Run

\* The callbacks of net.c, with their buffers, handles and threads, implement
\* the ordered pipeline the README promises.
THEOREM PipelineImplemented == Spec => ImplementsPipeline
<1>1. Init => Pipeline!Init
  BY DEF Init, Pipeline!Init
<1> QED
  BY <1>1, PipelineStep, TypeCorrect, LifecycleInit, LifecycleStep, FramingHolds, OrderHolds, PTL
  DEF Spec, ImplementsPipeline, Pipeline!Spec

=============================================================================
