----------------------------- MODULE Connection -----------------------------
(***************************************************************************)
(* The network layer, src/src/net.c: what the libuv callbacks do to each   *)
(* connection (conn_t) and to its requests (work_req).                     *)
(*                                                                         *)
(* The loop thread runs one callback at a time, so one callback is one     *)
(* step; the threads of the pool run work_cb beside it.  A byte is its     *)
(* position in what the client sent: newline or not is all that net.c      *)
(* looks at.  What a command does and says belongs to other modules: here  *)
(* a request ends with a reply or, for BITPOS and BITFIELD, without one.   *)
(***************************************************************************)
EXTENDS Integers, Sequences, FiniteSets

CONSTANTS
  Conns,          \* connections, each with its conn_t
  PoolSize,       \* UV_THREADPOOL_SIZE, the option -w
  READ_CHUNK,     \* most bytes of one on_read
  RBUF_INIT_CAP,  \* first capacity of rbuf
  RBUF_MAX_CAP,   \* largest capacity of rbuf
  SilentCommands, \* whether clients send commands that have no reply
  AllocFails,     \* whether malloc, calloc and realloc may fail
  NetworkFails,   \* whether accept, read and write may fail
  MaxBytes        \* bound: bytes one client sends

ASSUME ConnectionAssumption ==
  /\ PoolSize \in Nat \ {0}
  /\ READ_CHUNK \in Nat \ {0}
  /\ RBUF_INIT_CAP \in Nat \ {0}
  /\ RBUF_MAX_CAP \in Nat /\ RBUF_INIT_CAP <= RBUF_MAX_CAP
  /\ SilentCommands \in BOOLEAN
  /\ AllocFails \in BOOLEAN
  /\ NetworkFails \in BOOLEAN
  /\ MaxBytes \in Nat

VARIABLES
  listening,   \* libuv still polls the listening socket
  handle,      \* the uv_tcp_t: none, open, closing (uv_close called), freed
  reading,     \* libuv's UV_HANDLE_READING: on_read may be called
  busy,        \* conn_t.busy
  closing,     \* conn_t.closing
  rbuf,        \* conn_t.rbuf, rlen bytes of it
  rcap,        \* conn_t.rcap
  works,       \* the work_req that exist
  stream,      \* what the client sent: is byte p a newline?
  hungup,      \* the client has closed its end
  taken,       \* bytes of stream handed to on_read
  dispatched,  \* history: the lines given to dispatch_line, in order
  replies      \* history: the requests whose reply was written, in order

connVars   == <<handle, reading, busy, closing, rbuf, rcap>>
clientVars == <<stream, hungup, taken>>
history    == <<dispatched, replies>>
vars       == <<listening, connVars, works, clientVars, history>>

\* Request no of a connection carries dispatched[conn][no].  It waits in the
\* pool's queue, runs, is over, and has its reply written.
Stages == {"queued", "running", "over", "writing"}
Work   == [conn : Conns, no : Nat, stage : Stages, silent : BOOLEAN]

WorksOf(c) == {w \in works : w.conn = c}

Moved(w, stage) == (works \ {w}) \cup {[w EXCEPT !.stage = stage]}

-----------------------------------------------------------------------------
(* Closing.                                                                *)

\* uv_close aborts the process unless the handle is open.
uv_close(c) ==
  handle' = [handle EXCEPT ![c] = IF @ = "open" THEN "closing" ELSE "aborted"]

\* Mutant: closes whether or not a request is in flight.
maybe_close_busy(c) ==
  IF closing'[c] THEN uv_close(c) ELSE UNCHANGED handle

maybe_close(c) ==
  IF closing'[c] /\ ~busy'[c] THEN uv_close(c) ELSE UNCHANGED handle

\* Mutant: closing is set and maybe_close forgotten.
TeardownForgets(c) ==
  /\ closing' = [closing EXCEPT ![c] = TRUE]
  /\ UNCHANGED handle

\* c->closing = 1; maybe_close(c);
Teardown(c) ==
  /\ closing' = [closing EXCEPT ![c] = TRUE]
  /\ maybe_close(c)

-----------------------------------------------------------------------------
(* Framing.                                                                *)

\* Mutant: the capacity is compared with RBUF_MAX_CAP before it is doubled.
CapacitiesTooBig ==
  {cap \in RBUF_INIT_CAP .. 2 * RBUF_MAX_CAP :
     \E k \in 0 .. RBUF_MAX_CAP : cap = RBUF_INIT_CAP * 2^k}

\* Capacities reached from RBUF_INIT_CAP by doubling.
Capacities ==
  {cap \in RBUF_INIT_CAP .. RBUF_MAX_CAP :
     \E k \in 0 .. RBUF_MAX_CAP : cap = RBUF_INIT_CAP * 2^k}

\* The capacity after on_read made room for size bytes: the smallest one by
\* doubling, none if that exceeds RBUF_MAX_CAP.
MakesRoom(c, size, cap) ==
  \/ size <= rcap[c] /\ cap = rcap[c]
  \/ /\ size > rcap[c]
     /\ cap \in Capacities /\ size <= cap
     /\ \A smaller \in Capacities : size <= smaller => cap <= smaller

NoRoom(c, size) ==
  size > rcap[c] /\ \A cap \in Capacities : cap < size

\* memchr(buf, '\n', len): i is where the first newline of buf is.
FirstNewline(c, buf, i) ==
  /\ i \in DOMAIN buf /\ stream[c][buf[i]]
  /\ \A j \in DOMAIN buf : j < i => ~stream[c][buf[j]]

HasLine(c, buf) == \E i \in DOMAIN buf : stream[c][buf[i]]

\* Mutant: scan = llen, the newline stays in the buffer.
AfterLineAndNewline(buf, i) == SubSeq(buf, i, Len(buf))

AfterLine(buf, i) == SubSeq(buf, i + 1, Len(buf))

\* dispatch_line of the first line of buf and the memmove that follows it, on a
\* connection with nothing in flight; rest are the other requests.
dispatch_line(c, buf, rest) ==
  \E i \in DOMAIN buf :
    /\ FirstNewline(c, buf, i)
    /\ rbuf' = [rbuf EXCEPT ![c] = AfterLine(buf, i)]
    /\ \/ /\ busy' = [busy EXCEPT ![c] = TRUE]
          /\ dispatched' = [dispatched EXCEPT ![c] = Append(@, SubSeq(buf, 1, i - 1))]
          /\ works' = rest \cup {[conn |-> c, no |-> Len(dispatched[c]) + 1,
                                  stage |-> "queued", silent |-> FALSE]}
          /\ UNCHANGED <<handle, closing>>
       \/ /\ AllocFails
          /\ busy' = [busy EXCEPT ![c] = FALSE]
          /\ works' = rest
          /\ Teardown(c)
          /\ UNCHANGED dispatched

-----------------------------------------------------------------------------
(* The client and the network.                                             *)

Send(c, newline) ==
  /\ handle[c] = "open" /\ ~hungup[c] /\ Len(stream[c]) < MaxBytes
  /\ stream' = [stream EXCEPT ![c] = Append(@, newline)]
  /\ UNCHANGED <<listening, connVars, works, hungup, taken, history>>

HangUp(c) ==
  /\ handle[c] = "open" /\ ~hungup[c]
  /\ hungup' = [hungup EXCEPT ![c] = TRUE]
  /\ UNCHANGED <<listening, connVars, works, stream, taken, history>>

-----------------------------------------------------------------------------
(* Callbacks of the loop thread.                                           *)

\* on_connection.  When it returns before uv_accept, libuv stops polling the
\* listening socket and nothing ever starts it again.
on_connection(c) ==
  /\ listening /\ handle[c] = "none"
  /\ \/ /\ handle' = [handle EXCEPT ![c] = "open"]
        /\ reading' = [reading EXCEPT ![c] = TRUE]
        /\ UNCHANGED listening
     \/ /\ AllocFails
        /\ listening' = FALSE
        /\ UNCHANGED <<handle, reading>>
     \/ /\ NetworkFails
        /\ handle' = [handle EXCEPT ![c] = "closing"]
        /\ UNCHANGED <<listening, reading>>
  /\ UNCHANGED <<busy, closing, rbuf, rcap, works, clientVars, history>>

\* Mutant: a line is dispatched beside the one in flight.
MayDispatchBusy(c) == ~closing[c]

MayDispatch(c) == ~busy[c] /\ ~closing[c]

CanRead(c) == handle[c] = "open" /\ reading[c]

\* on_read with n > 0 bytes: append, then dispatch the first complete line
\* unless a command is in flight or the connection is going away.
on_read_data(c, n) ==
  LET buf == rbuf[c] \o [i \in 1 .. n |-> taken[c] + i]
  IN  /\ CanRead(c)
      /\ taken[c] + n <= Len(stream[c])
      /\ taken' = [taken EXCEPT ![c] = @ + n]
      /\ \E cap \in Capacities :
           /\ MakesRoom(c, Len(buf), cap)
           /\ rcap' = [rcap EXCEPT ![c] = cap]
      /\ \/ /\ MayDispatch(c) /\ HasLine(c, buf)
            /\ dispatch_line(c, buf, works)
         \/ /\ ~(MayDispatch(c) /\ HasLine(c, buf))
            /\ rbuf' = [rbuf EXCEPT ![c] = buf]
            /\ UNCHANGED <<handle, busy, closing, works, dispatched>>
      /\ UNCHANGED <<listening, reading, stream, hungup, replies>>

\* on_read with bytes it has no room for, or cannot get the room for.
on_read_dropped(c, n) ==
  /\ CanRead(c)
  /\ taken[c] + n <= Len(stream[c])
  /\ taken' = [taken EXCEPT ![c] = @ + n]
  /\ \/ NoRoom(c, Len(rbuf[c]) + n)
     \/ AllocFails /\ Len(rbuf[c]) + n > rcap[c]
  /\ UNCHANGED busy
  /\ Teardown(c)
  /\ UNCHANGED <<listening, reading, rbuf, rcap, works, stream, hungup, history>>

\* on_read with nread < 0: end of file, a network error, or no memory for the
\* bytes that are there (after which libuv keeps reading).
on_read_failed(c) ==
  /\ CanRead(c)
  /\ \/ /\ NetworkFails \/ (hungup[c] /\ taken[c] = Len(stream[c]))
        /\ reading' = [reading EXCEPT ![c] = FALSE]
     \/ /\ AllocFails
        /\ hungup[c] \/ taken[c] < Len(stream[c])
        /\ UNCHANGED reading
  /\ UNCHANGED busy
  /\ Teardown(c)
  /\ UNCHANGED <<listening, rbuf, rcap, works, clientVars, history>>

\* after_work_cb: write the reply, unless there is none or nobody to read it.
after_work_cb(w) ==
  LET c == w.conn
  IN  /\ w \in works /\ w.stage = "over"
      /\ \/ /\ closing[c] \/ w.silent
            /\ busy' = [busy EXCEPT ![c] = FALSE]
            /\ works' = works \ {w}
            /\ UNCHANGED closing
            /\ maybe_close(c)
         \/ /\ ~closing[c] /\ ~w.silent
            /\ works' = Moved(w, "writing")
            /\ UNCHANGED <<handle, busy, closing>>
         \/ /\ ~closing[c] /\ ~w.silent /\ NetworkFails
            /\ busy' = [busy EXCEPT ![c] = FALSE]
            /\ works' = works \ {w}
            /\ Teardown(c)
      /\ UNCHANGED <<listening, reading, rbuf, rcap, clientVars, history>>

\* Mutant: without try_dispatch_next.
on_write_done_only(w) ==
  /\ w \in works /\ w.stage = "writing"
  /\ replies' = [replies EXCEPT ![w.conn] = Append(@, w.no)]
  /\ busy' = [busy EXCEPT ![w.conn] = FALSE]
  /\ works' = works \ {w}
  /\ UNCHANGED <<listening, reading, closing, rbuf, rcap, clientVars, dispatched>>
  /\ maybe_close(w.conn)

\* on_write with status 0, and try_dispatch_next.
on_write_done(w) ==
  LET c == w.conn
  IN  /\ w \in works /\ w.stage = "writing"
      /\ replies' = [replies EXCEPT ![c] = Append(@, w.no)]
      /\ \/ /\ ~closing[c] /\ HasLine(c, rbuf[c])
            /\ dispatch_line(c, rbuf[c], works \ {w})
         \/ /\ closing[c] \/ ~HasLine(c, rbuf[c])
            /\ busy' = [busy EXCEPT ![c] = FALSE]
            /\ works' = works \ {w}
            /\ UNCHANGED <<closing, rbuf, dispatched>>
            /\ maybe_close(c)
      /\ UNCHANGED <<listening, reading, rcap, clientVars>>

\* on_write with status < 0: the peer is gone.
on_write_failed(w) ==
  LET c == w.conn
  IN  /\ w \in works /\ w.stage = "writing"
      /\ NetworkFails \/ hungup[c]
      /\ busy' = [busy EXCEPT ![c] = FALSE]
      /\ works' = works \ {w}
      /\ Teardown(c)
      /\ UNCHANGED <<listening, reading, rbuf, rcap, clientVars, history>>

\* on_close frees the conn_t.
on_close(c) ==
  /\ handle[c] = "closing"
  /\ handle' = [handle EXCEPT ![c] = "freed"]
  /\ UNCHANGED <<listening, reading, busy, closing, rbuf, rcap, works, clientVars, history>>

-----------------------------------------------------------------------------
(* The threads of the pool.                                                *)

Running == {w \in works : w.stage = "running"}

\* A thread takes a request.  libuv's queue is first in, first out; any order
\* is allowed here.
StartWork(w) ==
  /\ w \in works /\ w.stage = "queued"
  /\ Cardinality(Running) < PoolSize
  /\ works' = Moved(w, "running")
  /\ UNCHANGED <<listening, connVars, clientVars, history>>

\* work_cb returns: the command has been executed and reply() called or not.
work_cb(w) ==
  /\ w \in works /\ w.stage = "running"
  /\ \E silent \in {FALSE, SilentCommands} :
       works' = (works \ {w}) \cup {[w EXCEPT !.stage = "over", !.silent = silent]}
  /\ UNCHANGED <<listening, connVars, clientVars, history>>

-----------------------------------------------------------------------------
Init ==
  /\ listening = TRUE
  /\ handle = [c \in Conns |-> "none"]
  /\ reading = [c \in Conns |-> FALSE]
  /\ busy = [c \in Conns |-> FALSE]
  /\ closing = [c \in Conns |-> FALSE]
  /\ rbuf = [c \in Conns |-> <<>>]
  /\ rcap = [c \in Conns |-> RBUF_INIT_CAP]
  /\ works = {}
  /\ stream = [c \in Conns |-> <<>>]
  /\ hungup = [c \in Conns |-> FALSE]
  /\ taken = [c \in Conns |-> 0]
  /\ dispatched = [c \in Conns |-> <<>>]
  /\ replies = [c \in Conns |-> <<>>]

\* Mutant: the test of nread < 0 is dropped.
OnReadUnchecked(c) ==
  \/ \E n \in -1 .. READ_CHUNK : on_read_data(c, n)
  \/ \E n \in 1 .. READ_CHUNK : on_read_dropped(c, n)

OnRead(c) ==
  \/ \E n \in 1 .. READ_CHUNK : on_read_data(c, n)
  \/ \E n \in 1 .. READ_CHUNK : on_read_dropped(c, n)
  \/ on_read_failed(c)

AfterWork(c) == \E w \in WorksOf(c) : after_work_cb(w)
OnWrite(c)   == \E w \in WorksOf(c) : on_write_done(w) \/ on_write_failed(w)
Start(c)     == \E w \in WorksOf(c) : StartWork(w)
Run(c)       == \E w \in WorksOf(c) : work_cb(w)

Client(c) == HangUp(c) \/ \E newline \in BOOLEAN : Send(c, newline)

Server(c) ==
  \/ on_connection(c)
  \/ OnRead(c)
  \/ Start(c)
  \/ Run(c)
  \/ AfterWork(c)
  \/ OnWrite(c)
  \/ on_close(c)

Next == \E c \in Conns : Client(c) \/ Server(c)
Spec == Init /\ [][Next]_vars

\* The loop thread gets to every callback that is due (a read, when there are
\* bytes or the client hung up: the network need never fail) and a command that
\* runs ends.  A queued request may wait for a thread again and again, but the
\* queue is first in, first out: it is not overtaken for ever.
ReadDue(c) == taken[c] < Len(stream[c]) \/ hungup[c]
Fairness ==
  \A c \in Conns :
    /\ WF_vars(ReadDue(c) /\ OnRead(c))
    /\ WF_vars(Run(c))
    /\ WF_vars(AfterWork(c))
    /\ WF_vars(OnWrite(c))
    /\ WF_vars(on_close(c))
    /\ SF_vars(Start(c))

FairSpec == Spec /\ Fairness

-----------------------------------------------------------------------------
(* Properties.                                                             *)

\* The types of all variables.
TypeOK ==
  /\ listening \in BOOLEAN
  /\ handle \in [Conns -> {"none", "open", "closing", "freed", "aborted"}]
  /\ reading \in [Conns -> BOOLEAN]
  /\ busy \in [Conns -> BOOLEAN]
  /\ closing \in [Conns -> BOOLEAN]
  /\ rbuf \in [Conns -> Seq(Nat)]
  /\ rcap \in [Conns -> Nat]
  /\ works \subseteq Work
  /\ stream \in [Conns -> Seq(BOOLEAN)]
  /\ hungup \in [Conns -> BOOLEAN]
  /\ taken \in [Conns -> Nat]
  /\ dispatched \in [Conns -> Seq(Seq(Nat))]
  /\ replies \in [Conns -> Seq(Nat)]

\* busy spans exactly the life of a request, from dispatch_line to the end of
\* its write, and a connection has one request at a time ("serial execution
\* keeps replies ordered").
BusyIffInFlight ==
  \A c \in Conns :
    /\ busy[c] <=> WorksOf(c) # {}
    /\ \A v, w \in WorksOf(c) : v = w

\* No path through the callbacks calls uv_close on a handle that is not open
\* (libuv would abort): not twice, not after on_close.
ClosedOnce == \A c \in Conns : handle[c] # "aborted"

\* A handle is closed, and its conn_t freed, only when no request points to it
\* any more: no write is pending and no callback will use freed memory.
ClosedWhenIdle ==
  \A c \in Conns : handle[c] # "open" => WorksOf(c) = {}

\* A connection marked closing with nothing in flight has been closed: every
\* path that clears busy or sets closing goes through maybe_close.
ClosingIsClosed ==
  \A c \in Conns : closing[c] /\ ~busy[c] => handle[c] \in {"closing", "freed"}

\* rbuf never overflows, nor grows beyond the cap.
BufferBounded ==
  \A c \in Conns : Len(rbuf[c]) <= rcap[c] /\ rcap[c] <= RBUF_MAX_CAP

\* The bytes of the k-th line the client sent, without the newline.
NewlinesUpTo(c, p) == {q \in 1 .. p : stream[c][q]}
IsLine(c, k, line) ==
  \E p \in DOMAIN stream[c] :
    /\ stream[c][p] /\ Cardinality(NewlinesUpTo(c, p)) = k
    /\ Len(line) < p
    /\ \A i \in DOMAIN line : line[i] = p - 1 - Len(line) + i /\ ~stream[c][line[i]]
    /\ p - 1 - Len(line) = 0 \/ stream[c][p - 1 - Len(line)]

\* However the network cuts and the buffer grows and shifts, the k-th command
\* executed is the k-th line sent: nothing lost, repeated, split or merged.
FramingExact ==
  \A c \in Conns : \A k \in DOMAIN dispatched[c] : IsLine(c, k, dispatched[c][k])

\* A client whose bytes find no room has sent more than the buffer's largest
\* capacity behind the last line given to the pool: nothing that was dispatched
\* still takes up room (RBUF_MAX_CAP: "over-long line drops conn").
Pending(c) ==
  {p \in 1 .. taken[c] : Cardinality(NewlinesUpTo(c, p - 1)) >= Len(dispatched[c])}
DroppedOnlyOverfull ==
  [][\A c \in Conns : \A n \in 1 .. READ_CHUNK :
       on_read_dropped(c, n) /\ NoRoom(c, Len(rbuf[c]) + n) /\ ~closing[c]
         => \A cap \in Capacities : cap < Cardinality(Pending(c)')]_vars

\* Replies come in the order of the lines, one per line, and only the last
\* line can be without: the ordered pipelining the README promises.
RepliesOrdered ==
  ~SilentCommands =>
    \A c \in Conns :
      /\ \A k \in DOMAIN replies[c] : replies[c][k] = k
      /\ Len(replies[c]) <= Len(dispatched[c])
      /\ ~closing[c] => Len(dispatched[c]) = Len(replies[c]) + (IF busy[c] THEN 1 ELSE 0)

\* With commands that have no reply: at most one per line, still in order.
RepliesIncrease ==
  \A c \in Conns : \A k \in DOMAIN replies[c] :
    /\ replies[c][k] \in DOMAIN dispatched[c]
    /\ k > 1 => replies[c][k - 1] < replies[c][k]

\* A complete line waits in the buffer of an idle connection only behind a
\* request without reply: after a reply on_write has dispatched it, and no
\* other callback would.
LastAnswered(c) ==
  IF replies[c] = <<>> THEN 0 ELSE replies[c][Len(replies[c])]
NoStall ==
  \A c \in Conns :
    ~busy[c] /\ ~closing[c] /\ HasLine(c, rbuf[c]) => LastAnswered(c) < Len(dispatched[c])

\* Every complete line a connection has received is answered, unless the
\* connection goes away (ordered pipelining: none is forgotten).
LinesReceived(c) == Cardinality(NewlinesUpTo(c, taken[c]))
EveryLineExecuted ==
  \A c \in Conns : \A k \in 1 .. MaxBytes :
    LinesReceived(c) >= k ~> Len(dispatched[c]) >= k \/ closing[c]
EveryLineAnswered ==
  \A c \in Conns : \A k \in 1 .. MaxBytes :
    LinesReceived(c) >= k ~> Len(replies[c]) >= k \/ closing[c]

\* A connection that is going away is closed and its memory freed.
ClosingIsFreed ==
  \A c \in Conns : closing[c] ~> handle[c] = "freed"

\* All of it together: the callbacks implement the promise of OrderedPipeline.
Pipeline == INSTANCE OrderedPipeline WITH
  lines <- dispatched, inFlight <- busy, up <- [c \in Conns |-> ~closing[c]]
ImplementsPipeline == Pipeline!Spec
=============================================================================
