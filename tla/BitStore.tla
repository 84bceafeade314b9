------------------------------ MODULE BitStore ------------------------------
(***************************************************************************)
(* The bit commands of src/src/bitops.c, as parse_and_execute (parser.c)   *)
(* runs them on the workers, and the part of the data files and of their   *)
(* descriptors (file.c) that they depend on.                               *)
(*                                                                         *)
(* One step is one critical section: a call of prepare_file, read_from or  *)
(* write_to, with the computation of the worker that follows it; or one    *)
(* load of dt->length, which takes no lock.  The table of descriptors is   *)
(* the module FileTable's; here a key has one descriptor or none, evicted  *)
(* at any time nobody holds it.  prepare_file may fail; left out are       *)
(* errors of the disk in a file that is open.                              *)
(***************************************************************************)
EXTENDS Bytes

CONSTANTS
  Keys,
  Workers,
  Requests,          \* the commands clients may send
  OldFiles,          \* contents a file may have when the server starts
  FILE_BUFFER_SIZE,  \* bytes of a file read at a time
  FILE_SIZE_LIMIT,   \* largest byte offset of a bit
  INT_MAX,           \* largest value of a C int
  AllocFails,        \* whether memory may be short
  FilesystemFails,   \* whether prepare_file may fail: no slot, directory or file
  NoTruncation,      \* whether clients store results only where nothing is
                     \* truncated: into keys that are new or open
  Orderly,           \* whether clients and failures spare the commands what the
                     \* operators Fits, Apart and MayFail rule out
  MaxCommands        \* bound: commands the workers execute

\* What parse_and_execute makes of well-formed lines: a key, offset and value;
\* a range; or an option, a destination unless a hook takes the result, sources.
SetbitRequest   == [op : {"SETBIT"}, key : Keys, byte : Nat, bit : Bit, value : {0, 1}]
GetbitRequest   == [op : {"GETBIT"}, key : Keys, byte : Nat, bit : Bit]
BitcountRequest == [op : {"BITCOUNT"}, key : Keys, start : Int, end : Int \cup {NULL}]
BitopRequest ==
  {q \in [op : {"BITOP"}, option : Options, hook : {"NONE", "COUNTOP", "GETOP"},
          dest : Keys \cup {NULL}, srcs : Seq(Keys)] :
     q.srcs # <<>> /\ (q.dest = NULL <=> q.hook # "NONE")}

ASSUME RequestsAssumption ==
  Requests \subseteq SetbitRequest \cup GetbitRequest \cup BitcountRequest \cup BitopRequest

ASSUME BitStoreAssumption ==
  /\ NULL \notin Keys \cup Int \cup Requests
  /\ IsFiniteSet(Bit) /\ Bit # {}
  /\ OldFiles \subseteq Seq(Byte)
  /\ FILE_BUFFER_SIZE \in Nat \ {0}
  /\ FILE_SIZE_LIMIT \in Nat /\ INT_MAX \in Nat
  /\ AllocFails \in BOOLEAN /\ FilesystemFails \in BOOLEAN
  /\ NoTruncation \in BOOLEAN /\ Orderly \in BOOLEAN
  /\ MaxCommands \in Nat

VARIABLES
  files,    \* keys whose data file exists
  data,     \* contents of the files, what stdio still buffers included
  length,   \* dt->length of a key's descriptor; NULL while it has none
  leaked,   \* keys with a reference nobody will release
  job,      \* what each worker is executing
  answer,   \* its last command with the reply
  started,  \* commands started so far
  acked,    \* history: bits a SETBIT has set and nothing cleared since
  raced,    \* history: two SETBITs of one byte have overlapped
  cleared   \* history: a command that may clear a bit was sent

vars == <<files, data, length, leaked, job, answer, started, acked, raced, cleared>>

ERR == -1
NoFloor == 0

\* A worker's locals: byteval of setbitCommand; start, end and o of
\* bitcountCommand; offset (in o), t of the source being looked at, lens (what t
\* and r encode), maxidx, maxlen and p of bitopCommand; bits of both; dts and held
\* of the job.  History: floor and old, the ones of the key and the contents of
\* BITOP's destination when the command started; torn, t and r of some source are
\* of lengths with another number of full buffers.
Idle == [pc |-> "idle", req |-> NULL, held |-> {}, byteval |-> {},
         start |-> 0, end |-> 0, o |-> 0, bits |-> 0,
         dts |-> <<>>, t |-> 0, lens |-> <<>>, maxidx |-> 0, maxlen |-> 0, p |-> <<>>,
         floor |-> NoFloor, old |-> <<>>, torn |-> FALSE]

Key(q) == IF q.op = "BITOP" THEN q.dest ELSE q.key

-----------------------------------------------------------------------------
(* file.c                                                                  *)

Mode(q) == CASE q.op = "SETBIT" -> 0 [] q.op = "BITOP" -> 2 [] OTHER -> 1

\* prepare_file(k, mode) found a descriptor or made one.  A destination is
\* truncated when it is opened, its length that from before; not when it is
\* open already.
Prepared(k, mode) ==
  \/ /\ length[k] # NULL
     /\ UNCHANGED <<files, data, length>>
  \/ /\ length[k] = NULL /\ k \in files
     /\ length' = [length EXCEPT ![k] = Len(data[k])]
     /\ data' = IF mode = 2 THEN [data EXCEPT ![k] = <<>>] ELSE data
     /\ UNCHANGED files
  \/ /\ length[k] = NULL /\ k \notin files /\ mode # 1
     /\ files' = files \cup {k}
     /\ length' = [length EXCEPT ![k] = 0]
     /\ UNCHANGED data

\* prepare_file(k, 1) returned -2: no file, and none made.
Absent(k, mode) ==
  /\ k \notin files /\ mode = 1
  /\ UNCHANGED <<files, data, length>>

\* Mutant: dt->length is set to what was written, not to where it ends.
write_to_size(k, buf, o) ==
  /\ data' = [data EXCEPT ![k] = WriteAt(@, o, buf)]
  /\ length' = [length EXCEPT ![k] = Larger(@, Len(buf))]
  /\ UNCHANGED files

write_to(k, buf, o) ==
  /\ data' = [data EXCEPT ![k] = WriteAt(@, o, buf)]
  /\ length' = [length EXCEPT ![k] = Larger(@, o + Len(buf))]
  /\ UNCHANGED files

read_from(k, size, o) == ReadAt(data[k], o, size)

\* Mutant: a descriptor is closed whoever holds it.
EvictHeld(k) ==
  /\ length[k] # NULL
  /\ length' = [length EXCEPT ![k] = NULL]
  /\ UNCHANGED <<files, data, leaked, job, answer, started, acked, raced, cleared>>

\* BITOP with a destination; k is it.
Stores(q, k) == q.op = "BITOP" /\ q.dest = k

InPlace(q) == \E i \in DOMAIN q.srcs : q.srcs[i] = q.dest

\* A destination that may be truncated when it is opened: clients take care that
\* others are new or open, and stay so until they are prepared.
Expendable(q) == ~NoTruncation /\ (Orderly => ~InPlace(q))

\* get_avalible_slot closes a descriptor nobody holds; its file stays.
Evict(k) ==
  /\ length[k] # NULL /\ k \notin leaked
  /\ \A w \in Workers :
       /\ k \notin job[w].held
       /\ job[w].pc = "key" /\ Stores(job[w].req, k) => Expendable(job[w].req)
  /\ length' = [length EXCEPT ![k] = NULL]
  /\ UNCHANGED <<files, data, leaked, job, answer, started, acked, raced, cleared>>

-----------------------------------------------------------------------------
(* A command's beginning and end.                                          *)

Goto(w, pc) == job' = [job EXCEPT ![w].pc = pc]

\* The reply; every descriptor is released.
Reply(w, n) ==
  /\ answer' = [answer EXCEPT ![w] = <<job[w].req, n>>]
  /\ job' = [job EXCEPT ![w] = Idle]

\* q, executed beside SETBIT, may clear the bit b = <<key, byte, bit>>.
MayClear(q, b) ==
  \/ q.op = "SETBIT" /\ q.value = 0 /\ b = <<q.key, q.byte, q.bit>>
  \/ Stores(q, b[1])

AllBits == Keys \X (0 .. FILE_SIZE_LIMIT) \X Bit

TooFar(q) == q.op \in {"SETBIT", "GETBIT"} /\ q.byte > FILE_SIZE_LIMIT

OnesOf(q) ==
  CASE q.op = "BITCOUNT" -> PopCount(data[q.key])
    [] q.op = "BITOP" /\ q.hook = "COUNTOP" /\ q.option = "OR" ->
         PopCount(data[q.srcs[1]])
    [] OTHER -> NoFloor

Contents(q) == IF \E k \in Keys : Stores(q, k) THEN data[q.dest] ELSE <<>>

\* Orderly clients store no result over a key that is longer,
Fits(q) ==
  \A k \in Keys : Stores(q, k) => \E i \in DOMAIN q.srcs : Len(data[k]) <= Len(data[q.srcs[i]])

\* and send no two commands at a time of which one changes a key of the other.
KeysOf(q) ==
  IF q.op = "BITOP" THEN ({q.dest} \ {NULL}) \cup {q.srcs[i] : i \in DOMAIN q.srcs} ELSE {q.key}
Changes(q) == {k \in Keys : Stores(q, k) \/ (q.op = "SETBIT" /\ q.key = k)}
Apart(p, q) == Changes(p) \cap KeysOf(q) = {} /\ Changes(q) \cap KeysOf(p) = {}

\* A worker takes a command.
StartCommand(w, q) ==
  /\ job[w].pc = "idle" /\ started < MaxCommands
  /\ \A k \in Keys : Stores(q, k) => Expendable(q) \/ k \notin files \/ length[k] # NULL
  /\ Orderly => Fits(q) /\ \A v \in Workers : job[v].req # NULL => Apart(q, job[v].req)
  /\ started' = started + 1
  /\ answer' = [answer EXCEPT ![w] = NULL]
  /\ job' = [job EXCEPT ![w].req = q, ![w].floor = OnesOf(q), ![w].old = Contents(q),
                        ![w].pc = IF TooFar(q) THEN "refused"
                                  ELSE IF Key(q) = NULL THEN "sources" ELSE "key"]
  /\ acked' = {b \in acked : ~MayClear(q, b)}
  /\ cleared' = (cleared \/ \E b \in AllBits : MayClear(q, b))
  /\ UNCHANGED <<files, data, length, leaked, raced>>

\* ERR:OFFSET OUT OF RANGE, before anything is prepared.
Refuse(w) ==
  /\ job[w].pc = "refused"
  /\ Reply(w, ERR)
  /\ UNCHANGED <<files, data, length, leaked, started, acked, raced, cleared>>

\* If Orderly, nothing fails once BITOP has emptied its destination.
MayFail(w) == Orderly => Contents(job[w].req) = job[w].old

\* posix_memalign failed.
OutOfMemory(w) ==
  /\ AllocFails /\ MayFail(w)
  /\ Reply(w, ERR)

\* prepare_file(k) returned -1: every slot is in use, or the directory or the file
\* cannot be made or opened.
PrepareFails(w, k) ==
  /\ FilesystemFails /\ MayFail(w)
  /\ length[k] = NULL
  /\ Reply(w, ERR)
  /\ UNCHANGED <<files, data, length>>

First(q) == CASE q.op = "SETBIT" -> "setbit" [] q.op = "GETBIT" -> "getbit"
              [] q.op = "BITCOUNT" -> "range" [] q.op = "BITOP" -> "sources"

\* prepare_file(&job->desc[0], key, mode): a key not there counts as all zeros.
PrepareKey(w) ==
  LET q == job[w].req
  IN  /\ job[w].pc = "key"
      /\ \/ /\ Prepared(Key(q), Mode(q))
            /\ job' = [job EXCEPT ![w].pc = First(q), ![w].held = {Key(q)}]
            /\ UNCHANGED answer
         \/ /\ Absent(Key(q), Mode(q))
            /\ Reply(w, 0)
         \/ PrepareFails(w, Key(q))
      /\ UNCHANGED <<leaked, started, acked, raced, cleared>>

-----------------------------------------------------------------------------
(* setbitCommand and getbitCommand                                         *)

\* The byte as it is: zero beyond the end, where setting a 0 ends the command.
SetbitRead(w) ==
  LET q == job[w].req
      c == read_from(q.key, 1, q.byte)
      Read(b) == job' = [job EXCEPT ![w].pc = "write", ![w].byteval = b]
  IN  /\ job[w].pc = "setbit"
      /\ \/ q.byte < length[q.key] /\ c # <<>> /\ Read(c[1]) /\ UNCHANGED answer
         \/ q.byte < length[q.key] /\ c = <<>> /\ Reply(w, ERR)
         \/ q.byte >= length[q.key] /\ q.value = 1 /\ Read({}) /\ UNCHANGED answer
         \/ q.byte >= length[q.key] /\ q.value = 0 /\ Reply(w, 0)
      /\ raced' = (raced \/ \E v \in Workers \ {w} :
                      /\ job[v].pc = "write"
                      /\ <<job[v].req.key, job[v].req.byte>> = <<q.key, q.byte>>)
      /\ UNCHANGED <<files, data, length, leaked, started, acked, cleared>>

\* Mutant: the byte's other bits are not kept.
NewByteAlone(q, byteval) == IF q.value = 1 THEN {q.bit} ELSE {}

NewByte(q, byteval) ==
  IF q.value = 1 THEN byteval \cup {q.bit} ELSE byteval \ {q.bit}

SetbitWrite(w) ==
  LET q == job[w].req
      b == <<q.key, q.byte, q.bit>>
      safe == \A v \in Workers \ {w} : job[v].req # NULL => ~MayClear(job[v].req, b)
  IN  /\ job[w].pc = "write"
      /\ write_to(q.key, <<NewByte(q, job[w].byteval)>>, q.byte)
      /\ Reply(w, IF q.bit \in job[w].byteval THEN 1 ELSE 0)
      /\ acked' = IF q.value = 1 /\ safe THEN acked \cup {b} ELSE acked
      /\ UNCHANGED <<leaked, started, raced, cleared>>

Getbit(w) ==
  LET q == job[w].req
      c == read_from(q.key, 1, q.byte)
  IN  /\ job[w].pc = "getbit"
      /\ Reply(w, IF q.byte >= length[q.key] THEN 0
                  ELSE IF c = <<>> THEN ERR
                  ELSE IF q.bit \in c[1] THEN 1 ELSE 0)
      /\ UNCHANGED <<files, data, length, leaked, started, acked, raced, cleared>>

-----------------------------------------------------------------------------
(* BITCOUNT: parse_and_execute takes dt->length for the default of end, and *)
(* bitcountCommand takes it again.                                          *)

CountRange(w) ==
  LET q == job[w].req
      n == length[q.key]
  IN  /\ job[w].pc = "range"
      /\ \/ n = 0 /\ Reply(w, 0)
         \/ /\ n # 0
            /\ job' = [job EXCEPT ![w].pc = "clamp", ![w].start = q.start,
                                  ![w].end = IF q.end = NULL THEN n - 1 ELSE q.end]
            /\ UNCHANGED answer
      /\ UNCHANGED <<files, data, length, leaked, started, acked, raced, cleared>>

FromStart(x, strlen) == IF x < 0 THEN Larger(0, strlen + x) ELSE x

\* Mutant: end is clamped to strlen, one byte too few is then counted.
LastByteExclusive(end, strlen) == Smaller(FromStart(end, strlen), strlen - 2)

LastByte(end, strlen) == Smaller(FromStart(end, strlen), strlen - 1)

CountClamp(w) ==
  LET strlen == length[job[w].req.key]
      start  == job[w].start
      end    == job[w].end
      from   == FromStart(start, strlen)
      to     == LastByte(end, strlen)
      empty  == (start < 0 /\ end < 0 /\ start > end) \/ from > to
  IN  /\ job[w].pc = "clamp"
      /\ \/ empty /\ Reply(w, 0)
         \/ ~empty /\ OutOfMemory(w)
         \/ /\ ~empty
            /\ job' = [job EXCEPT ![w].pc = "count", ![w].o = from, ![w].end = to]
            /\ UNCHANGED answer
      /\ UNCHANGED <<files, data, length, leaked, started, acked, raced, cleared>>

\* One iteration of the loop; a read of nothing ends it.
CountRead(w) ==
  LET remaining == job[w].end - job[w].o + 1
      s == read_from(job[w].req.key, Smaller(remaining, FILE_BUFFER_SIZE), job[w].o)
      bits == job[w].bits + PopCount(s)
      last == Len(s) = 0 \/ Len(s) = remaining
  IN  /\ job[w].pc = "count"
      /\ \/ last /\ Reply(w, bits)
         \/ /\ ~last
            /\ job' = [job EXCEPT ![w].o = @ + Len(s), ![w].bits = bits]
            /\ UNCHANGED answer
      /\ UNCHANGED <<files, data, length, leaked, started, acked, raced, cleared>>

-----------------------------------------------------------------------------
(* BITOP and BITCOP                                                        *)

\* One iteration of prepare_files, last source first.  When it fails, what it has
\* prepared is forgotten, and never released.
PrepareSource(w) ==
  LET q == job[w].req
      i == Len(q.srcs) - Len(job[w].dts)
      k == q.srcs[i]
      Got(dt) == job' = [job EXCEPT ![w].dts = <<dt>> \o @,
                                    ![w].held = @ \cup ({dt} \ {NULL}),
                                    ![w].pc = IF i = 1 THEN "lengths" ELSE @]
  IN  /\ job[w].pc = "sources"
      /\ \/ Prepared(k, 1) /\ Got(k) /\ UNCHANGED <<leaked, answer>>
         \/ Absent(k, 1) /\ Got(NULL) /\ UNCHANGED <<leaked, answer>>
         \/ /\ PrepareFails(w, k)
            /\ leaked' = leaked \cup ({job[w].dts[n] : n \in DOMAIN job[w].dts} \ {NULL})
      /\ UNCHANGED <<started, acked, raced, cleared>>

\* bitopCommand's first loop loads the length of a source up to four times, and a
\* SETBIT may change it between them: first for t, its full buffers;
TakeTimes(w) ==
  LET dt == job[w].dts[Len(job[w].lens) + 1]
  IN  /\ job[w].pc = "lengths" /\ Len(job[w].lens) < Len(job[w].dts)
      /\ job' = IF dt = NULL THEN [job EXCEPT ![w].lens = Append(@, 0)]
                ELSE [job EXCEPT ![w].t = length[dt] \div FILE_BUFFER_SIZE, ![w].pc = "rest"]
      /\ UNCHANGED <<files, data, length, leaked, answer, started, acked, raced, cleared>>

\* then for r, the bytes of the last one;
TakeRest(w) ==
  LET n == length[job[w].dts[Len(job[w].lens) + 1]]
  IN  /\ job[w].pc = "rest"
      /\ job' = [job EXCEPT
                   ![w].lens = Append(@, job[w].t * FILE_BUFFER_SIZE + (n % FILE_BUFFER_SIZE)),
                   ![w].torn = @ \/ job[w].t # n \div FILE_BUFFER_SIZE,
                   ![w].pc   = "compare"]
      /\ UNCHANGED <<files, data, length, leaked, answer, started, acked, raced, cleared>>

\* then to see whether it is the longest yet,
CompareLength(w) ==
  LET n == length[job[w].dts[Len(job[w].lens)]]
  IN  /\ job[w].pc = "compare"
      /\ job' = IF n > job[w].maxlen
                  THEN [job EXCEPT ![w].maxidx = Len(job[w].lens), ![w].pc = "longest"]
                  ELSE [job EXCEPT ![w].pc = "lengths"]
      /\ UNCHANGED <<files, data, length, leaked, answer, started, acked, raced, cleared>>

\* and again to keep it.
TakeLongest(w) ==
  /\ job[w].pc = "longest"
  /\ job' = [job EXCEPT ![w].maxlen = length[job[w].dts[Len(job[w].lens)]], ![w].pc = "lengths"]
  /\ UNCHANGED <<files, data, length, leaked, answer, started, acked, raced, cleared>>

\* The rounds are as many as the longest source has buffers by its t and r; none
\* if these say it is empty.
OpLength(w) == job[w].lens[job[w].maxidx]

StartRounds(w) ==
  /\ job[w].pc = "lengths" /\ Len(job[w].lens) = Len(job[w].dts)
  /\ \/ job[w].maxlen = 0 /\ Reply(w, 0)
     \/ job[w].maxlen # 0 /\ OutOfMemory(w)
     \/ job[w].maxlen # 0 /\ OpLength(w) = 0 /\ Reply(w, 0)
     \/ job[w].maxlen # 0 /\ OpLength(w) # 0 /\ Goto(w, "read") /\ UNCHANGED answer
  /\ UNCHANGED <<files, data, length, leaked, started, acked, raced, cleared>>

\* Mutant: r[i] stays 0 when the length is a multiple of the buffer's size.
RoundRemainder(len, o) ==
  IF len > o + FILE_BUFFER_SIZE THEN FILE_BUFFER_SIZE ELSE (len - o) % FILE_BUFFER_SIZE

\* Bytes of a source of len bytes in the round at o: a full buffer, less in the
\* last round, none thereafter.
Round(len, o) == Larger(0, Smaller(FILE_BUFFER_SIZE, len - o))

\* Into a buffer of zeros.  The result of read_from is not looked at.
OpRead(w) ==
  LET i   == Len(job[w].p) + 1
      len == Round(job[w].lens[i], job[w].o)
      buf == IF len = 0 THEN <<>> ELSE read_from(job[w].dts[i], len, job[w].o)
  IN  /\ job[w].pc = "read"
      /\ job' = [job EXCEPT ![w].p = Append(@, buf),
                            ![w].pc = IF i = Len(job[w].dts) THEN "op" ELSE @]
      /\ UNCHANGED <<files, data, length, leaked, answer, started, acked, raced, cleared>>

\* The round's result is stored, counted (COUNTOP) or thrown away (GETOP).  The
\* offset returned is an int: negative, an error, once it exceeds INT_MAX.
OpCombine(w) ==
  LET q    == job[w].req
      size == Round(OpLength(w), job[w].o)
      res  == [j \in 1 .. size |->
                 Combine(q.option, [i \in DOMAIN job[w].p |-> ByteAt(job[w].p[i], j - 1)])]
      o    == job[w].o + size
      bits == job[w].bits + IF q.hook = "COUNTOP" THEN PopCount(res) ELSE 0
  IN  /\ job[w].pc = "op"
      /\ IF q.hook = "NONE" THEN write_to(q.dest, res, job[w].o)
         ELSE UNCHANGED <<files, data, length>>
      /\ \/ /\ o = OpLength(w)
            /\ Reply(w, IF q.hook = "COUNTOP" THEN bits ELSE IF o > INT_MAX THEN ERR ELSE o)
         \/ /\ o < OpLength(w)
            /\ job' = [job EXCEPT ![w].o = o, ![w].bits = bits, ![w].p = <<>>,
                                  ![w].pc = "read"]
            /\ UNCHANGED answer
      /\ UNCHANGED <<leaked, started, acked, raced, cleared>>

-----------------------------------------------------------------------------
Init ==
  /\ files \in SUBSET Keys
  /\ data \in {d \in [Keys -> OldFiles \cup {<<>>}] :
                 \A k \in Keys : IF k \in files THEN d[k] \in OldFiles ELSE d[k] = <<>>}
  /\ length = [k \in Keys |-> NULL]
  /\ leaked = {}
  /\ job = [w \in Workers |-> Idle]
  /\ answer = [w \in Workers |-> NULL]
  /\ started = 0
  /\ acked = {}
  /\ raced = FALSE
  /\ cleared = FALSE

Worker(w) ==
  \/ \E q \in Requests : StartCommand(w, q)
  \/ Refuse(w)
  \/ PrepareKey(w)
  \/ SetbitRead(w)
  \/ SetbitWrite(w)
  \/ Getbit(w)
  \/ CountRange(w)
  \/ CountClamp(w)
  \/ CountRead(w)
  \/ PrepareSource(w)
  \/ TakeTimes(w)
  \/ TakeRest(w)
  \/ CompareLength(w)
  \/ TakeLongest(w)
  \/ StartRounds(w)
  \/ OpRead(w)
  \/ OpCombine(w)

Next == \/ \E w \in Workers : Worker(w)
        \/ \E k \in Keys : Evict(k)
Spec == Init /\ [][Next]_vars

\* A thread that executes a command goes on with it.
Fairness == \A w \in Workers : WF_vars(job[w].pc # "idle" /\ Worker(w))
FairSpec == Spec /\ Fairness

-----------------------------------------------------------------------------
(* Properties.                                                             *)

\* The types of all variables.
TypeOK ==
  /\ files \subseteq Keys
  /\ data \in [Keys -> Seq(Byte)] /\ \A k \in Keys \ files : data[k] = <<>>
  /\ length \in [Keys -> Nat \cup {NULL}]
  /\ leaked \subseteq {k \in Keys : length[k] # NULL}
  /\ \A w \in Workers :
       /\ job[w].req \in Requests \cup {NULL}
       /\ job[w].held \subseteq {k \in Keys : length[k] # NULL}
       /\ job[w].byteval \in Byte
       /\ job[w].start \in Int /\ job[w].end \in Int
       /\ job[w].o \in Nat /\ job[w].bits \in Nat
       /\ job[w].dts \in Seq(Keys \cup {NULL})
       /\ job[w].t \in Nat /\ job[w].lens \in Seq(Nat)
       /\ job[w].maxidx \in Nat /\ job[w].maxlen \in Nat
       /\ job[w].p \in Seq(Seq(Byte))
       /\ answer[w] = NULL \/ answer[w] \in Requests \X Int
  /\ started \in Nat
  /\ raced \in BOOLEAN /\ cleared \in BOOLEAN

\* dt->length, which every command trusts for where the file ends, is the size
\* of the file, unless BITOP is storing a result there; and is again when it has
\* answered.
LengthMatchesSize ==
  \A k \in Keys :
    length[k] # NULL /\ (\A w \in Workers : job[w].req # NULL => ~Stores(job[w].req, k))
      => length[k] = Len(data[k])

\* A bit that SETBIT has reported set stays set until a command that may clear
\* it is sent (README: commands of different connections run in parallel).
AcknowledgedBitsStay == \A b \in acked : b[3] \in ByteAt(data[b[1]], b[2])

\* It does so long as no two SETBITs of one byte overlap.
IntactAcknowledged == ~raced => AcknowledgedBitsStay

\* BITCOUNT of a whole key, or BITCOP OR of one, counts at least the ones there
\* were when it was sent and at most those there are when it answers, whatever
\* is set meanwhile and however the file grows and is read piece by piece (in a
\* run in which nothing is cleared nor lost; an error is no count).  BITCOP may
\* count fewer if the file grew between the loads of its length for t and for r.
Counts(q) ==
  \/ q.op = "BITCOUNT" /\ q.start = 0 /\ q.end \in {NULL, -1}
  \/ q.op = "BITOP" /\ q.hook = "COUNTOP" /\ q.option = "OR" /\ Len(q.srcs) = 1
CountsBetween(w) ==
  job[w].req # NULL /\ answer'[w] # NULL /\ answer'[w][2] # ERR /\ Counts(job[w].req)
    => /\ job[w].torn \/ job[w].floor <= answer'[w][2]
       /\ answer'[w][2] <= OnesOf(job[w].req)
CountBetween ==
  [][~raced' /\ ~cleared => \A w \in Workers : CountsBetween(w)]_vars

\* After BITOP has answered, the destination is the result of its sources
\* (README: "store op result into dest").
Longest(lens) == CHOOSE n \in {lens[i] : i \in DOMAIN lens} :
                   \A i \in DOMAIN lens : lens[i] <= n

OpResult(q) ==
  [o \in 1 .. Longest([i \in DOMAIN q.srcs |-> Len(data[q.srcs[i]])]) |->
     Combine(q.option, [i \in DOMAIN q.srcs |-> ByteAt(data[q.srcs[i]], o - 1)])]
BitopStoresResult ==
  \A w \in Workers :
    answer[w] # NULL /\ answer[w][2] # ERR =>
      LET q == answer[w][1]
      IN  q.op = "BITOP" /\ q.dest # NULL /\ (\A i \in DOMAIN q.srcs : q.srcs[i] # q.dest)
            => data[q.dest] = OpResult(q)

\* Every command ends: the loops over a file's pieces terminate.
CommandsEnd == \A w \in Workers : job[w].pc # "idle" ~> job[w].pc = "idle"

\* In an orderly run the workers implement the atomic commands of Bitmap: replies
\* and contents, whatever is evicted and opened again and whatever fails.  A
\* result being stored becomes the key's with the reply.
StoreOf(k) ==
  IF \E w \in Workers : job[w].req # NULL /\ Stores(job[w].req, k)
    THEN job[CHOOSE w \in Workers : job[w].req # NULL /\ Stores(job[w].req, k)].old
    ELSE data[k]
Commands == INSTANCE Bitmap WITH store <- [k \in Keys |-> StoreOf(k)]
ImplementsBitmap == Commands!Spec
=============================================================================
