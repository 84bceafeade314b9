--------------------------- MODULE BitStoreCounts ---------------------------
(***************************************************************************)
(* Proof that BITCOUNT of a whole key, and BITCOP OR of one, reply a number *)
(* between the ones there were and the ones there are (CountBetween), for  *)
(* any keys, files, sizes of buffer and workers.  BITCOP replies no more   *)
(* than there are, and no fewer than there were unless the file grew while *)
(* bitopCommand loaded its length.                                         *)
(***************************************************************************)
EXTENDS BitStoreProofs

-----------------------------------------------------------------------------
(* The inductive invariant.                                                *)

\* The key a command counts.
Counted(q) == IF q.op = "BITCOUNT" THEN q.key ELSE q.srcs[1]

\* A command that counts f has counted no more ones than f has before byte a, and
\* with those from a on to b its floor is reached, unless its lengths are torn.
Reaches(j, n) == j.torn \/ j.floor <= n
Progress(j, f, n, a, b) == n <= OnesIn(f, 0, a) /\ Reaches(j, n + OnesIn(f, a, b))

\* How far it is at each point.
CountOK(j, f) ==
  /\ j.pc \in {"key", "range", "clamp", "sources"} \cup Measuring =>
       j.bits = 0 /\ j.floor <= PopCount(f)
  /\ j.pc = "clamp" =>
       /\ j.start = 0
       /\ j.end = -1 \/ (j.end >= 0 /\ j.floor <= OnesIn(f, 0, j.end + 1))
  /\ j.pc = "count" => j.o <= j.end + 1 /\ Progress(j, f, j.bits, j.o, j.end + 1)
  /\ j.pc = "sources" => j.dts = <<>>
  /\ j.pc \in {"read", "op"} \cup Measuring => Len(j.dts) = 1
  /\ j.pc \in Measuring => j.dts[1] = j.req.srcs[1] \/ (j.dts[1] = NULL /\ j.floor = 0)
  /\ j.pc \in Measuring /\ j.lens # <<>> => Reaches(j, OnesIn(f, 0, j.lens[1]))
  /\ j.pc = "lengths" /\ j.lens # <<>> /\ j.maxlen = 0 => j.floor = 0
  /\ j.pc \in {"read", "op"} => j.dts[1] = j.req.srcs[1] /\ j.o <= j.lens[1]
  /\ j.pc = "read" => j.p = <<>> /\ Progress(j, f, j.bits, j.o, j.lens[1])
  /\ j.pc = "op" =>
       /\ Len(j.p) = 1 /\ Len(j.p[1]) <= Round(j.lens[1], j.o)
       /\ Progress(j, f, j.bits + PopCount(j.p[1]), j.o + Round(j.lens[1], j.o), j.lens[1])

\* A command being executed has no answer yet, and is refused if its offset is
\* too large.
Unanswered ==
  \A w \in Workers : job[w].req # NULL =>
    answer[w] = NULL /\ (job[w].pc = "refused" <=> TooFar(job[w].req))

\* As long as nothing is cleared nor lost, a job clears nothing, writes the byte
\* there is with one more bit set, and counts as CountOK says.
CalmJob(j) ==
  j.req # NULL =>
    /\ \A b \in AllBits : ~MayClear(j.req, b)
    /\ j.pc = "write" => j.byteval = ByteAt(data[j.req.key], j.req.byte)
    /\ Counts(j.req) => CountOK(j, data[Counted(j.req)])

\* The inductive invariant: acknowledged bits stay, too, as it is about what SETBIT
\* writes; nothing is promised once a bit may have been cleared or lost.
CountInv ==
  /\ AckedInv
  /\ Unanswered
  /\ ~raced /\ ~cleared => \A w \in Workers : CalmJob(job[w])

-----------------------------------------------------------------------------
(* While nothing is cleared nor lost.                                      *)

\* A command that may clear no bit sets one, or stores nothing.
LEMMA ClearsNothing ==
  ASSUME NEW q \in Requests, ~TooFar(q), \A b \in AllBits : ~MayClear(q, b)
  PROVE  /\ q.op = "SETBIT" => q.value = 1
         /\ q.op = "BITOP" => q.dest = NULL /\ q.hook # "NONE"
<1>1. CASE q.op = "SETBIT"
  <2>1. q \in SetbitRequest /\ q.byte <= FILE_SIZE_LIMIT
    BY <1>1, RequestKinds, BitStoreAssumption DEF TooFar, SetbitRequest
  <2>2. <<q.key, q.byte, q.bit>> \in AllBits
    BY <2>1, BitStoreAssumption DEF AllBits, SetbitRequest
  <2>3. ~MayClear(q, <<q.key, q.byte, q.bit>>)
    BY <2>2
  <2>4. q.value # 0 /\ q.value \in {0, 1}
    BY <1>1, <2>1, <2>3 DEF MayClear, SetbitRequest
  <2> QED BY <1>1, <2>4
<1>2. CASE q.op = "BITOP"
  <2>1. q.dest \in Keys \cup {NULL} /\ (q.dest = NULL <=> q.hook # "NONE")
    BY <1>2, RequestKinds
  <2>2. ASSUME q.dest \in Keys
        PROVE  FALSE
    <3>1. PICK x \in Bit : TRUE
      BY BitStoreAssumption
    <3>2. 0 \in 0 .. FILE_SIZE_LIMIT
      BY BitStoreAssumption
    <3>3. <<q.dest, 0, x>> \in AllBits
      BY <2>2, <3>1, <3>2 DEF AllBits
    <3>4. MayClear(q, <<q.dest, 0, x>>)
      BY <1>2 DEF MayClear, Stores
    <3> QED BY <3>3, <3>4
  <2> QED BY <1>2, <2>1, <2>2
<1> QED BY <1>1, <1>2

\* The histories only become true.
LEMMA CalmBefore ==
  ASSUME TypeInv, NEW w \in Workers, Worker(w), ~raced', ~cleared'
  PROVE  ~raced /\ ~cleared
BY DEF Worker, StartCommand, Refuse, PrepareKey, SetbitRead, SetbitWrite, Getbit, CountRange,
       CountClamp, CountRead, PrepareSource, TakeTimes, TakeRest, CompareLength, TakeLongest,
       StartRounds, OpRead, OpCombine, TypeInv, HistoryOK

\* What is true of a worker's job while nothing is cleared.
LEMMA CalmFacts ==
  ASSUME CountInv, ~raced, ~cleared, NEW w \in Workers, job[w].pc # "idle",
         job[w].pc # "refused"
  PROVE  LET q == job[w].req
         IN  /\ q \in Requests /\ q # NULL /\ ~TooFar(q)
             /\ q.op = "SETBIT" => q.value = 1
             /\ q.op = "BITOP" => q.dest = NULL /\ q.hook # "NONE"
             /\ CalmJob(job[w])
<1>1. job[w].req \in Requests /\ job[w].req # NULL
  BY ReqFacts DEF CountInv, AckedInv
<1>2. ~TooFar(job[w].req) /\ CalmJob(job[w])
  BY <1>1 DEF CountInv, Unanswered
<1>3. \A b \in AllBits : ~MayClear(job[w].req, b)
  BY <1>1, <1>2 DEF CalmJob
<1> QED BY <1>1, <1>2, <1>3, ClearsNothing

\* Then only SETBIT's write changes a file.
LEMMA CalmData ==
  ASSUME CountInv, ~raced, ~cleared, NEW w \in Workers, Worker(w), ~SetbitWrite(w)
  PROVE  data' = data
<1>1. ASSUME PrepareKey(w) PROVE data' = data
  <2>1. Mode(job[w].req) # 2
    <3>1. job[w].req \in Requests /\ (job[w].req.op = "BITOP" => job[w].req.dest = NULL)
      BY <1>1, CalmFacts DEF PrepareKey
    <3>2. Key(job[w].req) # NULL
      BY <1>1 DEF CountInv, AckedInv, TypeInv, JobsOK, JobOK, PrepareKey
    <3> QED BY <3>1, <3>2 DEF Mode, Key
  <2> QED BY <1>1, <2>1 DEF PrepareKey, PrepareFails, Prepared, Absent
<1>2. ASSUME PrepareSource(w) PROVE data' = data
  <2>1. PICK k : Prepared(k, 1) \/ Absent(k, 1) \/ PrepareFails(w, k)
    BY <1>2 DEF PrepareSource
  <2> QED BY <2>1 DEF Prepared, Absent, PrepareFails
<1>3. ASSUME OpCombine(w) PROVE data' = data
  <2>1. job[w].req.op = "BITOP" /\ job[w].pc = "op"
    BY <1>3, ResultFacts DEF CountInv, AckedInv, OpCombine
  <2>2. job[w].req.hook # "NONE"
    BY <2>1, CalmFacts
  <2> QED BY <1>3, <2>2, ResultFacts DEF CountInv, AckedInv
<1> QED BY <1>1, <1>2, <1>3
    DEF Worker, StartCommand, Refuse, SetbitRead, Getbit, CountRange, CountClamp, CountRead,
        TakeTimes, TakeRest, CompareLength, TakeLongest, StartRounds, OpRead

\* And every byte keeps its ones.
LEMMA CalmGrows ==
  ASSUME CountInv, ~raced, ~cleared, NEW w \in Workers, Worker(w), NEW k \in Keys
  PROVE  \A i \in Nat : ByteAt(data[k], i) \subseteq ByteAt(data'[k], i)
<1>1. CASE ~SetbitWrite(w)
  BY <1>1, CalmData
<1>2. CASE SetbitWrite(w)
  <2> SUFFICES ASSUME NEW i \in Nat
               PROVE  ByteAt(data[k], i) \subseteq ByteAt(data'[k], i)
    OBVIOUS
  <2>1. job[w].pc = "write" /\ job[w].req.op = "SETBIT"
    BY <1>2, WriterFacts DEF CountInv, AckedInv
  <2>2. /\ job[w].req.value = 1
        /\ job[w].byteval = ByteAt(data[job[w].req.key], job[w].req.byte)
    BY <2>1, CalmFacts DEF CalmJob
  <2>3. TypeInv
    BY DEF CountInv, AckedInv
  <2>4. CASE k = job[w].req.key /\ i = job[w].req.byte
    <3>1. ByteAt(data'[k], i) = NewByte(job[w].req, job[w].byteval)
      BY <1>2, <2>3, <2>4, SetbitWrites
    <3> QED BY <2>2, <2>4, <3>1 DEF NewByte
  <2>5. CASE ~(k = job[w].req.key /\ i = job[w].req.byte)
    <3>1. ByteAt(data'[k], i) = ByteAt(data[k], i)
      BY <1>2, <2>3, <2>5, SetbitWrites
    <3> QED BY <3>1
  <2> QED BY <2>4, <2>5
<1> QED BY <1>1, <1>2

\* What a command counts is a key.
LEMMA CountsAKey ==
  ASSUME NEW q \in Requests, Counts(q)
  PROVE  /\ Counted(q) \in Keys /\ OnesOf(q) = PopCount(data[Counted(q)])
         /\ q.op = "BITCOUNT" \/ q.op = "BITOP"
         /\ q.op = "BITCOUNT" => q.start = 0 /\ q.end \in {NULL, -1}
         /\ q.op = "BITOP" => /\ q.hook = "COUNTOP" /\ q.option = "OR" /\ q.dest = NULL
                              /\ Len(q.srcs) = 1 /\ q.srcs \in Seq(Keys)
<1>1. CASE q.op = "BITCOUNT"
  BY <1>1, RequestKinds DEF Counts, Counted, OnesOf, BitcountRequest
<1>2. CASE q.op = "BITOP"
  <2>1. q.srcs \in Seq(Keys) /\ q.dest = NULL /\ Len(q.srcs) = 1
    BY <1>2, RequestKinds DEF Counts
  <2> QED BY <1>2, <2>1 DEF Counts, Counted, OnesOf
<1> QED BY <1>1, <1>2 DEF Counts

\* Where bytes gain ones, a count is as far as it was.
LEMMA ProgressStays ==
  ASSUME NEW f \in Seq(Byte), NEW g \in Seq(Byte),
         \A i \in Nat : ByteAt(f, i) \subseteq ByteAt(g, i),
         NEW j, j.floor \in Nat, NEW n \in Nat, NEW a, NEW b, Progress(j, f, n, a, b)
  PROVE  Progress(j, g, n, a, b)
<1>1. OnesIn(f, 0, a) <= OnesIn(g, 0, a) /\ OnesIn(f, a, b) <= OnesIn(g, a, b)
  BY OnesGrow
<1>2. /\ OnesIn(f, 0, a) \in Nat /\ OnesIn(g, 0, a) \in Nat
      /\ OnesIn(f, a, b) \in Nat /\ OnesIn(g, a, b) \in Nat
  BY PartFacts
<1> QED BY <1>1, <1>2 DEF Progress, Reaches

\* So is the command.
LEMMA CountStays ==
  ASSUME NEW f \in Seq(Byte), NEW g \in Seq(Byte),
         \A i \in Nat : ByteAt(f, i) \subseteq ByteAt(g, i),
         NEW j \in JobType, CountOK(j, f)
  PROVE  CountOK(j, g)
<1>1. j.floor \in Nat /\ j.bits \in Nat /\ j.p \in Seq(Seq(Byte))
  BY DEF JobType
<1>2. j.floor <= PopCount(f) => j.floor <= PopCount(g)
  <2>1. PopCount(f) \in Nat /\ PopCount(g) \in Nat /\ PopCount(f) <= PopCount(g)
    BY PopCountIsNat, OnesGrow
  <2> QED BY <1>1, <2>1
<1>3. j.floor <= OnesIn(f, 0, j.end + 1) => j.floor <= OnesIn(g, 0, j.end + 1)
  <2> DEFINE b == j.end + 1
  <2> HIDE DEF b
  <2>1. OnesIn(f, 0, b) \in Nat /\ OnesIn(g, 0, b) \in Nat /\ OnesIn(f, 0, b) <= OnesIn(g, 0, b)
    BY PartFacts, OnesGrow
  <2>2. j.floor <= OnesIn(f, 0, b) => j.floor <= OnesIn(g, 0, b)
    BY <1>1, <2>1
  <2> QED BY <2>2 DEF b
<1>4. \A a, b : Progress(j, f, j.bits, a, b) => Progress(j, g, j.bits, a, b)
  BY <1>1, ProgressStays
<1>6. \A b : Reaches(j, OnesIn(f, 0, b)) => Reaches(j, OnesIn(g, 0, b))
  <2> SUFFICES ASSUME NEW b PROVE Reaches(j, OnesIn(f, 0, b)) => Reaches(j, OnesIn(g, 0, b))
    OBVIOUS
  <2>1. OnesIn(f, 0, b) \in Nat /\ OnesIn(g, 0, b) \in Nat /\ OnesIn(f, 0, b) <= OnesIn(g, 0, b)
    BY PartFacts, OnesGrow
  <2> QED BY <1>1, <2>1 DEF Reaches
<1>5. ASSUME Len(j.p) = 1
      PROVE  \A a, b : Progress(j, f, j.bits + PopCount(j.p[1]), a, b)
                         => Progress(j, g, j.bits + PopCount(j.p[1]), a, b)
  <2>1. j.p[1] \in Seq(Byte)
    BY <1>1, <1>5
  <2>2. j.bits + PopCount(j.p[1]) \in Nat
    BY <1>1, <2>1, PopCountIsNat
  <2> QED BY <1>1, <2>2, ProgressStays
<1> QED BY <1>2, <1>3, <1>4, <1>5, <1>6 DEF CountOK

-----------------------------------------------------------------------------
(* BITCOUNT.                                                               *)
\* A step of a command that counts: it replies with a number between the ones
\* there were and those there are, or goes on.
Advances(w) ==
  LET q == job[w].req
  IN  \/ \E n \in Int : Reply(w, n) /\ (n = ERR \/ (Reaches(job[w], n) /\ n <= OnesOf(q)))
      \/ \E j : /\ job' = [job EXCEPT ![w] = j] /\ UNCHANGED answer
                /\ j.req = q /\ CountOK(j, data[Counted(q)])

\* An empty file has no ones.
LEMMA NoOnes ==
  ASSUME NEW f \in Seq(Byte), Len(f) <= 0
  PROVE  PopCount(f) = 0
<1>1. 0 \in Int
  OBVIOUS
<1>2. PopCount(f) = OnesIn(f, 0, 0)
  BY <1>1, AllInRange
<1> QED BY <1>1, <1>2, NothingThere

\* What a step of a command that counts finds.
LEMMA CountingFacts ==
  ASSUME CountInv, ~raced, ~cleared, NEW w \in Workers, job[w].pc # "idle",
         job[w].pc # "refused", Counts(job[w].req)
  PROVE  LET q == job[w].req
             k == Counted(q)
         IN  /\ q \in Requests /\ k \in Keys /\ data[k] \in Seq(Byte)
             /\ OnesOf(q) = PopCount(data[k]) /\ PopCount(data[k]) \in Nat
             /\ CountOK(job[w], data[k]) /\ JobOK(job[w]) /\ job[w] \in JobType
             /\ job[w].floor \in Nat /\ job[w].bits \in Nat /\ job[w].o \in Nat
             /\ job \in [Workers -> JobType]
             /\ k \in Open => length[k] \in Nat /\ Len(data[k]) <= length[k]
             /\ k \notin files => data[k] = <<>>
<1> DEFINE q == job[w].req
           k == Counted(q)
<1>1. /\ StoreOK /\ Covers /\ job \in [Workers -> JobType] /\ job[w] \in JobType
      /\ JobOK(job[w])
  BY DEF CountInv, AckedInv, TypeInv, JobsOK
<1>2. q \in Requests /\ q # NULL /\ CalmJob(job[w])
  BY CalmFacts
<1>3. CountOK(job[w], data[k])
  BY <1>2 DEF CalmJob
<1>4. k \in Keys /\ OnesOf(q) = PopCount(data[k])
  BY <1>2, CountsAKey
<1>5. data[k] \in Seq(Byte)
  BY <1>1, <1>4 DEF StoreOK
<1>6. k \in Open => length[k] \in Nat /\ Len(data[k]) <= length[k]
  <2> HIDE DEF k
  <2> QED BY <1>1, <1>4 DEF StoreOK, Covers, Open
<1>7. k \notin files => data[k] = <<>>
  <2> HIDE DEF k
  <2> QED BY <1>1, <1>4 DEF StoreOK
<1>8. job[w].floor \in Nat /\ job[w].bits \in Nat /\ job[w].o \in Nat
  BY <1>1 DEF JobType
<1> QED BY <1>1, <1>2, <1>3, <1>4, <1>5, <1>6, <1>7, <1>8, PopCountIsNat

\* prepare_file: a key that is not there has no ones.
LEMMA PrepareKeyCounts ==
  ASSUME CountInv, ~raced, ~cleared, NEW w \in Workers, PrepareKey(w), Counts(job[w].req)
  PROVE  Advances(w)
<1> DEFINE q == job[w].req
           k == Counted(q)
<1>1. job[w].pc = "key"
  BY DEF PrepareKey
<1>2. /\ q \in Requests /\ k \in Keys /\ data[k] \in Seq(Byte)
      /\ OnesOf(q) = PopCount(data[k]) /\ PopCount(data[k]) \in Nat
      /\ CountOK(job[w], data[k]) /\ JobOK(job[w]) /\ job[w] \in JobType
      /\ job[w].floor \in Nat /\ job \in [Workers -> JobType]
      /\ k \notin files => data[k] = <<>>
  BY <1>1, CountingFacts
<1>3. q.op = "BITCOUNT" /\ Key(q) = k
  <2>1. Key(q) # NULL
    BY <1>1, <1>2 DEF JobOK
  <2> QED BY <1>2, <2>1, CountsAKey DEF Key, Counted
<1>4. job[w].bits = 0 /\ job[w].floor <= PopCount(data[k])
  BY <1>1, <1>2 DEF CountOK
<1>5. CASE Absent(k, Mode(q)) /\ Reply(w, 0)
  <2>1. data[k] = <<>> /\ Len(<<>>) <= 0
    BY <1>2, <1>5 DEF Absent
  <2>2. PopCount(data[k]) = 0
    BY <1>2, <2>1, NoOnes
  <2>3. 0 \in Int /\ job[w].floor <= 0 /\ 0 <= OnesOf(q)
    BY <1>2, <1>4, <2>2
  <2> QED BY <1>5, <2>3 DEF Advances, Reaches
<1>6. CASE job' = [job EXCEPT ![w].pc = First(q), ![w].held = {Key(q)}] /\ UNCHANGED answer
  <2> SUFFICES ASSUME NEW j, j = [job[w] EXCEPT !.pc = "range", !.held = {Key(q)}]
               PROVE  Advances(w)
    OBVIOUS
  <2>1. job' = [job EXCEPT ![w] = j]
    BY <1>2, <1>3, <1>6 DEF First
  <2>2. j.pc = "range" /\ j.req = q /\ j.bits = job[w].bits /\ j.floor = job[w].floor
    BY <1>2 DEF JobType
  <2>3. CountOK(j, data[k])
    BY <1>4, <2>2 DEF CountOK, Measuring
  <2> QED BY <1>6, <2>1, <2>2, <2>3 DEF Advances
<1>7. CASE PrepareFails(w, Key(q))
  BY <1>7 DEF PrepareFails, Advances, ERR
<1> QED BY <1>3, <1>5, <1>6, <1>7 DEF PrepareKey

\* A command in BITCOUNT's part counts its key.
LEMMA BitcountFacts ==
  ASSUME TypeInv, NEW w \in Workers, job[w].pc \in {"range", "clamp", "count"}
  PROVE  /\ job[w].req.op = "BITCOUNT" /\ Counted(job[w].req) = job[w].req.key
         /\ job[w].req.key \in Open
<1>1. OnKey(job[w], "BITCOUNT")
  BY DEF TypeInv, JobsOK, JobOK
<1> QED BY <1>1, OnKeyFacts DEF OnKey, Counted

\* BITCOUNT's defaults: the file ends at dt->length.
LEMMA CountRangeCounts ==
  ASSUME CountInv, ~raced, ~cleared, NEW w \in Workers, CountRange(w), Counts(job[w].req)
  PROVE  Advances(w)
<1> DEFINE q == job[w].req
           n == length[q.key]
           f == data[q.key]
           end == IF q.end = NULL THEN n - 1 ELSE q.end
<1>1. job[w].pc = "range"
  BY DEF CountRange
<1>2. q.op = "BITCOUNT" /\ Counted(q) = q.key /\ q.key \in Open
  BY <1>1, BitcountFacts DEF CountInv, AckedInv
<1>3. /\ q \in Requests /\ f \in Seq(Byte)
      /\ OnesOf(q) = PopCount(f) /\ PopCount(f) \in Nat
      /\ CountOK(job[w], f) /\ job[w] \in JobType
      /\ job[w].floor \in Nat /\ job \in [Workers -> JobType]
      /\ n \in Nat /\ Len(f) <= n
  BY <1>1, <1>2, CountingFacts
<1>4. job[w].bits = 0 /\ job[w].floor <= PopCount(f)
  BY <1>1, <1>3 DEF CountOK
<1>5. CASE n = 0 /\ Reply(w, 0)
  <2>1. PopCount(f) = 0
    BY <1>3, <1>5, NoOnes
  <2>2. 0 \in Int /\ job[w].floor <= 0 /\ 0 <= OnesOf(q)
    BY <1>3, <1>4, <2>1
  <2> QED BY <1>5, <2>2 DEF Advances, Reaches
<1>6. CASE /\ n # 0 /\ UNCHANGED answer
           /\ job' = [job EXCEPT ![w].pc = "clamp", ![w].start = q.start, ![w].end = end]
  <2>1. q.start = 0 /\ q.end \in {NULL, -1}
    BY <1>2, <1>3, CountsAKey
  <2>2. end = -1 \/ (end >= 0 /\ job[w].floor <= OnesIn(f, 0, end + 1))
    <3>1. CASE q.end = NULL
      <4>1. end >= 0 /\ end + 1 = n /\ n \in Int
        BY <1>3, <1>6, <3>1
      <4>2. OnesIn(f, 0, n) = PopCount(f)
        BY <1>3, <4>1, AllInRange
      <4> QED BY <1>4, <4>1, <4>2
    <3>2. CASE q.end # NULL
      BY <2>1, <3>2
    <3> QED BY <3>1, <3>2
  <2> HIDE DEF end
  <2> SUFFICES ASSUME NEW j, j = [job[w] EXCEPT !.pc = "clamp", !.start = q.start, !.end = end]
               PROVE  Advances(w)
    OBVIOUS
  <2>3. job' = [job EXCEPT ![w] = j]
    BY <1>3, <1>6
  <2>4. /\ j.pc = "clamp" /\ j.req = q /\ j.bits = job[w].bits /\ j.floor = job[w].floor
        /\ j.start = 0 /\ j.end = end
    BY <1>3, <2>1 DEF JobType
  <2>5. CountOK(j, f)
    BY <1>4, <2>2, <2>4 DEF CountOK, Measuring
  <2> QED BY <1>2, <1>6, <2>3, <2>4, <2>5 DEF Advances
<1> QED BY <1>5, <1>6 DEF CountRange

\* Its start and end within the file.
LEMMA CountClampCounts ==
  ASSUME CountInv, ~raced, ~cleared, NEW w \in Workers, CountClamp(w), Counts(job[w].req)
  PROVE  Advances(w)
<1> DEFINE q == job[w].req
           n == length[q.key]
           f == data[q.key]
           from == FromStart(job[w].start, n)
           to == LastByte(job[w].end, n)
           empty == (job[w].start < 0 /\ job[w].end < 0 /\ job[w].start > job[w].end) \/ from > to
<1>1. job[w].pc = "clamp"
  BY DEF CountClamp
<1>2. Counted(q) = q.key /\ q.key \in Open
  BY <1>1, BitcountFacts DEF CountInv, AckedInv
<1>3. /\ f \in Seq(Byte) /\ Len(f) \in Nat
      /\ OnesOf(q) = PopCount(f) /\ PopCount(f) \in Nat
      /\ CountOK(job[w], f) /\ job[w] \in JobType
      /\ job[w].floor \in Nat /\ job \in [Workers -> JobType]
      /\ n \in Nat /\ Len(f) <= n
  BY <1>1, <1>2, CountingFacts
<1>4. /\ job[w].bits = 0 /\ job[w].floor <= PopCount(f) /\ job[w].start = 0
      /\ job[w].end = -1 \/ (job[w].end >= 0 /\ job[w].floor <= OnesIn(f, 0, job[w].end + 1))
      /\ job[w].end \in Int
  BY <1>1, <1>3 DEF CountOK, JobType
<1> HIDE DEF n, f, q
<1>5. from = 0 /\ to \in Int /\ to < n
  BY <1>3, <1>4 DEF FromStart, LastByte, Larger, Smaller
<1>6. to >= 0 => 0 <= to + 1 /\ job[w].floor <= OnesIn(f, 0, to + 1)
  <2> SUFFICES ASSUME to >= 0 PROVE job[w].floor <= OnesIn(f, 0, to + 1)
    BY <1>5
  <2>1. to + 1 \in Int /\ n \in Int
    BY <1>3, <1>5
  <2>2. CASE to = n - 1
    <3>1. to + 1 = n
      BY <1>3, <2>2
    <3>2. OnesIn(f, 0, n) = PopCount(f)
      BY <1>3, <2>1, AllInRange
    <3> QED BY <1>4, <3>1, <3>2
  <2>3. CASE to # n - 1
    <3>1. job[w].end >= 0 /\ to = job[w].end
      BY <1>3, <1>4, <2>3 DEF LastByte, FromStart, Larger, Smaller
    <3> QED BY <1>4, <3>1
  <2> QED BY <2>2, <2>3
<1>7. CASE empty /\ Reply(w, 0)
  <2>1. to < 0
    <3>1. ~(0 < 0)
      OBVIOUS
    <3> QED BY <1>4, <1>5, <1>7, <3>1
  <2>2. n = 0
    BY <1>3, <1>4, <2>1 DEF LastByte, FromStart, Larger, Smaller
  <2>3. PopCount(f) = 0
    BY <1>3, <2>2, NoOnes
  <2>4. 0 \in Int /\ job[w].floor <= 0 /\ 0 <= OnesOf(q)
    BY <1>3, <1>4, <2>3
  <2> QED BY <1>7, <2>4 DEF Advances, Reaches, q
<1>8. CASE OutOfMemory(w)
  BY <1>8 DEF OutOfMemory, Advances, ERR
<1>9. CASE /\ ~empty /\ UNCHANGED answer
           /\ job' = [job EXCEPT ![w].pc = "count", ![w].o = from, ![w].end = to]
  <2>1. to >= 0
    BY <1>5, <1>9
  <2> HIDE DEF from, to, empty
  <2> SUFFICES ASSUME NEW j, j = [job[w] EXCEPT !.pc = "count", !.o = from, !.end = to]
               PROVE  Advances(w)
    OBVIOUS
  <2>2. job' = [job EXCEPT ![w] = j]
    BY <1>3, <1>9
  <2>3. /\ j.pc = "count" /\ j.req = q /\ j.bits = 0 /\ j.floor = job[w].floor
        /\ j.o = 0 /\ j.end = to
    BY <1>3, <1>4, <1>5 DEF JobType, q
  <2>4. Progress(j, f, 0, 0, to + 1)
    <3>1. OnesIn(f, 0, 0) \in Nat /\ OnesIn(f, 0, to + 1) \in Nat
      BY <1>3, PartFacts
    <3> QED BY <1>3, <1>6, <2>1, <2>3, <3>1 DEF Progress, Reaches
  <2>5. CountOK(j, f)
    BY <1>6, <2>1, <2>3, <2>4 DEF CountOK, Measuring
  <2> QED BY <1>2, <1>9, <2>2, <2>3, <2>5 DEF Advances, q, f
<1> QED BY <1>7, <1>8, <1>9 DEF CountClamp, n, q

-----------------------------------------------------------------------------
(* The loop of BITCOUNT, and the sources of BITCOP.                        *)
\* The ones of what comes next are counted.
LEMMA ProgressMade ==
  ASSUME NEW f \in Seq(Byte), NEW j, j.floor \in Nat, NEW n \in Nat,
         NEW a \in Nat, NEW b \in Int, NEW c \in Int, a <= b, b <= c, Progress(j, f, n, a, c)
  PROVE  Progress(j, f, n + OnesIn(f, a, b), b, c)
<1>1. /\ OnesIn(f, 0, a) \in Nat /\ OnesIn(f, a, b) \in Nat /\ OnesIn(f, a, c) \in Nat
      /\ OnesIn(f, 0, b) \in Nat /\ OnesIn(f, b, c) \in Nat
  BY PartFacts
<1>2. OnesIn(f, a, c) = OnesIn(f, a, b) + OnesIn(f, b, c)
  BY PartsAdjoin
<1>3. OnesIn(f, 0, b) = OnesIn(f, 0, a) + OnesIn(f, a, b)
  BY PartsAdjoin
<1>4. n <= OnesIn(f, 0, a) /\ (j.torn \/ j.floor <= n + OnesIn(f, a, c))
  BY DEF Progress, Reaches
<1>5. /\ n + OnesIn(f, a, b) <= OnesIn(f, 0, b)
      /\ j.torn \/ j.floor <= n + OnesIn(f, a, b) + OnesIn(f, b, c)
  BY <1>1, <1>2, <1>3, <1>4
<1> QED BY <1>5 DEF Progress, Reaches

\* Nothing is left to count.
LEMMA ProgressDone ==
  ASSUME NEW f \in Seq(Byte), NEW j, j.floor \in Nat, NEW n \in Nat,
         NEW a \in Int, NEW b \in Int, b <= a \/ Len(f) <= a, Progress(j, f, n, a, b)
  PROVE  Reaches(j, n) /\ n <= PopCount(f)
<1>1. OnesIn(f, a, b) = 0
  BY NothingThere
<1>2. OnesIn(f, 0, a) \in Nat /\ OnesIn(f, 0, a) <= PopCount(f) /\ PopCount(f) \in Nat
  BY PartFacts, PopCountIsNat
<1>3. n <= OnesIn(f, 0, a) /\ (j.torn \/ j.floor <= n + OnesIn(f, a, b))
  BY DEF Progress, Reaches
<1> QED BY <1>1, <1>2, <1>3 DEF Reaches

\* A piece of the file is read, and the ones of it are counted.
LEMMA CountReadCounts ==
  ASSUME CountInv, ~raced, ~cleared, NEW w \in Workers, CountRead(w), Counts(job[w].req)
  PROVE  Advances(w)
<1> DEFINE q == job[w].req
           f == data[q.key]
           o == job[w].o
           remaining == job[w].end - o + 1
           size == Smaller(remaining, FILE_BUFFER_SIZE)
           bits(s) == job[w].bits + PopCount(s)
           last(s) == Len(s) = 0 \/ Len(s) = remaining
<1> SUFFICES ASSUME NEW s, s = ReadAt(f, o, size)
             PROVE  Advances(w)
  OBVIOUS
<1>1. job[w].pc = "count"
  BY DEF CountRead
<1>2. Counted(q) = q.key
  BY <1>1, BitcountFacts DEF CountInv, AckedInv
<1>3. /\ f \in Seq(Byte) /\ Len(f) \in Nat
      /\ OnesOf(q) = PopCount(f)
      /\ CountOK(job[w], f) /\ job[w] \in JobType
      /\ job[w].floor \in Nat /\ job[w].bits \in Nat /\ o \in Nat
      /\ job \in [Workers -> JobType]
  BY <1>1, <1>2, CountingFacts
<1>4. /\ job[w].end \in Int /\ o <= job[w].end + 1
      /\ Progress(job[w], f, job[w].bits, o, job[w].end + 1)
  BY <1>1, <1>3 DEF CountOK, JobType
<1>5. \/ last(s) /\ Reply(w, bits(s))
      \/ /\ ~last(s) /\ UNCHANGED answer
         /\ job' = [job EXCEPT ![w].o = o + Len(s), ![w].bits = bits(s)]
  BY DEF CountRead, read_from
<1> HIDE DEF f, q
<1>6. /\ remaining \in Nat /\ size \in Nat /\ size <= remaining
      /\ remaining # 0 => size # 0
      /\ o + remaining = job[w].end + 1 /\ job[w].end + 1 \in Int
  <2>1. remaining \in Nat /\ o + remaining = job[w].end + 1 /\ job[w].end + 1 \in Int
    BY <1>3, <1>4
  <2>2. FILE_BUFFER_SIZE \in Nat /\ FILE_BUFFER_SIZE # 0
    BY BitStoreAssumption
  <2> HIDE DEF remaining
  <2>3. size \in Nat /\ size <= remaining /\ (remaining # 0 => size # 0)
    BY <2>1, <2>2 DEF Smaller
  <2> QED BY <2>1, <2>3
<1> HIDE DEF remaining
<1>7. /\ s \in Seq(Byte) /\ Len(s) \in Nat /\ Len(s) <= size
      /\ o < Len(f) => Len(s) = Smaller(size, Len(f) - o)
      /\ PopCount(s) = OnesIn(f, o, o + Len(s)) /\ PopCount(s) \in Nat
  <2> HIDE DEF size, o
  <2>1. s = ReadAt(f, o, size)
    BY DEF f, q
  <2>2. /\ s \in Seq(Byte) /\ Len(s) \in Nat /\ Len(s) <= size
        /\ o < Len(f) => Len(s) = Smaller(size, Len(f) - o)
        /\ PopCount(s) = OnesIn(f, o, o + Len(s))
    <3>1. f \in Seq(Byte) /\ o \in Nat /\ size \in Nat
      BY <1>3, <1>6
    <3> QED BY ONLY <2>1, <3>1, PieceRead
  <2> QED BY <2>2, PopCountIsNat
<1>8. /\ o + Len(s) \in Int /\ o <= o + Len(s) /\ o + Len(s) <= job[w].end + 1
      /\ bits(s) \in Nat
  BY <1>3, <1>6, <1>7
<1>9. Progress(job[w], f, bits(s), o + Len(s), job[w].end + 1)
  <2> HIDE DEF o
  <2> QED BY <1>3, <1>4, <1>6, <1>7, <1>8, ProgressMade
<1>10. CASE last(s) /\ Reply(w, bits(s))
  <2>1. job[w].end + 1 <= o + Len(s) \/ Len(f) <= o + Len(s)
    <3>1. CASE Len(s) = remaining
      BY <1>6, <3>1
    <3>2. CASE Len(s) = 0 /\ remaining # 0
      <4>1. ~(o < Len(f))
        BY <1>3, <1>6, <1>7, <3>2 DEF Smaller
      <4> QED BY <1>3, <3>2, <4>1
    <3> QED BY <1>6, <1>10, <3>1, <3>2
  <2>2. Reaches(job[w], bits(s)) /\ bits(s) <= PopCount(f)
    <3> HIDE DEF o
    <3> QED BY <1>3, <1>6, <1>8, <1>9, <2>1, ProgressDone
  <2>3. bits(s) \in Int
    BY <1>8
  <2> HIDE DEF bits
  <2> QED BY <1>3, <1>10, <2>2, <2>3 DEF Advances, q
<1>11. CASE /\ ~last(s) /\ UNCHANGED answer
            /\ job' = [job EXCEPT ![w].o = o + Len(s), ![w].bits = bits(s)]
  <2> SUFFICES ASSUME NEW n, n = bits(s), NEW a, a = o + Len(s),
                      NEW j, j = [job[w] EXCEPT !.o = a, !.bits = n]
               PROVE  Advances(w)
    OBVIOUS
  <2>1. job' = [job EXCEPT ![w] = j]
    BY <1>3, <1>11
  <2>2. /\ j.pc = "count" /\ j.req = q /\ j.bits = n /\ j.floor = job[w].floor
        /\ j.o = a /\ j.end = job[w].end /\ j.torn = job[w].torn
    BY <1>1, <1>3 DEF JobType, q
  <2>3. Progress(j, f, n, a, j.end + 1)
    BY <1>9, <2>2 DEF Progress, Reaches
  <2>4. CountOK(j, f)
    BY <1>8, <2>2, <2>3 DEF CountOK, Measuring
  <2> QED BY <1>2, <1>11, <2>1, <2>2, <2>4 DEF Advances, q, f
<1> QED BY <1>5, <1>10, <1>11

\* A command in BITOP's part that counts has one source and no destination.
LEMMA BitcopFacts ==
  ASSUME CountInv, ~raced, ~cleared, NEW w \in Workers, Counts(job[w].req),
         job[w].pc \in {"sources", "read", "op"} \cup Measuring
  PROVE  LET q == job[w].req
         IN  /\ q.op = "BITOP" /\ Counted(q) = q.srcs[1] /\ q.srcs[1] \in Keys
             /\ Len(q.srcs) = 1 /\ q.option = "OR" /\ q.hook = "COUNTOP"
<1>1. job[w].req \in Requests /\ job[w].req.op = "BITOP"
  BY DEF CountInv, AckedInv, TypeInv, JobsOK, JobOK, OnSources
<1> QED BY <1>1, CountsAKey DEF Counted

\* The source is opened, or there is none and no ones in it.
LEMMA PrepareSourceCounts ==
  ASSUME CountInv, ~raced, ~cleared, NEW w \in Workers, PrepareSource(w), Counts(job[w].req)
  PROVE  Advances(w)
<1> DEFINE q == job[w].req
           k == q.srcs[1]
           f == data[k]
<1>1. job[w].pc = "sources"
  BY DEF PrepareSource
<1>2. Counted(q) = k /\ Len(q.srcs) = 1
  BY <1>1, BitcopFacts
<1>3. /\ f \in Seq(Byte) /\ CountOK(job[w], f) /\ JobOK(job[w]) /\ job[w] \in JobType
      /\ job[w].floor \in Nat /\ job \in [Workers -> JobType]
      /\ k \notin files => f = <<>>
  BY <1>1, <1>2, CountingFacts
<1>4. job[w].dts = <<>> /\ job[w].bits = 0 /\ job[w].floor <= PopCount(f)
  BY <1>1, <1>3 DEF CountOK
<1>5. Len(q.srcs) - Len(job[w].dts) = 1 /\ \A dt : <<dt>> \o job[w].dts = <<dt>>
  BY <1>2, <1>4
<1>14. CASE PrepareFails(w, k)
  BY <1>14 DEF PrepareFails, Advances, ERR
<1> SUFFICES ASSUME ~PrepareFails(w, k) PROVE Advances(w)
  BY <1>14
<1>6. PICK dt \in {k, NULL} :
        /\ dt = k \/ Absent(k, 1)
        /\ job' = [job EXCEPT ![w].dts = <<dt>>, ![w].held = job[w].held \cup ({dt} \ {NULL}),
                              ![w].pc = "lengths"]
  BY <1>5 DEF PrepareSource
<1>7. dt = k \/ job[w].floor = 0
  <2> SUFFICES ASSUME Absent(k, 1) PROVE job[w].floor = 0
    BY <1>6
  <2>1. f = <<>> /\ Len(<<>>) <= 0
    BY <1>3 DEF Absent
  <2>2. PopCount(f) = 0
    BY <1>3, <2>1, NoOnes
  <2> QED BY <1>3, <1>4, <2>2
<1> HIDE DEF k, f
<1> SUFFICES ASSUME NEW d, d = <<dt>>, NEW h, h = job[w].held \cup ({dt} \ {NULL}),
                    NEW j, j = [job[w] EXCEPT !.dts = d, !.held = h, !.pc = "lengths"]
             PROVE  Advances(w)
  OBVIOUS
<1>8. job' = [job EXCEPT ![w] = j]
  BY <1>3, <1>6
<1>9. /\ j.pc = "lengths" /\ j.req = q /\ j.bits = 0 /\ j.floor = job[w].floor /\ j.dts = d
      /\ j.lens = <<>>
  BY <1>1, <1>3, <1>4 DEF JobType, JobOK
<1>10. Len(d) = 1 /\ d[1] = dt
  OBVIOUS
<1>11. d[1] = q.srcs[1] \/ (d[1] = NULL /\ j.floor = 0)
  BY <1>6, <1>7, <1>9, <1>10 DEF k
<1>12. CountOK(j, f)
  BY <1>4, <1>9, <1>10, <1>11 DEF CountOK, Measuring
<1>13. UNCHANGED answer
  BY <1>5 DEF PrepareSource, k
<1> QED BY <1>2, <1>8, <1>9, <1>12, <1>13 DEF Advances, f

\* What bitopCommand's first loop finds: one source, or none and no ones.
LEMMA LookCounts ==
  ASSUME CountInv, ~raced, ~cleared, NEW w \in Workers, job[w].pc \in Measuring,
         Counts(job[w].req)
  PROVE  LET q  == job[w].req
             k  == Counted(q)
             f  == data[k]
             dt == job[w].dts[1]
         IN  /\ f \in Seq(Byte) /\ Len(f) \in Nat /\ k = q.srcs[1]
             /\ CountOK(job[w], f) /\ JobOK(job[w]) /\ job[w] \in JobType
             /\ OnesOf(q) = PopCount(f) /\ PopCount(f) \in Nat
             /\ job[w].floor \in Nat /\ job \in [Workers -> JobType]
             /\ job[w].bits = 0 /\ job[w].floor <= PopCount(f)
             /\ Len(job[w].dts) = 1 /\ OnSources(job[w]) /\ job[w].p = <<>> /\ job[w].o = 0
             /\ dt = k \/ (dt = NULL /\ job[w].floor = 0)
             /\ dt # NULL => length[dt] \in Nat /\ Len(f) <= length[dt]
             /\ job[w].lens \in Seq(Nat) /\ Len(job[w].lens) \in Nat /\ Len(job[w].lens) <= 1
<1> DEFINE q == job[w].req
           k == Counted(q)
           f == data[k]
           dt == job[w].dts[1]
<1>1. job[w].pc \notin {"idle", "refused"}
  BY DEF Measuring
<1>2. /\ q \in Requests /\ k \in Keys /\ f \in Seq(Byte)
      /\ OnesOf(q) = PopCount(f) /\ PopCount(f) \in Nat
      /\ CountOK(job[w], f) /\ JobOK(job[w]) /\ job[w] \in JobType
      /\ job[w].floor \in Nat /\ job \in [Workers -> JobType]
      /\ k \in Open => length[k] \in Nat /\ Len(f) <= length[k]
  BY <1>1, CountingFacts
<1>3. k = q.srcs[1]
  BY BitcopFacts
<1>4. /\ OnSources(job[w]) /\ job[w].p = <<>> /\ job[w].o = 0
      /\ job[w].dts \in Seq(Keys \cup {NULL})
      /\ job[w].lens \in Seq(Nat) /\ Len(job[w].lens) \in Nat
  BY LookFacts DEF CountInv, AckedInv
<1>5. /\ Len(job[w].dts) = 1 /\ job[w].bits = 0 /\ job[w].floor <= PopCount(f)
      /\ dt = k \/ (dt = NULL /\ job[w].floor = 0)
  <2> HIDE DEF f, k
  <2> QED BY <1>2, <1>3 DEF CountOK
<1>6. dt # NULL => k \in Open
  <2>1. 1 \in DOMAIN job[w].dts /\ job[w].held \subseteq Open
    BY <1>4, <1>5 DEF CountInv, AckedInv, TypeInv, JobsOK
  <2>2. dt \in job[w].held \cup {NULL}
    BY <1>4, <2>1 DEF OnSources
  <2> QED BY <1>5, <2>1, <2>2
<1>7. Len(job[w].lens) <= 1
  BY <1>4, <1>5 DEF OnSources
<1>8. Len(f) \in Nat
  <2> HIDE DEF f
  <2> QED BY <1>2
<1>9. dt # NULL => length[dt] \in Nat /\ Len(f) <= length[dt]
  <2> HIDE DEF f, k
  <2> QED BY <1>2, <1>5, <1>6
<1> QED BY <1>2, <1>3, <1>4, <1>5, <1>7, <1>8, <1>9

\* t of the only source, or a length of 0.
LEMMA TakeTimesCounts ==
  ASSUME CountInv, ~raced, ~cleared, NEW w \in Workers, TakeTimes(w), Counts(job[w].req)
  PROVE  Advances(w)
<1> DEFINE q == job[w].req
           k == Counted(q)
           f == data[k]
<1>1. job[w].pc = "lengths" /\ Len(job[w].lens) < Len(job[w].dts) /\ UNCHANGED answer
  BY DEF TakeTimes
<1>2. /\ CountOK(job[w], f) /\ job[w] \in JobType /\ f \in Seq(Byte)
      /\ job[w].floor \in Nat /\ job \in [Workers -> JobType]
      /\ job[w].bits = 0 /\ job[w].floor <= PopCount(f) /\ Len(job[w].dts) = 1
      /\ job[w].dts[1] = q.srcs[1] \/ (job[w].dts[1] = NULL /\ job[w].floor = 0)
      /\ job[w].lens \in Seq(Nat) /\ Len(job[w].lens) \in Nat
  BY <1>1, LookCounts DEF Measuring
<1>3. job[w].lens = <<>> /\ Len(job[w].lens) + 1 = 1
  BY <1>1, <1>2
<1> HIDE DEF k, f
<1>4. CASE job[w].dts[1] = NULL
  <2> SUFFICES ASSUME NEW l, l = Append(job[w].lens, 0), NEW j, j = [job[w] EXCEPT !.lens = l]
               PROVE  Advances(w)
    OBVIOUS
  <2>1. job' = [job EXCEPT ![w].lens = l]
    BY <1>3, <1>4 DEF TakeTimes
  <2>2. job' = [job EXCEPT ![w] = j]
    BY <1>2, <2>1
  <2>3. /\ j.pc = "lengths" /\ j.req = q /\ j.bits = 0 /\ j.floor = job[w].floor
        /\ j.dts = job[w].dts /\ j.torn = job[w].torn /\ j.lens = l
    BY <1>1, <1>2 DEF JobType
  <2>4. l[1] = 0
    BY <1>3
  <2>5. job[w].floor = 0
    <3>1. job[w].dts[1] = q.srcs[1] => q.srcs[1] \in Keys
      BY <1>1, BitcopFacts DEF Measuring
    <3> QED BY <1>2, <1>4, <3>1, BitStoreAssumption
  <2>6. OnesIn(f, 0, 0) \in Nat
    BY <1>2, PartFacts
  <2>7. Reaches(j, OnesIn(f, 0, j.lens[1]))
    BY <2>3, <2>4, <2>5, <2>6 DEF Reaches
  <2>8. CountOK(j, f)
    BY <1>2, <2>3, <2>5, <2>7 DEF CountOK, Measuring
  <2> QED BY <1>1, <2>2, <2>3, <2>8 DEF Advances, f, k
<1>5. CASE job[w].dts[1] # NULL
  <2> SUFFICES ASSUME NEW n, n = length[job[w].dts[1]] \div FILE_BUFFER_SIZE,
                      NEW j, j = [job[w] EXCEPT !.t = n, !.pc = "rest"]
               PROVE  Advances(w)
    OBVIOUS
  <2>1. job' = [job EXCEPT ![w].t = n, ![w].pc = "rest"]
    BY <1>3, <1>5 DEF TakeTimes
  <2>2. job' = [job EXCEPT ![w] = j]
    BY <1>2, <2>1
  <2>3. /\ j.pc = "rest" /\ j.req = q /\ j.bits = 0 /\ j.floor = job[w].floor
        /\ j.dts = job[w].dts /\ j.torn = job[w].torn /\ j.lens = <<>>
    BY <1>2, <1>3 DEF JobType
  <2>4. CountOK(j, f)
    BY <1>2, <2>3 DEF CountOK, Measuring
  <2> QED BY <1>1, <2>2, <2>3, <2>4 DEF Advances, f, k
<1> QED BY <1>4, <1>5

\* r of it: t and r are of one length, or the job is torn.
LEMMA TakeRestCounts ==
  ASSUME CountInv, ~raced, ~cleared, NEW w \in Workers, TakeRest(w), Counts(job[w].req)
  PROVE  Advances(w)
<1> DEFINE q == job[w].req
           k == Counted(q)
           f == data[k]
           n == length[job[w].dts[1]]
           t == job[w].t
           len == t * FILE_BUFFER_SIZE + (n % FILE_BUFFER_SIZE)
           torn == job[w].torn \/ t # n \div FILE_BUFFER_SIZE
<1>1. job[w].pc = "rest" /\ UNCHANGED answer
  BY DEF TakeRest
<1>2. /\ CountOK(job[w], f) /\ JobOK(job[w]) /\ job[w] \in JobType /\ f \in Seq(Byte)
      /\ job[w].floor \in Nat /\ job \in [Workers -> JobType]
      /\ job[w].bits = 0 /\ job[w].floor <= PopCount(f) /\ Len(job[w].dts) = 1
      /\ job[w].dts[1] = q.srcs[1] \/ (job[w].dts[1] = NULL /\ job[w].floor = 0)
      /\ job[w].dts[1] # NULL => n \in Nat /\ Len(f) <= n
      /\ job[w].lens \in Seq(Nat) /\ Len(job[w].lens) \in Nat
  BY <1>1, LookCounts DEF Measuring
<1>3. job[w].lens = <<>> /\ Len(job[w].lens) + 1 = 1 /\ job[w].dts[1] # NULL
  <2>1. Len(job[w].lens) < Len(job[w].dts) /\ job[w].dts[Len(job[w].lens) + 1] # NULL
    BY <1>1, <1>2 DEF JobOK
  <2> QED BY <1>2, <2>1
<1>4. job' = [job EXCEPT ![w].lens = Append(job[w].lens, len), ![w].torn = torn,
                         ![w].pc = "compare"]
  BY <1>3 DEF TakeRest
<1> HIDE DEF k, f, n
<1>5. torn \/ len = n
  <2>1. \A a \in Nat, b \in Nat \ {0} : (a \div b) * b + (a % b) = a
    OBVIOUS
  <2> QED BY <1>2, <1>3, <2>1, BitStoreAssumption
<1>6. n \in Int /\ Len(f) <= n
  BY <1>2, <1>3
<1>7. OnesIn(f, 0, n) = PopCount(f)
  BY <1>2, <1>6, AllInRange
<1> HIDE DEF len, torn
<1> SUFFICES ASSUME NEW l, l = Append(job[w].lens, len),
                    NEW j, j = [job[w] EXCEPT !.lens = l, !.torn = torn, !.pc = "compare"]
             PROVE  Advances(w)
  OBVIOUS
<1>8. job' = [job EXCEPT ![w] = j]
  BY <1>2, <1>4
<1>9. /\ j.pc = "compare" /\ j.req = q /\ j.bits = 0 /\ j.floor = job[w].floor
      /\ j.dts = job[w].dts /\ j.torn = torn /\ j.lens = l
  BY <1>2 DEF JobType
<1>10. l[1] = len
  BY <1>3
<1>11. Reaches(j, OnesIn(f, 0, j.lens[1]))
  BY <1>2, <1>5, <1>7, <1>9, <1>10 DEF Reaches
<1>12. CountOK(j, f)
  BY <1>2, <1>9, <1>11 DEF CountOK, Measuring
<1> QED BY <1>1, <1>8, <1>9, <1>12 DEF Advances, f, k

\* The longest is the only one; if it is empty now there are no ones.
LEMMA LongestCounts ==
  ASSUME CountInv, ~raced, ~cleared, NEW w \in Workers, CompareLength(w) \/ TakeLongest(w),
         Counts(job[w].req)
  PROVE  Advances(w)
<1> DEFINE q == job[w].req
           k == Counted(q)
           f == data[k]
           n == length[job[w].dts[1]]
<1>1. job[w].pc \in {"compare", "longest"} /\ UNCHANGED answer
  BY DEF CompareLength, TakeLongest
<1>2. /\ CountOK(job[w], f) /\ JobOK(job[w]) /\ job[w] \in JobType /\ f \in Seq(Byte)
      /\ job[w].floor \in Nat /\ job \in [Workers -> JobType] /\ PopCount(f) \in Nat
      /\ job[w].bits = 0 /\ job[w].floor <= PopCount(f) /\ Len(job[w].dts) = 1
      /\ job[w].dts[1] = q.srcs[1] \/ (job[w].dts[1] = NULL /\ job[w].floor = 0)
      /\ job[w].dts[1] # NULL => n \in Nat /\ Len(f) <= n
      /\ job[w].lens \in Seq(Nat) /\ Len(job[w].lens) \in Nat /\ Len(job[w].lens) <= 1
  BY <1>1, LookCounts DEF Measuring
<1>3. job[w].lens # <<>> /\ Len(job[w].lens) = 1 /\ job[w].dts[1] # NULL
  <2>1. job[w].lens # <<>> /\ job[w].dts[Len(job[w].lens)] # NULL
    BY <1>1, <1>2 DEF JobOK
  <2>2. Len(job[w].lens) # 0
    BY <1>2, <2>1
  <2>3. \A m \in Nat : m # 0 /\ m <= 1 => m = 1
    OBVIOUS
  <2>4. Len(job[w].lens) = 1
    BY <1>2, <2>2, <2>3
  <2> QED BY <2>1, <2>4
<1>4. Reaches(job[w], OnesIn(f, 0, job[w].lens[1]))
  BY <1>1, <1>2, <1>3 DEF CountOK, Measuring
<1>5. n <= 0 => job[w].floor = 0
  <2>1. n <= 0 => Len(f) <= 0
    <3> HIDE DEF f, n
    <3>1. n \in Nat /\ Len(f) <= n /\ Len(f) \in Nat
      BY <1>2, <1>3
    <3> QED BY <3>1
  <2>2. n <= 0 => PopCount(f) = 0
    <3> HIDE DEF f
    <3> QED BY <1>2, <2>1, NoOnes
  <2> QED BY <1>2, <2>2
<1> HIDE DEF n, f, k
<1>6. ASSUME NEW idx, NEW max, NEW pc \in {"lengths", "longest"},
             pc = "lengths" /\ max = 0 => job[w].floor = 0,
             NEW j, j = [job[w] EXCEPT !.maxidx = idx, !.maxlen = max, !.pc = pc],
             job' = [job EXCEPT ![w] = j]
      PROVE  Advances(w)
  <2>1. /\ j.pc = pc /\ j.req = q /\ j.bits = 0 /\ j.floor = job[w].floor
        /\ j.dts = job[w].dts /\ j.torn = job[w].torn /\ j.lens = job[w].lens /\ j.maxlen = max
    BY <1>2, <1>6 DEF JobType
  <2>2. Reaches(j, OnesIn(f, 0, j.lens[1]))
    BY <1>4, <2>1 DEF Reaches
  <2>3. CountOK(j, f)
    BY <1>2, <1>6, <2>1, <2>2 DEF CountOK, Measuring
  <2> QED BY <1>1, <1>6, <2>1, <2>3 DEF Advances, f, k
<1>7. CASE CompareLength(w) /\ n > job[w].maxlen
  <2> SUFFICES ASSUME NEW j, j = [job[w] EXCEPT !.maxidx = 1, !.maxlen = job[w].maxlen,
                                                !.pc = "longest"]
               PROVE  Advances(w)
    OBVIOUS
  <2>1. job' = [job EXCEPT ![w].maxidx = 1, ![w].pc = "longest"]
    BY <1>3, <1>7 DEF CompareLength, n
  <2>2. job' = [job EXCEPT ![w] = j]
    <3>1. j = [job[w] EXCEPT !.maxidx = 1, !.pc = "longest"]
      BY <1>2 DEF JobType
    <3> QED BY <1>2, <2>1, <3>1
  <2> QED BY <1>6, <2>2
<1>8. CASE CompareLength(w) /\ ~(n > job[w].maxlen)
  <2> SUFFICES ASSUME NEW j, j = [job[w] EXCEPT !.maxidx = job[w].maxidx,
                                                !.maxlen = job[w].maxlen, !.pc = "lengths"]
               PROVE  Advances(w)
    OBVIOUS
  <2>1. job' = [job EXCEPT ![w].pc = "lengths"]
    BY <1>3, <1>8 DEF CompareLength, n
  <2>2. job' = [job EXCEPT ![w] = j]
    <3>1. j = [job[w] EXCEPT !.pc = "lengths"]
      BY <1>2 DEF JobType
    <3> QED BY <1>2, <2>1, <3>1
  <2>3. job[w].maxlen = 0 => job[w].floor = 0
    <3>1. job[w].maxlen = 0 => n <= 0
      BY <1>2, <1>3, <1>8
    <3> QED BY <1>5, <3>1
  <2> QED BY <1>6, <2>2, <2>3
<1>9. CASE TakeLongest(w)
  <2> SUFFICES ASSUME NEW j, j = [job[w] EXCEPT !.maxidx = job[w].maxidx, !.maxlen = n,
                                                !.pc = "lengths"]
               PROVE  Advances(w)
    OBVIOUS
  <2>1. job' = [job EXCEPT ![w].maxlen = n, ![w].pc = "lengths"]
    BY <1>3, <1>9 DEF TakeLongest, n
  <2>2. job' = [job EXCEPT ![w] = j]
    <3>1. j = [job[w] EXCEPT !.maxlen = n, !.pc = "lengths"]
      BY <1>2 DEF JobType
    <3> QED BY <1>2, <2>1, <3>1
  <2>3. n = 0 => job[w].floor = 0
    BY <1>5
  <2> QED BY <1>6, <2>2, <2>3
<1> QED BY <1>7, <1>8, <1>9

\* How much there is to count; of a source without ones, nothing.
LEMMA StartRoundsCounts ==
  ASSUME CountInv, ~raced, ~cleared, NEW w \in Workers, StartRounds(w), Counts(job[w].req)
  PROVE  Advances(w)
<1> DEFINE q == job[w].req
           k == Counted(q)
           f == data[k]
           L == job[w].lens[1]
<1>1. job[w].pc = "lengths" /\ Len(job[w].lens) = Len(job[w].dts)
  BY DEF StartRounds
<1>2. /\ CountOK(job[w], f) /\ JobOK(job[w]) /\ job[w] \in JobType /\ f \in Seq(Byte)
      /\ OnesOf(q) = PopCount(f) /\ PopCount(f) \in Nat /\ k = q.srcs[1]
      /\ job[w].floor \in Nat /\ job \in [Workers -> JobType]
      /\ job[w].bits = 0 /\ job[w].floor <= PopCount(f) /\ Len(job[w].dts) = 1
      /\ OnSources(job[w]) /\ job[w].p = <<>> /\ job[w].o = 0
      /\ job[w].dts[1] = k \/ (job[w].dts[1] = NULL /\ job[w].floor = 0)
      /\ job[w].lens \in Seq(Nat)
  BY <1>1, LookCounts DEF Measuring
<1>3. Len(job[w].lens) = 1 /\ job[w].lens # <<>> /\ DOMAIN job[w].lens = {1} /\ L \in Nat
  BY <1>1, <1>2
<1>4. Reaches(job[w], OnesIn(f, 0, L)) /\ (job[w].maxlen = 0 => job[w].floor = 0)
  BY <1>1, <1>2, <1>3 DEF CountOK, Measuring
<1>5. job[w].maxlen # 0 => OpLength(w) = L
  BY <1>2, <1>3 DEF OpLength, OnSources
<1>6. OnesIn(f, 0, 0) = 0
  <2>1. 0 \in Int
    OBVIOUS
  <2> HIDE DEF f
  <2> QED BY <1>2, <2>1, NothingThere
<1> HIDE DEF k, f, L
<1>7. CASE Reply(w, 0) /\ (job[w].maxlen = 0 \/ (job[w].maxlen # 0 /\ OpLength(w) = 0))
  <2>1. Reaches(job[w], 0)
    BY <1>2, <1>4, <1>5, <1>6, <1>7 DEF Reaches
  <2>2. 0 \in Int /\ 0 <= OnesOf(q)
    BY <1>2
  <2> QED BY <1>7, <2>1, <2>2 DEF Advances
<1>8. CASE OutOfMemory(w)
  BY <1>8 DEF OutOfMemory, Advances, ERR
<1>9. CASE job[w].maxlen # 0 /\ OpLength(w) # 0 /\ Goto(w, "read") /\ UNCHANGED answer
  <2> SUFFICES ASSUME NEW j, j = [job[w] EXCEPT !.pc = "read"] PROVE Advances(w)
    OBVIOUS
  <2>1. job' = [job EXCEPT ![w] = j]
    BY <1>2, <1>9 DEF Goto
  <2>2. /\ j.pc = "read" /\ j.req = q /\ j.bits = 0 /\ j.floor = job[w].floor
        /\ j.dts = job[w].dts /\ j.p = <<>> /\ j.o = 0 /\ j.lens = job[w].lens
        /\ j.torn = job[w].torn
    BY <1>2 DEF JobType
  <2>3. job[w].dts[1] # NULL
    BY <1>2, <1>3, <1>5, <1>9 DEF OnSources, L
  <2>4. Progress(j, f, 0, 0, L)
    <3>1. OnesIn(f, 0, L) \in Nat
      BY <1>2, PartFacts
    <3> QED BY <1>4, <1>6, <2>2, <3>1 DEF Progress, Reaches
  <2>5. CountOK(j, f)
    BY <1>2, <1>3, <2>2, <2>3, <2>4 DEF CountOK, Measuring, L
  <2> QED BY <1>9, <2>1, <2>2, <2>5 DEF Advances, f, k
<1> QED BY <1>7, <1>8, <1>9 DEF StartRounds

-----------------------------------------------------------------------------
(* The rounds of BITCOP.                                                   *)
\* What a round reads of a source, into a buffer of zeros.
Buffer(f, o, size) == IF size = 0 THEN <<>> ELSE ReadAt(f, o, size)

\* At most the bytes asked for, and as far as those go it reads like the file.
LEMMA BufferRead ==
  ASSUME NEW f \in Seq(Byte), NEW o \in Nat, NEW size \in Nat
  PROVE  /\ Buffer(f, o, size) \in Seq(Byte)
         /\ Len(Buffer(f, o, size)) \in Nat /\ Len(Buffer(f, o, size)) <= size
         /\ \A i \in Nat : i < size => ByteAt(Buffer(f, o, size), i) = ByteAt(f, o + i)
<1>1. CASE size = 0
  <2>1. Buffer(f, o, size) \in Seq(Byte) /\ Len(Buffer(f, o, size)) = 0
    <3>1. <<>> \in Seq(Byte) /\ Len(<<>>) = 0
      OBVIOUS
    <3> QED BY <1>1, <3>1 DEF Buffer
  <2>2. \A i \in Nat : ~(i < size)
    BY <1>1
  <2> QED BY <1>1, <2>1, <2>2
<1>2. CASE size # 0
  <2>1. Buffer(f, o, size) = ReadAt(f, o, size)
    BY <1>2 DEF Buffer
  <2> QED BY <2>1, PieceRead
<1> QED BY <1>1, <1>2

\* A round ends within the longest source.
LEMMA RoundWithin ==
  ASSUME NEW len \in Nat, NEW o \in Nat, o <= len
  PROVE  Round(len, o) \in Nat /\ o + Round(len, o) <= len
BY BitStoreAssumption DEF Round, Larger, Smaller

\* A round of the only source.
LEMMA OpReadCounts ==
  ASSUME CountInv, ~raced, ~cleared, NEW w \in Workers, OpRead(w), Counts(job[w].req)
  PROVE  Advances(w)
<1> DEFINE q == job[w].req
           k == q.srcs[1]
           f == data[k]
           o == job[w].o
           L == job[w].lens[1]
           size == Round(L, o)
<1>1. job[w].pc = "read"
  BY DEF OpRead
<1>2. Counted(q) = k
  BY <1>1, BitcopFacts
<1>3. /\ f \in Seq(Byte) /\ CountOK(job[w], f) /\ JobOK(job[w]) /\ job[w] \in JobType
      /\ job[w].floor \in Nat /\ job[w].bits \in Nat /\ o \in Nat
      /\ job \in [Workers -> JobType]
  BY <1>1, <1>2, CountingFacts
<1>4. /\ Len(job[w].dts) = 1 /\ job[w].dts[1] = k /\ o <= L /\ job[w].p = <<>>
      /\ Progress(job[w], f, job[w].bits, o, L)
  BY <1>1, <1>3 DEF CountOK
<1>5. Len(job[w].lens) = 1 /\ L \in Nat
  <2>1. Len(job[w].lens) = 1 /\ job[w].lens \in Seq(Nat)
    BY <1>1, <1>3, <1>4 DEF JobOK, JobType
  <2> QED BY <2>1
<1>6. Len(job[w].p) + 1 = 1 /\ \A buf : Append(job[w].p, buf) = <<buf>>
  BY <1>4
<1> SUFFICES ASSUME NEW buf, buf = Buffer(f, o, size)
             PROVE  Advances(w)
  OBVIOUS
<1>7. job' = [job EXCEPT ![w].p = <<buf>>, ![w].pc = "op"] /\ UNCHANGED answer
  <2>1. buf = IF Round(job[w].lens[Len(job[w].p) + 1], job[w].o) = 0 THEN <<>>
              ELSE read_from(job[w].dts[Len(job[w].p) + 1],
                             Round(job[w].lens[Len(job[w].p) + 1], job[w].o), job[w].o)
    BY <1>4, <1>6 DEF read_from, Buffer
  <2> QED BY <1>4, <1>6, <2>1 DEF OpRead
<1> HIDE DEF f, k, q, L
<1>8. size \in Nat /\ o + size <= L /\ o + size \in Int /\ L \in Int /\ o <= o + size
  <2>1. size \in Nat /\ o + size <= L
    <3> HIDE DEF o
    <3> QED BY <1>3, <1>4, <1>5, RoundWithin
  <2> HIDE DEF size
  <2> QED BY <1>3, <1>5, <2>1
<1> HIDE DEF o
<1>9. /\ buf \in Seq(Byte) /\ Len(buf) <= size
      /\ \A i \in Nat : i < size => ByteAt(buf, i) = ByteAt(f, o + i)
  <2>1. buf = Buffer(f, o, size)
    OBVIOUS
  <2> HIDE DEF size
  <2> QED BY <1>3, <1>8, <2>1, BufferRead
<1>10. PopCount(buf) = OnesIn(f, o, o + size)
  <2> HIDE DEF size
  <2>1. OnesIn(buf, 0, size) = OnesIn(f, o, o + size)
    BY <1>3, <1>8, <1>9, SameBytes
  <2>2. OnesIn(buf, 0, size) = PopCount(buf)
    <3>1. size \in Int
      BY <1>8
    <3> QED BY <1>9, <3>1, AllInRange
  <2> QED BY <2>1, <2>2
<1>11. Progress(job[w], f, job[w].bits + PopCount(buf), o + size, L)
  <2> HIDE DEF size
  <2> QED BY <1>3, <1>4, <1>8, <1>10, ProgressMade
<1> SUFFICES ASSUME NEW p, p = <<buf>>, NEW j, j = [job[w] EXCEPT !.p = p, !.pc = "op"]
             PROVE  Advances(w)
  OBVIOUS
<1>12. job' = [job EXCEPT ![w] = j]
  BY <1>3, <1>7
<1>13. /\ j.pc = "op" /\ j.req = q /\ j.bits = job[w].bits /\ j.floor = job[w].floor
       /\ j.dts = job[w].dts /\ j.p = p /\ j.o = o /\ j.lens = job[w].lens
       /\ j.torn = job[w].torn
  BY <1>3 DEF JobType, q, o
<1>14. Len(p) = 1 /\ p[1] = buf
  OBVIOUS
<1>15. CountOK(j, f)
  <2>1. Progress(j, f, j.bits + PopCount(j.p[1]), j.o + Round(j.lens[1], j.o), j.lens[1])
    BY <1>11, <1>13, <1>14 DEF Progress, Reaches, L
  <2>2. Len(j.p[1]) <= Round(j.lens[1], j.o)
    BY <1>9, <1>13, <1>14 DEF L
  <2> QED BY <1>4, <1>13, <1>14, <2>1, <2>2 DEF CountOK, Measuring, L, k, q
<1> QED BY <1>2, <1>7, <1>12, <1>13, <1>15 DEF Advances, f, q

\* OR of one source is the source.
LEMMA OrOfOne ==
  ASSUME NEW p \in Seq(Seq(Byte)), Len(p) = 1, NEW j \in Nat \ {0}
  PROVE  Combine("OR", [i \in DOMAIN p |-> ByteAt(p[i], j - 1)]) = ByteAt(p[1], j - 1)
<1> DEFINE b == [i \in DOMAIN p |-> ByteAt(p[i], j - 1)]
<1>1. p[1] \in Seq(Byte) /\ DOMAIN p = {1}
  OBVIOUS
<1>2. ByteAt(p[1], j - 1) \subseteq Bit
  <2> SUFFICES ASSUME NEW s \in Seq(Byte) PROVE ByteAt(s, j - 1) \subseteq Bit
    BY <1>1
  <2> QED BY DEF ByteAt, Byte
<1>3. DOMAIN b = {1} /\ b[1] = ByteAt(p[1], j - 1)
  BY <1>1
<1> HIDE DEF b
<1>4. Combine("OR", b) = {x \in Bit : \E i \in DOMAIN b : x \in b[i]}
  BY DEF Combine
<1>5. Combine("OR", b) = ByteAt(p[1], j - 1)
  BY <1>2, <1>3, <1>4
<1> QED BY <1>5 DEF b

\* The round's ones are counted, and the last round ends the command.
LEMMA OpCombineCounts ==
  ASSUME CountInv, ~raced, ~cleared, NEW w \in Workers, OpCombine(w), Counts(job[w].req)
  PROVE  Advances(w)
<1> DEFINE q == job[w].req
           k == q.srcs[1]
           f == data[k]
           L == job[w].lens[1]
           size == Size(w)
           o == job[w].o + size
           p == job[w].p
           bits == job[w].bits + PopCount(p[1])
<1>1. job[w].pc = "op"
  BY DEF OpCombine
<1>2. Counted(q) = k /\ q.hook = "COUNTOP" /\ q.option = "OR"
  BY <1>1, BitcopFacts
<1>3. /\ f \in Seq(Byte) /\ CountOK(job[w], f) /\ JobOK(job[w]) /\ job[w] \in JobType
      /\ job[w].floor \in Nat /\ job[w].bits \in Nat /\ job[w].o \in Nat
      /\ OnesOf(q) = PopCount(f) /\ job \in [Workers -> JobType]
  BY <1>1, <1>2, CountingFacts
<1>4. /\ Len(job[w].dts) = 1 /\ job[w].dts[1] = k /\ job[w].o <= L /\ Len(p) = 1
      /\ Len(p[1]) <= Round(L, job[w].o)
      /\ Progress(job[w], f, bits, job[w].o + Round(L, job[w].o), L)
  BY <1>1, <1>3 DEF CountOK
<1>5. Len(job[w].lens) = 1 /\ L \in Nat /\ OpLength(w) = L
      /\ p \in Seq(Seq(Byte)) /\ p[1] \in Seq(Byte)
  <2>1. /\ Len(job[w].lens) = 1 /\ job[w].maxidx \in DOMAIN job[w].lens
        /\ job[w].lens \in Seq(Nat) /\ p \in Seq(Seq(Byte))
    BY <1>1, <1>3, <1>4 DEF JobOK, JobType
  <2>2. p[1] \in Seq(Byte)
    BY <1>4, <2>1
  <2>3. job[w].maxidx = 1 /\ L \in Nat
    BY <2>1
  <2> QED BY <2>1, <2>2, <2>3 DEF OpLength
<1>6. size = Round(L, job[w].o) /\ size \in Nat /\ Result(w) \in Seq(Byte)
  <2>1. TypeInv
    BY DEF CountInv, AckedInv
  <2> QED BY <1>5, <2>1, ResultFacts DEF Size
<1>7. PopCount(Result(w)) = PopCount(p[1]) /\ PopCount(p[1]) \in Nat
  <2> HIDE DEF size
  <2>1. Len(Result(w)) = size /\ \A j \in 1 .. size : Result(w)[j] = ByteAt(p[1], j - 1)
    <3>1. \A j \in 1 .. size : ResultByte(w, j) = ByteAt(p[1], j - 1)
      BY <1>2, <1>4, <1>5, OrOfOne DEF ResultByte
    <3>2. Result(w) = [j \in 1 .. size |-> ResultByte(w, j)]
      BY DEF Result, size
    <3> QED BY <1>6, <3>1, <3>2
  <2> SUFFICES ASSUME NEW s, s = p[1], NEW r, r = Result(w)
               PROVE  PopCount(r) = PopCount(s) /\ PopCount(s) \in Nat
    OBVIOUS
  <2>2. s \in Seq(Byte) /\ r \in Seq(Byte) /\ Len(s) <= size /\ Len(r) = size
    BY <1>4, <1>5, <1>6, <2>1
  <2>3. ASSUME NEW i \in Nat, i < size
        PROVE  ByteAt(r, i) = ByteAt(s, 0 + i)
    <3>1. i + 1 \in 1 .. size /\ i + 1 - 1 = i /\ 0 + i = i
      BY <1>6, <2>3
    <3>2. r[i + 1] = ByteAt(s, i + 1 - 1)
      BY <2>1, <3>1
    <3>3. ByteAt(r, i) = r[i + 1]
      BY <2>2, <2>3 DEF ByteAt
    <3> QED BY <3>1, <3>2, <3>3
  <2>4. 0 \in Nat /\ size \in Int /\ 0 + size = size /\ Len(r) <= size
    BY <1>6, <2>2
  <2>5. OnesIn(r, 0, size) = OnesIn(s, 0, 0 + size)
    BY <1>6, <2>2, <2>3, <2>4, SameBytes
  <2>6. OnesIn(r, 0, size) = PopCount(r) /\ OnesIn(s, 0, size) = PopCount(s)
    BY <2>2, <2>4, AllInRange
  <2> QED BY <2>2, <2>4, <2>5, <2>6, PopCountIsNat
<1>8. o <= L /\ o \in Nat /\ bits \in Nat
  <2>1. job[w].o + Round(L, job[w].o) <= L
    BY <1>3, <1>4, <1>5, RoundWithin
  <2> HIDE DEF size, p, L
  <2> QED BY <1>3, <1>6, <1>7, <2>1
<1>9. \/ o = L /\ Reply(w, bits)
      \/ /\ o < L /\ UNCHANGED answer
         /\ job' = [job EXCEPT ![w].o = o, ![w].bits = bits, ![w].p = <<>>, ![w].pc = "read"]
  <2>1. job[w].bits + (IF q.hook = "COUNTOP" THEN PopCount(Result(w)) ELSE 0) = bits
    BY <1>2, <1>7
  <2> HIDE DEF bits, L
  <2> QED BY <1>2, <1>5, <2>1 DEF OpCombine, Result, ResultByte, Size
<1>10. Progress(job[w], f, bits, o, L)
  BY <1>4, <1>6
<1> HIDE DEF f, k, q, L, o, bits, p
<1>11. CASE o = L /\ Reply(w, bits)
  <2>1. L <= o /\ L \in Int /\ o \in Int
    BY <1>5, <1>8, <1>11
  <2>2. Reaches(job[w], bits) /\ bits <= PopCount(f)
    BY <1>3, <1>8, <1>10, <2>1, ProgressDone
  <2>3. bits \in Int
    BY <1>8
  <2> QED BY <1>3, <1>11, <2>2, <2>3 DEF Advances, q
<1>12. CASE /\ o < L /\ UNCHANGED answer
            /\ job' = [job EXCEPT ![w].o = o, ![w].bits = bits, ![w].p = <<>>, ![w].pc = "read"]
  <2> SUFFICES ASSUME NEW e, e = <<>>,
                      NEW j, j = [job[w] EXCEPT !.o = o, !.bits = bits, !.p = e, !.pc = "read"]
               PROVE  Advances(w)
    OBVIOUS
  <2>1. job' = [job EXCEPT ![w] = j]
    BY <1>3, <1>12
  <2>2. /\ j.pc = "read" /\ j.req = q /\ j.bits = bits /\ j.floor = job[w].floor
        /\ j.dts = job[w].dts /\ j.p = e /\ j.o = o /\ j.lens = job[w].lens
        /\ j.torn = job[w].torn
    BY <1>3 DEF JobType, q
  <2>3. Progress(j, f, j.bits, j.o, j.lens[1])
    BY <1>10, <2>2 DEF Progress, Reaches, L
  <2>4. CountOK(j, f)
    BY <1>4, <1>8, <2>2, <2>3 DEF CountOK, Measuring, L, k, q
  <2> QED BY <1>2, <1>12, <2>1, <2>2, <2>4 DEF Advances, f, q
<1> QED BY <1>9, <1>11, <1>12

-----------------------------------------------------------------------------
(* A step of a worker.                                                     *)
\* Every step of a command that counts keeps its promise.
LEMMA CountingAdvances ==
  ASSUME CountInv, ~raced, ~cleared, NEW w \in Workers, Worker(w),
         job[w].req # NULL, Counts(job[w].req)
  PROVE  Advances(w)
<1>1. TypeInv /\ JobOK(job[w]) /\ job[w] \in JobType
  BY DEF CountInv, AckedInv, TypeInv, JobsOK
<1>2. job[w].req \in Requests
  BY <1>1 DEF JobType
<1>3. job[w].req.op \in {"BITCOUNT", "BITOP"}
  BY <1>2, CountsAKey
<1>4. job[w].pc \notin {"idle", "refused"}
  BY <1>1, <1>3 DEF JobOK, Idle, CountInv, Unanswered, TooFar
<1>5. ~SetbitRead(w) /\ ~SetbitWrite(w) /\ ~Getbit(w)
  BY <1>1, <1>3 DEF SetbitRead, SetbitWrite, Getbit, JobOK, OnKey
<1> QED BY <1>4, <1>5, PrepareKeyCounts, CountRangeCounts, CountClampCounts, CountReadCounts,
           PrepareSourceCounts, TakeTimesCounts, TakeRestCounts, LongestCounts,
           StartRoundsCounts, OpReadCounts, OpCombineCounts
        DEF Worker, StartCommand, Refuse

\* A command that has been taken and counts has its floor.
LEMMA StartCounts ==
  ASSUME CountInv, NEW w \in Workers, NEW q \in Requests, StartCommand(w, q), ~cleared', Counts(q)
  PROVE  CountOK(job'[w], data[Counted(q)])
<1>1. job \in [Workers -> JobType] /\ job[w] = Idle
  BY DEF CountInv, AckedInv, TypeInv, JobsOK, JobOK, StartCommand
<1>2. OnesOf(q) = PopCount(data[Counted(q)]) /\ data[Counted(q)] \in Seq(Byte)
  BY CountsAKey DEF CountInv, AckedInv, TypeInv, StoreOK
<1>3. /\ job'[w].pc \in {"refused", "key", "sources"} /\ job'[w].floor = OnesOf(q)
      /\ job'[w].bits = 0 /\ job'[w].dts = <<>>
  BY <1>1 DEF StartCommand, Idle
<1>4. PopCount(data[Counted(q)]) \in Nat
  BY <1>2, PopCountIsNat
<1> QED BY <1>2, <1>3, <1>4 DEF CountOK, Measuring

\* The job of a worker that takes a command.
LEMMA StartedJob ==
  ASSUME TypeInv, NEW w \in Workers, NEW q \in Requests, StartCommand(w, q)
  PROVE  /\ job'[w].req = q /\ answer'[w] = NULL
         /\ job'[w].pc = IF TooFar(q) THEN "refused" ELSE IF Key(q) = NULL THEN "sources" ELSE "key"
         /\ job[w] = Idle
BY DEF StartCommand, TypeInv, JobsOK, JobOK, JobType, AnswerOK

\* A step of a worker answers no other worker's command.
LEMMA AnswerChanges ==
  ASSUME TypeInv, NEW w \in Workers, Worker(w), NEW v \in Workers, v # w
  PROVE  answer'[v] = answer[v] /\ job'[v] = job[v]
<1>1. job \in [Workers -> JobType] /\ answer \in [Workers -> {NULL} \cup (Requests \X Int)]
  BY DEF TypeInv, AnswerOK, JobsOK
<1>2. (\E n : Reply(w, n)) \/ OutOfMemory(w) \/ (\E k : PrepareFails(w, k)) \/ UNCHANGED answer
        => answer'[v] = answer[v]
  BY <1>1 DEF Reply, OutOfMemory, PrepareFails
<1>3. answer'[v] = answer[v]
  BY <1>1, <1>2
  DEF Worker, StartCommand, Refuse, PrepareKey, SetbitRead, SetbitWrite, Getbit, CountRange,
      CountClamp, CountRead, PrepareSource, TakeTimes, TakeRest, CompareLength, TakeLongest,
      StartRounds, OpRead, OpCombine
<1> QED BY <1>3, WorkerLeaves

\* A step ends the worker's command, or keeps its request and leaves its answer.
LEMMA WorkerGoesOn ==
  ASSUME TypeInv, NEW w \in Workers, Worker(w)
  PROVE  \/ job'[w] = Idle
         \/ \E q \in Requests : StartCommand(w, q)
         \/ /\ job[w].pc \notin {"idle", "refused"} /\ job'[w].pc \notin {"idle", "refused"}
            /\ job'[w].req = job[w].req /\ UNCHANGED answer
<1>1. CASE SetbitRead(w)
  BY <1>1, SetbitReadMoves DEF SetbitRead
<1>2. CASE job'[w] = job[w] /\ job'[w] # Idle /\ ~\E q \in Requests : StartCommand(w, q)
  <2>1. job[w].pc # "idle"
    BY <1>2 DEF TypeInv, JobsOK, JobOK
  <2>2. \A n : ~Reply(w, n)
    BY <1>2 DEF Reply, TypeInv, JobsOK
  <2>3. UNCHANGED answer /\ job[w].pc # "refused"
    BY <1>2, <2>2 DEF Worker, Refuse, PrepareKey, PrepareFails, SetbitRead, SetbitWrite, Getbit,
       CountRange, CountClamp, CountRead, PrepareSource, TakeTimes, TakeRest, CompareLength,
       TakeLongest, StartRounds, OpRead, OpCombine, OutOfMemory
  <2> QED BY <1>2, <2>1, <2>3
<1> QED BY <1>1, <1>2, JobChanges DEF GoesOn

\* A command being executed has no answer.
LEMMA WorkerUnanswered ==
  ASSUME TypeInv, Unanswered, NEW w \in Workers, Worker(w)
  PROVE  Unanswered'
<1> SUFFICES ASSUME NEW v \in Workers, job'[v].req # NULL
             PROVE  answer'[v] = NULL /\ (job'[v].pc = "refused" <=> TooFar(job'[v].req))
  BY DEF Unanswered, TooFar
<1>1. CASE v # w
  BY <1>1, AnswerChanges DEF Unanswered
<1>2. CASE v = w
  <2>1. Idle.req = NULL
    BY DEF Idle
  <2>2. ASSUME NEW q \in Requests, StartCommand(w, q)
        PROVE  answer'[v] = NULL /\ (job'[v].pc = "refused" <=> TooFar(job'[v].req))
    BY <1>2, <2>2, StartedJob
  <2>3. ASSUME job[w].pc \notin {"idle", "refused"}, job'[w].pc \notin {"idle", "refused"},
               job'[w].req = job[w].req, UNCHANGED answer
        PROVE  answer'[v] = NULL /\ (job'[v].pc = "refused" <=> TooFar(job'[v].req))
    BY <1>2, <2>3, ReqFacts DEF Unanswered
  <2> QED BY <1>2, <2>1, <2>2, <2>3, WorkerGoesOn
<1> QED BY <1>1, <1>2

\* The job of a worker that does not move stays calm while others set bits.
LEMMA OthersStayCalm ==
  ASSUME CountInv, ~raced, ~cleared, NEW w \in Workers, Worker(w),
         NEW v \in Workers, v # w
  PROVE  CalmJob(job[v])'
<1>1. job'[v] = job[v]
  BY AnswerChanges DEF CountInv, AckedInv
<1>2. /\ TypeInv /\ TypeInv' /\ CalmJob(job[v]) /\ OneWriter
      /\ job[v] \in JobType /\ JobOK(job[v])
  BY WorkerTypes DEF CountInv, AckedInv, TypeInv, JobsOK
<1> SUFFICES ASSUME job[v].req # NULL
             PROVE  /\ job[v].pc = "write"
                         => job[v].byteval = ByteAt(data'[job[v].req.key], job[v].req.byte)
                    /\ Counts(job[v].req) => CountOK(job[v], data'[Counted(job[v].req)])
  BY <1>1, <1>2 DEF CalmJob, AllBits, MayClear, Stores, Counts, Counted, CountOK, Progress, Reaches, Round
<1>3. job[v].req \in Requests
  BY <1>2 DEF JobType
<1>4. ASSUME job[v].pc = "write"
      PROVE  job[v].byteval = ByteAt(data'[job[v].req.key], job[v].req.byte)
  <2>1. /\ job[v].req.key \in Keys /\ job[v].req.byte \in Nat
        /\ job[v].byteval = ByteAt(data[job[v].req.key], job[v].req.byte)
    BY <1>2, <1>3, <1>4, RequestKinds DEF JobOK, OnKey, SetbitRequest, CalmJob
  <2>2. CASE ~SetbitWrite(w)
    BY <2>1, <2>2, CalmData
  <2>3. CASE SetbitWrite(w)
    <3>1. ~(job[v].req.key = job[w].req.key /\ job[v].req.byte = job[w].req.byte)
      BY <1>2, <1>4, <2>3 DEF OneWriter, SetbitWrite
    <3> QED BY <1>2, <2>1, <2>3, <3>1, SetbitWrites
  <2> QED BY <2>2, <2>3
<1>5. ASSUME Counts(job[v].req)
      PROVE  CountOK(job[v], data'[Counted(job[v].req)])
  <2> DEFINE k == Counted(job[v].req)
  <2>1. k \in Keys /\ CountOK(job[v], data[k])
    BY <1>2, <1>3, <1>5, CountsAKey DEF CalmJob
  <2> HIDE DEF k
  <2>2. data[k] \in Seq(Byte) /\ data'[k] \in Seq(Byte)
    BY <1>2, <2>1 DEF TypeInv, StoreOK
  <2>3. CountOK(job[v], data'[k])
    BY <1>2, <2>1, <2>2, CalmGrows, CountStays
  <2> QED BY <2>3 DEF k
<1> QED BY <1>4, <1>5

\* So does the job of the worker that moves.
LEMMA MoverStaysCalm ==
  ASSUME CountInv, ~raced, ~cleared, NEW w \in Workers, Worker(w), ~raced', ~cleared'
  PROVE  CalmJob(job[w])'
<1>1. /\ TypeInv /\ CalmJob(job[w]) /\ Covers /\ AckedInv
      /\ job[w] \in JobType /\ JobOK(job[w])
  BY DEF CountInv, AckedInv, TypeInv, JobsOK
<1> SUFFICES ASSUME job'[w].req # NULL
             PROVE  /\ \A b \in AllBits : ~MayClear(job'[w].req, b)
                    /\ job'[w].pc = "write"
                         => job'[w].byteval = ByteAt(data'[job'[w].req.key], job'[w].req.byte)
                    /\ Counts(job'[w].req) => CountOK(job'[w], data'[Counted(job'[w].req)])
  BY DEF CalmJob, AllBits, MayClear, Stores, Counts, Counted, CountOK, Progress, Reaches, Round
<1>2. job'[w] # Idle
  BY DEF Idle
<1>3. data' = data
  BY <1>2, CalmData DEF SetbitWrite, Reply, CountInv, AckedInv, TypeInv, JobsOK
<1>4. ASSUME NEW q \in Requests, StartCommand(w, q)
      PROVE  /\ \A b \in AllBits : ~MayClear(job'[w].req, b)
             /\ job'[w].pc # "write"
             /\ Counts(job'[w].req) => CountOK(job'[w], data'[Counted(job'[w].req)])
  <2>1. job'[w].req = q /\ job'[w].pc # "write"
    BY <1>1, <1>4, StartedJob
  <2>2. \A b \in AllBits : ~MayClear(q, b)
    BY <1>4 DEF StartCommand
  <2>3. Counts(q) => CountOK(job'[w], data[Counted(q)])
    BY <1>4, StartCounts
  <2> QED BY <1>3, <2>1, <2>2, <2>3
<1>5. ASSUME job[w].pc # "idle", job'[w].req = job[w].req
      PROVE  /\ \A b \in AllBits : ~MayClear(job'[w].req, b)
             /\ job'[w].pc = "write"
                  => job'[w].byteval = ByteAt(data'[job'[w].req.key], job'[w].req.byte)
             /\ Counts(job'[w].req) => CountOK(job'[w], data'[Counted(job'[w].req)])
  <2>1. \A b \in AllBits : ~MayClear(job'[w].req, b)
    BY <1>1, <1>5 DEF CalmJob
  <2>2. ASSUME job'[w].pc = "write"
        PROVE  job'[w].byteval = ByteAt(data'[job'[w].req.key], job'[w].req.byte)
    <3>1. SetbitRead(w)
      <4>1. ~SetbitWrite(w)
        BY <1>2 DEF SetbitWrite, Reply, CountInv, AckedInv, TypeInv, JobsOK
      <4>2. job[w].pc # "write"
        BY <1>1, <4>1 DEF Worker, StartCommand, Refuse, PrepareKey, SetbitRead, Getbit,
             CountRange, CountClamp, CountRead, PrepareSource, TakeTimes, TakeRest,
             CompareLength, TakeLongest, StartRounds, OpRead, OpCombine
      <4>3. ~\E q \in Requests : StartCommand(w, q)
        BY <1>5 DEF StartCommand
      <4> QED BY <1>1, <1>2, <2>2, <4>2, <4>3, JobChanges DEF GoesOn
    <3> QED BY <1>1, <1>3, <2>2, <3>1, ReadIsByte
  <2>3. ASSUME Counts(job'[w].req)
        PROVE  CountOK(job'[w], data'[Counted(job'[w].req)])
    <3>1. Advances(w)
      BY <1>5, <2>3, CountingAdvances
    <3>2. \A n : ~Reply(w, n)
      BY <1>2 DEF Reply, CountInv, AckedInv, TypeInv, JobsOK
    <3>3. CountOK(job'[w], data[Counted(job[w].req)])
      BY <3>1, <3>2 DEF Advances, CountInv, AckedInv, TypeInv, JobsOK
    <3> QED BY <1>3, <1>5, <3>3
  <2> QED BY <2>1, <2>2, <2>3
<1>6. \/ \E q \in Requests : StartCommand(w, q)
      \/ job[w].pc # "idle" /\ job'[w].req = job[w].req
  BY <1>1, <1>2, WorkerGoesOn
<1> QED BY <1>4, <1>5, <1>6

\* A step of a worker.
LEMMA WorkerCounts ==
  ASSUME CountInv, NEW w \in Workers, Worker(w)
  PROVE  CountInv'
<1>1. AckedInv' /\ TypeInv
  BY WorkerAcked DEF CountInv, AckedInv
<1>2. Unanswered'
  BY <1>1, WorkerUnanswered DEF CountInv
<1>3. ASSUME ~raced', ~cleared', NEW v \in Workers
      PROVE  CalmJob(job[v])'
  <2>1. ~raced /\ ~cleared
    BY <1>1, <1>3, CalmBefore
  <2>2. CASE v = w
    <3>1. CalmJob(job[w])'
      BY <1>3, <2>1, MoverStaysCalm
    <3> QED BY <2>2, <3>1
  <2>3. CASE v # w
    BY <2>1, <2>3, OthersStayCalm
  <2> QED BY <2>2, <2>3
<1> QED BY <1>1, <1>2, <1>3 DEF CountInv

\* A step that changes neither contents, jobs nor histories.
LEMMA CountsStay ==
  ASSUME CountInv, AckedInv', UNCHANGED <<data, job, answer, raced, cleared>>
  PROVE  CountInv'
<1>1. Unanswered'
  BY DEF CountInv, Unanswered, TooFar
<1>2. ASSUME ~raced', ~cleared', NEW w \in Workers
      PROVE  CalmJob(job[w])'
  <2>1. CalmJob(job[w])
    BY <1>2 DEF CountInv
  <2> QED BY <2>1 DEF CalmJob, AllBits, MayClear, Stores, Counts, Counted, CountOK, Progress, Reaches, Round
<1> QED BY <1>1, <1>2 DEF CountInv

\* Nobody executes anything.
LEMMA IdleCounts ==
  ASSUME AckedInv, \A w \in Workers : job[w] = Idle
  PROVE  CountInv
<1>1. Idle.req = NULL
  BY DEF Idle
<1> QED BY <1>1 DEF CountInv, Unanswered, CalmJob

\* The reply of a command that counts is between the ones there were and those
\* there are.
LEMMA WorkerCountsBetween ==
  ASSUME CountInv, NEW w \in Workers, Worker(w), ~raced', ~cleared', NEW v \in Workers
  PROVE  CountsBetween(v)
<1> SUFFICES ASSUME job[v].req # NULL, answer'[v] # NULL, answer'[v][2] # ERR, Counts(job[v].req)
             PROVE  /\ Reaches(job[v], answer'[v][2])
                    /\ answer'[v][2] <= OnesOf(job[v].req)
  BY DEF CountsBetween, Reaches
<1>1. TypeInv /\ answer[v] = NULL /\ ~raced
  BY CalmBefore DEF CountInv, AckedInv, Unanswered
<1>2. ~cleared
  BY <1>1, CalmBefore
<1>3. v = w
  BY <1>1, AnswerChanges
<1>4. Advances(w)
  BY <1>1, <1>2, <1>3, CountingAdvances
<1>5. PICK n \in Int : /\ Reply(w, n)
                       /\ n = ERR \/ (Reaches(job[w], n) /\ n <= OnesOf(job[w].req))
  BY <1>1, <1>3, <1>4 DEF Advances
<1>6. answer'[w] = <<job[w].req, n>>
  BY <1>1, <1>5 DEF Reply, TypeInv, AnswerOK
<1> QED BY <1>3, <1>5, <1>6

-----------------------------------------------------------------------------
\* Every step keeps the invariant.
LEMMA StepCounts ==
  ASSUME CountInv, [Next]_vars
  PROVE  CountInv'
<1>1. ASSUME NEW k \in Keys, Evict(k) PROVE CountInv'
  BY <1>1, EvictAcked, CountsStay DEF Evict, CountInv
<1>2. CASE UNCHANGED vars
  <2>1. AckedInv'
    BY <1>2, StutterAcked DEF CountInv
  <2> QED BY <1>2, <2>1, CountsStay DEF vars
<1> QED BY <1>1, <1>2, WorkerCounts DEF Next

\* Every reply is within the bounds.
LEMMA StepCountsBetween ==
  ASSUME CountInv, [Next]_vars, ~raced', ~cleared, NEW v \in Workers
  PROVE  CountsBetween(v)
<1>1. ASSUME answer' = answer PROVE CountsBetween(v)
  BY <1>1 DEF CountInv, Unanswered, CountsBetween
<1>2. ASSUME NEW k \in Keys, Evict(k) PROVE CountsBetween(v)
  BY <1>1, <1>2 DEF Evict
<1>3. CASE UNCHANGED vars
  BY <1>1, <1>3 DEF vars
<1>4. ASSUME NEW w \in Workers, Worker(w) PROVE CountsBetween(v)
  <2>1. ASSUME NEW q \in Requests, StartCommand(w, q) PROVE CountsBetween(v)
    <3>1. job[w].req = NULL /\ answer' = [answer EXCEPT ![w] = NULL]
      BY <2>1 DEF StartCommand, CountInv, AckedInv, TypeInv, JobsOK, JobOK, Idle
    <3>2. job[v].req # NULL => answer'[v] = answer[v]
      BY <3>1
    <3> QED BY <3>2 DEF CountInv, Unanswered, CountsBetween
  <2>2. ASSUME ~\E q \in Requests : StartCommand(w, q) PROVE ~cleared'
    BY <1>4, <2>2
    DEF Worker, Refuse, PrepareKey, SetbitRead, SetbitWrite, Getbit, CountRange,
        CountClamp, CountRead, PrepareSource, TakeTimes, TakeRest, CompareLength, TakeLongest,
        StartRounds, OpRead, OpCombine
  <2> QED BY <1>4, <2>1, <2>2, WorkerCountsBetween
<1> QED BY <1>2, <1>3, <1>4 DEF Next

\* BITCOUNT of a whole key, and BITCOP OR of one, reply a number between the ones
\* there were when they were sent and those there are when they answer, whatever
\* other workers set meanwhile, however the file grows, is closed and opened, and
\* in whatever pieces it is read; only, BITCOP may reply fewer if a SETBIT extends
\* the file between bitopCommand's loads of its length (bitops.c:248, 249).
THEOREM CountCorrect == Spec => CountBetween
<1>1. Init => CountInv
  BY InitAcked, IdleCounts DEF Init
<1>2. CountInv /\ [Next]_vars => CountInv'
  BY StepCounts
<1>3. CountInv /\ [Next]_vars
        => [~raced' /\ ~cleared => \A w \in Workers : CountsBetween(w)]_vars
  <2> SUFFICES ASSUME CountInv, [Next]_vars, ~raced', ~cleared, NEW w \in Workers
               PROVE  CountsBetween(w)
    OBVIOUS
  <2> QED BY StepCountsBetween
<1> QED BY <1>1, <1>2, <1>3, PTL DEF Spec, CountBetween
=============================================================================
