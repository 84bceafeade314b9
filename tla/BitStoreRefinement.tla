------------------------- MODULE BitStoreRefinement -------------------------
(***************************************************************************)
(* The refinement of Bitmap by BitStore, proved: in an orderly run the     *)
(* workers execute every command as if at once.  The invariant SerialInv   *)
(* says that no command changes a key of another, and how far each has     *)
(* got: the bytes BITCOUNT has counted of its range, the part of BITOP's   *)
(* result that is stored, and that what is left to read of the sources,    *)
(* the destination among them, is as it was.                               *)
(***************************************************************************)
EXTENDS BitStoreCounts

-----------------------------------------------------------------------------
(* The keys of a command.                                                  *)

\* Two commands of which neither changes a key of the other, whenever both are
\* executed.
Isolated ==
  \A v, w \in Workers :
    v # w /\ job[v].req # NULL /\ job[w].req # NULL => Apart(job[v].req, job[w].req)

\* Some worker stores a result into k.
Storing(k) == \E w \in Workers : job[w].req # NULL /\ Stores(job[w].req, k)

\* The keys of a request, those it changes among them.
LEMMA NamesKeys ==
  ASSUME NEW q \in Requests
  PROVE  /\ KeysOf(q) \subseteq Keys /\ Changes(q) \subseteq KeysOf(q)
         /\ \A k \in Keys : Stores(q, k) => k \in Changes(q)
         /\ Key(q) # NULL => Key(q) \in KeysOf(q)
         /\ q.op # "BITOP" => q.key \in KeysOf(q) /\ Key(q) = q.key
         /\ q.op = "SETBIT" => Changes(q) = {q.key}
         /\ q.op \in {"GETBIT", "BITCOUNT"} => Changes(q) = {}
         /\ q.op = "BITOP" =>
              /\ \A i \in DOMAIN q.srcs : q.srcs[i] \in KeysOf(q)
              /\ q.hook = "NONE" => Changes(q) = {q.dest} /\ q.dest \in Keys
              /\ q.hook # "NONE" => Changes(q) = {}
<1>1. NULL \notin Keys
  BY BitStoreAssumption
<1>2. CASE q.op # "BITOP"
  <2>1. q.key \in Keys /\ KeysOf(q) = {q.key}
    BY <1>2, RequestKinds DEF KeysOf, SetbitRequest, GetbitRequest, BitcountRequest
  <2>2. \A k \in Keys : ~Stores(q, k)
    BY <1>2 DEF Stores
  <2> QED BY <1>2, <2>1, <2>2 DEF Changes, Key
<1>3. CASE q.op = "BITOP"
  <2>1. q.srcs \in Seq(Keys) /\ q.dest \in Keys \cup {NULL} /\ (q.dest = NULL <=> q.hook # "NONE")
    BY <1>3, RequestKinds
  <2>2. \A i \in DOMAIN q.srcs : q.srcs[i] \in Keys
    BY <2>1
  <2>3. KeysOf(q) = ({q.dest} \ {NULL}) \cup {q.srcs[i] : i \in DOMAIN q.srcs}
    BY <1>3 DEF KeysOf
  <2>4. Changes(q) = {k \in Keys : q.dest = k}
    BY <1>3 DEF Changes, Stores
  <2>5. KeysOf(q) \subseteq Keys /\ Changes(q) \subseteq KeysOf(q)
    BY <1>1, <2>1, <2>2, <2>3, <2>4
  <2>6. /\ q.hook = "NONE" => Changes(q) = {q.dest} /\ q.dest \in Keys
        /\ q.hook # "NONE" => Changes(q) = {}
    BY <1>1, <2>1, <2>4
  <2>7. \A i \in DOMAIN q.srcs : q.srcs[i] \in KeysOf(q)
    BY <2>3
  <2>8. Key(q) # NULL => Key(q) \in KeysOf(q)
    BY <1>3, <2>3 DEF Key
  <2>9. \A k \in Keys : Stores(q, k) => k \in Changes(q)
    BY DEF Changes
  <2> QED BY <1>3, <2>5, <2>6, <2>7, <2>8, <2>9
<1> QED BY <1>2, <1>3

\* prepare_file touches one key, and contents only to truncate them.
LEMMA PreparedElsewhere ==
  ASSUME StoreOK, NEW i \in Keys, NEW mode, Prepared(i, mode), NEW k \in Keys
  PROVE  /\ k # i => data'[k] = data[k] /\ length'[k] = length[k] /\ (k \in files' <=> k \in files)
         /\ mode # 2 => data' = data
         /\ mode = 2 /\ (i \in Open \/ i \notin files) => data' = data
BY DEF Prepared, StoreOK, Open

\* A step touches only keys of its command, and changes only what that changes.
LEMMA StoreTouches ==
  ASSUME TypeInv, NEW w \in Workers, Worker(w), NEW k \in Keys
  PROVE  LET q == job[w].req
         IN  /\ job[w].pc = "idle" \/ k \notin KeysOf(q) =>
                  data'[k] = data[k] /\ length'[k] = length[k] /\ (k \in files' <=> k \in files)
             /\ job[w].pc = "idle" \/ k \notin Changes(q) => data'[k] = data[k]
<1> DEFINE q == job[w].req
           Touched == /\ job[w].pc = "idle" \/ k \notin KeysOf(q) =>
                           /\ data'[k] = data[k] /\ length'[k] = length[k]
                           /\ k \in files' <=> k \in files
                      /\ job[w].pc = "idle" \/ k \notin Changes(q) => data'[k] = data[k]
<1>1. CASE UNCHANGED <<files, data, length>>
  BY <1>1
<1>2. StoreOK /\ (job[w].pc # "idle" => q \in Requests)
  BY ReqFacts DEF TypeInv
<1>3. ASSUME NEW i \in KeysOf(q), NEW mode, job[w].pc # "idle", Prepared(i, mode),
             mode = 2 => i \in Changes(q)
      PROVE  Touched
  <2>1. i \in Keys /\ Changes(q) \subseteq KeysOf(q)
    BY <1>2, <1>3, NamesKeys
  <2>2. CASE k # i
    BY <1>2, <1>3, <2>1, <2>2, PreparedElsewhere
  <2>3. CASE k = i
    BY <1>2, <1>3, <2>1, <2>3, PreparedElsewhere
  <2> QED BY <2>2, <2>3
<1>4. ASSUME NEW i \in Changes(q), NEW buf, NEW o, job[w].pc # "idle", write_to(i, buf, o)
      PROVE  Touched
  <2>1. i \in KeysOf(q)
    BY <1>2, <1>4, NamesKeys
  <2>2. k # i => data'[k] = data[k] /\ length'[k] = length[k] /\ files' = files
    BY <1>2, <1>4 DEF write_to, StoreOK
  <2> QED BY <1>4, <2>1, <2>2
<1>5. ASSUME PrepareKey(w)
      PROVE  Touched
  <2>1. job[w].pc = "key" /\ q \in Requests /\ Key(q) # NULL
    BY <1>5 DEF PrepareKey, TypeInv, JobsOK, JobOK
  <2>2. Key(q) \in KeysOf(q)
    BY <2>1, NamesKeys
  <2>3. Mode(q) = 2 => Key(q) \in Changes(q)
    <3>1. Mode(q) = 2 => q.op = "BITOP"
      BY <2>1, RequestKinds DEF Mode
    <3>2. q.op = "BITOP" => Stores(q, Key(q))
      BY DEF Stores, Key
    <3>3. Key(q) \in Keys
      BY <2>1, <2>2, NamesKeys
    <3> QED BY <2>1, <3>1, <3>2, <3>3, NamesKeys
  <2>4. Prepared(Key(q), Mode(q)) \/ UNCHANGED <<files, data, length>>
    BY <1>5 DEF PrepareKey, PrepareFails, Absent
  <2> QED BY <1>1, <1>3, <2>1, <2>2, <2>3, <2>4
<1>6. ASSUME PrepareSource(w)
      PROVE  Touched
  <2> DEFINE i == Len(q.srcs) - Len(job[w].dts)
  <2>1. job[w].pc = "sources" /\ q \in Requests /\ q.op = "BITOP" /\ q.srcs \in Seq(Keys)
    BY <1>6, RequestKinds DEF PrepareSource, TypeInv, JobsOK, JobOK, OnSources
  <2>2. Len(job[w].dts) < Len(q.srcs) /\ job[w].dts \in Seq(Keys \cup {NULL})
    BY <1>6, <2>1 DEF TypeInv, JobsOK, JobOK, JobType
  <2>3. i \in DOMAIN q.srcs
    <3>1. DOMAIN q.srcs = 1 .. Len(q.srcs) /\ Len(q.srcs) \in Nat /\ Len(job[w].dts) \in Nat
      BY <2>1, <2>2
    <3>2. \A a, b \in Nat : b < a => a - b \in 1 .. a
      OBVIOUS
    <3> QED BY <2>2, <3>1, <3>2
  <2>4. Prepared(q.srcs[i], 1) \/ UNCHANGED <<files, data, length>>
    BY <1>6 DEF PrepareSource, PrepareFails, Absent
  <2> HIDE DEF i
  <2>5. q.srcs[i] \in KeysOf(q)
    BY <2>1, <2>3, NamesKeys
  <2> QED BY <1>1, <1>3, <2>1, <2>4, <2>5
<1>7. ASSUME SetbitWrite(w)
      PROVE  Touched
  <2>1. job[w].pc = "write" /\ q \in Requests /\ q.op = "SETBIT"
    BY <1>7 DEF SetbitWrite, TypeInv, JobsOK, JobOK, OnKey
  <2>2. q.key \in Changes(q)
    BY <2>1, NamesKeys
  <2> QED BY <1>4, <1>7, <2>1, <2>2 DEF SetbitWrite
<1>8. ASSUME OpCombine(w)
      PROVE  Touched
  <2>1. job[w].pc = "op" /\ q \in Requests /\ q.op = "BITOP"
    BY <1>8 DEF OpCombine, TypeInv, JobsOK, JobOK, OnSources
  <2>2. q.hook = "NONE" => q.dest \in Changes(q)
    BY <2>1, NamesKeys
  <2>3. \/ q.hook = "NONE" /\ \E buf, o : write_to(q.dest, buf, o)
        \/ UNCHANGED <<files, data, length>>
    BY <1>8 DEF OpCombine
  <2> QED BY <1>1, <1>4, <2>1, <2>2, <2>3
<1>9. Touched
  BY <1>1, <1>5, <1>6, <1>7, <1>8
  DEF Worker, StartCommand, Refuse, SetbitRead, Getbit, CountRange, CountClamp, CountRead,
      TakeTimes, TakeRest, CompareLength, TakeLongest, StartRounds, OpRead
<1> QED BY <1>9

\* A step of a worker keeps commands isolated: a new one is apart from the others.
LEMMA IsolatedStep ==
  ASSUME Orderly, TypeInv, Isolated, NEW w \in Workers, Worker(w)
  PROVE  Isolated'
<1>1. ASSUME NEW v \in Workers, v # w, job'[v].req # NULL, job'[w].req # NULL
      PROVE  Apart(job'[v].req, job'[w].req) /\ Apart(job'[w].req, job'[v].req)
  <2>1. job'[v] = job[v]
    BY <1>1, WorkerLeaves
  <2>2. ASSUME NEW q \in Requests, StartCommand(w, q)
        PROVE  Apart(job'[w].req, job'[v].req)
    <3>1. job'[w].req = q
      BY <2>2, StartedJob
    <3>2. Apart(q, job[v].req)
      BY <1>1, <2>1, <2>2 DEF StartCommand
    <3> QED BY <2>1, <3>1, <3>2
  <2>3. ASSUME job[w].pc # "idle", job'[w].req = job[w].req
        PROVE  Apart(job'[w].req, job'[v].req)
    BY <1>1, <2>1, <2>3 DEF Isolated
  <2>4. Idle.req = NULL
    BY DEF Idle
  <2>5. Apart(job'[w].req, job'[v].req)
    BY <1>1, <2>2, <2>3, <2>4, WorkerGoesOn
  <2>6. \A p, q : Apart(p, q) => Apart(q, p)
    BY DEF Apart
  <2> QED BY <2>5, <2>6
<1>2. ASSUME NEW u \in Workers, NEW v \in Workers, u # v, u # w, v # w,
             job'[u].req # NULL, job'[v].req # NULL
      PROVE  Apart(job'[u].req, job'[v].req)
  BY <1>2, WorkerLeaves DEF Isolated
<1>3. ASSUME NEW u \in Workers, NEW v \in Workers, u # v, job'[u].req # NULL, job'[v].req # NULL
      PROVE  Apart(job'[u].req, job'[v].req)
  BY <1>1, <1>2, <1>3
<1>4. \A u, v \in Workers : u # v /\ job'[u].req # NULL /\ job'[v].req # NULL
        => Apart(job'[u].req, job'[v].req)
  BY <1>3
<1> QED BY <1>4 DEF Isolated, Apart, Changes, Stores, KeysOf

-----------------------------------------------------------------------------
(* What Bitmap is to have, and BITOP to make of it.                        *)

\* The bitmap of each key, as Bitmap has it.
Stored == [k \in Keys |-> StoreOf(k)]

\* A key has one worker at most that stores a result into it.
LEMMA OneStores ==
  ASSUME TypeInv, Isolated, NEW k \in Keys,
         NEW v \in Workers, job[v].req # NULL, Stores(job[v].req, k),
         NEW w \in Workers, job[w].req # NULL, Stores(job[w].req, k)
  PROVE  v = w
<1>1. job[v].req \in Requests /\ job[w].req \in Requests
  BY DEF TypeInv, JobsOK, JobType
<1>2. k \in Changes(job[v].req) /\ k \in KeysOf(job[w].req)
  BY <1>1, NamesKeys
<1> QED BY <1>2 DEF Isolated, Apart

\* The contents of before, of the jobs js, that of the one that stores into k.
LEMMA ChosenStorer ==
  ASSUME NEW js, NEW k, NEW f, NEW w \in Workers, js[w].req # NULL, Stores(js[w].req, k),
         \A v \in Workers : js[v].req # NULL /\ Stores(js[v].req, k) => v = w
  PROVE  (IF \E v \in Workers : js[v].req # NULL /\ Stores(js[v].req, k)
            THEN js[CHOOSE v \in Workers : js[v].req # NULL /\ Stores(js[v].req, k)].old
            ELSE f) = js[w].old
<1> DEFINE chosen == CHOOSE v \in Workers : js[v].req # NULL /\ Stores(js[v].req, k)
<1>1. chosen \in Workers /\ js[chosen].req # NULL /\ Stores(js[chosen].req, k)
  OBVIOUS
<1>2. chosen = w
  <2> HIDE DEF chosen
  <2> QED BY <1>1
<1> QED BY <1>2

\* A key somebody stores a result into is as it was when that began.
LEMMA StoredBy ==
  ASSUME TypeInv, Isolated, NEW w \in Workers, job[w].req # NULL, NEW k \in Keys,
         Stores(job[w].req, k)
  PROVE  Stored[k] = job[w].old
<1>1. \A v \in Workers : job[v].req # NULL /\ Stores(job[v].req, k) => v = w
  BY OneStores
<1>2. StoreOf(k) = job[w].old
  BY <1>1, ChosenStorer DEF StoreOf
<1> QED BY <1>2 DEF Stored

\* Any other is what is in its file.
LEMMA StoredIsData ==
  ASSUME NEW k \in Keys, ~Storing(k)
  PROVE  Stored[k] = data[k]
BY DEF Stored, StoreOf, Storing

LEMMA StoredType ==
  ASSUME TypeInv, Isolated
  PROVE  Stored \in [Keys -> Seq(Byte)]
<1>1. data \in [Keys -> Seq(Byte)] /\ \A w \in Workers : job[w].old \in Seq(Byte)
  BY DEF TypeInv, StoreOK, JobsOK, JobType
<1>2. ASSUME NEW k \in Keys
      PROVE  Stored[k] \in Seq(Byte)
  <2>1. CASE Storing(k)
    BY <1>1, <2>1, StoredBy DEF Storing
  <2>2. CASE ~Storing(k)
    BY <1>1, <2>2, StoredIsData
  <2> QED BY <2>1, <2>2
<1> HIDE DEF Stored
<1>3. DOMAIN Stored = Keys /\ Stored = [k \in Keys |-> Stored[k]]
  BY DEF Stored
<1> QED BY <1>2, <1>3

\* Nobody stores a result into a key of a command but that command.
LEMMA OwnKey ==
  ASSUME TypeInv, Isolated, LengthMatchesSize, NEW w \in Workers, job[w].req # NULL,
         NEW k \in KeysOf(job[w].req), ~Stores(job[w].req, k)
  PROVE  k \in Keys /\ ~Storing(k) /\ Stored[k] = data[k] /\ Sized(k)
<1>1. \A v \in Workers : job[v].req # NULL => job[v].req \in Requests
  BY DEF TypeInv, JobsOK, JobType
<1>2. k \in Keys
  BY <1>1, NamesKeys
<1>3. ASSUME NEW v \in Workers, job[v].req # NULL, Stores(job[v].req, k)
      PROVE  FALSE
  <2>1. v # w /\ k \in Changes(job[v].req)
    BY <1>1, <1>2, <1>3, NamesKeys
  <2> QED BY <1>3, <2>1 DEF Isolated, Apart
<1>4. ~Storing(k)
  BY <1>3 DEF Storing
<1> QED BY <1>2, <1>3, <1>4, StoredIsData DEF LengthMatchesSize, Sized

\* The lengths of a BITOP's sources, and what it is to make of them.
Lens(q) == [i \in DOMAIN q.srcs |-> Len(Stored[q.srcs[i]])]
Target(q) ==
  [n \in 1 .. Longest(Lens(q)) |->
     Combine(q.option, [i \in DOMAIN q.srcs |-> ByteAt(Stored[q.srcs[i]], n - 1)])]

\* The result.
LEMMA TargetIs ==
  ASSUME Stored \in [Keys -> Seq(Byte)], NEW q \in Requests, q.op = "BITOP"
  PROVE  /\ Lens(q) \in Seq(Nat) /\ Lens(q) # <<>> /\ Len(Lens(q)) = Len(q.srcs)
         /\ DOMAIN Lens(q) = DOMAIN q.srcs
         /\ \A i \in DOMAIN q.srcs : Lens(q)[i] = Len(Stored[q.srcs[i]])
         /\ Longest(Lens(q)) \in Nat
         /\ Target(q) \in Seq(Byte) /\ Len(Target(q)) = Longest(Lens(q))
         /\ \A n \in Nat : n < Longest(Lens(q)) =>
              ByteAt(Target(q), n) =
                Combine(q.option, [i \in DOMAIN q.srcs |-> ByteAt(Stored[q.srcs[i]], n)])
<1>1. q.srcs \in Seq(Keys) /\ q.srcs # <<>> /\ q.option \in Options
  BY RequestKinds
<1>2. \A i \in DOMAIN q.srcs : q.srcs[i] \in Keys /\ Len(Stored[q.srcs[i]]) \in Nat
  <2>1. \A i \in DOMAIN q.srcs : q.srcs[i] \in Keys
    BY <1>1
  <2>2. \A k \in Keys : Len(Stored[k]) \in Nat
    OBVIOUS
  <2> QED BY <2>1, <2>2
<1>3. DOMAIN q.srcs = 1 .. Len(q.srcs) /\ Len(q.srcs) \in Nat \ {0}
  BY <1>1
<1>4. Lens(q) \in Seq(Nat) /\ Len(Lens(q)) = Len(q.srcs)
  <2>1. Lens(q) \in [1 .. Len(q.srcs) -> Nat]
    BY <1>2, <1>3 DEF Lens
  <2> HIDE DEF Lens
  <2> QED BY <1>3, <2>1
<1>5. Lens(q) # <<>> /\ DOMAIN Lens(q) = DOMAIN q.srcs
  BY <1>3, <1>4
<1>6. \A i \in DOMAIN q.srcs : Lens(q)[i] = Len(Stored[q.srcs[i]])
  BY DEF Lens
<1>7. Longest(Lens(q)) \in Nat
  BY <1>4, <1>5, LongestIsOne
<1> DEFINE L == Longest(Lens(q))
           At(n) == Combine(q.option, [i \in DOMAIN q.srcs |-> ByteAt(Stored[q.srcs[i]], n - 1)])
<1>8. Target(q) = [n \in 1 .. L |-> At(n)]
  BY DEF Target
<1>9. \A n \in 1 .. L : At(n) \in Byte
  BY <1>1, CombineIsByte
<1> HIDE DEF L, At
<1>10. Target(q) \in Seq(Byte) /\ Len(Target(q)) = L
  BY <1>7, <1>8, <1>9 DEF L
<1>11. ASSUME NEW n \in Nat, n < L
       PROVE  ByteAt(Target(q), n) =
                Combine(q.option, [i \in DOMAIN q.srcs |-> ByteAt(Stored[q.srcs[i]], n)])
  <2>1. n + 1 \in 1 .. L /\ (n + 1) - 1 = n
    BY <1>7, <1>11 DEF L
  <2>2. ByteAt(Target(q), n) = Target(q)[n + 1]
    BY <1>10, <1>11 DEF ByteAt
  <2>3. Target(q)[n + 1] = At(n + 1)
    BY <1>8, <2>1
  <2>4. At(n + 1) = Combine(q.option, [i \in DOMAIN q.srcs |-> ByteAt(Stored[q.srcs[i]], n)])
    BY <2>1 DEF At
  <2> QED BY <2>2, <2>3, <2>4
<1> QED BY <1>4, <1>5, <1>6, <1>7, <1>10, <1>11 DEF L

\* Bitmap counts as its refinement does.
LEMMA SameCardinality == \A S : Commands!Cardinality(S) = Cardinality(S)
BY DEF Commands!Cardinality, Cardinality

\* And Bitmap says the same.
LEMMA TargetIsResult ==
  ASSUME Stored \in [Keys -> Seq(Byte)], NEW q \in Requests, q.op = "BITOP"
  PROVE  Commands!OpResult(q) = Target(q)
<1>1. Commands!Longest(q.srcs) = Longest(Lens(q))
  <2> DEFINE len(i) == Len(Stored[q.srcs[i]])
             S == {len(i) : i \in DOMAIN q.srcs}
             T == {Lens(q)[i] : i \in DOMAIN Lens(q)}
  <2>1. Commands!Longest(q.srcs) = CHOOSE n \in S : \A i \in DOMAIN q.srcs : len(i) <= n
    BY DEF Commands!Longest, Stored
  <2>2. Longest(Lens(q)) = CHOOSE n \in T : \A i \in DOMAIN Lens(q) : Lens(q)[i] <= n
    BY DEF Longest
  <2>3. DOMAIN Lens(q) = DOMAIN q.srcs /\ \A i \in DOMAIN q.srcs : Lens(q)[i] = len(i)
    BY TargetIs
  <2>4. \A i \in DOMAIN q.srcs : len(i) \in Nat
    <3>1. \A i \in DOMAIN q.srcs : q.srcs[i] \in Keys
      BY RequestKinds
    <3> QED BY <3>1
  <2>5. /\ Longest(Lens(q)) \in S
        /\ \A i \in DOMAIN q.srcs : len(i) <= Longest(Lens(q))
    BY <2>3, TargetIs, LongestIsOne
  <2>6. ASSUME NEW n \in S, NEW m \in S,
               \A i \in DOMAIN q.srcs : len(i) <= n, \A i \in DOMAIN q.srcs : len(i) <= m
        PROVE  n = m
    <3>1. n <= m /\ m <= n
      BY <2>6
    <3> QED BY <2>4, <3>1
  <2> HIDE DEF S
  <2>7. /\ Commands!Longest(q.srcs) \in S
        /\ \A i \in DOMAIN q.srcs : len(i) <= Commands!Longest(q.srcs)
    <3> HIDE DEF len
    <3> QED BY <2>1, <2>5
  <2> QED BY <2>5, <2>6, <2>7
<1> QED BY <1>1 DEF Commands!OpResult, Target, Stored, Commands!Combine, Combine,
                    Commands!ByteAt, ByteAt

-----------------------------------------------------------------------------
(* What a command has done so far.                                         *)

\* The bytes BITCOUNT is to count, of n.
LastOf(q) == IF q.end = NULL THEN -1 ELSE q.end
RangeStart(q, n) == FromStart(q.start, n)
RangeEnd(q, n) == LastByte(LastOf(q), n)
Reversed(q) == q.start < 0 /\ LastOf(q) < 0 /\ q.start > LastOf(q)

\* SETBIT has the byte; it does not extend the file for a 0.
SetbitOK(j, f) ==
  j.pc = "write" =>
    /\ j.byteval = ByteAt(f, j.req.byte)
    /\ j.req.value = 1 \/ j.req.byte < Len(f)

\* BITCOUNT has counted its range up to o.
BitcountOK(j, f) ==
  /\ j.pc \in {"key", "range", "clamp"} => j.bits = 0
  /\ j.pc = "clamp" =>
       /\ f # <<>> /\ j.start = j.req.start
       /\ j.end = IF j.req.end = NULL THEN Len(f) - 1 ELSE j.req.end
  /\ j.pc = "count" =>
       /\ ~Reversed(j.req) /\ j.end = RangeEnd(j.req, Len(f))
       /\ RangeStart(j.req, Len(f)) <= j.o /\ j.o <= j.end
       /\ j.bits = OnesIn(f, RangeStart(j.req, Len(f)), j.o)

\* A source is open, or has nothing.
SourceIs(dt, k) == dt = k \/ (dt = NULL /\ Stored[k] = <<>>)

\* BITOP has its sources, as far as it has taken them; the round at o has their
\* bytes.
SourcesOK(j) ==
  LET q == j.req
  IN  /\ j.pc = "sources" =>
           \A i \in DOMAIN j.dts : SourceIs(j.dts[i], q.srcs[Len(q.srcs) - Len(j.dts) + i])
      /\ j.pc \in {"read", "op"} \cup Measuring =>
           Len(j.dts) = Len(q.srcs) /\ \A i \in DOMAIN j.dts : SourceIs(j.dts[i], q.srcs[i])
      /\ \A i \in DOMAIN j.p : \A n \in Nat :
           n < FILE_BUFFER_SIZE => ByteAt(j.p[i], n) = ByteAt(Stored[q.srcs[i]], j.o + n)
      /\ j.pc = "op" => Len(j.p) = Len(j.dts)

\* max is the largest of lens before m, and that of idx unless it is 0.
Leads(lens, m, idx, max) ==
  /\ \A i \in DOMAIN lens : i < m => lens[i] <= max
  /\ max # 0 => idx \in DOMAIN lens /\ lens[idx] = max

\* BITOP has their lengths, and the longest of those it has compared.
LengthsOK(j) ==
  LET q == j.req
      last == Len(j.lens)
  IN  /\ \A i \in DOMAIN j.lens : j.lens[i] = Len(Stored[q.srcs[i]])
      /\ j.pc \in {"lengths", "rest"} => Leads(j.lens, last + 1, j.maxidx, j.maxlen)
      /\ j.pc = "rest" => j.t = Len(Stored[q.srcs[last + 1]]) \div FILE_BUFFER_SIZE
      /\ j.pc = "compare" => Leads(j.lens, last, j.maxidx, j.maxlen)
      /\ j.pc = "longest" => Leads(j.lens, last + 1, last, j.lens[last])
      /\ j.pc \in {"read", "op"} => j.lens[j.maxidx] = Longest(j.lens) /\ j.o < Longest(j.lens)

\* f is new before byte o, and old from there on.
Spliced(f, old, new, o) ==
  /\ Len(f) = Larger(Len(old), o)
  /\ \A n \in Nat : ByteAt(f, n) = IF n < o THEN ByteAt(new, n) ELSE ByteAt(old, n)

\* The destination f has the result before o, and what it had from there on, or
\* nothing if it was truncated; it was no longer than a source, and n, its length,
\* is the larger one of before and of what is stored.
DestinationOK(j, f, n) ==
  /\ \E i \in DOMAIN j.req.srcs : Len(j.old) <= Len(Stored[j.req.srcs[i]])
  /\ \E base \in {j.old, <<>>} :
       /\ j.pc = "key" \/ InPlace(j.req) => base = j.old
       /\ Spliced(f, base, Target(j.req), j.o)
  /\ n = NULL \/ n = Larger(Len(j.old), j.o)

\* BITOP has counted or stored the result before o.
BitopOK(j, f, n) ==
  /\ SourcesOK(j)
  /\ LengthsOK(j)
  /\ j.pc \in {"key", "sources"} \cup Measuring => j.bits = 0
  /\ j.req.hook = "NONE" => DestinationOK(j, f, n)
  /\ j.req.hook = "COUNTOP" => j.bits = OnesIn(Target(j.req), 0, j.o)

\* A destination that is a source will not be truncated.
NotExpended(j) ==
  \A k \in Keys : j.pc = "key" /\ Stores(j.req, k) /\ InPlace(j.req) => k \in Open \/ k \notin files

\* What a job has done so far, whatever its command.
JobIs(j) ==
  /\ j.pc \in {"setbit", "write"} => SetbitOK(j, data[j.req.key])
  /\ j.req # NULL /\ j.req.op = "BITCOUNT" => BitcountOK(j, data[j.req.key])
  /\ j.req # NULL /\ j.req.op = "BITOP" => BitopOK(j, data[j.req.dest], length[j.req.dest])
  /\ NotExpended(j)

\* No command addresses the byte behind the last one a bitmap may have, of which
\* the code stores the bit; and bitmaps fit an int.
WithinLimit ==
  /\ FILE_SIZE_LIMIT <= INT_MAX
  /\ \A f \in OldFiles : Len(f) <= FILE_SIZE_LIMIT
  /\ \A q \in Requests : q.op \in {"SETBIT", "GETBIT"} => q.byte # FILE_SIZE_LIMIT

\* No bitmap is too large.
Limited == \A k \in Keys : Len(Stored[k]) <= FILE_SIZE_LIMIT

\* The inductive invariant of the refinement.
SerialInv ==
  /\ TypeInv
  /\ Unanswered
  /\ Isolated
  /\ LengthMatchesSize
  /\ Limited
  /\ \A w \in Workers : JobIs(job[w])

\* A step of a worker from such a state.
Moves(w) == SerialInv /\ Worker(w) /\ TypeInv' /\ Isolated'

\* It ends the command as Bitmap does, or goes on with it unseen.
Ends(w) ==
  /\ job'[w] = Idle
  /\ Commands!Next
  /\ \A k \in Keys \ Changes(job[w].req) : Stored'[k] = Stored[k]
  /\ \A k \in Keys : Stores(job[w].req, k) => Sized(k)'
Simulates(w) ==
  \/ Ends(w)
  \/ /\ UNCHANGED <<answer, Stored>> /\ JobIs(job[w])'
     /\ job'[w].req = job[w].req /\ job[w].req # NULL

\* A step that goes on with the command.
LEMMA StoredStays ==
  ASSUME NEW w \in Workers, Moves(w), job[w].req # NULL,
         job'[w].req = job[w].req, job'[w].old = job[w].old,
         \A k \in Keys : data'[k] = data[k] \/ Stores(job[w].req, k)
  PROVE  Stored' = Stored
<1>1. TypeInv /\ Isolated /\ TypeInv' /\ Isolated' /\ Worker(w)
  BY DEF Moves, SerialInv
<1>2. \A v \in Workers : job'[v].req = job[v].req /\ job'[v].old = job[v].old
  BY <1>1, WorkerLeaves
<1>3. ASSUME NEW k \in Keys
      PROVE  Stored'[k] = Stored[k]
  <2>1. ASSUME NEW v \in Workers, job[v].req # NULL, Stores(job[v].req, k)
        PROVE  Stored'[k] = Stored[k]
    <3>1. Stored[k] = job[v].old
      BY <1>1, <2>1, StoredBy
    <3>2. Stored'[k] = job'[v].old
      <4>1. job'[v].req # NULL /\ Stores(job'[v].req, k)
        BY <1>2, <2>1
      <4>2. \A u \in Workers : job'[u].req # NULL /\ Stores(job'[u].req, k) => u = v
        BY <1>1, <1>2, <2>1, OneStores
      <4>3. StoreOf(k)' = job'[v].old
        BY <4>1, <4>2, ChosenStorer DEF StoreOf, Stores
      <4> QED BY <4>3 DEF Stored
    <3> QED BY <1>2, <3>1, <3>2
  <2>2. CASE ~Storing(k)
    <3>1. ~Storing(k)'
      BY <1>2, <2>2 DEF Storing, Stores
    <3>2. Stored'[k] = data'[k]
      BY <3>1 DEF Stored, StoreOf, Storing
    <3>3. data'[k] = data[k]
      BY <2>2 DEF Storing
    <3> QED BY <2>2, <3>2, <3>3, StoredIsData
  <2> QED BY <2>1, <2>2 DEF Storing
<1>4. DOMAIN Stored = Keys /\ DOMAIN Stored' = Keys
  BY DEF Stored
<1>5. Stored = [k \in Keys |-> Stored[k]] /\ Stored' = [k \in Keys |-> Stored'[k]]
  BY DEF Stored
<1> HIDE DEF Stored
<1> QED BY <1>3, <1>5


\* A command that ends: what it changes is now what is in the files.
LEMMA StoredAtEnd ==
  ASSUME NEW w \in Workers, Moves(w), job[w].pc # "idle", NEW n, Reply(w, n)
  PROVE  /\ job'[w] = Idle
         /\ \A k \in Keys : Stored'[k] = IF k \in Changes(job[w].req) THEN data'[k] ELSE Stored[k]
<1>1. TypeInv /\ Isolated /\ TypeInv' /\ Isolated' /\ Worker(w)
  BY DEF Moves, SerialInv
<1>2. job'[w] = Idle /\ Idle.req = NULL
  BY <1>1 DEF Reply, TypeInv, JobsOK, Idle
<1>3. job[w].req \in Requests /\ job[w].req # NULL
  BY <1>1, ReqFacts
<1>4. ASSUME NEW k \in Keys
      PROVE  Stored'[k] = IF k \in Changes(job[w].req) THEN data'[k] ELSE Stored[k]
  <2>1. ASSUME NEW v \in Workers, v # w, job[v].req # NULL, Stores(job[v].req, k)
        PROVE  Stored'[k] = Stored[k] /\ k \notin Changes(job[w].req)
    <3>1. job'[v] = job[v]
      BY <1>1, <2>1, WorkerLeaves
    <3>2. ASSUME NEW u \in Workers, job'[u].req # NULL, Stores(job'[u].req, k)
          PROVE  u = v
      <4>1. u # w
        BY <1>2, <3>2
      <4>2. job'[u] = job[u]
        BY <1>1, <4>1, WorkerLeaves
      <4> QED BY <1>1, <2>1, <3>2, <4>2, OneStores
    <3>3. StoreOf(k)' = job'[v].old
      <4>1. job'[v].req # NULL /\ Stores(job'[v].req, k)
        BY <2>1, <3>1
      <4> QED BY <3>2, <4>1, ChosenStorer DEF StoreOf, Stores
    <3>4. Stored'[k] = job[v].old
      BY <3>1, <3>3 DEF Stored
    <3>5. k \notin Changes(job[w].req)
      <4>1. job[v].req \in Requests
        BY <1>1, <2>1 DEF TypeInv, JobsOK, JobType
      <4>2. k \in KeysOf(job[v].req)
        BY <2>1, <4>1, NamesKeys
      <4> QED BY <1>1, <1>3, <2>1, <4>2 DEF Isolated, Apart
    <3> QED BY <1>1, <2>1, <3>4, <3>5, StoredBy
  <2>2. ASSUME \A v \in Workers : v # w /\ job[v].req # NULL => ~Stores(job[v].req, k)
        PROVE  Stored'[k] = IF k \in Changes(job[w].req) THEN data'[k] ELSE Stored[k]
    <3>1. ~\E v \in Workers : job'[v].req # NULL /\ Stores(job'[v].req, k)
      BY <1>1, <1>2, <2>2, WorkerLeaves
    <3>2. StoreOf(k)' = data'[k]
      BY <3>1 DEF StoreOf, Stores
    <3>3. Stored'[k] = data'[k]
      BY <3>2 DEF Stored
    <3>4. ASSUME k \notin Changes(job[w].req)
          PROVE  Stored[k] = data'[k]
      <4>1. ~Storing(k)
        BY <1>3, <2>2, <3>4, NamesKeys DEF Storing
      <4>2. data'[k] = data[k]
        BY <1>1, <3>4, StoreTouches
      <4> QED BY <4>1, <4>2, StoredIsData
    <3> QED BY <3>3, <3>4
  <2> QED BY <2>1, <2>2
<1> QED BY <1>2, <1>4

\* A request that does not change a key leaves its bitmap.
LEMMA AfterElsewhere ==
  ASSUME NEW q \in Requests, NEW k \in Keys, k \notin Changes(q)
  PROVE  Commands!After(q)[k] = Stored[k]
<1>1. q.op = "SETBIT" => k # q.key
  BY NamesKeys
<1>2. q.op = "BITOP" /\ q.hook = "NONE" => k # q.dest
  BY NamesKeys
<1>3. k \in DOMAIN Stored
  BY DEF Stored
<1> QED BY <1>1, <1>2, <1>3 DEF Commands!After, Stored

\* A command that ends with Bitmap's reply and contents is one step of Bitmap.
LEMMA Executes ==
  ASSUME WithinLimit, NEW w \in Workers, Moves(w), job[w].pc \notin {"idle", "refused"},
         NEW n, Reply(w, n), n = Commands!Reply(job[w].req),
         \A k \in Changes(job[w].req) : data'[k] = Commands!After(job[w].req)[k],
         \A k \in Keys : Stores(job[w].req, k) => Sized(k)'
  PROVE  Simulates(w)
<1> DEFINE q == job[w].req
<1>1. TypeInv /\ Unanswered
  BY DEF Moves, SerialInv
<1>2. q \in Requests /\ q # NULL
  BY <1>1, ReqFacts
<1>3. answer[w] = NULL /\ ~TooFar(q)
  BY <1>1, <1>2 DEF Unanswered
<1>4. /\ job'[w] = Idle
      /\ \A k \in Keys : Stored'[k] = IF k \in Changes(q) THEN data'[k] ELSE Stored[k]
  BY StoredAtEnd
<1>5. ~Commands!TooFar(q)
  <2>1. CASE q.op \in {"SETBIT", "GETBIT"}
    <3>1. q.byte \in Nat /\ q.byte # FILE_SIZE_LIMIT
      BY <1>2, <2>1, RequestKinds DEF SetbitRequest, GetbitRequest, WithinLimit
    <3>2. FILE_SIZE_LIMIT \in Nat /\ ~(q.byte > FILE_SIZE_LIMIT)
      BY <1>3, <2>1, BitStoreAssumption DEF TooFar
    <3> QED BY <3>1, <3>2 DEF Commands!TooFar
  <2>2. CASE q.op \notin {"SETBIT", "GETBIT"}
    BY <2>2 DEF Commands!TooFar
  <2> QED BY <2>1, <2>2
<1>6. Stored' = Commands!After(q)
  <2>1. \A k \in Keys : Stored'[k] = Commands!After(q)[k]
    BY <1>2, <1>4, AfterElsewhere
  <2>2. Stored' = [k \in Keys |-> Stored'[k]]
    BY DEF Stored
  <2>3. Commands!After(q) = [k \in Keys |-> Commands!After(q)[k]]
    BY DEF Commands!After
  <2> QED BY <2>1, <2>2, <2>3
<1>7. Commands!Execute(w, q)
  <2>1. answer' = [answer EXCEPT ![w] = <<q, Commands!Reply(q)>>]
    BY DEF Reply
  <2> QED BY <1>3, <1>5, <1>6, <2>1 DEF Commands!Execute, Stored
<1>8. Commands!Next
  BY <1>2, <1>7 DEF Commands!Next
<1> QED BY <1>4, <1>8 DEF Simulates, Ends

\* A command refused for its offset, or because something failed, is too.
LEMMA Refuses ==
  ASSUME Orderly, NEW w \in Workers, Moves(w), job[w].pc # "idle", Reply(w, ERR),
         \/ TooFar(job[w].req)
         \/ (AllocFails /\ job[w].req.op \in {"BITCOUNT", "BITOP"}) \/ FilesystemFails,
         TooFar(job[w].req) \/ MayFail(w),
         UNCHANGED <<files, data, length>>
  PROVE  Simulates(w)
<1> DEFINE q == job[w].req
<1>1. TypeInv /\ Isolated /\ Unanswered /\ JobIs(job[w])
  BY DEF Moves, SerialInv
<1>2. q \in Requests /\ q # NULL
  BY <1>1, ReqFacts
<1>3. answer[w] = NULL
  BY <1>1, <1>2 DEF Unanswered
<1>4. /\ job'[w] = Idle
      /\ \A k \in Keys : Stored'[k] = IF k \in Changes(q) THEN data'[k] ELSE Stored[k]
  BY StoredAtEnd
<1>5. ASSUME NEW k \in Keys, Stores(q, k)
      PROVE  data[k] = job[w].old
  <2>1. ~TooFar(q)
    BY <1>5 DEF Stores, TooFar
  <2>2. Contents(q) = job[w].old
    BY <2>1 DEF MayFail
  <2>3. Contents(q) = data[k]
    BY <1>5 DEF Contents, Stores
  <2> QED BY <2>2, <2>3
<1>6. ASSUME NEW k \in Changes(q)
      PROVE  data'[k] = Stored[k]
  <2>1. k \in Keys
    BY <1>2, NamesKeys
  <2>2. CASE Stores(q, k)
    BY <1>1, <1>2, <1>5, <2>1, <2>2, StoredBy
  <2>3. CASE ~Stores(q, k)
    <3>1. LengthMatchesSize /\ k \in KeysOf(q)
      BY <1>2, NamesKeys DEF Moves, SerialInv
    <3>2. Stored[k] = data[k]
      BY <1>1, <1>2, <2>3, <3>1, OwnKey
    <3> QED BY <3>2
  <2> QED BY <2>2, <2>3
<1>7. ASSUME NEW k \in Keys, Stores(q, k)
      PROVE  Sized(k)'
  <2>1. q.op = "BITOP" /\ q.dest = k
    BY <1>7 DEF Stores
  <2>2. q.hook = "NONE"
    BY <2>1, <1>2, NamesKeys, <1>7
  <2>3. BitopOK(job[w], data[q.dest], length[q.dest])
    BY <1>1, <1>2, <2>1 DEF JobIs
  <2>4. /\ length[k] = NULL \/ length[k] = Larger(Len(job[w].old), job[w].o)
        /\ Len(data[k]) = Larger(Len(job[w].old), job[w].o) \/ Len(data[k]) = Larger(Len(<<>>), job[w].o)
    BY <2>1, <2>2, <2>3 DEF BitopOK, DestinationOK, Spliced
  <2>5. data[k] = job[w].old
    BY <1>5, <1>7
  <2>6. Len(job[w].old) \in Nat /\ job[w].o \in Nat
    BY <1>1 DEF TypeInv, JobsOK, JobType
  <2>7. Larger(Len(job[w].old), job[w].o) = Len(data[k])
    <3>1. \A a, b \in Nat : a = Larger(a, b) \/ a = Larger(0, b) => Larger(a, b) = a
      BY DEF Larger
    <3>2. Len(<<>>) = 0
      OBVIOUS
    <3> QED BY <2>4, <2>5, <2>6, <3>1, <3>2
  <2> QED BY <2>4, <2>7 DEF Sized
<1>8. Stored' = Stored
  <2>1. \A k \in Keys : Stored'[k] = Stored[k]
    BY <1>4, <1>6
  <2>2. Stored = [k \in Keys |-> Stored[k]] /\ Stored' = [k \in Keys |-> Stored'[k]]
    BY DEF Stored
  <2> HIDE DEF Stored
  <2> QED BY <2>1, <2>2
<1>9. Commands!Refuse(w, q)
  <2>1. Commands!TooFar(q) \/ (AllocFails /\ q.op \in {"BITCOUNT", "BITOP"}) \/ FilesystemFails
    <3>1. ASSUME TooFar(q)
          PROVE  Commands!TooFar(q)
      <4>1. q.byte \in Nat /\ FILE_SIZE_LIMIT \in Nat /\ q.byte > FILE_SIZE_LIMIT
            /\ q.op \in {"SETBIT", "GETBIT"}
        BY <1>2, <3>1, RequestKinds, BitStoreAssumption DEF TooFar, SetbitRequest, GetbitRequest
      <4> QED BY <4>1 DEF Commands!TooFar
    <3> QED BY <3>1
  <2>2. answer' = [answer EXCEPT ![w] = <<q, Commands!ERR>>]
    BY DEF Reply, ERR, Commands!ERR
  <2> QED BY <1>3, <1>8, <2>1, <2>2 DEF Commands!Refuse, Stored
<1>10. Commands!Next
  BY <1>2, <1>9 DEF Commands!Next
<1>11. \A k \in Keys \ Changes(q) : Stored'[k] = Stored[k]
  BY <1>8
<1> QED BY <1>4, <1>7, <1>10, <1>11 DEF Simulates, Ends

-----------------------------------------------------------------------------
(* SETBIT and GETBIT.                                                      *)

\* What a command on one key finds.
LEMMA KeyFacts ==
  ASSUME NEW w \in Workers, Moves(w), NEW op, OnKey(job[w], op), op # "BITOP"
  PROVE  LET q == job[w].req
         IN  /\ q \in Requests /\ q.op = op /\ q # NULL /\ q.key \in Keys
             /\ job \in [Workers -> JobType]
             /\ data[q.key] \in Seq(Byte) /\ length[q.key] = Len(data[q.key])
             /\ Stored[q.key] = data[q.key] /\ JobIs(job[w])
             /\ \A k \in Keys : ~Stores(q, k)
<1>1. TypeInv /\ Isolated /\ LengthMatchesSize /\ JobIs(job[w])
  BY DEF Moves, SerialInv
<1>2. job[w].req \in Requests /\ job[w].req.op = op
  BY DEF OnKey
<1>3. job[w].req # NULL
  BY <1>2, BitStoreAssumption
<1>4. job[w].req.key \in Open /\ job[w].req.key \in Keys
  BY <1>1, OnKeyFacts
<1>5. job[w].req.key \in KeysOf(job[w].req) /\ \A k \in Keys : ~Stores(job[w].req, k)
  BY <1>2, NamesKeys DEF Stores
<1>6. Stored[job[w].req.key] = data[job[w].req.key] /\ Sized(job[w].req.key)
  BY <1>1, <1>3, <1>4, <1>5, OwnKey
<1> QED BY <1>1, <1>2, <1>3, <1>4, <1>5, <1>6 DEF TypeInv, StoreOK, JobsOK, Sized, Open

\* Bitmap's reply to SETBIT and GETBIT.
LEMMA BitReply ==
  ASSUME NEW q, q.key \in Keys, q.op \in {"SETBIT", "GETBIT"}, Stored[q.key] = data[q.key]
  PROVE  Commands!Reply(q) = IF q.bit \in ByteAt(data[q.key], q.byte) THEN 1 ELSE 0
BY DEF Commands!Reply, Commands!ByteAt, ByteAt, Stored

\* What SETBIT stores.
LEMMA BitAfter ==
  ASSUME NEW q, q.key \in Keys, q.op = "SETBIT"
  PROVE  Commands!After(q)[q.key] =
           IF q.value = 0 /\ q.byte >= Len(Stored[q.key]) THEN Stored[q.key]
           ELSE WriteAt(Stored[q.key], q.byte, <<NewByte(q, ByteAt(Stored[q.key], q.byte))>>)
<1> DEFINE f == Stored[q.key]
           g == WriteAt(f, q.byte, <<NewByte(q, ByteAt(f, q.byte))>>)
<1>1. StoreOf(q.key) = f
  BY DEF Stored
<1>2. Commands!After(q) = IF q.value = 0 /\ q.byte >= Len(f) THEN Stored
                          ELSE [Stored EXCEPT ![q.key] = g]
  BY <1>1 DEF Commands!After, Commands!ByteAt, ByteAt, Commands!WriteAt, WriteAt, Commands!Larger,
              Larger, NewByte, Stored
<1>3. q.key \in DOMAIN Stored
  BY DEF Stored
<1> HIDE DEF g, Stored
<1> QED BY <1>2, <1>3 DEF g

LEMMA BitStored ==
  ASSUME NEW q, q.key \in Keys, q.op = "SETBIT", Stored[q.key] = data[q.key]
  PROVE  Commands!After(q)[q.key] =
           IF q.value = 0 /\ q.byte >= Len(data[q.key]) THEN data[q.key]
           ELSE WriteAt(data[q.key], q.byte, <<NewByte(q, ByteAt(data[q.key], q.byte))>>)
BY BitAfter

\* A refused offset.
LEMMA RefuseSimulates ==
  ASSUME Orderly, NEW w \in Workers, Moves(w), Refuse(w)
  PROVE  Simulates(w)
<1>1. TypeInv /\ Unanswered /\ job[w].pc = "refused"
  BY DEF Moves, SerialInv, Refuse
<1>2. job[w].req \in Requests /\ job[w].req # NULL
  BY <1>1, ReqFacts
<1>3. TooFar(job[w].req)
  BY <1>1, <1>2 DEF Unanswered
<1> QED BY <1>1, <1>3, Refuses DEF Refuse

\* A byte that is there is read.
LEMMA ByteRead ==
  ASSUME NEW f \in Seq(Byte), NEW o \in Nat, o < Len(f)
  PROVE  ReadAt(f, o, 1) # <<>> /\ ReadAt(f, o, 1)[1] = ByteAt(f, o)
<1>1. Len(ReadAt(f, o, 1)) = Smaller(1, Len(f) - o)
  BY PieceRead
<1>2. Smaller(1, Len(f) - o) # 0
  BY DEF Smaller
<1>3. ReadAt(f, o, 1) # <<>>
  BY <1>1, <1>2
<1> QED BY <1>3, WasRead

\* GETBIT.
LEMMA GetbitSimulates ==
  ASSUME WithinLimit, NEW w \in Workers, Moves(w), Getbit(w)
  PROVE  Simulates(w)
<1> DEFINE q == job[w].req
           f == data[q.key]
<1>1. OnKey(job[w], "GETBIT") /\ job[w].pc = "getbit"
  BY DEF Moves, SerialInv, Getbit, TypeInv, JobsOK, JobOK
<1>2. /\ q \in Requests /\ q.op = "GETBIT" /\ f \in Seq(Byte) /\ length[q.key] = Len(f)
      /\ Stored[q.key] = f /\ q.key \in Keys /\ \A k \in Keys : ~Stores(q, k)
  BY <1>1, KeyFacts
<1>3. q.byte \in Nat /\ Changes(q) = {}
  BY <1>2, RequestKinds, NamesKeys DEF GetbitRequest
<1>4. ~(q.byte < Len(f)) => ByteAt(f, q.byte) = {}
  BY DEF ByteAt
<1>5. Reply(w, IF q.bit \in ByteAt(f, q.byte) THEN 1 ELSE 0)
  <2>1. CASE q.byte < Len(f)
    <3>1. ReadAt(f, q.byte, 1) # <<>> /\ ReadAt(f, q.byte, 1)[1] = ByteAt(f, q.byte)
      BY <1>2, <1>3, <2>1, ByteRead
    <3>2. ~(q.byte >= length[q.key])
      BY <1>2, <1>3, <2>1
    <3> QED BY <3>1, <3>2 DEF Getbit, read_from
  <2>2. CASE ~(q.byte < Len(f))
    <3>1. q.byte >= length[q.key]
      BY <1>2, <1>3, <2>2
    <3>2. Reply(w, 0)
      BY <3>1 DEF Getbit
    <3> QED BY <1>4, <2>2, <3>2
  <2> QED BY <2>1, <2>2
<1>6. Commands!Reply(q) = IF q.bit \in ByteAt(f, q.byte) THEN 1 ELSE 0
  BY <1>2, BitReply
<1> HIDE DEF f
<1>7. Reply(w, Commands!Reply(q))
  BY <1>5, <1>6
<1> QED BY <1>1, <1>2, <1>3, <1>7, Executes

\* SETBIT's read: the byte as it is, or nothing to do.
LEMMA SetbitReadSimulates ==
  ASSUME WithinLimit, NEW w \in Workers, Moves(w), SetbitRead(w)
  PROVE  Simulates(w)
<1> DEFINE q == job[w].req
           f == data[q.key]
           c == ReadAt(f, q.byte, 1)
<1>1. OnKey(job[w], "SETBIT") /\ job[w].pc = "setbit"
  BY DEF Moves, SerialInv, SetbitRead, TypeInv, JobsOK, JobOK
<1>2. /\ q \in Requests /\ q.op = "SETBIT" /\ q # NULL /\ f \in Seq(Byte)
      /\ length[q.key] = Len(f) /\ job \in [Workers -> JobType]
      /\ Stored[q.key] = f /\ q.key \in Keys /\ \A k \in Keys : ~Stores(q, k)
  BY <1>1, KeyFacts
<1>3. q.byte \in Nat /\ q.value \in {0, 1} /\ Changes(q) = {q.key}
  BY <1>2, RequestKinds, NamesKeys DEF SetbitRequest
<1>4. q.byte < Len(f) => c # <<>> /\ c[1] = ByteAt(f, q.byte)
  BY <1>2, <1>3, ByteRead
<1>5. ~(q.byte < Len(f)) => ByteAt(f, q.byte) = {}
  BY DEF ByteAt
<1>6. ASSUME NEW b, job' = [job EXCEPT ![w].pc = "write", ![w].byteval = b],
             b = ByteAt(f, q.byte), q.value = 1 \/ q.byte < Len(f), UNCHANGED answer
      PROVE  Simulates(w)
  <2>1. /\ job'[w].req = q /\ job'[w].old = job[w].old /\ job'[w].pc = "write"
        /\ job'[w].byteval = b
    BY <1>2, <1>6 DEF JobType
  <2>2. data' = data
    BY DEF SetbitRead
  <2>3. Stored' = Stored
    BY <1>2, <2>1, <2>2, StoredStays
  <2>4. JobIs(job[w])'
    BY <1>2, <1>6, <2>1, <2>2 DEF JobIs, SetbitOK, NotExpended
  <2> QED BY <1>2, <1>6, <2>1, <2>3, <2>4 DEF Simulates
<1>7. CASE q.byte < length[q.key]
  <2>1. q.byte < Len(f) /\ ~(q.byte >= length[q.key])
    BY <1>2, <1>3, <1>7
  <2>2. c # <<>> /\ c[1] = ByteAt(f, q.byte)
    BY <1>4, <2>1
  <2>3. job' = [job EXCEPT ![w].pc = "write", ![w].byteval = c[1]] /\ UNCHANGED answer
    BY <2>1, <2>2 DEF SetbitRead, read_from
  <2> HIDE DEF c, f
  <2> QED BY <1>6, <2>1, <2>2, <2>3
<1>8. CASE q.byte >= length[q.key] /\ q.value = 1
  <2>1. ~(q.byte < Len(f))
    BY <1>2, <1>3, <1>8
  <2>2. job' = [job EXCEPT ![w].pc = "write", ![w].byteval = {}] /\ UNCHANGED answer
    BY <1>2, <1>3, <1>8, <2>1 DEF SetbitRead
  <2> QED BY <1>5, <1>6, <1>8, <2>1, <2>2
<1>9. CASE q.byte >= length[q.key] /\ q.value = 0
  <2>1. ~(q.byte < Len(f)) /\ q.byte >= Len(f)
    BY <1>2, <1>3, <1>9
  <2>2. Reply(w, 0)
    BY <1>2, <1>3, <1>9, <2>1 DEF SetbitRead
  <2>3. Commands!Reply(q) = 0
    BY <1>2, <1>5, <2>1, BitReply
  <2>4. data'[q.key] = Commands!After(q)[q.key]
    BY <1>2, <1>9, <2>1, BitStored DEF SetbitRead
  <2> QED BY <1>1, <1>2, <1>3, <2>2, <2>3, <2>4, Executes
<1> QED BY <1>2, <1>3, <1>7, <1>8, <1>9

\* SETBIT's write: the bit, its byte as it was otherwise.
LEMMA SetbitWriteSimulates ==
  ASSUME WithinLimit, NEW w \in Workers, Moves(w), SetbitWrite(w)
  PROVE  Simulates(w)
<1> DEFINE q == job[w].req
           f == data[q.key]
<1>1. OnKey(job[w], "SETBIT") /\ job[w].pc = "write" /\ data \in [Keys -> Seq(Byte)]
  BY DEF Moves, SerialInv, SetbitWrite, TypeInv, StoreOK, JobsOK, JobOK
<1>2. /\ q \in Requests /\ q.op = "SETBIT" /\ f \in Seq(Byte) /\ JobIs(job[w])
      /\ Stored[q.key] = f /\ q.key \in Keys /\ \A k \in Keys : ~Stores(q, k)
  BY <1>1, KeyFacts
<1>3. q.byte \in Nat /\ q.value \in {0, 1} /\ Changes(q) = {q.key}
  BY <1>2, RequestKinds, NamesKeys DEF SetbitRequest
<1>4. job[w].byteval = ByteAt(f, q.byte) /\ (q.value = 1 \/ q.byte < Len(f))
  BY <1>1, <1>2 DEF JobIs, SetbitOK
<1>5. data'[q.key] = Commands!After(q)[q.key]
  <2>1. ~(q.value = 0 /\ q.byte >= Len(f))
    BY <1>2, <1>3, <1>4
  <2>2. data'[q.key] = WriteAt(f, q.byte, <<NewByte(q, ByteAt(f, q.byte))>>)
    BY <1>1, <1>2, <1>4 DEF SetbitWrite, write_to
  <2> QED BY <1>2, <2>1, <2>2, BitStored
<1>6. Reply(w, Commands!Reply(q))
  BY <1>2, <1>4, BitReply DEF SetbitWrite
<1> QED BY <1>1, <1>2, <1>3, <1>5, <1>6, Executes

-----------------------------------------------------------------------------
(* A command begins; its key is prepared.                                  *)

\* What BITOP is to store does not change while the bitmaps do not.
LEMMA TargetStays ==
  ASSUME Stored' = Stored, NEW q
  PROVE  Target(q)' = Target(q)
BY DEF Target, Lens

\* Nor what a worker's command is to store, as long as it is the same command.
LEMMA TargetOfJobStays ==
  ASSUME Stored' = Stored, NEW w, job'[w].req = job[w].req
  PROVE  Target(job[w].req)' = Target(job[w].req)
BY DEF Target, Lens

\* Nobody stores into the keys of a command that begins.
LEMMA StartFacts ==
  ASSUME Orderly, NEW w \in Workers, Moves(w), NEW q \in Requests, StartCommand(w, q)
  PROVE  /\ job[w].req = NULL /\ q # NULL /\ job'[w].req = q
         /\ \A k \in KeysOf(q) : ~Storing(k) /\ Stored[k] = data[k] /\ Sized(k)
         /\ Stored' = Stored
<1>1. TypeInv /\ Isolated /\ LengthMatchesSize /\ Worker(w) /\ TypeInv' /\ Isolated'
  BY DEF Moves, SerialInv
<1>2. job[w].req = NULL /\ job'[w].req = q /\ q # NULL /\ job \in [Workers -> JobType]
  BY <1>1, StartedJob, BitStoreAssumption DEF Idle, TypeInv, JobsOK
<1>3. \A v \in Workers : v # w => job'[v] = job[v]
  BY <1>1, WorkerLeaves
<1>4. ASSUME NEW k \in KeysOf(q), NEW v \in Workers, job[v].req # NULL, Stores(job[v].req, k)
      PROVE  FALSE
  <2>1. job[v].req \in Requests /\ k \in Keys
    BY <1>2, <1>4, NamesKeys DEF JobType
  <2>2. Apart(q, job[v].req) /\ k \in Changes(job[v].req)
    BY <1>4, <2>1, NamesKeys DEF StartCommand
  <2> QED BY <1>4, <2>2 DEF Apart
<1>5. \A k \in KeysOf(q) : ~Storing(k)
  BY <1>4 DEF Storing
<1>6. \A k \in KeysOf(q) : Stored[k] = data[k] /\ Sized(k)
  BY <1>1, <1>4, <1>5, NamesKeys, StoredIsData DEF LengthMatchesSize, Sized
<1>7. ASSUME NEW k \in Keys
      PROVE  Stored'[k] = Stored[k]
  <2>1. CASE Stores(q, k)
    <3>1. k \in KeysOf(q)
      BY <2>1, NamesKeys
    <3>2. \A u \in Workers : job'[u].req # NULL /\ Stores(job'[u].req, k) => u = w
      BY <1>3, <1>4, <3>1
    <3>3. StoreOf(k)' = job'[w].old
      BY <1>2, <2>1, <3>2, ChosenStorer DEF StoreOf, Stores
    <3>4. job'[w].old = Contents(q)
      BY <1>2 DEF StartCommand, JobType
    <3>5. Contents(q) = data[k]
      BY <2>1 DEF Contents, Stores
    <3>6. Stored'[k] = data[k]
      BY <3>3, <3>4, <3>5 DEF Stored
    <3> QED BY <1>6, <3>1, <3>6
  <2>2. ASSUME ~Stores(q, k), NEW v \in Workers, job[v].req # NULL, Stores(job[v].req, k)
        PROVE  Stored'[k] = Stored[k]
    <3>1. v # w /\ job'[v] = job[v]
      BY <1>2, <1>3, <2>2
    <3>2. \A u \in Workers : job'[u].req # NULL /\ Stores(job'[u].req, k) => u = v
      BY <1>1, <1>2, <1>3, <2>2, OneStores
    <3>3. StoreOf(k)' = job'[v].old
      BY <2>2, <3>1, <3>2, ChosenStorer DEF StoreOf, Stores
    <3>4. Stored'[k] = job[v].old
      BY <3>1, <3>3 DEF Stored
    <3> QED BY <1>1, <2>2, <3>4, StoredBy
  <2>3. CASE ~Stores(q, k) /\ ~Storing(k)
    <3>1. ~\E v \in Workers : job'[v].req # NULL /\ Stores(job'[v].req, k)
      BY <1>2, <1>3, <2>3 DEF Storing
    <3>2. StoreOf(k)' = data'[k]
      BY <3>1 DEF StoreOf, Stores
    <3>3. Stored'[k] = data[k]
      BY <3>2 DEF Stored, StartCommand
    <3> QED BY <2>3, <3>3, StoredIsData
  <2> QED BY <2>1, <2>2, <2>3 DEF Storing
<1>8. Stored = [k \in Keys |-> Stored[k]] /\ Stored' = [k \in Keys |-> Stored'[k]]
  BY DEF Stored
<1> HIDE DEF Stored
<1>9. Stored' = Stored
  BY <1>7, <1>8
<1> QED BY <1>2, <1>5, <1>6, <1>9

\* A worker takes a command: what it answered last is forgotten.
LEMMA StartSimulates ==
  ASSUME Orderly, NEW w \in Workers, Moves(w), NEW q \in Requests, StartCommand(w, q)
  PROVE  JobIs(job[w])' /\ Commands!Next
<1>1. TypeInv /\ Isolated /\ job[w] = Idle /\ job'[w].req = q /\ q # NULL /\ Stored' = Stored
  BY StartFacts, StartedJob DEF Moves, SerialInv
<1>2. /\ job'[w].old = Contents(q) /\ job'[w].bits = 0 /\ job'[w].o = 0
      /\ job'[w].dts = <<>> /\ job'[w].lens = <<>> /\ job'[w].p = <<>>
      /\ job'[w].old \in Seq(Byte)
      /\ job'[w].pc = IF TooFar(q) THEN "refused" ELSE IF Key(q) = NULL THEN "sources" ELSE "key"
  <2> DEFINE pc == IF TooFar(q) THEN "refused" ELSE IF Key(q) = NULL THEN "sources" ELSE "key"
  <2>1. PICK n, f : job' = [job EXCEPT ![w].req = q, ![w].floor = n, ![w].old = f, ![w].pc = pc]
                    /\ f = Contents(q)
    BY DEF StartCommand
  <2>2. job \in [Workers -> JobType] /\ job'[w] \in JobType
    BY DEF Moves, SerialInv, TypeInv, JobsOK
  <2> HIDE DEF pc
  <2>3. job'[w] = [Idle EXCEPT !.req = q, !.floor = n, !.old = f, !.pc = pc]
    BY <1>1, <2>1, <2>2
  <2>4. /\ job'[w].old = f /\ job'[w].pc = pc /\ job'[w].bits = 0 /\ job'[w].o = 0
        /\ job'[w].dts = <<>> /\ job'[w].lens = <<>> /\ job'[w].p = <<>>
    BY <2>3 DEF Idle
  <2>5. job'[w].old \in Seq(Byte)
    BY <2>2 DEF JobType
  <2> QED BY <2>1, <2>4, <2>5 DEF pc
<1>3. UNCHANGED <<files, data, length>> /\ Stored \in [Keys -> Seq(Byte)]
  BY <1>1, StoredType DEF StartCommand
<1>4. Commands!Next
  <2>1. answer' = [answer EXCEPT ![w] = NULL]
    BY DEF StartCommand
  <2>2. Commands!Begin(w)
    BY <1>1, <2>1 DEF Commands!Begin, Stored
  <2> QED BY <2>2 DEF Commands!Next
<1>5. job'[w].pc \in {"refused", "key", "sources"}
  BY <1>2
<1>6. q.op = "BITCOUNT" => BitcountOK(job'[w], data'[q.key])
  BY <1>2, <1>5 DEF BitcountOK
<1>7. ASSUME q.op = "BITOP"
      PROVE  BitopOK(job[w], data[job[w].req.dest], length[job[w].req.dest])'
  <2>1. job'[w].pc \in {"key", "sources"}
    BY <1>2, <1>7 DEF TooFar
  <2>2. \A i \in DOMAIN job'[w].p : FALSE
    BY <1>2
  <2>3. \A i \in DOMAIN job'[w].lens : FALSE
    BY <1>2
  <2>4. \A i \in DOMAIN job'[w].dts : FALSE
    BY <1>2
  <2>5. SourcesOK(job[w])'
    BY <2>1, <2>2, <2>4 DEF SourcesOK, Measuring
  <2>6. LengthsOK(job[w])'
    BY <2>1, <2>3 DEF LengthsOK
  <2>7. OnesIn(Target(q), 0, 0) = 0 /\ Target(q)' = Target(q)
    <3>1. Target(q) \in Seq(Byte)
      BY <1>3, <1>7, TargetIs
    <3>2. OnesIn(Target(q), 0, 0) = 0
      BY <3>1, NothingThere
    <3>3. Target(q)' = Target(q)
      BY <1>1, TargetStays
    <3> QED BY <3>2, <3>3
  <2>8. ASSUME q.hook = "NONE"
        PROVE  DestinationOK(job[w], data[q.dest], length[q.dest])'
    <3>1. q.dest \in Keys /\ q.dest \in KeysOf(q) /\ Stores(q, q.dest)
      BY <1>7, <2>8, NamesKeys DEF Stores
    <3>2. Contents(q) = data[q.dest]
      BY <3>1 DEF Contents
    <3>3. PICK i \in DOMAIN q.srcs : Len(data[q.dest]) <= Len(data[q.srcs[i]])
      BY <3>1 DEF StartCommand, Fits
    <3>4. Stored[q.srcs[i]] = data[q.srcs[i]]
      BY <1>7, NamesKeys, StartFacts
    <3>5. \E n \in DOMAIN q.srcs : Len(job'[w].old) <= Len(Stored'[q.srcs[n]])
      BY <1>1, <1>2, <3>2, <3>3, <3>4
    <3>6. Len(job'[w].old) \in Nat /\ Larger(Len(job'[w].old), 0) = Len(job'[w].old)
      BY <1>2 DEF Larger
    <3>7. \A n \in Nat : ~(n < 0)
      OBVIOUS
    <3>8. Spliced(data'[q.dest], job'[w].old, Target(q)', job'[w].o)
      BY <1>2, <1>3, <3>2, <3>6, <3>7 DEF Spliced
    <3>9. length'[q.dest] = NULL \/ length'[q.dest] = Larger(Len(job'[w].old), job'[w].o)
      <4>1. Sized(q.dest)
        BY <3>1, StartFacts
      <4> QED BY <1>2, <1>3, <3>2, <3>6, <4>1 DEF Sized
    <3> QED BY <1>1, <3>5, <3>8, <3>9 DEF DestinationOK
  <2> QED BY <1>1, <1>2, <2>5, <2>6, <2>7, <2>8 DEF BitopOK
<1>8. NotExpended(job[w])'
  <2>1. \A k \in Keys : Stores(q, k) /\ InPlace(q) => k \in Open \/ k \notin files
    BY DEF StartCommand, Expendable, Open
  <2> QED BY <1>1, <1>3, <2>1 DEF NotExpended, Open, Stores, InPlace
<1>9. SetbitOK(job'[w], data'[q.key])
  BY <1>5 DEF SetbitOK
<1> QED BY <1>1, <1>4, <1>5, <1>6, <1>7, <1>8, <1>9 DEF JobIs

\* Bitmap's reply to BITCOUNT: the ones from one byte to another, both inside.
LEMMA RangeReply ==
  ASSUME data \in [Keys -> Seq(Byte)], NEW q \in Requests, q.op = "BITCOUNT",
         Stored[q.key] = data[q.key]
  PROVE  LET f == data[q.key]
             n == Len(f)
         IN  /\ Reversed(q) \/ RangeStart(q, n) > RangeEnd(q, n) \/ n = 0 => Commands!Reply(q) = 0
             /\ ~Reversed(q) =>
                  Commands!Reply(q) = OnesIn(f, RangeStart(q, n), RangeEnd(q, n) + 1)
<1> DEFINE f == data[q.key]
           n == Len(f)
           a == RangeStart(q, n)
           b == RangeEnd(q, n)
           In(o) == Commands!InRange(q, n, o)
<1>1. /\ q.key \in Keys /\ q.start \in Int /\ q.end \in Int \cup {NULL} /\ NULL \notin Int
      /\ f \in Seq(Byte) /\ n \in Nat /\ LastOf(q) \in Int
  BY RequestKinds, BitStoreAssumption DEF BitcountRequest, LastOf
<1>2. Commands!Reply(q) = Cardinality({p \in Ones(f) : In(p[1])})
  <2>1. Commands!Reply(q) =
          Cardinality({p \in Commands!Ones(Stored[q.key]) :
                         Commands!InRange(q, Len(Stored[q.key]), p[1])})
    BY SameCardinality DEF Commands!Reply, Stored
  <2>2. Commands!Ones(f) = Ones(f)
    BY DEF Commands!Ones, Ones
  <2> QED BY <2>1, <2>2
<1>3. \A o \in 0 .. n - 1 : In(o) <=> ~Reversed(q) /\ a <= o /\ o < b + 1
  BY <1>1 DEF Commands!InRange, Commands!Position, Commands!Larger, Reversed, LastOf, RangeStart,
              RangeEnd, LastByte, FromStart, Larger, Smaller
<1>4. \A p \in Ones(f) : p[1] \in 0 .. n - 1
  BY DEF Ones
<1>5. a \in Int /\ b \in Int /\ (n = 0 => b < 0)
  BY <1>1 DEF RangeStart, RangeEnd, LastByte, FromStart, Larger, Smaller
<1> HIDE DEF n, a, b, In
<1>6. CASE Reversed(q)
  <2>1. {p \in Ones(f) : In(p[1])} = {}
    BY <1>3, <1>4, <1>6
  <2>2. Cardinality({}) = 0
    BY FS_EmptySet
  <2> QED BY <1>2, <1>6, <2>1, <2>2
<1>7. CASE ~Reversed(q)
  <2>1. {p \in Ones(f) : In(p[1])} = Part(f, a, b + 1)
    BY <1>3, <1>4, <1>7 DEF Part
  <2>2. Commands!Reply(q) = OnesIn(f, a, b + 1)
    BY <1>2, <2>1 DEF OnesIn
  <2>3. a > b \/ n = 0 => OnesIn(f, a, b + 1) = 0
    <3>1. ASSUME a > b PROVE OnesIn(f, a, b + 1) = 0
      BY <1>1, <1>5, <3>1, NothingThere
    <3>2. ASSUME n = 0 PROVE OnesIn(f, a, b + 1) = 0
      <4>1. b + 1 <= 0 /\ OnesIn(f, a, b + 1) \in Nat
        BY <1>1, <1>5, <3>2, PartFacts
      <4>2. /\ OnesIn(f, a, b + 1) <= PopCount(f)
            /\ PopCount(f) = OnesIn(f, 0, 0) /\ OnesIn(f, 0, 0) = 0
        BY <1>1, <3>2, AllInRange, PartFacts, NothingThere DEF n
      <4> QED BY <4>1, <4>2
    <3> QED BY <3>1, <3>2
  <2> QED BY <1>7, <2>2, <2>3 DEF a, b, n
<1> QED BY <1>6, <1>7 DEF a, b, n

\* The destination of a BITOP when it has been prepared: as it was, or truncated if
\* it is no source.
LEMMA DestinationPrepared ==
  ASSUME NEW w \in Workers, Moves(w), job[w].pc = "key", NEW k \in Keys,
         Stores(job[w].req, k), Prepared(k, 2),
         job'[w].req = job[w].req, job'[w].old = job[w].old, job'[w].o = job[w].o,
         job'[w].pc = "sources", Stored' = Stored
  PROVE  DestinationOK(job[w], data[k], length[k])'
<1> DEFINE j == job[w]
           old == job[w].old
<1>1. TypeInv /\ JobIs(j) /\ StoreOK
  BY DEF Moves, SerialInv, TypeInv
<1>2. j.req \in Requests /\ j.req # NULL /\ j.o = 0 /\ old \in Seq(Byte)
  BY <1>1, ReqFacts DEF TypeInv, JobsOK, JobOK, JobType
<1>3. j.req.op = "BITOP" /\ j.req.dest = k /\ j.req.hook = "NONE"
  BY <1>2, NamesKeys DEF Stores
<1>4. DestinationOK(j, data[k], length[k]) /\ (InPlace(j.req) => k \in Open \/ k \notin files)
  BY <1>1, <1>2, <1>3 DEF JobIs, BitopOK, NotExpended
<1>5. Spliced(data[k], old, Target(j.req), 0)
  BY <1>2, <1>4 DEF DestinationOK
<1>6. Len(old) \in Nat /\ Larger(Len(old), 0) = Len(old)
  BY <1>2 DEF Larger
<1>7. Len(data[k]) = Len(old)
  BY <1>5, <1>6 DEF Spliced
<1>8. Target(j.req)' = Target(j.req)
  BY TargetOfJobStays
<1>9. length'[k] = Len(old)
  <2>1. CASE length[k] # NULL
    BY <1>2, <1>4, <1>6, <2>1 DEF Prepared, DestinationOK
  <2>2. CASE length[k] = NULL /\ k \in files
    BY <1>1, <1>7, <2>2 DEF Prepared, StoreOK
  <2>3. CASE k \notin files
    <3>1. length'[k] = 0 /\ data[k] = <<>> /\ Len(<<>>) = 0
      BY <1>1, <2>3 DEF Prepared, StoreOK
    <3> QED BY <1>7, <3>1
  <2> QED BY <2>1, <2>2, <2>3
<1>10. \E base \in {old, <<>>} :
         (InPlace(j.req) => base = old) /\ Spliced(data'[k], base, Target(j.req), 0)
  <2>1. CASE data' = data
    BY <1>5, <2>1
  <2>2. CASE length[k] = NULL /\ k \in files
    <3>1. data'[k] = <<>> /\ ~InPlace(j.req)
      BY <1>1, <1>4, <2>2 DEF Prepared, StoreOK, Open
    <3>2. Larger(0, 0) = 0 /\ Len(<<>>) = 0 /\ \A n \in Nat : ~(n < 0)
      BY DEF Larger
    <3>3. Spliced(<<>>, <<>>, Target(j.req), 0)
      BY <3>2 DEF Spliced
    <3> QED BY <3>1, <3>3
  <2> QED BY <2>1, <2>2 DEF Prepared
<1>11. \E i \in DOMAIN j.req.srcs : Len(old) <= Len(Stored[j.req.srcs[i]])
  BY <1>4 DEF DestinationOK
<1>12. job'[w].pc # "key" /\ job'[w].o = 0 /\ Larger(Len(old), 0) = Len(old)
  BY <1>2, <1>6
<1> QED BY <1>2, <1>8, <1>9, <1>10, <1>11, <1>12 DEF DestinationOK

\* prepare_file: the destination is as it was, or truncated, and a key not there
\* is empty.
LEMMA PrepareKeySimulates ==
  ASSUME Orderly, WithinLimit, NEW w \in Workers, Moves(w), PrepareKey(w)
  PROVE  Simulates(w)
<1> DEFINE q == job[w].req
<1>1. /\ TypeInv /\ Isolated /\ LengthMatchesSize /\ StoreOK /\ JobIs(job[w])
      /\ job[w].pc = "key" /\ job \in [Workers -> JobType]
  BY DEF Moves, SerialInv, PrepareKey, TypeInv, JobsOK
<1>2. /\ q \in Requests /\ q # NULL /\ Key(q) # NULL
      /\ job[w].dts = <<>> /\ job[w].lens = <<>> /\ job[w].p = <<>> /\ job[w].o = 0
  BY <1>1, ReqFacts DEF TypeInv, JobsOK, JobOK
<1>3. Key(q) \in Keys /\ Key(q) \in KeysOf(q)
  BY <1>2, NamesKeys
<1>4. ASSUME Prepared(Key(q), Mode(q)),
             job' = [job EXCEPT ![w].pc = First(q), ![w].held = {Key(q)}],
             UNCHANGED answer
      PROVE  Simulates(w)
  <2>1. \A k \in Keys : data'[k] = data[k] \/ Stores(q, k)
    <3>1. Mode(q) = 2 => Stores(q, Key(q))
      BY <1>2, RequestKinds DEF Mode, Stores, Key
    <3>2. \A k \in Keys : data'[k] = data[k] \/ (Mode(q) = 2 /\ k = Key(q))
      BY <1>1, <1>3, <1>4, PreparedElsewhere
    <3> QED BY <3>1, <3>2
  <2>2. /\ job'[w].req = q /\ job'[w].old = job[w].old /\ job'[w].pc = First(q)
        /\ job'[w].dts = job[w].dts /\ job'[w].lens = job[w].lens /\ job'[w].p = job[w].p
        /\ job'[w].o = job[w].o /\ job'[w].bits = job[w].bits
    BY <1>1, <1>4 DEF JobType
  <2>3. Stored' = Stored
    BY <1>2, <2>1, <2>2, StoredStays
  <2>4. First(q) \in {"setbit", "getbit", "range", "sources"}
        /\ (q.op = "SETBIT" => First(q) = "setbit") /\ (q.op = "BITOP" => First(q) = "sources")
    BY <1>2, RequestKinds DEF First
  <2>5. q.op = "BITCOUNT" => BitcountOK(job'[w], data'[q.key])
    BY <1>1, <1>2, <2>2, <2>4 DEF JobIs, BitcountOK
  <2>6. ASSUME q.op = "BITOP"
        PROVE  BitopOK(job[w], data[job[w].req.dest], length[job[w].req.dest])'
    <3>1. BitopOK(job[w], data[job[w].req.dest], length[job[w].req.dest]) /\ job[w].bits = 0
      BY <1>1, <1>2, <2>6 DEF JobIs, BitopOK
    <3>2. Target(q)' = Target(q)
      BY <2>2, <2>3, TargetOfJobStays
    <3>3. \A i \in DOMAIN job'[w].p : FALSE
      BY <1>2, <2>2
    <3>4. \A i \in DOMAIN job'[w].lens : FALSE
      BY <1>2, <2>2
    <3>5. \A i \in DOMAIN job'[w].dts : FALSE
      BY <1>2, <2>2
    <3>6. SourcesOK(job[w])'
      BY <2>2, <2>4, <2>6, <3>3, <3>5 DEF SourcesOK, Measuring
    <3>7. LengthsOK(job[w])'
      <4>1. job[w].maxlen = 0 /\ job'[w].maxlen = job[w].maxlen
        BY <1>1, <1>4 DEF TypeInv, JobsOK, JobOK, JobType
      <4> QED BY <2>2, <2>4, <2>6, <3>4, <4>1 DEF LengthsOK
    <3>8. q.hook = "NONE" => DestinationOK(job[w], data[q.dest], length[q.dest])'
      <4>1. Stores(q, q.dest) /\ Key(q) = q.dest /\ Mode(q) = 2
        BY <2>6 DEF Stores, Key, Mode
      <4> QED BY <1>1, <1>3, <1>4, <2>2, <2>3, <2>4, <2>6, <4>1, DestinationPrepared
    <3> QED BY <2>2, <2>6, <3>1, <3>2, <3>6, <3>7, <3>8 DEF BitopOK
  <2>7. SetbitOK(job'[w], data'[q.key])
    BY <2>2, <2>4 DEF SetbitOK
  <2>8. NotExpended(job[w])'
    BY <2>2, <2>4 DEF NotExpended
  <2>9. JobIs(job[w])'
    BY <1>2, <2>2, <2>5, <2>6, <2>7, <2>8 DEF JobIs
  <2> QED BY <1>2, <1>4, <2>2, <2>3, <2>9 DEF Simulates
<1>5. ASSUME Absent(Key(q), Mode(q)), Reply(w, 0)
      PROVE  Simulates(w)
  <2>1. q.op \in {"GETBIT", "BITCOUNT"} /\ Key(q) = q.key
    BY <1>2, <1>5, RequestKinds DEF Absent, Mode, Key
  <2>2. Changes(q) = {} /\ \A k \in Keys : ~Stores(q, k)
    BY <1>2, <2>1, NamesKeys DEF Stores
  <2>3. Stored[q.key] = data[q.key]
    BY <1>1, <1>2, <1>3, <2>1, <2>2, OwnKey
  <2>4. data[q.key] = <<>>
    BY <1>1, <1>3, <1>5, <2>1 DEF Absent, StoreOK
  <2>5. Commands!Reply(q) = 0
    <3>1. CASE q.op = "GETBIT"
      <4>1. q.byte \in Nat
        BY <1>2, <3>1, RequestKinds DEF GetbitRequest
      <4>2. ByteAt(data[q.key], q.byte) = {}
        BY <2>4, <4>1 DEF ByteAt
      <4> QED BY <1>3, <2>1, <2>3, <3>1, <4>2, BitReply
    <3>2. CASE q.op = "BITCOUNT"
      <4>1. Len(data[q.key]) = 0 /\ data \in [Keys -> Seq(Byte)]
        BY <1>1, <2>4 DEF StoreOK
      <4> QED BY <1>2, <2>3, <3>2, <4>1, RangeReply
    <3> QED BY <2>1, <3>1, <3>2
  <2> QED BY <1>1, <1>5, <2>2, <2>5, Executes
<1>6. ASSUME PrepareFails(w, Key(q))
      PROVE  Simulates(w)
  BY <1>1, <1>6, Refuses DEF PrepareFails
<1> QED BY <1>4, <1>5, <1>6 DEF PrepareKey

-----------------------------------------------------------------------------
(* BITCOUNT.                                                               *)

\* BITCOUNT goes on: nothing is stored.
LEMMA CountGoesOn ==
  ASSUME NEW w \in Workers, Moves(w), data' = data, UNCHANGED answer, job[w].req # NULL,
         job'[w].req = job[w].req, job'[w].old = job[w].old,
         job'[w].req.op = "BITCOUNT", job'[w].pc \in {"clamp", "count"},
         BitcountOK(job'[w], data[job[w].req.key])
  PROVE  Simulates(w)
<1>1. Stored' = Stored
  BY StoredStays
<1>2. JobIs(job[w])'
  BY DEF JobIs, NotExpended
<1> QED BY <1>1, <1>2 DEF Simulates

\* BITCOUNT ends with Bitmap's reply.
LEMMA CountEnds ==
  ASSUME WithinLimit, NEW w \in Workers, Moves(w), job[w].pc \notin {"idle", "refused"},
         job[w].req \in Requests, job[w].req.op = "BITCOUNT",
         NEW n, Reply(w, n), n = Commands!Reply(job[w].req)
  PROVE  Simulates(w)
<1>1. Changes(job[w].req) = {} /\ \A k \in Keys : ~Stores(job[w].req, k)
  BY NamesKeys DEF Stores
<1> QED BY <1>1, Executes

\* The defaults of the range.
LEMMA CountRangeSimulates ==
  ASSUME WithinLimit, NEW w \in Workers, Moves(w), CountRange(w)
  PROVE  Simulates(w)
<1> DEFINE q == job[w].req
           f == data[q.key]
           n == Len(f)
<1>1. /\ OnKey(job[w], "BITCOUNT") /\ job \in [Workers -> JobType]
      /\ job[w].pc = "range" /\ data' = data /\ data \in [Keys -> Seq(Byte)]
  BY DEF Moves, SerialInv, CountRange, TypeInv, StoreOK, JobsOK, JobOK
<1>2. /\ q \in Requests /\ q.op = "BITCOUNT" /\ q # NULL /\ f \in Seq(Byte) /\ length[q.key] = n
      /\ Stored[q.key] = f /\ JobIs(job[w])
  BY <1>1, KeyFacts
<1>3. CASE n = 0
  <2>1. Commands!Reply(q) = 0
    BY <1>1, <1>2, <1>3, RangeReply
  <2>2. Reply(w, 0)
    BY <1>2, <1>3 DEF CountRange
  <2> QED BY <1>1, <1>2, <2>1, <2>2, CountEnds
<1>4. CASE n # 0
  <2>1. UNCHANGED answer
    BY <1>2, <1>4 DEF CountRange
  <2>2. job' = [job EXCEPT ![w].pc = "clamp", ![w].start = q.start,
                           ![w].end = IF q.end = NULL THEN n - 1 ELSE q.end]
    BY <1>2, <1>4 DEF CountRange
  <2>3. /\ job'[w].req = q /\ job'[w].old = job[w].old /\ job'[w].bits = job[w].bits
        /\ job'[w].pc = "clamp" /\ job'[w].start = q.start
        /\ job'[w].end = IF q.end = NULL THEN n - 1 ELSE q.end
    BY <1>1, <2>2 DEF JobType
  <2>4. job[w].bits = 0
    BY <1>1, <1>2 DEF JobIs, BitcountOK
  <2>5. f # <<>>
    BY <1>4
  <2>6. BitcountOK(job'[w], f)
    BY <2>3, <2>4, <2>5 DEF BitcountOK
  <2> QED BY <1>1, <1>2, <2>1, <2>3, <2>6, CountGoesOn
<1> QED BY <1>3, <1>4

\* The range within the file, or empty.
LEMMA CountClampSimulates ==
  ASSUME Orderly, WithinLimit, NEW w \in Workers, Moves(w), CountClamp(w)
  PROVE  Simulates(w)
<1> DEFINE q == job[w].req
           f == data[q.key]
           n == Len(f)
           from == RangeStart(q, n)
           to == RangeEnd(q, n)
           empty == Reversed(q) \/ from > to
<1>1. /\ OnKey(job[w], "BITCOUNT") /\ job \in [Workers -> JobType]
      /\ job[w].pc = "clamp" /\ data' = data /\ data \in [Keys -> Seq(Byte)]
  BY DEF Moves, SerialInv, CountClamp, TypeInv, StoreOK, JobsOK, JobOK
<1>2. /\ q \in Requests /\ q.op = "BITCOUNT" /\ q # NULL /\ f \in Seq(Byte) /\ length[q.key] = n
      /\ Stored[q.key] = f /\ JobIs(job[w])
  BY <1>1, KeyFacts
<1>3. /\ q.start \in Int /\ q.end \in Int \cup {NULL} /\ NULL \notin Int
      /\ n \in Nat /\ n # 0 /\ LastOf(q) \in Int
  <2>1. q.start \in Int /\ q.end \in Int \cup {NULL} /\ NULL \notin Int /\ LastOf(q) \in Int
    BY <1>2, RequestKinds, BitStoreAssumption DEF BitcountRequest, LastOf
  <2>2. f # <<>>
    BY <1>1, <1>2 DEF JobIs, BitcountOK
  <2> QED BY <1>2, <2>1, <2>2
<1>4. /\ job[w].start = q.start /\ job[w].bits = 0
      /\ job[w].end = IF q.end = NULL THEN n - 1 ELSE q.end
  BY <1>1, <1>2 DEF JobIs, BitcountOK
<1> HIDE DEF n
<1>5. /\ FromStart(job[w].start, n) = from /\ LastByte(job[w].end, n) = to
      /\ from \in Nat /\ to \in Int /\ to <= n - 1
      /\ (job[w].start < 0 /\ job[w].end < 0 /\ job[w].start > job[w].end) <=> Reversed(q)
  <2>1. CASE q.end = NULL
    <3>1. job[w].end = n - 1 /\ LastOf(q) = -1
      BY <1>4, <2>1 DEF LastOf
    <3> QED BY <1>3, <1>4, <3>1
            DEF RangeStart, RangeEnd, Reversed, LastByte, FromStart, Larger, Smaller
  <2>2. CASE q.end # NULL
    <3>1. job[w].end = q.end /\ LastOf(q) = q.end /\ q.end \in Int
      BY <1>3, <1>4, <2>2 DEF LastOf
    <3> QED BY <1>3, <1>4, <3>1
            DEF RangeStart, RangeEnd, Reversed, LastByte, FromStart, Larger, Smaller
  <2> QED BY <2>1, <2>2
<1> HIDE DEF from, to
<1>6. /\ \/ empty /\ Reply(w, 0)
         \/ ~empty /\ OutOfMemory(w)
         \/ /\ ~empty
            /\ job' = [job EXCEPT ![w].pc = "count", ![w].o = from, ![w].end = to]
            /\ UNCHANGED answer
  BY <1>2, <1>5 DEF CountClamp, n
<1>7. CASE empty /\ Reply(w, 0)
  <2>1. Commands!Reply(q) = 0
    BY <1>1, <1>2, <1>7, RangeReply DEF n, from, to
  <2> QED BY <1>1, <1>2, <1>7, <2>1, CountEnds
<1>8. CASE OutOfMemory(w)
  <2>1. UNCHANGED <<files, data, length>>
    BY DEF CountClamp
  <2> QED BY <1>1, <1>2, <1>8, <2>1, Refuses DEF OutOfMemory
<1>9. CASE /\ ~empty
           /\ job' = [job EXCEPT ![w].pc = "count", ![w].o = from, ![w].end = to]
           /\ UNCHANGED answer
  <2>1. /\ job'[w].req = q /\ job'[w].old = job[w].old /\ job'[w].bits = 0
        /\ job'[w].pc = "count" /\ job'[w].o = from /\ job'[w].end = to
    BY <1>1, <1>4, <1>9 DEF JobType
  <2>2. OnesIn(f, from, from) = 0
    BY <1>2, <1>5, NothingThere
  <2>3. from <= to
    BY <1>5, <1>9
  <2>4. BitcountOK(job'[w], f)
    <3>1. ~Reversed(job'[w].req)
      BY <1>9, <2>1
    <3>2. /\ job'[w].end = RangeEnd(job'[w].req, Len(f))
          /\ job'[w].o = RangeStart(job'[w].req, Len(f))
      BY <2>1 DEF n, from, to
    <3>3. job'[w].o <= job'[w].end /\ job'[w].o <= job'[w].o
      BY <1>5, <2>1, <2>3
    <3>4. job'[w].bits = OnesIn(f, RangeStart(job'[w].req, Len(f)), job'[w].o)
      BY <2>1, <2>2, <3>2
    <3> QED BY <2>1, <3>1, <3>2, <3>3, <3>4 DEF BitcountOK
  <2> QED BY <1>1, <1>2, <1>9, <2>1, <2>4, CountGoesOn
<1> QED BY <1>6, <1>7, <1>8, <1>9

\* A piece, and its ones.
LEMMA CountReadSimulates ==
  ASSUME WithinLimit, NEW w \in Workers, Moves(w), CountRead(w)
  PROVE  Simulates(w)
<1> DEFINE q == job[w].req
           f == data[q.key]
           n == Len(f)
           from == RangeStart(q, n)
           to == RangeEnd(q, n)
           o == job[w].o
           remaining == job[w].end - o + 1
           k == Smaller(remaining, FILE_BUFFER_SIZE)
           s == ReadAt(f, o, k)
<1>1. /\ OnKey(job[w], "BITCOUNT") /\ job \in [Workers -> JobType]
      /\ job[w].pc = "count" /\ data' = data /\ data \in [Keys -> Seq(Byte)]
      /\ o \in Nat /\ job[w].bits \in Nat /\ job[w].end \in Int
  BY DEF Moves, SerialInv, CountRead, TypeInv, StoreOK, JobsOK, JobOK, JobType
<1>2. /\ q \in Requests /\ q.op = "BITCOUNT" /\ q # NULL /\ f \in Seq(Byte) /\ length[q.key] = n
      /\ Stored[q.key] = f /\ JobIs(job[w])
  BY <1>1, KeyFacts
<1>3. /\ q.start \in Int /\ n \in Nat /\ LastOf(q) \in Int
  <2>1. q.start \in Int /\ q.end \in Int \cup {NULL} /\ NULL \notin Int /\ LastOf(q) \in Int
    BY <1>2, RequestKinds, BitStoreAssumption DEF BitcountRequest, LastOf
  <2> QED BY <1>2, <2>1
<1>4. /\ ~Reversed(q) /\ job[w].end = to /\ from <= o /\ o <= to
      /\ job[w].bits = OnesIn(f, from, o)
  BY <1>1, <1>2 DEF JobIs, BitcountOK
<1>5. from \in Int /\ to \in Int /\ to <= n - 1
  <2> HIDE DEF n
  <2> QED BY <1>3 DEF RangeStart, RangeEnd, LastByte, FromStart, Larger, Smaller
<1> HIDE DEF from, to
<1>6. /\ k \in Nat /\ 1 <= k /\ k <= remaining /\ remaining \in Nat /\ o < n /\ k <= n - o
      /\ Smaller(k, n - o) = k
  <2>1. remaining \in Nat /\ 1 <= remaining /\ remaining <= n - o /\ o < n
    <3>1. \A a, b \in Nat, e \in Int : a <= e /\ e <= b - 1
            => /\ e - a + 1 \in Nat /\ 1 <= e - a + 1 /\ e - a + 1 <= b - a /\ a < b
      OBVIOUS
    <3>2. o \in Nat /\ n \in Nat /\ job[w].end \in Int /\ o <= job[w].end /\ job[w].end <= n - 1
      BY <1>1, <1>3, <1>4, <1>5
    <3> HIDE DEF n
    <3> QED BY <3>1, <3>2
  <2>2. k \in Nat /\ 1 <= k /\ k <= remaining
    <3> HIDE DEF remaining
    <3> QED BY <2>1, BitStoreAssumption DEF Smaller
  <2> HIDE DEF k, remaining
  <2>3. k <= n - o
    BY <1>1, <1>3, <2>1, <2>2
  <2>4. n - o \in Nat
    BY <1>1, <1>3, <2>1
  <2>5. Smaller(k, n - o) = k
    BY <2>2, <2>3, <2>4 DEF Smaller
  <2> QED BY <2>1, <2>2, <2>3, <2>5
<1> HIDE DEF k
<1>7. Len(s) = k /\ PopCount(s) = OnesIn(f, o, o + k)
  <2>1. Len(s) = k
    BY <1>1, <1>2, <1>6, PieceRead
  <2>2. PopCount(s) = OnesIn(f, o, o + Len(s))
    BY <1>1, <1>2, <1>6, PieceRead
  <2> HIDE DEF s
  <2> QED BY <2>1, <2>2
<1>8. OnesIn(f, from, o + k) = job[w].bits + PopCount(s)
  <2>1. o + k \in Int /\ o <= o + k /\ o \in Int
    BY <1>1, <1>6
  <2> HIDE DEF o
  <2>2. OnesIn(f, from, o + k) = OnesIn(f, from, o) + OnesIn(f, o, o + k)
    BY <1>2, <1>4, <1>5, <2>1, PartsAdjoin
  <2> QED BY <1>4, <1>7, <2>2
<1> HIDE DEF s
<1>9. /\ \/ k = remaining /\ Reply(w, job[w].bits + PopCount(s))
         \/ /\ k # remaining
            /\ job' = [job EXCEPT ![w].o = @ + k, ![w].bits = job[w].bits + PopCount(s)]
            /\ UNCHANGED answer
  <2>1. k # 0
    BY <1>6
  <2> QED BY <1>7, <2>1 DEF CountRead, read_from, s, k
<1>10. CASE k = remaining /\ Reply(w, job[w].bits + PopCount(s))
  <2>1. o + k = to + 1
    BY <1>1, <1>4, <1>5, <1>10
  <2>2. Commands!Reply(q) = job[w].bits + PopCount(s)
    BY <1>1, <1>2, <1>4, <1>8, <2>1, RangeReply DEF from, to
  <2> QED BY <1>1, <1>2, <1>10, <2>2, CountEnds
<1>11. CASE /\ k # remaining
            /\ job' = [job EXCEPT ![w].o = @ + k, ![w].bits = job[w].bits + PopCount(s)]
            /\ UNCHANGED answer
  <2>1. /\ job'[w].req = q /\ job'[w].old = job[w].old /\ job'[w].pc = "count"
        /\ job'[w].o = o + k /\ job'[w].end = to
        /\ job'[w].bits = job[w].bits + PopCount(s)
    BY <1>1, <1>4, <1>11 DEF JobType
  <2>2. from <= o + k /\ o + k <= to
    BY <1>1, <1>4, <1>5, <1>6, <1>11
  <2>3. BitcountOK(job'[w], f)
    BY <1>4, <1>8, <2>1, <2>2 DEF BitcountOK, from, to
  <2> QED BY <1>1, <1>2, <1>11, <2>1, <2>3, CountGoesOn
<1> QED BY <1>9, <1>10, <1>11

-----------------------------------------------------------------------------
(* BITOP: its sources.                                                     *)

\* Where BITOP is once its destination is prepared.
Opping == {"sources", "read", "op"} \cup Measuring

\* What a command in BITOP's part finds.
LEMMA OpFacts ==
  ASSUME NEW w \in Workers, Moves(w), job[w].pc \in Opping
  PROVE  LET q == job[w].req
             j == job[w]
         IN  /\ JobOK(j) /\ j.held \subseteq Open /\ job \in [Workers -> JobType] /\ j \in JobType
             /\ OnSources(j) /\ StoreOK
             /\ q \in Requests /\ q.op = "BITOP" /\ q # NULL
             /\ BitopOK(j, data[q.dest], length[q.dest])
             /\ q.srcs \in Seq(Keys) /\ q.srcs # <<>> /\ \A i \in DOMAIN q.srcs : q.srcs[i] \in Keys
             /\ Stored \in [Keys -> Seq(Byte)]
             /\ \A k \in KeysOf(q) : k # q.dest => Stored[k] = data[k] /\ Sized(k)
             /\ q.hook # "NONE" => q.dest = NULL
             /\ q.hook = "NONE" =>
                  /\ q.dest \in Keys /\ q.dest \in files /\ q.dest \in Open
                  /\ Stored[q.dest] = j.old /\ j.old \in Seq(Byte)
                  /\ DestinationOK(j, data[q.dest], length[q.dest])
<1> DEFINE q == job[w].req
           j == job[w]
<1>1. /\ TypeInv /\ Isolated /\ LengthMatchesSize /\ JobOK(j) /\ j.held \subseteq Open
      /\ job \in [Workers -> JobType] /\ j \in JobType /\ JobIs(j) /\ StoreOK
  BY DEF Moves, SerialInv, TypeInv, JobsOK
<1>2. OnSources(j)
  BY <1>1 DEF JobOK, Opping
<1>3. q \in Requests /\ q.op = "BITOP"
  BY <1>2 DEF OnSources
<1>4. q # NULL
  BY <1>3, BitStoreAssumption
<1>5. BitopOK(j, data[q.dest], length[q.dest])
  BY <1>1, <1>3, <1>4 DEF JobIs
<1>6. /\ q.srcs \in Seq(Keys) /\ q.srcs # <<>> /\ \A i \in DOMAIN q.srcs : q.srcs[i] \in Keys
      /\ q.hook # "NONE" => q.dest = NULL
  BY <1>3, RequestKinds
<1>7. Stored \in [Keys -> Seq(Byte)]
  BY <1>1, StoredType
<1>8. ASSUME NEW k \in KeysOf(q), k # q.dest
      PROVE  Stored[k] = data[k] /\ Sized(k)
  BY <1>1, <1>4, <1>8, OwnKey DEF Stores
<1>9. ASSUME q.hook = "NONE"
      PROVE  /\ q.dest \in Keys /\ q.dest \in files /\ q.dest \in Open
             /\ Stored[q.dest] = j.old /\ j.old \in Seq(Byte)
             /\ DestinationOK(j, data[q.dest], length[q.dest])
  <2>1. q.dest \in Keys /\ Stores(q, q.dest)
    BY <1>3, <1>9, NamesKeys DEF Stores
  <2>2. q.dest \in Open /\ q.dest \in files
    BY <1>1, <1>2, <1>9, <2>1 DEF OnSources, Open, StoreOK
  <2>3. Stored[q.dest] = j.old /\ j.old \in Seq(Byte)
    BY <1>1, <1>4, <2>1, StoredBy DEF JobType
  <2> QED BY <1>5, <1>9, <2>1, <2>2, <2>3 DEF BitopOK
<1> QED BY <1>1, <1>2, <1>3, <1>4, <1>5, <1>6, <1>7, <1>8, <1>9

\* BITOP goes on: but for its destination no file changes.
LEMMA OpGoesOn ==
  ASSUME NEW w \in Workers, Moves(w), NEW j, job'[w] = j,
         j.req = job[w].req, j.old = job[w].old, j.req # NULL, j.req.op = "BITOP",
         j.pc \in Opping, UNCHANGED answer,
         \A k \in Keys : data'[k] = data[k] \/ k = j.req.dest,
         BitopOK(j, data'[j.req.dest], length'[j.req.dest])
  PROVE  Simulates(w)
<1>1. Stored' = Stored
  BY StoredStays DEF Stores
<1>2. Target(j.req)' = Target(j.req)
  BY <1>1, TargetStays
<1>3. SourcesOK(job[w])' /\ LengthsOK(job[w])'
  BY <1>1 DEF BitopOK, SourcesOK, SourceIs, LengthsOK
<1>4. BitopOK(job[w], data[job[w].req.dest], length[job[w].req.dest])'
  BY <1>1, <1>2, <1>3 DEF BitopOK, DestinationOK
<1>5. JobIs(job[w])'
  BY <1>4 DEF JobIs, NotExpended, Opping, Measuring
<1> QED BY <1>1, <1>5 DEF Simulates

\* What is true of a destination is so for as long as nothing is stored.
LEMMA DestinationKept ==
  ASSUME NEW i, NEW j, NEW f, NEW n, DestinationOK(i, f, n),
         j.req = i.req, j.old = i.old, j.o = i.o, j.pc # "key"
  PROVE  DestinationOK(j, f, n)
BY DEF DestinationOK

\* prepare_files: a source is open, or there is nothing in it.
LEMMA PrepareSourceSimulates ==
  ASSUME Orderly, NEW w \in Workers, Moves(w), PrepareSource(w)
  PROVE  Simulates(w)
<1> DEFINE q == job[w].req
           dts == job[w].dts
           i == Len(q.srcs) - Len(dts)
           k == q.srcs[i]
<1>1. /\ job[w].pc = "sources" /\ job[w].pc \in Opping
      /\ q \in Requests /\ q.op = "BITOP" /\ q # NULL
      /\ job \in [Workers -> JobType] /\ BitopOK(job[w], data[q.dest], length[q.dest])
      /\ q.srcs \in Seq(Keys) /\ StoreOK
  <2>1. job[w].pc = "sources" /\ job[w].pc \in Opping
    BY DEF PrepareSource, Opping
  <2> QED BY <2>1, OpFacts
<1>2. /\ dts \in Seq(Keys \cup {NULL}) /\ Len(dts) < Len(q.srcs) /\ job[w].maxlen = 0
      /\ job[w].lens = <<>> /\ job[w].p = <<>> /\ job[w].o = 0
  BY <1>1, OpFacts DEF JobOK, JobType
<1>3. /\ i \in 1 .. Len(q.srcs) /\ k \in Keys /\ Len(dts) \in Nat /\ Len(q.srcs) \in Nat
  <2>1. Len(dts) \in Nat /\ Len(q.srcs) \in Nat
    BY <1>1, <1>2
  <2>2. \A a, b \in Nat : b < a => a - b \in 1 .. a
    OBVIOUS
  <2>3. i \in 1 .. Len(q.srcs)
    BY <1>2, <2>1, <2>2
  <2> HIDE DEF i
  <2> QED BY <1>1, <2>1, <2>3
<1>4. CASE PrepareFails(w, k)
  BY <1>1, <1>4, Refuses DEF PrepareFails
<1>5. SUFFICES ASSUME ~PrepareFails(w, k)
               PROVE  Simulates(w)
  BY <1>4
<1>6. PICK dt \in {k, NULL} :
        /\ data' = data
        /\ \/ dt = k /\ Prepared(k, 1)
           \/ dt = NULL /\ k \notin files /\ length' = length
        /\ job' = [job EXCEPT ![w].dts = <<dt>> \o @,
                              ![w].held = @ \cup ({dt} \ {NULL}),
                              ![w].pc = IF i = 1 THEN "lengths" ELSE @]
        /\ UNCHANGED answer
  <2> DEFINE Got(dt) == job' = [job EXCEPT ![w].dts = <<dt>> \o @,
                                          ![w].held = @ \cup ({dt} \ {NULL}),
                                          ![w].pc = IF i = 1 THEN "lengths" ELSE @]
  <2>1. UNCHANGED answer /\ ((Prepared(k, 1) /\ Got(k)) \/ (Absent(k, 1) /\ Got(NULL)))
    BY <1>5 DEF PrepareSource
  <2>2. Prepared(k, 1) \/ Absent(k, 1) => data' = data
    <3>1. \A x : Prepared(x, 1) \/ Absent(x, 1) => data' = data
      BY DEF Prepared, Absent
    <3> HIDE DEF k
    <3> QED BY <3>1
  <2>3. Absent(k, 1) => k \notin files /\ length' = length
    BY DEF Absent
  <2> HIDE DEF Got, k
  <2>4. \E dt \in {k, NULL} :
          /\ data' = data
          /\ (dt = k /\ Prepared(k, 1)) \/ (dt = NULL /\ k \notin files /\ length' = length)
          /\ Got(dt)
    BY <2>1, <2>2, <2>3
  <2> QED BY <2>1, <2>4 DEF Got
<1>7. SourceIs(dt, k)
  <2>1. CASE dt = k
    BY <2>1 DEF SourceIs
  <2>2. CASE dt = NULL /\ k \notin files
    <3>1. data[k] = <<>>
      BY <1>1, <1>3, <2>2 DEF StoreOK
    <3>2. k \in KeysOf(q) /\ k # q.dest
      <4>1. k \in KeysOf(q)
        BY <1>1, <1>3, NamesKeys
      <4>2. q.hook = "NONE" => q.dest \in files
        BY <1>1, OpFacts
      <4>3. q.hook # "NONE" => q.dest = NULL /\ NULL \notin Keys
        BY <1>1, OpFacts, BitStoreAssumption
      <4> QED BY <1>3, <2>2, <4>1, <4>2, <4>3
    <3>3. Stored[k] = data[k]
      BY <1>1, <3>2, OpFacts
    <3> QED BY <2>2, <3>1, <3>3 DEF SourceIs
  <2> QED BY <1>6, <2>1, <2>2
<1>8. q.hook = "NONE" => length'[q.dest] = length[q.dest]
  <2> SUFFICES ASSUME q.hook = "NONE"
               PROVE  length'[q.dest] = length[q.dest]
    OBVIOUS
  <2>1. q.dest \in Keys /\ q.dest \in Open /\ StoreOK
    BY <1>1, OpFacts
  <2>2. \A x \in Keys : Prepared(x, 1) => length'[q.dest] = length[q.dest]
    BY <2>1 DEF Prepared, StoreOK, Open
  <2> QED BY <1>3, <1>6, <2>2
<1> DEFINE ds == <<dt>> \o dts
<1>9. /\ Len(ds) = Len(dts) + 1 /\ DOMAIN ds = 1 .. Len(dts) + 1
      /\ ds[1] = dt /\ \A m \in 2 .. Len(dts) + 1 : ds[m] = dts[m - 1]
  BY <1>2, <1>3
<1>10. \A m \in 1 .. Len(dts) : SourceIs(dts[m], q.srcs[Len(q.srcs) - Len(dts) + m])
  <2>1. DOMAIN dts = 1 .. Len(dts)
    BY <1>2
  <2> QED BY <1>1, <2>1 DEF BitopOK, SourcesOK
<1> HIDE DEF ds
<1>11. \A m \in DOMAIN ds : SourceIs(ds[m], q.srcs[Len(q.srcs) - Len(ds) + m])
  <2> SUFFICES ASSUME NEW m \in 1 .. Len(dts) + 1
               PROVE  SourceIs(ds[m], q.srcs[Len(q.srcs) - Len(ds) + m])
    BY <1>9
  <2>1. CASE m = 1
    <3>1. Len(q.srcs) - Len(ds) + m = i
      BY <1>3, <1>9, <2>1
    <3> QED BY <1>7, <1>9, <2>1, <3>1
  <2>2. CASE m # 1
    <3>1. m - 1 \in 1 .. Len(dts) /\ m \in 2 .. Len(dts) + 1
      BY <1>3, <2>2
    <3>2. Len(q.srcs) - Len(ds) + m = Len(q.srcs) - Len(dts) + (m - 1)
      BY <1>3, <1>9, <3>1
    <3> QED BY <1>9, <1>10, <3>1, <3>2
  <2> QED BY <2>1, <2>2
<1>12. i = 1 => Len(ds) = Len(q.srcs) /\ \A m \in DOMAIN ds : Len(q.srcs) - Len(ds) + m = m
  <2> DEFINE n == Len(q.srcs)
             m0 == Len(dts)
  <2>1. n \in Nat /\ m0 \in Nat /\ Len(ds) = m0 + 1 /\ DOMAIN ds = 1 .. m0 + 1 /\ i = n - m0
    BY <1>3, <1>9
  <2> HIDE DEF n, m0, i
  <2>2. i = 1 => Len(ds) = n /\ \A m \in DOMAIN ds : n - Len(ds) + m = m
    BY <2>1
  <2> QED BY <2>2 DEF n
<1> SUFFICES ASSUME NEW j, j = job'[w]
             PROVE  Simulates(w)
  OBVIOUS
<1>13. /\ j.req = q /\ j.old = job[w].old /\ j.o = 0 /\ j.bits = job[w].bits
       /\ j.lens = <<>> /\ j.p = <<>> /\ j.dts = ds /\ j.maxlen = 0
       /\ j.pc = IF i = 1 THEN "lengths" ELSE "sources"
  <2> SUFFICES ASSUME NEW r \in JobType, r = job[w]
               PROVE  /\ j.req = r.req /\ j.old = r.old /\ j.o = 0 /\ j.bits = r.bits
                      /\ j.lens = <<>> /\ j.p = <<>> /\ j.dts = <<dt>> \o r.dts /\ j.maxlen = 0
                      /\ j.pc = IF i = 1 THEN "lengths" ELSE "sources"
    BY <1>1 DEF JobType, ds
  <2>1. r.o = 0 /\ r.lens = <<>> /\ r.p = <<>> /\ r.maxlen = 0 /\ r.pc = "sources"
    BY <1>1, <1>2
  <2>2. j = [r EXCEPT !.dts = <<dt>> \o r.dts, !.held = r.held \cup ({dt} \ {NULL}),
                      !.pc = IF i = 1 THEN "lengths" ELSE r.pc]
    BY <1>1, <1>6
  <2> HIDE DEF i
  <2> QED BY <2>1, <2>2 DEF JobType
<1>14. SourcesOK(j)
  <2>1. \A m \in DOMAIN j.p : FALSE
    BY <1>13
  <2>2. CASE i = 1
    <3>1. j.pc = "lengths" /\ \A m \in DOMAIN ds : SourceIs(ds[m], q.srcs[m])
      BY <1>11, <1>12, <1>13, <2>2
    <3> QED BY <1>12, <1>13, <2>1, <2>2, <3>1 DEF SourcesOK, Measuring
  <2>3. CASE i # 1
    BY <1>11, <1>13, <2>1, <2>3 DEF SourcesOK, Measuring
  <2> QED BY <2>2, <2>3
<1>15. LengthsOK(j)
  <2>1. \A m \in DOMAIN j.lens : FALSE
    BY <1>13
  <2> QED BY <1>13, <2>1 DEF LengthsOK, Leads
<1>16. BitopOK(j, data[q.dest], length'[q.dest])
  <2>1. job[w].bits = 0 /\ (q.hook = "COUNTOP" => job[w].bits = OnesIn(Target(q), 0, job[w].o))
    BY <1>1 DEF BitopOK
  <2>2. q.hook = "NONE" => DestinationOK(j, data[q.dest], length'[q.dest])
    <3>1. q.hook = "NONE" => DestinationOK(job[w], data[q.dest], length'[q.dest])
      BY <1>1, <1>8 DEF BitopOK
    <3> QED BY <1>2, <1>13, <3>1, DestinationKept
  <2> QED BY <1>2, <1>13, <1>14, <1>15, <2>1, <2>2 DEF BitopOK
<1>17. /\ j.req = job[w].req /\ j.old = job[w].old /\ j.req # NULL /\ j.req.op = "BITOP"
       /\ j.pc \in Opping
  BY <1>1, <1>13 DEF Opping, Measuring
<1>18. /\ \A x \in Keys : data'[x] = data[x] \/ x = j.req.dest
       /\ BitopOK(j, data'[j.req.dest], length'[j.req.dest])
  BY <1>6, <1>13, <1>16
<1> HIDE DEF q, k, dts, i
<1> QED BY <1>6, <1>17, <1>18, OpGoesOn

-----------------------------------------------------------------------------
(* BITOP: the lengths of its sources.                                      *)

\* BITOP's destination was no longer than its longest source.
LEMMA OldWithin ==
  ASSUME NEW w \in Workers, Moves(w), job[w].pc \in Opping, job[w].req.hook = "NONE"
  PROVE  Len(job[w].old) \in Nat /\ Len(job[w].old) <= Longest(Lens(job[w].req))
<1> DEFINE q == job[w].req
           L == Lens(q)
<1>1. /\ q \in Requests /\ q.op = "BITOP" /\ Stored \in [Keys -> Seq(Byte)]
      /\ job[w].old \in Seq(Byte)
      /\ \E i \in DOMAIN q.srcs : Len(job[w].old) <= Len(Stored[q.srcs[i]])
  BY OpFacts DEF DestinationOK
<1>2. /\ L \in Seq(Nat) /\ L # <<>> /\ DOMAIN L = DOMAIN q.srcs
      /\ \A i \in DOMAIN q.srcs : L[i] = Len(Stored[q.srcs[i]])
  BY <1>1, TargetIs
<1> HIDE DEF L
<1>3. Longest(L) \in Nat /\ \A i \in DOMAIN q.srcs : L[i] <= Longest(L) /\ L[i] \in Nat
  BY <1>2, LongestIsOne
<1>4. PICK i \in DOMAIN q.srcs : Len(job[w].old) <= L[i]
  BY <1>1, <1>2
<1>5. Len(job[w].old) \in Nat
  BY <1>1
<1> QED BY <1>3, <1>4, <1>5 DEF L

\* All lengths taken are those of the sources.
LEMMA AllLengths ==
  ASSUME Stored \in [Keys -> Seq(Byte)], NEW q \in Requests, q.op = "BITOP",
         NEW lens \in Seq(Nat), Len(lens) = Len(q.srcs),
         \A i \in DOMAIN lens : lens[i] = Len(Stored[q.srcs[i]])
  PROVE  lens = Lens(q)
<1>1. Lens(q) \in Seq(Nat) /\ Len(Lens(q)) = Len(q.srcs)
  BY TargetIs
<1>2. \A i \in DOMAIN q.srcs : Lens(q)[i] = Len(Stored[q.srcs[i]])
  BY TargetIs
<1>3. q.srcs \in Seq(Keys)
  BY RequestKinds
<1>4. DOMAIN lens = 1 .. Len(q.srcs) /\ DOMAIN q.srcs = 1 .. Len(q.srcs)
  BY <1>3
<1>5. \A i \in 1 .. Len(q.srcs) : lens[i] = Lens(q)[i]
  BY <1>2, <1>4
<1> HIDE DEF Lens
<1> QED BY <1>1, <1>5

\* What bitopCommand's first loop finds; a source's length is that of its bitmap.
LEMMA MeasuringFacts ==
  ASSUME NEW w \in Workers, Moves(w), job[w].pc \in Measuring
  PROVE  LET j == job[w]
             q == job[w].req
         IN  /\ j.pc \in Opping /\ JobOK(j) /\ j \in JobType /\ job \in [Workers -> JobType]
             /\ q \in Requests /\ q.op = "BITOP" /\ q # NULL
             /\ Stored \in [Keys -> Seq(Byte)]
             /\ j.p = <<>> /\ j.o = 0 /\ j.bits = 0
             /\ BitopOK(j, data[q.dest], length[q.dest]) /\ LengthsOK(j)
             /\ j.lens \in Seq(Nat) /\ Len(j.lens) \in Nat /\ Len(j.lens) <= Len(j.dts)
             /\ j.maxlen \in Nat /\ j.maxidx \in Nat
             /\ Len(j.dts) = Len(q.srcs) /\ Len(j.dts) \in Nat \ {0}
             /\ DOMAIN j.dts = 1 .. Len(j.dts)
             /\ \A i \in DOMAIN j.dts :
                  /\ Len(Stored[q.srcs[i]]) \in Nat
                  /\ j.dts[i] = NULL => Len(Stored[q.srcs[i]]) = 0
                  /\ j.dts[i] # NULL => length[j.dts[i]] = Len(Stored[q.srcs[i]])
<1> DEFINE j == job[w]
           q == job[w].req
<1>1. j.pc \in Opping
  BY DEF Opping
<1>2. /\ JobOK(j) /\ j \in JobType /\ job \in [Workers -> JobType] /\ OnSources(j) /\ StoreOK
      /\ q \in Requests /\ q.op = "BITOP" /\ q # NULL /\ j.held \subseteq Open
      /\ Stored \in [Keys -> Seq(Byte)] /\ BitopOK(j, data[q.dest], length[q.dest])
      /\ q.srcs \in Seq(Keys) /\ q.srcs # <<>> /\ \A i \in DOMAIN q.srcs : q.srcs[i] \in Keys
  BY <1>1, OpFacts
<1>3. /\ j.p = <<>> /\ j.o = 0 /\ j.lens \in Seq(Nat) /\ j.dts \in Seq(Keys \cup {NULL})
      /\ j.maxlen \in Nat /\ j.maxidx \in Nat /\ Len(j.lens) <= Len(j.dts)
  BY <1>2 DEF JobOK, JobType, OnSources
<1>4. j.bits = 0 /\ LengthsOK(j) /\ SourcesOK(j)
  BY <1>2 DEF BitopOK
<1>5. Len(j.dts) = Len(q.srcs) /\ \A i \in DOMAIN j.dts : SourceIs(j.dts[i], q.srcs[i])
  BY <1>4 DEF SourcesOK
<1>6. /\ DOMAIN j.dts = 1 .. Len(j.dts) /\ Len(j.dts) \in Nat \ {0} /\ Len(j.lens) \in Nat
      /\ DOMAIN q.srcs = DOMAIN j.dts
  BY <1>2, <1>3, <1>5
<1>7. ASSUME NEW i \in DOMAIN j.dts
      PROVE  /\ Len(Stored[q.srcs[i]]) \in Nat
             /\ j.dts[i] = NULL => Len(Stored[q.srcs[i]]) = 0
             /\ j.dts[i] # NULL => length[j.dts[i]] = Len(Stored[q.srcs[i]])
  <2> DEFINE dt == j.dts[i]
             k == q.srcs[i]
  <2>1. k \in Keys /\ k \in KeysOf(q) /\ NULL \notin Keys
    BY <1>2, <1>6, NamesKeys, BitStoreAssumption
  <2>2. SourceIs(dt, k) /\ (dt # NULL => dt \in Open)
    BY <1>2, <1>5 DEF OnSources
  <2>3. Stored[k] \in Seq(Byte) /\ Len(Stored[k]) \in Nat
    BY <1>2, <2>1
  <2>4. dt = NULL => Len(Stored[k]) = 0
    <3>1. Len(<<>>) = 0
      OBVIOUS
    <3> QED BY <2>1, <2>2, <3>1 DEF SourceIs
  <2>5. ASSUME dt # NULL
        PROVE  length[dt] = Len(Stored[k])
    <3>1. dt = k /\ length[k] # NULL
      BY <2>2, <2>5 DEF SourceIs, Open
    <3>2. CASE k # q.dest
      BY <1>1, <2>1, <3>1, <3>2, OpFacts DEF Sized
    <3>3. CASE k = q.dest
      <4>1. q.hook = "NONE"
        BY <1>1, <2>1, <3>3, OpFacts
      <4>2. /\ Stored[k] = j.old /\ DestinationOK(j, data[k], length[k])
        BY <1>1, <3>3, <4>1, OpFacts
      <4>3. length[k] = Larger(Len(j.old), 0)
        BY <1>3, <3>1, <4>2 DEF DestinationOK
      <4> QED BY <2>3, <3>1, <4>2, <4>3 DEF Larger
    <3> QED BY <3>2, <3>3
  <2> QED BY <2>3, <2>4, <2>5
<1> QED BY <1>1, <1>2, <1>3, <1>4, <1>5, <1>6, <1>7

\* The first loop goes on, or ends: nothing changes but what it has of the lengths.
LEMMA MeasuringGoesOn ==
  ASSUME NEW w \in Workers, Moves(w), job[w].pc \in Measuring, NEW j, job'[w] = j,
         j.req = job[w].req, j.old = job[w].old, j.o = job[w].o, j.bits = job[w].bits,
         j.dts = job[w].dts, j.p = job[w].p, j.pc \in Measuring \cup {"read"},
         UNCHANGED <<files, data, length, answer>>, LengthsOK(j)
  PROVE  Simulates(w)
<1> DEFINE q == job[w].req
<1>1. /\ q # NULL /\ q.op = "BITOP" /\ BitopOK(job[w], data[q.dest], length[q.dest])
      /\ job[w].p = <<>> /\ job[w].bits = 0
  BY MeasuringFacts
<1>2. SourcesOK(j)
  <2>1. \A i \in DOMAIN j.p : FALSE
    BY <1>1
  <2>2. SourcesOK(job[w])
    BY <1>1 DEF BitopOK
  <2> QED BY <2>1, <2>2 DEF SourcesOK, Measuring
<1>3. q.hook = "NONE" => DestinationOK(j, data[q.dest], length[q.dest])
  BY <1>1, DestinationKept DEF BitopOK, Measuring
<1>4. BitopOK(j, data[q.dest], length[q.dest])
  BY <1>1, <1>2, <1>3 DEF BitopOK
<1>5. j.pc \in Opping
  BY DEF Opping
<1>6. (\A k \in Keys : data'[k] = data[k]) /\ BitopOK(j, data'[j.req.dest], length'[j.req.dest])
  BY <1>4
<1> HIDE DEF q
<1>7. j.req # NULL /\ j.req.op = "BITOP"
  BY <1>1 DEF q
<1> QED BY <1>5, <1>6, <1>7, OpGoesOn

\* One more length, the right one, that is not compared yet.
LEMMA OneMore ==
  ASSUME NEW w \in Workers, job[w].lens \in Seq(Nat), job[w].maxlen \in Nat,
         Len(Stored[job[w].req.srcs[Len(job[w].lens) + 1]]) \in Nat,
         \A i \in DOMAIN job[w].lens : job[w].lens[i] = Len(Stored[job[w].req.srcs[i]]),
         Leads(job[w].lens, Len(job[w].lens) + 1, job[w].maxidx, job[w].maxlen)
  PROVE  LET n == Len(Stored[job[w].req.srcs[Len(job[w].lens) + 1]])
             l == Append(job[w].lens, n)
         IN  /\ \A i \in DOMAIN l : l[i] = Len(Stored[job[w].req.srcs[i]])
             /\ Leads(l, Len(l), job[w].maxidx, job[w].maxlen)
             /\ n = 0 => Leads(l, Len(l) + 1, job[w].maxidx, job[w].maxlen)
<1> DEFINE lens == job[w].lens
           srcs == job[w].req.srcs
           idx == job[w].maxidx
           max == job[w].maxlen
           n == Len(Stored[srcs[Len(lens) + 1]])
           l == Append(lens, n)
<1>1. /\ l \in Seq(Nat) /\ Len(l) = Len(lens) + 1 /\ Len(lens) \in Nat
      /\ \A m \in DOMAIN l : \/ m = Len(lens) + 1 /\ l[m] = n
                             \/ m \in DOMAIN lens /\ l[m] = lens[m]
      /\ DOMAIN lens = 1 .. Len(lens) /\ DOMAIN l = 1 .. Len(lens) + 1
  BY Appended
<1> HIDE DEF l
<1>2. \A i \in DOMAIN l : l[i] = Len(Stored[srcs[i]])
  BY <1>1
<1>3. max # 0 => idx \in DOMAIN l /\ l[idx] = max
  <2>1. max # 0 => idx \in DOMAIN lens /\ lens[idx] = max
    BY DEF Leads
  <2>2. \A i \in DOMAIN lens : i \in DOMAIN l /\ i # Len(lens) + 1
    <3>1. \A a \in Nat : \A i \in 1 .. a : i \in 1 .. a + 1 /\ i # a + 1
      OBVIOUS
    <3> HIDE DEF lens
    <3> QED BY <1>1, <3>1
  <2> QED BY <1>1, <2>1, <2>2
<1>4. \A i \in DOMAIN l : i < Len(l) => l[i] <= max
  <2>1. \A i \in DOMAIN lens : lens[i] <= max
    BY <1>1 DEF Leads
  <2>2. \A i \in DOMAIN l : i < Len(l) => i # Len(lens) + 1
    BY <1>1
  <2> HIDE DEF lens, max
  <2> QED BY <1>1, <2>1, <2>2
<1>5. n = 0 => \A i \in DOMAIN l : l[i] <= max
  <2>1. (\A i \in DOMAIN lens : lens[i] <= max) /\ max \in Nat
    BY <1>1 DEF Leads
  <2> HIDE DEF lens, max
  <2> QED BY <1>1, <2>1
<1>6. /\ Leads(l, Len(l), idx, max)
      /\ n = 0 => Leads(l, Len(l) + 1, idx, max)
  <2> HIDE DEF n, lens, idx, max
  <2> QED BY <1>3, <1>4, <1>5 DEF Leads
<1> QED BY <1>2, <1>6 DEF l

\* bitopCommand takes the full buffers of a source, or nothing of one not there.
LEMMA TakeTimesSimulates ==
  ASSUME NEW w \in Workers, Moves(w), TakeTimes(w)
  PROVE  Simulates(w)
<1> DEFINE q == job[w].req
           lens == job[w].lens
           dt == job[w].dts[Len(lens) + 1]
<1>1. /\ job[w].pc = "lengths" /\ job[w].pc \in Measuring /\ Len(lens) < Len(job[w].dts)
      /\ UNCHANGED <<files, data, length, answer>>
      /\ job' = IF dt = NULL THEN [job EXCEPT ![w].lens = Append(@, 0)]
                ELSE [job EXCEPT ![w].t = length[dt] \div FILE_BUFFER_SIZE, ![w].pc = "rest"]
  BY DEF TakeTimes, Measuring
<1>2. /\ job \in [Workers -> JobType] /\ LengthsOK(job[w]) /\ lens \in Seq(Nat)
      /\ Len(lens) \in Nat /\ job[w].maxlen \in Nat /\ DOMAIN job[w].dts = 1 .. Len(job[w].dts)
      /\ Len(job[w].dts) \in Nat
  BY <1>1, MeasuringFacts
<1>3. Len(lens) + 1 \in DOMAIN job[w].dts
  BY <1>1, <1>2
<1>4. /\ \A i \in DOMAIN lens : lens[i] = Len(Stored[q.srcs[i]])
      /\ Leads(lens, Len(lens) + 1, job[w].maxidx, job[w].maxlen)
  BY <1>1, <1>2 DEF LengthsOK
<1>5. CASE dt = NULL
  <2> SUFFICES ASSUME NEW l, l = Append(lens, 0)
               PROVE  Simulates(w)
    OBVIOUS
  <2> SUFFICES ASSUME NEW j, j = [job[w] EXCEPT !.lens = l]
               PROVE  Simulates(w)
    OBVIOUS
  <2>1. job'[w] = j
    BY <1>1, <1>2, <1>5
  <2>2. /\ j.req = q /\ j.old = job[w].old /\ j.o = job[w].o /\ j.bits = job[w].bits
        /\ j.dts = job[w].dts /\ j.p = job[w].p /\ j.pc = "lengths" /\ j.lens = l
        /\ j.maxidx = job[w].maxidx /\ j.maxlen = job[w].maxlen
    BY <1>1, <1>2 DEF JobType
  <2>3. 0 = Len(Stored[q.srcs[Len(lens) + 1]])
    BY <1>1, <1>3, <1>5, MeasuringFacts
  <2>4. /\ \A i \in DOMAIN l : l[i] = Len(Stored[q.srcs[i]])
        /\ Leads(l, Len(l) + 1, job[w].maxidx, job[w].maxlen)
    <3> DEFINE m == Len(Stored[q.srcs[Len(lens) + 1]])
    <3>1. m \in Nat /\ m = 0 /\ l = Append(lens, m)
      BY <2>3
    <3>2. /\ \A i \in DOMAIN Append(lens, m) : Append(lens, m)[i] = Len(Stored[q.srcs[i]])
          /\ m = 0 => Leads(Append(lens, m), Len(Append(lens, m)) + 1, job[w].maxidx, job[w].maxlen)
      BY <1>2, <1>4, <3>1, OneMore
    <3> HIDE DEF m
    <3> QED BY <3>1, <3>2
  <2>5. LengthsOK(j)
    BY <2>2, <2>4 DEF LengthsOK
  <2>6. j.pc \in Measuring
    BY <2>2 DEF Measuring
  <2> QED BY <1>1, <2>1, <2>2, <2>5, <2>6, MeasuringGoesOn
<1>6. CASE dt # NULL
  <2> DEFINE t == length[dt] \div FILE_BUFFER_SIZE
  <2>7. job' = [job EXCEPT ![w].t = t, ![w].pc = "rest"]
    BY <1>1, <1>6
  <2>3. length[dt] = Len(Stored[q.srcs[Len(lens) + 1]])
    BY <1>1, <1>3, <1>6, MeasuringFacts
  <2>4. t = Len(Stored[q.srcs[Len(lens) + 1]]) \div FILE_BUFFER_SIZE
    BY <2>3
  <2> HIDE DEF t
  <2> SUFFICES ASSUME NEW j, j = [job[w] EXCEPT !.t = t, !.pc = "rest"]
               PROVE  Simulates(w)
    OBVIOUS
  <2>1. job'[w] = j
    BY <1>2, <2>7
  <2>2. /\ j.req = q /\ j.old = job[w].old /\ j.o = job[w].o /\ j.bits = job[w].bits
        /\ j.dts = job[w].dts /\ j.p = job[w].p /\ j.pc = "rest" /\ j.lens = lens
        /\ j.maxidx = job[w].maxidx /\ j.maxlen = job[w].maxlen /\ j.t = t
    BY <1>1, <1>2 DEF JobType
  <2>5. LengthsOK(j)
    BY <1>4, <2>2, <2>4 DEF LengthsOK
  <2>6. j.pc \in Measuring
    BY <2>2 DEF Measuring
  <2> QED BY <1>1, <2>1, <2>2, <2>5, <2>6, MeasuringGoesOn
<1> QED BY <1>5, <1>6

\* Then the rest: of the same length, as nobody sets bits of a source meanwhile.
LEMMA TakeRestSimulates ==
  ASSUME NEW w \in Workers, Moves(w), TakeRest(w)
  PROVE  Simulates(w)
<1> DEFINE q == job[w].req
           lens == job[w].lens
           n == length[job[w].dts[Len(lens) + 1]]
           len == job[w].t * FILE_BUFFER_SIZE + (n % FILE_BUFFER_SIZE)
           torn == job[w].torn \/ job[w].t # n \div FILE_BUFFER_SIZE
<1>1. /\ job[w].pc = "rest" /\ job[w].pc \in Measuring
      /\ UNCHANGED <<files, data, length, answer>>
      /\ job' = [job EXCEPT ![w].lens = Append(@, len), ![w].torn = torn, ![w].pc = "compare"]
  BY DEF TakeRest, Measuring
<1>2. /\ job \in [Workers -> JobType] /\ LengthsOK(job[w]) /\ lens \in Seq(Nat) /\ JobOK(job[w])
      /\ Len(lens) \in Nat /\ job[w].maxlen \in Nat /\ DOMAIN job[w].dts = 1 .. Len(job[w].dts)
      /\ Len(job[w].dts) \in Nat
  BY <1>1, MeasuringFacts
<1>3. Len(lens) + 1 \in DOMAIN job[w].dts /\ job[w].dts[Len(lens) + 1] # NULL
  <2>1. Len(lens) < Len(job[w].dts) /\ job[w].dts[Len(lens) + 1] # NULL
    BY <1>1, <1>2 DEF JobOK
  <2> QED BY <1>2, <2>1
<1>4. /\ \A i \in DOMAIN lens : lens[i] = Len(Stored[q.srcs[i]])
      /\ Leads(lens, Len(lens) + 1, job[w].maxidx, job[w].maxlen)
      /\ job[w].t = Len(Stored[q.srcs[Len(lens) + 1]]) \div FILE_BUFFER_SIZE
  BY <1>1, <1>2 DEF LengthsOK
<1>5. n = Len(Stored[q.srcs[Len(lens) + 1]]) /\ n \in Nat
  BY <1>1, <1>3, MeasuringFacts
<1> HIDE DEF n
<1>6. len = n
  <2>1. \A a \in Nat, b \in Nat \ {0} : (a \div b) * b + (a % b) = a
    OBVIOUS
  <2> QED BY <1>4, <1>5, <2>1, BitStoreAssumption
<1> HIDE DEF len, torn
<1> SUFFICES ASSUME NEW l, l = Append(lens, n)
             PROVE  Simulates(w)
  OBVIOUS
<1> SUFFICES ASSUME NEW j, j = [job[w] EXCEPT !.lens = l, !.torn = torn, !.pc = "compare"]
             PROVE  Simulates(w)
  OBVIOUS
<1>7. job'[w] = j
  BY <1>1, <1>2, <1>6
<1>8. /\ j.req = q /\ j.old = job[w].old /\ j.o = job[w].o /\ j.bits = job[w].bits
      /\ j.dts = job[w].dts /\ j.p = job[w].p /\ j.pc = "compare" /\ j.lens = l
      /\ j.maxidx = job[w].maxidx /\ j.maxlen = job[w].maxlen
  BY <1>1, <1>2 DEF JobType
<1>9. /\ \A i \in DOMAIN l : l[i] = Len(Stored[q.srcs[i]])
      /\ Leads(l, Len(l), job[w].maxidx, job[w].maxlen)
  BY <1>2, <1>4, <1>5, OneMore
<1>10. LengthsOK(j)
  BY <1>8, <1>9 DEF LengthsOK
<1>11. j.pc \in Measuring
  BY <1>8 DEF Measuring
<1> QED BY <1>1, <1>7, <1>8, <1>10, <1>11, MeasuringGoesOn

\* The longest so far is found, and kept.
LEMMA LongestSimulates ==
  ASSUME NEW w \in Workers, Moves(w), CompareLength(w) \/ TakeLongest(w)
  PROVE  Simulates(w)
<1> DEFINE q == job[w].req
           lens == job[w].lens
           last == Len(lens)
           n == length[job[w].dts[last]]
<1>1. /\ job[w].pc \in {"compare", "longest"} /\ job[w].pc \in Measuring
      /\ UNCHANGED <<files, data, length, answer>>
  BY DEF CompareLength, TakeLongest, Measuring
<1>2. /\ job \in [Workers -> JobType] /\ LengthsOK(job[w]) /\ lens \in Seq(Nat) /\ JobOK(job[w])
      /\ last \in Nat /\ job[w].maxlen \in Nat /\ DOMAIN job[w].dts = 1 .. Len(job[w].dts)
      /\ last <= Len(job[w].dts) /\ Len(job[w].dts) \in Nat
  BY <1>1, MeasuringFacts
<1>3. lens # <<>> /\ job[w].dts[last] # NULL /\ (job[w].pc = "longest" => job[w].maxidx = last)
  BY <1>1, <1>2 DEF JobOK
<1>4. last # 0 /\ last \in DOMAIN lens /\ last \in DOMAIN job[w].dts /\ DOMAIN lens = 1 .. last
  <2>1. last # 0
    BY <1>2, <1>3
  <2> QED BY <1>2, <2>1
<1>5. n = Len(Stored[q.srcs[last]])
  BY <1>1, <1>3, <1>4, MeasuringFacts
<1>6. \A i \in DOMAIN lens : lens[i] = Len(Stored[q.srcs[i]]) /\ lens[i] \in Nat
  BY <1>2 DEF LengthsOK
<1>7. n = lens[last] /\ n \in Nat
  BY <1>4, <1>5, <1>6
<1> HIDE DEF n, lens, last
<1>8. CASE job[w].pc = "compare"
  <2>1. Leads(lens, last, job[w].maxidx, job[w].maxlen)
    BY <1>2, <1>8 DEF LengthsOK, lens, last
  <2>2. job' = IF n > job[w].maxlen THEN [job EXCEPT ![w].maxidx = last, ![w].pc = "longest"]
               ELSE [job EXCEPT ![w].pc = "lengths"]
    BY <1>8 DEF CompareLength, TakeLongest, n, lens, last
  <2>3. CASE n > job[w].maxlen
    <3> SUFFICES ASSUME NEW j, j = [job[w] EXCEPT !.maxidx = last, !.pc = "longest"]
                 PROVE  Simulates(w)
      OBVIOUS
    <3>1. job'[w] = j
      BY <1>2, <2>2, <2>3
    <3>2. /\ j.req = q /\ j.old = job[w].old /\ j.o = job[w].o /\ j.bits = job[w].bits
          /\ j.dts = job[w].dts /\ j.p = job[w].p /\ j.pc = "longest" /\ j.lens = lens
          /\ j.maxidx = last
      BY <1>2 DEF JobType, lens
    <3>3. \A i \in DOMAIN lens : i < last + 1 => lens[i] <= n
      <4>1. ASSUME NEW i \in DOMAIN lens
            PROVE  lens[i] <= n
        <5>1. CASE i = last
          BY <1>7, <5>1
        <5>2. CASE i # last
          <6>1. i < last
            BY <1>2, <1>4, <5>2
          <6>2. lens[i] <= job[w].maxlen
            BY <2>1, <6>1 DEF Leads
          <6> QED BY <1>2, <1>6, <1>7, <2>3, <6>2
        <5> QED BY <5>1, <5>2
      <4> QED BY <4>1
    <3>4. Leads(lens, last + 1, last, lens[last])
      BY <1>4, <1>7, <3>3 DEF Leads
    <3>5. LengthsOK(j)
      BY <1>6, <3>2, <3>4 DEF LengthsOK, last
    <3>6. j.pc \in Measuring
      BY <3>2 DEF Measuring
    <3> QED BY <1>1, <3>1, <3>2, <3>5, <3>6, MeasuringGoesOn
  <2>4. CASE ~(n > job[w].maxlen)
    <3> SUFFICES ASSUME NEW j, j = [job[w] EXCEPT !.pc = "lengths"]
                 PROVE  Simulates(w)
      OBVIOUS
    <3>1. job'[w] = j
      BY <1>2, <2>2, <2>4
    <3>2. /\ j.req = q /\ j.old = job[w].old /\ j.o = job[w].o /\ j.bits = job[w].bits
          /\ j.dts = job[w].dts /\ j.p = job[w].p /\ j.pc = "lengths" /\ j.lens = lens
          /\ j.maxidx = job[w].maxidx /\ j.maxlen = job[w].maxlen
      BY <1>2 DEF JobType, lens
    <3>3. \A i \in DOMAIN lens : i < last + 1 => lens[i] <= job[w].maxlen
      <4>1. ASSUME NEW i \in DOMAIN lens
            PROVE  lens[i] <= job[w].maxlen
        <5>1. CASE i = last
          BY <1>2, <1>7, <2>4, <5>1
        <5>2. CASE i # last
          <6>1. i < last
            BY <1>2, <1>4, <5>2
          <6> QED BY <2>1, <6>1 DEF Leads
        <5> QED BY <5>1, <5>2
      <4> QED BY <4>1
    <3>4. Leads(lens, last + 1, job[w].maxidx, job[w].maxlen)
      BY <2>1, <3>3 DEF Leads
    <3>5. LengthsOK(j)
      BY <1>6, <3>2, <3>4 DEF LengthsOK, last
    <3>6. j.pc \in Measuring
      BY <3>2 DEF Measuring
    <3> QED BY <1>1, <3>1, <3>2, <3>5, <3>6, MeasuringGoesOn
  <2> QED BY <2>3, <2>4
<1>9. CASE job[w].pc = "longest"
  <2>1. Leads(lens, last + 1, last, lens[last])
    BY <1>2, <1>9 DEF LengthsOK, lens, last
  <2>2. job' = [job EXCEPT ![w].maxlen = n, ![w].pc = "lengths"]
    BY <1>9 DEF CompareLength, TakeLongest, n, lens, last
  <2> SUFFICES ASSUME NEW j, j = [job[w] EXCEPT !.maxlen = n, !.pc = "lengths"]
               PROVE  Simulates(w)
    OBVIOUS
  <2>3. job'[w] = j
    BY <1>2, <2>2
  <2>4. /\ j.req = q /\ j.old = job[w].old /\ j.o = job[w].o /\ j.bits = job[w].bits
        /\ j.dts = job[w].dts /\ j.p = job[w].p /\ j.pc = "lengths" /\ j.lens = lens
        /\ j.maxidx = last /\ j.maxlen = lens[last]
    BY <1>2, <1>3, <1>7, <1>9 DEF JobType, lens
  <2>5. LengthsOK(j)
    BY <1>6, <2>1, <2>4 DEF LengthsOK, last
  <2>6. j.pc \in Measuring
    BY <2>4 DEF Measuring
  <2> QED BY <1>1, <2>3, <2>4, <2>5, <2>6, MeasuringGoesOn
<1> QED BY <1>1, <1>8, <1>9

-----------------------------------------------------------------------------
(* BITOP: its result, if there is nothing in the sources.                  *)

\* Contents of the same bytes.
LEMMA SameContents ==
  ASSUME NEW f \in Seq(Byte), NEW g \in Seq(Byte), Len(f) = Len(g),
         \A n \in Nat : ByteAt(f, n) = ByteAt(g, n)
  PROVE  f = g
<1>1. ASSUME NEW i \in 1 .. Len(f)
      PROVE  f[i] = g[i]
  <2>1. i - 1 \in Nat /\ i - 1 < Len(f) /\ (i - 1) + 1 = i
    OBVIOUS
  <2>2. ByteAt(f, i - 1) = f[i] /\ ByteAt(g, i - 1) = g[i]
    BY <2>1 DEF ByteAt
  <2> QED BY <2>1, <2>2
<1> QED BY <1>1

\* Bitmap's reply to BITOP, and what it stores.
LEMMA ResultReply ==
  ASSUME Stored \in [Keys -> Seq(Byte)], NEW q \in Requests, q.op = "BITOP"
  PROVE  /\ Commands!Reply(q) =
              IF q.hook = "COUNTOP" THEN PopCount(Target(q)) ELSE Longest(Lens(q))
         /\ q.hook = "NONE" => q.dest \in Keys /\ Commands!After(q)[q.dest] = Target(q)
<1>1. Commands!OpResult(q) = Target(q) /\ Len(Target(q)) = Longest(Lens(q))
  BY TargetIs, TargetIsResult
<1>2. Commands!PopCount(Target(q)) = PopCount(Target(q))
  BY SameCardinality DEF Commands!PopCount, PopCount, Commands!Ones, Ones
<1>3. Commands!Reply(q) =
        IF q.hook = "COUNTOP" THEN PopCount(Target(q)) ELSE Longest(Lens(q))
  BY <1>1, <1>2 DEF Commands!Reply
<1>4. ASSUME q.hook = "NONE"
      PROVE  q.dest \in Keys /\ Commands!After(q)[q.dest] = Target(q)
  <2>1. q.dest \in Keys
    BY <1>4, NamesKeys
  <2>2. Commands!After(q) = [Stored EXCEPT ![q.dest] = Target(q)]
    BY <1>1, <1>4 DEF Commands!After, Stored
  <2> QED BY <2>1, <2>2
<1> QED BY <1>3, <1>4

\* A reply to BITOP that is Bitmap's, with its result in the destination.
LEMMA ResultStored ==
  ASSUME WithinLimit, NEW w \in Workers, Moves(w), job[w].pc \in Opping,
         NEW n, Reply(w, n),
         LET q == job[w].req
         IN  /\ n = IF q.hook = "COUNTOP" THEN PopCount(Target(q)) ELSE Longest(Lens(q))
             /\ q.hook = "NONE" => data'[q.dest] = Target(q)
             /\ \A k \in Keys : Stores(q, k) => Sized(k)'
  PROVE  Simulates(w)
<1> DEFINE q == job[w].req
<1>1. q \in Requests /\ q.op = "BITOP" /\ Stored \in [Keys -> Seq(Byte)]
  BY OpFacts
<1>2. n = Commands!Reply(q)
  BY <1>1, ResultReply
<1>3. \A k \in Changes(q) : k = q.dest /\ q.hook = "NONE"
  BY <1>1, NamesKeys, RequestKinds
<1>5. \A k \in Changes(q) : data'[k] = Commands!After(q)[k]
  BY <1>1, <1>3, ResultReply
<1>6. job[w].pc \notin {"idle", "refused"}
  BY DEF Opping, Measuring
<1> QED BY <1>2, <1>5, <1>6, Executes

\* If the sources are empty, so is the result.
LEMMA EmptyResult ==
  ASSUME NEW w \in Workers, Moves(w), job[w].pc = "lengths", Longest(Lens(job[w].req)) = 0
  PROVE  LET q == job[w].req
         IN  /\ PopCount(Target(q)) = 0
             /\ q.hook = "NONE" => data[q.dest] = Target(q)
             /\ \A k \in Keys : Stores(q, k) => Sized(k)
<1> DEFINE q == job[w].req
<1>1. job[w].pc \in Opping /\ job[w].pc \in Measuring /\ job[w].pc # "key"
  BY DEF Opping, Measuring
<1>2. q \in Requests /\ q.op = "BITOP" /\ Stored \in [Keys -> Seq(Byte)] /\ job[w].o = 0
  BY <1>1, MeasuringFacts
<1>3. Target(q) \in Seq(Byte) /\ Len(Target(q)) = 0
  BY <1>2, TargetIs
<1>4. PopCount(Target(q)) = 0
  <2> SUFFICES ASSUME NEW f, f = Target(q)
               PROVE  PopCount(f) = 0
    OBVIOUS
  <2> QED BY <1>3, NoOnes
<1>5. ASSUME q.hook = "NONE"
      PROVE  data[q.dest] = Target(q) /\ Sized(q.dest)
  <2>1. /\ q.dest \in Keys /\ job[w].old \in Seq(Byte) /\ data[q.dest] \in Seq(Byte)
        /\ DestinationOK(job[w], data[q.dest], length[q.dest])
    BY <1>1, <1>5, OpFacts DEF StoreOK
  <2>2. Len(job[w].old) = 0
    <3>1. Len(job[w].old) \in Nat /\ Len(job[w].old) <= 0
      BY <1>1, <1>5, OldWithin
    <3> QED BY <3>1
  <2>3. Larger(0, 0) = 0 /\ Len(<<>>) = 0
    BY DEF Larger
  <2>4. Len(data[q.dest]) = 0
    BY <1>2, <2>1, <2>2, <2>3 DEF DestinationOK, Spliced
  <2>5. length[q.dest] = NULL \/ length[q.dest] = 0
    BY <1>2, <2>1, <2>2, <2>3 DEF DestinationOK
  <2>6. data[q.dest] = Target(q)
    <3> SUFFICES ASSUME NEW f \in Seq(Byte), NEW g \in Seq(Byte), Len(f) = 0, Len(g) = 0
                 PROVE  f = g
      BY <1>3, <2>1, <2>4
    <3> QED OBVIOUS
  <2> QED BY <2>4, <2>5, <2>6 DEF Sized
<1>6. \A k \in Keys : Stores(q, k) => k = q.dest /\ q.hook = "NONE"
  BY <1>2, NamesKeys DEF Stores
<1> QED BY <1>4, <1>5, <1>6

\* The rounds begin, of as many bytes as the longest source has, unless there are
\* none or no memory.
LEMMA StartRoundsSimulates ==
  ASSUME Orderly, WithinLimit, NEW w \in Workers, Moves(w), StartRounds(w)
  PROVE  Simulates(w)
<1> DEFINE q == job[w].req
           L == Longest(job[w].lens)
<1>1. /\ job[w].pc = "lengths" /\ job[w].pc \in Measuring /\ job[w].pc \in Opping
      /\ Len(job[w].lens) = Len(job[w].dts)
      /\ UNCHANGED <<files, data, length>>
  BY DEF StartRounds, Measuring, Opping
<1>2. /\ q \in Requests /\ q.op = "BITOP" /\ q # NULL /\ Stored \in [Keys -> Seq(Byte)]
      /\ job[w].lens \in Seq(Nat) /\ Len(job[w].lens) = Len(q.srcs) /\ LengthsOK(job[w])
      /\ Len(job[w].lens) \in Nat \ {0} /\ job[w].maxlen \in Nat
      /\ job \in [Workers -> JobType] /\ job[w].o = 0
  BY <1>1, MeasuringFacts
<1>3. job[w].lens = Lens(q)
  BY <1>2, AllLengths DEF LengthsOK
<1>4. job[w].lens # <<>> /\ DOMAIN job[w].lens = 1 .. Len(job[w].lens)
  BY <1>2
<1>5. /\ L \in Nat /\ \E i \in DOMAIN job[w].lens : job[w].lens[i] = L
      /\ \A i \in DOMAIN job[w].lens : job[w].lens[i] <= L /\ job[w].lens[i] \in Nat
  <2>1. /\ L \in Nat /\ \E i \in DOMAIN job[w].lens : L = job[w].lens[i]
        /\ \A i \in DOMAIN job[w].lens : job[w].lens[i] <= L
    BY <1>2, <1>4, LongestIsOne
  <2>2. \A i \in DOMAIN job[w].lens : job[w].lens[i] \in Nat
    BY <1>2
  <2> HIDE DEF L
  <2> QED BY <2>1, <2>2
<1>6. Leads(job[w].lens, Len(job[w].lens) + 1, job[w].maxidx, job[w].maxlen)
  BY <1>1, <1>2 DEF LengthsOK
<1>7. \A i \in DOMAIN job[w].lens : job[w].lens[i] <= job[w].maxlen
  <2>1. \A i \in DOMAIN job[w].lens : i < Len(job[w].lens) + 1
    BY <1>2, <1>4
  <2> QED BY <1>6, <2>1 DEF Leads
<1>8. L <= job[w].maxlen
  BY <1>5, <1>7
<1>9. job[w].maxlen # 0 => OpLength(w) = job[w].maxlen /\ L = job[w].maxlen
  <2> SUFFICES ASSUME job[w].maxlen # 0
               PROVE  OpLength(w) = job[w].maxlen /\ L = job[w].maxlen
    OBVIOUS
  <2>1. job[w].maxidx \in DOMAIN job[w].lens /\ job[w].lens[job[w].maxidx] = job[w].maxlen
    BY <1>6 DEF Leads
  <2>2. job[w].maxlen <= L
    BY <1>5, <2>1
  <2> QED BY <1>2, <1>5, <1>8, <2>1, <2>2 DEF OpLength
<1>10. CASE job[w].maxlen = 0 /\ Reply(w, 0)
  <2>1. L = 0
    BY <1>5, <1>8, <1>10
  <2>2. Longest(Lens(q)) = 0
    BY <1>3, <2>1
  <2>3. /\ PopCount(Target(q)) = 0
        /\ q.hook = "NONE" => data'[q.dest] = Target(q)
        /\ \A k \in Keys : Stores(q, k) => Sized(k)'
    BY <1>1, <2>2, EmptyResult DEF Sized
  <2> QED BY <1>1, <1>10, <2>2, <2>3, ResultStored
<1>11. CASE OutOfMemory(w)
  BY <1>1, <1>2, <1>11, Refuses DEF OutOfMemory
<1>12. CASE job[w].maxlen # 0 /\ Goto(w, "read") /\ UNCHANGED answer
  <2> SUFFICES ASSUME NEW j, j = [job[w] EXCEPT !.pc = "read"]
               PROVE  Simulates(w)
    OBVIOUS
  <2>1. job'[w] = j
    BY <1>2, <1>12 DEF Goto
  <2>2. /\ j.req = q /\ j.old = job[w].old /\ j.o = job[w].o /\ j.bits = job[w].bits
        /\ j.dts = job[w].dts /\ j.p = job[w].p /\ j.pc = "read" /\ j.lens = job[w].lens
        /\ j.maxidx = job[w].maxidx
    BY <1>2 DEF JobType
  <2>3. LengthsOK(j)
    <3>1. j.lens[j.maxidx] = Longest(j.lens) /\ j.o < Longest(j.lens)
      BY <1>2, <1>5, <1>9, <1>12, <2>2 DEF OpLength
    <3>2. \A i \in DOMAIN j.lens : j.lens[i] = Len(Stored[j.req.srcs[i]])
      BY <1>2, <2>2 DEF LengthsOK
    <3> QED BY <2>2, <3>1, <3>2 DEF LengthsOK
  <2> QED BY <1>1, <1>12, <2>1, <2>2, <2>3, MeasuringGoesOn
<1> QED BY <1>2, <1>9, <1>10, <1>11, <1>12 DEF StartRounds

-----------------------------------------------------------------------------
(* BITOP: a round reads its sources.                                       *)

\* The rounds of BITOP find its sources open or empty.
LEMMA RoundFacts ==
  ASSUME NEW w \in Workers, Moves(w), job[w].pc \in {"read", "op"}
  PROVE  LET q == job[w].req
             j == job[w]
         IN  /\ j.pc \in Opping
             /\ j.o \in Nat /\ j.bits \in Nat /\ j.p \in Seq(Seq(Byte))
             /\ j.dts \in Seq(Keys \cup {NULL}) /\ j.lens \in Seq(Nat)
             /\ Len(j.dts) = Len(q.srcs) /\ Len(j.lens) = Len(q.srcs)
             /\ j.lens = Lens(q) /\ OpLength(w) = Longest(Lens(q))
             /\ j.o < Longest(Lens(q)) /\ Longest(Lens(q)) \in Nat
             /\ DOMAIN q.srcs = 1 .. Len(q.srcs) /\ Len(q.srcs) \in Nat
             /\ SourcesOK(j) /\ LengthsOK(j)
<1> DEFINE q == job[w].req
           j == job[w]
<1>1. j.pc \in Opping
  BY DEF Opping
<1>2. /\ JobOK(j) /\ j \in JobType /\ BitopOK(j, data[q.dest], length[q.dest])
      /\ q \in Requests /\ q.op = "BITOP" /\ q.srcs \in Seq(Keys) /\ q.srcs # <<>>
      /\ Stored \in [Keys -> Seq(Byte)]
  BY <1>1, OpFacts
<1>3. /\ j.o \in Nat /\ j.bits \in Nat /\ j.p \in Seq(Seq(Byte))
      /\ j.dts \in Seq(Keys \cup {NULL}) /\ j.lens \in Seq(Nat)
  BY <1>2 DEF JobType
<1>4. SourcesOK(j) /\ LengthsOK(j)
  BY <1>2 DEF BitopOK
<1>5. /\ Len(j.dts) = Len(q.srcs)
      /\ \A i \in DOMAIN j.lens : j.lens[i] = Len(Stored[q.srcs[i]])
      /\ j.lens[j.maxidx] = Longest(j.lens) /\ j.o < Longest(j.lens)
  BY <1>4 DEF SourcesOK, LengthsOK
<1>6. Len(j.lens) = Len(q.srcs)
  BY <1>2, <1>5 DEF JobOK
<1>7. j.lens = Lens(q)
  BY <1>2, <1>3, <1>5, <1>6, AllLengths
<1>8. Longest(Lens(q)) \in Nat
  BY <1>2, TargetIs
<1>9. DOMAIN q.srcs = 1 .. Len(q.srcs) /\ Len(q.srcs) \in Nat
  BY <1>2
<1> QED BY <1>1, <1>3, <1>4, <1>5, <1>6, <1>7, <1>8, <1>9 DEF OpLength

\* From where BITOP has got to, an open source is as it was when BITOP began, the
\* destination among them.
LEMMA SourceBytes ==
  ASSUME NEW w \in Workers, Moves(w), job[w].pc \in {"read", "op"},
         NEW i \in DOMAIN job[w].req.srcs, job[w].dts[i] # NULL
  PROVE  /\ job[w].dts[i] = job[w].req.srcs[i]
         /\ \A n \in Nat : job[w].o <= n =>
              ByteAt(data[job[w].req.srcs[i]], n) = ByteAt(Stored[job[w].req.srcs[i]], n)
<1> DEFINE q == job[w].req
           k == q.srcs[i]
<1>1. /\ job[w].pc \in Opping /\ q \in Requests /\ q.op = "BITOP"
      /\ q.srcs \in Seq(Keys) /\ NULL \notin Keys /\ SourcesOK(job[w])
      /\ job[w].o \in Nat /\ Len(job[w].dts) = Len(q.srcs)
      /\ job[w].dts \in Seq(Keys \cup {NULL})
  BY OpFacts, RoundFacts, BitStoreAssumption
<1>2. k \in Keys /\ i \in DOMAIN job[w].dts /\ k \in KeysOf(q)
  BY <1>1, NamesKeys
<1>3. job[w].dts[i] = k
  BY <1>1, <1>2 DEF SourcesOK, SourceIs
<1>4. CASE k # q.dest
  BY <1>1, <1>2, <1>3, <1>4, OpFacts
<1>5. CASE k = q.dest
  <2>1. /\ q.hook = "NONE" /\ Stored[q.dest] = job[w].old
        /\ DestinationOK(job[w], data[q.dest], length[q.dest])
    BY <1>1, <1>2, <1>5, OpFacts
  <2>2. InPlace(q)
    BY <1>5 DEF InPlace
  <2>3. Spliced(data[q.dest], job[w].old, Target(q), job[w].o)
    BY <2>1, <2>2 DEF DestinationOK
  <2>4. \A n \in Nat : ByteAt(data[k], n) =
          IF n < job[w].o THEN ByteAt(Target(q), n) ELSE ByteAt(job[w].old, n)
    BY <1>5, <2>3 DEF Spliced
  <2>5. \A n \in Nat : job[w].o <= n => ~(n < job[w].o)
    BY <1>1
  <2> QED BY <1>3, <1>5, <2>1, <2>4, <2>5
<1> QED BY <1>4, <1>5

\* A round's piece of a source, with the zeros of its buffer behind the end.
LEMMA PieceOfSource ==
  ASSUME NEW g \in Seq(Byte), NEW o \in Nat, NEW buf \in Seq(Byte),
         Len(buf) <= Round(Len(g), o),
         \A n \in Nat : n < Round(Len(g), o) => ByteAt(buf, n) = ByteAt(g, o + n),
         NEW n \in Nat, n < FILE_BUFFER_SIZE
  PROVE  ByteAt(buf, n) = ByteAt(g, o + n)
<1>1. CASE ~(n < Round(Len(g), o))
  <2>1. ~(n < Len(buf)) /\ ~(o + n < Len(g))
    <3>1. Len(buf) \in Nat /\ Len(g) \in Nat
      OBVIOUS
    <3> QED BY <1>1, <3>1, BitStoreAssumption DEF Round, Larger, Smaller
  <2> QED BY <2>1 DEF ByteAt
<1> QED BY <1>1

\* A round's read of a source.
LEMMA OpReadSimulates ==
  ASSUME NEW w \in Workers, Moves(w), OpRead(w)
  PROVE  Simulates(w)
<1> DEFINE q == job[w].req
           p == job[w].p
           i == Len(p) + 1
           dt == job[w].dts[i]
           k == q.srcs[i]
           o == job[w].o
           size == Round(job[w].lens[i], o)
<1>1. /\ job[w].pc = "read" /\ job[w].pc \in Opping /\ q \in Requests /\ q.op = "BITOP" /\ q # NULL
      /\ job \in [Workers -> JobType] /\ BitopOK(job[w], data[q.dest], length[q.dest])
      /\ JobOK(job[w])
      /\ Stored \in [Keys -> Seq(Byte)] /\ data \in [Keys -> Seq(Byte)] /\ q.srcs \in Seq(Keys)
  <2>1. job[w].pc = "read" /\ job[w].pc \in Opping
    BY DEF OpRead, Opping
  <2> QED BY <2>1, OpFacts DEF StoreOK
<1>2. /\ o \in Nat /\ p \in Seq(Seq(Byte)) /\ job[w].lens \in Seq(Nat)
      /\ Len(job[w].dts) = Len(q.srcs) /\ Len(job[w].lens) = Len(q.srcs)
      /\ DOMAIN q.srcs = 1 .. Len(q.srcs) /\ Len(q.srcs) \in Nat
      /\ SourcesOK(job[w]) /\ LengthsOK(job[w])
  BY <1>1, RoundFacts
<1>3. Len(p) < Len(q.srcs) /\ Len(p) \in Nat
  BY <1>1, <1>2 DEF JobOK
<1>4. i \in DOMAIN q.srcs /\ i \in DOMAIN job[w].lens /\ i \in DOMAIN job[w].dts /\ i \in Nat
  <2>1. DOMAIN job[w].dts = 1 .. Len(q.srcs) /\ DOMAIN job[w].lens = 1 .. Len(q.srcs)
    BY <1>1, <1>2, RoundFacts
  <2> QED BY <1>2, <1>3, <2>1
<1>5. /\ k \in Keys /\ Stored[k] \in Seq(Byte) /\ data[k] \in Seq(Byte)
      /\ job[w].lens[i] = Len(Stored[k]) /\ size \in Nat
  <2> HIDE DEF i
  <2>1. k \in Keys /\ job[w].lens[i] \in Nat
    <3>1. k \in Keys
      BY <1>1, <1>4
    <3>2. job[w].lens[i] \in Nat
      BY <1>2, <1>4
    <3> QED BY <3>1, <3>2
  <2>2. job[w].lens[i] = Len(Stored[k])
    BY <1>2, <1>4 DEF LengthsOK
  <2> QED BY <1>1, <1>2, <2>1, <2>2, RoundIsNat
<1>6. SourceIs(dt, k)
  BY <1>1, <1>2, <1>4 DEF SourcesOK
<1> SUFFICES ASSUME NEW buf, buf = IF size = 0 THEN <<>> ELSE read_from(dt, size, o)
             PROVE  Simulates(w)
  OBVIOUS
<1>7. /\ job' = [job EXCEPT ![w].p = Append(@, buf),
                            ![w].pc = IF i = Len(job[w].dts) THEN "op" ELSE @]
      /\ UNCHANGED <<answer, data, length>>
  BY DEF OpRead
<1> HIDE DEF i, dt, k, o, size
<1>8. /\ buf \in Seq(Byte) /\ Len(buf) <= size
      /\ \A n \in Nat : n < size => ByteAt(buf, n) = ByteAt(Stored[k], o + n)
  <2>1. CASE size = 0
    <3>1. buf \in Seq(Byte) /\ Len(buf) = 0
      <4>1. <<>> \in Seq(Byte) /\ Len(<<>>) = 0
        OBVIOUS
      <4> QED BY <2>1, <4>1
    <3>2. \A n \in Nat : ~(n < size)
      BY <2>1
    <3> QED BY <2>1, <3>1, <3>2
  <2>2. CASE size # 0
    <3>1. dt # NULL
      <4>1. ASSUME dt = NULL PROVE Len(Stored[k]) = 0
        <5>1. NULL # k
          BY <1>5, BitStoreAssumption
        <5>2. Stored[k] = <<>>
          BY <1>6, <4>1, <5>1 DEF SourceIs
        <5> QED BY <5>2
      <4> QED BY <1>2, <1>5, <2>2, <4>1, RoundIsNat DEF size
    <3>2. dt = k /\ \A n \in Nat : o <= n => ByteAt(data[k], n) = ByteAt(Stored[k], n)
      BY <1>1, <1>4, <3>1, SourceBytes DEF dt, k, o
    <3>3. buf = Buffer(data[k], o, size)
      BY <2>2, <3>2 DEF read_from, Buffer
    <3>4. /\ buf \in Seq(Byte) /\ Len(buf) <= size
          /\ \A n \in Nat : n < size => ByteAt(buf, n) = ByteAt(data[k], o + n)
      BY <1>2, <1>5, <3>3, BufferRead DEF o
    <3>5. \A n \in Nat : o + n \in Nat /\ o <= o + n
      BY <1>2 DEF o
    <3> QED BY <3>2, <3>4, <3>5
  <2> QED BY <2>1, <2>2
<1>9. \A n \in Nat : n < FILE_BUFFER_SIZE => ByteAt(buf, n) = ByteAt(Stored[k], o + n)
  <2>1. size = Round(Len(Stored[k]), o) /\ o \in Nat
    BY <1>2, <1>5 DEF size, o
  <2> SUFFICES ASSUME NEW g, g = Stored[k], NEW n \in Nat, n < FILE_BUFFER_SIZE
               PROVE  ByteAt(buf, n) = ByteAt(g, o + n)
    OBVIOUS
  <2>2. /\ g \in Seq(Byte) /\ Len(buf) <= Round(Len(g), o)
        /\ \A m \in Nat : m < Round(Len(g), o) => ByteAt(buf, m) = ByteAt(g, o + m)
    BY <1>5, <1>8, <2>1
  <2>3. buf \in Seq(Byte)
    BY <1>8
  <2>4. o \in Nat
    BY <2>1
  <2> HIDE DEF o
  <2>5. \A b \in Seq(Byte), x \in Nat :
           /\ Len(b) <= Round(Len(g), x)
           /\ \A m \in Nat : m < Round(Len(g), x) => ByteAt(b, m) = ByteAt(g, x + m)
           => ByteAt(b, n) = ByteAt(g, x + n)
    BY <2>2, PieceOfSource
  <2> QED BY <2>2, <2>3, <2>4, <2>5
<1> DEFINE ps == Append(p, buf)
<1>10. /\ DOMAIN ps = 1 .. i /\ Len(ps) = i /\ ps[i] = buf
       /\ \A m \in 1 .. i : m # i => m \in DOMAIN p /\ ps[m] = p[m]
  <2>1. i = Len(p) + 1
    BY DEF i
  <2>2. p \in Seq(Seq(Byte)) /\ buf \in Seq(Byte)
    BY <1>2, <1>3, <1>8
  <2> SUFFICES ASSUME NEW s \in Seq(Seq(Byte)), s = p
               PROVE  /\ DOMAIN ps = 1 .. i /\ Len(ps) = i /\ ps[i] = buf
                      /\ \A m \in 1 .. i : m # i => m \in DOMAIN p /\ ps[m] = p[m]
    BY <2>2
  <2>3. ps = Append(s, buf)
    OBVIOUS
  <2> HIDE DEF ps, p
  <2> QED BY <2>1, <2>2, <2>3
<1> HIDE DEF ps
<1>11. \A m \in DOMAIN ps : \A n \in Nat :
         n < FILE_BUFFER_SIZE => ByteAt(ps[m], n) = ByteAt(Stored[q.srcs[m]], o + n)
  <2>1. \A m \in DOMAIN p : \A n \in Nat :
          n < FILE_BUFFER_SIZE => ByteAt(p[m], n) = ByteAt(Stored[q.srcs[m]], o + n)
    BY <1>2 DEF SourcesOK, o
  <2> SUFFICES ASSUME NEW m \in 1 .. i, NEW n \in Nat, n < FILE_BUFFER_SIZE
               PROVE  ByteAt(ps[m], n) = ByteAt(Stored[q.srcs[m]], o + n)
    BY <1>10
  <2>2. CASE m = i
    BY <1>9, <1>10, <2>2 DEF k
  <2>3. CASE m # i
    BY <1>10, <2>1, <2>3
  <2> QED BY <2>2, <2>3
<1> DEFINE pc == IF i = Len(job[w].dts) THEN "op" ELSE "read"
<1>12. job'[w] = [job[w] EXCEPT !.p = ps, !.pc = pc]
  BY <1>1, <1>7 DEF ps
<1> HIDE DEF pc
<1> SUFFICES ASSUME NEW j, j = [job[w] EXCEPT !.p = ps, !.pc = pc]
             PROVE  Simulates(w)
  OBVIOUS
<1>13. /\ j.req = q /\ j.old = job[w].old /\ j.o = o /\ j.bits = job[w].bits
       /\ j.lens = job[w].lens /\ j.p = ps /\ j.dts = job[w].dts /\ j.maxidx = job[w].maxidx
       /\ j.pc = pc
  BY <1>1 DEF JobType, o
<1>14. j.pc \in {"read", "op"} /\ (j.pc = "op" => Len(ps) = Len(job[w].dts))
  BY <1>10, <1>13 DEF pc
<1>15. SourcesOK(j)
  <2>1. \A m \in DOMAIN job[w].dts : SourceIs(job[w].dts[m], q.srcs[m])
    BY <1>1, <1>2 DEF SourcesOK
  <2> QED BY <1>2, <1>11, <1>13, <1>14, <2>1 DEF SourcesOK, o, Measuring
<1>16. LengthsOK(j)
  BY <1>1, <1>2, <1>13, <1>14 DEF LengthsOK, o
<1>17. BitopOK(j, data[q.dest], length[q.dest])
  <2>1. j.pc # "key" /\ j.pc \notin {"key", "sources"} \cup Measuring
    BY <1>14 DEF Measuring
  <2>2. q.hook = "NONE" => DestinationOK(j, data[q.dest], length[q.dest])
    BY <1>1, <1>13, <2>1, DestinationKept DEF BitopOK, o
  <2> QED BY <1>1, <1>13, <1>15, <1>16, <2>1, <2>2 DEF BitopOK, o
<1>18. /\ j.req = job[w].req /\ j.req # NULL /\ j.req.op = "BITOP" /\ j.pc \in Opping
       /\ \A x \in Keys : data'[x] = data[x] \/ x = j.req.dest
       /\ BitopOK(j, data'[j.req.dest], length'[j.req.dest])
  BY <1>1, <1>7, <1>13, <1>14, <1>17 DEF Opping
<1> QED BY <1>7, <1>12, <1>13, <1>18, OpGoesOn

-----------------------------------------------------------------------------
(* BITOP: a round is stored or counted.                                    *)

\* A round computes the next bytes of the result.
LEMMA ResultIs ==
  ASSUME NEW w \in Workers, Moves(w), OpCombine(w)
  PROVE  LET q == job[w].req
             o == job[w].o
         IN  /\ Size(w) \in Nat /\ o + Size(w) \in Nat
             /\ o + Size(w) <= Longest(Lens(q))
             /\ Result(w) \in Seq(Byte) /\ Len(Result(w)) = Size(w)
             /\ \A n \in Nat : n < Size(w) => ByteAt(Result(w), n) = ByteAt(Target(q), o + n)
<1> DEFINE q == job[w].req
           o == job[w].o
           p == job[w].p
           L == Longest(Lens(q))
           size == Size(w)
<1>1. /\ job[w].pc = "op" /\ q \in Requests /\ q.op = "BITOP" /\ TypeInv
      /\ Stored \in [Keys -> Seq(Byte)]
  <2>1. job[w].pc = "op" /\ job[w].pc \in Opping
    BY DEF OpCombine, Opping
  <2> QED BY <2>1, OpFacts DEF Moves, SerialInv
<1>2. /\ o \in Nat /\ L \in Nat /\ o < L /\ OpLength(w) = L /\ p \in Seq(Seq(Byte))
      /\ Len(job[w].dts) = Len(q.srcs) /\ SourcesOK(job[w])
      /\ DOMAIN q.srcs = 1 .. Len(q.srcs)
  BY <1>1, RoundFacts
<1>3. size \in Nat /\ Result(w) \in Seq(Byte)
  BY <1>1, ResultFacts
<1>4. size = Round(L, o)
  BY <1>2 DEF Size
<1>5. o + size <= L /\ o + size \in Nat
  <2> HIDE DEF size, o, L
  <2>1. o + size <= L
    BY <1>2, <1>4, RoundWithin
  <2> QED BY <1>2, <1>3, <2>1
<1>6. size <= FILE_BUFFER_SIZE
  <2> HIDE DEF size, o, L
  <2> QED BY <1>2, <1>4, BitStoreAssumption DEF Round, Larger, Smaller
<1>7. Result(w) = [j \in 1 .. size |-> ResultByte(w, j)]
  BY DEF Result
<1>8. DOMAIN p = DOMAIN q.srcs
  <2>1. Len(p) = Len(q.srcs)
    BY <1>1, <1>2 DEF SourcesOK
  <2> QED BY <1>2, <2>1
<1>9. \A i \in DOMAIN p : \A n \in Nat :
        n < FILE_BUFFER_SIZE => ByteAt(p[i], n) = ByteAt(Stored[q.srcs[i]], o + n)
  BY <1>2 DEF SourcesOK
<1> HIDE DEF size
<1>10. Len(Result(w)) = size
  BY <1>3, <1>7
<1>11. ASSUME NEW n \in Nat, n < size
       PROVE  ByteAt(Result(w), n) = ByteAt(Target(q), o + n)
  <2>1. n + 1 \in 1 .. size /\ n + 1 - 1 = n
    BY <1>3, <1>11
  <2>2. n < FILE_BUFFER_SIZE /\ o + n \in Nat /\ o + n < L
    <3> HIDE DEF o, L
    <3> QED BY <1>2, <1>3, <1>5, <1>6, <1>11, BitStoreAssumption
  <2>3. ByteAt(Result(w), n) = ResultByte(w, n + 1)
    BY <1>3, <1>7, <1>10, <1>11, <2>1 DEF ByteAt
  <2>4. ResultByte(w, n + 1) = Combine(q.option, [i \in DOMAIN p |-> ByteAt(p[i], n)])
    BY <2>1 DEF ResultByte
  <2>5. [i \in DOMAIN p |-> ByteAt(p[i], n)]
          = [i \in DOMAIN q.srcs |-> ByteAt(Stored[q.srcs[i]], o + n)]
    BY <1>8, <1>9, <2>2
  <2>6. ByteAt(Target(q), o + n) =
          Combine(q.option, [i \in DOMAIN q.srcs |-> ByteAt(Stored[q.srcs[i]], o + n)])
    BY <1>1, <1>2, <2>2, TargetIs
  <2> QED BY <2>3, <2>4, <2>5, <2>6
<1> QED BY <1>3, <1>5, <1>10, <1>11 DEF size

\* fwrite of a round's bytes, behind those stored so far.
LEMMA StoresOn ==
  ASSUME NEW f \in Seq(Byte), NEW old \in Seq(Byte), NEW res \in Seq(Byte), NEW T,
         NEW o \in Nat, Spliced(f, old, T, o),
         \A n \in Nat : n < Len(res) => ByteAt(res, n) = ByteAt(T, o + n)
  PROVE  Spliced(WriteAt(f, o, res), old, T, o + Len(res))
<1> DEFINE size == Len(res)
           a == Len(old)
<1>1. size \in Nat /\ a \in Nat
  OBVIOUS
<1>2. Len(WriteAt(f, o, res)) = Larger(a, o + size)
  <2>1. Len(WriteAt(f, o, res)) = Larger(Larger(a, o), o + size)
    BY Written DEF Spliced
  <2> HIDE DEF size, a
  <2> QED BY <1>1, <2>1 DEF Larger
<1>3. ASSUME NEW n \in Nat
      PROVE  ByteAt(WriteAt(f, o, res), n) =
               IF n < o + size THEN ByteAt(T, n) ELSE ByteAt(old, n)
  <2>1. ByteAt(WriteAt(f, o, res), n) =
          IF o <= n /\ n < o + size THEN res[n - o + 1] ELSE ByteAt(f, n)
    BY Written
  <2>2. CASE o <= n /\ n < o + size
    <3>1. n - o \in Nat /\ n - o < size /\ o + (n - o) = n
      <4> HIDE DEF size
      <4> QED BY <1>1, <2>2
    <3>2. ByteAt(res, n - o) = res[n - o + 1]
      BY <3>1 DEF ByteAt
    <3>3. ByteAt(res, n - o) = ByteAt(T, o + (n - o))
      BY <3>1
    <3> QED BY <2>1, <2>2, <3>1, <3>2, <3>3
  <2>3. CASE n < o
    <3>1. ~(o <= n) /\ n < o + size
      <4> HIDE DEF size
      <4> QED BY <1>1, <2>3
    <3> QED BY <2>1, <2>3, <3>1 DEF Spliced
  <2>4. CASE ~(n < o) /\ ~(n < o + size)
    BY <2>1, <2>4 DEF Spliced
  <2>5. ~(n < o) => o <= n
    OBVIOUS
  <2> QED BY <2>2, <2>3, <2>4, <2>5
<1> QED BY <1>2, <1>3 DEF Spliced

\* The ones of a round's bytes, with those counted so far.
LEMMA CountsOn ==
  ASSUME NEW T \in Seq(Byte), NEW res \in Seq(Byte), NEW o \in Nat,
         \A n \in Nat : n < Len(res) => ByteAt(res, n) = ByteAt(T, o + n)
  PROVE  OnesIn(T, 0, o) + PopCount(res) = OnesIn(T, 0, o + Len(res))
<1> DEFINE size == Len(res)
<1>1. size \in Nat /\ size \in Int /\ 0 \in Int /\ o \in Int /\ o + size \in Int
      /\ 0 <= o /\ o <= o + size
  <2>1. size \in Nat
    OBVIOUS
  <2> HIDE DEF size
  <2> QED BY <2>1
<1>2. OnesIn(res, 0, size) = OnesIn(T, o, o + size)
  BY <1>1, SameBytes
<1>3. OnesIn(res, 0, size) = PopCount(res)
  BY <1>1, AllInRange
<1>4. OnesIn(T, 0, o + size) = OnesIn(T, 0, o) + OnesIn(T, o, o + size)
  <2> HIDE DEF size
  <2> QED BY <1>1, PartsAdjoin
<1> QED BY <1>2, <1>3, <1>4

\* A round: the next bytes of the result are stored, behind what was there if the
\* destination is a source.
LEMMA RoundStored ==
  ASSUME NEW w \in Workers, Moves(w), OpCombine(w), job[w].req.hook = "NONE"
  PROVE  LET q == job[w].req
             o == job[w].o + Size(w)
         IN  /\ \E base \in {job[w].old, <<>>} :
                  /\ InPlace(q) => base = job[w].old
                  /\ Spliced(data'[q.dest], base, Target(q), o)
             /\ length'[q.dest] = Larger(Len(job[w].old), o)
             /\ \A k \in Keys : k # q.dest => data'[k] = data[k]
<1> DEFINE q == job[w].req
           a == job[w].o
           T == Target(q)
           f == data[q.dest]
           n == length[q.dest]
           old == job[w].old
<1>1. job[w].pc = "op" /\ job[w].pc \in {"read", "op"} /\ job[w].pc \in Opping
  BY DEF OpCombine, Opping
<1>2. /\ TypeInv /\ StoreOK /\ q \in Requests /\ q.op = "BITOP" /\ Stored \in [Keys -> Seq(Byte)]
      /\ q.dest \in Keys /\ q.dest \in Open /\ old \in Seq(Byte) /\ DestinationOK(job[w], f, n)
  BY <1>1, OpFacts DEF Moves, SerialInv
<1>3. f \in Seq(Byte) /\ T \in Seq(Byte) /\ a \in Nat
  BY <1>1, <1>2, TargetIs, RoundFacts DEF StoreOK
<1>4. /\ Size(w) \in Nat /\ Result(w) \in Seq(Byte) /\ Len(Result(w)) = Size(w)
      /\ \A m \in Nat : m < Size(w) => ByteAt(Result(w), m) = ByteAt(T, a + m)
  BY ResultIs
<1>5. write_to(q.dest, Result(w), a)
  BY <1>2, ResultFacts
<1>6. /\ \A k \in Keys : k # q.dest => data'[k] = data[k]
      /\ data'[q.dest] = WriteAt(f, a, Result(w))
  BY <1>2, <1>3, <1>4, <1>5, WrittenStore
<1>7. length'[q.dest] = Larger(Len(old), a + Size(w))
  <2>1. length'[q.dest] = Larger(n, a + Size(w))
    BY <1>2, <1>4, <1>5 DEF write_to, StoreOK
  <2>2. n = Larger(Len(old), a)
    BY <1>1, <1>2 DEF DestinationOK, Open
  <2>3. \A x, y, z \in Nat : Larger(Larger(x, y), y + z) = Larger(x, y + z)
    BY DEF Larger
  <2>4. Len(old) \in Nat
    BY <1>2
  <2> QED BY <1>3, <1>4, <2>1, <2>2, <2>3, <2>4
<1>8. PICK base \in {old, <<>>} : (InPlace(q) => base = old) /\ Spliced(f, base, T, a)
  BY <1>2 DEF DestinationOK
<1>9. Spliced(data'[q.dest], base, T, a + Size(w))
  <2>1. base \in Seq(Byte)
    <3>1. <<>> \in Seq(Byte) /\ old \in Seq(Byte)
      BY <1>2
    <3> HIDE DEF old
    <3> QED BY <3>1
  <2> SUFFICES ASSUME NEW r, r = Result(w)
               PROVE  Spliced(WriteAt(f, a, r), base, T, a + Len(r))
    BY <1>4, <1>6
  <2> HIDE DEF T, f, a
  <2> QED BY <1>3, <1>4, <1>8, <2>1, StoresOn
<1> QED BY <1>6, <1>7, <1>8, <1>9

\* Or they are counted.
LEMMA RoundCounted ==
  ASSUME NEW w \in Workers, Moves(w), OpCombine(w), job[w].req.hook = "COUNTOP"
  PROVE  job[w].bits + PopCount(Result(w)) = OnesIn(Target(job[w].req), 0, job[w].o + Size(w))
<1> DEFINE q == job[w].req
           o == job[w].o + Size(w)
           T == Target(q)
<1>1. job[w].pc = "op" /\ job[w].pc \in {"read", "op"} /\ job[w].pc \in Opping
  BY DEF OpCombine, Opping
<1>2. /\ q \in Requests /\ q.op = "BITOP" /\ Stored \in [Keys -> Seq(Byte)]
      /\ BitopOK(job[w], data[q.dest], length[q.dest])
  BY <1>1, OpFacts
<1>3. /\ Result(w) \in Seq(Byte) /\ Len(Result(w)) = Size(w)
      /\ \A n \in Nat : n < Size(w) => ByteAt(Result(w), n) = ByteAt(T, job[w].o + n)
  BY ResultIs
<1>4. job[w].bits = OnesIn(T, 0, job[w].o)
  BY <1>2 DEF BitopOK
<1>5. T \in Seq(Byte) /\ job[w].o \in Nat
  BY <1>1, <1>2, TargetIs, RoundFacts
<1> HIDE DEF T
<1>6. OnesIn(T, 0, job[w].o) + PopCount(Result(w)) = OnesIn(T, 0, job[w].o + Len(Result(w)))
  BY <1>3, <1>5, CountsOn
<1>7. o = job[w].o + Len(Result(w))
  BY <1>3
<1> HIDE DEF o
<1>8. job[w].bits + PopCount(Result(w)) = OnesIn(T, 0, o)
  BY <1>4, <1>6, <1>7
<1> QED BY <1>8 DEF T, o

-----------------------------------------------------------------------------
(* BITOP: the last round.                                                  *)

\* Nothing of the old contents is left behind.
LEMMA SplicedAll ==
  ASSUME NEW f \in Seq(Byte), NEW old \in Seq(Byte), NEW new \in Seq(Byte),
         Len(old) <= Len(new), Spliced(f, old, new, Len(new))
  PROVE  f = new
<1>1. Len(old) \in Nat /\ Len(new) \in Nat
  OBVIOUS
<1>2. Len(f) = Len(new)
  BY <1>1 DEF Spliced, Larger
<1>3. ASSUME NEW n \in Nat, ~(n < Len(new))
      PROVE  ByteAt(f, n) = ByteAt(new, n)
  <2>1. ~(n < Len(old))
    BY <1>1, <1>3
  <2> QED BY <1>2, <1>3, <2>1 DEF ByteAt
<1>4. \A n \in Nat : ByteAt(f, n) = ByteAt(new, n)
  BY <1>3 DEF Spliced
<1> QED BY <1>2, <1>4, SameContents

\* The rounds of BITOP, of which the last ends the command: the destination is the
\* result, or all of it is counted.
LEMMA OpCombineSimulates ==
  ASSUME WithinLimit, NEW w \in Workers, Moves(w), OpCombine(w)
  PROVE  Simulates(w)
<1> DEFINE q == job[w].req
           o == job[w].o + Size(w)
           L == Longest(Lens(q))
           T == Target(q)
           bits == job[w].bits + IF q.hook = "COUNTOP" THEN PopCount(Result(w)) ELSE 0
<1>1. job[w].pc = "op" /\ job[w].pc \in {"read", "op"} /\ job[w].pc \in Opping
  BY DEF OpCombine, Opping
<1>2. /\ q \in Requests /\ q.op = "BITOP" /\ q # NULL /\ TypeInv /\ TypeInv'
      /\ job \in [Workers -> JobType] /\ BitopOK(job[w], data[q.dest], length[q.dest])
      /\ Stored \in [Keys -> Seq(Byte)]
      /\ (q.hook # "NONE" => q.dest = NULL) /\ NULL \notin Keys
      /\ (q.hook = "NONE" => q.dest \in Keys /\ job[w].old \in Seq(Byte))
  BY <1>1, OpFacts, BitStoreAssumption DEF Moves, SerialInv
<1>3. o \in Nat /\ L \in Nat /\ OpLength(w) = L /\ SourcesOK(job[w]) /\ LengthsOK(job[w])
      /\ job[w].lens = Lens(q) /\ T \in Seq(Byte) /\ Len(T) = L
  BY <1>1, <1>2, RoundFacts, ResultIs, TargetIs
<1>4. \/ o = L /\ Reply(w, IF q.hook = "COUNTOP" THEN bits ELSE IF o > INT_MAX THEN ERR ELSE o)
      \/ /\ o < L /\ UNCHANGED answer
         /\ job' = [job EXCEPT ![w].o = o, ![w].bits = bits, ![w].p = <<>>, ![w].pc = "read"]
  BY <1>3 DEF OpCombine, Result, ResultByte, Size
<1>5. q.hook = "COUNTOP" => bits = OnesIn(T, 0, o)
  BY RoundCounted
<1>6. q.hook = "NONE" =>
        /\ \E base \in {job[w].old, <<>>} :
             (InPlace(q) => base = job[w].old) /\ Spliced(data'[q.dest], base, T, o)
        /\ length'[q.dest] = Larger(Len(job[w].old), o)
        /\ \A k \in Keys : k # q.dest => data'[k] = data[k]
  BY RoundStored
<1>7. q.hook # "NONE" => UNCHANGED <<files, data, length>>
  BY <1>2, ResultFacts
<1> HIDE DEF bits, o, T, L
<1>8. CASE o = L /\ Reply(w, IF q.hook = "COUNTOP" THEN bits ELSE IF o > INT_MAX THEN ERR ELSE o)
  <2>1. o <= INT_MAX
    <3>1. Limited /\ FILE_SIZE_LIMIT <= INT_MAX /\ FILE_SIZE_LIMIT \in Nat /\ INT_MAX \in Nat
      BY BitStoreAssumption DEF Moves, SerialInv, WithinLimit
    <3>2. /\ \E i \in DOMAIN Lens(q) : L = Lens(q)[i]
          /\ DOMAIN Lens(q) = DOMAIN q.srcs
          /\ \A i \in DOMAIN q.srcs : Lens(q)[i] = Len(Stored[q.srcs[i]])
      BY <1>2, TargetIs, LongestIsOne DEF L
    <3>3. \A i \in DOMAIN q.srcs : q.srcs[i] \in Keys
      BY <1>1, OpFacts
    <3>4. L <= FILE_SIZE_LIMIT
      BY <3>1, <3>2, <3>3 DEF Limited
    <3> QED BY <1>3, <1>8, <3>1, <3>4
  <2>2. q.hook = "COUNTOP" => bits = PopCount(T)
    <3>1. L \in Int /\ Len(T) <= L
      BY <1>3
    <3>2. OnesIn(T, 0, L) = PopCount(T)
      BY <1>3, <3>1, AllInRange
    <3> QED BY <1>5, <1>8, <3>2
  <2>3. ASSUME q.hook = "NONE"
        PROVE  data'[q.dest] = T /\ length'[q.dest] = Len(data'[q.dest])
    <3>1. Len(job[w].old) \in Nat /\ Len(job[w].old) <= L
      BY <1>1, <2>3, OldWithin DEF L
    <3>2. PICK base \in {job[w].old, <<>>} : Spliced(data'[q.dest], base, T, L)
      BY <1>6, <1>8, <2>3
    <3>3. base \in Seq(Byte) /\ Len(base) <= Len(T)
      <4>1. <<>> \in Seq(Byte) /\ Len(<<>>) = 0
        OBVIOUS
      <4>2. 0 <= L
        BY <1>3
      <4>3. CASE base = job[w].old
        BY <1>2, <1>3, <2>3, <3>1, <4>3
      <4>4. CASE base = <<>>
        BY <1>3, <4>1, <4>2, <4>4
      <4> QED BY <3>2, <4>3, <4>4
    <3>4. data'[q.dest] \in Seq(Byte)
      BY <1>2, <2>3 DEF TypeInv, StoreOK
    <3>5. data'[q.dest] = T
      BY <1>3, <3>2, <3>3, <3>4, SplicedAll
    <3>6. length'[q.dest] = L
      <4>1. \A a, b \in Nat : a <= b => Larger(a, b) = b
        BY DEF Larger
      <4> QED BY <1>3, <1>6, <1>8, <2>3, <3>1, <4>1
    <3> QED BY <1>3, <3>5, <3>6
  <2>4. \A k \in Keys : Stores(q, k) => Sized(k)'
    <3>1. \A k \in Keys : Stores(q, k) => k = q.dest /\ q.hook = "NONE"
      BY <1>2, NamesKeys DEF Stores
    <3> QED BY <2>3, <3>1 DEF Sized
  <2>5. Reply(w, IF q.hook = "COUNTOP" THEN PopCount(T) ELSE L)
    BY <1>3, <1>8, <2>1, <2>2, BitStoreAssumption
  <2> QED BY <1>1, <2>3, <2>4, <2>5, ResultStored DEF T, L
<1>9. CASE /\ o < L /\ UNCHANGED answer
           /\ job' = [job EXCEPT ![w].o = o, ![w].bits = bits, ![w].p = <<>>, ![w].pc = "read"]
  <2>1. job'[w] = [job[w] EXCEPT !.o = o, !.bits = bits, !.p = <<>>, !.pc = "read"]
    BY <1>2, <1>9
  <2> SUFFICES ASSUME NEW j, j = [job[w] EXCEPT !.o = o, !.bits = bits, !.p = <<>>, !.pc = "read"]
               PROVE  Simulates(w)
    OBVIOUS
  <2>2. /\ j.req = q /\ j.old = job[w].old /\ j.o = o /\ j.bits = bits
        /\ j.lens = job[w].lens /\ j.p = <<>> /\ j.dts = job[w].dts /\ j.maxidx = job[w].maxidx
        /\ j.pc = "read"
    BY <1>2 DEF JobType
  <2>3. SourcesOK(j)
    <3>1. \A m \in DOMAIN j.p : FALSE
      BY <2>2
    <3>2. /\ Len(job[w].dts) = Len(q.srcs)
          /\ \A m \in DOMAIN job[w].dts : SourceIs(job[w].dts[m], q.srcs[m])
      BY <1>1, <1>3 DEF SourcesOK
    <3> QED BY <2>2, <3>1, <3>2 DEF SourcesOK, Measuring
  <2>4. LengthsOK(j)
    <3>1. /\ \A i \in DOMAIN job[w].lens : job[w].lens[i] = Len(Stored[q.srcs[i]])
          /\ job[w].lens[job[w].maxidx] = Longest(job[w].lens)
      BY <1>1, <1>3 DEF LengthsOK
    <3>2. j.o < Longest(j.lens)
      BY <1>3, <1>9, <2>2 DEF L
    <3> QED BY <2>2, <3>1, <3>2 DEF LengthsOK
  <2>5. q.hook = "NONE" => DestinationOK(j, data'[q.dest], length'[q.dest])
    <3>1. q.hook = "NONE" => \E i \in DOMAIN q.srcs : Len(job[w].old) <= Len(Stored[q.srcs[i]])
      BY <1>2 DEF BitopOK, DestinationOK
    <3> QED BY <1>6, <2>2, <3>1 DEF DestinationOK, T
  <2>6. BitopOK(j, data'[q.dest], length'[q.dest])
    BY <1>5, <2>2, <2>3, <2>4, <2>5 DEF BitopOK, T, Measuring
  <2>7. /\ job'[w] = j /\ j.req = job[w].req /\ j.old = job[w].old /\ j.req # NULL /\ j.req.op = "BITOP" /\ j.pc \in Opping
        /\ \A k \in Keys : data'[k] = data[k] \/ k = j.req.dest
        /\ BitopOK(j, data'[j.req.dest], length'[j.req.dest])
    BY <1>2, <1>6, <1>7, <2>1, <2>2, <2>6 DEF Opping
  <2> HIDE DEF q
  <2> QED BY <1>9, <2>7, OpGoesOn
<1> QED BY <1>4, <1>8, <1>9

-----------------------------------------------------------------------------
(* Every step.                                                             *)

\* A worker takes a command, or does what it does for it.
LEMMA WorkerSimulates ==
  ASSUME Orderly, WithinLimit, NEW w \in Workers, Moves(w)
  PROVE  (\E q \in Requests : StartCommand(w, q)) \/ Simulates(w)
<1>1. Worker(w)
  BY DEF Moves
<1> QED BY <1>1, RefuseSimulates, PrepareKeySimulates, SetbitReadSimulates, SetbitWriteSimulates,
           GetbitSimulates, CountRangeSimulates, CountClampSimulates, CountReadSimulates,
           PrepareSourceSimulates, TakeTimesSimulates, TakeRestSimulates, LongestSimulates,
           StartRoundsSimulates, OpReadSimulates, OpCombineSimulates
    DEF Worker

\* Its step is one of Bitmap, or unseen; the bitmaps it does not change stay; where
\* it has stored a result, the length is right again.
LEMMA WorkerSeen ==
  ASSUME Orderly, WithinLimit, NEW w \in Workers, Moves(w)
  PROVE  LET q == job[w].req
         IN  /\ JobIs(job[w])'
             /\ [Commands!Next]_(Commands!vars)
             /\ \A k \in Keys : q = NULL \/ k \notin Changes(q) => Stored'[k] = Stored[k]
             /\ \A k \in Keys : q # NULL /\ Stores(q, k) => Sized(k)' \/ Storing(k)'
<1> DEFINE q == job[w].req
<1>1. CASE \E r \in Requests : StartCommand(w, r)
  <2>1. JobIs(job[w])' /\ Commands!Next /\ Stored' = Stored /\ q = NULL
    BY <1>1, StartSimulates, StartFacts
  <2>2. ASSUME NEW k \in Keys
        PROVE  Stored'[k] = Stored[k]
    BY <2>1
  <2>3. ASSUME NEW k \in Keys, q # NULL
        PROVE  FALSE
    BY <2>1, <2>3
  <2>4. JobIs(job[w])' /\ [Commands!Next]_(Commands!vars)
    BY <2>1
  <2> QED BY <2>2, <2>3, <2>4
<1>2. CASE Ends(w) /\ q # NULL
  <2>1. Idle.pc = "idle" /\ Idle.req = NULL
    BY DEF Idle
  <2>2. JobIs(job[w])'
    BY <1>2, <2>1 DEF Ends, JobIs, NotExpended
  <2>3. ASSUME NEW k \in Keys, k \notin Changes(q)
        PROVE  Stored'[k] = Stored[k]
    BY <1>2, <2>3 DEF Ends
  <2>4. ASSUME NEW k \in Keys, Stores(q, k)
        PROVE  Sized(k)'
    BY <1>2, <2>4 DEF Ends
  <2>5. [Commands!Next]_(Commands!vars)
    BY <1>2 DEF Ends
  <2> QED BY <1>2, <2>2, <2>3, <2>4, <2>5
<1>3. CASE /\ UNCHANGED <<answer, Stored>> /\ JobIs(job[w])'
           /\ job'[w].req = job[w].req /\ job[w].req # NULL
  <2>1. UNCHANGED Commands!vars
    BY <1>3 DEF Commands!vars, Stored
  <2>2. \A k \in Keys : q # NULL /\ Stores(q, k) => Storing(k)'
    BY <1>3 DEF Storing, Stores
  <2> QED BY <1>3, <2>1, <2>2
<1>4. q = NULL => \E r \in Requests : StartCommand(w, r)
  <2>1. q = NULL => job[w].pc = "idle"
    BY ReqFacts DEF Moves, SerialInv
  <2>2. job[w].pc = "idle" => \E r \in Requests : StartCommand(w, r)
    BY DEF Moves, Worker, Refuse, PrepareKey, SetbitRead, SetbitWrite, Getbit, CountRange,
           CountClamp, CountRead, PrepareSource, TakeTimes, TakeRest, CompareLength,
           TakeLongest, StartRounds, OpRead, OpCombine
  <2> QED BY <2>1, <2>2
<1> QED BY <1>1, <1>2, <1>3, <1>4, WorkerSimulates DEF Simulates

\* Where the sources are that BITOP has got to.
LEMMA SourceIndexes ==
  ASSUME TypeInv, NEW v \in Workers, job[v].req # NULL, job[v].req.op = "BITOP",
         SourcesOK(job[v])
  PROVE  LET j == job[v]
             n == Len(job[v].req.srcs)
         IN  /\ j.req \in Requests /\ DOMAIN j.req.srcs = 1 .. n
             /\ j.pc = "sources" => \A i \in DOMAIN j.dts : n - Len(j.dts) + i \in 1 .. n
             /\ j.pc \in {"read", "op"} \cup Measuring => \A i \in DOMAIN j.dts : i \in 1 .. n
             /\ \A i \in DOMAIN j.lens : i \in 1 .. n
             /\ \A i \in DOMAIN j.p : i \in 1 .. n
             /\ j.pc = "rest" => Len(j.lens) + 1 \in 1 .. n
<1> DEFINE j == job[v]
           q == j.req
           n == Len(q.srcs)
           d == Len(j.dts)
           l == Len(j.lens)
           m == Len(j.p)
<1>1. JobOK(j) /\ j \in JobType /\ q \in Requests /\ j.pc # "idle"
  <2>1. job[v] \in JobType /\ JobOK(job[v])
    BY DEF TypeInv, JobsOK
  <2>2. job[v].req \in Requests
    BY <2>1 DEF JobType
  <2>3. Idle.req = NULL
    BY DEF Idle
  <2>4. job[v].pc = "idle" => job[v] = Idle
    BY <2>1 DEF JobOK
  <2> QED BY <2>1, <2>2, <2>3, <2>4
<1>2. /\ q.srcs \in Seq(Keys) /\ j.dts \in Seq(Keys \cup {NULL}) /\ j.lens \in Seq(Nat)
      /\ j.p \in Seq(Seq(Byte))
  BY <1>1, RequestKinds DEF JobType
<1>3. /\ n \in Nat /\ d \in Nat /\ l \in Nat /\ m \in Nat /\ DOMAIN q.srcs = 1 .. n
      /\ DOMAIN j.dts = 1 .. d /\ DOMAIN j.lens = 1 .. l /\ DOMAIN j.p = 1 .. m
  BY <1>2
<1>4. CASE j.pc = "sources"
  <2>1. d < n /\ l = 0 /\ m = 0
    BY <1>1, <1>4 DEF JobOK
  <2> HIDE DEF n, d, l, m
  <2>2. /\ \A i \in 1 .. d : n - d + i \in 1 .. n
        /\ \A i \in 1 .. l : FALSE
        /\ \A i \in 1 .. m : FALSE
    BY <1>3, <2>1
  <2> QED BY <1>1, <1>3, <1>4, <2>1, <2>2 DEF Measuring, n, d, l, m
<1>5. CASE j.pc \in {"read", "op"} \cup Measuring
  <2>1. d = n /\ l <= d /\ (j.pc = "rest" => l < d)
    BY <1>1, <1>5 DEF JobOK, OnSources, SourcesOK
  <2>2. m <= d
    <3>1. CASE j.pc \in Measuring
      BY <1>1, <1>3, <3>1 DEF JobOK
    <3>2. CASE j.pc = "read"
      BY <1>1, <1>3, <3>2 DEF JobOK
    <3>3. CASE j.pc = "op"
      BY <1>3, <3>3 DEF SourcesOK
    <3> QED BY <1>5, <3>1, <3>2, <3>3
  <2> HIDE DEF n, d, l, m
  <2>3. /\ \A i \in 1 .. d : i \in 1 .. n
        /\ \A i \in 1 .. l : i \in 1 .. n
        /\ \A i \in 1 .. m : i \in 1 .. n
        /\ j.pc = "rest" => l + 1 \in 1 .. n
    BY <1>3, <2>1, <2>2
  <2> QED BY <1>1, <1>3, <1>5, <2>3 DEF Measuring, n, d, l, m
<1>6. CASE j.pc \in {"refused", "key"}
  <2>1. l = 0 /\ m = 0
    BY <1>1, <1>6 DEF JobOK
  <2> HIDE DEF n, d, l, m
  <2>2. (\A i \in 1 .. l : FALSE) /\ (\A i \in 1 .. m : FALSE)
    BY <2>1
  <2> QED BY <1>1, <1>3, <1>6, <2>2 DEF Measuring, n, d, l, m
<1>7. j.pc \in {"sources", "read", "op", "refused", "key"} \cup Measuring
  BY <1>1 DEF JobOK, JobType, Pcs, OnKey, Measuring
<1> QED BY <1>4, <1>5, <1>6, <1>7

-----------------------------------------------------------------------------
(* The other workers.                                                      *)

\* Bitmaps and files of its command being as they were, descriptors closed perhaps,
\* a command has done what it had.
LEMMA JobStays ==
  ASSUME TypeInv, NEW v \in Workers, JobIs(job[v]), job'[v] = job[v],
         job[v].req # NULL =>
           \A k \in KeysOf(job[v].req) :
             /\ data'[k] = data[k] /\ Stored'[k] = Stored[k]
             /\ k \in Changes(job[v].req) => length'[k] \in {length[k], NULL},
         NotExpended(job[v])'
  PROVE  JobIs(job[v])'
<1>1. job[v] \in JobType /\ JobOK(job[v])
  BY DEF TypeInv, JobsOK
<1>2. CASE job[v].pc \in {"setbit", "write"}
  <2>1. job[v].req \in Requests /\ job[v].req # NULL /\ job[v].req.op = "SETBIT"
    BY <1>1, <1>2, BitStoreAssumption DEF JobOK, OnKey
  <2>2. data'[job[v].req.key] = data[job[v].req.key]
    BY <2>1, NamesKeys
  <2> QED BY <1>2, <2>1, <2>2 DEF JobIs, SetbitOK
<1>3. CASE job[v].pc \notin {"setbit", "write"} /\ job[v].req # NULL /\ job[v].req.op = "BITCOUNT"
  <2>1. job[v].req \in Requests
    BY <1>1, <1>3 DEF JobType
  <2>2. data'[job[v].req.key] = data[job[v].req.key]
    BY <1>3, <2>1, NamesKeys
  <2>3. BitcountOK(job[v], data[job[v].req.key])
    BY <1>3 DEF JobIs
  <2> QED BY <1>3, <2>2, <2>3 DEF JobIs
<1>4. CASE job[v].pc \notin {"setbit", "write"} /\ job[v].req # NULL /\ job[v].req.op = "BITOP"
  <2> DEFINE q == job[v].req
             n == Len(q.srcs)
  <2>1. q \in Requests /\ BitopOK(job[v], data[q.dest], length[q.dest])
    BY <1>1, <1>4 DEF JobType, JobIs
  <2>2. SourcesOK(job[v]) /\ LengthsOK(job[v])
    BY <2>1 DEF BitopOK
  <2>3. \A i \in DOMAIN q.srcs : Stored'[q.srcs[i]] = Stored[q.srcs[i]]
    BY <1>4, <2>1, NamesKeys
  <2>4. /\ DOMAIN job[v].req.srcs = 1 .. n
        /\ job[v].pc = "sources" =>
             \A i \in DOMAIN job[v].dts : n - Len(job[v].dts) + i \in 1 .. n
        /\ job[v].pc \in {"read", "op"} \cup Measuring => \A i \in DOMAIN job[v].dts : i \in 1 .. n
        /\ \A i \in DOMAIN job[v].lens : i \in 1 .. n
        /\ \A i \in DOMAIN job[v].p : i \in 1 .. n
        /\ job[v].pc = "rest" => Len(job[v].lens) + 1 \in 1 .. n
    BY <1>4, <2>2, SourceIndexes
  <2>5. Target(job[v].req)' = Target(job[v].req)
    BY <2>3 DEF Target, Lens
  <2> HIDE DEF n
  <2>6. SourcesOK(job[v])'
    <3> DEFINE d == Len(job[v].dts)
               Has(dt, k) == dt = k \/ (dt = NULL /\ Stored'[k] = <<>>)
    <3>1. ASSUME job[v].pc = "sources", NEW i \in DOMAIN job[v].dts
          PROVE  Has(job[v].dts[i], q.srcs[n - d + i])
      <4>1. SourceIs(job[v].dts[i], q.srcs[n - d + i])
        BY <2>2, <3>1 DEF SourcesOK, n
      <4>2. n - d + i \in DOMAIN q.srcs
        BY <2>4, <3>1
      <4> HIDE DEF d
      <4> QED BY <2>3, <4>1, <4>2 DEF SourceIs
    <3>2. ASSUME job[v].pc \in {"read", "op"} \cup Measuring, NEW i \in DOMAIN job[v].dts
          PROVE  Has(job[v].dts[i], q.srcs[i])
      <4>1. SourceIs(job[v].dts[i], q.srcs[i])
        BY <2>2, <3>2 DEF SourcesOK
      <4>2. i \in DOMAIN q.srcs
        BY <2>4, <3>2
      <4> QED BY <2>3, <4>1, <4>2 DEF SourceIs
    <3>3. ASSUME NEW i \in DOMAIN job[v].p, NEW m \in Nat, m < FILE_BUFFER_SIZE
          PROVE  ByteAt(job[v].p[i], m) = ByteAt(Stored'[q.srcs[i]], job[v].o + m)
      <4>1. ByteAt(job[v].p[i], m) = ByteAt(Stored[q.srcs[i]], job[v].o + m)
        BY <2>2, <3>3 DEF SourcesOK
      <4>2. i \in DOMAIN q.srcs
        BY <2>4, <3>3
      <4> QED BY <2>3, <4>1, <4>2
    <3>4. /\ job[v].pc \in {"read", "op"} \cup Measuring => d = n
          /\ job[v].pc = "op" => Len(job[v].p) = d
      BY <2>2 DEF SourcesOK, n
    <3> QED BY <3>1, <3>2, <3>3, <3>4 DEF SourcesOK, SourceIs, n
  <2>7. LengthsOK(job[v])'
    <3> DEFINE last == Len(job[v].lens)
    <3>1. \A i \in DOMAIN job[v].lens : job[v].lens[i] = Len(Stored'[q.srcs[i]])
      BY <2>2, <2>3, <2>4 DEF LengthsOK
    <3>2. job[v].pc = "rest" => job[v].t = Len(Stored'[q.srcs[last + 1]]) \div FILE_BUFFER_SIZE
      <4>1. job[v].pc = "rest" => last + 1 \in DOMAIN q.srcs
        BY <2>4
      <4>2. job[v].pc = "rest" => job[v].t = Len(Stored[q.srcs[last + 1]]) \div FILE_BUFFER_SIZE
        BY <2>2 DEF LengthsOK
      <4> HIDE DEF last
      <4> QED BY <2>3, <4>1, <4>2
    <3> QED BY <2>2, <3>1, <3>2 DEF LengthsOK
  <2>8. q.hook = "NONE" => DestinationOK(job[v], data[job[v].req.dest], length[job[v].req.dest])'
    <3>1. CASE q.hook = "NONE"
      <4>1. data'[q.dest] = data[q.dest] /\ length'[q.dest] \in {length[q.dest], NULL}
        BY <1>4, <2>1, <3>1, NamesKeys
      <4>2. DestinationOK(job[v], data[q.dest], length[q.dest])
        BY <2>1, <3>1 DEF BitopOK
      <4> QED BY <2>3, <2>5, <4>1, <4>2 DEF DestinationOK
    <3> QED BY <3>1
  <2>9. BitopOK(job[v], data[job[v].req.dest], length[job[v].req.dest])'
    BY <2>1, <2>5, <2>6, <2>7, <2>8 DEF BitopOK
  <2> QED BY <1>4, <2>9 DEF JobIs
<1>5. CASE /\ job[v].pc \notin {"setbit", "write"}
           /\ job[v].req = NULL \/ job[v].req.op \notin {"BITCOUNT", "BITOP"}
  BY <1>5 DEF JobIs
<1> QED BY <1>2, <1>3, <1>4, <1>5

\* What a worker does leaves the commands of the others where they were.
LEMMA OthersStay ==
  ASSUME Orderly, WithinLimit, NEW w \in Workers, Moves(w), NEW v \in Workers, v # w
  PROVE  JobIs(job[v])'
<1> DEFINE q == job[w].req
           r == job[v].req
<1>1. TypeInv /\ Isolated /\ JobIs(job[v]) /\ Worker(w)
  BY DEF Moves, SerialInv
<1>2. job'[v] = job[v]
  BY <1>1, WorkerLeaves
<1>3. r # NULL => r \in Requests
  BY <1>1 DEF TypeInv, JobsOK, JobType
<1>4. ASSUME r # NULL, NEW k \in KeysOf(r)
      PROVE  /\ k \in Keys
             /\ data'[k] = data[k] /\ Stored'[k] = Stored[k]
             /\ k \in Changes(r) => length'[k] = length[k] /\ (k \in files' <=> k \in files)
  <2>1. k \in Keys
    BY <1>3, <1>4, NamesKeys
  <2>2. CASE q = NULL
    <3>1. job[w].pc = "idle"
      BY <1>1, <2>2, ReqFacts
    <3> QED BY <1>1, <2>1, <2>2, <3>1, StoreTouches, WorkerSeen
  <2>3. CASE q # NULL
    <3>1. Apart(r, q)
      BY <1>1, <1>4, <2>3 DEF Isolated
    <3>2. k \notin Changes(q) /\ (k \in Changes(r) => k \notin KeysOf(q))
      BY <1>4, <3>1 DEF Apart
    <3> QED BY <1>1, <2>1, <3>2, StoreTouches, WorkerSeen
  <2> QED BY <2>2, <2>3
<1>5. NotExpended(job[v])'
  <2>1. SUFFICES ASSUME NEW k \in Keys, job[v].pc = "key", Stores(r, k), InPlace(r)
                 PROVE  k \in Open' \/ k \notin files'
    BY <1>2 DEF NotExpended, Stores, InPlace
  <2>2. r \in Requests /\ r # NULL
    BY <1>1, <2>1, ReqFacts
  <2>3. k \in Changes(r) /\ k \in KeysOf(r)
    BY <2>1, <2>2, NamesKeys
  <2>4. k \in Open \/ k \notin files
    BY <1>1, <2>1 DEF JobIs, NotExpended
  <2> QED BY <1>4, <2>2, <2>3, <2>4 DEF Open
<1>6. r # NULL => \A k \in KeysOf(r) :
        /\ data'[k] = data[k] /\ Stored'[k] = Stored[k]
        /\ k \in Changes(r) => length'[k] \in {length[k], NULL}
  BY <1>4
<1> HIDE DEF q
<1> QED BY <1>1, <1>2, <1>5, <1>6, JobStays

\* dt->length is the size of the file again when a result has been stored.
LEMMA LengthsKept ==
  ASSUME Orderly, WithinLimit, NEW w \in Workers, Moves(w)
  PROVE  LengthMatchesSize'
<1> DEFINE q == job[w].req
<1>1. TypeInv /\ LengthMatchesSize /\ Worker(w)
  BY DEF Moves, SerialInv
<1>2. SUFFICES ASSUME NEW k \in Keys, ~Storing(k)'
               PROVE  Sized(k)'
  BY DEF LengthMatchesSize, Storing, Sized
<1>3. CASE q # NULL /\ Stores(q, k)
  BY <1>2, <1>3, WorkerSeen
<1>4. CASE ~(q # NULL /\ Stores(q, k))
  <2>1. ~Storing(k)
    BY <1>1, <1>2, <1>4, WorkerLeaves DEF Storing
  <2>2. StoreOK /\ Sized(k)
    BY <1>1, <2>1 DEF TypeInv, LengthMatchesSize, Storing, Sized
  <2>3. CASE UNCHANGED <<files, data, length>>
    BY <2>2, <2>3 DEF Sized
  <2>4. ASSUME NEW i \in Keys, Prepared(i, 1)
        PROVE  Sized(k)'
    BY <2>2, <2>4, PreparedMatches
  <2>5. CASE PrepareKey(w) /\ Key(q) \in Keys /\ Prepared(Key(q), Mode(q))
    <3>1. q \in Requests /\ q # NULL
      BY <1>1, <2>5, ReqFacts DEF PrepareKey
    <3>2. Mode(q) = 2 => k # Key(q)
      <4>1. Mode(q) = 2 => q.op = "BITOP"
        BY <3>1, RequestKinds DEF Mode
      <4> QED BY <1>4, <3>1, <4>1 DEF Stores, Key
    <3> HIDE DEF q
    <3> QED BY <2>2, <2>5, <3>2, PreparedMatches
  <2>6. ASSUME NEW i \in Open, NEW buf \in Seq(Byte), NEW o \in Nat, write_to(i, buf, o)
        PROVE  Sized(k)'
    BY <2>2, <2>6, WrittenMatches
  <2> QED BY <1>1, <2>3, <2>4, <2>5, <2>6, StoreEffect
<1> QED BY <1>3, <1>4

\* No bitmap becomes too large.
LEMMA LimitKept ==
  ASSUME WithinLimit, Limited, Stored \in [Keys -> Seq(Byte)], [Commands!Next]_(Commands!vars)
  PROVE  Limited'
<1> SUFFICES ASSUME NEW k \in Keys
             PROVE  Len(Stored'[k]) <= FILE_SIZE_LIMIT
  BY DEF Limited
<1>1. Len(Stored[k]) <= FILE_SIZE_LIMIT /\ FILE_SIZE_LIMIT \in Nat
  BY BitStoreAssumption DEF Limited
<1>2. CASE Stored' = Stored
  BY <1>1, <1>2
<1>3. ASSUME NEW w \in Workers, NEW q \in Requests, Commands!Execute(w, q)
      PROVE  Len(Stored'[k]) <= FILE_SIZE_LIMIT
  <2>1. Stored' = Commands!After(q) /\ ~Commands!TooFar(q)
    BY <1>3 DEF Commands!Execute, Stored
  <2>2. CASE k \notin Changes(q)
    BY <1>1, <2>1, <2>2, AfterElsewhere
  <2>3. CASE k \in Changes(q) /\ q.op = "SETBIT"
    <3> DEFINE f == Stored[k]
               b == <<NewByte(q, ByteAt(f, q.byte))>>
    <3>1. k = q.key /\ q \in SetbitRequest
      BY <2>3, NamesKeys, RequestKinds
    <3>2. Stored'[k] = f \/ Stored'[k] = WriteAt(f, q.byte, b)
      BY <2>1, <2>3, <3>1, BitAfter
    <3>3. q.byte \in Nat /\ q.byte < FILE_SIZE_LIMIT
      BY <1>1, <2>1, <2>3, <3>1 DEF SetbitRequest, Commands!TooFar
    <3>4. b \in Seq(Byte) /\ Len(b) = 1
      BY <3>1 DEF NewByte, ByteAt, Byte, SetbitRequest
    <3>5. f \in Seq(Byte)
      OBVIOUS
    <3>6. Len(WriteAt(f, q.byte, b)) = Larger(Len(f), q.byte + 1)
      <4> HIDE DEF f, b
      <4> QED BY <3>3, <3>4, <3>5, Written
    <3> HIDE DEF f, b
    <3> QED BY <1>1, <3>2, <3>3, <3>5, <3>6 DEF Larger, f
  <2>4. CASE k \in Changes(q) /\ q.op = "BITOP"
    <3>1. k = q.dest /\ q.hook = "NONE"
      BY <2>4, NamesKeys, RequestKinds
    <3>2. Stored'[k] = Target(q)
      BY <2>1, <2>4, <3>1, TargetIsResult DEF Commands!After, Stored
    <3>3. /\ Lens(q) \in Seq(Nat) /\ Lens(q) # <<>> /\ Len(Stored'[k]) = Longest(Lens(q))
          /\ DOMAIN Lens(q) = DOMAIN q.srcs
          /\ \A i \in DOMAIN q.srcs : Lens(q)[i] = Len(Stored[q.srcs[i]])
      BY <2>4, <3>2, TargetIs
    <3>4. PICK i \in DOMAIN q.srcs : Longest(Lens(q)) = Len(Stored[q.srcs[i]])
      BY <3>3, LongestIsOne
    <3>5. q.srcs[i] \in Keys
      BY <2>4, NamesKeys
    <3> QED BY <3>3, <3>4, <3>5 DEF Limited
  <2> QED BY <2>2, <2>3, <2>4, NamesKeys, RequestKinds
<1>4. Stored' = Stored \/ \E w \in Workers, q \in Requests : Commands!Execute(w, q)
  BY DEF Commands!Next, Commands!Begin, Commands!Refuse, Commands!vars, Stored
<1> QED BY <1>2, <1>3, <1>4

\* A step of a worker.
LEMMA WorkerStep ==
  ASSUME Orderly, WithinLimit, SerialInv, NEW w \in Workers, Worker(w)
  PROVE  SerialInv' /\ [Commands!Next]_(Commands!vars)
<1>1. TypeInv /\ Unanswered /\ Isolated /\ Limited
  BY DEF SerialInv
<1>2. TypeInv' /\ Isolated' /\ Unanswered'
  BY <1>1, WorkerTypes, IsolatedStep, WorkerUnanswered
<1>3. Moves(w)
  BY <1>2 DEF Moves
<1>4. JobIs(job[w])' /\ [Commands!Next]_(Commands!vars)
  BY <1>3, WorkerSeen
<1>5. \A v \in Workers : JobIs(job[v])'
  BY <1>3, <1>4, OthersStay
<1>6. LengthMatchesSize'
  BY <1>3, LengthsKept
<1>7. Limited'
  BY <1>1, <1>4, StoredType, LimitKept
<1> QED BY <1>2, <1>4, <1>5, <1>6, <1>7 DEF SerialInv

\* A step nobody sees: a descriptor is closed, or nothing happens.
LEMMA UnseenStep ==
  ASSUME Orderly, SerialInv, (\E k \in Keys : Evict(k)) \/ UNCHANGED vars
  PROVE  SerialInv' /\ UNCHANGED Commands!vars
<1>1. UNCHANGED <<files, data, job, answer>>
  BY DEF Evict, vars
<1>2. TypeInv /\ TypeInv'
  BY EvictTypes, StutterTypes DEF SerialInv
<1>3. \A k \in Keys : length'[k] \in {length[k], NULL}
  BY <1>2 DEF Evict, vars, TypeInv, StoreOK
<1>4. Stored' = Stored
  BY <1>1 DEF Stored, StoreOf
<1>5. ASSUME NEW v \in Workers
      PROVE  JobIs(job[v])'
  <2>1. JobIs(job[v])
    BY DEF SerialInv
  <2>2. NotExpended(job[v])'
    <3>1. SUFFICES ASSUME NEW k \in Keys, job[v].pc = "key", Stores(job[v].req, k),
                          InPlace(job[v].req)
                   PROVE  k \in Open' \/ k \notin files'
      BY <1>1 DEF NotExpended
    <3>2. k \in Open \/ k \notin files
      BY <2>1, <3>1 DEF JobIs, NotExpended
    <3>3. ~Evict(k)
      BY <3>1 DEF Evict, Expendable
    <3>4. length'[k] = length[k]
      BY <1>2, <3>3 DEF Evict, vars, TypeInv, StoreOK
    <3> QED BY <1>1, <3>2, <3>4 DEF Open
  <2>3. job[v].req # NULL => KeysOf(job[v].req) \subseteq Keys
    BY <1>2, NamesKeys DEF TypeInv, JobsOK, JobType
  <2> QED BY <1>1, <1>2, <1>3, <1>4, <2>1, <2>2, <2>3, JobStays
<1>6. Unanswered' /\ Isolated' /\ Limited'
  BY <1>1, <1>4 DEF SerialInv, Unanswered, Isolated, Limited
<1>7. LengthMatchesSize'
  BY <1>1, <1>3 DEF SerialInv, LengthMatchesSize
<1> QED BY <1>1, <1>2, <1>4, <1>5, <1>6, <1>7 DEF SerialInv, Commands!vars, Stored

-----------------------------------------------------------------------------
(* The theorem.                                                            *)

\* Every step is one of Bitmap, or none.
LEMMA SerialStep ==
  ASSUME Orderly, WithinLimit, SerialInv, [Next]_vars
  PROVE  SerialInv' /\ [Commands!Next]_(Commands!vars)
BY WorkerStep, UnseenStep DEF Next

\* It begins with the files there are.
LEMMA SerialInit ==
  ASSUME WithinLimit, Init
  PROVE  SerialInv /\ Commands!Init
<1>1. TypeInv /\ \A w \in Workers : job[w] = Idle
  BY InitTypeInv DEF Init
<1>2. Idle.req = NULL /\ Idle.pc = "idle"
  BY DEF Idle
<1>3. Unanswered /\ Isolated /\ LengthMatchesSize /\ \A w \in Workers : JobIs(job[w])
  BY <1>1, <1>2 DEF Init, LengthMatchesSize, Unanswered, Isolated, JobIs, NotExpended
<1>4. \A k \in Keys : StoreOf(k) = data[k]
  BY <1>1, <1>2 DEF StoreOf
<1>5. Stored \in [Keys -> Seq(Byte)] /\ \A k \in Keys : Stored[k] = data[k]
  BY <1>1, <1>4 DEF Stored, TypeInv, StoreOK
<1>6. Limited
  <2>1. SUFFICES ASSUME NEW k \in Keys
                 PROVE  Len(data[k]) <= FILE_SIZE_LIMIT
    BY <1>5 DEF Limited
  <2>2. data[k] \in OldFiles \/ data[k] = <<>>
    BY DEF Init
  <2>3. Len(<<>>) = 0 /\ 0 <= FILE_SIZE_LIMIT
    BY BitStoreAssumption
  <2> QED BY <2>2, <2>3 DEF WithinLimit
<1> QED BY <1>1, <1>3, <1>5, <1>6 DEF SerialInv, Commands!Init, Init, Stored, Commands!Byte, Byte

\* When the commands executed at a time are apart from each other and within the
\* limit of size, and a result is stored over nothing longer than it, the workers
\* execute every command as if at once: its reply, and the contents of the files,
\* are those of Bitmap, in whatever pieces the files are read and written, whatever
\* is closed and opened again meanwhile, and whichever allocations and calls of
\* prepare_file fail before the destination has been truncated.
THEOREM BitmapImplemented ==
  ASSUME Orderly, WithinLimit
  PROVE  Spec => ImplementsBitmap
<1>1. Init => SerialInv /\ Commands!Init
  BY SerialInit
<1>2. SerialInv /\ [Next]_vars => SerialInv' /\ [Commands!Next]_(Commands!vars)
  BY SerialStep
<1> QED BY <1>1, <1>2, PTL DEF Spec, ImplementsBitmap, Commands!Spec

\* In such a run dt->length is the size of the file though destinations are
\* truncated: the result that follows is as long as what was there.
THEOREM LengthRestored ==
  ASSUME Orderly, WithinLimit
  PROVE  Spec => []LengthMatchesSize
<1>1. Init => SerialInv
  BY SerialInit
<1>2. SerialInv /\ [Next]_vars => SerialInv'
  BY SerialStep
<1>3. SerialInv => LengthMatchesSize
  BY DEF SerialInv
<1> QED BY <1>1, <1>2, <1>3, PTL DEF Spec
=============================================================================
