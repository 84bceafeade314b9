------------------------- MODULE BitStoreCrashProofs -------------------------
(***************************************************************************)
(* Theorems about BitStoreCrash: what a kill of the process can undo.      *)
(*                                                                         *)
(* A step of a worker is one of BitStore, so the invariants of             *)
(* BitStoreProofs hold here too; what is added is the disk.                *)
(***************************************************************************)
EXTENDS BitStoreCrash, BitStoreProofs

DiskOK ==
  /\ disk \in [Keys -> Seq(Byte)]
  /\ \A k \in Keys \ files : disk[k] = <<>>

RiskInv == AckedInv /\ DiskOK /\ OneBitAtRisk

\* An acknowledged bit that is at risk is not on the disk; one that is in
\* contents on the disk is not at risk.
LEMMA NotAtRisk ==
  ASSUME AcknowledgedBitsStay, NEW k \in Keys, disk[k] = data[k]
  PROVE  AtRisk(k) = {}
BY DEF AtRisk, AcknowledgedBitsStay

-----------------------------------------------------------------------------
(* A step of a worker.                                                     *)

\* A step of a worker keeps what BitStoreProofs proves, and the disk in type.
LEMMA WorkDisk ==
  ASSUME RiskInv, NEW w \in Workers, Work(w)
  PROVE  AckedInv' /\ DiskOK'
<1>1. AckedInv'
  BY WorkerAcked DEF RiskInv, Work
<1>2. /\ data \in [Keys -> Seq(Byte)] /\ data' \in [Keys -> Seq(Byte)]
      /\ \A k \in Keys \ files' : data'[k] = <<>>
  BY <1>1 DEF RiskInv, AckedInv, TypeInv, StoreOK
<1>3. <<>> \in Seq(Byte)
  OBVIOUS
<1> QED BY <1>1, <1>2, <1>3 DEF RiskInv, DiskOK, Work

\* The write of SETBIT seeks in its key's stream.
LEMMA WriteSeeks ==
  ASSUME NEW w \in Workers, SetbitWrite(w)
  PROVE  job[w].req.key \in Seeks(w)
BY DEF SetbitWrite, Seeks

\* A step acknowledges nothing, or the bit it writes to a stream it seeks in.
LEMMA WorkAcks ==
  ASSUME NEW w \in Workers, Worker(w)
  PROVE  \/ acked' \subseteq acked
         \/ \E k \in Seeks(w) : \E i, n : acked' \subseteq acked \cup {<<k, i, n>>}
<1>1. CASE SetbitWrite(w)
  <2> DEFINE q == job[w].req
  <2>1. acked' \subseteq acked \cup {<<q.key, q.byte, q.bit>>}
    BY <1>1 DEF SetbitWrite
  <2> QED BY <1>1, <2>1, WriteSeeks
<1>2. CASE ~SetbitWrite(w)
  BY <1>2, AckedStays
<1> QED BY <1>1, <1>2

\* A stream that is sought in is open.
LEMMA SeeksOpen ==
  ASSUME TypeInv, NEW w \in Workers, NEW k \in Seeks(w)
  PROVE  k \in Open
<1>1. JobOK(job[w]) /\ job[w].held \subseteq Open
  BY DEF TypeInv, JobsOK
<1>2. CASE job[w].pc \in {"setbit", "getbit", "write", "count"}
  BY <1>1, <1>2 DEF Seeks, JobOK, OnKey
<1>3. CASE job[w].pc = "read"
  <2> DEFINE i == Len(job[w].p) + 1
  <2>1. /\ OnSources(job[w]) /\ Len(job[w].p) < Len(job[w].dts)
        /\ Len(job[w].lens) = Len(job[w].dts)
        /\ job[w].lens \in Seq(Nat) /\ job[w].dts \in Seq(Keys \cup {NULL})
        /\ job[w].p \in Seq(Seq(Byte)) /\ job[w].o \in Nat
    BY <1>1, <1>3 DEF JobOK, JobType
  <2>2. i \in DOMAIN job[w].dts /\ i \in DOMAIN job[w].lens
    BY <2>1
  <2>3. k = job[w].dts[i] /\ Round(job[w].lens[i], job[w].o) > 0
    BY <1>3 DEF Seeks
  <2> HIDE DEF i
  <2>4. job[w].lens[i] \in Nat
    BY <2>1, <2>2
  <2>5. ASSUME job[w].lens[i] = 0
        PROVE  FALSE
    <3>1. 0 \in Nat /\ job[w].o \in Nat
      BY <2>1
    <3>2. Round(0, job[w].o) = 0
      BY <3>1, RoundIsNat
    <3>3. Round(job[w].lens[i], job[w].o) = 0
      BY <2>5, <3>2
    <3> QED BY <2>3, <3>3
  <2> QED BY <1>1, <2>1, <2>2, <2>3, <2>5 DEF OnSources
<1>4. CASE job[w].pc = "op"
  BY <1>1, <1>4 DEF Seeks, JobOK, OnSources
<1>5. CASE job[w].pc \notin {"setbit", "getbit", "write", "count", "read", "op"}
  BY <1>5 DEF Seeks
<1> QED BY <1>2, <1>3, <1>4, <1>5

\* A step of a worker: it flushes what was buffered before it buffers the next bit.
LEMMA WorkRisk ==
  ASSUME RiskInv, NEW w \in Workers, Work(w)
  PROVE  OneBitAtRisk'
<1> SUFFICES ASSUME ~raced', NEW k \in Keys
             PROVE  /\ \A a, b \in AtRisk(k)' : a = b
                    /\ length'[k] = NULL => AtRisk(k)' = {}
  BY DEF OneBitAtRisk
<1>1. Worker(w) /\ AckedInv' /\ TypeInv
  BY WorkDisk DEF RiskInv, AckedInv, Work
<1>2. ~raced /\ AcknowledgedBitsStay /\ AcknowledgedBitsStay'
  <2>1. ~raced
    BY <1>1 DEF Worker, StartCommand, Refuse, PrepareKey, SetbitRead, SetbitWrite, Getbit,
                CountRange, CountClamp, CountRead, PrepareSource, TakeTimes, TakeRest,
                CompareLength, TakeLongest, StartRounds, OpRead, OpCombine, TypeInv,
                HistoryOK
  <2> QED BY <1>1, <2>1 DEF RiskInv, AckedInv
<1>3. length'[k] = NULL => length[k] = NULL
  <2>1. CASE UNCHANGED <<files, data, length>>
    BY <2>1
  <2>2. ASSUME NEW i \in Keys, NEW mode, Prepared(i, mode)
        PROVE  Open \subseteq Open'
    BY <1>1, <2>2, PreparedStore DEF TypeInv
  <2>3. ASSUME NEW i \in Open, NEW buf \in Seq(Byte), NEW o \in Nat, write_to(i, buf, o)
        PROVE  Open \subseteq Open'
    BY <1>1, <2>3, WrittenStore DEF TypeInv
  <2>4. Open \subseteq Open'
    BY <1>1, <2>1, <2>2, <2>3, StoreEffect DEF Open
  <2> QED BY <2>4 DEF Open
<1>4. \A b \in AtRisk(k)' : b \in acked' /\ b[1] = k /\ b[3] \notin ByteAt(disk'[k], b[2])
  BY DEF AtRisk
<1>5. disk'[k] = IF data'[k] = <<>> THEN <<>> ELSE IF k \in Seeks(w) THEN data[k] ELSE disk[k]
  BY DEF Work
<1>6. CASE data'[k] = <<>>
  <2>1. disk'[k] = data'[k]
    BY <1>5, <1>6
  <2>2. AtRisk(k)' = {}
    BY <1>2, <2>1 DEF AtRisk, AcknowledgedBitsStay
  <2> QED BY <2>2
<1>7. CASE data'[k] # <<>> /\ k \in Seeks(w)
  <2>1. disk'[k] = data[k]
    BY <1>5, <1>7
  <2>2. \A b \in AtRisk(k)' : b \notin acked
    BY <1>2, <1>4, <2>1 DEF AcknowledgedBitsStay
  <2>3. \A a, b \in AtRisk(k)' : a = b
    BY <1>1, <1>4, <2>2, WorkAcks
  <2>4. length'[k] # NULL
    BY <1>1, <1>3, <1>7, SeeksOpen DEF Open
  <2> QED BY <2>3, <2>4
<1>8. CASE data'[k] # <<>> /\ k \notin Seeks(w)
  <2>1. disk'[k] = disk[k]
    BY <1>5, <1>8
  <2>2. \A b \in AtRisk(k)' : b \in acked
    BY <1>1, <1>4, <1>8, WorkAcks
  <2>3. AtRisk(k)' \subseteq AtRisk(k)
    BY <1>4, <2>1, <2>2 DEF AtRisk
  <2>4. (\A a, b \in AtRisk(k) : a = b) /\ (length[k] = NULL => AtRisk(k) = {})
    BY <1>2 DEF RiskInv, OneBitAtRisk
  <2> QED BY <1>3, <2>3, <2>4
<1> QED BY <1>6, <1>7, <1>8

-----------------------------------------------------------------------------
(* The other steps.                                                        *)

\* A key whose contents are written out has no bit at risk, the others have
\* those they had.
LEMMA FlushRisk ==
  ASSUME RiskInv, NEW k \in Keys, disk' = [disk EXCEPT ![k] = data[k]],
         UNCHANGED <<data, acked, raced>>,
         \A i \in Keys \ {k} : length'[i] = length[i]
  PROVE  OneBitAtRisk'
<1> SUFFICES ASSUME ~raced', NEW i \in Keys
             PROVE  /\ \A a, b \in AtRisk(i)' : a = b
                    /\ length'[i] = NULL => AtRisk(i)' = {}
  BY DEF OneBitAtRisk
<1>1. AcknowledgedBitsStay
  BY DEF RiskInv, AckedInv
<1>2. disk \in [Keys -> Seq(Byte)]
  BY DEF RiskInv, DiskOK
<1>3. CASE i = k
  <2>1. disk'[i] = data[i]
    BY <1>2, <1>3
  <2>2. AtRisk(i)' = {}
    BY <1>1, <2>1 DEF AtRisk, AcknowledgedBitsStay
  <2> QED BY <2>2
<1>4. CASE i # k
  <2>1. disk'[i] = disk[i] /\ length'[i] = length[i]
    BY <1>2, <1>4
  <2>2. AtRisk(i)' = AtRisk(i)
    BY <2>1 DEF AtRisk
  <2> QED BY <2>1, <2>2 DEF RiskInv, OneBitAtRisk
<1> QED BY <1>3, <1>4

\* Closing a stream writes what it buffered.
LEMMA CloseRisk ==
  ASSUME RiskInv, NEW k \in Keys, Close(k)
  PROVE  RiskInv'
<1>1. AckedInv'
  BY EvictAcked DEF RiskInv, Close
<1>2. data \in [Keys -> Seq(Byte)] /\ \A i \in Keys \ files : data[i] = <<>>
  BY DEF RiskInv, AckedInv, TypeInv, StoreOK
<1>3. DiskOK'
  BY <1>2 DEF RiskInv, DiskOK, Close, Evict
<1>4. OneBitAtRisk'
  BY FlushRisk DEF Close, Evict, RiskInv, AckedInv, TypeInv, StoreOK
<1> QED BY <1>1, <1>3, <1>4 DEF RiskInv

\* stdio may write a full buffer at any time.
LEMMA DrainRisk ==
  ASSUME RiskInv, NEW k \in Keys, Drain(k)
  PROVE  RiskInv'
<1>1. AckedInv'
  BY StutterAcked DEF RiskInv, Drain
<1>2. data \in [Keys -> Seq(Byte)] /\ \A i \in Keys \ files : data[i] = <<>>
  BY DEF RiskInv, AckedInv, TypeInv, StoreOK
<1>3. DiskOK'
  BY <1>2 DEF RiskInv, DiskOK, Drain, vars
<1>4. OneBitAtRisk'
  BY FlushRisk DEF Drain, vars
<1> QED BY <1>1, <1>3, <1>4 DEF RiskInv

\* After a kill the server starts with what is on the disk.
LEMMA CrashRisk ==
  ASSUME RiskInv, Crash
  PROVE  RiskInv'
<1>1. StoreOK' /\ DiskOK'
  BY DEF RiskInv, AckedInv, TypeInv, StoreOK, DiskOK, Crash
<1>2. JobOK(Idle) /\ Idle.held = {} /\ Idle \in JobType /\ Idle.req = NULL /\ Idle.pc = "idle"
  BY DEF JobOK, Measuring, Idle, JobType, Pcs, Byte, NoFloor
<1>3. JobsOK' /\ AnswerOK'
  BY <1>2 DEF JobsOK, AnswerOK, Crash
<1>4. HistoryOK'
  BY DEF RiskInv, AckedInv, TypeInv, HistoryOK, Crash
<1>5. Covers'
  BY DEF Covers, Open, Crash
<1>6. NobodyClears' /\ OneWriter' /\ ReadAcked'
  BY <1>2 DEF NobodyClears, OneWriter, ReadAcked, Crash
<1>7. AcknowledgedBitsStay' /\ \A k \in Keys : AtRisk(k)' = {}
  BY DEF AcknowledgedBitsStay, AtRisk, Crash
<1> QED BY <1>1, <1>3, <1>4, <1>5, <1>6, <1>7
        DEF RiskInv, AckedInv, TypeInv, OneBitAtRisk

-----------------------------------------------------------------------------
\* At the start the disk is what the files say.
LEMMA InitRisk ==
  ASSUME CrashInit
  PROVE  RiskInv
<1>1. AckedInv /\ AcknowledgedBitsStay
  BY InitAcked DEF CrashInit, Init, AcknowledgedBitsStay
<1>2. DiskOK
  BY <1>1 DEF CrashInit, DiskOK, AckedInv, TypeInv, StoreOK
<1>3. \A k \in Keys : AtRisk(k) = {}
  BY <1>1, NotAtRisk DEF CrashInit
<1> QED BY <1>1, <1>2, <1>3 DEF RiskInv, OneBitAtRisk

\* Every step keeps the invariant.
LEMMA StepRisk ==
  ASSUME RiskInv, [CrashNext]_crashVars
  PROVE  RiskInv'
<1>1. ASSUME NEW w \in Workers, Work(w) PROVE RiskInv'
  BY <1>1, WorkDisk, WorkRisk DEF RiskInv
<1>2. CASE UNCHANGED crashVars
  <2>1. AckedInv'
    BY <1>2, StutterAcked DEF RiskInv, crashVars
  <2>2. DiskOK' /\ OneBitAtRisk'
    BY <1>2 DEF RiskInv, DiskOK, OneBitAtRisk, AtRisk, crashVars, vars
  <2> QED BY <2>1, <2>2 DEF RiskInv
<1> QED BY <1>1, <1>2, CloseRisk, DrainRisk, CrashRisk DEF CrashNext

\* Killing the process at any time undoes at most the bit written last to each
\* open key, and nothing of a key that has been closed, whatever the commands,
\* files and workers are, as long as no two SETBITs of one byte overlap.
THEOREM CrashLosesOneBit == CrashSpec => []OneBitAtRisk
<1>1. CrashInit => RiskInv
  BY InitRisk
<1>2. RiskInv /\ [CrashNext]_crashVars => RiskInv'
  BY StepRisk
<1>3. RiskInv => OneBitAtRisk
  BY DEF RiskInv
<1> QED BY <1>1, <1>2, <1>3, PTL DEF CrashSpec

\* What a kill leaves of the acknowledged bits stays, over any number of kills.
THEOREM CrashKeepsAcknowledged == CrashSpec => []IntactAcknowledged
<1>1. CrashInit => RiskInv
  BY InitRisk
<1>2. RiskInv /\ [CrashNext]_crashVars => RiskInv'
  BY StepRisk
<1>3. RiskInv => IntactAcknowledged
  BY DEF RiskInv, AckedInv, IntactAcknowledged
<1> QED BY <1>1, <1>2, <1>3, PTL DEF CrashSpec
=============================================================================
