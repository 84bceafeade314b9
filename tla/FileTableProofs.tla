-------------------------- MODULE FileTableProofs --------------------------
(***************************************************************************)
(* Proofs about FileTable, for any keys, buckets, slots and workers, with  *)
(* a failing file system and SIGTERM: types, whatever happens;             *)
(* then who uses which slot: until an eviction first opens into a slot it  *)
(* did not evict, reference counts are exact, they protect the slots in    *)
(* use, and no stream is lost; until a collision, the buckets lead to      *)
(* every slot.                                                             *)
(***************************************************************************)
EXTENDS FileTable, FiniteSetTheorems, TLAPS

-----------------------------------------------------------------------------
(* The part of the types that concerns the table.                          *)

Desc == [hash : Keys \cup {NULL}, fd : Stream \cup {NULL},
         last_access : Nat, refs : Int,
         next : Slot \cup {NULL}, prev : Slot \cup {NULL}]

TableTypes ==
  /\ descs \in [Slot -> Desc]
  /\ XXTABLE \in [Buckets -> Slot \cup {NULL}]
  /\ idx \in Slot
  /\ streams \subseteq Stream
  /\ files \subseteq Keys
  /\ clock \in Nat
  /\ clobbered \in BOOLEAN /\ orphaned \in BOOLEAN

\* No slot is linked: behind a chain of one, depth is 0, so none gets longer (the
\* collision of two keys of a bucket orphans the first).
ChainsAreSingletons ==
  \A s \in Slot : descs[s].next = NULL /\ descs[s].prev = NULL

TableInv == TableTypes /\ ChainsAreSingletons

\* NULL is neither a slot nor a key.
LEMMA NullIsNoSlot == NULL \notin Slot /\ NULL \notin Keys
BY TableAssumption DEF Slot

\* The walk over a chain of one slot makes no hop.
LEMMA WalkIsShort ==
  ASSUME TableInv, NEW key \in Keys, NEW depth \in Slot, NEW last \in Slot \cup {NULL},
         WalkEnds(key, depth, last)
  PROVE  depth = 0
<1>1. SUFFICES ASSUME depth # 0 PROVE FALSE
  OBVIOUS
<1>2. PICK walk \in [0 .. depth -> Slot] :
        \A i \in 1 .. depth : walk[i] = descs[walk[i - 1]].next
  BY <1>1 DEF WalkEnds
<1>3. 1 \in 1 .. depth /\ 0 \in 0 .. depth /\ 1 \in 0 .. depth
  BY <1>1 DEF Slot
<1>4. walk[1] = descs[walk[0]].next
  BY <1>2, <1>3
<1>5. walk[0] \in Slot /\ walk[1] \in Slot
  BY <1>2, <1>3
<1>6. descs[walk[0]].next = NULL
  BY <1>5 DEF TableInv, ChainsAreSingletons
<1> QED BY <1>4, <1>5, <1>6, NullIsNoSlot

\* Emptying a slot keeps the types of the slots, buckets and streams.
LEMMA EvictionTypes ==
  ASSUME TableInv, NEW victim \in Slot \cup {NULL}
  PROVE  /\ DescsWithout(victim) \in [Slot -> Desc]
         /\ \A s \in Slot : /\ DescsWithout(victim)[s].next = NULL
                            /\ DescsWithout(victim)[s].prev = NULL
         /\ BucketsWithout(victim) \in [Buckets -> Slot \cup {NULL}]
         /\ StreamsWithout(victim) \subseteq Stream
<1>1. CASE victim = NULL
  BY <1>1 DEF TableInv, TableTypes, ChainsAreSingletons, DescsWithout, BucketsWithout,
              StreamsWithout
<1>2. CASE victim # NULL
  <2>1. victim \in Slot
    BY <1>2
  <2>2. FreeDesc \in Desc /\ FreeDesc.next = NULL /\ FreeDesc.prev = NULL
    BY DEF FreeDesc, Desc
  <2>3. descs[victim].next = NULL /\ descs[victim].prev = NULL
    BY <2>1 DEF TableInv, ChainsAreSingletons
  <2>4. DescsWithout(victim) = [s \in Slot |-> IF s = victim THEN FreeDesc ELSE descs[s]]
    BY <1>2, <2>3, NullIsNoSlot DEF DescsWithout
  <2>5. /\ DescsWithout(victim) \in [Slot -> Desc]
        /\ \A s \in Slot : /\ DescsWithout(victim)[s].next = NULL
                           /\ DescsWithout(victim)[s].prev = NULL
    BY <2>2, <2>4 DEF TableInv, TableTypes, ChainsAreSingletons
  <2>6. BucketsWithout(victim) \in [Buckets -> Slot \cup {NULL}]
    BY <2>3 DEF TableInv, TableTypes, BucketsWithout
  <2>7. StreamsWithout(victim) \subseteq Stream
    BY DEF TableInv, TableTypes, StreamsWithout
  <2> QED BY <2>5, <2>6, <2>7
<1> QED BY <1>1, <1>2

\* Changing one field of one slot keeps the types of the slots.
LEMMA SlotField ==
  ASSUME NEW table \in [Slot -> Desc], NEW s \in Slot
  PROVE  /\ \A n \in Int : [table EXCEPT ![s].refs = n] \in [Slot -> Desc]
         /\ \A n \in Nat : [table EXCEPT ![s].last_access = n] \in [Slot -> Desc]
         /\ \A f \in Stream \cup {NULL} : [table EXCEPT ![s].fd = f] \in [Slot -> Desc]
         /\ \A k \in Keys \cup {NULL} : [table EXCEPT ![s].hash = k] \in [Slot -> Desc]
BY DEF Desc

-----------------------------------------------------------------------------
(* prepare_file and release_desc keep the table's invariant.               *)

\* Hit keeps the types and links no slot.
LEMMA HitKeeps ==
  ASSUME TableInv, NEW key \in Keys, NEW r \in Results, Hit(key, r)
  PROVE  TableInv'
<1>1. PICK depth \in Slot : WalkEnds(key, depth, r)
  BY DEF Hit
<1>2. depth = 0 /\ r \in Slot
  <2>0. r # NULL
    BY TableAssumption DEF Results, FAILED, ABSENT, Slot
  <2>1. r \in Slot
    <3>1. PICK walk \in [0 .. depth -> Slot] : walk[depth] = r
      BY <1>1, <2>0 DEF WalkEnds
    <3>2. depth \in 0 .. depth
      BY DEF Slot
    <3> QED BY <3>1, <3>2
  <2> QED BY <1>1, <2>1, WalkIsShort
<1>3. descs' = [descs EXCEPT ![r] = [descs[r] EXCEPT !.refs = @ + 1, !.last_access = clock]]
  BY <1>2 DEF Hit, TableInv, TableTypes
<1>4. [descs[r] EXCEPT !.refs = @ + 1, !.last_access = clock] \in Desc
  <2>1. descs[r] \in Desc /\ clock \in Nat
    BY <1>2 DEF TableInv, TableTypes
  <2>2. descs[r].refs + 1 \in Int
    BY <2>1 DEF Desc
  <2> HIDE DEF Stream
  <2> QED BY <2>1, <2>2 DEF Desc
<1>5. descs' \in [Slot -> Desc] /\ ChainsAreSingletons'
  BY <1>2, <1>3, <1>4 DEF TableInv, TableTypes, ChainsAreSingletons, Desc
<1> QED BY <1>5 DEF Hit, TableInv, TableTypes

\* Reject keeps the types and links no slot.
LEMMA RejectKeeps ==
  ASSUME TableInv, NEW key \in Keys, NEW r \in Results, Reject(key, r)
  PROVE  TableInv'
<1>1. 0 \in Slot
  BY TableAssumption DEF Slot
<1> QED BY <1>1 DEF Reject, TableInv, TableTypes, ChainsAreSingletons

\* A slot was taken and possibly one emptied for it.
LEMMA TakenTypes ==
  ASSUME TableInv, NEW victim \in Slot \cup {NULL}, NEW slot \in Slot,
         TakeSlot(victim, slot)
  PROVE  /\ idx' \in Slot
         /\ XXTABLE' \in [Buckets -> Slot \cup {NULL}]
         /\ streams' \subseteq Stream
         /\ files' \subseteq Keys
         /\ clock' \in Nat
BY EvictionTypes DEF TakeSlot, TableInv, TableTypes

\* NotOpened keeps the types and links no slot.
LEMMA NotOpenedKeeps ==
  ASSUME TableInv, NEW key \in Keys, NEW mode, NEW r \in Results,
         NotOpened(key, mode, r)
  PROVE  TableInv'
<1>1. PICK victim \in Slot \cup {NULL}, slot \in Slot :
        TakeSlot(victim, slot) /\ descs' = DescsWithout(victim)
  BY DEF NotOpened
<1>2. descs' \in [Slot -> Desc] /\ ChainsAreSingletons'
  BY <1>1, EvictionTypes DEF ChainsAreSingletons
<1>3. UNCHANGED <<clobbered, orphaned>>
  BY DEF NotOpened
<1> QED BY <1>1, <1>2, <1>3, TakenTypes DEF TableInv, TableTypes

\* FopenFails keeps the types and links no slot.
LEMMA FopenFailsKeeps ==
  ASSUME TableInv, NEW key \in Keys, NEW mode, NEW r \in Results,
         FopenFails(key, mode, r)
  PROVE  TableInv'
<1>1. PICK victim \in Slot \cup {NULL}, slot \in Slot :
        /\ TakeSlot(victim, slot)
        /\ descs' = [DescsWithout(victim) EXCEPT ![slot].fd = NULL]
        /\ clobbered' = (clobbered \/ victim \notin {NULL, slot})
  BY DEF FopenFails
<1>2. descs' \in [Slot -> Desc]
  BY <1>1, EvictionTypes, SlotField
<1>3. ChainsAreSingletons'
  BY <1>1, EvictionTypes DEF ChainsAreSingletons, Desc
<1>4. clobbered' \in BOOLEAN /\ orphaned' \in BOOLEAN
  BY <1>1 DEF FopenFails, TableInv, TableTypes
<1> QED BY <1>1, <1>2, <1>3, <1>4, TakenTypes DEF TableInv, TableTypes

\* Filling a slot in keeps the types, and links nothing.
LEMMA FilledKeeps ==
  ASSUME TableInv, NEW key \in Keys, NEW slot \in Slot, NEW table \in [Slot -> Desc],
         \A s \in Slot : table[s].next = NULL /\ table[s].prev = NULL
  PROVE  /\ Filled(table, slot, key) \in [Slot -> Desc]
         /\ \A s \in Slot : /\ Filled(table, slot, key)[s].next = NULL
                            /\ Filled(table, slot, key)[s].prev = NULL
<1> DEFINE d == [table[slot] EXCEPT !.hash = key, !.fd = NewStream(key),
                                    !.last_access = clock, !.refs = 1]
<1>1. NewStream(key) \in Stream /\ clock \in Nat /\ 1 \in Int
  BY DEF TableInv, TableTypes, Stream, NewStream
<1>2. table[slot] \in Desc /\ table[slot].next = NULL /\ table[slot].prev = NULL
  OBVIOUS
<1>3. d \in Desc /\ d.next = NULL /\ d.prev = NULL
  BY <1>1, <1>2 DEF Desc
<1>4. Filled(table, slot, key) = [table EXCEPT ![slot] = d]
  BY DEF Filled
<1> HIDE DEF d
<1> QED BY <1>3, <1>4

\* Open keeps the types and links no slot.
LEMMA OpenKeeps ==
  ASSUME TableInv, NEW key \in Keys, NEW mode, NEW r \in Results, Open(key, mode, r)
  PROVE  TableInv'
<1>1. PICK depth \in Slot, last \in Slot \cup {NULL},
           victim \in Slot \cup {NULL}, slot \in Slot :
        /\ Miss(key, depth, last)
        /\ SlotTaken(victim, slot)
        /\ r = slot
        /\ idx' = slot
        /\ streams' = StreamsWithout(victim) \cup {NewStream(key)}
        /\ descs' = Linked(Filled(DescsWithout(victim), slot, key), slot, last, depth)
        /\ XXTABLE' = BucketsWith(key, slot, depth, victim)
        /\ clobbered' = (clobbered \/ victim \notin {NULL, slot})
        /\ orphaned' = (orphaned \/ (depth = 0 /\ last \notin {NULL, victim}))
  BY DEF Open
<1>2. depth = 0
  BY <1>1, WalkIsShort DEF Miss
<1>3. NewStream(key) \in Stream
  BY DEF TableInv, TableTypes, Stream, NewStream
<1>4. descs' = Filled(DescsWithout(victim), slot, key)
  BY <1>1, <1>2 DEF Linked
<1>5. descs' \in [Slot -> Desc] /\ ChainsAreSingletons'
  BY <1>4, EvictionTypes, FilledKeeps DEF ChainsAreSingletons
<1>6. XXTABLE' \in [Buckets -> Slot \cup {NULL}]
  BY <1>1, EvictionTypes DEF BucketsWith
<1>7. streams' \subseteq Stream
  BY <1>1, <1>3, EvictionTypes
<1>8. clobbered' \in BOOLEAN /\ orphaned' \in BOOLEAN
  BY <1>1 DEF TableInv, TableTypes
<1>9. idx' \in Slot /\ files' \subseteq Keys /\ clock' \in Nat
  BY <1>1 DEF Open, TableInv, TableTypes
<1> QED BY <1>5, <1>6, <1>7, <1>8, <1>9 DEF TableInv, TableTypes

\* prepare_file, however it ends.
LEMMA PrepareKeeps ==
  ASSUME TableInv, NEW key \in Keys, NEW mode, NEW r \in Results,
         prepare_file(key, mode, r)
  PROVE  TableInv'
BY HitKeeps, RejectKeeps, NotOpenedKeeps, FopenFailsKeeps, OpenKeeps DEF prepare_file
\* release_desc keeps the types and the links.
LEMMA ReleaseKeeps ==
  ASSUME TableInv, NEW s \in Slot,
         descs' = [descs EXCEPT ![s].refs = @ - 1],
         UNCHANGED <<XXTABLE, idx, streams, files, clock, clobbered, orphaned>>
  PROVE  TableInv'
<1>1. descs[s] \in Desc /\ descs[s].refs - 1 \in Int
  BY DEF TableInv, TableTypes, Desc
<1>2. descs' \in [Slot -> Desc]
  BY <1>1, SlotField DEF TableInv, TableTypes
<1>3. ChainsAreSingletons'
  BY <1>1 DEF TableInv, TableTypes, ChainsAreSingletons, Desc
<1> QED BY <1>2, <1>3 DEF TableInv, TableTypes

-----------------------------------------------------------------------------
(* The jobs of the workers.                                                *)

JobTypes ==
  /\ pc \in [Workers -> {"idle", "key", "sources", "run", "release"}]
  /\ cmd \in [Workers -> Commands \cup {NULL}]
  /\ args \in [Workers -> [Arg -> Keys \cup {NULL}]]
  /\ count \in [Workers -> Arg]
  /\ desc \in [Workers -> [Arg -> Slot \cup {NULL}]]
  /\ tmp \in [Workers -> [Arg -> Slot \cup {NULL}]]
  /\ leaked \in [Slot -> Nat]

\* What is still to be prepared has a key.
KeysKnown ==
  \A w \in Workers :
    /\ pc[w] = "key" => args[w][0] \in Keys
    /\ pc[w] \in {"key", "sources"} => \A i \in 1 .. count[w] : args[w][i] \in Keys

TypeInv == TableInv /\ JobTypes /\ KeysKnown /\ closed \in BOOLEAN

\* job->desc[] has finitely many places, the first among them.
LEMMA ArgFacts == /\ IsFiniteSet(Arg)
                  /\ 0 \in Arg
                  /\ \A n \in Arg : 1 .. n \subseteq Arg
                  /\ \A S \in SUBSET Arg : IsFiniteSet(S) /\ Cardinality(S) \in Nat
<1>0. MaxSources \in Int
  BY TableAssumption
<1>1. IsFiniteSet(Arg)
  BY <1>0, FS_Interval DEF Arg
<1>2. 0 \in Arg /\ \A n \in Arg : 1 .. n \subseteq Arg
  BY TableAssumption DEF Arg
<1> QED BY <1>1, <1>2, FS_Subset, FS_CardinalityType

Given(a) == {i \in Arg \ {0} : a[i] # NULL}

\* The keys of a request come first, without gaps.
LEMMA RequestFacts ==
  ASSUME NEW q \in Requests
  PROVE  /\ q[1] \in Commands
         /\ q[2] \in [Arg -> Keys \cup {NULL}]
         /\ q[1] # "BITCOP" => q[2][0] \in Keys
         /\ Cardinality(Given(q[2])) \in Arg
         /\ \A i \in 1 .. Cardinality(Given(q[2])) : q[2][i] \in Keys
<1>1. q[1] \in Commands
  BY DEF Requests
<1>2. CASE \E c \in {"SETBIT", "GETBIT"}, k \in Keys :
             q = <<c, [i \in Arg |-> IF i = 0 THEN k ELSE NULL]>>
  <2>1. Given(q[2]) = {}
    BY <1>2 DEF Given
  <2>2. Cardinality(Given(q[2])) = 0
    BY <2>1, FS_EmptySet
  <2> QED BY <1>1, <1>2, <2>2, ArgFacts
<1>3. CASE \E c \in {"BITOP", "BITCOP"}, d \in Keys \cup {NULL},
              n \in 1 .. MaxSources : \E src \in [1 .. n -> Keys] :
             /\ c = "BITOP" => d \in Keys
             /\ q = <<c, [i \in Arg |-> IF i = 0 THEN d
                                        ELSE IF i \in DOMAIN src THEN src[i] ELSE NULL]>>
  <2>0. PICK c \in {"BITOP", "BITCOP"}, d \in Keys \cup {NULL}, n \in 1 .. MaxSources :
          \E src \in [1 .. n -> Keys] :
             /\ c = "BITOP" => d \in Keys
             /\ q = <<c, [i \in Arg |-> IF i = 0 THEN d
                                        ELSE IF i \in DOMAIN src THEN src[i] ELSE NULL]>>
    BY <1>3
  <2>1. PICK src \in [1 .. n -> Keys] :
             /\ c = "BITOP" => d \in Keys
             /\ q = <<c, [i \in Arg |-> IF i = 0 THEN d
                                        ELSE IF i \in 1 .. n THEN src[i] ELSE NULL]>>
    BY <2>0
  <2>2. n \in Arg /\ 1 .. n \subseteq Arg \ {0}
    BY TableAssumption DEF Arg
  <2>3. Given(q[2]) = 1 .. n
    BY <2>1, <2>2, TableAssumption DEF Given
  <2>4. Cardinality(1 .. n) = n
    <3>1. n \in Nat \ {0}
      BY TableAssumption
    <3> QED BY <3>1, FS_Interval
  <2>5. \A i \in 1 .. n : q[2][i] = src[i]
    BY <2>1, <2>2
  <2>6. q[2] \in [Arg -> Keys \cup {NULL}] /\ (c # "BITCOP" => q[2][0] \in Keys)
    BY <2>1, ArgFacts
  <2> QED BY <1>1, <2>1, <2>2, <2>3, <2>4, <2>5, <2>6
<1> QED BY <1>2, <1>3 DEF Requests

-----------------------------------------------------------------------------
(* Type correctness.                                                       *)

\* Storing a slot into a job keeps the type of the jobs.
LEMMA PointerTypes ==
  ASSUME NEW f \in [Workers -> [Arg -> Slot \cup {NULL}]], NEW w \in Workers,
         NEW i \in Arg, NEW s \in Slot \cup {NULL}
  PROVE  [f EXCEPT ![w][i] = s] \in [Workers -> [Arg -> Slot \cup {NULL}]]
<1>1. [f[w] EXCEPT ![i] = s] \in [Arg -> Slot \cup {NULL}]
  OBVIOUS
<1> QED BY <1>1

\* The types at the start.
LEMMA InitTypes == Init => TypeInv
<1> SUFFICES ASSUME Init PROVE TypeInv
  OBVIOUS
<1>1. FreeDesc \in Desc /\ FreeDesc.next = NULL /\ FreeDesc.prev = NULL
  BY DEF FreeDesc, Desc
<1>2. 0 \in Slot
  BY TableAssumption DEF Slot
<1>3. TableInv
  BY <1>1, <1>2 DEF Init, TableInv, TableTypes, ChainsAreSingletons
<1>4. JobTypes
  BY ArgFacts DEF Init, JobTypes, NoArgs, NoDescs
<1>5. KeysKnown
  BY DEF Init, KeysKnown
<1> QED BY <1>3, <1>4, <1>5 DEF TypeInv, Init

\* Start keeps the types.
LEMMA StartTypes ==
  ASSUME TypeInv, NEW w \in Workers, StartCommand(w)
  PROVE  TypeInv'
<1>1. PICK q \in Requests :
       /\ cmd' = [cmd EXCEPT ![w] = q[1]]
       /\ args' = [args EXCEPT ![w] = q[2]]
       /\ count' = [count EXCEPT ![w] = Cardinality(Given(q[2]))]
       /\ pc' = [pc EXCEPT ![w] = IF q[1] = "BITCOP" THEN "sources" ELSE "key"]
  BY DEF StartCommand, Given
<1>2. UNCHANGED <<desc, tmp, leaked, tableVars, closed>>
  BY DEF StartCommand
<1>3. TableInv' /\ closed' \in BOOLEAN
  BY <1>2 DEF TypeInv, TableInv, TableTypes, ChainsAreSingletons, tableVars
<1>4. JobTypes'
  BY <1>1, <1>2, RequestFacts DEF TypeInv, JobTypes
<1>5. KeysKnown'
  BY <1>1, RequestFacts DEF TypeInv, JobTypes, KeysKnown
<1> QED BY <1>3, <1>4, <1>5 DEF TypeInv

\* PrepareKey keeps the types.
LEMMA PrepareKeyTypes ==
  ASSUME TypeInv, NEW w \in Workers, PrepareKey(w)
  PROVE  TypeInv'
<1>1. pc[w] = "key" /\ UNCHANGED <<cmd, args, count, tmp, leaked, closed>>
  BY DEF PrepareKey
<1>2. PICK r \in Results :
       /\ prepare_file(args[w][0], Mode(cmd[w]), r)
       /\ \/ /\ r \in Slot
             /\ desc' = [desc EXCEPT ![w][0] = r]
             /\ pc' = [pc EXCEPT ![w] = IF cmd[w] = "BITOP" THEN "sources" ELSE "run"]
          \/ /\ r \in {FAILED, ABSENT}
             /\ pc' = [pc EXCEPT ![w] = "release"]
             /\ UNCHANGED desc
  BY DEF PrepareKey
<1>3. args[w][0] \in Keys
  BY <1>1 DEF TypeInv, KeysKnown
<1>4. TableInv'
  BY <1>2, <1>3, PrepareKeeps DEF TypeInv
<1>5. JobTypes'
  <2>1. desc' \in [Workers -> [Arg -> Slot \cup {NULL}]]
    <3>1. CASE desc' = [desc EXCEPT ![w][0] = r] /\ r \in Slot
      BY <3>1, ArgFacts, PointerTypes DEF TypeInv, JobTypes
    <3>2. CASE UNCHANGED desc
      BY <3>2 DEF TypeInv, JobTypes
    <3> QED BY <1>2, <3>1, <3>2
  <2>2. pc' \in [Workers -> {"idle", "key", "sources", "run", "release"}]
    BY <1>2 DEF TypeInv, JobTypes
  <2> QED BY <1>1, <2>1, <2>2 DEF TypeInv, JobTypes
<1>6. KeysKnown'
  BY <1>1, <1>2 DEF TypeInv, JobTypes, KeysKnown
<1> QED BY <1>1, <1>4, <1>5, <1>6 DEF TypeInv

\* PrepareSource keeps the types.
LEMMA PrepareSourceTypes ==
  ASSUME TypeInv, NEW w \in Workers, PrepareSource(w)
  PROVE  TypeInv'
<1>1. /\ pc[w] = "sources" /\ count[w] > 0
      /\ count' = [count EXCEPT ![w] = @ - 1]
      /\ UNCHANGED <<cmd, args, desc, closed>>
  BY DEF PrepareSource
<1>2. PICK r \in Results :
       /\ prepare_file(args[w][count[w]], 1, r)
       /\ \/ /\ r \in Slot
             /\ tmp' = [tmp EXCEPT ![w][count[w]] = r]
             /\ UNCHANGED <<pc, leaked>>
          \/ /\ r = ABSENT
             /\ UNCHANGED <<tmp, pc, leaked>>
          \/ /\ r = FAILED
             /\ tmp' = [tmp EXCEPT ![w] = NoDescs]
             /\ leaked' = [s \in Slot |->
                            leaked[s] + Cardinality({i \in Arg : tmp[w][i] = s})]
             /\ pc' = [pc EXCEPT ![w] = "release"]
  BY DEF PrepareSource
<1>3. count[w] \in Arg /\ count[w] - 1 \in Arg /\ count[w] \in 1 .. count[w]
  BY <1>1, TableAssumption DEF TypeInv, JobTypes, Arg
<1>4. args[w][count[w]] \in Keys
  BY <1>1, <1>3 DEF TypeInv, KeysKnown
<1>5. TableInv'
  BY <1>2, <1>4, PrepareKeeps DEF TypeInv
<1>6. JobTypes'
  <2>1. leaked' \in [Slot -> Nat]
    <3> DEFINE lost(s) == Cardinality({i \in Arg : tmp[w][i] = s})
    <3>1. \A s \in Slot : lost(s) \in Nat
      BY ArgFacts
    <3>2. UNCHANGED leaked \/ leaked' = [s \in Slot |-> leaked[s] + lost(s)]
      BY <1>2
    <3> HIDE DEF lost
    <3> QED BY <3>1, <3>2 DEF TypeInv, JobTypes
  <2>2. NoDescs \in [Arg -> Slot \cup {NULL}]
    BY DEF NoDescs
  <2>3. tmp' \in [Workers -> [Arg -> Slot \cup {NULL}]]
    <3>1. CASE tmp' = [tmp EXCEPT ![w][count[w]] = r] /\ r \in Slot
      BY <1>3, <3>1, PointerTypes DEF TypeInv, JobTypes
    <3>2. CASE tmp' = [tmp EXCEPT ![w] = NoDescs]
      BY <2>2, <3>2 DEF TypeInv, JobTypes
    <3>3. CASE UNCHANGED tmp
      BY <3>3 DEF TypeInv, JobTypes
    <3> QED BY <1>2, <3>1, <3>2, <3>3
  <2>4. count' \in [Workers -> Arg]
    BY <1>1, <1>3 DEF TypeInv, JobTypes
  <2>5. pc' \in [Workers -> {"idle", "key", "sources", "run", "release"}]
    BY <1>2 DEF TypeInv, JobTypes
  <2> QED BY <1>1, <2>1, <2>3, <2>4, <2>5 DEF TypeInv, JobTypes
<1>7. KeysKnown'
  <2>1. \A i \in 1 .. count[w] - 1 : i \in 1 .. count[w]
    BY <1>3 DEF Arg
  <2> QED BY <1>1, <1>2, <2>1 DEF TypeInv, JobTypes, KeysKnown
<1> QED BY <1>1, <1>5, <1>6, <1>7 DEF TypeInv

\* SourcesReady keeps the types.
LEMMA SourcesReadyTypes ==
  ASSUME TypeInv, NEW w \in Workers, SourcesReady(w)
  PROVE  TypeInv'
<1>1. TableInv' /\ closed' \in BOOLEAN
  BY DEF SourcesReady, TypeInv, TableInv, TableTypes, ChainsAreSingletons, tableVars
<1>2. JobTypes'
  BY DEF SourcesReady, TypeInv, JobTypes, NoDescs
<1>3. KeysKnown'
  BY DEF SourcesReady, TypeInv, JobTypes, KeysKnown
<1> QED BY <1>1, <1>2, <1>3 DEF TypeInv

\* ReleaseDesc keeps the types.
LEMMA ReleaseDescTypes ==
  ASSUME TypeInv, NEW w \in Workers, ReleaseDesc(w)
  PROVE  TypeInv'
<1>1. PICK i \in Arg :
       /\ desc[w][i] # NULL
       /\ descs' = [descs EXCEPT ![desc[w][i]].refs = @ - 1]
       /\ desc' = [desc EXCEPT ![w][i] = NULL]
  BY DEF ReleaseDesc
<1>2. UNCHANGED <<pc, cmd, args, count, tmp, leaked, closed,
                  XXTABLE, idx, streams, files, clock, clobbered, orphaned>>
  BY DEF ReleaseDesc
<1>3. desc[w][i] \in Slot
  BY <1>1 DEF TypeInv, JobTypes
<1>4. TableInv'
  BY <1>1, <1>2, <1>3, ReleaseKeeps DEF TypeInv
<1>5. JobTypes'
  <2>1. desc' \in [Workers -> [Arg -> Slot \cup {NULL}]]
    BY <1>1, PointerTypes DEF TypeInv, JobTypes
  <2> QED BY <1>2, <2>1 DEF TypeInv, JobTypes
<1>6. KeysKnown'
  BY <1>2 DEF TypeInv, KeysKnown
<1> QED BY <1>2, <1>4, <1>5, <1>6 DEF TypeInv

\* Execute keeps the types.
LEMMA ExecuteTypes ==
  ASSUME TypeInv, NEW w \in Workers, Execute(w) \/ FinishCommand(w)
  PROVE  TypeInv'
<1>1. TableInv' /\ closed' \in BOOLEAN
  BY DEF Execute, FinishCommand, TypeInv, TableInv, TableTypes, ChainsAreSingletons, tableVars
<1>2. JobTypes'
  <2>1. CASE Execute(w)
    BY <2>1 DEF Execute, TypeInv, JobTypes
  <2>2. CASE FinishCommand(w)
    <3>1. NoArgs \in [Arg -> Keys \cup {NULL}]
      BY DEF NoArgs
    <3> QED BY <2>2, <3>1 DEF FinishCommand, TypeInv, JobTypes
  <2> QED BY <2>1, <2>2
<1>3. KeysKnown'
  BY DEF Execute, FinishCommand, TypeInv, JobTypes, KeysKnown
<1> QED BY <1>1, <1>2, <1>3 DEF TypeInv

\* CloseFiles keeps the types.
LEMMA CloseFilesTypes == TypeInv /\ close_files => TypeInv'
BY DEF close_files, jobVars, TypeInv, TableInv, TableTypes, ChainsAreSingletons,
       JobTypes, KeysKnown

\* A stuttering step.
LEMMA StutterTypes == TypeInv /\ UNCHANGED vars => TypeInv'
BY DEF vars, tableVars, jobVars, TypeInv, TableInv, TableTypes, ChainsAreSingletons,
       JobTypes, KeysKnown

\* Every step keeps the types.
LEMMA NextTypes == TypeInv /\ [NextWithTerm]_vars => TypeInv'
<1> SUFFICES ASSUME TypeInv, [NextWithTerm]_vars PROVE TypeInv'
  OBVIOUS
<1>1. CASE close_files
  BY <1>1, CloseFilesTypes
<1>2. CASE UNCHANGED vars
  BY <1>2, StutterTypes
<1>3. CASE Next
  <2>1. PICK w \in Workers : Worker(w)
    BY <1>3 DEF Next
  <2> QED BY <2>1, StartTypes, PrepareKeyTypes, PrepareSourceTypes, SourcesReadyTypes,
             ReleaseDescTypes, ExecuteTypes DEF Worker
<1> QED BY <1>1, <1>2, <1>3 DEF NextWithTerm

\* Every variable keeps its type, through evictions, failures and SIGTERM: in
\* particular the cursor of get_avalible_slot never leaves the table.
THEOREM TypeCorrect == SpecWithTerm => []TypeOK
<1>1. TypeInv => TypeOK
  BY DEF TypeInv, TableInv, TableTypes, JobTypes, TypeOK, Desc
<1> QED BY <1>1, InitTypes, NextTypes, PTL DEF SpecWithTerm

-----------------------------------------------------------------------------
(* Who uses which slot: the inductive invariant.                           *)

\* Which descriptors a job may hold where it is.
JobHolds ==
  \A w \in Workers :
    /\ pc[w] \in {"idle", "key"} => \A i \in Arg : desc[w][i] = NULL
    /\ pc[w] = "sources" => \A i \in Arg \ {0} : desc[w][i] = NULL
    /\ pc[w] = "sources" => \A i \in 0 .. count[w] : tmp[w][i] = NULL
    /\ pc[w] # "sources" => \A i \in Arg : tmp[w][i] = NULL

\* Every occupied slot has a stream of its own on the file of its key, opened
\* before now and, until SIGTERM, not closed; and there are no other streams.
SlotStreams ==
  /\ \A s \in Slot : Occupied(s) => /\ descs[s].fd \in Stream
                                    /\ descs[s].fd.file = descs[s].hash
                                    /\ descs[s].fd.opened < clock
  /\ \A s, t \in Slot : Occupied(s) /\ Occupied(t) /\ descs[s].fd = descs[t].fd => s = t
  /\ ~closed => \A s \in Slot : Occupied(s) => descs[s].fd \in streams
  /\ \A f \in streams : \E s \in Slot : Occupied(s) /\ descs[s].fd = f

\* refs counts the holders, who hold a slot of their key, and what is leaked.
RefsExact ==
  /\ \A s \in Slot : descs[s].refs = Cardinality(Holders(s)) + leaked[s]
  /\ \A s \in Slot : ~Occupied(s) => descs[s].refs = 0
  /\ \A w \in Workers, i \in Arg, s \in Slot :
       Holds(w, i, s) => descs[s].hash = args[w][i]

OwnershipInv ==
  /\ TypeInv
  /\ JobHolds
  /\ ~clobbered => SlotStreams /\ RefsExact

-----------------------------------------------------------------------------
(* What prepare_file does to the table, one operator per outcome.          *)

\* A hit of slot r.
Used(r, key) ==
  /\ r \in Slot /\ descs[r].hash = key
  /\ \A s \in Slot : /\ descs'[s].hash = descs[s].hash
                     /\ descs'[s].fd = descs[s].fd
                     /\ descs'[s].refs = descs[s].refs + (IF s = r THEN 1 ELSE 0)
  /\ streams' = streams
  /\ clock' = clock + 1

\* Nothing opened, the victim's slot, if there is a victim, emptied.
Emptied(victim) ==
  /\ victim \in Slot => Occupied(victim) /\ descs[victim].refs = 0
  /\ \A s \in Slot : s # victim => /\ descs'[s].hash = descs[s].hash
                                   /\ descs'[s].refs = descs[s].refs
                                   /\ Occupied(s) => descs'[s].fd = descs[s].fd
  /\ victim \in Slot => descs'[victim].hash = NULL /\ descs'[victim].refs = 0
  /\ streams' = StreamsWithout(victim)
  /\ clock' = clock

\* A stream opened in slot r, which was free or the victim's.
Opened(victim, r, key) ==
  /\ r \in Slot
  /\ \/ victim = NULL /\ ~Occupied(r)
     \/ victim = r /\ Occupied(r) /\ descs[r].refs = 0
  /\ \A s \in Slot \ {r} : /\ descs'[s].hash = descs[s].hash
                           /\ descs'[s].fd = descs[s].fd
                           /\ descs'[s].refs = descs[s].refs
  /\ descs'[r].hash = key /\ descs'[r].fd = NewStream(key) /\ descs'[r].refs = 1
  /\ streams' = StreamsWithout(victim) \cup {NewStream(key)}
  /\ clock' = clock + 1

\* As no slot is linked, eviction touches the victim's slot alone.
LEMMA EvictionEmpties ==
  ASSUME TableInv, NEW victim \in Slot \cup {NULL}
  PROVE  DescsWithout(victim) = [s \in Slot |-> IF s = victim THEN FreeDesc ELSE descs[s]]
<1>1. CASE victim = NULL
  BY <1>1, NullIsNoSlot DEF TableInv, TableTypes, DescsWithout
<1>2. CASE victim \in Slot
  <2>1. descs[victim].next = NULL /\ descs[victim].prev = NULL
    BY <1>2 DEF TableInv, ChainsAreSingletons
  <2> QED BY <1>2, <2>1, NullIsNoSlot DEF DescsWithout
<1> QED BY <1>1, <1>2

\* A victim is an occupied slot without references; a slot taken without a
\* victim is free.
LEMMA TakenFacts ==
  ASSUME TableInv, NEW victim \in Slot \cup {NULL}, NEW slot \in Slot,
         SlotTaken(victim, slot)
  PROVE  /\ victim \in Slot => Occupied(victim) /\ descs[victim].refs = 0
         /\ victim = NULL => ~Occupied(slot)
BY NullIsNoSlot DEF SlotTaken, ScanFinds, ScanFull, LeastRecent, Candidates

\* What Hit comes to, slot by slot.
LEMMA HitOutcome ==
  ASSUME TableInv, NEW key \in Keys, NEW r \in Results, Hit(key, r)
  PROVE  Used(r, key)
<1>1. PICK depth \in Slot : WalkEnds(key, depth, r)
  BY DEF Hit
<1>2. r # NULL
  BY TableAssumption DEF Results, FAILED, ABSENT, Slot
<1>3. r \in Slot
  <2>1. PICK walk \in [0 .. depth -> Slot] : walk[depth] = r
    BY <1>1, <1>2 DEF WalkEnds
  <2>2. depth \in 0 .. depth
    BY DEF Slot
  <2> QED BY <2>1, <2>2
<1>4. descs' = [descs EXCEPT ![r] = [descs[r] EXCEPT !.refs = @ + 1, !.last_access = clock]]
  BY <1>3 DEF Hit, TableInv, TableTypes
<1>5. \A s \in Slot : descs[s] \in Desc
  BY DEF TableInv, TableTypes
<1>6. \A s \in Slot : /\ descs'[s].hash = descs[s].hash
                      /\ descs'[s].fd = descs[s].fd
                      /\ descs'[s].refs = descs[s].refs + (IF s = r THEN 1 ELSE 0)
  BY <1>3, <1>4, <1>5 DEF TableInv, TableTypes, Desc
<1> QED BY <1>3, <1>6 DEF Hit, Used

\* What NotOpened comes to, slot by slot.
LEMMA NotOpenedOutcome ==
  ASSUME TableInv, NEW key \in Keys, NEW mode, NEW r \in Results,
         NotOpened(key, mode, r)
  PROVE  /\ r \notin Slot /\ clobbered' = clobbered
         /\ \E victim \in Slot \cup {NULL} : Emptied(victim)
<1>1. PICK victim \in Slot \cup {NULL}, slot \in Slot :
        TakeSlot(victim, slot) /\ descs' = DescsWithout(victim)
  BY DEF NotOpened
<1>2. r \notin Slot
  BY DEF NotOpened, FAILED, ABSENT, Slot
<1>3. descs' = [s \in Slot |-> IF s = victim THEN FreeDesc ELSE descs[s]]
  BY <1>1, EvictionEmpties
<1>4. FreeDesc.hash = NULL /\ FreeDesc.refs = 0
  BY DEF FreeDesc
<1>5. Emptied(victim)
  BY <1>1, <1>3, <1>4, TakenFacts, NullIsNoSlot DEF Emptied, TakeSlot
<1> QED BY <1>2, <1>5 DEF NotOpened

\* What FopenFails comes to, slot by slot.
LEMMA FopenFailsOutcome ==
  ASSUME TableInv, NEW key \in Keys, NEW mode, NEW r \in Results,
         FopenFails(key, mode, r), ~clobbered'
  PROVE  /\ r \notin Slot /\ ~clobbered
         /\ \E victim \in Slot \cup {NULL} : Emptied(victim)
<1>1. PICK victim \in Slot \cup {NULL}, slot \in Slot :
        /\ TakeSlot(victim, slot)
        /\ descs' = [DescsWithout(victim) EXCEPT ![slot].fd = NULL]
        /\ clobbered' = (clobbered \/ victim \notin {NULL, slot})
  BY DEF FopenFails
<1>2. r \notin Slot
  BY DEF FopenFails, FAILED, Slot
<1>3. victim \in {NULL, slot} /\ ~clobbered
  BY <1>1
<1>4. DescsWithout(victim) = [s \in Slot |-> IF s = victim THEN FreeDesc ELSE descs[s]]
  BY EvictionEmpties
<1>5. FreeDesc \in Desc /\ FreeDesc.hash = NULL /\ FreeDesc.refs = 0
  BY DEF FreeDesc, Desc
<1>6. \A s \in Slot : DescsWithout(victim)[s] \in Desc
  BY EvictionTypes
<1>7. \A s \in Slot : /\ descs'[s].hash = DescsWithout(victim)[s].hash
                      /\ descs'[s].refs = DescsWithout(victim)[s].refs
                      /\ s # slot => descs'[s].fd = DescsWithout(victim)[s].fd
  BY <1>1, <1>6, EvictionTypes DEF Desc
<1>8. SlotTaken(victim, slot) /\ streams' = StreamsWithout(victim) /\ clock' = clock
  BY <1>1 DEF TakeSlot
<1>9. Emptied(victim)
  BY <1>3, <1>4, <1>5, <1>7, <1>8, TakenFacts, NullIsNoSlot DEF Emptied
<1> QED BY <1>2, <1>3, <1>9

\* What Open comes to, slot by slot.
LEMMA OpenOutcome ==
  ASSUME TableInv, NEW key \in Keys, NEW mode, NEW r \in Results,
         Open(key, mode, r), ~clobbered'
  PROVE  /\ ~clobbered
         /\ \E victim \in Slot \cup {NULL} : Opened(victim, r, key)
<1>1. PICK depth \in Slot, last \in Slot \cup {NULL},
           victim \in Slot \cup {NULL}, slot \in Slot :
        /\ Miss(key, depth, last)
        /\ SlotTaken(victim, slot)
        /\ r = slot
        /\ streams' = StreamsWithout(victim) \cup {NewStream(key)}
        /\ descs' = Linked(Filled(DescsWithout(victim), slot, key), slot, last, depth)
        /\ clobbered' = (clobbered \/ victim \notin {NULL, slot})
  BY DEF Open
<1>2. depth = 0
  BY <1>1, WalkIsShort DEF Miss
<1>3. descs' = Filled(DescsWithout(victim), slot, key)
  BY <1>1, <1>2 DEF Linked
<1>4. victim \in {NULL, slot} /\ ~clobbered
  BY <1>1
<1>5. DescsWithout(victim) = [s \in Slot |-> IF s = victim THEN FreeDesc ELSE descs[s]]
  BY EvictionEmpties
<1>6. \A s \in Slot : DescsWithout(victim)[s] \in Desc
  BY EvictionTypes
<1> DEFINE d == [DescsWithout(victim)[slot] EXCEPT !.hash = key, !.fd = NewStream(key),
                                                    !.last_access = clock, !.refs = 1]
<1>7. descs' = [DescsWithout(victim) EXCEPT ![slot] = d]
  BY <1>3 DEF Filled
<1>8. d.hash = key /\ d.fd = NewStream(key) /\ d.refs = 1
  BY <1>6 DEF Desc
<1> HIDE DEF d
<1>9. descs'[slot] = d /\ \A s \in Slot \ {slot} : descs'[s] = descs[s]
  BY <1>4, <1>5, <1>7, EvictionTypes, NullIsNoSlot
<1>10. Opened(victim, r, key)
  BY <1>1, <1>4, <1>8, <1>9, TakenFacts, NullIsNoSlot DEF Opened, Open
<1> QED BY <1>4, <1>10

\* prepare_file, however it ends.
LEMMA PrepareOutcome ==
  ASSUME TableInv, NEW key \in Keys, NEW mode, NEW r \in Results,
         prepare_file(key, mode, r), ~clobbered'
  PROVE  /\ ~clobbered
         /\ \/ Used(r, key)
            \/ r \notin Slot /\ \E victim \in Slot \cup {NULL} : Emptied(victim)
            \/ \E victim \in Slot \cup {NULL} : Opened(victim, r, key)
<1>1. CASE Reject(key, r)
  <2>1. r \notin Slot
    BY <1>1 DEF Reject, FAILED, Slot
  <2>2. Emptied(NULL)
    BY <1>1, NullIsNoSlot DEF Reject, Emptied, StreamsWithout
  <2> QED BY <1>1, <2>1, <2>2 DEF Reject
<1>2. CASE Hit(key, r)
  BY <1>2, HitOutcome DEF Hit
<1> QED BY <1>1, <1>2, NotOpenedOutcome, FopenFailsOutcome, OpenOutcome DEF prepare_file

-----------------------------------------------------------------------------
(* The streams.                                                            *)

\* What the streams need to know of a step of the table.
LEMMA StreamsUsed ==
  ASSUME TypeInv, SlotStreams, NEW r, NEW key \in Keys, Used(r, key), closed' = closed
  PROVE  SlotStreams'
<1>1. clock \in Nat /\ \A s \in Slot : Occupied(s)' <=> Occupied(s)
  BY DEF TypeInv, TableInv, TableTypes, Used, Occupied
<1>2. \A f \in Stream : f.opened < clock => f.opened < clock'
  BY <1>1 DEF Used, Stream
<1> QED BY <1>1, <1>2 DEF SlotStreams, Used

\* Emptying a slot closes its stream and no other.
LEMMA StreamsEmptied ==
  ASSUME TypeInv, SlotStreams, NEW victim \in Slot \cup {NULL}, Emptied(victim),
         closed' = closed
  PROVE  SlotStreams'
<1>1. \A s \in Slot : Occupied(s)' <=> Occupied(s) /\ s # victim
  BY DEF Emptied, Occupied
<1>2. \A s \in Slot : Occupied(s)' => descs'[s].fd = descs[s].fd /\ descs'[s].hash = descs[s].hash
  BY <1>1 DEF Emptied
<1>3. CASE victim = NULL
  BY <1>1, <1>2, <1>3, NullIsNoSlot DEF SlotStreams, Emptied, StreamsWithout
<1>4. CASE victim \in Slot
  <2>1. Occupied(victim) /\ streams' = streams \ {descs[victim].fd}
    BY <1>4, NullIsNoSlot DEF Emptied, StreamsWithout
  <2>2. \A s \in Slot : Occupied(s)' => descs[s].fd # descs[victim].fd
    BY <1>1, <1>4, <2>1 DEF SlotStreams
  <2> QED BY <1>1, <1>2, <2>1, <2>2 DEF SlotStreams, Emptied
<1> QED BY <1>3, <1>4

\* Opening gives a slot a stream no other has.
LEMMA StreamsOpened ==
  ASSUME TypeInv, SlotStreams, NEW victim \in Slot \cup {NULL}, NEW r, NEW key \in Keys,
         Opened(victim, r, key), closed' = closed
  PROVE  SlotStreams'
<1> DEFINE new == NewStream(key)
<1>1. clock \in Nat /\ clock' = clock + 1
  BY DEF TypeInv, TableInv, TableTypes, Opened
<1>2. new \in Stream /\ new.file = key /\ new.opened = clock
  BY <1>1 DEF NewStream, Stream
<1>3. \A f \in Stream : f.opened < clock => f.opened < clock' /\ f # new
  BY <1>1, <1>2 DEF Stream
<1>4. r \in Slot /\ descs'[r].hash = key /\ descs'[r].fd = new
  BY DEF Opened
<1> HIDE DEF new
<1>5. /\ Occupied(r)'
      /\ \A s \in Slot \ {r} : /\ Occupied(s)' <=> Occupied(s)
                               /\ descs'[s].fd = descs[s].fd
                               /\ descs'[s].hash = descs[s].hash
  BY <1>4, NullIsNoSlot DEF Opened, Occupied
<1>6. streams' = (IF Occupied(r) THEN streams \ {descs[r].fd} ELSE streams) \cup {new}
  BY <1>4, NullIsNoSlot DEF Opened, StreamsWithout, new
<1>7. \A s \in Slot \ {r} :
        Occupied(s) => descs[s].fd # new /\ (Occupied(r) => descs[s].fd # descs[r].fd)
  BY <1>3, <1>4 DEF SlotStreams
<1>8. \A s \in Slot : Occupied(s)' => /\ descs'[s].fd \in Stream
                                      /\ descs'[s].fd.file = descs'[s].hash
                                      /\ descs'[s].fd.opened < clock'
  BY <1>1, <1>2, <1>3, <1>4, <1>5 DEF SlotStreams
<1>9. \A s, t \in Slot : Occupied(s)' /\ Occupied(t)' /\ descs'[s].fd = descs'[t].fd => s = t
  <2> SUFFICES ASSUME NEW s \in Slot, NEW t \in Slot, Occupied(s)', Occupied(t)',
                      descs'[s].fd = descs'[t].fd, s # t
               PROVE  FALSE
    OBVIOUS
  <2>1. CASE s # r /\ t # r
    <3>1. Occupied(s) /\ Occupied(t) /\ descs[s].fd = descs[t].fd
      BY <1>5, <2>1
    <3> QED BY <3>1 DEF SlotStreams
  <2>2. CASE s = r \/ t = r
    BY <1>4, <1>5, <1>7, <2>2 DEF Occupied
  <2> QED BY <2>1, <2>2
<1>10. ~closed' => \A s \in Slot : Occupied(s)' => descs'[s].fd \in streams'
  BY <1>4, <1>5, <1>6, <1>7 DEF SlotStreams
<1>11. \A f \in streams' : \E s \in Slot : Occupied(s)' /\ descs'[s].fd = f
  <2> SUFFICES ASSUME NEW f \in streams', f # new
               PROVE  \E s \in Slot : Occupied(s)' /\ descs'[s].fd = f
    BY <1>4, <1>5
  <2>1. f \in streams
    BY <1>6
  <2>2. PICK s \in Slot : Occupied(s) /\ descs[s].fd = f
    BY <2>1 DEF SlotStreams
  <2>3. s # r
    BY <1>6, <2>2
  <2> QED BY <1>5, <2>2, <2>3 DEF Occupied
<1> QED BY <1>8, <1>9, <1>10, <1>11 DEF SlotStreams, Occupied

\* prepare_file keeps streams and slots in step.
LEMMA PrepareStreams ==
  ASSUME TypeInv, SlotStreams, NEW key \in Keys, NEW mode, NEW r \in Results,
         prepare_file(key, mode, r), ~clobbered', closed' = closed
  PROVE  SlotStreams'
BY PrepareOutcome, StreamsUsed, StreamsEmptied, StreamsOpened DEF TypeInv

-----------------------------------------------------------------------------
(* The reference counts.                                                   *)

\* The holders of a slot can be counted.
LEMMA HoldersFinite ==
  ASSUME NEW s \in Slot
  PROVE  IsFiniteSet(Holders(s)) /\ Cardinality(Holders(s)) \in Nat
<1>1. IsFiniteSet(Workers \X Arg)
  BY TableAssumption, ArgFacts, FS_Product
<1>2. IsFiniteSet(Holders(s))
  BY <1>1, FS_Subset DEF Holders
<1> QED BY <1>2, FS_CardinalityType

\* A slot somebody holds has references and is occupied.
LEMMA HeldCounted ==
  ASSUME TypeInv, RefsExact, NEW w \in Workers, NEW i \in Arg, NEW s \in Slot, Holds(w, i, s)
  PROVE  descs[s].refs > 0 /\ Occupied(s)
<1>1. <<w, i>> \in Holders(s)
  BY DEF Holders
<1>2. Cardinality(Holders(s)) # 0 /\ Cardinality(Holders(s)) \in Nat
  BY <1>1, HoldersFinite, FS_EmptySet
<1>3. leaked[s] \in Nat
  BY DEF TypeInv, JobTypes
<1>4. descs[s].refs = Cardinality(Holders(s)) + leaked[s]
  BY DEF RefsExact
<1>5. descs[s].refs > 0
  BY <1>2, <1>3, <1>4
<1> QED BY <1>5 DEF RefsExact

\* prepare_file adds a reference to the slot it returns, and only changes the
\* key of a slot without references.
LEMMA PrepareRefs ==
  ASSUME TypeInv, RefsExact, NEW key \in Keys, NEW mode, NEW r \in Results,
         prepare_file(key, mode, r), ~clobbered'
  PROVE  /\ \A s \in Slot : descs'[s].refs = descs[s].refs + (IF s = r THEN 1 ELSE 0)
         /\ \A s \in Slot : descs[s].refs # 0 => descs'[s].hash = descs[s].hash
         /\ \A s \in Slot : ~Occupied(s)' => descs'[s].refs = 0
         /\ r \in Slot => descs'[r].hash = key
<1>0. \A s \in Slot : descs[s].refs \in Int
  BY DEF TypeInv, TableInv, TableTypes, Desc
<1>1. CASE Used(r, key)
  BY <1>0, <1>1, NullIsNoSlot DEF Used, RefsExact, Occupied
<1>2. ASSUME r \notin Slot, NEW victim \in Slot \cup {NULL}, Emptied(victim)
      PROVE  /\ \A s \in Slot : descs'[s].refs = descs[s].refs + (IF s = r THEN 1 ELSE 0)
             /\ \A s \in Slot : descs[s].refs # 0 => descs'[s].hash = descs[s].hash
             /\ \A s \in Slot : ~Occupied(s)' => descs'[s].refs = 0
  BY <1>0, <1>2 DEF Emptied, RefsExact, Occupied
<1>3. ASSUME NEW victim \in Slot \cup {NULL}, Opened(victim, r, key)
      PROVE  /\ \A s \in Slot : descs'[s].refs = descs[s].refs + (IF s = r THEN 1 ELSE 0)
             /\ \A s \in Slot : descs[s].refs # 0 => descs'[s].hash = descs[s].hash
             /\ \A s \in Slot : ~Occupied(s)' => descs'[s].refs = 0
             /\ descs'[r].hash = key
  <2>1. r \in Slot /\ descs[r].refs = 0
    BY <1>3 DEF Opened, RefsExact
  <2> QED BY <1>0, <1>3, <2>1, NullIsNoSlot DEF Opened, RefsExact, Occupied
<1> QED BY <1>1, <1>2, <1>3, PrepareOutcome DEF TypeInv

\* The holder <<w, i>> is added to slot r, or to none if r is not a slot.
LEMMA RefsTaken ==
  ASSUME TypeInv, RefsExact, NEW key \in Keys, NEW mode, NEW r \in Results,
         prepare_file(key, mode, r), ~clobbered',
         NEW w \in Workers, NEW i \in Arg, args[w][i] = key,
         \A s \in Slot : ~Holds(w, i, s),
         \A v \in Workers, j \in Arg, s \in Slot :
           Holds(v, j, s)' <=> Holds(v, j, s) \/ (v = w /\ j = i /\ s = r),
         UNCHANGED <<args, leaked>>
  PROVE  RefsExact'
<1>1. \A s \in Slot : Holders(s)' = IF s = r THEN Holders(s) \cup {<<w, i>>} ELSE Holders(s)
  BY DEF Holders
<1>2. \A s \in Slot : <<w, i>> \notin Holders(s)
  BY DEF Holders
<1>3. \A s \in Slot : Cardinality(Holders(s)') = Cardinality(Holders(s)) + (IF s = r THEN 1 ELSE 0)
  <2> TAKE s \in Slot
  <2>1. CASE s = r
    <3>1. Holders(s)' = Holders(s) \cup {<<w, i>>}
      BY <1>1, <2>1
    <3>2. Cardinality(Holders(s) \cup {<<w, i>>}) = Cardinality(Holders(s)) + 1
      BY <1>2, HoldersFinite, FS_AddElement
    <3> QED BY <2>1, <3>1, <3>2
  <2>2. CASE s # r
    <3>1. Holders(s)' = Holders(s)
      BY <1>1, <2>2
    <3>2. Cardinality(Holders(s)) \in Nat
      BY HoldersFinite
    <3> QED BY <2>2, <3>1, <3>2
  <2> QED BY <2>1, <2>2
<1>4. \A s \in Slot : descs'[s].refs = Cardinality(Holders(s)') + leaked'[s]
  <2> TAKE s \in Slot
  <2>1. Cardinality(Holders(s)) \in Nat /\ leaked[s] \in Nat
    BY HoldersFinite DEF TypeInv, JobTypes
  <2>2. descs[s].refs = Cardinality(Holders(s)) + leaked[s]
    BY DEF RefsExact
  <2> QED BY <1>3, <2>1, <2>2, PrepareRefs
<1>5. ASSUME NEW v \in Workers, NEW j \in Arg, NEW s \in Slot, Holds(v, j, s)'
      PROVE  descs'[s].hash = args'[v][j]
  <2>1. CASE Holds(v, j, s)
    BY <2>1, HeldCounted, PrepareRefs DEF RefsExact
  <2>2. CASE v = w /\ j = i /\ s = r
    BY <2>2, PrepareRefs
  <2> QED BY <1>5, <2>1, <2>2
<1> QED BY <1>4, <1>5, PrepareRefs DEF RefsExact, Holders, Occupied

\* Nothing about references changes when no slot and no holder does.
LEMMA RefsKept ==
  ASSUME RefsExact, UNCHANGED <<descs, leaked>>,
         \A v \in Workers, j \in Arg, s \in Slot :
           Holds(v, j, s)' => Holds(v, j, s) /\ args'[v][j] = args[v][j],
         \A v \in Workers, j \in Arg, s \in Slot : Holds(v, j, s) => Holds(v, j, s)'
  PROVE  RefsExact'
<1>1. \A s \in Slot : Holders(s)' = Holders(s)
  BY DEF Holders
<1> QED BY <1>1 DEF RefsExact, Occupied

-----------------------------------------------------------------------------
(* The steps.                                                              *)

\* At the start nobody holds anything.
LEMMA InitOwnership == Init => OwnershipInv
<1> SUFFICES ASSUME Init PROVE OwnershipInv
  OBVIOUS
<1>1. \A w \in Workers, i \in Arg : desc[w][i] = NULL /\ tmp[w][i] = NULL
  BY DEF Init, NoDescs
<1>2. \A s \in Slot : ~Occupied(s) /\ descs[s].refs = 0 /\ leaked[s] = 0
  BY DEF Init, FreeDesc, Occupied
<1>3. \A w \in Workers, i \in Arg, s \in Slot : ~Holds(w, i, s)
  BY <1>1, NullIsNoSlot DEF Holds
<1>4. \A s \in Slot : Holders(s) = {}
  BY <1>3 DEF Holders
<1>5. JobHolds
  BY <1>1, TableAssumption DEF Init, JobHolds, Arg
<1>6. SlotStreams
  BY <1>2 DEF SlotStreams, Init
<1>7. RefsExact
  BY <1>2, <1>3, <1>4, FS_EmptySet DEF RefsExact
<1> QED BY <1>5, <1>6, <1>7, InitTypes DEF OwnershipInv

\* Start keeps the ownership invariant.
LEMMA StartOwnership ==
  ASSUME OwnershipInv, NEW w \in Workers, StartCommand(w), TypeInv'
  PROVE  OwnershipInv'
<1>1. PICK q \in Requests :
       /\ args' = [args EXCEPT ![w] = q[2]]
       /\ pc' = [pc EXCEPT ![w] = IF q[1] = "BITCOP" THEN "sources" ELSE "key"]
  BY DEF StartCommand
<1>2. pc[w] = "idle" /\ UNCHANGED <<desc, tmp, leaked, tableVars, closed>>
  BY DEF StartCommand
<1>3. \A i \in Arg : desc[w][i] = NULL /\ tmp[w][i] = NULL
  BY <1>2 DEF OwnershipInv, JobHolds
<1>4. \A v \in Workers : v # w => pc'[v] = pc[v] /\ count'[v] = count[v] /\ args'[v] = args[v]
  BY <1>1 DEF StartCommand, OwnershipInv, TypeInv, JobTypes
<1>5. pc'[w] \in {"sources", "key"} /\ count'[w] \in Arg
  BY <1>1 DEF OwnershipInv, TypeInv, JobTypes
<1>6. JobHolds'
  <2>1. 0 .. count'[w] \subseteq Arg
    BY <1>5, TableAssumption DEF Arg
  <2> QED BY <1>2, <1>3, <1>4, <1>5, <2>1 DEF OwnershipInv, JobHolds
<1>7. ~clobbered' => SlotStreams'
  BY <1>2 DEF OwnershipInv, SlotStreams, tableVars, Occupied
<1>8. ~clobbered' => RefsExact'
  <2>1. \A v \in Workers, j \in Arg, s \in Slot :
           /\ Holds(v, j, s)' <=> Holds(v, j, s)
           /\ Holds(v, j, s) => args'[v][j] = args[v][j]
    BY <1>2, <1>3, <1>4, NullIsNoSlot DEF Holds
  <2> QED BY <1>2, <2>1, RefsKept DEF OwnershipInv, tableVars
<1> QED BY <1>6, <1>7, <1>8 DEF OwnershipInv

\* PrepareKey keeps the ownership invariant.
LEMMA PrepareKeyOwnership ==
  ASSUME OwnershipInv, NEW w \in Workers, PrepareKey(w), TypeInv'
  PROVE  OwnershipInv'
<1>1. pc[w] = "key" /\ UNCHANGED <<cmd, args, count, tmp, leaked, closed>>
  BY DEF PrepareKey
<1>2. PICK r \in Results :
       /\ prepare_file(args[w][0], Mode(cmd[w]), r)
       /\ \/ /\ r \in Slot
             /\ desc' = [desc EXCEPT ![w][0] = r]
             /\ pc' = [pc EXCEPT ![w] = IF cmd[w] = "BITOP" THEN "sources" ELSE "run"]
          \/ /\ r \notin Slot
             /\ pc' = [pc EXCEPT ![w] = "release"]
             /\ UNCHANGED desc
  BY DEF PrepareKey, FAILED, ABSENT, Slot
<1>3. args[w][0] \in Keys
  BY <1>1 DEF OwnershipInv, TypeInv, KeysKnown
<1>4. \A i \in Arg : desc[w][i] = NULL /\ tmp[w][i] = NULL
  BY <1>1 DEF OwnershipInv, JobHolds
<1>5. \A v \in Workers, j \in Arg :
        desc'[v][j] = IF v = w /\ j = 0 /\ r \in Slot THEN r ELSE desc[v][j]
  BY <1>2, ArgFacts DEF OwnershipInv, TypeInv, JobTypes
<1>6. JobHolds'
  <2>1. pc'[w] \notin {"idle", "key"} /\ \A v \in Workers : v # w => pc'[v] = pc[v]
    BY <1>2 DEF OwnershipInv, TypeInv, JobTypes
  <2>2. 0 .. count[w] \subseteq Arg
    BY TableAssumption DEF OwnershipInv, TypeInv, JobTypes, Arg
  <2> QED BY <1>1, <1>4, <1>5, <2>1, <2>2 DEF OwnershipInv, JobHolds
<1>7. ASSUME ~clobbered' PROVE SlotStreams' /\ RefsExact'
  <2>1. ~clobbered
    BY <1>2, <1>3, <1>7, PrepareOutcome DEF OwnershipInv, TypeInv
  <2>2. SlotStreams'
    BY <1>1, <1>2, <1>3, <1>7, <2>1, PrepareStreams DEF OwnershipInv
  <2>3. /\ \A s \in Slot : ~Holds(w, 0, s)
        /\ \A v \in Workers, j \in Arg, s \in Slot :
             Holds(v, j, s)' <=> Holds(v, j, s) \/ (v = w /\ j = 0 /\ s = r)
    BY <1>1, <1>4, <1>5, ArgFacts, NullIsNoSlot DEF Holds
  <2>4. RefsExact'
    BY <1>1, <1>2, <1>3, <1>7, <2>1, <2>3, ArgFacts, RefsTaken DEF OwnershipInv
  <2> QED BY <2>2, <2>4
<1> QED BY <1>6, <1>7 DEF OwnershipInv

\* The references of the local array, when prepare_files gives up.
LEMMA RefsLost ==
  ASSUME OwnershipInv, ~clobbered, NEW w \in Workers, pc[w] = "sources",
         tmp' = [tmp EXCEPT ![w] = NoDescs], UNCHANGED desc,
         NEW s \in Slot
  PROVE  Cardinality(Holders(s)')
           = Cardinality(Holders(s)) - Cardinality({i \in Arg : tmp[w][i] = s})
<1> DEFINE L == {i \in Arg : tmp[w][i] = s}
<1>1. tmp \in [Workers -> [Arg -> Slot \cup {NULL}]]
  BY DEF OwnershipInv, TypeInv, JobTypes
<1>2. tmp[w][0] = NULL /\ \A i \in Arg \ {0} : desc[w][i] = NULL
  BY TableAssumption, ArgFacts DEF OwnershipInv, JobHolds, TypeInv, JobTypes, Arg
<1>3. \A v \in Workers, i \in Arg :
        Holds(v, i, s)' <=> Holds(v, i, s) /\ ~(v = w /\ i \in L)
  BY <1>1, <1>2, NullIsNoSlot DEF Holds, NoDescs
<1>4. {w} \X L \subseteq Holders(s)
  BY DEF Holders, Holds
<1>5. Holders(s)' = Holders(s) \ ({w} \X L)
  BY <1>3 DEF Holders
<1>6. IsFiniteSet(L) /\ Cardinality(L) \in Nat
  BY ArgFacts
<1>7. Cardinality({w} \X L) = Cardinality(L)
  <2>1. IsFiniteSet({w}) /\ Cardinality({w}) = 1
    BY FS_Singleton
  <2> HIDE DEF L
  <2>2. Cardinality({w} \X L) = Cardinality({w}) * Cardinality(L)
    BY <1>6, <2>1, FS_Product, Zenon
  <2> QED BY <1>6, <2>1, <2>2
<1>8. Cardinality(Holders(s) \ ({w} \X L)) = Cardinality(Holders(s)) - Cardinality({w} \X L)
  <2>1. Holders(s) \cap ({w} \X L) = {w} \X L
    BY <1>4
  <2>2. IsFiniteSet(Holders(s))
    BY HoldersFinite
  <2> DEFINE M == {w} \X L
  <2> HIDE DEF L, M
  <2>3. Cardinality(Holders(s) \ M) = Cardinality(Holders(s)) - Cardinality(Holders(s) \cap M)
    BY <2>2, FS_Difference
  <2> QED BY <2>1, <2>3 DEF M
<1> QED BY <1>5, <1>7, <1>8

\* PrepareSource keeps the ownership invariant.
LEMMA PrepareSourceOwnership ==
  ASSUME OwnershipInv, NEW w \in Workers, PrepareSource(w), TypeInv'
  PROVE  OwnershipInv'
<1>1. /\ pc[w] = "sources" /\ count[w] > 0
      /\ count' = [count EXCEPT ![w] = @ - 1]
      /\ UNCHANGED <<cmd, args, desc, closed>>
  BY DEF PrepareSource
<1>2. PICK r \in Results :
       /\ prepare_file(args[w][count[w]], 1, r)
       /\ \/ /\ r \in Slot
             /\ tmp' = [tmp EXCEPT ![w][count[w]] = r]
             /\ UNCHANGED <<pc, leaked>>
          \/ /\ r = ABSENT
             /\ UNCHANGED <<tmp, pc, leaked>>
          \/ /\ r = FAILED
             /\ tmp' = [tmp EXCEPT ![w] = NoDescs]
             /\ leaked' = [s \in Slot |->
                            leaked[s] + Cardinality({i \in Arg : tmp[w][i] = s})]
             /\ pc' = [pc EXCEPT ![w] = "release"]
  BY DEF PrepareSource
<1> DEFINE n == count[w]
<1>3. /\ n \in Arg \ {0} /\ n - 1 \in Arg /\ n \in 1 .. n
      /\ 0 .. n - 1 \subseteq 0 .. n /\ n \notin 0 .. n - 1 /\ 0 .. n \subseteq Arg
  BY <1>1, TableAssumption DEF OwnershipInv, TypeInv, JobTypes, Arg
<1>4. args[w][n] \in Keys
  BY <1>1, <1>3 DEF OwnershipInv, TypeInv, KeysKnown
<1>5. /\ \A i \in Arg \ {0} : desc[w][i] = NULL
      /\ \A i \in 0 .. n : tmp[w][i] = NULL
  BY <1>1 DEF OwnershipInv, JobHolds
<1>6. count' \in [Workers -> Arg] /\ count'[w] = n - 1
  BY <1>1 DEF TypeInv, JobTypes, OwnershipInv
<1>7. ABSENT \notin Slot /\ FAILED \notin Slot
  BY DEF ABSENT, FAILED, Slot
<1>8. tmp \in [Workers -> [Arg -> Slot \cup {NULL}]]
  BY DEF OwnershipInv, TypeInv, JobTypes
<1> HIDE DEF n
<1>9. CASE r # FAILED
  <2>1. \A v \in Workers, j \in Arg :
          tmp'[v][j] = IF v = w /\ j = n /\ r \in Slot THEN r ELSE tmp[v][j]
    BY <1>2, <1>3, <1>7, <1>8, <1>9 DEF n
  <2>2. UNCHANGED <<pc, leaked>>
    BY <1>2, <1>9
  <2>3. JobHolds'
    <3>1. \A v \in Workers : v # w => count'[v] = count[v]
      BY <1>1 DEF OwnershipInv, TypeInv, JobTypes
    <3>2. \A v \in Workers : v # w => \A j \in Arg : tmp'[v][j] = tmp[v][j]
      BY <2>1
    <3>3. \A j \in 0 .. count'[w] : tmp'[w][j] = NULL
      BY <1>3, <1>5, <1>6, <2>1
    <3>4. \A v \in Workers : 0 .. count[v] \subseteq Arg
      BY TableAssumption DEF OwnershipInv, TypeInv, JobTypes, Arg
    <3> QED BY <1>1, <2>2, <3>1, <3>2, <3>3, <3>4 DEF OwnershipInv, JobHolds
  <2>4. ASSUME ~clobbered' PROVE SlotStreams' /\ RefsExact'
    <3>1. ~clobbered
      BY <1>2, <1>4, <2>4, PrepareOutcome DEF OwnershipInv, TypeInv, n
    <3>2. SlotStreams'
      BY <1>1, <1>2, <1>4, <2>4, <3>1, PrepareStreams DEF OwnershipInv, n
    <3>3. /\ \A s \in Slot : ~Holds(w, n, s)
          /\ \A v \in Workers, j \in Arg, s \in Slot :
               Holds(v, j, s)' <=> Holds(v, j, s) \/ (v = w /\ j = n /\ s = r)
      BY <1>1, <1>3, <1>5, <2>1, NullIsNoSlot DEF Holds
    <3>4. RefsExact'
      BY <1>1, <1>2, <1>3, <1>4, <2>2, <2>4, <3>1, <3>3, RefsTaken DEF OwnershipInv, n
    <3> QED BY <3>2, <3>4
  <2> QED BY <2>3, <2>4 DEF OwnershipInv
<1>10. CASE r = FAILED
  <2>1. /\ tmp' = [tmp EXCEPT ![w] = NoDescs]
        /\ leaked' = [s \in Slot |-> leaked[s] + Cardinality({i \in Arg : tmp[w][i] = s})]
        /\ pc' = [pc EXCEPT ![w] = "release"]
    BY <1>2, <1>7, <1>10 DEF FAILED, ABSENT
  <2>2. JobHolds'
    BY <1>1, <1>8, <2>1 DEF OwnershipInv, JobHolds, TypeInv, JobTypes, NoDescs
  <2>3. ASSUME ~clobbered' PROVE SlotStreams' /\ RefsExact'
    <3>1. ~clobbered
      BY <1>2, <1>4, <2>3, PrepareOutcome DEF OwnershipInv, TypeInv, n
    <3>2. SlotStreams'
      BY <1>1, <1>2, <1>4, <2>3, <3>1, PrepareStreams DEF OwnershipInv, n
    <3>3. /\ \A s \in Slot : descs'[s].refs = descs[s].refs
          /\ \A s \in Slot : descs[s].refs # 0 => descs'[s].hash = descs[s].hash
          /\ \A s \in Slot : ~Occupied(s)' => descs'[s].refs = 0
      <4>1. \A s \in Slot : descs[s].refs \in Int /\ s # r
        BY <1>7, <1>10 DEF OwnershipInv, TypeInv, TableInv, TableTypes, Desc
      <4> QED BY <1>2, <1>4, <2>3, <3>1, <4>1, PrepareRefs DEF OwnershipInv, n
    <3>4. \A s \in Slot : descs'[s].refs = Cardinality(Holders(s)') + leaked'[s]
      <4> TAKE s \in Slot
      <4>1. Cardinality(Holders(s)')
              = Cardinality(Holders(s)) - Cardinality({i \in Arg : tmp[w][i] = s})
        BY <1>1, <2>1, <3>1, RefsLost
      <4>2. descs[s].refs = Cardinality(Holders(s)) + leaked[s]
        BY <3>1 DEF OwnershipInv, RefsExact
      <4>3. Cardinality(Holders(s)) \in Nat /\ leaked[s] \in Nat
        BY HoldersFinite DEF OwnershipInv, TypeInv, JobTypes
      <4>4. Cardinality({i \in Arg : tmp[w][i] = s}) \in Nat
        BY ArgFacts
      <4>5. leaked'[s] = leaked[s] + Cardinality({i \in Arg : tmp[w][i] = s})
        BY <2>1
      <4> QED BY <3>3, <4>1, <4>2, <4>3, <4>4, <4>5
    <3>5. \A v \in Workers, j \in Arg, s \in Slot : Holds(v, j, s)' => Holds(v, j, s)
      BY <1>1, <1>8, <2>1, NullIsNoSlot DEF Holds, NoDescs
    <3>6. \A v \in Workers, j \in Arg, s \in Slot :
            Holds(v, j, s)' => descs'[s].hash = args'[v][j]
      BY <1>1, <3>1, <3>3, <3>5, HeldCounted DEF OwnershipInv, RefsExact
    <3> QED BY <3>2, <3>3, <3>4, <3>6 DEF RefsExact
  <2> QED BY <2>2, <2>3 DEF OwnershipInv
<1> QED BY <1>9, <1>10

\* SourcesReady keeps the ownership invariant.
LEMMA SourcesReadyOwnership ==
  ASSUME OwnershipInv, NEW w \in Workers, SourcesReady(w), TypeInv'
  PROVE  OwnershipInv'
<1>1. /\ pc[w] = "sources" /\ count[w] = 0
      /\ desc' = [desc EXCEPT ![w] = [i \in Arg |-> IF i = 0 THEN desc[w][0] ELSE tmp[w][i]]]
      /\ tmp' = [tmp EXCEPT ![w] = NoDescs]
      /\ pc' = [pc EXCEPT ![w] = "run"]
      /\ UNCHANGED <<cmd, args, count, leaked, tableVars, closed>>
  BY DEF SourcesReady, OwnershipInv, TypeInv, JobTypes
<1>2. /\ \A i \in Arg \ {0} : desc[w][i] = NULL
      /\ tmp[w][0] = NULL
  BY <1>1 DEF OwnershipInv, JobHolds
<1>3. /\ \A i \in Arg : /\ desc'[w][i] = IF i = 0 THEN desc[w][0] ELSE tmp[w][i]
                        /\ tmp'[w][i] = NULL
      /\ \A v \in Workers : v # w => desc'[v] = desc[v] /\ tmp'[v] = tmp[v] /\ pc'[v] = pc[v]
      /\ pc'[w] = "run"
  BY <1>1 DEF OwnershipInv, TypeInv, JobTypes, NoDescs
<1>4. JobHolds'
  BY <1>1, <1>3 DEF OwnershipInv, JobHolds
<1>5. ~clobbered' => SlotStreams'
  BY <1>1 DEF OwnershipInv, SlotStreams, tableVars, Occupied
<1>6. ~clobbered' => RefsExact'
  <2>1. \A v \in Workers, j \in Arg, s \in Slot : Holds(v, j, s)' <=> Holds(v, j, s)
    BY <1>2, <1>3, NullIsNoSlot DEF Holds
  <2> QED BY <1>1, <2>1, RefsKept DEF OwnershipInv, tableVars
<1> QED BY <1>4, <1>5, <1>6 DEF OwnershipInv

\* ReleaseDesc keeps the ownership invariant.
LEMMA ReleaseDescOwnership ==
  ASSUME OwnershipInv, NEW w \in Workers, ReleaseDesc(w), TypeInv'
  PROVE  OwnershipInv'
<1>1. PICK i \in Arg :
       /\ desc[w][i] # NULL
       /\ descs' = [descs EXCEPT ![desc[w][i]].refs = @ - 1]
       /\ desc' = [desc EXCEPT ![w][i] = NULL]
  BY DEF ReleaseDesc
<1>2. /\ pc[w] = "release"
      /\ UNCHANGED <<pc, cmd, args, count, tmp, leaked, closed,
                     XXTABLE, idx, streams, files, clock, clobbered, orphaned>>
  BY DEF ReleaseDesc
<1> DEFINE r == desc[w][i]
<1>3. r \in Slot
  BY <1>1 DEF OwnershipInv, TypeInv, JobTypes
<1>4. \A v \in Workers, j \in Arg :
        desc'[v][j] = IF v = w /\ j = i THEN NULL ELSE desc[v][j]
  BY <1>1 DEF OwnershipInv, TypeInv, JobTypes
<1>5. \A s \in Slot : /\ descs'[s].hash = descs[s].hash /\ descs'[s].fd = descs[s].fd
                      /\ descs'[s].refs = descs[s].refs - (IF s = r THEN 1 ELSE 0)
  BY <1>1, <1>3 DEF OwnershipInv, TypeInv, TableInv, TableTypes, Desc
<1>6. tmp[w][i] = NULL
  BY <1>2 DEF OwnershipInv, JobHolds
<1> HIDE DEF r
<1>7. JobHolds'
  BY <1>2, <1>4 DEF OwnershipInv, JobHolds
<1>8. ~clobbered' => SlotStreams'
  BY <1>2, <1>5 DEF OwnershipInv, SlotStreams, Occupied
<1>9. ASSUME ~clobbered' PROVE RefsExact'
  <2>1. ~clobbered
    BY <1>2, <1>9
  <2>2. \A v \in Workers, j \in Arg, s \in Slot :
          Holds(v, j, s)' <=> Holds(v, j, s) /\ ~(v = w /\ j = i)
    BY <1>2, <1>4, <1>6, NullIsNoSlot DEF Holds
  <2>3. /\ <<w, i>> \in Holders(r)
        /\ \A s \in Slot : <<w, i>> \in Holders(s) => s = r
    BY <1>3, <1>6, NullIsNoSlot DEF Holders, Holds, r
  <2>4. \A s \in Slot : Holders(s)' = Holders(s) \ {<<w, i>>}
    BY <2>2 DEF Holders
  <2>5. \A s \in Slot : Cardinality(Holders(s)') = Cardinality(Holders(s)) - (IF s = r THEN 1 ELSE 0)
    <3> TAKE s \in Slot
    <3>1. IsFiniteSet(Holders(s)) /\ Cardinality(Holders(s)) \in Nat
      BY HoldersFinite
    <3>2. Cardinality(Holders(s) \ {<<w, i>>})
            = IF <<w, i>> \in Holders(s) THEN Cardinality(Holders(s)) - 1 ELSE Cardinality(Holders(s))
      BY <3>1, FS_RemoveElement
    <3>3. <<w, i>> \in Holders(s) <=> s = r
      BY <2>3
    <3>4. Holders(s)' = Holders(s) \ {<<w, i>>}
      BY <2>4
    <3> QED BY <3>1, <3>2, <3>3, <3>4
  <2>6. \A s \in Slot : descs'[s].refs = Cardinality(Holders(s)') + leaked'[s]
    <3> TAKE s \in Slot
    <3>1. descs[s].refs = Cardinality(Holders(s)) + leaked[s]
      BY <2>1 DEF OwnershipInv, RefsExact
    <3>2. Cardinality(Holders(s)) \in Nat /\ leaked[s] \in Nat
      BY HoldersFinite DEF OwnershipInv, TypeInv, JobTypes
    <3> QED BY <1>2, <1>5, <2>5, <3>1, <3>2
  <2>7. Occupied(r)
    <3>1. Holds(w, i, r)
      BY DEF Holds, r
    <3> QED BY <1>3, <2>1, <3>1, HeldCounted DEF OwnershipInv
  <2>8. \A s \in Slot : ~Occupied(s)' => descs'[s].refs = 0
    <3> SUFFICES ASSUME NEW s \in Slot, ~Occupied(s)' PROVE descs'[s].refs = 0
      OBVIOUS
    <3>1. ~Occupied(s) /\ s # r
      BY <1>5, <2>7 DEF Occupied
    <3>2. descs[s].refs = 0
      BY <2>1, <3>1 DEF OwnershipInv, RefsExact
    <3> QED BY <1>5, <3>1, <3>2
  <2>9. \A v \in Workers, j \in Arg, s \in Slot :
          Holds(v, j, s)' => descs'[s].hash = args'[v][j]
    BY <1>2, <1>5, <2>1, <2>2 DEF OwnershipInv, RefsExact
  <2> QED BY <2>6, <2>8, <2>9 DEF RefsExact
<1> QED BY <1>7, <1>8, <1>9 DEF OwnershipInv

\* Execute keeps the ownership invariant.
LEMMA ExecuteOwnership ==
  ASSUME OwnershipInv, NEW w \in Workers, Execute(w) \/ FinishCommand(w), TypeInv'
  PROVE  OwnershipInv'
<1>1. /\ pc[w] \in {"run", "release"}
      /\ pc' = [pc EXCEPT ![w] = IF pc[w] = "run" THEN "release" ELSE "idle"]
      /\ UNCHANGED <<count, desc, tmp, leaked, tableVars, closed>>
      /\ \/ UNCHANGED args
         \/ args' = [args EXCEPT ![w] = NoArgs] /\ desc[w] = NoDescs
      /\ pc[w] = "release" => desc[w] = NoDescs
  BY DEF Execute, FinishCommand
<1>2. pc'[w] \in {"idle", "release"} /\ \A v \in Workers : v # w => pc'[v] = pc[v]
  BY <1>1 DEF OwnershipInv, TypeInv, JobTypes
<1>3. \A i \in Arg : tmp[w][i] = NULL /\ (desc[w] = NoDescs => desc[w][i] = NULL)
  BY <1>1 DEF OwnershipInv, JobHolds, NoDescs
<1>4. pc'[w] = "idle" => desc[w] = NoDescs
  BY <1>1 DEF OwnershipInv, TypeInv, JobTypes
<1>5. JobHolds'
  BY <1>1, <1>2, <1>3, <1>4 DEF OwnershipInv, JobHolds
<1>6. ~clobbered' => SlotStreams'
  BY <1>1 DEF OwnershipInv, SlotStreams, tableVars, Occupied
<1>7. ~clobbered' => RefsExact'
  <2>1. \A v \in Workers, j \in Arg, s \in Slot :
           /\ Holds(v, j, s)' <=> Holds(v, j, s)
           /\ Holds(v, j, s) => args'[v][j] = args[v][j]
    BY <1>1, <1>3, NullIsNoSlot DEF Holds, OwnershipInv, TypeInv, JobTypes
  <2> QED BY <1>1, <2>1, RefsKept DEF OwnershipInv, tableVars
<1> QED BY <1>5, <1>6, <1>7 DEF OwnershipInv

\* CloseFiles keeps the ownership invariant.
LEMMA CloseFilesOwnership ==
  ASSUME OwnershipInv, close_files, TypeInv'
  PROVE  OwnershipInv' /\ (~clobbered => streams' = {})
<1>1. /\ closed' /\ UNCHANGED <<jobVars, descs, clock, clobbered>>
      /\ streams' = streams \ {descs[s].fd : s \in {t \in Slot : Occupied(t)}}
  BY DEF close_files
<1>2. ~clobbered => streams' = {}
  BY <1>1 DEF OwnershipInv, SlotStreams
<1>3. JobHolds'
  BY <1>1 DEF OwnershipInv, JobHolds, jobVars
<1>4. ~clobbered' => SlotStreams'
  BY <1>1, <1>2 DEF OwnershipInv, SlotStreams, Occupied
<1>5. ~clobbered' => RefsExact'
  BY <1>1, RefsKept DEF OwnershipInv, jobVars, Holds
<1> QED BY <1>2, <1>3, <1>4, <1>5 DEF OwnershipInv

\* Every step keeps the invariant.
LEMMA NextOwnership == OwnershipInv /\ [NextWithTerm]_vars => OwnershipInv'
<1> SUFFICES ASSUME OwnershipInv, [NextWithTerm]_vars PROVE OwnershipInv'
  OBVIOUS
<1>1. TypeInv'
  BY NextTypes DEF OwnershipInv
<1>2. CASE close_files
  BY <1>1, <1>2, CloseFilesOwnership
<1>3. CASE UNCHANGED vars
  <2>1. JobHolds' /\ (~clobbered' => SlotStreams')
    BY <1>3 DEF OwnershipInv, JobHolds, SlotStreams, Occupied, vars, tableVars, jobVars
  <2>2. ~clobbered' => RefsExact'
    BY <1>3, RefsKept DEF OwnershipInv, Holds, vars, tableVars, jobVars
  <2> QED BY <1>1, <2>1, <2>2 DEF OwnershipInv
<1>4. CASE Next
  <2>1. PICK w \in Workers : Worker(w)
    BY <1>4 DEF Next
  <2> QED BY <1>1, <2>1, StartOwnership, PrepareKeyOwnership, PrepareSourceOwnership,
             SourcesReadyOwnership, ReleaseDescOwnership, ExecuteOwnership DEF Worker
<1> QED BY <1>2, <1>3, <1>4 DEF NextWithTerm

\* Slots, jobs, streams and counts fit together in every reachable state.
THEOREM OwnershipCorrect == SpecWithTerm => []OwnershipInv
BY InitOwnership, NextOwnership, PTL DEF SpecWithTerm

-----------------------------------------------------------------------------
(* What follows for the properties of FileTable.                           *)

\* refs++ and refs-- of prepare_file, prepare_files and release_desc balance on
\* every path of every command, but for what prepare_files leaks.
THEOREM RefsCorrect == SpecWithTerm => []RefsCountHolders
<1>1. OwnershipInv => RefsCountHolders
  BY DEF OwnershipInv, RefsExact, RefsCountHolders
<1> QED BY <1>1, OwnershipCorrect, PTL

\* So no command is ever left with the descriptor or file of another key, nor,
\* before SIGTERM, with a closed stream: evictions spare what is in use.
THEOREM InUseProtected == SpecWithTerm => [](IntactInUseKeepsKey /\ IntactInUseIsOpen)
<1>1. OwnershipInv => IntactInUseKeepsKey /\ IntactInUseIsOpen
  <2> SUFFICES ASSUME OwnershipInv, ~clobbered
               PROVE  InUseKeepsKey /\ (~closed => InUseIsOpen)
    BY DEF IntactInUseKeepsKey, IntactInUseIsOpen
  <2>1. \A w \in Workers, i \in Arg, s \in Slot : Holds(w, i, s) => Occupied(s)
    BY HeldCounted DEF OwnershipInv
  <2>2. NULL \notin Stream
    BY TableAssumption DEF Stream
  <2> QED BY <2>1, <2>2 DEF OwnershipInv, SlotStreams, RefsExact, InUseKeepsKey, InUseIsOpen
<1> QED BY <1>1, OwnershipCorrect, PTL

\* A descriptor in use keeps its stream, so long as nothing closed it (close_file).
THEOREM InUseOpen == SpecWithTerm => []IntactInUseIsOpen
BY InUseProtected, PTL

\* Every stream fopen returned is closed or belongs to an occupied slot, where
\* eviction or close_files will find it.
THEOREM StreamsCorrect == SpecWithTerm => []NoStreamLost
<1>1. OwnershipInv => NoStreamLost
  BY DEF OwnershipInv, SlotStreams, NoStreamLost
<1> QED BY <1>1, OwnershipCorrect, PTL

\* So close_files, which goes over the slots, leaves no stream open.
THEOREM CloseFilesCorrect == SpecWithTerm => CloseFilesClosesAll
<1>1. OwnershipInv /\ [NextWithTerm]_vars
        => [closed' # closed /\ ~clobbered => streams' = {}]_vars
  <2> SUFFICES ASSUME OwnershipInv, NextWithTerm, closed' # closed, ~clobbered
               PROVE  streams' = {}
    BY DEF vars
  <2>1. CASE close_files
    BY <2>1, NextTypes, CloseFilesOwnership DEF OwnershipInv
  <2>2. CASE Next
    BY <2>2 DEF Next, Worker, StartCommand, PrepareKey, PrepareSource, SourcesReady,
                Execute, ReleaseDesc, FinishCommand
  <2> QED BY <2>1, <2>2 DEF NextWithTerm
<1> QED BY <1>1, OwnershipCorrect, PTL DEF SpecWithTerm, CloseFilesClosesAll

-----------------------------------------------------------------------------
(* The buckets.                                                            *)

\* An occupied slot is the first of its bucket, until a collision.
BucketsLead ==
  ~orphaned => \A s \in Slot : Occupied(s) => XXTABLE[BucketOf[descs[s].hash]] = s

\* Emptying a slot empties its bucket, and leaves the others.
LEMMA EmptiedBuckets ==
  ASSUME TypeInv, BucketsLead, ~orphaned, NEW victim \in Slot \cup {NULL},
         victim \in Slot => Occupied(victim),
         NEW s \in Slot, Occupied(s), s # victim
  PROVE  BucketsWithout(victim)[BucketOf[descs[s].hash]] = s
<1>1. CASE victim = NULL
  BY <1>1 DEF BucketsLead, BucketsWithout
<1>2. CASE victim \in Slot
  <2>1. descs[s] \in Desc /\ descs[victim] \in Desc
    BY <1>2 DEF TypeInv, TableInv, TableTypes
  <2>2. descs[s].hash \in Keys /\ descs[victim].hash \in Keys
    BY <1>2, <2>1 DEF Desc, Occupied
  <2>3. BucketOf[descs[s].hash] \in Buckets /\ BucketOf[descs[victim].hash] \in Buckets
    BY <2>2, TableAssumption
  <2>4. BucketOf[descs[s].hash] # BucketOf[descs[victim].hash]
    BY <1>2 DEF BucketsLead
  <2> QED BY <2>3, <2>4 DEF BucketsLead, BucketsWithout, TypeInv, TableInv, TableTypes
<1> QED BY <1>1, <1>2

\* open_file makes the slot the first of its bucket.
LEMMA OpenBuckets ==
  ASSUME TypeInv, BucketsLead, NEW key \in Keys, NEW mode, NEW r \in Results,
         Open(key, mode, r)
  PROVE  BucketsLead'
<1>1. PICK depth \in Slot, last \in Slot \cup {NULL},
           victim \in Slot \cup {NULL}, slot \in Slot :
        /\ Miss(key, depth, last)
        /\ SlotTaken(victim, slot)
        /\ descs' = Linked(Filled(DescsWithout(victim), slot, key), slot, last, depth)
        /\ XXTABLE' = BucketsWith(key, slot, depth, victim)
        /\ orphaned' = (orphaned \/ (depth = 0 /\ last \notin {NULL, victim}))
  BY DEF Open
<1>2. depth = 0
  BY <1>1, WalkIsShort DEF Miss, TypeInv
<1>3. last = XXTABLE[BucketOf[key]]
  BY <1>1, <1>2 DEF Miss, WalkEnds
<1>4. SUFFICES ASSUME ~orphaned', NEW s \in Slot, Occupied(s)'
               PROVE  XXTABLE'[BucketOf[descs'[s].hash]] = s
  BY DEF BucketsLead, Occupied
<1>5. ~orphaned /\ last \in {NULL, victim}
  BY <1>1, <1>2, <1>4
<1>6. BucketsWithout(victim) \in [Buckets -> Slot \cup {NULL}] /\ BucketOf[key] \in Buckets
  BY EvictionTypes, TableAssumption DEF TypeInv
<1>7. XXTABLE' = [BucketsWithout(victim) EXCEPT ![BucketOf[key]] = slot]
  BY <1>1, <1>2 DEF BucketsWith
<1>8. descs' = Filled(DescsWithout(victim), slot, key)
  BY <1>1, <1>2 DEF Linked
<1>9. DescsWithout(victim) = [t \in Slot |-> IF t = victim THEN FreeDesc ELSE descs[t]]
  BY EvictionEmpties DEF TypeInv
<1>10. CASE s = slot
  <2>1. DescsWithout(victim)[slot] \in Desc
    BY EvictionTypes DEF TypeInv
  <2>2. descs'[s].hash = key
    BY <1>8, <1>9, <1>10, <2>1 DEF Filled, Desc
  <2> QED BY <1>6, <1>7, <1>10, <2>2
<1>11. CASE s # slot
  <2>1. descs'[s] = DescsWithout(victim)[s]
    BY <1>8, <1>9, <1>11 DEF Filled
  <2>2. s # victim /\ descs'[s] = descs[s]
    BY <1>4, <1>9, <2>1 DEF Occupied, FreeDesc
  <2>3. Occupied(s)
    BY <1>4, <2>2 DEF Occupied
  <2>4. XXTABLE[BucketOf[descs[s].hash]] = s
    BY <1>5, <2>3 DEF BucketsLead
  <2>5. BucketOf[descs[s].hash] # BucketOf[key]
    BY <1>3, <1>5, <2>2, <2>4, NullIsNoSlot
  <2>6. BucketsWithout(victim)[BucketOf[descs[s].hash]] = s
    BY <1>1, <1>5, <2>2, <2>3, EmptiedBuckets, TakenFacts DEF TypeInv
  <2> QED BY <1>6, <1>7, <2>2, <2>5, <2>6
<1> QED BY <1>10, <1>11

\* prepare_file leaves every occupied slot reachable.
LEMMA PrepareBuckets ==
  ASSUME TypeInv, BucketsLead, NEW key \in Keys, NEW mode, NEW r \in Results,
         prepare_file(key, mode, r)
  PROVE  BucketsLead'
<1>1. CASE Hit(key, r)
  <2>1. Used(r, key)
    BY <1>1, HitOutcome DEF TypeInv
  <2> QED BY <1>1, <2>1 DEF Hit, Used, BucketsLead, Occupied
<1>2. CASE Reject(key, r)
  BY <1>2 DEF Reject, BucketsLead, Occupied
<1>3. CASE NotOpened(key, mode, r) \/ FopenFails(key, mode, r)
  <2>1. PICK victim \in Slot \cup {NULL}, slot \in Slot :
          /\ TakeSlot(victim, slot)
          /\ \/ descs' = DescsWithout(victim)
             \/ descs' = [DescsWithout(victim) EXCEPT ![slot].fd = NULL]
    BY <1>3 DEF NotOpened, FopenFails
  <2>2. orphaned' = orphaned
    BY <1>3 DEF NotOpened, FopenFails
  <2>3. /\ DescsWithout(victim) = [s \in Slot |-> IF s = victim THEN FreeDesc ELSE descs[s]]
        /\ \A s \in Slot : DescsWithout(victim)[s] \in Desc
    BY EvictionEmpties, EvictionTypes DEF TypeInv
  <2>4. \A s \in Slot : descs'[s].hash = DescsWithout(victim)[s].hash
    BY <2>1, <2>3 DEF Desc
  <2>5. \A s \in Slot : Occupied(s)' => Occupied(s) /\ s # victim /\ descs'[s].hash = descs[s].hash
    BY <2>3, <2>4 DEF Occupied, FreeDesc
  <2>6. SlotTaken(victim, slot) /\ XXTABLE' = BucketsWithout(victim)
    BY <2>1 DEF TakeSlot
  <2>7. ~orphaned => \A s \in Slot : Occupied(s)' => XXTABLE'[BucketOf[descs'[s].hash]] = s
    BY <2>5, <2>6, EmptiedBuckets, TakenFacts DEF TypeInv
  <2> QED BY <2>2, <2>7 DEF BucketsLead, Occupied
<1> QED BY <1>1, <1>2, <1>3, OpenBuckets DEF prepare_file

\* Until two keys meet in a bucket the walk of prepare_file finds every slot in
\* use, however many evictions there were, even those that went wrong.
THEOREM ReachableCorrect == SpecWithTerm => []IntactAllReachable
<1>1. Init => BucketsLead
  BY DEF Init, BucketsLead, Occupied, FreeDesc
<1>2. TypeInv /\ BucketsLead /\ [NextWithTerm]_vars => BucketsLead'
  <2> SUFFICES ASSUME TypeInv, BucketsLead, [NextWithTerm]_vars PROVE BucketsLead'
    OBVIOUS
  <2>1. CASE UNCHANGED <<descs, XXTABLE, orphaned>>
    BY <2>1 DEF BucketsLead, Occupied
  <2>2. ASSUME NEW w \in Workers, PrepareKey(w) PROVE BucketsLead'
    BY <2>2, PrepareBuckets DEF PrepareKey, TypeInv, KeysKnown
  <2>3. ASSUME NEW w \in Workers, PrepareSource(w) PROVE BucketsLead'
    <3>1. pc[w] = "sources" /\ count[w] > 0 /\ count[w] \in Arg
      BY <2>3 DEF PrepareSource, TypeInv, JobTypes
    <3>2. args[w][count[w]] \in Keys
      BY <3>1, TableAssumption DEF TypeInv, KeysKnown, Arg
    <3> QED BY <2>3, <3>2, PrepareBuckets DEF PrepareSource
  <2>4. ASSUME NEW w \in Workers, ReleaseDesc(w) PROVE BucketsLead'
    <3>1. \A s \in Slot : descs'[s].hash = descs[s].hash
      BY <2>4 DEF ReleaseDesc, TypeInv, TableInv, TableTypes, JobTypes, Desc
    <3> QED BY <2>4, <3>1 DEF ReleaseDesc, BucketsLead, Occupied
  <2> QED BY <2>1, <2>2, <2>3, <2>4
          DEF NextWithTerm, Next, Worker, StartCommand, SourcesReady, Execute,
              FinishCommand, close_files, vars, tableVars
<1>3. BucketsLead => IntactAllReachable
  <2> SUFFICES ASSUME BucketsLead, ~orphaned, NEW s \in Slot, Occupied(s)
               PROVE  \E depth \in Slot : WalkEnds(descs[s].hash, depth, s)
    BY DEF IntactAllReachable, AllReachable
  <2> DEFINE walk == [i \in 0 .. 0 |-> s]
  <2>1. walk \in [0 .. 0 -> Slot] /\ walk[0] = s /\ \A i \in 1 .. 0 : FALSE
    OBVIOUS
  <2>2. XXTABLE[BucketOf[descs[s].hash]] = s
    BY DEF BucketsLead
  <2> HIDE DEF walk
  <2>3. WalkEnds(descs[s].hash, 0, s)
    BY <2>1, <2>2 DEF WalkEnds
  <2>4. 0 \in Slot
    BY TableAssumption DEF Slot
  <2> QED BY <2>3, <2>4
<1> QED BY <1>1, <1>2, <1>3, InitTypes, NextTypes, PTL DEF SpecWithTerm

-----------------------------------------------------------------------------
(* Retrying a refused request.                                             *)

\* Whatever was used was used before now: any slot may be evicted.
AccessPast == \A s \in Slot : descs[s].last_access < clock

\* A slot emptied was last used at 0.
LEMMA EmptiedAccess ==
  ASSUME TypeInv, AccessPast, NEW victim \in Slot \cup {NULL}
  PROVE  \A s \in Slot : DescsWithout(victim)[s].last_access < clock
<1>1. clock \in Nat /\ \A s \in Slot : descs[s].last_access \in Nat
  BY DEF TypeInv, TableInv, TableTypes, Desc
<1>2. ASSUME NEW s \in Slot PROVE 0 < clock
  <2>1. descs[s].last_access \in Nat /\ descs[s].last_access < clock
    BY <1>1 DEF AccessPast
  <2> QED BY <1>1, <2>1
<1>3. DescsWithout(victim) = [t \in Slot |-> IF t = victim THEN FreeDesc ELSE descs[t]]
  BY EvictionEmpties DEF TypeInv
<1> QED BY <1>2, <1>3 DEF AccessPast, FreeDesc

\* prepare_file stores the time it reads, and time goes on.
LEMMA PrepareAccess ==
  ASSUME TypeInv, AccessPast, NEW key \in Keys, NEW mode, NEW r \in Results,
         prepare_file(key, mode, r)
  PROVE  AccessPast'
<1>1. clock \in Nat /\ descs \in [Slot -> Desc] /\ \A s \in Slot : descs[s].last_access \in Nat
  BY DEF TypeInv, TableInv, TableTypes, Desc
<1>2. CASE Hit(key, r)
  <2>1. Used(r, key)
    BY <1>2, HitOutcome DEF TypeInv
  <2>2. clock' = clock + 1 /\ r \in Slot
    BY <1>2, <2>1 DEF Hit, Used
  <2>3. \A s \in Slot : descs'[s].last_access \in {clock, descs[s].last_access}
    BY <1>1, <1>2, <2>2 DEF Hit, Desc
  <2> QED BY <1>1, <2>2, <2>3 DEF AccessPast
<1>3. CASE Reject(key, r)
  BY <1>3 DEF Reject, AccessPast
<1>4. CASE NotOpened(key, mode, r) \/ FopenFails(key, mode, r)
  <2>1. PICK victim \in Slot \cup {NULL}, slot \in Slot :
          /\ clock' = clock
          /\ \/ descs' = DescsWithout(victim)
             \/ descs' = [DescsWithout(victim) EXCEPT ![slot].fd = NULL]
    BY <1>4 DEF NotOpened, FopenFails, TakeSlot
  <2>2. DescsWithout(victim) \in [Slot -> Desc]
    BY EvictionTypes DEF TypeInv
  <2>3. \A s \in Slot : descs'[s].last_access = DescsWithout(victim)[s].last_access
    BY <2>1, <2>2 DEF Desc
  <2> QED BY <2>1, <2>3, EmptiedAccess DEF AccessPast
<1>5. CASE Open(key, mode, r)
  <2>1. PICK depth \in Slot, last \in Slot \cup {NULL},
             victim \in Slot \cup {NULL}, slot \in Slot :
          /\ Miss(key, depth, last)
          /\ descs' = Linked(Filled(DescsWithout(victim), slot, key), slot, last, depth)
          /\ clock' = clock + 1
    BY <1>5 DEF Open
  <2>2. depth = 0
    BY <2>1, WalkIsShort DEF Miss, TypeInv
  <2>3. descs' = Filled(DescsWithout(victim), slot, key)
    BY <2>1, <2>2 DEF Linked
  <2>4. DescsWithout(victim) \in [Slot -> Desc]
    BY EvictionTypes DEF TypeInv
  <2>5. ASSUME NEW s \in Slot PROVE descs'[s].last_access < clock'
    <3>1. CASE s = slot
      <4>1. descs'[s].last_access = clock
        BY <2>3, <2>4, <3>1 DEF Filled, Desc
      <4> QED BY <1>1, <2>1, <4>1
    <3>2. CASE s # slot
      <4>1. descs'[s] = DescsWithout(victim)[s]
        BY <2>3, <2>4, <3>2 DEF Filled
      <4>2. DescsWithout(victim)[s].last_access < clock
        BY EmptiedAccess
      <4>3. DescsWithout(victim)[s].last_access \in Nat
        BY <2>4 DEF Desc
      <4> QED BY <1>1, <2>1, <4>1, <4>2, <4>3
    <3> QED BY <3>1, <3>2
  <2> QED BY <2>5 DEF AccessPast
<1> QED BY <1>2, <1>3, <1>4, <1>5 DEF prepare_file

\* Refused though a slot is idle, the next request finds one: get_avalible_slot
\* restarted the scan ("all slots in use" is not for ever).
THEOREM RetryCorrect == SpecWithTerm => RetryTakesIdleSlot
<1>1. Init => AccessPast
  BY DEF Init, AccessPast, FreeDesc
<1>2. TypeInv /\ AccessPast /\ [NextWithTerm]_vars => AccessPast'
  <2> SUFFICES ASSUME TypeInv, AccessPast, [NextWithTerm]_vars PROVE AccessPast'
    OBVIOUS
  <2>1. CASE UNCHANGED <<descs, clock>>
    BY <2>1 DEF AccessPast
  <2>2. ASSUME NEW w \in Workers, PrepareKey(w) PROVE AccessPast'
    <3>1. pc[w] = "key"
      BY <2>2 DEF PrepareKey
    <3>2. args[w][0] \in Keys
      BY <3>1, TableAssumption DEF TypeInv, KeysKnown, Arg
    <3> QED BY <2>2, <3>2, PrepareAccess DEF PrepareKey
  <2>3. ASSUME NEW w \in Workers, PrepareSource(w) PROVE AccessPast'
    <3>1. pc[w] = "sources" /\ count[w] > 0 /\ count[w] \in Arg
      BY <2>3 DEF PrepareSource, TypeInv, JobTypes
    <3>2. args[w][count[w]] \in Keys
      BY <3>1, TableAssumption DEF TypeInv, KeysKnown, Arg
    <3> QED BY <2>3, <3>2, PrepareAccess DEF PrepareSource
  <2>4. ASSUME NEW w \in Workers, ReleaseDesc(w) PROVE AccessPast'
    <3>1. clock' = clock /\ \A s \in Slot : descs'[s].last_access = descs[s].last_access
      BY <2>4 DEF ReleaseDesc, TypeInv, TableInv, TableTypes, JobTypes, Desc
    <3> QED BY <3>1 DEF AccessPast
  <2> QED BY <2>1, <2>2, <2>3, <2>4
          DEF NextWithTerm, Next, Worker, StartCommand, SourcesReady, Execute,
              FinishCommand, close_files, vars, tableVars
<1>3. ASSUME AccessPast, OwnershipInv', NEW key \in Keys, Reject(key, FAILED),
             ~clobbered, SomeSlotIdle'
      PROVE  CanTakeSlot'
  <2>1. PICK s \in Slot : Holders(s)' = {} /\ leaked'[s] = 0
    BY <1>3 DEF SomeSlotIdle
  <2>2. descs'[s].refs = 0
    <3>1. descs'[s].refs = Cardinality(Holders(s)') + leaked'[s]
      BY <1>3 DEF Reject, OwnershipInv, RefsExact
    <3> QED BY <2>1, <3>1, FS_EmptySet
  <2>3. idx' = 0 /\ descs'[s].last_access < clock' /\ s >= 0
    BY <1>3 DEF Reject, AccessPast, Slot
  <2> QED BY <2>2, <2>3 DEF CanTakeSlot, Candidates
<1>4. AccessPast /\ OwnershipInv' =>
        \A key \in Keys : Reject(key, FAILED) /\ ~clobbered /\ SomeSlotIdle' => CanTakeSlot'
  BY <1>3
<1> QED
  BY <1>1, <1>2, <1>4, InitTypes, NextTypes, OwnershipCorrect, PTL
  DEF SpecWithTerm, RetryTakesIdleSlot
=============================================================================
