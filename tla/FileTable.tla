----------------------------- MODULE FileTable -----------------------------
(***************************************************************************)
(* The descriptor table of src/src/file.c: the slots descs[], the buckets  *)
(* XXTABLE[], the scanning cursor idx, reference counts and eviction, as   *)
(* driven by the worker threads that execute commands (parser.c).          *)
(*                                                                         *)
(* One step is one critical section of file_table_lock: a whole call of    *)
(* prepare_file, of release_desc or of close_files.  A key stands for its  *)
(* 64-bit hash, which the code uses as the name of the key everywhere.     *)
(* Byte contents and dt->length are not part of this module.               *)
(***************************************************************************)
EXTENDS Integers, FiniteSets

CONSTANTS
  Keys,             \* key hashes (never 0, which marks a free slot)
  Buckets,          \* indices of XXTABLE
  BucketOf,         \* hash % DESC_HASH_TABLE_SIZE
  DESC_TABLE_SIZE,  \* number of slots
  Workers,          \* threads of the libuv pool
  Commands,         \* which commands the clients send
  MaxSources,       \* most source keys of one BITOP (ARG_PART_MAXIMUM - 1)
  FilesystemFails,  \* whether mkdir and fopen may fail
  MaxClock,         \* bound: no command starts once get_us() got this far
  NULL              \* null pointer, empty bucket, no key

ASSUME TableAssumption ==
  /\ DESC_TABLE_SIZE \in Nat \ {0}
  /\ BucketOf \in [Keys -> Buckets]
  /\ Commands \subseteq {"SETBIT", "GETBIT", "BITOP", "BITCOP"}
  /\ MaxSources \in Nat \ {0}
  /\ FilesystemFails \in BOOLEAN
  /\ MaxClock \in Nat
  /\ IsFiniteSet(Workers)
  /\ NULL \notin Keys \cup Int \cup [file : Keys, opened : Nat]

Slot == 0 .. DESC_TABLE_SIZE - 1
Arg  == 0 .. MaxSources             \* indices of job->desc[] in use
FAILED == -1                        \* what prepare_file returns besides 0
ABSENT == -2

VARIABLES
  descs,      \* the slots
  XXTABLE,    \* bucket -> first slot of its chain
  idx,        \* static cursor of get_avalible_slot
  streams,    \* FILE objects that fopen returned and nobody closed
  files,      \* keys whose data file exists
  clock,      \* get_us(): later than every last_access stored so far
  closed,     \* close_files has run (SIGTERM)
  pc,         \* where each worker is in parse_and_execute
  cmd,        \* the command it executes
  args,       \* its keys: 0 the key or destination, 1.. the sources
  count,      \* sources prepare_files has still to prepare
  desc,       \* job->desc[]
  tmp,        \* the local array of prepare_files
  clobbered,  \* history: a slot other than the evicted one was opened into
  orphaned,   \* history: a bucket's slot was replaced and not linked
  leaked      \* history: references prepare_files lost, by slot

tableVars == <<descs, XXTABLE, idx, streams, files, clock, clobbered, orphaned>>
jobVars   == <<pc, cmd, args, count, desc, tmp, leaked>>
vars      == <<tableVars, jobVars, closed>>

Stream == [file : Keys, opened : Nat]

\* A slot after bzero.  created_at and access_times are never read.
FreeDesc == [hash |-> NULL, fd |-> NULL, last_access |-> 0, refs |-> 0,
             next |-> NULL, prev |-> NULL]

NoArgs  == [i \in Arg |-> NULL]
NoDescs == [i \in Arg |-> NULL]

Occupied(s) == descs[s].hash # NULL

-----------------------------------------------------------------------------
(* Slots: get_avalible_slot.                                               *)

\* The scan starts at the cursor, not at 0, and stops at the first free slot.
ScanFinds(s) ==
  /\ s >= idx /\ ~Occupied(s)
  /\ \A t \in Slot : idx <= t /\ t < s => Occupied(t)

ScanFull == \A t \in Slot : t >= idx => Occupied(t)

\* Mutant: the check of refs is forgotten.
CandidatesIgnoreRefs ==
  {t \in Slot : t >= idx /\ descs[t].last_access < clock}

Candidates ==
  {t \in Slot : t >= idx /\ descs[t].refs = 0 /\ descs[t].last_access < clock}

LeastRecent(v) ==
  /\ v \in Candidates
  /\ \A t \in Candidates :
       \/ descs[v].last_access < descs[t].last_access
       \/ descs[v].last_access = descs[t].last_access /\ v <= t

\* get_avalible_slot returned something other than -1.  victim is the slot it
\* evicted, if any; slot is the cursor, which open_file uses from here on:
\* after an eviction the cursor is 0, whichever slot was evicted.
SlotTaken(victim, slot) ==
  \/ victim = NULL /\ ScanFinds(slot)
  \/ victim \in Slot /\ ScanFull /\ LeastRecent(victim) /\ slot = 0

\* The slots, buckets and streams once the victim is unlinked, closed, zeroed.
DescsWithout(victim) ==
  IF victim = NULL THEN descs ELSE
  [s \in Slot |->
     IF s = victim THEN FreeDesc
     ELSE IF descs[victim].prev = NULL /\ s = descs[victim].next
       THEN [descs[s] EXCEPT !.prev = NULL]
     ELSE IF s = descs[victim].prev
       THEN [descs[s] EXCEPT !.next = descs[victim].next]
     ELSE descs[s]]

BucketsWithout(victim) ==
  IF victim # NULL /\ descs[victim].prev = NULL
    THEN [XXTABLE EXCEPT ![BucketOf[descs[victim].hash]] = descs[victim].next]
    ELSE XXTABLE

\* Mutant: the victim is zeroed without close_file.
StreamsWithoutNone(victim) == streams

StreamsWithout(victim) ==
  IF victim = NULL THEN streams ELSE streams \ {descs[victim].fd}

-----------------------------------------------------------------------------
(* prepare_file(key, mode): mode 0 opens or creates, mode 1 opens only an  *)
(* existing file, mode 2 opens or creates a BITOP destination.  Each       *)
(* operator is one way the call can end; r is the slot, FAILED or ABSENT.  *)

\* The while loop over the bucket's chain ends at slot last after depth hops.
WalkEnds(key, depth, last) ==
  \/ XXTABLE[BucketOf[key]] = NULL /\ depth = 0 /\ last = NULL
  \/ \E walk \in [0 .. depth -> Slot] :
       /\ walk[0] = XXTABLE[BucketOf[key]]
       /\ \A i \in 1 .. depth : /\ descs[walk[i - 1]].hash # key
                                /\ walk[i] = descs[walk[i - 1]].next
       /\ walk[depth] = last
       /\ descs[last].hash = key \/ descs[last].next = NULL

\* Mutant: a hit forgets refs++.
HitUncounted(key, r) ==
  /\ \E depth \in Slot : WalkEnds(key, depth, r)
  /\ descs[r].hash = key
  /\ descs' = [descs EXCEPT ![r].last_access = clock]
  /\ clock' = clock + 1
  /\ UNCHANGED <<XXTABLE, idx, streams, files, clobbered, orphaned>>

Hit(key, r) ==
  /\ \E depth \in Slot : WalkEnds(key, depth, r)
  /\ descs[r].hash = key
  /\ descs' = [descs EXCEPT ![r].refs = @ + 1, ![r].last_access = clock]
  /\ clock' = clock + 1
  /\ UNCHANGED <<XXTABLE, idx, streams, files, clobbered, orphaned>>

\* The walk found no descriptor of the key.
Miss(key, depth, last) ==
  /\ WalkEnds(key, depth, last)
  /\ last # NULL => descs[last].hash # key

\* Mutant: the reject path forgets to reset the cursor the scan ran off.
RejectOffTable(key, r) ==
  /\ \E depth \in Slot, last \in Slot \cup {NULL} : Miss(key, depth, last)
  /\ ScanFull /\ Candidates = {}
  /\ r = FAILED
  /\ idx' = DESC_TABLE_SIZE
  /\ UNCHANGED <<descs, XXTABLE, streams, files, clock, clobbered, orphaned>>

\* Table full and nothing to evict from the cursor on: the cursor restarts.
Reject(key, r) ==
  /\ \E depth \in Slot, last \in Slot \cup {NULL} : Miss(key, depth, last)
  /\ ScanFull /\ Candidates = {}
  /\ r = FAILED
  /\ idx' = 0
  /\ UNCHANGED <<descs, XXTABLE, streams, files, clock, clobbered, orphaned>>

\* What a miss does to the table before open_file looks at the file system.
TakeSlot(victim, slot) ==
  /\ SlotTaken(victim, slot)
  /\ idx' = slot
  /\ XXTABLE' = BucketsWithout(victim)
  /\ streams' = StreamsWithout(victim)
  /\ UNCHANGED <<files, clock>>

\* open_file gives up: no file and mode 1, or gen_path failed.
NotOpened(key, mode, r) ==
  /\ \E depth \in Slot, last \in Slot \cup {NULL} : Miss(key, depth, last)
  /\ \E victim \in Slot \cup {NULL}, slot \in Slot :
       /\ TakeSlot(victim, slot)
       /\ descs' = DescsWithout(victim)
  /\ \/ r = ABSENT /\ mode = 1 /\ key \notin files
     \/ r = FAILED /\ FilesystemFails
  /\ UNCHANGED <<clobbered, orphaned>>

\* fopen failed: its NULL is stored in the slot all the same.
FopenFails(key, mode, r) ==
  /\ \E depth \in Slot, last \in Slot \cup {NULL} : Miss(key, depth, last)
  /\ FilesystemFails
  /\ key \in files \/ mode # 1
  /\ \E victim \in Slot \cup {NULL}, slot \in Slot :
       /\ TakeSlot(victim, slot)
       /\ descs' = [DescsWithout(victim) EXCEPT ![slot].fd = NULL]
       /\ clobbered' = (clobbered \/ victim \notin {NULL, slot})
  /\ r = FAILED
  /\ UNCHANGED orphaned

\* Mutant: open_file's slot is used but never entered in the bucket.
BucketsWithNothing(key, slot, depth, victim) == BucketsWithout(victim)

\* The bucket names the new slot unless it was linked behind another one: the
\* code tells by depth, the number of hops of the walk.
BucketsWith(key, slot, depth, victim) ==
  IF depth > 0 THEN BucketsWithout(victim)
  ELSE [BucketsWithout(victim) EXCEPT ![BucketOf[key]] = slot]

\* It is linked behind the last one only if that is not the bucket's first.
Linked(table, slot, last, depth) ==
  IF depth > 0 THEN [table EXCEPT ![last].next = slot, ![slot].prev = last]
  ELSE table

NewStream(key) == [file |-> key, opened |-> clock]

\* The fields prepare_file sets in the slot it got.
Filled(table, slot, key) ==
  [table EXCEPT ![slot].hash = key, ![slot].fd = NewStream(key),
                ![slot].last_access = clock, ![slot].refs = 1]

\* The file is opened or created and the slot filled in and linked.
Open(key, mode, r) ==
  /\ key \in files \/ mode # 1
  /\ \E depth \in Slot, last \in Slot \cup {NULL},
        victim \in Slot \cup {NULL}, slot \in Slot :
       /\ Miss(key, depth, last)
       /\ SlotTaken(victim, slot)
       /\ r = slot
       /\ idx' = slot
       /\ streams' = StreamsWithout(victim) \cup {NewStream(key)}
       /\ descs' = Linked(Filled(DescsWithout(victim), slot, key), slot, last, depth)
       /\ XXTABLE' = BucketsWith(key, slot, depth, victim)
       /\ clobbered' = (clobbered \/ victim \notin {NULL, slot})
       /\ orphaned' = (orphaned \/ (depth = 0 /\ last \notin {NULL, victim}))
  /\ files' = files \cup {key}
  /\ clock' = clock + 1

prepare_file(key, mode, r) ==
  \/ Hit(key, r)
  \/ Reject(key, r)
  \/ NotOpened(key, mode, r)
  \/ FopenFails(key, mode, r)
  \/ Open(key, mode, r)

Results == Slot \cup {FAILED, ABSENT}

-----------------------------------------------------------------------------
(* A worker executing one command: parse_and_execute.                      *)

Mode(c) == CASE c = "SETBIT" -> 0 [] c = "GETBIT" -> 1 [] c = "BITOP" -> 2

\* GETBIT stands for BITCOUNT too, BITCOP for BITOP with the COUNTOP hook.
Requests ==
  LET OneKey(c)  == {<<c, [i \in Arg |-> IF i = 0 THEN k ELSE NULL]>> : k \in Keys}
      Sources    == UNION {[1 .. n -> Keys] : n \in 1 .. MaxSources}
      Multi(c, D) == {<<c, [i \in Arg |-> IF i = 0 THEN d
                                          ELSE IF i \in DOMAIN src THEN src[i] ELSE NULL]>> :
                        d \in D, src \in Sources}
  IN  {q \in OneKey("SETBIT") \cup OneKey("GETBIT")
             \cup Multi("BITOP", Keys) \cup Multi("BITCOP", {NULL}) : q[1] \in Commands}

\* A thread of the pool takes a request.  After SIGTERM uv_stop has stopped the
\* loop and the process is exiting: what a thread might still take from the
\* queue in that moment is left out, what it is executing goes on.
StartCommand(w) ==
  /\ pc[w] = "idle" /\ clock < MaxClock /\ ~closed
  /\ \E q \in Requests :
       /\ cmd' = [cmd EXCEPT ![w] = q[1]]
       /\ args' = [args EXCEPT ![w] = q[2]]
       /\ count' = [count EXCEPT ![w] = Cardinality({i \in Arg \ {0} : q[2][i] # NULL})]
       /\ pc' = [pc EXCEPT ![w] = IF q[1] = "BITCOP" THEN "sources" ELSE "key"]
  /\ UNCHANGED <<desc, tmp, leaked, tableVars, closed>>

\* prepare_file(&job->desc[0], ...).  A missing key of GETBIT is answered at
\* once, a failure with an error: either way there is nothing to release.
PrepareKey(w) ==
  /\ pc[w] = "key"
  /\ \E r \in Results :
       /\ prepare_file(args[w][0], Mode(cmd[w]), r)
       /\ \/ /\ r \in Slot
             /\ desc' = [desc EXCEPT ![w][0] = r]
             /\ pc' = [pc EXCEPT ![w] = IF cmd[w] = "BITOP" THEN "sources" ELSE "run"]
          \/ /\ r \in {FAILED, ABSENT}
             /\ pc' = [pc EXCEPT ![w] = "release"]
             /\ UNCHANGED desc
  /\ UNCHANGED <<cmd, args, count, tmp, leaked, closed>>

\* One iteration of prepare_files, last source first.  On a failure the local
\* array is lost, references included.
PrepareSource(w) ==
  /\ pc[w] = "sources" /\ count[w] > 0
  /\ count' = [count EXCEPT ![w] = @ - 1]
  /\ \E r \in Results :
       /\ prepare_file(args[w][count[w]], 1, r)
       /\ \/ /\ r \in Slot
             /\ tmp' = [tmp EXCEPT ![w][count[w]] = r]
             /\ UNCHANGED <<pc, leaked>>
          \/ /\ r = ABSENT
             /\ UNCHANGED <<tmp, pc, leaked>>
          \/ /\ r = FAILED
             /\ tmp' = [tmp EXCEPT ![w] = NoDescs]
             /\ leaked' = [s \in Slot |->
                            leaked[s] + Cardinality({i \in Arg : tmp[w][i] = s})]
             /\ pc' = [pc EXCEPT ![w] = "release"]
  /\ UNCHANGED <<cmd, args, desc, closed>>

\* The memcpy that ends prepare_files; bitopCommand runs next.
SourcesReady(w) ==
  /\ pc[w] = "sources" /\ count[w] = 0
  /\ desc' = [desc EXCEPT ![w] = [i \in Arg |-> IF i = 0 THEN @[0] ELSE tmp[w][i]]]
  /\ tmp' = [tmp EXCEPT ![w] = NoDescs]
  /\ pc' = [pc EXCEPT ![w] = "run"]
  /\ UNCHANGED <<cmd, args, count, leaked, tableVars, closed>>

\* The command body returns: until then the worker used its descriptors.
Execute(w) ==
  /\ pc[w] = "run"
  /\ pc' = [pc EXCEPT ![w] = "release"]
  /\ UNCHANGED <<cmd, args, count, desc, tmp, leaked, tableVars, closed>>

\* One iteration of release_all_descs, with release_desc.
ReleaseDesc(w) ==
  /\ pc[w] = "release"
  /\ \E i \in Arg :
       /\ desc[w][i] # NULL
       /\ \A j \in Arg : j < i => desc[w][j] = NULL
       /\ descs' = [descs EXCEPT ![desc[w][i]].refs = @ - 1]
       /\ desc' = [desc EXCEPT ![w][i] = NULL]
  /\ UNCHANGED <<pc, cmd, args, count, tmp, leaked, closed,
                 XXTABLE, idx, streams, files, clock, clobbered, orphaned>>

\* All descriptors are released: the job is over and its memory freed.
FinishCommand(w) ==
  /\ pc[w] = "release" /\ desc[w] = NoDescs
  /\ pc' = [pc EXCEPT ![w] = "idle"]
  /\ cmd' = [cmd EXCEPT ![w] = NULL]
  /\ args' = [args EXCEPT ![w] = NoArgs]
  /\ UNCHANGED <<count, desc, tmp, leaked, tableVars, closed>>

\* Mutant: the loop of close_files starts at slot 1.
close_files_from_1 ==
  /\ ~closed
  /\ closed' = TRUE
  /\ streams' = streams \ {descs[s].fd : s \in {t \in Slot \ {0} : Occupied(t)}}
  /\ UNCHANGED <<jobVars, descs, XXTABLE, idx, files, clock, clobbered, orphaned>>

\* SIGTERM: close_files closes what the slots point to and leaves the slots.
close_files ==
  /\ ~closed
  /\ closed' = TRUE
  /\ streams' = streams \ {descs[s].fd : s \in {t \in Slot : Occupied(t)}}
  /\ UNCHANGED <<jobVars, descs, XXTABLE, idx, files, clock, clobbered, orphaned>>

Init ==
  /\ descs = [s \in Slot |-> FreeDesc]
  /\ XXTABLE = [b \in Buckets |-> NULL]
  /\ idx = 0
  /\ streams = {}
  /\ files \in SUBSET Keys
  /\ clock = 1
  /\ closed = FALSE
  /\ clobbered = FALSE
  /\ orphaned = FALSE
  /\ leaked = [s \in Slot |-> 0]
  /\ pc = [w \in Workers |-> "idle"]
  /\ cmd = [w \in Workers |-> NULL]
  /\ args = [w \in Workers |-> NoArgs]
  /\ count = [w \in Workers |-> 0]
  /\ desc = [w \in Workers |-> NoDescs]
  /\ tmp = [w \in Workers |-> NoDescs]

Worker(w) ==
  \/ StartCommand(w)
  \/ PrepareKey(w)
  \/ PrepareSource(w)
  \/ SourcesReady(w)
  \/ Execute(w)
  \/ ReleaseDesc(w)
  \/ FinishCommand(w)

Next == \E w \in Workers : Worker(w)
Spec == Init /\ [][Next]_vars

\* The same, with SIGTERM delivered at some point.
NextWithTerm == Next \/ close_files
SpecWithTerm == Init /\ [][NextWithTerm]_vars
-----------------------------------------------------------------------------
(* Properties.                                                             *)

TypeOK ==
  /\ descs \in [Slot -> [hash : Keys \cup {NULL}, fd : Stream \cup {NULL},
                         last_access : Nat, refs : Int,
                         next : Slot \cup {NULL}, prev : Slot \cup {NULL}]]
  /\ XXTABLE \in [Buckets -> Slot \cup {NULL}]
  /\ idx \in Slot
  /\ streams \subseteq Stream
  /\ files \subseteq Keys
  /\ clock \in Nat
  /\ closed \in BOOLEAN /\ clobbered \in BOOLEAN /\ orphaned \in BOOLEAN
  /\ leaked \in [Slot -> Nat]
  /\ pc \in [Workers -> {"idle", "key", "sources", "run", "release"}]
  /\ cmd \in [Workers -> Commands \cup {NULL}]
  /\ args \in [Workers -> [Arg -> Keys \cup {NULL}]]
  /\ count \in [Workers -> Arg]
  /\ desc \in [Workers -> [Arg -> Slot \cup {NULL}]]
  /\ tmp \in [Workers -> [Arg -> Slot \cup {NULL}]]

\* The descriptors a command has prepared and not yet released.
Holds(w, i, s) == desc[w][i] = s \/ tmp[w][i] = s
Holders(s) == {h \in Workers \X Arg : Holds(h[1], h[2], s)}

\* A descriptor a command holds stays the descriptor of the key the command
\* named, with that key's file open in it, until release_desc (the reason refs
\* exists: "prevent LRU evicting in-use desc").
InUseKeepsKey ==
  \A w \in Workers, i \in Arg, s \in Slot :
    Holds(w, i, s) => /\ descs[s].hash = args[w][i]
                      /\ descs[s].fd # NULL
                      /\ descs[s].fd.file = args[w][i]

\* The stream of a descriptor a command holds is open: no eviction and no
\* close_files has fclose'd it.
InUseIsOpen ==
  \A w \in Workers, i \in Arg, s \in Slot :
    Holds(w, i, s) => descs[s].fd \in streams

\* The walk of prepare_file over its bucket finds every occupied slot; so a
\* key has one descriptor at most: one FILE, one lock, one length.
AllReachable ==
  \A s \in Slot : Occupied(s) => \E depth \in Slot : WalkEnds(descs[s].hash, depth, s)

\* The first two hold until an eviction opens into another slot than the one it
\* evicted (the second, until SIGTERM), the third until two keys of one bucket
\* meet and the second replaces the first.
IntactInUseKeepsKey == ~clobbered => InUseKeepsKey
IntactInUseIsOpen   == ~clobbered /\ ~closed => InUseIsOpen
IntactAllReachable  == ~orphaned => AllReachable

\* refs++ and refs-- balance over every path of every command: a slot's count
\* is its holders and the references prepare_files has lost.
RefsCountHolders ==
  ~clobbered =>
    \A s \in Slot : descs[s].refs = Cardinality(Holders(s)) + leaked[s]

\* Every stream fopen returned is closed or belongs to an occupied slot, so
\* that eviction or close_files will flush what it buffers.
NoStreamLost ==
  ~clobbered =>
    \A f \in streams : \E s \in Slot : Occupied(s) /\ descs[s].fd = f

\* A request refused because the scan began behind the idle slots ("all slots in
\* use") is not refused again: if any slot is in nobody's use, a retry takes one.
SomeSlotIdle == \E s \in Slot : Holders(s) = {} /\ leaked[s] = 0
CanTakeSlot  == ~ScanFull \/ Candidates # {}
RetryTakesIdleSlot ==
  [][\A key \in Keys : Reject(key, FAILED) /\ ~clobbered /\ SomeSlotIdle'
                        => CanTakeSlot']_vars

\* close_files leaves no stream open whose writes it has not flushed.
CloseFilesClosesAll == [][closed' # closed /\ ~clobbered => streams' = {}]_vars
=============================================================================
