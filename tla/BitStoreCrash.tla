--------------------------- MODULE BitStoreCrash ---------------------------
(***************************************************************************)
(* BitStore when the process may be killed at any time.                    *)
(*                                                                         *)
(* data is what the server reads and writes through stdio; disk is what it *)
(* has handed to the operating system, which outlives it.  A write stays   *)
(* in the FILE's buffer until the next fseek of the same stream (POSIX: it *)
(* writes out what is buffered), until fclose, or until stdio likes: the   *)
(* program has no other call that flushes, and replies before.             *)
(***************************************************************************)
EXTENDS BitStore

CONSTANT MaxCrashes   \* bound: times the process is killed

ASSUME CrashAssumption == MaxCrashes \in Nat

VARIABLES
  disk,    \* contents of the files without the buffers of stdio
  crashes  \* times the process was killed

crashVars == <<vars, disk, crashes>>

-----------------------------------------------------------------------------
(* read_from and write_to begin with fseek.                                *)

\* The key whose stream the next step of w seeks in.
Seeks(w) ==
  LET q == job[w].req
      i == Len(job[w].p) + 1
  IN  CASE job[w].pc \in {"setbit", "getbit"} /\ q.byte < length[q.key] -> {q.key}
        [] job[w].pc \in {"write", "count"} -> {q.key}
        [] job[w].pc = "read" /\ Round(job[w].lens[i], job[w].o) > 0 -> {job[w].dts[i]}
        [] job[w].pc = "op" /\ q.hook = "NONE" -> {q.dest}
        [] OTHER -> {}

\* A seek flushes what was written before it; fopen with "w+" empties the file.
Work(w) ==
  /\ Worker(w)
  /\ disk' = [k \in Keys |-> IF data'[k] = <<>> THEN <<>>
                             ELSE IF k \in Seeks(w) THEN data[k] ELSE disk[k]]
  /\ UNCHANGED crashes

\* Mutant: close_file does not flush.
CloseUnflushed(k) ==
  /\ Evict(k)
  /\ UNCHANGED <<disk, crashes>>

\* close_file: fflush, fsync, fclose.
Close(k) ==
  /\ Evict(k)
  /\ disk' = [disk EXCEPT ![k] = data[k]]
  /\ UNCHANGED crashes

\* stdio writes out a buffer of its own accord.
Drain(k) ==
  /\ length[k] # NULL
  /\ disk' = [disk EXCEPT ![k] = data[k]]
  /\ UNCHANGED <<vars, crashes>>

\* The process is killed and started again: memory is lost, files are not.
Crash ==
  /\ crashes < MaxCrashes
  /\ crashes' = crashes + 1
  /\ data' = disk
  /\ length' = [k \in Keys |-> NULL]
  /\ leaked' = {}
  /\ job' = [w \in Workers |-> Idle]
  /\ answer' = [w \in Workers |-> NULL]
  /\ acked' = {b \in acked : b[3] \in ByteAt(disk[b[1]], b[2])}
  /\ UNCHANGED <<files, started, raced, cleared, disk>>

CrashInit == Init /\ disk = data /\ crashes = 0
CrashNext ==
  \/ \E w \in Workers : Work(w)
  \/ \E k \in Keys : Close(k) \/ Drain(k)
  \/ Crash
CrashSpec == CrashInit /\ [][CrashNext]_crashVars

-----------------------------------------------------------------------------
(* Properties.                                                             *)

\* Of the bits SETBIT has reported set, the process being killed can undo the
\* one written last to each open key at most, and none of a key that has been
\* closed: the fseek of every access flushes the writes before.
AtRisk(k) ==
  {b \in acked : b[1] = k /\ b[3] \notin ByteAt(disk[k], b[2])}
OneBitAtRisk ==
  ~raced =>
    \A k \in Keys :
      /\ \A a, b \in AtRisk(k) : a = b
      /\ length[k] = NULL => AtRisk(k) = {}
=============================================================================
