# Verification of Solidbits

TLA+ models of the Solidbits server, the TLC runs that check them on small
instances, and theorems about them that TLAPS checks for every instance.

Solidbits serves Redis-like bit commands over bitmaps kept in files, one file
per key.  A libuv loop thread speaks to the clients; a pool of threads executes
the commands, against a table of open files that all threads share.

## 1. The system

| Component | Source | State | Operations |
|---|---|---|---|
| Network layer | `src/src/net.c`, `net.h` | `conn_t` of each connection: `busy`, `closing`, `rbuf`, `rlen`, `rcap`; its `work_req`; libuv's handle | `on_connection`, `on_alloc`, `on_read`, `dispatch_line`, `work_cb` (pool thread), `after_work_cb`, `on_write`, `try_dispatch_next`, `maybe_close`, `on_close` |
| Command execution | `src/src/parser.c` | `job`: the line, its arguments, up to `ARG_PART_MAXIMUM` descriptors | `get_arg_count`, `split_fill`, `parse_and_execute`, `release_all_descs` |
| Descriptor table | `src/src/file.c` | `descs[]`, the buckets `XXTABLE[]`, the cursor `idx`; in each slot `hash`, `fd`, `length`, `refs`, `last_access`, `next`, `prev` and a lock | `prepare_file`, `prepare_files`, `release_desc`, `get_avalible_slot`, `open_file`, `read_from`, `write_to`, `close_files` |
| Bit commands | `src/src/bitops.c` | locals of a command; the contents of the files | `setbitCommand`, `getbitCommand`, `bitcountCommand`, `bitopCommand` and its hooks |
| Start-up, options, SIGTERM | `src/src/main.c` | - | `main`, `on_sigterm` |
| Helpers | `src/src/helper.c` | - | `get_us`, `gen_path`, strings |
| xxHash | `src/src/xxhash.c` (vendored) | - | `XXH64` |
| Client and tests | `src/clients`, `src/test` | - | the environment |

How they interact.  `on_read` cuts the bytes into lines and `dispatch_line`
queues one per connection on libuv's pool.  A pool thread runs
`parse_and_execute`, which prepares the descriptors of the keys (each under
`file_table_lock`), runs the command (each read and write of a file under
`dt->lock`, `dt->length` mostly under none), and releases the descriptors.  The
loop thread then writes the reply and dispatches the next line.  SIGTERM is
handled in the loop thread and closes the files, whatever the pool is doing.

What is hard, and what has to be right:

* **Network layer.** One callback at a time, but in any order: bytes, end of
  file and errors arrive while a request is in the pool or a reply is being
  written.  `uv_close` must be called once, and not while a request still
  points to the connection; every path that clears `busy` must either dispatch
  the next line or see to closing.  Lines may be cut anywhere.  Replies must
  come in the order of the lines.
* **Descriptor table.** Hits, misses, evictions and releases of several threads
  interleave.  Reference counts must cover every user; an eviction must not
  take a slot in use; the buckets must lead to every slot, or a key has two
  descriptors, two locks and two lengths.
* **Bit commands.** SETBIT is a read and a write under two separate holds of
  the lock.  BITCOUNT and BITOP take lengths without it and read piece by piece
  while others extend the file.  The ends of ranges and of buffers are a
  matter of one byte.
  The process may be killed with replied writes still in stdio's buffers.
* **Command execution.** Two loops over the same line, `get_arg_count` and
  `split_fill`, must agree: the result of one indexes that of the other.
  `parse_and_execute` has some twenty ways out, each with its own cleanup and
  its own reply; a path that forgets one leaks or stalls, and a check that comes
  behind a call has already changed the files.

Each of these hazards is listed at its line in `PROJECT.json`, with the
properties that cover it, or the reason why none does.

## 2. The modules

| Module | What it is | Grain of a step |
|---|---|---|
| `FileTable` | the descriptor table and the workers that drive it | one critical section of `file_table_lock` |
| `FileTableMC` | instances for TLC: which keys share a bucket, symmetry | |
| `FileTableProofs` | theorems of `FileTable`: types; who uses which slot: references, streams, buckets | |
| `Connection` | the network layer and the pool | one callback of the loop thread, or one step of a pool thread |
| `OrderedPipeline` | what a connection promises its client; `Connection` implements it | |
| `ConnectionMC` | instance for TLC | |
| `ConnectionProofs` | theorems of `Connection`: types, life cycle, buffer; lines, replies, and that `OrderedPipeline` is implemented | |
| `Bytes` | contents of files, shared by the two modules below | |
| `Bitmap` | what the commands promise: one bitmap per key, atomic commands | one command |
| `BitStore` | the commands as the code executes them; implements `Bitmap` | one critical section of `dt->lock` or `file_table_lock`, or one unlocked read of `dt->length` |
| `BitStoreCrash` | `BitStore`, the disk behind stdio's buffers, and the process being killed | |
| `BitRequests`, `BitStoreMC`, `BitStoreCrashMC` | the commands and files of each instance | |
| `BitStoreProofs`, `BitStoreCrashProofs` | theorems of the two | |
| `BitStoreCounts` | that a count lies between the ones before and after | |
| `BitStoreRefinement` | that `BitStore` implements `Bitmap` | |
| `Parser` | `parse_and_execute` from the line to the reply | one check or one call |
| `ParserProofs` | theorems of `Parser` and `Tokenizer` | |
| `LeastNumber` | a set of numbers has a least one: induction for the proofs | |
| `Tokenizer` | `get_arg_count` and `split_fill` over every line up to a length | one character received |

### FileTable

The variables have the names of the code: `descs`, `XXTABLE`, `idx`; `streams`
are the `FILE`s that are open; `desc` is `job->desc[]` and `tmp` the local array
of `prepare_files`.  A key stands for its hash.  `get_us()` is `clock`, which
advances with each `last_access` stored.

`prepare_file` is the disjunction of the ways it can end: `Hit`; `Reject` (table
full and nothing to evict); `NotOpened` (no such file, or `gen_path` failed, a
slot perhaps evicted for nothing); `FopenFails`, which stores `NULL` in the slot
at the cursor; `Open`.  Operators with a `victim` parameter say what
`get_avalible_slot` did before.  A worker's program counter follows
`parse_and_execute`: `key`, `sources` (one `PrepareSource` per iteration of
`prepare_files`), `run`, `release` (one `ReleaseDesc` per descriptor).  GETBIT
stands for BITCOUNT too, as they use the table in the same way.

Three history variables record what the code gets wrong, so that everything
else can still be stated: `clobbered` (an eviction opened into a slot other than
the evicted one), `orphaned` (a colliding key replaced a bucket's slot) and
`leaked` (references that `prepare_files` lost).  Invariants named `Intact...`
speak about the time before.

### Connection

`handle` is libuv's view of the `uv_tcp_t`; `uv_close` on a handle that is not
open gives the value `"aborted"`, which `ClosedOnce` excludes.  A byte is its
position in the client's stream and `stream` says which ones are newlines, so
that a line that lost, repeated or merged bytes is told apart.  `dispatched` and
`replies` are histories.  `SilentCommands` says whether clients send BITPOS and
BITFIELD, which end without a reply.  `MayDispatch`, `Teardown`, `maybe_close`
and `dispatch_line` are the code's; `AllocFails` and `NetworkFails` let each
allocation, accept, read and write fail.

### BitStore

`data` is what a reader of the file through its descriptor sees, buffers of
stdio included; `length` is `dt->length`, `NULL` while the key has no
descriptor.  `Evict` closes any descriptor nobody holds at any time, which
covers the table's choices when it works as intended (see `FileTable` for when
it does not).  The program counters follow the commands: SETBIT is `SetbitRead`
and `SetbitWrite`; BITCOUNT takes the length twice (`CountRange` in parser.c,
`CountClamp` in bitops.c), then reads pieces.  BITOP's first loop loads the length
of each source up to four times without a lock, each load a step: for the full
buffers `t` (`TakeTimes`), for the rest `r` (`TakeRest`), to compare it
(`CompareLength`) and to keep it (`TakeLongest`).  `lens` has the bytes that `t` and
`r` together stand for, and the rounds go by those of `maxidx` (`OpLength`), not by
`maxlen`.  `StartRounds` allocates; then each round reads each source (`OpRead`) and
combines, stores or counts (`OpCombine`).  A compiler that fuses loads makes fewer
steps, which is one of the interleavings.  In parser.c the loads at 313 and
323/328 are one step: between them a descriptor that is held can only grow.
`prepare_file` may fail at any call (`PrepareFails`: the table full, `gen_path`,
`fopen`); a source that fails leaves the references of the others in `leaked`.
A byte is the set of its bits that are 1.
Histories: `acked` holds the bits SETBIT has reported set with nothing sent since that
may clear them; `raced` says that two SETBITs of one byte overlapped; `floor`,
in `job`, is the number of ones when a command was sent, `old` the contents of
BITOP's destination then; `torn` says that `t` and `r` of a source are of lengths
with another number of full buffers.

Two constants restrict clients and failures, where the code keeps no promise
without it.  `NoTruncation`: results are stored into keys that are new, or whose
descriptor is open and stays so until they are prepared.  `Orderly`: no command is sent
beside one it changes a key of (`Apart`); a result is not stored over something
longer (`Fits`: else, the key being open, the old end stays behind it: finding 6;
closed, its length stays too large); a
destination that is one of its sources is open (`Expendable`: else it is truncated
before it is read); and nothing fails once a destination has been
truncated (`MayFail`: else an error is answered and the old contents are gone).
The four are named apart, and the model without any of them violates
`ImplementsBitmap` in the run `bits_serial`.

### Bitmap

The promise is written from the README and the header, not from the code: a bitmap
has at most `FILE_SIZE_LIMIT` bytes ("2G - 1", solidbits.h:30), so the byte at that
offset is refused, and a result has its length for a reply.  The code lets that
byte be set (parser.c:112) and BITOP's int does not hold the length of such a key;
the two differ, and the run and the theorem keep away from it (`WithinLimit`).
A command may fail for memory or for the file system, and then changes nothing.

### BitStoreCrash

`disk` is what stdio has handed to the operating system.  `read_from` and
`write_to` begin with `fseek`, which writes out what is buffered, so a step of a
worker puts on the disk what the stream it seeks in held before, and leaves in
the buffer what it writes itself.  `Close` is an eviction, with `close_file`'s
`fflush` and `fsync`; `Drain` lets stdio write a buffer at any other time; `Crash`
drops memory and goes on with the disk.  Of `acked`, a crash keeps what has
survived.

### Tokenizer and Parser

`Tokenizer` has the two functions over lines of which a character is a space or
not.  `Parser` extends it with `parse_and_execute`: `Recognize` picks any command
whose five characters the line has room for, and what its words say, as outcomes
of the code's tests (`said`).  Its steps follow the checks in the order of the code;
`arrays`, `desc` and `replies` count what a way out has to take care of, and
`touched` records that `prepare_file` has been called.  The outcomes of
`prepare_file` and of the commands are free: `FileTable` and `BitStore` say what
they do.

## 3. The runs

Distinct states in parentheses.

| Run | Instance | What it shows |
|---|---|---|
| `table` (352 thousand) | 2 slots, 3 keys of which two share a bucket, 2 workers, SETBIT and BITCOP of up to 2 sources, failing file system, SIGTERM at any time, `MaxClock` 3 | Until an eviction opens into the wrong slot: reference counts are the holders plus the leaked references; a descriptor in use keeps its key and its open stream; every slot is reachable (until a collision); no stream is lost; `close_files` leaves none open; a request refused while a slot is idle finds one when retried. |
| `conn_faults` (200 thousand) | 1 connection, up to 6 bytes, reads of up to 2, buffer from 2 to 4 bytes, every fault, silent commands | Life cycle, buffer and framing; replies in order; no line is forgotten behind an answered one; a client is dropped for want of room only if what it sent behind the last line dispatched exceeds the largest buffer; `Connection` implements `OrderedPipeline`. |
| `conn_shared_pool` (76 thousand) | 2 connections, pool of 1 thread, 2 bytes each, network faults, fairness | Replies and lines correspond one to one; every line received is answered or the connection goes down; a connection going down is freed. |
| `bits_serial` (383 thousand) | 2 workers, `Orderly`, 3 keys with old files of 2 and 3 bytes, buffer of 2 bytes, every command and option, ranges inside, beyond and before the file and reversed, results into keys new, open and not, and into an open source, failures of memory and of `prepare_file`, offsets within and beyond `FILE_SIZE_LIMIT` (3), eviction at any time, 2 commands, fairness | Replies and contents are those of the atomic commands of `Bitmap`; `dt->length` is the size of the file, after a truncation too; every command ends. |
| `bits_concurrent` (2.1 million) | 2 workers, 1 key with a file of 1 byte, buffer of 2 bytes, bits set and cleared behind its end so that it grows to a full buffer and past it, BITCOUNT, BITCOP, eviction, 4 commands, the process killed once at any time | A bit reported set stays set unless two SETBITs of its byte overlapped; a kill undoes at most the last such bit of an open key and none of a closed one; a count is at most the ones there are when it answers, and at least those there were when it was sent unless BITCOP's lengths are torn. |
| `tokens` (209 thousand) | every line of up to 11 characters, a character being a space or not; names of 1 character, at most 5 words in a BITOP, 3 places in `job->desc[]`; every saying of the words, every outcome of every call | `get_arg_count` and `split_fill` agree with each other and with the words of the line; one reply (none for BITPOS and BITFIELD); arguments freed once, none read that is not there, `job->desc[]` within its bounds and empty at the end; files touched exactly for well-formed commands. |
| `found_...` | small instances of the above | the six findings of section 4 |

Why the bounds are enough.  `table`: two slots and three keys are the least that
make evictions; two workers the least that make an eviction beside a use; two
sources let one fail after the other was prepared; `MaxClock` 3 lets
commands start until two accesses are stored, and those started go on: up to
five accesses of three keys, enough for every path of `prepare_file`, eviction
and rejection included, with the other worker at any point.  `conn_faults`: four bytes of buffer and six
of stream give two doublings asked for and one granted, lines longer than the
buffer, several lines in one read and lines cut by reads.  `bits_serial`: files
of one full piece and of a full and a short one; the second command meets the
first one's file with its descriptor open or evicted, or runs beside it.
`bits_concurrent`: the file grows from 1 byte, a rest alone, to 2, a full buffer, and
to 3, between any two loads of its length: `t` is then 0 and `r` 0, the case in which
BITCOP answers fewer than the floor (without the exemption of `torn` the run
violates `CountBetween`); two SETBITs, a count that reads two pieces, and one
more neighbour; one kill, at any point of them, and commands behind it.  `tokens`: eleven characters make six
words, one more than any command takes here, and leave spaces to spare.

The runs set `CHECK_DEADLOCK FALSE`: the bounds (bytes sent, commands, clock)
let each model stop when everything has been answered.

Fairness.  In `Connection`: weak fairness of every callback that is due, as
`uv_run` goes on calling them (of `OnRead` only when there are bytes or the
client has hung up, so that no network failure is ever required to happen), and of
`work_cb`, as a command that runs ends.  Strong fairness of a queued request's
start: the pool's queue is first in, first out, so a request is not overtaken
for ever, though the threads may be taken again and again while it waits.
In `BitStore`: weak fairness of each worker's steps while it executes a command;
the loops have no waits but the locks, which are held for a bounded time.
Nothing is assumed of clients.

## 4. Findings

Each is a run whose property states what the repository says and which TLC
shows violated by what the code does.

1. `found_eviction_in_use`: after an eviction, `open_file` fills `descs[idx]`
   with `idx` 0, whichever slot was evicted; slot 0 may be in use by another
   command, which then works on another key's file (file.c:122).
2. `found_collision_orphan`: a second key of a bucket replaces the first slot
   instead of being linked behind it, as `depth` is 0 behind a chain of one
   (file.c:244).  The first key's next use opens a second descriptor of its
   file.  (The proofs use that no link is ever made: `ChainsAreSingletons`.)
3. `found_sigterm_in_use`: `on_sigterm` closes the streams of commands that are
   being executed (main.c:13).
4. `found_silent_stall`: a line pipelined behind BITPOS or BITFIELD is not
   executed until more bytes arrive (net.c:286).
5. `found_lost_setbit`: of two SETBITs of one byte, one already answered is
   undone (bitops.c:48).
6. `found_bitop_dest`: a BITOP destination that is open is not truncated: the
   old contents stay behind the result (parser.c:257, bitops.c:389).

Seen while modelling, modelled, and without a run of their own because no
document says otherwise: the eviction scan starts at the cursor, so it refuses
with an idle slot before it (file.c:42) and evicts other than the least recently
used slot; references of already prepared sources are lost when another source
fails (file.c:270, variable `leaked`); a client that pipelines more than 64K is
dropped (net.c:201); `on_connection` returning before `uv_accept` stops the
listening socket (net.c:95, variable `listening`); a truncated BITOP destination
keeps its old length (file.c:136), so that later reads beyond the result are
errors; SETBIT of the byte at `FILE_SIZE_LIMIT` makes a key of 2G bytes
(parser.c:112), one more than solidbits.h:30 has for the limit, and BITOP of such
a key stores its result and answers an error (bitops.c:399), both shown by
`ImplementsBitmap` if a request addresses that byte; a BITOP into a key
that is one of its sources and not open
truncates it before it is read, so that it counts as zeros (parser.c:257); a
BITOP that fails behind the truncation of its destination (memory, or a source
that cannot be prepared) answers an error with the old contents gone
(parser.c:266, bitops.c:273); bitopCommand loads a length up to four times, so
that a BITCOP beside a SETBIT that fills a buffer may read a source a buffer
short, or not at all, and count fewer ones than there were (bitops.c:248-261); a
read error in the middle of BITCOUNT or of a BITOP source goes unreported
(bitops.c:200, 286), and `ferror` is never cleared, so that one failed access
fails all later ones of the descriptor (file.c:166; these three are not modelled).

## 5. The proofs

All are for every value of the constants that satisfies the modules' assumptions
(`TableAssumption`, `ConnectionAssumption`, `RequestsAssumption`,
`BitStoreAssumption`, `CrashAssumption`, `TokenizerAssumption`, `ParserAssumption`:
sizes are positive, the buckets are a function of the keys, `NULL` is neither a
key, a number, a request nor a stream, there are finitely many workers, requests
are well formed, a BITOP's sources fit into `job->desc[]`), with no bound on
slots, keys, workers, connections, lines, files, commands, kills or failures.

**FileTableProofs.** `TypeCorrect` (`TypeOK`), under `SpecWithTerm`.  `TypeOK` is not
inductive:
the walk over a bucket's chain and the unlinking of a victim follow pointers, and
`prepare_file` must be called with a key.
The inductive invariant `TypeInv` adds that no slot is linked
(`ChainsAreSingletons`, which finding 2 makes true; so a walk makes no
hop: lemma `WalkIsShort`), and that the keys of a command that prepares are
keys, not `NULL` (`KeysKnown`).  Lemmas say what each way `prepare_file` can end
keeps (`HitKeeps`, ..., `OpenKeeps`, joined in `PrepareKeeps`), and what a request
is (`RequestFacts`); one lemma per action of a worker and one for SIGTERM follow.

Who uses which slot: `RefsCorrect` (`RefsCountHolders`), `InUseProtected` and
`InUseOpen` (`IntactInUseKeepsKey` and `IntactInUseIsOpen`), `StreamsCorrect` (`NoStreamLost`)
and `CloseFilesCorrect` (`CloseFilesClosesAll`), all from one inductive invariant, `OwnershipInv`:

* `JobHolds`: what a job may hold at each program counter.  Without it, a
  reference taken could be one already counted, and the local array of
  `prepare_files` could overlap `job->desc[]` when it is given up.
* `RefsExact`: `refs` is the number of holders plus what is leaked, a free slot has
  none, and a slot held has the holder's key.  The counting is needed to protect
  slots (a victim has `refs` 0, so nobody holds it), the rest to keep the count.
* `SlotStreams`: occupied slots have distinct streams on their keys' files, and
  there are no other streams.  Distinctness is why closing the victim's stream
  closes nobody else's.

The last two are claimed while `clobbered` is false.  `Used`, `Emptied` and
`Opened` say, slot by slot, what the outcomes of `prepare_file` come to
(`PrepareOutcome`), so that the counting never looks at cursors or buckets.
`ReachableCorrect` (`IntactAllReachable`) rests on an invariant of its own,
`BucketsLead`: until a collision an occupied slot is the first of its bucket.
`RetryCorrect` (`RetryTakesIdleSlot`): a refused request has moved the cursor to
the start, so a retry scans every slot; `AccessPast`, that the clock is ahead of
every `last_access`, makes an idle slot a candidate of the eviction.
The assumption that `Workers` is finite makes holders countable.

**ConnectionProofs.** `TypeCorrect`; `LifecycleCorrect`, which is
`BusyIffInFlight`, `ClosedOnce`, `ClosedWhenIdle` and `ClosingIsClosed` at once;
`BufferCorrect` (`BufferBounded`).  The four life-cycle invariants need each
other: uv_close is called once because a closing connection without a request
has been closed already, and no callback of a request comes after it because
none is left.  `Lifecycle` is their conjunction, said per connection
(`LifecycleOf`): as a callback touches its own connection only, the step lemma
`LifecycleStep` reduces to that connection (`LifecycleLocal`) and then has one
case per callback.  `BufferBounded` is inductive together with the types.

What the client sees: `FramingCorrect` (`FramingExact`)
from `Framing`: the buffer holds the bytes received behind the last line
dispatched, it begins behind a newline, and the newlines before it are as many as
the lines dispatched; counting them is what makes the k-th command the k-th line.
`DropsCorrect` (`DroppedOnlyOverfull`) is an action property of the same
invariant.  `RepliesCorrect`, `RepliesIncreasing` and `NoStallCorrect` from
`Order`: a request in flight is of the last line dispatched and that line is not
answered yet, so neither a reply nor a request can be repeated or overtaken;
it needs the life cycle (one request at a time).  `PipelineImplemented`
(`ImplementsPipeline`): initial states map to initial states and each callback is
a step of `OrderedPipeline` or a stutter, under the three invariants.
`BusyCorrect`, `ClosedOnceCorrect` and `ClosingCorrect` restate parts of
`LifecycleCorrect`.

**BitStoreProofs.** `TypeCorrect` (`TypeOK`) from `TypeInv`, which says for each
program counter what the locals of a command are (`JobOK`): descriptors held are
open, buffers are bytes, the lengths taken are as many as the sources.
`LengthCorrect` (`LengthMatchesSize`), assuming `NoTruncation`, from
`DestinationsReady`: a destination about to be prepared is open or has no file, so
that no file is truncated under a length taken before.  `AcknowledgedCorrect`
(`IntactAcknowledged`) from `AckedInv`:

* `Covers`: no file extends behind `dt->length`; SETBIT takes a byte behind the
  length for zero without reading it, which would clear bits that are there.
* `NobodyClears`: no command on its way may clear an acknowledged bit.
* while `raced` is false, `OneWriter` (one SETBIT between its read and its write, of
  each byte) and `ReadAcked` (what it has read has the acknowledged bits).

A further part is about contents, for the modules that follow: the ones in
the bytes from one position to another (`OnesIn`) are additive over adjoining
parts (`PartsAdjoin`), grow with the bits (`OnesGrow`), and are what a piece
read at an offset counts (`PieceRead`), by bijections between sets of ones.

**BitStoreCounts.** `CountCorrect` (`CountBetween`).  Other workers set bits and
extend the file between the pieces a count reads, so what it has counted is no
number of ones the file ever had.  `Progress` is what holds instead, at every
piece: the count is at most the ones now before the offset, and with those now
from the offset to the end it reaches the ones there were when the command was
sent.  Both stay when bits are set (`ProgressStays`) and when a piece is counted
(`ProgressMade`).  `CountInv` says it for each program counter (`CountOK`), with
what makes bits only grow: as long as nothing is cleared, no job on its way
clears (`ClearsNothing`: a BITOP that stores would truncate), and SETBIT writes
the byte that is there with one bit more (`CalmJob`; this needs `AckedInv` and
`raced` to be false, or a SETBIT undoes another).  A count that started after
the file was extended sees all of it, as `Covers` keeps `dt->length` at the
size of the file or beyond.  The floor is claimed only while `torn` is false
(`Reaches`): then `t` and `r` stand for a length the file had, and it has only grown.
One lemma per step of BITCOUNT and of BITCOP's
loop (`CountRangeCounts`, ..., `OpCombineCounts`), joined in `CountingAdvances`;
`OthersStayCalm` is the interference.

**BitStoreRefinement.** `BitmapImplemented` (`ImplementsBitmap`), for any number of
workers, files and sizes of buffers, assuming `Orderly` and `WithinLimit`.  Each
assumption excludes what the code is known to break: without `Orderly` two
commands at one key may overlap (finding 5), a result may be stored over
something longer (finding 6), a source that is the destination may be truncated before it
is read, and a failure may follow the truncation; without `WithinLimit` a command
may address the byte at `FILE_SIZE_LIMIT` (section 4).  Destinations may be new, open,
or closed and truncated.  The mapping (`Stored`) is the contents of
the files, but for a destination being written, which is as it was when its BITOP
started.  A step that replies is `Bitmap`'s `Execute` or `Refuse`, the start of a
command its `Begin`, and all others, evictions included, stutter.  The reply and
the contents come from many steps, so the invariant, `SerialInv`, has beside the
type and `LengthMatchesSize` that no command changes a key of another
(`Isolated`), that no bitmap is too large (`Limited`), and for each
job what it has done so far (`JobIs`):

* `SetbitOK`: the byte read is the one there is, and a 0 is written only within
  the file.
* `BitcountOK`: what is counted are the ones from the start of the range to the
  offset; `RangeReply` relates `FromStart` and `LastByte`, as the code clamps, to the
  range `Bitmap` takes from the README.
* `SourcesOK`: the sources taken are open or empty, and the buffers of a round have
  their bytes at its offset, with zeros behind the end (`PieceOfSource`).
* `LengthsOK`: the lengths put together from `t` and `r` are theirs, as no other
  command extends a source under the loads; `Leads` is the loop invariant of the
  maximum, `maxidx` and `maxlen` being those of the longest source so far.
* `BitopOK`: the result before the offset is stored, or counted.  A destination
  (`DestinationOK`) is the result before the offset and from there on what was there,
  or nothing if it was truncated (`Spliced`), so that a source
  that is also the destination can still be read (`SourceBytes`); and it was no
  longer than the longest source (`OldWithin`), so that the last round leaves
  nothing old behind (`SplicedAll`), which is where finding 6 would break the proof.
* `NotExpended`: a destination that is a source stays open, or absent, until it is
  prepared.

The proof of a worker's step has two parts.  Its own command ends as in `Bitmap` or
goes on unseen (`Simulates`): one lemma per action (`RefuseSimulates`, ...,
`TakeTimesSimulates`, ..., `OpCombineSimulates`), joined in `WorkerSimulates` and
`WorkerSeen`; `Executes` and `Refuses` are the two ways a command ends, `OpGoesOn`,
`MeasuringGoesOn` and `CountGoesOn` the ways it does not.  The other commands stay
as they are (`OthersStay`): `JobStays` shows that `JobIs` depends on a
command's own keys only, and `IsolatedStep` that the step leaves these alone.
`LengthsKept` and `LimitKept` are the rest of the invariant; evictions are
`UnseenStep`.  `TargetIs`, `ResultIs`,
`StoresOn` and `CountsOn` are about the result of BITOP as a sequence: the longest
source is as long as it, a round computes its next bytes, stores them, counts them.
`LengthRestored` (`LengthMatchesSize` under the same assumptions) is a conjunct of the
invariant: a truncated destination has a `dt->length` too large only while its BITOP
runs.

**BitStoreCrashProofs.** `CrashLosesOneBit` (`OneBitAtRisk`) and
`CrashKeepsAcknowledged` (`IntactAcknowledged` with kills) from `RiskInv`, which is
`AckedInv` with the type of the disk and `OneBitAtRisk` itself: a step that
acknowledges a bit seeks in that stream, so it first flushes the one at risk.

**ParserProofs.** `TokensCorrect` (`ArgumentsAreWords`), for lines of every
length: `get_arg_count` counts ends of words, which correspond one to one to the
words (`WordsEnd`, `CountIsNumberOfWords`); the cursor of `split_fill` is a
recursive function whose existence is proved (`CursorsExist`) and each of whose
steps passes one word (`StepCounts`).  With the count known to be the number of
words, `ParserInv` says what is true at each point of `parse_and_execute`, and
gives `AnswersCorrect`, `JobMemoryCorrect` and `GrammarCorrect`.  The last needs
`BITOP_MAXIMUM` to be at least 4 (it is 19), or a BITOP NOT that is well formed
would be refused.

Induction over numbers is by `LeastNat`: were a fact false, there would be a least
number for which it is.

**Only model-checked.** Liveness (`EveryLineAnswered`, `ClosingIsFreed`,
`CommandsEnd`), which with `ENABLED` is out of TLAPS's reach.  Every other property
of a passing run, both refinements included, is a theorem.

## 6. Not modelled

* The hash by which commands are recognized (a name stands for its hash) and the
  syntax of numbers (a number is in range or not); start-up, options,
  daemonizing: they run once, before the first connection, with nothing beside
  them.  xxHash, a vendored pure function whose collisions the repository's README
  takes as impossible (collisions of buckets are modelled); the client.
* Errors of the disk and of `fflush`; the loss of power, which `fsync` is for.
* The `oom` flag of `reply()`: no command writes more than 36 bytes and the
  buffer starts with 64.
* Two calls of `get_us` in the same microsecond; `DESC_HARD_LIMIT` other than 0.
* Requests a pool thread takes from the queue after `on_sigterm`, while the
  process exits.  `uv_cancel` is never called by the code.
* `redisPopcount` is the number of ones; its arithmetic is not modelled.
* In `BitStore` releasing all descriptors is part of the step that replies.

## 7. Plan

Done: the modules above, in the order of importance (table, connections, bit
commands, arguments, kills), the two abstract specifications, and the theorems
of section 5, among them that both are implemented.

Next, in this order:

1. The server composed: connections, pool and atomic commands, with the order of
   commands of one connection and the parallelism of several; liveness of the
   clients that come after a failed `on_connection`.
2. Errors of the disk: `ferror`, which stays set, and what BITCOUNT and BITOP
   answer when a read fails.
3. The lanes of `redisPopcount` against a reference over bounded inputs.
