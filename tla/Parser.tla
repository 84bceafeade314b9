------------------------------- MODULE Parser -------------------------------
(***************************************************************************)
(* parse_and_execute (src/src/parser.c) from the line to the reply: which  *)
(* lines are refused and when, what becomes of the argument array and of   *)
(* the descriptors in the job, and how often reply() is called.            *)
(*                                                                         *)
(* The line grows as in Tokenizer until a pool thread executes it.  What a *)
(* word says is one of the outcomes of the test the code makes of it.      *)
(* The outcomes of prepare_file and of the commands are taken as they      *)
(* come; modules FileTable and BitStore are about them.                    *)
(***************************************************************************)
EXTENDS Tokenizer

CONSTANTS
  NAME_LENGTH,       \* characters a command is recognized by (5)
  CMD_MININUM,       \* characters of the shortest line (10)
  BITOP_MAXIMUM,     \* most words of a BITOP, its name included (19)
  ARG_PART_MAXIMUM   \* descriptors of a job (17)

ASSUME ParserAssumption ==
  /\ NAME_LENGTH \in Nat /\ CMD_MININUM \in Nat
  /\ BITOP_MAXIMUM \in Nat /\ ARG_PART_MAXIMUM \in Nat \ {0}
  /\ NAME_LENGTH <= CMD_MININUM
  /\ BITOP_MAXIMUM >= 4
  /\ BITOP_MAXIMUM - 3 < ARG_PART_MAXIMUM

VARIABLES
  pc,       \* where parse_and_execute is
  name,     \* the command recognized
  said,     \* what its arguments say
  c,        \* what get_arg_count returned
  args,     \* what split_fill returned
  arrays,   \* argument arrays allocated and not freed
  desc,     \* indices of job->desc[] that are not NULL
  replies,  \* calls of reply()
  touched   \* history: prepare_file has been called

parserVars == <<pc, name, said, c, args, arrays, desc, replies, touched>>
allVars    == <<line, parserVars>>

Names == {"SETBIT", "GETBIT", "BITOP", "BITCOUNT", "BITPOS", "BITFIELD"}
Desc  == 0 .. ARG_PART_MAXIMUM - 1

\* An offset may be in range, a value a bit, a key at most 64 characters; the
\* option one of AND, OR, XOR, or NOT, or none; the destination a key, one of
\* the hooks COUNTOP and GETOP, or a hook unknown.
Saying == [offset : {"in", "out"}, value : {"bit", "other"}, key : {"fits", "long"},
           option : {"binary", "NOT", "unknown"}, dest : {"key", "hook", "unknown"}]

\* Bound: a word the command has not keeps its first value.
Sayings(n) ==
  {s \in Saying : /\ n \notin {"SETBIT", "GETBIT"} => s.offset = "in"
                  /\ n # "SETBIT" => s.value = "bit"
                  /\ n # "BITOP" => s.option = "binary" /\ s.dest = "key"}

\* The hash of the line's first characters is one of the switch's cases.  No
\* name has a space in it.
Recognized(n) ==
  \/ n = "unknown"
  \/ n \in Names /\ \A i \in 0 .. NAME_LENGTH - 1 : ~At(i)

-----------------------------------------------------------------------------
(* What the code does on its way out.                                      *)

Return   == pc' = "returned"
Reply    == replies' = replies + 1
NoReply  == UNCHANGED replies
KeepArgs == UNCHANGED arrays
Keep     == UNCHANGED <<line, name, said, c>>

free_args         == arrays' = arrays - 1
release_all_descs == desc' = {}

-----------------------------------------------------------------------------
(* From the line to the arguments.                                         *)

\* The next character arrives (net.c).
Arrives ==
  /\ pc = "receiving"
  /\ \E space \in BOOLEAN : Receive(space)
  /\ UNCHANGED parserVars

\* Mutant: the early return comes without a reply.
TooShortSilent ==
  /\ pc = "receiving" /\ Len(line) < CMD_MININUM
  /\ NoReply /\ Return
  /\ UNCHANGED <<line, name, said, c, args, arrays, desc, touched>>

\* ERR:CMD TOO SHORT
TooShort ==
  /\ pc = "receiving" /\ Len(line) < CMD_MININUM
  /\ Reply /\ Return
  /\ UNCHANGED <<line, name, said, c, args, arrays, desc, touched>>

\* The words are counted, the job zeroed and the command looked up.
Recognize ==
  /\ pc = "receiving" /\ Len(line) >= CMD_MININUM
  /\ c' = get_arg_count
  /\ \E n \in Names \cup {"unknown"} :
       /\ Recognized(n) /\ name' = n
       /\ said' \in Sayings(n)
  /\ pc' = "count"
  /\ release_all_descs
  /\ UNCHANGED <<line, args, arrays, replies, touched>>

\* BITPOS asks for c < 3 && c > 5, which no c is.
CountWrong ==
  \/ name = "SETBIT" /\ c # 4
  \/ name = "GETBIT" /\ c # 3
  \/ name = "BITOP" /\ (c < 4 \/ c > BITOP_MAXIMUM)
  \/ name = "BITCOUNT" /\ (c < 2 \/ c > 4)
  \/ name = "BITFIELD" /\ c < 5

\* ERR:ARGS TOO MANY OR FEW, ERR:UNKNOW CMD
RefuseCount ==
  /\ pc = "count" /\ (CountWrong \/ name = "unknown")
  /\ Reply /\ Return
  /\ Keep /\ UNCHANGED <<args, arrays, desc, touched>>

\* BITPOS splits its words and frees them, BITFIELD does nothing.
Unimplemented ==
  /\ pc = "count" /\ ~CountWrong /\ name \in {"BITPOS", "BITFIELD"}
  /\ NoReply /\ Return
  /\ args' = IF name = "BITPOS" THEN split_fill(c) ELSE args
  /\ Keep /\ UNCHANGED <<arrays, desc, touched>>

Split ==
  /\ pc = "count" /\ ~CountWrong
  /\ name \in {"SETBIT", "GETBIT", "BITOP", "BITCOUNT"}
  /\ args' = split_fill(c)
  /\ arrays' = arrays + 1
  /\ pc' = "check"
  /\ Keep /\ UNCHANGED <<desc, replies, touched>>

-----------------------------------------------------------------------------
(* From the arguments to the command.                                      *)

UsesHook == name = "BITOP" /\ said.dest = "hook"

\* Mutant: NOT takes any number of sources.
FaultyButNot ==
  \/ name \in {"SETBIT", "GETBIT"} /\ said.offset = "out"
  \/ name = "SETBIT" /\ said.value = "other"
  \/ name = "BITOP" /\ (said.option = "unknown" \/ said.dest = "unknown")
  \/ ~UsesHook /\ said.key = "long"

Faulty ==
  \/ name \in {"SETBIT", "GETBIT"} /\ said.offset = "out"
  \/ name = "SETBIT" /\ said.value = "other"
  \/ name = "BITOP" /\ (said.option = "unknown" \/ said.dest = "unknown")
  \/ name = "BITOP" /\ said.option = "NOT" /\ c # 4
  \/ ~UsesHook /\ said.key = "long"

\* One of the checks fails: ERR:OFFSET OUT OF RANGE, ERR:KEY TOO LONG, ...
Refuse ==
  /\ pc = "check" /\ Faulty
  /\ Reply /\ free_args /\ Return
  /\ Keep /\ UNCHANGED <<args, desc, touched>>

\* SETBIT and GETBIT have all they need from their arguments.
Accept ==
  /\ pc = "check" /\ ~Faulty
  /\ IF name \in {"SETBIT", "GETBIT"} THEN free_args ELSE KeepArgs
  /\ pc' = IF UsesHook THEN "sources" ELSE "key"
  /\ Keep /\ UNCHANGED <<args, desc, replies, touched>>

\* prepare_file(&job->desc[0], ...)
KeyPrepared ==
  /\ pc = "key"
  /\ touched' = TRUE
  /\ desc' = desc \cup {0}
  /\ pc' = CASE name = "BITOP" -> "sources" [] name = "BITCOUNT" -> "range" [] OTHER -> "run"
  /\ Keep /\ UNCHANGED <<args, arrays, replies>>

\* Mutant: the path that answers 0 for a missing key frees nothing, as GETBIT's.
KeyNotPreparedLeaks ==
  /\ pc = "key"
  /\ touched' = TRUE
  /\ Reply /\ KeepArgs /\ release_all_descs /\ Return
  /\ Keep /\ UNCHANGED args

\* ERR:FILESYSTEM FAILED, or 0 for a missing key that GETBIT or BITCOUNT names,
\* which has no descriptor to release.
KeyNotPrepared ==
  /\ pc = "key"
  /\ touched' = TRUE
  /\ Reply /\ Return
  /\ IF name \in {"BITOP", "BITCOUNT"} THEN free_args ELSE KeepArgs
  /\ \/ release_all_descs
     \/ name \in {"GETBIT", "BITCOUNT"} /\ UNCHANGED desc
  /\ Keep /\ UNCHANGED args

\* An empty key has no ones.
CountEmpty ==
  /\ pc = "range"
  /\ Reply /\ free_args /\ release_all_descs /\ Return
  /\ Keep /\ UNCHANGED <<args, touched>>

\* The first and last byte are taken from what arguments there are.
CountRange ==
  /\ pc = "range"
  /\ free_args
  /\ pc' = "run"
  /\ Keep /\ UNCHANGED <<args, desc, replies, touched>>

\* prepare_files(&job->desc[1], &args[2], c - 3); NULL for a key not there.
SourcesPrepared ==
  /\ pc = "sources"
  /\ touched' = TRUE
  /\ \E present \in SUBSET (1 .. c - 3) : desc' = desc \cup present
  /\ free_args
  /\ pc' = "run"
  /\ Keep /\ UNCHANGED <<args, replies>>

\* What it had prepared is lost with its local array (FileTable: leaked).
SourcesFail ==
  /\ pc = "sources"
  /\ touched' = TRUE
  /\ Reply /\ free_args /\ release_all_descs /\ Return
  /\ Keep /\ UNCHANGED args

\* The command itself; its result or ERR:FILE ACCESS FAILED.
Run ==
  /\ pc = "run"
  /\ Reply /\ release_all_descs /\ Return
  /\ Keep /\ UNCHANGED <<args, arrays, touched>>

ParserInit ==
  /\ Init
  /\ pc = "receiving"
  /\ name = "unknown" /\ said \in Sayings("unknown") /\ said.key = "fits"
  /\ c = 0 /\ args = <<>> /\ arrays = 0
  /\ desc = {} /\ replies = 0 /\ touched = FALSE

ParserNext ==
  \/ Arrives \/ TooShort \/ Recognize
  \/ RefuseCount \/ Unimplemented \/ Split
  \/ Refuse \/ Accept
  \/ KeyPrepared \/ KeyNotPrepared
  \/ CountEmpty \/ CountRange
  \/ SourcesPrepared \/ SourcesFail
  \/ Run

ParserSpec == ParserInit /\ [][ParserNext]_allVars

-----------------------------------------------------------------------------
(* Properties.                                                             *)

NumberOfWords == Cardinality(Words)

\* Every line executed is answered, once, whatever it says and whatever fails;
\* but for the two commands that are "not implemented" (net.c needs the reply
\* to go on with the next line).
Unanswered ==
  \/ name = "BITPOS"
  \/ name = "BITFIELD" /\ NumberOfWords >= 5
AnsweredOnce ==
  replies = IF pc = "returned" /\ ~Unanswered THEN 1 ELSE 0

\* Arguments are there whenever the code looks at one, and on every way out
\* they have been freed, once, and every descriptor has been released; a BITOP
\* has no more sources than job->desc[] has room for.
LastRead ==
  CASE name = "SETBIT" -> 3 [] name = "GETBIT" -> 2 [] name = "BITCOUNT" -> NumberOfWords - 1
    [] name = "BITOP" -> IF NumberOfWords < 4 THEN 3 ELSE NumberOfWords - 1
LooksAtArgs ==
  \/ pc \in {"check", "range", "sources"}
  \/ pc = "key" /\ name \in {"BITOP", "BITCOUNT"}
JobMemory ==
  /\ LooksAtArgs => 1 .. LastRead \subseteq DOMAIN args
  /\ arrays = IF LooksAtArgs THEN 1 ELSE 0
  /\ desc \subseteq Desc
  /\ pc = "returned" => desc = {}

\* The commands as the README writes them, of at most BITOP_MAXIMUM words; the
\* hooks are taken with NOT too.
Binary   == said.option = "binary" /\ NumberOfWords \in 4 .. BITOP_MAXIMUM
Negation == said.option = "NOT" /\ NumberOfWords = 4
Storable == said.dest = "hook" \/ (said.dest = "key" /\ said.key = "fits")
WellFormed ==
  \/ /\ name = "SETBIT" /\ NumberOfWords = 4
     /\ said.offset = "in" /\ said.value = "bit" /\ said.key = "fits"
  \/ name = "GETBIT" /\ NumberOfWords = 3 /\ said.offset = "in" /\ said.key = "fits"
  \/ name = "BITCOUNT" /\ NumberOfWords \in 2 .. 4 /\ said.key = "fits"
  \/ name = "BITOP" /\ (Binary \/ Negation) /\ Storable

\* A line reaches the files exactly if it is a command well formed: one that is
\* refused has not opened, created or truncated anything before.
ExecutedIffWellFormed ==
  /\ touched => WellFormed
  /\ pc = "returned" /\ WellFormed => touched
=============================================================================
