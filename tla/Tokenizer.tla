----------------------------- MODULE Tokenizer -----------------------------
(***************************************************************************)
(* How parser.c cuts a line into its arguments: get_arg_count says how     *)
(* many there are, split_fill says where each one is, and the commands     *)
(* index the result of the second with the result of the first.            *)
(*                                                                         *)
(* A line is the sequence of its characters, of which only being a space   *)
(* or not matters.  A position is a C index, from 0; an argument is the    *)
(* pair of where it starts and where it ends, the end not included.        *)
(***************************************************************************)
EXTENDS Integers, Sequences, FiniteSets

CONSTANT MaxLength   \* bound: characters of a line

ASSUME TokenizerAssumption == MaxLength \in Nat

VARIABLE line        \* the characters received so far: is it a space?

At(pos) == line[pos + 1]
Position == 0 .. Len(line)

-----------------------------------------------------------------------------
\* The spaces get_arg_count counts: those right behind a character that is not.
SpacesBehindWord ==
  {i \in Position \ {0, Len(line)} : At(i) /\ ~At(i - 1)}

\* Its variable l: the position behind the last space.
BehindLastSpace ==
  CHOOSE l \in Position : /\ l = 0 \/ At(l - 1)
                          /\ \A i \in Position : l <= i /\ i < Len(line) => ~At(i)

get_arg_count ==
  Cardinality(SpacesBehindWord) + IF Len(line) > BehindLastSpace THEN 1 ELSE 0

\* while (pos < len && str[pos] == 32) pos++, and the same with != 32.
SkipWhile(space, pos) ==
  CHOOSE end \in pos .. Len(line) :
    /\ \A i \in pos .. end - 1 : At(i) = space
    /\ end = Len(line) \/ At(end) # space

\* Mutant: exactly one space is skipped between arguments.
SkipOneSpace(pos) == IF pos < Len(line) THEN pos + 1 ELSE pos

SkipSpaces(pos) == SkipWhile(TRUE, pos)
SkipWord(pos)   == SkipWhile(FALSE, pos)

\* Where the cursor of split_fill is behind each word: it moves over the command
\* name, then over one argument at a time.
Cursors(count) ==
  LET cursor[i \in 0 .. count - 1] ==
        IF i = 0 THEN SkipWord(SkipSpaces(0)) ELSE SkipWord(SkipSpaces(cursor[i - 1]))
  IN  cursor

\* The arguments split_fill returns when asked for count - 1 of them.
split_fill(count) ==
  LET cursor == Cursors(count)
  IN  [i \in 1 .. count - 1 |-> <<SkipSpaces(cursor[i - 1]), cursor[i]>>]

-----------------------------------------------------------------------------
Init == line = <<>>

Receive(space) ==
  /\ Len(line) < MaxLength
  /\ line' = Append(line, space)

Next == \E space \in BOOLEAN : Receive(space)
Spec == Init /\ [][Next]_line

-----------------------------------------------------------------------------
(* Properties.                                                             *)

\* The words of the line: its longest runs of characters that are not spaces.
IsWord(a, b) ==
  /\ a < b
  /\ \A i \in a .. b - 1 : ~At(i)
  /\ a = 0 \/ At(a - 1)
  /\ b = Len(line) \/ At(b)
Words == {w \in Position \X Position : IsWord(w[1], w[2])}

\* However many spaces lead, trail or separate, the two loops agree: as many
\* arguments as words, and the arguments handed to a command are the words
\* behind the command name, in order (parser.c: "aligned with get_arg_count").
ArgumentsAreWords ==
  /\ get_arg_count = Cardinality(Words)
  /\ LET args == split_fill(get_arg_count)
     IN  \A i \in DOMAIN args :
           /\ args[i] \in Words
           /\ Cardinality({w \in Words : w[1] < args[i][1]}) = i
=============================================================================
