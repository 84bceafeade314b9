------------------------------- MODULE Bytes -------------------------------
(***************************************************************************)
(* The contents of a data file: a sequence of bytes, a byte being the set  *)
(* of its bits that are 1.                                                 *)
(***************************************************************************)
EXTENDS Integers, Sequences, FiniteSets

CONSTANTS
  Bit,   \* the bits of a byte (8 of them in the program)
  NULL   \* nothing: no destination, no default, no answer yet

Byte == SUBSET Bit

Smaller(a, b) == IF a < b THEN a ELSE b
Larger(a, b)  == IF a < b THEN b ELSE a

\* Byte o of f, counting from 0.  Beyond the end there are zeros.
ByteAt(f, o) == IF o < Len(f) THEN f[o + 1] ELSE {}

\* fread of size bytes at offset o: short at the end of the file.
ReadAt(f, o, size) == SubSeq(f, o + 1, Smaller(o + size, Len(f)))

\* fwrite of buf at offset o: a gap before it is filled with zeros.
WriteAt(f, o, buf) ==
  [i \in 1 .. Larger(Len(f), o + Len(buf)) |->
     IF o < i /\ i <= o + Len(buf) THEN buf[i - o] ELSE ByteAt(f, i - 1)]

\* The bits of f that are 1, and their number (redisPopcount).
Ones(f)     == {p \in (0 .. Len(f) - 1) \X Bit : p[2] \in f[p[1] + 1]}
PopCount(f) == Cardinality(Ones(f))

Options == {"AND", "OR", "XOR", "NOT"}

\* What BITOP makes of one byte of each of its sources.
Combine(option, b) ==
  CASE option = "AND" -> {x \in Bit : \A i \in DOMAIN b : x \in b[i]}
    [] option = "OR"  -> {x \in Bit : \E i \in DOMAIN b : x \in b[i]}
    [] option = "XOR" -> {x \in Bit : Cardinality({i \in DOMAIN b : x \in b[i]}) % 2 = 1}
    [] option = "NOT" -> Bit \ b[1]
=============================================================================
