--------------------------- MODULE BitStoreProofs ---------------------------
(***************************************************************************)
(* Theorems about BitStore: its types, that dt->length is the size of the  *)
(* file, and that acknowledged bits stay; and lemmas about contents, read  *)
(* and counted piece by piece.                                             *)
(***************************************************************************)
EXTENDS BitStore, LeastNumber, FunctionTheorems

-----------------------------------------------------------------------------
(* Contents of files.                                                      *)

\* fwrite: the bytes written are there, all others are as before.
LEMMA Written ==
  ASSUME NEW f \in Seq(Byte), NEW buf \in Seq(Byte), NEW o \in Nat
  PROVE  /\ WriteAt(f, o, buf) \in Seq(Byte)
         /\ Len(WriteAt(f, o, buf)) = Larger(Len(f), o + Len(buf))
         /\ \A i \in Nat :
              ByteAt(WriteAt(f, o, buf), i) =
                IF o <= i /\ i < o + Len(buf) THEN buf[i - o + 1] ELSE ByteAt(f, i)
<1> DEFINE n == Larger(Len(f), o + Len(buf))
           W(i) == IF o < i /\ i <= o + Len(buf) THEN buf[i - o] ELSE ByteAt(f, i - 1)
<1>1. n \in Nat /\ Len(f) <= n /\ o + Len(buf) <= n /\ (n = Len(f) \/ n = o + Len(buf))
  BY DEF Larger
<1>2. \A i \in 1 .. n : W(i) \in Byte
  BY DEF ByteAt, Byte
<1>3. WriteAt(f, o, buf) = [i \in 1 .. n |-> W(i)]
  BY DEF WriteAt
<1>4. WriteAt(f, o, buf) \in Seq(Byte) /\ Len(WriteAt(f, o, buf)) = n
  <2> HIDE DEF W, n
  <2> QED BY <1>1, <1>2, <1>3
<1>5. ASSUME NEW i \in Nat
      PROVE  ByteAt(WriteAt(f, o, buf), i) =
               IF o <= i /\ i < o + Len(buf) THEN buf[i - o + 1] ELSE ByteAt(f, i)
  <2>1. CASE i < n
    <3>1. ByteAt(WriteAt(f, o, buf), i) = W(i + 1)
      <4> HIDE DEF W, n
      <4> QED BY <1>1, <1>3, <1>4, <2>1 DEF ByteAt
    <3>2. i + 1 - o = i - o + 1 /\ i + 1 - 1 = i
      OBVIOUS
    <3> QED BY <3>1, <3>2
  <2>2. CASE n <= i
    <3>1. ByteAt(WriteAt(f, o, buf), i) = {}
      <4> HIDE DEF n
      <4> QED BY <1>1, <1>4, <2>2 DEF ByteAt
    <3>2. ByteAt(f, i) = {}
      BY <1>1, <2>2 DEF ByteAt
    <3> QED BY <1>1, <2>2, <3>1, <3>2
  <2> QED BY <1>1, <2>1, <2>2
<1> QED BY <1>4, <1>5

\* fread of one byte: that byte, or nothing at the end of the file.
LEMMA WasRead ==
  ASSUME NEW f \in Seq(Byte), NEW o \in Nat, NEW size \in Int
  PROVE  /\ ReadAt(f, o, size) \in Seq(Byte)
         /\ size = 1 /\ ReadAt(f, o, size) # <<>> =>
              o < Len(f) /\ ReadAt(f, o, size)[1] = ByteAt(f, o)
<1>1. Smaller(o + size, Len(f)) \in Int /\ Smaller(o + size, Len(f)) <= Len(f)
  BY DEF Smaller
<1>2. ReadAt(f, o, size) \in Seq(Byte)
  BY <1>1 DEF ReadAt
<1>3. ASSUME size = 1, ReadAt(f, o, size) # <<>>
      PROVE  o < Len(f) /\ ReadAt(f, o, size)[1] = ByteAt(f, o)
  <2>1. Smaller(o + 1, Len(f)) = IF o < Len(f) THEN o + 1 ELSE Len(f)
    BY DEF Smaller
  <2>2. o < Len(f)
    BY <1>3, <2>1 DEF ReadAt
  <2> QED BY <1>3, <2>1, <2>2 DEF ReadAt, ByteAt
<1> QED BY <1>2, <1>3

\* The ones of f from byte a to before byte b, and their number.
Part(f, a, b)   == {p \in Ones(f) : a <= p[1] /\ p[1] < b}
OnesIn(f, a, b) == Cardinality(Part(f, a, b))

\* A one is a bit of a byte, and there are finitely many.
LEMMA OneIsBit ==
  ASSUME NEW f \in Seq(Byte)
  PROVE  /\ IsFiniteSet(Ones(f))
         /\ Ones(f) \subseteq Nat \X Bit
         /\ \A i \in Nat, x \in Bit : <<i, x>> \in Ones(f) <=> x \in ByteAt(f, i)
<1>1. IsFiniteSet(0 .. Len(f) - 1)
  <2>1. Len(f) - 1 \in Int
    OBVIOUS
  <2> QED BY <2>1, FS_Interval
<1>2. IsFiniteSet((0 .. Len(f) - 1) \X Bit)
  BY <1>1, FS_Product, BitStoreAssumption
<1>3. Ones(f) \subseteq (0 .. Len(f) - 1) \X Bit
  BY DEF Ones
<1>4. IsFiniteSet(Ones(f))
  BY <1>2, <1>3, FS_Subset
<1>5. Ones(f) \subseteq Nat \X Bit
  BY <1>3
<1>6. ASSUME NEW i \in Nat, NEW x \in Bit
      PROVE  <<i, x>> \in Ones(f) <=> x \in ByteAt(f, i)
  <2>1. CASE i < Len(f)
    <3>1. i \in 0 .. Len(f) - 1
      BY <2>1
    <3> QED BY <2>1, <3>1 DEF Ones, ByteAt
  <2>2. CASE Len(f) <= i
    <3>1. i \notin 0 .. Len(f) - 1 /\ ~(i < Len(f))
      BY <2>2
    <3> QED BY <3>1 DEF Ones, ByteAt
  <2> QED BY <2>1, <2>2
<1> QED BY <1>4, <1>5, <1>6

\* redisPopcount returns a number.
LEMMA PopCountIsNat ==
  ASSUME NEW f \in Seq(Byte)
  PROVE  PopCount(f) \in Nat
BY OneIsBit, FS_CardinalityType DEF PopCount

\* So are those of a part.
LEMMA PartFacts ==
  ASSUME NEW f \in Seq(Byte), NEW a, NEW b
  PROVE  /\ IsFiniteSet(Part(f, a, b)) /\ OnesIn(f, a, b) \in Nat
         /\ Part(f, a, b) \in SUBSET Ones(f)
         /\ OnesIn(f, a, b) <= PopCount(f)
<1>1. Part(f, a, b) \in SUBSET Ones(f)
  BY DEF Part
<1>2. IsFiniteSet(Part(f, a, b)) /\ OnesIn(f, a, b) <= PopCount(f)
  BY <1>1, OneIsBit, FS_Subset DEF OnesIn, PopCount
<1> QED BY <1>1, <1>2, FS_CardinalityType DEF OnesIn

\* What there is to count of two parts that adjoin.
LEMMA PartsAdjoin ==
  ASSUME NEW f \in Seq(Byte), NEW a \in Int, NEW b \in Int, NEW c \in Int, a <= b, b <= c
  PROVE  OnesIn(f, a, c) = OnesIn(f, a, b) + OnesIn(f, b, c)
<1>1. \A p \in Ones(f) : p[1] \in Int
  BY OneIsBit
<1>2. Part(f, a, c) = Part(f, a, b) \cup Part(f, b, c)
  BY <1>1 DEF Part
<1>3. Part(f, a, b) \cap Part(f, b, c) = {}
  BY <1>1 DEF Part
<1>4. OnesIn(f, a, c) = OnesIn(f, a, b) + OnesIn(f, b, c) - Cardinality({})
  <2>1. /\ IsFiniteSet(Part(f, a, b)) /\ IsFiniteSet(Part(f, b, c))
    BY PartFacts
  <2> HIDE DEF Part
  <2> QED BY <1>2, <1>3, <2>1, FS_Union DEF OnesIn
<1> QED BY <1>4, PartFacts, FS_EmptySet

\* There is nothing to count behind the end, nor in an empty part.
LEMMA NothingThere ==
  ASSUME NEW f \in Seq(Byte), NEW a \in Int, NEW b \in Int, b <= a \/ Len(f) <= a
  PROVE  OnesIn(f, a, b) = 0
<1>1. \A p \in Ones(f) : p[1] \in Int /\ p[1] < Len(f)
  <2>1. Ones(f) \subseteq (0 .. Len(f) - 1) \X Bit
    BY DEF Ones
  <2> QED BY <2>1
<1>2. Part(f, a, b) = {}
  <2>1. Len(f) \in Nat
    OBVIOUS
  <2> QED BY <1>1, <2>1 DEF Part
<1> QED BY <1>2, FS_EmptySet DEF OnesIn

\* All ones are before the end.
LEMMA AllInRange ==
  ASSUME NEW f \in Seq(Byte), NEW b \in Int, Len(f) <= b
  PROVE  OnesIn(f, 0, b) = PopCount(f)
<1>1. Ones(f) \subseteq (0 .. Len(f) - 1) \X Bit
  BY DEF Ones
<1>2. \A p \in Ones(f) : 0 <= p[1] /\ p[1] < b
  <2>1. Len(f) \in Nat
    OBVIOUS
  <2> QED BY <1>1, <2>1
<1>3. Part(f, 0, b) = Ones(f)
  BY <1>2 DEF Part
<1> QED BY <1>3 DEF OnesIn, PopCount

\* Where every byte keeps its ones there are no fewer.
LEMMA OnesGrow ==
  ASSUME NEW f \in Seq(Byte), NEW g \in Seq(Byte), NEW a, NEW b,
         \A i \in Nat : ByteAt(f, i) \subseteq ByteAt(g, i)
  PROVE  OnesIn(f, a, b) <= OnesIn(g, a, b) /\ PopCount(f) <= PopCount(g)
<1>1. Ones(f) \subseteq Ones(g)
  <2> SUFFICES ASSUME NEW i \in Nat, NEW x \in Bit, <<i, x>> \in Ones(f)
               PROVE  <<i, x>> \in Ones(g)
    BY OneIsBit
  <2> QED BY OneIsBit
<1>2. Part(f, a, b) \in SUBSET Part(g, a, b)
  BY <1>1 DEF Part
<1>3. OnesIn(f, a, b) <= OnesIn(g, a, b)
  BY <1>2, PartFacts, FS_Subset DEF OnesIn
<1>4. PopCount(f) <= PopCount(g)
  BY <1>1, OneIsBit, FS_Subset DEF PopCount
<1> QED BY <1>3, <1>4

\* Bytes that are the same, n of them at o in f and at 0 in g, have as many ones.
LEMMA SameBytes ==
  ASSUME NEW f \in Seq(Byte), NEW g \in Seq(Byte), NEW o \in Nat, NEW n \in Nat,
         \A i \in Nat : i < n => ByteAt(g, i) = ByteAt(f, o + i)
  PROVE  OnesIn(g, 0, n) = OnesIn(f, o, o + n)
<1> DEFINE S == Part(g, 0, n)
           T == Part(f, o, o + n)
           F == [p \in S |-> <<o + p[1], p[2]>>]
<1>1. \A p \in S : /\ p[1] \in Nat /\ p[1] < n /\ p[2] \in Bit /\ p = <<p[1], p[2]>>
                   /\ p[2] \in ByteAt(g, p[1])
  BY OneIsBit DEF Part
<1>2. \A i \in Nat, x \in Bit : i < n /\ x \in ByteAt(g, i) => <<i, x>> \in S
  BY OneIsBit DEF Part
<1>3. \A p \in T : /\ p[1] \in Nat /\ o <= p[1] /\ p[1] < o + n /\ p[2] \in Bit
                   /\ p = <<p[1], p[2]>> /\ p[2] \in ByteAt(f, p[1])
  BY OneIsBit DEF Part
<1>4. \A i \in Nat, x \in Bit :
        i < n /\ x \in ByteAt(f, o + i) => <<o + i, x>> \in T
  <2> SUFFICES ASSUME NEW i \in Nat, NEW x \in Bit, i < n, x \in ByteAt(f, o + i)
               PROVE  <<o + i, x>> \in T
    OBVIOUS
  <2>1. o + i \in Nat /\ o <= o + i /\ o + i < o + n
    OBVIOUS
  <2> QED BY <2>1, OneIsBit DEF Part
<1>5. F \in [S -> T]
  <2> SUFFICES ASSUME NEW p \in S PROVE <<o + p[1], p[2]>> \in T
    OBVIOUS
  <2> HIDE DEF S, T
  <2> QED BY <1>1, <1>4
<1>6. ASSUME NEW p \in S, NEW q \in S, F[p] = F[q]
      PROVE  p = q
  <2>1. o + p[1] = o + q[1] /\ p[2] = q[2]
    BY <1>6
  <2>2. p[1] \in Nat /\ q[1] \in Nat /\ p = <<p[1], p[2]>> /\ q = <<q[1], q[2]>>
    BY <1>1
  <2>3. p[1] = q[1]
    BY <2>1, <2>2
  <2> QED BY <2>1, <2>2, <2>3
<1>7. ASSUME NEW t \in T
      PROVE  \E p \in S : F[p] = t
  <2>1. /\ t[1] \in Nat /\ o <= t[1] /\ t[1] < o + n /\ t[2] \in Bit
        /\ t = <<t[1], t[2]>> /\ t[2] \in ByteAt(f, t[1])
    BY <1>3
  <2> DEFINE i == t[1] - o
  <2>2. i \in Nat /\ i < n /\ o + i = t[1]
    BY <2>1
  <2>3. t[2] \in ByteAt(g, i)
    <3> HIDE DEF i
    <3> QED BY <2>1, <2>2
  <2>4. <<i, t[2]>> \in S
    <3> HIDE DEF S, i
    <3> QED BY <1>2, <2>1, <2>2, <2>3
  <2>5. F[<<i, t[2]>>] = <<o + i, t[2]>>
    <3> HIDE DEF S
    <3> QED BY <2>4
  <2> QED BY <2>1, <2>2, <2>4, <2>5
<1> HIDE DEF F, S, T
<1>8. F \in Bijection(S, T)
  BY <1>5, <1>6, <1>7, Fun_IsBij
<1>9. ExistsBijection(S, T)
  BY <1>8 DEF ExistsBijection
<1>10. IsFiniteSet(S)
  BY PartFacts DEF S
<1> QED BY <1>9, <1>10, FS_Bijection DEF OnesIn, S, T

\* fread: how much is read, and what.
LEMMA PieceRead ==
  ASSUME NEW f \in Seq(Byte), NEW o \in Nat, NEW size \in Nat
  PROVE  /\ ReadAt(f, o, size) \in Seq(Byte) /\ Len(ReadAt(f, o, size)) \in Nat /\ Len(ReadAt(f, o, size)) <= size
         /\ Len(f) <= o => Len(ReadAt(f, o, size)) = 0
         /\ o < Len(f) => Len(ReadAt(f, o, size)) = Smaller(size, Len(f) - o)
         /\ PopCount(ReadAt(f, o, size)) = OnesIn(f, o, o + Len(ReadAt(f, o, size)))
         /\ \A i \in Nat : i < size => ByteAt(ReadAt(f, o, size), i) = ByteAt(f, o + i)
<1> SUFFICES ASSUME NEW s, s = ReadAt(f, o, size)
             PROVE  /\ s \in Seq(Byte) /\ Len(s) \in Nat /\ Len(s) <= size
                    /\ Len(f) <= o => Len(s) = 0
                    /\ o < Len(f) => Len(s) = Smaller(size, Len(f) - o)
                    /\ PopCount(s) = OnesIn(f, o, o + Len(s))
                    /\ \A i \in Nat : i < size => ByteAt(s, i) = ByteAt(f, o + i)
  OBVIOUS
<1> DEFINE m == Smaller(o + size, Len(f))
<1>1. m \in Nat /\ m <= Len(f) /\ m <= o + size /\ (m = Len(f) \/ m = o + size)
  BY DEF Smaller
<1>2. s = SubSeq(f, o + 1, m)
  BY DEF ReadAt
<1> HIDE DEF m
<1>3. /\ s \in Seq(Byte)
      /\ Len(s) = IF m <= o THEN 0 ELSE m - o
      /\ \A i \in 1 .. Len(s) : s[i] = f[o + i]
  <2>1. CASE m <= o
    BY <1>1, <1>2, <2>1
  <2>2. CASE o < m
    BY <1>1, <1>2, <2>2
  <2> QED BY <1>1, <2>1, <2>2
<1>4. /\ Len(s) \in Nat /\ Len(s) <= size
      /\ Len(f) <= o => Len(s) = 0
      /\ o < Len(f) => Len(s) = Smaller(size, Len(f) - o)
  <2>1. Len(s) \in Nat /\ Len(s) <= size
    BY <1>1, <1>3
  <2>2. CASE Len(f) <= o
    BY <1>1, <1>3, <2>2
  <2>3. CASE o < Len(f)
    BY <1>1, <1>3, <2>3 DEF Smaller
  <2> QED BY <2>1, <2>2, <2>3
<1>5. ASSUME NEW i \in Nat, i < Len(s)
      PROVE  ByteAt(s, i) = ByteAt(f, o + i)
  <2>1. i + 1 \in 1 .. Len(s) /\ o + (i + 1) = o + i + 1 /\ o + i < Len(f)
    BY <1>1, <1>3, <1>5
  <2>2. s[i + 1] = f[o + i + 1]
    BY <1>3, <2>1
  <2> QED BY <1>5, <2>1, <2>2 DEF ByteAt
<1>6. ASSUME NEW i \in Nat, i < size
      PROVE  ByteAt(s, i) = ByteAt(f, o + i)
  <2>1. CASE i < Len(s)
    BY <1>5, <2>1
  <2>2. CASE Len(s) <= i
    <3>1. ~(o + i < Len(f)) /\ ~(i < Len(s))
      BY <1>1, <1>3, <1>6, <2>2
    <3> QED BY <3>1 DEF ByteAt
  <2> QED BY <1>4, <2>1, <2>2
<1>7. PopCount(s) = OnesIn(f, o, o + Len(s))
  <2>1. OnesIn(s, 0, Len(s)) = OnesIn(f, o, o + Len(s))
    BY <1>3, <1>4, <1>5, SameBytes
  <2>2. OnesIn(s, 0, Len(s)) = PopCount(s)
    BY <1>3, <1>4, AllInRange
  <2> QED BY <2>1, <2>2
<1> QED BY <1>3, <1>4, <1>6, <1>7

\* Whatever BITOP combines, it is a byte.
LEMMA CombineIsByte ==
  ASSUME NEW option \in Options, NEW b
  PROVE  Combine(option, b) \in Byte
BY DEF Combine, Options, Byte

\* Of the first N lengths one is the largest: by induction on N.
LEMMA LargestOfFirst ==
  ASSUME NEW N \in Nat \ {0}, NEW s \in [1 .. N -> Nat]
  PROVE  \E i \in 1 .. N : \A h \in 1 .. N : s[h] <= s[i]
<1> DEFINE Top(j, i) == \A h \in 1 .. j : s[h] <= s[i]
           Bad == {j \in 1 .. N : ~\E i \in 1 .. j : Top(j, i)}
<1>1. Bad = {}
  <2> SUFFICES ASSUME Bad # {} PROVE FALSE
    OBVIOUS
  <2>1. Bad \in SUBSET Nat
    OBVIOUS
  <2>2. PICK j \in Bad : \A m \in Bad : j <= m
    <3> HIDE DEF Bad
    <3> QED BY <2>1, LeastNat
  <2>3. j \in 1 .. N /\ j \in Nat
    OBVIOUS
  <2>4. ASSUME NEW i \in 1 .. j PROVE ~Top(j, i)
    OBVIOUS
  <2>5. CASE j = 1
    <3>1. 1 \in 1 .. N /\ s[1] \in Nat
      OBVIOUS
    <3>2. \A h \in 1 .. 1 : h = 1
      OBVIOUS
    <3>3. s[1] <= s[1]
      BY <3>1
    <3> QED BY <2>3, <2>4, <2>5, <3>2, <3>3
  <2>6. CASE j # 1
    <3>1. j - 1 \in 1 .. N /\ ~(j <= j - 1)
      BY <2>3, <2>6
    <3>2. j - 1 \notin Bad
      <4> HIDE DEF Bad
      <4> QED BY <2>2, <3>1
    <3>3. PICK i \in 1 .. j - 1 : Top(j - 1, i)
      BY <3>1, <3>2
    <3>4. \A h \in 1 .. j : h \in 1 .. N /\ s[h] \in Nat /\ (h = j \/ h \in 1 .. j - 1)
      BY <2>3
    <3>5. i \in 1 .. j /\ j \in 1 .. j
      BY <2>3
    <3>6. s[i] \in Nat /\ s[j] \in Nat
      BY <3>4, <3>5
    <3>7. CASE s[j] <= s[i]
      BY <2>4, <3>3, <3>4, <3>5, <3>7
    <3>8. CASE s[i] <= s[j]
      <4>1. ASSUME NEW h \in 1 .. j PROVE s[h] <= s[j]
        <5>1. s[h] \in Nat
          BY <3>4
        <5>2. CASE h = j
          BY <5>1, <5>2
        <5>3. CASE h \in 1 .. j - 1
          <6>1. s[h] <= s[i]
            BY <3>3, <5>3
          <6>2. \A x, y, z \in Nat : x <= y /\ y <= z => x <= z
            OBVIOUS
          <6> QED BY <3>6, <3>8, <5>1, <6>1, <6>2
        <5> QED BY <3>4, <5>2, <5>3
      <4> QED BY <2>4, <3>5, <4>1
    <3> QED BY <3>6, <3>7, <3>8
  <2> QED BY <2>5, <2>6
<1>2. N \in 1 .. N /\ N \notin Bad
  <2> HIDE DEF Bad
  <2> QED BY <1>1
<1> QED BY <1>2

\* maxlen of bitopCommand: one of the lengths, and none is larger.
LEMMA LongestIsOne ==
  ASSUME NEW lens \in Seq(Nat), lens # <<>>
  PROVE  /\ Longest(lens) \in Nat
         /\ \E i \in DOMAIN lens : Longest(lens) = lens[i]
         /\ \A i \in DOMAIN lens : lens[i] <= Longest(lens)
<1>1. /\ Len(lens) \in Nat \ {0} /\ DOMAIN lens = 1 .. Len(lens)
      /\ lens \in [1 .. Len(lens) -> Nat]
  OBVIOUS
<1>2. PICK i \in DOMAIN lens : \A h \in DOMAIN lens : lens[h] <= lens[i]
  BY <1>1, LargestOfFirst
<1>3. \E n \in {lens[j] : j \in DOMAIN lens} : \A j \in DOMAIN lens : lens[j] <= n
  BY <1>2
<1>4. /\ Longest(lens) \in {lens[j] : j \in DOMAIN lens}
      /\ \A j \in DOMAIN lens : lens[j] <= Longest(lens)
  BY <1>3 DEF Longest
<1>5. PICK j \in DOMAIN lens : Longest(lens) = lens[j]
  BY <1>4
<1>6. lens[j] \in Nat
  BY <1>1, <1>5
<1> QED BY <1>4, <1>5, <1>6

\* A round reads no negative number of bytes, and none of an empty source.
LEMMA RoundIsNat ==
  ASSUME NEW len \in Nat, NEW o \in Nat
  PROVE  Round(len, o) \in Nat /\ (len = 0 => Round(len, o) = 0)
BY BitStoreAssumption DEF Round, Larger, Smaller

-----------------------------------------------------------------------------
(* What is true of the variables at each point of a command.               *)

Pcs == {"idle", "refused", "key", "setbit", "write", "getbit", "range", "clamp", "count",
        "sources", "lengths", "rest", "compare", "longest", "read", "op"}

\* bitopCommand's first loop.
Measuring == {"lengths", "rest", "compare", "longest"}

JobType ==
  [pc : Pcs, req : Requests \cup {NULL}, held : SUBSET Keys, byteval : Byte,
   start : Int, end : Int, o : Nat, bits : Nat,
   dts : Seq(Keys \cup {NULL}), t : Nat, lens : Seq(Nat), maxidx : Nat, maxlen : Nat,
   p : Seq(Seq(Byte)), floor : Nat, old : Seq(Byte), torn : BOOLEAN]

\* A command on one key holds the key's descriptor.
OnKey(j, op) == j.req \in Requests /\ j.req.op = op /\ j.req.key \in j.held

\* BITOP holds its destination's descriptor, and those of the sources it has
\* prepared; a source that is not there has no length, and some source is the
\* longest if any has one.
OnSources(j) ==
  /\ j.req \in Requests /\ j.req.op = "BITOP"
  /\ j.req.hook = "NONE" => j.req.dest \in j.held
  /\ \A i \in DOMAIN j.dts : j.dts[i] \in j.held \cup {NULL}
  /\ Len(j.lens) <= Len(j.dts)
  /\ \A i \in DOMAIN j.lens : j.dts[i] = NULL => j.lens[i] = 0
  /\ j.maxlen # 0 => j.maxidx \in DOMAIN j.lens

\* What a job is at each point of its command.
JobOK(j) ==
  /\ j \in JobType
  /\ j.pc = "idle" => j = Idle
  /\ j.pc \in {"refused", "key"} =>
       /\ j.req \in Requests
       /\ j.held = {} /\ j.dts = <<>> /\ j.lens = <<>> /\ j.p = <<>> /\ j.o = 0
       /\ j.maxlen = 0
  /\ j.pc = "key" => Key(j.req) # NULL
  /\ j.pc \in {"setbit", "write"} => OnKey(j, "SETBIT")
  /\ j.pc = "getbit" => OnKey(j, "GETBIT")
  /\ j.pc \in {"range", "clamp", "count"} => OnKey(j, "BITCOUNT")
  /\ j.pc \in {"sources", "read", "op"} \cup Measuring => OnSources(j)
  /\ j.pc = "sources" =>
       /\ Len(j.dts) < Len(j.req.srcs) /\ j.lens = <<>> /\ j.p = <<>> /\ j.o = 0
       /\ j.maxlen = 0
  /\ j.pc \in Measuring => j.p = <<>> /\ j.o = 0
  /\ j.pc = "rest" => Len(j.lens) < Len(j.dts) /\ j.dts[Len(j.lens) + 1] # NULL
  /\ j.pc \in {"compare", "longest"} => j.lens # <<>> /\ j.dts[Len(j.lens)] # NULL
  /\ j.pc = "longest" => j.maxidx = Len(j.lens)
  /\ j.pc \in {"read", "op"} => Len(j.lens) = Len(j.dts) /\ j.maxidx \in DOMAIN j.lens
  /\ j.pc = "read" => Len(j.p) < Len(j.dts)

\* The files and their descriptors.
StoreOK ==
  /\ files \subseteq Keys
  /\ data \in [Keys -> Seq(Byte)]
  /\ length \in [Keys -> Nat \cup {NULL}]
  /\ \A k \in Keys \ files : data[k] = <<>> /\ length[k] = NULL

AnswerOK == answer \in [Workers -> {NULL} \cup (Requests \X Int)]

Open == {k \in Keys : length[k] # NULL}

HistoryOK ==
  /\ started \in Nat
  /\ acked \subseteq Keys \X Nat \X Bit
  /\ raced \in BOOLEAN /\ cleared \in BOOLEAN

JobsOK ==
  /\ job \in [Workers -> JobType]
  /\ \A w \in Workers : JobOK(job[w]) /\ job[w].held \subseteq Open

TypeInv == StoreOK /\ AnswerOK /\ HistoryOK /\ JobsOK

\* What has leaked is not closed.
LeakedOK == leaked \subseteq Open

\* The types proved are at least those TypeOK states.
LEMMA TypeInvImpliesTypeOK ==
  ASSUME TypeInv, LeakedOK
  PROVE  TypeOK
<1>1. ASSUME NEW w \in Workers
      PROVE  /\ job[w].req \in Requests \cup {NULL}
             /\ job[w].held \subseteq {k \in Keys : length[k] # NULL}
             /\ job[w].byteval \in Byte
             /\ job[w].start \in Int /\ job[w].end \in Int
             /\ job[w].o \in Nat /\ job[w].bits \in Nat
             /\ job[w].dts \in Seq(Keys \cup {NULL})
             /\ job[w].t \in Nat /\ job[w].lens \in Seq(Nat)
             /\ job[w].maxidx \in Nat /\ job[w].maxlen \in Nat
             /\ job[w].p \in Seq(Seq(Byte))
             /\ answer[w] = NULL \/ answer[w] \in Requests \X Int
  <2>1. job[w] \in JobType /\ job[w].held \subseteq Open
    BY DEF TypeInv, JobsOK
  <2>2. answer[w] \in {NULL} \cup (Requests \X Int)
    BY DEF TypeInv, AnswerOK
  <2> QED BY <2>1, <2>2 DEF JobType, Open
<1> QED BY <1>1 DEF TypeOK, TypeInv, StoreOK, HistoryOK, LeakedOK, Open

\* The types at the start.
LEMMA InitTypeInv ==
  ASSUME Init
  PROVE  TypeInv /\ LeakedOK
<1>1. StoreOK
  <2>1. OldFiles \subseteq Seq(Byte) /\ <<>> \in Seq(Byte)
    BY BitStoreAssumption
  <2> QED BY <2>1 DEF Init, StoreOK
<1>2. JobOK(Idle) /\ Idle.held = {}
  BY DEF JobOK, Measuring, Idle, JobType, Pcs, Byte, NoFloor
<1>3. JobsOK
  BY <1>2 DEF Init, JobsOK, JobOK
<1>4. AnswerOK /\ HistoryOK
  BY DEF Init, AnswerOK, HistoryOK
<1>5. LeakedOK
  BY DEF Init, LeakedOK
<1> QED BY <1>1, <1>3, <1>4, <1>5 DEF TypeInv

-----------------------------------------------------------------------------
(* What the calls of file.c do to the files.                               *)

\* prepare_file gives the key a descriptor, takes nobody's, and changes no
\* contents but those of a destination it truncates.
LEMMA PreparedStore ==
  ASSUME StoreOK, NEW k \in Keys, NEW mode, Prepared(k, mode)
  PROVE  /\ StoreOK'
         /\ Open \subseteq Open' /\ k \in Open'
         /\ \A i \in Keys : data'[i] = data[i] \/ (i = k /\ mode = 2 /\ data'[i] = <<>>)
<1>1. CASE /\ length[k] # NULL
           /\ UNCHANGED <<files, data, length>>
  BY <1>1 DEF StoreOK, Open
<1>2. CASE /\ length[k] = NULL /\ k \in files
           /\ length' = [length EXCEPT ![k] = Len(data[k])]
           /\ data' = IF mode = 2 THEN [data EXCEPT ![k] = <<>>] ELSE data
           /\ UNCHANGED files
  <2>1. Len(data[k]) \in Nat /\ Len(data[k]) # NULL
    BY BitStoreAssumption DEF StoreOK
  <2>2. length' \in [Keys -> Nat \cup {NULL}]
    BY <1>2, <2>1 DEF StoreOK
  <2>3. \A i \in Keys : length'[i] = IF i = k THEN Len(data[k]) ELSE length[i]
    BY <1>2 DEF StoreOK
  <2>4. data' \in [Keys -> Seq(Byte)]
    <3>1. <<>> \in Seq(Byte)
      OBVIOUS
    <3> QED BY <1>2, <3>1 DEF StoreOK
  <2>5. \A i \in Keys : data'[i] = IF i = k /\ mode = 2 THEN <<>> ELSE data[i]
    BY <1>2 DEF StoreOK
  <2> QED BY <1>2, <2>1, <2>2, <2>3, <2>4, <2>5 DEF StoreOK, Open
<1>3. CASE /\ length[k] = NULL /\ k \notin files /\ mode # 1
           /\ files' = files \cup {k}
           /\ length' = [length EXCEPT ![k] = 0]
           /\ UNCHANGED data
  <2>1. 0 # NULL
    BY BitStoreAssumption
  <2>2. \A i \in Keys : length'[i] = IF i = k THEN 0 ELSE length[i]
    BY <1>3 DEF StoreOK
  <2> QED BY <1>3, <2>1, <2>2 DEF StoreOK, Open
<1> QED BY <1>1, <1>2, <1>3 DEF Prepared

\* write_to changes one file, which stays open.
LEMMA WrittenStore ==
  ASSUME StoreOK, NEW k \in Open, NEW buf \in Seq(Byte), NEW o \in Nat, write_to(k, buf, o)
  PROVE  /\ StoreOK'
         /\ Open \subseteq Open'
         /\ \A i \in Keys : i # k => data'[i] = data[i]
         /\ data'[k] = WriteAt(data[k], o, buf)
<1>1. k \in Keys /\ k \in files /\ length[k] \in Nat /\ data[k] \in Seq(Byte)
  BY DEF StoreOK, Open
<1>2. WriteAt(data[k], o, buf) \in Seq(Byte)
  BY <1>1, Written
<1>3. Larger(length[k], o + Len(buf)) \in Nat
  BY <1>1 DEF Larger
<1>4. /\ data' = [data EXCEPT ![k] = WriteAt(data[k], o, buf)]
      /\ length' = [length EXCEPT ![k] = Larger(length[k], o + Len(buf))]
      /\ UNCHANGED files
  BY DEF write_to
<1>5. Larger(length[k], o + Len(buf)) # NULL
  BY <1>3, BitStoreAssumption
<1> QED BY <1>1, <1>2, <1>3, <1>4, <1>5 DEF StoreOK, Open

-----------------------------------------------------------------------------
(* What a step of one worker does to the jobs.                             *)

\* A worker goes on to j.
LEMMA JobMoves ==
  ASSUME JobsOK, NEW w \in Workers, NEW j, JobOK(j), j.held \subseteq Open',
         Open \subseteq Open', job' = [job EXCEPT ![w] = j]
  PROVE  JobsOK'
<1>1. j \in JobType
  BY DEF JobOK
<1>2. job' \in [Workers -> JobType]
  BY <1>1 DEF JobsOK
<1>3. ASSUME NEW v \in Workers
      PROVE  JobOK(job'[v]) /\ job'[v].held \subseteq Open'
  <2>1. CASE v = w
    BY <2>1 DEF JobsOK
  <2>2. CASE v # w
    BY <2>2 DEF JobsOK
  <2> QED BY <2>1, <2>2
<1> QED BY <1>2, <1>3 DEF JobsOK

\* A worker replies.
LEMMA JobEnds ==
  ASSUME JobsOK, AnswerOK, NEW w \in Workers, NEW n \in Int, Reply(w, n),
         job[w].req \in Requests, Open \subseteq Open'
  PROVE  JobsOK' /\ AnswerOK'
<1>1. JobOK(Idle) /\ Idle.held = {}
  BY DEF JobOK, Measuring, Idle, JobType, Pcs, Byte, NoFloor
<1>2. job' = [job EXCEPT ![w] = Idle]
  BY DEF Reply
<1>3. JobsOK'
  BY <1>1, <1>2, JobMoves
<1>4. AnswerOK'
  BY DEF Reply, AnswerOK
<1> QED BY <1>3, <1>4

\* What a request has, by the command it is.
LEMMA RequestKinds ==
  ASSUME NEW q \in Requests
  PROVE  /\ q.op \in {"SETBIT", "GETBIT", "BITCOUNT", "BITOP"}
         /\ q.op = "SETBIT" => q \in SetbitRequest
         /\ q.op = "GETBIT" => q \in GetbitRequest
         /\ q.op = "BITCOUNT" => q \in BitcountRequest
         /\ q.op = "BITOP" =>
              /\ q \in BitopRequest
              /\ q.option \in Options /\ q.srcs \in Seq(Keys) /\ q.srcs # <<>>
              /\ q.dest \in Keys \cup {NULL} /\ (q.dest = NULL <=> q.hook # "NONE")
<1>1. q \in SetbitRequest \cup GetbitRequest \cup BitcountRequest \cup BitopRequest
  BY RequestsAssumption
<1> QED BY <1>1 DEF SetbitRequest, GetbitRequest, BitcountRequest, BitopRequest

\* PrepareKey keeps the types.
LEMMA PrepareKeyTypes ==
  ASSUME TypeInv, NEW w \in Workers, PrepareKey(w)
  PROVE  TypeInv'
<1> DEFINE q == job[w].req
<1>1. job[w].pc = "key" /\ JobOK(job[w]) /\ job \in [Workers -> JobType]
  BY DEF TypeInv, JobsOK, PrepareKey
<1>2. /\ q \in Requests /\ Key(q) # NULL
      /\ job[w].dts = <<>> /\ job[w].lens = <<>> /\ job[w].p = <<>> /\ job[w].o = 0
      /\ job[w].maxlen = 0
  BY <1>1 DEF JobOK
<1>3. Key(q) \in Keys
  BY <1>2, RequestKinds DEF Key, SetbitRequest, GetbitRequest, BitcountRequest
<1>4. HistoryOK'
  BY DEF TypeInv, HistoryOK, PrepareKey
<1>5. CASE /\ Prepared(Key(q), Mode(q))
           /\ job' = [job EXCEPT ![w].pc = First(q), ![w].held = {Key(q)}]
           /\ UNCHANGED answer
  <2>1. StoreOK' /\ Open \subseteq Open' /\ Key(q) \in Open'
    BY <1>3, <1>5, PreparedStore DEF TypeInv
  <2> SUFFICES ASSUME NEW j, j = [job[w] EXCEPT !.pc = First(q), !.held = {Key(q)}]
               PROVE  TypeInv'
    OBVIOUS
  <2>2. job' = [job EXCEPT ![w] = j]
    BY <1>1, <1>5
  <2>3. job[w] \in JobType /\ First(q) \in Pcs
    BY <1>1, <1>2, RequestKinds DEF JobOK, First, Pcs
  <2>4. /\ j \in JobType
        /\ j.pc = First(q) /\ j.held = {Key(q)} /\ j.req = q
        /\ j.dts = <<>> /\ j.lens = <<>> /\ j.p = <<>> /\ j.o = 0 /\ j.maxlen = 0
    BY <1>2, <1>3, <2>3 DEF JobType
  <2>5. JobOK(j)
    <3>1. CASE q.op = "SETBIT"
      BY <1>2, <2>4, <3>1 DEF JobOK, Measuring, First, OnKey, Key
    <3>2. CASE q.op = "GETBIT"
      BY <1>2, <2>4, <3>2 DEF JobOK, Measuring, First, OnKey, Key
    <3>3. CASE q.op = "BITCOUNT"
      BY <1>2, <2>4, <3>3 DEF JobOK, Measuring, First, OnKey, Key
    <3>4. CASE q.op = "BITOP"
      <4>1. q.srcs # <<>> /\ q.srcs \in Seq(Keys) /\ Len(q.srcs) > 0
        BY <1>2, <3>4, RequestKinds
      <4> QED BY <1>2, <2>4, <3>4, <4>1 DEF JobOK, Measuring, First, OnSources, Key
    <3> QED BY <1>2, <3>1, <3>2, <3>3, <3>4, RequestKinds
  <2>6. JobsOK'
    BY <2>1, <2>2, <2>4, <2>5, JobMoves DEF TypeInv
  <2> QED BY <1>4, <1>5, <2>1, <2>6 DEF TypeInv, AnswerOK
<1>6. CASE Absent(Key(q), Mode(q)) /\ Reply(w, 0)
  <2>1. StoreOK' /\ Open' = Open
    BY <1>6 DEF Absent, StoreOK, Open, TypeInv
  <2>2. JobsOK' /\ AnswerOK'
    BY <1>2, <1>6, <2>1, JobEnds DEF TypeInv
  <2> QED BY <1>4, <2>1, <2>2 DEF TypeInv
<1>7. CASE PrepareFails(w, Key(q))
  <2>1. StoreOK' /\ Open' = Open /\ ERR \in Int /\ Reply(w, ERR)
    BY <1>7 DEF PrepareFails, TypeInv, StoreOK, Open, ERR
  <2>2. JobsOK' /\ AnswerOK'
    BY <1>2, <2>1, JobEnds DEF TypeInv
  <2> QED BY <1>4, <2>1, <2>2 DEF TypeInv
<1> QED BY <1>5, <1>6, <1>7 DEF PrepareKey

\* A step that leaves the files alone, and the histories.
LEMMA StoreStays ==
  ASSUME StoreOK, UNCHANGED <<files, data, length>>
  PROVE  StoreOK' /\ Open' = Open
BY DEF StoreOK, Open

\* A step that touches no history variable keeps their types.
LEMMA HistoryStays ==
  ASSUME HistoryOK, UNCHANGED <<started, acked, raced, cleared>>
  PROVE  HistoryOK'
BY DEF HistoryOK

\* A command on one key and its descriptor.
LEMMA OnKeyFacts ==
  ASSUME TypeInv, NEW w \in Workers, NEW op, OnKey(job[w], op)
  PROVE  /\ job[w].req.key \in Open /\ job[w].req.key \in Keys
         /\ length[job[w].req.key] \in Nat
         /\ data[job[w].req.key] \in Seq(Byte)
BY DEF TypeInv, JobsOK, OnKey, Open, StoreOK

\* Start keeps the types.
LEMMA StartTypes ==
  ASSUME TypeInv, NEW w \in Workers, NEW q \in Requests, StartCommand(w, q)
  PROVE  TypeInv'
<1>1. job \in [Workers -> JobType] /\ job[w] = Idle
  BY DEF TypeInv, JobsOK, JobOK, StartCommand
<1>2. StoreOK' /\ Open' = Open
  BY StoreStays DEF TypeInv, StartCommand
<1>3. HistoryOK'
  <2>1. started' \in Nat /\ cleared' \in BOOLEAN
    BY DEF TypeInv, HistoryOK, StartCommand
  <2> QED BY <2>1 DEF TypeInv, HistoryOK, StartCommand
<1>4. AnswerOK'
  BY DEF TypeInv, AnswerOK, StartCommand
<1>5. OnesOf(q) \in Nat
  <2>1. CASE q.op = "BITCOUNT"
    <3>1. data[q.key] \in Seq(Byte)
      BY <2>1, RequestKinds DEF TypeInv, StoreOK, BitcountRequest
    <3> QED BY <2>1, <3>1, PopCountIsNat DEF OnesOf
  <2>2. CASE q.op = "BITOP"
    <3>1. data[q.srcs[1]] \in Seq(Byte)
      BY <2>2, RequestKinds DEF TypeInv, StoreOK
    <3> QED BY <2>2, <3>1, PopCountIsNat DEF OnesOf, NoFloor
  <2>3. CASE q.op \notin {"BITCOUNT", "BITOP"}
    BY <2>3 DEF OnesOf, NoFloor
  <2> QED BY <2>1, <2>2, <2>3
<1>6. Contents(q) \in Seq(Byte)
  <2>1. <<>> \in Seq(Byte)
    OBVIOUS
  <2> QED BY <2>1 DEF Contents, Stores, TypeInv, StoreOK
<1> DEFINE pc == IF TooFar(q) THEN "refused" ELSE IF Key(q) = NULL THEN "sources" ELSE "key"
<1>7. job' = [job EXCEPT ![w].req = q, ![w].floor = OnesOf(q), ![w].old = Contents(q),
                         ![w].pc = pc]
  BY DEF StartCommand
<1> SUFFICES ASSUME NEW j,
                    j = [Idle EXCEPT !.req = q, !.floor = OnesOf(q), !.old = Contents(q),
                                     !.pc = pc]
             PROVE  TypeInv'
  OBVIOUS
<1>8. job' = [job EXCEPT ![w] = j]
  BY <1>1, <1>7
<1>9. /\ j \in JobType /\ j.pc = pc /\ j.req = q
      /\ j.held = {} /\ j.dts = <<>> /\ j.lens = <<>> /\ j.p = <<>> /\ j.o = 0
      /\ j.maxlen = 0
  <2>1. Idle \in JobType
    BY <1>1 DEF TypeInv, JobsOK
  <2>2. pc \in Pcs
    BY DEF Pcs
  <2>3. /\ Idle.held = {} /\ Idle.dts = <<>> /\ Idle.lens = <<>>
        /\ Idle.p = <<>> /\ Idle.o = 0 /\ Idle.maxlen = 0
    BY DEF Idle
  <2> HIDE DEF pc
  <2> QED BY <1>5, <1>6, <2>1, <2>2, <2>3 DEF JobType
<1>10. JobOK(j)
  <2>1. CASE pc = "sources"
    <3>1. q.op = "BITOP" /\ q.hook # "NONE"
      BY <2>1, BitStoreAssumption, RequestKinds
      DEF Key, SetbitRequest, GetbitRequest, BitcountRequest
    <3>2. q.srcs \in Seq(Keys) /\ q.srcs # <<>> /\ Len(q.srcs) > 0
      BY <3>1, RequestKinds
    <3> QED BY <1>9, <2>1, <3>1, <3>2 DEF JobOK, Measuring, OnSources
  <2>2. CASE pc = "key"
    BY <1>9, <2>2 DEF JobOK, Measuring
  <2>3. CASE pc = "refused"
    BY <1>9, <2>3 DEF JobOK, Measuring
  <2> QED BY <2>1, <2>2, <2>3
<1>11. JobsOK'
  BY <1>2, <1>8, <1>9, <1>10, JobMoves DEF TypeInv
<1> QED BY <1>2, <1>3, <1>4, <1>11 DEF TypeInv

\* Refuse keeps the types.
LEMMA RefuseTypes ==
  ASSUME TypeInv, NEW w \in Workers, Refuse(w)
  PROVE  TypeInv'
<1>1. StoreOK' /\ Open' = Open /\ HistoryOK'
  BY StoreStays, HistoryStays DEF TypeInv, Refuse
<1>2. job[w].req \in Requests
  BY DEF TypeInv, JobsOK, JobOK, Refuse
<1>3. Reply(w, ERR) /\ ERR \in Int
  BY DEF Refuse, ERR
<1> QED BY <1>1, <1>2, <1>3, JobEnds DEF TypeInv

\* SetbitRead keeps the types.
LEMMA SetbitReadTypes ==
  ASSUME TypeInv, NEW w \in Workers, SetbitRead(w)
  PROVE  TypeInv'
<1> DEFINE q == job[w].req
           c == read_from(q.key, 1, q.byte)
<1>1. JobOK(job[w]) /\ job \in [Workers -> JobType] /\ OnKey(job[w], "SETBIT")
  BY DEF TypeInv, JobsOK, JobOK, SetbitRead
<1>2. StoreOK' /\ Open' = Open
  BY StoreStays DEF TypeInv, SetbitRead
<1>3. HistoryOK'
  BY DEF TypeInv, HistoryOK, SetbitRead
<1>4. q \in Requests /\ q.key \in Keys /\ q.byte \in Nat /\ data[q.key] \in Seq(Byte)
  BY <1>1, OnKeyFacts, RequestKinds DEF OnKey, SetbitRequest
<1>5. c \in Seq(Byte)
  <2>1. 1 \in Int
    OBVIOUS
  <2> QED BY <1>4, <2>1, WasRead DEF read_from
<1>6. ASSUME NEW b \in Byte, UNCHANGED answer,
             job' = [job EXCEPT ![w].pc = "write", ![w].byteval = b]
      PROVE  TypeInv'
  <2> SUFFICES ASSUME NEW j, j = [job[w] EXCEPT !.pc = "write", !.byteval = b]
               PROVE  TypeInv'
    OBVIOUS
  <2>1. job' = [job EXCEPT ![w] = j]
    BY <1>1, <1>6
  <2>2. j \in JobType /\ j.pc = "write" /\ j.req = q /\ j.held = job[w].held
    BY <1>1 DEF JobOK, JobType, Pcs
  <2>3. JobOK(j) /\ j.held \subseteq Open
    BY <1>1, <2>2 DEF JobOK, Measuring, OnKey, TypeInv, JobsOK
  <2>4. JobsOK'
    BY <1>2, <2>1, <2>3, JobMoves DEF TypeInv
  <2> QED BY <1>2, <1>3, <1>6, <2>4 DEF TypeInv, AnswerOK
<1>7. ASSUME NEW n \in {0, ERR}, Reply(w, n)
      PROVE  TypeInv'
  <2>1. n \in Int
    BY DEF ERR
  <2> QED BY <1>2, <1>3, <1>4, <1>7, <2>1, JobEnds DEF TypeInv
<1>8. {} \in Byte /\ (c # <<>> => c[1] \in Byte)
  BY <1>5 DEF Byte
<1> QED BY <1>6, <1>7, <1>8 DEF SetbitRead

\* SetbitWrite keeps the types.
LEMMA SetbitWriteTypes ==
  ASSUME TypeInv, NEW w \in Workers, SetbitWrite(w)
  PROVE  TypeInv'
<1> DEFINE q == job[w].req
           buf == <<NewByte(q, job[w].byteval)>>
<1>1. JobOK(job[w]) /\ OnKey(job[w], "SETBIT")
  BY DEF TypeInv, JobsOK, JobOK, SetbitWrite
<1>2. /\ q \in Requests /\ q.key \in Open /\ q.key \in Keys
      /\ q.byte \in Nat /\ q.bit \in Bit /\ q.value \in {0, 1}
  BY <1>1, OnKeyFacts, RequestKinds DEF OnKey, SetbitRequest
<1>3. buf \in Seq(Byte)
  <2>1. NewByte(q, job[w].byteval) \in Byte
    BY <1>1, <1>2 DEF NewByte, Byte, JobOK, JobType
  <2> QED BY <2>1
<1>4. StoreOK' /\ Open \subseteq Open'
  <2>1. write_to(q.key, buf, q.byte)
    BY DEF SetbitWrite
  <2> HIDE DEF buf
  <2> QED BY <1>2, <1>3, <2>1, WrittenStore DEF TypeInv
<1>5. HistoryOK'
  BY <1>2 DEF TypeInv, HistoryOK, SetbitWrite
<1>6. JobsOK' /\ AnswerOK'
  <2>1. PICK n \in {0, 1} : Reply(w, n)
    BY DEF SetbitWrite
  <2>2. n \in Int
    OBVIOUS
  <2> QED BY <1>2, <1>4, <2>1, <2>2, JobEnds DEF TypeInv
<1> QED BY <1>4, <1>5, <1>6 DEF TypeInv

\* Getbit keeps the types.
LEMMA GetbitTypes ==
  ASSUME TypeInv, NEW w \in Workers, Getbit(w)
  PROVE  TypeInv'
<1>1. StoreOK' /\ Open' = Open /\ HistoryOK'
  BY StoreStays, HistoryStays DEF TypeInv, Getbit
<1>2. job[w].req \in Requests
  BY DEF TypeInv, JobsOK, JobOK, OnKey, Getbit
<1>3. PICK n \in {0, 1, ERR} : Reply(w, n)
  BY DEF Getbit
<1>4. n \in Int
  BY DEF ERR
<1> QED BY <1>1, <1>2, <1>3, <1>4, JobEnds DEF TypeInv

\* BITCOUNT goes on with a range or a piece.
LEMMA CountMoves ==
  ASSUME TypeInv, NEW w \in Workers, OnKey(job[w], "BITCOUNT"),
         NEW j \in JobType, j.pc \in {"clamp", "count"},
         j.req = job[w].req, j.held = job[w].held,
         job' = [job EXCEPT ![w] = j],
         UNCHANGED <<files, data, length, answer, started, acked, raced, cleared>>
  PROVE  TypeInv'
<1>1. StoreOK' /\ Open' = Open /\ HistoryOK' /\ AnswerOK'
  BY StoreStays, HistoryStays DEF TypeInv, AnswerOK
<1>2. job[w].held \subseteq Open
  BY DEF TypeInv, JobsOK
<1>3. JobOK(j)
  BY DEF JobOK, Measuring, OnKey
<1> QED BY <1>1, <1>2, <1>3, JobMoves DEF TypeInv

\* CountRange keeps the types.
LEMMA CountRangeTypes ==
  ASSUME TypeInv, NEW w \in Workers, CountRange(w)
  PROVE  TypeInv'
<1> DEFINE q == job[w].req
           n == length[q.key]
           end == IF q.end = NULL THEN n - 1 ELSE q.end
<1>1. JobOK(job[w]) /\ job \in [Workers -> JobType] /\ OnKey(job[w], "BITCOUNT")
  BY DEF TypeInv, JobsOK, JobOK, CountRange
<1>2. q \in Requests /\ q.start \in Int /\ n \in Nat /\ end \in Int
  BY <1>1, OnKeyFacts, RequestKinds DEF OnKey, BitcountRequest
<1>3. CASE Reply(w, 0)
  <2>1. StoreOK' /\ Open' = Open /\ HistoryOK'
    BY StoreStays, HistoryStays DEF TypeInv, CountRange
  <2> QED BY <1>2, <1>3, <2>1, JobEnds DEF TypeInv
<1>4. CASE /\ job' = [job EXCEPT ![w].pc = "clamp", ![w].start = q.start, ![w].end = end]
           /\ UNCHANGED answer
  <2> HIDE DEF end
  <2> SUFFICES ASSUME NEW j, j = [job[w] EXCEPT !.pc = "clamp", !.start = q.start, !.end = end]
               PROVE  TypeInv'
    OBVIOUS
  <2>1. job' = [job EXCEPT ![w] = j]
    BY <1>1, <1>4
  <2>2. /\ j \in JobType /\ j.pc = "clamp"
        /\ j.req = job[w].req /\ j.held = job[w].held
    BY <1>1, <1>2 DEF JobOK, JobType, Pcs
  <2>3. UNCHANGED <<files, data, length, started, acked, raced, cleared>>
    BY DEF CountRange
  <2> QED BY <1>1, <1>2, <1>4, <2>1, <2>2, <2>3, CountMoves
<1> QED BY <1>3, <1>4 DEF CountRange

\* CountClamp keeps the types.
LEMMA CountClampTypes ==
  ASSUME TypeInv, NEW w \in Workers, CountClamp(w)
  PROVE  TypeInv'
<1> DEFINE strlen == length[job[w].req.key]
           from == FromStart(job[w].start, strlen)
           to == LastByte(job[w].end, strlen)
<1>1. JobOK(job[w]) /\ job \in [Workers -> JobType] /\ OnKey(job[w], "BITCOUNT")
  BY DEF TypeInv, JobsOK, JobOK, CountClamp
<1>2. /\ job[w].req \in Requests /\ strlen \in Nat
      /\ job[w].start \in Int /\ job[w].end \in Int
  BY <1>1, OnKeyFacts DEF OnKey, JobOK, JobType
<1>3. from \in Nat /\ to \in Int
  <2> HIDE DEF strlen
  <2> QED BY <1>2 DEF FromStart, LastByte, Larger, Smaller
<1>4. ASSUME NEW n \in {0, ERR}, Reply(w, n)
      PROVE  TypeInv'
  <2>1. StoreOK' /\ Open' = Open /\ HistoryOK'
    BY StoreStays, HistoryStays DEF TypeInv, CountClamp
  <2>2. n \in Int
    BY DEF ERR
  <2> QED BY <1>2, <1>4, <2>1, <2>2, JobEnds DEF TypeInv
<1>5. CASE /\ job' = [job EXCEPT ![w].pc = "count", ![w].o = from, ![w].end = to]
           /\ UNCHANGED answer
  <2> HIDE DEF from, to
  <2> SUFFICES ASSUME NEW j, j = [job[w] EXCEPT !.pc = "count", !.o = from, !.end = to]
               PROVE  TypeInv'
    OBVIOUS
  <2>1. job' = [job EXCEPT ![w] = j]
    BY <1>1, <1>5
  <2>2. /\ j \in JobType /\ j.pc = "count"
        /\ j.req = job[w].req /\ j.held = job[w].held
    BY <1>1, <1>3 DEF JobOK, JobType, Pcs
  <2>3. UNCHANGED <<files, data, length, started, acked, raced, cleared>>
    BY DEF CountClamp
  <2> QED BY <1>1, <1>3, <1>5, <2>1, <2>2, <2>3, CountMoves
<1> QED BY <1>4, <1>5 DEF CountClamp, OutOfMemory

\* CountRead keeps the types.
LEMMA CountReadTypes ==
  ASSUME TypeInv, NEW w \in Workers, CountRead(w)
  PROVE  TypeInv'
<1> DEFINE remaining == job[w].end - job[w].o + 1
           s == read_from(job[w].req.key, Smaller(remaining, FILE_BUFFER_SIZE), job[w].o)
           o == job[w].o + Len(s)
           bits == job[w].bits + PopCount(s)
<1>1. JobOK(job[w]) /\ job \in [Workers -> JobType] /\ OnKey(job[w], "BITCOUNT")
  BY DEF TypeInv, JobsOK, JobOK, CountRead
<1>2. /\ job[w].req \in Requests /\ data[job[w].req.key] \in Seq(Byte)
      /\ job[w].end \in Int /\ job[w].o \in Nat /\ job[w].bits \in Nat
  BY <1>1, OnKeyFacts DEF OnKey, JobOK, JobType
<1>3. s \in Seq(Byte)
  <2>1. Smaller(remaining, FILE_BUFFER_SIZE) \in Int
    BY <1>2, BitStoreAssumption DEF Smaller
  <2> HIDE DEF remaining
  <2> QED BY <1>2, <2>1, WasRead DEF read_from
<1>4. o \in Nat /\ bits \in Nat /\ bits \in Int
  <2>1. Len(s) \in Nat /\ PopCount(s) \in Nat
    BY <1>3, PopCountIsNat
  <2> HIDE DEF s
  <2> QED BY <1>2, <2>1
<1>5. UNCHANGED <<files, data, length, started, acked, raced, cleared>>
  BY DEF CountRead
<1>6. CASE Reply(w, bits)
  <2>1. StoreOK' /\ Open' = Open /\ HistoryOK'
    BY <1>5, StoreStays, HistoryStays DEF TypeInv
  <2> HIDE DEF bits
  <2> QED BY <1>2, <1>4, <1>6, <2>1, JobEnds DEF TypeInv
<1>7. CASE job' = [job EXCEPT ![w].o = o, ![w].bits = bits] /\ UNCHANGED answer
  <2> HIDE DEF o, bits
  <2> SUFFICES ASSUME NEW j, j = [job[w] EXCEPT !.o = o, !.bits = bits]
               PROVE  TypeInv'
    OBVIOUS
  <2>1. job' = [job EXCEPT ![w] = j]
    BY <1>1, <1>7
  <2>2. /\ j \in JobType /\ j.pc = "count"
        /\ j.req = job[w].req /\ j.held = job[w].held
    BY <1>1, <1>4 DEF JobOK, JobType, Pcs, CountRead
  <2> QED BY <1>1, <1>4, <1>5, <1>7, <2>1, <2>2, CountMoves
<1>8. \/ Reply(w, bits)
      \/ job' = [job EXCEPT ![w].o = o, ![w].bits = bits] /\ UNCHANGED answer
  BY DEF CountRead
<1> QED BY <1>6, <1>7, <1>8

\* PrepareSource keeps the types.
LEMMA PrepareSourceTypes ==
  ASSUME TypeInv, NEW w \in Workers, PrepareSource(w)
  PROVE  TypeInv'
<1> DEFINE q == job[w].req
           dts == job[w].dts
           i == Len(q.srcs) - Len(dts)
           k == q.srcs[i]
           pc == IF i = 1 THEN "lengths" ELSE job[w].pc
<1>1. /\ JobOK(job[w]) /\ job \in [Workers -> JobType] /\ job[w].held \subseteq Open
      /\ job[w].pc = "sources" /\ OnSources(job[w])
      /\ Len(dts) < Len(q.srcs)
      /\ job[w].lens = <<>> /\ job[w].p = <<>> /\ job[w].o = 0 /\ job[w].maxlen = 0
  BY DEF TypeInv, JobsOK, JobOK, PrepareSource
<1>2. /\ q \in Requests /\ q.srcs \in Seq(Keys) /\ dts \in Seq(Keys \cup {NULL})
      /\ Len(q.srcs) \in Nat /\ Len(dts) \in Nat
  BY <1>1, RequestKinds DEF OnSources, JobOK, JobType
<1>3. i \in 1 .. Len(q.srcs) /\ k \in Keys
  <2>1. i \in 1 .. Len(q.srcs)
    <3> HIDE DEF q, dts
    <3> QED BY <1>1, <1>2
  <2> HIDE DEF i
  <2> QED BY <1>2, <2>1
<1>4. HistoryOK' /\ (UNCHANGED answer => AnswerOK')
  BY HistoryStays DEF TypeInv, AnswerOK, PrepareSource
<1>5. ASSUME UNCHANGED answer, NEW dt \in Keys \cup {NULL}, StoreOK', Open \subseteq Open', dt \in Open' \cup {NULL},
             job' = [job EXCEPT ![w].dts = <<dt>> \o dts,
                                ![w].held = job[w].held \cup ({dt} \ {NULL}), ![w].pc = pc]
      PROVE  TypeInv'
  <2> SUFFICES ASSUME NEW d, d = <<dt>> \o dts,
                      NEW j, j = [job[w] EXCEPT !.dts = d,
                                    !.held = job[w].held \cup ({dt} \ {NULL}), !.pc = pc]
               PROVE  TypeInv'
    OBVIOUS
  <2>1. job' = [job EXCEPT ![w] = j]
    BY <1>1, <1>5
  <2>2. /\ d \in Seq(Keys \cup {NULL}) /\ Len(d) = Len(dts) + 1
        /\ \A m \in DOMAIN d : d[m] = dt \/ \E n \in DOMAIN dts : d[m] = dts[n]
    <3>1. d \in Seq(Keys \cup {NULL}) /\ Len(d) = Len(dts) + 1
      BY <1>2, <1>5
    <3>2. ASSUME NEW m \in DOMAIN d
          PROVE  d[m] = dt \/ \E n \in DOMAIN dts : d[m] = dts[n]
      <4>1. m \in 1 .. Len(dts) + 1
        BY <3>1
      <4>2. CASE m = 1
        BY <1>2, <4>2
      <4>3. CASE m # 1
        <5>1. m - 1 \in DOMAIN dts /\ d[m] = dts[m - 1]
          BY <1>2, <4>1, <4>3
        <5> QED BY <5>1
      <4> QED BY <4>2, <4>3
    <3> QED BY <3>1, <3>2
  <2>3. pc \in {"lengths", "sources"} /\ (pc = "sources" => Len(d) < Len(q.srcs))
    BY <1>1, <1>2, <1>3, <2>2
  <2>4. /\ j \in JobType /\ j.pc = pc /\ j.req = q /\ j.dts = d
        /\ j.held = job[w].held \cup ({dt} \ {NULL})
        /\ j.lens = <<>> /\ j.p = <<>> /\ j.o = 0 /\ j.maxlen = 0
    <3>1. job[w] \in JobType
      BY <1>1
    <3> HIDE DEF pc
    <3> QED BY <1>1, <2>2, <2>3, <3>1 DEF JobType, Pcs
  <2>5. OnSources(j)
    <3>1. \A m \in DOMAIN d : d[m] \in j.held \cup {NULL}
      BY <1>1, <2>2, <2>4 DEF OnSources
    <3>2. q.hook = "NONE" => q.dest \in j.held
      BY <1>1, <2>4 DEF OnSources
    <3>3. q.op = "BITOP"
      BY <1>1 DEF OnSources
    <3> QED BY <1>2, <2>2, <2>4, <3>1, <3>2, <3>3 DEF OnSources
  <2>6. JobOK(j) /\ j.held \subseteq Open'
    <3> HIDE DEF pc
    <3> QED BY <1>1, <1>2, <1>5, <2>2, <2>3, <2>4, <2>5 DEF JobOK, Measuring
  <2>7. JobsOK'
    BY <1>5, <2>1, <2>6, JobMoves DEF TypeInv
  <2> QED BY <1>4, <1>5, <2>7 DEF TypeInv
<1>6. CASE Prepared(k, 1) /\ UNCHANGED answer /\ job' = [job EXCEPT ![w].dts = <<k>> \o dts,
                     ![w].held = job[w].held \cup ({k} \ {NULL}), ![w].pc = pc]
  <2>1. StoreOK' /\ Open \subseteq Open' /\ k \in Open'
    BY <1>3, <1>6, PreparedStore DEF TypeInv
  <2> HIDE DEF k, pc, dts
  <2> QED BY <1>3, <1>5, <1>6, <2>1
<1>7. CASE Absent(k, 1) /\ UNCHANGED answer /\ job' = [job EXCEPT ![w].dts = <<NULL>> \o dts,
                     ![w].held = job[w].held \cup ({NULL} \ {NULL}), ![w].pc = pc]
  <2>1. StoreOK' /\ Open' = Open
    BY <1>7, StoreStays DEF TypeInv, Absent
  <2> HIDE DEF k, pc, dts
  <2> QED BY <1>5, <1>7, <2>1
<1>8. CASE PrepareFails(w, k)
  <2>1. StoreOK' /\ Open' = Open /\ ERR \in Int /\ Reply(w, ERR)
    BY <1>8, StoreStays DEF PrepareFails, TypeInv, ERR
  <2>2. JobsOK' /\ AnswerOK'
    BY <1>2, <2>1, JobEnds DEF TypeInv
  <2> QED BY <1>4, <2>1, <2>2 DEF TypeInv
<1> QED BY <1>6, <1>7, <1>8 DEF PrepareSource

\* A worker goes on and touches nothing but its job.
LEMMA OnlyJobMoves ==
  ASSUME TypeInv, NEW w \in Workers, NEW j, JobOK(j), j.held = job[w].held,
         job' = [job EXCEPT ![w] = j],
         UNCHANGED <<files, data, length, answer, started, acked, raced, cleared>>
  PROVE  TypeInv'
<1>1. StoreOK' /\ Open' = Open /\ HistoryOK' /\ AnswerOK'
  BY StoreStays, HistoryStays DEF TypeInv, AnswerOK
<1>2. job[w].held \subseteq Open
  BY DEF TypeInv, JobsOK
<1> QED BY <1>1, <1>2, JobMoves DEF TypeInv

\* What bitopCommand's first loop finds.
LEMMA LookFacts ==
  ASSUME TypeInv, NEW w \in Workers, job[w].pc \in Measuring
  PROVE  /\ JobOK(job[w]) /\ job[w] \in JobType /\ job \in [Workers -> JobType]
         /\ OnSources(job[w]) /\ job[w].p = <<>> /\ job[w].o = 0
         /\ job[w].dts \in Seq(Keys \cup {NULL}) /\ Len(job[w].dts) \in Nat
         /\ job[w].lens \in Seq(Nat) /\ Len(job[w].lens) \in Nat
         /\ \A i \in DOMAIN job[w].dts :
              job[w].dts[i] # NULL => length[job[w].dts[i]] \in Nat
<1>1. /\ JobOK(job[w]) /\ job \in [Workers -> JobType] /\ job[w].held \subseteq Open
      /\ OnSources(job[w]) /\ job[w].p = <<>> /\ job[w].o = 0
  BY DEF TypeInv, JobsOK, JobOK
<1>2. job[w] \in JobType
  BY <1>1
<1>3. job[w].dts \in Seq(Keys \cup {NULL}) /\ job[w].lens \in Seq(Nat)
  BY <1>2 DEF JobType
<1>4. ASSUME NEW i \in DOMAIN job[w].dts, job[w].dts[i] # NULL
      PROVE  length[job[w].dts[i]] \in Nat
  <2>1. job[w].dts[i] \in Open
    BY <1>1, <1>4 DEF OnSources
  <2> QED BY <2>1 DEF Open, TypeInv, StoreOK
<1> QED BY <1>1, <1>2, <1>3, <1>4

\* What Append does.
LEMMA Appended ==
  ASSUME NEW s \in Seq(Nat), NEW x \in Nat
  PROVE  /\ Append(s, x) \in Seq(Nat) /\ Len(Append(s, x)) = Len(s) + 1
         /\ Append(s, x) # <<>>
         /\ \A m \in DOMAIN Append(s, x) :
              \/ m = Len(s) + 1 /\ Append(s, x)[m] = x
              \/ m \in DOMAIN s /\ Append(s, x)[m] = s[m]
         /\ DOMAIN s \subseteq DOMAIN Append(s, x)
<1>1. /\ Append(s, x) \in Seq(Nat) /\ Len(Append(s, x)) = Len(s) + 1 /\ Len(s) \in Nat
      /\ Append(s, x)[Len(s) + 1] = x
      /\ \A m \in 1 .. Len(s) : Append(s, x)[m] = s[m]
  OBVIOUS
<1> SUFFICES ASSUME NEW a \in Seq(Nat), a = Append(s, x), Len(a) = Len(s) + 1,
                    a[Len(s) + 1] = x, \A m \in 1 .. Len(s) : a[m] = s[m]
             PROVE  /\ a # <<>>
                    /\ \A m \in DOMAIN a : \/ m = Len(s) + 1 /\ a[m] = x
                                           \/ m \in DOMAIN s /\ a[m] = s[m]
                    /\ DOMAIN s \subseteq DOMAIN a
  BY <1>1
<1>2. DOMAIN a = 1 .. Len(s) + 1 /\ DOMAIN s = 1 .. Len(s) /\ Len(a) # 0
  BY <1>1
<1>3. \A m \in 1 .. Len(s) + 1 : m = Len(s) + 1 \/ m \in 1 .. Len(s)
  BY <1>1
<1>4. 1 .. Len(s) \subseteq 1 .. Len(s) + 1
  BY <1>1
<1>5. a # <<>>
  BY <1>2
<1>6. ASSUME NEW m \in DOMAIN a
      PROVE  (m = Len(s) + 1 /\ a[m] = x) \/ (m \in DOMAIN s /\ a[m] = s[m])
  BY <1>2, <1>3
<1> QED BY <1>2, <1>4, <1>5, <1>6

\* One more length, of a source that is there or 0.
LEMMA OneMoreLength ==
  ASSUME TypeInv, NEW w \in Workers, job[w].pc \in Measuring,
         Len(job[w].lens) < Len(job[w].dts),
         NEW j, j = [job[w] EXCEPT !.lens = j.lens, !.torn = j.torn, !.pc = j.pc],
         \E n \in Nat : /\ j.lens = Append(job[w].lens, n)
                        /\ job[w].dts[Len(job[w].lens) + 1] # NULL \/ n = 0,
         j.torn \in BOOLEAN, j.pc \in {"lengths", "compare"},
         j.pc = "compare" => job[w].dts[Len(job[w].lens) + 1] # NULL
  PROVE  JobOK(j) /\ j.held = job[w].held
<1>0. PICK n \in Nat : /\ j.lens = Append(job[w].lens, n)
                       /\ job[w].dts[Len(job[w].lens) + 1] # NULL \/ n = 0
  OBVIOUS
<1> SUFFICES ASSUME NEW l, l = j.lens, NEW torn \in BOOLEAN, torn = j.torn,
                    NEW pc \in {"lengths", "compare"}, pc = j.pc
             PROVE  JobOK(j) /\ j.held = job[w].held
  OBVIOUS
<1>1. /\ job[w] \in JobType /\ OnSources(job[w]) /\ job[w].p = <<>> /\ job[w].o = 0
      /\ job[w].dts \in Seq(Keys \cup {NULL}) /\ Len(job[w].dts) \in Nat
      /\ job[w].lens \in Seq(Nat) /\ Len(job[w].lens) \in Nat
  BY LookFacts
<1>2. /\ l \in Seq(Nat) /\ Len(l) = Len(job[w].lens) + 1 /\ l # <<>>
      /\ \A m \in DOMAIN l :
           \/ m = Len(job[w].lens) + 1 /\ l[m] = n
           \/ m \in DOMAIN job[w].lens /\ l[m] = job[w].lens[m]
      /\ DOMAIN job[w].lens \subseteq DOMAIN l
  <2>1. l = Append(job[w].lens, n)
    BY <1>0
  <2>2. job[w].lens \in Seq(Nat)
    BY <1>1
  <2> QED BY <2>1, <2>2, Appended
<1>3. /\ j \in JobType /\ j.pc = pc /\ j.req = job[w].req /\ j.held = job[w].held
      /\ j.lens = l /\ j.dts = job[w].dts /\ j.p = <<>> /\ j.o = 0
      /\ j.maxidx = job[w].maxidx /\ j.maxlen = job[w].maxlen
  <2>1. j = [job[w] EXCEPT !.lens = l, !.torn = torn, !.pc = pc]
    OBVIOUS
  <2>2. l \in Seq(Nat) /\ pc \in Pcs
    BY <1>2 DEF Pcs
  <2>3. j \in JobType
    BY <1>1, <2>1, <2>2 DEF JobType
  <2>4. /\ j.req = job[w].req /\ j.held = job[w].held /\ j.dts = job[w].dts
        /\ j.p = job[w].p /\ j.o = job[w].o
        /\ j.maxidx = job[w].maxidx /\ j.maxlen = job[w].maxlen
    BY <1>1, <2>1 DEF JobType
  <2> QED BY <1>1, <2>3, <2>4
<1>4. Len(l) <= Len(job[w].dts)
  <2>1. \A a, b \in Nat : a < b => a + 1 <= b
    OBVIOUS
  <2> QED BY <1>1, <1>2, <2>1
<1>5. \A m \in DOMAIN l : job[w].dts[m] = NULL => l[m] = 0
  BY <1>0, <1>1, <1>2 DEF OnSources
<1>6. job[w].maxlen # 0 => job[w].maxidx \in DOMAIN l
  BY <1>1, <1>2 DEF OnSources
<1>7. OnSources(j)
  BY <1>1, <1>3, <1>4, <1>5, <1>6 DEF OnSources
<1>8. pc = "compare" => j.dts[Len(j.lens)] # NULL
  BY <1>2, <1>3
<1> QED BY <1>2, <1>3, <1>7, <1>8 DEF JobOK, Measuring

\* TakeTimes keeps the types.
LEMMA TakeTimesTypes ==
  ASSUME TypeInv, NEW w \in Workers, TakeTimes(w)
  PROVE  TypeInv'
<1> DEFINE i == Len(job[w].lens) + 1
           dt == job[w].dts[i]
<1>1. /\ job[w].pc = "lengths" /\ Len(job[w].lens) < Len(job[w].dts)
      /\ UNCHANGED <<files, data, length, answer, started, acked, raced, cleared>>
  BY DEF TakeTimes
<1>2. /\ JobOK(job[w]) /\ job[w] \in JobType /\ job \in [Workers -> JobType]
      /\ OnSources(job[w]) /\ job[w].p = <<>> /\ job[w].o = 0
      /\ job[w].dts \in Seq(Keys \cup {NULL}) /\ Len(job[w].dts) \in Nat
      /\ job[w].lens \in Seq(Nat) /\ Len(job[w].lens) \in Nat
      /\ \A m \in DOMAIN job[w].dts :
           job[w].dts[m] # NULL => length[job[w].dts[m]] \in Nat
  BY <1>1, LookFacts DEF Measuring
<1>3. i \in DOMAIN job[w].dts
  BY <1>1, <1>2
<1>4. CASE dt = NULL
  <2> SUFFICES ASSUME NEW l, l = Append(job[w].lens, 0),
                      NEW j, j = [job[w] EXCEPT !.lens = l, !.torn = job[w].torn,
                                                !.pc = "lengths"]
               PROVE  TypeInv'
    OBVIOUS
  <2>1. job' = [job EXCEPT ![w].lens = Append(@, 0)]
    BY <1>4 DEF TakeTimes
  <2>2. job' = [job EXCEPT ![w] = j]
    <3>1. j = [job[w] EXCEPT !.lens = l]
      BY <1>1, <1>2 DEF JobType
    <3> QED BY <1>2, <2>1, <3>1
  <2>3. job[w].torn \in BOOLEAN
    BY <1>2 DEF JobType
  <2>4. j.lens = l /\ j.torn = job[w].torn /\ j.pc = "lengths"
    BY <1>2 DEF JobType
  <2>5. JobOK(j) /\ j.held = job[w].held
    BY <1>1, <2>3, <2>4, OneMoreLength DEF Measuring
  <2> QED BY <1>1, <2>2, <2>5, OnlyJobMoves
<1>5. CASE dt # NULL
  <2> DEFINE n == length[dt] \div FILE_BUFFER_SIZE
  <2>1. n \in Nat
    <3>1. length[dt] \in Nat
      BY <1>2, <1>3, <1>5
    <3>2. \A a \in Nat : a \div FILE_BUFFER_SIZE \in Nat
      BY BitStoreAssumption
    <3> QED BY <3>1, <3>2
  <2>2. job' = [job EXCEPT ![w].t = n, ![w].pc = "rest"]
    BY <1>5 DEF TakeTimes
  <2> HIDE DEF n
  <2> SUFFICES ASSUME NEW j, j = [job[w] EXCEPT !.t = n, !.pc = "rest"]
               PROVE  TypeInv'
    OBVIOUS
  <2>3. job' = [job EXCEPT ![w] = j]
    BY <1>2, <2>2
  <2>4. /\ j \in JobType /\ j.pc = "rest" /\ j.req = job[w].req /\ j.held = job[w].held
        /\ j.lens = job[w].lens /\ j.dts = job[w].dts /\ j.p = <<>> /\ j.o = 0
        /\ j.maxidx = job[w].maxidx /\ j.maxlen = job[w].maxlen
    BY <1>2, <2>1 DEF JobType, Pcs, Measuring
  <2>5. OnSources(j)
    BY <1>2, <2>4 DEF OnSources
  <2>6. JobOK(j)
    BY <1>1, <1>5, <2>4, <2>5 DEF JobOK, Measuring
  <2> QED BY <1>1, <2>3, <2>4, <2>6, OnlyJobMoves
<1> QED BY <1>4, <1>5

\* TakeRest keeps the types.
LEMMA TakeRestTypes ==
  ASSUME TypeInv, NEW w \in Workers, TakeRest(w)
  PROVE  TypeInv'
<1> DEFINE i == Len(job[w].lens) + 1
           n == length[job[w].dts[i]]
           len == job[w].t * FILE_BUFFER_SIZE + (n % FILE_BUFFER_SIZE)
           torn == job[w].torn \/ job[w].t # n \div FILE_BUFFER_SIZE
<1>1. /\ job[w].pc = "rest"
      /\ job' = [job EXCEPT ![w].lens = Append(@, len), ![w].torn = torn, ![w].pc = "compare"]
      /\ UNCHANGED <<files, data, length, answer, started, acked, raced, cleared>>
  BY DEF TakeRest
<1>2. /\ JobOK(job[w]) /\ job[w] \in JobType /\ job \in [Workers -> JobType]
      /\ job[w].dts \in Seq(Keys \cup {NULL}) /\ Len(job[w].dts) \in Nat
      /\ job[w].lens \in Seq(Nat) /\ Len(job[w].lens) \in Nat
      /\ \A m \in DOMAIN job[w].dts :
           job[w].dts[m] # NULL => length[job[w].dts[m]] \in Nat
  BY <1>1, LookFacts DEF Measuring
<1>3. /\ Len(job[w].lens) < Len(job[w].dts) /\ job[w].dts[i] # NULL
      /\ i \in DOMAIN job[w].dts
  <2>1. Len(job[w].lens) < Len(job[w].dts) /\ job[w].dts[i] # NULL
    BY <1>1, <1>2 DEF JobOK
  <2> QED BY <1>2, <2>1
<1>4. len \in Nat
  <2>1. n \in Nat /\ job[w].t \in Nat
    BY <1>2, <1>3 DEF JobType
  <2> HIDE DEF n
  <2>2. n % FILE_BUFFER_SIZE \in Nat /\ job[w].t * FILE_BUFFER_SIZE \in Nat
    BY <2>1, BitStoreAssumption
  <2> QED BY <2>2
<1>5. torn \in BOOLEAN
  BY <1>2 DEF JobType
<1> HIDE DEF len, torn
<1> SUFFICES ASSUME NEW l, l = Append(job[w].lens, len),
                    NEW j, j = [job[w] EXCEPT !.lens = l, !.torn = torn, !.pc = "compare"]
             PROVE  TypeInv'
  OBVIOUS
<1>6. job' = [job EXCEPT ![w] = j]
  BY <1>1, <1>2
<1>7. j.lens = l /\ j.torn = torn /\ j.pc = "compare"
  BY <1>2 DEF JobType
<1>8. JobOK(j) /\ j.held = job[w].held
  BY <1>1, <1>3, <1>4, <1>5, <1>7, OneMoreLength DEF Measuring
<1> QED BY <1>1, <1>6, <1>8, OnlyJobMoves

\* CompareLength and TakeLongest keep the types.
LEMMA LongestTypes ==
  ASSUME TypeInv, NEW w \in Workers, CompareLength(w) \/ TakeLongest(w)
  PROVE  TypeInv'
<1> DEFINE i == Len(job[w].lens)
           n == length[job[w].dts[i]]
<1>1. /\ job[w].pc \in {"compare", "longest"}
      /\ UNCHANGED <<files, data, length, answer, started, acked, raced, cleared>>
  BY DEF CompareLength, TakeLongest
<1>2. /\ JobOK(job[w]) /\ job[w] \in JobType /\ job \in [Workers -> JobType]
      /\ OnSources(job[w]) /\ job[w].p = <<>> /\ job[w].o = 0
      /\ job[w].dts \in Seq(Keys \cup {NULL}) /\ Len(job[w].dts) \in Nat
      /\ job[w].lens \in Seq(Nat) /\ i \in Nat
      /\ \A m \in DOMAIN job[w].dts :
           job[w].dts[m] # NULL => length[job[w].dts[m]] \in Nat
  BY <1>1, LookFacts DEF Measuring
<1>3. /\ job[w].lens # <<>> /\ i \in DOMAIN job[w].lens /\ i \in Nat
      /\ job[w].dts[i] # NULL /\ i \in DOMAIN job[w].dts
      /\ job[w].pc = "longest" => job[w].maxidx = i
  BY <1>1, <1>2 DEF JobOK, OnSources
<1>4. n \in Nat
  BY <1>2, <1>3
<1>5. ASSUME NEW idx \in DOMAIN job[w].lens \cup {job[w].maxidx},
             NEW max \in Nat, max # 0 => idx \in DOMAIN job[w].lens,
             NEW pc \in {"lengths", "longest"}, pc = "longest" => idx = i,
             NEW j, j = [job[w] EXCEPT !.maxidx = idx, !.maxlen = max, !.pc = pc],
             job' = [job EXCEPT ![w] = j]
      PROVE  TypeInv'
  <2>1. idx \in Nat
    <3>1. job[w].maxidx \in Nat
      BY <1>2 DEF JobType
    <3>2. DOMAIN job[w].lens \subseteq Nat
      BY <1>2
    <3> QED BY <3>1, <3>2
  <2>2. /\ j \in JobType /\ j.pc = pc /\ j.req = job[w].req /\ j.held = job[w].held
        /\ j.lens = job[w].lens /\ j.dts = job[w].dts /\ j.p = <<>> /\ j.o = 0
        /\ j.maxidx = idx /\ j.maxlen = max
    BY <1>2, <1>5, <2>1 DEF JobType, Pcs, Measuring
  <2>3. OnSources(j)
    BY <1>2, <1>5, <2>2 DEF OnSources
  <2>4. JobOK(j)
    BY <1>3, <1>5, <2>2, <2>3 DEF JobOK, Measuring
  <2> QED BY <1>1, <1>5, <2>2, <2>4, OnlyJobMoves
<1> HIDE DEF n, i
<1>6. CASE CompareLength(w) /\ n > job[w].maxlen
  <2> SUFFICES ASSUME NEW j, j = [job[w] EXCEPT !.maxidx = i, !.maxlen = job[w].maxlen,
                                                !.pc = "longest"]
               PROVE  TypeInv'
    OBVIOUS
  <2>1. job' = [job EXCEPT ![w].maxidx = i, ![w].pc = "longest"]
    BY <1>6 DEF CompareLength, n, i
  <2>2. job' = [job EXCEPT ![w] = j] /\ job[w].maxlen \in Nat
    <3>1. j = [job[w] EXCEPT !.maxidx = i, !.pc = "longest"]
      BY <1>2 DEF JobType
    <3> QED BY <1>2, <2>1, <3>1 DEF JobType
  <2> QED BY <1>3, <1>5, <2>2
<1>7. CASE CompareLength(w) /\ ~(n > job[w].maxlen)
  <2> SUFFICES ASSUME NEW j, j = [job[w] EXCEPT !.maxidx = job[w].maxidx,
                                                !.maxlen = job[w].maxlen, !.pc = "lengths"]
               PROVE  TypeInv'
    OBVIOUS
  <2>1. job' = [job EXCEPT ![w].pc = "lengths"]
    BY <1>7 DEF CompareLength, n, i
  <2>2. job' = [job EXCEPT ![w] = j] /\ job[w].maxlen \in Nat
    <3>1. j = [job[w] EXCEPT !.pc = "lengths"]
      BY <1>2 DEF JobType
    <3> QED BY <1>2, <2>1, <3>1 DEF JobType
  <2>3. job[w].maxlen # 0 => job[w].maxidx \in DOMAIN job[w].lens
    BY <1>2 DEF OnSources
  <2> QED BY <1>5, <2>2, <2>3
<1>8. CASE TakeLongest(w)
  <2> SUFFICES ASSUME NEW j, j = [job[w] EXCEPT !.maxidx = job[w].maxidx, !.maxlen = n,
                                                !.pc = "lengths"]
               PROVE  TypeInv'
    OBVIOUS
  <2>1. job[w].pc = "longest" /\ job' = [job EXCEPT ![w].maxlen = n, ![w].pc = "lengths"]
    BY <1>8 DEF TakeLongest, n, i
  <2>2. job' = [job EXCEPT ![w] = j]
    <3>1. j = [job[w] EXCEPT !.maxlen = n, !.pc = "lengths"]
      BY <1>2 DEF JobType
    <3> QED BY <1>2, <2>1, <3>1
  <2>3. job[w].maxidx \in DOMAIN job[w].lens
    BY <1>3, <2>1
  <2> QED BY <1>4, <1>5, <2>2, <2>3
<1> QED BY <1>6, <1>7, <1>8

\* StartRounds keeps the types.
LEMMA StartRoundsTypes ==
  ASSUME TypeInv, NEW w \in Workers, StartRounds(w)
  PROVE  TypeInv'
<1>1. /\ job[w].pc = "lengths" /\ Len(job[w].lens) = Len(job[w].dts)
      /\ UNCHANGED <<files, data, length, started, acked, raced, cleared>>
  BY DEF StartRounds
<1>2. /\ JobOK(job[w]) /\ job[w] \in JobType /\ job \in [Workers -> JobType]
      /\ OnSources(job[w]) /\ job[w].p = <<>> /\ job[w].o = 0
      /\ job[w].dts \in Seq(Keys \cup {NULL}) /\ Len(job[w].dts) \in Nat
      /\ job[w].lens \in Seq(Nat)
  BY <1>1, LookFacts DEF Measuring
<1>3. ASSUME NEW r \in {0, ERR}, Reply(w, r)
      PROVE  TypeInv'
  <2>1. StoreOK' /\ Open' = Open /\ HistoryOK'
    BY <1>1, StoreStays, HistoryStays DEF TypeInv
  <2>2. r \in Int /\ job[w].req \in Requests
    BY <1>2 DEF ERR, OnSources
  <2> QED BY <1>3, <2>1, <2>2, JobEnds DEF TypeInv
<1>4. CASE job[w].maxlen # 0 /\ Goto(w, "read") /\ UNCHANGED answer
  <2> SUFFICES ASSUME NEW j, j = [job[w] EXCEPT !.pc = "read"]
               PROVE  TypeInv'
    OBVIOUS
  <2>1. job' = [job EXCEPT ![w] = j]
    BY <1>2, <1>4 DEF Goto
  <2>2. /\ j \in JobType /\ j.pc = "read" /\ j.req = job[w].req /\ j.held = job[w].held
        /\ j.lens = job[w].lens /\ j.dts = job[w].dts /\ j.p = <<>>
        /\ j.maxidx = job[w].maxidx /\ j.maxlen = job[w].maxlen
    BY <1>2 DEF JobType, Pcs
  <2>3. OnSources(j)
    BY <1>2, <2>2 DEF OnSources
  <2>4. job[w].maxidx \in DOMAIN job[w].lens
    BY <1>2, <1>4 DEF OnSources
  <2>5. Len(<<>>) < Len(job[w].dts)
    BY <1>1, <1>2, <2>4
  <2>6. JobOK(j)
    BY <1>1, <2>2, <2>3, <2>4, <2>5 DEF JobOK, Measuring
  <2> QED BY <1>1, <1>4, <2>1, <2>2, <2>6, OnlyJobMoves
<1> QED BY <1>3, <1>4 DEF StartRounds, OutOfMemory

\* OpRead keeps the types.
LEMMA OpReadTypes ==
  ASSUME TypeInv, NEW w \in Workers, OpRead(w)
  PROVE  TypeInv'
<1> DEFINE i == Len(job[w].p) + 1
           len == Round(job[w].lens[i], job[w].o)
           buf == IF len = 0 THEN <<>> ELSE read_from(job[w].dts[i], len, job[w].o)
           pc == IF i = Len(job[w].dts) THEN "op" ELSE job[w].pc
<1>1. /\ JobOK(job[w]) /\ job \in [Workers -> JobType] /\ job[w].held \subseteq Open
      /\ job[w].pc = "read" /\ OnSources(job[w])
      /\ Len(job[w].p) < Len(job[w].dts)
      /\ Len(job[w].lens) = Len(job[w].dts)
  BY DEF TypeInv, JobsOK, JobOK, OpRead
<1>2. /\ job[w].dts \in Seq(Keys \cup {NULL}) /\ job[w].lens \in Seq(Nat)
      /\ job[w].p \in Seq(Seq(Byte)) /\ job[w].o \in Nat
  BY <1>1 DEF JobOK, JobType
<1>3. i \in DOMAIN job[w].dts /\ i \in DOMAIN job[w].lens
  BY <1>1, <1>2
<1>4. buf \in Seq(Byte)
  <2>1. CASE len = 0
    BY <2>1
  <2>2. CASE len # 0
    <3> HIDE DEF i
    <3>1. job[w].lens[i] \in Nat
      BY <1>2, <1>3
    <3>2. len \in Nat /\ job[w].lens[i] # 0
      BY <1>2, <2>2, <3>1, RoundIsNat
    <3>3. job[w].dts[i] \in job[w].held
      BY <1>1, <1>3, <3>2 DEF OnSources
    <3>4. data[job[w].dts[i]] \in Seq(Byte)
      BY <1>1, <3>3 DEF Open, TypeInv, StoreOK
    <3>5. len \in Int
      BY <3>2
    <3> HIDE DEF len
    <3> QED BY <1>2, <2>2, <3>4, <3>5, WasRead DEF read_from
  <2> QED BY <2>1, <2>2
<1>5. StoreOK' /\ Open' = Open /\ HistoryOK' /\ AnswerOK'
  BY StoreStays, HistoryStays DEF TypeInv, AnswerOK, OpRead
<1> HIDE DEF buf
<1> SUFFICES ASSUME NEW p, p = Append(job[w].p, buf),
                    NEW j, j = [job[w] EXCEPT !.p = p, !.pc = pc]
             PROVE  TypeInv'
  OBVIOUS
<1>6. job' = [job EXCEPT ![w] = j]
  BY <1>1 DEF OpRead, buf
<1>7. p \in Seq(Seq(Byte)) /\ Len(p) = i
  BY <1>2, <1>4
<1>8. pc \in {"read", "op"} /\ (pc = "read" => Len(p) < Len(job[w].dts))
  BY <1>1, <1>2, <1>7
<1>9. /\ j \in JobType /\ j.pc = pc /\ j.req = job[w].req /\ j.held = job[w].held
      /\ j.lens = job[w].lens /\ j.dts = job[w].dts /\ j.p = p
      /\ j.maxidx = job[w].maxidx /\ j.maxlen = job[w].maxlen
  <2>1. job[w] \in JobType
    BY <1>1 DEF JobOK
  <2> HIDE DEF pc
  <2> QED BY <1>7, <1>8, <2>1 DEF JobType, Pcs
<1>10. JobOK(j)
  <2> HIDE DEF pc
  <2> QED BY <1>1, <1>8, <1>9 DEF JobOK, Measuring, OnSources
<1>11. JobsOK'
  BY <1>1, <1>5, <1>6, <1>9, <1>10, JobMoves DEF TypeInv
<1> QED BY <1>5, <1>11 DEF TypeInv

\* What a round of BITOP computes.
Size(w) == Round(OpLength(w), job[w].o)
ResultByte(w, j) ==
  Combine(job[w].req.option, [i \in DOMAIN job[w].p |-> ByteAt(job[w].p[i], j - 1)])
Result(w) == [j \in 1 .. Size(w) |-> ResultByte(w, j)]

\* What a round of BITOP combines, and where it goes.
LEMMA ResultFacts ==
  ASSUME TypeInv, NEW w \in Workers, OpCombine(w)
  PROVE  /\ job[w].req \in Requests /\ job[w].req.op = "BITOP"
         /\ job[w].o \in Nat /\ Size(w) \in Nat /\ Result(w) \in Seq(Byte)
         /\ job[w].req.hook = "NONE" =>
              /\ job[w].req.dest \in Open
              /\ write_to(job[w].req.dest, Result(w), job[w].o)
         /\ job[w].req.hook # "NONE" => UNCHANGED <<files, data, length>>
<1>1. /\ JobOK(job[w]) /\ job[w].held \subseteq Open /\ OnSources(job[w])
      /\ job[w].maxidx \in DOMAIN job[w].lens
  BY DEF TypeInv, JobsOK, JobOK, OpCombine
<1>2. job[w].lens \in Seq(Nat) /\ job[w].o \in Nat
  BY <1>1 DEF JobOK, JobType
<1>3. Size(w) \in Nat
  <2>1. OpLength(w) \in Nat
    BY <1>1, <1>2 DEF OpLength
  <2> QED BY <1>2, <2>1, RoundIsNat DEF Size
<1>4. job[w].req.option \in Options
  BY <1>1, RequestKinds DEF OnSources
<1>5. \A j : ResultByte(w, j) \in Byte
  BY <1>4, CombineIsByte DEF ResultByte
<1>6. Result(w) \in Seq(Byte)
  BY <1>3, <1>5 DEF Result
<1>7. /\ job[w].req.hook = "NONE" => write_to(job[w].req.dest, Result(w), job[w].o)
      /\ job[w].req.hook # "NONE" => UNCHANGED <<files, data, length>>
  BY DEF OpCombine, Result, ResultByte, Size
<1> QED BY <1>1, <1>2, <1>3, <1>6, <1>7 DEF OnSources

\* OpCombine keeps the types.
LEMMA OpCombineTypes ==
  ASSUME TypeInv, NEW w \in Workers, OpCombine(w)
  PROVE  TypeInv'
<1> DEFINE q    == job[w].req
           o    == job[w].o + Size(w)
           bits == job[w].bits + IF q.hook = "COUNTOP" THEN PopCount(Result(w)) ELSE 0
<1>1. /\ JobOK(job[w]) /\ job \in [Workers -> JobType] /\ job[w].held \subseteq Open
      /\ job[w].pc = "op" /\ OnSources(job[w])
      /\ Len(job[w].lens) = Len(job[w].dts) /\ job[w].maxidx \in DOMAIN job[w].lens
  BY DEF TypeInv, JobsOK, JobOK, OpCombine
<1>2. q \in Requests /\ job[w].o \in Nat /\ Size(w) \in Nat /\ Result(w) \in Seq(Byte)
  BY ResultFacts
<1>3. o \in Nat /\ bits \in Nat
  <2>1. PopCount(Result(w)) \in Nat /\ job[w].bits \in Nat
    BY <1>1, <1>2, PopCountIsNat DEF JobOK, JobType
  <2> QED BY <1>2, <2>1
<1>4. StoreOK' /\ Open \subseteq Open'
  BY ResultFacts, WrittenStore, StoreStays DEF TypeInv
<1>5. HistoryOK'
  BY HistoryStays DEF TypeInv, OpCombine
<1> HIDE DEF o, bits
<1>6. ASSUME NEW n \in {bits, ERR, o}, Reply(w, n)
      PROVE  TypeInv'
  <2>1. n \in Int
    BY <1>3 DEF ERR
  <2> QED BY <1>2, <1>4, <1>5, <1>6, <2>1, JobEnds DEF TypeInv
<1>7. ASSUME job' = [job EXCEPT ![w].o = o, ![w].bits = bits, ![w].p = <<>>, ![w].pc = "read"],
             UNCHANGED answer
      PROVE  TypeInv'
  <2> SUFFICES ASSUME NEW j,
                      j = [job[w] EXCEPT !.o = o, !.bits = bits, !.p = <<>>, !.pc = "read"]
               PROVE  TypeInv'
    OBVIOUS
  <2>1. job' = [job EXCEPT ![w] = j]
    BY <1>1, <1>7
  <2>2. /\ j \in JobType /\ j.pc = "read" /\ j.req = q /\ j.held = job[w].held
        /\ j.lens = job[w].lens /\ j.dts = job[w].dts /\ j.p = <<>>
        /\ j.maxidx = job[w].maxidx /\ j.maxlen = job[w].maxlen
    <3>1. job[w] \in JobType /\ <<>> \in Seq(Seq(Byte))
      BY <1>1 DEF JobOK
    <3> QED BY <1>3, <3>1 DEF JobType, Pcs
  <2>3. Len(<<>>) < Len(job[w].dts)
    <3>1. job[w].lens \in Seq(Nat)
      BY <1>1 DEF JobOK, JobType
    <3> QED BY <1>1, <3>1
  <2>4. JobOK(j)
    BY <1>1, <2>2, <2>3 DEF JobOK, Measuring, OnSources
  <2>5. JobsOK'
    BY <1>1, <1>4, <2>1, <2>2, <2>4, JobMoves DEF TypeInv
  <2> QED BY <1>4, <1>5, <1>7, <2>5 DEF TypeInv, AnswerOK
<1>8. \/ \E n \in {bits, ERR, o} : Reply(w, n)
      \/ /\ job' = [job EXCEPT ![w].o = o, ![w].bits = bits, ![w].p = <<>>, ![w].pc = "read"]
         /\ UNCHANGED answer
  BY DEF OpCombine, o, bits, Result, ResultByte, Size
<1> QED BY <1>6, <1>7, <1>8

\* Evict keeps the types.
LEMMA EvictTypes ==
  ASSUME TypeInv, NEW k \in Keys, Evict(k)
  PROVE  TypeInv'
<1>1. StoreOK'
  BY DEF TypeInv, StoreOK, Evict
<1>2. AnswerOK' /\ HistoryOK'
  BY HistoryStays DEF TypeInv, AnswerOK, Evict
<1>3. Open \ {k} \subseteq Open'
  BY DEF Evict, Open, TypeInv, StoreOK
<1>4. ASSUME NEW w \in Workers
      PROVE  job[w].held \subseteq Open'
  <2>1. job[w].held \subseteq Open /\ k \notin job[w].held
    BY DEF TypeInv, JobsOK, Evict
  <2> QED BY <1>3, <2>1
<1>5. job' = job
  BY DEF Evict
<1>6. JobsOK'
  BY <1>4, <1>5 DEF TypeInv, JobsOK
<1> QED BY <1>1, <1>2, <1>6 DEF TypeInv

\* One step of a worker keeps the types.
LEMMA WorkerTypes ==
  ASSUME TypeInv, NEW w \in Workers, Worker(w)
  PROVE  TypeInv'
BY StartTypes, RefuseTypes, PrepareKeyTypes, SetbitReadTypes, SetbitWriteTypes, GetbitTypes,
   CountRangeTypes, CountClampTypes, CountReadTypes, PrepareSourceTypes, TakeTimesTypes,
   TakeRestTypes, LongestTypes, StartRoundsTypes, OpReadTypes, OpCombineTypes DEF Worker

\* A stuttering step.
LEMMA StutterTypes ==
  ASSUME TypeInv, UNCHANGED vars
  PROVE  TypeInv'
<1>1. StoreOK' /\ Open' = Open /\ HistoryOK' /\ AnswerOK' /\ job' = job
  BY StoreStays, HistoryStays DEF TypeInv, AnswerOK, vars
<1>2. JobsOK'
  BY <1>1 DEF TypeInv, JobsOK
<1> QED BY <1>1, <1>2 DEF TypeInv

\* A step of a worker leaves the files alone, prepares a file, which it
\* truncates only for a destination, or writes to an open one.
LEMMA StoreEffect ==
  ASSUME TypeInv, NEW w \in Workers, Worker(w)
  PROVE  \/ UNCHANGED <<files, data, length>>
         \/ \E k \in Keys : Prepared(k, 1)
         \/ /\ PrepareKey(w) /\ Key(job[w].req) \in Keys
            /\ Prepared(Key(job[w].req), Mode(job[w].req))
         \/ \E k \in Open, buf \in Seq(Byte), o \in Nat : write_to(k, buf, o)
<1>1. ASSUME PrepareKey(w)
      PROVE  \/ UNCHANGED <<files, data, length>>
             \/ /\ Key(job[w].req) \in Keys
                /\ Prepared(Key(job[w].req), Mode(job[w].req))
  <2>1. job[w].req \in Requests /\ Key(job[w].req) # NULL
    BY <1>1 DEF TypeInv, JobsOK, JobOK, PrepareKey
  <2>2. Key(job[w].req) \in Keys
    BY <2>1, RequestKinds DEF Key, SetbitRequest, GetbitRequest, BitcountRequest
  <2> QED BY <1>1, <2>2 DEF PrepareKey, PrepareFails, Absent
<1>2. ASSUME PrepareSource(w)
      PROVE  UNCHANGED <<files, data, length>> \/ \E k \in Keys : Prepared(k, 1)
  <2> DEFINE i == Len(job[w].req.srcs) - Len(job[w].dts)
  <2>1. /\ job[w].req.srcs \in Seq(Keys) /\ job[w].dts \in Seq(Keys \cup {NULL})
        /\ Len(job[w].dts) < Len(job[w].req.srcs)
    BY <1>2, RequestKinds
    DEF TypeInv, JobsOK, JobOK, JobType, OnSources, PrepareSource
  <2>2. i \in 1 .. Len(job[w].req.srcs)
    <3> SUFFICES ASSUME NEW s, NEW d, s \in Seq(Keys), d \in Seq(Keys \cup {NULL}),
                        Len(d) < Len(s)
                 PROVE  Len(s) - Len(d) \in 1 .. Len(s)
      BY <2>1
    <3> QED OBVIOUS
  <2>3. job[w].req.srcs[i] \in Keys
    <3> HIDE DEF i
    <3> QED BY <2>1, <2>2
  <2> QED BY <1>2, <2>3 DEF PrepareSource, PrepareFails, Absent
<1>3. ASSUME SetbitWrite(w)
      PROVE  \E k \in Open, buf \in Seq(Byte), o \in Nat : write_to(k, buf, o)
  <2>1. JobOK(job[w]) /\ OnKey(job[w], "SETBIT")
    BY <1>3 DEF TypeInv, JobsOK, JobOK, SetbitWrite
  <2>2. job[w].req.key \in Open /\ job[w].req.byte \in Nat /\ job[w].req.bit \in Bit
    BY <2>1, OnKeyFacts, RequestKinds DEF OnKey, SetbitRequest
  <2>3. NewByte(job[w].req, job[w].byteval) \in Byte
    BY <2>1, <2>2 DEF NewByte, Byte, JobOK, JobType
  <2>4. <<NewByte(job[w].req, job[w].byteval)>> \in Seq(Byte)
    BY <2>3
  <2> QED BY <1>3, <2>2, <2>4 DEF SetbitWrite
<1>4. ASSUME OpCombine(w)
      PROVE  \/ UNCHANGED <<files, data, length>>
             \/ \E k \in Open, buf \in Seq(Byte), o \in Nat : write_to(k, buf, o)
  BY <1>4, ResultFacts
<1> QED BY <1>1, <1>2, <1>3, <1>4
    DEF Worker, StartCommand, Refuse, SetbitRead, Getbit, CountRange, CountClamp, CountRead,
        TakeTimes, TakeRest, CompareLength, TakeLongest, StartRounds, OpRead

\* A worker closes nothing.
LEMMA WorkerOpens ==
  ASSUME TypeInv, NEW w \in Workers, Worker(w)
  PROVE  Open \subseteq Open'
BY StoreEffect, PreparedStore, WrittenStore DEF TypeInv, Open

\* What has leaked stays open: prepare_files forgets only descriptors its command held.
LEMMA LeakedStep ==
  ASSUME TypeInv, LeakedOK, [Next]_vars
  PROVE  LeakedOK'
<1>1. ASSUME NEW w \in Workers, Worker(w)
      PROVE  LeakedOK'
  <2>1. Open \subseteq Open'
    BY <1>1, WorkerOpens
  <2>2. ASSUME PrepareSource(w)
        PROVE  leaked' \subseteq Open
    <3>1. job[w].held \subseteq Open /\ OnSources(job[w])
      BY <2>2 DEF TypeInv, JobsOK, JobOK, PrepareSource
    <3>2. {job[w].dts[n] : n \in DOMAIN job[w].dts} \ {NULL} \subseteq Open
      BY <3>1 DEF OnSources
    <3> QED BY <2>2, <3>2 DEF PrepareSource, LeakedOK
  <2>3. ~PrepareSource(w) => leaked' = leaked
    BY <1>1
    DEF Worker, StartCommand, Refuse, PrepareKey, SetbitRead, SetbitWrite, Getbit, CountRange,
        CountClamp, CountRead, TakeTimes, TakeRest, CompareLength, TakeLongest, StartRounds,
        OpRead, OpCombine
  <2> QED BY <2>1, <2>2, <2>3 DEF LeakedOK
<1>2. ASSUME NEW k \in Keys, Evict(k)
      PROVE  LeakedOK'
  BY <1>2 DEF Evict, LeakedOK, Open, TypeInv, StoreOK
<1>3. CASE UNCHANGED vars
  BY <1>3 DEF vars, LeakedOK, Open
<1> QED BY <1>1, <1>2, <1>3 DEF Next

\* Every variable keeps its type, and a command holds the descriptors it uses,
\* whatever the requests, the files and the sizes are.
THEOREM TypeCorrect == Spec => []TypeOK
<1>1. Init => TypeInv /\ LeakedOK
  BY InitTypeInv
<1>2. TypeInv /\ LeakedOK /\ [Next]_vars => (TypeInv /\ LeakedOK)'
  BY WorkerTypes, EvictTypes, StutterTypes, LeakedStep DEF Next
<1>3. TypeInv /\ LeakedOK => TypeOK
  BY TypeInvImpliesTypeOK
<1> QED BY <1>1, <1>2, <1>3, PTL DEF Spec

-----------------------------------------------------------------------------
(* dt->length and the size of the file.                                    *)

\* No file extends behind the length of its descriptor: SETBIT takes a byte
\* behind the length for zero without reading it.
Covers == \A k \in Open : Len(data[k]) <= length[k]

\* prepare_file: a file truncated or opened is no longer than its length.
LEMMA PreparedCovers ==
  ASSUME StoreOK, Covers, NEW k \in Keys, NEW mode, Prepared(k, mode)
  PROVE  Covers'
<1> SUFFICES ASSUME NEW i \in Keys, length'[i] # NULL
             PROVE  Len(data'[i]) <= length'[i]
  BY DEF Covers, Open
<1>1. length[i] # NULL => Len(data[i]) <= length[i]
  BY DEF Covers, Open
<1>2. /\ data[i] \in Seq(Byte) /\ Len(data[i]) \in Nat /\ Len(<<>>) = 0
      /\ i \notin files => data[i] = <<>>
  BY DEF StoreOK
<1>3. CASE i # k
  BY <1>1, <1>2, <1>3 DEF Prepared, StoreOK
<1>4. CASE i = k
  <2>1. CASE length[k] # NULL /\ UNCHANGED <<files, data, length>>
    BY <1>1, <1>4, <2>1
  <2>2. CASE /\ length' = [length EXCEPT ![k] = Len(data[k])]
             /\ data' = IF mode = 2 THEN [data EXCEPT ![k] = <<>>] ELSE data
    <3>1. length'[i] = Len(data[i]) /\ data'[i] \in {<<>>, data[i]}
      BY <1>4, <2>2 DEF StoreOK
    <3> QED BY <1>2, <3>1
  <2>3. CASE length' = [length EXCEPT ![k] = 0] /\ k \notin files /\ UNCHANGED data
    <3>1. length'[i] = 0 /\ data'[i] = <<>>
      BY <1>2, <1>4, <2>3 DEF StoreOK
    <3> QED BY <1>2, <3>1
  <2> QED BY <2>1, <2>2, <2>3 DEF Prepared
<1> QED BY <1>3, <1>4

\* write_to: the length grows with the file.
LEMMA WrittenCovers ==
  ASSUME StoreOK, Covers, NEW k \in Open, NEW buf \in Seq(Byte), NEW o \in Nat,
         write_to(k, buf, o)
  PROVE  Covers'
<1> SUFFICES ASSUME NEW i \in Keys, length'[i] # NULL
             PROVE  Len(data'[i]) <= length'[i]
  BY DEF Covers, Open
<1>1. k \in Keys /\ data[k] \in Seq(Byte) /\ length[k] \in Nat /\ Len(data[k]) <= length[k]
  BY DEF StoreOK, Open, Covers
<1>2. CASE i # k
  BY <1>2 DEF write_to, StoreOK, Covers, Open
<1>3. CASE i = k
  <2>1. data'[i] = WriteAt(data[k], o, buf) /\ length'[i] = Larger(length[k], o + Len(buf))
    BY <1>1, <1>3 DEF write_to, StoreOK
  <2>2. Len(WriteAt(data[k], o, buf)) = Larger(Len(data[k]), o + Len(buf))
    BY <1>1, Written
  <2>3. Len(data[k]) \in Nat /\ Len(buf) \in Nat
    BY <1>1
  <2>4. Larger(Len(data[k]), o + Len(buf)) <= Larger(length[k], o + Len(buf))
    BY <1>1, <2>3 DEF Larger
  <2> QED BY <2>1, <2>2, <2>4
<1> QED BY <1>2, <1>3

\* A step of a worker leaves no file longer than dt->length.
LEMMA WorkerCovers ==
  ASSUME TypeInv, Covers, NEW w \in Workers, Worker(w)
  PROVE  Covers'
<1>1. CASE UNCHANGED <<files, data, length>>
  BY <1>1 DEF Covers, Open
<1> QED BY <1>1, StoreEffect, PreparedCovers, WrittenCovers DEF TypeInv

\* An eviction takes the length away and leaves the file alone.
LEMMA EvictCovers ==
  ASSUME TypeInv, Covers, NEW k \in Keys, Evict(k)
  PROVE  Covers'
BY DEF Covers, Open, Evict, TypeInv, StoreOK

\* Where results go only into new keys or open sources, a destination about to
\* be prepared is open or not there: it is not truncated, which would leave the
\* length of before.
Ready(w, k) == job[w].pc = "key" /\ Stores(job[w].req, k) => k \in Open \/ k \notin files

\* The length of every descriptor is the size of its file.
Sized(k) == length[k] # NULL => length[k] = Len(data[k])
LengthIsSize == \A k \in Keys : Sized(k)

DestinationsReady == \A w \in Workers, k \in Keys : Ready(w, k)

LengthInv == TypeInv /\ LengthIsSize /\ DestinationsReady

\* A worker goes on with its command, elsewhere than to write SETBIT's byte.
GoesOn(w) ==
  /\ job[w].pc \notin {"idle", "refused"}
  /\ job'[w].pc \notin {"idle", "refused", "key", "write"}
  /\ job'[w].req = job[w].req
  /\ UNCHANGED answer

\* A step of a worker leaves the other workers' jobs alone.
LEMMA WorkerLeaves ==
  ASSUME TypeInv, NEW w \in Workers, Worker(w), NEW v \in Workers, v # w
  PROVE  job'[v] = job[v]
<1>1. job \in [Workers -> JobType]
  BY DEF TypeInv, JobsOK
<1>2. (\E n : Reply(w, n)) \/ OutOfMemory(w) \/ (\E k : PrepareFails(w, k)) => job'[v] = job[v]
  BY <1>1 DEF Reply, OutOfMemory, PrepareFails
<1>3. ~(\E q \in Requests : StartCommand(w, q))
  \/ job'[v] = job[v]
  BY <1>1 DEF StartCommand
<1>4. Refuse(w) \/ PrepareKey(w) \/ SetbitRead(w) \/ SetbitWrite(w) \/ Getbit(w)
        => job'[v] = job[v]
  BY <1>1, <1>2 DEF Refuse, PrepareKey, SetbitRead, SetbitWrite, Getbit
<1>5. CountRange(w) \/ CountClamp(w) \/ CountRead(w) \/ PrepareSource(w) => job'[v] = job[v]
  BY <1>1, <1>2 DEF CountRange, CountClamp, CountRead, PrepareSource
<1>6. TakeTimes(w) \/ TakeRest(w) \/ CompareLength(w) \/ TakeLongest(w) => job'[v] = job[v]
  BY <1>1 DEF TakeTimes, TakeRest, CompareLength, TakeLongest
<1>7. StartRounds(w) \/ OpRead(w) \/ OpCombine(w) => job'[v] = job[v]
  BY <1>1, <1>2 DEF StartRounds, Goto, OpRead, OpCombine
<1> QED BY <1>3, <1>4, <1>5, <1>6, <1>7 DEF Worker

\* A step changes the job of one worker: it takes a command, ends it, goes on
\* to write the byte SETBIT has read, or goes on elsewhere.
LEMMA JobChanges ==
  ASSUME TypeInv, NEW w \in Workers, Worker(w), NEW v \in Workers
  PROVE  \/ job'[v] = job[v]
         \/ v = w /\ job'[v] = Idle
         \/ v = w /\ \E q \in Requests : StartCommand(w, q)
         \/ v = w /\ SetbitRead(w)
         \/ v = w /\ GoesOn(w)
<1>1. job \in [Workers -> JobType]
  BY DEF TypeInv, JobsOK
<1>2. CASE v # w
  BY <1>2, WorkerLeaves
<1>3. CASE v = w
  <2>1. job[w] \in JobType /\ w \in DOMAIN job
    BY <1>1
  <2>2. \A n : Reply(w, n) => job'[w] = Idle
    BY <1>1 DEF Reply
  <2>3. Refuse(w) \/ SetbitWrite(w) \/ Getbit(w) \/ OutOfMemory(w) => job'[w] = Idle
    BY <2>2 DEF Refuse, SetbitWrite, Getbit, OutOfMemory
  <2>4. PrepareKey(w) => job'[w] = Idle \/ GoesOn(w)
    <3>1. ASSUME PrepareKey(w) PROVE First(job[w].req) \notin {"idle", "refused", "key", "write"}
      <4>1. job[w].req \in Requests
        BY <3>1 DEF TypeInv, JobsOK, JobOK, PrepareKey
      <4> QED BY <4>1, RequestKinds DEF First
    <3> QED BY <2>1, <2>2, <3>1 DEF PrepareKey, PrepareFails, JobType, GoesOn
  <2>5. CountRange(w) \/ CountClamp(w) => job'[w] = Idle \/ GoesOn(w)
    BY <2>1, <2>2, <2>3 DEF CountRange, CountClamp, JobType, GoesOn
  <2>6. CountRead(w) => job'[w] = Idle \/ GoesOn(w)
    <3> SUFFICES ASSUME CountRead(w), job'[w] # Idle PROVE GoesOn(w)
      OBVIOUS
    <3>1. UNCHANGED answer /\ job[w].pc = "count"
      BY <2>2 DEF CountRead
    <3>2. PICK o, bits : job' = [job EXCEPT ![w].o = o, ![w].bits = bits]
      BY <2>2 DEF CountRead
    <3>3. job'[w].pc = job[w].pc /\ job'[w].req = job[w].req
      BY <2>1, <3>2 DEF JobType
    <3> QED BY <3>1, <3>3 DEF GoesOn
  <2>7. PrepareSource(w) => job'[w] = Idle \/ GoesOn(w)
    <3> SUFFICES ASSUME PrepareSource(w), job'[w] # Idle PROVE GoesOn(w)
      OBVIOUS
    <3> DEFINE i  == Len(job[w].req.srcs) - Len(job[w].dts)
               pc == IF i = 1 THEN "lengths" ELSE job[w].pc
               Got(dt) == job' = [job EXCEPT ![w].dts = <<dt>> \o job[w].dts,
                                    ![w].held = job[w].held \cup ({dt} \ {NULL}), ![w].pc = pc]
    <3>1. UNCHANGED answer /\ job[w].pc = "sources" /\ \E dt : Got(dt)
      BY <2>2 DEF PrepareSource, PrepareFails
    <3>2. pc \in {"sources", "lengths"}
      BY DEF PrepareSource
    <3> HIDE DEF pc
    <3> SUFFICES ASSUME NEW d, NEW h, job' = [job EXCEPT ![w].dts = d, ![w].held = h, ![w].pc = pc]
                 PROVE  GoesOn(w)
      BY <3>1
    <3> QED BY <2>1, <3>1, <3>2 DEF JobType, GoesOn
  <2>8. /\ TakeTimes(w) \/ TakeRest(w) \/ CompareLength(w) \/ TakeLongest(w) => GoesOn(w)
        /\ StartRounds(w) => job'[w] = Idle \/ GoesOn(w)
    <3>1. ASSUME TakeTimes(w)
          PROVE  GoesOn(w)
      <4>1. \/ \E l : job'[w] = [job[w] EXCEPT !.lens = l]
            \/ \E t : job'[w] = [job[w] EXCEPT !.t = t, !.pc = "rest"]
        BY <2>1, <3>1 DEF TakeTimes
      <4>2. job[w].pc = "lengths" /\ UNCHANGED answer
        BY <3>1 DEF TakeTimes
      <4>3. job'[w].pc \in {"lengths", "rest"} /\ job'[w].req = job[w].req
        BY <2>1, <4>1, <4>2 DEF JobType
      <4> QED BY <4>2, <4>3 DEF GoesOn
    <3>2. ASSUME TakeRest(w)
          PROVE  GoesOn(w)
      <4>1. PICK l, torn : job' = [job EXCEPT ![w].lens = l, ![w].torn = torn, ![w].pc = "compare"]
        BY <3>2 DEF TakeRest
      <4>2. job[w].pc = "rest" /\ UNCHANGED answer
        BY <3>2 DEF TakeRest
      <4>3. job'[w].pc = "compare" /\ job'[w].req = job[w].req
        BY <2>1, <4>1 DEF JobType
      <4> QED BY <4>2, <4>3 DEF GoesOn
    <3>3. ASSUME CompareLength(w) \/ TakeLongest(w)
          PROVE  GoesOn(w)
      <4>1. \/ \E idx : job'[w] = [job[w] EXCEPT !.maxidx = idx, !.pc = "longest"]
            \/ job'[w] = [job[w] EXCEPT !.pc = "lengths"]
            \/ \E max : job'[w] = [job[w] EXCEPT !.maxlen = max, !.pc = "lengths"]
        BY <2>1, <3>3 DEF CompareLength, TakeLongest
      <4>2. job[w].pc \in {"compare", "longest"} /\ UNCHANGED answer
        BY <3>3 DEF CompareLength, TakeLongest
      <4>3. job'[w].pc \in {"lengths", "longest"} /\ job'[w].req = job[w].req
        BY <2>1, <4>1 DEF JobType
      <4> QED BY <4>2, <4>3 DEF GoesOn
    <3>4. StartRounds(w) => job'[w] = Idle \/ GoesOn(w)
      BY <2>1, <2>2, <2>3 DEF StartRounds, Goto, JobType, GoesOn
    <3> QED BY <3>1, <3>2, <3>3, <3>4
  <2>9. OpRead(w) => GoesOn(w)
    <3> SUFFICES ASSUME OpRead(w) PROVE GoesOn(w)
      OBVIOUS
    <3>1. UNCHANGED answer /\ job[w].pc = "read"
      BY DEF OpRead
    <3>2. PICK p, pc : pc \in {"read", "op"} /\ job' = [job EXCEPT ![w].p = p, ![w].pc = pc]
      BY DEF OpRead
    <3> QED BY <2>1, <3>1, <3>2 DEF JobType, GoesOn
  <2>10. OpCombine(w) => job'[w] = Idle \/ GoesOn(w)
    <3> SUFFICES ASSUME OpCombine(w), job'[w] # Idle PROVE GoesOn(w)
      OBVIOUS
    <3> DEFINE o    == job[w].o + Size(w)
               bits == job[w].bits
                         + IF job[w].req.hook = "COUNTOP" THEN PopCount(Result(w)) ELSE 0
    <3>1. /\ job' = [job EXCEPT ![w].o = o, ![w].bits = bits, ![w].p = <<>>, ![w].pc = "read"]
          /\ UNCHANGED answer /\ job[w].pc = "op"
      BY <2>2 DEF OpCombine, Size, Result, ResultByte
    <3> HIDE DEF o, bits
    <3> QED BY <2>1, <3>1 DEF JobType, GoesOn
  <2>11. \/ job'[w] = Idle
         \/ \E q \in Requests : StartCommand(w, q)
         \/ SetbitRead(w)
         \/ GoesOn(w)
    BY <2>3, <2>4, <2>5, <2>6, <2>7, <2>8, <2>9, <2>10 DEF Worker
  <2> QED BY <1>3, <2>11
<1> QED BY <1>2, <1>3

\* SETBIT has read its byte and goes on to write it, or ends.
LEMMA SetbitReadMoves ==
  ASSUME TypeInv, NEW w \in Workers, SetbitRead(w)
  PROVE  \/ job'[w] = Idle
         \/ /\ job'[w].pc = "write" /\ job'[w].req = job[w].req /\ UNCHANGED answer
            /\ LET q == job[w].req
                   c == read_from(q.key, 1, q.byte)
               IN  \/ c # <<>> /\ job'[w].byteval = c[1]
                   \/ q.byte >= length[q.key] /\ job'[w].byteval = {}
<1> DEFINE q == job[w].req
           c == read_from(q.key, 1, q.byte)
<1>1. job \in [Workers -> JobType] /\ job[w] \in JobType /\ w \in DOMAIN job
  BY DEF TypeInv, JobsOK
<1>2. ASSUME NEW b, job' = [job EXCEPT ![w].pc = "write", ![w].byteval = b]
      PROVE  job'[w].pc = "write" /\ job'[w].req = job[w].req /\ job'[w].byteval = b
  BY <1>1, <1>2 DEF JobType
<1>3. \A n : Reply(w, n) => job'[w] = Idle
  BY <1>1 DEF Reply
<1> QED BY <1>2, <1>3 DEF SetbitRead

\* A worker comes to prepare a key only by taking a command.
LEMMA KeyStays ==
  ASSUME TypeInv, NEW w \in Workers, Worker(w), NEW v \in Workers, job'[v].pc = "key"
  PROVE  job'[v] = job[v] \/ (v = w /\ \E q \in Requests : StartCommand(w, q))
<1>1. Idle.pc # "key"
  BY DEF Idle
<1> QED BY <1>1, JobChanges, SetbitReadMoves DEF GoesOn

\* Every way the files change keeps a destination ready.
LEMMA StoreKeepsReady ==
  ASSUME TypeInv, NEW w \in Workers, Worker(w), NEW k \in Keys, k \in Open \/ k \notin files
  PROVE  k \in Open' \/ k \notin files'
<1>1. CASE UNCHANGED <<files, data, length>>
  BY <1>1 DEF Open
<1>2. ASSUME NEW i \in Keys, NEW mode, Prepared(i, mode)
      PROVE  k \in Open' \/ k \notin files'
  <2>1. Open \subseteq Open' /\ i \in Open'
    BY <1>2, PreparedStore DEF TypeInv
  <2>2. files' = files \/ files' = files \cup {i}
    BY <1>2 DEF Prepared
  <2> QED BY <2>1, <2>2
<1>3. ASSUME NEW i \in Open, NEW buf \in Seq(Byte), NEW o \in Nat, write_to(i, buf, o)
      PROVE  k \in Open' \/ k \notin files'
  <2>1. Open \subseteq Open' /\ files' = files
    BY <1>3, WrittenStore DEF TypeInv, write_to
  <2> QED BY <2>1
<1> QED BY <1>1, <1>2, <1>3, StoreEffect

\* Under NoTruncation the destination of a BITOP about to open it has no file, or is open.
LEMMA WorkerReady ==
  ASSUME NoTruncation, LengthInv, NEW w \in Workers, Worker(w)
  PROVE  DestinationsReady'
<1> SUFFICES ASSUME NEW v \in Workers, NEW k \in Keys,
                    job'[v].pc = "key", Stores(job'[v].req, k)
             PROVE  k \in Open' \/ k \notin files'
  BY DEF DestinationsReady, Ready
<1>1. CASE job'[v] = job[v]
  BY <1>1, StoreKeepsReady DEF LengthInv, DestinationsReady, Ready
<1>2. ASSUME NEW q \in Requests, v = w, StartCommand(w, q)
      PROVE  k \in Open' \/ k \notin files'
  <2>1. job'[v].req = q
    BY <1>2 DEF StartCommand, LengthInv, TypeInv, JobsOK, JobType
  <2>2. k \in Open \/ k \notin files
    BY <1>2, <2>1 DEF StartCommand, Expendable, Open
  <2> QED BY <1>2, <2>2 DEF StartCommand, Open
<1> QED BY <1>1, <1>2, KeyStays DEF LengthInv

\* prepare_file takes the length from the file, unless it truncates it.
LEMMA PreparedMatches ==
  ASSUME StoreOK, NEW k \in Keys, NEW mode, Prepared(k, mode), NEW i \in Keys, Sized(i),
         mode = 2 /\ i = k => k \in Open \/ k \notin files
  PROVE  Sized(i)'
<1> SUFFICES ASSUME length'[i] # NULL
             PROVE  length'[i] = Len(data'[i])
  BY DEF Sized
<1>1. length[i] # NULL => length[i] = Len(data[i])
  BY DEF Sized
<1>2. CASE i # k
  BY <1>1, <1>2 DEF Prepared, StoreOK
<1>3. CASE i = k
  <2>1. CASE length[k] # NULL /\ UNCHANGED <<files, data, length>>
    BY <1>1, <1>3, <2>1
  <2>2. CASE /\ length[k] = NULL /\ k \in files
             /\ length' = [length EXCEPT ![k] = Len(data[k])]
             /\ data' = IF mode = 2 THEN [data EXCEPT ![k] = <<>>] ELSE data
    <3>1. data' = data
      BY <1>3, <2>2 DEF Open
    <3> QED BY <1>3, <2>2, <3>1 DEF StoreOK
  <2>3. CASE length' = [length EXCEPT ![k] = 0] /\ k \notin files /\ UNCHANGED data
    <3>1. length'[i] = 0 /\ data'[i] = <<>> /\ Len(<<>>) = 0
      BY <1>3, <2>3 DEF StoreOK
    <3> QED BY <3>1
  <2> QED BY <2>1, <2>2, <2>3 DEF Prepared
<1> QED BY <1>2, <1>3

\* write_to extends both or neither.
LEMMA WrittenMatches ==
  ASSUME StoreOK, NEW k \in Open, NEW buf \in Seq(Byte), NEW o \in Nat, write_to(k, buf, o),
         NEW i \in Keys, Sized(i)
  PROVE  Sized(i)'
<1> SUFFICES ASSUME length'[i] # NULL
             PROVE  length'[i] = Len(data'[i])
  BY DEF Sized
<1>1. k \in Keys /\ data[k] \in Seq(Byte) /\ (i = k => length[k] = Len(data[k]))
  BY DEF StoreOK, Open, Sized
<1>2. CASE i # k
  BY <1>2 DEF write_to, StoreOK, Sized
<1>3. CASE i = k
  <2>1. data'[i] = WriteAt(data[k], o, buf) /\ length'[i] = Larger(length[k], o + Len(buf))
    BY <1>1, <1>3 DEF write_to, StoreOK
  <2> QED BY <1>1, <1>3, <2>1, Written
<1> QED BY <1>2, <1>3

\* A step of a worker keeps dt->length the size of the file.
LEMMA WorkerMatches ==
  ASSUME LengthInv, NEW w \in Workers, Worker(w)
  PROVE  LengthIsSize'
<1>1. CASE UNCHANGED <<files, data, length>>
  BY <1>1 DEF LengthInv, LengthIsSize, Sized
<1>2. ASSUME NEW k \in Keys, Prepared(k, 1)
      PROVE  LengthIsSize'
  BY <1>2, PreparedMatches DEF LengthInv, LengthIsSize, TypeInv
<1>3. ASSUME PrepareKey(w), Key(job[w].req) \in Keys,
             Prepared(Key(job[w].req), Mode(job[w].req))
      PROVE  LengthIsSize'
  <2> DEFINE k == Key(job[w].req)
  <2>1. Mode(job[w].req) = 2 => Stores(job[w].req, k)
    BY <1>3 DEF Mode, Stores, Key
  <2>2. Mode(job[w].req) = 2 => k \in Open \/ k \notin files
    BY <1>3, <2>1 DEF PrepareKey, LengthInv, DestinationsReady, Ready
  <2> HIDE DEF k
  <2> QED BY <1>3, <2>2, PreparedMatches DEF LengthInv, LengthIsSize, TypeInv, k
<1>4. ASSUME NEW k \in Open, NEW buf \in Seq(Byte), NEW o \in Nat, write_to(k, buf, o)
      PROVE  LengthIsSize'
  BY <1>4, WrittenMatches DEF LengthInv, LengthIsSize, TypeInv
<1> QED BY <1>1, <1>2, <1>3, <1>4, StoreEffect DEF LengthInv

\* An eviction.
LEMMA EvictLengths ==
  ASSUME NoTruncation, LengthInv, NEW k \in Keys, Evict(k)
  PROVE  LengthIsSize' /\ DestinationsReady'
<1>1. LengthIsSize'
  BY DEF LengthInv, LengthIsSize, Sized, Evict, TypeInv, StoreOK
<1>2. ASSUME NEW w \in Workers, NEW i \in Keys PROVE Ready(w, i)'
  <2>1. CASE i = k
    BY <2>1 DEF Evict, Expendable, Ready
  <2>2. CASE i # k
    BY <2>2 DEF Evict, Ready, LengthInv, DestinationsReady, Open, TypeInv, StoreOK
  <2> QED BY <2>1, <2>2
<1> QED BY <1>1, <1>2 DEF DestinationsReady

\* Every step keeps the lengths right.
LEMMA LengthStep ==
  ASSUME NoTruncation, LengthInv, [Next]_vars
  PROVE  LengthInv'
<1>1. ASSUME NEW w \in Workers, Worker(w) PROVE LengthInv'
  BY <1>1, WorkerTypes, WorkerReady, WorkerMatches DEF LengthInv
<1>2. ASSUME NEW k \in Keys, Evict(k) PROVE LengthInv'
  BY <1>2, EvictTypes, EvictLengths DEF LengthInv
<1>3. CASE UNCHANGED vars
  BY <1>3, StutterTypes
  DEF LengthInv, LengthIsSize, Sized, DestinationsReady, Ready, Open, vars
<1> QED BY <1>1, <1>2, <1>3 DEF Next

\* Where clients store results only into keys that are new or open, dt->length is
\* the size of the file for as long as a key has a descriptor, however its
\* commands and evictions interleave and whatever fails.
THEOREM LengthCorrect ==
  ASSUME NoTruncation
  PROVE  Spec => []LengthMatchesSize
<1>1. Init => LengthInv
  <2>1. Init => LengthIsSize /\ DestinationsReady
    BY DEF Init, LengthIsSize, Sized, DestinationsReady, Ready, Idle
  <2> QED BY <2>1, InitTypeInv DEF LengthInv
<1>2. LengthInv /\ [Next]_vars => LengthInv'
  BY LengthStep
<1>3. LengthInv => LengthMatchesSize
  BY DEF LengthInv, LengthIsSize, Sized, LengthMatchesSize
<1> QED BY <1>1, <1>2, <1>3, PTL DEF Spec

-----------------------------------------------------------------------------
(* Acknowledged bits.                                                      *)

\* No command being executed may clear a bit that counts as acknowledged.
NobodyClears ==
  \A w \in Workers : job[w].req # NULL => \A b \in acked : ~MayClear(job[w].req, b)

\* At most one SETBIT has read a byte and not yet written it.
OneWriter ==
  \A v, w \in Workers :
    v # w /\ job[v].pc = "write" /\ job[w].pc = "write"
      => <<job[v].req.key, job[v].req.byte>> # <<job[w].req.key, job[w].req.byte>>

\* What it has read has the byte's acknowledged bits.
ReadAcked ==
  \A w \in Workers : job[w].pc = "write" =>
    \A b \in acked : b[1] = job[w].req.key /\ b[2] = job[w].req.byte => b[3] \in job[w].byteval

AckedInv ==
  /\ TypeInv
  /\ Covers
  /\ NobodyClears
  /\ ~raced => AcknowledgedBitsStay /\ OneWriter /\ ReadAcked

\* An acknowledged bit is a key, a byte and a bit of it.
LEMMA AckedFacts ==
  ASSUME TypeInv, NEW b \in acked
  PROVE  b[1] \in Keys /\ b[2] \in Nat /\ b[3] \in Bit /\ b = <<b[1], b[2], b[3]>>
BY DEF TypeInv, HistoryOK

\* A command being executed has a request.
LEMMA ReqFacts ==
  ASSUME TypeInv, NEW w \in Workers, job[w].pc # "idle"
  PROVE  job[w].req \in Requests /\ job[w].req # NULL
<1>1. job[w].req \in Requests
  BY DEF TypeInv, JobsOK, JobOK, Measuring, JobType, Pcs, OnKey, OnSources
<1> QED BY <1>1, BitStoreAssumption

\* Only SETBIT's write changes the contents of a key that has acknowledged bits.
LEMMA DataStays ==
  ASSUME TypeInv, NobodyClears, NEW w \in Workers, Worker(w), ~SetbitWrite(w), NEW b \in acked
  PROVE  data'[b[1]] = data[b[1]]
<1>1. b[1] \in Keys
  BY AckedFacts
<1>2. ASSUME PrepareKey(w)
      PROVE  data'[b[1]] = data[b[1]]
  <2> DEFINE q == job[w].req
  <2>1. q \in Requests /\ ~MayClear(q, b)
    BY <1>2, ReqFacts DEF PrepareKey, NobodyClears
  <2>2. Key(q) \in Keys
    <3>1. Key(q) # NULL
      BY <1>2 DEF TypeInv, JobsOK, JobOK, PrepareKey
    <3> QED BY <2>1, <3>1, RequestKinds DEF Key, SetbitRequest, GetbitRequest, BitcountRequest
  <2>3. CASE Absent(Key(q), Mode(q))
    BY <2>3 DEF Absent
  <2>4. CASE Prepared(Key(q), Mode(q))
    <3>1. Mode(q) = 2 => b[1] # Key(q)
      BY <2>1 DEF MayClear, Stores, Mode, Key
    <3>2. data'[b[1]] = data[b[1]] \/ (b[1] = Key(q) /\ Mode(q) = 2)
      BY <1>1, <2>2, <2>4, PreparedStore DEF TypeInv
    <3> QED BY <3>1, <3>2
  <2> QED BY <1>2, <2>3, <2>4 DEF PrepareKey, PrepareFails
<1>3. ASSUME PrepareSource(w)
      PROVE  data'[b[1]] = data[b[1]]
  <2>1. PICK k : Prepared(k, 1) \/ Absent(k, 1) \/ PrepareFails(w, k)
    BY <1>3 DEF PrepareSource
  <2>2. data' = data
    BY <2>1 DEF PrepareFails, Prepared, Absent
  <2> QED BY <2>2
<1>4. ASSUME OpCombine(w)
      PROVE  data'[b[1]] = data[b[1]]
  <2> DEFINE q == job[w].req
  <2>1. q \in Requests /\ q.op = "BITOP" /\ ~MayClear(q, b)
    BY <1>4, ReqFacts, ResultFacts DEF OpCombine, NobodyClears
  <2>2. CASE q.hook = "NONE"
    <3>1. b[1] # q.dest
      BY <2>1 DEF MayClear, Stores
    <3> QED BY <1>1, <1>4, <2>2, <3>1, ResultFacts, WrittenStore DEF TypeInv
  <2>3. CASE q.hook # "NONE"
    BY <1>4, <2>3, ResultFacts
  <2> QED BY <2>2, <2>3
<1> QED BY <1>2, <1>3, <1>4
    DEF Worker, StartCommand, Refuse, SetbitRead, Getbit, CountRange, CountClamp, CountRead,
        TakeTimes, TakeRest, CompareLength, TakeLongest,
        StartRounds, OpRead

\* Bits become acknowledged by SETBIT's write only.
LEMMA AckedStays ==
  ASSUME NEW w \in Workers, Worker(w), ~SetbitWrite(w)
  PROVE  acked' \subseteq acked
BY DEF Worker, StartCommand, Refuse, PrepareKey, SetbitRead, Getbit, CountRange, CountClamp,
       CountRead, PrepareSource, TakeTimes, TakeRest, CompareLength, TakeLongest,
        StartRounds, OpRead, OpCombine

\* The byte SETBIT goes on with is the one in the file.
LEMMA ReadIsByte ==
  ASSUME TypeInv, Covers, NEW w \in Workers, SetbitRead(w), job'[w].pc = "write"
  PROVE  /\ job'[w].req = job[w].req
         /\ job'[w].byteval = ByteAt(data[job[w].req.key], job[w].req.byte)
<1> DEFINE q == job[w].req
           c == read_from(q.key, 1, q.byte)
<1>1. OnKey(job[w], "SETBIT")
  BY DEF TypeInv, JobsOK, JobOK, SetbitRead
<1>2. /\ q.key \in Open /\ q.byte \in Nat /\ data[q.key] \in Seq(Byte)
      /\ length[q.key] \in Nat
  BY <1>1, OnKeyFacts, RequestKinds DEF OnKey, SetbitRequest
<1>3. job'[w] # Idle
  BY DEF Idle
<1>4. CASE c # <<>> /\ job'[w].byteval = c[1]
  <2>1. 1 \in Int
    OBVIOUS
  <2>2. c[1] = ByteAt(data[q.key], q.byte)
    BY <1>2, <1>4, <2>1, WasRead DEF read_from
  <2> QED BY <1>3, <1>4, <2>2, SetbitReadMoves
<1>5. CASE q.byte >= length[q.key] /\ job'[w].byteval = {}
  <2>1. Len(data[q.key]) <= length[q.key] /\ Len(data[q.key]) \in Nat
    BY <1>2 DEF Covers
  <2>2. ByteAt(data[q.key], q.byte) = {}
    <3> HIDE DEF q
    <3> QED BY <1>2, <1>5, <2>1 DEF ByteAt
  <2> QED BY <1>3, <1>5, <2>2, SetbitReadMoves
<1> QED BY <1>3, <1>4, <1>5, SetbitReadMoves

\* A step that is not SETBIT's write.
LEMMA OthersKeepAcked ==
  ASSUME AckedInv, NEW w \in Workers, Worker(w), ~SetbitWrite(w)
  PROVE  AckedInv'
<1>1. TypeInv' /\ Covers'
  BY WorkerTypes, WorkerCovers DEF AckedInv
<1>2. acked' \subseteq acked
  BY AckedStays
<1>3. ASSUME NEW v \in Workers, job'[v].req # NULL, NEW b \in acked'
      PROVE  ~MayClear(job'[v].req, b)
  <2>1. CASE job'[v].req = job[v].req
    BY <1>2, <1>3, <2>1 DEF AckedInv, NobodyClears
  <2>2. ASSUME NEW q \in Requests, StartCommand(w, q), v = w
        PROVE  ~MayClear(job'[v].req, b)
    <3>1. job'[v].req = q
      BY <2>2 DEF StartCommand, AckedInv, TypeInv, JobsOK, JobType
    <3> QED BY <2>2, <3>1 DEF StartCommand
  <2>3. Idle.req = NULL
    BY DEF Idle
  <2> QED BY <1>3, <2>1, <2>2, <2>3, JobChanges, SetbitReadMoves DEF AckedInv, GoesOn
<1>4. ASSUME NEW v \in Workers, job'[v].pc = "write"
      PROVE  job'[v] = job[v] \/ (v = w /\ SetbitRead(w))
  <2>1. Idle.pc # "write"
    BY DEF Idle
  <2>2. ASSUME NEW q \in Requests, StartCommand(w, q), v = w
        PROVE  FALSE
    BY <1>4, <2>2 DEF StartCommand, AckedInv, TypeInv, JobsOK, JobType
  <2> QED BY <1>4, <2>1, <2>2, JobChanges DEF AckedInv, GoesOn
<1>5. ASSUME ~raced'
      PROVE  AcknowledgedBitsStay' /\ OneWriter' /\ ReadAcked'
  <2>1. ~raced
    BY <1>5 DEF Worker, StartCommand, Refuse, PrepareKey, SetbitRead, Getbit, CountRange,
                CountClamp, CountRead, PrepareSource, TakeTimes, TakeRest, CompareLength, TakeLongest,
        StartRounds, OpRead, OpCombine,
                AckedInv, TypeInv, HistoryOK
  <2>2. AcknowledgedBitsStay'
    BY <1>2, <2>1, DataStays DEF AckedInv, AcknowledgedBitsStay
  <2>3. ASSUME SetbitRead(w), NEW v \in Workers \ {w}, job[v].pc = "write"
        PROVE  <<job[v].req.key, job[v].req.byte>> # <<job[w].req.key, job[w].req.byte>>
    BY <1>5, <2>3 DEF SetbitRead
  <2>4. SetbitRead(w) /\ job'[w].pc = "write" => job'[w].req = job[w].req
    BY ReadIsByte DEF AckedInv
  <2>5. OneWriter'
    <3> SUFFICES ASSUME NEW u \in Workers, NEW v \in Workers, u # v,
                        job'[u].pc = "write", job'[v].pc = "write"
                 PROVE  <<job'[u].req.key, job'[u].req.byte>>
                          # <<job'[v].req.key, job'[v].req.byte>>
      BY DEF OneWriter
    <3>1. CASE job'[u] = job[u] /\ job'[v] = job[v]
      BY <2>1, <3>1 DEF AckedInv, OneWriter
    <3>2. CASE u = w /\ SetbitRead(w) /\ job'[v] = job[v]
      BY <2>3, <2>4, <3>2
    <3>3. CASE v = w /\ SetbitRead(w) /\ job'[u] = job[u]
      BY <2>3, <2>4, <3>3
    <3> QED BY <1>4, <3>1, <3>2, <3>3
  <2>6. ReadAcked'
    <3> SUFFICES ASSUME NEW v \in Workers, job'[v].pc = "write", NEW b \in acked',
                        b[1] = job'[v].req.key, b[2] = job'[v].req.byte
                 PROVE  b[3] \in job'[v].byteval
      BY DEF ReadAcked
    <3>1. CASE job'[v] = job[v]
      BY <1>2, <2>1, <3>1 DEF AckedInv, ReadAcked
    <3>2. CASE v = w /\ SetbitRead(w)
      <4>1. b[3] \in ByteAt(data[b[1]], b[2])
        BY <1>2, <2>1 DEF AckedInv, AcknowledgedBitsStay
      <4> QED BY <3>2, <4>1, ReadIsByte DEF AckedInv
    <3> QED BY <1>4, <3>1, <3>2
  <2> QED BY <2>2, <2>5, <2>6
<1> QED BY <1>1, <1>3, <1>5 DEF AckedInv, NobodyClears

\* SETBIT about to write, and its byte.
LEMMA WriterFacts ==
  ASSUME TypeInv, NEW w \in Workers, SetbitWrite(w)
  PROVE  LET q == job[w].req
         IN  /\ job[w].pc = "write" /\ q \in Requests /\ q # NULL /\ q.op = "SETBIT"
             /\ q.key \in Open /\ q.key \in Keys /\ data[q.key] \in Seq(Byte)
             /\ q.byte \in Nat /\ q.bit \in Bit /\ q.value \in {0, 1}
             /\ job[w].byteval \in Byte
<1>1. JobOK(job[w]) /\ OnKey(job[w], "SETBIT") /\ job[w].pc = "write"
  BY DEF TypeInv, JobsOK, JobOK, SetbitWrite
<1> QED BY <1>1, OnKeyFacts, ReqFacts, RequestKinds DEF OnKey, SetbitRequest, JobOK, JobType

\* Its write changes that byte alone.
LEMMA SetbitWrites ==
  ASSUME TypeInv, NEW w \in Workers, SetbitWrite(w), NEW k \in Keys, NEW i \in Nat
  PROVE  ByteAt(data'[k], i) =
           IF k = job[w].req.key /\ i = job[w].req.byte
             THEN NewByte(job[w].req, job[w].byteval) ELSE ByteAt(data[k], i)
<1> DEFINE q == job[w].req
           byteval == job[w].byteval
<1> SUFFICES ASSUME NEW buf, buf = <<NewByte(q, byteval)>>
             PROVE  ByteAt(data'[k], i) = IF k = q.key /\ i = q.byte THEN NewByte(q, byteval)
                                          ELSE ByteAt(data[k], i)
  OBVIOUS
<1>0. /\ q.key \in Open /\ q.key \in Keys /\ data[q.key] \in Seq(Byte)
      /\ q.byte \in Nat /\ q.bit \in Bit /\ byteval \in Byte
  BY WriterFacts
<1>1. NewByte(q, byteval) \in Byte
  BY <1>0 DEF NewByte, Byte
<1>2. buf \in Seq(Byte) /\ Len(buf) = 1 /\ buf[1] = NewByte(q, byteval)
  BY <1>1
<1>3. write_to(q.key, buf, q.byte)
  BY DEF SetbitWrite
<1>4. CASE k # q.key
  BY <1>0, <1>2, <1>3, <1>4, WrittenStore DEF TypeInv
<1>5. CASE k = q.key
  <2>1. data'[k] = WriteAt(data[k], q.byte, buf)
    BY <1>0, <1>2, <1>3, <1>5, WrittenStore DEF TypeInv
  <2>2. ByteAt(data'[k], i) = IF q.byte <= i /\ i < q.byte + Len(buf)
                              THEN buf[i - q.byte + 1] ELSE ByteAt(data[k], i)
    <3>1. data[k] \in Seq(Byte) /\ q.byte \in Nat
      BY <1>0, <1>5
    <3>2. \A n \in Nat : ByteAt(WriteAt(data[k], q.byte, buf), n) =
            IF q.byte <= n /\ n < q.byte + Len(buf)
            THEN buf[n - q.byte + 1] ELSE ByteAt(data[k], n)
      BY <1>2, <3>1, Written
    <3> QED BY <2>1, <3>2
  <2>3. CASE i = q.byte
    <3>1. i - q.byte + 1 = 1 /\ q.byte <= i /\ i < q.byte + 1
      BY <1>0, <2>3
    <3> QED BY <1>2, <1>5, <2>2, <2>3, <3>1
  <2>4. CASE i # q.byte
    <3>1. ~(q.byte <= i /\ i < q.byte + 1)
      BY <1>0, <2>4
    <3> QED BY <1>2, <1>5, <2>2, <2>4, <3>1
  <2> QED BY <2>3, <2>4
<1> QED BY <1>4, <1>5

\* SETBIT's write: the other bytes stay, the other bits of its byte are those it
\* has read.
LEMMA WriteKeepsAcked ==
  ASSUME AckedInv, NEW w \in Workers, SetbitWrite(w)
  PROVE  AckedInv'
<1> DEFINE q == job[w].req
           new == <<q.key, q.byte, q.bit>>
           byteval == job[w].byteval
<1>1. Worker(w)
  BY DEF Worker
<1>2. TypeInv' /\ Covers'
  BY <1>1, WorkerTypes, WorkerCovers DEF AckedInv
<1>3. /\ job[w].pc = "write" /\ q \in Requests /\ q # NULL /\ q.op = "SETBIT"
      /\ q.key \in Open /\ q.key \in Keys /\ data[q.key] \in Seq(Byte)
      /\ q.byte \in Nat /\ q.bit \in Bit /\ q.value \in {0, 1} /\ byteval \in Byte
  BY WriterFacts DEF AckedInv
<1>4. job' = [job EXCEPT ![w] = Idle] /\ raced' = raced
  BY DEF SetbitWrite, Reply
<1>5. \A v \in Workers : job'[v] = IF v = w THEN Idle ELSE job[v]
  BY <1>4 DEF AckedInv, TypeInv, JobsOK
<1>6. Idle.req = NULL /\ Idle.pc = "idle"
  BY DEF Idle
<1>7. acked' \subseteq acked \cup {new}
  BY DEF SetbitWrite
<1>8. new \in acked' /\ new \notin acked =>
        q.value = 1 /\ \A v \in Workers \ {w} : job[v].req # NULL => ~MayClear(job[v].req, new)
  BY DEF SetbitWrite
<1>9. NobodyClears'
  BY <1>5, <1>6, <1>7, <1>8 DEF AckedInv, NobodyClears
<1>10. \A k \in Keys, i \in Nat :
         ByteAt(data'[k], i) = IF k = q.key /\ i = q.byte THEN NewByte(q, byteval)
                               ELSE ByteAt(data[k], i)
  BY SetbitWrites DEF AckedInv
<1>11. ASSUME ~raced
       PROVE  AcknowledgedBitsStay' /\ OneWriter' /\ ReadAcked'
  <2>1. ASSUME NEW b \in acked'
        PROVE  b[3] \in ByteAt(data'[b[1]], b[2])
    <3>1. b[1] \in Keys /\ b[2] \in Nat /\ b = <<b[1], b[2], b[3]>>
      BY <1>2, AckedFacts DEF TypeInv, HistoryOK
    <3>2. CASE b = new /\ b \notin acked
      BY <1>8, <1>10, <3>1, <3>2 DEF NewByte
    <3>3. CASE b \in acked /\ ~(b[1] = q.key /\ b[2] = q.byte)
      <4>1. b[3] \in ByteAt(data[b[1]], b[2])
        BY <1>11, <3>3 DEF AckedInv, AcknowledgedBitsStay
      <4> QED BY <1>10, <3>1, <3>3, <4>1
    <3>4. CASE b \in acked /\ b[1] = q.key /\ b[2] = q.byte
      <4>1. b[3] \in byteval
        BY <1>3, <1>11, <3>4 DEF AckedInv, ReadAcked
      <4>2. ~MayClear(q, b)
        BY <1>3, <3>4 DEF AckedInv, NobodyClears
      <4>3. q.value = 0 => b[3] # q.bit
        BY <1>3, <3>1, <3>4, <4>2 DEF MayClear
      <4>4. b[3] \in NewByte(q, byteval)
        BY <1>3, <4>1, <4>3 DEF NewByte
      <4> QED BY <1>10, <3>1, <3>4, <4>4
    <3> QED BY <1>7, <3>2, <3>3, <3>4
  <2>2. OneWriter'
    BY <1>5, <1>6, <1>11 DEF AckedInv, OneWriter
  <2>3. ReadAcked'
    <3> SUFFICES ASSUME NEW v \in Workers, job'[v].pc = "write", NEW b \in acked',
                        b[1] = job'[v].req.key, b[2] = job'[v].req.byte
                 PROVE  b[3] \in job'[v].byteval
      BY DEF ReadAcked
    <3>1. v # w /\ job'[v] = job[v]
      BY <1>5, <1>6
    <3>2. ~(b[1] = q.key /\ b[2] = q.byte)
      BY <1>3, <1>11, <3>1 DEF AckedInv, OneWriter
    <3>3. b \in acked
      BY <1>7, <3>2
    <3> QED BY <1>11, <3>1, <3>3 DEF AckedInv, ReadAcked
  <2> QED BY <2>1, <2>2, <2>3 DEF AcknowledgedBitsStay
<1> QED BY <1>2, <1>4, <1>9, <1>11 DEF AckedInv

\* A step of any worker: the writer of a bit, or another.
LEMMA WorkerAcked ==
  ASSUME AckedInv, NEW w \in Workers, Worker(w)
  PROVE  AckedInv'
BY OthersKeepAcked, WriteKeepsAcked

\* An eviction changes no bit.
LEMMA EvictAcked ==
  ASSUME AckedInv, NEW k \in Keys, Evict(k)
  PROVE  AckedInv'
<1>1. TypeInv' /\ Covers'
  BY EvictTypes, EvictCovers DEF AckedInv
<1>2. UNCHANGED <<data, job, acked, raced>>
  BY DEF Evict
<1> QED BY <1>1, <1>2
    DEF AckedInv, NobodyClears, AcknowledgedBitsStay, OneWriter, ReadAcked

\* A stuttering step.
LEMMA StutterAcked ==
  ASSUME AckedInv, UNCHANGED vars
  PROVE  AckedInv'
<1>1. TypeInv' /\ Covers'
  BY StutterTypes DEF AckedInv, Covers, Open, vars
<1>2. UNCHANGED <<data, job, acked, raced>>
  BY DEF vars
<1> QED BY <1>1, <1>2
    DEF AckedInv, NobodyClears, AcknowledgedBitsStay, OneWriter, ReadAcked

\* At the start nothing is acknowledged.
LEMMA InitAcked ==
  ASSUME Init
  PROVE  AckedInv
<1>1. TypeInv
  BY InitTypeInv
<1>2. Covers /\ NobodyClears /\ AcknowledgedBitsStay /\ OneWriter /\ ReadAcked
  BY DEF Init, Covers, Open, NobodyClears, AcknowledgedBitsStay, OneWriter, ReadAcked, Idle
<1> QED BY <1>1, <1>2 DEF AckedInv

\* As long as no two SETBITs of one byte overlap, no bit that a SETBIT has
\* reported set is lost: not to a SETBIT of another bit of its byte, nor to a
\* BITOP, an eviction, or a file that is extended.
THEOREM AcknowledgedCorrect == Spec => []IntactAcknowledged
<1>1. Init => AckedInv
  BY InitAcked
<1>2. AckedInv /\ [Next]_vars => AckedInv'
  BY WorkerAcked, EvictAcked, StutterAcked DEF Next
<1>3. AckedInv => IntactAcknowledged
  BY DEF AckedInv, IntactAcknowledged
<1> QED BY <1>1, <1>2, <1>3, PTL DEF Spec
=============================================================================
