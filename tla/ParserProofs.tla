---------------------------- MODULE ParserProofs ----------------------------
(***************************************************************************)
(* Theorems about Parser, for lines of every length.                       *)
(*                                                                         *)
(* First the tokenizer: its loops end (SkipWhileStops), its cursor is well *)
(* defined (CursorsExist) and passes one word at each step (StepCounts),   *)
(* and the spaces it counts correspond one to one to the ends of the words *)
(* (CountIsNumberOfWords).  Then, with the count known to be the number of *)
(* words, what is true at each point of parse_and_execute.                 *)
(***************************************************************************)
EXTENDS Parser, LeastNumber

-----------------------------------------------------------------------------
(* The loops over a line.                                                  *)

LineOK == line \in Seq(BOOLEAN)

\* A loop over spaces, or over the others, stops at the first of the other kind.
LEMMA SkipWhileStops ==
  ASSUME LineOK, NEW space \in BOOLEAN, NEW pos \in Position
  PROVE  /\ SkipWhile(space, pos) \in pos .. Len(line)
         /\ \A i \in pos .. SkipWhile(space, pos) - 1 : At(i) = space
         /\ SkipWhile(space, pos) = Len(line) \/ At(SkipWhile(space, pos)) # space
<1> DEFINE T == {n \in Nat : pos <= n /\ n <= Len(line) /\ (n = Len(line) \/ At(n) # space)}
<1>1. Len(line) \in Nat /\ pos \in Nat /\ pos <= Len(line)
  BY DEF LineOK, Position
<1>2. T # {} /\ T \in SUBSET Nat
  BY <1>1
<1>3. PICK end \in T : \A m \in T : end <= m
  <2> HIDE DEF T
  <2> QED BY <1>2, LeastNat
<1>4. \A i \in pos .. end - 1 : At(i) = space
  BY <1>1, <1>3
<1>5. end \in pos .. Len(line) /\ (end = Len(line) \/ At(end) # space)
  BY <1>1, <1>3
<1> QED BY <1>4, <1>5 DEF SkipWhile

-----------------------------------------------------------------------------
(* The cursor of split_fill.                                               *)

NextCursor(g, i) ==
  IF i = 0 THEN SkipWord(SkipSpaces(0)) ELSE SkipWord(SkipSpaces(g[i - 1]))

\* The recursive definition of the cursor is satisfied by some function.
LEMMA CursorsExist ==
  ASSUME NEW n \in Nat
  PROVE  \E g : g = [i \in 0 .. n - 1 |-> NextCursor(g, i)]
<1> DEFINE T == {m \in Nat : ~ \E g : g = [i \in 0 .. m - 1 |-> NextCursor(g, i)]}
<1> SUFFICES ASSUME T # {} PROVE FALSE
  OBVIOUS
<1>1. PICK m \in T : \A k \in T : m <= k
  <2>1. T \in SUBSET Nat
    OBVIOUS
  <2> HIDE DEF T
  <2> QED BY <2>1, LeastNat
<1>2. m \in Nat
  OBVIOUS
<1>3. CASE m = 0
  <2> DEFINE g == [i \in 0 .. m - 1 |-> 0]
  <2>1. g = [i \in 0 .. m - 1 |-> NextCursor(g, i)]
    <3>1. 0 .. m - 1 = {}
      BY <1>3
    <3> QED BY <3>1
  <2> HIDE DEF g
  <2> QED BY <2>1
<1>4. CASE m > 0
  <2>1. m - 1 \in Nat /\ m - 1 \notin T
    BY <1>1, <1>2, <1>4
  <2>2. PICK g : g = [i \in 0 .. (m - 1) - 1 |-> NextCursor(g, i)]
    BY <2>1
  <2> DEFINE h == [i \in 0 .. m - 1 |-> NextCursor(g, i)]
  <2>3. \A i \in 0 .. m - 1 : NextCursor(g, i) = NextCursor(h, i)
    <3> SUFFICES ASSUME NEW i \in 0 .. m - 1 PROVE NextCursor(g, i) = NextCursor(h, i)
      OBVIOUS
    <3>1. CASE i = 0
      BY <3>1 DEF NextCursor
    <3>2. CASE i > 0
      <4>1. i - 1 \in 0 .. (m - 1) - 1 /\ i - 1 \in 0 .. m - 1
        BY <1>2, <3>2
      <4>2. g[i - 1] = NextCursor(g, i - 1)
        BY <2>2, <4>1
      <4>3. h[i - 1] = NextCursor(g, i - 1)
        BY <4>1
      <4> HIDE DEF h
      <4> QED BY <3>2, <4>2, <4>3 DEF NextCursor
    <3> QED BY <1>2, <3>1, <3>2
  <2>4. h = [i \in 0 .. m - 1 |-> NextCursor(h, i)]
    BY <2>3
  <2> HIDE DEF h
  <2> QED BY <2>4
<1> QED BY <1>2, <1>3, <1>4

\* So the cursor moves as split_fill moves it.
LEMMA CursorsRecursion ==
  ASSUME NEW n \in Nat, NEW i \in 0 .. n - 1
  PROVE  Cursors(n)[i] = NextCursor(Cursors(n), i)
<1>1. PICK g : g = [j \in 0 .. n - 1 |-> NextCursor(g, j)]
  BY CursorsExist
<1>2. Cursors(n) = [j \in 0 .. n - 1 |-> NextCursor(Cursors(n), j)]
  BY <1>1 DEF Cursors, NextCursor
<1> QED BY <1>2

-----------------------------------------------------------------------------
(* One step of the cursor passes one word.                                 *)

Before(pos) == {w \in Words : w[1] < pos}

\* From a word's end the cursor goes to the next word and to that one's end.
LEMMA StepPassesAWord ==
  ASSUME LineOK, NEW pos \in Position, pos = 0 \/ pos = Len(line) \/ At(pos),
         NEW w \in Words, w \notin Before(pos),
         NEW a, a = SkipSpaces(pos), NEW b, b = SkipWord(a)
  PROVE  /\ a \in Position /\ b \in Position
         /\ b = Len(line) \/ At(b)
         /\ <<a, b>> \in Words
         /\ Before(a) = Before(pos)
         /\ Before(b) = Before(a) \cup {<<a, b>>}
<1>1. Len(line) \in Nat /\ pos \in 0 .. Len(line)
  BY DEF LineOK, Position
<1>2. /\ a \in pos .. Len(line)
      /\ \A i \in pos .. a - 1 : At(i) = TRUE
      /\ a = Len(line) \/ At(a) # TRUE
  BY SkipWhileStops DEF SkipSpaces
<1>3. a \in Position
  BY <1>1, <1>2 DEF Position
<1>4. /\ b \in a .. Len(line)
      /\ \A i \in a .. b - 1 : At(i) = FALSE
      /\ b = Len(line) \/ At(b) # FALSE
  BY <1>3, SkipWhileStops DEF SkipWord
<1>5. \A i \in 0 .. Len(line) - 1 : At(i) = TRUE \/ At(i) = FALSE
  <2>1. \A i \in 0 .. Len(line) - 1 : i + 1 \in 1 .. Len(line)
    BY <1>1
  <2>2. \A j \in 1 .. Len(line) : line[j] \in BOOLEAN
    BY DEF LineOK
  <2> QED BY <2>1, <2>2 DEF At
<1>6. \A v \in Words : /\ v[1] \in 0 .. Len(line) /\ v[2] \in 0 .. Len(line) /\ v = <<v[1], v[2]>>
                       /\ v[1] < v[2]
                       /\ \A i \in v[1] .. v[2] - 1 : ~At(i)
                       /\ v[1] = 0 \/ At(v[1] - 1)
                       /\ v[2] = Len(line) \/ At(v[2])
  BY <1>1 DEF Words, IsWord, Position
<1>7. \A v \in Words : v[1] \in 0 .. Len(line) - 1 /\ ~At(v[1])
  BY <1>1, <1>6
<1>8. w[1] >= a
  BY <1>1, <1>2, <1>7 DEF Before
<1>9. a \in 0 .. Len(line) - 1 /\ At(a) = FALSE
  <2>1. a \in 0 .. Len(line) - 1
    BY <1>1, <1>2, <1>7, <1>8
  <2>2. a # Len(line)
    BY <1>1, <2>1
  <2>3. At(a) # TRUE
    BY <1>2, <2>2, Zenon
  <2> QED BY <1>5, <2>1, <2>3, Zenon
<1>10. a < b
  <2>1. a # Len(line)
    BY <1>1, <1>9
  <2>2. a # b
    BY <1>4, <1>9, <2>1, Zenon
  <2> QED BY <1>1, <1>2, <1>4, <2>2
<1>11. b = Len(line) \/ At(b)
  <2>1. b \in 0 .. Len(line)
    BY <1>1, <1>2, <1>4
  <2>2. CASE b # Len(line)
    <3>1. b \in 0 .. Len(line) - 1
      BY <1>1, <2>1, <2>2
    <3>2. At(b) # FALSE
      BY <1>4, <2>2, Zenon
    <3> QED BY <1>5, <3>1, <3>2, Zenon
  <2> QED BY <2>2
<1>12. b \in Position
  BY <1>1, <1>2, <1>4 DEF Position
<1>13. IsWord(a, b)
  <2>1. a = 0 \/ At(a - 1)
    BY <1>1, <1>2, <1>9
  <2> QED BY <1>4, <1>10, <1>11, <2>1 DEF IsWord
<1>14. <<a, b>> \in Words
  BY <1>3, <1>12, <1>13 DEF Words
<1>15. Before(a) = Before(pos)
  BY <1>1, <1>2, <1>7 DEF Before
<1>16. Before(b) = Before(a) \cup {<<a, b>>}
  <2> SUFFICES ASSUME NEW v \in Words, v[1] < b, ~(v[1] < a) PROVE v = <<a, b>>
    BY <1>1, <1>2, <1>4, <1>10, <1>14, <1>6 DEF Before
  <2>1. v[1] = a
    <3>1. /\ v[1] \in 0 .. Len(line) /\ \A i \in v[1] .. v[2] - 1 : ~At(i)
          /\ v[1] = 0 \/ At(v[1] - 1)
      BY <1>6
    <3>2. a \in Nat /\ b \in Nat /\ v[1] \in a .. b - 1
      BY <1>1, <1>2, <1>4, <3>1
    <3> SUFFICES ASSUME v[1] # a PROVE FALSE
      OBVIOUS
    <3>3. v[1] - 1 \in a .. b - 1 /\ v[1] # 0
      BY <3>2
    <3>4. At(v[1] - 1) = FALSE
      BY <1>4, <3>3
    <3> QED BY <3>1, <3>3, <3>4
  <2>2. /\ v[2] \in 0 .. Len(line) /\ a < v[2] /\ \A i \in a .. v[2] - 1 : ~At(i)
        /\ v[2] = Len(line) \/ At(v[2])
    BY <1>6, <2>1
  <2>3. a \in Nat /\ b \in 0 .. Len(line)
    BY <1>1, <1>2, <1>4
  <2>4. ~(v[2] < b)
    <3> SUFFICES ASSUME v[2] < b PROVE FALSE
      OBVIOUS
    <3>1. v[2] \in a .. b - 1 /\ v[2] # Len(line)
      BY <1>1, <2>2, <2>3
    <3>2. At(v[2]) = FALSE
      BY <1>4, <3>1
    <3> QED BY <2>2, <3>1, <3>2
  <2>5. ~(b < v[2])
    <3> SUFFICES ASSUME b < v[2] PROVE FALSE
      OBVIOUS
    <3>1. b \in a .. v[2] - 1 /\ b # Len(line)
      BY <1>1, <1>10, <2>2, <2>3
    <3>2. ~At(b)
      BY <2>2, <3>1
    <3> QED BY <1>11, <3>1, <3>2
  <2>6. v[2] = b
    BY <1>1, <2>2, <2>3, <2>4, <2>5
  <2>7. v = <<v[1], v[2]>>
    BY <1>6
  <2> QED BY <2>1, <2>6, <2>7
<1> QED BY <1>3, <1>11, <1>12, <1>14, <1>15, <1>16
-----------------------------------------------------------------------------
(* The spaces counted are the ends of the words.                           *)

Ends == SpacesBehindWord \cup IF Len(line) > BehindLastSpace THEN {Len(line)} ELSE {}

\* get_arg_count's l is the position behind the last space.
LEMMA LastSpace ==
  ASSUME LineOK
  PROVE  /\ BehindLastSpace \in Position
         /\ BehindLastSpace = 0 \/ At(BehindLastSpace - 1)
         /\ \A i \in Position : BehindLastSpace <= i /\ i < Len(line) => ~At(i)
<1> DEFINE T == {l \in Nat : l <= Len(line) /\ \A i \in Position : l <= i /\ i < Len(line) => ~At(i)}
<1>1. Len(line) \in Nat /\ \A i \in Position : i \in Nat /\ i <= Len(line)
  BY DEF LineOK, Position
<1>2. T # {} /\ T \in SUBSET Nat
  BY <1>1
<1>3. PICK l \in T : \A m \in T : l <= m
  <2> HIDE DEF T
  <2> QED BY <1>2, LeastNat
<1>4. l \in Position
  BY <1>1 DEF Position
<1>5. l = 0 \/ At(l - 1)
  <2> SUFFICES ASSUME l # 0, ~At(l - 1) PROVE l - 1 \in T
    BY <1>1, <1>3
  <2>1. \A i \in Position : l - 1 <= i /\ i < Len(line) => i = l - 1 \/ l <= i
    BY <1>1
  <2>2. \A i \in Position : l - 1 <= i /\ i < Len(line) => ~At(i)
    BY <2>1
  <2> QED BY <1>1, <2>2
<1>6. \A i \in Position : l <= i /\ i < Len(line) => ~At(i)
  OBVIOUS
<1> QED BY <1>4, <1>5, <1>6 DEF BehindLastSpace

\* A character that is not a space belongs to a word, which begins at it or before.
LEMMA WordStarts ==
  ASSUME LineOK, NEW e \in Position, e > 0, ~At(e - 1), e = Len(line) \/ At(e)
  PROVE  \E w \in Words : w[2] = e
<1> DEFINE T == {a \in Nat : a < e /\ \A i \in a .. e - 1 : ~At(i)}
<1>1. Len(line) \in Nat /\ e \in Nat /\ e <= Len(line)
  BY DEF LineOK, Position
<1>2. T # {} /\ T \in SUBSET Nat
  <2>1. \A i \in e - 1 .. e - 1 : i = e - 1
    BY <1>1
  <2>2. e - 1 \in T
    BY <1>1, <2>1
  <2> QED BY <2>2
<1>3. PICK a \in T : \A m \in T : a <= m
  <2> HIDE DEF T
  <2> QED BY <1>2, LeastNat
<1>4. a = 0 \/ At(a - 1)
  <2> SUFFICES ASSUME a # 0, ~At(a - 1) PROVE a - 1 \in T
    BY <1>1, <1>3
  <2>1. \A i \in a - 1 .. e - 1 : i = a - 1 \/ i \in a .. e - 1
    BY <1>1
  <2>2. \A i \in a - 1 .. e - 1 : ~At(i)
    BY <2>1
  <2> QED BY <1>1, <2>2
<1>5. IsWord(a, e)
  BY <1>4 DEF IsWord
<1>6. <<a, e>> \in Words
  BY <1>1, <1>5 DEF Words, Position
<1> QED BY <1>6

\* Every end counted is that of a word, and of one word only.
LEMMA WordsEnd ==
  ASSUME LineOK
  PROVE  /\ \A e \in Ends : \E w \in Words : w[2] = e
         /\ \A v \in Words : v[2] \in Ends
         /\ \A v, w \in Words : v[2] = w[2] => v = w
<1>1. Len(line) \in Nat /\ Position = 0 .. Len(line)
  BY DEF LineOK, Position
<1>2. \A v \in Words : /\ v[1] \in 0 .. Len(line) /\ v[2] \in 0 .. Len(line) /\ v = <<v[1], v[2]>>
                       /\ v[1] < v[2]
                       /\ \A i \in v[1] .. v[2] - 1 : ~At(i)
                       /\ v[1] = 0 \/ At(v[1] - 1)
                       /\ v[2] = Len(line) \/ At(v[2])
  BY <1>1 DEF Words, IsWord
<1>3. \A e \in Ends : \E w \in Words : w[2] = e
  <2> SUFFICES ASSUME NEW e \in Ends PROVE \E w \in Words : w[2] = e
    OBVIOUS
  <2>1. CASE e \in SpacesBehindWord
    <3>1. e \in Position /\ e > 0 /\ At(e) /\ ~At(e - 1)
      BY <1>1, <2>1 DEF SpacesBehindWord
    <3> QED BY <3>1, WordStarts
  <2>2. CASE e = Len(line) /\ Len(line) > BehindLastSpace
    <3>1. BehindLastSpace \in 0 .. Len(line)
      BY <1>1, LastSpace
    <3>2. e \in Position /\ e > 0 /\ e - 1 \in Position /\ BehindLastSpace <= e - 1 /\ e - 1 < Len(line)
      BY <1>1, <2>2, <3>1
    <3>3. ~At(e - 1)
      BY <3>2, LastSpace
    <3> QED BY <2>2, <3>2, <3>3, WordStarts
  <2> QED BY <2>1, <2>2 DEF Ends
<1>4. \A v \in Words : v[2] \in Ends
  <2> SUFFICES ASSUME NEW v \in Words PROVE v[2] \in Ends
    OBVIOUS
  <2>1. v[2] - 1 \in v[1] .. v[2] - 1 /\ v[2] - 1 \in Position /\ v[2] # 0
    BY <1>1, <1>2
  <2>2. ~At(v[2] - 1)
    BY <1>2, <2>1
  <2>3. CASE v[2] = Len(line)
    <3>1. BehindLastSpace \in 0 .. Len(line) /\ (BehindLastSpace = 0 \/ At(BehindLastSpace - 1))
      BY <1>1, LastSpace
    <3>2. BehindLastSpace # Len(line)
      BY <2>1, <2>2, <2>3, <3>1
    <3> QED BY <1>1, <2>3, <3>1, <3>2 DEF Ends
  <2>4. CASE v[2] # Len(line)
    <3>1. v[2] \in Position \ {0, Len(line)} /\ At(v[2])
      BY <1>1, <1>2, <2>1, <2>4
    <3> QED BY <2>2, <3>1 DEF Ends, SpacesBehindWord
  <2> QED BY <2>3, <2>4
<1>5. \A v, w \in Words : v[2] = w[2] => v = w
  <2> SUFFICES ASSUME NEW v \in Words, NEW w \in Words, v[2] = w[2], v[1] < w[1] PROVE FALSE
    BY <1>1, <1>2
  <2>1. w[1] # 0 /\ w[1] - 1 \in v[1] .. v[2] - 1
    BY <1>1, <1>2
  <2> QED BY <1>2, <2>1
<1> QED BY <1>3, <1>4, <1>5

\* get_arg_count returns the number of words.
LEMMA CountIsNumberOfWords ==
  ASSUME LineOK
  PROVE  IsFiniteSet(Words) /\ get_arg_count = Cardinality(Words)
<1>1. Len(line) \in Nat /\ Position = 0 .. Len(line)
  BY DEF LineOK, Position
<1>2. IsFiniteSet(SpacesBehindWord) /\ Cardinality(SpacesBehindWord) \in Nat
  <2>1. IsFiniteSet(Position)
    BY <1>1, FS_Interval
  <2>2. SpacesBehindWord \in SUBSET Position
    BY DEF SpacesBehindWord
  <2> QED BY <2>1, <2>2, FS_Subset, FS_CardinalityType
<1>3. IsFiniteSet(Ends) /\ Cardinality(Ends) = get_arg_count
  <2>1. Len(line) \notin SpacesBehindWord
    BY DEF SpacesBehindWord
  <2>2. CASE Len(line) > BehindLastSpace
    <3>1. Ends = SpacesBehindWord \cup {Len(line)}
      BY <2>2 DEF Ends
    <3> QED BY <1>2, <2>1, <2>2, <3>1, FS_AddElement DEF get_arg_count
  <2>3. CASE ~(Len(line) > BehindLastSpace)
    <3>1. Ends = SpacesBehindWord
      BY <2>3 DEF Ends
    <3> QED BY <1>2, <2>3, <3>1 DEF get_arg_count
  <2> QED BY <2>2, <2>3
<1>4. ExistsBijection(Ends, Words)
  <2> DEFINE f == [e \in Ends |-> CHOOSE w \in Words : w[2] = e]
  <2>1. f \in [Ends -> Words] /\ \A e \in Ends : f[e][2] = e
    BY WordsEnd
  <2>2. \A v \in Words : v[2] \in Ends /\ f[v[2]] = v
    <3> HIDE DEF f
    <3> QED BY <2>1, WordsEnd
  <2> HIDE DEF f
  <2>3. IsInjective(f)
    BY <2>1 DEF IsInjective
  <2>4. f \in Surjection(Ends, Words)
    BY <2>1, <2>2 DEF Surjection
  <2> QED BY <2>1, <2>3, <2>4 DEF ExistsBijection, Bijection, Injection
<1> QED BY <1>3, <1>4, FS_Bijection
-----------------------------------------------------------------------------
(* The arguments are the words behind the command name.                    *)

AtWordEnd(pos) == pos \in Position /\ (pos = Len(line) \/ At(pos))

\* The step of the cursor, in numbers of words passed.
LEMMA StepCounts ==
  ASSUME LineOK, NEW pos, AtWordEnd(pos) \/ pos = 0,
         NEW k \in Nat, Cardinality(Before(pos)) = k, k < Cardinality(Words)
  PROVE  LET a == SkipSpaces(pos)
             b == SkipWord(a)
         IN  /\ <<a, b>> \in Words
             /\ AtWordEnd(b)
             /\ Cardinality(Before(a)) = k
             /\ Cardinality(Before(b)) = k + 1
<1> SUFFICES ASSUME NEW a, a = SkipSpaces(pos), NEW b, b = SkipWord(a)
             PROVE  /\ <<a, b>> \in Words
                    /\ AtWordEnd(b)
                    /\ Cardinality(Before(a)) = k
                    /\ Cardinality(Before(b)) = k + 1
  OBVIOUS
<1>1. pos \in Position /\ (pos = 0 \/ pos = Len(line) \/ At(pos))
  BY DEF AtWordEnd, Position, LineOK
<1>2. IsFiniteSet(Words) /\ Cardinality(Words) \in Nat
  BY CountIsNumberOfWords, FS_CardinalityType
<1>3. Before(pos) # Words
  BY <1>2
<1>4. PICK w \in Words : w \notin Before(pos)
  BY <1>3 DEF Before
<1>5. /\ b \in Position /\ (b = Len(line) \/ At(b))
      /\ <<a, b>> \in Words
      /\ Before(a) = Before(pos)
      /\ Before(b) = Before(a) \cup {<<a, b>>}
  BY <1>1, <1>4, StepPassesAWord
<1>6. <<a, b>> \notin Before(a)
  <2>1. a \in Int
    BY <1>5 DEF Words, Position
  <2> QED BY <2>1 DEF Before
<1>7. IsFiniteSet(Before(a))
  <2>1. Before(a) \in SUBSET Words
    BY DEF Before
  <2> QED BY <1>2, <2>1, FS_Subset
<1>8. Cardinality(Before(b)) = k + 1
  <2> DEFINE S == Before(a)
             x == <<a, b>>
  <2>1. IsFiniteSet(S) /\ x \notin S /\ Cardinality(S) = k
    BY <1>5, <1>6, <1>7
  <2>2. Before(b) = S \cup {x}
    BY <1>5
  <2> HIDE DEF S, x
  <2>3. Cardinality(S \cup {x}) = k + 1
    BY <2>1, FS_AddElement
  <2> QED BY <2>2, <2>3
<1> QED BY <1>5, <1>8 DEF AtWordEnd

\* After i arguments the cursor has passed i + 1 words.
LEMMA CursorsCount ==
  ASSUME LineOK, NEW i \in 0 .. Cardinality(Words) - 1
  PROVE  LET pos == Cursors(Cardinality(Words))[i]
         IN  AtWordEnd(pos) /\ Cardinality(Before(pos)) = i + 1
<1> DEFINE n == Cardinality(Words)
           c0 == Cursors(n)
           Good(j) == AtWordEnd(c0[j]) /\ Cardinality(Before(c0[j])) = j + 1
           T == {j \in Nat : j < n /\ ~Good(j)}
<1>1. n \in Nat
  BY CountIsNumberOfWords, FS_CardinalityType
<1> SUFFICES ASSUME T # {} PROVE FALSE
  BY <1>1
<1>2. PICK j \in T : \A m \in T : j <= m
  <2>1. T \in SUBSET Nat
    OBVIOUS
  <2> HIDE DEF T
  <2> QED BY <2>1, LeastNat
<1>3. j \in Nat /\ j < n /\ j \in 0 .. n - 1 /\ ~Good(j)
  BY <1>1
<1>4. c0[j] = NextCursor(c0, j)
  BY <1>1, <1>3, CursorsRecursion
<1>5. CASE j = 0
  <2>1. Cardinality(Before(0)) = 0
    <3>1. \A v \in Words : v[1] \in 0 .. Len(line)
      BY DEF Words, Position
    <3>2. Len(line) \in Nat
      BY DEF LineOK
    <3>3. Before(0) = {}
      BY <3>1, <3>2 DEF Before
    <3> QED BY <3>3, FS_EmptySet
  <2>2. c0[j] = SkipWord(SkipSpaces(0))
    BY <1>4, <1>5 DEF NextCursor
  <2> HIDE DEF c0
  <2>3. AtWordEnd(c0[j]) /\ Cardinality(Before(c0[j])) = 0 + 1
    BY <1>3, <1>5, <2>1, <2>2, StepCounts
  <2> QED BY <1>3, <1>5, <2>3
<1>6. CASE j > 0
  <2>1. j - 1 \in Nat /\ j - 1 < n /\ j - 1 \notin T
    BY <1>1, <1>2, <1>3, <1>6
  <2>2. Good(j - 1)
    BY <2>1
  <2>3. c0[j] = SkipWord(SkipSpaces(c0[j - 1]))
    BY <1>4, <1>6 DEF NextCursor
  <2> HIDE DEF c0
  <2>4. Cardinality(Before(c0[j - 1])) = j
    BY <1>3, <2>2
  <2>5. AtWordEnd(c0[j]) /\ Cardinality(Before(c0[j])) = j + 1
    BY <1>3, <2>2, <2>3, <2>4, StepCounts
  <2> QED BY <1>3, <2>5
<1> QED BY <1>3, <1>5, <1>6

\* What split_fill returns are the words behind the first, in order.
LEMMA ArgumentWords ==
  ASSUME LineOK
  PROVE  ArgumentsAreWords
<1> DEFINE n == Cardinality(Words)
<1>1. get_arg_count = n /\ n \in Nat
  BY CountIsNumberOfWords, FS_CardinalityType
<1>2. DOMAIN split_fill(n) = 1 .. n - 1
  BY DEF split_fill
<1>3. ASSUME NEW i \in 1 .. n - 1
      PROVE  /\ split_fill(n)[i] \in Words
             /\ Cardinality({w \in Words : w[1] < split_fill(n)[i][1]}) = i
  <2> DEFINE pos == Cursors(n)[i - 1]
             a == SkipSpaces(pos)
             b == SkipWord(a)
  <2>1. i - 1 \in 0 .. n - 1 /\ i \in 0 .. n - 1 /\ i \in Nat /\ i < n /\ i # 0
    BY <1>1
  <2>2. AtWordEnd(pos) /\ Cardinality(Before(pos)) = i
    BY <1>1, <2>1, CursorsCount
  <2>3. Cursors(n)[i] = b
    BY <1>1, <2>1, CursorsRecursion DEF NextCursor
  <2>4. split_fill(n)[i] = <<a, b>>
    BY <2>3 DEF split_fill
  <2> HIDE DEF pos
  <2>5. <<a, b>> \in Words /\ Cardinality(Before(a)) = i
    BY <2>1, <2>2, StepCounts
  <2> HIDE DEF a, b
  <2> QED BY <2>4, <2>5 DEF Before
<1> QED BY <1>1, <1>2, <1>3 DEF ArgumentsAreWords
-----------------------------------------------------------------------------
(* What is true at each point of parse_and_execute.                        *)

Commands == {"SETBIT", "GETBIT", "BITOP", "BITCOUNT"}
Accepted == name \in Commands /\ ~CountWrong /\ ~Faulty
Idle     == arrays = 0 /\ desc = {} /\ ~touched

AtReceiving == name = "unknown" /\ Idle
AtCount     == Idle
AtCheck     == /\ name \in Commands /\ ~CountWrong
               /\ arrays = 1 /\ desc = {} /\ ~touched
AtKey       == /\ Accepted /\ ~UsesHook /\ desc = {} /\ ~touched
               /\ arrays = IF name \in {"BITOP", "BITCOUNT"} THEN 1 ELSE 0
AtRange     == Accepted /\ name = "BITCOUNT" /\ arrays = 1 /\ desc \subseteq {0} /\ touched
AtSources   == Accepted /\ name = "BITOP" /\ arrays = 1 /\ desc \subseteq {0}
AtRun       == Accepted /\ arrays = 0 /\ desc \subseteq Desc /\ touched
AtReturned  == /\ arrays = 0 /\ desc = {}
               /\ replies = IF Unanswered THEN 0 ELSE 1
               /\ touched <=> WellFormed

Places ==
  /\ pc = "receiving" => AtReceiving
  /\ pc = "count" => AtCount
  /\ pc = "check" => AtCheck
  /\ pc = "key" => AtKey
  /\ pc = "range" => AtRange
  /\ pc = "sources" => AtSources
  /\ pc = "run" => AtRun
  /\ pc = "returned" => AtReturned

ParserTypes ==
  /\ LineOK
  /\ name \in Names \cup {"unknown"} /\ said \in Saying /\ touched \in BOOLEAN
  /\ pc \in {"receiving", "count", "check", "key", "range", "sources", "run", "returned"}

\* What the code indexes with is the number of words of the line.
Counted ==
  /\ pc \notin {"receiving", "returned"} => c = NumberOfWords /\ replies = 0
  /\ pc = "receiving" => replies = 0
  /\ pc \in {"check", "key", "range", "sources"} => DOMAIN args = 1 .. c - 1

ParserInv == ParserTypes /\ Counted /\ Places

\* The words depend on the line alone.
LEMMA SameWords ==
  ASSUME line' = line
  PROVE  NumberOfWords' = NumberOfWords
BY DEF NumberOfWords, Words, IsWord, Position, At

\* The code's count is the number of words.
LEMMA NumberIsNat ==
  ASSUME LineOK
  PROVE  NumberOfWords \in Nat /\ get_arg_count = NumberOfWords
BY CountIsNumberOfWords, FS_CardinalityType DEF NumberOfWords

\* The checks of the code, taken together, are the grammar.
LEMMA ChecksAreGrammar ==
  ASSUME ParserTypes, c = NumberOfWords, name \in Commands
  PROVE  WellFormed <=> ~CountWrong /\ ~Faulty
<1>1. c \in Nat /\ BITOP_MAXIMUM \in Nat
  BY NumberIsNat, ParserAssumption DEF ParserTypes
<1>2. /\ said.offset \in {"in", "out"} /\ said.value \in {"bit", "other"}
      /\ said.key \in {"fits", "long"} /\ said.option \in {"binary", "NOT", "unknown"}
      /\ said.dest \in {"key", "hook", "unknown"}
  BY DEF ParserTypes, Saying
<1>3. CASE name = "SETBIT"
  BY <1>1, <1>2, <1>3 DEF WellFormed, CountWrong, Faulty, UsesHook
<1>4. CASE name = "GETBIT"
  BY <1>1, <1>2, <1>4 DEF WellFormed, CountWrong, Faulty, UsesHook
<1>5. CASE name = "BITCOUNT"
  BY <1>1, <1>2, <1>5 DEF WellFormed, CountWrong, Faulty, UsesHook
<1>6. CASE name = "BITOP"
  <2>1. CountWrong <=> (c < 4 \/ c > BITOP_MAXIMUM)
    BY <1>6 DEF CountWrong
  <2>2. Faulty <=> \/ said.option = "unknown" \/ said.dest = "unknown"
                   \/ said.option = "NOT" /\ c # 4
                   \/ said.dest # "hook" /\ said.key = "long"
    BY <1>6 DEF Faulty, UsesHook
  <2>3. WellFormed <=> (Binary \/ Negation) /\ Storable
    BY <1>6 DEF WellFormed
  <2>4. Binary \/ Negation <=> ~CountWrong /\ said.option # "unknown" /\ (said.option = "NOT" => c = 4)
    BY <1>1, <1>2, <2>1, ParserAssumption DEF Binary, Negation
  <2>5. Storable <=> said.dest # "unknown" /\ (said.dest = "hook" \/ said.key # "long")
    BY <1>2 DEF Storable
  <2> QED BY <2>2, <2>3, <2>4, <2>5
<1> QED BY <1>3, <1>4, <1>5, <1>6 DEF Commands

\* No other command is one the README knows.
LEMMA OthersNotWellFormed ==
  ASSUME name \notin Commands
  PROVE  ~WellFormed
BY DEF WellFormed, Commands

-----------------------------------------------------------------------------
(* The invariant, one step for each action.                                *)

\* Once the line is being executed, what it says does not change.
LEMMA KeptWords ==
  ASSUME Keep
  PROVE  /\ LineOK' <=> LineOK
         /\ NumberOfWords' = NumberOfWords
         /\ WellFormed' <=> WellFormed
         /\ Unanswered' <=> Unanswered
         /\ Accepted' <=> Accepted
         /\ CountWrong' <=> CountWrong
         /\ UsesHook' <=> UsesHook
<1>1. NumberOfWords' = NumberOfWords
  BY SameWords DEF Keep
<1> QED BY <1>1 DEF Keep, LineOK, WellFormed, Binary, Negation, Storable, Unanswered,
                    Accepted, CountWrong, Faulty, UsesHook

\* Before the first character.
LEMMA InitParserInv == ParserInit => ParserInv
<1> SUFFICES ASSUME ParserInit PROVE ParserInv
  OBVIOUS
<1>1. ParserTypes
  <2>1. <<>> \in Seq(BOOLEAN)
    OBVIOUS
  <2> QED BY <2>1 DEF ParserInit, Init, ParserTypes, LineOK, Sayings
<1>2. Counted /\ Places
  BY DEF ParserInit, Counted, Places, AtReceiving, Idle
<1> QED BY <1>1, <1>2 DEF ParserInv

\* A stuttering step.
LEMMA StutterParserInv ==
  ASSUME ParserInv, UNCHANGED allVars
  PROVE  ParserInv'
<1>1. Keep /\ UNCHANGED <<pc, args, arrays, desc, replies, touched>>
  BY DEF allVars, parserVars, Keep
<1>2. ParserTypes' /\ Counted'
  BY <1>1, KeptWords DEF ParserInv, ParserTypes, Counted, Keep
<1>3. Places'
  BY <1>1, KeptWords DEF ParserInv, Places, AtReceiving, AtCount, AtCheck, AtKey, AtRange,
                         AtSources, AtRun, AtReturned, Idle, Keep, Desc
<1> QED BY <1>2, <1>3 DEF ParserInv

\* From the line to the command: Arrives, TooShort, Recognize.
LEMMA ReceivingKeepsInv ==
  ASSUME ParserInv, Arrives \/ TooShort \/ Recognize
  PROVE  ParserInv'
<1>1. CASE Arrives
  <2>1. PICK space \in BOOLEAN : line' = Append(line, space)
    BY <1>1 DEF Arrives, Receive
  <2>2. LineOK'
    BY <2>1 DEF ParserInv, ParserTypes, LineOK
  <2>3. pc = "receiving" /\ UNCHANGED parserVars
    BY <1>1 DEF Arrives
  <2> QED BY <2>2, <2>3 DEF parserVars, ParserInv, ParserTypes, Counted, Places, AtReceiving, Idle
<1>2. CASE TooShort
  <2>1. name = "unknown" /\ Idle /\ replies = 0
    BY <1>2 DEF TooShort, ParserInv, Counted, Places, AtReceiving
  <2>2. /\ name' = "unknown" /\ Idle' /\ replies' = 1 /\ pc' = "returned"
        /\ line' = line /\ said' = said /\ touched' = touched
    BY <1>2, <2>1 DEF TooShort, Reply, Return, Idle
  <2>3. ~WellFormed' /\ ~Unanswered'
    BY <2>2 DEF WellFormed, Unanswered
  <2>4. ParserTypes'
    BY <2>2 DEF ParserInv, ParserTypes, LineOK
  <2>5. Counted' /\ Places'
    BY <2>2, <2>3 DEF Counted, Places, AtReturned, Idle
  <2> QED BY <2>4, <2>5 DEF ParserInv
<1>3. CASE Recognize
  <2>1. pc = "receiving" /\ Idle /\ replies = 0 /\ LineOK
    BY <1>3 DEF Recognize, ParserInv, ParserTypes, Counted, Places, AtReceiving
  <2>2. /\ c' = get_arg_count /\ pc' = "count" /\ desc' = {} /\ line' = line
        /\ arrays' = arrays /\ replies' = replies /\ touched' = touched
        /\ name' \in Names \cup {"unknown"} /\ said' \in Saying
    BY <1>3 DEF Recognize, release_all_descs, Sayings
  <2>3. c' = NumberOfWords'
    BY <2>1, <2>2, NumberIsNat, SameWords
  <2>4. ParserTypes'
    BY <2>1, <2>2 DEF ParserInv, ParserTypes, LineOK
  <2>5. Counted' /\ Places'
    BY <2>1, <2>2, <2>3 DEF Counted, Places, AtCount, Idle
  <2> QED BY <2>4, <2>5 DEF ParserInv
<1> QED BY <1>1, <1>2, <1>3

\* The count is checked: RefuseCount, Unimplemented, Split.
LEMMA CountKeepsInv ==
  ASSUME ParserInv, RefuseCount \/ Unimplemented \/ Split
  PROVE  ParserInv'
<1>1. pc = "count" /\ Keep /\ Idle /\ replies = 0 /\ c = NumberOfWords /\ ParserTypes
  BY DEF RefuseCount, Unimplemented, Split, ParserInv, Counted, Places, AtCount
<1>2. ParserTypes' /\ c' = NumberOfWords' /\ c \in Nat
  <2>1. pc' \in {"returned", "check"} /\ touched' = touched
    BY DEF RefuseCount, Unimplemented, Split, Return
  <2> QED BY <1>1, <2>1, KeptWords, NumberIsNat DEF ParserTypes, Keep
<1>3. CASE RefuseCount
  <2>1. ~WellFormed /\ ~Unanswered
    <3>1. CASE name \in Commands
      BY <1>1, <1>3, <3>1, ChecksAreGrammar DEF RefuseCount, Commands, Unanswered
    <3>2. CASE name \notin Commands
      BY <1>1, <1>2, <1>3, <3>2, OthersNotWellFormed DEF RefuseCount, CountWrong, Unanswered
    <3> QED BY <3>1, <3>2
  <2>2. pc' = "returned" /\ replies' = 1 /\ Idle'
    BY <1>1, <1>3 DEF RefuseCount, Reply, Return, Idle
  <2>3. ~WellFormed' /\ ~Unanswered'
    BY <1>1, <2>1, KeptWords
  <2> QED BY <1>2, <2>2, <2>3 DEF ParserInv, Counted, Places, AtReturned, Idle
<1>4. CASE Unimplemented
  <2>1. ~WellFormed /\ Unanswered
    BY <1>1, <1>2, <1>4, OthersNotWellFormed DEF Unimplemented, Commands, CountWrong, Unanswered
  <2>2. pc' = "returned" /\ replies' = 0 /\ Idle'
    BY <1>1, <1>4 DEF Unimplemented, NoReply, Return, Idle
  <2>3. ~WellFormed' /\ Unanswered'
    BY <1>1, <2>1, KeptWords
  <2> QED BY <1>2, <2>2, <2>3 DEF ParserInv, Counted, Places, AtReturned, Idle
<1>5. CASE Split
  <2>1. /\ pc' = "check" /\ arrays' = 1 /\ desc' = {} /\ ~touched' /\ replies' = 0
        /\ c' = c /\ name' \in Commands /\ ~CountWrong'
    BY <1>1, <1>5, KeptWords DEF Split, Idle, Keep, Commands
  <2>2. DOMAIN args' = 1 .. c - 1
    BY <1>5 DEF Split, split_fill
  <2> QED BY <1>2, <2>1, <2>2 DEF ParserInv, Counted, Places, AtCheck
<1> QED BY <1>3, <1>4, <1>5

\* The arguments are checked: Refuse, Accept.
LEMMA CheckKeepsInv ==
  ASSUME ParserInv, Refuse \/ Accept
  PROVE  ParserInv'
<1>1. /\ pc = "check" /\ Keep /\ replies = 0 /\ c = NumberOfWords /\ ParserTypes
      /\ AtCheck /\ DOMAIN args = 1 .. c - 1 /\ UNCHANGED <<args, desc, touched>>
  BY DEF Refuse, Accept, ParserInv, Counted, Places
<1>2. ParserTypes' /\ c' = NumberOfWords' /\ c' = c /\ ~Unanswered
  <2>1. pc' \in {"returned", "sources", "key"}
    BY DEF Refuse, Accept, Return
  <2> QED BY <1>1, <2>1, KeptWords DEF ParserTypes, Keep, AtCheck, Commands, Unanswered
<1>3. CASE Refuse
  <2>1. ~WellFormed
    BY <1>1, <1>3, ChecksAreGrammar DEF Refuse, AtCheck
  <2>2. pc' = "returned" /\ replies' = 1 /\ arrays' = 0 /\ desc' = {} /\ ~touched'
    BY <1>1, <1>3 DEF Refuse, Reply, Return, free_args, AtCheck
  <2>3. ~WellFormed' /\ ~Unanswered'
    BY <1>1, <1>2, <2>1, KeptWords
  <2> QED BY <1>2, <2>2, <2>3 DEF ParserInv, Counted, Places, AtReturned
<1>4. CASE Accept
  <2>1. Accepted /\ Accepted' /\ (UsesHook' <=> UsesHook) /\ name' = name
    BY <1>1, <1>4, KeptWords DEF Accept, AtCheck, Accepted, Keep
  <2>2. replies' = 0 /\ desc' = {} /\ ~touched' /\ DOMAIN args' = 1 .. c' - 1
    BY <1>1, <1>2, <1>4 DEF Accept, AtCheck
  <2>3. arrays' = IF name \in {"BITOP", "BITCOUNT"} THEN 1 ELSE 0
    BY <1>1, <1>4 DEF Accept, AtCheck, Commands, free_args, KeepArgs
  <2>4. CASE UsesHook
    <3>1. pc' = "sources" /\ name = "BITOP"
      BY <1>4, <2>4 DEF Accept, UsesHook
    <3> QED BY <1>2, <2>1, <2>2, <2>3, <3>1 DEF ParserInv, Counted, Places, AtSources
  <2>5. CASE ~UsesHook
    <3>1. pc' = "key"
      BY <1>4, <2>5 DEF Accept
    <3> QED BY <1>2, <2>1, <2>2, <2>3, <2>5, <3>1 DEF ParserInv, Counted, Places, AtKey
  <2> QED BY <2>4, <2>5
<1> QED BY <1>3, <1>4

\* The files are prepared and the command runs.
LEMMA CommandKeepsInv ==
  ASSUME ParserInv,
         KeyPrepared \/ KeyNotPrepared \/ CountEmpty \/ CountRange
           \/ SourcesPrepared \/ SourcesFail \/ Run
  PROVE  ParserInv'
<1> DEFINE From == {"key", "range", "sources", "run"}
<1>1. pc \in From /\ Keep
  BY DEF KeyPrepared, KeyNotPrepared, CountEmpty, CountRange, SourcesPrepared, SourcesFail, Run
<1>2. replies = 0 /\ c = NumberOfWords /\ ParserTypes /\ Accepted
  BY <1>1 DEF ParserInv, Counted, Places, AtKey, AtRange, AtSources, AtRun
<1>3. WellFormed /\ WellFormed' /\ ~Unanswered' /\ Accepted' /\ name' = name
  <2>1. WellFormed /\ ~Unanswered
    BY <1>2, ChecksAreGrammar DEF Accepted, Commands, Unanswered
  <2> QED BY <1>1, <1>2, <2>1, KeptWords DEF Keep
<1>4. touched' = TRUE
  BY DEF KeyPrepared, KeyNotPrepared, CountEmpty, CountRange, SourcesPrepared, SourcesFail, Run,
         ParserInv, Places, AtRange, AtRun
<1>5. ParserTypes' /\ c' = NumberOfWords' /\ c' = c
  <2>1. pc' \in {"range", "sources", "run", "returned"}
    BY DEF KeyPrepared, KeyNotPrepared, CountEmpty, CountRange, SourcesPrepared, SourcesFail, Run,
           Return
  <2> QED BY <1>1, <1>2, <1>4, <2>1, KeptWords DEF ParserTypes, Keep
<1>6. 0 \in Desc
  BY ParserAssumption DEF Desc
<1>7. ASSUME pc' = "returned", replies' = 1, arrays' = 0, desc' = {}
      PROVE  ParserInv'
  BY <1>3, <1>4, <1>5, <1>7 DEF ParserInv, Counted, Places, AtReturned
<1>8. ASSUME pc' = "run", replies' = 0, arrays' = 0, desc' \subseteq Desc
      PROVE  ParserInv'
  BY <1>3, <1>4, <1>5, <1>8 DEF ParserInv, Counted, Places, AtRun
<1>9. CASE KeyPrepared
  <2>1. /\ AtKey /\ replies' = 0 /\ desc' = {0} /\ arrays' = arrays /\ args' = args
        /\ DOMAIN args = 1 .. c - 1
    BY <1>2, <1>9 DEF KeyPrepared, ParserInv, Counted, Places, AtKey
  <2>2. CASE name = "BITOP"
    <3>1. pc' = "sources" /\ arrays' = 1
      BY <1>9, <2>1, <2>2 DEF KeyPrepared, AtKey
    <3> QED BY <1>3, <1>4, <1>5, <2>1, <2>2, <3>1 DEF ParserInv, Counted, Places, AtSources
  <2>3. CASE name = "BITCOUNT"
    <3>1. pc' = "range" /\ arrays' = 1
      BY <1>9, <2>1, <2>3 DEF KeyPrepared, AtKey
    <3> QED BY <1>3, <1>4, <1>5, <2>1, <2>3, <3>1 DEF ParserInv, Counted, Places, AtRange
  <2>4. CASE name \notin {"BITOP", "BITCOUNT"}
    <3>1. pc' = "run" /\ arrays' = 0
      BY <1>9, <2>1, <2>4 DEF KeyPrepared, AtKey
    <3> QED BY <1>6, <1>8, <2>1, <3>1
  <2> QED BY <2>2, <2>3, <2>4
<1>10. CASE KeyNotPrepared
  BY <1>2, <1>7, <1>10 DEF KeyNotPrepared, Reply, Return, free_args, KeepArgs, release_all_descs,
                           ParserInv, Places, AtKey
<1>11. CASE CountEmpty
  BY <1>2, <1>7, <1>11 DEF CountEmpty, Reply, Return, free_args, release_all_descs,
                           ParserInv, Places, AtRange
<1>12. CASE CountRange
  BY <1>2, <1>6, <1>8, <1>12 DEF CountRange, free_args, ParserInv, Places, AtRange
<1>13. CASE SourcesPrepared
  <2>1. AtSources /\ arrays' = 0 /\ replies' = 0 /\ pc' = "run"
    BY <1>2, <1>13 DEF SourcesPrepared, free_args, ParserInv, Places, AtSources
  <2>2. c \in Nat /\ c <= BITOP_MAXIMUM
    BY <1>2, <2>1, NumberIsNat, ParserAssumption DEF AtSources, Accepted, CountWrong, ParserTypes
  <2>3. 1 .. c - 3 \subseteq Desc
    BY <2>2, ParserAssumption DEF Desc
  <2>4. desc' \subseteq Desc
    BY <1>6, <1>13, <2>1, <2>3 DEF SourcesPrepared, AtSources
  <2> QED BY <1>8, <2>1, <2>4
<1>14. CASE SourcesFail
  BY <1>2, <1>7, <1>14 DEF SourcesFail, Reply, Return, free_args, release_all_descs,
                           ParserInv, Places, AtSources
<1>15. CASE Run
  BY <1>2, <1>7, <1>15 DEF Run, Reply, Return, release_all_descs, ParserInv, Places, AtRun
<1> QED BY <1>9, <1>10, <1>11, <1>12, <1>13, <1>14, <1>15

\* The invariant holds in every state of every behaviour.
LEMMA ParserInvInductive == ParserSpec => []ParserInv
<1>1. ParserInv /\ [ParserNext]_allVars => ParserInv'
  BY StutterParserInv, ReceivingKeepsInv, CountKeepsInv, CheckKeepsInv, CommandKeepsInv
  DEF ParserNext
<1> QED BY <1>1, InitParserInv, PTL DEF ParserSpec

-----------------------------------------------------------------------------
(* The results.                                                            *)

\* get_arg_count and split_fill agree on every line, of any length and however
\* many spaces lead, trail or separate its words (parser.c).
THEOREM TokensCorrect == ParserSpec => []ArgumentsAreWords
<1>1. ParserInv => ArgumentsAreWords
  BY ArgumentWords DEF ParserInv, ParserTypes
<1> QED BY <1>1, ParserInvInductive, PTL

\* parse_and_execute calls reply() once on every path, the unimplemented BITPOS
\* and BITFIELD apart.
THEOREM AnswersCorrect == ParserSpec => []AnsweredOnce
<1>1. ParserInv => AnsweredOnce
  <2> SUFFICES ASSUME ParserInv PROVE AnsweredOnce
    OBVIOUS
  <2>1. CASE pc = "returned"
    BY <2>1 DEF ParserInv, Places, AtReturned, AnsweredOnce
  <2>2. CASE pc # "returned"
    BY <2>2 DEF ParserInv, Counted, AnsweredOnce
  <2> QED BY <2>1, <2>2
<1> QED BY <1>1, ParserInvInductive, PTL

\* No command reads an argument the line does not have, the argument array is
\* freed once on every way out and job->desc[] is never indexed beyond its end.
THEOREM JobMemoryCorrect == ParserSpec => []JobMemory
<1>1. ParserInv => JobMemory
  <2> SUFFICES ASSUME ParserInv PROVE JobMemory
    OBVIOUS
  <2>1. 0 \in Desc
    BY ParserAssumption DEF Desc
  <2>2. LooksAtArgs => 1 .. LastRead \subseteq DOMAIN args
    <3> SUFFICES ASSUME LooksAtArgs PROVE 1 .. LastRead \subseteq DOMAIN args
      OBVIOUS
    <3>1. name \in Commands /\ ~CountWrong /\ c = NumberOfWords /\ DOMAIN args = 1 .. c - 1
      BY DEF LooksAtArgs, ParserInv, Counted, Places, AtCheck, AtKey, AtRange, AtSources, Accepted
    <3>2. c \in Nat
      BY <3>1, NumberIsNat DEF ParserInv, ParserTypes
    <3>3. CASE name = "SETBIT"
      BY <3>1, <3>2, <3>3 DEF CountWrong, LastRead
    <3>4. CASE name = "GETBIT"
      BY <3>1, <3>2, <3>4 DEF CountWrong, LastRead
    <3>5. CASE name = "BITCOUNT"
      BY <3>1, <3>2, <3>5 DEF CountWrong, LastRead
    <3>6. CASE name = "BITOP"
      BY <3>1, <3>2, <3>6 DEF CountWrong, LastRead
    <3> QED BY <3>1, <3>3, <3>4, <3>5, <3>6 DEF Commands
  <2>3. arrays = IF LooksAtArgs THEN 1 ELSE 0
    BY DEF LooksAtArgs, ParserInv, ParserTypes, Places, AtReceiving, AtCount, AtCheck, AtKey,
           AtRange, AtSources, AtRun, AtReturned, Idle
  <2>4. desc \subseteq Desc
    BY <2>1 DEF ParserInv, ParserTypes, Places, AtReceiving, AtCount, AtCheck, AtKey,
                AtRange, AtSources, AtRun, AtReturned, Idle
  <2>5. pc = "returned" => desc = {}
    BY DEF ParserInv, Places, AtReturned
  <2> QED BY <2>2, <2>3, <2>4, <2>5 DEF JobMemory
<1> QED BY <1>1, ParserInvInductive, PTL

\* The files are opened for a line exactly if it is a well-formed command: the
\* checks parse_and_execute makes one by one are together the grammar.
THEOREM GrammarCorrect == ParserSpec => []ExecutedIffWellFormed
<1>1. ParserInv => ExecutedIffWellFormed
  <2> SUFFICES ASSUME ParserInv PROVE ExecutedIffWellFormed
    OBVIOUS
  <2>1. touched => WellFormed
    <3>1. CASE pc \in {"range", "sources", "run"}
      BY <3>1, ChecksAreGrammar DEF ParserInv, Counted, Places, AtRange, AtSources, AtRun, Accepted
    <3>2. CASE pc \notin {"range", "sources", "run"}
      BY <3>2 DEF ParserInv, ParserTypes, Places, AtReceiving, AtCount, AtCheck, AtKey,
                  AtReturned, Idle
    <3> QED BY <3>1, <3>2
  <2>2. pc = "returned" /\ WellFormed => touched
    BY DEF ParserInv, Places, AtReturned
  <2> QED BY <2>1, <2>2 DEF ExecutedIffWellFormed
<1> QED BY <1>1, ParserInvInductive, PTL
=============================================================================
