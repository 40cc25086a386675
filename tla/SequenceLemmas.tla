---------------------------- MODULE SequenceLemmas ----------------------------
(***************************************************************************)
(* What the operators on sequences that the specifications use do, for the *)
(* proofs about them.                                                      *)
(***************************************************************************)
EXTENDS Integers, Sequences, SequencesExt, FiniteSetTheorems, WellFoundedInduction, TLAPS

\* What RemoveAt leaves in place and what it moves.
LEMMA RemoveAtFacts ==
  ASSUME NEW S, NEW s \in Seq(S), NEW i \in DOMAIN s
  PROVE  /\ RemoveAt(s, i) \in Seq(S)
         /\ DOMAIN RemoveAt(s, i) = 1 .. Len(s) - 1
         /\ \A k \in 1 .. Len(s) - 1 :
              RemoveAt(s, i)[k] = IF k < i THEN s[k] ELSE s[k + 1]
<1> DEFINE front == SubSeq(s, 1, i - 1)
           back == SubSeq(s, i + 1, Len(s))
<1>1. i \in 1 .. Len(s) /\ Len(s) \in Nat
  OBVIOUS
<1>2. front \in Seq(S) /\ Len(front) = i - 1 /\ \A k \in 1 .. i - 1 : front[k] = s[k]
  BY <1>1
<1>3. back \in Seq(S) /\ Len(back) = Len(s) - i /\ \A k \in 1 .. Len(s) - i : back[k] = s[k + i]
  BY <1>1
<1> HIDE DEF front, back
<1>4. RemoveAt(s, i) = front \o back
  BY DEF RemoveAt, front, back
<1>5. front \o back \in Seq(S) /\ Len(front \o back) = Len(s) - 1
  BY <1>1, <1>2, <1>3
<1>6. ASSUME NEW k \in 1 .. Len(s) - 1
      PROVE  (front \o back)[k] = IF k < i THEN s[k] ELSE s[k + 1]
  BY <1>1, <1>2, <1>3, <1>6
<1>7. QED
  BY <1>4, <1>5, <1>6

\* Taking the first element.
LEMMA TailIsRemoveAt ==
  ASSUME NEW S, NEW s \in Seq(S), s # <<>>
  PROVE  1 \in DOMAIN s /\ Head(s) = s[1] /\ Tail(s) = RemoveAt(s, 1)
<1>1. 1 \in DOMAIN s /\ Head(s) = s[1] /\ Len(s) \in Nat
  OBVIOUS
<1>2. Tail(s) \in Seq(S) /\ Len(Tail(s)) = Len(s) - 1
      /\ \A k \in 1 .. Len(s) - 1 : Tail(s)[k] = s[k + 1]
  BY <1>1
<1>3. /\ RemoveAt(s, 1) \in Seq(S)
      /\ DOMAIN RemoveAt(s, 1) = 1 .. Len(s) - 1
      /\ \A k \in 1 .. Len(s) - 1 : RemoveAt(s, 1)[k] = IF k < 1 THEN s[k] ELSE s[k + 1]
  BY <1>1, RemoveAtFacts
<1>4. \A k \in 1 .. Len(s) - 1 : Tail(s)[k] = RemoveAt(s, 1)[k]
  BY <1>2, <1>3
<1>5. Len(RemoveAt(s, 1)) = Len(s) - 1
  BY <1>1, <1>3
<1>6. QED
  BY <1>1, <1>2, <1>3, <1>4, <1>5

\* The first element of a queue.
LEMMA HeadIsElement ==
  ASSUME NEW S, NEW s \in Seq(S), s # <<>>
  PROVE  Head(s) = s[1] /\ s[1] \in S /\ Len(s) \in Nat \ {0}
OBVIOUS

\* A queue grows at its end.
LEMMA AppendFacts ==
  ASSUME NEW S, NEW s \in Seq(S), NEW e \in S
  PROVE  /\ Append(s, e) \in Seq(S)
         /\ Len(s) \in Nat /\ DOMAIN s = 1 .. Len(s)
         /\ DOMAIN Append(s, e) = 1 .. Len(s) + 1
         /\ Append(s, e)[Len(s) + 1] = e
         /\ \A i \in 1 .. Len(s) : Append(s, e)[i] = s[i]
  OBVIOUS

\* A stack grows at its end, too.
LEMMA PushFacts ==
  ASSUME NEW S, NEW s \in Seq(S), NEW f \in S
  PROVE  /\ Append(s, f) \in Seq(S) /\ Append(s, f) # <<>>
         /\ Len(Append(s, f)) = Len(s) + 1
         /\ Append(s, f)[Len(s) + 1] = f
         /\ \A i \in 1 .. Len(s) : Append(s, f)[i] = s[i]
         /\ s \o <<f>> = Append(s, f)
<1>1. Append(s, f) \in Seq(S) /\ Len(Append(s, f)) = Len(s) + 1 /\ Len(s) \in Nat
  OBVIOUS
<1>2. Append(s, f)[Len(s) + 1] = f /\ \A i \in 1 .. Len(s) : Append(s, f)[i] = s[i]
  OBVIOUS
<1>3. <<f>> \in Seq(S) /\ Len(<<f>>) = 1 /\ <<f>>[1] = f
  OBVIOUS
<1>4. s \o <<f>> \in Seq(S) /\ Len(s \o <<f>>) = Len(s) + 1
  BY <1>3
<1>5. \A i \in 1 .. Len(s) + 1 : (s \o <<f>>)[i] = Append(s, f)[i]
  BY <1>1, <1>2, <1>3
<1>6. s \o <<f>> = Append(s, f)
  BY <1>1, <1>4, <1>5
<1>7. Append(s, f) # <<>>
  BY <1>1
<1>8. QED
  BY <1>1, <1>2, <1>6, <1>7

\* What Front leaves.
LEMMA FrontFacts ==
  ASSUME NEW S, NEW s \in Seq(S), Len(s) > 1
  PROVE  /\ Front(s) \in Seq(S) /\ Front(s) # <<>>
         /\ Len(Front(s)) = Len(s) - 1
         /\ \A i \in 1 .. Len(s) - 1 : Front(s)[i] = s[i]
<1>1. Len(s) \in Nat /\ Len(s) - 1 \in Nat /\ Front(s) = SubSeq(s, 1, Len(s) - 1)
  BY DEF Front
<1>2. Front(s) \in Seq(S) /\ Len(Front(s)) = Len(s) - 1
      /\ \A i \in 1 .. Len(s) - 1 : Front(s)[i] = s[i]
  BY <1>1
<1>3. Front(s) # <<>>
  <2>1. Len(Front(s)) # 0
    BY <1>1, <1>2
  <2>2. Len(<<>>) = 0
    OBVIOUS
  <2>3. QED
    BY <2>1, <2>2
<1>4. QED
  BY <1>2, <1>3

\* The order of the positions in a queue is well founded.
Before == {p \in Nat \X Nat : p[1] < p[2]}

LEMMA BeforeWellFounded == IsWellFoundedOn(Before, Nat)
  BY NatLessThanWellFounded, SMT DEF Before, OpToRel

\* A nonempty set of positions has a first one.
LEMMA FirstExists ==
  ASSUME NEW n \in Nat, NEW I \in SUBSET (1 .. n), I # {}
  PROVE  \E i \in I : \A j \in 1 .. i - 1 : j \notin I
<1>1. I \subseteq Nat
  OBVIOUS
<1>2. PICK i \in I : \A j \in I : <<j, i>> \notin Before
  BY <1>1, BeforeWellFounded, WFMin
<1>3. ASSUME NEW j \in 1 .. i - 1 PROVE j \notin I
  <2>1. j < i /\ i \in Nat /\ j \in Nat
    BY <1>1
  <2>2. <<j, i>> \in Before
    BY <2>1 DEF Before
  <2>3. QED
    BY <1>2, <2>2
<1>4. QED
  BY <1>3

\* A nonempty set of positions has a last one.
LEMMA LastExists ==
  ASSUME NEW n \in Nat, NEW I \in SUBSET (1 .. n), I # {}
  PROVE  \E i \in I : \A j \in I : j <= i
<1> DEFINE J == {n + 1 - i : i \in I}
<1>1. J \in SUBSET (1 .. n) /\ J # {}
  <2>1. \A i \in I : n + 1 - i \in 1 .. n
    OBVIOUS
  <2>2. J \in SUBSET (1 .. n)
    BY <2>1
  <2>3. PICK i \in I : TRUE
    OBVIOUS
  <2>4. n + 1 - i \in J
    OBVIOUS
  <2>5. QED
    BY <2>2, <2>4
<1>2. PICK m \in J : \A j \in 1 .. m - 1 : j \notin J
  BY <1>1, FirstExists
<1>3. PICK i \in I : m = n + 1 - i
  OBVIOUS
<1>4. ASSUME NEW j \in I, j > i PROVE FALSE
  <2>1. n + 1 - j \in J /\ n + 1 - j \in 1 .. m - 1
    BY <1>3, <1>4
  <2>2. QED
    BY <1>2, <2>1
<1>5. ASSUME NEW j \in I PROVE j <= i
  <2>1. i \in Nat /\ j \in Nat /\ ~(j > i)
    BY <1>4
  <2>2. QED
    BY <2>1
<1>6. QED
  BY <1>5

\* What SetToSeq chooses: each element of the set once.
LEMMA SetToSeqFacts ==
  ASSUME NEW S, IsFiniteSet(S)
  PROVE  /\ SetToSeq(S) \in Seq(S)
         /\ \A i, j \in DOMAIN SetToSeq(S) : SetToSeq(S)[i] = SetToSeq(S)[j] => i = j
<1>1. Cardinality(S) \in Nat /\ ExistsBijection(1 .. Cardinality(S), S)
  BY FS_CardinalityType
<1>2. \E f \in [1 .. Cardinality(S) -> S] : IsInjective(f)
  BY <1>1, Zenon DEF ExistsBijection, Bijection, Injection
<1>3. SetToSeq(S) \in [1 .. Cardinality(S) -> S] /\ IsInjective(SetToSeq(S))
  BY <1>2, Zenon DEF SetToSeq
<1>4. SetToSeq(S) \in Seq(S)
  BY <1>1, <1>3
<1>5. QED
  BY <1>3, <1>4, Zenon DEF IsInjective

\* The length of a concatenation.
LEMMA ConcatLength ==
  ASSUME NEW S, NEW s \in Seq(S), NEW u \in Seq(S)
  PROVE  Len(s \o u) = Len(s) + Len(u)
OBVIOUS

\* What follows a concatenation's first part.
LEMMA ConcatFacts ==
  ASSUME NEW S, NEW s \in Seq(S), NEW u \in Seq(S)
  PROVE  /\ s \o u \in Seq(S)
         /\ Len(s) \in Nat /\ Len(u) \in Nat
         /\ DOMAIN s = 1 .. Len(s) /\ DOMAIN u = 1 .. Len(u)
         /\ DOMAIN (s \o u) = 1 .. Len(s) + Len(u)
         /\ \A i \in 1 .. Len(s) : (s \o u)[i] = s[i]
         /\ \A i \in 1 .. Len(u) : (s \o u)[Len(s) + i] = u[i]
  OBVIOUS

\* Concatenation is associative.
LEMMA ConcatAssoc ==
  ASSUME NEW S, NEW s \in Seq(S), NEW t \in Seq(S), NEW u \in Seq(S)
  PROVE  (s \o t) \o u = s \o (t \o u)
<1>1. /\ Len(s) \in Nat /\ Len(t) \in Nat /\ Len(u) \in Nat
      /\ s \o t \in Seq(S) /\ Len(s \o t) = Len(s) + Len(t)
      /\ t \o u \in Seq(S) /\ Len(t \o u) = Len(t) + Len(u)
  BY ConcatLength, ConcatFacts
<1>2. /\ (s \o t) \o u \in Seq(S) /\ Len((s \o t) \o u) = Len(s) + Len(t) + Len(u)
      /\ s \o (t \o u) \in Seq(S) /\ Len(s \o (t \o u)) = Len(s) + Len(t) + Len(u)
  BY <1>1, ConcatLength, ConcatFacts
<1>3. ASSUME NEW i \in 1 .. Len(s) + Len(t) + Len(u)
      PROVE  ((s \o t) \o u)[i] = (s \o (t \o u))[i]
  BY <1>1, <1>3
<1>4. QED
  BY <1>1, <1>2, <1>3

\* Nothing is neutral.
LEMMA ConcatEmpty ==
  ASSUME NEW S, NEW s \in Seq(S)
  PROVE  s \o <<>> = s /\ <<>> \o s = s /\ <<>> \in Seq(S)
OBVIOUS

\* A sequence that is cut in two.
LEMMA SplitFacts ==
  ASSUME NEW S, NEW s \in Seq(S), NEW n \in 0 .. Len(s)
  PROVE  /\ SubSeq(s, 1, n) \in Seq(S) /\ Len(SubSeq(s, 1, n)) = n
         /\ SubSeq(s, n + 1, Len(s)) \in Seq(S)
         /\ Len(SubSeq(s, n + 1, Len(s))) = Len(s) - n
         /\ SubSeq(s, 1, n) \o SubSeq(s, n + 1, Len(s)) = s
<1> DEFINE front == SubSeq(s, 1, n)
           back == SubSeq(s, n + 1, Len(s))
<1>1. Len(s) \in Nat /\ n \in Nat /\ n <= Len(s)
  OBVIOUS
<1>2. front \in Seq(S) /\ Len(front) = n /\ \A i \in 1 .. n : front[i] = s[i]
  BY <1>1
<1>3. /\ back \in Seq(S) /\ Len(back) = Len(s) - n
      /\ \A i \in 1 .. Len(s) - n : back[i] = s[i + n]
  BY <1>1
<1> HIDE DEF front, back
<1>4. /\ front \o back \in Seq(S) /\ Len(front \o back) = Len(s)
      /\ \A i \in 1 .. n : (front \o back)[i] = front[i]
      /\ \A i \in 1 .. Len(s) - n : (front \o back)[n + i] = back[i]
  <2>1. front \in Seq(S) /\ back \in Seq(S)
    BY <1>2, <1>3
  <2>2. Len(front \o back) = Len(front) + Len(back)
    BY <2>1, ConcatLength
  <2>3. /\ front \o back \in Seq(S)
        /\ \A i \in 1 .. Len(front) : (front \o back)[i] = front[i]
        /\ \A i \in 1 .. Len(back) : (front \o back)[Len(front) + i] = back[i]
    BY <2>1, ConcatFacts
  <2>4. QED
    BY <1>1, <1>2, <1>3, <2>2, <2>3
<1>5. ASSUME NEW i \in 1 .. Len(s) PROVE (front \o back)[i] = s[i]
  <2>1. CASE i <= n
    BY <1>1, <1>2, <1>4, <2>1
  <2>2. CASE i > n
    <3>1. i - n \in 1 .. Len(s) - n /\ n + (i - n) = i /\ (i - n) + n = i
      BY <1>1, <2>2
    <3>2. (front \o back)[n + (i - n)] = back[i - n] /\ back[i - n] = s[(i - n) + n]
      BY <1>3, <1>4, <3>1
    <3>3. QED
      BY <3>1, <3>2
  <2>3. i <= n \/ i > n
    BY <1>1, <1>5
  <2>4. QED
    BY <2>1, <2>2, <2>3, Zenon
<1>6. front \o back = s
  <2>1. front \o back \in Seq(S) /\ s \in Seq(S) /\ Len(front \o back) = Len(s)
    BY <1>4
  <2>2. \A i \in 1 .. Len(s) : (front \o back)[i] = s[i]
    BY <1>5
  <2> DEFINE both == front \o back
  <2> HIDE DEF both
  <2>3. both \in Seq(S) /\ Len(both) = Len(s) /\ \A i \in 1 .. Len(s) : both[i] = s[i]
    BY <2>1, <2>2 DEF both
  <2>4. both = s
    BY <2>3
  <2>5. QED
    BY <2>4 DEF both
<1>7. QED
  BY <1>2, <1>3, <1>6 DEF front, back

\* The first element and the others.
LEMMA HeadTailFacts ==
  ASSUME NEW S, NEW s \in Seq(S), s # <<>>
  PROVE  /\ Head(s) \in S /\ Tail(s) \in Seq(S) /\ Len(Tail(s)) = Len(s) - 1
         /\ <<Head(s)>> \in Seq(S) /\ <<Head(s)>> \o Tail(s) = s
<1>1. /\ Head(s) \in S /\ Tail(s) \in Seq(S) /\ Len(Tail(s)) = Len(s) - 1
      /\ Len(s) \in Nat \ {0} /\ Head(s) = s[1]
      /\ \A i \in 1 .. Len(s) - 1 : Tail(s)[i] = s[i + 1]
  OBVIOUS
<1>2. <<Head(s)>> \in Seq(S) /\ Len(<<Head(s)>>) = 1 /\ <<Head(s)>>[1] = Head(s)
  BY <1>1
<1>3. <<Head(s)>> \o Tail(s) \in Seq(S) /\ Len(<<Head(s)>> \o Tail(s)) = Len(s)
  BY <1>1, <1>2, ConcatLength, ConcatFacts
<1>4. ASSUME NEW i \in 1 .. Len(s) PROVE (<<Head(s)>> \o Tail(s))[i] = s[i]
  BY <1>1, <1>2, <1>4
<1>5. QED
  BY <1>1, <1>2, <1>3, <1>4

\* What moves from the front of one part to the end of the part before it.
LEMMA ConcatMoves ==
  ASSUME NEW S, NEW x \in Seq(S), NEW y \in Seq(S), NEW p \in Seq(S), NEW r \in Seq(S)
  PROVE  (x \o (y \o p)) \o r = (x \o y) \o (p \o r)
<1> DEFINE xy == x \o y
<1>1. x \o (y \o p) = xy \o p
  BY ConcatAssoc, SMTT(60)
<1>2. ASSUME NEW z \in Seq(S) PROVE (z \o p) \o r = z \o (p \o r)
  BY ConcatAssoc, SMTT(60)
<1>3. xy \in Seq(S)
  BY ConcatFacts
<1> HIDE DEF xy
<1>4. (xy \o p) \o r = xy \o (p \o r)
  BY <1>2, <1>3, Zenon
<1>5. QED
  BY <1>1, <1>4 DEF xy

\* g[i] is the sum of the first i elements of s, up to n of them.
PartialSums(g, s, n) ==
  g \in [0 .. n -> Nat] /\ g[0] = 0 /\ \A i \in 1 .. n : g[i] = g[i - 1] + s[i]

\* They are what any function is that adds the elements up.
LEMMA SumsAgree ==
  ASSUME NEW s, NEW n \in Nat, NEW g, PartialSums(g, s, n),
         NEW h, h[0] = 0, \A i \in 1 .. n : h[i] = h[i - 1] + s[i]
  PROVE  \A i \in 0 .. n : h[i] = g[i]
<1> DEFINE I == {i \in 1 .. n : h[i] # g[i]}
<1>1. I = {}
  <2> SUFFICES ASSUME I # {} PROVE FALSE
    OBVIOUS
  <2>1. PICK i \in I : \A j \in 1 .. i - 1 : j \notin I
    BY FirstExists
  <2>2. i \in 1 .. n /\ (i - 1 = 0 \/ (i - 1 \in 1 .. i - 1 /\ i - 1 \in 1 .. n))
    OBVIOUS
  <2>3. g[i - 1] = h[i - 1]
    BY <2>1, <2>2 DEF PartialSums
  <2>4. QED
    BY <2>1, <2>2, <2>3 DEF PartialSums
<1>2. \A i \in 1 .. n : h[i] = g[i]
  BY <1>1
<1>3. \A i \in 0 .. n : i = 0 \/ i \in 1 .. n
  OBVIOUS
<1>4. QED
  BY <1>2, <1>3 DEF PartialSums

\* One element more at the end.
LEMMA SumsGrow ==
  ASSUME NEW s, NEW n \in Nat, s[n + 1] \in Nat, NEW g, PartialSums(g, s, n),
         NEW h, h = [i \in 0 .. n + 1 |-> IF i <= n THEN g[i] ELSE g[n] + s[n + 1]]
  PROVE  PartialSums(h, s, n + 1)
<1> DEFINE e == s[n + 1]
<1>1. e \in Nat /\ g \in [0 .. n -> Nat] /\ g[n] \in Nat /\ g[n] + e \in Nat
  BY DEF PartialSums
<1>2. h \in [0 .. n + 1 -> Nat]
  BY <1>1
<1>3. h[0] = 0 /\ \A i \in 0 .. n : h[i] = g[i]
  BY DEF PartialSums
<1>4. h[n + 1] = g[n] + e /\ h[(n + 1) - 1] = g[n]
  BY <1>3
<1>5. ASSUME NEW i \in 1 .. n + 1 PROVE h[i] = h[i - 1] + s[i]
  <2>1. CASE i = n + 1
    BY <1>4, <2>1
  <2>2. CASE i # n + 1
    <3>1. i \in 1 .. n /\ i \in 0 .. n /\ i - 1 \in 0 .. n
      BY <2>2
    <3>2. QED
      BY <1>3, <3>1 DEF PartialSums
  <2>3. QED
    BY <2>1, <2>2
<1>6. QED
  BY <1>2, <1>3, <1>5 DEF PartialSums

\* Every sequence of numbers has its partial sums.
LEMMA SumsExist ==
  ASSUME NEW s \in Seq(Nat)
  PROVE  \E g : PartialSums(g, s, Len(s))
<1> DEFINE l == Len(s)
           I == {n \in 1 .. l : ~\E g : PartialSums(g, s, n)}
<1>1. l \in Nat /\ \A n \in 1 .. l : s[n] \in Nat
  OBVIOUS
<1>2. \E g : PartialSums(g, s, 0)
  <2> DEFINE g == [i \in 0 .. 0 |-> 0]
  <2>1. PartialSums(g, s, 0)
    BY DEF PartialSums
  <2>2. QED
    BY <2>1
<1> HIDE DEF l
<1>3. I = {}
  <2> SUFFICES ASSUME I # {} PROVE FALSE
    OBVIOUS
  <2>1. PICK n \in I : \A j \in 1 .. n - 1 : j \notin I
    BY <1>1, FirstExists
  <2>2. n \in 1 .. l /\ n - 1 \in Nat /\ (n - 1) + 1 = n
    BY <1>1
  <2>3. n - 1 = 0 \/ (n - 1 \in 1 .. l /\ n - 1 \in 1 .. n - 1)
    BY <1>1, <2>2
  <2>4. \E g : PartialSums(g, s, n - 1)
    BY <1>2, <2>1, <2>3
  <2>5. PICK g : PartialSums(g, s, n - 1)
    BY <2>4
  <2> DEFINE m == n - 1
             h == [i \in 0 .. m + 1 |-> IF i <= m THEN g[i] ELSE g[m] + s[m + 1]]
  <2>6. m \in Nat /\ m + 1 = n /\ s[m + 1] \in Nat /\ PartialSums(g, s, m)
    BY <1>1, <2>2, <2>5
  <2> HIDE DEF m
  <2>7. PartialSums(h, s, m + 1)
    BY <2>6, SumsGrow
  <2>8. \E f : PartialSums(f, s, n)
    BY <2>6, <2>7
  <2>9. QED
    BY <2>1, <2>8
<1>4. l = 0 \/ l \in 1 .. l
  BY <1>1
<1>5. QED
  BY <1>2, <1>3, <1>4 DEF l

\* A piece of a sequence differs from a function where one of its elements does.
LEMMA PieceDiffers ==
  ASSUME NEW S, NEW s \in Seq(S), NEW a \in Nat, NEW b \in Nat, NEW m \in Nat,
         a + m = b, b <= Len(s), NEW T, NEW f \in [1 .. m -> T]
  PROVE  SubSeq(s, a + 1, b) # f <=> \E i \in 1 .. m : s[a + i] # f[i]
<1> DEFINE p == SubSeq(s, a + 1, b)
<1>1. Len(s) \in Nat
  OBVIOUS
<1>2. p = [i \in 1 .. m |-> s[a + i]]
  <2>1. p = [i \in 1 .. b - (a + 1) + 1 |-> s[(a + 1) + i - 1]]
    BY <1>1
  <2>2. b - (a + 1) + 1 = m
    OBVIOUS
  <2>3. \A i \in 1 .. m : (a + 1) + i - 1 = a + i
    OBVIOUS
  <2> HIDE DEF p
  <2>4. QED
    BY <2>1, <2>2, <2>3
<1> HIDE DEF p
<1>3. p # f <=> \E i \in 1 .. m : s[a + i] # f[i]
  BY <1>2
<1>4. QED
  BY <1>3 DEF p

LEMMA PrefixFacts ==
  ASSUME NEW S, NEW s \in Seq(S), NEW n \in 0 .. Len(s)
  PROVE  /\ SubSeq(s, 1, n) \in Seq(S) /\ Len(SubSeq(s, 1, n)) = n
         /\ \A i \in 1 .. n : SubSeq(s, 1, n)[i] = s[i]
<1>1. Len(s) \in Nat /\ n \in Nat /\ n <= Len(s)
  OBVIOUS
<1>2. QED
  BY <1>1

\* One element less at the end.
LEMMA PopFacts ==
  ASSUME NEW S, NEW s \in Seq(S), s # <<>>
  PROVE  /\ Len(s) \in Nat \ {0} /\ Last(s) = s[Len(s)] /\ Last(s) \in S
         /\ Front(s) \in Seq(S) /\ Len(Front(s)) = Len(s) - 1
         /\ \A i \in 1 .. Len(s) - 1 : Front(s)[i] = s[i]
<1> DEFINE n == Len(s) - 1
<1>1. Len(s) \in Nat \ {0} /\ Last(s) = s[Len(s)] /\ s[Len(s)] \in S /\ Front(s) = SubSeq(s, 1, n)
  BY DEF Last, Front
<1>2. n \in 0 .. Len(s)
  BY <1>1
<1> HIDE DEF n
<1>3. /\ Front(s) \in Seq(S) /\ Len(Front(s)) = n
      /\ \A i \in 1 .. n : Front(s)[i] = s[i]
  BY <1>1, <1>2, PrefixFacts
<1>4. QED
  BY <1>1, <1>3 DEF n

\* u is s with one element more at its end, and s is u without it.
Grown(s, e, u) ==
  Len(u) = Len(s) + 1 /\ u[Len(s) + 1] = e /\ \A i \in 1 .. Len(s) : u[i] = s[i]

LEMMA AppendGrows ==
  ASSUME NEW S, NEW s \in Seq(S), NEW e \in S
  PROVE  Append(s, e) \in Seq(S) /\ Grown(s, e, Append(s, e))
BY PushFacts DEF Grown

LEMMA FrontGrows ==
  ASSUME NEW S, NEW s \in Seq(S), s # <<>>
  PROVE  Front(s) \in Seq(S) /\ Last(s) \in S /\ Grown(Front(s), Last(s), s)
<1>1. /\ Len(s) \in Nat \ {0} /\ Last(s) = s[Len(s)] /\ Last(s) \in S
      /\ Front(s) \in Seq(S) /\ Len(Front(s)) = Len(s) - 1
      /\ \A i \in 1 .. Len(s) - 1 : Front(s)[i] = s[i]
  BY PopFacts
<1>2. (Len(s) - 1) + 1 = Len(s)
  BY <1>1
<1>3. QED
  BY <1>1, <1>2 DEF Grown
==============================================================================
