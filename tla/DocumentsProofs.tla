-------------------------- MODULE DocumentsProofs --------------------------
(***************************************************************************)
(* Proofs about addresses: what HTParse, HTSimplify and HTRelative make of *)
(* names of any length; that the browser has the one address of a document *)
(* whatever references led to it; that what it opens for that address is   *)
(* what it means; and that a relative address that it writes leads back.   *)
(***************************************************************************)
EXTENDS Documents, WellFoundedInduction, FiniteSetTheorems, TLAPS

-----------------------------------------------------------------------------
(* Induction, over sets of numbers and sets of sequences.                  *)

\* The pairs of numbers of which the first is less.
LessThan == {ss \in Nat \X Nat : ss[1] < ss[2]}

\* A nonempty set of natural numbers has a least element.
LEMMA LeastElement ==
  ASSUME NEW T \in SUBSET Nat, NEW x \in T
  PROVE  \E n \in T : \A m \in T : n <= m
<1>1. IsWellFoundedOn(LessThan, Nat)
  BY NatLessThanWellFounded DEF OpToRel, LessThan
<1>2. \E n \in T : \A m \in T : ~(<<m, n>> \in LessThan)
  BY <1>1, WFMin
<1>3. \A m, n \in Nat : ~(<<m, n>> \in LessThan) => n <= m
  BY DEF LessThan
<1> QED
  BY <1>2, <1>3

\* A set of natural numbers below a bound has a greatest element.
LEMMA GreatestElement ==
  ASSUME NEW b \in Nat, NEW T \in SUBSET (0 .. b), NEW x \in T
  PROVE  \E n \in T : \A m \in T : m <= n
<1> DEFINE U == {b - m : m \in T}
<1>1. U \in SUBSET Nat /\ b - x \in U
  OBVIOUS
<1>2. PICK k \in U : \A m \in U : k <= m
  BY <1>1, LeastElement
<1>3. PICK n \in T : k = b - n
  OBVIOUS
<1>4. ASSUME NEW m \in T PROVE m <= n
  BY <1>2, <1>3, SMTT(40)
<1> QED
  BY <1>4

\* Induction over the natural numbers.
LEMMA NaturalInduction ==
  ASSUME NEW T, 0 \in T, \A n \in Nat : n \in T => n + 1 \in T
  PROVE  \A n \in Nat : n \in T
<1> SUFFICES ASSUME NEW x \in Nat, x \notin T PROVE FALSE
  OBVIOUS
<1> DEFINE U == Nat \ T
<1>1. PICK n \in U : \A m \in U : n <= m
  <2>1. U \in SUBSET Nat /\ x \in U
    OBVIOUS
  <2> QED
    BY <2>1, LeastElement
<1>2. n # 0 /\ n - 1 \in Nat /\ n - 1 \notin U /\ n = (n - 1) + 1
  BY <1>1
<1> QED
  BY <1>2

\* A part of a sequence.
LEMMA Slice ==
  ASSUME NEW S, NEW s \in Seq(S), NEW m \in Nat, NEW n \in Nat, 1 <= m, m <= n + 1, n <= Len(s)
  PROVE  /\ SubSeq(s, m, n) \in Seq(S) /\ Len(SubSeq(s, m, n)) = n - m + 1
         /\ \A i \in 1 .. n - m + 1 : SubSeq(s, m, n)[i] = s[m + i - 1]
  OBVIOUS

\* The parts of a sequence before and after a place.
LEMMA Sides ==
  ASSUME NEW S, NEW s \in Seq(S), NEW n \in 0 .. Len(s)
  PROVE  /\ UpTo(s, n) \in Seq(S) /\ Len(UpTo(s, n)) = n
         /\ \A i \in 1 .. n : UpTo(s, n)[i] = s[i]
         /\ From(s, n + 1) \in Seq(S) /\ Len(From(s, n + 1)) = Len(s) - n
         /\ \A i \in 1 .. Len(s) - n : From(s, n + 1)[i] = s[n + i]
<1>1. Len(s) \in Nat /\ n \in Nat /\ n <= Len(s)
  OBVIOUS
<1>2. /\ UpTo(s, n) \in Seq(S) /\ Len(UpTo(s, n)) = n
      /\ \A i \in 1 .. n : UpTo(s, n)[i] = s[i]
  BY <1>1 DEF UpTo
<1>3. /\ From(s, n + 1) \in Seq(S) /\ Len(From(s, n + 1)) = Len(s) - n
      /\ \A i \in 1 .. Len(s) - n : From(s, n + 1)[i] = s[n + i]
  BY <1>1 DEF From
<1> QED
  BY <1>2, <1>3

\* A sequence that is not empty is one with an element after it.
LEMMA LastOfSequence ==
  ASSUME NEW S, NEW s \in Seq(S), s # <<>>
  PROVE  \E t \in Seq(S), x \in S : s = Append(t, x) /\ Len(t) = Len(s) - 1
<1> DEFINE t == UpTo(s, Len(s) - 1)
<1>1. Len(s) \in Nat \ {0} /\ s[Len(s)] \in S /\ Len(s) - 1 \in 0 .. Len(s)
  OBVIOUS
<1>2. t \in Seq(S) /\ Len(t) = Len(s) - 1 /\ \A i \in 1 .. Len(s) - 1 : t[i] = s[i]
  BY <1>1, Sides, ZenonT(60)
<1> HIDE DEF t
<1>3. s = Append(t, s[Len(s)])
  BY <1>1, <1>2
<1> QED
  BY <1>1, <1>2, <1>3

\* Induction over sequences, which grow at their end.
LEMMA SequenceInduction ==
  ASSUME NEW S, NEW T, <<>> \in T,
         \A s \in Seq(S), x \in S : s \in T => Append(s, x) \in T
  PROVE  \A s \in Seq(S) : s \in T
<1> DEFINE U == {n \in Nat : \A s \in Seq(S) : Len(s) = n => s \in T}
<1>1. 0 \in U
  OBVIOUS
<1>2. ASSUME NEW n \in Nat, n \in U PROVE n + 1 \in U
  <2> SUFFICES ASSUME NEW s \in Seq(S), Len(s) = n + 1 PROVE s \in T
    OBVIOUS
  <2>1. s # <<>>
    OBVIOUS
  <2>2. PICK t \in Seq(S), x \in S : s = Append(t, x) /\ Len(t) = Len(s) - 1
    BY <2>1, LastOfSequence
  <2> QED
    BY <1>2, <2>2
<1> HIDE DEF U
<1>3. \A n \in Nat : n \in U
  BY <1>1, <1>2, NaturalInduction
<1>4. ASSUME NEW s \in Seq(S) PROVE s \in T
  <2>1. Len(s) \in U
    BY <1>3
  <2> QED
    BY <2>1 DEF U
<1> QED
  BY <1>4

\* A function defined by recursion over the numbers up to n.
Recurs(f, S, a, n, G) ==
  f \in [0 .. n -> S] /\ f[0] = a /\ \A i \in 1 .. n : f[i] = G[<<i, f[i - 1]>>]

\* There is such a function, whatever it begins with and however it goes on.
LEMMA RecursiveFunction ==
  ASSUME NEW S, NEW a \in S, NEW n \in Nat, NEW G \in [Nat \X S -> S]
  PROVE  \E f : Recurs(f, S, a, n, G)
<1> DEFINE From0(f, k) == f \in [0 .. k -> S] /\ f[0] = a
                            /\ \A i \in 1 .. k : f[i] = G[<<i, f[i - 1]>>]
           T == {k \in Nat : \E f : From0(f, k)}
<1>1. 0 \in T
  <2>1. From0([i \in 0 .. 0 |-> a], 0)
    OBVIOUS
  <2> QED
    BY <2>1
<1>2. ASSUME NEW k \in Nat, k \in T PROVE k + 1 \in T
  <2>1. PICK f : From0(f, k)
    BY <1>2
  <2> DEFINE next == G[<<k + 1, f[k]>>]
             g == [i \in 0 .. k + 1 |-> IF i = k + 1 THEN next ELSE f[i]]
  <2>2. next \in S
    BY <2>1
  <2>3. g \in [0 .. k + 1 -> S] /\ g[0] = a
    BY <2>1, <2>2
  <2>4. ASSUME NEW i \in 1 .. k PROVE g[i] = G[<<i, g[i - 1]>>]
    <3>1. g[i] = f[i] /\ g[i - 1] = f[i - 1]
      OBVIOUS
    <3> QED
      BY <2>1, <3>1
  <2>5. g[k + 1] = G[<<k + 1, g[k + 1 - 1]>>]
    <3>1. g[k + 1] = next /\ g[k + 1 - 1] = f[k]
      OBVIOUS
    <3> QED
      BY <3>1
  <2> HIDE DEF g, next
  <2>6. \A i \in 1 .. k + 1 : g[i] = G[<<i, g[i - 1]>>]
    BY <2>4, <2>5
  <2>7. From0(g, k + 1)
    BY <2>3, <2>6
  <2> HIDE DEF From0
  <2> QED
    BY <2>7
<1> HIDE DEF T
<1>3. n \in T
  BY <1>1, <1>2, NaturalInduction
<1>4. PICK f : From0(f, n)
  BY <1>3 DEF T
<1> QED
  BY <1>4 DEF Recurs

\* Two functions that go on in the same way from the same value are the same.
GoOnAlike(f, g, m, n) ==
  f[m] = g[m] /\ \A i \in m + 1 .. n : f[i - 1] = g[i - 1] => f[i] = g[i]

\* They agree from m to n.
LEMMA SameValues ==
  ASSUME NEW m \in Nat, NEW n \in Nat, NEW f, NEW g, GoOnAlike(f, g, m, n)
  PROVE  \A i \in m .. n : f[i] = g[i]
<1> DEFINE T == {k \in Nat : m + k \in m .. n => f[m + k] = g[m + k]}
<1>1. 0 \in T
  BY DEF GoOnAlike
<1>2. ASSUME NEW k \in Nat, k \in T PROVE k + 1 \in T
  <2> SUFFICES ASSUME m + (k + 1) \in m .. n PROVE f[m + (k + 1)] = g[m + (k + 1)]
    OBVIOUS
  <2> DEFINE i == m + (k + 1)
  <2>1. i \in m + 1 .. n /\ i - 1 = m + k /\ m + k \in m .. n
    OBVIOUS
  <2>2. f[m + k] = g[m + k]
    BY <1>2, <2>1
  <2> HIDE DEF i
  <2>3. f[i] = g[i]
    BY <2>1, <2>2 DEF GoOnAlike
  <2> QED
    BY <2>3 DEF i
<1> HIDE DEF T
<1>3. \A k \in Nat : k \in T
  BY <1>1, <1>2, NaturalInduction
<1>4. ASSUME NEW i \in m .. n PROVE f[i] = g[i]
  <2>1. i - m \in T /\ m + (i - m) = i
    BY <1>3
  <2> QED
    BY <2>1 DEF T
<1> QED
  BY <1>4

-----------------------------------------------------------------------------
(* Sequences one after another.                                            *)

\* The elements of two sequences one after the other.
LEMMA Concat ==
  ASSUME NEW S, NEW a \in Seq(S), NEW b \in Seq(S)
  PROVE  /\ a \o b \in Seq(S) /\ Len(a \o b) = Len(a) + Len(b)
         /\ \A i \in 1 .. Len(a) : (a \o b)[i] = a[i]
         /\ \A i \in 1 .. Len(b) : (a \o b)[Len(a) + i] = b[i]
  OBVIOUS

\* Two sequences with the same elements are the same.
LEMMA SameSequence ==
  ASSUME NEW S, NEW s \in Seq(S), NEW t \in Seq(S), Len(s) = Len(t),
         \A i \in 1 .. Len(s) : s[i] = t[i]
  PROVE  s = t
  OBVIOUS

\* The elements of a sequence.
LEMMA Elements ==
  ASSUME NEW S, NEW s \in Seq(S)
  PROVE  /\ Len(s) \in Nat /\ DOMAIN s = 1 .. Len(s) /\ \A i \in 1 .. Len(s) : s[i] \in S
         /\ Len(s) = 0 <=> s = <<>>
  OBVIOUS

\* The empty sequence.
LEMMA Empty ==
  ASSUME NEW S
  PROVE  <<>> \in Seq(S) /\ Len(<<>>) = 0 /\ \A s \in Seq(S) : s \o <<>> = s /\ <<>> \o s = s
  OBVIOUS

\* One element, and one more.
LEMMA OneElement ==
  ASSUME NEW S, NEW x \in S
  PROVE  /\ <<x>> \in Seq(S) /\ Len(<<x>>) = 1 /\ <<x>>[1] = x /\ Append(<<>>, x) = <<x>>
         /\ \A s \in Seq(S) : /\ Append(s, x) = s \o <<x>> /\ Append(s, x) \in Seq(S)
                              /\ Len(Append(s, x)) = Len(s) + 1
                              /\ Append(s, x)[Len(s) + 1] = x
                              /\ \A i \in 1 .. Len(s) : Append(s, x)[i] = s[i]
  OBVIOUS

\* Where three sequences are joined first does not matter.
LEMMA ConcatAssociative ==
  ASSUME NEW S, NEW a \in Seq(S), NEW b \in Seq(S), NEW c \in Seq(S)
  PROVE  (a \o b) \o c = a \o (b \o c)
  OBVIOUS

\* The parts of two sequences that have been joined.
LEMMA SidesOfConcat ==
  ASSUME NEW S, NEW a \in Seq(S), NEW b \in Seq(S)
  PROVE  /\ UpTo(a \o b, Len(a)) = a /\ From(a \o b, Len(a) + 1) = b
         /\ \A k \in 0 .. Len(a) : UpTo(a \o b, k) = UpTo(a, k)
         /\ \A k \in 0 .. Len(b) : From(a \o b, Len(a) + k + 1) = From(b, k + 1)
<1> DEFINE c == a \o b
<1>1. /\ c \in Seq(S) /\ Len(c) = Len(a) + Len(b)
      /\ \A i \in 1 .. Len(a) : c[i] = a[i]
      /\ \A i \in 1 .. Len(b) : c[Len(a) + i] = b[i]
  BY Concat
<1>2. Len(a) \in Nat /\ Len(b) \in Nat
  OBVIOUS
<1> HIDE DEF c
<1>3. ASSUME NEW k \in 0 .. Len(a) PROVE UpTo(c, k) = UpTo(a, k)
  <2> DEFINE l == UpTo(c, k)
             r == UpTo(a, k)
  <2>1. k \in 0 .. Len(c)
    BY <1>1, <1>2
  <2>2. l \in Seq(S) /\ Len(l) = k /\ \A i \in 1 .. k : l[i] = c[i]
    BY <1>1, <2>1, Sides
  <2>3. r \in Seq(S) /\ Len(r) = k /\ \A i \in 1 .. k : r[i] = a[i]
    BY Sides
  <2> HIDE DEF l, r
  <2>4. Len(l) = Len(r) /\ \A i \in 1 .. Len(l) : l[i] = r[i]
    BY <1>1, <1>2, <2>2, <2>3
  <2>5. l = r
    BY <2>2, <2>3, <2>4, SameSequence
  <2> QED
    BY <2>5 DEF l, r
<1>4. ASSUME NEW k \in 0 .. Len(b) PROVE From(c, Len(a) + k + 1) = From(b, k + 1)
  <2> DEFINE l == From(c, Len(a) + k + 1)
             r == From(b, k + 1)
  <2>1. Len(a) + k \in 0 .. Len(c)
    BY <1>1, <1>2
  <2>2. /\ l \in Seq(S) /\ Len(l) = Len(c) - (Len(a) + k)
        /\ \A i \in 1 .. Len(c) - (Len(a) + k) : l[i] = c[Len(a) + k + i]
    BY <1>1, <2>1, Sides
  <2>3. /\ r \in Seq(S) /\ Len(r) = Len(b) - k
        /\ \A i \in 1 .. Len(b) - k : r[i] = b[k + i]
    BY Sides
  <2> HIDE DEF l, r
  <2>4. l = r
    <3>1. Len(l) = Len(r) /\ Len(l) = Len(b) - k
      BY <1>1, <1>2, <2>2, <2>3
    <3>2. ASSUME NEW i \in 1 .. Len(l) PROVE l[i] = r[i]
      <4>1. k + i \in 1 .. Len(b) /\ Len(a) + k + i = Len(a) + (k + i) /\ i \in 1 .. Len(b) - k
            /\ i \in 1 .. Len(c) - (Len(a) + k)
        BY <1>1, <1>2, <3>1
      <4> QED
        BY <1>1, <2>2, <2>3, <4>1, ZenonT(60)
    <3> QED
      BY <2>2, <2>3, <3>1, <3>2, SameSequence
  <2> QED
    BY <2>4 DEF l, r
<1>5. UpTo(a, Len(a)) = a /\ From(b, 1) = b
  BY DEF UpTo, From
<1> QED
  BY <1>2, <1>3, <1>4, <1>5 DEF c

\* What is joined to one sequence is told by the whole.
LEMMA SameRest ==
  ASSUME NEW S, NEW a \in Seq(S), NEW b \in Seq(S), NEW c \in Seq(S), a \o b = a \o c
  PROVE  b = c
<1>1. From(a \o b, Len(a) + 1) = b /\ From(a \o c, Len(a) + 1) = c
  BY SidesOfConcat
<1> QED
  BY <1>1

\* A sequence is the two parts of it.
LEMMA JoinedSides ==
  ASSUME NEW S, NEW s \in Seq(S), NEW n \in 0 .. Len(s)
  PROVE  UpTo(s, n) \o From(s, n + 1) = s
<1> DEFINE a == UpTo(s, n)
           b == From(s, n + 1)
           c == a \o b
<1>1. /\ a \in Seq(S) /\ Len(a) = n /\ \A i \in 1 .. n : a[i] = s[i]
      /\ b \in Seq(S) /\ Len(b) = Len(s) - n /\ \A i \in 1 .. Len(s) - n : b[i] = s[n + i]
  BY Sides
<1>2. Len(s) \in Nat /\ n \in Nat /\ n <= Len(s)
  OBVIOUS
<1> HIDE DEF a, b
<1>3. /\ c \in Seq(S) /\ Len(c) = Len(a) + Len(b)
      /\ \A i \in 1 .. Len(a) : c[i] = a[i]
      /\ \A i \in 1 .. Len(b) : c[Len(a) + i] = b[i]
  BY <1>1, Concat
<1> HIDE DEF c
<1>4. ASSUME NEW i \in 1 .. Len(s) PROVE c[i] = s[i]
  <2>1. CASE i <= n
    BY <2>1, <1>1, <1>2, <1>3
  <2>2. CASE i > n
    <3>1. i - n \in 1 .. Len(b) /\ i - n \in 1 .. Len(s) - n /\ Len(a) + (i - n) = i /\ n + (i - n) = i
      BY <2>2, <1>1, <1>2
    <3>2. c[Len(a) + (i - n)] = b[i - n]
      BY <1>3, <3>1
    <3>3. b[i - n] = s[n + (i - n)]
      BY <1>1, <3>1
    <3> QED
      BY <3>1, <3>2, <3>3
  <2> QED
    BY <2>1, <2>2, <1>2
<1>5. c = s
  BY <1>1, <1>2, <1>3, <1>4, SameSequence
<1> QED
  BY <1>5 DEF c, a, b

\* What is left of a sequence begins with the next element.
LEMMA FirstOfRest ==
  ASSUME NEW S, NEW s \in Seq(S), NEW i \in 0 .. Len(s) - 1
  PROVE  From(s, i + 1) = <<s[i + 1]>> \o From(s, i + 2)
<1> DEFINE x == s[i + 1]
           one == <<x>>
           k == i + 1
           a == UpTo(s, i)
           b == UpTo(s, k)
           c == From(s, i + 1)
           d == From(s, k + 1)
           t == Append(a, x)
<1>1. Len(s) \in Nat /\ i \in Nat /\ i \in 0 .. Len(s) /\ k \in 0 .. Len(s) /\ x \in S /\ k + 1 = i + 2
  OBVIOUS
<1>2. /\ a \in Seq(S) /\ Len(a) = i /\ (\A j \in 1 .. i : a[j] = s[j])
      /\ c \in Seq(S) /\ a \o c = s
  <2>1. a \o c = s
    BY <1>1, JoinedSides
  <2>2. a \in Seq(S) /\ Len(a) = i /\ (\A j \in 1 .. i : a[j] = s[j]) /\ c \in Seq(S)
    BY <1>1, Sides
  <2> QED
    BY <2>1, <2>2
<1> HIDE DEF k
<1>3. /\ b \in Seq(S) /\ Len(b) = k /\ (\A j \in 1 .. k : b[j] = s[j])
      /\ d \in Seq(S) /\ b \o d = s
  <2>1. b \o d = s
    BY <1>1, JoinedSides
  <2>2. b \in Seq(S) /\ Len(b) = k /\ (\A j \in 1 .. k : b[j] = s[j]) /\ d \in Seq(S)
    BY <1>1, Sides
  <2> QED
    BY <2>1, <2>2
<1>4. one \in Seq(S)
  BY <1>1, OneElement
<1> HIDE DEF a, b, c, d, one
<1>5. /\ t = a \o one /\ t \in Seq(S) /\ Len(t) = i + 1 /\ t[i + 1] = x
      /\ \A j \in 1 .. i : t[j] = a[j]
  BY <1>1, <1>2, OneElement DEF one
<1> HIDE DEF t
<1>6. b = t
  <2>1. Len(b) = Len(t)
    BY <1>3, <1>5 DEF k
  <2>2. ASSUME NEW j \in 1 .. Len(b) PROVE b[j] = t[j]
    <3>1. j \in 1 .. k /\ (j \in 1 .. i \/ j = i + 1)
      BY <1>1, <1>3 DEF k
    <3>2. b[j] = s[j]
      BY <1>3, <3>1
    <3>3. CASE j \in 1 .. i
      BY <3>2, <3>3, <1>2, <1>5
    <3>4. CASE j = i + 1
      BY <3>2, <3>4, <1>5
    <3> QED
      BY <3>1, <3>3, <3>4
  <2> QED
    BY <1>3, <1>5, <2>1, <2>2, SameSequence
<1>7. a \o (one \o d) = a \o c
  <2>1. (a \o one) \o d = a \o (one \o d)
    <3>1. a \in Seq(S) /\ one \in Seq(S) /\ d \in Seq(S)
      BY <1>2, <1>3, <1>4
    <3> QED
      BY <3>1, ConcatAssociative, SMTT(40)
  <2>2. a \o one = b
    BY <1>5, <1>6
  <2> QED
    BY <2>1, <2>2, <1>2, <1>3
<1>8. one \o d \in Seq(S)
  BY <1>3, <1>4, Concat
<1>9. c = one \o d
  BY <1>2, <1>7, <1>8, SameRest
<1> QED
  BY <1>1, <1>9 DEF c, d, one

-----------------------------------------------------------------------------
(* Steps joined to a path.                                                 *)

\* What FlattenSeq makes of sequences, one after another.
LEMMA Flattened ==
  ASSUME NEW S, NEW ss \in Seq(Seq(S)), ss # <<>>
  PROVE  \E f \in [1 .. Len(ss) -> Seq(S)] :
           /\ f[1] = ss[1] /\ \A i \in 2 .. Len(ss) : f[i] = f[i - 1] \o ss[i]
           /\ FlattenSeq(ss) = f[Len(ss)]
<1> DEFINE n == Len(ss)
           Flat(f) == f = [i \in 1 .. n |-> IF i = 1 THEN ss[i] ELSE f[i - 1] \o ss[i]]
           G == [x \in Nat \X Seq(S) |->
                   IF x[1] + 1 \in 1 .. n THEN x[2] \o ss[x[1] + 1] ELSE x[2]]
<1>1. n \in Nat /\ n >= 1 /\ n # 0 /\ \A i \in 1 .. n : ss[i] \in Seq(S)
  OBVIOUS
<1> HIDE DEF n
<1>2. G \in [Nat \X Seq(S) -> Seq(S)]
  <2>1. ASSUME NEW x \in Nat \X Seq(S)
        PROVE  (IF x[1] + 1 \in 1 .. n THEN x[2] \o ss[x[1] + 1] ELSE x[2]) \in Seq(S)
    <3>1. x[2] \in Seq(S)
      OBVIOUS
    <3>2. \A i \in 1 .. n : x[2] \o ss[i] \in Seq(S)
      BY <1>1, <3>1, Concat
    <3> QED
      BY <3>1, <3>2
  <2> QED
    BY <2>1
<1>3. PICK g : Recurs(g, Seq(S), ss[1], n - 1, G)
  <2>1. n - 1 \in Nat /\ ss[1] \in Seq(S)
    BY <1>1
  <2> HIDE DEF G
  <2> QED
    BY <1>2, <2>1, RecursiveFunction
<1>4. ASSUME NEW i \in 1 .. n - 1 PROVE g[i] = g[i - 1] \o ss[i + 1]
  <2>1. <<i, g[i - 1]>> \in Nat \X Seq(S) /\ i + 1 \in 1 .. n
    BY <1>1, <1>3 DEF Recurs
  <2>2. G[<<i, g[i - 1]>>] = g[i - 1] \o ss[i + 1]
    BY <2>1
  <2> HIDE DEF G
  <2> QED
    BY <1>3, <2>2 DEF Recurs
<1> DEFINE h == [i \in 1 .. n |-> g[i - 1]]
<1>5. h \in [1 .. n -> Seq(S)] /\ h[1] = ss[1]
  BY <1>1, <1>3 DEF Recurs
<1>6. ASSUME NEW i \in 2 .. n PROVE h[i] = h[i - 1] \o ss[i]
  <2>1. i - 1 \in 1 .. n - 1 /\ h[i] = g[i - 1] /\ h[i - 1] = g[i - 1 - 1] /\ (i - 1) + 1 = i
    BY <1>1
  <2> QED
    BY <1>4, <2>1
<1> HIDE DEF h
<1>7. Flat(h)
  <2>1. ASSUME NEW i \in 1 .. n PROVE h[i] = IF i = 1 THEN ss[i] ELSE h[i - 1] \o ss[i]
    <3>1. CASE i = 1
      BY <3>1, <1>5
    <3>2. CASE i # 1
      <4>1. i \in 2 .. n
        BY <3>2, <1>1
      <4> QED
        BY <3>2, <4>1, <1>6
    <3> QED
      BY <3>1, <3>2
  <2> QED
    BY <1>5, <2>1
<1> DEFINE flatten == CHOOSE f : Flat(f)
<1>8. Flat(flatten)
  BY <1>7
<1>9. FlattenSeq(ss) = flatten[n]
  BY <1>1 DEF FlattenSeq, n
<1>10. ASSUME NEW f, Flat(f) PROVE f = h
  <2>1. ASSUME NEW i \in 2 .. n, f[i - 1] = h[i - 1] PROVE f[i] = h[i]
    <3>1. i \in 1 .. n /\ i # 1
      BY <1>1
    <3>2. f[i] = f[i - 1] \o ss[i]
      BY <3>1, <1>10
    <3>3. h[i] = h[i - 1] \o ss[i]
      BY <1>6
    <3> QED
      BY <2>1, <3>2, <3>3
  <2>2. f[1] = h[1]
    BY <1>1, <1>5, <1>10
  <2>3. \A i \in 1 .. n : f[i] = h[i]
    <3>1. GoOnAlike(f, h, 1, n)
      BY <2>1, <2>2 DEF GoOnAlike
    <3> QED
      BY <1>1, <3>1, SameValues
  <2>4. f = [i \in 1 .. n |-> f[i]] /\ h = [i \in 1 .. n |-> h[i]]
    BY <1>5, <1>10
  <2> QED
    BY <2>3, <2>4
<1>11. flatten = h
  <2> HIDE DEF Flat
  <2> QED
    BY <1>8, <1>10
<1> QED
  BY <1>5, <1>6, <1>9, <1>11 DEF n

\* One more sequence goes to the end.
LEMMA FlattenOneMore ==
  ASSUME NEW S, NEW ss \in Seq(Seq(S)), NEW x \in Seq(S)
  PROVE  /\ FlattenSeq(ss) \in Seq(S)
         /\ FlattenSeq(Append(ss, x)) = IF ss = <<>> THEN x ELSE FlattenSeq(ss) \o x
<1> DEFINE tt == Append(ss, x)
           n == Len(ss)
<1>1. /\ tt \in Seq(Seq(S)) /\ tt # <<>> /\ Len(tt) = n + 1 /\ tt[n + 1] = x /\ n \in Nat
      /\ \A i \in 1 .. n : tt[i] = ss[i]
      /\ n = 0 <=> ss = <<>>
  <2> DEFINE X == Seq(S)
  <2>1. x \in X /\ ss \in Seq(X)
    OBVIOUS
  <2> HIDE DEF X, tt
  <2>2. /\ tt \in Seq(X) /\ Len(tt) = n + 1 /\ tt[n + 1] = x
        /\ \A i \in 1 .. n : tt[i] = ss[i]
    BY <2>1, OneElement DEF tt
  <2>3. n \in Nat /\ (n = 0 <=> ss = <<>>) /\ tt # <<>>
    BY <2>1, <2>2, Elements
  <2> QED
    BY <2>2, <2>3 DEF X
<1> HIDE DEF tt
<1>2. PICK g :
        /\ g \in [1 .. Len(tt) -> Seq(S)]
        /\ g[1] = tt[1] /\ \A i \in 2 .. Len(tt) : g[i] = g[i - 1] \o tt[i]
        /\ FlattenSeq(tt) = g[Len(tt)]
  <2>1. \E g \in [1 .. Len(tt) -> Seq(S)] :
          /\ g[1] = tt[1] /\ \A i \in 2 .. Len(tt) : g[i] = g[i - 1] \o tt[i]
          /\ FlattenSeq(tt) = g[Len(tt)]
    BY <1>1, Flattened
  <2> QED
    BY <2>1, Zenon
<1>3. CASE ss = <<>>
  <2>1. FlattenSeq(ss) = <<>>
    BY <1>3 DEF FlattenSeq
  <2>2. <<>> \in Seq(S)
    OBVIOUS
  <2> QED
    BY <2>1, <2>2, <1>1, <1>2, <1>3 DEF tt
<1>4. CASE ss # <<>>
  <2>1. PICK f :
          /\ f \in [1 .. n -> Seq(S)]
          /\ f[1] = ss[1] /\ \A i \in 2 .. n : f[i] = f[i - 1] \o ss[i]
          /\ FlattenSeq(ss) = f[n]
    <3>1. \E f \in [1 .. n -> Seq(S)] :
            /\ f[1] = ss[1] /\ \A i \in 2 .. n : f[i] = f[i - 1] \o ss[i]
            /\ FlattenSeq(ss) = f[n]
      BY <1>4, Flattened
    <3> QED
      BY <3>1, Zenon
  <2>2. n \in 1 .. n
    BY <1>1, <1>4
  <2> HIDE DEF n
  <2>3. GoOnAlike(f, g, 1, n)
    <3>1. f[1] = g[1]
      BY <1>1, <1>2, <2>1, <2>2
    <3>2. ASSUME NEW i \in 1 + 1 .. n, f[i - 1] = g[i - 1] PROVE f[i] = g[i]
      <4>1. i \in 2 .. n /\ i \in 2 .. Len(tt) /\ tt[i] = ss[i]
        BY <1>1
      <4>2. f[i] = f[i - 1] \o ss[i]
        BY <2>1, <4>1
      <4>3. g[i] = g[i - 1] \o tt[i]
        BY <1>2, <4>1
      <4> QED
        BY <3>2, <4>1, <4>2, <4>3
    <3> QED
      BY <3>1, <3>2 DEF GoOnAlike
  <2>4. f[n] = g[n]
    <3>1. 1 \in Nat /\ n \in Nat
      BY <1>1
    <3>2. \A i \in 1 .. n : f[i] = g[i]
      BY <2>3, <3>1, SameValues
    <3> QED
      BY <2>2, <3>2
  <2>5. g[n + 1] = g[n] \o x
    <3>1. n + 1 \in 2 .. Len(tt) /\ (n + 1) - 1 = n /\ tt[n + 1] = x
      BY <1>1, <2>2
    <3> QED
      BY <1>2, <3>1
  <2> QED
    BY <1>1, <1>2, <1>4, <2>1, <2>2, <2>4, <2>5 DEF tt
<1> QED
  BY <1>3, <1>4

\* Sequences of some elements are sequences of more.
LEMMA SequencesOfMore ==
  ASSUME NEW S, NEW T, S \subseteq T
  PROVE  Seq(S) \subseteq Seq(T)
  OBVIOUS

\* What HTParse and the other functions work on.
Names == Seq(Token)

\* Names one after another.
LEMMA JoinedNames ==
  /\ <<>> \in Names
  /\ \A a \in Names : <<>> \o a = a /\ a \o <<>> = a
  /\ \A a, b \in Names : a \o b \in Names
  /\ \A a, b, c \in Names : (a \o b) \o c = a \o (b \o c)
<1>1. /\ <<>> \in Names
      /\ \A a \in Names : <<>> \o a = a /\ a \o <<>> = a
  BY Empty DEF Names
<1>2. \A a, b \in Names : a \o b \in Names
  BY Concat DEF Names
<1>3. \A a, b, c \in Names : (a \o b) \o c = a \o (b \o c)
  BY ConcatAssociative DEF Names
<1> QED
  BY <1>1, <1>2, <1>3

\* A name has places from 1 to its length, and is empty when that is 0.
LEMMA NameElements ==
  \A a \in Names : /\ Len(a) \in Nat /\ DOMAIN a = 1 .. Len(a)
                   /\ Len(a) = 0 <=> a = <<>>
BY Elements DEF Names

\* Two names one after the other are a name with the tokens of both.
LEMMA NameConcat ==
  \A a, b \in Names : /\ a \o b \in Names /\ Len(a \o b) = Len(a) + Len(b)
                      /\ Len(a) \in Nat /\ Len(b) \in Nat
                      /\ \A i \in 1 .. Len(a) : (a \o b)[i] = a[i]
                      /\ \A i \in 1 .. Len(b) : (a \o b)[Len(a) + i] = b[i]
<1> SUFFICES ASSUME NEW a \in Seq(Token), NEW b \in Seq(Token)
             PROVE  /\ a \o b \in Seq(Token) /\ Len(a \o b) = Len(a) + Len(b)
                    /\ Len(a) \in Nat /\ Len(b) \in Nat
                    /\ \A i \in 1 .. Len(a) : (a \o b)[i] = a[i]
                    /\ \A i \in 1 .. Len(b) : (a \o b)[Len(a) + i] = b[i]
  BY DEF Names
<1>1. Len(a) \in Nat /\ Len(b) \in Nat
  OBVIOUS
<1> QED
  BY <1>1, Concat

\* A name that is two names one after the other.
IsConcat(c, a, b) == c = a \o b

\* Its tokens are those of the two.
LEMMA IsConcatElements ==
  \A a, b \in Names : \A c : IsConcat(c, a, b) =>
    /\ c \in Names /\ Len(c) = Len(a) + Len(b) /\ Len(a) \in Nat /\ Len(b) \in Nat
    /\ \A i \in 1 .. Len(a) : c[i] = a[i]
    /\ \A i \in 1 .. Len(b) : c[Len(a) + i] = b[i]
BY NameConcat DEF IsConcat

\* The same by its length and its tokens.
Parts(c, a, b) ==
  /\ c \in Names /\ Len(c) = Len(a) + Len(b) /\ Len(a) \in Nat /\ Len(b) \in Nat
  /\ \A i \in 1 .. Len(a) : c[i] = a[i]
  /\ \A i \in 1 .. Len(b) : c[Len(a) + i] = b[i]

\* Two names one after the other have the elements of both.
LEMMA ConcatParts == \A a, b \in Names : Parts(a \o b, a, b)
BY NameConcat DEF Parts

\* The parts of a name, and of two names one after the other.
LEMMA NameSides ==
  \A s \in Names : \A n \in 0 .. Len(s) :
    /\ UpTo(s, n) \in Names /\ Len(UpTo(s, n)) = n
    /\ \A i \in 1 .. n : UpTo(s, n)[i] = s[i]
    /\ From(s, n + 1) \in Names /\ Len(From(s, n + 1)) = Len(s) - n
    /\ \A i \in 1 .. Len(s) - n : From(s, n + 1)[i] = s[n + i]
<1> SUFFICES ASSUME NEW s \in Seq(Token), NEW n \in 0 .. Len(s)
             PROVE  /\ UpTo(s, n) \in Seq(Token) /\ Len(UpTo(s, n)) = n
                    /\ \A i \in 1 .. n : UpTo(s, n)[i] = s[i]
                    /\ From(s, n + 1) \in Seq(Token) /\ Len(From(s, n + 1)) = Len(s) - n
                    /\ \A i \in 1 .. Len(s) - n : From(s, n + 1)[i] = s[n + i]
  BY DEF Names
<1> QED
  BY Sides

\* Up to where they meet and from there on are the two names; nearer to an end
\* it is a side of one of them.
LEMMA NameSidesOfConcat ==
  \A a, b \in Names :
    /\ UpTo(a \o b, Len(a)) = a /\ From(a \o b, Len(a) + 1) = b
    /\ \A k \in 0 .. Len(a) : UpTo(a \o b, k) = UpTo(a, k)
    /\ \A k \in 0 .. Len(b) : From(a \o b, Len(a) + k + 1) = From(b, k + 1)
<1> SUFFICES ASSUME NEW a \in Seq(Token), NEW b \in Seq(Token)
             PROVE  /\ UpTo(a \o b, Len(a)) = a /\ From(a \o b, Len(a) + 1) = b
                    /\ \A k \in 0 .. Len(a) : UpTo(a \o b, k) = UpTo(a, k)
                    /\ \A k \in 0 .. Len(b) : From(a \o b, Len(a) + k + 1) = From(b, k + 1)
  BY DEF Names
<1> QED
  BY SidesOfConcat

\* Two names with the same elements are the same.
LEMMA SameNames ==
  \A a, b \in Names : Len(a) = Len(b) /\ (\A i \in 1 .. Len(a) : a[i] = b[i]) => a = b
BY SameSequence DEF Names

\* The path of a document: a slash before each step.
Rooted(steps) == IF steps = <<>> THEN <<>> ELSE <<"/">> \o Joined(steps)

\* Steps are joined by slashes, one after another.
LEMMA JoinedOneMore ==
  ASSUME NEW steps \in Seq(Names), NEW step \in Names
  PROVE  /\ Joined(steps) \in Names
         /\ Joined(Append(steps, step)) =
              IF steps = <<>> THEN step ELSE Joined(steps) \o (<<"/">> \o step)
<1> DEFINE J(ss) == [i \in DOMAIN ss |-> IF i = 1 THEN ss[i] ELSE <<"/">> \o ss[i]]
           more == Append(steps, step)
           x == IF steps = <<>> THEN step ELSE <<"/">> \o step
<1>1. \A s \in Names : <<"/">> \o s \in Names
  BY DEF Names, Token
<1>2. /\ more \in Seq(Names) /\ Len(more) = Len(steps) + 1 /\ Len(steps) \in Nat
      /\ \A i \in 1 .. Len(steps) : more[i] = steps[i] /\ steps[i] \in Names
      /\ more[Len(steps) + 1] = step
      /\ DOMAIN more = 1 .. Len(steps) + 1 /\ DOMAIN steps = 1 .. Len(steps)
      /\ Len(steps) = 0 <=> steps = <<>>
  OBVIOUS
<1>3. J(steps) \in Seq(Names) /\ Len(J(steps)) = Len(steps)
  BY <1>1, <1>2
<1>4. x \in Names
  BY <1>1
<1> HIDE DEF more
<1>5. J(more) = Append(J(steps), x)
  <2> DEFINE l == J(more)
             js == J(steps)
             r == Append(js, x)
  <2>1. /\ l \in Seq(Names) /\ Len(l) = Len(steps) + 1
        /\ \A i \in 1 .. Len(steps) : l[i] = js[i]
        /\ l[Len(steps) + 1] = x
    BY <1>1, <1>2
  <2> HIDE DEF l, js, x
  <2>2. /\ r \in Seq(Names) /\ Len(r) = Len(steps) + 1
        /\ \A i \in 1 .. Len(steps) : r[i] = js[i]
        /\ r[Len(steps) + 1] = x
    BY <1>3, <1>4, OneElement DEF js
  <2> HIDE DEF r
  <2>3. \A i \in 1 .. Len(l) : l[i] = r[i]
    BY <1>2, <2>1, <2>2
  <2>4. l = r
    BY <2>1, <2>2, <2>3, SameSequence
  <2> QED
    BY <2>4 DEF l, r, js
<1>6. Joined(steps) = FlattenSeq(J(steps)) /\ Joined(more) = FlattenSeq(J(more))
  BY DEF Joined
<1>7. J(steps) = <<>> <=> steps = <<>>
  BY <1>2, <1>3
<1> HIDE DEF J, x
<1>8. /\ FlattenSeq(J(steps)) \in Names
      /\ FlattenSeq(Append(J(steps), x)) = IF J(steps) = <<>> THEN x ELSE FlattenSeq(J(steps)) \o x
  BY <1>3, <1>4, FlattenOneMore DEF Names
<1> QED
  BY <1>5, <1>6, <1>7, <1>8 DEF more, x

\* A path grows at its end.
LEMMA RootedOneMore ==
  /\ Rooted(<<>>) = <<>>
  /\ \A steps \in Seq(Names), step \in Names :
       /\ Rooted(steps) \in Names
       /\ Rooted(Append(steps, step)) = Rooted(steps) \o (<<"/">> \o step)
<1>1. Rooted(<<>>) = <<>>
  BY DEF Rooted
<1>2. ASSUME NEW steps \in Seq(Names), NEW step \in Names
      PROVE  /\ Rooted(steps) \in Names
             /\ Rooted(Append(steps, step)) = Rooted(steps) \o (<<"/">> \o step)
  <2> DEFINE slash == <<"/">>
             more == Append(steps, step)
             j == Joined(steps)
             s == slash \o step
  <2>1. slash \in Names /\ <<>> \in Names /\ more # <<>>
    <3>1. slash \in Names
      BY DEF Names, Token
    <3>2. <<>> \in Names
      BY DEF Names
    <3>3. Len(more) = Len(steps) + 1 /\ more \in Seq(Names) /\ Len(steps) \in Nat
      BY OneElement
    <3> HIDE DEF more
    <3>4. more # <<>>
      BY <3>3, Elements
    <3> QED
      BY <3>1, <3>2, <3>4
  <2>2. j \in Names /\ Joined(more) = IF steps = <<>> THEN step ELSE j \o s
    BY JoinedOneMore
  <2>3. Rooted(steps) = IF steps = <<>> THEN <<>> ELSE slash \o j
    BY DEF Rooted
  <2>4. Rooted(more) = slash \o Joined(more)
    BY <2>1 DEF Rooted
  <2> HIDE DEF slash, j, more
  <2>5. s \in Names /\ slash \o j \in Names
    BY <2>1, <2>2, NameConcat
  <2> HIDE DEF s
  <2>6. slash \o (j \o s) = (slash \o j) \o s /\ <<>> \o s = s
    BY <2>1, <2>2, <2>5, JoinedNames, ZenonT(60)
  <2>7. Rooted(more) = Rooted(steps) \o s
    BY <2>2, <2>3, <2>4, <2>6 DEF s
  <2>8. Rooted(steps) \in Names
    BY <2>1, <2>3, <2>5
  <2> QED
    BY <2>7, <2>8 DEF s, more, slash
<1> QED
  BY <1>1, <1>2

\* The steps of a path may be given in two parts.
LEMMA RootedConcat ==
  \A a, b \in Seq(Names) : Rooted(a \o b) = Rooted(a) \o Rooted(b)
<1> SUFFICES ASSUME NEW a \in Seq(Names)
             PROVE  \A b \in Seq(Names) : Rooted(a \o b) = Rooted(a) \o Rooted(b)
  OBVIOUS
<1> DEFINE T == {b \in Seq(Names) : Rooted(a \o b) = Rooted(a) \o Rooted(b)}
<1>1. <<>> \in T
  <2>1. a \o <<>> = a /\ <<>> \in Seq(Names)
    BY Empty
  <2>2. Rooted(a) \o Rooted(<<>>) = Rooted(a)
    BY RootedOneMore, JoinedNames
  <2> QED
    BY <2>1, <2>2
<1>2. ASSUME NEW b \in Seq(Names), NEW x \in Names, b \in T PROVE Append(b, x) \in T
  <2> DEFINE s == <<"/">> \o x
  <2>1. s \in Names
    <3>1. <<"/">> \in Names
      BY DEF Names, Token
    <3> QED
      BY <3>1, JoinedNames
  <2>2. a \o b \in Seq(Names) /\ Append(b, x) \in Seq(Names) /\ a \o Append(b, x) = Append(a \o b, x)
    OBVIOUS
  <2>3. Rooted(Append(a \o b, x)) = Rooted(a \o b) \o s
    BY <2>2, RootedOneMore
  <2>4. Rooted(Append(b, x)) = Rooted(b) \o s
    BY RootedOneMore
  <2>5. Rooted(a \o b) = Rooted(a) \o Rooted(b)
    BY <1>2
  <2>6. Rooted(a) \in Names /\ Rooted(b) \in Names
    BY RootedOneMore
  <2> HIDE DEF s
  <2>7. (Rooted(a) \o Rooted(b)) \o s = Rooted(a) \o (Rooted(b) \o s)
    BY <2>1, <2>6, JoinedNames
  <2> QED
    BY <2>2, <2>3, <2>4, <2>5, <2>7
<1> HIDE DEF T
<1>3. \A b \in Seq(Names) : b \in T
  BY <1>1, <1>2, SequenceInduction
<1> QED
  BY <1>3 DEF T

\* A step that is not dots.
Quiet == StepName \ {Up, Same}

\* Steps are names without slashes, colons or number signs.
LEMMA StepsAreNames ==
  /\ StepName \subseteq Names /\ Seq(StepName) \subseteq Seq(Names)
  /\ Quiet \subseteq StepName /\ Seq(Quiet) \subseteq Seq(StepName)
  /\ \A s \in StepName : \A i \in 1 .. Len(s) : s[i] \notin {"/", ":", "#"}
  /\ <<"/">> \in Names
<1>1. StepName \subseteq Names
  <2>1. Word \cup {"."} \subseteq Token
    BY DEF Token
  <2> QED
    BY <2>1, SequencesOfMore DEF StepName, Names
<1>2. Quiet \subseteq StepName
  BY DEF Quiet
<1>3. Seq(StepName) \subseteq Seq(Names) /\ Seq(Quiet) \subseteq Seq(StepName)
  BY <1>1, <1>2, SequencesOfMore
<1>4. ASSUME NEW s \in StepName, NEW i \in 1 .. Len(s) PROVE s[i] \notin {"/", ":", "#"}
  <2>1. s[i] \in Word \cup {"."}
    BY Elements DEF StepName
  <2> QED
    BY <2>1, DocumentsAssumption
<1>5. <<"/">> \in Names
  BY DEF Names, Token
<1> QED
  BY <1>1, <1>2, <1>3, <1>4, <1>5

\* The greatest and the least of a set of places.
LEMMA Extremes ==
  ASSUME NEW T \in SUBSET Nat, NEW n \in T
  PROVE  /\ (\A m \in T : m <= n) => Max(T) = n /\ LastOf(T, 0) = n
         /\ (\A m \in T : n <= m) => Min(T) = n /\ \A o : FirstOf(T, o) = n
<1>1. ASSUME \A m \in T : m <= n PROVE Max(T) = n
  <2> DEFINE P(x) == \A m \in T : x >= m
  <2>1. n \in T /\ P(n)
    BY <1>1
  <2>2. \A x \in T : P(x) => x = n
    BY <1>1
  <2>3. Max(T) = CHOOSE x \in T : P(x)
    BY DEF Max
  <2> HIDE DEF P
  <2> QED
    BY <2>1, <2>2, <2>3
<1>2. ASSUME \A m \in T : n <= m PROVE Min(T) = n
  <2> DEFINE P(x) == \A m \in T : x <= m
  <2>1. n \in T /\ P(n)
    BY <1>2
  <2>2. \A x \in T : P(x) => x = n
    BY <1>2
  <2>3. Min(T) = CHOOSE x \in T : P(x)
    BY DEF Min
  <2> HIDE DEF P
  <2> QED
    BY <2>1, <2>2, <2>3
<1> QED
  BY <1>1, <1>2 DEF LastOf, FirstOf

-----------------------------------------------------------------------------
(* HTSimplify.                                                             *)

\* Where xxx/../ and /./ are found.
ReadsUp(s, p) == p + 3 <= Len(s) /\ s[p] = "/" /\ s[p + 1] = "." /\ s[p + 2] = "." /\ s[p + 3] = "/"
ReadsSame(s, p) == p + 2 <= Len(s) /\ s[p] = "/" /\ s[p + 1] = "." /\ s[p + 2] = "/"

\* A pattern is read where its tokens are.
LEMMA WhatIsRead ==
  ASSUME NEW s \in Names, NEW p \in Nat \ {0}
  PROVE  /\ Reads(s, p, <<"/", ".", ".", "/">>) <=> ReadsUp(s, p)
         /\ Reads(s, p, <<"/", ".", "/">>) <=> ReadsSame(s, p)
<1> DEFINE up == <<"/", ".", ".", "/">>
           same == <<"/", ".", "/">>
<1>1. /\ up \in Names /\ Len(up) = 4 /\ up[1] = "/" /\ up[2] = "." /\ up[3] = "." /\ up[4] = "/"
      /\ same \in Names /\ Len(same) = 3 /\ same[1] = "/" /\ same[2] = "." /\ same[3] = "/"
  BY DEF Names, Token
<1> HIDE DEF up, same
<1>2. Reads(s, p, up) <=> ReadsUp(s, p)
  <2>1. CASE p + 3 <= Len(s)
    <3> DEFINE r == SubSeq(s, p, p + 3)
    <3>1. p + 4 - 1 = p + 3 /\ p + 3 \in Nat /\ p \in Nat /\ p >= 1 /\ (p + 3) - p + 1 = 4
      OBVIOUS
    <3>2. /\ r \in Seq(Token) /\ Len(r) = 4
          /\ \A i \in 1 .. 4 : r[i] = s[p + i - 1]
      BY <2>1, <3>1, Slice DEF Names
    <3> HIDE DEF r
    <3>3. r[1] = s[p] /\ r[2] = s[p + 1] /\ r[3] = s[p + 2] /\ r[4] = s[p + 3]
      BY <3>1, <3>2
    <3>4. Reads(s, p, up) <=> r = up
      BY <2>1, <3>1, <1>1 DEF Reads, r
    <3>5. r = up <=> \A i \in 1 .. 4 : r[i] = up[i]
      BY <3>2, <1>1, SameSequence DEF Names
    <3> QED
      BY <2>1, <3>3, <3>4, <3>5, <1>1 DEF ReadsUp
  <2>2. CASE ~(p + 3 <= Len(s))
    BY <2>2, <1>1 DEF Reads, ReadsUp
  <2> QED
    BY <2>1, <2>2
<1>3. Reads(s, p, same) <=> ReadsSame(s, p)
  <2>1. CASE p + 2 <= Len(s)
    <3> DEFINE r == SubSeq(s, p, p + 2)
    <3>1. p + 3 - 1 = p + 2 /\ p + 2 \in Nat /\ p \in Nat /\ p >= 1 /\ (p + 2) - p + 1 = 3
      OBVIOUS
    <3>2. /\ r \in Seq(Token) /\ Len(r) = 3
          /\ \A i \in 1 .. 3 : r[i] = s[p + i - 1]
      BY <2>1, <3>1, Slice DEF Names
    <3> HIDE DEF r
    <3>3. r[1] = s[p] /\ r[2] = s[p + 1] /\ r[3] = s[p + 2]
      BY <3>1, <3>2
    <3>4. Reads(s, p, same) <=> r = same
      BY <2>1, <3>1, <1>1 DEF Reads, r
    <3>5. r = same <=> \A i \in 1 .. 3 : r[i] = same[i]
      BY <3>2, <1>1, SameSequence DEF Names
    <3> QED
      BY <2>1, <3>3, <3>4, <3>5, <1>1 DEF ReadsSame
  <2>2. CASE ~(p + 2 <= Len(s))
    BY <2>2, <1>1 DEF Reads, ReadsSame
  <2> QED
    BY <2>1, <2>2
<1> QED
  BY <1>2, <1>3 DEF up, same

\* A name with nothing in it to be read, also when a slash comes after it.
Clear(t) == \A q \in 3 .. Len(t) : ~ReadsUp(t \o <<"/">>, q) /\ ~ReadsSame(t \o <<"/">>, q)

\* Nothing is read in such a name when there is more after it.
LEMMA NothingRead ==
  ASSUME NEW t \in Names, Clear(t), NEW rest \in Names, rest = <<>> \/ rest[1] = "/",
         NEW q \in 3 .. Len(t)
  PROVE  ~ReadsUp(t \o rest, q) /\ ~ReadsSame(t \o rest, q)
<1> DEFINE u == t \o rest
           v == t \o <<"/">>
<1>1. Len(t) \in Nat /\ Len(rest) \in Nat /\ (rest = <<>> => Len(rest) = 0)
  BY NameElements
<1>2. /\ Len(u) = Len(t) + Len(rest) /\ \A i \in 1 .. Len(t) : u[i] = t[i]
      /\ \A i \in 1 .. Len(rest) : u[Len(t) + i] = rest[i]
  BY NameConcat
<1>3. /\ Len(v) = Len(t) + 1 /\ \A i \in 1 .. Len(t) : v[i] = t[i]
      /\ v[Len(t) + 1] = "/"
  <2>1. <<"/">> \in Names /\ Len(<<"/">>) \in 1 .. 1 /\ <<"/">>[1] = "/"
    BY DEF Names, Token
  <2> QED
    BY <2>1, NameConcat
<1>4. ~ReadsUp(v, q) /\ ~ReadsSame(v, q)
  BY DEF Clear
<1> HIDE DEF u, v
<1>5. Len(u) > Len(t) => u[Len(t) + 1] = "/"
  BY <1>1, <1>2
<1>6. q \in 1 .. Len(t) /\ \A i \in 1 .. Len(t) : u[i] = v[i]
  BY <1>1, <1>2, <1>3
<1>7. ~ReadsUp(u, q)
  <2> SUFFICES ASSUME q + 3 <= Len(u), u[q] = "/", u[q + 1] = ".", u[q + 2] = ".", u[q + 3] = "/"
               PROVE  FALSE
    BY DEF ReadsUp
  <2>1. CASE Len(t) >= q + 2
    <3>1. v[q] = "/" /\ v[q + 1] = "." /\ v[q + 2] = "."
      BY <2>1, <1>1, <1>6
    <3>2. v[q + 3] = "/"
      <4>1. CASE Len(t) >= q + 3
        BY <4>1, <1>1, <1>6
      <4>2. CASE Len(t) + 1 = q + 3
        BY <4>2, <1>3
      <4> QED
        BY <2>1, <4>1, <4>2, <1>1
    <3>3. q + 3 <= Len(v)
      BY <2>1, <1>1, <1>3
    <3> QED
      BY <3>1, <3>2, <3>3, <1>4 DEF ReadsUp
  <2>2. CASE Len(t) + 1 = q + 1 \/ Len(t) + 1 = q + 2
    BY <2>2, <1>1, <1>5
  <2> QED
    BY <2>1, <2>2, <1>1
<1>8. ~ReadsSame(u, q)
  <2> SUFFICES ASSUME q + 2 <= Len(u), u[q] = "/", u[q + 1] = ".", u[q + 2] = "/" PROVE FALSE
    BY DEF ReadsSame
  <2>1. CASE Len(t) >= q + 1
    <3>1. v[q] = "/" /\ v[q + 1] = "."
      BY <2>1, <1>1, <1>6
    <3>2. v[q + 2] = "/"
      <4>1. CASE Len(t) >= q + 2
        BY <4>1, <1>1, <1>6
      <4>2. CASE Len(t) + 1 = q + 2
        BY <4>2, <1>3
      <4> QED
        BY <2>1, <4>1, <4>2, <1>1
    <3>3. q + 2 <= Len(v)
      BY <2>1, <1>1, <1>3
    <3> QED
      BY <3>1, <3>2, <3>3, <1>4 DEF ReadsSame
  <2>2. CASE Len(t) + 1 = q + 1
    BY <2>2, <1>1, <1>5
  <2> QED
    BY <2>1, <2>2, <1>1
<1> QED
  BY <1>7, <1>8 DEF u

\* A name with one more token before it, and with one more behind it.
Led(c, x, s) ==
  /\ c \in Names /\ Len(c) = Len(s) + 1 /\ Len(s) \in Nat /\ c[1] = x
  /\ \A i \in 1 .. Len(s) : c[i + 1] = s[i]
Ended(c, s, x) ==
  /\ c \in Names /\ Len(c) = Len(s) + 1 /\ Len(s) \in Nat /\ c[Len(s) + 1] = x
  /\ \A i \in 1 .. Len(s) : c[i] = s[i]

\* One more token goes before or behind a name.
LEMMA OneToken ==
  \A x \in Token : /\ <<x>> \in Names
                   /\ \A s \in Names : Led(<<x>> \o s, x, s) /\ Ended(s \o <<x>>, s, x)
<1> SUFFICES ASSUME NEW x \in Token, NEW s \in Seq(Token)
             PROVE  <<x>> \in Seq(Token) /\ Led(<<x>> \o s, x, s) /\ Ended(s \o <<x>>, s, x)
  BY Empty DEF Names
<1>1. /\ <<x>> \o s \in Seq(Token) /\ Len(<<x>> \o s) = Len(s) + 1 /\ Len(s) \in Nat
      /\ (<<x>> \o s)[1] = x /\ \A i \in 1 .. Len(s) : (<<x>> \o s)[i + 1] = s[i]
  OBVIOUS
<1>2. /\ s \o <<x>> \in Seq(Token) /\ Len(s \o <<x>>) = Len(s) + 1
      /\ (s \o <<x>>)[Len(s) + 1] = x /\ \A i \in 1 .. Len(s) : (s \o <<x>>)[i] = s[i]
  OBVIOUS
<1> QED
  BY <1>1, <1>2 DEF Led, Ended, Names

\* What begins with a dot and is not dots goes on with something else.
LEMMA NotDots ==
  ASSUME NEW s \in Names, ~Dots(s), Len(s) >= 1, s[1] = "."
  PROVE  Len(s) >= 2 /\ (s[2] = "." => Len(s) >= 3)
<1>1. Len(s) \in Nat
  BY NameElements
<1>2. Same \in Names /\ Len(Same) >= 1 /\ Len(Same) <= 1 /\ Same[1] = "."
  BY DEF Names, Token, Same
<1>3. Up \in Names /\ Len(Up) >= 2 /\ Len(Up) <= 2 /\ Up[1] = "." /\ Up[2] = "."
  BY DEF Names, Token, Up
<1>4. s # Up /\ s # Same
  BY DEF Dots
<1>5. ASSUME ~(Len(s) >= 2) PROVE FALSE
  <2>1. Len(s) = Len(Same) /\ \A i \in 1 .. Len(s) : s[i] = Same[i]
    BY <1>1, <1>2, <1>5
  <2> QED
    BY <1>2, <1>4, <2>1, SameNames
<1>6. ASSUME Len(s) >= 2, s[2] = ".", ~(Len(s) >= 3) PROVE FALSE
  <2>1. Len(s) = Len(Up) /\ \A i \in 1 .. Len(s) : s[i] = Up[i]
    BY <1>1, <1>3, <1>6
  <2> QED
    BY <1>3, <1>4, <2>1, SameNames
<1> QED
  BY <1>5, <1>6

\* A name without a slash.
Slashless(s) == \A i \in 1 .. Len(s) : s[i] # "/"

\* A step that is not dots leaves the name clear.
LEMMA ClearOneMore ==
  ASSUME NEW t \in Names, Clear(t), NEW step \in Names, ~Dots(step), Slashless(step)
  PROVE  Clear(t \o (<<"/">> \o step))
<1> DEFINE slash == <<"/">>
           s == slash \o step
           u == t \o s
           v == u \o slash
           r == s \o slash
<1>1. slash \in Names /\ Led(s, "/", step) /\ Ended(r, s, "/")
  <2>1. "/" \in Token
    BY DEF Token
  <2>2. slash \in Names /\ Led(s, "/", step)
    BY <2>1, OneToken
  <2>3. s \in Names
    BY <2>2 DEF Led
  <2> HIDE DEF s
  <2> QED
    BY <2>1, <2>2, <2>3, OneToken
<1> HIDE DEF slash
<1>2. Len(t) \in Nat /\ Len(step) \in Nat
  BY NameElements
<1>3. /\ s \in Names /\ Len(s) = Len(step) + 1 /\ s[1] = "/"
      /\ \A i \in 1 .. Len(step) : s[i + 1] = step[i]
  BY <1>1 DEF Led
<1> HIDE DEF s
<1>4. /\ r \in Names /\ Len(r) = Len(step) + 2 /\ r[Len(step) + 2] = "/"
      /\ \A i \in 1 .. Len(step) + 1 : r[i] = s[i]
  <2> HIDE DEF r
  <2>1. /\ r \in Names /\ Len(r) = Len(s) + 1 /\ r[Len(s) + 1] = "/"
        /\ \A i \in 1 .. Len(s) : r[i] = s[i]
    BY <1>1 DEF Ended
  <2>2. Len(s) + 1 = Len(step) + 2
    BY <1>2, <1>3
  <2> QED
    BY <2>1, <2>2, <1>3
<1>5. IsConcat(u, t, s) /\ IsConcat(v, t, r)
  <2>1. (t \o s) \o slash = t \o (s \o slash)
    BY <1>1, <1>3, JoinedNames
  <2> QED
    BY <2>1 DEF IsConcat
<1> HIDE DEF u, v, r
<1>6. v = t \o r
  BY <1>5 DEF IsConcat
<1>7. u \in Names /\ Len(u) = Len(t) + 1 + Len(step)
  <2>1. u \in Names /\ Len(u) = Len(t) + Len(s)
    BY <1>3, <1>5, IsConcatElements
  <2> QED
    BY <2>1, <1>2, <1>3
<1>8. /\ Len(v) = Len(t) + 2 + Len(step)
      /\ v[Len(t) + 1] = "/" /\ v[Len(t) + 2 + Len(step)] = "/"
      /\ \A i \in 1 .. Len(step) : v[Len(t) + 1 + i] = step[i]
  <2>1. Len(v) = Len(t) + Len(r) /\ \A i \in 1 .. Len(r) : v[Len(t) + i] = r[i]
    BY <1>4, <1>5, IsConcatElements
  <2>2. v[Len(t) + 1] = "/"
    <3>1. 1 \in 1 .. Len(r) /\ 1 \in 1 .. Len(step) + 1
      BY <1>2, <1>4
    <3> QED
      BY <1>3, <1>4, <2>1, <3>1
  <2>3. v[Len(t) + 2 + Len(step)] = "/"
    <3>1. Len(r) \in 1 .. Len(r) /\ Len(t) + Len(r) = Len(t) + 2 + Len(step)
      BY <1>2, <1>4
    <3> QED
      BY <1>4, <2>1, <3>1
  <2>4. ASSUME NEW i \in 1 .. Len(step) PROVE v[Len(t) + 1 + i] = step[i]
    <3>1. i + 1 \in 1 .. Len(r) /\ i + 1 \in 1 .. Len(step) + 1 /\ Len(t) + (i + 1) = Len(t) + 1 + i
      BY <1>2, <1>4
    <3> QED
      BY <1>3, <1>4, <2>1, <3>1
  <2> QED
    BY <1>2, <1>4, <2>1, <2>2, <2>3, <2>4
<1>9. Len(step) >= 1 /\ step[1] = "." => Len(step) >= 2 /\ (step[2] = "." => Len(step) >= 3)
  BY NotDots
<1>10. ASSUME NEW q \in 3 .. Len(u) PROVE ~ReadsUp(v, q) /\ ~ReadsSame(v, q)
  <2>1. CASE q <= Len(t)
    <3>1. q \in 3 .. Len(t)
      BY <2>1, <1>2
    <3>2. r[1] = "/"
      <4>1. 1 \in 1 .. Len(step) + 1
        BY <1>2
      <4> QED
        BY <4>1, <1>3, <1>4
    <3> QED
      BY <1>4, <1>6, <3>1, <3>2, NothingRead
  <2>2. CASE q = Len(t) + 1
    <3>1. ~ReadsUp(v, q)
      <4> SUFFICES ASSUME ReadsUp(v, q) PROVE FALSE
        OBVIOUS
      <4>1. v[Len(t) + 2] = "." /\ v[Len(t) + 3] = "." /\ v[Len(t) + 4] = "/"
            /\ Len(t) + 4 <= Len(t) + 2 + Len(step)
        BY <2>2, <1>2, <1>8 DEF ReadsUp
      <4>2. 1 \in 1 .. Len(step) /\ 2 \in 1 .. Len(step)
            /\ Len(t) + 1 + 1 = Len(t) + 2 /\ Len(t) + 1 + 2 = Len(t) + 3
        BY <4>1, <1>2
      <4>3. step[1] = "." /\ step[2] = "."
        BY <4>1, <4>2, <1>8
      <4>4. 3 \in 1 .. Len(step) /\ Len(t) + 1 + 3 = Len(t) + 4
        BY <4>2, <4>3, <1>2, <1>9
      <4>5. step[3] = "/"
        BY <4>1, <4>4, <1>8
      <4> QED
        BY <4>4, <4>5 DEF Slashless
    <3>2. ~ReadsSame(v, q)
      <4> SUFFICES ASSUME ReadsSame(v, q) PROVE FALSE
        OBVIOUS
      <4>1. v[Len(t) + 2] = "." /\ v[Len(t) + 3] = "/"
            /\ Len(t) + 3 <= Len(t) + 2 + Len(step)
        BY <2>2, <1>2, <1>8 DEF ReadsSame
      <4>2. 1 \in 1 .. Len(step) /\ Len(t) + 1 + 1 = Len(t) + 2
        BY <4>1, <1>2
      <4>3. step[1] = "."
        BY <4>1, <4>2, <1>8
      <4>4. 2 \in 1 .. Len(step) /\ Len(t) + 1 + 2 = Len(t) + 3
        BY <4>2, <4>3, <1>2, <1>9
      <4>5. step[2] = "/"
        BY <4>1, <4>4, <1>8
      <4> QED
        BY <4>4, <4>5 DEF Slashless
    <3> QED
      BY <3>1, <3>2
  <2>3. CASE q > Len(t) + 1
    <3>1. q - (Len(t) + 1) \in 1 .. Len(step) /\ Len(t) + 1 + (q - (Len(t) + 1)) = q
      BY <2>3, <1>2, <1>7
    <3>2. v[q] # "/"
      BY <1>8, <3>1 DEF Slashless
    <3> QED
      BY <3>2 DEF ReadsUp, ReadsSame
  <2> QED
    BY <2>1, <2>2, <2>3, <1>2
<1> QED
  BY <1>10 DEF Clear, u, v, s, slash

\* A name with the place in it that the search has come to.
Position == [name : Names, p : Nat \ {0}]

\* The slashes before a place.
SlashesBefore(s, p) == {i \in Places(s, "/") : i < p}

\* What a turn does, told by what is read.
LEMMA TurnReads ==
  ASSUME NEW s \in Names, NEW p \in Nat \ {0}
  PROVE  LET at == [name |-> s, p |-> p]
             b  == SlashesBefore(s, p)
         IN  /\ p > Len(s) => Turn(at) = at
             /\ p <= Len(s) /\ ~ReadsUp(s, p) /\ ~ReadsSame(s, p)
                  => Turn(at) = [name |-> s, p |-> p + 1]
             /\ ReadsUp(s, p) /\ b # {}
                  => Turn(at) = [name |-> UpTo(s, Max(b)) \o From(s, p + 4), p |-> Max(b)]
             /\ ReadsUp(s, p) /\ b = {} => Turn(at) = [name |-> From(s, p + 4), p |-> 2]
             /\ ReadsSame(s, p)
                  => Turn(at) = [name |-> UpTo(s, p - 1) \o From(s, p + 2), p |-> p + 1]
<1> DEFINE at == [name |-> s, p |-> p]
           b  == SlashesBefore(s, p)
<1>1. at.name = s /\ at.p = p /\ Len(s) \in Nat
  BY NameElements
<1>2. /\ Reads(s, p, <<"/", ".", ".", "/">>) <=> ReadsUp(s, p)
      /\ Reads(s, p, <<"/", ".", "/">>) <=> ReadsSame(s, p)
  BY WhatIsRead
<1>3. ReadsUp(s, p) => p <= Len(s) /\ ~ReadsSame(s, p)
  BY <1>1 DEF ReadsUp, ReadsSame
<1>4. ReadsSame(s, p) => p <= Len(s) /\ ~ReadsUp(s, p)
  BY <1>1 DEF ReadsUp, ReadsSame
<1>5. p > Len(s) <=> ~(p <= Len(s))
  BY <1>1
<1> HIDE DEF at
<1>6. p > Len(s) => Turn(at) = at
  BY <1>1, <1>2, <1>3, <1>4, <1>5 DEF Turn
<1>7. p <= Len(s) /\ ~ReadsUp(s, p) /\ ~ReadsSame(s, p) => Turn(at) = [name |-> s, p |-> p + 1]
  BY <1>1, <1>2, <1>5 DEF Turn
<1>8. ReadsUp(s, p) /\ b # {}
        => Turn(at) = [name |-> UpTo(s, Max(b)) \o From(s, p + 4), p |-> Max(b)]
  BY <1>1, <1>2, <1>3, <1>5 DEF Turn, SlashesBefore
<1>9. ReadsUp(s, p) /\ b = {} => Turn(at) = [name |-> From(s, p + 4), p |-> 2]
  BY <1>1, <1>2, <1>3, <1>5 DEF Turn, SlashesBefore
<1>10. ReadsSame(s, p) => Turn(at) = [name |-> UpTo(s, p - 1) \o From(s, p + 2), p |-> p + 1]
  BY <1>1, <1>2, <1>4, <1>5 DEF Turn
<1> QED
  BY <1>6, <1>7, <1>8, <1>9, <1>10 DEF at

\* The last slash before a place is there.
LEMMA LastSlash ==
  ASSUME NEW s \in Names, NEW p \in Nat, SlashesBefore(s, p) # {}
  PROVE  /\ Max(SlashesBefore(s, p)) \in SlashesBefore(s, p)
         /\ Max(SlashesBefore(s, p)) \in 1 .. Len(s)
<1> DEFINE b == SlashesBefore(s, p)
<1>1. Len(s) \in Nat /\ b \in SUBSET (0 .. Len(s)) /\ b \subseteq 1 .. Len(s)
  BY NameElements DEF SlashesBefore, Places
<1> HIDE DEF b
<1>2. PICK n \in b : \A m \in b : m <= n
  BY <1>1, GreatestElement DEF b
<1>3. b \in SUBSET Nat
  BY <1>1
<1>4. Max(b) = n
  BY <1>2, <1>3, Extremes
<1> QED
  BY <1>1, <1>2, <1>4 DEF b

\* A turn makes a position of a position.
LEMMA TurnClosed ==
  ASSUME NEW at \in Position
  PROVE  Turn(at) \in Position
<1>1. PICK s \in Names, p \in Nat \ {0} : at = [name |-> s, p |-> p]
  BY DEF Position
<1>2. Len(s) \in Nat
  BY NameElements
<1>3. CASE p > Len(s)
  BY <1>1, <1>3, TurnReads
<1>4. CASE p <= Len(s) /\ ~ReadsUp(s, p) /\ ~ReadsSame(s, p)
  <2>1. Turn(at) = [name |-> s, p |-> p + 1]
    BY <1>1, <1>4, TurnReads
  <2> QED
    BY <2>1 DEF Position
<1>5. CASE ReadsUp(s, p)
  <2>1. p + 3 \in 0 .. Len(s) /\ (p + 3) + 1 = p + 4
    BY <1>2, <1>5 DEF ReadsUp
  <2>2. From(s, p + 4) \in Names
    BY <2>1, NameSides
  <2>3. CASE SlashesBefore(s, p) = {}
    <3>1. Turn(at) = [name |-> From(s, p + 4), p |-> 2]
      BY <1>1, <1>5, <2>3, TurnReads
    <3> QED
      BY <2>2, <3>1 DEF Position
  <2>4. CASE SlashesBefore(s, p) # {}
    <3> DEFINE m == Max(SlashesBefore(s, p))
    <3>1. m \in 1 .. Len(s)
      BY <2>4, LastSlash
    <3>2. Turn(at) = [name |-> UpTo(s, m) \o From(s, p + 4), p |-> m]
      BY <1>1, <1>5, <2>4, TurnReads
    <3> HIDE DEF m
    <3>3. m \in Nat \ {0} /\ m \in 0 .. Len(s)
      BY <1>2, <3>1
    <3>4. UpTo(s, m) \in Names
      BY <3>3, NameSides
    <3>5. UpTo(s, m) \o From(s, p + 4) \in Names
      BY <2>2, <3>4, JoinedNames
    <3> QED
      BY <3>2, <3>3, <3>5 DEF Position
  <2> QED
    BY <2>3, <2>4
<1>6. CASE ReadsSame(s, p)
  <2>1. /\ p + 1 \in 0 .. Len(s) /\ (p + 1) + 1 = p + 2 /\ p - 1 \in 0 .. Len(s)
        /\ p + 1 \in Nat \ {0}
    BY <1>2, <1>6 DEF ReadsSame
  <2>2. From(s, p + 2) \in Names /\ UpTo(s, p - 1) \in Names
    BY <2>1, NameSides
  <2>3. UpTo(s, p - 1) \o From(s, p + 2) \in Names
    BY <2>2, JoinedNames
  <2>4. Turn(at) = [name |-> UpTo(s, p - 1) \o From(s, p + 2), p |-> p + 1]
    BY <1>1, <1>6, TurnReads
  <2> QED
    BY <2>1, <2>3, <2>4 DEF Position
<1> QED
  BY <1>2, <1>3, <1>4, <1>5, <1>6

\* The turns that HTSimplify makes.
LEMMA Turns ==
  ASSUME NEW filename \in Names
  PROVE  \E turned \in [0 .. Len(filename) -> Position] :
           /\ turned[0] = [name |-> filename, p |-> 3]
           /\ \A k \in 1 .. Len(filename) : turned[k] = Turn(turned[k - 1])
           /\ HTSimplify(filename) = turned[Len(filename)].name
<1> DEFINE n == Len(filename)
           a == [name |-> filename, p |-> 3]
           G == [x \in Nat \X Position |-> Turn(x[2])]
           Is(f) == f = [k \in 0 .. n |-> IF k = 0 THEN a ELSE Turn(f[k - 1])]
<1>1. n \in Nat /\ a \in Position
  BY NameElements DEF Position
<1> HIDE DEF a
<1>2. G \in [Nat \X Position -> Position]
  BY TurnClosed
<1> HIDE DEF n
<1>3. PICK g : Recurs(g, Position, a, n, G)
  <2> HIDE DEF G
  <2> QED
    BY <1>1, <1>2, RecursiveFunction
<1>4. ASSUME NEW k \in 1 .. n PROVE g[k] = Turn(g[k - 1])
  <2>1. <<k, g[k - 1]>> \in Nat \X Position
    BY <1>1, <1>3 DEF Recurs
  <2>2. G[<<k, g[k - 1]>>] = Turn(g[k - 1])
    BY <2>1
  <2> HIDE DEF G
  <2> QED
    BY <1>3, <2>2 DEF Recurs
<1>5. g \in [0 .. n -> Position] /\ g[0] = a
  BY <1>3 DEF Recurs
<1>6. Is(g)
  <2>1. ASSUME NEW k \in 0 .. n PROVE g[k] = IF k = 0 THEN a ELSE Turn(g[k - 1])
    <3>1. CASE k = 0
      BY <3>1, <1>5
    <3>2. CASE k # 0
      <4>1. k \in 1 .. n
        BY <3>2
      <4> QED
        BY <3>2, <4>1, <1>4
    <3> QED
      BY <3>1, <3>2
  <2> QED
    BY <1>5, <2>1
<1> DEFINE turned == CHOOSE f : Is(f)
<1>7. Is(turned)
  BY <1>6
<1>8. HTSimplify(filename) = turned[n].name
  BY DEF HTSimplify, n, a
<1>9. ASSUME NEW f, Is(f) PROVE f = g
  <2>1. ASSUME NEW k \in 1 .. n, f[k - 1] = g[k - 1] PROVE f[k] = g[k]
    <3>1. k \in 0 .. n /\ k # 0
      BY <1>1
    <3>2. f[k] = Turn(f[k - 1])
      BY <3>1, <1>9
    <3> QED
      BY <2>1, <3>2, <1>4
  <2>2. f[0] = g[0]
    BY <1>1, <1>5, <1>9
  <2>3. \A k \in 0 .. n : f[k] = g[k]
    <3>1. GoOnAlike(f, g, 0, n)
      BY <2>1, <2>2 DEF GoOnAlike
    <3>2. 0 \in Nat /\ n \in Nat
      BY <1>1
    <3> QED
      BY <3>1, <3>2, SameValues
  <2>4. f = [k \in 0 .. n |-> f[k]] /\ g = [k \in 0 .. n |-> g[k]]
    BY <1>5, <1>9
  <2> QED
    BY <2>3, <2>4
<1>10. turned = g
  <2> HIDE DEF Is
  <2> QED
    BY <1>7, <1>9
<1> QED
  BY <1>4, <1>5, <1>8, <1>10 DEF n, a

\* All but the last of a sequence.
LEMMA FrontOf ==
  ASSUME NEW S, NEW s \in Seq(S)
  PROVE  /\ Front(s) \in Seq(S)
         /\ s # <<>> => /\ Front(s) = UpTo(s, Len(s) - 1) /\ Len(Front(s)) = Len(s) - 1
                        /\ Last(s) = s[Len(s)] /\ Last(s) \in S
                        /\ s = Append(Front(s), Last(s))
         /\ \A x \in S : Front(Append(s, x)) = s /\ Last(Append(s, x)) = x
<1>1. CASE s = <<>>
  <2>1. Front(s) \in Seq(S)
    BY <1>1 DEF Front
  <2>2. ASSUME NEW x \in S PROVE Front(Append(s, x)) = s /\ Last(Append(s, x)) = x
    BY <1>1 DEF Front, Last
  <2> QED
    BY <1>1, <2>1, <2>2
<1>2. CASE s # <<>>
  <2>1. /\ Front(s) = UpTo(s, Len(s) - 1) /\ Last(s) = s[Len(s)]
    BY DEF Front, Last, UpTo
  <2>2. Len(s) \in Nat /\ Len(s) # 0 /\ s[Len(s)] \in S
    BY <1>2, Elements
  <2>3. Len(s) - 1 \in 0 .. Len(s)
    BY <2>2
  <2>4. /\ Front(s) \in Seq(S) /\ Len(Front(s)) = Len(s) - 1
        /\ \A i \in 1 .. Len(s) - 1 : Front(s)[i] = s[i]
    <3> DEFINE k == Len(s) - 1
    <3>1. k \in 0 .. Len(s)
      BY <2>3
    <3> HIDE DEF k
    <3>2. UpTo(s, k) \in Seq(S) /\ Len(UpTo(s, k)) = k /\ \A i \in 1 .. k : UpTo(s, k)[i] = s[i]
      BY <3>1, Sides
    <3> QED
      BY <2>1, <3>2 DEF k
  <2> DEFINE t == Append(Front(s), Last(s))
  <2>5. /\ t \in Seq(S) /\ Len(t) = Len(s) - 1 + 1 /\ t[Len(s) - 1 + 1] = s[Len(s)]
        /\ \A i \in 1 .. Len(s) - 1 : t[i] = Front(s)[i]
    BY <2>1, <2>2, <2>4, OneElement
  <2> HIDE DEF t
  <2>6. \A i \in 1 .. Len(s) : s[i] = t[i]
    BY <2>2, <2>4, <2>5
  <2>7. s = t
    BY <2>2, <2>5, <2>6, SameSequence
  <2>8. ASSUME NEW x \in S PROVE Front(Append(s, x)) = s /\ Last(Append(s, x)) = x
    <3> DEFINE u == Append(s, x)
    <3>1. /\ u \in Seq(S) /\ Len(u) = Len(s) + 1 /\ u[Len(s) + 1] = x
          /\ \A i \in 1 .. Len(s) : u[i] = s[i]
      BY OneElement
    <3> HIDE DEF u
    <3>2. Front(u) = UpTo(u, Len(s)) /\ Last(u) = x
      BY <3>1, <2>2 DEF Front, Last, UpTo
    <3>3. Len(s) \in 0 .. Len(u)
      BY <2>2, <3>1
    <3>4. /\ Front(u) \in Seq(S) /\ Len(Front(u)) = Len(s)
          /\ \A i \in 1 .. Len(s) : Front(u)[i] = u[i]
      <4> DEFINE k == Len(s)
      <4>1. k \in 0 .. Len(u) /\ u \in Seq(S)
        BY <3>1, <3>3
      <4> HIDE DEF k
      <4>2. UpTo(u, k) \in Seq(S) /\ Len(UpTo(u, k)) = k /\ \A i \in 1 .. k : UpTo(u, k)[i] = u[i]
        BY <4>1, Sides
      <4> QED
        BY <3>2, <4>2 DEF k
    <3>5. \A i \in 1 .. Len(s) : Front(u)[i] = s[i]
      BY <3>1, <3>4
    <3>6. Front(u) = s
      BY <3>4, <3>5, SameSequence
    <3> QED
      BY <3>2, <3>6 DEF u
  <2> QED
    BY <2>1, <2>2, <2>4, <2>7, <2>8 DEF t
<1> QED
  BY <1>1, <1>2

\* Where one step leads to.
Stepped(at, step) == IF step = Up THEN Front(at) ELSE IF step = Same THEN at ELSE Append(at, step)

\* Where the first steps lead to, one by one.
LEMMA WalkedBySteps ==
  ASSUME NEW from \in Seq(Quiet), NEW steps \in Seq(StepName)
  PROVE  /\ Walked(from, steps) \in [0 .. Len(steps) -> Seq(Quiet)]
         /\ Walked(from, steps)[0] = from
         /\ \A i \in 1 .. Len(steps) :
              Walked(from, steps)[i] = Stepped(Walked(from, steps)[i - 1], steps[i])
<1> DEFINE n == Len(steps)
           Q == Seq(Quiet)
           G == [x \in Nat \X Q |-> IF x[1] \in 1 .. n THEN Stepped(x[2], steps[x[1]]) ELSE x[2]]
           Is(f) == f = [i \in 0 .. n |-> CASE i = 0 -> from
                                           [] i > 0 /\ steps[i] = Up -> Front(f[i - 1])
                                           [] i > 0 /\ steps[i] = Same -> f[i - 1]
                                           [] OTHER -> Append(f[i - 1], steps[i])]
<1>1. n \in Nat /\ from \in Q /\ \A i \in 1 .. n : steps[i] \in StepName
  BY Elements
<1>2. \A at \in Q, step \in StepName : Stepped(at, step) \in Q
  <2>1. \A at \in Q : Front(at) \in Q
    BY FrontOf
  <2>2. \A at \in Q, step \in Quiet : Append(at, step) \in Q
    BY OneElement
  <2> HIDE DEF Q
  <2> QED
    BY <2>1, <2>2 DEF Stepped, Quiet
<1> HIDE DEF n, Q
<1>3. G \in [Nat \X Q -> Q]
  BY <1>1, <1>2
<1>4. PICK g : Recurs(g, Q, from, n, G)
  <2> HIDE DEF G
  <2> QED
    BY <1>1, <1>3, RecursiveFunction
<1>5. ASSUME NEW i \in 1 .. n PROVE g[i] = Stepped(g[i - 1], steps[i])
  <2>1. <<i, g[i - 1]>> \in Nat \X Q
    BY <1>1, <1>4 DEF Recurs
  <2>2. G[<<i, g[i - 1]>>] = Stepped(g[i - 1], steps[i])
    BY <2>1
  <2> HIDE DEF G
  <2> QED
    BY <1>4, <2>2 DEF Recurs
<1>6. g \in [0 .. n -> Q] /\ g[0] = from
  BY <1>4 DEF Recurs
<1>7. Is(g)
  <2>1. ASSUME NEW i \in 0 .. n
        PROVE  g[i] = CASE i = 0 -> from
                        [] i > 0 /\ steps[i] = Up -> Front(g[i - 1])
                        [] i > 0 /\ steps[i] = Same -> g[i - 1]
                        [] OTHER -> Append(g[i - 1], steps[i])
    <3>1. CASE i = 0
      BY <3>1, <1>6
    <3>2. CASE i # 0
      <4>1. i \in 1 .. n /\ i > 0
        BY <3>2
      <4>2. Up # Same
        BY SMTT(40) DEF Up, Same
      <4> QED
        BY <3>2, <4>1, <4>2, <1>5 DEF Stepped
    <3> QED
      BY <3>1, <3>2
  <2> QED
    BY <1>6, <2>1
<1> DEFINE at == CHOOSE f : Is(f)
<1>8. Is(at)
  BY <1>7
<1>9. Walked(from, steps) = at
  BY DEF Walked, n
<1>10. ASSUME NEW f, Is(f) PROVE f = g
  <2>1. ASSUME NEW i \in 1 .. n, f[i - 1] = g[i - 1] PROVE f[i] = g[i]
    <3>1. i \in 0 .. n /\ i # 0 /\ i > 0
      BY <1>1
    <3>2. Up # Same
      BY DEF Up, Same
    <3>3. f[i] = Stepped(f[i - 1], steps[i])
      BY <3>1, <3>2, <1>10 DEF Stepped
    <3> QED
      BY <2>1, <3>3, <1>5
  <2>2. f[0] = g[0]
    BY <1>1, <1>6, <1>10
  <2>3. \A i \in 0 .. n : f[i] = g[i]
    <3>1. GoOnAlike(f, g, 0, n)
      BY <2>1, <2>2 DEF GoOnAlike
    <3>2. 0 \in Nat /\ n \in Nat
      BY <1>1
    <3> QED
      BY <3>1, <3>2, SameValues
  <2>4. f = [i \in 0 .. n |-> f[i]] /\ g = [i \in 0 .. n |-> g[i]]
    BY <1>6, <1>10
  <2> QED
    BY <2>3, <2>4
<1>11. at = g
  <2> HIDE DEF Is
  <2> QED
    BY <1>8, <1>10
<1> QED
  BY <1>5, <1>6, <1>9, <1>11 DEF n, Q

\* A slash is a name.
LEMMA Slash == <<"/">> \in Names /\ Len(<<"/">>) \in 1 .. 1 /\ <<"/">>[1] = "/"
BY DEF Names, Token

\* Dots between slashes, and what is behind them.
LEMMA DotsThen ==
  ASSUME NEW r \in Names
  PROVE  LET up   == (<<"/">> \o Up) \o (<<"/">> \o r)
             same == (<<"/">> \o Same) \o (<<"/">> \o r)
         IN  /\ up \in Names /\ Len(up) = Len(r) + 4 /\ Len(r) \in Nat
             /\ up[1] = "/" /\ up[2] = "." /\ up[3] = "." /\ up[4] = "/" /\ From(up, 5) = r
             /\ same \in Names /\ Len(same) = Len(r) + 3
             /\ same[1] = "/" /\ same[2] = "." /\ same[3] = "/" /\ From(same, 3) = <<"/">> \o r
<1> DEFINE slash == <<"/">>
           a == slash \o Up
           b == slash \o Same
           rest == slash \o r
           up == a \o rest
           same == b \o rest
<1>1. slash \in Names /\ Led(rest, "/", r)
  BY OneToken DEF Token
<1>2. /\ a \in Names /\ Len(a) >= 3 /\ Len(a) <= 3
      /\ a[1] = "/" /\ a[2] = "." /\ a[3] = "."
  BY DEF Names, Token, Up
<1>3. b \in Names /\ Len(b) >= 2 /\ Len(b) <= 2 /\ b[1] = "/" /\ b[2] = "."
  BY DEF Names, Token, Same
<1>4. Len(slash) + 1 = 2
  OBVIOUS
<1> HIDE DEF slash, a, b
<1>5. From(rest, 2) = r
  <2>1. From(slash \o r, Len(slash) + 1) = r
    BY <1>1, NameSidesOfConcat
  <2> QED
    BY <2>1, <1>4
<1> HIDE DEF rest
<1>6. rest \in Names /\ Len(rest) = Len(r) + 1 /\ Len(r) \in Nat /\ rest[1] = "/"
  BY <1>1 DEF Led
<1>7. Parts(up, a, rest) /\ Parts(same, b, rest)
  BY <1>2, <1>3, <1>6, ConcatParts
<1>8. From(up, 5) = r
  <2> DEFINE k == 1
  <2>1. k \in 0 .. Len(rest) /\ Len(a) + k + 1 = 5 /\ k + 1 = 2
    BY <1>2, <1>6, <1>7 DEF Parts
  <2> HIDE DEF k
  <2>2. a \in Names /\ rest \in Names /\ k \in 0 .. Len(rest)
    BY <1>2, <1>6, <2>1
  <2>3. From(a \o rest, Len(a) + k + 1) = From(rest, k + 1)
    BY <2>2, NameSidesOfConcat
  <2> QED
    BY <2>1, <2>3, <1>5
<1>9. From(same, 3) = rest
  <2>1. From(b \o rest, Len(b) + 1) = rest
    BY <1>3, <1>6, NameSidesOfConcat
  <2>2. Len(b) + 1 = 3
    BY <1>3, <1>7 DEF Parts
  <2> QED
    BY <2>1, <2>2
<1> HIDE DEF up, same
<1>10. /\ up \in Names /\ Len(up) = Len(r) + 4
       /\ up[1] = "/" /\ up[2] = "." /\ up[3] = "." /\ up[4] = "/"
  <2>1. /\ up \in Names /\ Len(up) = Len(a) + Len(rest) /\ Len(a) \in Nat
        /\ \A i \in 1 .. Len(a) : up[i] = a[i]
        /\ \A i \in 1 .. Len(rest) : up[Len(a) + i] = rest[i]
    BY <1>7 DEF Parts
  <2>2. Len(up) = Len(r) + 4
    BY <2>1, <1>2, <1>6
  <2>3. up[1] = "/" /\ up[2] = "." /\ up[3] = "."
    BY <2>1, <1>2
  <2>4. up[4] = "/"
    <3>1. 1 \in 1 .. Len(rest) /\ Len(a) + 1 = 4
      BY <2>1, <1>2, <1>6
    <3> QED
      BY <2>1, <3>1, <1>6
  <2> QED
    BY <2>1, <2>2, <2>3, <2>4
<1>11. /\ same \in Names /\ Len(same) = Len(r) + 3
       /\ same[1] = "/" /\ same[2] = "." /\ same[3] = "/"
  <2>1. /\ same \in Names /\ Len(same) = Len(b) + Len(rest) /\ Len(b) \in Nat
        /\ \A i \in 1 .. Len(b) : same[i] = b[i]
        /\ \A i \in 1 .. Len(rest) : same[Len(b) + i] = rest[i]
    BY <1>7 DEF Parts
  <2>2. Len(same) = Len(r) + 3
    BY <2>1, <1>3, <1>6
  <2>3. same[1] = "/" /\ same[2] = "."
    BY <2>1, <1>3
  <2>4. same[3] = "/"
    <3>1. 1 \in 1 .. Len(rest) /\ Len(b) + 1 = 3
      BY <2>1, <1>3, <1>6
    <3> QED
      BY <2>1, <3>1, <1>6
  <2> QED
    BY <2>1, <2>2, <2>3, <2>4
<1>12. /\ up \in Names /\ Len(up) = Len(r) + 4 /\ Len(r) \in Nat
       /\ up[1] = "/" /\ up[2] = "." /\ up[3] = "." /\ up[4] = "/" /\ From(up, 5) = r
       /\ same \in Names /\ Len(same) = Len(r) + 3
       /\ same[1] = "/" /\ same[2] = "." /\ same[3] = "/" /\ From(same, 3) = rest
  BY <1>6, <1>8, <1>9, <1>10, <1>11
<1> QED
  BY <1>12 DEF up, same, rest, a, b, slash

\* The turn at /../ goes back to the slash before, and takes what is between away.
LEMMA TurnUp ==
  ASSUME NEW t \in Names, NEW w \in Names, NEW r \in Names, Slashless(w)
  PROVE  LET u == t \o (<<"/">> \o w)
             rest == <<"/">> \o r
         IN  Turn([name |-> u \o ((<<"/">> \o Up) \o rest), p |-> Len(u) + 1])
               = [name |-> t \o rest, p |-> Len(t) + 1]
<1> DEFINE slash == <<"/">>
           u == t \o (slash \o w)
           rest == slash \o r
           y == (slash \o Up) \o rest
           s == u \o y
           p == Len(u) + 1
           b == SlashesBefore(s, p)
           t1 == t \o slash
           m == Len(t) + 1
<1>1. slash \in Names /\ Ended(t1, t, "/")
  <2>1. "/" \in Token
    BY DEF Token
  <2> QED
    BY <2>1, OneToken
<1>2. /\ y \in Names /\ Len(y) = Len(r) + 4 /\ Len(r) \in Nat
      /\ y[1] = "/" /\ y[2] = "." /\ y[3] = "." /\ y[4] = "/" /\ From(y, 5) = r
  BY DotsThen
<1> HIDE DEF slash, y
<1>3. t1 \in Names /\ Len(t1) = Len(t) + 1 /\ Len(t) \in Nat /\ t1[Len(t) + 1] = "/"
  BY <1>1 DEF Ended
<1>4. Len(w) \in Nat
  BY NameElements
<1>5. IsConcat(u, t1, w)
  <2>1. (t \o slash) \o w = t \o (slash \o w)
    BY <1>1, JoinedNames
  <2> QED
    BY <2>1 DEF IsConcat
<1> HIDE DEF t1, u
<1>6. /\ u \in Names /\ Len(u) = Len(t) + 1 + Len(w) /\ u[Len(t) + 1] = "/"
      /\ \A i \in 1 .. Len(w) : u[Len(t) + 1 + i] # "/"
  <2>1. t1 \in Names
    BY <1>3
  <2>2. Parts(t1 \o w, t1, w)
    BY <2>1, ConcatParts
  <2>3. /\ u \in Names /\ Len(u) = Len(t1) + Len(w)
        /\ \A i \in 1 .. Len(t1) : u[i] = t1[i]
        /\ \A i \in 1 .. Len(w) : u[Len(t1) + i] = w[i]
    BY <1>5, <2>2 DEF IsConcat, Parts
  <2>4. Len(t) + 1 \in 1 .. Len(t1)
    BY <1>3
  <2> QED
    BY <2>3, <2>4, <1>3 DEF Slashless
<1>7. IsConcat(s, u, y)
  BY DEF IsConcat
<1> HIDE DEF s
<1>8. /\ s \in Names /\ Len(s) = Len(u) + Len(y) /\ Len(u) \in Nat
      /\ \A i \in 1 .. Len(u) : s[i] = u[i]
      /\ \A i \in 1 .. Len(y) : s[Len(u) + i] = y[i]
  <2>1. u \in Names /\ y \in Names
    BY <1>2, <1>6
  <2>2. Parts(u \o y, u, y)
    BY <2>1, ConcatParts
  <2> QED
    BY <1>7, <2>2 DEF IsConcat, Parts
<1>9. DOMAIN s = 1 .. Len(s) /\ Len(s) \in Nat
  BY <1>8, NameElements
<1>10. ReadsUp(s, p)
  <2>1. 1 \in 1 .. Len(y) /\ 2 \in 1 .. Len(y) /\ 3 \in 1 .. Len(y) /\ 4 \in 1 .. Len(y)
    BY <1>2
  <2>2. s[Len(u) + 1] = "/" /\ s[Len(u) + 2] = "." /\ s[Len(u) + 3] = "." /\ s[Len(u) + 4] = "/"
    BY <1>2, <1>8, <2>1
  <2>3. Len(u) + 4 <= Len(s)
    BY <1>2, <1>8
  <2> QED
    BY <2>2, <2>3, <1>8 DEF ReadsUp
<1>11. m \in b
  <2>1. m \in 1 .. Len(u) /\ m < p /\ m \in 1 .. Len(s)
    BY <1>2, <1>3, <1>4, <1>6, <1>8
  <2>2. s[m] = "/"
    BY <1>6, <1>8, <2>1
  <2> QED
    BY <1>9, <2>1, <2>2 DEF SlashesBefore, Places
<1>12. ASSUME NEW i \in b PROVE i <= m
  <2>1. i \in 1 .. Len(s) /\ i < p /\ s[i] = "/"
    BY <1>9 DEF SlashesBefore, Places
  <2>2. i \in 1 .. Len(u)
    BY <1>8, <1>9, <2>1
  <2> SUFFICES ASSUME i > m PROVE FALSE
    BY <1>3, <2>2
  <2>3. i - m \in 1 .. Len(w) /\ Len(t) + 1 + (i - m) = i
    BY <1>3, <1>4, <1>6, <2>2
  <2>4. u[i] # "/"
    BY <1>6, <2>3
  <2> QED
    BY <1>8, <2>1, <2>2, <2>4
<1>13. b \in SUBSET Nat
  BY <1>9 DEF SlashesBefore, Places
<1>14. p \in Nat \ {0}
  BY <1>8
<1> HIDE DEF b, m
<1>15. Max(b) = m /\ b # {}
  BY <1>11, <1>12, <1>13, Extremes
<1>16. UpTo(s, m) = t1
  <2>1. s = t1 \o (w \o y)
    <3>1. (t1 \o w) \o y = t1 \o (w \o y)
      BY <1>2, <1>3, JoinedNames, ZenonT(60)
    <3> QED
      BY <1>5, <1>7, <3>1 DEF IsConcat
  <2>2. w \o y \in Names
    BY <1>2, JoinedNames
  <2>3. UpTo(t1 \o (w \o y), Len(t1)) = t1
    BY <1>3, <2>2, NameSidesOfConcat
  <2> QED
    BY <2>1, <2>3, <1>3 DEF m
<1>17. From(s, p + 4) = r
  <2> DEFINE k == 4
  <2>1. k \in 0 .. Len(y) /\ Len(u) + k + 1 = p + 4 /\ k + 1 = 5
    BY <1>2, <1>8
  <2> HIDE DEF k
  <2>2. u \in Names /\ y \in Names /\ k \in 0 .. Len(y)
    BY <1>2, <1>6, <2>1
  <2>3. From(u \o y, Len(u) + k + 1) = From(y, k + 1)
    BY <2>2, NameSidesOfConcat
  <2> QED
    BY <2>1, <2>3, <1>2, <1>7 DEF IsConcat
<1>18. t1 \o r = t \o rest
  BY <1>1, JoinedNames DEF t1
<1> HIDE DEF p
<1>19. Turn([name |-> s, p |-> p]) = [name |-> UpTo(s, Max(b)) \o From(s, p + 4), p |-> Max(b)]
  BY <1>8, <1>10, <1>14, <1>15, TurnReads DEF b
<1>20. Turn([name |-> s, p |-> p]) = [name |-> t \o rest, p |-> Len(t) + 1]
  BY <1>15, <1>16, <1>17, <1>18, <1>19 DEF m
<1> QED
  BY <1>20 DEF s, p, y, u, slash

\* The turn at /./ takes it away and goes on behind the slash that follows.
LEMMA TurnSame ==
  ASSUME NEW t \in Names, NEW r \in Names
  PROVE  LET rest == <<"/">> \o r
         IN  Turn([name |-> t \o ((<<"/">> \o Same) \o rest), p |-> Len(t) + 1])
               = [name |-> t \o rest, p |-> Len(t) + 2]
<1> DEFINE slash == <<"/">>
           rest == slash \o r
           y == (slash \o Same) \o rest
           s == t \o y
           p == Len(t) + 1
<1>1. /\ y \in Names /\ Len(y) = Len(r) + 3 /\ Len(r) \in Nat
      /\ y[1] = "/" /\ y[2] = "." /\ y[3] = "/" /\ From(y, 3) = rest
  BY DotsThen
<1> HIDE DEF rest, y
<1>2. IsConcat(s, t, y)
  BY DEF IsConcat
<1> HIDE DEF s
<1>3. /\ s \in Names /\ Len(s) = Len(t) + Len(y) /\ Len(t) \in Nat
      /\ \A i \in 1 .. Len(y) : s[Len(t) + i] = y[i]
  BY <1>1, <1>2, IsConcatElements
<1>4. ReadsSame(s, p) /\ p \in Nat \ {0}
  <2>1. 1 \in 1 .. Len(y) /\ 2 \in 1 .. Len(y) /\ 3 \in 1 .. Len(y)
    BY <1>1
  <2>2. s[Len(t) + 1] = "/" /\ s[Len(t) + 2] = "." /\ s[Len(t) + 3] = "/"
    BY <1>1, <1>3, <2>1
  <2>3. Len(t) + 3 <= Len(s)
    BY <1>1, <1>3
  <2> QED
    BY <2>2, <2>3, <1>3 DEF ReadsSame
<1>5. UpTo(s, p - 1) = t
  <2>1. UpTo(t \o y, Len(t)) = t
    BY <1>1, NameSidesOfConcat
  <2>2. p - 1 = Len(t)
    BY <1>3
  <2> QED
    BY <2>1, <2>2, <1>2 DEF IsConcat
<1>6. From(s, p + 2) = rest
  <2> DEFINE k == 2
  <2>1. k \in 0 .. Len(y) /\ Len(t) + k + 1 = p + 2 /\ k + 1 = 3
    BY <1>1, <1>3
  <2> HIDE DEF k
  <2>2. From(t \o y, Len(t) + k + 1) = From(y, k + 1)
    BY <1>1, <2>1, NameSidesOfConcat
  <2> QED
    BY <2>1, <2>2, <1>1, <1>2 DEF IsConcat
<1>7. p + 1 = Len(t) + 2
  BY <1>3
<1> HIDE DEF p
<1>8. Turn([name |-> s, p |-> p]) = [name |-> UpTo(s, p - 1) \o From(s, p + 2), p |-> p + 1]
  BY <1>3, <1>4, TurnReads
<1>9. Turn([name |-> s, p |-> p]) = [name |-> t \o rest, p |-> Len(t) + 2]
  BY <1>5, <1>6, <1>7, <1>8
<1> QED
  BY <1>9 DEF s, p, y, rest

\* Quiet steps leave a name clear.
LEMMA ClearRooted ==
  ASSUME NEW pre \in Names, Clear(pre)
  PROVE  \A steps \in Seq(Quiet) : Clear(pre \o Rooted(steps))
<1> DEFINE T == {steps \in Seq(Quiet) : Clear(pre \o Rooted(steps))}
<1>1. <<>> \in T
  <2>1. <<>> \in Seq(Quiet)
    BY Empty
  <2>2. pre \o Rooted(<<>>) = pre
    BY RootedOneMore, JoinedNames
  <2> QED
    BY <2>1, <2>2
<1>2. ASSUME NEW steps \in Seq(Quiet), NEW step \in Quiet, steps \in T
      PROVE  Append(steps, step) \in T
  <2> DEFINE t == pre \o Rooted(steps)
             s == <<"/">> \o step
  <2>1. step \in Names /\ steps \in Seq(Names) /\ ~Dots(step)
        /\ Slashless(step)
    BY StepsAreNames DEF Quiet, Dots, Slashless
  <2>2. Rooted(Append(steps, step)) = Rooted(steps) \o s /\ Rooted(steps) \in Names
    BY <2>1, RootedOneMore
  <2>3. s \in Names
    BY <2>1, Slash, JoinedNames
  <2>4. t \in Names /\ Clear(t)
    BY <1>2, <2>2, JoinedNames
  <2> HIDE DEF t
  <2>5. Clear(t \o s)
    BY <2>1, <2>4, ClearOneMore
  <2> HIDE DEF s
  <2>6. t \o s = pre \o (Rooted(steps) \o s)
    BY <2>2, <2>3, JoinedNames DEF t
  <2>7. Append(steps, step) \in Seq(Quiet)
    BY OneElement
  <2> QED
    BY <2>2, <2>5, <2>6, <2>7
<1> HIDE DEF T
<1>3. \A steps \in Seq(Quiet) : steps \in T
  BY <1>1, <1>2, SequenceInduction
<1> QED
  BY <1>3 DEF T

\* What is left of the steps of a path.
Behind(steps, i) == Rooted(From(steps, i + 1))

\* The first of them, and the ones behind it.
LEMMA BehindStep ==
  ASSUME NEW steps \in Seq(Names)
  PROVE  /\ Behind(steps, Len(steps)) = <<>> /\ Behind(steps, 0) = Rooted(steps)
         /\ \A i \in 0 .. Len(steps) : Behind(steps, i) \in Names
         /\ \A i \in 0 .. Len(steps) - 1 :
              /\ Behind(steps, i) = (<<"/">> \o steps[i + 1]) \o Behind(steps, i + 1)
              /\ Behind(steps, i) = <<"/">> \o (steps[i + 1] \o Behind(steps, i + 1))
              /\ steps[i + 1] \in Names
<1> DEFINE n == Len(steps)
           X == Names
<1>1. n \in Nat /\ steps \in Seq(X) /\ \A i \in 1 .. n : steps[i] \in X
  BY Elements
<1>2. From(steps, n + 1) = <<>>
  <2>1. From(steps, n + 1) \in Seq(X) /\ Len(From(steps, n + 1)) = n - n
    <3>1. n \in 0 .. Len(steps)
      BY <1>1
    <3> QED
      BY <3>1, Sides
  <2> QED
    BY <1>1, <2>1, Elements
<1>3. From(steps, 0 + 1) = steps
  BY DEF From
<1>4. \A i \in 0 .. n : From(steps, i + 1) \in Seq(X)
  BY Sides
<1>5. ASSUME NEW i \in 0 .. n - 1
      PROVE  /\ Behind(steps, i) = (<<"/">> \o steps[i + 1]) \o Behind(steps, i + 1)
             /\ Behind(steps, i) = <<"/">> \o (steps[i + 1] \o Behind(steps, i + 1))
  <2> DEFINE x == steps[i + 1]
             rest == From(steps, i + 2)
             one == <<x>>
  <2>1. i \in 0 .. n /\ i + 1 \in 0 .. n /\ i + 1 \in 1 .. n /\ (i + 1) + 1 = i + 2
    BY <1>1
  <2>2. x \in X
    BY <1>1, <2>1
  <2>3. one \in Seq(X) /\ Append(<<>>, x) = one /\ <<>> \in Seq(X)
    BY <2>2, OneElement, Empty
  <2>4. rest \in Seq(X)
    BY <1>4, <2>1
  <2>5. From(steps, i + 1) = one \o rest
    BY <1>1, FirstOfRest
  <2> HIDE DEF one, rest
  <2>6. Rooted(one \o rest) = Rooted(one) \o Rooted(rest)
    BY <2>3, <2>4, RootedConcat
  <2>7. Rooted(one) = <<"/">> \o x /\ <<"/">> \o x \in Names
    <3>1. Rooted(Append(<<>>, x)) = Rooted(<<>>) \o (<<"/">> \o x) /\ Rooted(<<>>) = <<>>
      BY <2>2, <2>3, RootedOneMore
    <3>2. <<"/">> \o x \in Names
      BY <2>2, Slash, JoinedNames
    <3> QED
      BY <2>3, <3>1, <3>2, JoinedNames
  <2>8. Rooted(rest) \in Names
    BY <2>4, RootedOneMore
  <2>9. Behind(steps, i) = Rooted(one \o rest) /\ Behind(steps, i + 1) = Rooted(rest)
    BY <2>1, <2>5 DEF Behind, rest
  <2>10. (<<"/">> \o x) \o Rooted(rest) = <<"/">> \o (x \o Rooted(rest))
    BY <2>2, <2>8, Slash, JoinedNames
  <2> QED
    BY <2>6, <2>7, <2>9, <2>10
<1>6. \A i \in 0 .. n : Behind(steps, i) \in Names
  <2>1. <<>> \in Names
    BY JoinedNames
  <2> QED
    BY <1>4, <2>1, RootedOneMore DEF Behind
<1>7. Behind(steps, n) = <<>> /\ Behind(steps, 0) = Rooted(steps)
  BY <1>2, <1>3, RootedOneMore DEF Behind
<1>8. \A i \in 0 .. n - 1 : steps[i + 1] \in Names
  BY <1>1
<1> QED
  BY <1>5, <1>6, <1>7, <1>8

\* Steps that can be walked: none out of the root, dots neither at the end nor
\* after a single one.
Walkable(from, steps) ==
  /\ from \in Seq(Quiet) /\ steps \in Seq(StepName)
  /\ \A i \in 1 .. Len(steps) : steps[i] = Up => Walked(from, steps)[i - 1] # <<>>
  /\ \A i \in 1 .. Len(steps) : Dots(steps[i]) =>
       i < Len(steps) /\ (steps[i] = Same => ~Dots(steps[i + 1]))

\* A name that has been simplified up to a step, and the steps that are left.
Ahead(pre, from, steps, i) == pre \o Rooted(Walked(from, steps)[i])

\* The loop is at a place of such a name; what is left of it has a bound.
Simplifying(at, pre, from, steps, left) ==
  \E i \in 0 .. Len(steps) :
    /\ at.name = Ahead(pre, from, steps, i) \o Behind(steps, i)
    /\ at.p \in 3 .. Len(Ahead(pre, from, steps, i)) + 1
    /\ at.p = Len(at.name) + 1 \/ Len(at.name) + 1 - at.p <= left

\* It grows by a quiet step.
Grows(pre, from, steps, i) ==
  LET t == Ahead(pre, from, steps, i)
  IN  /\ i < Len(steps) /\ ~Dots(steps[i + 1]) =>
           Ahead(pre, from, steps, i + 1) = t \o (<<"/">> \o steps[i + 1])
      /\ i < Len(steps) /\ steps[i + 1] = Same =>
           Ahead(pre, from, steps, i + 1) = t
      /\ i < Len(steps) /\ steps[i + 1] = Up =>
           \E w \in Quiet : t = Ahead(pre, from, steps, i + 1) \o (<<"/">> \o w)

\* What is ahead is clear, and grows by a quiet step.
LEMMA AheadStep ==
  ASSUME NEW pre \in Names, Clear(pre), Len(pre) >= 2, NEW from, NEW steps, Walkable(from, steps),
         NEW i \in 0 .. Len(steps)
  PROVE  LET W == Walked(from, steps)
             t == Ahead(pre, from, steps, i)
         IN  /\ t \in Names /\ Clear(t) /\ Len(t) >= 2 /\ W[i] \in Seq(Quiet)
             /\ Grows(pre, from, steps, i)
<1> DEFINE n == Len(steps)
           W == Walked(from, steps)
           t == Ahead(pre, from, steps, i)
<1>1. /\ from \in Seq(Quiet) /\ steps \in Seq(StepName) /\ n \in Nat
      /\ \A j \in 1 .. n : steps[j] \in StepName
  BY Elements DEF Walkable
<1>2. /\ W \in [0 .. n -> Seq(Quiet)]
      /\ \A j \in 1 .. n : W[j] = Stepped(W[j - 1], steps[j])
  BY <1>1, WalkedBySteps
<1>3. \A j \in 1 .. n : steps[j] = Up => W[j - 1] # <<>>
  BY DEF Walkable
<1> HIDE DEF n, W
<1>4. W[i] \in Seq(Quiet) /\ W[i] \in Seq(Names)
  BY <1>2, StepsAreNames DEF n
<1>5. t = pre \o Rooted(W[i]) /\ Rooted(W[i]) \in Names
  BY <1>4, RootedOneMore, JoinedNames DEF Ahead, W
<1>6. t \in Names /\ Clear(t)
  BY <1>4, <1>5, ClearRooted, JoinedNames
<1>7. Len(t) >= 2
  <2>1. Len(t) = Len(pre) + Len(Rooted(W[i])) /\ Len(pre) \in Nat /\ Len(Rooted(W[i])) \in Nat
    BY <1>5, NameConcat, NameElements
  <2> QED
    BY <2>1
<1>8. ASSUME i < n PROVE i + 1 \in 1 .. n /\ (i + 1) - 1 = i /\ W[i + 1] = Stepped(W[i], steps[i + 1])
                         /\ steps[i + 1] \in StepName /\ i + 1 \in 0 .. n
                         /\ Ahead(pre, from, steps, i + 1) = pre \o Rooted(W[i + 1])
                         /\ W[i + 1] \in Seq(Names)
                         /\ W[i + 1] \in Seq(Quiet)
  <2>1. i + 1 \in 1 .. n /\ (i + 1) - 1 = i /\ i + 1 \in 0 .. n
    BY <1>1, <1>8 DEF n
  <2>2. W[i + 1] = Stepped(W[i], steps[i + 1]) /\ steps[i + 1] \in StepName
    BY <1>1, <1>2, <2>1
  <2> QED
    BY <2>1, <2>2, <1>2, StepsAreNames DEF Ahead, W
<1>9. ASSUME i < n, ~Dots(steps[i + 1])
      PROVE  Ahead(pre, from, steps, i + 1) = t \o (<<"/">> \o steps[i + 1])
  <2> DEFINE step == steps[i + 1]
             s == <<"/">> \o step
  <2>1. W[i + 1] = Append(W[i], step) /\ step \in Names
    BY <1>8, <1>9, StepsAreNames DEF Stepped, Dots
  <2>2. Rooted(Append(W[i], step)) = Rooted(W[i]) \o s /\ s \in Names
    BY <2>1, <1>4, RootedOneMore, Slash, JoinedNames
  <2> HIDE DEF s
  <2>3. pre \o (Rooted(W[i]) \o s) = (pre \o Rooted(W[i])) \o s
    BY <2>2, <1>5, JoinedNames
  <2> QED
    BY <1>5, <1>8, <1>9, <2>1, <2>2, <2>3 DEF s
<1>10. ASSUME i < n, steps[i + 1] = Same PROVE Ahead(pre, from, steps, i + 1) = t
  <2>1. Up # Same
    BY DEF Up, Same
  <2>2. W[i + 1] = W[i]
    BY <2>1, <1>8, <1>10 DEF Stepped
  <2> QED
    BY <2>2, <1>5, <1>8, <1>10
<1>11. ASSUME i < n, steps[i + 1] = Up
       PROVE  \E w \in Quiet : t = Ahead(pre, from, steps, i + 1) \o (<<"/">> \o w)
  <2> DEFINE w == Last(W[i])
             s == <<"/">> \o w
  <2>1. W[i + 1] = Front(W[i])
    BY <1>8, <1>11 DEF Stepped
  <2>2. W[i] # <<>>
    BY <1>3, <1>8, <1>11
  <2>3. w \in Quiet /\ W[i] = Append(W[i + 1], w)
    BY <1>4, <2>1, <2>2, FrontOf
  <2>4. w \in Names /\ s \in Names
    BY <2>3, StepsAreNames, Slash, JoinedNames
  <2>5. Rooted(Append(W[i + 1], w)) = Rooted(W[i + 1]) \o s /\ Rooted(W[i + 1]) \in Names
    BY <2>4, <1>8, <1>11, RootedOneMore
  <2> HIDE DEF s, w
  <2>6. pre \o (Rooted(W[i + 1]) \o s) = (pre \o Rooted(W[i + 1])) \o s
    BY <2>4, <2>5, JoinedNames
  <2>7. t = Ahead(pre, from, steps, i + 1) \o (<<"/">> \o w)
    BY <1>5, <1>8, <1>11, <2>3, <2>5, <2>6 DEF s
  <2> QED
    BY <2>3, <2>7
<1>12. Grows(pre, from, steps, i)
  BY <1>9, <1>10, <1>11 DEF Grows, n
<1> QED
  BY <1>4, <1>6, <1>7, <1>12 DEF W

\* A turn leads from one position to another with less behind it.
Turned(s, p, s2, p2) ==
  /\ Turn([name |-> s, p |-> p]) = [name |-> s2, p |-> p2]
  /\ Len(s) \in Nat /\ Len(s2) \in Nat /\ Len(s2) - p2 < Len(s) - p

\* There is less behind the turn at /../.
LEMMA UpTurned ==
  ASSUME NEW t \in Names, NEW w \in Names, NEW r \in Names, Slashless(w),
         NEW u, u = t \o (<<"/">> \o w), NEW rest, rest = <<"/">> \o r
  PROVE  Turned(u \o ((<<"/">> \o Up) \o rest), Len(u) + 1, t \o rest, Len(t) + 1)
<1> DEFINE y == (<<"/">> \o Up) \o rest
           s == u \o y
           s2 == t \o rest
<1>1. Turn([name |-> s, p |-> Len(u) + 1]) = [name |-> s2, p |-> Len(t) + 1]
  BY TurnUp
<1>2. y \in Names /\ Len(y) = Len(r) + 4 /\ Len(r) \in Nat
  BY DotsThen
<1>3. Led(rest, "/", r)
  BY OneToken DEF Token
<1>4. rest \in Names /\ Len(rest) = Len(r) + 1
  BY <1>3 DEF Led
<1>5. u \in Names
  BY Slash, JoinedNames
<1> HIDE DEF y
<1>6. Parts(s, u, y) /\ Parts(s2, t, rest)
  BY <1>2, <1>4, <1>5, ConcatParts
<1> HIDE DEF s, s2
<1>7. Len(s) = Len(u) + Len(y) /\ Len(s2) = Len(t) + Len(rest) /\ Len(u) \in Nat /\ Len(t) \in Nat
  BY <1>6 DEF Parts
<1>8. Len(s) \in Nat /\ Len(s2) \in Nat /\ Len(s2) - (Len(t) + 1) < Len(s) - (Len(u) + 1)
  BY <1>2, <1>4, <1>7
<1>9. Turned(s, Len(u) + 1, s2, Len(t) + 1)
  BY <1>1, <1>8 DEF Turned
<1> QED
  BY <1>9 DEF s, s2, y

\* There is less behind the turn at /./.
LEMMA SameTurned ==
  ASSUME NEW t \in Names, NEW r \in Names, NEW rest, rest = <<"/">> \o r
  PROVE  Turned(t \o ((<<"/">> \o Same) \o rest), Len(t) + 1, t \o rest, Len(t) + 2)
<1> DEFINE y == (<<"/">> \o Same) \o rest
           s == t \o y
           s2 == t \o rest
<1>1. Turn([name |-> s, p |-> Len(t) + 1]) = [name |-> s2, p |-> Len(t) + 2]
  BY TurnSame
<1>2. y \in Names /\ Len(y) = Len(r) + 3 /\ Len(r) \in Nat
  BY DotsThen
<1>3. Led(rest, "/", r)
  BY OneToken DEF Token
<1>4. rest \in Names /\ Len(rest) = Len(r) + 1
  BY <1>3 DEF Led
<1> HIDE DEF y
<1>5. Parts(s, t, y) /\ Parts(s2, t, rest)
  BY <1>2, <1>4, ConcatParts
<1> HIDE DEF s, s2
<1>6. Len(s) = Len(t) + Len(y) /\ Len(s2) = Len(t) + Len(rest) /\ Len(t) \in Nat
  BY <1>5 DEF Parts
<1>7. Len(s) \in Nat /\ Len(s2) \in Nat /\ Len(s2) - (Len(t) + 2) < Len(s) - (Len(t) + 1)
  BY <1>2, <1>4, <1>6
<1>8. Turned(s, Len(t) + 1, s2, Len(t) + 2)
  BY <1>1, <1>7 DEF Turned
<1> QED
  BY <1>8 DEF s, s2, y

\* There is less behind a turn that only goes on.
LEMMA OnTurned ==
  ASSUME NEW s \in Names, NEW p \in Nat \ {0}, p <= Len(s), ~ReadsUp(s, p), ~ReadsSame(s, p)
  PROVE  Turned(s, p, s, p + 1)
<1>1. Turn([name |-> s, p |-> p]) = [name |-> s, p |-> p + 1]
  BY TurnReads
<1>2. Len(s) \in Nat /\ Len(s) - (p + 1) < Len(s) - p
  BY NameElements
<1> QED
  BY <1>1, <1>2 DEF Turned

\* What is left of a path is nothing or begins with a slash.
LEMMA BehindBegins ==
  ASSUME NEW steps \in Seq(Names), NEW i \in 0 .. Len(steps)
  PROVE  /\ Behind(steps, i) = <<>> \/ Behind(steps, i)[1] = "/"
         /\ Behind(steps, i) = <<>> => i = Len(steps)
<1>1. Len(steps) \in Nat
  BY Elements
<1>2. CASE i = Len(steps)
  BY <1>2, BehindStep
<1>3. CASE i # Len(steps)
  <2> DEFINE b == Behind(steps, i)
             y == steps[i + 1] \o Behind(steps, i + 1)
  <2>1. i \in 0 .. Len(steps) - 1 /\ i + 1 \in 0 .. Len(steps)
    BY <1>1, <1>3
  <2>2. b = <<"/">> \o y /\ steps[i + 1] \in Names /\ Behind(steps, i + 1) \in Names
    BY <2>1, BehindStep
  <2>3. y \in Names
    BY <2>2, JoinedNames
  <2> HIDE DEF b, y
  <2>4. Led(b, "/", y)
    BY <2>2, <2>3, OneToken DEF Token
  <2>5. b \in Names /\ b[1] = "/" /\ Len(b) = Len(y) + 1 /\ Len(y) \in Nat
    BY <2>4 DEF Led
  <2>6. Len(b) # 0
    BY <2>5
  <2>7. b # <<>>
    BY <2>5, <2>6, NameElements
  <2> QED
    BY <2>5, <2>7 DEF b
<1> QED
  BY <1>2, <1>3

\* A turn keeps to it, and less is left.
LEMMA SimplifyingTurn ==
  ASSUME NEW pre \in Names, Clear(pre), Len(pre) >= 2, NEW from, NEW steps, Walkable(from, steps),
         NEW at \in Position, NEW left \in Int, Simplifying(at, pre, from, steps, left)
  PROVE  Simplifying(Turn(at), pre, from, steps, left - 1)
<1> DEFINE n == Len(steps)
           t(i) == Ahead(pre, from, steps, i)
           rest(i) == Behind(steps, i)
<1>1. PICK s \in Names, p \in Nat \ {0} : at = [name |-> s, p |-> p]
  BY DEF Position
<1>2. PICK i \in 0 .. n : /\ s = t(i) \o rest(i) /\ p \in 3 .. Len(t(i)) + 1
                          /\ p = Len(s) + 1 \/ Len(s) + 1 - p <= left
  BY <1>1 DEF Simplifying
<1>3. n \in Nat /\ steps \in Seq(StepName) /\ steps \in Seq(Names)
      /\ \A j \in 1 .. n : steps[j] \in StepName
  BY Elements, StepsAreNames DEF Walkable
<1>4. ASSUME NEW j \in 0 .. n, NEW s2, s2 = t(j) \o rest(j), NEW q \in Nat,
             q \in 3 .. Len(t(j)) + 1, Turned(s, p, s2, q)
      PROVE  Simplifying(Turn(at), pre, from, steps, left - 1)
  <2>1. Turn(at) = [name |-> s2, p |-> q]
    BY <1>1, <1>4 DEF Turned
  <2>2. Turn(at).name = s2 /\ Turn(at).p = q
    BY <2>1
  <2>3. q = Len(s2) + 1 \/ Len(s2) + 1 - q <= left - 1
    <3>1. Len(s) \in Nat /\ Len(s2) \in Nat /\ Len(s2) - q < Len(s) - p
      BY <1>4 DEF Turned
    <3>2. CASE Len(s) + 1 - p <= left
      BY <3>1, <3>2
    <3>3. CASE p = Len(s) + 1
      <4>1. Len(t(j)) <= Len(s2)
        <5>1. j \in 0 .. Len(steps)
          OBVIOUS
        <5>2. t(j) \in Names /\ rest(j) \in Names
          BY <1>3, <5>1, AheadStep, BehindStep
        <5> DEFINE tj == t(j)
                   rj == rest(j)
        <5> HIDE DEF tj, rj
        <5>3. Parts(tj \o rj, tj, rj)
          BY <5>2, ConcatParts DEF tj, rj
        <5>4. Len(tj \o rj) = Len(tj) + Len(rj) /\ Len(tj) \in Nat /\ Len(rj) \in Nat
          BY <5>3 DEF Parts
        <5>5. s2 = tj \o rj
          BY <1>4 DEF tj, rj
        <5>6. Len(tj) <= Len(s2)
          BY <5>4, <5>5
        <5> QED
          BY <5>6 DEF tj
      <4> HIDE DEF t
      <4>2. q <= Len(t(j)) + 1
        BY <1>4
      <4> QED
        BY <3>1, <3>3, <4>1, <4>2
    <3> QED
      BY <1>2, <3>2, <3>3
  <2> DEFINE new == Turn(at)
  <2>4. new.name = s2 /\ new.p = q
    BY <2>2
  <2> HIDE DEF new
  <2>5. Simplifying(new, pre, from, steps, left - 1)
    BY <1>4, <2>3, <2>4 DEF Simplifying
  <2> QED
    BY <2>5 DEF new
<1> DEFINE ti == t(i)
           ri == rest(i)
<1>5. ti \in Names /\ Clear(ti) /\ Len(ti) >= 2 /\ ri \in Names
  BY <1>3, AheadStep, BehindStep
<1>6. (ri = <<>> \/ ri[1] = "/") /\ (ri = <<>> => i = n)
  BY <1>3, BehindBegins
<1>7. s = ti \o ri /\ p \in 3 .. Len(ti) + 1 /\ p \in Nat \ {0}
  BY <1>2
<1> HIDE DEF ti, ri, n
<1>8. Len(ti) \in Nat /\ Len(ri) \in Nat /\ Len(s) = Len(ti) + Len(ri) /\ Len(s) \in Nat
  <2>1. Parts(ti \o ri, ti, ri)
    BY <1>5, ConcatParts
  <2>2. Len(s) = Len(ti) + Len(ri) /\ Len(ti) \in Nat /\ Len(ri) \in Nat
    BY <1>7, <2>1 DEF Parts
  <2> QED
    BY <2>2
<1>9. CASE p > Len(s)
  <2>1. Turn(at) = at
    BY <1>1, <1>9, TurnReads
  <2>2. p = Len(s) + 1
    BY <1>7, <1>8, <1>9
  <2>3. /\ at.name = t(i) \o rest(i) /\ at.p \in 3 .. Len(t(i)) + 1 /\ at.p = Len(at.name) + 1
    BY <1>1, <1>2, <2>2
  <2>4. Simplifying(at, pre, from, steps, left - 1)
    BY <2>3 DEF Simplifying, n
  <2> QED
    BY <2>1, <2>4
<1>10. CASE p <= Len(ti)
  <2>1. p \in 3 .. Len(ti) /\ p <= Len(s)
    BY <1>7, <1>8, <1>10
  <2>2. ~ReadsUp(s, p) /\ ~ReadsSame(s, p)
    BY <1>5, <1>6, <1>7, <2>1, NothingRead
  <2>3. Turned(s, p, s, p + 1)
    BY <2>1, <2>2, OnTurned
  <2>4. p + 1 \in 3 .. Len(ti) + 1 /\ p + 1 \in Nat
    BY <1>8, <2>1
  <2> QED
    BY <1>2, <1>4, <2>3, <2>4 DEF ti
<1>11. CASE p <= Len(s) /\ p = Len(ti) + 1
  <2> DEFINE k == i + 1
             step == steps[k]
             tk == t(k)
             rk == rest(k)
  <2>1. i \in 0 .. n - 1 /\ k \in 0 .. n /\ k \in 1 .. n /\ i < Len(steps)
    <3>1. Len(ri) # 0
      BY <1>8, <1>11
    <3>2. ri # <<>>
      BY <3>1, <1>5, NameElements
    <3>3. i # n
      <4>1. i = n => ri = <<>>
        BY <1>3, BehindStep DEF ri, n
      <4> QED
        BY <3>2, <4>1
    <3> QED
      BY <3>3, <1>3 DEF n
  <2>2. /\ ri = (<<"/">> \o step) \o rk /\ step \in Names /\ rk \in Names
        /\ step \in StepName
    BY <2>1, <1>3, BehindStep DEF ri, n
  <2>3. tk \in Names /\ Clear(tk) /\ Len(tk) >= 2
    <3>1. k \in 0 .. Len(steps)
      BY <2>1 DEF n
    <3> HIDE DEF k
    <3> QED
      BY <3>1, AheadStep
  <2>4. /\ ~Dots(step) => tk = ti \o (<<"/">> \o step)
        /\ step = Same => tk = ti
        /\ step = Up => \E w \in Quiet : ti = tk \o (<<"/">> \o w)
    <3>1. i \in 0 .. Len(steps)
      BY DEF n
    <3>2. Grows(pre, from, steps, i)
      BY <3>1, AheadStep
    <3> QED
      BY <2>1, <3>2 DEF ti, Grows
  <2>5. (rk = <<>> \/ rk[1] = "/") /\ (rk = <<>> => k = n)
    <3>1. k \in 0 .. Len(steps)
      BY <2>1 DEF n
    <3> HIDE DEF k
    <3> QED
      BY <1>3, <3>1, BehindBegins DEF n
  <2>6. Dots(step) => k < n /\ (step = Same => ~Dots(steps[k + 1]))
    BY <2>1 DEF Walkable, n
  <2>7. tk = t(k) /\ rk = rest(k) /\ k \in Nat
    BY <2>1
  <2> HIDE DEF k, step, tk, rk
  <2>8. CASE ~Dots(step)
    <3> DEFINE x == <<"/">> \o step
    <3>1. tk = ti \o x
      BY <2>4, <2>8
    <3>2. Led(x, "/", step)
      BY <2>2, OneToken DEF Token
    <3>3. x \in Names /\ Len(x) = Len(step) + 1 /\ Len(step) \in Nat
      BY <3>2 DEF Led
    <3>4. ri = x \o rk
      BY <2>2
    <3> HIDE DEF x
    <3>5. s = tk \o rk
      <4>1. ti \in Names /\ x \in Names /\ rk \in Names
        BY <1>5, <2>2, <3>3
      <4>2. (ti \o x) \o rk = ti \o (x \o rk)
        BY <4>1, JoinedNames
      <4> QED
        BY <1>7, <3>1, <3>4, <4>2
    <3>6. Len(tk) = Len(ti) + Len(x)
      <4>1. Parts(ti \o x, ti, x)
        BY <1>5, <3>3, ConcatParts
      <4> QED
        BY <3>1, <4>1 DEF Parts
    <3>7. p \in 3 .. Len(tk)
      BY <1>7, <1>8, <1>11, <3>3, <3>6
    <3>8. ~ReadsUp(s, p) /\ ~ReadsSame(s, p)
      BY <2>2, <2>3, <2>5, <3>5, <3>7, NothingRead
    <3>9. Turned(s, p, s, p + 1)
      BY <1>11, <3>8, OnTurned
    <3>10. p + 1 \in 3 .. Len(tk) + 1 /\ p + 1 \in Nat
      BY <1>8, <3>3, <3>6, <3>7
    <3> QED
      BY <1>4, <2>1, <2>7, <3>5, <3>9, <3>10
  <2>9. CASE Dots(step)
    <3> DEFINE l == k + 1
               step2 == steps[l]
               rl == rest(l)
               r == step2 \o rl
    <3>1. k \in 0 .. n - 1 /\ l \in 0 .. n /\ l \in 1 .. n /\ k < Len(steps)
      BY <2>1, <2>6, <2>9, <1>3 DEF n
    <3>2. /\ rk = <<"/">> \o r /\ step2 \in Names /\ rl \in Names
          /\ rk = (<<"/">> \o step2) \o rl
      BY <3>1, <1>3, BehindStep DEF rk, n
    <3>3. ~Dots(step2) => t(l) = tk \o (<<"/">> \o step2)
      <4>1. k \in 0 .. Len(steps)
        BY <2>1 DEF n
      <4>2. Grows(pre, from, steps, k)
        BY <4>1, AheadStep
      <4> QED
        BY <3>1, <4>2 DEF tk, Grows
    <3>4. r \in Names
      BY <3>2, JoinedNames
    <3>5. step = Same => ~Dots(step2)
      BY <2>6, <2>9
    <3>6. t(l) \o rest(l) = t(l) \o rl
      OBVIOUS
    <3> DEFINE tl == t(l)
    <3>7. tl = t(l) /\ rl = rest(l)
      OBVIOUS
    <3> HIDE DEF l, step2, r, rl, tl
    <3>8. CASE step = Up
      <4>1. PICK w \in Quiet : ti = tk \o (<<"/">> \o w)
        BY <2>4, <3>8
      <4>2. w \in Names /\ Slashless(w)
        BY StepsAreNames DEF Slashless
      <4>3. Turned(ti \o ((<<"/">> \o Up) \o rk), Len(ti) + 1, tk \o rk, Len(tk) + 1)
        BY <2>3, <3>2, <3>4, <4>1, <4>2, UpTurned
      <4>4. Turned(s, p, tk \o rk, Len(tk) + 1)
        BY <1>7, <1>11, <2>2, <3>8, <4>3
      <4>5. Len(tk) + 1 \in 3 .. Len(tk) + 1 /\ Len(tk) + 1 \in Nat
        <5>1. Len(tk) \in Nat
          BY <2>3, NameElements
        <5> QED
          BY <2>3, <5>1
      <4> QED
        BY <1>4, <2>1, <2>7, <4>4, <4>5
    <3>9. CASE step = Same
      <4> DEFINE x == <<"/">> \o step2
      <4>1. tk = ti /\ tl = tk \o x
        BY <2>4, <3>3, <3>5, <3>7, <3>9
      <4>2. Led(x, "/", step2)
        BY <3>2, OneToken DEF Token
      <4>3. x \in Names /\ Len(x) = Len(step2) + 1 /\ Len(step2) \in Nat
        BY <4>2 DEF Led
      <4>4. rk = x \o rl
        BY <3>2
      <4> HIDE DEF x
      <4>5. tl \o rl = ti \o rk
        <5>1. (ti \o x) \o rl = ti \o (x \o rl)
          BY <1>5, <3>2, <4>3, JoinedNames, ZenonT(60)
        <5> QED
          BY <4>1, <4>4, <5>1
      <4>6. Turned(ti \o ((<<"/">> \o Same) \o rk), Len(ti) + 1, ti \o rk, Len(ti) + 2)
        BY <1>5, <3>2, <3>4, SameTurned
      <4>7. Turned(s, p, tl \o rl, Len(ti) + 2)
        BY <1>7, <1>11, <2>2, <3>9, <4>5, <4>6
      <4>8. Len(tl) = Len(ti) + Len(x)
        <5>1. Parts(ti \o x, ti, x)
          BY <1>5, <4>3, ConcatParts
        <5> QED
          BY <4>1, <5>1 DEF Parts
      <4>9. Len(ti) + 2 \in 3 .. Len(tl) + 1 /\ Len(ti) + 2 \in Nat
        BY <1>5, <1>8, <4>3, <4>8
      <4> QED
        BY <1>4, <3>1, <3>7, <4>7, <4>9
    <3> QED
      BY <2>9, <3>8, <3>9 DEF Dots
  <2> QED
    BY <2>8, <2>9
<1> QED
  BY <1>7, <1>8, <1>9, <1>10, <1>11

\* HTSimplify leaves where the steps lead to, whatever steps they are that can
\* be walked, behind a beginning that has nothing to simplify.
THEOREM SimplifyWalks ==
  ASSUME NEW pre \in Names, Clear(pre), Len(pre) >= 2, NEW from, NEW steps, Walkable(from, steps)
  PROVE  HTSimplify((pre \o Rooted(from)) \o Rooted(steps)) = pre \o Rooted(Walk(from, steps))
<1> DEFINE n == Len(steps)
           filename == (pre \o Rooted(from)) \o Rooted(steps)
           len == Len(filename)
<1>1. /\ from \in Seq(Quiet) /\ steps \in Seq(StepName) /\ steps \in Seq(Names) /\ from \in Seq(Names)
      /\ n \in Nat
  BY Elements, StepsAreNames DEF Walkable
<1>2. pre \o Rooted(from) \in Names /\ Rooted(steps) \in Names /\ filename \in Names
  BY <1>1, RootedOneMore, JoinedNames
<1>3. Ahead(pre, from, steps, 0) = pre \o Rooted(from)
  BY <1>1, WalkedBySteps DEF Ahead
<1>4. Behind(steps, 0) = Rooted(steps)
  BY <1>1, BehindStep
<1>5. len \in Nat /\ Len(pre \o Rooted(from)) >= 2
  <2>1. 0 \in 0 .. Len(steps)
    BY <1>1
  <2>2. Len(Ahead(pre, from, steps, 0)) >= 2
    BY <2>1, AheadStep
  <2> HIDE DEF filename
  <2> QED
    BY <1>2, <1>3, <2>2, NameElements
<1>6. PICK turned \in [0 .. len -> Position] :
        /\ turned[0] = [name |-> filename, p |-> 3]
        /\ \A k \in 1 .. len : turned[k] = Turn(turned[k - 1])
        /\ HTSimplify(filename) = turned[len].name
  BY <1>2, Turns
<1> DEFINE T == {k \in Nat : k <= len => Simplifying(turned[k], pre, from, steps, (len - 2) - k)}
<1>7. 0 \in T
  <2>1. turned[0].name = filename /\ turned[0].p = 3
    BY <1>6
  <2>2. 0 \in 0 .. n /\ filename = Ahead(pre, from, steps, 0) \o Behind(steps, 0)
    <3>1. 0 \in 0 .. n
      BY <1>1
    <3>2. filename = Ahead(pre, from, steps, 0) \o Behind(steps, 0)
      BY <1>3, <1>4
    <3> QED
      BY <3>1, <3>2
  <2>3. 3 \in 3 .. Len(Ahead(pre, from, steps, 0)) + 1
    <3>1. Len(pre \o Rooted(from)) \in Nat
      BY <1>2, NameElements
    <3> QED
      BY <1>3, <1>5, <3>1
  <2> HIDE DEF filename
  <2>4. Len(filename) + 1 - 3 <= (len - 2) - 0
    BY <1>5
  <2> QED
    BY <2>1, <2>2, <2>3, <2>4 DEF Simplifying
<1>8. ASSUME NEW k \in Nat, k \in T PROVE k + 1 \in T
  <2> SUFFICES ASSUME k + 1 <= len
               PROVE  Simplifying(turned[k + 1], pre, from, steps, (len - 2) - (k + 1))
    OBVIOUS
  <2> HIDE DEF filename
  <2>1. k \in 0 .. len /\ k + 1 \in 1 .. len /\ (k + 1) - 1 = k /\ (len - 2) - k \in Int
        /\ ((len - 2) - k) - 1 = (len - 2) - (k + 1)
    BY <1>5
  <2>2. turned[k + 1] = Turn(turned[k]) /\ turned[k] \in Position
    BY <1>6, <2>1
  <2>3. Simplifying(turned[k], pre, from, steps, (len - 2) - k)
    BY <1>8, <2>1
  <2> HIDE DEF len, T
  <2>4. Simplifying(Turn(turned[k]), pre, from, steps, ((len - 2) - k) - 1)
    BY <2>1, <2>2, <2>3, SimplifyingTurn
  <2> QED
    BY <2>1, <2>2, <2>4
<1> HIDE DEF T
<1>9. \A k \in Nat : k \in T
  BY <1>7, <1>8, NaturalInduction
<1> HIDE DEF filename
<1>10. Simplifying(turned[len], pre, from, steps, (len - 2) - len)
  <2>1. len \in T /\ len <= len
    BY <1>5, <1>9
  <2> QED
    BY <2>1 DEF T
<1> DEFINE at == turned[len]
<1>11. at \in Position
  BY <1>5, <1>6
<1> HIDE DEF at
<1>12. PICK i \in 0 .. n :
         /\ at.name = Ahead(pre, from, steps, i) \o Behind(steps, i)
         /\ at.p \in 3 .. Len(Ahead(pre, from, steps, i)) + 1
         /\ at.p = Len(at.name) + 1 \/ Len(at.name) + 1 - at.p <= (len - 2) - len
  BY <1>10 DEF Simplifying, at
<1> DEFINE t == Ahead(pre, from, steps, i)
           rest == Behind(steps, i)
<1>13. t \in Names /\ rest \in Names
  BY <1>1, AheadStep, BehindStep
<1> HIDE DEF t, rest
<1>14. Len(at.name) = Len(t) + Len(rest) /\ Len(t) \in Nat /\ Len(rest) \in Nat
  BY <1>12, <1>13, NameConcat, NameElements DEF t, rest
<1>15. Len(rest) = 0
  <2>1. at.p \in 3 .. Len(t) + 1
    BY <1>12 DEF t
  <2>2. at.p = Len(at.name) + 1 \/ Len(at.name) + 1 - at.p <= -2
    BY <1>5, <1>12
  <2> QED
    BY <1>14, <2>1, <2>2, SMTT(40)
<1>16. rest = <<>>
  BY <1>13, <1>15, NameElements
<1>17. i = n
  <2> SUFFICES ASSUME i # n PROVE FALSE
    OBVIOUS
  <2>1. i \in 0 .. n - 1 /\ i + 1 \in 0 .. n
    BY <1>1
  <2>2. /\ rest = <<"/">> \o (steps[i + 1] \o Behind(steps, i + 1))
        /\ steps[i + 1] \in Names /\ Behind(steps, i + 1) \in Names
    BY <1>1, <2>1, BehindStep DEF rest
  <2>3. steps[i + 1] \o Behind(steps, i + 1) \in Names
    BY <2>2, JoinedNames
  <2>4. Len(rest) = 1 + Len(steps[i + 1] \o Behind(steps, i + 1))
        /\ Len(steps[i + 1] \o Behind(steps, i + 1)) \in Nat
    BY <2>2, <2>3, Slash, NameConcat, NameElements, ZenonT(60)
  <2> QED
    BY <1>15, <2>4
<1>18. at.name = t
  BY <1>12, <1>13, <1>16, JoinedNames DEF t, rest
<1>19. t = pre \o Rooted(Walk(from, steps))
  BY <1>17 DEF t, Ahead, Walk, n
<1>20. HTSimplify(filename) = at.name
  BY <1>6 DEF at
<1> QED
  BY <1>18, <1>19, <1>20 DEF filename

\* What has been simplified stays as it is.
LEMMA SimplifyClear ==
  ASSUME NEW pre \in Names, Clear(pre), Len(pre) >= 2, NEW steps \in Seq(Quiet)
  PROVE  HTSimplify(pre \o Rooted(steps)) = pre \o Rooted(steps)
<1>1. <<>> \in Seq(StepName) /\ Len(<<>>) = 0
  BY Empty
<1>2. Walkable(steps, <<>>)
  BY <1>1 DEF Walkable
<1>3. Walk(steps, <<>>) = steps
  BY <1>1, WalkedBySteps DEF Walk
<1>4. pre \o Rooted(steps) \in Names
  BY StepsAreNames, RootedOneMore, JoinedNames
<1>5. (pre \o Rooted(steps)) \o Rooted(<<>>) = pre \o Rooted(steps)
  BY <1>4, RootedOneMore, JoinedNames
<1>6. HTSimplify((pre \o Rooted(steps)) \o Rooted(<<>>)) = pre \o Rooted(Walk(steps, <<>>))
  BY <1>2, SimplifyWalks
<1> QED
  BY <1>3, <1>5, <1>6

-----------------------------------------------------------------------------
(* scan.                                                                   *)

\* The first of a set of places is before or at each of them, and one of them.
LEMMA FirstPlace ==
  ASSUME NEW T \in SUBSET Nat, NEW o
  PROVE  /\ \A i \in T : FirstOf(T, o) <= i /\ FirstOf(T, o) \in T
         /\ T = {} => FirstOf(T, o) = o
<1>1. ASSUME NEW i \in T PROVE FirstOf(T, o) <= i /\ FirstOf(T, o) \in T
  <2>1. PICK n \in T : \A m \in T : n <= m
    BY LeastElement
  <2>2. FirstOf(T, o) = n
    BY <2>1, Extremes
  <2> QED
    BY <2>1, <2>2
<1>2. T = {} => FirstOf(T, o) = o
  BY DEF FirstOf
<1> QED
  BY <1>1, <1>2

\* The first and the last of one place.
LEMMA OnePlace ==
  ASSUME NEW n \in Nat
  PROVE  /\ Min({n}) = n /\ Max({n}) = n /\ LastOf({n}, 0) = n
         /\ \A o : FirstOf({n}, o) = n
<1>1. {n} \in SUBSET Nat /\ n \in {n} /\ \A m \in {n} : m <= n /\ n <= m
  OBVIOUS
<1> QED
  BY <1>1, Extremes

\* The second of three sequences.
LEMMA Between ==
  ASSUME NEW S, NEW a \in Seq(S), NEW b \in Seq(S), NEW c \in Seq(S)
  PROVE  SubSeq((a \o b) \o c, Len(a) + 1, Len(a) + Len(b)) = b
<1> DEFINE s == (a \o b) \o c
           r == SubSeq(s, Len(a) + 1, Len(a) + Len(b))
<1>1. Len(a) \in Nat /\ Len(b) \in Nat /\ Len(c) \in Nat
  BY Elements
<1>2. /\ a \o b \in Seq(S) /\ Len(a \o b) = Len(a) + Len(b)
      /\ \A i \in 1 .. Len(b) : (a \o b)[Len(a) + i] = b[i]
  BY Concat
<1>3. /\ s \in Seq(S) /\ Len(s) = Len(a) + Len(b) + Len(c)
      /\ \A i \in 1 .. Len(a) + Len(b) : s[i] = (a \o b)[i]
  BY <1>2, Concat
<1> HIDE DEF s
<1>4. /\ Len(a) + 1 \in Nat /\ Len(a) + Len(b) \in Nat /\ 1 <= Len(a) + 1
      /\ Len(a) + 1 <= (Len(a) + Len(b)) + 1 /\ Len(a) + Len(b) <= Len(s)
      /\ (Len(a) + Len(b)) - (Len(a) + 1) + 1 = Len(b)
      /\ \A i \in 1 .. Len(b) : (Len(a) + 1) + i - 1 = Len(a) + i
  BY <1>1, <1>3
<1>5. /\ r \in Seq(S) /\ Len(r) = Len(b)
      /\ \A i \in 1 .. Len(b) : r[i] = s[Len(a) + 1 + i - 1]
  BY <1>3, <1>4, Slice
<1> HIDE DEF r
<1>6. ASSUME NEW i \in 1 .. Len(r) PROVE r[i] = b[i]
  <2>1. i \in 1 .. Len(b) /\ Len(a) + i \in 1 .. Len(a) + Len(b)
    BY <1>1, <1>5
  <2>2. r[i] = s[Len(a) + i]
    BY <1>4, <1>5, <2>1
  <2> QED
    BY <1>2, <1>3, <2>1, <2>2
<1>7. r = b
  BY <1>5, <1>6, SameSequence
<1> QED
  BY <1>7 DEF r, s

\* The elements of three sequences one after another.
LEMMA ThreeConcat ==
  ASSUME NEW a \in Names, NEW b \in Names, NEW c \in Names
  PROVE  LET s == (a \o b) \o c
         IN  /\ s \in Names /\ Len(s) = Len(a) + Len(b) + Len(c)
             /\ \A i \in 1 .. Len(a) : s[i] = a[i]
             /\ \A i \in 1 .. Len(b) : s[Len(a) + i] = b[i]
             /\ \A i \in 1 .. Len(c) : s[Len(a) + Len(b) + i] = c[i]
<1> DEFINE t == a \o b
           s == t \o c
<1>1. Parts(t, a, b)
  BY ConcatParts
<1> HIDE DEF t
<1>2. t \in Names
  BY <1>1 DEF Parts
<1>3. Parts(s, t, c)
  BY <1>2, ConcatParts
<1> HIDE DEF s
<1>4. /\ Len(t) = Len(a) + Len(b) /\ Len(a) \in Nat /\ Len(b) \in Nat
      /\ \A i \in 1 .. Len(a) : t[i] = a[i]
      /\ \A i \in 1 .. Len(b) : t[Len(a) + i] = b[i]
  BY <1>1 DEF Parts
<1>5. /\ s \in Names /\ Len(s) = Len(t) + Len(c) /\ Len(c) \in Nat
      /\ \A i \in 1 .. Len(t) : s[i] = t[i]
      /\ \A i \in 1 .. Len(c) : s[Len(t) + i] = c[i]
  BY <1>3 DEF Parts
<1>6. ASSUME NEW i \in 1 .. Len(a) PROVE s[i] = a[i]
  <2>1. i \in 1 .. Len(t)
    BY <1>4
  <2> QED
    BY <2>1, <1>4, <1>5
<1>7. ASSUME NEW i \in 1 .. Len(b) PROVE s[Len(a) + i] = b[i]
  <2>1. Len(a) + i \in 1 .. Len(t)
    BY <1>4
  <2> QED
    BY <2>1, <1>4, <1>5
<1>8. /\ s \in Names /\ Len(s) = Len(a) + Len(b) + Len(c)
      /\ \A i \in 1 .. Len(c) : s[Len(a) + Len(b) + i] = c[i]
  BY <1>4, <1>5
<1> QED
  BY <1>6, <1>7, <1>8 DEF s, t

\* An access name, or none; its text, and that of an anchor.
IsAccess(access) == access = None \/ \E w \in Word : access = <<w>>
AccessText(access) == IF access = None THEN <<>> ELSE access \o <<":">>
AnchorText(anchor) == IF anchor = None THEN <<>> ELSE <<"#">> \o anchor

\* An access name is a name.
LEMMA AccessNames ==
  ASSUME NEW access, IsAccess(access)
  PROVE  /\ AccessText(access) \in Names
         /\ access = None => AccessText(access) = <<>> /\ Len(AccessText(access)) = 0
         /\ access # None =>
              /\ access \in Names /\ Len(access) >= 1 /\ Len(access) <= 1
              /\ Len(AccessText(access)) >= 2 /\ Len(AccessText(access)) <= 2
              /\ AccessText(access)[1] = access[1] /\ AccessText(access)[2] = ":"
              /\ access[1] \notin {":", "/", "#", "."} /\ access[1] \in Word
<1>1. CASE access = None
  <2>1. AccessText(access) = <<>>
    BY <1>1 DEF AccessText
  <2> QED
    BY <2>1, <1>1, Empty DEF Names
<1>2. CASE access # None
  <2>1. PICK w \in Word : access = <<w>>
    BY <1>2 DEF IsAccess
  <2>2. w \in Token /\ w \notin {":", "/", "#", "."} /\ ":" \in Token
    BY DocumentsAssumption DEF Token
  <2> DEFINE one == <<w>>
             two == one \o <<":">>
  <2>3. one \in Names /\ Len(one) >= 1 /\ Len(one) <= 1 /\ one[1] = w
    BY <2>2 DEF Names
  <2>4. two = AccessText(access) /\ one = access
    BY <1>2, <2>1 DEF AccessText
  <2> HIDE DEF one
  <2>5. Ended(two, one, ":")
    BY <2>2, <2>3, OneToken
  <2> HIDE DEF two
  <2>6. /\ two \in Names /\ Len(two) = Len(one) + 1 /\ Len(one) \in Nat
        /\ two[Len(one) + 1] = ":" /\ \A i \in 1 .. Len(one) : two[i] = one[i]
    BY <2>5 DEF Ended
  <2>7. Len(one) + 1 = 2 /\ 1 \in 1 .. Len(one)
    BY <2>3, <2>6
  <2>8. Len(two) >= 2 /\ Len(two) <= 2 /\ two[1] = one[1] /\ two[2] = ":"
    BY <2>6, <2>7
  <2> QED
    BY <1>2, <2>2, <2>3, <2>4, <2>6, <2>8
<1> QED
  BY <1>1, <1>2

\* What scan says of a name: its access, its anchor, and what is between them.
Scanned(access, rest, anchor) ==
  [ access |-> access, host |-> rest.host, absolute |-> rest.absolute,
    relative |-> rest.relative, anchor |-> anchor ]

\* What scan makes of a name without more colons before the first slash than
\* the one of the access, and without more number signs than the one of the
\* anchor.
LEMMA ScanParts ==
  ASSUME NEW access, IsAccess(access), NEW body \in Names,
         \A i \in 1 .. Len(body) : body[i] # "#",
         \A i \in 1 .. Len(body) : body[i] = ":" => \E j \in 1 .. i : body[j] = "/",
         NEW anchor, anchor = None \/ (anchor \in Names /\ \A i \in 1 .. Len(anchor) : anchor[i] # "#")
  PROVE  scan((AccessText(access) \o body) \o AnchorText(anchor))
           = Scanned(access, RestOf(body), anchor)
<1> DEFINE a == AccessText(access)
           c == AnchorText(anchor)
           name == (a \o body) \o c
           la == Len(a)
           lb == Len(body)
           m == la + lb + 1
<1>1. a \in Names
  BY AccessNames
<1>2. /\ c \in Names
      /\ anchor = None => Len(c) = 0 /\ c = <<>>
      /\ anchor # None => /\ Len(c) = 1 + Len(anchor) /\ c[1] = "#"
                          /\ \A i \in 2 .. Len(c) : c[i] # "#"
  <2>1. CASE anchor = None
    BY <2>1, Empty DEF AnchorText, Names
  <2>2. CASE anchor # None
    <3>1. anchor \in Names /\ (\A i \in 1 .. Len(anchor) : anchor[i] # "#") /\ c = <<"#">> \o anchor
      BY <2>2 DEF AnchorText
    <3>2. Led(c, "#", anchor)
      BY <3>1, OneToken DEF Token
    <3> HIDE DEF c
    <3>3. /\ c \in Names /\ Len(c) = 1 + Len(anchor) /\ Len(anchor) \in Nat /\ c[1] = "#"
          /\ \A i \in 1 .. Len(anchor) : c[i + 1] = anchor[i]
      BY <3>2 DEF Led
    <3>4. ASSUME NEW i \in 2 .. Len(c) PROVE c[i] # "#"
      <4>1. i - 1 \in 1 .. Len(anchor) /\ (i - 1) + 1 = i
        BY <3>3
      <4> QED
        BY <3>1, <3>3, <4>1
    <3> QED
      BY <2>2, <3>3, <3>4
  <2> QED
    BY <2>1, <2>2
<1>3. la \in Nat /\ lb \in Nat /\ Len(c) \in Nat
  BY <1>1, <1>2, NameElements
<1>4. /\ access = None => la = 0
      /\ access # None => la >= 2 /\ la <= 2 /\ a[1] \notin {":", "/", "#"} /\ a[2] = ":"
  BY AccessNames
<1> HIDE DEF a, c
<1>5. /\ name \in Names /\ Len(name) = la + lb + Len(c)
      /\ \A i \in 1 .. la : name[i] = a[i]
      /\ \A i \in 1 .. lb : name[la + i] = body[i]
      /\ \A i \in 1 .. Len(c) : name[la + lb + i] = c[i]
  <2>1. c \in Names
    BY <1>2
  <2> QED
    BY <1>1, <2>1, ThreeConcat, ZenonT(60)
<1> HIDE DEF name
<1> DEFINE len == Len(name)
<1>6. len \in Nat /\ DOMAIN name = 1 .. len
  BY <1>5, NameElements
<1> HIDE DEF la, lb, m
<1>7. \A i \in 1 .. len : \/ i \in 1 .. la
                          \/ i - la \in 1 .. lb /\ name[i] = body[i - la]
                          \/ i - la - lb \in 1 .. Len(c) /\ name[i] = c[i - la - lb]
  <2> SUFFICES ASSUME NEW i \in 1 .. len, ~(i \in 1 .. la)
               PROVE  \/ i - la \in 1 .. lb /\ name[i] = body[i - la]
                      \/ i - la - lb \in 1 .. Len(c) /\ name[i] = c[i - la - lb]
    OBVIOUS
  <2>1. CASE i <= la + lb
    <3>1. i - la \in 1 .. lb /\ la + (i - la) = i
      BY <2>1, <1>3
    <3> QED
      BY <1>5, <3>1
  <2>2. CASE ~(i <= la + lb)
    <3>1. i - la - lb \in 1 .. Len(c) /\ la + lb + (i - la - lb) = i
      BY <2>2, <1>3, <1>5
    <3> QED
      BY <1>5, <3>1
  <2> QED
    BY <2>1, <2>2
<1>8. Places(name, "#") = IF anchor = None THEN {} ELSE {m}
  <2>1. ASSUME NEW i \in 1 .. len, name[i] = "#" PROVE anchor # None /\ i = m
    <3>1. CASE i \in 1 .. la
      <4>1. name[i] = a[i] /\ access # None /\ (i = 1 \/ i = 2)
        BY <3>1, <1>3, <1>4, <1>5
      <4> QED
        BY <2>1, <4>1, <1>4
    <3>2. CASE i - la \in 1 .. lb /\ name[i] = body[i - la]
      <4>1. body[i - la] # "#"
        BY <3>2 DEF lb
      <4> QED
        BY <2>1, <3>2, <4>1
    <3>3. CASE i - la - lb \in 1 .. Len(c) /\ name[i] = c[i - la - lb]
      <4>1. anchor # None
        BY <3>3, <1>2
      <4>2. i - la - lb = 1
        BY <2>1, <3>3, <4>1, <1>2, <1>3
      <4> QED
        BY <4>1, <4>2, <1>3 DEF m
    <3> QED
      BY <3>1, <3>2, <3>3, <1>7
  <2>2. ASSUME anchor # None PROVE m \in 1 .. len /\ name[m] = "#"
    <3>1. Len(c) >= 1 /\ c[1] = "#"
      <4>1. Len(anchor) \in Nat
        BY <2>2, NameElements
      <4> QED
        BY <2>2, <4>1, <1>2
    <3>2. 1 \in 1 .. Len(c)
      BY <3>1, <1>3
    <3> QED
      BY <3>1, <3>2, <1>3, <1>5 DEF m
  <2> QED
    BY <2>1, <2>2, <1>6 DEF Places
<1> DEFINE S == Places(name, "/") \cup Places(name, "#")
           stop == FirstOf(S, len + 1)
           colons == {i \in Places(name, ":") : i < stop}
           marks == Places(name, "#")
<1>9. S \in SUBSET Nat /\ \A i \in S : i \in 1 .. len /\ name[i] \in {"/", "#"}
  BY <1>6 DEF Places
<1>10. stop \in Nat /\ (\A i \in S : stop <= i) /\ (stop \in S \/ stop = len + 1)
  <2> HIDE DEF S
  <2>1. CASE S = {}
    BY <2>1, <1>6, FirstPlace
  <2>2. CASE S # {}
    BY <2>2, <1>9, FirstPlace
  <2> QED
    BY <2>1, <2>2
<1>11. colons = IF access = None THEN {} ELSE {2}
  <2>1. ASSUME NEW i \in 1 .. len, name[i] = ":", i < stop PROVE access # None /\ i = 2
    <3>1. CASE i \in 1 .. la
      <4>1. name[i] = a[i] /\ access # None /\ (i = 1 \/ i = 2)
        BY <3>1, <1>3, <1>4, <1>5
      <4> QED
        BY <2>1, <4>1, <1>4
    <3>2. CASE i - la \in 1 .. lb /\ name[i] = body[i - la]
      <4>1. PICK j \in 1 .. i - la : body[j] = "/"
        BY <2>1, <3>2 DEF lb
      <4>2. j \in 1 .. lb /\ la + j \in 1 .. len /\ la + j <= i
        BY <3>2, <1>3, <1>5
      <4>3. name[la + j] = "/"
        BY <4>1, <4>2, <1>5
      <4>4. la + j \in S
        BY <4>2, <4>3, <1>6 DEF Places
      <4>5. stop <= la + j
        BY <4>4, <1>10
      <4> QED
        BY <2>1, <4>2, <4>5, <1>10
    <3>3. CASE i - la - lb \in 1 .. Len(c) /\ name[i] = c[i - la - lb]
      <4>1. anchor # None
        BY <3>3, <1>2
      <4>2. m \in S /\ m <= i
        BY <3>3, <4>1, <1>3, <1>8 DEF m
      <4>3. m \in Nat
        BY <1>3 DEF m
      <4> HIDE DEF S, stop
      <4>4. stop <= m
        BY <4>2, <1>10
      <4> QED
        BY <2>1, <4>2, <4>3, <4>4, <1>10
    <3> QED
      BY <3>1, <3>2, <3>3, <1>7
  <2>2. ASSUME access # None PROVE 2 \in 1 .. len /\ name[2] = ":" /\ 2 < stop
    <3>1. /\ 2 \in 1 .. len /\ name[2] = ":" /\ 1 \in 1 .. len
          /\ name[1] \notin {":", "/", "#"}
      BY <2>2, <1>3, <1>4, <1>5
    <3>2. 1 \notin S /\ 2 \notin S
      BY <3>1, <1>9
    <3>3. stop # 1 /\ stop # 2
      BY <3>1, <3>2, <1>6, <1>10
    <3>4. stop >= 1
      BY <1>6, <1>9, <1>10
    <3> QED
      BY <3>1, <3>3, <3>4, <1>10
  <2> HIDE DEF stop
  <2> QED
    BY <2>1, <2>2, <1>6 DEF Places
<1>12. scan(name) = ScanAt(name, colons, marks)
  BY DEF scan
<1> HIDE DEF S, stop, colons, marks
<1>13. (IF colons = {} THEN None ELSE UpTo(name, Min(colons) - 1)) = access
  <2>1. CASE access = None
    BY <2>1, <1>11
  <2>2. CASE access # None
    <3> DEFINE k == 2
               l == k - 1
               u == UpTo(name, l)
    <3>1. k \in Nat /\ l = 1
      OBVIOUS
    <3>2. colons = {k}
      BY <2>2, <1>11
    <3>3. l \in 0 .. len /\ name[l] = a[l] /\ l \in 1 .. l /\ l \in Nat
      BY <2>2, <3>1, <1>3, <1>4, <1>5
    <3> HIDE DEF k, l
    <3>4. Min({k}) = k
      BY <3>1, OnePlace
    <3>5. u \in Names /\ Len(u) = l /\ \A i \in 1 .. l : u[i] = name[i]
      BY <3>3, <1>5, NameSides
    <3> HIDE DEF u
    <3>6. access \in Names /\ Len(access) >= 1 /\ Len(access) <= 1 /\ a[1] = access[1]
      BY <2>2, AccessNames DEF a
    <3>7. Len(access) \in Nat
      BY <3>6, NameElements
    <3>8. Len(u) = Len(access) /\ \A i \in 1 .. Len(u) : u[i] = access[i]
      BY <3>1, <3>3, <3>5, <3>6, <3>7, SMTT(40)
    <3>9. u = access
      BY <3>5, <3>6, <3>8, SameNames
    <3>10. colons # {}
      BY <3>2
    <3> QED
      BY <3>2, <3>4, <3>9, <3>10 DEF u, l
  <2> QED
    BY <2>1, <2>2
<1>14. (IF marks = {} THEN None
        ELSE SubSeq(name, Min(marks) + 1,
                    FirstOf({i \in marks : i > Min(marks)}, len + 1) - 1)) = anchor
  <2>1. CASE anchor = None
    BY <2>1, <1>8 DEF marks
  <2>2. CASE anchor # None
    <3>1. marks = {m} /\ marks # {} /\ m \in Nat
      BY <2>2, <1>3, <1>8 DEF marks, m
    <3>2. Min(marks) = m
      BY <3>1, OnePlace
    <3>3. {i \in marks : i > Min(marks)} = {}
      BY <3>1, <3>2
    <3>4. FirstOf({i \in marks : i > Min(marks)}, len + 1) = len + 1
      BY <3>3 DEF FirstOf
    <3>5. (len + 1) - 1 = len
      BY <1>6
    <3> DEFINE t == a \o body
               mark == <<"#">>
    <3>6. t \in Names /\ Len(t) = la + lb /\ mark \in Names /\ anchor \in Names /\ Len(mark) \in 1 .. 1
      <4>1. mark \in Names /\ Len(mark) \in 1 .. 1
        BY DEF Names, Token
      <4>2. t \in Names /\ Len(t) = la + lb
        BY <1>1, NameConcat DEF la, lb
      <4> QED
        BY <2>2, <4>1, <4>2
    <3>7. name = (t \o mark) \o anchor
      <4> HIDE DEF t, mark
      <4>1. name = t \o (mark \o anchor)
        BY <2>2 DEF name, t, c, AnchorText, mark
      <4> QED
        BY <3>6, <4>1, JoinedNames
    <3> DEFINE u == t \o mark
    <3>8. u \in Names /\ Len(u) = m
      BY <3>6, NameConcat DEF m
    <3> HIDE DEF u, t, mark
    <3>9. From(u \o anchor, Len(u) + 1) = anchor
      BY <3>6, <3>8, NameSidesOfConcat
    <3>10. SubSeq(name, m + 1, len) = anchor
      BY <3>7, <3>8, <3>9 DEF From, u
    <3> QED
      BY <3>1, <3>2, <3>4, <3>5, <3>10
  <2> QED
    BY <2>1, <2>2
<1>15. SubSeq(name, LastOf(colons, 0) + 1, FirstOf(marks, len + 1) - 1) = body
  <2>1. LastOf(colons, 0) = la
    <3>1. CASE access = None
      BY <3>1, <1>4, <1>11 DEF LastOf
    <3>2. CASE access # None
      <4> DEFINE k == 2
      <4>1. k \in Nat /\ colons = {k} /\ la = k
        BY <3>2, <1>3, <1>4, <1>11
      <4> HIDE DEF k
      <4>2. LastOf({k}, 0) = k
        BY <4>1, OnePlace
      <4> QED
        BY <4>1, <4>2
    <3> QED
      BY <3>1, <3>2
  <2>2. FirstOf(marks, len + 1) - 1 = la + lb
    <3>1. CASE anchor = None
      <4>1. FirstOf(marks, len + 1) = len + 1
        BY <3>1, <1>8 DEF FirstOf, marks
      <4> QED
        BY <3>1, <4>1, <1>2, <1>3, <1>5
    <3>2. CASE anchor # None
      <4>1. m \in Nat
        BY <1>3 DEF m
      <4>2. FirstOf(marks, len + 1) = m
        BY <3>2, <4>1, <1>8, OnePlace DEF marks
      <4> QED
        BY <4>2, <1>3 DEF m
    <3> QED
      BY <3>1, <3>2
  <2>3. SubSeq(name, la + 1, la + lb) = body
    BY <1>1, <1>2, Between DEF Names, name, la, lb
  <2> QED
    BY <2>1, <2>2, <2>3
<1>16. ScanAt(name, colons, marks) = Scanned(access, RestOf(body), anchor)
  BY <1>13, <1>14, <1>15 DEF ScanAt, Scanned, len
<1> QED
  BY <1>12, <1>16 DEF name, a, c

\* Two slashes at the beginning.
LEMMA TwoSlashes ==
  ASSUME NEW s \in Names
  PROVE  IsPrefix(<<"/", "/">>, s) <=> Len(s) >= 2 /\ s[1] = "/" /\ s[2] = "/"
<1> DEFINE two == <<"/", "/">>
           k == 2
           u == UpTo(s, k)
<1>1. two \in Names /\ Len(two) >= 2 /\ Len(two) <= 2 /\ two[1] = "/" /\ two[2] = "/"
  BY DEF Names, Token
<1> HIDE DEF two
<1>0. SubSeq(two, 1, Len(two)) = two
  <2>1. two \in Names /\ Len(two) \in Nat
    BY <1>1, NameElements
  <2> DEFINE n == Len(two)
             v == UpTo(two, n)
  <2>2. n \in 0 .. Len(two)
    BY <2>1
  <2> HIDE DEF n
  <2>3. v \in Names /\ Len(v) = n /\ \A i \in 1 .. n : v[i] = two[i]
    BY <2>1, <2>2, NameSides
  <2> HIDE DEF v
  <2>4. v = two
    BY <2>1, <2>3, SameNames DEF n
  <2> QED
    BY <2>4 DEF v, n, UpTo
<1>2. Len(two) = k /\ k \in Nat /\ Len(s) \in Nat /\ k = 2
  <2> DEFINE n == Len(two)
  <2>1. n \in Nat
    BY <1>1, NameElements
  <2>2. n >= k /\ n <= k /\ k \in Nat
    BY <1>1
  <2>3. k = 2
    OBVIOUS
  <2> HIDE DEF k, n
  <2>4. n = k
    BY <2>1, <2>2
  <2> QED
    BY <2>2, <2>3, <2>4, NameElements DEF n
<1> HIDE DEF k
<1>3. IsPrefix(two, s) <=> k <= Len(s) /\ two = u
  BY <1>0, <1>2 DEF IsPrefix, UpTo
<1>4. CASE k <= Len(s)
  <2>1. k \in 0 .. Len(s)
    BY <1>2, <1>4
  <2>2. u \in Names /\ Len(u) = k /\ \A i \in 1 .. k : u[i] = s[i]
    BY <2>1, NameSides
  <2> HIDE DEF u
  <2>3. (\A i \in 1 .. k : two[i] = s[i]) => two = u
    BY <1>1, <1>2, <2>2, SameNames
  <2>4. two = u => \A i \in 1 .. k : two[i] = s[i]
    BY <2>2
  <2>5. (\A i \in 1 .. k : two[i] = s[i]) <=> s[1] = "/" /\ s[2] = "/"
    BY <1>1, <1>2
  <2> QED
    BY <1>2, <1>3, <1>4, <2>3, <2>4, <2>5 DEF two
<1>5. CASE ~(k <= Len(s))
  BY <1>2, <1>3, <1>5 DEF two
<1> QED
  BY <1>4, <1>5

\* The rest of a name that is a path: from the root, or not.
LEMMA RestOfPath ==
  ASSUME NEW j \in Names, j = <<>> \/ j[1] # "/"
  PROVE  /\ RestOf(<<"/">> \o j) = [host |-> None, absolute |-> j, relative |-> None]
         /\ j # <<>> => RestOf(j) = [host |-> None, absolute |-> None, relative |-> j]
         /\ RestOf(<<>>) = [host |-> None, absolute |-> None, relative |-> None]
<1> DEFINE slash == <<"/">>
           r == slash \o j
<1>1. slash \in Names /\ Led(r, "/", j)
  BY OneToken DEF Token
<1>2. Len(slash) + 1 = 2
  OBVIOUS
<1>3. From(r, 2) = j
  <2> HIDE DEF slash
  <2>1. From(slash \o j, Len(slash) + 1) = j
    BY <1>1, NameSidesOfConcat
  <2> QED
    BY <2>1, <1>2
<1> HIDE DEF r
<1>4. /\ r \in Names /\ Len(r) = Len(j) + 1 /\ Len(j) \in Nat /\ r[1] = "/"
      /\ \A i \in 1 .. Len(j) : r[i + 1] = j[i]
  BY <1>1 DEF Led
<1>5. Len(j) = 0 <=> j = <<>>
  BY NameElements
<1>6. ~IsPrefix(<<"/", "/">>, r)
  <2> SUFFICES ASSUME Len(r) >= 2, r[2] = "/" PROVE FALSE
    BY <1>4, TwoSlashes
  <2>1. 1 \in 1 .. Len(j) /\ 1 + 1 = 2
    BY <1>4
  <2>2. r[2] = j[1] /\ j # <<>>
    BY <1>4, <1>5, <2>1
  <2> QED
    BY <2>2
<1>7. r # <<>>
  <2>1. Len(r) # 0
    BY <1>4
  <2> QED
    BY <1>4, <2>1, NameElements
<1>8. RestOf(r) = [host |-> None, absolute |-> j, relative |-> None]
  BY <1>3, <1>4, <1>6, <1>7 DEF RestOf, Split
<1>9. j # <<>> => RestOf(j) = [host |-> None, absolute |-> None, relative |-> j]
  <2> SUFFICES ASSUME j # <<>> PROVE RestOf(j) = [host |-> None, absolute |-> None, relative |-> j]
    OBVIOUS
  <2>1. ~IsPrefix(<<"/", "/">>, j)
    BY TwoSlashes
  <2> QED
    BY <2>1 DEF RestOf, Split
<1>10. RestOf(<<>>) = [host |-> None, absolute |-> None, relative |-> None]
  <2>1. <<>> \in Names /\ Len(<<>>) = 0
    BY Empty DEF Names
  <2>2. ~IsPrefix(<<"/", "/">>, <<>>)
    BY <2>1, TwoSlashes
  <2> QED
    BY <2>2 DEF RestOf, Split
<1> QED
  BY <1>8, <1>9, <1>10 DEF r, slash

\* The rest of a name that is a host and a path.
LEMMA RestOfHost ==
  ASSUME NEW host \in Names, Slashless(host), NEW j \in Names
  PROVE  RestOf((<<"/", "/">> \o host) \o (<<"/">> \o j))
           = [host |-> host, absolute |-> j, relative |-> None]
<1> DEFINE two == <<"/", "/">>
           slash == <<"/">>
           y == slash \o j
           s == (two \o host) \o y
           root == Len(host) + 3
           T == {i \in Places(s, "/") : i > 2}
<1>1. two \in Names /\ Len(two) >= 2 /\ Len(two) <= 2 /\ two[1] = "/" /\ two[2] = "/"
  BY DEF Names, Token
<1>2. slash \in Names /\ Led(y, "/", j)
  BY OneToken DEF Token
<1>3. Len(slash) + 1 = 2
  OBVIOUS
<1> HIDE DEF two, slash
<1>4. Len(two) \in Nat /\ Len(host) \in Nat /\ Len(two) = 2
  <2> DEFINE k == 2
             n == Len(two)
  <2>1. n \in Nat
    BY <1>1, NameElements
  <2>2. n >= k /\ n <= k /\ k \in Nat
    BY <1>1
  <2> HIDE DEF k, n
  <2>3. n = k
    BY <2>1, <2>2
  <2> QED
    BY <2>1, <2>3, NameElements DEF k, n
<1>5. From(y, 2) = j
  <2>1. From(slash \o j, Len(slash) + 1) = j
    BY <1>2, NameSidesOfConcat
  <2> QED
    BY <2>1, <1>3
<1> HIDE DEF y
<1>6. /\ y \in Names /\ Len(y) = Len(j) + 1 /\ Len(j) \in Nat /\ y[1] = "/"
  BY <1>2 DEF Led
<1>7. /\ s \in Names /\ Len(s) = Len(two) + Len(host) + Len(y)
      /\ \A i \in 1 .. Len(two) : s[i] = two[i]
      /\ \A i \in 1 .. Len(host) : s[Len(two) + i] = host[i]
      /\ \A i \in 1 .. Len(y) : s[Len(two) + Len(host) + i] = y[i]
  <2>1. two \in Names /\ y \in Names
    BY <1>1, <1>6
  <2> QED
    BY <2>1, ThreeConcat, ZenonT(60)
<1>8. SubSeq(s, Len(two) + 1, Len(two) + Len(host)) = host
  <2>1. two \in Names /\ y \in Names
    BY <1>1, <1>6
  <2> QED
    BY <2>1, Between DEF Names
<1>9. From(s, root + 1) = j
  <2> DEFINE t == two \o host
             k == 1
  <2>1. Parts(t, two, host)
    BY <1>1, ConcatParts
  <2>2. t \in Names /\ Len(t) = Len(two) + Len(host)
    BY <2>1 DEF Parts
  <2>3. s = t \o y
    OBVIOUS
  <2>4. k \in 0 .. Len(y) /\ k + 1 = 2
    BY <1>6
  <2> HIDE DEF t, k, s
  <2>5. From(t \o y, Len(t) + k + 1) = From(y, k + 1)
    BY <1>6, <2>2, <2>4, NameSidesOfConcat
  <2>6. Len(t) + k + 1 = root + 1
    BY <1>4, <2>2, <2>4
  <2> QED
    BY <1>5, <2>3, <2>4, <2>5, <2>6
<1> HIDE DEF s
<1>10. DOMAIN s = 1 .. Len(s) /\ Len(s) \in Nat
  BY <1>7, NameElements
<1>11. root \in T
  <2>1. 1 \in 1 .. Len(y) /\ Len(two) + Len(host) + 1 = root
    BY <1>4, <1>6
  <2>2. s[root] = "/" /\ root \in 1 .. Len(s) /\ root > 2
    BY <1>4, <1>6, <1>7, <2>1
  <2> QED
    BY <1>10, <2>2 DEF Places
<1>12. ASSUME NEW i \in T PROVE root <= i
  <2>1. i \in 1 .. Len(s) /\ s[i] = "/" /\ i > 2
    BY <1>10 DEF Places
  <2> SUFFICES ASSUME i < root PROVE FALSE
    BY <1>4, <1>10, <2>1
  <2>2. i - 2 \in 1 .. Len(host) /\ Len(two) + (i - 2) = i
    BY <1>4, <1>10, <2>1
  <2>3. s[i] = host[i - 2]
    BY <1>7, <2>2
  <2> QED
    BY <2>1, <2>2, <2>3 DEF Slashless
<1>13. T \in SUBSET Nat
  BY <1>10 DEF Places
<1> HIDE DEF T
<1>14. FirstOf(T, 0) = root
  <2> HIDE DEF root
  <2> QED
    BY <1>11, <1>12, <1>13, Extremes
<1>15. IsPrefix(<<"/", "/">>, s)
  <2>1. 1 \in 1 .. Len(two) /\ 2 \in 1 .. Len(two) /\ Len(s) >= 2
    BY <1>4, <1>6, <1>7
  <2>2. s[1] = "/" /\ s[2] = "/"
    BY <1>1, <1>7, <2>1
  <2> QED
    BY <1>7, <2>1, <2>2, TwoSlashes
<1>16. /\ root # 0 /\ root - 1 = Len(two) + Len(host) /\ Len(two) + 1 = 3 /\ s[1] = "/"
       /\ s # <<>>
  <2>1. root # 0 /\ root - 1 = Len(two) + Len(host) /\ Len(two) + 1 = 3
    BY <1>4
  <2>2. s[1] = "/"
    BY <1>7, <1>15, TwoSlashes
  <2>3. Len(s) # 0
    BY <1>4, <1>6, <1>7
  <2>4. s # <<>>
    BY <1>7, <2>3, NameElements
  <2> QED
    BY <2>1, <2>2, <2>4
<1>17. RestOf(s) = Split(s, IsPrefix(<<"/", "/">>, s), FirstOf(T, 0))
  BY DEF RestOf, T
<1>18. SubSeq(s, 3, root - 1) = host
  BY <1>8, <1>16
<1> HIDE DEF root
<1>19. RestOf(s) = [host |-> host, absolute |-> j, relative |-> None]
  BY <1>9, <1>14, <1>15, <1>16, <1>17, <1>18 DEF Split
<1> QED
  BY <1>19 DEF s, two, y, slash

\* A name without a token.
Without(s, x) == \A i \in 1 .. Len(s) : s[i] # x

\* Two of them one after the other are without it.
LEMMA WithoutConcat ==
  \A a, b \in Names : \A x : Without(a, x) /\ Without(b, x) => Without(a \o b, x)
<1> SUFFICES ASSUME NEW a \in Names, NEW b \in Names, NEW x, Without(a, x), Without(b, x)
             PROVE  Without(a \o b, x)
  OBVIOUS
<1> DEFINE c == a \o b
<1>1. Parts(c, a, b)
  BY ConcatParts
<1> HIDE DEF c
<1> SUFFICES ASSUME NEW i \in 1 .. Len(c) PROVE c[i] # x
  BY DEF Without, c
<1>2. Len(c) = Len(a) + Len(b) /\ Len(a) \in Nat /\ Len(b) \in Nat
  BY <1>1 DEF Parts
<1>3. CASE i \in 1 .. Len(a)
  BY <1>1, <1>3 DEF Parts, Without
<1>4. CASE i \notin 1 .. Len(a)
  <2> DEFINE k == i - Len(a)
  <2>1. k \in 1 .. Len(b) /\ Len(a) + k = i
    BY <1>2, <1>4
  <2> HIDE DEF k
  <2>2. c[Len(a) + k] = b[k]
    BY <1>1, <2>1 DEF Parts
  <2> QED
    BY <2>1, <2>2 DEF Without
<1> QED
  BY <1>3, <1>4

\* A name that begins with the first of the steps, without colons and number signs.
Begins(j, steps) ==
  /\ j \in Names /\ Without(j, ":") /\ Without(j, "#")
  /\ steps = <<>> => j = <<>>
  /\ steps # <<>> => \E r \in Names : /\ j = steps[1] \o r
                                      /\ Len(steps) <= 1 => r = <<>>

\* Joined steps are such a name.
LEMMA JoinedBegins == \A steps \in Seq(StepName) : Begins(Joined(steps), steps)
<1> DEFINE T == {steps \in Seq(StepName) : Begins(Joined(steps), steps)}
<1>1. <<>> \in T
  <2>1. Joined(<<>>) = <<>>
    BY DEF Joined, FlattenSeq
  <2>2. <<>> \in Names /\ Len(<<>>) = 0 /\ <<>> \in Seq(StepName)
    BY Empty DEF Names
  <2>3. Without(<<>>, ":") /\ Without(<<>>, "#")
    BY <2>2 DEF Without
  <2> QED
    BY <2>1, <2>2, <2>3 DEF Begins
<1>2. ASSUME NEW steps \in Seq(StepName), NEW step \in StepName, steps \in T
      PROVE  Append(steps, step) \in T
  <2> DEFINE more == Append(steps, step)
             j == Joined(steps)
             slash == <<"/">>
             s == slash \o step
  <2>1. /\ more \in Seq(StepName) /\ Len(more) = Len(steps) + 1 /\ Len(steps) \in Nat
        /\ \A i \in 1 .. Len(steps) : more[i] = steps[i]
        /\ more[Len(steps) + 1] = step /\ more # <<>>
        /\ Len(steps) = 0 <=> steps = <<>>
    OBVIOUS
  <2>2. step \in Names /\ steps \in Seq(Names) /\ slash \in Names
    BY StepsAreNames
  <2>3. Without(step, ":") /\ Without(step, "#")
    BY StepsAreNames DEF Without
  <2>4. Without(slash, ":") /\ Without(slash, "#")
    BY DEF Without
  <2>5. Joined(more) = IF steps = <<>> THEN step ELSE j \o s
    BY <2>2, JoinedOneMore
  <2>6. Begins(j, steps)
    BY <1>2
  <2> HIDE DEF slash, j
  <2>7. s \in Names /\ Without(s, ":") /\ Without(s, "#")
    BY <2>2, <2>3, <2>4, WithoutConcat, JoinedNames
  <2> HIDE DEF s
  <2>8. CASE steps = <<>>
    <3>1. more[1] = step /\ Len(more) <= 1
      BY <2>1, <2>8
    <3>2. step = step \o <<>> /\ <<>> \in Names
      BY <2>2, JoinedNames
    <3>3. Joined(more) = step
      BY <2>5, <2>8
    <3> HIDE DEF more
    <3>4. Begins(step, more)
      BY <2>1, <2>2, <2>3, <3>1, <3>2 DEF Begins
    <3> QED
      BY <2>1, <3>3, <3>4 DEF more
  <2>9. CASE steps # <<>>
    <3>1. more[1] = steps[1] /\ ~(Len(more) <= 1)
      BY <2>1, <2>9
    <3>2. PICK r \in Names : j = steps[1] \o r
      BY <2>6, <2>9 DEF Begins
    <3>3. steps[1] \in Names /\ j \in Names
      BY <2>1, <2>2, <2>6, <2>9 DEF Begins
    <3>4. j \o s = steps[1] \o (r \o s) /\ r \o s \in Names /\ j \o s \in Names
      BY <2>7, <3>2, <3>3, JoinedNames
    <3>5. Without(j \o s, ":") /\ Without(j \o s, "#")
      BY <2>6, <2>7, WithoutConcat DEF Begins
    <3>6. Joined(more) = j \o s
      BY <2>5, <2>9
    <3> DEFINE js == j \o s
               rs == r \o s
    <3> HIDE DEF more, js, rs
    <3>7. Begins(js, more)
      <4>1. js = more[1] \o rs /\ rs \in Names /\ js \in Names
        BY <3>1, <3>4 DEF js, rs
      <4>2. Without(js, ":") /\ Without(js, "#")
        BY <3>5 DEF js
      <4> QED
        BY <2>1, <3>1, <4>1, <4>2 DEF Begins
    <3> QED
      BY <2>1, <3>6, <3>7 DEF js, more
  <2> QED
    BY <2>8, <2>9
<1> HIDE DEF T
<1>3. \A steps \in Seq(StepName) : steps \in T
  BY <1>1, <1>2, SequenceInduction
<1> QED
  BY <1>3 DEF T

\* The text of a host, and of a path.
HostText(host) == IF host = None THEN <<>> ELSE <<"/", "/">> \o host
PathText(rooted, steps) == IF rooted THEN <<"/">> \o Joined(steps) ELSE Joined(steps)

\* An address that scan takes apart into what it was put together from.
IsAddress(p) ==
  /\ IsAccess(p.access)
  /\ p.host = None \/ (IsHost(p.host) /\ p.rooted)
  /\ p.rooted \in BOOLEAN
  /\ p.steps \in Seq(StepName)
  /\ p.rooted => p.steps # <<>>
  /\ p.steps # <<>> /\ p.steps[1] = <<>> => p.rooted /\ Len(p.steps) <= 1
  /\ p.anchor = None \/ p.anchor \in Seq(Word)

\* The parts of an address.
Parsed(p) ==
  [ access   |-> p.access, host |-> p.host,
    absolute |-> IF p.rooted THEN Joined(p.steps) ELSE None,
    relative |-> IF p.rooted \/ p.steps = <<>> THEN None ELSE Joined(p.steps),
    anchor   |-> p.anchor ]

\* A host is a name without slashes, number signs, and is not dots.
LEMMA HostNames ==
  ASSUME NEW host, IsHost(host)
  PROVE  /\ host \in Names /\ host # <<>> /\ ~Dots(host) /\ host # None
         /\ Slashless(host) /\ Without(host, "#")
<1> DEFINE S == Word \cup {".", ":"}
<1>1. host \in Seq(S) /\ host # <<>> /\ ~Dots(host)
  BY DEF IsHost
<1>2. S \subseteq Token
  BY DEF Token
<1>3. host \in Names
  BY <1>1, <1>2, SequencesOfMore DEF Names
<1>4. \A i \in 1 .. Len(host) : host[i] \in S
  BY <1>1, Elements
<1>5. "/" \notin S /\ "#" \notin S
  BY DocumentsAssumption
<1> HIDE DEF S
<1> QED
  BY <1>1, <1>3, <1>4, <1>5, DocumentsAssumption DEF Slashless, Without, Names

\* The path of an address.
LEMMA PathNames ==
  ASSUME NEW p, IsAddress(p)
  PROVE  LET j == Joined(p.steps)
             path == PathText(p.rooted, p.steps)
         IN  /\ j \in Names /\ (j = <<>> \/ j[1] # "/")
             /\ path \in Names /\ Without(path, ":") /\ Without(path, "#")
             /\ ~p.rooted => (p.steps = <<>> <=> j = <<>>)
<1> DEFINE j == Joined(p.steps)
           path == PathText(p.rooted, p.steps)
           slash == <<"/">>
<1>1. /\ p.steps \in Seq(StepName) /\ p.rooted \in BOOLEAN
      /\ p.steps # <<>> /\ p.steps[1] = <<>> => p.rooted /\ Len(p.steps) <= 1
  BY DEF IsAddress
<1>2. Begins(j, p.steps)
  BY <1>1, JoinedBegins
<1>3. slash \in Names /\ Without(slash, ":") /\ Without(slash, "#")
  BY Slash DEF Without
<1>4. path = IF p.rooted THEN slash \o j ELSE j
  BY DEF PathText
<1> HIDE DEF j, path, slash
<1>5. j \in Names /\ Without(j, ":") /\ Without(j, "#")
  BY <1>2 DEF Begins
<1>6. path \in Names /\ Without(path, ":") /\ Without(path, "#")
  BY <1>3, <1>4, <1>5, WithoutConcat, JoinedNames
<1>7. CASE p.steps = <<>>
  <2>1. j = <<>>
    BY <1>2, <1>7 DEF Begins
  <2> QED
    BY <1>5, <1>6, <1>7, <2>1 DEF j, path
<1>8. CASE p.steps # <<>>
  <2> DEFINE s == p.steps[1]
  <2>1. PICK r \in Names : j = s \o r /\ (Len(p.steps) <= 1 => r = <<>>)
    BY <1>2, <1>8 DEF Begins
  <2>2. s \in StepName
    BY <1>1, <1>8, Elements
  <2>3. s \in Names /\ Slashless(s)
    BY <2>2, StepsAreNames DEF Slashless
  <2>4. s = <<>> => p.rooted /\ Len(p.steps) <= 1
    BY <1>1, <1>8
  <2> HIDE DEF s
  <2>5. CASE s = <<>>
    <3>1. j = <<>>
      BY <2>1, <2>4, <2>5, JoinedNames
    <3> QED
      BY <1>5, <1>6, <2>4, <2>5, <3>1 DEF j, path
  <2>6. CASE s # <<>>
    <3>1. Parts(j, s, r)
      BY <2>1, <2>3, ConcatParts
    <3>2. Len(s) \in Nat /\ Len(s) # 0
      BY <2>3, <2>6, NameElements
    <3>3. 1 \in 1 .. Len(s) /\ 1 \in 1 .. Len(j)
      BY <3>1, <3>2 DEF Parts
    <3>4. j[1] = s[1]
      BY <3>1, <3>3 DEF Parts
    <3>5. j[1] # "/"
      BY <2>3, <3>3, <3>4 DEF Slashless
    <3>6. Len(j) # 0
      BY <3>3
    <3>7. j # <<>>
      BY <1>5, <3>6, NameElements
    <3> QED
      BY <1>5, <1>6, <1>8, <3>5, <3>7 DEF j, path
  <2> QED
    BY <2>5, <2>6
<1> QED
  BY <1>7, <1>8

\* The anchor of an address.
LEMMA AnchorNames ==
  ASSUME NEW anchor, anchor = None \/ anchor \in Seq(Word)
  PROVE  /\ AnchorText(anchor) \in Names
         /\ anchor # None => anchor \in Names /\ Without(anchor, "#")
<1>1. CASE anchor = None
  BY <1>1, JoinedNames DEF AnchorText
<1>2. CASE anchor # None
  <2>1. Word \subseteq Token
    BY DEF Token
  <2>2. anchor \in Names
    BY <1>2, <2>1, SequencesOfMore DEF Names
  <2>3. \A i \in 1 .. Len(anchor) : anchor[i] \in Word
    BY <1>2, Elements
  <2>4. <<"#">> \in Names
    BY DEF Names, Token
  <2>5. AnchorText(anchor) \in Names
    BY <1>2, <2>2, <2>4, JoinedNames DEF AnchorText
  <2> QED
    BY <2>2, <2>3, <2>5, DocumentsAssumption DEF Without
<1> QED
  BY <1>1, <1>2

\* The names that the text of an address is made of.
LEMMA TextNames ==
  ASSUME NEW p, IsAddress(p)
  PROVE  /\ AccessText(p.access) \in Names /\ HostText(p.host) \in Names
         /\ PathText(p.rooted, p.steps) \in Names /\ AnchorText(p.anchor) \in Names
<1>1. IsAccess(p.access) /\ (p.host = None \/ IsHost(p.host))
      /\ (p.anchor = None \/ p.anchor \in Seq(Word))
  BY DEF IsAddress
<1>2. HostText(p.host) \in Names
  <2>1. <<"/", "/">> \in Names
    BY DEF Names, Token
  <2>2. CASE p.host = None
    BY <2>2, JoinedNames DEF HostText
  <2>3. CASE p.host # None
    <3>1. p.host \in Names
      BY <1>1, <2>3, HostNames
    <3> QED
      BY <2>1, <2>3, <3>1, JoinedNames DEF HostText
  <2> QED
    BY <2>2, <2>3
<1>3. AccessText(p.access) \in Names /\ AnchorText(p.anchor) \in Names
  BY <1>1, AccessNames, AnchorNames
<1>4. PathText(p.rooted, p.steps) \in Names
  BY PathNames
<1> QED
  BY <1>2, <1>3, <1>4

\* The text of an address: its access, its host and path, and its anchor.
LEMMA TextParts ==
  ASSUME NEW p, IsAddress(p)
  PROVE  /\ Text(p) = (AccessText(p.access) \o (HostText(p.host) \o PathText(p.rooted, p.steps)))
                        \o AnchorText(p.anchor)
         /\ p.rooted => Text(p) = ((AccessText(p.access) \o HostText(p.host)) \o Rooted(p.steps))
                                    \o AnchorText(p.anchor)
<1> DEFINE slash == <<"/">>
           a == AccessText(p.access)
           h == HostText(p.host)
           r == IF p.rooted THEN slash ELSE <<>>
           j == Joined(p.steps)
           n == AnchorText(p.anchor)
           path == PathText(p.rooted, p.steps)
<1>1. Text(p) = (((a \o h) \o r) \o j) \o n
  BY DEF Text, AccessText, HostText, AnchorText
<1>2. a \in Names /\ h \in Names /\ n \in Names
  BY TextNames
<1>3. j \in Names
  BY PathNames
<1>4. r \in Names /\ slash \in Names
  BY Slash, JoinedNames
<1>5. path = r \o j
  <2> HIDE DEF j, slash
  <2>1. <<>> \o j = j
    BY <1>3, JoinedNames
  <2>2. path = IF p.rooted THEN slash \o j ELSE j
    BY DEF PathText, j, slash
  <2> QED
    BY <2>1, <2>2
<1>6. p.rooted => path = Rooted(p.steps)
  BY DEF PathText, IsAddress, Rooted
<1> HIDE DEF a, h, r, j, n, path, slash
<1>7. (((a \o h) \o r) \o j) = a \o (h \o (r \o j))
  <2>1. a \o h \in Names /\ r \o j \in Names
    BY <1>2, <1>3, <1>4, JoinedNames
  <2>2. ((a \o h) \o r) \o j = (a \o h) \o (r \o j)
    BY <1>3, <1>4, <2>1, JoinedNames, ZenonT(60)
  <2>3. (a \o h) \o (r \o j) = a \o (h \o (r \o j))
    BY <1>2, <2>1, JoinedNames, ZenonT(60)
  <2> QED
    BY <2>2, <2>3
<1>8. path \in Names
  BY <1>3, <1>4, <1>5, JoinedNames
<1>9. a \o (h \o path) = (a \o h) \o path
  BY <1>2, <1>8, JoinedNames
<1>10. Text(p) = (a \o (h \o path)) \o n
  BY <1>1, <1>5, <1>7
<1>11. p.rooted => Text(p) = ((a \o h) \o Rooted(p.steps)) \o n
  BY <1>6, <1>9, <1>10
<1> QED
  BY <1>10, <1>11 DEF a, h, n, path

\* scan takes the text of an address apart into its parts.
THEOREM ScanText ==
  ASSUME NEW p, IsAddress(p)
  PROVE  scan(Text(p)) = Parsed(p)
<1> DEFINE path == PathText(p.rooted, p.steps)
           body == HostText(p.host) \o path
           j == Joined(p.steps)
           two == <<"/", "/">>
           slash == <<"/">>
<1>1. /\ IsAccess(p.access)
      /\ p.host = None \/ (IsHost(p.host) /\ p.rooted)
      /\ p.rooted \in BOOLEAN
      /\ p.anchor = None \/ p.anchor \in Seq(Word)
  BY DEF IsAddress
<1>2. /\ j \in Names /\ (j = <<>> \/ j[1] # "/")
      /\ path \in Names /\ Without(path, ":") /\ Without(path, "#")
      /\ ~p.rooted => (p.steps = <<>> <=> j = <<>>)
  BY PathNames
<1>3. path = IF p.rooted THEN slash \o j ELSE j
  BY DEF PathText
<1>4. two \in Names /\ Without(two, "#") /\ Len(two) >= 1 /\ two[1] = "/"
  BY DEF Names, Token, Without
<1> HIDE DEF path, j, two, slash
<1>5. /\ body \in Names /\ Without(body, "#")
      /\ \A i \in 1 .. Len(body) : body[i] = ":" => \E k \in 1 .. i : body[k] = "/"
      /\ RestOf(body) = [ host |-> p.host, absolute |-> IF p.rooted THEN j ELSE None,
                          relative |-> IF p.rooted \/ p.steps = <<>> THEN None ELSE j ]
  <2>1. CASE p.host = None
    <3>1. body = path
      BY <1>2, <2>1, JoinedNames DEF HostText
    <3>2. p.rooted => RestOf(path) = [host |-> None, absolute |-> j, relative |-> None]
      <4>1. RestOf(slash \o j) = [host |-> None, absolute |-> j, relative |-> None]
        BY <1>2, RestOfPath DEF slash
      <4> QED
        BY <1>3, <4>1
    <3>3. ~p.rooted /\ p.steps # <<>>
            => RestOf(path) = [host |-> None, absolute |-> None, relative |-> j]
      <4>1. j # <<>> => RestOf(j) = [host |-> None, absolute |-> None, relative |-> j]
        BY <1>2, RestOfPath
      <4> QED
        BY <1>2, <1>3, <4>1
    <3>4. ~p.rooted /\ p.steps = <<>>
            => RestOf(path) = [host |-> None, absolute |-> None, relative |-> None]
      <4>1. RestOf(<<>>) = [host |-> None, absolute |-> None, relative |-> None]
        BY <1>2, RestOfPath
      <4> QED
        BY <1>2, <1>3, <4>1
    <3>5. RestOf(path) = [ host |-> p.host, absolute |-> IF p.rooted THEN j ELSE None,
                           relative |-> IF p.rooted \/ p.steps = <<>> THEN None ELSE j ]
      BY <1>1, <2>1, <3>2, <3>3, <3>4
    <3>6. \A i \in 1 .. Len(path) : path[i] = ":" => \E k \in 1 .. i : path[k] = "/"
      BY <1>2 DEF Without
    <3> QED
      BY <1>2, <3>1, <3>5, <3>6
  <2>2. CASE p.host # None
    <3> DEFINE h == p.host
               t == two \o h
    <3>1. IsHost(h) /\ p.rooted
      BY <1>1, <2>2
    <3>2. h \in Names /\ Slashless(h) /\ Without(h, "#")
      BY <3>1, HostNames
    <3>3. path = slash \o j
      BY <1>3, <3>1
    <3>4. body = t \o path
      BY <2>2 DEF HostText, two
    <3> HIDE DEF h
    <3>5. RestOf((two \o h) \o (slash \o j)) = [host |-> h, absolute |-> j, relative |-> None]
      BY <1>2, <3>2, RestOfHost DEF two, slash
    <3>6. t \in Names /\ Without(t, "#")
      BY <1>4, <3>2, WithoutConcat, JoinedNames
    <3>7. Parts(t, two, h)
      BY <1>4, <3>2, ConcatParts
    <3>8. Len(two) \in Nat /\ Len(h) \in Nat
      BY <1>4, <3>2, NameElements
    <3>9. 1 \in 1 .. Len(two) /\ 1 \in 1 .. Len(t)
      BY <1>4, <3>7, <3>8 DEF Parts
    <3>10. t[1] = "/"
      BY <1>4, <3>7, <3>9 DEF Parts
    <3>11. RestOf(t \o path) = [host |-> h, absolute |-> j, relative |-> None]
      BY <3>3, <3>5
    <3> HIDE DEF t
    <3> DEFINE b == t \o path
    <3>12. b \in Names /\ Without(b, "#")
      BY <1>2, <3>6, WithoutConcat, JoinedNames
    <3>13. Parts(b, t, path)
      BY <1>2, <3>6, ConcatParts
    <3> HIDE DEF b
    <3>14. b[1] = "/"
      BY <3>9, <3>10, <3>13 DEF Parts
    <3>15. Len(b) \in Nat
      BY <3>12, NameElements
    <3>16. \A i \in 1 .. Len(b) : b[i] = ":" => \E k \in 1 .. i : b[k] = "/"
      BY <3>14, <3>15
    <3>17. body = b /\ RestOf(b) = [host |-> h, absolute |-> j, relative |-> None]
      BY <3>4, <3>11 DEF b
    <3> HIDE DEF body
    <3> QED
      BY <3>1, <3>12, <3>16, <3>17 DEF h
  <2> QED
    BY <2>1, <2>2
<1> HIDE DEF body
<1>6. /\ \A i \in 1 .. Len(body) : body[i] # "#"
      /\ p.anchor = None \/ (p.anchor \in Names /\ \A i \in 1 .. Len(p.anchor) : p.anchor[i] # "#")
  BY <1>1, <1>5, AnchorNames DEF Without
<1>7. scan((AccessText(p.access) \o body) \o AnchorText(p.anchor))
        = Scanned(p.access, RestOf(body), p.anchor)
  BY <1>1, <1>5, <1>6, ScanParts
<1>8. Text(p) = (AccessText(p.access) \o body) \o AnchorText(p.anchor)
  BY TextParts DEF body, path
<1>9. Scanned(p.access, RestOf(body), p.anchor) = Parsed(p)
  BY <1>5 DEF Scanned, Parsed, j
<1> QED
  BY <1>7, <1>8, <1>9

\* What is not given is taken from the other, and nothing if it has none.
Given(x, y) == IF x # None THEN x ELSE y

\* As a text.
OrNothing(x) == IF x = None THEN <<>> ELSE x

\* The flags of HTParse that ask for all but the anchor.
WholeName == {Access, HostPart, PathPart, Punctuation}

\* The parts that are there for one name and another.
Taken(g, r, access, host, anchor, path) ==
  /\ access = Given(g.access, r.access) /\ (access = None \/ access \in Names)
  /\ host = Given(g.host, r.host) /\ (host = None \/ host \in Names)
  /\ anchor = Given(g.anchor, r.anchor) /\ (anchor = None \/ anchor \in Names)
  /\ path = PathFrom(g, r, <<"/">>) /\ path \in Names

\* The parts of a name put together, for the flags it is asked with.
PutTogether(g, r, access, host, anchor, path) ==
  /\ Assembled(g, r, PARSE_ALL)
       = ((AccessText(access) \o HostText(host)) \o path) \o AnchorText(anchor)
  /\ Assembled(g, r, WholeName) = (AccessText(access) \o HostText(host)) \o path
  /\ Assembled(g, r, {AnchorPart}) = OrNothing(anchor)
  /\ Assembled(g, r, {HostPart}) = OrNothing(host)
  /\ Assembled(g, r, {Access}) = OrNothing(access)
  /\ Assembled(g, r, {PathPart, Punctuation}) = path

\* The parts that are there are what is put together.
LEMMA AssembledParts ==
  ASSUME NEW g, NEW r, NEW access, NEW host, NEW anchor, NEW path,
         Taken(g, r, access, host, anchor, path)
  PROVE  PutTogether(g, r, access, host, anchor, path)
<1> DEFINE colon == <<":">>
           two == <<"/", "/">>
           mark == <<"#">>
           slash == <<"/">>
           Part(x, before, after) == IF x = None THEN <<>> ELSE (before \o x) \o after
           Whole(a, h, p, n) == ((a \o h) \o p) \o n
<1>1. /\ Assembled(g, r, PARSE_ALL)
           = Whole(Part(access, <<>>, colon), Part(host, two, <<>>), path, Part(anchor, mark, <<>>))
      /\ Assembled(g, r, WholeName)
           = Whole(Part(access, <<>>, colon), Part(host, two, <<>>), path, <<>>)
      /\ Assembled(g, r, {AnchorPart}) = Whole(<<>>, <<>>, <<>>, Part(anchor, <<>>, <<>>))
      /\ Assembled(g, r, {HostPart}) = Whole(<<>>, Part(host, <<>>, <<>>), <<>>, <<>>)
      /\ Assembled(g, r, {Access}) = Whole(Part(access, <<>>, <<>>), <<>>, <<>>, <<>>)
      /\ Assembled(g, r, {PathPart, Punctuation}) = Whole(<<>>, <<>>, path, <<>>)
  BY DEF Taken, Assembled, Given, PARSE_ALL, WholeName, Access, HostPart, PathPart, AnchorPart,
         Punctuation
<1>0. /\ access = None \/ access \in Names
      /\ host = None \/ host \in Names
      /\ anchor = None \/ anchor \in Names
      /\ path \in Names
  BY DEF Taken
<1>2. colon \in Names /\ two \in Names /\ mark \in Names /\ slash \in Names /\ <<>> \in Names
  BY JoinedNames DEF Names, Token
<1>3. \A s \in Names : <<>> \o s = s /\ s \o <<>> = s
  BY JoinedNames
<1>4. \A x : AccessText(x) = IF x = None THEN <<>> ELSE x \o colon
  BY DEF AccessText
<1>5. \A x : HostText(x) = IF x = None THEN <<>> ELSE two \o x
  BY DEF HostText
<1>6. \A x : AnchorText(x) = IF x = None THEN <<>> ELSE mark \o x
  BY DEF AnchorText
<1>7. Part(access, <<>>, colon) = AccessText(access) /\ AccessText(access) \in Names
  <2> HIDE DEF colon
  <2> QED
    BY <1>0, <1>2, <1>3, <1>4, JoinedNames
<1>8. Part(host, two, <<>>) = HostText(host) /\ HostText(host) \in Names
  <2> HIDE DEF two
  <2>1. host # None => two \o host \in Names
    BY <1>0, <1>2, JoinedNames
  <2> QED
    BY <2>1, <1>0, <1>2, <1>3, <1>5
<1>9. Part(anchor, mark, <<>>) = AnchorText(anchor) /\ AnchorText(anchor) \in Names
  <2> HIDE DEF mark
  <2>1. anchor # None => mark \o anchor \in Names
    BY <1>0, <1>2, JoinedNames
  <2> QED
    BY <2>1, <1>0, <1>2, <1>3, <1>6
<1>10. \A x : x = None \/ x \in Names =>
         Part(x, <<>>, <<>>) = OrNothing(x) /\ OrNothing(x) \in Names
  BY <1>2, <1>3 DEF OrNothing
<1> HIDE DEF Part
<1>11. \A s \in Names : /\ Whole(<<>>, <<>>, <<>>, s) = s /\ Whole(<<>>, <<>>, s, <<>>) = s
                        /\ Whole(<<>>, s, <<>>, <<>>) = s /\ Whole(s, <<>>, <<>>, <<>>) = s
  BY <1>2, <1>3
<1>12. \A a, h \in Names : Whole(a, h, path, <<>>) = (a \o h) \o path
  BY <1>0, <1>3, JoinedNames
<1>13. \A a, h, n : Whole(a, h, path, n) = ((a \o h) \o path) \o n
  OBVIOUS
<1> HIDE DEF Whole, colon, two, mark
<1>14. Assembled(g, r, PARSE_ALL) = ((AccessText(access) \o HostText(host)) \o path) \o AnchorText(anchor)
  <2> DEFINE pa == Part(access, <<>>, colon)
             ph == Part(host, two, <<>>)
             pn == Part(anchor, mark, <<>>)
  <2>1. Assembled(g, r, PARSE_ALL) = Whole(pa, ph, path, pn)
    BY <1>1
  <2>2. pa = AccessText(access) /\ ph = HostText(host) /\ pn = AnchorText(anchor)
    BY <1>7, <1>8, <1>9
  <2> HIDE DEF pa, ph, pn
  <2>3. Whole(pa, ph, path, pn) = ((pa \o ph) \o path) \o pn
    BY <1>13
  <2> QED
    BY <2>1, <2>2, <2>3
<1>15. Assembled(g, r, WholeName) = (AccessText(access) \o HostText(host)) \o path
  <2> DEFINE pa == Part(access, <<>>, colon)
             ph == Part(host, two, <<>>)
  <2>1. Assembled(g, r, WholeName) = Whole(pa, ph, path, <<>>)
    BY <1>1
  <2>2. pa = AccessText(access) /\ ph = HostText(host) /\ pa \in Names /\ ph \in Names
    BY <1>7, <1>8
  <2> HIDE DEF pa, ph
  <2>3. Whole(pa, ph, path, <<>>) = (pa \o ph) \o path
    BY <1>12, <2>2
  <2> QED
    BY <2>1, <2>2, <2>3
<1>16. /\ Assembled(g, r, {AnchorPart}) = OrNothing(anchor)
       /\ Assembled(g, r, {HostPart}) = OrNothing(host)
       /\ Assembled(g, r, {Access}) = OrNothing(access)
       /\ Assembled(g, r, {PathPart, Punctuation}) = path
  BY <1>0, <1>1, <1>10, <1>11
<1> QED
  BY <1>14, <1>15, <1>16 DEF PutTogether

\* No part at all.
Nothing == [access |-> None, host |-> None, absolute |-> None, relative |-> None, anchor |-> None]

\* What scan finds in an empty name.
LEMMA ScanNothing == scan(<<>>) = Nothing
<1> DEFINE p == [access |-> None, host |-> None, rooted |-> FALSE, steps |-> <<>>, anchor |-> None]
<1>1. IsAddress(p)
  BY Empty DEF IsAddress, IsAccess
<1>2. Joined(<<>>) = <<>>
  BY DEF Joined, FlattenSeq
<1>3. Text(p) = <<>>
  <2>1. Text(p) = (((<<>> \o <<>>) \o <<>>) \o Joined(<<>>)) \o <<>>
    BY DEF Text
  <2> QED
    BY <2>1, <1>2, JoinedNames
<1>4. Parsed(p) = Nothing
  BY DEF Parsed, Nothing
<1> HIDE DEF p
<1>5. scan(Text(p)) = Parsed(p)
  BY <1>1, ScanText
<1> QED
  BY <1>3, <1>4, <1>5

\* The parts of an address with a path from the root, asked for one by one.
LEMMA NameParts ==
  ASSUME NEW p, IsAddress(p), p.rooted
  PROVE  /\ HTParse(Text(p), <<>>, {AnchorPart}) = OrNothing(p.anchor)
         /\ AccessOf(Text(p)) = OrNothing(p.access)
         /\ HostOf(Text(p)) = OrNothing(p.host)
         /\ PathOf(Text(p)) = Rooted(p.steps)
         /\ HTParse(Text(p), <<>>, WholeName)
              = (AccessText(p.access) \o HostText(p.host)) \o Rooted(p.steps)
<1> DEFINE g == Parsed(p)
           j == Joined(p.steps)
           path == <<"/">> \o j
<1>1. scan(Text(p)) = g /\ scan(<<>>) = Nothing
  BY ScanText, ScanNothing
<1>2. Inherited(g, Nothing) = Nothing
  BY DEF Inherited, Nothing
<1>3. /\ IsAccess(p.access)
      /\ p.host = None \/ IsHost(p.host)
      /\ p.anchor = None \/ p.anchor \in Seq(Word)
      /\ p.steps # <<>>
  BY DEF IsAddress
<1>4. j \in Names
  BY PathNames
<1>5. j # None
  BY <1>4, DocumentsAssumption DEF Names
<1>6. path = Rooted(p.steps)
  BY <1>3 DEF Rooted
<1>7. path \in Names
  BY <1>4, Slash, JoinedNames
<1>8. g.absolute = j
  BY DEF Parsed
<1>9. PathFrom(g, Nothing, <<"/">>) = path
  <2> HIDE DEF g, j
  <2> QED
    BY <1>5, <1>8 DEF PathFrom
<1>10. /\ p.access = Given(g.access, Nothing.access)
       /\ p.host = Given(g.host, Nothing.host)
       /\ p.anchor = Given(g.anchor, Nothing.anchor)
  BY DEF Parsed, Nothing, Given
<1>11. /\ p.access = None \/ p.access \in Names
       /\ p.host = None \/ p.host \in Names
       /\ p.anchor = None \/ p.anchor \in Names
  BY <1>3, AccessNames, HostNames, AnchorNames
<1> HIDE DEF g, path
<1>12. /\ Assembled(g, Nothing, WholeName) = (AccessText(p.access) \o HostText(p.host)) \o path
       /\ Assembled(g, Nothing, {AnchorPart}) = OrNothing(p.anchor)
       /\ Assembled(g, Nothing, {HostPart}) = OrNothing(p.host)
       /\ Assembled(g, Nothing, {Access}) = OrNothing(p.access)
       /\ Assembled(g, Nothing, {PathPart, Punctuation}) = path
  <2>1. Taken(g, Nothing, p.access, p.host, p.anchor, path)
    BY <1>7, <1>9, <1>10, <1>11 DEF Taken
  <2>2. PutTogether(g, Nothing, p.access, p.host, p.anchor, path)
    BY <2>1, AssembledParts
  <2> QED
    BY <2>2 DEF PutTogether
<1>13. \A wanted : HTParse(Text(p), <<>>, wanted) = Assembled(g, Nothing, wanted)
  BY <1>1, <1>2 DEF HTParse
<1> QED
  BY <1>6, <1>12, <1>13 DEF AccessOf, HostOf, PathOf

\* The last slash of a name is the one before its last step.
LEMMA LastStep ==
  ASSUME NEW u \in Names, NEW w \in Names, Slashless(w)
  PROVE  LET t == u \o (<<"/">> \o w)
         IN  /\ t \in Names
             /\ Max(Places(t, "/")) = Len(u) + 1
             /\ WithoutFile(t) = u \o <<"/">>
             /\ From(t, Len(u) + 1) = <<"/">> \o w
<1> DEFINE slash == <<"/">>
           s == slash \o w
           t == u \o s
           n == Len(u) + 1
<1>1. slash \in Names /\ Led(s, "/", w)
  BY OneToken DEF Token
<1>2. Ended(u \o slash, u, "/")
  BY OneToken DEF Token
<1>3. s \in Names /\ Len(s) = Len(w) + 1 /\ Len(w) \in Nat /\ s[1] = "/"
      /\ \A i \in 1 .. Len(w) : s[i + 1] = w[i]
  BY <1>1 DEF Led
<1>4. t = (u \o slash) \o w
  BY <1>1, JoinedNames
<1>5. From(t, n) = s
  <2>1. s \in Names
    BY <1>3
  <2> HIDE DEF s
  <2> QED
    BY <2>1, NameSidesOfConcat
<1> HIDE DEF slash
<1>6. UpTo(t, n) = u \o slash
  <2> DEFINE v == u \o slash
  <2>1. v \in Names /\ Len(v) = n
    BY <1>2 DEF Ended
  <2> HIDE DEF v
  <2>2. UpTo(v \o w, Len(v)) = v
    BY <2>1, NameSidesOfConcat
  <2> QED
    BY <1>4, <2>1, <2>2 DEF v
<1>7. Parts(t, u, s)
  <2>1. s \in Names
    BY <1>3
  <2> HIDE DEF s
  <2> QED
    BY <2>1, ConcatParts
<1> HIDE DEF s, t
<1>8. t \in Names /\ Len(t) = Len(u) + Len(s) /\ Len(u) \in Nat
  BY <1>7 DEF Parts
<1>9. DOMAIN t = 1 .. Len(t)
  BY <1>8, NameElements
<1>10. n \in Places(t, "/")
  <2>1. 1 \in 1 .. Len(s) /\ n \in 1 .. Len(t)
    BY <1>3, <1>8
  <2>2. t[n] = s[1]
    BY <1>7, <2>1 DEF Parts
  <2> QED
    BY <1>3, <1>9, <2>1, <2>2 DEF Places
<1>11. ASSUME NEW i \in Places(t, "/") PROVE i <= n
  <2>1. i \in 1 .. Len(t) /\ t[i] = "/"
    BY <1>9 DEF Places
  <2> SUFFICES ASSUME i > n PROVE FALSE
    BY <1>8, <2>1
  <2> DEFINE k == i - n
  <2>2. k \in 1 .. Len(w) /\ Len(u) + (k + 1) = i /\ k + 1 \in 1 .. Len(s)
    BY <1>3, <1>8, <2>1
  <2> HIDE DEF k
  <2>3. t[Len(u) + (k + 1)] = s[k + 1]
    BY <1>7, <2>2 DEF Parts
  <2>4. s[k + 1] = w[k]
    BY <1>3, <2>2
  <2> QED
    BY <2>1, <2>2, <2>3, <2>4 DEF Slashless
<1>12. Places(t, "/") \in SUBSET Nat
  BY <1>8, <1>9 DEF Places
<1>13. Max(Places(t, "/")) = n
  <2> HIDE DEF n
  <2> QED
    BY <1>10, <1>11, <1>12, Extremes
<1>14. WithoutFile(t) = u \o slash
  BY <1>6, <1>13 DEF WithoutFile
<1> QED
  BY <1>5, <1>8, <1>13, <1>14 DEF t, s, slash

\* A place is an address, with a host and steps that are not dots.
LEMMA PlaceIsAddress ==
  ASSUME NEW p, IsPlace(p)
  PROVE  /\ IsAddress(p) /\ p.rooted /\ p.access # None /\ p.host # None /\ p.anchor = None
         /\ IsAccess(p.access) /\ IsHost(p.host)
         /\ p.steps \in Seq(Quiet) /\ p.steps # <<>>
         /\ Front(p.steps) \in Seq(Quiet) /\ Last(p.steps) \in Quiet
         /\ p.steps = Append(Front(p.steps), Last(p.steps))
         /\ \A i \in 1 .. Len(Front(p.steps)) : Front(p.steps)[i] # <<>>
<1>1. /\ p \in [access : {<<w>> : w \in Word}, host : Seq(Token), rooted : {TRUE},
                steps : Seq(StepName), anchor : {None}]
      /\ IsHost(p.host) /\ p.steps # <<>>
      /\ \A i \in DOMAIN p.steps : ~Dots(p.steps[i]) /\ (p.steps[i] = <<>> => i = Len(p.steps))
  BY DEF IsPlace
<1>2. /\ p.access \in {<<w>> : w \in Word} /\ p.host \in Seq(Token) /\ p.rooted
      /\ p.steps \in Seq(StepName) /\ p.anchor = None
  BY <1>1
<1> DEFINE s == p.steps
<1>3. \A i \in DOMAIN s : s[i] \in Quiet
  <2>1. \A i \in DOMAIN s : s[i] \in StepName
    BY <1>2, Elements
  <2> QED
    BY <1>1, <2>1 DEF Quiet, Dots
<1>4. s \in Seq(Quiet)
  <2>1. DOMAIN s = 1 .. Len(s) /\ Len(s) \in Nat
    BY <1>2, Elements
  <2>2. s = [i \in 1 .. Len(s) |-> s[i]]
    BY <1>2
  <2> QED
    BY <1>3, <2>1, <2>2
<1>5. p.access # None /\ IsAccess(p.access)
  <2>1. PICK w \in Word : p.access = <<w>>
    BY <1>2
  <2>2. <<w>> \in Names
    BY DEF Names, Token
  <2>3. None \notin Names
    BY DocumentsAssumption DEF Names
  <2> QED
    BY <2>1, <2>2, <2>3 DEF IsAccess
<1>6. p.host # None
  BY <1>2, DocumentsAssumption
<1>7. DOMAIN s = 1 .. Len(s) /\ Len(s) \in Nat /\ Len(s) # 0
  BY <1>1, <1>2, Elements
<1>8. /\ Front(s) \in Seq(Quiet) /\ Last(s) \in Quiet /\ s = Append(Front(s), Last(s))
      /\ Len(Front(s)) = Len(s) - 1 /\ Front(s) = UpTo(s, Len(s) - 1)
  BY <1>1, <1>4, FrontOf
<1>9. ASSUME NEW i \in 1 .. Len(Front(s)) PROVE Front(s)[i] # <<>>
  <2> DEFINE n == Len(s) - 1
  <2>1. n \in 0 .. Len(s) /\ i \in 1 .. n /\ i \in 1 .. Len(s) /\ i # Len(s)
    BY <1>7, <1>8
  <2> HIDE DEF n, s
  <2>2. UpTo(s, n)[i] = s[i]
    BY <1>4, <2>1, Sides
  <2> QED
    BY <1>1, <1>7, <1>8, <2>1, <2>2 DEF n, s
<1>10. s[1] = <<>> => Len(s) <= 1
  BY <1>1, <1>7
<1>11. IsAddress(p)
  BY <1>1, <1>2, <1>5, <1>10 DEF IsAddress
<1> QED
  BY <1>1, <1>2, <1>4, <1>5, <1>6, <1>8, <1>9, <1>11

\* The beginning of an address: its access and its host.
Origin(access, host) == AccessText(access) \o HostText(host)

\* Nothing in it is there to simplify, and HTSimplify begins behind it.
LEMMA OriginClear ==
  ASSUME NEW access, IsAccess(access), access # None, NEW host, IsHost(host)
  PROVE  /\ Origin(access, host) \in Names /\ Clear(Origin(access, host))
         /\ Len(Origin(access, host)) >= 2
<1> DEFINE a == AccessText(access)
           slash == <<"/">>
           two == <<"/", "/">>
           e == slash \o <<>>
           h == slash \o host
           b == a \o e
<1>1. a \in Names /\ Len(a) >= 2 /\ Len(a) <= 2
  BY AccessNames
<1>2. host \in Names /\ ~Dots(host) /\ Slashless(host) /\ host # None
  BY HostNames
<1>3. slash \in Names /\ <<>> \in Names /\ e = slash
  BY Slash, JoinedNames
<1>4. ~Dots(<<>>) /\ Slashless(<<>>)
  BY DEF Dots, Up, Same, Slashless
<1>5. two = slash \o slash
  <2> DEFINE c == slash \o slash
             k == 2
  <2>1. Led(c, "/", slash)
    BY <1>3, OneToken DEF Token
  <2>2. two \in Names /\ Len(two) >= 2 /\ Len(two) <= 2 /\ two[1] = "/" /\ two[2] = "/"
    BY DEF Names, Token
  <2>3. Len(slash) >= 1 /\ Len(slash) <= 1 /\ slash[1] = "/"
    BY Slash
  <2> HIDE DEF c, two, slash
  <2>4. Len(two) \in Nat /\ Len(slash) \in Nat
    BY <1>3, <2>2, NameElements
  <2>5. c \in Names /\ Len(c) = Len(slash) + 1 /\ c[1] = "/" /\ c[1 + 1] = slash[1]
    BY <2>1, <2>3, <2>4 DEF Led
  <2>6. Len(c) = Len(two)
    BY <2>2, <2>3, <2>4, <2>5
  <2>7. \A i \in 1 .. Len(two) : i = 1 \/ i = 1 + 1
    BY <2>2, <2>4
  <2>8. two[1 + 1] = "/"
    BY <2>2
  <2>9. \A i \in 1 .. Len(two) : two[i] = c[i]
    BY <2>2, <2>3, <2>5, <2>7, <2>8
  <2>10. two = c
    BY <2>2, <2>5, <2>6, <2>9, SameNames
  <2> QED
    BY <2>10 DEF c, two
<1> HIDE DEF a, two
<1>6. Clear(a)
  <2>1. Len(a) \in Nat
    BY <1>1, NameElements
  <2>2. \A q \in 3 .. Len(a) : FALSE
    BY <1>1, <2>1
  <2> QED
    BY <2>2 DEF Clear
<1>7. b \in Names /\ Clear(b) /\ Len(b) >= 2
  <2>1. Clear(b)
    <3> HIDE DEF slash
    <3>1. Clear(a \o (slash \o <<>>))
      BY <1>1, <1>3, <1>4, <1>6, ClearOneMore DEF slash
    <3> QED
      BY <3>1
  <2>2. Parts(b, a, e)
    BY <1>1, <1>3, ConcatParts
  <2> HIDE DEF b, e
  <2>3. b \in Names /\ Len(b) = Len(a) + Len(e) /\ Len(e) \in Nat /\ Len(a) \in Nat
    BY <2>2 DEF Parts
  <2> QED
    BY <1>1, <2>1, <2>3
<1>8. Clear(b \o h)
  <2> HIDE DEF b
  <2> QED
    BY <1>2, <1>7, ClearOneMore
<1> HIDE DEF slash
<1>9. Origin(access, host) = b \o h
  <2>1. Origin(access, host) = a \o (two \o host)
    BY <1>2 DEF Origin, HostText, a, two
  <2>2. two \o host = slash \o (slash \o host)
    BY <1>2, <1>3, <1>5, JoinedNames
  <2>3. h \in Names
    BY <1>2, <1>3, JoinedNames
  <2> HIDE DEF h
  <2>4. a \o (slash \o h) = (a \o slash) \o h
    BY <1>1, <1>3, <2>3, JoinedNames
  <2>5. b = a \o slash
    BY <1>3
  <2> QED
    BY <2>1, <2>2, <2>4, <2>5 DEF h
<1>10. h \in Names /\ b \in Names /\ Len(b) >= 2
  BY <1>2, <1>3, <1>7, JoinedNames
<1> HIDE DEF b, h
<1> DEFINE o == b \o h
<1>11. Parts(o, b, h)
  <2>1. b \in Names /\ h \in Names
    BY <1>10
  <2> QED
    BY <2>1, ConcatParts
<1> HIDE DEF o
<1>12. o \in Names /\ Len(o) >= 2
  BY <1>10, <1>11 DEF Parts
<1> QED
  BY <1>8, <1>9, <1>12 DEF o

\* Document takes the anchor off, and leaves the rest.
LEMMA DocumentText ==
  ASSUME NEW p, IsAddress(p), p.rooted, p.anchor # <<>>
  PROVE  Document(Text(p)) = Origin(p.access, p.host) \o Rooted(p.steps)
<1> DEFINE o == Origin(p.access, p.host)
           t == o \o Rooted(p.steps)
<1>1. HTParse(Text(p), <<>>, {AnchorPart}) = OrNothing(p.anchor)
  BY NameParts
<1>2. HTParse(Text(p), <<>>, WholeName) = t
  BY NameParts DEF Origin
<1>3. Text(p) = t \o AnchorText(p.anchor)
  BY TextParts DEF Origin
<1>4. t \in Names
  <2>1. p.steps \in Seq(Names)
    BY StepsAreNames DEF IsAddress
  <2>2. Rooted(p.steps) \in Names
    <3>1. Rooted(p.steps) = IF p.steps = <<>> THEN <<>> ELSE <<"/">> \o Joined(p.steps)
      BY DEF Rooted
    <3>2. Joined(p.steps) \in Names
      BY PathNames
    <3> QED
      BY <3>1, <3>2, Slash, JoinedNames
  <2>3. o \in Names
    BY TextNames, JoinedNames DEF Origin
  <2> QED
    BY <2>2, <2>3, JoinedNames
<1> HIDE DEF t
<1>5. Document(Text(p)) = IF HTParse(Text(p), <<>>, {AnchorPart}) = <<>> THEN Text(p)
                          ELSE HTParse(Text(p), <<>>, WholeName)
  BY DEF Document, WholeName
<1>6. CASE p.anchor = None
  <2>1. Text(p) = t
    BY <1>3, <1>4, <1>6, JoinedNames DEF AnchorText
  <2> QED
    BY <1>1, <1>5, <1>6, <2>1 DEF t, OrNothing
<1>7. CASE p.anchor # None
  <2>1. HTParse(Text(p), <<>>, {AnchorPart}) # <<>>
    BY <1>1, <1>7 DEF OrNothing
  <2> QED
    BY <1>2, <1>5, <2>1 DEF t
<1> QED
  BY <1>6, <1>7

\* A reference that is completed by a place: with a path from the root behind
\* another access or host.
Fits(ref) ==
  /\ IsAddress(ref)
  /\ (ref.access # None /\ ref.access # place.access) \/ ref.host # None => ref.rooted
  /\ ref.access # None /\ ref.access # place.access => ref.host # None

\* What it is completed to.
Completed(ref) ==
  [ access |-> Meant(ref).access, host |-> Meant(ref).host, rooted |-> TRUE,
    steps  |-> IF ref.steps = <<>> THEN place.steps ELSE Start(ref) \o ref.steps,
    anchor |-> ref.anchor ]

\* It is an address again.
LEMMA CompletedIsAddress ==
  ASSUME IsPlace(place), NEW ref, Fits(ref)
  PROVE  /\ IsAddress(Completed(ref)) /\ Completed(ref).rooted
         /\ Start(ref) \in Seq(Quiet)
         /\ Completed(ref).access # None /\ Completed(ref).host # None
         /\ IsAccess(Completed(ref).access) /\ IsHost(Completed(ref).host)
<1>1. /\ IsAddress(place) /\ place.access # None /\ place.host # None
      /\ IsAccess(place.access) /\ IsHost(place.host)
      /\ place.steps \in Seq(Quiet) /\ place.steps # <<>>
      /\ Front(place.steps) \in Seq(Quiet)
      /\ \A i \in 1 .. Len(Front(place.steps)) : Front(place.steps)[i] # <<>>
  BY PlaceIsAddress
<1>2. /\ IsAccess(ref.access)
      /\ ref.host = None \/ IsHost(ref.host)
      /\ ref.rooted \in BOOLEAN
      /\ ref.steps \in Seq(StepName)
      /\ ref.rooted => ref.steps # <<>>
      /\ ref.steps # <<>> /\ ref.steps[1] = <<>> => ref.rooted /\ Len(ref.steps) <= 1
      /\ ref.anchor = None \/ ref.anchor \in Seq(Word)
  BY DEF Fits, IsAddress
<1>3. Start(ref) \in Seq(Quiet) /\ \A i \in 1 .. Len(Start(ref)) : Start(ref)[i] # <<>>
  <2>1. CASE ref.rooted
    <3>1. Start(ref) = <<>> /\ <<>> \in Seq(Quiet) /\ Len(<<>>) = 0
      BY <2>1, Empty DEF Start
    <3> QED
      BY <3>1
  <2>2. CASE ~ref.rooted
    BY <1>1, <2>2 DEF Start
  <2> QED
    BY <2>1, <2>2
<1> DEFINE c == Completed(ref)
           s == c.steps
           from == Start(ref)
           more == ref.steps
<1>4. s = IF more = <<>> THEN place.steps ELSE from \o more
  BY DEF Completed
<1>5. /\ c.access = (IF ref.access = None THEN place.access ELSE ref.access)
      /\ c.host = (IF ref.host = None THEN place.host ELSE ref.host)
      /\ c.rooted /\ c.rooted \in BOOLEAN /\ c.anchor = ref.anchor
  BY DEF Completed, Meant
<1>6. ref.rooted => from = <<>>
  BY DEF Start
<1> HIDE DEF c, s, from
<1>7. from \in Seq(StepName)
  BY <1>3, StepsAreNames DEF from
<1>8. s \in Seq(StepName) /\ s # <<>> /\ (s[1] = <<>> => Len(s) <= 1)
  <2>1. CASE more = <<>>
    <3>1. place.steps \in Seq(StepName)
      BY <1>1, StepsAreNames
    <3>2. place.steps[1] = <<>> => Len(place.steps) <= 1
      BY <1>1 DEF IsAddress
    <3> QED
      BY <1>1, <1>4, <2>1, <3>1, <3>2
  <2>2. CASE more # <<>>
    <3> HIDE DEF more
    <3>1. more \in Seq(StepName) /\ s = from \o more
      BY <1>2, <1>4, <2>2 DEF more
    <3>2. /\ s \in Seq(StepName) /\ Len(s) = Len(from) + Len(more)
          /\ \A i \in 1 .. Len(from) : s[i] = from[i]
          /\ \A i \in 1 .. Len(more) : s[Len(from) + i] = more[i]
      BY <1>7, <3>1, Concat
    <3>3. Len(from) \in Nat /\ Len(more) \in Nat /\ Len(more) # 0
      BY <1>7, <2>2, <3>1, Elements
    <3>4. Len(s) # 0
      BY <3>2, <3>3
    <3>5. s # <<>>
      BY <3>2, <3>4, Elements
    <3>6. CASE Len(from) = 0
      <4>1. s[Len(from) + 1] = more[1] /\ Len(from) + 1 = 1
        BY <3>2, <3>3, <3>6
      <4>2. more[1] = <<>> => Len(more) <= 1
        BY <1>2, <2>2 DEF more
      <4> QED
        BY <3>2, <3>3, <3>5, <3>6, <4>1, <4>2
    <3>7. CASE Len(from) # 0
      <4>1. 1 \in 1 .. Len(from)
        BY <3>3, <3>7
      <4>2. s[1] = from[1] /\ from[1] # <<>>
        BY <1>3, <3>2, <4>1 DEF from
      <4> QED
        BY <3>2, <3>5, <4>2
    <3> QED
      BY <3>6, <3>7
  <2> QED
    BY <2>1, <2>2
<1>9. /\ IsAccess(c.access) /\ c.access # None /\ IsHost(c.host) /\ c.host # None
  BY <1>1, <1>2, <1>5
<1>10. IsAddress(c)
  BY <1>2, <1>5, <1>8, <1>9 DEF IsAddress, s
<1> QED
  BY <1>3, <1>5, <1>9, <1>10 DEF c

\* The path of a reference behind the directory of the place, or instead of it.
LEMMA CompletedPath ==
  ASSUME IsPlace(place), NEW ref, Fits(ref), NEW r,
         r.absolute = IF ref.access # None /\ ref.access # place.access THEN None
                      ELSE Joined(place.steps)
  PROVE  PathFrom(Parsed(ref), r, <<"/">>) = Rooted(Completed(ref).steps)
<1> DEFINE slash == <<"/">>
           g == Parsed(ref)
           j == Joined(ref.steps)
           theirs == Joined(place.steps)
           s == Completed(ref).steps
<1>1. /\ IsAddress(ref) /\ ref.rooted \in BOOLEAN
      /\ ref.steps \in Seq(StepName)
      /\ ref.rooted => ref.steps # <<>>
      /\ ref.access # None /\ ref.access # place.access => ref.rooted
  BY DEF Fits, IsAddress
<1>2. j \in Names /\ j # None
  BY <1>1, PathNames, DocumentsAssumption DEF Names
<1>3. theirs \in Names /\ theirs # None
  BY PathNames, PlaceIsAddress, DocumentsAssumption DEF Names
<1>4. /\ g.absolute = (IF ref.rooted THEN j ELSE None)
      /\ g.relative = (IF ref.rooted \/ ref.steps = <<>> THEN None ELSE j)
  BY DEF Parsed
<1>5. s = IF ref.steps = <<>> THEN place.steps ELSE Start(ref) \o ref.steps
  BY DEF Completed
<1>6. /\ \A x, m : x.absolute # None => PathFrom(x, r, m) = m \o x.absolute
      /\ \A x, m : x.absolute = None /\ r.absolute # None =>
           PathFrom(x, r, m) = IF x.relative = None THEN slash \o r.absolute
                               ELSE WithoutFile(slash \o r.absolute) \o x.relative
  BY DEF PathFrom
<1>7. /\ place.steps \in Seq(Names) /\ place.steps # <<>>
      /\ Front(place.steps) \in Seq(Names)
      /\ Last(place.steps) \in Names /\ Slashless(Last(place.steps))
      /\ place.steps = Append(Front(place.steps), Last(place.steps))
  <2>1. \A q \in Quiet : q \in Names /\ Slashless(q)
    BY StepsAreNames DEF Slashless
  <2>2. Seq(Quiet) \subseteq Seq(Names)
    BY StepsAreNames
  <2> QED
    BY <2>1, <2>2, PlaceIsAddress
<1>8. slash \o theirs = Rooted(place.steps)
  BY <1>7 DEF Rooted
<1>9. ref.steps # <<>> => slash \o j = Rooted(ref.steps)
  BY DEF Rooted
<1> HIDE DEF g, s, j, theirs, slash
<1>10. CASE ref.rooted
  <2>1. PathFrom(g, r, slash) = slash \o j
    BY <1>2, <1>4, <1>6, <1>10
  <2>2. s = ref.steps
    <3>1. Start(ref) = <<>>
      BY <1>10 DEF Start
    <3>2. <<>> \o ref.steps = ref.steps
      BY <1>1, Empty
    <3> QED
      BY <1>1, <1>5, <1>10, <3>1, <3>2
  <2>3. PathFrom(g, r, slash) = Rooted(s)
    BY <1>1, <1>9, <1>10, <2>1, <2>2
  <2> QED
    BY <2>3 DEF g, s, slash
<1>11. CASE ~ref.rooted
  <2>1. r.absolute = theirs
    BY <1>1, <1>11 DEF theirs
  <2>2. PathFrom(g, r, slash) = IF g.relative = None THEN slash \o theirs
                                ELSE WithoutFile(slash \o theirs) \o g.relative
    BY <1>3, <1>4, <1>6, <1>11, <2>1
  <2>3. CASE ref.steps = <<>>
    <3>1. PathFrom(g, r, slash) = Rooted(s)
      BY <1>4, <1>5, <1>8, <2>2, <2>3
    <3> QED
      BY <3>1 DEF g, s, slash
  <2>4. CASE ref.steps # <<>>
    <3> DEFINE front == Front(place.steps)
               w == Last(place.steps)
               u == Rooted(front)
    <3>1. front \in Seq(Names) /\ w \in Names /\ Slashless(w) /\ place.steps = Append(front, w)
      BY <1>7
    <3>2. Start(ref) = front
      BY <1>11 DEF Start
    <3> HIDE DEF front, w
    <3>3. Rooted(place.steps) = u \o (slash \o w) /\ u \in Names
      BY <3>1, RootedOneMore DEF slash
    <3> HIDE DEF u
    <3>4. WithoutFile(u \o (slash \o w)) = u \o slash
      BY <3>1, <3>3, LastStep DEF slash
    <3>5. PathFrom(g, r, slash) = (u \o slash) \o j
      BY <1>2, <1>4, <1>8, <1>11, <2>2, <2>4, <3>3, <3>4
    <3>6. (u \o slash) \o j = u \o (slash \o j)
      BY <1>2, <3>3, Slash, JoinedNames DEF slash
    <3>7. s = front \o ref.steps
      BY <1>5, <2>4, <3>2
    <3>8. ref.steps \in Seq(Names)
      BY <1>1, StepsAreNames
    <3>9. Rooted(s) = u \o Rooted(ref.steps)
      BY <3>1, <3>7, <3>8, RootedConcat DEF u
    <3>10. PathFrom(g, r, slash) = Rooted(s)
      BY <1>9, <2>4, <3>5, <3>6, <3>9
    <3> QED
      BY <3>10 DEF g, s, slash
  <2> QED
    BY <2>3, <2>4
<1> QED
  BY <1>1, <1>10, <1>11

\* A reference with the address of a place behind it is completed.
LEMMA CompletedText ==
  ASSUME IsPlace(place), NEW ref, Fits(ref)
  PROVE  HTParse(Text(ref), Text(place), PARSE_ALL) = Text(Completed(ref))
<1> DEFINE g == Parsed(ref)
           r == Inherited(g, Parsed(place))
           c == Completed(ref)
           path == Rooted(c.steps)
<1>1. /\ IsAddress(place) /\ place.rooted /\ place.anchor = None
      /\ place.access # None /\ place.host # None
      /\ IsAccess(place.access) /\ IsHost(place.host)
  BY PlaceIsAddress
<1>2. /\ IsAddress(ref) /\ IsAccess(ref.access)
      /\ ref.host = None \/ IsHost(ref.host)
      /\ ref.anchor = None \/ ref.anchor \in Seq(Word)
      /\ ref.access # None /\ ref.access # place.access => ref.host # None
  BY DEF Fits, IsAddress
<1>3. scan(Text(ref)) = g /\ scan(Text(place)) = Parsed(place)
  BY <1>1, <1>2, ScanText
<1>4. HTParse(Text(ref), Text(place), PARSE_ALL) = Assembled(g, r, PARSE_ALL)
  BY <1>3 DEF HTParse
<1>5. /\ r.access = place.access /\ r.anchor = None
      /\ r.host = (IF ref.access # None /\ ref.access # place.access THEN None ELSE place.host)
      /\ r.absolute = (IF ref.access # None /\ ref.access # place.access THEN None
                       ELSE Joined(place.steps))
  BY <1>1 DEF Inherited, Parsed
<1>6. g.access = ref.access /\ g.host = ref.host /\ g.anchor = ref.anchor
  BY DEF Parsed
<1>7. PathFrom(g, r, <<"/">>) = path
  <2> HIDE DEF r
  <2> QED
    BY <1>5, CompletedPath
<1>8. /\ c.access = Given(g.access, r.access) /\ c.host = Given(g.host, r.host)
      /\ c.anchor = Given(g.anchor, r.anchor)
  <2>1. /\ c.access = (IF ref.access = None THEN place.access ELSE ref.access)
        /\ c.host = (IF ref.host = None THEN place.host ELSE ref.host)
        /\ c.anchor = ref.anchor
    BY DEF Completed, Meant
  <2> HIDE DEF c, r, g
  <2> QED
    BY <1>2, <1>5, <1>6, <2>1 DEF Given
<1>9. IsAddress(c) /\ c.rooted /\ IsAccess(c.access) /\ IsHost(c.host)
  BY CompletedIsAddress
<1>10. c.anchor = None \/ c.anchor \in Seq(Word)
  BY <1>9 DEF IsAddress
<1>11. /\ c.access = None \/ c.access \in Names
       /\ c.host = None \/ c.host \in Names
       /\ c.anchor = None \/ c.anchor \in Names
  BY <1>9, <1>10, AccessNames, HostNames, AnchorNames
<1>12. path \in Names
  <2>1. path = <<"/">> \o Joined(c.steps)
    BY <1>9 DEF Rooted, IsAddress
  <2>2. Joined(c.steps) \in Names
    BY <1>9, PathNames
  <2> QED
    BY <2>1, <2>2, Slash, JoinedNames
<1>13. Text(c) = ((AccessText(c.access) \o HostText(c.host)) \o path) \o AnchorText(c.anchor)
  BY <1>9, TextParts
<1> HIDE DEF g, r, c, path
<1>14. Taken(g, r, c.access, c.host, c.anchor, path)
  BY <1>7, <1>8, <1>11, <1>12 DEF Taken
<1>15. PutTogether(g, r, c.access, c.host, c.anchor, path)
  BY <1>14, AssembledParts
<1> QED
  BY <1>4, <1>13, <1>15 DEF PutTogether, c

\* What a reference is taken for, before it is simplified.
THEOREM ReferredText ==
  ASSUME IsPlace(place), NEW ref, Fits(ref), ref.anchor # <<>>
  PROVE  Document(HTParse(Text(ref), Text(place), PARSE_ALL))
           = Origin(Meant(ref).access, Meant(ref).host) \o Rooted(Completed(ref).steps)
<1> DEFINE c == Completed(ref)
<1>1. IsAddress(c) /\ c.rooted
  BY CompletedIsAddress
<1>2. c.access = Meant(ref).access /\ c.host = Meant(ref).host /\ c.anchor = ref.anchor
  BY DEF Completed
<1>3. HTParse(Text(ref), Text(place), PARSE_ALL) = Text(c)
  BY CompletedText
<1> HIDE DEF c
<1>4. Document(Text(c)) = Origin(c.access, c.host) \o Rooted(c.steps)
  BY <1>1, <1>2, DocumentText
<1> QED
  BY <1>2, <1>3, <1>4 DEF c

\* Steps without an empty one.
Full(steps) == \A i \in 1 .. Len(steps) : steps[i] # <<>>

\* One more step, and the steps without the last one.
LEMMA FullStepped ==
  ASSUME NEW at \in Seq(Quiet), Full(at), NEW step \in StepName, step # <<>>,
         step = Up => at # <<>>
  PROVE  Full(Stepped(at, step))
<1>1. CASE step = Up
  <2> DEFINE f == Front(at)
             n == Len(at) - 1
  <2>1. f = UpTo(at, n) /\ Len(f) = n /\ f \in Seq(Quiet)
    BY <1>1, FrontOf
  <2>2. n \in 0 .. Len(at) /\ Len(at) = n + 1
    BY <2>1, Elements
  <2> HIDE DEF f, n
  <2>3. \A i \in 1 .. n : f[i] = at[i]
    BY <2>1, <2>2, Sides
  <2>4. Full(f)
    BY <2>1, <2>2, <2>3 DEF Full
  <2>5. Stepped(at, step) = f
    BY <1>1 DEF Stepped, f
  <2> QED
    BY <2>4, <2>5
<1>2. CASE step # Up /\ step = Same
  BY <1>2 DEF Stepped
<1>3. CASE step # Up /\ step # Same
  <2> DEFINE more == Append(at, step)
  <2>1. at \in Seq(StepName)
    BY StepsAreNames
  <2>2. /\ Len(more) = Len(at) + 1 /\ Len(at) \in Nat /\ more[Len(at) + 1] = step
        /\ \A i \in 1 .. Len(at) : more[i] = at[i]
    BY <2>1
  <2> HIDE DEF more
  <2>3. Full(more)
    BY <2>2 DEF Full
  <2>4. Stepped(at, step) = more
    BY <1>3 DEF Stepped, more
  <2> QED
    BY <2>3, <2>4
<1> QED
  BY <1>1, <1>2, <1>3

\* Where steps lead to that can be walked: the last one is the last there, and no
\* other one there is empty if no other one here is.
LEMMA WalkEnds ==
  ASSUME NEW from, NEW steps, Walkable(from, steps), Full(from), steps # <<>>,
         \A i \in 1 .. Len(steps) : steps[i] = <<>> => i = Len(steps)
  PROVE  \E front \in Seq(Quiet) :
           Full(front) /\ Walk(from, steps) = Append(front, steps[Len(steps)])
<1> DEFINE n == Len(steps)
           W == Walked(from, steps)
<1>1. /\ from \in Seq(Quiet) /\ steps \in Seq(StepName)
      /\ \A i \in 1 .. n : steps[i] = Up => W[i - 1] # <<>>
      /\ \A i \in 1 .. n : Dots(steps[i]) => i < n
  BY DEF Walkable
<1>2. n \in Nat /\ n # 0 /\ \A i \in 1 .. n : steps[i] \in StepName
  BY <1>1, Elements
<1>3. /\ W \in [0 .. n -> Seq(Quiet)] /\ W[0] = from
      /\ \A i \in 1 .. n : W[i] = Stepped(W[i - 1], steps[i])
  BY <1>1, WalkedBySteps
<1>4. Walk(from, steps) = W[n]
  BY DEF Walk
<1> HIDE DEF n, W
<1> DEFINE T == {i \in Nat : i < n => Full(W[i])}
<1>5. 0 \in T
  BY <1>3
<1>6. ASSUME NEW i \in Nat, i \in T PROVE i + 1 \in T
  <2> SUFFICES ASSUME i + 1 < n PROVE Full(W[i + 1])
    OBVIOUS
  <2> DEFINE k == i + 1
  <2>1. k \in 1 .. n /\ k # n /\ k - 1 = i /\ i \in 0 .. n
    BY <1>2
  <2>2. Full(W[i])
    BY <1>2, <1>6
  <2> HIDE DEF k
  <2>3. /\ W[k] = Stepped(W[i], steps[k]) /\ steps[k] \in StepName /\ W[i] \in Seq(Quiet)
        /\ steps[k] # <<>> /\ (steps[k] = Up => W[i] # <<>>)
    BY <1>1, <1>2, <1>3, <2>1 DEF n
  <2>4. Full(W[k])
    BY <2>2, <2>3, FullStepped
  <2> QED
    BY <2>4 DEF k
<1> HIDE DEF T
<1>7. \A i \in Nat : i \in T
  BY <1>5, <1>6, NaturalInduction
<1> DEFINE m == n - 1
<1>8. m \in 0 .. n /\ m < n /\ n \in 1 .. n /\ m \in Nat
  BY <1>2
<1>9. Full(W[m]) /\ W[m] \in Seq(Quiet)
  BY <1>3, <1>7, <1>8 DEF T
<1>10. ~Dots(steps[n])
  BY <1>1, <1>2, <1>8
<1>11. W[n] = Append(W[m], steps[n])
  BY <1>3, <1>8, <1>10 DEF Stepped, Dots
<1> QED
  BY <1>4, <1>9, <1>11 DEF n

\* The elements of a sequence appended to another one by one.
AppendedTo(g, v, q) == g[0] = v /\ \A i \in 1 .. Len(q) : g[i] = Append(g[i - 1], q[i])

\* When all are appended, it is the one behind the other.
LEMMA Appended ==
  ASSUME NEW S, NEW v \in Seq(S), NEW q \in Seq(S), NEW g, AppendedTo(g, v, q)
  PROVE  g[Len(q)] = v \o q
<1> DEFINE n == Len(q)
           T == {i \in Nat : i <= n => g[i] = v \o UpTo(q, i)}
<1>1. n \in Nat /\ \A i \in 1 .. n : q[i] \in S
  BY Elements
<1>2. g[0] = v /\ \A i \in 1 .. n : g[i] = Append(g[i - 1], q[i])
  BY DEF AppendedTo
<1> HIDE DEF n
<1>5. 0 \in T
  <2>1. UpTo(q, 0) = <<>>
    <3>1. 0 \in 0 .. Len(q)
      BY <1>1 DEF n
    <3>2. UpTo(q, 0) \in Seq(S) /\ Len(UpTo(q, 0)) = 0
      BY <3>1, Sides
    <3> QED
      BY <3>2, Elements
  <2>2. v \o <<>> = v
    BY Empty
  <2> QED
    BY <1>2, <2>1, <2>2
<1>6. ASSUME NEW i \in Nat, i \in T PROVE i + 1 \in T
  <2> SUFFICES ASSUME i + 1 <= n PROVE g[i + 1] = v \o UpTo(q, i + 1)
    OBVIOUS
  <2> DEFINE k == i + 1
             u == UpTo(q, i)
             w == UpTo(q, k)
             x == q[k]
  <2>1. k \in 1 .. n /\ k - 1 = i /\ i \in 0 .. n /\ k \in 0 .. n
    BY <1>1
  <2>2. g[i] = v \o u
    BY <1>1, <1>6
  <2>3. x \in S /\ g[k] = Append(g[i], x)
    BY <1>1, <1>2, <2>1
  <2>4. u \in Seq(S) /\ Len(u) = i /\ \A j \in 1 .. i : u[j] = q[j]
    BY <2>1, Sides DEF n
  <2>5. w = Append(u, x)
    <3> DEFINE a == Append(u, x)
    <3>1. k \in 0 .. Len(q)
      BY <2>1 DEF n
    <3> HIDE DEF k
    <3>2. w \in Seq(S) /\ Len(w) = k /\ \A j \in 1 .. k : w[j] = q[j]
      BY <3>1, Sides
    <3> HIDE DEF u, w, x
    <3>3. /\ a \in Seq(S) /\ Len(a) = i + 1 /\ a[i + 1] = x
          /\ \A j \in 1 .. i : a[j] = u[j]
      BY <2>3, <2>4, OneElement
    <3> HIDE DEF a
    <3>4. \A j \in 1 .. k : j = i + 1 \/ j \in 1 .. i
      BY <2>1 DEF k
    <3>5. \A j \in 1 .. Len(w) : w[j] = a[j]
      BY <2>4, <3>2, <3>3, <3>4 DEF x, k
    <3>6. w = a
      BY <3>2, <3>3, <3>5, SameSequence DEF k
    <3> QED
      BY <3>6 DEF a
  <2> HIDE DEF u, w, x, k
  <2>6. Append(v \o u, x) = v \o Append(u, x)
    <3>1. <<x>> \in Seq(S) /\ v \o u \in Seq(S)
      BY <2>3, <2>4, OneElement, Concat
    <3>2. Append(v \o u, x) = (v \o u) \o <<x>> /\ Append(u, x) = u \o <<x>>
      BY <2>3, <2>4, <3>1, OneElement
    <3> QED
      BY <2>4, <3>1, <3>2, ConcatAssociative
  <2>7. g[k] = v \o w
    BY <2>2, <2>3, <2>5, <2>6
  <2> QED
    BY <2>7 DEF w, k
<1> HIDE DEF T
<1>7. \A i \in Nat : i \in T
  BY <1>5, <1>6, NaturalInduction
<1>8. n \in T
  BY <1>1, <1>7
<1>9. g[n] = v \o UpTo(q, n)
  BY <1>1, <1>8 DEF T
<1>10. UpTo(q, n) = q
  <2> DEFINE w == UpTo(q, n)
  <2>1. n \in 0 .. Len(q)
    BY <1>1 DEF n
  <2>2. w \in Seq(S) /\ Len(w) = n /\ \A j \in 1 .. n : w[j] = q[j]
    BY <2>1, Sides
  <2> HIDE DEF w
  <2>3. w = q
    BY <2>2, SameSequence DEF n
  <2> QED
    BY <2>3 DEF w
<1> QED
  BY <1>9, <1>10 DEF n

\* Steps without dots lead to themselves.
LEMMA WalkQuiet ==
  ASSUME NEW from \in Seq(Quiet), NEW steps \in Seq(StepName),
         \A i \in 1 .. Len(steps) : ~Dots(steps[i])
  PROVE  Walk(from, steps) = from \o steps
<1> DEFINE W == Walked(from, steps)
<1>1. \A i \in 1 .. Len(steps) : W[i] = Append(W[i - 1], steps[i])
  BY WalkedBySteps DEF Stepped, Dots
<1>2. W[0] = from /\ from \in Seq(StepName)
  BY WalkedBySteps, StepsAreNames
<1> HIDE DEF W
<1>3. AppendedTo(W, from, steps)
  BY <1>1, <1>2 DEF AppendedTo
<1>4. W[Len(steps)] = from \o steps
  BY <1>2, <1>3, Appended
<1> QED
  BY <1>4 DEF Walk, W

\* The references that are followed are completed, and their steps can be walked.
LEMMA TameFits ==
  ASSUME IsPlace(place), NEW ref, IsReference(ref), Tame(ref)
  PROVE  /\ Fits(ref) /\ ref.anchor # <<>> /\ ref.steps \in Seq(StepName)
         /\ Walkable(Start(ref), ref.steps)
<1>1. /\ ref.access \in {None} \cup {<<w>> : w \in Word}
      /\ ref.rooted \in BOOLEAN
      /\ ref.steps \in Seq(StepName)
      /\ ref.anchor \in {None} \cup Seq(Word)
      /\ ref.host # None => IsHost(ref.host)
      /\ ref.anchor # <<>>
  BY DEF IsReference
<1>2. /\ (ref.access # None /\ ref.access # place.access) \/ ref.host # None => ref.rooted
      /\ ref.access # None /\ ref.access # place.access => ref.host # None
      /\ ~Climbs(ref)
      /\ \A i \in DOMAIN ref.steps :
           ref.steps[i] = <<>> => i = Len(ref.steps) /\ (i > 1 \/ ref.rooted)
      /\ ref.rooted => ref.steps # <<>>
      /\ \A i \in DOMAIN ref.steps : Dots(ref.steps[i]) =>
           i < Len(ref.steps) /\ (ref.steps[i] = Same => ~Dots(ref.steps[i + 1]))
  BY DEF Tame
<1>3. DOMAIN ref.steps = 1 .. Len(ref.steps) /\ Len(ref.steps) \in Nat
      /\ (Len(ref.steps) = 0 <=> ref.steps = <<>>)
  BY <1>1, Elements
<1>4. IsAccess(ref.access)
  BY <1>1 DEF IsAccess
<1>5. ref.steps # <<>> /\ ref.steps[1] = <<>> => ref.rooted /\ Len(ref.steps) <= 1
  BY <1>2, <1>3
<1>6. Fits(ref)
  BY <1>1, <1>2, <1>4, <1>5 DEF Fits, IsAddress
<1>7. Start(ref) \in Seq(Quiet)
  BY <1>6, CompletedIsAddress
<1>8. \A i \in 1 .. Len(ref.steps) :
        ref.steps[i] = Up => Walked(Start(ref), ref.steps)[i - 1] # <<>>
  BY <1>2, <1>3 DEF Climbs
<1>9. Walkable(Start(ref), ref.steps)
  BY <1>1, <1>2, <1>3, <1>7, <1>8 DEF Walkable
<1> QED
  BY <1>1, <1>6, <1>9

\* What they mean is a place.
LEMMA MeantIsPlace ==
  ASSUME IsPlace(place), NEW ref, IsReference(ref), Tame(ref)
  PROVE  IsPlace(Meant(ref))
<1> DEFINE m == Meant(ref)
           s == m.steps
           more == ref.steps
           from == Start(ref)
<1>1. /\ Fits(ref) /\ more \in Seq(StepName) /\ Walkable(from, more)
  BY TameFits
<1>2. /\ IsAccess(m.access) /\ m.access # None /\ IsHost(m.host)
  BY <1>1, CompletedIsAddress DEF Completed
<1>3. m.access \in {<<w>> : w \in Word}
  BY <1>2 DEF IsAccess
<1>4. m.host \in Seq(Token)
  BY <1>2, HostNames DEF Names
<1>5. s = IF more = <<>> THEN place.steps ELSE Walk(from, more)
  BY DEF Meant
<1>6. Full(from)
  <2>1. CASE ref.rooted
    <3>1. from = <<>> /\ Len(<<>>) = 0
      BY <2>1, Empty DEF Start
    <3> QED
      BY <3>1 DEF Full
  <2>2. CASE ~ref.rooted
    BY <2>2, PlaceIsAddress DEF Start, Full
  <2> QED
    BY <2>1, <2>2
<1>7. \A i \in DOMAIN more : more[i] = <<>> => i = Len(more)
  BY DEF Tame
<1>8. /\ DOMAIN more = 1 .. Len(more) /\ Len(more) \in Nat
      /\ (Len(more) = 0 <=> more = <<>>)
      /\ \A i \in 1 .. Len(more) : more[i] \in StepName
  BY <1>1, Elements
<1>9. \A i \in 1 .. Len(more) : Dots(more[i]) => i < Len(more)
  BY <1>1 DEF Walkable
<1>10. m \in [access : {<<w>> : w \in Word}, host : Seq(Token), rooted : {TRUE},
              steps : {s}, anchor : {None}]
  BY <1>3, <1>4 DEF Meant
<1> HIDE DEF m, s, more, from
<1>11. /\ s \in Seq(StepName) /\ s # <<>>
       /\ \A i \in DOMAIN s : ~Dots(s[i]) /\ (s[i] = <<>> => i = Len(s))
  <2>1. CASE more = <<>>
    <3>1. s = place.steps
      BY <1>5, <2>1
    <3> QED
      BY <3>1 DEF IsPlace
  <2>2. CASE more # <<>>
    <3> DEFINE x == more[Len(more)]
    <3>1. x \in StepName /\ ~Dots(x)
      BY <1>8, <1>9, <2>2
    <3>2. PICK front \in Seq(Quiet) : Full(front) /\ Walk(from, more) = Append(front, x)
      BY <1>1, <1>6, <1>7, <1>8, <2>2, WalkEnds
    <3>3. s = Append(front, x)
      BY <1>5, <2>2, <3>2
    <3> HIDE DEF x
    <3>4. front \in Seq(StepName) /\ \A i \in 1 .. Len(front) : front[i] \in Quiet
      BY StepsAreNames, Elements
    <3>5. /\ s \in Seq(StepName) /\ Len(s) = Len(front) + 1 /\ s[Len(front) + 1] = x
          /\ \A i \in 1 .. Len(front) : s[i] = front[i]
      BY <3>1, <3>3, <3>4, OneElement
    <3>6. DOMAIN s = 1 .. Len(s) /\ Len(front) \in Nat /\ s # <<>>
      <4>1. DOMAIN s = 1 .. Len(s) /\ (s = <<>> => Len(s) = 0) /\ Len(front) \in Nat
        BY <3>4, <3>5, Elements
      <4> QED
        BY <3>5, <4>1
    <3>7. \A q \in Quiet : ~Dots(q)
      BY DEF Quiet, Dots
    <3>8. ASSUME NEW i \in DOMAIN s PROVE ~Dots(s[i]) /\ (s[i] = <<>> => i = Len(s))
      <4>1. CASE i = Len(front) + 1
        BY <3>1, <3>5, <4>1
      <4>2. CASE i # Len(front) + 1
        <5>1. i \in 1 .. Len(front)
          BY <3>5, <3>6, <4>2
        <5>2. s[i] = front[i] /\ front[i] \in Quiet /\ front[i] # <<>>
          BY <3>2, <3>4, <3>5, <5>1 DEF Full
        <5> QED
          BY <3>7, <5>2
      <4> QED
        BY <4>1, <4>2
    <3> QED
      BY <3>5, <3>6, <3>8
  <2> QED
    BY <2>1, <2>2
<1>12. m \in [access : {<<w>> : w \in Word}, host : Seq(Token), rooted : {TRUE},
              steps : Seq(StepName), anchor : {None}]
  BY <1>10, <1>11
<1> QED
  BY <1>2, <1>11, <1>12 DEF IsPlace, m, s

\* The text of a place.
LEMMA PlaceText ==
  ASSUME NEW p, IsPlace(p)
  PROVE  /\ Text(p) = Origin(p.access, p.host) \o Rooted(p.steps)
         /\ AccessOf(Text(p)) = p.access
         /\ HostOf(Text(p)) = p.host
         /\ PathOf(Text(p)) = Rooted(p.steps)
         /\ HTSimplify(Text(p)) = Text(p)
<1>1. /\ IsAddress(p) /\ p.rooted /\ p.access # None /\ p.host # None /\ p.anchor = None
      /\ IsAccess(p.access) /\ IsHost(p.host)
      /\ p.steps \in Seq(Quiet)
  BY PlaceIsAddress
<1> DEFINE o == Origin(p.access, p.host)
           t == o \o Rooted(p.steps)
<1>2. o \in Names /\ Clear(o) /\ Len(o) >= 2
  BY <1>1, OriginClear
<1>3. Text(p) = t \o AnchorText(p.anchor)
  BY <1>1, TextParts DEF Origin
<1>4. Rooted(p.steps) \in Names
  <2>1. p.steps \in Seq(Names)
    BY <1>1, StepsAreNames
  <2>2. Rooted(p.steps) = <<"/">> \o Joined(p.steps)
    BY <1>1 DEF Rooted, IsAddress
  <2>3. Joined(p.steps) \in Names
    BY <1>1, PathNames
  <2> QED
    BY <2>2, <2>3, Slash, JoinedNames
<1>5. t \in Names
  BY <1>2, <1>4, JoinedNames
<1> HIDE DEF o
<1>6. HTSimplify(t) = t
  BY <1>1, <1>2, SimplifyClear
<1> HIDE DEF t
<1>7. Text(p) = t
  BY <1>1, <1>3, <1>5, JoinedNames DEF AnchorText
<1>8. /\ AccessOf(Text(p)) = OrNothing(p.access) /\ HostOf(Text(p)) = OrNothing(p.host)
      /\ PathOf(Text(p)) = Rooted(p.steps)
  BY <1>1, NameParts
<1> QED
  BY <1>1, <1>6, <1>7, <1>8 DEF OrNothing, t, o

\* Following a reference leads to the text of the place it means.
LEMMA FollowedText ==
  ASSUME IsPlace(place), here = Text(place), NEW ref, IsReference(ref), Tame(ref)
  PROVE  Followed(Text(ref)) = Text(Meant(ref))
<1> DEFINE m == Meant(ref)
           o == Origin(m.access, m.host)
           s == Completed(ref).steps
           from == Start(ref)
           more == ref.steps
           t == o \o Rooted(s)
           q == [Completed(ref) EXCEPT !.anchor = None]
<1>1. Fits(ref) /\ ref.anchor # <<>> /\ more \in Seq(StepName) /\ Walkable(from, more)
  BY TameFits
<1>2. IsPlace(m)
  BY MeantIsPlace
<1>3. Document(HTParse(Text(ref), here, PARSE_ALL)) = t
  BY <1>1, ReferredText
<1>4. Text(m) = o \o Rooted(m.steps)
  BY <1>2, PlaceText
<1>5. AccessOf(t) = m.access
  <2>1. /\ IsAddress(Completed(ref)) /\ Completed(ref).rooted
        /\ Completed(ref).access # None
    BY <1>1, CompletedIsAddress
  <2>2. /\ q.access = m.access /\ q.host = m.host /\ q.rooted = TRUE /\ q.steps = s
        /\ q.anchor = None /\ m.access = Completed(ref).access /\ m.host = Completed(ref).host
        /\ q.access # None
    BY <2>1 DEF Completed
  <2> HIDE DEF q, m
  <2>3. IsAddress(q)
    BY <2>1, <2>2 DEF IsAddress
  <2>8. q.rooted /\ q.anchor # <<>>
    <3>1. None # <<>>
      BY JoinedNames, DocumentsAssumption DEF Names
    <3> QED
      BY <2>2, <3>1
  <2>9. Document(Text(q)) = Origin(q.access, q.host) \o Rooted(q.steps)
    BY <2>3, <2>8, DocumentText
  <2>4. Document(Text(q)) = t
    BY <2>2, <2>9
  <2>5. HTParse(Text(q), <<>>, {AnchorPart}) = <<>>
    BY <2>2, <2>3, NameParts DEF OrNothing
  <2>6. Document(Text(q)) = Text(q)
    BY <2>5 DEF Document
  <2>7. AccessOf(Text(q)) = OrNothing(q.access)
    BY <2>2, <2>3, NameParts
  <2> QED
    BY <2>2, <2>4, <2>6, <2>7 DEF OrNothing
<1>6. m.steps = IF more = <<>> THEN place.steps ELSE Walk(from, more)
  BY DEF Meant
<1>7. s = IF more = <<>> THEN place.steps ELSE from \o more
  BY DEF Completed
<1>8. o \in Names /\ Clear(o) /\ Len(o) >= 2
  <2>1. IsAccess(m.access) /\ m.access # None /\ IsHost(m.host)
    BY <1>2, PlaceIsAddress
  <2> HIDE DEF m
  <2> QED
    BY <2>1, OriginClear
<1>9. place.steps \in Seq(Quiet) /\ from \in Seq(Quiet)
  BY <1>1, PlaceIsAddress, CompletedIsAddress
<1>10. \A i \in DOMAIN more : Dots(more[i]) => m.access = <<"file">>
  BY DEF Tame
<1>11. DOMAIN more = 1 .. Len(more)
  BY <1>1, Elements
<1>12. Loaded(t) = IF m.access = <<"file">> THEN HTSimplify(t) ELSE t
  BY <1>5 DEF Loaded
<1>13. Loaded(t) = Text(m)
  <2> HIDE DEF o, m, s, more, from
  <2>1. CASE more = <<>>
    <3>1. HTSimplify(o \o Rooted(place.steps)) = o \o Rooted(place.steps)
      BY <1>8, <1>9, SimplifyClear
    <3> QED
      BY <1>4, <1>6, <1>7, <1>12, <2>1, <3>1
  <2>2. CASE more # <<>>
    <3>1. Rooted(s) = Rooted(from) \o Rooted(more)
      <4>1. from \in Seq(Names) /\ more \in Seq(Names)
        BY <1>1, <1>9, StepsAreNames
      <4> QED
        BY <1>7, <2>2, <4>1, RootedConcat
    <3>2. t = (o \o Rooted(from)) \o Rooted(more)
      <4>1. Rooted(from) \in Names /\ Rooted(more) \in Names
        <5>1. from \in Seq(Names) /\ more \in Seq(Names)
          BY <1>1, <1>9, StepsAreNames
        <5> QED
          BY <5>1, JoinedOneMore, Slash, JoinedNames DEF Rooted
      <4>2. o \in Names
        BY <1>8
      <4>3. (o \o Rooted(from)) \o Rooted(more) = o \o (Rooted(from) \o Rooted(more))
        BY <4>1, <4>2, JoinedNames
      <4> QED
        BY <3>1, <4>3
    <3>3. HTSimplify((o \o Rooted(from)) \o Rooted(more)) = o \o Rooted(Walk(from, more))
      BY <1>1, <1>8, SimplifyWalks
    <3>4. CASE m.access = <<"file">>
      BY <1>4, <1>6, <1>12, <2>2, <3>2, <3>3, <3>4
    <3>5. CASE m.access # <<"file">>
      <4>1. \A i \in 1 .. Len(more) : ~Dots(more[i])
        BY <1>10, <1>11, <3>5
      <4>2. Walk(from, more) = from \o more
        BY <1>1, <1>9, <4>1, WalkQuiet
      <4>3. m.steps = s
        BY <1>6, <1>7, <2>2, <4>2
      <4> QED
        BY <1>4, <1>12, <3>5, <4>3
    <3> QED
      BY <3>4, <3>5
  <2> QED
    BY <2>1, <2>2
<1> QED
  BY <1>3, <1>13 DEF Followed

-----------------------------------------------------------------------------
(* The theorems.                                                           *)

\* The inductive invariant: what is meant is a place, and the address of the
\* document in front is its text.
HereInv == IsPlace(place) /\ here = Text(place)

\* It holds at first.
LEMMA HereFirst == Init => HereInv
  BY DocumentsAssumption DEF Init, HereInv

\* Following a reference keeps it.
LEMMA HereKept == HereInv /\ [Next]_vars => HereInv'
<1> SUFFICES ASSUME HereInv, [Next]_vars PROVE HereInv'
  OBVIOUS
<1>1. ASSUME NEW ref \in Reference, Follow(ref) PROVE HereInv'
  <2>1. IsReference(ref) /\ Tame(ref) /\ IsPlace(place) /\ here = Text(place)
    BY <1>1, DocumentsAssumption DEF Follow, HereInv
  <2>2. Followed(Text(ref)) = Text(Meant(ref)) /\ IsPlace(Meant(ref))
    BY <2>1, FollowedText, MeantIsPlace
  <2>3. here' = Text(Meant(ref)) /\ place' = Meant(ref)
    BY <1>1, <2>2 DEF Follow
  <2>4. IsPlace(place') /\ here' = Text(place')
    BY <2>2, <2>3
  <2> QED
    BY <2>4 DEF HereInv
<1>2. CASE UNCHANGED vars
  <2>1. here' = here /\ place' = place
    BY <1>2 DEF vars
  <2>2. IsPlace(place) /\ here = Text(place)
    BY DEF HereInv
  <2>3. IsPlace(place') /\ here' = Text(place')
    BY <2>1, <2>2
  <2> QED
    BY <2>3 DEF HereInv
<1> QED
  BY <1>1, <1>2 DEF Next

\* It is an invariant: after any references the program has the one text of a place.
THEOREM Invariance == Spec => []HereInv
  BY HereFirst, HereKept, PTL DEF Spec

\* After any sequence of references the address of the document in front is the
\* one text of the place it means (HTParse and HTSimplify, as HyperAccess and
\* FileAccess call them), for any words, hosts and references.
THEOREM AddressIsItsPlace == Spec => []HereIsPlace
<1>1. HereInv => HereIsPlace
  BY DEF HereInv, HereIsPlace
<1> QED
  BY <1>1, Invariance, PTL

\* For every mode that lets the owner do what the group may, and the group what
\* all may, HTEditable says what the system will do when the file is written.
THEOREM EditableFilesAreWritable == Spec => []EditableIsWritable
<1>1. EditableIsWritable
  <2> SUFFICES ASSUME NEW file \in File, NEW groups \in SUBSET {"staff", "other"},
                      NEW me, me = [uid |-> "me", groups |-> groups],
                      file.all => file.group, file.group => file.owner
               PROVE  HTEditable(file, me) <=> Writable(file, me)
    BY DEF EditableIsWritable
  <2>1. file.all \in BOOLEAN /\ file.group \in BOOLEAN /\ file.owner \in BOOLEAN
    BY DEF File
  <2>2. CASE file.uid = me.uid
    BY <2>1, <2>2 DEF HTEditable, Writable
  <2>3. CASE file.uid # me.uid /\ file.gid \in me.groups
    BY <2>1, <2>3 DEF HTEditable, Writable
  <2>4. CASE file.uid # me.uid /\ file.gid \notin me.groups
    BY <2>1, <2>4 DEF HTEditable, Writable
  <2> QED
    BY <2>2, <2>3, <2>4
<1> QED
  BY <1>1, PTL

\* A dot and one more word.
LEMMA DotWord ==
  ASSUME NEW x \in Names, NEW w
  PROVE  <<".">> \o x = <<".", w>> <=> x = <<w>>
<1> DEFINE dot == <<".">>
           c == dot \o x
           d == <<".", w>>
           one == <<w>>
           k == 1
<1>1. dot \in Names /\ Led(c, ".", x)
  BY OneToken DEF Token
<1>2. /\ c \in Names /\ Len(c) = Len(x) + 1 /\ Len(x) \in Nat /\ c[1] = "."
      /\ \A i \in 1 .. Len(x) : c[i + 1] = x[i]
  <2> HIDE DEF c
  <2> QED
    BY <1>1 DEF Led
<1>3. Len(d) >= 2 /\ Len(d) <= 2 /\ d[1] = "." /\ d[2] = w
  OBVIOUS
<1>4. Len(one) >= 1 /\ Len(one) <= 1 /\ one[1] = w
  OBVIOUS
<1>5. w \in Token => one \in Names /\ d \in Names
  BY DEF Names, Token
<1> HIDE DEF c, d, one, dot
<1>6. ASSUME c = d PROVE x = one
  <2>1. Len(x) >= 1 /\ Len(x) <= 1 /\ 1 \in 1 .. Len(x)
    BY <1>2, <1>3, <1>6
  <2>2. c[1 + 1] = x[1] /\ c[2] = w
    BY <1>2, <1>3, <1>6, <2>1
  <2>3. x[1] = w
    BY <2>2
  <2>4. x[1] \in Token
    BY <2>1, Elements DEF Names
  <2>5. one \in Names
    BY <1>5, <2>3, <2>4
  <2>6. Len(one) \in Nat
    BY <2>5, NameElements
  <2>7. Len(x) = Len(one)
    BY <1>2, <1>4, <2>1, <2>6
  <2>8. \A i \in 1 .. Len(x) : x[i] = one[i]
    BY <1>2, <1>4, <2>1, <2>3
  <2> QED
    BY <2>5, <2>7, <2>8, SameNames
<1>7. ASSUME x = one PROVE c = d
  <2>1. Len(x) >= 1 /\ Len(x) <= 1 /\ 1 \in 1 .. Len(x) /\ x[1] = w
    BY <1>2, <1>4, <1>7
  <2>2. x[1] \in Token
    BY <2>1, Elements DEF Names
  <2>3. d \in Names
    BY <1>5, <2>1, <2>2
  <2>4. Len(d) \in Nat
    BY <2>3, NameElements
  <2>5. Len(c) = Len(d)
    BY <1>2, <1>3, <2>1, <2>4
  <2>6. c[1 + 1] = w
    BY <1>2, <2>1
  <2>7. c[2] = w
    BY <2>6
  <2>8. \A i \in 1 .. Len(c) : i = 1 \/ i = 2
    BY <1>2, <2>1
  <2>9. \A i \in 1 .. Len(c) : c[i] = d[i]
    BY <1>2, <1>3, <2>7, <2>8
  <2> QED
    BY <1>2, <2>3, <2>5, <2>9, SameNames
<1> QED
  BY <1>6, <1>7 DEF c, d, one, dot

\* The format of a file is that of the last step of its path.
LEMMA FormatOfLast ==
  ASSUME NEW u \in Names, NEW w \in Names, Slashless(w)
  PROVE  HTFileFormat(u \o (<<"/">> \o w)) = FormatOf(w)
<1> DEFINE slash == <<"/">>
           s == slash \o w
           t == u \o s
           n == Len(u) + 1
           D == Places(t, ".") \cup Places(t, "/")
           e == LastOf(D, 0)
<1>1. slash \in Names /\ Led(s, "/", w)
  BY OneToken DEF Token
<1>2. s \in Names /\ Len(s) = Len(w) + 1 /\ Len(w) \in Nat /\ s[1] = "/"
      /\ \A i \in 1 .. Len(w) : s[i + 1] = w[i]
  <2> HIDE DEF s
  <2> QED
    BY <1>1 DEF Led
<1>3. Parts(t, u, s)
  <2>1. s \in Names
    BY <1>2
  <2> HIDE DEF s
  <2> QED
    BY <2>1, ConcatParts
<1>4. /\ \A k \in 0 .. Len(s) : From(t, Len(u) + k + 1) = From(s, k + 1)
  <2>1. s \in Names
    BY <1>2
  <2> HIDE DEF s
  <2> QED
    BY <2>1, NameSidesOfConcat
<1>5. /\ \A k \in 0 .. Len(w) : From(s, Len(slash) + k + 1) = From(w, k + 1)
  <2> HIDE DEF slash
  <2> QED
    BY <1>1, NameSidesOfConcat
<1>6. \A k \in 0 .. Len(w) : From(s, k + 2) = From(w, k + 1)
  <2>1. Len(slash) + 0 = 1
    OBVIOUS
  <2> HIDE DEF slash, s
  <2>2. Len(slash) = 1
    <3>1. Len(slash) \in Nat
      BY <1>1, NameElements
    <3> QED
      BY <2>1, <3>1
  <2> SUFFICES ASSUME NEW k \in 0 .. Len(w) PROVE From(s, k + 2) = From(w, k + 1)
    OBVIOUS
  <2>3. Len(slash) + k + 1 = k + 2
    BY <2>2
  <2> QED
    BY <1>5, <2>3
<1> DEFINE begun == e = 0 \/ t[e] = "/"
           extension == IF e = 0 THEN <<>> ELSE From(t, e)
           html == <<".", "html">>
           rtf == <<".", "rtf">>
           txt == <<".", "txt">>
<1>7. HTFileFormat(t) = CASE begun -> "plaintext"
                          [] extension = html -> "html"
                          [] extension = rtf -> "richtext"
                          [] extension = txt -> "plaintext"
                          [] OTHER -> "invalid"
  BY DEF HTFileFormat
<1>17. s # html /\ s # rtf /\ s # txt
  <2>1. html[1] = "." /\ rtf[1] = "." /\ txt[1] = "."
    OBVIOUS
  <2> HIDE DEF html, rtf, txt, s
  <2> QED
    BY <1>2, <2>1
<1>18. 0 \in 0 .. Len(s) /\ From(t, Len(u) + 0 + 1) = From(t, n) /\ From(s, 0 + 1) = s
  <2>1. s \in Names /\ Len(s) \in Nat /\ Len(u) \in Nat
    BY <1>2, NameElements
  <2> HIDE DEF s, t
  <2>2. From(<<>> \o s, Len(<<>>) + 1) = s
    BY <2>1, JoinedNames, NameSidesOfConcat
  <2>3. <<>> \o s = s /\ Len(<<>>) = 0
    BY <2>1, JoinedNames
  <2>4. From(s, 0 + 1) = s
    BY <2>2, <2>3
  <2> QED
    BY <2>1, <2>4
<1>19. From(t, n) = s
  BY <1>4, <1>18
<1> HIDE DEF begun, extension, html, rtf, txt
<1> HIDE DEF s, t, slash
<1>8. t \in Names /\ Len(t) = Len(u) + Len(s) /\ Len(u) \in Nat
  BY <1>3 DEF Parts
<1>9. DOMAIN t = 1 .. Len(t) /\ DOMAIN w = 1 .. Len(w)
  BY <1>8, NameElements
<1>10. n \in D /\ t[n] = "/"
  <2>1. 1 \in 1 .. Len(s) /\ n \in 1 .. Len(t)
    BY <1>2, <1>8
  <2>2. t[n] = s[1]
    BY <1>3, <2>1 DEF Parts
  <2> QED
    BY <1>2, <1>9, <2>1, <2>2 DEF Places
<1>11. \A k \in 1 .. Len(w) : t[n + k] = w[k] /\ n + k \in 1 .. Len(t)
  <2> SUFFICES ASSUME NEW k \in 1 .. Len(w) PROVE t[n + k] = w[k] /\ n + k \in 1 .. Len(t)
    OBVIOUS
  <2>1. k + 1 \in 1 .. Len(s) /\ Len(u) + (k + 1) = n + k /\ n + k \in 1 .. Len(t)
    BY <1>2, <1>8
  <2>2. t[Len(u) + (k + 1)] = s[k + 1]
    BY <1>3, <2>1 DEF Parts
  <2> QED
    BY <1>2, <2>1, <2>2
<1>12. D \in SUBSET Nat /\ \A i \in D : i \in 1 .. Len(t) /\ t[i] \in {".", "/"}
  BY <1>8, <1>9 DEF Places
<1>13. \A i \in D : i > n => i - n \in Places(w, ".")
  <2> SUFFICES ASSUME NEW i \in D, i > n PROVE i - n \in Places(w, ".")
    OBVIOUS
  <2>1. i - n \in 1 .. Len(w) /\ n + (i - n) = i
    BY <1>2, <1>8, <1>12
  <2>2. t[i] = w[i - n]
    BY <1>11, <2>1
  <2>3. w[i - n] = "."
    BY <1>12, <2>1, <2>2 DEF Slashless
  <2> QED
    BY <1>9, <2>1, <2>3 DEF Places
<1>14. Places(w, ".") \in SUBSET (1 .. Len(w))
  BY <1>9 DEF Places
<1> HIDE DEF D, e
<1>15. CASE Places(w, ".") = {}
  <2>1. \A i \in D : i <= n
    BY <1>8, <1>12, <1>13, <1>15
  <2> HIDE DEF n
  <2>2. LastOf(D, 0) = n
    BY <1>10, <1>12, <2>1, Extremes
  <2>3. e = n
    BY <2>2 DEF e
  <2>7. e # 0
    BY <1>8, <2>3 DEF n
  <2>6. begun /\ extension = s
    BY <1>10, <1>19, <2>3, <2>7 DEF begun, extension
  <2>4. HTFileFormat(t) = "plaintext"
    BY <1>7, <1>17, <2>6
  <2>5. FormatOf(w) = "plaintext"
    BY <1>15 DEF FormatOf
  <2> QED
    BY <2>4, <2>5 DEF t, s, slash
<1>16. CASE Places(w, ".") # {}
  <2>1. Places(w, ".") \in SUBSET (0 .. Len(w)) /\ Places(w, ".") \in SUBSET Nat
    BY <1>2, <1>14
  <2>2. PICK k \in Places(w, ".") : \A i \in Places(w, ".") : i <= k
    BY <1>2, <1>16, <2>1, GreatestElement
  <2>3. Max(Places(w, ".")) = k
    BY <2>1, <2>2, Extremes
  <2>4. k \in 1 .. Len(w) /\ w[k] = "."
    BY <1>9, <1>14, <2>2 DEF Places
  <2> DEFINE m == n + k
             x == From(w, k + 1)
             l == k - 1
  <2>5. m \in 1 .. Len(t) /\ t[m] = "." /\ m \in D
    BY <1>9, <1>11, <2>4 DEF D, Places
  <2>6. \A i \in D : i <= m
    BY <1>8, <1>12, <1>13, <2>2, <2>4
  <2>7. e = m
    <3> HIDE DEF m
    <3>1. LastOf(D, 0) = m
      BY <1>12, <2>5, <2>6, Extremes
    <3> QED
      BY <3>1 DEF e
  <2>8. From(t, m) = From(w, k)
    <3>1. k \in 0 .. Len(s) /\ Len(u) + k + 1 = m /\ l \in 0 .. Len(w) /\ l + 2 = k + 1 /\ l + 1 = k
      BY <1>2, <1>8, <2>4
    <3>2. From(t, m) = From(s, k + 1)
      BY <1>4, <3>1
    <3>3. From(s, l + 2) = From(w, l + 1)
      BY <1>6, <3>1
    <3> QED
      BY <3>1, <3>2, <3>3
  <2>9. From(w, k) = <<".">> \o x
    <3>1. l \in 0 .. Len(w) - 1 /\ l + 1 = k /\ l + 2 = k + 1
      BY <1>2, <2>4
    <3> HIDE DEF l
    <3>2. From(w, l + 1) = <<w[l + 1]>> \o From(w, l + 2)
      BY <3>1, FirstOfRest DEF Names
    <3> QED
      BY <2>4, <3>1, <3>2
  <2>10. x \in Names
    <3>1. k \in 0 .. Len(w)
      BY <1>2, <2>4
    <3> QED
      BY <3>1, NameSides
  <2> HIDE DEF x, m
  <2>11. e # 0 /\ t[e] # "/" /\ From(t, e) = <<".">> \o x
    BY <1>8, <2>5, <2>7, <2>8, <2>9
  <2>12. \A v : From(t, e) = <<".", v>> <=> x = <<v>>
    BY <2>10, <2>11, DotWord
  <2>13. HTFileFormat(t) = CASE x = <<"html">> -> "html"
                             [] x = <<"rtf">> -> "richtext"
                             [] x = <<"txt">> -> "plaintext"
                             [] OTHER -> "invalid"
    <3>1. ~begun /\ extension = From(t, e)
      BY <2>11 DEF begun, extension
    <3>2. /\ extension = html <=> x = <<"html">>
          /\ extension = rtf <=> x = <<"rtf">>
          /\ extension = txt <=> x = <<"txt">>
      BY <2>12, <3>1 DEF html, rtf, txt
    <3> DEFINE h == x = <<"html">>
               r == x = <<"rtf">>
               p == x = <<"txt">>
    <3>3. (extension = html <=> h) /\ (extension = rtf <=> r) /\ (extension = txt <=> p)
      BY <3>2
    <3> HIDE DEF h, r, p
    <3>4. HTFileFormat(t) = CASE h -> "html" [] r -> "richtext" [] p -> "plaintext"
                              [] OTHER -> "invalid"
      BY <1>7, <3>1, <3>3
    <3> QED
      BY <3>4 DEF h, r, p
  <2>14. FormatOf(w) = CASE x = <<"html">> -> "html"
                         [] x = <<"rtf">> -> "richtext"
                         [] x = <<"txt">> -> "plaintext"
                         [] OTHER -> "invalid"
    BY <1>16, <2>3 DEF FormatOf, x
  <2> QED
    BY <2>13, <2>14 DEF t, s, slash
<1> QED
  BY <1>15, <1>16

\* The access name of an address is its own if it has one.
LEMMA AccessPart ==
  ASSUME NEW name, NEW other, scan(name).access # None
  PROVE  HTParse(name, other, {Access}) = scan(name).access
<1> DEFINE g == scan(name)
           a == g.access
           h == (((<<>> \o a) \o <<>>) \o <<>>) \o <<>>
<1>1. HTParse(name, other, {Access}) = ((((<<>> \o a) \o <<>>) \o <<>>) \o <<>>) \o <<>>
  BY DEF HTParse, Assembled, Access, HostPart, PathPart, AnchorPart, Punctuation
<1> QED
  BY <1>1

\* A sequence begins with what another is put behind, and one that begins with
\* another has its elements.
LEMMA PrefixElements ==
  ASSUME NEW S, NEW a \in Seq(S)
  PROVE  /\ \A b \in Seq(S) : IsPrefix(a, a \o b)
         /\ \A t \in Seq(S) : IsPrefix(a, t) => \A i \in 1 .. Len(a) : a[i] = t[i]
<1> DEFINE n == Len(a)
<1>1. n \in Nat
  BY Elements
<1>2. UpTo(a, n) = a
  <2> DEFINE e == a \o <<>>
  <2>1. e = a /\ <<>> \in Seq(S)
    BY Empty
  <2> HIDE DEF e
  <2>2. UpTo(a \o <<>>, Len(a)) = a
    BY <2>1, SidesOfConcat
  <2> QED
    BY <2>1, <2>2 DEF e
<1>3. ASSUME NEW b \in Seq(S) PROVE IsPrefix(a, a \o b)
  <2> DEFINE c == a \o b
  <2>1. Len(c) = Len(a) + Len(b) /\ Len(b) \in Nat
    BY Concat, Elements
  <2>2. UpTo(c, Len(a)) = a
    BY SidesOfConcat
  <2> HIDE DEF c
  <2>3. Len(a) <= Len(c)
    BY <1>1, <2>1
  <2>4. IsPrefix(a, c)
    BY <1>2, <2>2, <2>3, SMTT(40) DEF IsPrefix, UpTo
  <2> QED
    BY <2>4 DEF c
<1>4. ASSUME NEW t \in Seq(S), IsPrefix(a, t) PROVE \A i \in 1 .. Len(a) : a[i] = t[i]
  <2>1. Len(a) <= Len(t) /\ UpTo(a, n) = UpTo(t, n)
    BY <1>4 DEF IsPrefix, UpTo
  <2>2. n \in 0 .. Len(t)
    BY <1>1, <2>1, Elements
  <2>3. \A i \in 1 .. n : UpTo(t, n)[i] = t[i]
    BY <2>2, Sides
  <2> QED
    BY <1>2, <2>1, <2>3
<1> QED
  BY <1>3, <1>4

\* The format of a name is that of any end of it that begins with a slash.
LEMMA FormatOfTail ==
  ASSUME NEW S, NEW r \in Seq(S), NEW p \in Seq(S), p # <<>>, p[1] = "/"
  PROVE  HTFileFormat(r \o p) = HTFileFormat(p)
<1> DEFINE t == r \o p
           n == Len(r)
           D == Places(p, ".") \cup Places(p, "/")
           E == Places(t, ".") \cup Places(t, "/")
<1>1. /\ t \in Seq(S) /\ Len(t) = n + Len(p) /\ DOMAIN t = 1 .. Len(t)
      /\ \A i \in 1 .. Len(p) : t[n + i] = p[i]
  <2>1. t \in Seq(S) /\ Len(t) = n + Len(p) /\ \A i \in 1 .. Len(p) : t[n + i] = p[i]
    BY Concat
  <2> QED
    BY <2>1, Elements
<1>2. n \in Nat /\ Len(p) \in Nat /\ Len(p) # 0 /\ DOMAIN p = 1 .. Len(p)
  BY Elements
<1>3. \A k \in 0 .. Len(p) : From(t, n + k + 1) = From(p, k + 1)
  BY SidesOfConcat
<1>4. \A name : HTFileFormat(name) =
        LET e == LastOf(Places(name, ".") \cup Places(name, "/"), 0)
            extension == IF e = 0 THEN <<>> ELSE From(name, e)
        IN CASE e = 0 \/ name[e] = "/" -> "plaintext"
             [] extension = <<".", "html">> -> "html"
             [] extension = <<".", "rtf">> -> "richtext"
             [] extension = <<".", "txt">> -> "plaintext"
             [] OTHER -> "invalid"
  BY DEF HTFileFormat
<1> HIDE DEF t, n
<1>5. D \in SUBSET (0 .. Len(p)) /\ D \in SUBSET Nat /\ 1 \in D
  BY <1>2 DEF Places
<1>6. PICK d \in D : \A i \in D : i <= d
  BY <1>2, <1>5, GreatestElement
<1>7. d \in 1 .. Len(p) /\ p[d] \in {".", "/"}
  BY <1>2, <1>6 DEF Places
<1>8. LastOf(D, 0) = d
  <2> HIDE DEF D
  <2> QED
    BY <1>5, <1>6, Extremes
<1> DEFINE m == n + d
           l == d - 1
<1>9. m \in 1 .. Len(t) /\ t[m] = p[d] /\ m \in Nat /\ m # 0 /\ d # 0
  BY <1>1, <1>2, <1>7
<1>10. m \in E
  BY <1>1, <1>7, <1>9 DEF Places
<1>11. E \in SUBSET Nat /\ \A i \in E : i <= m
  <2>1. E \in SUBSET (1 .. Len(t))
    BY <1>1 DEF Places
  <2>2. ASSUME NEW i \in E, i > m PROVE FALSE
    <3>1. i \in 1 .. Len(t) /\ t[i] \in {".", "/"}
      BY <1>1 DEF Places
    <3>2. i - n \in 1 .. Len(p) /\ n + (i - n) = i /\ i - n > d
      BY <1>1, <1>2, <1>7, <2>2, <3>1
    <3>3. p[i - n] = t[i]
      BY <1>1, <3>2
    <3>4. i - n \in D
      BY <1>2, <3>1, <3>2, <3>3 DEF Places
    <3> HIDE DEF D
    <3> QED
      BY <1>6, <1>7, <3>2, <3>4
  <2>3. \A i \in E : i \in Nat /\ i <= m
    BY <1>1, <1>9, <2>1, <2>2
  <2> QED
    BY <2>3
<1>12. LastOf(E, 0) = m
  <2> HIDE DEF E, m
  <2> QED
    BY <1>10, <1>11, Extremes
<1>13. From(t, m) = From(p, d)
  <2>1. l \in 0 .. Len(p) /\ n + l + 1 = m /\ l + 1 = d
    BY <1>2, <1>7
  <2> HIDE DEF l, m
  <2> QED
    BY <1>3, <2>1
<1> HIDE DEF m
<1>14. HTFileFormat(t) = CASE p[d] = "/" -> "plaintext"
                           [] From(p, d) = <<".", "html">> -> "html"
                           [] From(p, d) = <<".", "rtf">> -> "richtext"
                           [] From(p, d) = <<".", "txt">> -> "plaintext"
                           [] OTHER -> "invalid"
  BY <1>4, <1>9, <1>12, <1>13
<1>15. HTFileFormat(p) = CASE p[d] = "/" -> "plaintext"
                           [] From(p, d) = <<".", "html">> -> "html"
                           [] From(p, d) = <<".", "rtf">> -> "richtext"
                           [] From(p, d) = <<".", "txt">> -> "plaintext"
                           [] OTHER -> "invalid"
  BY <1>4, <1>8, <1>9
<1> QED
  BY <1>14, <1>15 DEF t

\* The name of a local file, by its host and path, leads back to its address.
LEMMA NameOfFile ==
  ASSUME NEW p, IsPlace(p), p.access = <<"file">>, NEW path, path = Rooted(p.steps)
  PROVE  /\ ~Mounted(path) /\ p.host = HTHostName => WWW_nameOfFile(path) = Text(p)
         /\ WWW_nameOfFile((MountRoot \o p.host) \o path) = Text(p)
<1> DEFINE a == AccessText(p.access)
           two == <<"/", "/">>
           four == <<"file", ":", "/", "/">>
           h == p.host
           S == Token \cup {"Net", "private"}
           rest == h \o path
           local == MountRoot \o rest
<1>1. /\ IsAddress(p) /\ p.rooted /\ p.access # None /\ h # None
      /\ IsAccess(p.access) /\ IsHost(h)
  BY PlaceIsAddress
<1>2. h \in Names
  BY <1>1, HostNames
<1>3. path \in Names
  BY <1>1, PathNames, Slash, JoinedNames DEF Rooted, IsAddress
<1>4. /\ a \in Names /\ Len(a) >= 2 /\ Len(a) <= 2 /\ a[1] = "file" /\ a[2] = ":"
      /\ "file" \in Word
  <2>1. p.access[1] = "file"
    BY DEF IsPlace
  <2> QED
    BY <1>1, <2>1, AccessNames
<1>5. four = a \o two
  <2> DEFINE c == a \o two
  <2>1. two \in Names /\ Len(two) >= 2 /\ Len(two) <= 2 /\ two[1] = "/" /\ two[2] = "/"
    BY DEF Names, Token
  <2>2. /\ four \in Names /\ Len(four) >= 4 /\ Len(four) <= 4 /\ four[1] = "file"
        /\ four[2] = ":" /\ four[3] = "/" /\ four[4] = "/"
    BY <1>4 DEF Names, Token
  <2>3. two \in Names /\ a \in Names
    BY <1>4, <2>1
  <2> HIDE DEF two, four, a
  <2>4. Parts(c, a, two)
    BY <2>3, ConcatParts
  <2> HIDE DEF c
  <2>5. c \in Names /\ Len(c) = Len(a) + Len(two) /\ Len(a) \in Nat /\ Len(two) \in Nat
    BY <2>4 DEF Parts
  <2>6. Len(four) \in Nat
    BY <2>2, NameElements
  <2>7. Len(c) = Len(four)
    BY <1>4, <2>1, <2>2, <2>5, <2>6
  <2>8. c[1] = a[1] /\ c[2] = a[2]
    <3>1. 1 \in 1 .. Len(a) /\ 2 \in 1 .. Len(a)
      BY <1>4, <2>5
    <3> QED
      BY <2>4, <3>1 DEF Parts
  <2>9. c[3] = two[1] /\ c[4] = two[2]
    <3>1. 1 \in 1 .. Len(two) /\ 2 \in 1 .. Len(two) /\ Len(a) + 1 = 3 /\ Len(a) + 2 = 4
      BY <1>4, <2>1, <2>5
    <3>2. c[Len(a) + 1] = two[1] /\ c[Len(a) + 2] = two[2]
      BY <2>4, <3>1 DEF Parts
    <3> QED
      BY <3>1, <3>2
  <2>10. \A i \in 1 .. Len(four) : i = 1 \/ i = 2 \/ i = 3 \/ i = 4
    BY <2>2, <2>6
  <2>11. \A i \in 1 .. Len(four) : four[i] = c[i]
    BY <1>4, <2>1, <2>2, <2>8, <2>9, <2>10
  <2>12. four = c
    BY <2>2, <2>5, <2>7, <2>11, SameNames
  <2> QED
    BY <2>12 DEF c
<1>6. FileAddress(rest) = Text(p)
  <2>1. FileAddress(rest) = four \o rest
    BY DEF FileAddress
  <2>2. Text(p) = (a \o (two \o h)) \o path
    BY <1>1, PlaceText DEF Origin, HostText
  <2>3. two \in Names
    BY DEF Names, Token
  <2> HIDE DEF a, two, four, h
  <2>4. (a \o two) \o (h \o path) = ((a \o two) \o h) \o path
    <3>1. a \in Names /\ a \o two \in Names
      BY <1>4, <2>3, JoinedNames
    <3> QED
      BY <1>2, <1>3, <3>1, JoinedNames
  <2>5. (a \o two) \o h = a \o (two \o h)
    <3>1. a \in Names
      BY <1>4
    <3> QED
      BY <1>2, <2>3, <3>1, JoinedNames
  <2> QED
    BY <1>5, <2>1, <2>2, <2>4, <2>5
<1>7. ~Mounted(path) /\ p.host = HTHostName => WWW_nameOfFile(path) = Text(p)
  <2> SUFFICES ASSUME ~Mounted(path), h = HTHostName PROVE WWW_nameOfFile(path) = Text(p)
    OBVIOUS
  <2>1. ~IsPrefix(PrivateRoot, path) /\ ~IsPrefix(MountRoot, path)
    BY DEF Mounted
  <2>2. WWW_nameOfFile(path) = FileAddress(HTHostName \o path)
    BY <2>1 DEF WWW_nameOfFile
  <2> QED
    BY <1>6, <2>2
<1>8. /\ MountRoot \in Seq(S) /\ PrivateRoot \in Seq(S) /\ Len(PrivateRoot) >= 2
      /\ PrivateRoot[2] = "private" /\ MountRoot[2] = "Net" /\ Len(MountRoot) >= 3
      /\ Len(MountRoot) <= 3
  BY DEF MountRoot, PrivateRoot, Token
<1>9. h \in Seq(S) /\ path \in Seq(S)
  <2>1. Token \subseteq S
    OBVIOUS
  <2>2. Names \subseteq Seq(S)
    BY <2>1, SequencesOfMore DEF Names
  <2> QED
    BY <1>2, <1>3, <2>2
<1> HIDE DEF S, h
<1>10. rest \in Seq(S) /\ (MountRoot \o h) \o path = local
  <2>1. MountRoot \in Seq(S)
    BY <1>8
  <2>2. h \o path \in Seq(S)
    BY <1>9, Concat
  <2>3. (MountRoot \o h) \o path = MountRoot \o (h \o path)
    BY <1>9, <2>1, ConcatAssociative, SMTT(40)
  <2> QED
    BY <2>2, <2>3
<1> HIDE DEF rest
<1>11. /\ local \in Seq(S) /\ \A i \in 1 .. Len(MountRoot) : local[i] = MountRoot[i]
       /\ IsPrefix(MountRoot, local) /\ From(local, Len(MountRoot) + 1) = rest
  BY <1>8, <1>10, Concat, PrefixElements, SidesOfConcat
<1> HIDE DEF local
<1>12. Len(MountRoot) + 1 = 4 /\ 2 \in 1 .. Len(MountRoot) /\ 2 \in 1 .. Len(PrivateRoot)
  <2>1. Len(MountRoot) \in Nat /\ Len(PrivateRoot) \in Nat
    BY <1>8, Elements
  <2> QED
    BY <1>8, <2>1
<1>13. ~IsPrefix(PrivateRoot, local)
  <2> SUFFICES ASSUME IsPrefix(PrivateRoot, local) PROVE FALSE
    OBVIOUS
  <2>1. \A i \in 1 .. Len(PrivateRoot) : PrivateRoot[i] = local[i]
    BY <1>8, <1>11, PrefixElements
  <2>2. "private" = "Net"
    BY <1>8, <1>11, <1>12, <2>1
  <2> QED
    BY <2>2
<1>14. WWW_nameOfFile(local) = FileAddress(rest)
  BY <1>11, <1>12, <1>13 DEF WWW_nameOfFile
<1> QED
  BY <1>6, <1>7, <1>10, <1>14 DEF h

\* A name without a token, and a name with one of them.
LEMMA NoPlaces ==
  ASSUME NEW T \in SUBSET Nat, T = {}
  PROVE  \A o : FirstOf(T, o) = o
  BY DEF FirstOf

\* Where a host and port lead to is the node of that name, at its port or at the
\* one to begin with.
LEMMA PortOfHost ==
  ASSUME NEW host, IsHost(host), NEW port, NEW known, known = NameOf(host), known \in Resolver,
         NEW at, at = (IF known = host THEN port ELSE NumberOf[Last(host)]), at < 2^PortWidth
  PROVE  HTParseInet(host, port) = [port |-> at, node |-> known]
<1> DEFINE n == Len(host)
           T == Places(host, ":")
           colon == FirstOf(T, n + 1)
           k == colon - 1
           w == 2^PortWidth
           given == colon < n /\ IsNumber(host[colon + 1])
           p == IF given THEN NumberOf[host[colon + 1]] % w ELSE port
<1>1. host \in Names /\ host # <<>>
  BY HostNames
<1>2. n \in Nat /\ n # 0 /\ DOMAIN host = 1 .. n
  BY <1>1, NameElements
<1>3. T \subseteq {n - 1} /\ (T # {} => Last(host) \in DOMAIN NumberOf)
  BY DEF IsHost
<1>4. T \subseteq 1 .. n
  BY <1>2 DEF Places
<1>5. known = UpTo(host, k)
  BY DEF NameOf
<1>6. HTParseInet(host, port)
        = [ port |-> p,
            node |-> CASE known # <<>> /\ IsNumber(known[1]) -> known
                       [] known \in Resolver -> known
                       [] OTHER -> None ]
  BY <1>5 DEF HTParseInet, Resolved
<1>7. (CASE known # <<>> /\ IsNumber(known[1]) -> known
         [] known \in Resolver -> known
         [] OTHER -> None) = known
  OBVIOUS
<1>8. Last(host) = host[n]
  BY DEF Last
<1>9. \A i \in DOMAIN NumberOf : NumberOf[i] \in Nat
  BY DocumentsAssumption
<1>10. w \in Nat /\ w # 0
  BY DocumentsAssumption
<1> HIDE DEF T, n, w
<1>11. p = at
  <2>1. CASE T = {}
    <3>1. T \in SUBSET Nat
      BY <1>2, <1>4
    <3>2. colon = n + 1
      BY <2>1, <3>1, NoPlaces
    <3> HIDE DEF colon
    <3>3. k = n /\ n \in 0 .. Len(host) /\ ~(colon < n)
      BY <1>2, <3>2 DEF n
    <3>4. UpTo(host, n) = host
      <4> DEFINE v == UpTo(host, n)
      <4>1. v \in Names /\ Len(v) = n /\ \A i \in 1 .. n : v[i] = host[i]
        BY <1>1, <3>3, NameSides
      <4> HIDE DEF v
      <4>2. v = host
        BY <1>1, <4>1, SameNames DEF n
      <4> QED
        BY <4>2 DEF v
    <3>5. known = host
      BY <1>5, <3>3, <3>4
    <3> QED
      BY <3>3, <3>5
  <2>2. CASE T # {}
    <3> DEFINE m == n - 1
    <3>1. T = {m} /\ m \in 1 .. n
      BY <1>3, <1>4, <2>2
    <3>2. m \in Nat /\ n = m + 1
      BY <1>2, <3>1
    <3> HIDE DEF m
    <3>3. colon = m
      BY <3>1, <3>2, OnePlace
    <3> HIDE DEF colon
    <3>4. colon + 1 = n /\ colon < n /\ k \in 0 .. Len(host) /\ k < n
      BY <1>2, <3>1, <3>2, <3>3 DEF n
    <3>5. Len(known) = k
      BY <1>1, <1>5, <3>4, NameSides
    <3>6. known # host
      BY <3>4, <3>5 DEF n
    <3>7. Last(host) \in DOMAIN NumberOf
      BY <1>3, <2>2
    <3>8. given
      BY <1>8, <3>4, <3>7 DEF IsNumber
    <3>9. p = NumberOf[Last(host)] % w /\ at = NumberOf[Last(host)]
      BY <1>8, <3>4, <3>6, <3>8
    <3>10. at \in Nat /\ at < w
      BY <1>9, <3>7, <3>9 DEF w
    <3>11. at % w = at
      BY <1>10, <3>10
    <3> QED
      BY <3>9, <3>11
  <2> QED
    BY <2>1, <2>2
<1> QED
  BY <1>6, <1>7, <1>11

\* The document of a place is asked for where it is.
LEMMA PlaceOpens ==
  ASSUME HereInv
  PROVE  OpensWhatItMeans
<1> DEFINE host == place.host
           path == Path(place)
           local == IF host = HTHostName THEN path ELSE (MountRoot \o host) \o path
           node == NameOf(host)
           port == IF node = host THEN TCP_PORT ELSE NumberOf[Last(host)]
           format == FormatOf(Last(place.steps))
<1>1. IsPlace(place) /\ here = Text(place)
  BY DEF HereInv
<1>2. /\ IsAddress(place) /\ place.rooted /\ place.access # None /\ host # None
      /\ IsHost(host) /\ place.steps # <<>>
      /\ Front(place.steps) \in Seq(Quiet) /\ Last(place.steps) \in Quiet
      /\ place.steps = Append(Front(place.steps), Last(place.steps))
  BY <1>1, PlaceIsAddress
<1>3. path = Rooted(place.steps)
  BY <1>2 DEF Path, Rooted
<1>4. AccessOf(here) = place.access /\ HostOf(here) = host /\ PathOf(here) = path
      /\ HTSimplify(here) = here
  BY <1>1, <1>3, PlaceText
<1>5. HTFileFormat(path) = FormatOf(Last(place.steps))
  <2> DEFINE front == Front(place.steps)
             w == Last(place.steps)
             u == Rooted(front)
  <2>1. front \in Seq(Names) /\ w \in Names /\ Slashless(w)
    BY <1>2, StepsAreNames DEF Slashless
  <2>2. place.steps = Append(front, w)
    BY <1>2
  <2> HIDE DEF front, w
  <2>3. Rooted(place.steps) = u \o (<<"/">> \o w) /\ u \in Names
    BY <2>1, <2>2, RootedOneMore
  <2> HIDE DEF u
  <2>4. HTFileFormat(u \o (<<"/">> \o w)) = FormatOf(w)
    BY <2>1, <2>3, FormatOfLast
  <2> QED
    BY <1>3, <2>3, <2>4 DEF w
<1>6. host # <<>> /\ host \in Names
  BY <1>2, HostNames
<1>9. path # <<>> /\ path \in Names /\ path[1] = "/"
  <2>1. Joined(place.steps) \in Names
    BY <1>2, PathNames
  <2> DEFINE j == Joined(place.steps)
             c == <<"/">> \o j
  <2>2. Led(c, "/", j)
    BY <2>1, OneToken DEF Token
  <2> HIDE DEF c, j
  <2>3. c \in Names /\ Len(c) # 0 /\ c[1] = "/"
    BY <2>2 DEF Led
  <2>4. c # <<>>
    BY <2>3, NameElements
  <2> QED
    BY <2>3, <2>4 DEF c, j, Path
<1> HIDE DEF host, path
<1>10. ASSUME place.access = <<"file">>
       PROVE  /\ Opened(here, {local}) = [by |-> "file", name |-> local, format |-> format]
              /\ host \in Resolver =>
                   Opened(here, {}) =
                     [by |-> "ftp", host |-> host, path |-> path, format |-> format]
              /\ ~Mounted(path) => WWW_nameOfFile(local) = here
  <2>1. HTLocalName(here) = local
    BY <1>4, <1>6, <1>10 DEF HTLocalName
  <2>2. HTFileFormat(local) = format
    <3> DEFINE S == Token \cup {"Net"}
               r == MountRoot \o host
    <3>1. Names \subseteq Seq(S)
      BY SequencesOfMore DEF Names
    <3>2. MountRoot \in Seq(S)
      BY DEF MountRoot, Token
    <3>3. path \in Seq(S) /\ host \in Seq(S)
      BY <1>6, <1>9, <3>1
    <3> HIDE DEF S
    <3>4. r \in Seq(S)
      BY <3>2, <3>3, Concat
    <3> HIDE DEF r
    <3>5. HTFileFormat(r \o path) = HTFileFormat(path)
      BY <1>9, <3>3, <3>4, FormatOfTail
    <3> QED
      BY <1>5, <3>5 DEF r
  <2>3. FtpHost(here) = Resolved(host) /\ FtpPath(here) = path
    BY <1>4 DEF FtpHost, FtpPath
  <2>4. host \in Resolver => Resolved(host) = host
    BY DEF Resolved
  <2>5. host # None
    BY <1>2 DEF host
  <2> DEFINE l == local
  <2>6. Opened(here, {l}) = [by |-> "file", name |-> l, format |-> format]
    BY <1>4, <2>1, <2>2 DEF Opened
  <2>7. host \in Resolver =>
          Opened(here, {}) = [by |-> "ftp", host |-> host, path |-> path, format |-> format]
    BY <1>4, <2>1, <2>2, <2>3, <2>4, <2>5 DEF Opened
  <2>8. ~Mounted(path) => WWW_nameOfFile(local) = here
    <3>1. /\ ~Mounted(path) /\ host = HTHostName => WWW_nameOfFile(path) = here
          /\ WWW_nameOfFile((MountRoot \o host) \o path) = here
      BY <1>1, <1>3, <1>10, NameOfFile DEF host
    <3> QED
      BY <3>1
  <2> QED
    BY <2>6, <2>7, <2>8
<1>11. ASSUME node \in Resolver, port < 2^PortWidth
       PROVE  HTTP_Get(here) = [ to   |-> [port |-> port, node |-> node],
                                 path |-> path, host |-> host ]
  <2>1. HTParseInet(host, TCP_PORT) = [port |-> port, node |-> node]
    BY <1>2, <1>11, PortOfHost DEF host
  <2> HIDE DEF port, node
  <2> QED
    BY <1>4, <1>9, <2>1 DEF HTTP_Get
<1> QED
  BY <1>10, <1>11 DEF OpensWhatItMeans, host, path

\* The document in front is asked for where it is: a file by its own path, its
\* mounted path or by FTP (loadAnchor:Diagnostic: of FileAccess.m, HTLocalName,
\* WWW_nameOfFile), in the format of its last step (HTFileFormat), and one of a
\* server by a request to its host and port (HTTP_Get, HTParseInet).
THEOREM DocumentsAreOpened == Spec => []OpensWhatItMeans
<1>1. HereInv => OpensWhatItMeans
  BY PlaceOpens
<1> QED
  BY <1>1, Invariance, PTL

-----------------------------------------------------------------------------
(* HTRelative: the slashes of two names, and how far they are the same.    *)

\* How many slashes there are in a name.
Slashes(s) == Cardinality(Places(s, "/"))

\* One more token is one more slash, or none.
LEMMA SlashesOneMore ==
  ASSUME NEW s \in Names, NEW x \in Token
  PROVE  /\ Slashes(s) \in Nat
         /\ Slashes(s \o <<x>>) = Slashes(s) + (IF x = "/" THEN 1 ELSE 0)
<1> DEFINE c == s \o <<x>>
           T == Places(s, "/")
           n == Len(s) + 1
<1>1. Ended(c, s, x)
  BY OneToken
<1> HIDE DEF c
<1>2. /\ c \in Names /\ Len(c) = n /\ Len(s) \in Nat /\ c[n] = x
      /\ \A i \in 1 .. Len(s) : c[i] = s[i]
  BY <1>1 DEF Ended
<1>3. DOMAIN c = 1 .. Len(c) /\ DOMAIN s = 1 .. Len(s)
  BY <1>2, NameElements
<1>4. T \subseteq 1 .. Len(s)
  BY <1>3 DEF Places
<1>5. IsFiniteSet(1 .. Len(s))
  BY <1>2, FS_Interval
<1>6. IsFiniteSet(T)
  BY <1>4, <1>5, FS_Subset
<1>7. Cardinality(T) \in Nat
  BY <1>6, FS_CardinalityType
<1>8. Places(c, "/") = IF x = "/" THEN T \cup {n} ELSE T
  <2>1. \A i \in DOMAIN c : i = n \/ i \in DOMAIN s
    BY <1>2, <1>3
  <2>2. \A i \in DOMAIN s : i \in DOMAIN c /\ c[i] = s[i] /\ i # n
    BY <1>2, <1>3
  <2>3. n \in DOMAIN c
    BY <1>2, <1>3
  <2> HIDE DEF n
  <2> QED
    BY <1>2, <2>1, <2>2, <2>3 DEF Places
<1>9. n \notin T
  BY <1>2, <1>4
<1> HIDE DEF T, n
<1>10. Cardinality(T \cup {n}) = Cardinality(T) + 1
  BY <1>6, <1>9, FS_AddElement
<1>11. Cardinality(Places(c, "/")) = Cardinality(T) + (IF x = "/" THEN 1 ELSE 0)
  BY <1>7, <1>8, <1>10
<1> QED
  BY <1>7, <1>11 DEF Slashes, T, c

\* The slashes of two names one after the other are those of both.
LEMMA SlashesConcat ==
  \A a, b \in Names : Slashes(a \o b) = Slashes(a) + Slashes(b) /\ Slashes(b) \in Nat
<1> SUFFICES ASSUME NEW a \in Names
             PROVE  \A b \in Names : Slashes(a \o b) = Slashes(a) + Slashes(b) /\ Slashes(b) \in Nat
  OBVIOUS
<1> DEFINE T == {b \in Names : Slashes(a \o b) = Slashes(a) + Slashes(b) /\ Slashes(b) \in Nat}
<1>0. Slashes(a) \in Nat
  BY SlashesOneMore DEF Token
<1>1. <<>> \in T
  <2>1. a \o <<>> = a /\ <<>> \in Names
    BY JoinedNames
  <2>2. Places(<<>>, "/") = {}
    BY DEF Places
  <2>3. Slashes(<<>>) = 0
    BY <2>2, FS_EmptySet DEF Slashes
  <2> QED
    BY <1>0, <2>1, <2>3
<1>2. ASSUME NEW b \in Names, NEW x \in Token, b \in T PROVE Append(b, x) \in T
  <2> DEFINE more == Append(b, x)
             one == <<x>>
             d == IF x = "/" THEN 1 ELSE 0
  <2>1. more = b \o one /\ one \in Names /\ more \in Names
    BY OneElement DEF Names
  <2> HIDE DEF more
  <2>2. Slashes(b \o <<x>>) = Slashes(b) + d /\ Slashes(b) \in Nat
    BY SlashesOneMore
  <2>3. a \o b \in Names
    BY JoinedNames
  <2>4. Slashes((a \o b) \o <<x>>) = Slashes(a \o b) + d
    BY <2>3, SlashesOneMore
  <2>5. Slashes(a \o b) = Slashes(a) + Slashes(b)
    BY <1>2
  <2> HIDE DEF one, T
  <2>6. a \o more = (a \o b) \o one
    BY <2>1, JoinedNames, ZenonT(60)
  <2>7. Slashes(a \o more) = Slashes(a \o b) + d /\ Slashes(more) = Slashes(b) + d
    BY <2>1, <2>2, <2>4, <2>6 DEF one
  <2> HIDE DEF d
  <2>8. d \in Nat
    BY DEF d
  <2>9. Slashes(a \o more) = Slashes(a) + Slashes(more) /\ Slashes(more) \in Nat
    BY <1>0, <2>2, <2>5, <2>7, <2>8
  <2> QED
    BY <2>1, <2>9 DEF more, T
<1> HIDE DEF T
<1>3. \A b \in Seq(Token) : b \in T
  BY <1>1, <1>2, SequenceInduction DEF Names
<1> QED
  BY <1>3 DEF T, Names

\* A name without slashes has none, and a slash is one.
LEMMA SlashesOfFew ==
  /\ \A s \in Names : Slashless(s) => Slashes(s) = 0
  /\ Slashes(<<"/">>) = 1
<1>1. ASSUME NEW s \in Names, Slashless(s) PROVE Slashes(s) = 0
  <2>1. Places(s, "/") = {}
    BY <1>1, NameElements DEF Places, Slashless
  <2> QED
    BY <2>1, FS_EmptySet DEF Slashes
<1>2. Slashes(<<"/">>) = 1
  <2>1. Places(<<"/">>, "/") = {1}
    BY DEF Places
  <2> QED
    BY <2>1, FS_Singleton DEF Slashes
<1> QED
  BY <1>1, <1>2

\* A path has a slash for each step.
LEMMA SlashesOfPath == \A steps \in Seq(StepName) : Slashes(Rooted(steps)) = Len(steps)
<1> DEFINE T == {steps \in Seq(StepName) : Slashes(Rooted(steps)) = Len(steps)}
<1>1. <<>> \in T
  <2>1. Slashes(<<>>) = 0
    <3>1. Places(<<>>, "/") = {}
      BY DEF Places
    <3> QED
      BY <3>1, FS_EmptySet DEF Slashes
  <2> QED
    BY <2>1, RootedOneMore, Empty
<1>2. ASSUME NEW steps \in Seq(StepName), NEW step \in StepName, steps \in T
      PROVE  Append(steps, step) \in T
  <2> DEFINE more == Append(steps, step)
             slash == <<"/">>
             r == Rooted(steps)
  <2>1. more \in Seq(StepName) /\ Len(more) = Len(steps) + 1 /\ Len(steps) \in Nat
    BY OneElement, Elements
  <2>2. steps \in Seq(Names) /\ step \in Names /\ Slashless(step) /\ slash \in Names
    BY StepsAreNames DEF Slashless
  <2>3. Rooted(more) = r \o (slash \o step) /\ r \in Names
    BY <2>2, RootedOneMore
  <2>4. Slashes(slash) = 1 /\ Slashes(step) = 0
    BY <2>2, SlashesOfFew
  <2> HIDE DEF slash, r, more
  <2>5. Slashes(slash \o step) = Slashes(slash) + Slashes(step) /\ slash \o step \in Names
    BY <2>2, SlashesConcat, JoinedNames
  <2>6. Slashes(r \o (slash \o step)) = Slashes(r) + Slashes(slash \o step)
    BY <2>3, <2>5, SlashesConcat
  <2>7. Slashes(r) = Len(steps)
    BY <1>2 DEF r
  <2>8. Slashes(Rooted(more)) = Len(more)
    BY <2>1, <2>3, <2>4, <2>5, <2>6, <2>7
  <2> QED
    BY <2>1, <2>8 DEF more
<1> HIDE DEF T
<1>3. \A steps \in Seq(StepName) : steps \in T
  BY <1>1, <1>2, SequenceInduction
<1> QED
  BY <1>3 DEF T

\* The steps before a place and behind it.
LEMMA StepsApart ==
  ASSUME NEW steps \in Seq(StepName), NEW k \in 0 .. Len(steps)
  PROVE  /\ UpTo(steps, k) \in Seq(StepName) /\ Len(UpTo(steps, k)) = k
         /\ From(steps, k + 1) \in Seq(StepName) /\ Len(From(steps, k + 1)) = Len(steps) - k
         /\ UpTo(steps, k) \o From(steps, k + 1) = steps
         /\ Rooted(steps) = Rooted(UpTo(steps, k)) \o Rooted(From(steps, k + 1))
<1> DEFINE a == UpTo(steps, k)
           b == From(steps, k + 1)
<1>1. /\ a \in Seq(StepName) /\ Len(a) = k /\ b \in Seq(StepName) /\ Len(b) = Len(steps) - k
      /\ a \o b = steps
  BY Sides, JoinedSides
<1> HIDE DEF a, b
<1>2. a \in Seq(Names) /\ b \in Seq(Names)
  BY <1>1, StepsAreNames
<1>3. Rooted(a \o b) = Rooted(a) \o Rooted(b)
  BY <1>2, RootedConcat
<1> QED
  BY <1>1, <1>3 DEF a, b

\* Every slash of a path is the one before a step.
LEMMA SlashOfPath ==
  ASSUME NEW o \in Names
  PROVE  \A steps \in Seq(StepName) : \A m \in Places(o \o Rooted(steps), "/") : m > Len(o) =>
           \E k \in 0 .. Len(steps) - 1 : m = Len(o \o Rooted(UpTo(steps, k))) + 1
<1> DEFINE Found(steps, m) ==
             \E k \in 0 .. Len(steps) - 1 : m = Len(o \o Rooted(UpTo(steps, k))) + 1
           T == {steps \in Seq(StepName) :
                   \A m \in Places(o \o Rooted(steps), "/") : m > Len(o) => Found(steps, m)}
<1>1. <<>> \in T
  <2>1. o \o Rooted(<<>>) = o /\ <<>> \in Seq(StepName)
    BY RootedOneMore, JoinedNames, Empty
  <2>2. DOMAIN o = 1 .. Len(o) /\ Len(o) \in Nat
    BY NameElements
  <2>3. \A m \in Places(o, "/") : ~(m > Len(o))
    BY <2>2 DEF Places
  <2> QED
    BY <2>1, <2>3
<1>2. ASSUME NEW steps \in Seq(StepName), NEW step \in StepName, steps \in T
      PROVE  Append(steps, step) \in T
  <2> DEFINE more == Append(steps, step)
             slash == <<"/">>
             t == o \o Rooted(steps)
             s == slash \o step
             c == t \o s
             n == Len(steps)
  <2>1. more \in Seq(StepName) /\ Len(more) = n + 1 /\ n \in Nat
    BY OneElement, Elements
  <2>2. steps \in Seq(Names) /\ step \in Names /\ Slashless(step) /\ slash \in Names
    BY StepsAreNames DEF Slashless
  <2>3. Led(s, "/", step)
    BY <2>2, OneToken DEF Token
  <2>4. Rooted(more) = Rooted(steps) \o s /\ Rooted(steps) \in Names
    BY <2>2, RootedOneMore
  <2> HIDE DEF s
  <2>5. /\ s \in Names /\ Len(s) = Len(step) + 1 /\ Len(step) \in Nat
        /\ \A i \in 1 .. Len(step) : s[i + 1] = step[i]
    BY <2>3 DEF Led
  <2>6. s \in Names
    BY <2>5
  <2>7. o \o Rooted(more) = c /\ t \in Names
    <3>1. Rooted(steps) \in Names
      BY <2>4
    <3>2. o \o (Rooted(steps) \o s) = (o \o Rooted(steps)) \o s /\ o \o Rooted(steps) \in Names
      BY <2>6, <3>1, JoinedNames
    <3> QED
      BY <2>4, <3>2
  <2>8. Parts(c, t, s)
    <3>1. t \in Names
      BY <2>7
    <3> HIDE DEF t
    <3> QED
      BY <2>6, <3>1, ConcatParts
  <2>9. \A k \in 0 .. n : UpTo(more, k) = UpTo(steps, k)
    <3> DEFINE one == <<step>>
    <3>1. one \in Seq(StepName) /\ more = steps \o one
      BY OneElement
    <3> HIDE DEF one, more
    <3>2. \A k \in 0 .. Len(steps) : UpTo(steps \o one, k) = UpTo(steps, k)
      BY <3>1, SidesOfConcat
    <3> QED
      BY <3>1, <3>2
  <2>10. UpTo(steps, n) = steps
    <3> DEFINE e == steps \o <<>>
    <3>1. e = steps /\ <<>> \in Seq(StepName)
      BY Empty
    <3> HIDE DEF e
    <3>2. UpTo(steps \o <<>>, Len(steps)) = steps
      BY <3>1, SidesOfConcat
    <3> QED
      BY <3>1, <3>2 DEF e
  <2> HIDE DEF more, c, t
  <2>11. ASSUME NEW m \in Places(c, "/"), m > Len(o) PROVE Found(more, m)
    <3>1. c \in Names /\ Len(c) = Len(t) + Len(s) /\ Len(t) \in Nat
      BY <2>8 DEF Parts
    <3>2. m \in 1 .. Len(c) /\ c[m] = "/"
      BY <3>1, NameElements DEF Places
    <3>3. CASE m <= Len(t)
      <4>1. m \in 1 .. Len(t) /\ t[m] = "/"
        BY <2>8, <3>2, <3>3, <3>1 DEF Parts
      <4>2. m \in Places(t, "/")
        BY <2>7, <4>1, NameElements DEF Places
      <4>3. PICK k \in 0 .. n - 1 : m = Len(o \o Rooted(UpTo(steps, k))) + 1
        BY <1>2, <2>11, <4>2 DEF t
      <4>4. k \in 0 .. n /\ k \in 0 .. Len(more) - 1
        BY <2>1
      <4>5. m = Len(o \o Rooted(UpTo(more, k))) + 1
        BY <2>9, <4>3, <4>4
      <4> QED
        BY <4>4, <4>5
    <3>4. CASE m > Len(t)
      <4>1. m = Len(t) + 1
        <5> SUFFICES ASSUME m # Len(t) + 1 PROVE FALSE
          OBVIOUS
        <5> DEFINE q == m - Len(t) - 1
        <5>1. q \in 1 .. Len(step) /\ q + 1 \in 1 .. Len(s) /\ Len(t) + (q + 1) = m
          BY <2>5, <3>1, <3>2, <3>4
        <5> HIDE DEF q
        <5>2. c[Len(t) + (q + 1)] = s[q + 1]
          BY <2>8, <5>1 DEF Parts
        <5>3. s[q + 1] = step[q]
          BY <2>5, <5>1
        <5> QED
          BY <2>2, <3>2, <5>1, <5>2, <5>3 DEF Slashless
      <4>2. n \in 0 .. n /\ n \in 0 .. Len(more) - 1
        BY <2>1
      <4>3. UpTo(more, n) = steps
        BY <2>9, <2>10, <4>2
      <4>4. m = Len(o \o Rooted(UpTo(more, n))) + 1
        BY <4>1, <4>3 DEF t
      <4> QED
        BY <4>2, <4>4
    <3> QED
      BY <3>1, <3>2, <3>3, <3>4
  <2> QED
    BY <2>1, <2>7, <2>11 DEF more
<1> HIDE DEF T
<1>3. \A steps \in Seq(StepName) : steps \in T
  BY <1>1, <1>2, SequenceInduction
<1> QED
  BY <1>3 DEF T

\* Two paths that are the same have the same steps.
LEMMA SamePaths ==
  \A a \in Seq(StepName) : \A b \in Seq(StepName) : Rooted(a) = Rooted(b) => a = b
<1> DEFINE T == {a \in Seq(StepName) : \A b \in Seq(StepName) : Rooted(a) = Rooted(b) => a = b}
<1>0. \A a \in Seq(StepName), x \in StepName : Rooted(Append(a, x)) # <<>>
  <2> SUFFICES ASSUME NEW a \in Seq(StepName), NEW x \in StepName PROVE Rooted(Append(a, x)) # <<>>
    OBVIOUS
  <2>1. Append(a, x) \in Seq(StepName) /\ Len(Append(a, x)) = Len(a) + 1 /\ Len(a) \in Nat
    BY OneElement, Elements
  <2>2. Slashes(Rooted(Append(a, x))) = Len(a) + 1
    BY <2>1, SlashesOfPath
  <2>3. Slashes(<<>>) = 0
    BY SlashesOfPath, RootedOneMore, Empty
  <2> QED
    BY <2>1, <2>2, <2>3
<1>1. <<>> \in T
  <2> SUFFICES ASSUME NEW b \in Seq(StepName), b # <<>> PROVE Rooted(<<>>) # Rooted(b)
    BY Empty
  <2>1. PICK q \in Seq(StepName), x \in StepName : b = Append(q, x)
    BY LastOfSequence
  <2> QED
    BY <1>0, <2>1, RootedOneMore
<1>2. ASSUME NEW a \in Seq(StepName), NEW x \in StepName, a \in T PROVE Append(a, x) \in T
  <2> SUFFICES ASSUME NEW b \in Seq(StepName), Rooted(Append(a, x)) = Rooted(b)
               PROVE  Append(a, x) = b
    BY OneElement
  <2>1. b # <<>>
    BY <1>0, RootedOneMore
  <2>2. PICK q \in Seq(StepName), y \in StepName : b = Append(q, y)
    BY <2>1, LastOfSequence
  <2> DEFINE slash == <<"/">>
             u == Rooted(a)
             v == Rooted(q)
             t == u \o (slash \o x)
  <2>3. /\ a \in Seq(Names) /\ q \in Seq(Names) /\ x \in Names /\ y \in Names
        /\ Slashless(x) /\ Slashless(y) /\ slash \in Names
    BY StepsAreNames DEF Slashless
  <2>4. Rooted(Append(a, x)) = t /\ Rooted(b) = v \o (slash \o y) /\ u \in Names /\ v \in Names
    BY <2>2, <2>3, RootedOneMore
  <2> HIDE DEF u, v
  <2>5. /\ Max(Places(t, "/")) = Len(u) + 1 /\ From(t, Len(u) + 1) = slash \o x
    BY <2>3, <2>4, LastStep
  <2>6. t = v \o (slash \o y)
    BY <2>4
  <2>7. /\ Max(Places(v \o (slash \o y), "/")) = Len(v) + 1
        /\ From(v \o (slash \o y), Len(v) + 1) = slash \o y
    BY <2>3, <2>4, LastStep
  <2>8. Len(u) \in Nat /\ Len(v) \in Nat
    BY <2>4, NameElements
  <2> HIDE DEF slash
  <2>9. Len(u) = Len(v)
    BY <2>5, <2>6, <2>7, <2>8
  <2>10. slash \o x = slash \o y
    BY <2>5, <2>6, <2>7, <2>9
  <2>11. x = y
    BY <2>3, <2>10, SameRest DEF Names
  <2>12. u = v
    <3> DEFINE s == slash \o x
    <3>1. s \in Names
      BY <2>3, JoinedNames
    <3>2. t = u \o s /\ t = v \o s
      BY <2>6, <2>10
    <3> HIDE DEF s, t
    <3>3. UpTo(u \o s, Len(u)) = u /\ UpTo(v \o s, Len(v)) = v
      BY <2>4, <3>1, NameSidesOfConcat
    <3> QED
      BY <2>9, <3>2, <3>3
  <2>13. a = q
    BY <1>2, <2>12 DEF u, v
  <2> QED
    BY <2>2, <2>11, <2>13
<1> HIDE DEF T
<1>3. \A a \in Seq(StepName) : a \in T
  BY <1>1, <1>2, SequenceInduction
<1> QED
  BY <1>3 DEF T

\* So many steps up.
Ups(n) == [i \in 1 .. n |-> Up]

\* Going up so many steps, and then down others.
LEMMA WalkUps ==
  ASSUME NEW from \in Seq(Quiet), NEW n \in Nat, n <= Len(from), NEW r \in Seq(Quiet), r # <<>>
  PROVE  /\ Ups(n) \in Seq(StepName) /\ Len(Ups(n)) = n
         /\ Walkable(from, Ups(n) \o r)
         /\ Walk(from, Ups(n) \o r) = UpTo(from, Len(from) - n) \o r
<1> DEFINE u == Ups(n)
           steps == u \o r
           W == Walked(from, steps)
           l == Len(from)
           g == [i \in 0 .. Len(r) |-> W[n + i]]
<1>1. Up \in StepName
  BY DEF Up, StepName
<1>2. u \in Seq(StepName) /\ Len(u) = n /\ \A i \in 1 .. n : u[i] = Up
  BY <1>1 DEF Ups
<1>3. r \in Seq(StepName) /\ Len(r) \in Nat /\ Len(r) # 0 /\ l \in Nat
  BY StepsAreNames, Elements
<1> HIDE DEF u
<1>4. /\ steps \in Seq(StepName) /\ Len(steps) = n + Len(r)
      /\ \A i \in 1 .. n : steps[i] = Up
      /\ \A i \in 1 .. Len(r) : steps[n + i] = r[i]
  <2>1. u \in Seq(StepName) /\ r \in Seq(StepName)
    BY <1>2, <1>3
  <2>2. /\ steps \in Seq(StepName) /\ Len(steps) = Len(u) + Len(r)
        /\ \A i \in 1 .. Len(u) : steps[i] = u[i]
        /\ \A i \in 1 .. Len(r) : steps[Len(u) + i] = r[i]
    BY <2>1, Concat
  <2> HIDE DEF steps
  <2> QED
    BY <1>2, <2>2
<1> HIDE DEF steps
<1>5. /\ W \in [0 .. Len(steps) -> Seq(Quiet)] /\ W[0] = from
      /\ \A i \in 1 .. Len(steps) : W[i] = Stepped(W[i - 1], steps[i])
  BY <1>4, WalkedBySteps
<1>6. Walk(from, steps) = W[Len(steps)]
  BY DEF Walk
<1> HIDE DEF W, l
<1> DEFINE T == {i \in Nat : i <= n => W[i] = UpTo(from, l - i)}
<1>7. 0 \in T
  <2> DEFINE e == from \o <<>>
  <2>1. e = from /\ <<>> \in Seq(Quiet)
    BY Empty
  <2> HIDE DEF e
  <2>2. UpTo(from \o <<>>, Len(from)) = from
    BY <2>1, SidesOfConcat
  <2>3. UpTo(from, l) = from
    BY <2>1, <2>2 DEF e, l
  <2>4. l - 0 = l
    BY <1>3
  <2> QED
    BY <1>5, <2>3, <2>4
<1>8. ASSUME NEW i \in Nat, i \in T PROVE i + 1 \in T
  <2> SUFFICES ASSUME i + 1 <= n PROVE W[i + 1] = UpTo(from, l - (i + 1))
    OBVIOUS
  <2> DEFINE k == i + 1
             b == l - i
             at == UpTo(from, b)
             c == b - 1
  <2>1. k \in 1 .. Len(steps) /\ k \in 1 .. n /\ k - 1 = i
    BY <1>3, <1>4
  <2>2. W[i] = at
    BY <1>8
  <2>3. b \in 0 .. Len(from) /\ b # 0 /\ c \in 0 .. Len(from) /\ c = l - k /\ c <= b /\ b \in Nat
    BY <1>3 DEF l
  <2>4. at \in Seq(Quiet) /\ Len(at) = b /\ \A q \in 1 .. b : at[q] = from[q]
    <3> HIDE DEF b
    <3> QED
      BY <2>3, Sides
  <2> HIDE DEF k
  <2>5. W[k] = Stepped(W[i], steps[k]) /\ steps[k] = Up
    BY <1>4, <1>5, <2>1
  <2>6. W[k] = Front(at)
    BY <2>2, <2>5 DEF Stepped
  <2> HIDE DEF at
  <2>7. at # <<>>
    BY <2>3, <2>4, Elements
  <2>8. Front(at) = UpTo(at, Len(at) - 1) /\ Front(at) \in Seq(Quiet) /\ Len(Front(at)) = Len(at) - 1
    BY <2>4, <2>7, FrontOf
  <2> HIDE DEF b, c
  <2>9. UpTo(at, c) = UpTo(from, c)
    <3> DEFINE x == UpTo(at, c)
               y == UpTo(from, c)
    <3>1. c \in 0 .. Len(at)
      BY <2>3, <2>4
    <3>2. x \in Seq(Quiet) /\ Len(x) = c /\ \A q \in 1 .. c : x[q] = at[q]
      BY <2>4, <3>1, Sides
    <3>3. y \in Seq(Quiet) /\ Len(y) = c /\ \A q \in 1 .. c : y[q] = from[q]
      BY <2>3, Sides
    <3> HIDE DEF x, y
    <3>4. \A q \in 1 .. Len(x) : x[q] = y[q]
      BY <2>3, <2>4, <3>2, <3>3
    <3>5. x = y
      BY <3>2, <3>3, <3>4, SameSequence
    <3> QED
      BY <3>5 DEF x, y
  <2>10. Len(at) - 1 = c
    BY <2>4 DEF c
  <2>11. W[k] = UpTo(from, c)
    BY <2>6, <2>8, <2>9, <2>10
  <2> QED
    BY <2>3, <2>11 DEF k
<1> HIDE DEF T
<1>9. \A i \in Nat : i \in T
  BY <1>7, <1>8, NaturalInduction
<1>10. \A i \in 0 .. n : W[i] = UpTo(from, l - i)
  BY <1>9 DEF T
<1>11. AppendedTo(g, UpTo(from, l - n), r)
  <2>1. g[0] = UpTo(from, l - n)
    BY <1>3, <1>10
  <2>2. ASSUME NEW i \in 1 .. Len(r) PROVE g[i] = Append(g[i - 1], r[i])
    <3> DEFINE k == n + i
    <3>1. k \in 1 .. Len(steps) /\ k - 1 = n + (i - 1) /\ i - 1 \in 0 .. Len(r) /\ i \in 0 .. Len(r)
      BY <1>3, <1>4
    <3>2. g[i] = W[k] /\ g[i - 1] = W[k - 1]
      BY <3>1
    <3>3. steps[k] = r[i]
      BY <1>4
    <3>4. r[i] \in Quiet
      BY Elements
    <3> HIDE DEF k, g
    <3>5. W[k] = Stepped(W[k - 1], steps[k])
      BY <1>5, <3>1
    <3> QED
      BY <3>2, <3>3, <3>4, <3>5 DEF Stepped, Quiet
  <2> QED
    BY <2>1, <2>2 DEF AppendedTo
<1>12. g[Len(r)] = W[Len(steps)]
  BY <1>3, <1>4
<1>13. UpTo(from, l - n) \in Seq(Quiet)
  <2> DEFINE b == l - n
  <2>1. b \in 0 .. Len(from)
    BY <1>3 DEF l
  <2> HIDE DEF b
  <2>2. UpTo(from, b) \in Seq(Quiet)
    BY <2>1, Sides
  <2> QED
    BY <2>2 DEF b
<1> HIDE DEF g
<1>14. g[Len(r)] = UpTo(from, l - n) \o r
  BY <1>11, <1>13, Appended
<1>15. Walk(from, steps) = UpTo(from, l - n) \o r
  BY <1>6, <1>12, <1>14
<1>16. ASSUME NEW i \in 1 .. Len(steps), Dots(steps[i]) PROVE i \in 1 .. n /\ steps[i] = Up
  <2> SUFFICES ASSUME i \notin 1 .. n PROVE FALSE
    BY <1>4
  <2> DEFINE k == i - n
  <2>1. k \in 1 .. Len(r) /\ n + k = i
    BY <1>3, <1>4
  <2> HIDE DEF k
  <2>2. steps[i] = r[k] /\ r[k] \in Quiet
    BY <1>4, <2>1, Elements
  <2> QED
    BY <1>16, <2>2 DEF Dots, Quiet
<1>17. Walkable(from, steps)
  <2>1. ASSUME NEW i \in 1 .. Len(steps), steps[i] = Up PROVE W[i - 1] # <<>>
    <3> DEFINE k == i - 1
               b == l - k
    <3>1. i \in 1 .. n
      BY <1>16, <2>1 DEF Dots
    <3>2. k \in 0 .. n /\ b \in 0 .. Len(from) /\ b # 0
      BY <1>3, <3>1 DEF l
    <3>3. W[k] = UpTo(from, b)
      BY <1>10, <3>2
    <3> HIDE DEF b
    <3>4. UpTo(from, b) \in Seq(Quiet) /\ Len(UpTo(from, b)) = b
      BY <3>2, Sides
    <3>5. UpTo(from, b) # <<>>
      BY <3>2, <3>4, Elements
    <3> QED
      BY <3>3, <3>5
  <2>2. ASSUME NEW i \in 1 .. Len(steps), Dots(steps[i])
        PROVE  i < Len(steps) /\ (steps[i] = Same => ~Dots(steps[i + 1]))
    <3>1. i \in 1 .. n /\ steps[i] = Up
      BY <1>16, <2>2
    <3>2. Up # Same
      <4>1. Len(Up) >= 2 /\ Len(Same) <= 1
        BY DEF Up, Same
      <4> QED
        BY <4>1
    <3> QED
      BY <1>3, <1>4, <3>1, <3>2
  <2> QED
    BY <1>4, <2>1, <2>2 DEF Walkable, W
<1> QED
  BY <1>2, <1>15, <1>17 DEF steps, u, l

\* The directories that HTRelative goes up are steps before the rest.
LEMMA UpsJoined ==
  ASSUME NEW r \in Seq(StepName), r # <<>>
  PROVE  \A n \in Nat :
           FlattenSeq([i \in 1 .. n |-> <<".", ".", "/">>]) \o Joined(r) = Joined(Ups(n) \o r)
<1> DEFINE slash == <<"/">>
           up == <<".", ".", "/">>
           ups(n) == [i \in 1 .. n |-> up]
           T == {n \in Nat : /\ FlattenSeq(ups(n)) \in Names
                             /\ slash \o FlattenSeq(ups(n)) = Rooted(Ups(n)) \o slash}
<1>1. slash \in Names /\ up \in Names /\ Up \in StepName /\ Up \in Names
  BY DEF Names, Token, Up, StepName
<1>2. up = Up \o slash
  <2> DEFINE c == Up \o slash
  <2>1. Ended(c, Up, "/")
    BY <1>1, OneToken DEF Token
  <2>2. /\ Len(up) >= 3 /\ Len(up) <= 3 /\ up[1] = "." /\ up[2] = "." /\ up[3] = "/"
    OBVIOUS
  <2>3. Len(Up) >= 2 /\ Len(Up) <= 2 /\ Up[1] = "." /\ Up[2] = "."
    BY DEF Up
  <2> HIDE DEF c, up, slash
  <2>4. Len(up) \in Nat /\ Len(Up) \in Nat
    BY <1>1, NameElements
  <2>5. /\ c \in Names /\ Len(c) = Len(Up) + 1 /\ c[Len(Up) + 1] = "/"
        /\ \A i \in 1 .. Len(Up) : c[i] = Up[i]
    BY <2>1 DEF Ended
  <2>6. 1 \in 1 .. Len(Up) /\ 2 \in 1 .. Len(Up) /\ Len(Up) + 1 = 3
    BY <2>3, <2>4
  <2>7. c[1] = "." /\ c[2] = "." /\ c[3] = "/"
    BY <2>3, <2>5, <2>6
  <2>8. Len(c) = Len(up)
    BY <2>2, <2>4, <2>5, <2>6
  <2>9. \A i \in 1 .. Len(up) : i = 1 \/ i = 2 \/ i = 3
    BY <2>2, <2>4
  <2>10. \A i \in 1 .. Len(up) : up[i] = c[i]
    BY <2>2, <2>7, <2>9
  <2>11. up = c
    BY <1>1, <2>5, <2>8, <2>10, SameNames
  <2> QED
    BY <2>11 DEF c
<1> HIDE DEF up, slash
<1>3. ups(0) = <<>> /\ Ups(0) = <<>>
  BY DEF Ups
<1>4. ASSUME NEW n \in Nat
      PROVE  /\ ups(n) \in Seq(Names) /\ ups(n + 1) = Append(ups(n), up)
             /\ Ups(n) \in Seq(Names) /\ Ups(n + 1) = Append(Ups(n), Up)
  <2>1. ups(n) \in Seq(Names) /\ Ups(n) \in Seq(Names)
    BY <1>1 DEF Ups
  <2>2. ups(n + 1) = Append(ups(n), up)
    BY <1>1
  <2>3. Ups(n + 1) = Append(Ups(n), Up)
    BY <1>1 DEF Ups
  <2> QED
    BY <2>1, <2>2, <2>3
<1>5. 0 \in T
  <2>1. FlattenSeq(<<>>) = <<>>
    BY DEF FlattenSeq
  <2>2. slash \o <<>> = slash /\ <<>> \o slash = slash
    BY <1>1, JoinedNames
  <2> QED
    BY <1>3, <2>1, <2>2, RootedOneMore, JoinedNames
<1> HIDE DEF ups
<1>6. ASSUME NEW n \in Nat, n \in T PROVE n + 1 \in T
  <2> DEFINE f == FlattenSeq(ups(n))
             g == FlattenSeq(ups(n + 1))
             p == Rooted(Ups(n))
             q == Rooted(Ups(n + 1))
  <2>1. f \in Names /\ slash \o f = p \o slash
    BY <1>6
  <2>2. q = p \o (slash \o Up) /\ p \in Names
    BY <1>1, <1>4, RootedOneMore DEF slash
  <2>3. g = IF ups(n) = <<>> THEN up ELSE f \o up
    BY <1>1, <1>4, FlattenOneMore DEF Names
  <2>4. g = f \o up
    <3>1. CASE ups(n) = <<>>
      <4>1. f = <<>>
        BY <3>1 DEF FlattenSeq
      <4> QED
        BY <1>1, <2>3, <3>1, <4>1, JoinedNames
    <3>2. CASE ups(n) # <<>>
      BY <2>3, <3>2
    <3> QED
      BY <3>1, <3>2
  <2> HIDE DEF f, g, p, q
  <2>5. slash \o g = q \o slash
    <3>0. f \in Names /\ p \in Names
      BY <2>1, <2>2
    <3>1. slash \o (f \o up) = (slash \o f) \o up
      BY <1>1, <3>0, JoinedNames, ZenonT(60)
    <3>2. (p \o slash) \o up = p \o (slash \o up)
      BY <1>1, <3>0, JoinedNames, ZenonT(60)
    <3>3. slash \o Up \in Names
      BY <1>1, JoinedNames
    <3>4. slash \o (Up \o slash) = (slash \o Up) \o slash
      BY <1>1, JoinedNames
    <3>5. p \o ((slash \o Up) \o slash) = (p \o (slash \o Up)) \o slash
      BY <1>1, <3>0, <3>3, JoinedNames, ZenonT(60)
    <3> QED
      BY <1>2, <2>1, <2>2, <2>4, <3>1, <3>2, <3>4, <3>5
  <2>6. g \in Names
    BY <1>1, <2>1, <2>4, JoinedNames
  <2> QED
    BY <2>5, <2>6 DEF g, q
<1> HIDE DEF T
<1>7. \A n \in Nat : n \in T
  BY <1>5, <1>6, NaturalInduction
<1> SUFFICES ASSUME NEW n \in Nat PROVE FlattenSeq(ups(n)) \o Joined(r) = Joined(Ups(n) \o r)
  BY DEF ups, up
<1> DEFINE f == FlattenSeq(ups(n))
           j == Joined(r)
           s == Ups(n) \o r
           p == Rooted(Ups(n))
<1>8. f \in Names /\ slash \o f = p \o slash
  BY <1>7 DEF T
<1>9. r \in Seq(Names) /\ Ups(n) \in Seq(Names)
  BY <1>4, StepsAreNames
<1>10. j \in Names /\ p \in Names /\ Rooted(r) = slash \o j
  BY <1>9, RootedOneMore, JoinedBegins DEF Begins, Rooted, slash
<1>11. Rooted(s) = p \o Rooted(r) /\ s \in Seq(Names) /\ s # <<>>
  <2>1. Rooted(s) = p \o Rooted(r)
    BY <1>9, RootedConcat
  <2>2. s \in Seq(Names) /\ Len(s) = Len(Ups(n)) + Len(r)
    BY <1>9, Concat
  <2>3. Len(r) \in Nat /\ Len(Ups(n)) \in Nat /\ Len(r) # 0
    BY <1>9, Elements
  <2> HIDE DEF s
  <2>4. s # <<>>
    BY <2>2, <2>3, Elements
  <2> QED
    BY <2>1, <2>2, <2>4
<1>12. Rooted(s) = slash \o Joined(s) /\ Joined(s) \in Names
  <2> HIDE DEF s
  <2>1. Joined(s) \in Names
    BY <1>11, JoinedOneMore, JoinedNames
  <2> QED
    BY <1>11, <2>1 DEF Rooted, slash
<1> HIDE DEF f, j, s, p
<1>13. slash \o (f \o j) = slash \o Joined(s)
  <2>1. slash \o (f \o j) = (slash \o f) \o j
    BY <1>1, <1>8, <1>10, JoinedNames, ZenonT(60)
  <2>2. (p \o slash) \o j = p \o (slash \o j)
    BY <1>1, <1>10, JoinedNames, ZenonT(60)
  <2> QED
    BY <1>8, <1>10, <1>11, <1>12, <2>1, <2>2
<1>14. f \o j \in Names
  BY <1>8, <1>10, JoinedNames
<1>15. f \o j = Joined(s)
  BY <1>1, <1>12, <1>13, <1>14, SameRest DEF Names
<1> QED
  BY <1>15 DEF f, j, s

\* To there two names are the same, and at the next place they are not.
Matched(x, y, e) ==
  /\ e \in Nat /\ e <= Len(x) /\ e <= Len(y)
  /\ \A i \in 1 .. e : x[i] = y[i]
  /\ e < Len(x) /\ e < Len(y) => x[e + 1] # y[e + 1]

\* Extent says how far two names match.
LEMMA ExtentMatches ==
  ASSUME NEW x \in Names, NEW y \in Names
  PROVE  Matched(x, y, Extent(x, y))
<1> DEFINE k == Min({Len(x), Len(y)})
           S == {i \in 1 .. k : UpTo(x, i) = UpTo(y, i)}
           T == {0} \cup S
<1>1. Len(x) \in Nat /\ Len(y) \in Nat
  BY NameElements
<1>2. k \in Nat /\ k <= Len(x) /\ k <= Len(y) /\ (k = Len(x) \/ k = Len(y))
  <2> DEFINE B == {Len(x), Len(y)}
  <2>1. B \in SUBSET Nat
    BY <1>1
  <2>2. CASE Len(x) <= Len(y)
    <3>1. Len(x) \in B /\ \A m \in B : Len(x) <= m
      BY <1>1, <2>2
    <3> HIDE DEF B
    <3>2. Min(B) = Len(x)
      BY <2>1, <3>1, Extremes
    <3> QED
      BY <1>1, <2>2, <3>2 DEF B
  <2>3. CASE Len(y) <= Len(x)
    <3>1. Len(y) \in B /\ \A m \in B : Len(y) <= m
      BY <1>1, <2>3
    <3> HIDE DEF B
    <3>2. Min(B) = Len(y)
      BY <2>1, <3>1, Extremes
    <3> QED
      BY <1>1, <2>3, <3>2 DEF B
  <2> QED
    BY <1>1, <2>2, <2>3
<1>3. Extent(x, y) = Max(T)
  BY DEF Extent
<1> HIDE DEF k
<1>4. T \in SUBSET (0 .. k) /\ 0 \in T
  BY <1>2
<1> HIDE DEF T
<1>5. PICK e \in T : \A m \in T : m <= e
  BY <1>2, <1>4, GreatestElement
<1>6. Max(T) = e
  <2>1. T \in SUBSET Nat
    BY <1>2, <1>4
  <2> QED
    BY <1>5, <2>1, Extremes
<1>7. e \in Nat /\ e <= k /\ e \in 0 .. Len(x) /\ e \in 0 .. Len(y)
  BY <1>1, <1>2, <1>4
<1>8. \A i \in 1 .. e : x[i] = y[i]
  <2>1. CASE e = 0
    BY <2>1
  <2>2. CASE e # 0
    <3>1. UpTo(x, e) = UpTo(y, e)
      BY <1>5, <2>2 DEF T
    <3>2. \A i \in 1 .. e : UpTo(x, e)[i] = x[i] /\ UpTo(y, e)[i] = y[i]
      BY <1>7, NameSides
    <3> QED
      BY <3>1, <3>2
  <2> QED
    BY <2>1, <2>2
<1>9. ASSUME e < Len(x), e < Len(y), x[e + 1] = y[e + 1] PROVE FALSE
  <2> DEFINE n == e + 1
             u == UpTo(x, n)
             v == UpTo(y, n)
  <2>1. n \in 0 .. Len(x) /\ n \in 0 .. Len(y) /\ n \in 1 .. k /\ n > e
    BY <1>1, <1>2, <1>7, <1>9
  <2>2. \A i \in 1 .. n : x[i] = y[i]
    BY <1>7, <1>8, <1>9
  <2> HIDE DEF n
  <2>3. /\ u \in Names /\ Len(u) = n /\ \A i \in 1 .. n : u[i] = x[i]
        /\ v \in Names /\ Len(v) = n /\ \A i \in 1 .. n : v[i] = y[i]
    BY <2>1, NameSides
  <2> HIDE DEF u, v
  <2>4. u = v
    BY <2>2, <2>3, SameNames
  <2>5. n \in T
    BY <2>1, <2>4 DEF T, u, v
  <2> QED
    BY <1>5, <1>7, <2>1, <2>5
<1> QED
  BY <1>1, <1>3, <1>6, <1>7, <1>8, <1>9 DEF Matched

\* What the tokens of the beginning of an address are.
Begun(a, access, host) ==
  /\ a \in Names /\ Len(a) = Len(host) + 4 /\ Len(host) \in Nat /\ Len(host) >= 1
  /\ a[1] = access[1] /\ a[2] = ":" /\ a[3] = "/" /\ a[4] = "/"
  /\ \A i \in 1 .. Len(host) : a[4 + i] = host[i]
  /\ Slashes(a) = 2

\* An address begins with its access, a colon, two slashes and its host.
LEMMA OriginBegins ==
  ASSUME NEW access, IsAccess(access), access # None, NEW host, IsHost(host)
  PROVE  Begun(Origin(access, host), access, host)
<1> DEFINE a == AccessText(access)
           two == <<"/", "/">>
           h == two \o host
           o == a \o h
<1>1. /\ a \in Names /\ Len(a) >= 2 /\ Len(a) <= 2 /\ a[1] = access[1] /\ a[2] = ":"
      /\ access[1] \notin {":", "/", "#", "."}
  BY AccessNames
<1>2. host \in Names /\ Slashless(host) /\ host # None /\ host # <<>>
  BY HostNames
<1>3. o = Origin(access, host)
  BY <1>2 DEF Origin, HostText
<1>4. two \in Names /\ Len(two) >= 2 /\ Len(two) <= 2 /\ two[1] = "/" /\ two[2] = "/"
  BY DEF Names, Token
<1>5. Places(two, "/") = {1, 2}
  BY DEF Places
<1> HIDE DEF a, two
<1>6. Len(a) \in Nat /\ Len(two) \in Nat /\ Len(host) \in Nat /\ Len(host) # 0
  BY <1>1, <1>2, <1>4, NameElements
<1>7. Slashes(two) = 2
  <2>1. Slashes(two) = Cardinality({1} \cup {2})
    <3>1. {1, 2} = {1} \cup {2}
      OBVIOUS
    <3> QED
      BY <1>5, <3>1 DEF Slashes
  <2>2. Cardinality({1}) = 1 /\ IsFiniteSet({1})
    BY FS_Singleton
  <2>3. 2 \notin {1}
    OBVIOUS
  <2>4. Cardinality({1} \cup {2}) = Cardinality({1}) + 1
    BY <2>2, <2>3, FS_AddElement
  <2> QED
    BY <2>1, <2>2, <2>4
<1>8. Slashless(a)
  <2>1. \A i \in 1 .. Len(a) : i = 1 \/ i = 2
    BY <1>1, <1>6
  <2> QED
    BY <1>1, <2>1 DEF Slashless
<1>9. Slashes(a) = 0 /\ Slashes(host) = 0
  BY <1>1, <1>2, <1>8, SlashesOfFew
<1>10. a \in Names /\ two \in Names /\ host \in Names
  BY <1>1, <1>2, <1>4
<1>11. h \in Names /\ Parts(h, two, host) /\ Slashes(h) = Slashes(two) + Slashes(host)
  BY <1>10, ConcatParts, SlashesConcat, JoinedNames
<1> HIDE DEF h
<1>12. o \in Names /\ Parts(o, a, h) /\ Slashes(o) = Slashes(a) + Slashes(h)
  BY <1>10, <1>11, ConcatParts, SlashesConcat, JoinedNames
<1> HIDE DEF o
<1>13. /\ Len(h) = Len(two) + Len(host) /\ Len(h) \in Nat
       /\ \A i \in 1 .. Len(two) : h[i] = two[i]
       /\ \A i \in 1 .. Len(host) : h[Len(two) + i] = host[i]
  BY <1>11, NameElements DEF Parts
<1>14. /\ Len(o) = Len(a) + Len(h)
       /\ \A i \in 1 .. Len(a) : o[i] = a[i]
       /\ \A i \in 1 .. Len(h) : o[Len(a) + i] = h[i]
  BY <1>12 DEF Parts
<1>15. /\ Len(h) = Len(host) + 2 /\ Len(o) = Len(host) + 4
       /\ \A i \in Int : Len(a) + i = 2 + i /\ Len(two) + i = 2 + i
  BY <1>1, <1>4, <1>6, <1>13, <1>14
<1>16. o[1] = access[1] /\ o[2] = ":"
  <2>1. 1 \in 1 .. Len(a) /\ 2 \in 1 .. Len(a)
    BY <1>1, <1>6
  <2> QED
    BY <1>1, <1>14, <2>1
<1>17. o[3] = "/" /\ o[4] = "/"
  <2>1. 1 \in 1 .. Len(h) /\ 2 \in 1 .. Len(h) /\ 1 \in 1 .. Len(two) /\ 2 \in 1 .. Len(two)
    BY <1>4, <1>6, <1>15
  <2>2. Len(a) + 1 = 3 /\ Len(a) + 2 = 4
    BY <1>15
  <2>3. o[3] = h[1] /\ o[4] = h[2] /\ h[1] = two[1] /\ h[2] = two[2]
    BY <1>13, <1>14, <2>1, <2>2
  <2> QED
    BY <1>4, <2>3
<1>18. ASSUME NEW i \in 1 .. Len(host) PROVE o[4 + i] = host[i]
  <2> DEFINE j == 2 + i
  <2>1. j \in 1 .. Len(h) /\ Len(a) + j = 4 + i /\ Len(two) + i = j
    BY <1>6, <1>15
  <2> HIDE DEF j
  <2> QED
    BY <1>13, <1>14, <2>1
<1>19. Slashes(o) = 2
  BY <1>7, <1>9, <1>11, <1>12
<1>20. Begun(o, access, host)
  BY <1>6, <1>12, <1>15, <1>16, <1>17, <1>18, <1>19 DEF Begun
<1> QED
  BY <1>3, <1>20

\* What the tokens of the text of a place are, up to the path.
Begin(x, p, n) ==
  /\ x \in Names /\ n \in Nat /\ n >= 1 /\ Len(x) \in Nat /\ Len(x) >= n + 5
  /\ x[1] = p.access[1] /\ x[2] = ":" /\ x[3] = "/" /\ x[4] = "/"
  /\ \A i \in 1 .. n : x[4 + i] = p.host[i]
  /\ x[n + 5] = "/"
  /\ \A i \in 1 .. Len(x) : x[i] = ":" => i = 2 \/ i \in 5 .. n + 4

\* An access, a colon, two slashes, a host and the slash of the path, which has
\* no colon.
LEMMA PlaceBegins ==
  ASSUME NEW p, IsPlace(p)
  PROVE  /\ Begin(Text(p), p, Len(p.host))
         /\ p.access = <<p.access[1]>> /\ p.access[1] \notin {":", "/", "#", "."}
<1> DEFINE a == Origin(p.access, p.host)
           r == Rooted(p.steps)
           x == a \o r
           n == Len(p.host)
<1>1. /\ IsAccess(p.access) /\ p.access # None /\ IsHost(p.host)
      /\ p.steps \in Seq(Quiet) /\ p.steps # <<>>
  BY PlaceIsAddress
<1>2. Text(p) = x
  BY PlaceText
<1>3. Begun(a, p.access, p.host)
  BY <1>1, OriginBegins
<1>4. p.access = <<p.access[1]>> /\ p.access[1] \notin {":", "/", "#", "."}
  <2>1. PICK w \in Word : p.access = <<w>>
    BY <1>1 DEF IsAccess
  <2> QED
    BY <2>1, DocumentsAssumption
<1>5. Led(r, "/", Joined(p.steps)) /\ Without(Joined(p.steps), ":")
  <2>1. p.steps \in Seq(StepName)
    BY <1>1, StepsAreNames
  <2>2. Joined(p.steps) \in Names /\ Without(Joined(p.steps), ":")
    BY <2>1, JoinedBegins DEF Begins
  <2>3. Led(<<"/">> \o Joined(p.steps), "/", Joined(p.steps))
    BY <2>2, OneToken DEF Token
  <2>4. r = <<"/">> \o Joined(p.steps)
    BY <1>1 DEF Rooted
  <2> QED
    BY <2>2, <2>3, <2>4
<1> HIDE DEF a, r
<1>6. /\ a \in Names /\ Len(a) = n + 4 /\ n \in Nat /\ n >= 1
      /\ a[1] = p.access[1] /\ a[2] = ":" /\ a[3] = "/" /\ a[4] = "/"
      /\ \A i \in 1 .. n : a[4 + i] = p.host[i]
  BY <1>3 DEF Begun
<1>7. /\ r \in Names /\ r[1] = "/" /\ Len(r) \in Nat /\ Len(r) >= 1
      /\ \A i \in 2 .. Len(r) : r[i] # ":"
  <2> DEFINE j == Joined(p.steps)
  <2> HIDE DEF j
  <2>1. Led(r, "/", j) /\ \A i \in 1 .. Len(j) : j[i] # ":"
    BY <1>5 DEF j, Without
  <2>2. /\ r \in Names /\ Len(r) = Len(j) + 1 /\ Len(j) \in Nat /\ r[1] = "/"
        /\ \A i \in 1 .. Len(j) : r[i + 1] = j[i]
    BY <2>1 DEF Led
  <2>3. ASSUME NEW i \in 2 .. Len(r) PROVE r[i] # ":"
    <3> DEFINE k == i - 1
    <3>1. k \in 1 .. Len(j) /\ k + 1 = i
      BY <2>2
    <3> HIDE DEF k
    <3> QED
      BY <2>1, <2>2, <3>1
  <2> QED
    BY <2>2, <2>3
<1>8. Parts(x, a, r)
  <2>1. a \in Names /\ r \in Names
    BY <1>6, <1>7
  <2> QED
    BY <2>1, ConcatParts
<1> HIDE DEF x, n
<1>9. /\ x \in Names /\ Len(x) = Len(a) + Len(r)
      /\ \A i \in 1 .. Len(a) : x[i] = a[i]
      /\ \A i \in 1 .. Len(r) : x[Len(a) + i] = r[i]
  BY <1>8 DEF Parts
<1>10. Len(x) \in Nat /\ Len(x) >= n + 5
  BY <1>6, <1>7, <1>9
<1>11. x[1] = p.access[1] /\ x[2] = ":" /\ x[3] = "/" /\ x[4] = "/"
  <2>1. \A i \in 1 .. 4 : i \in 1 .. Len(a)
    BY <1>6
  <2>2. x[1] = a[1] /\ x[2] = a[2] /\ x[3] = a[3] /\ x[4] = a[4]
    BY <1>9, <2>1
  <2> QED
    BY <1>6, <2>2
<1>12. ASSUME NEW i \in 1 .. n PROVE x[4 + i] = p.host[i]
  <2> DEFINE k == 4 + i
  <2>1. k \in 1 .. Len(a)
    BY <1>6
  <2> HIDE DEF k
  <2>2. x[k] = a[k]
    BY <1>9, <2>1
  <2> QED
    BY <1>6, <2>2 DEF k
<1>13. x[n + 5] = "/"
  <2>1. 1 \in 1 .. Len(r) /\ Len(a) + 1 = n + 5
    BY <1>6, <1>7
  <2> QED
    BY <1>7, <1>9, <2>1
<1>14. ASSUME NEW i \in 1 .. Len(x), x[i] = ":" PROVE i = 2 \/ i \in 5 .. n + 4
  <2> SUFFICES ASSUME i # 2, i \notin 5 .. n + 4 PROVE FALSE
    OBVIOUS
  <2>1. i = 1 \/ i = 3 \/ i = 4 \/ i >= n + 5
    BY <1>6
  <2>2. i >= n + 5
    BY <1>4, <1>11, <1>14, <2>1
  <2> DEFINE k == i - Len(a)
  <2>3. k \in 1 .. Len(r) /\ Len(a) + k = i
    BY <1>6, <1>7, <1>9, <2>2
  <2> HIDE DEF k
  <2>4. r[k] = ":"
    BY <1>9, <1>14, <2>3
  <2>5. k = 1 \/ k \in 2 .. Len(r)
    BY <2>3
  <2> QED
    BY <1>7, <2>4, <2>5
<1>15. Begin(x, p, n)
  BY <1>6, <1>9, <1>10, <1>11, <1>12, <1>13, <1>14 DEF Begin
<1> QED
  BY <1>2, <1>4, <1>15 DEF x, n

\* A reference leads to a place when it means its access and host, and its path,
\* with the one of here before it, is simplified to that of the place.
LEMMA LeadsThere ==
  ASSUME IsPlace(place), here = Text(place), NEW p, IsPlace(p),
         NEW ref, Fits(ref), ref.anchor = None,
         Meant(ref).access = p.access, Meant(ref).host = p.host,
         HTSimplify(Origin(p.access, p.host) \o Rooted(Completed(ref).steps)) = Text(p)
  PROVE  HTSimplify(Followed(Text(ref))) = Text(p)
<1> DEFINE t == Origin(p.access, p.host) \o Rooted(Completed(ref).steps)
<1>1. ref.anchor # <<>>
  BY JoinedNames, DocumentsAssumption DEF Names
<1>2. Document(HTParse(Text(ref), here, PARSE_ALL)) = t
  BY <1>1, ReferredText
<1>3. HTSimplify(t) = Text(p) /\ HTSimplify(Text(p)) = Text(p)
  BY PlaceText
<1> HIDE DEF t
<1>4. Followed(Text(ref)) = t \/ Followed(Text(ref)) = HTSimplify(t)
  BY <1>2 DEF Followed, Loaded
<1> QED
  BY <1>3, <1>4

\* So do one with a path from the root and one with the whole address.
LEMMA RootLeadsThere ==
  ASSUME IsPlace(place), here = Text(place), NEW p, IsPlace(p),
         NEW ref, IsAddress(ref), ref.rooted, ref.steps = p.steps, ref.anchor = None,
         ref.access = p.access \/ (ref.access = None /\ p.access = place.access),
         ref.host = p.host \/ (ref.host = None /\ ref.access = None /\ p.host = place.host)
  PROVE  HTSimplify(Followed(Text(ref))) = Text(p)
<1>1. p.access # None /\ p.host # None /\ p.steps # <<>> /\ p.steps \in Seq(Quiet)
  BY PlaceIsAddress
<1>2. Fits(ref)
  BY <1>1 DEF Fits
<1>3. Meant(ref).access = p.access /\ Meant(ref).host = p.host
  BY <1>1 DEF Meant
<1>4. Completed(ref).steps = p.steps
  <2>1. Completed(ref).steps = <<>> \o p.steps
    BY <1>1 DEF Completed, Start
  <2> QED
    BY <1>1, <2>1, Empty
<1>5. Text(p) = Origin(p.access, p.host) \o Rooted(p.steps) /\ HTSimplify(Text(p)) = Text(p)
  BY PlaceText
<1>6. HTSimplify(Origin(p.access, p.host) \o Rooted(Completed(ref).steps)) = Text(p)
  BY <1>4, <1>5
<1> QED
  BY <1>2, <1>3, <1>6, LeadsThere

\* What two names have in common.
Common(x, y) == UpTo(x, Extent(x, y))

\* With another access nothing is left out.
LEMMA RelativeAccess ==
  ASSUME NEW p, IsPlace(p), NEW q, IsPlace(q), p.access # q.access
  PROVE  HTRelative(Text(p), Text(q)) = Text(p)
<1> DEFINE x == Text(p)
           y == Text(q)
           e == Extent(x, y)
           common == UpTo(x, e)
<1>1. /\ Begin(x, p, Len(p.host)) /\ p.access = <<p.access[1]>>
      /\ Begin(y, q, Len(q.host)) /\ q.access = <<q.access[1]>>
  BY PlaceBegins
<1> HIDE DEF x, y
<1>2. x \in Names /\ y \in Names /\ x[1] = p.access[1] /\ y[1] = q.access[1]
  BY <1>1 DEF Begin
<1>3. Matched(x, y, e)
  BY <1>2, ExtentMatches
<1> HIDE DEF e
<1>4. e \in Nat /\ e <= Len(x) /\ \A i \in 1 .. e : x[i] = y[i]
  BY <1>3 DEF Matched
<1>5. e = 0
  <2> SUFFICES ASSUME e # 0 PROVE FALSE
    OBVIOUS
  <2>1. x[1] = y[1]
    BY <1>4
  <2> QED
    BY <1>1, <1>2, <2>1
<1>6. Places(common, ":") = {}
  <2>1. e \in 0 .. Len(x) /\ Len(x) \in Nat
    BY <1>2, <1>4, <1>5, NameElements
  <2>2. common \in Names /\ Len(common) = e
    BY <1>2, <2>1, NameSides
  <2> HIDE DEF common
  <2>3. DOMAIN common = 1 .. e
    BY <2>2, NameElements
  <2> QED
    BY <1>5, <2>3 DEF Places
<1>7. HTRelative(x, y) = x
  BY <1>6 DEF HTRelative, e
<1> QED
  BY <1>7 DEF x, y

\* The text of a reference from the root.
FromRoot(host, steps) ==
  [access |-> None, host |-> host, rooted |-> TRUE, steps |-> steps, anchor |-> None]

\* With the same access and another host the access is left out.
LEMMA RelativeHost ==
  ASSUME NEW p, IsPlace(p), IsPlace(place), p.access = place.access, p.host # place.host,
         ~OtherPort(p)
  PROVE  HTRelative(Text(p), Text(place)) = From(Text(p), 3)
<1> DEFINE x == Text(p)
           y == Text(place)
           h == p.host
           g == place.host
           n == Len(h)
           m == Len(g)
           e == Extent(x, y)
           common == UpTo(x, e)
           slashes == Places(common, "/")
           colons == Places(common, ":")
<1>1. /\ Begin(x, p, n) /\ p.access = <<p.access[1]>> /\ p.access[1] \notin {":", "/", "#", "."}
      /\ Begin(y, place, m)
  BY PlaceBegins
<1>2. h \in Names /\ Slashless(h) /\ g \in Names /\ Slashless(g) /\ IsHost(h) /\ IsHost(g)
  BY HostNames, PlaceIsAddress
<1>3. h # g
  OBVIOUS
<1> HIDE DEF x, y
<1>4. /\ x \in Names /\ n \in Nat /\ n >= 1 /\ Len(x) \in Nat /\ Len(x) >= n + 5
      /\ x[1] = p.access[1] /\ x[2] = ":" /\ x[3] = "/" /\ x[4] = "/"
      /\ \A i \in 1 .. n : x[4 + i] = h[i]
      /\ x[n + 5] = "/"
  BY <1>1 DEF Begin
<1>5. /\ y \in Names /\ m \in Nat /\ m >= 1 /\ Len(y) \in Nat /\ Len(y) >= m + 5
      /\ y[1] = p.access[1] /\ y[2] = ":" /\ y[3] = "/" /\ y[4] = "/"
      /\ \A i \in 1 .. m : y[4 + i] = g[i]
      /\ y[m + 5] = "/"
      /\ \A i \in 1 .. Len(y) : y[i] = ":" => i = 2 \/ i \in 5 .. m + 4
  BY <1>1 DEF Begin
<1>6. Matched(x, y, e)
  BY <1>4, <1>5, ExtentMatches
<1> HIDE DEF e, h, g, n, m
<1>7. /\ e \in Nat /\ e <= Len(x) /\ e <= Len(y) /\ \A i \in 1 .. e : x[i] = y[i]
      /\ e < Len(x) /\ e < Len(y) => x[e + 1] # y[e + 1]
  BY <1>6 DEF Matched
<1>8. e >= 4
  <2> SUFFICES ASSUME e < 4 PROVE FALSE
    BY <1>7
  <2>1. e + 1 = 1 \/ e + 1 = 2 \/ e + 1 = 3 \/ e + 1 = 4
    BY <1>7
  <2>2. x[e + 1] = y[e + 1]
    BY <1>4, <1>5, <2>1
  <2> QED
    BY <1>4, <1>5, <1>7, SMTT(40)
<1>9. e <= n + 4
  <2> SUFFICES ASSUME e >= n + 5 PROVE FALSE
    BY <1>4, <1>7
  <2>1. y[n + 5] = "/"
    <3>1. n + 5 \in 1 .. e
      BY <1>4, <1>7
    <3> QED
      BY <1>4, <1>7, <3>1
  <2>2. m <= n
    <3> SUFFICES ASSUME m > n PROVE FALSE
      BY <1>4, <1>5
    <3>1. n + 1 \in 1 .. m /\ 4 + (n + 1) = n + 5
      BY <1>4, <1>5
    <3>2. g[n + 1] = "/"
      BY <1>5, <2>1, <3>1
    <3> QED
      BY <1>2, <3>1, <3>2 DEF Slashless, m
  <2>3. n <= m
    <3> SUFFICES ASSUME n > m PROVE FALSE
      BY <1>4, <1>5
    <3>1. m + 1 \in 1 .. n /\ 4 + (m + 1) = m + 5 /\ m + 5 \in 1 .. e
      BY <1>4, <1>5, <1>7
    <3>2. x[m + 5] = "/"
      BY <1>5, <1>7, <3>1
    <3>3. h[m + 1] = "/"
      BY <1>4, <3>1, <3>2
    <3> QED
      BY <1>2, <3>1, <3>3 DEF Slashless, n
  <2>4. n = m
    BY <1>4, <1>5, <2>2, <2>3
  <2>5. ASSUME NEW i \in 1 .. n PROVE h[i] = g[i]
    <3>1. 4 + i \in 1 .. e
      BY <1>4, <1>7
    <3>2. x[4 + i] = y[4 + i]
      BY <1>7, <3>1
    <3> QED
      BY <1>4, <1>5, <2>4, <3>2
  <2>6. h = g
    <3>1. Len(h) = Len(g) /\ \A i \in 1 .. Len(h) : h[i] = g[i]
      BY <2>4, <2>5 DEF n, m
    <3> QED
      BY <1>2, <3>1, SameNames
  <2> QED
    BY <1>3, <2>6
<1>10. /\ common \in Names /\ DOMAIN common = 1 .. e
       /\ \A i \in 1 .. e : common[i] = x[i]
  <2>1. e \in 0 .. Len(x)
    BY <1>4, <1>7
  <2>2. common \in Names /\ Len(common) = e /\ \A i \in 1 .. e : common[i] = x[i]
    BY <1>4, <2>1, NameSides
  <2> HIDE DEF common
  <2> QED
    BY <2>2, NameElements
<1> HIDE DEF common
<1>11. slashes = {3} \cup {4}
  <2>1. ASSUME NEW i \in 1 .. e PROVE x[i] = "/" <=> i = 3 \/ i = 4
    <3>1. i = 1 \/ i = 2 \/ i = 3 \/ i = 4 \/ i - 4 \in 1 .. n
      BY <1>4, <1>7, <1>9
    <3>2. CASE i - 4 \in 1 .. n
      <4> DEFINE k == i - 4
      <4>1. k \in 1 .. n /\ 4 + k = i
        BY <3>2
      <4> HIDE DEF k
      <4>2. x[i] = h[k]
        BY <1>4, <4>1
      <4>3. h[k] # "/"
        BY <1>2, <4>1 DEF Slashless, n
      <4>4. i # 3 /\ i # 4
        BY <4>1
      <4> QED
        BY <4>2, <4>3, <4>4
    <3>3. CASE i = 1 \/ i = 2
      BY <1>1, <1>4, <3>3
    <3> QED
      BY <1>4, <3>1, <3>2, <3>3
  <2>2. \A i \in 1 .. e : common[i] = "/" <=> i = 3 \/ i = 4
    BY <1>10, <2>1
  <2>3. 3 \in 1 .. e /\ 4 \in 1 .. e
    BY <1>7, <1>8
  <2> QED
    BY <1>10, <2>2, <2>3 DEF Places
<1>12. Cardinality(slashes) < 3
  <2>1. Cardinality({3}) = 1 /\ IsFiniteSet({3})
    BY FS_Singleton
  <2>2. Cardinality({3} \cup {4}) = Cardinality({3}) + 1
    BY <2>1, FS_AddElement
  <2> QED
    BY <1>11, <2>1, <2>2
<1>13. colons = {2}
  <2>1. 2 \in colons
    <3>1. 2 \in 1 .. e
      BY <1>7, <1>8
    <3> QED
      BY <1>4, <1>10, <3>1 DEF Places
  <2>2. ASSUME NEW i \in colons, i # 2 PROVE FALSE
    <3>1. i \in 1 .. e /\ x[i] = ":"
      BY <1>10 DEF Places
    <3>2. y[i] = ":" /\ i \in 1 .. Len(y)
      BY <1>5, <1>7, <3>1
    <3> DEFINE c == i - 4
               k == c - 1
    <3>3. i \in 5 .. m + 4
      BY <1>5, <2>2, <3>2
    <3>4. c \in 1 .. m /\ c \in 1 .. n /\ 4 + c = i /\ k \in 0 .. n /\ k \in 0 .. m /\ k \in Nat
      BY <1>4, <1>5, <1>7, <1>9, <3>1, <3>3
    <3> HIDE DEF c, k
    <3>5. h[c] = ":" /\ g[c] = ":"
      <4>1. x[4 + c] = h[c] /\ y[4 + c] = g[c]
        BY <1>4, <1>5, <3>4
      <4> QED
        BY <3>1, <3>2, <3>4, <4>1
    <3>6. DOMAIN h = 1 .. n /\ DOMAIN g = 1 .. m
      BY <1>2, NameElements DEF n, m
    <3>7. c \in Places(h, ":") /\ c \in Places(g, ":")
      BY <3>4, <3>5, <3>6 DEF Places
    <3>8. Places(h, ":") = {c} /\ Places(g, ":") = {c}
      BY <1>2, <3>7 DEF IsHost
    <3>9. NameOf(h) = UpTo(h, k) /\ NameOf(g) = UpTo(g, k)
      <4>1. c \in Nat
        BY <3>4
      <4>2. \A o : FirstOf({c}, o) = c
        BY <4>1, OnePlace
      <4>3. FirstOf(Places(h, ":"), Len(h) + 1) = c /\ FirstOf(Places(g, ":"), Len(g) + 1) = c
        BY <3>8, <4>2
      <4> QED
        BY <4>3 DEF NameOf, k
    <3>10. UpTo(h, k) = UpTo(g, k)
      <4> DEFINE u == UpTo(h, k)
                 v == UpTo(g, k)
      <4>1. /\ u \in Names /\ Len(u) = k /\ \A j \in 1 .. k : u[j] = h[j]
            /\ v \in Names /\ Len(v) = k /\ \A j \in 1 .. k : v[j] = g[j]
        BY <1>2, <3>4, NameSides DEF n, m
      <4>2. ASSUME NEW j \in 1 .. k PROVE h[j] = g[j]
        <5>1. j \in 1 .. n /\ j \in 1 .. m /\ 4 + j \in 1 .. e
          BY <1>4, <1>5, <1>7, <3>1, <3>4 DEF k
        <5>2. x[4 + j] = y[4 + j]
          BY <1>7, <5>1
        <5> QED
          BY <1>4, <1>5, <5>1, <5>2
      <4> HIDE DEF u, v
      <4>3. u = v
        BY <4>1, <4>2, SameNames
      <4> QED
        BY <4>3 DEF u, v
    <3>11. OtherPort(p)
      BY <3>7, <3>9, <3>10 DEF OtherPort, h, g
    <3> QED
      BY <3>11
  <2> QED
    BY <2>1, <2>2
<1>14. HTRelative(x, y)
         = CASE colons = {} -> x
             [] colons # {} /\ Cardinality(slashes) < 3 -> From(x, Max(colons) + 1)
             [] colons # {} /\ Cardinality(slashes) = 3 ->
                  From(x, CHOOSE i \in slashes : Cardinality({j \in slashes : j <= i}) = 3)
             [] OTHER -> FlattenSeq([i \in 1 .. Cardinality(Levels(From(y, Len(common) + 1))) |->
                                       <<".", ".", "/">>])
                           \o From(x, Max(slashes) + 1)
  BY DEF HTRelative, common, e
<1> DEFINE third == CHOOSE i \in slashes : Cardinality({j \in slashes : j <= i}) = 3
           flat == FlattenSeq([i \in 1 .. Cardinality(Levels(From(y, Len(common) + 1))) |->
                                 <<".", ".", "/">>])
<1> HIDE DEF third, flat
<1>15. HTRelative(x, y) = From(x, Max(colons) + 1)
  <2>1. colons # {}
    BY <1>13
  <2> DEFINE card == Cardinality(slashes)
  <2>2. card < 3
    BY <1>12
  <2>3. card # 3
    BY <2>2
  <2> HIDE DEF card, colons, slashes
  <2> QED
    BY <1>14, <2>1, <2>2 DEF card
<1>16. Max(colons) = 2
  BY <1>13, OnePlace
<1>17. HTRelative(x, y) = From(x, 3)
  BY <1>15, <1>16
<1> QED
  BY <1>17 DEF x, y

\* Behind the same beginning two paths are the same for k steps: the last slash
\* that they have in common is the one before the next step.
Forks(o, s, z, k) ==
  LET x      == o \o Rooted(s)
      y      == o \o Rooted(z)
      common == Common(x, y)
      m      == Len(o \o Rooted(UpTo(s, k))) + 1
  IN  /\ k \in Nat /\ k + 1 <= Len(s) /\ k + 1 <= Len(z) /\ UpTo(s, k) = UpTo(z, k)
      /\ m \in Places(common, "/") /\ \A i \in Places(common, "/") : i <= m
      /\ Extent(x, y) \in 0 .. Len(x) /\ Extent(x, y) \in 0 .. Len(y)
      /\ Extent(x, y) >= Len(o)
      /\ UpTo(y, Extent(x, y)) = common
      /\ Slashes(common) = Slashes(o) + k + 1
      /\ From(x, m) = Rooted(From(s, k + 1))
      /\ From(x, m + 1) = Joined(From(s, k + 1))

\* There are such steps, if only none.
LEMMA PathsFork ==
  ASSUME NEW o \in Names, NEW s \in Seq(StepName), s # <<>>, NEW z \in Seq(StepName), z # <<>>
  PROVE  \E k : Forks(o, s, z, k)
<1> DEFINE x == o \o Rooted(s)
           y == o \o Rooted(z)
           e == Extent(x, y)
           c == UpTo(x, e)
           a == Len(o)
           slash == <<"/">>
<1>1. slash \in Names /\ slash[1] = "/" /\ Slashes(slash) = 1
  BY Slash, SlashesOfFew
<1>2. /\ Joined(s) \in Names /\ Rooted(s) = slash \o Joined(s)
      /\ Joined(z) \in Names /\ Rooted(z) = slash \o Joined(z)
  BY JoinedBegins DEF Begins, Rooted
<1>3. Led(Rooted(s), "/", Joined(s)) /\ Led(Rooted(z), "/", Joined(z))
  BY <1>2, OneToken DEF Token
<1>4. /\ Rooted(s) \in Names /\ Rooted(s)[1] = "/" /\ Len(Rooted(s)) >= 1 /\ Len(Rooted(s)) \in Nat
      /\ Rooted(z) \in Names /\ Rooted(z)[1] = "/" /\ Len(Rooted(z)) >= 1 /\ Len(Rooted(z)) \in Nat
  <2> DEFINE rs == Rooted(s)
             rz == Rooted(z)
             js == Joined(s)
             jz == Joined(z)
  <2>1. Led(rs, "/", js) /\ Led(rz, "/", jz)
    BY <1>3
  <2> HIDE DEF rs, rz, js, jz
  <2>2. /\ rs \in Names /\ rs[1] = "/" /\ Len(rs) >= 1 /\ Len(rs) \in Nat
        /\ rz \in Names /\ rz[1] = "/" /\ Len(rz) >= 1 /\ Len(rz) \in Nat
    BY <2>1 DEF Led
  <2> QED
    BY <2>2 DEF rs, rz
<1>5. Parts(x, o, Rooted(s)) /\ Parts(y, o, Rooted(z))
  <2>1. Rooted(s) \in Names /\ Rooted(z) \in Names
    BY <1>4
  <2> QED
    BY <2>1, ConcatParts
<1> HIDE DEF x, y, slash
<1>6. /\ x \in Names /\ y \in Names /\ a \in Nat
      /\ Len(x) = a + Len(Rooted(s)) /\ Len(y) = a + Len(Rooted(z))
      /\ \A i \in 1 .. a : x[i] = o[i] /\ y[i] = o[i]
      /\ x[a + 1] = "/" /\ y[a + 1] = "/"
      /\ Len(x) \in Nat /\ Len(y) \in Nat
  BY <1>4, <1>5 DEF Parts
<1>7. Matched(x, y, e)
  BY <1>6, ExtentMatches
<1> HIDE DEF e
<1>8. /\ e \in Nat /\ e <= Len(x) /\ e <= Len(y) /\ \A i \in 1 .. e : x[i] = y[i]
      /\ e < Len(x) /\ e < Len(y) => x[e + 1] # y[e + 1]
  BY <1>7 DEF Matched
<1>9. e >= a + 1
  <2> SUFFICES ASSUME e <= a PROVE FALSE
    BY <1>6, <1>8
  <2>1. e < Len(x) /\ e < Len(y)
    BY <1>4, <1>6, <1>8
  <2>2. x[e + 1] = y[e + 1]
    <3>1. e + 1 \in 1 .. a \/ e + 1 = a + 1
      BY <1>6, <1>8
    <3> QED
      BY <1>6, <3>1
  <2> QED
    BY <1>8, <2>1, <2>2
<1>10. /\ c \in Names /\ Len(c) = e /\ DOMAIN c = 1 .. e /\ \A i \in 1 .. e : c[i] = x[i]
       /\ e \in 0 .. Len(x) /\ e \in 0 .. Len(y)
  <2>1. e \in 0 .. Len(x) /\ e \in 0 .. Len(y)
    BY <1>6, <1>8
  <2>2. c \in Names /\ Len(c) = e /\ \A i \in 1 .. e : c[i] = x[i]
    BY <1>6, <2>1, NameSides
  <2> HIDE DEF c
  <2> QED
    BY <2>1, <2>2, NameElements
<1> HIDE DEF c
<1>11. UpTo(y, e) = c
  <2> DEFINE d == UpTo(y, e)
  <2>1. d \in Names /\ Len(d) = e /\ \A i \in 1 .. e : d[i] = y[i]
    BY <1>6, <1>10, NameSides
  <2> HIDE DEF d
  <2>2. Len(d) = Len(c) /\ \A i \in 1 .. Len(d) : d[i] = c[i]
    BY <1>8, <1>10, <2>1
  <2>3. d = c
    BY <1>10, <2>1, <2>2, SameNames
  <2> QED
    BY <2>3 DEF d
<1>12. PICK m \in Places(c, "/") : \A i \in Places(c, "/") : i <= m
  <2>1. Places(c, "/") \in SUBSET (0 .. e)
    BY <1>10 DEF Places
  <2>2. a + 1 \in Places(c, "/")
    <3>1. a + 1 \in 1 .. e
      BY <1>6, <1>8, <1>9
    <3> QED
      BY <1>6, <1>10, <3>1 DEF Places
  <2> QED
    BY <1>8, <2>1, <2>2, GreatestElement
<1>13. m \in 1 .. e /\ x[m] = "/" /\ y[m] = "/" /\ m >= a + 1 /\ c[m] = "/" /\ m \in Nat
  <2>1. m \in 1 .. e /\ c[m] = "/"
    BY <1>10 DEF Places
  <2>2. a + 1 \in Places(c, "/")
    <3>1. a + 1 \in 1 .. e
      BY <1>6, <1>8, <1>9
    <3> QED
      BY <1>6, <1>10, <3>1 DEF Places
  <2>3. a + 1 <= m
    BY <1>12, <2>2
  <2> QED
    BY <1>6, <1>8, <1>10, <2>1, <2>3
<1>14. PICK k \in 0 .. Len(s) - 1 : m = Len(o \o Rooted(UpTo(s, k))) + 1
  <2>1. m \in Places(x, "/") /\ m > a
    <3>1. DOMAIN x = 1 .. Len(x)
      BY <1>6, NameElements
    <3>2. m \in 1 .. Len(x)
      BY <1>6, <1>8, <1>13
    <3> QED
      BY <1>6, <1>13, <3>1, <3>2 DEF Places
  <2> QED
    BY <2>1, SlashOfPath DEF x
<1>15. PICK l \in 0 .. Len(z) - 1 : m = Len(o \o Rooted(UpTo(z, l))) + 1
  <2>1. m \in Places(y, "/") /\ m > a
    <3>1. DOMAIN y = 1 .. Len(y)
      BY <1>6, NameElements
    <3>2. m \in 1 .. Len(y)
      BY <1>6, <1>8, <1>13
    <3> QED
      BY <1>6, <1>13, <3>1, <3>2 DEF Places
  <2> QED
    BY <2>1, SlashOfPath DEF y
<1> DEFINE s1 == UpTo(s, k)
           s2 == From(s, k + 1)
           z1 == UpTo(z, l)
           z2 == From(z, l + 1)
           u == o \o Rooted(s1)
           v == o \o Rooted(z1)
<1>16. Len(s) \in Nat /\ Len(z) \in Nat /\ k \in 0 .. Len(s) /\ l \in 0 .. Len(z) /\ k \in Nat /\ l \in Nat
  BY Elements
<1>17. /\ s1 \in Seq(StepName) /\ Len(s1) = k /\ s2 \in Seq(StepName) /\ Len(s2) = Len(s) - k
       /\ Rooted(s) = Rooted(s1) \o Rooted(s2)
       /\ z1 \in Seq(StepName) /\ Len(z1) = l /\ z2 \in Seq(StepName)
       /\ Rooted(z) = Rooted(z1) \o Rooted(z2)
  BY <1>16, StepsApart
<1> HIDE DEF s1, s2, z1, z2
<1>18. s2 # <<>>
  BY <1>14, <1>16, <1>17, Elements
<1>19. /\ Rooted(s1) \in Names /\ Rooted(s2) \in Names /\ Rooted(z1) \in Names /\ Rooted(z2) \in Names
  BY <1>17, StepsAreNames, RootedOneMore
<1>20. u \in Names /\ v \in Names /\ x = u \o Rooted(s2) /\ y = v \o Rooted(z2)
  <2>1. o \in Names
    OBVIOUS
  <2>2. u \in Names /\ v \in Names
    BY <1>19, <2>1, JoinedNames
  <2>3. (o \o Rooted(s1)) \o Rooted(s2) = o \o (Rooted(s1) \o Rooted(s2))
    BY <1>19, <2>1, JoinedNames, ZenonT(60)
  <2>4. (o \o Rooted(z1)) \o Rooted(z2) = o \o (Rooted(z1) \o Rooted(z2))
    BY <1>19, <2>1, JoinedNames, ZenonT(60)
  <2> QED
    BY <1>17, <2>2, <2>3, <2>4 DEF x, y
<1>21. m = Len(u) + 1 /\ m = Len(v) + 1
  BY <1>14, <1>15 DEF s1, z1
<1> HIDE DEF u, v
<1>22. Parts(u \o Rooted(s2), u, Rooted(s2)) /\ Parts(v \o Rooted(z2), v, Rooted(z2))
  <2>1. u \in Names /\ v \in Names /\ Rooted(s2) \in Names /\ Rooted(z2) \in Names
    BY <1>19, <1>20
  <2> QED
    BY <2>1, ConcatParts
<1>23. Parts(x, u, Rooted(s2)) /\ Parts(y, v, Rooted(z2))
  BY <1>20, <1>22
<1>24. Len(u) = Len(v) /\ Len(u) \in Nat
  BY <1>20, <1>21, NameElements
<1>25. u = v
  <2>1. ASSUME NEW i \in 1 .. Len(u) PROVE u[i] = v[i]
    <3>1. x[i] = u[i] /\ y[i] = v[i]
      BY <1>23, <1>24 DEF Parts
    <3>2. i \in 1 .. e
      BY <1>8, <1>13, <1>21, <1>24
    <3> QED
      BY <1>8, <3>1, <3>2
  <2> QED
    BY <1>20, <1>24, <2>1, SameNames
<1>26. s1 = z1 /\ k = l
  <2>1. o \o Rooted(s1) = o \o Rooted(z1)
    BY <1>25 DEF u, v
  <2>2. Rooted(s1) = Rooted(z1)
    BY <1>19, <2>1, SameRest DEF Names
  <2>3. s1 = z1
    BY <1>17, <2>2, SamePaths
  <2> QED
    BY <1>17, <2>3
<1>27. From(x, m) = Rooted(s2)
  <2>1. From(u \o Rooted(s2), Len(u) + 1) = Rooted(s2)
    BY <1>19, <1>20, NameSidesOfConcat
  <2> QED
    BY <1>20, <1>21, <2>1
<1>28. From(x, m + 1) = Joined(s2)
  <2> DEFINE j == Joined(s2)
             w == u \o slash
  <2>1. j \in Names /\ Rooted(s2) = slash \o j
    BY <1>17, <1>18, JoinedBegins DEF Begins, Rooted, slash
  <2>2. Ended(w, u, "/")
    BY <1>20, OneToken DEF Token, slash
  <2> HIDE DEF j, w
  <2>3. w \in Names /\ Len(w) = m
    BY <1>21, <2>2 DEF Ended
  <2>4. u \o (slash \o j) = w \o j
    <3>1. u \in Names /\ slash \in Names /\ j \in Names
      BY <1>1, <1>20, <2>1
    <3> QED
      BY <3>1, JoinedNames DEF w
  <2>5. From(w \o j, Len(w) + 1) = j
    BY <2>1, <2>3, NameSidesOfConcat
  <2> QED
    BY <1>20, <2>1, <2>3, <2>4, <2>5 DEF j
<1>29. Slashes(c) = Slashes(o) + k + 1
  <2> DEFINE n == m - 1
             d == UpTo(c, n)
             f == From(c, n + 1)
             g == From(c, n + 2)
             one == <<c[n + 1]>>
  <2>1. n \in 0 .. Len(c) /\ n \in 0 .. Len(c) - 1 /\ n + 1 = m /\ n + 2 = m + 1 /\ n = Len(u) /\ m \in 0 .. Len(c)
    BY <1>8, <1>10, <1>13, <1>21, <1>24
  <2> HIDE DEF n
  <2>2. d \in Names /\ f \in Names /\ d \o f = c /\ Len(d) = n /\ \A i \in 1 .. n : d[i] = c[i]
    <3>1. d \o f = c
      BY <1>10, <2>1, JoinedSides DEF Names
    <3> QED
      BY <1>10, <2>1, <3>1, NameSides
  <2>3. f = one \o g
    BY <1>10, <2>1, FirstOfRest DEF Names
  <2>4. one = slash
    BY <1>13, <2>1 DEF slash
  <2>5. g \in Names /\ Slashless(g)
    <3> DEFINE t == From(c, m + 1)
    <3>1. t \in Names /\ Len(t) = Len(c) - m /\ \A i \in 1 .. Len(c) - m : t[i] = c[m + i]
      BY <1>10, <2>1, NameSides
    <3> HIDE DEF t
    <3>2. ASSUME NEW i \in 1 .. Len(t), t[i] = "/" PROVE FALSE
      <4> DEFINE q == m + i
      <4>1. q \in 1 .. e /\ q > m /\ i \in 1 .. Len(c) - m
        BY <1>8, <1>10, <1>13, <3>1
      <4>2. c[q] = "/"
        BY <3>1, <3>2, <4>1
      <4> HIDE DEF q
      <4>3. q \in Places(c, "/")
        BY <1>10, <4>1, <4>2 DEF Places
      <4> QED
        BY <1>8, <1>12, <1>13, <4>1, <4>3
    <3>3. t = g
      BY <2>1 DEF t
    <3> QED
      BY <3>1, <3>2, <3>3 DEF Slashless
  <2>6. d = u
    <3>1. ASSUME NEW i \in 1 .. Len(d) PROVE d[i] = u[i]
      <4>1. i \in 1 .. n /\ i \in 1 .. e /\ i \in 1 .. Len(u)
        BY <1>8, <1>13, <2>1, <2>2, SMTT(40)
      <4>2. d[i] = c[i] /\ c[i] = x[i] /\ x[i] = u[i]
        BY <1>10, <1>23, <2>2, <4>1 DEF Parts
      <4> QED
        BY <4>2
    <3>2. Len(d) = Len(u)
      BY <2>1, <2>2
    <3> HIDE DEF d
    <3> QED
      BY <1>20, <2>2, <3>1, <3>2, SameNames
  <2> HIDE DEF d, f, g, one
  <2>7. Slashes(u) = Slashes(o) + k
    <3>1. Slashes(Rooted(s1)) = k
      BY <1>17, SlashesOfPath
    <3>2. Slashes(o \o Rooted(s1)) = Slashes(o) + Slashes(Rooted(s1))
      BY <1>19, SlashesConcat
    <3> QED
      BY <3>1, <3>2 DEF u
  <2>8. Slashes(g) = 0
    BY <2>5, SlashesOfFew
  <2>9. slash \in Names /\ g \in Names /\ d \in Names /\ f \in Names
    BY <1>1, <2>2, <2>5
  <2>10. Slashes(slash \o g) = Slashes(slash) + Slashes(g) /\ Slashes(d \o f) = Slashes(d) + Slashes(f)
    BY <2>9, SlashesConcat
  <2>11. Slashes(f) = 1
    BY <1>1, <2>3, <2>4, <2>8, <2>10
  <2> QED
    BY <2>2, <2>6, <2>7, <2>10, <2>11
<1>30. /\ k \in Nat /\ k + 1 <= Len(s) /\ k + 1 <= Len(z) /\ s1 = UpTo(z, k)
  BY <1>14, <1>15, <1>16, <1>26 DEF z1
<1>31. e >= a
  BY <1>6, <1>8, <1>9
<1>32. Common(x, y) = c
  BY DEF Common, c, e
<1>33. Forks(o, s, z, k)
  <2>1. Len(o \o Rooted(UpTo(s, k))) + 1 = m
    BY <1>14
  <2> QED
    BY <1>10, <1>11, <1>12, <1>27, <1>28, <1>29, <1>30, <1>31, <1>32, <2>1 DEF Forks, x, y, e, s1, s2, a
<1> QED
  BY <1>33

\* The choice that HTRelative makes, from what the names have in common.
Relatively(x, y, common, result) ==
  LET slashes == Places(common, "/")
      levels  == Slashes(From(y, Len(common) + 1))
      m       == Max(slashes)
  IN  /\ Slashes(common) = 3 => result = From(x, m)
      /\ Slashes(common) > 3 =>
           result = FlattenSeq([i \in 1 .. levels |-> <<".", ".", "/">>]) \o From(x, m + 1)

\* The third of three slashes is the last one.
LEMMA ThirdSlash ==
  ASSUME NEW S, IsFiniteSet(S), Cardinality(S) = 3, S \in SUBSET Nat,
         NEW m \in S, \A i \in S : i <= m
  PROVE  (CHOOSE i \in S : Cardinality({j \in S : j <= i}) = 3) = m
<1> DEFINE third == CHOOSE i \in S : Cardinality({j \in S : j <= i}) = 3
<1>1. {j \in S : j <= m} = S
  OBVIOUS
<1>2. third \in S /\ Cardinality({j \in S : j <= third}) = 3
  BY <1>1
<1> HIDE DEF third
<1> DEFINE T == {j \in S : j <= third}
<1>3. T \in SUBSET S
  OBVIOUS
<1>4. Cardinality(S) = Cardinality(T)
  BY <1>2
<1> HIDE DEF T
<1>5. S = T
  BY <1>3, <1>4, FS_Subset
<1>6. m <= third
  BY <1>5 DEF T
<1>7. third <= m /\ third \in Nat /\ m \in Nat
  BY <1>2
<1>8. third = m
  BY <1>6, <1>7
<1> QED
  BY <1>8 DEF third

\* HTRelative makes that choice when the names have a colon and three slashes in
\* common, and the other one has no number sign.
LEMMA RelativeChoice ==
  ASSUME NEW x \in Names, NEW y \in Names, Without(y, "#"), NEW c, c = Common(x, y),
         Places(c, ":") # {}, NEW m \in Places(c, "/"), \A i \in Places(c, "/") : i <= m,
         Slashes(c) \in Nat, Slashes(c) >= 3
  PROVE  Relatively(x, y, c, HTRelative(x, y)) /\ Max(Places(c, "/")) = m
<1> DEFINE S == Places(c, "/")
           f == From(y, Len(c) + 1)
           third == CHOOSE i \in S : Cardinality({j \in S : j <= i}) = 3
           flat == FlattenSeq([i \in 1 .. Cardinality(Levels(f)) |-> <<".", ".", "/">>])
           colons == Places(c, ":")
           card == Cardinality(S)
           h == HTRelative(x, y)
           e == Extent(x, y)
<1>1. Matched(x, y, e)
  BY ExtentMatches
<1>2. e \in 0 .. Len(x) /\ e \in 0 .. Len(y)
  <2>1. Len(x) \in Nat /\ Len(y) \in Nat
    BY NameElements
  <2> HIDE DEF e
  <2> QED
    BY <1>1, <2>1 DEF Matched
<1>3. c = UpTo(x, e)
  BY DEF Common
<1>4. h = CASE colons = {} -> x
            [] colons # {} /\ card < 3 -> From(x, Max(colons) + 1)
            [] colons # {} /\ card = 3 -> From(x, third)
            [] OTHER -> flat \o From(x, Max(S) + 1)
  BY DEF HTRelative, Common
<1> HIDE DEF e
<1>5. c \in Names /\ Len(c) = e
  BY <1>2, <1>3, NameSides
<1>6. f \in Names /\ Len(f) = Len(y) - e /\ \A i \in 1 .. Len(y) - e : f[i] = y[e + i]
  BY <1>2, <1>5, NameSides
<1>7. card \in Nat /\ card >= 3 /\ card = Slashes(c) /\ colons # {}
  BY DEF Slashes
<1> HIDE DEF f
<1>8. Levels(f) = Places(f, "/")
  <2>1. Places(f, "#") = {}
    <3>1. Len(f) \in Nat /\ Len(y) \in Nat /\ DOMAIN f = 1 .. Len(f)
      BY <1>6, NameElements
    <3>2. ASSUME NEW i \in 1 .. Len(f) PROVE f[i] # "#"
      <4> DEFINE k == e + i
      <4>1. i \in 1 .. Len(y) - e /\ k \in 1 .. Len(y)
        BY <1>2, <1>6, <3>1
      <4> HIDE DEF k
      <4>2. f[i] = y[k] /\ y[k] # "#"
        BY <1>6, <4>1 DEF Without, k
      <4> QED
        BY <4>2
    <3> QED
      BY <3>1, <3>2 DEF Places
  <2>2. FirstOf(Places(f, "#"), Len(f) + 1) = Len(f) + 1
    BY <2>1, NoPlaces
  <2>3. DOMAIN f = 1 .. Len(f) /\ Len(f) \in Nat
    BY <1>6, NameElements
  <2>4. \A i \in Places(f, "/") : i < Len(f) + 1
    BY <2>3 DEF Places
  <2> QED
    BY <2>2, <2>4 DEF Levels
<1>9. S \in SUBSET Nat /\ IsFiniteSet(S)
  <2>1. DOMAIN c = 1 .. Len(c) /\ Len(c) \in Nat
    BY <1>5, NameElements
  <2>2. S \subseteq 1 .. Len(c)
    BY <2>1 DEF Places
  <2>3. IsFiniteSet(1 .. Len(c))
    BY <2>1, FS_Interval
  <2> QED
    BY <2>2, <2>3, FS_Subset
<1>10. Max(S) = m
  BY <1>9, Extremes
<1>11. ASSUME card = 3 PROVE h = From(x, m)
  <2>1. third = m
    <3> HIDE DEF S
    <3> QED
      BY <1>9, <1>11, ThirdSlash DEF S
  <2> HIDE DEF h, third, flat, card, colons, S
  <2>2. h = From(x, third)
    BY <1>4, <1>7, <1>11
  <2> QED
    BY <2>1, <2>2
<1>12. ASSUME card > 3 PROVE h = flat \o From(x, m + 1)
  <2> HIDE DEF h, third, flat, card, colons, S
  <2>1. h = flat \o From(x, Max(S) + 1)
    BY <1>4, <1>7, <1>12
  <2> QED
    BY <1>10, <2>1
<1>13. flat = FlattenSeq([i \in 1 .. Slashes(f) |-> <<".", ".", "/">>])
  BY <1>8 DEF Slashes
<1> HIDE DEF flat, h
<1>14. /\ Slashes(c) = 3 => h = From(x, Max(S))
       /\ Slashes(c) > 3 => h = FlattenSeq([i \in 1 .. Slashes(f) |-> <<".", ".", "/">>])
                                  \o From(x, Max(S) + 1)
  BY <1>7, <1>10, <1>11, <1>12, <1>13
<1>15. Relatively(x, y, c, h)
  BY <1>14 DEF Relatively, f
<1> QED
  BY <1>10, <1>15 DEF h

\* The text of a place has no number sign.
LEMMA PlaceWithoutMark ==
  ASSUME NEW p, IsPlace(p)
  PROVE  Without(Text(p), "#")
<1> DEFINE a == Origin(p.access, p.host)
           r == Rooted(p.steps)
<1>1. /\ IsAddress(p) /\ IsAccess(p.access) /\ p.access # None /\ IsHost(p.host)
      /\ p.steps # <<>> /\ p.rooted
  BY PlaceIsAddress
<1>2. Text(p) = a \o r
  BY PlaceText
<1>3. r \in Names /\ Without(r, "#")
  <2>1. PathText(p.rooted, p.steps) \in Names /\ Without(PathText(p.rooted, p.steps), "#")
    BY <1>1, PathNames
  <2> QED
    BY <1>1, <2>1 DEF PathText, Rooted
<1>4. Begun(a, p.access, p.host) /\ Without(p.host, "#")
  BY <1>1, OriginBegins, HostNames
<1>5. p.access[1] # "#"
  BY PlaceBegins
<1> HIDE DEF a, r
<1>6. a \in Names /\ Without(a, "#")
  <2>1. /\ a \in Names /\ Len(a) = Len(p.host) + 4 /\ Len(p.host) \in Nat
        /\ a[1] = p.access[1] /\ a[2] = ":" /\ a[3] = "/" /\ a[4] = "/"
        /\ \A i \in 1 .. Len(p.host) : a[4 + i] = p.host[i]
    BY <1>4 DEF Begun
  <2>2. ASSUME NEW i \in 1 .. Len(a) PROVE a[i] # "#"
    <3>1. i = 1 \/ i = 2 \/ i = 3 \/ i = 4 \/ i - 4 \in 1 .. Len(p.host)
      BY <2>1
    <3>2. CASE i - 4 \in 1 .. Len(p.host)
      <4> DEFINE k == i - 4
      <4>1. k \in 1 .. Len(p.host) /\ 4 + k = i
        BY <3>2
      <4> HIDE DEF k
      <4>2. a[i] = p.host[k] /\ p.host[k] # "#"
        BY <1>4, <2>1, <4>1 DEF Without
      <4> QED
        BY <4>2
    <3> QED
      BY <1>5, <2>1, <3>1, <3>2
  <2> QED
    BY <2>1, <2>2 DEF Without
<1>7. Without(a \o r, "#")
  BY <1>3, <1>6, WithoutConcat
<1> QED
  BY <1>2, <1>7

\* On the same host the path is left out as far as it is the same: what stays is
\* the path from the root, or the steps behind so many up.
LEMMA RelativePath ==
  ASSUME NEW p, IsPlace(p), NEW q, IsPlace(q), p.access = q.access, p.host = q.host,
         NEW k, Forks(Origin(p.access, p.host), p.steps, q.steps, k)
  PROVE  /\ k = 0 => HTRelative(Text(p), Text(q)) = Rooted(p.steps)
         /\ k > 0 => HTRelative(Text(p), Text(q))
                       = Joined(Ups(Len(q.steps) - 1 - k) \o From(p.steps, k + 1))
<1> DEFINE o == Origin(p.access, p.host)
           s == p.steps
           z == q.steps
           x == o \o Rooted(s)
           y == o \o Rooted(z)
           e == Extent(x, y)
           c == Common(x, y)
           m == Len(o \o Rooted(UpTo(s, k))) + 1
           r == From(s, k + 1)
           h == HTRelative(x, y)
           n == Len(z) - 1 - k
<1>1. /\ IsAccess(p.access) /\ p.access # None /\ IsHost(p.host)
      /\ s \in Seq(StepName) /\ s # <<>> /\ z \in Seq(StepName) /\ z # <<>>
  BY PlaceIsAddress, StepsAreNames
<1>2. Text(p) = x /\ Text(q) = y
  BY PlaceText
<1>3. Begun(o, p.access, p.host)
  BY <1>1, OriginBegins
<1>4. Rooted(s) \in Names /\ Rooted(z) \in Names
  BY <1>1, StepsAreNames, RootedOneMore
<1> HIDE DEF o
<1>5. o \in Names /\ Len(o) \in Nat /\ Len(o) >= 4 /\ o[2] = ":" /\ Slashes(o) = 2
  BY <1>3 DEF Begun
<1>6. x \in Names /\ y \in Names
  <2>1. o \in Names
    BY <1>5
  <2> QED
    BY <1>4, <2>1, JoinedNames
<1>7. Without(y, "#")
  BY <1>2, PlaceWithoutMark
<1>8. /\ k \in Nat /\ k + 1 <= Len(s) /\ k + 1 <= Len(z) /\ UpTo(s, k) = UpTo(z, k)
      /\ m \in Places(c, "/") /\ \A i \in Places(c, "/") : i <= m
      /\ e \in 0 .. Len(x) /\ e \in 0 .. Len(y) /\ e >= Len(o)
      /\ UpTo(y, e) = c
      /\ Slashes(c) = Slashes(o) + k + 1
      /\ From(x, m) = Rooted(r)
      /\ From(x, m + 1) = Joined(r)
  BY DEF Forks, o
<1>9. x[2] = ":"
  <2>1. Parts(o \o Rooted(s), o, Rooted(s))
    <3>1. o \in Names
      BY <1>5
    <3> QED
      BY <1>4, <3>1, ConcatParts
  <2>2. \A i \in 1 .. Len(o) : x[i] = o[i]
    BY <2>1 DEF Parts
  <2>3. 2 \in 1 .. Len(o)
    BY <1>5
  <2> HIDE DEF x
  <2> QED
    BY <1>5, <2>2, <2>3
<1>10. Slashes(y) = 2 + Len(z)
  <2>1. Slashes(Rooted(z)) = Len(z)
    BY <1>1, SlashesOfPath
  <2>2. o \in Names
    BY <1>5
  <2>3. Slashes(o \o Rooted(z)) = Slashes(o) + Slashes(Rooted(z))
    BY <1>4, <2>2, SlashesConcat
  <2> QED
    BY <1>5, <2>1, <2>3
<1> HIDE DEF x, y
<1>11. c = UpTo(x, e)
  BY DEF Common
<1> HIDE DEF e, c, m
<1>12. c \in Names /\ Len(c) = e /\ \A i \in 1 .. e : c[i] = x[i]
  BY <1>6, <1>8, <1>11, NameSides, SMTT(40)
<1>13. Places(c, ":") # {}
  <2>1. 2 \in 1 .. e /\ e \in Nat
    <3>1. Len(x) \in Nat
      BY <1>6, NameElements
    <3> QED
      BY <1>5, <1>8, <3>1
  <2>2. 2 \in DOMAIN c /\ c[2] = ":"
    BY <1>9, <1>12, <2>1, NameElements
  <2> QED
    BY <2>2 DEF Places
<1>14. Slashes(c) \in Nat /\ Slashes(c) >= 3 /\ Slashes(c) = k + 3
  BY <1>5, <1>8
<1>15. Relatively(x, y, c, h) /\ Max(Places(c, "/")) = m
  BY <1>6, <1>7, <1>8, <1>13, <1>14, RelativeChoice DEF c
<1> DEFINE f == From(y, Len(c) + 1)
<1> HIDE DEF h
<1>16. /\ Slashes(c) = 3 => h = From(x, m)
       /\ Slashes(c) > 3 => h = FlattenSeq([i \in 1 .. Slashes(f) |-> <<".", ".", "/">>])
                                  \o From(x, m + 1)
  BY <1>15 DEF Relatively
<1>17. Slashes(f) = n /\ n \in Nat
  <2>1. f \in Names /\ c \o f = y
    <3>1. UpTo(y, e) \o From(y, e + 1) = y
      BY <1>6, <1>8, JoinedSides DEF Names
    <3>2. From(y, e + 1) \in Names
      BY <1>6, <1>8, NameSides
    <3> QED
      BY <1>8, <1>12, <3>1, <3>2
  <2> HIDE DEF f
  <2>2. c \in Names
    BY <1>12
  <2>3. Slashes(c \o f) = Slashes(c) + Slashes(f) /\ Slashes(f) \in Nat
    BY <2>1, <2>2, SlashesConcat
  <2>4. 2 + Len(z) = Slashes(c) + Slashes(f)
    BY <1>10, <2>1, <2>3
  <2>5. Len(z) \in Nat
    BY <1>1, Elements
  <2> QED
    BY <1>8, <1>14, <2>3, <2>4, <2>5, SMTT(40)
<1>18. ASSUME k = 0 PROVE h = Rooted(s)
  <2>1. h = Rooted(r)
    BY <1>8, <1>14, <1>16, <1>18
  <2>2. r = s
    <3> DEFINE t == UpTo(s, k)
    <3>1. k \in 0 .. Len(s)
      BY <1>1, <1>8, Elements
    <3>2. t \in Seq(StepName) /\ Len(t) = k /\ r \in Seq(StepName) /\ t \o r = s
      BY <1>1, <3>1, StepsApart
    <3> HIDE DEF t, r
    <3>3. t = <<>>
      BY <1>18, <3>2, Elements
    <3>4. <<>> \o r = r
      BY <3>2, Empty
    <3> QED
      BY <3>2, <3>3, <3>4
  <2> QED
    BY <2>1, <2>2
<1>19. ASSUME k > 0 PROVE h = Joined(Ups(n) \o r)
  <2>1. h = FlattenSeq([i \in 1 .. Slashes(f) |-> <<".", ".", "/">>]) \o Joined(r)
    <3>1. Slashes(c) > 3
      BY <1>8, <1>14, <1>19
    <3> QED
      BY <1>8, <1>16, <3>1
  <2>2. r \in Seq(StepName) /\ r # <<>>
    <3>1. k \in 0 .. Len(s) /\ Len(s) \in Nat
      BY <1>1, <1>8, Elements
    <3>2. r \in Seq(StepName) /\ Len(r) = Len(s) - k
      BY <1>1, <3>1, StepsApart
    <3> HIDE DEF r
    <3>3. Len(r) # 0
      BY <1>8, <3>1, <3>2
    <3> QED
      BY <3>2, <3>3, Elements
  <2> HIDE DEF f, n, r
  <2>3. FlattenSeq([i \in 1 .. n |-> <<".", ".", "/">>]) \o Joined(r) = Joined(Ups(n) \o r)
    BY <1>17, <2>2, UpsJoined
  <2>4. Slashes(f) = n
    BY <1>17
  <2> QED
    BY <2>1, <2>3, <2>4
<1>20. HTRelative(Text(p), Text(q)) = h
  BY <1>2 DEF h
<1> QED
  BY <1>18, <1>19, <1>20

\* A reference with only steps.
OnlySteps(steps) ==
  [access |-> None, host |-> None, rooted |-> FALSE, steps |-> steps, anchor |-> None]

\* Its text is that of its steps, and it is completed by the steps of here.
LEMMA OnlyStepsText ==
  ASSUME IsPlace(place), NEW steps \in Seq(StepName), steps # <<>> => steps[1] # <<>>
  PROVE  LET ref == OnlySteps(steps)
         IN  /\ Fits(ref) /\ ref.anchor = None /\ Text(ref) = Joined(steps)
             /\ Meant(ref).access = place.access /\ Meant(ref).host = place.host
             /\ Completed(ref).steps
                  = IF steps = <<>> THEN place.steps ELSE Front(place.steps) \o steps
<1> DEFINE ref == OnlySteps(steps)
<1>1. /\ ref.access = None /\ ref.host = None /\ ref.rooted = FALSE /\ ref.steps = steps
      /\ ref.anchor = None
  BY DEF OnlySteps
<1> HIDE DEF ref
<1>2. IsAddress(ref)
  BY <1>1 DEF IsAddress, IsAccess
<1>3. Fits(ref)
  BY <1>1, <1>2 DEF Fits
<1>4. Text(ref) = Joined(steps)
  <2>1. Text(ref) = (AccessText(ref.access) \o (HostText(ref.host) \o PathText(ref.rooted, ref.steps)))
                      \o AnchorText(ref.anchor)
    BY <1>2, TextParts
  <2>2. AccessText(ref.access) = <<>> /\ HostText(ref.host) = <<>> /\ AnchorText(ref.anchor) = <<>>
    BY <1>1 DEF AccessText, HostText, AnchorText
  <2>3. PathText(ref.rooted, ref.steps) = Joined(steps)
    BY <1>1 DEF PathText
  <2>4. Joined(steps) \in Names
    BY JoinedBegins DEF Begins
  <2> QED
    BY <2>1, <2>2, <2>3, <2>4, JoinedNames
<1>5. Meant(ref).access = place.access /\ Meant(ref).host = place.host
  BY <1>1 DEF Meant
<1>6. Completed(ref).steps = IF steps = <<>> THEN place.steps ELSE Front(place.steps) \o steps
  BY <1>1 DEF Completed, Start
<1> QED
  BY <1>1, <1>3, <1>4, <1>5, <1>6 DEF ref

\* The steps behind so many up lead to a place.
LEMMA StepsLeadThere ==
  ASSUME IsPlace(place), here = Text(place), NEW p, IsPlace(p),
         p.access = place.access, p.host = place.host, ~OwnDirectory(p),
         NEW k \in Nat, k + 1 <= Len(p.steps), k + 1 <= Len(place.steps),
         UpTo(p.steps, k) = UpTo(place.steps, k),
         NEW n, n = Len(place.steps) - 1 - k
  PROVE  HTSimplify(Followed(Joined(Ups(n) \o From(p.steps, k + 1)))) = Text(p)
<1> DEFINE s == p.steps
           z == place.steps
           from == Front(z)
           r == From(s, k + 1)
           steps == Ups(n) \o r
           o == Origin(p.access, p.host)
           ref == OnlySteps(steps)
           none == OnlySteps(<<>>)
<1>1. /\ IsAccess(p.access) /\ p.access # None /\ IsHost(p.host)
      /\ s \in Seq(Quiet) /\ s # <<>> /\ z \in Seq(Quiet) /\ z # <<>>
      /\ from \in Seq(Quiet) /\ Last(z) \in Quiet /\ z = Append(from, Last(z))
  BY PlaceIsAddress
<1>2. Len(s) \in Nat /\ Len(z) \in Nat /\ Len(from) \in Nat /\ Len(z) = Len(from) + 1
  <2>1. Len(Append(from, Last(z))) = Len(from) + 1
    BY <1>1, OneElement
  <2> QED
    BY <1>1, <2>1, Elements
<1>3. k \in 0 .. Len(s) /\ k \in 0 .. Len(from) /\ k \in 0 .. Len(z) /\ n \in Nat /\ n <= Len(from)
      /\ Len(from) - n = k
  BY <1>2
<1>4. UpTo(from, k) = UpTo(s, k)
  <2> DEFINE last == Last(z)
             more == Append(from, last)
             u == UpTo(from, k)
             v == UpTo(more, k)
  <2>1. /\ u \in Seq(Quiet) /\ Len(u) = k /\ \A i \in 1 .. k : u[i] = from[i]
    BY <1>1, <1>3, Sides
  <2>2. more \in Seq(Quiet) /\ Len(more) = Len(from) + 1 /\ \A i \in 1 .. Len(from) : more[i] = from[i]
    BY <1>1, OneElement
  <2> HIDE DEF more
  <2>3. k \in 0 .. Len(more)
    BY <1>2, <1>3, <2>2
  <2>4. /\ v \in Seq(Quiet) /\ Len(v) = k /\ \A i \in 1 .. k : v[i] = more[i]
    BY <2>2, <2>3, Sides
  <2> HIDE DEF u, v
  <2>5. ASSUME NEW i \in 1 .. Len(u) PROVE u[i] = v[i]
    <3>1. i \in 1 .. k /\ i \in 1 .. Len(from)
      BY <1>2, <1>3, <2>1
    <3> QED
      BY <2>1, <2>2, <2>4, <3>1
  <2>6. u = v
    BY <2>1, <2>4, <2>5, SameSequence
  <2> QED
    BY <1>1, <2>6 DEF u, v, more
<1>5. /\ UpTo(s, k) \in Seq(Quiet) /\ r \in Seq(Quiet) /\ Len(r) = Len(s) - k
      /\ UpTo(s, k) \o r = s /\ \A i \in 1 .. Len(s) - k : r[i] = s[k + i]
  BY <1>1, <1>3, Sides, JoinedSides, ZenonT(60)
<1> HIDE DEF r
<1>6. r # <<>> /\ Len(r) >= 1 /\ Len(r) \in Nat
  BY <1>2, <1>5, Elements
<1>7. /\ Ups(n) \in Seq(StepName) /\ Len(Ups(n)) = n
      /\ Walkable(from, steps) /\ Walk(from, steps) = UpTo(from, Len(from) - n) \o r
  BY <1>1, <1>3, <1>5, <1>6, WalkUps
<1>8. Walk(from, steps) = s
  BY <1>3, <1>4, <1>5, <1>7
<1>9. steps \in Seq(StepName) /\ steps # <<>> /\ (n = 0 => steps = r) /\ (n > 0 => steps[1] = Up)
  <2> DEFINE ups == Ups(n)
  <2>1. ups \in Seq(StepName) /\ r \in Seq(StepName)
    BY <1>5, <1>7, StepsAreNames
  <2>2. Len(ups) = n /\ \A i \in 1 .. n : ups[i] = Up
    BY <1>7 DEF Ups
  <2> HIDE DEF ups
  <2>3. /\ ups \o r \in Seq(StepName) /\ Len(ups \o r) = Len(ups) + Len(r)
        /\ \A i \in 1 .. Len(ups) : (ups \o r)[i] = ups[i]
    BY <2>1, Concat
  <2>4. ASSUME n = 0 PROVE ups \o r = r
    <3>1. ups = <<>>
      BY <2>1, <2>2, <2>4, Elements
    <3> QED
      BY <2>1, <3>1, Empty
  <2> DEFINE t == ups \o r
  <2>5. t \in Seq(StepName) /\ t # <<>> /\ (n = 0 => t = r) /\ (n > 0 => t[1] = Up)
    <3>1. Len(t) # 0 /\ (n > 0 => 1 \in 1 .. n)
      BY <1>3, <1>6, <2>2, <2>3, SMTT(40)
    <3> QED
      BY <2>2, <2>3, <2>4, <3>1, Elements
  <2> QED
    BY <2>5 DEF ups
<1>10. o \in Names /\ Clear(o) /\ Len(o) >= 2
  BY <1>1, OriginClear
<1>11. Text(p) = o \o Rooted(s) /\ HTSimplify(Text(p)) = Text(p)
  BY PlaceText
<1>12. CASE steps[1] # <<>>
  <2>1. /\ Fits(ref) /\ ref.anchor = None /\ Text(ref) = Joined(steps)
        /\ Meant(ref).access = p.access /\ Meant(ref).host = p.host
        /\ Completed(ref).steps = from \o steps
    BY <1>9, <1>12, OnlyStepsText
  <2>2. HTSimplify(o \o Rooted(from \o steps)) = Text(p)
    <3> HIDE DEF steps, o, from, s
    <3>1. from \in Seq(Names) /\ steps \in Seq(Names)
      BY <1>1, <1>9, StepsAreNames
    <3>2. Rooted(from) \in Names /\ Rooted(steps) \in Names /\ o \in Names
      BY <1>10, <3>1, RootedOneMore
    <3>3. Rooted(from \o steps) = Rooted(from) \o Rooted(steps)
      BY <3>1, RootedConcat
    <3>4. (o \o Rooted(from)) \o Rooted(steps) = o \o (Rooted(from) \o Rooted(steps))
      BY <3>2, JoinedNames
    <3>5. HTSimplify((o \o Rooted(from)) \o Rooted(steps)) = o \o Rooted(Walk(from, steps))
      BY <1>7, <1>10, SimplifyWalks
    <3> QED
      BY <1>8, <1>11, <3>3, <3>4, <3>5
  <2> HIDE DEF ref, steps
  <2>3. HTSimplify(Origin(p.access, p.host) \o Rooted(Completed(ref).steps)) = Text(p)
    BY <2>1, <2>2
  <2>4. HTSimplify(Followed(Text(ref))) = Text(p)
    BY <2>1, <2>3, LeadsThere
  <2> QED
    BY <2>1, <2>4 DEF steps, r
<1>13. CASE steps[1] = <<>>
  <2>1. n = 0 /\ steps = r
    <3>1. Up # <<>>
      <4>1. Len(Up) >= 2
        BY DEF Up
      <4> QED
        BY <4>1
    <3> HIDE DEF steps
    <3> QED
      BY <1>3, <1>9, <1>13, <3>1
  <2>2. s[k + 1] = <<>> /\ k + 1 \in DOMAIN s
    <3>1. 1 \in 1 .. Len(s) - k /\ k + 1 \in 1 .. Len(s)
      BY <1>2, <1>5, <1>6
    <3>2. r[1] = <<>>
      BY <1>13, <2>1
    <3> QED
      BY <1>1, <1>5, <3>1, <3>2, Elements
  <2>3. k + 1 = Len(s)
    BY <2>2 DEF IsPlace
  <2>4. s = Append(from, <<>>)
    <3>1. from = UpTo(s, k)
      <4>1. k = Len(from)
        BY <1>2, <1>3, <2>1
      <4>2. UpTo(from, Len(from)) = from
        <5>1. <<>> \in Seq(Quiet) /\ from \o <<>> = from
          BY <1>1, Empty
        <5>2. UpTo(from \o <<>>, Len(from)) = from
          BY <1>1, <5>1, SidesOfConcat
        <5> QED
          BY <5>1, <5>2
      <4> QED
        BY <1>4, <4>1, <4>2
    <3>2. s = Append(Front(s), Last(s)) /\ Front(s) = UpTo(s, Len(s) - 1) /\ Last(s) = s[Len(s)]
      BY <1>1, FrontOf
    <3>3. Len(s) - 1 = k
      BY <1>2, <2>3
    <3> QED
      BY <2>2, <2>3, <3>1, <3>2, <3>3
  <2>5. p = [place EXCEPT !.steps = Append(from, <<>>)]
    <3>1. p = [access |-> p.access, host |-> p.host, rooted |-> p.rooted, steps |-> p.steps,
               anchor |-> p.anchor]
      BY DEF IsPlace
    <3>2. place = [access |-> place.access, host |-> place.host, rooted |-> place.rooted,
                   steps |-> place.steps, anchor |-> place.anchor]
      BY DEF IsPlace
    <3>3. p.rooted = place.rooted /\ p.anchor = place.anchor
      BY DEF IsPlace
    <3> QED
      BY <2>4, <3>1, <3>2, <3>3
  <2>6. p = place
    BY <2>5 DEF OwnDirectory
  <2>7. Joined(steps) = <<>>
    <3>1. <<>> \in Names /\ <<>> \in Seq(Names)
      BY JoinedNames, Empty
    <3>2. Joined(Append(<<>>, <<>>)) = <<>>
      BY <3>1, JoinedOneMore
    <3>3. r = Append(<<>>, <<>>)
      <4> DEFINE e == <<>>
                 one == Append(<<>>, e)
      <4>1. e \in Quiet
        <5>1. s[k + 1] \in Quiet
          BY <1>1, <2>2, Elements
        <5> QED
          BY <2>2, <5>1
      <4>2. one = <<e>> /\ <<e>> \in Seq(Quiet) /\ Len(<<e>>) = 1 /\ <<e>>[1] = e
        BY <4>1, OneElement
      <4> DEFINE single == <<e>>
      <4>3. single \in Seq(Quiet) /\ Len(single) = Len(r) /\ one = single
        BY <1>2, <1>5, <2>3, <4>2
      <4>4. ASSUME NEW i \in 1 .. Len(r) PROVE r[i] = single[i]
        <5>1. i = 1
          BY <1>2, <1>5, <2>3
        <5> QED
          BY <1>13, <2>1, <4>2, <5>1
      <4> HIDE DEF single
      <4>5. r = single
        BY <1>5, <4>3, <4>4, SameSequence
      <4> QED
        BY <4>3, <4>5
    <3> QED
      BY <2>1, <3>2, <3>3
  <2>8. /\ Fits(none) /\ none.anchor = None /\ Text(none) = Joined(<<>>)
        /\ Meant(none).access = p.access /\ Meant(none).host = p.host
        /\ Completed(none).steps = s
    <3>1. <<>> \in Seq(StepName)
      BY Empty
    <3> QED
      BY <2>6, <3>1, OnlyStepsText
  <2>9. Joined(<<>>) = <<>>
    <3>1. Begins(Joined(<<>>), <<>>)
      BY JoinedBegins, Empty
    <3> QED
      BY <3>1 DEF Begins
  <2>10. HTSimplify(Origin(p.access, p.host) \o Rooted(Completed(none).steps)) = Text(p)
    BY <1>11, <2>8
  <2> HIDE DEF none
  <2>11. HTSimplify(Followed(Text(none))) = Text(p)
    BY <2>8, <2>10, LeadsThere
  <2> HIDE DEF steps
  <2>12. HTSimplify(Followed(Joined(steps))) = Text(p)
    BY <2>7, <2>8, <2>9, <2>11
  <2> QED
    BY <2>12 DEF steps, r
<1> QED
  BY <1>12, <1>13

\* What is left of an address without its access, and without its host, is the
\* text of such a reference.
LEMMA FromRootText ==
  ASSUME NEW p, IsPlace(p)
  PROVE  /\ IsAddress(FromRoot(p.host, p.steps)) /\ IsAddress(FromRoot(None, p.steps))
         /\ Text(FromRoot(p.host, p.steps)) = From(Text(p), 3)
         /\ Text(FromRoot(None, p.steps)) = Rooted(p.steps)
<1> DEFINE a == AccessText(p.access)
           h == HostText(p.host)
           r == Rooted(p.steps)
           x == FromRoot(p.host, p.steps)
           y == FromRoot(None, p.steps)
<1>1. /\ IsAddress(p) /\ IsAccess(p.access) /\ p.access # None /\ IsHost(p.host)
      /\ p.steps # <<>> /\ p.rooted
  BY PlaceIsAddress
<1>2. /\ x.access = None /\ x.host = p.host /\ x.rooted = TRUE /\ x.steps = p.steps /\ x.anchor = None
      /\ y.access = None /\ y.host = None /\ y.rooted = TRUE /\ y.steps = p.steps /\ y.anchor = None
  BY DEF FromRoot
<1> HIDE DEF x, y
<1>3. IsAddress(x) /\ IsAddress(y)
  BY <1>1, <1>2 DEF IsAddress, IsAccess
<1>4. /\ Text(x) = ((AccessText(x.access) \o HostText(x.host)) \o r) \o AnchorText(x.anchor)
      /\ Text(y) = ((AccessText(y.access) \o HostText(y.host)) \o r) \o AnchorText(y.anchor)
  BY <1>2, <1>3, TextParts
<1>5. /\ AccessText(x.access) = <<>> /\ HostText(x.host) = h /\ AnchorText(x.anchor) = <<>>
      /\ AccessText(y.access) = <<>> /\ HostText(y.host) = <<>> /\ AnchorText(y.anchor) = <<>>
  BY <1>2 DEF AccessText, HostText, AnchorText
<1>6. a \in Names /\ Len(a) >= 2 /\ Len(a) <= 2
  BY <1>1, AccessNames
<1>7. h \in Names
  BY <1>1, TextNames
<1>8. r \in Names
  <2>1. Joined(p.steps) \in Names
    BY <1>1, PathNames
  <2>2. r = <<"/">> \o Joined(p.steps)
    BY <1>1 DEF Rooted
  <2> QED
    BY <2>1, <2>2, Slash, JoinedNames
<1>9. Text(p) = (a \o h) \o r
  BY PlaceText DEF Origin
<1> HIDE DEF a, h, r
<1>10. Text(y) = r
  BY <1>4, <1>5, <1>8, JoinedNames
<1>11. h \o r \in Names /\ (a \o h) \o r = a \o (h \o r)
  <2>1. a \in Names
    BY <1>6
  <2> QED
    BY <1>7, <1>8, <2>1, JoinedNames
<1>12. Text(x) = h \o r
  BY <1>4, <1>5, <1>7, <1>11, JoinedNames
<1> DEFINE t == h \o r
<1>13. t \in Names /\ Text(p) = a \o t
  BY <1>9, <1>11
<1> HIDE DEF t
<1>14. From(a \o t, Len(a) + 1) = t
  <2>1. a \in Names
    BY <1>6
  <2> QED
    BY <1>13, <2>1, NameSidesOfConcat
<1>15. Len(a) + 1 = 3
  BY <1>6, NameElements
<1>16. From(Text(p), 3) = t
  BY <1>13, <1>14, <1>15
<1> QED
  BY <1>3, <1>10, <1>12, <1>16 DEF x, y, r, t

\* What HTRelative makes of the address of a place leads there.
LEMMA RelativesLeadThere ==
  ASSUME HereInv
  PROVE  RelativeLeadsThere
<1>1. IsPlace(place) /\ here = Text(place)
  BY DEF HereInv
<1> SUFFICES ASSUME NEW p \in Place, ~OwnDirectory(p), ~OtherPort(p)
             PROVE  HTSimplify(Followed(HTRelative(Text(p), here))) = Text(p)
  BY DEF RelativeLeadsThere
<1>2. IsPlace(p)
  BY DocumentsAssumption
<1>3. CASE p.access # place.access
  <2>1. HTRelative(Text(p), here) = Text(p)
    BY <1>1, <1>2, <1>3, RelativeAccess
  <2>2. IsAddress(p) /\ p.rooted /\ p.anchor = None
    BY <1>2, PlaceIsAddress
  <2>3. HTSimplify(Followed(Text(p))) = Text(p)
    BY <1>1, <1>2, <2>2, RootLeadsThere
  <2> QED
    BY <2>1, <2>3
<1>4. CASE p.access = place.access /\ p.host # place.host
  <2> DEFINE ref == FromRoot(p.host, p.steps)
  <2>1. HTRelative(Text(p), here) = From(Text(p), 3)
    BY <1>1, <1>2, <1>4, RelativeHost
  <2>2. IsAddress(ref) /\ Text(ref) = From(Text(p), 3)
    BY <1>2, FromRootText
  <2>3. /\ ref.rooted /\ ref.steps = p.steps /\ ref.anchor = None /\ ref.access = None
        /\ ref.host = p.host
    BY DEF FromRoot
  <2> HIDE DEF ref
  <2>4. HTSimplify(Followed(Text(ref))) = Text(p)
    BY <1>1, <1>2, <1>4, <2>2, <2>3, RootLeadsThere
  <2> QED
    BY <2>1, <2>2, <2>4
<1>5. CASE p.access = place.access /\ p.host = place.host
  <2> DEFINE o == Origin(p.access, p.host)
  <2>1. /\ p.steps \in Seq(StepName) /\ p.steps # <<>>
        /\ place.steps \in Seq(StepName) /\ place.steps # <<>>
    BY <1>1, <1>2, PlaceIsAddress, StepsAreNames
  <2>2. o \in Names
    BY <1>2, PlaceIsAddress, OriginClear
  <2>3. PICK k : Forks(o, p.steps, place.steps, k)
    <3> HIDE DEF o
    <3> QED
      BY <2>1, <2>2, PathsFork
  <2>4. /\ k \in Nat /\ k + 1 <= Len(p.steps) /\ k + 1 <= Len(place.steps)
        /\ UpTo(p.steps, k) = UpTo(place.steps, k)
    BY <2>3 DEF Forks
  <2>5. /\ k = 0 => HTRelative(Text(p), Text(place)) = Rooted(p.steps)
        /\ k > 0 => HTRelative(Text(p), Text(place))
                      = Joined(Ups(Len(place.steps) - 1 - k) \o From(p.steps, k + 1))
    BY <1>1, <1>2, <1>5, <2>3, RelativePath
  <2>6. CASE k = 0
    <3> DEFINE ref == FromRoot(None, p.steps)
    <3>1. IsAddress(ref) /\ Text(ref) = Rooted(p.steps)
      BY <1>2, FromRootText
    <3>2. /\ ref.rooted /\ ref.steps = p.steps /\ ref.anchor = None /\ ref.access = None
          /\ ref.host = None
      BY DEF FromRoot
    <3> HIDE DEF ref
    <3>3. HTSimplify(Followed(Text(ref))) = Text(p)
      BY <1>1, <1>2, <1>5, <3>1, <3>2, RootLeadsThere
    <3> QED
      BY <1>1, <2>5, <2>6, <3>1, <3>3
  <2>7. CASE k > 0
    <3> DEFINE n == Len(place.steps) - 1 - k
    <3>1. HTSimplify(Followed(Joined(Ups(n) \o From(p.steps, k + 1)))) = Text(p)
      BY <1>1, <1>2, <1>5, <2>4, StepsLeadThere
    <3> QED
      BY <1>1, <2>5, <2>7, <3>1
  <2> QED
    BY <2>4, <2>6, <2>7
<1> QED
  BY <1>3, <1>4, <1>5

\* What HTRelative makes of an address, as the writer puts it in a saved text,
\* leads to it from here for any words, hosts, and number of steps (but to the
\* directory of here and to another port of its host, where it does not).
THEOREM RelativesAreFollowed == Spec => []RelativeLeadsThere
<1>1. HereInv => RelativeLeadsThere
  BY RelativesLeadThere
<1> QED
  BY <1>1, Invariance, PTL
=============================================================================
