--------------------------- MODULE SocksUri_proofs ---------------------------
(***************************************************************************)
(* Proofs about SocksUri: a proxy setting of the usual form, of any        *)
(* length, is read as it is written.  A well formed text is laid out       *)
(* between a few places (Laid); the parser is followed from place to       *)
(* place, with what it knows at each, by induction over the symbols        *)
(* between two of them.                                                    *)
(***************************************************************************)
EXTENDS SocksUri, TLAPS, FiniteSetTheorems, SequenceTheorems

---------------------------------------------------------------------------
(* Induction over numbers, and the turns of the parser.                   *)

\* The order of the numbers, as a relation.
Less == {q \in Nat \X Nat : q[1] < q[2]}

\* The natural numbers are well founded.
LEMMA LessWF == IsWellFoundedOn(Less, Nat)
  BY NatLessThanWellFounded DEF OpToRel, Less

\* Every non-empty set of naturals has a least element.
LEMMA LeastElement ==
  ASSUME NEW T, T \subseteq Nat, T # {}
  PROVE  \E x \in T : \A y \in T : x <= y
<1>1. PICK x \in T : \A y \in T : ~(<<y, x>> \in Less)
  BY LessWF, WFMin
<1>2. ASSUME NEW y \in T PROVE x <= y
  <2>1. x \in Nat /\ y \in Nat /\ ~(<<y, x>> \in Less)
    BY <1>1
  <2>2. y < x => <<y, x>> \in Less
    BY <2>1 DEF Less
  <2> QED
    BY <2>1, <2>2
<1> QED
  BY <1>2

\* Induction, for sets of numbers.
LEMMA NatSetInduction ==
  ASSUME NEW S, S \subseteq Nat, 0 \in S, \A n \in S : n + 1 \in S
  PROVE  S = Nat
<1> SUFFICES ASSUME NEW T, T = Nat \ S, T # {} PROVE FALSE
  OBVIOUS
<1>1. PICK x \in T : \A y \in T : x <= y
  BY LeastElement
<1>2. x \in Nat /\ x # 0
  BY <1>1
<1>3. x - 1 \in Nat /\ ~(x <= x - 1)
  BY <1>2
<1>4. x - 1 \in S
  BY <1>1, <1>3
<1> QED
  BY <1>2, <1>4

\* Induction from lo to hi.
LEMMA RangeInduction ==
  ASSUME NEW S, NEW lo \in Nat, NEW hi \in Nat, lo \in S,
         \A i \in Nat : lo <= i /\ i < hi /\ i \in S => i + 1 \in S
  PROVE  \A i \in lo .. hi : i \in S
<1> DEFINE N == {k \in Nat : lo + k <= hi => lo + k \in S}
<1>1. 0 \in N
  OBVIOUS
<1>2. ASSUME NEW k \in N PROVE k + 1 \in N
  <2>1. k \in Nat /\ (lo + k <= hi => lo + k \in S)
    OBVIOUS
  <2>2. ASSUME lo + (k + 1) <= hi PROVE lo + (k + 1) \in S
    <3>1. lo + k \in S /\ lo + k < hi /\ lo + k \in Nat /\ lo <= lo + k /\ lo + k + 1 = lo + (k + 1)
      BY <2>1, <2>2
    <3> QED
      BY <3>1
  <2> QED
    BY <2>1, <2>2
<1>3. N = Nat
  <2>1. N \subseteq Nat
    OBVIOUS
  <2> HIDE DEF N
  <2> QED
    BY <1>1, <1>2, <2>1, NatSetInduction
<1>4. ASSUME NEW i \in lo .. hi PROVE i \in S
  <2>1. i - lo \in Nat /\ lo + (i - lo) = i /\ i <= hi
    OBVIOUS
  <2>2. i - lo \in N
    BY <1>3, <2>1
  <2> QED
    BY <2>1, <2>2
<1> QED
  BY <1>4

---------------------------------------------------------------------------
\* f holds the parser after each of the first m symbols of t.
IsRun(t, m, f) == f = [i \in 0 .. m |-> IF i = 0 THEN Fresh ELSE Turn(t, f[i - 1], i)]

\* There is such a function.
LEMMA RunExists ==
  ASSUME NEW t, NEW n \in Nat
  PROVE  \E f : IsRun(t, n, f)
<1> DEFINE N == {m \in Nat : \E f : IsRun(t, m, f)}
<1>1. 0 \in N
  <2>1. IsRun(t, 0, [i \in 0 .. 0 |-> Fresh])
    BY DEF IsRun
  <2> QED
    BY <2>1
<1>2. ASSUME NEW m \in N PROVE m + 1 \in N
  <2>1. PICK f : IsRun(t, m, f)
    OBVIOUS
  <2> DEFINE g == [i \in 0 .. m + 1 |-> IF i <= m THEN f[i] ELSE Turn(t, f[m], m + 1)]
  <2>2. \A i \in 0 .. m : f[i] = IF i = 0 THEN Fresh ELSE Turn(t, f[i - 1], i)
    BY <2>1 DEF IsRun
  <2>3. ASSUME NEW i \in 0 .. m + 1 PROVE g[i] = IF i = 0 THEN Fresh ELSE Turn(t, g[i - 1], i)
    <3>1. CASE i <= m
      <4>1. i # 0 => i - 1 \in 0 .. m + 1 /\ i - 1 <= m
        BY <3>1
      <4> QED
        BY <2>2, <3>1, <4>1
    <3>2. CASE i = m + 1
      <4>1. i # 0 /\ ~(i <= m) /\ i - 1 = m /\ m \in 0 .. m + 1
        BY <3>2
      <4>2. g[i] = Turn(t, f[m], m + 1) /\ g[m] = f[m]
        BY <4>1
      <4> QED
        BY <4>1, <4>2, <3>2
    <3> QED
      BY <3>1, <3>2
  <2>4. g = [i \in 0 .. m + 1 |-> IF i = 0 THEN Fresh ELSE Turn(t, g[i - 1], i)]
    BY <2>3
  <2>5. IsRun(t, m + 1, g)
    BY <2>4 DEF IsRun
  <2> QED
    BY <2>5
<1>3. N = Nat
  <2>1. N \subseteq Nat
    OBVIOUS
  <2> HIDE DEF N
  <2> QED
    BY <1>1, <1>2, <2>1, NatSetInduction
<1> QED
  BY <1>3

\* The parser starts afresh and takes one turn of its loop for each symbol
\* (uri.ipp:89).
LEMMA RunIs ==
  ASSUME NEW t \in Seq(STRING)
  PROVE  /\ Run(t)[0] = Fresh
         /\ \A i \in 1 .. Len(t) : Run(t)[i] = Turn(t, Run(t)[i - 1], i)
<1>1. Run(t) = CHOOSE f : IsRun(t, Len(t), f)
  BY DEF Run, IsRun
<1>2. IsRun(t, Len(t), Run(t))
  BY <1>1, RunExists
<1> QED
  BY <1>2 DEF IsRun

---------------------------------------------------------------------------
(* Parts of a text.                                                       *)

\* The least and the greatest of a set of naturals.
LEMMA MinIs ==
  ASSUME NEW S, S \subseteq Nat, S # {}
  PROVE  Min(S) \in S /\ \A y \in S : Min(S) <= y
<1>1. PICK x \in S : \A y \in S : x <= y
  BY LeastElement
<1> QED
  BY <1>1 DEF Min

\* Max of a set of numbers up to n is its greatest element.
LEMMA MaxIs ==
  ASSUME NEW n \in Nat, NEW S, S \subseteq 0 .. n, S # {}
  PROVE  Max(S) \in S /\ \A y \in S : y <= Max(S)
<1> DEFINE T == {d \in Nat : n - d \in S}
<1>1. T \subseteq Nat /\ T # {}
  <2>1. PICK x \in S : TRUE
    OBVIOUS
  <2>2. n - x \in Nat /\ n - (n - x) = x
    BY <2>1
  <2>3. n - x \in T
    BY <2>1, <2>2
  <2> QED
    BY <2>3
<1>2. PICK d \in T : \A y \in T : d <= y
  <2> HIDE DEF T
  <2> QED
    BY <1>1, LeastElement
<1>3. n - d \in S
  BY <1>2
<1>4. ASSUME NEW y \in S PROVE n - d >= y
  <2>1. y \in Nat /\ y <= n /\ n - y \in Nat /\ n - (n - y) = y
    OBVIOUS
  <2>2. n - y \in T
    <3>1. n - (n - y) \in S
      BY <2>1
    <3> QED
      BY <2>1, <3>1
  <2>3. d \in Nat /\ d <= n - y
    BY <1>2, <2>2
  <2> QED
    BY <2>1, <2>3
<1>5. \E x \in S : \A y \in S : x >= y
  BY <1>3, <1>4
<1>6. Max(S) \in S /\ \A y \in S : Max(S) >= y
  BY <1>5 DEF Max
<1>7. ASSUME NEW y \in S PROVE y <= Max(S)
  <2>0. \A z \in S : z \in Int
    OBVIOUS
  <2>1. y \in Int /\ Max(S) \in Int /\ Max(S) >= y
    BY <1>6, <2>0
  <2> QED
    BY <2>1
<1> QED
  BY <1>6, <1>7

\* The elements of E up to m.
UpTo(E, m) == {j \in E : j <= m}

\* There are finitely many of them.
LEMMA UpToFinite ==
  ASSUME NEW n \in Nat, NEW E, E \subseteq 1 .. n, NEW m \in Nat
  PROVE  IsFiniteSet(E) /\ IsFiniteSet(UpTo(E, m)) /\ Cardinality(UpTo(E, m)) \in Nat
<1>1. IsFiniteSet(1 .. n)
  BY FS_Interval
<1>2. E \in SUBSET (1 .. n) /\ UpTo(E, m) \in SUBSET (1 .. n)
  BY DEF UpTo
<1> QED
  BY <1>1, <1>2, FS_Subset, FS_CardinalityType

\* Every number up to the cardinality of E is the rank of an element.
LEMMA RankTaken ==
  ASSUME NEW n \in Nat, NEW E, E \subseteq 1 .. n, NEW k \in 1 .. Cardinality(E)
  PROVE  \E i \in E : Cardinality(UpTo(E, i)) = k
<1>0. \A j \in E : j \in Nat /\ 1 <= j /\ j <= n
  OBVIOUS
<1> DEFINE T == {m \in Nat : Cardinality(UpTo(E, m)) >= k}
<1>1. n \in T
  <2>1. UpTo(E, n) = E
    BY <1>0 DEF UpTo
  <2>2. Cardinality(E) \in Nat
    BY UpToFinite, FS_CardinalityType
  <2> QED
    BY <2>1, <2>2
<1>2. PICK m \in T : \A y \in T : m <= y
  <2>1. T \subseteq Nat /\ T # {}
    BY <1>1
  <2> HIDE DEF T
  <2> QED
    BY <2>1, LeastElement
<1>3. m \in Nat /\ Cardinality(UpTo(E, m)) >= k /\ Cardinality(UpTo(E, m)) \in Nat
  BY <1>2, UpToFinite
<1>4. m # 0
  <2>1. \A j \in UpTo(E, 0) : j \in E /\ j <= 0
    BY DEF UpTo
  <2>4. UpTo(E, 0) = {}
    <3>1. ASSUME NEW j \in UpTo(E, 0) PROVE FALSE
      <4>1. j \in Nat /\ 1 <= j /\ j <= 0
        BY <1>0, <2>1
      <4> QED
        BY <4>1
    <3> QED
      BY <3>1
  <2>2. Cardinality(UpTo(E, 0)) = 0
    BY <2>4, FS_EmptySet
  <2>3. k \in Nat /\ k >= 1
    <3>1. Cardinality(E) \in Nat
      BY UpToFinite, FS_CardinalityType
    <3> QED
      BY <3>1
  <2> QED
    BY <1>3, <2>2, <2>3
<1>5. m - 1 \in Nat /\ ~(m <= m - 1)
  BY <1>3, <1>4
<1>6. ~(Cardinality(UpTo(E, m - 1)) >= k) /\ Cardinality(UpTo(E, m - 1)) \in Nat
  BY <1>2, <1>5, UpToFinite
<1>7. m \in E
  <2>1. \A j \in E : j # m => (j <= m <=> j <= m - 1)
    BY <1>0, <1>3, <1>4
  <2>2. m \notin E => UpTo(E, m) = UpTo(E, m - 1)
    BY <2>1 DEF UpTo
  <2> QED
    BY <2>2, <1>3, <1>6
<1>8. UpTo(E, m) = UpTo(E, m - 1) \cup {m} /\ m \notin UpTo(E, m - 1)
  <2>1. \A j \in E : j <= m <=> (j <= m - 1 \/ j = m)
    BY <1>0, <1>3, <1>4
  <2>2. m <= m /\ ~(m <= m - 1)
    BY <1>3
  <2> QED
    BY <2>1, <2>2, <1>7 DEF UpTo
<1>9. Cardinality(UpTo(E, m)) = Cardinality(UpTo(E, m - 1)) + 1
  BY <1>8, <1>5, UpToFinite, FS_AddElement
<1>10. k \in Nat
  <2>1. Cardinality(E) \in Nat
    BY UpToFinite, FS_CardinalityType
  <2> QED
    BY <2>1
<1> QED
  BY <1>3, <1>6, <1>7, <1>9, <1>10

\* Of one element only.
LEMMA RankOnce ==
  ASSUME NEW n \in Nat, NEW E, E \subseteq 1 .. n, NEW i \in E, NEW j \in E,
         Cardinality(UpTo(E, i)) = Cardinality(UpTo(E, j))
  PROVE  i = j
<1>0. \A k \in E : k \in Nat /\ 1 <= k /\ k <= n
  OBVIOUS
<1>1. ASSUME NEW x \in E, NEW y \in E, x < y, Cardinality(UpTo(E, x)) = Cardinality(UpTo(E, y))
      PROVE  FALSE
  <2>1. x \in Nat /\ y \in Nat
    OBVIOUS
  <2>2. UpTo(E, x) \in SUBSET UpTo(E, y)
    <3>1. \A k \in E : k <= x => k <= y
      BY <1>0, <1>1, <2>1
    <3> QED
      BY <3>1 DEF UpTo
  <2>3. y \in UpTo(E, y) /\ y \notin UpTo(E, x)
    BY <1>0, <1>1, <2>1 DEF UpTo
  <2>4. IsFiniteSet(UpTo(E, y))
    BY <2>1, UpToFinite
  <2>5. UpTo(E, y) = UpTo(E, x)
    BY <1>1, <2>2, <2>4, FS_Subset
  <2> QED
    BY <2>3, <2>5
<1>2. i \in Nat /\ j \in Nat
  OBVIOUS
<1>3. i < j \/ j < i \/ i = j
  BY <1>2
<1> QED
  BY <1>1, <1>3

\* The rank of an element is no larger than the number of elements.
LEMMA RankBounds ==
  ASSUME NEW n \in Nat, NEW E, E \subseteq 1 .. n, NEW i \in E
  PROVE  Cardinality(UpTo(E, i)) \in 1 .. Cardinality(E)
<1>1. i \in Nat /\ UpTo(E, i) \in SUBSET E /\ i \in UpTo(E, i)
  BY DEF UpTo
<1>2. IsFiniteSet(E) /\ IsFiniteSet(UpTo(E, i)) /\ Cardinality(UpTo(E, i)) \in Nat /\ Cardinality(E) \in Nat
  BY <1>1, UpToFinite, FS_CardinalityType
<1>3. Cardinality(UpTo(E, i)) <= Cardinality(E)
  BY <1>1, <1>2, FS_Subset
<1>4. Cardinality(UpTo(E, i)) # 0
  BY <1>1, <1>2, FS_EmptySet
<1> QED
  BY <1>2, <1>3, <1>4

\* Where the parts of s end, where the part that ends at i starts and ends, and
\* that part.
Ends(s, sep) == {i \in 1 .. Len(s) : s[i] = sep \/ i = Len(s)}
FromOf(s, sep, i) == Max({0} \cup {j \in Ends(s, sep) : j < i}) + 1
LastOf(s, i) == IF i = Len(s) THEN i ELSE i - 1
PartAt(s, sep, i) == SubSeq(s, FromOf(s, sep, i), LastOf(s, i))

\* Parts(s, sep) is the sequence of those parts.
LEMMA PartsAre ==
  ASSUME NEW s, NEW sep
  PROVE  Parts(s, sep) = [k \in 1 .. Cardinality(Ends(s, sep)) |->
           PartAt(s, sep, CHOOSE i \in Ends(s, sep) : Cardinality(UpTo(Ends(s, sep), i)) = k)]
BY DEF Parts, Ends, FromOf, LastOf, PartAt, UpTo

\* The ends are finitely many, and each is a place of s.
LEMMA EndsAre ==
  ASSUME NEW s \in Seq(STRING), NEW sep
  PROVE  /\ Len(s) \in Nat /\ Ends(s, sep) \subseteq 1 .. Len(s)
         /\ IsFiniteSet(Ends(s, sep)) /\ Cardinality(Ends(s, sep)) \in Nat
<1>1. Len(s) \in Nat /\ Ends(s, sep) \subseteq 1 .. Len(s)
  BY DEF Ends
<1> QED
  BY <1>1, UpToFinite, FS_CardinalityType

\* The part that ends at i: its length and its symbols.
LEMMA PartAtIs ==
  ASSUME NEW s \in Seq(STRING), NEW sep, NEW i \in Ends(s, sep)
  PROVE  /\ FromOf(s, sep, i) \in 1 .. i
         /\ LastOf(s, i) \in 0 .. Len(s) /\ LastOf(s, i) \in {i - 1, i}
         /\ \A x \in Ends(s, sep) : x < i => x < FromOf(s, sep, i)
         /\ PartAt(s, sep, i) \in Seq(STRING)
         /\ Len(PartAt(s, sep, i)) = LastOf(s, i) - FromOf(s, sep, i) + 1
         /\ \A j \in 1 .. Len(PartAt(s, sep, i)) :
              PartAt(s, sep, i)[j] = s[FromOf(s, sep, i) + j - 1]
<1> DEFINE S == {0} \cup {j \in Ends(s, sep) : j < i}
           f == FromOf(s, sep, i)
           u == LastOf(s, i)
<1>1. i \in Nat /\ 1 <= i /\ i <= Len(s) /\ Len(s) \in Nat
  BY EndsAre
<1>2. S \subseteq 0 .. i /\ S # {}
  <2>1. ASSUME NEW j \in S PROVE j \in 0 .. i
    <3>1. j \in Ends(s, sep) => j \in Nat
      BY EndsAre
    <3>2. j = 0 \/ (j \in Ends(s, sep) /\ j < i)
      OBVIOUS
    <3> HIDE DEF S
    <3> QED
      BY <3>1, <3>2, <1>1
  <2>2. 0 \in S
    OBVIOUS
  <2> HIDE DEF S
  <2> QED
    BY <2>1, <2>2
<1>3. Max(S) \in S /\ \A y \in S : y <= Max(S)
  <2> HIDE DEF S
  <2> QED
    BY <1>1, <1>2, MaxIs
<1>4. f = Max(S) + 1 /\ Max(S) \in Nat /\ Max(S) < i
  <2>1. \A y \in S : y \in Nat /\ y < i
    BY <1>1, <1>2
  <2> QED
    BY <2>1, <1>3 DEF FromOf
<1>5. f \in 1 .. i
  BY <1>1, <1>4
<1>6. ASSUME NEW x \in Ends(s, sep), x < i PROVE x < f
  <2>1. x \in S /\ x \in Nat
    BY <1>6, EndsAre
  <2> QED
    BY <2>1, <1>3, <1>4
<1>7. u \in 0 .. Len(s) /\ u \in {i - 1, i}
  BY <1>1 DEF LastOf
<1>8. f \in Nat /\ 1 <= f /\ f <= u + 1 /\ u \in Nat
  BY <1>1, <1>5, <1>7
<1>9. \A j \in f .. u : s[j] \in STRING
  BY <1>1, <1>7, <1>8, ElementOfSeq
<1>10. /\ PartAt(s, sep, i) = SubSeq(s, f, u)
       /\ SubSeq(s, f, u) \in Seq(STRING)
       /\ Len(SubSeq(s, f, u)) = IF f <= u THEN u - f + 1 ELSE 0
       /\ \A j \in 1 .. u - f + 1 : SubSeq(s, f, u)[j] = s[f + j - 1]
  <2> HIDE DEF f, u
  <2>1. f \in Int /\ u \in Int
    BY <1>8
  <2>2. PartAt(s, sep, i) = SubSeq(s, f, u)
    BY DEF PartAt, f, u
  <2> QED
    BY <2>1, <2>2, <1>9, SubSeqProperties
<1>11. Len(SubSeq(s, f, u)) = u - f + 1
  <2> HIDE DEF f, u
  <2> QED
    BY <1>8, <1>10
<1> QED
  <2> HIDE DEF S
  <2> QED
    BY <1>5, <1>6, <1>7, <1>10, <1>11

\* Every one of the parts ends at some place of s, and every place where a part
\* ends has one.
LEMMA PartsHave ==
  ASSUME NEW s \in Seq(STRING), NEW sep
  PROVE  /\ Len(Parts(s, sep)) = Cardinality(Ends(s, sep))
         /\ DOMAIN Parts(s, sep) = 1 .. Cardinality(Ends(s, sep))
         /\ \A k \in 1 .. Cardinality(Ends(s, sep)) :
              \E i \in Ends(s, sep) : Parts(s, sep)[k] = PartAt(s, sep, i)
         /\ \A i \in Ends(s, sep) :
              \E k \in 1 .. Cardinality(Ends(s, sep)) : Parts(s, sep)[k] = PartAt(s, sep, i)
<1> DEFINE E == Ends(s, sep)
           C(k) == CHOOSE i \in E : Cardinality(UpTo(E, i)) = k
<1>1. Len(s) \in Nat /\ E \subseteq 1 .. Len(s) /\ Cardinality(E) \in Nat
  BY EndsAre
<1>2. DOMAIN Parts(s, sep) = 1 .. Cardinality(E) /\ \A k \in 1 .. Cardinality(E) : Parts(s, sep)[k] = PartAt(s, sep, C(k))
  BY PartsAre
<1>3. ASSUME NEW k \in 1 .. Cardinality(E)
      PROVE  C(k) \in E /\ Cardinality(UpTo(E, C(k))) = k
  <2>1. \E i \in E : Cardinality(UpTo(E, i)) = k
    <3> HIDE DEF E
    <3> QED
      BY <1>1, RankTaken
  <2> QED
    BY <2>1
<1>4. ASSUME NEW i \in E
      PROVE  \E k \in 1 .. Cardinality(E) : Parts(s, sep)[k] = PartAt(s, sep, i)
  <2> DEFINE k == Cardinality(UpTo(E, i))
  <2>1. k \in 1 .. Cardinality(E)
    <3> HIDE DEF E
    <3> QED
      BY <1>1, RankBounds
  <2>2. C(k) \in E /\ Cardinality(UpTo(E, C(k))) = k
    BY <1>3, <2>1
  <2>3. C(k) = i
    <3> HIDE DEF E, C
    <3> QED
      BY <1>1, <2>2, RankOnce
  <2> QED
    BY <1>2, <2>1, <2>3
<1>5. Len(Parts(s, sep)) = Cardinality(E)
  BY <1>1, <1>2
<1> QED
  BY <1>2, <1>3, <1>4, <1>5

---------------------------------------------------------------------------
(* Hosts of the usual form.                                               *)

\* An address of the usual form is accepted.
LEMMA GoodIpv6Accepted ==
  ASSUME NEW h \in Seq(STRING), GoodIpv6(h)
  PROVE  ~BadIpv6(h) /\ Len(h) >= 2
<1> DEFINE A == {i \in DOMAIN h : h[i] = ":"}
           B == {i \in 2 .. Len(h) : h[i - 1] = ":" /\ h[i] = ":"}
           C == {i \in 2 .. Len(h) : h[i] = ":" /\ h[i - 1] = ":"}
           E == Ends(h, ":")
<1>1. /\ Len(h) \in Nat /\ DOMAIN h = 1 .. Len(h)
      /\ \A i \in 1 .. Len(h) : h[i] \in {"a", "9", ":"}
      /\ Cardinality(A) <= 7
      /\ Cardinality(B) = 1
      /\ \A i \in 1 .. Len(h) - 4 : \E j \in i .. i + 4 : h[j] = ":"
  BY DEF GoodIpv6, Over
<1>2. C = B
  OBVIOUS
<1>3. Cardinality(C) = 1
  BY <1>1, <1>2
<1>4. Len(h) >= 2
  <2>1. B # {}
    <3>1. Cardinality(B) = 1
      BY <1>1
    <3> HIDE DEF B
    <3>2. B = {} => Cardinality(B) = 0
      BY FS_EmptySet
    <3> QED
      BY <3>1, <3>2
  <2>2. PICK i \in 2 .. Len(h) : TRUE
    BY <2>1
  <2> QED
    BY <2>2, <1>1
<1>5. ASSUME NEW i \in 1 .. Len(h) - 1 PROVE h[i] \in {"a", "9", ":"}
  <2>1. i \in 1 .. Len(h)
    BY <1>1
  <2> QED
    BY <1>1, <2>1
<1>6. Len(Parts(h, ":")) <= 8
  <2>1. IsFiniteSet(A)
    <3>1. A \in SUBSET (1 .. Len(h))
      BY <1>1
    <3>2. IsFiniteSet(1 .. Len(h))
      BY <1>1, FS_Interval
    <3> HIDE DEF A
    <3> QED
      BY <3>1, <3>2, FS_Subset
  <2>2. IsFiniteSet(A \cup {Len(h)}) /\ Cardinality(A \cup {Len(h)}) <= 8
    <3>1. Cardinality(A) <= 7
      BY <1>1
    <3> HIDE DEF A
    <3>2. Cardinality(A) \in Nat
      BY <2>1, FS_CardinalityType
    <3>3. /\ IsFiniteSet(A \cup {Len(h)})
          /\ Cardinality(A \cup {Len(h)}) =
               IF Len(h) \in A THEN Cardinality(A) ELSE Cardinality(A) + 1
      BY <2>1, FS_AddElement
    <3> QED
      BY <3>1, <3>2, <3>3
  <2>3. E \in SUBSET (A \cup {Len(h)})
    BY <1>1 DEF Ends
  <2>4. Cardinality(E) <= Cardinality(A \cup {Len(h)})
    <3> HIDE DEF A, E
    <3> QED
      BY <2>2, <2>3, FS_Subset
  <2>5. Cardinality(E) \in Nat /\ Cardinality(A \cup {Len(h)}) \in Nat
    <3> HIDE DEF A
    <3> QED
      BY EndsAre, <2>2, FS_CardinalityType
  <2>6. Len(Parts(h, ":")) = Cardinality(E)
    BY PartsHave
  <2> HIDE DEF A, E
  <2> QED
    BY <2>2, <2>4, <2>5, <2>6
<1>7. ASSUME NEW k \in DOMAIN Parts(h, ":"), Len(Parts(h, ":")[k]) > 4,
             \A j \in DOMAIN Parts(h, ":")[k] : Parts(h, ":")[k][j] \in {"a", "9"}
      PROVE  FALSE
  <2>1. PICK i \in E : Parts(h, ":")[k] = PartAt(h, ":", i)
    BY PartsHave
  <2> DEFINE p == PartAt(h, ":", i)
             f == FromOf(h, ":", i)
             u == LastOf(h, i)
  <2>2. /\ f \in 1 .. i /\ u \in 0 .. Len(h)
        /\ p \in Seq(STRING) /\ Len(p) = u - f + 1
        /\ \A j \in 1 .. Len(p) : p[j] = h[f + j - 1]
    <3> HIDE DEF E
    <3>1. i \in Ends(h, ":")
      BY DEF E
    <3> HIDE DEF p, f, u
    <3>2. f \in 1 .. i /\ u \in 0 .. Len(h)
      BY <3>1, PartAtIs DEF f, u
    <3>3. p \in Seq(STRING) /\ Len(p) = u - f + 1
      BY <3>1, PartAtIs DEF p, f, u
    <3>4. \A j \in 1 .. Len(p) : p[j] = h[f + j - 1]
      BY <3>1, PartAtIs DEF p, f
    <3> QED
      BY <3>2, <3>3, <3>4
  <2>3. i \in Nat
    BY EndsAre
  <2>4. Len(p) > 4 /\ DOMAIN p = 1 .. Len(p) /\ \A j \in 1 .. Len(p) : p[j] \in {"a", "9"}
    BY <1>7, <2>1, <2>2
  <2> HIDE DEF p, f, u
  <2>5. f \in 1 .. Len(h) - 4
    BY <1>1, <2>2, <2>3, <2>4
  <2>6. PICK j \in f .. f + 4 : h[j] = ":"
    BY <1>1, <2>5
  <2>7. j - f + 1 \in 1 .. Len(p) /\ f + (j - f + 1) - 1 = j
    BY <1>1, <2>2, <2>3, <2>4, <2>5, <2>6
  <2>8. p[j - f + 1] = h[j] /\ p[j - f + 1] \in {"a", "9"}
    BY <2>2, <2>4, <2>7
  <2> QED
    BY <2>6, <2>8
<1>8. ~BadIpv6(h)
  <2>1. ~\E k \in DOMAIN Parts(h, ":") :
           Len(Parts(h, ":")[k]) > 4 /\ \A j \in DOMAIN Parts(h, ":")[k] : Parts(h, ":")[k][j] \in {"a", "9"}
    BY <1>7
  <2>2. ~(Len(Parts(h, ":")) > 8)
    <3>1. Len(Parts(h, ":")) \in Nat
      BY PartsHave, EndsAre
    <3> QED
      BY <1>6, <3>1
  <2>3. ~(Cardinality(C) > 1) /\ Cardinality(C) # 0
    BY <1>3
  <2> HIDE DEF C
  <2>4. BadIpv6(h) <=>
          \/ \E i \in 1 .. Len(h) - 1 : h[i] \notin {"a", "9", ":"}
          \/ \E k \in DOMAIN Parts(h, ":") :
               Len(Parts(h, ":")[k]) > 4 /\ \A j \in DOMAIN Parts(h, ":")[k] : Parts(h, ":")[k][j] \in {"a", "9"}
          \/ Cardinality(C) > 1
          \/ Len(Parts(h, ":")) > 8
          \/ Len(Parts(h, ":")) < 8 /\ Cardinality(C) = 0
    BY DEF BadIpv6, C
  <2> QED
    BY <1>5, <2>1, <2>2, <2>3, <2>4
<1> QED
  BY <1>4, <1>8

\* A name that has another symbol than those of numbers has a part that is none.
LEMMA OddPart ==
  ASSUME NEW h \in Seq(STRING), h # <<>>, ~Over(h, {"9", "."})
  PROVE  \E k \in 1 .. Len(Parts(h, ".")) : Decimal(Parts(h, ".")[k]) = -1
<1> DEFINE E == Ends(h, ".")
<1>1. Len(h) \in Nat /\ DOMAIN h = 1 .. Len(h) /\ Len(h) # 0
  OBVIOUS
<1>2. PICK x \in 1 .. Len(h) : h[x] # "9" /\ h[x] # "."
  BY <1>1 DEF Over
<1> DEFINE T == {m \in E : x <= m}
<1>3. T \subseteq Nat /\ T # {}
  <2>1. Len(h) \in E
    BY <1>1 DEF Ends
  <2> QED
    BY <2>1, <1>1, EndsAre
<1>4. PICK i \in T : \A y \in T : i <= y
  <2> HIDE DEF T
  <2> QED
    BY <1>3, LeastElement
<1>5. i \in E /\ x <= i /\ i \in Nat /\ i <= Len(h) /\ x \in Nat
  BY <1>1, <1>4, EndsAre
<1> DEFINE p == PartAt(h, ".", i)
           f == FromOf(h, ".", i)
           u == LastOf(h, i)
<1>6. /\ f \in 1 .. i /\ u \in 0 .. Len(h) /\ u \in {i - 1, i}
      /\ p \in Seq(STRING) /\ Len(p) = u - f + 1
      /\ \A j \in 1 .. Len(p) : p[j] = h[f + j - 1]
  BY <1>5, PartAtIs
<1>7. f <= x
  <2>1. f = Max({0} \cup {j \in E : j < i}) + 1
    BY DEF FromOf
  <2> DEFINE S == {0} \cup {j \in E : j < i}
  <2>2. ASSUME NEW y \in S PROVE y \in Nat /\ y <= i /\ y < x
    <3>1. CASE y = 0
      BY <3>1, <1>2, <1>5
    <3>2. CASE y \in E /\ y < i
      <4>1. y \in Nat
        BY <3>2, EndsAre
      <4>2. ~(i <= y)
        BY <4>1, <3>2, <1>5
      <4>3. y \notin T
        BY <1>4, <4>2
      <4>4. ~(x <= y)
        BY <4>3, <3>2
      <4> QED
        BY <4>1, <4>4, <3>2, <1>5
    <3> QED
      BY <3>1, <3>2
  <2>3. S \subseteq 0 .. i /\ S # {}
    <3>1. 0 \in S /\ \A y \in S : y \in 0 .. i
      <4> HIDE DEF S
      <4>1. S = {0} \cup {j \in E : j < i}
        BY DEF S
      <4> QED
        BY <2>2, <1>5, <4>1
    <3> HIDE DEF S
    <3> QED
      BY <3>1
  <2>4. Max(S) \in S
    <3> HIDE DEF S
    <3> QED
      BY <2>3, <1>5, MaxIs
  <2>5. Max(S) \in Nat /\ Max(S) < x
    BY <2>2, <2>4
  <2> HIDE DEF S
  <2>6. f = Max(S) + 1
    BY <2>1 DEF S
  <2> HIDE DEF f
  <2> QED
    BY <2>5, <2>6, <1>5
<1>8. x <= u
  <2>1. CASE i = Len(h)
    BY <2>1, <1>5 DEF LastOf
  <2>2. CASE i # Len(h)
    <3>1. h[i] = "."
      BY <2>2, <1>5 DEF Ends
    <3>2. x # i
      BY <1>2, <3>1
    <3>3. u = i - 1
      BY <2>2 DEF LastOf
    <3> QED
      BY <3>2, <3>3, <1>5
  <2> QED
    BY <2>1, <2>2
<1>9. Decimal(p) = -1
  <2> HIDE DEF f, u
  <2>1. f \in Nat /\ u \in Nat
    BY <1>5, <1>6
  <2>2. x - f + 1 \in 1 .. Len(p) /\ f + (x - f + 1) - 1 = x
    BY <2>1, <1>5, <1>6, <1>7, <1>8
  <2>3. p[x - f + 1] = h[x]
    BY <1>6, <2>2
  <2>4. DOMAIN p = 1 .. Len(p)
    BY <1>6
  <2> HIDE DEF p
  <2> QED
    BY <2>2, <2>3, <2>4, <1>2 DEF Decimal
<1>10. \E k \in 1 .. Len(Parts(h, ".")) : Parts(h, ".")[k] = p
  BY <1>5, PartsHave
<1> QED
  <2> HIDE DEF p
  <2> QED
    BY <1>9, <1>10

\* is_ipv4_host does not refuse a name of the usual form: it has no number too
\* large (detail/host.hpp:27).
LEMMA GoodNameAccepted ==
  ASSUME NEW h \in Seq(STRING), GoodName(h)
  PROVE  ~BadIpv4(h)
<1> DEFINE parts == Parts(h, ".")
           n == Len(parts)
           value == [k \in 1 .. n |-> Decimal(parts[k])]
<1>1. BadIpv4(h) <=>
        \/ h = <<>>
        \/ /\ n <= 4 /\ \A k \in 1 .. n : value[k] >= 0
           /\ \/ \E k \in 1 .. n : value[k] > 255 /\ value[k] > value[n]
              \/ n > 1 /\ value[n] >= 256 ^ (5 - n)
  BY DEF BadIpv4
<1>2. h # <<>>
  BY DEF GoodName
<1>3. CASE ~Over(h, {"9", "."})
  <2>1. PICK k \in 1 .. n : Decimal(parts[k]) = -1
    BY <1>2, <1>3, OddPart
  <2>2. ~(value[k] >= 0)
    BY <2>1
  <2> QED
    BY <1>1, <1>2, <2>2
<1>4. CASE n = 4 /\ \A k \in 1 .. 4 : Len(parts[k]) \in 1 .. 2 /\ Over(parts[k], {"9"})
  <2>1. ASSUME NEW k \in 1 .. 4 PROVE Decimal(parts[k]) \in {9, 99}
    <3>1. \A j \in DOMAIN parts[k] : parts[k][j] = "9"
      BY <1>4 DEF Over
    <3>2. Decimal(parts[k]) = 10 ^ Len(parts[k]) - 1
      BY <3>1 DEF Decimal
    <3>3. 10 ^ 1 = 10 /\ 10 ^ 2 = 100
      OBVIOUS
    <3>4. Len(parts[k]) = 1 \/ Len(parts[k]) = 2
      BY <1>4
    <3> HIDE DEF parts
    <3>5. CASE Len(parts[k]) = 1
      <4>1. Decimal(parts[k]) = 10 - 1
        BY <3>2, <3>3, <3>5
      <4> QED
        BY <4>1
    <3>6. CASE Len(parts[k]) = 2
      <4>1. Decimal(parts[k]) = 100 - 1
        BY <3>2, <3>3, <3>6
      <4> QED
        BY <4>1
    <3> QED
      BY <3>4, <3>5, <3>6
  <2>2. \A k \in 1 .. 4 : value[k] \in {9, 99}
    BY <2>1, <1>4
  <2>3. 256 ^ (5 - n) = 256
    <3>0. n = 4
      BY <1>4
    <3>1. 5 - n = 1
      <4> HIDE DEF n
      <4> QED
        BY <3>0
    <3>2. 256 ^ 1 = 256
      OBVIOUS
    <3> QED
      BY <3>1, <3>2
  <2>4. \A k \in 1 .. n : ~(value[k] > 255)
    BY <2>2, <1>4
  <2>5. ~(value[n] >= 256)
    BY <2>2, <1>4
  <2> HIDE DEF value
  <2> QED
    BY <1>1, <1>2, <2>3, <2>4, <2>5
<1> QED
  BY <1>3, <1>4 DEF GoodName

---------------------------------------------------------------------------
(* Where a well formed text has its parts.                                *)

\* A part of a text: its length, its symbols, and when it is empty.
LEMMA PartOf ==
  ASSUME NEW t \in Seq(STRING), NEW m \in Nat, NEW n \in Nat, 1 <= m, m <= n + 1, n <= Len(t)
  PROVE  /\ SubSeq(t, m, n) \in Seq(STRING)
         /\ Len(SubSeq(t, m, n)) = n - m + 1
         /\ DOMAIN SubSeq(t, m, n) = 1 .. n - m + 1
         /\ \A i \in 1 .. n - m + 1 : SubSeq(t, m, n)[i] = t[m + i - 1]
         /\ \A j \in m .. n : SubSeq(t, m, n)[j - m + 1] = t[j] /\ j - m + 1 \in 1 .. n - m + 1
         /\ SubSeq(t, m, n) = <<>> <=> m = n + 1
<1>1. \A i \in m .. n : t[i] \in STRING
  BY ElementOfSeq
<1>2. /\ SubSeq(t, m, n) \in Seq(STRING)
      /\ Len(SubSeq(t, m, n)) = IF m <= n THEN n - m + 1 ELSE 0
      /\ \A i \in 1 .. n - m + 1 : SubSeq(t, m, n)[i] = t[m + i - 1]
  BY <1>1, SubSeqProperties
<1>3. Len(SubSeq(t, m, n)) = n - m + 1
  BY <1>2
<1>4. ASSUME NEW j \in m .. n
      PROVE  SubSeq(t, m, n)[j - m + 1] = t[j] /\ j - m + 1 \in 1 .. n - m + 1
  <2>1. j - m + 1 \in 1 .. n - m + 1 /\ m + (j - m + 1) - 1 = j
    OBVIOUS
  <2> QED
    BY <2>1, <1>2
<1>5. DOMAIN SubSeq(t, m, n) = 1 .. n - m + 1
  BY <1>2, <1>3, LenProperties
<1>6. SubSeq(t, m, n) = <<>> <=> Len(SubSeq(t, m, n)) = 0
  BY <1>2, EmptySeq
<1>7. n - m + 1 = 0 <=> m = n + 1
  OBVIOUS
<1> QED
  BY <1>2, <1>3, <1>4, <1>5, <1>6, <1>7

\* A part of a part.
LEMMA PartOfPart ==
  ASSUME NEW t \in Seq(STRING), NEW m \in Nat, NEW n \in Nat, 1 <= m, m <= n + 1, n <= Len(t),
         NEW i \in Nat, NEW j \in Nat, 1 <= i, i <= j + 1, j <= n - m + 1
  PROVE  SubSeq(SubSeq(t, m, n), i, j) = SubSeq(t, m + i - 1, m + j - 1)
<1> DEFINE s == SubSeq(t, m, n)
           l == SubSeq(s, i, j)
           r == SubSeq(t, m + i - 1, m + j - 1)
<1>1. s \in Seq(STRING) /\ Len(s) = n - m + 1 /\ \A x \in 1 .. n - m + 1 : s[x] = t[m + x - 1]
  BY PartOf
<1>2. l \in Seq(STRING) /\ Len(l) = j - i + 1 /\ \A x \in 1 .. j - i + 1 : l[x] = s[i + x - 1]
  <2> HIDE DEF s
  <2> QED
    BY <1>1, PartOf
<1>3. /\ r \in Seq(STRING) /\ Len(r) = (m + j - 1) - (m + i - 1) + 1
      /\ \A x \in 1 .. (m + j - 1) - (m + i - 1) + 1 : r[x] = t[(m + i - 1) + x - 1]
  <2>1. m + i - 1 \in Nat /\ m + j - 1 \in Nat /\ 1 <= m + i - 1 /\ m + i - 1 <= (m + j - 1) + 1
        /\ m + j - 1 <= Len(t)
    OBVIOUS
  <2> QED
    BY <2>1, PartOf
<1>4. (m + j - 1) - (m + i - 1) + 1 = j - i + 1
  OBVIOUS
<1>5. Len(l) = Len(r)
  BY <1>2, <1>3, <1>4
<1>6. ASSUME NEW x \in 1 .. Len(l) PROVE l[x] = r[x]
  <2>1. x \in 1 .. j - i + 1
    BY <1>2
  <2>2. i + x - 1 \in 1 .. n - m + 1 /\ m + (i + x - 1) - 1 = (m + i - 1) + x - 1
    BY <2>1
  <2>3. l[x] = s[i + x - 1] /\ s[i + x - 1] = t[m + (i + x - 1) - 1]
    BY <1>1, <1>2, <2>1, <2>2
  <2>4. r[x] = t[(m + i - 1) + x - 1]
    BY <1>3, <1>4, <2>1
  <2> QED
    BY <2>2, <2>3, <2>4
<1> QED
  <2> HIDE DEF l, r
  <2>1. l = r
    BY <1>2, <1>3, <1>5, <1>6, SeqEqual
  <2> QED
    BY <2>1 DEF l, r

\* FirstOf is the first place of a symbol of S, or the place behind the text.
LEMMA FirstOfIs ==
  ASSUME NEW s \in Seq(STRING), NEW X
  PROVE  /\ FirstOf(s, X) \in 1 .. Len(s) + 1
         /\ \A i \in 1 .. FirstOf(s, X) - 1 : s[i] \notin X
         /\ FirstOf(s, X) <= Len(s) => s[FirstOf(s, X)] \in X
<1> DEFINE M == {i \in DOMAIN s : s[i] \in X} \cup {Len(s) + 1}
<1>1. Len(s) \in Nat /\ DOMAIN s = 1 .. Len(s)
  OBVIOUS
<1>2. M \subseteq 1 .. Len(s) + 1 /\ M # {}
  <2>1. \A i \in 1 .. Len(s) : i \in 1 .. Len(s) + 1
    BY <1>1
  <2>2. Len(s) + 1 \in 1 .. Len(s) + 1
    BY <1>1
  <2> QED
    BY <1>1, <2>1, <2>2
<1>3. FirstOf(s, X) \in M /\ \A y \in M : FirstOf(s, X) <= y
  <2>1. FirstOf(s, X) = Min(M)
    BY DEF FirstOf
  <2>2. M \subseteq Nat
    BY <1>1, <1>2
  <2> HIDE DEF M
  <2> QED
    BY <1>2, <2>1, <2>2, MinIs
<1>4. FirstOf(s, X) \in 1 .. Len(s) + 1
  BY <1>2, <1>3
<1>5. ASSUME NEW i \in 1 .. FirstOf(s, X) - 1 PROVE s[i] \notin X
  <2>1. i \in DOMAIN s /\ ~(FirstOf(s, X) <= i)
    BY <1>1, <1>4
  <2>2. i \notin M
    BY <1>3, <2>1
  <2> QED
    BY <2>1, <2>2
<1>6. ASSUME FirstOf(s, X) <= Len(s) PROVE s[FirstOf(s, X)] \in X
  <2>1. FirstOf(s, X) # Len(s) + 1
    BY <1>1, <1>6
  <2> QED
    BY <1>3, <2>1
<1> QED
  BY <1>4, <1>5, <1>6

\* What ends the authority, and what user information consists of.
Delims == {"/", "?", "#"}
InfoSymbols == Unreserved \cup SubDelims \cup {"%", ":"}

\* Where a well formed text has its parts: the user information ends before b,
\* its name before d, host and brackets at k, the port at e.
LaidInfo(t, b, d) ==
  /\ b = 5 \/ (b > 5 /\ t[b - 1] = "@")
  /\ \A i \in 5 .. b - 2 : t[i] \in InfoSymbols
  /\ b = 5 => d = 5
  /\ b > 5 => /\ d \in 5 .. b - 1 /\ \A i \in 5 .. d - 1 : t[i] # ":"
              /\ d < b - 1 => t[d] = ":" /\ d > 5

LaidHost(t, b, k) ==
  \/ t[b] = "[" /\ b < k /\ t[k] = "]" /\ GoodIpv6(SubSeq(t, b + 1, k - 1))
  \/ t[b] # "[" /\ GoodName(SubSeq(t, b, k))

LaidPort(t, k, e) ==
  k = e \/ (k + 2 <= e /\ t[k + 1] = ":" /\ \A i \in k + 2 .. e : t[i] = "9")

LaidRest(t, e) ==
  /\ e < Len(t) => t[e + 1] \in Delims
  /\ \A i \in e + 2 .. Len(t) : t[i] \in Unreserved \cup {"/"}
  /\ t[Len(t)] \notin {"?", "#"}

Laid(t, b, d, k, e) ==
  /\ b \in Nat /\ d \in Nat /\ k \in Nat /\ e \in Nat
  /\ 5 <= b /\ b <= k /\ k <= e /\ e <= Len(t)
  /\ LaidInfo(t, b, d) /\ LaidHost(t, b, k) /\ LaidPort(t, k, e) /\ LaidRest(t, e)

\* The host there.
HostAt(t, b, k) == IF t[b] = "[" THEN SubSeq(t, b + 1, k - 1) ELSE SubSeq(t, b, k)

\* The authority of a well formed text is what stands between the scheme and e.
LEMMA AuthorityIs ==
  ASSUME NEW t \in Seq(STRING), WellFormed(t)
  PROVE  \E e \in Nat :
           /\ 4 <= e /\ e <= Len(t) /\ AuthorityOf(t) = SubSeq(t, 5, e) /\ Len(AuthorityOf(t)) = e - 4
           /\ LaidRest(t, e)
<1> DEFINE n == Len(t)
           behind == SubSeq(t, Prefix + 1, n)
           first == FirstOf(behind, {"/", "?", "#"})
           e == first + 3
<1>1. n \in Nat /\ n > 4
  BY DEF WellFormed, Prefix
<1>2. /\ behind = SubSeq(t, 5, n) /\ behind \in Seq(STRING) /\ Len(behind) = n - 4
      /\ \A i \in 1 .. n - 4 : behind[i] = t[5 + i - 1]
  <2>1. behind = SubSeq(t, 5, n)
    BY DEF Prefix
  <2>2. /\ SubSeq(t, 5, n) \in Seq(STRING) /\ Len(SubSeq(t, 5, n)) = n - 5 + 1
        /\ \A i \in 1 .. n - 5 + 1 : SubSeq(t, 5, n)[i] = t[5 + i - 1]
    BY <1>1, PartOf
  <2>3. n - 5 + 1 = n - 4
    BY <1>1
  <2> HIDE DEF behind, n
  <2> QED
    BY <2>1, <2>2, <2>3
<1>3. /\ first \in 1 .. Len(behind) + 1
      /\ first <= Len(behind) => behind[first] \in Delims
  <2> HIDE DEF behind
  <2> QED
    BY <1>2, FirstOfIs DEF Delims
<1>4. first \in Nat /\ e \in Nat /\ 4 <= e /\ e <= n
  <2> HIDE DEF first, behind, n
  <2> QED
    BY <1>1, <1>2, <1>3
<1>5. AuthorityOf(t) = SubSeq(t, 5, e)
  <2>1. AuthorityOf(t) = SubSeq(behind, 1, first - 1)
    BY DEF AuthorityOf
  <2>2. 5 + 1 - 1 = 5 /\ 5 + (first - 1) - 1 = e
    BY <1>4
  <2>3. first - 1 \in Nat /\ 1 <= (first - 1) + 1 /\ first - 1 <= n - 5 + 1
    <3> HIDE DEF first, behind, n
    <3> QED
      BY <1>1, <1>2, <1>3, <1>4
  <2>4. SubSeq(SubSeq(t, 5, n), 1, first - 1) = SubSeq(t, 5 + 1 - 1, 5 + (first - 1) - 1)
    <3> HIDE DEF first, behind
    <3> QED
      BY <1>1, <2>3, PartOfPart
  <2> HIDE DEF first, behind, n, e
  <2> QED
    BY <2>1, <2>2, <2>4, <1>2
<1>6. Len(AuthorityOf(t)) = e - 4
  <2>1. Len(SubSeq(t, 5, e)) = e - 5 + 1
    <3> HIDE DEF e
    <3> QED
      BY <1>1, <1>4, PartOf
  <2>2. e - 5 + 1 = e - 4
    BY <1>4
  <2> HIDE DEF e
  <2> QED
    BY <1>5, <2>1, <2>2
<1>7. LaidRest(t, e)
  <2>1. ASSUME e < n PROVE t[e + 1] \in Delims
    <3>1. first <= Len(behind) /\ first \in 1 .. n - 4 /\ 5 + first - 1 = e + 1
      <4> HIDE DEF first, behind, n
      <4> QED
        BY <2>1, <1>1, <1>2, <1>3, <1>4
    <3> HIDE DEF first, behind, n, e
    <3> QED
      BY <3>1, <1>2, <1>3
  <2>2. ASSUME NEW i \in e + 2 .. n PROVE t[i] \in Unreserved \cup {"/"}
    <3>1. Prefix + Len(AuthorityOf(t)) + 2 = e + 2
      <4> HIDE DEF e
      <4> QED
        BY <1>4, <1>6 DEF Prefix
    <3>2. Over(SubSeq(t, e + 2, n), Unreserved \cup {"/"})
      BY <3>1 DEF WellFormed
    <3>3. e + 2 \in Nat /\ 1 <= e + 2 /\ e + 2 <= n + 1 /\ i \in Nat
      <4> HIDE DEF e, n
      <4> QED
        BY <1>1, <1>4
    <3>4. /\ DOMAIN SubSeq(t, e + 2, n) = 1 .. n - (e + 2) + 1
          /\ SubSeq(t, e + 2, n)[i - (e + 2) + 1] = t[i] /\ i - (e + 2) + 1 \in 1 .. n - (e + 2) + 1
      <4> HIDE DEF e
      <4> QED
        BY <1>1, <3>3, PartOf
    <3> HIDE DEF e, n
    <3> QED
      BY <3>2, <3>4 DEF Over
  <2>3. t[n] \notin {"?", "#"}
    BY DEF WellFormed
  <2> HIDE DEF e
  <2> QED
    BY <2>1, <2>2, <2>3 DEF LaidRest
<1> HIDE DEF e
<1> QED
  BY <1>4, <1>5, <1>6, <1>7

\* User and password between their places, and as the text is written.
UserAt(t, b, d) == IF b = 5 THEN <<>> ELSE SubSeq(t, 5, d - 1)
PasswordAt(t, b, d) == IF b = 5 THEN <<>> ELSE SubSeq(t, d + 1, b - 2)
UserOf(t) == SubSeq(InfoOf(t), 1, FirstOf(InfoOf(t), {":"}) - 1)
PasswordOf(t) == SubSeq(InfoOf(t), FirstOf(InfoOf(t), {":"}) + 1, Len(InfoOf(t)))

\* Without user information the server is the whole authority.
LEMMA NoInfoIs ==
  ASSUME NEW t \in Seq(STRING), NEW e \in Nat, 4 <= e, e <= Len(t),
         AuthorityOf(t) = SubSeq(t, 5, e), ~HasInfo(t)
  PROVE  /\ LaidInfo(t, 5, 5) /\ ServerOf(t) = SubSeq(t, 5, e)
         /\ UserOf(t) = <<>> /\ PasswordOf(t) = <<>>
<1>1. InfoOf(t) = <<>> /\ ServerOf(t) = SubSeq(t, 5, e)
  BY DEF InfoOf, ServerOf
<1>2. FirstOf(<<>>, {":"}) = 1 /\ Len(<<>>) = 0
  <2>1. <<>> \in Seq(STRING) /\ Len(<<>>) = 0
    BY EmptySeq
  <2>2. FirstOf(<<>>, {":"}) \in 1 .. Len(<<>>) + 1
    BY <2>1, FirstOfIs
  <2> QED
    BY <2>1, <2>2
<1>3. UserOf(t) = SubSeq(<<>>, 1, 0) /\ PasswordOf(t) = SubSeq(<<>>, 2, 0)
  BY <1>1, <1>2 DEF UserOf, PasswordOf
<1>4. UserOf(t) = <<>> /\ PasswordOf(t) = <<>>
  BY <1>3, SubSeqEmpty
<1>5. LaidInfo(t, 5, 5)
  BY DEF LaidInfo
<1> QED
  BY <1>1, <1>4, <1>5

\* With user information the server stands behind the first "@".
LEMMA SomeInfoIs ==
  ASSUME NEW t \in Seq(STRING), WellFormed(t), NEW e \in Nat, 4 <= e, e <= Len(t),
         AuthorityOf(t) = SubSeq(t, 5, e), HasInfo(t)
  PROVE  \E b, d \in Nat :
           /\ 5 < b /\ b <= e + 1 /\ LaidInfo(t, b, d) /\ ServerOf(t) = SubSeq(t, b, e)
           /\ UserOf(t) = SubSeq(t, 5, d - 1) /\ PasswordOf(t) = SubSeq(t, d + 1, b - 2)
<1> DEFINE a == SubSeq(t, 5, e)
           f == FirstOf(a, {"@"})
           b == f + 5
           x == b - 2
           info == SubSeq(t, 5, x)
           c == FirstOf(info, {":"})
           d == c + 4
<1>1. /\ a \in Seq(STRING) /\ Len(a) = e - 4 /\ DOMAIN a = 1 .. e - 4
      /\ \A i \in 1 .. e - 4 : a[i] = t[5 + i - 1]
  <2>1. /\ a \in Seq(STRING) /\ Len(a) = e - 5 + 1 /\ DOMAIN a = 1 .. e - 5 + 1
        /\ \A i \in 1 .. e - 5 + 1 : a[i] = t[5 + i - 1]
    BY PartOf
  <2>2. e - 5 + 1 = e - 4
    OBVIOUS
  <2> HIDE DEF a
  <2> QED
    BY <2>1, <2>2
<1>2. f \in 1 .. e - 4 /\ a[f] = "@"
  <2>1. PICK i \in 1 .. e - 4 : a[i] = "@"
    <3>1. \E i \in DOMAIN a : a[i] = "@"
      BY DEF HasInfo
    <3> HIDE DEF a
    <3> QED
      BY <3>1, <1>1
  <2>2. /\ f \in 1 .. Len(a) + 1 /\ \A j \in 1 .. f - 1 : a[j] \notin {"@"}
        /\ f <= Len(a) => a[f] \in {"@"}
    <3> HIDE DEF a
    <3> QED
      BY <1>1, FirstOfIs
  <2>3. i \notin 1 .. f - 1
    BY <2>1, <2>2
  <2> HIDE DEF f, a
  <2> QED
    BY <1>1, <2>1, <2>2, <2>3
<1>3. f \in Nat /\ 1 <= f /\ b \in Nat /\ 5 < b /\ b <= e + 1 /\ b - 2 = x /\ x \in Nat /\ 5 <= x + 1
      /\ x <= Len(t) /\ f - 1 \in Nat /\ f - 1 <= e - 5 + 1 /\ e - 4 \in Nat
  <2> HIDE DEF f
  <2> QED
    BY <1>2
<1>4. t[b - 1] = "@"
  <2>1. a[f] = t[5 + f - 1] /\ 5 + f - 1 = b - 1
    <3> HIDE DEF f, a
    <3> QED
      BY <1>1, <1>2, <1>3
  <2> QED
    BY <1>2, <2>1
<1>5. InfoOf(t) = info /\ ServerOf(t) = SubSeq(t, b, e)
  <2>1. InfoOf(t) = SubSeq(a, 1, f - 1) /\ ServerOf(t) = SubSeq(a, f + 1, Len(a))
    BY DEF InfoOf, ServerOf
  <2>2. SubSeq(a, 1, f - 1) = SubSeq(t, 5 + 1 - 1, 5 + (f - 1) - 1)
    <3> HIDE DEF f
    <3> QED
      BY <1>3, PartOfPart
  <2>3. SubSeq(a, f + 1, e - 4) = SubSeq(t, 5 + (f + 1) - 1, 5 + (e - 4) - 1)
    <3>1. f + 1 \in Nat /\ 1 <= f + 1 /\ f + 1 <= (e - 4) + 1 /\ e - 4 <= e - 5 + 1
      <4> HIDE DEF f, a
      <4> QED
        BY <1>2, <1>3
    <3> HIDE DEF f
    <3> QED
      BY <1>3, <3>1, PartOfPart
  <2>4. 5 + 1 - 1 = 5 /\ 5 + (f - 1) - 1 = b - 2 /\ 5 + (f + 1) - 1 = b /\ 5 + (e - 4) - 1 = e
    <3> HIDE DEF f
    <3> QED
      BY <1>3
  <2> HIDE DEF f, b, a
  <2> QED
    BY <1>1, <2>1, <2>2, <2>3, <2>4
<1>6. /\ info \in Seq(STRING) /\ Len(info) = b - 6 /\ DOMAIN info = 1 .. b - 6
      /\ \A j \in 5 .. x : info[j - 5 + 1] = t[j] /\ j - 5 + 1 \in 1 .. b - 6
      /\ \A i \in 1 .. b - 6 : info[i] = t[5 + i - 1]
      /\ info = <<>> <=> x = 4
  <2> HIDE DEF x, b
  <2>1. /\ info \in Seq(STRING) /\ Len(info) = x - 5 + 1 /\ DOMAIN info = 1 .. x - 5 + 1
        /\ \A j \in 5 .. x : info[j - 5 + 1] = t[j] /\ j - 5 + 1 \in 1 .. x - 5 + 1
        /\ \A i \in 1 .. x - 5 + 1 : info[i] = t[5 + i - 1]
        /\ info = <<>> <=> 5 = x + 1
    <3>1. x \in Nat /\ 5 <= x + 1 /\ x <= Len(t) /\ 5 \in Nat /\ 1 <= 5
      BY <1>3
    <3>2. info \in Seq(STRING) /\ Len(info) = x - 5 + 1 /\ DOMAIN info = 1 .. x - 5 + 1
      BY <3>1, PartOf
    <3>3. \A j \in 5 .. x : info[j - 5 + 1] = t[j] /\ j - 5 + 1 \in 1 .. x - 5 + 1
      BY <3>1, PartOf
    <3>4. \A i \in 1 .. x - 5 + 1 : info[i] = t[5 + i - 1]
      BY <3>1, PartOf
    <3>5. info = <<>> <=> 5 = x + 1
      BY <3>1, PartOf
    <3> QED
      BY <3>2, <3>3, <3>4, <3>5
  <2>2. x - 5 + 1 = b - 6 /\ (5 = x + 1 <=> x = 4)
    BY <1>3
  <2> HIDE DEF info
  <2> QED
    BY <2>1, <2>2
<1>7. /\ c \in 1 .. (b - 6) + 1 /\ \A j \in 1 .. c - 1 : info[j] \notin {":"}
      /\ c <= b - 6 => info[c] \in {":"}
  <2> HIDE DEF info, b, x
  <2>1. /\ c \in 1 .. Len(info) + 1 /\ \A j \in 1 .. c - 1 : info[j] \notin {":"}
        /\ c <= Len(info) => info[c] \in {":"}
    BY <1>6, FirstOfIs
  <2> QED
    BY <1>6, <2>1
<1>8. c \in Nat /\ 1 <= c /\ c <= b - 5 /\ d \in Nat /\ d \in 5 .. b - 1
  <2> HIDE DEF c, b, x
  <2> QED
    BY <1>3, <1>7
<1>9. ASSUME NEW i \in 5 .. x PROVE t[i] \in InfoSymbols
  <2>1. Over(info, InfoSymbols)
    BY <1>5 DEF WellFormed, InfoSymbols
  <2> HIDE DEF info, b, x
  <2> QED
    BY <1>6, <2>1 DEF Over
<1>10. ASSUME NEW i \in 5 .. d - 1 PROVE t[i] # ":"
  <2>1. i \in Int /\ i - 5 + 1 \in 1 .. c - 1 /\ i \in 5 .. x
    <3> HIDE DEF c, b, x
    <3> QED
      BY <1>8, <1>3
  <2> HIDE DEF info, c, b, x
  <2> QED
    BY <2>1, <1>6, <1>7
<1>11. ASSUME d < b - 1 PROVE t[d] = ":" /\ d > 5
  <2>1. c <= b - 6 /\ c \in 1 .. b - 6 /\ 5 + c - 1 = d
    <3> HIDE DEF c, b, x
    <3> QED
      BY <1>11, <1>8, <1>3
  <2>2. info[c] = ":" /\ info[c] = t[d]
    <3> HIDE DEF info, c, b, x, d
    <3> QED
      BY <2>1, <1>6, <1>7
  <2>3. info # <<>> /\ info[1] # ":"
    <3>1. info # <<>>
      <4> HIDE DEF info, c, b, x
      <4> QED
        BY <2>1, <1>3, <1>6
    <3> QED
      BY <3>1, <1>5 DEF WellFormed
  <2>4. c # 1
    <3> HIDE DEF info, c
    <3> QED
      BY <2>2, <2>3
  <2> HIDE DEF info, c
  <2> QED
    BY <2>2, <2>4, <1>8
<1>12. LaidInfo(t, b, d)
  <2>1. b # 5
    BY <1>3
  <2> HIDE DEF b, d, x
  <2> QED
    BY <2>1, <1>3, <1>4, <1>8, <1>9, <1>10, <1>11 DEF LaidInfo
<1>13. UserOf(t) = SubSeq(t, 5, d - 1)
  <2>1. UserOf(t) = SubSeq(info, 1, c - 1)
    BY <1>5 DEF UserOf
  <2>2. c - 1 \in Nat /\ 1 <= (c - 1) + 1 /\ c - 1 <= x - 5 + 1
    <3> HIDE DEF c, b, x
    <3> QED
      BY <1>3, <1>8
  <2>3. SubSeq(info, 1, c - 1) = SubSeq(t, 5 + 1 - 1, 5 + (c - 1) - 1)
    <3> HIDE DEF c, b, x
    <3> QED
      BY <1>3, <2>2, PartOfPart
  <2>4. 5 + 1 - 1 = 5 /\ 5 + (c - 1) - 1 = d - 1
    <3> HIDE DEF c
    <3> QED
      BY <1>8
  <2> HIDE DEF info, c, d
  <2> QED
    BY <2>1, <2>3, <2>4
<1>14. PasswordOf(t) = SubSeq(t, d + 1, b - 2)
  <2>1. PasswordOf(t) = SubSeq(info, c + 1, b - 6)
    <3>1. PasswordOf(t) = SubSeq(info, c + 1, Len(info))
      BY <1>5 DEF PasswordOf
    <3> HIDE DEF info, c
    <3> QED
      BY <3>1, <1>6
  <2>2. CASE c <= b - 6
    <3>1. c + 1 \in Nat /\ 1 <= c + 1 /\ c + 1 <= (b - 6) + 1 /\ b - 6 \in Nat /\ b - 6 <= x - 5 + 1
      <4> HIDE DEF c, b, x
      <4> QED
        BY <1>3, <1>8, <2>2
    <3>2. SubSeq(info, c + 1, b - 6) = SubSeq(t, 5 + (c + 1) - 1, 5 + (b - 6) - 1)
      <4> DEFINE l == c + 1
                 r == b - 6
      <4> HIDE DEF c, b, x
      <4>1. l \in Nat /\ r \in Nat /\ 1 <= l /\ l <= r + 1 /\ r <= x - 5 + 1
        BY <3>1
      <4>2. x \in Nat /\ 5 <= x + 1 /\ x <= Len(t) /\ 5 \in Nat /\ 1 <= 5
        BY <1>3
      <4> HIDE DEF l, r
      <4>3. SubSeq(SubSeq(t, 5, x), l, r) = SubSeq(t, 5 + l - 1, 5 + r - 1)
        BY <4>1, <4>2, PartOfPart
      <4> QED
        BY <4>3 DEF l, r
    <3>3. 5 + (c + 1) - 1 = d + 1 /\ 5 + (b - 6) - 1 = x /\ x = b - 2
      <4> HIDE DEF c, b, x
      <4> QED
        BY <1>8, <1>3
    <3> HIDE DEF info, c, d, b, x
    <3> QED
      BY <2>1, <3>2, <3>3
  <2>3. CASE c = b - 5
    <3>1. c + 1 \in Int /\ b - 6 \in Int /\ b - 6 < c + 1 /\ d + 1 \in Int /\ b - 2 \in Int /\ b - 2 < d + 1
      <4> HIDE DEF c, b, x
      <4> QED
        BY <1>8, <1>3, <2>3
    <3>2. SubSeq(info, c + 1, b - 6) = <<>>
      <4> HIDE DEF info, c, b, x
      <4> QED
        BY <3>1, SubSeqEmpty
    <3>3. SubSeq(t, d + 1, b - 2) = <<>>
      <4> HIDE DEF d, b
      <4> QED
        BY <3>1, SubSeqEmpty
    <3> QED
      BY <2>1, <3>2, <3>3
  <2>4. c <= b - 6 \/ c = b - 5
    <3> HIDE DEF c, b, x
    <3> QED
      BY <1>3, <1>8
  <2> QED
    BY <2>2, <2>3, <2>4
<1> HIDE DEF b, d
<1> QED
  BY <1>3, <1>5, <1>8, <1>12, <1>13, <1>14

\* The port as the text is written, and between its places.
PortOf(t) == IF PortPart(t) = <<>> THEN <<>> ELSE Tail(PortPart(t))
PortAt(t, k, e) == IF k = e THEN <<>> ELSE SubSeq(t, k + 2, e)

\* The port of a well formed text stands behind the colon that follows the host.
LEMMA PortIs ==
  ASSUME NEW t \in Seq(STRING), WellFormed(t), NEW k \in Nat, NEW e \in Nat,
         1 <= k, k <= e, e <= Len(t), PortPart(t) = SubSeq(t, k + 1, e)
  PROVE  LaidPort(t, k, e) /\ PortOf(t) = PortAt(t, k, e)
<1> DEFINE l == k + 1
           p == SubSeq(t, l, e)
<1>1. l \in Nat /\ 1 <= l /\ l <= e + 1 /\ e - l + 1 = e - k
  OBVIOUS
<1>2. p \in Seq(STRING) /\ Len(p) = e - l + 1 /\ (p = <<>> <=> l = e + 1)
  <2> HIDE DEF l
  <2>1. p \in Seq(STRING) /\ Len(p) = e - l + 1
    BY <1>1, PartOf
  <2>2. p = <<>> <=> l = e + 1
    BY <1>1, PartOf
  <2> QED
    BY <2>1, <2>2
<1>3. \A j \in l .. e : p[j - l + 1] = t[j] /\ j - l + 1 \in 1 .. e - l + 1
  <2> HIDE DEF l
  <2> QED
    BY <1>1, PartOf
<1>4. PortPart(t) = p
  OBVIOUS
<1>5. CASE k = e
  <2>1. p = <<>>
    <3> HIDE DEF p
    <3> QED
      BY <1>2, <1>5
  <2> HIDE DEF p, l
  <2> QED
    BY <1>4, <1>5, <2>1 DEF LaidPort, PortOf, PortAt
<1>6. CASE k # e
  <2>1. p # <<>>
    <3> HIDE DEF p
    <3> QED
      BY <1>2, <1>6
  <2>2. p[1] = ":" /\ Len(p) > 1 /\ Over(Tail(p), {"9"})
    <3> HIDE DEF p, l
    <3> QED
      BY <1>4, <2>1 DEF WellFormed
  <2>3. k + 2 <= e /\ t[k + 1] = ":"
    <3>1. k + 2 <= e
      <4> HIDE DEF p
      <4> QED
        BY <1>2, <2>2
    <3>2. l \in l .. e /\ l - l + 1 = 1
      BY <1>1, <3>1
    <3>3. p[1] = t[l]
      <4> HIDE DEF p, l
      <4> QED
        BY <1>3, <3>2
    <3> QED
      BY <3>1, <3>3, <2>2
  <2>4. Tail(p) = SubSeq(t, k + 2, e)
    <3>1. Tail(p) = SubSeq(p, 2, Len(p))
      <4> HIDE DEF p
      <4> QED
        BY <1>2, <2>1
    <3> DEFINE x == 2
               y == e - k
    <3>2. x \in Nat /\ y \in Nat /\ 1 <= x /\ x <= y + 1 /\ y <= e - l + 1
      BY <2>3
    <3>3. SubSeq(SubSeq(t, l, e), x, y) = SubSeq(t, l + x - 1, l + y - 1)
      <4> HIDE DEF l, x, y
      <4> QED
        BY <1>1, <3>2, PartOfPart
    <3>4. l + x - 1 = k + 2 /\ l + y - 1 = e /\ Len(p) = y
      <4>1. Len(p) = y
        <5> HIDE DEF p
        <5> QED
          BY <1>1, <1>2
      <4> QED
        BY <4>1
    <3> QED
      BY <3>1, <3>3, <3>4
  <2>5. ASSUME NEW i \in k + 2 .. e PROVE t[i] = "9"
    <3> DEFINE m == k + 2
    <3>1. m \in Nat /\ 1 <= m /\ m <= e + 1 /\ i \in m .. e
      BY <2>3
    <3> HIDE DEF m
    <3>2. DOMAIN SubSeq(t, m, e) = 1 .. e - m + 1
          /\ SubSeq(t, m, e)[i - m + 1] = t[i] /\ i - m + 1 \in 1 .. e - m + 1
      BY <3>1, PartOf
    <3>3. Over(SubSeq(t, m, e), {"9"})
      BY <2>2, <2>4 DEF m
    <3> QED
      BY <3>2, <3>3 DEF Over
  <2>6. PortOf(t) = SubSeq(t, k + 2, e)
    <3> HIDE DEF p, l
    <3> QED
      BY <1>4, <2>1, <2>4 DEF PortOf
  <2> HIDE DEF p, l
  <2> QED
    BY <1>6, <2>3, <2>5, <2>6 DEF LaidPort, PortAt
<1> QED
  BY <1>5, <1>6

\* Host and port of a well formed text stand where Laid says.
LEMMA ServerIs ==
  ASSUME NEW t \in Seq(STRING), WellFormed(t), NEW b \in Nat, NEW e \in Nat,
         5 <= b, b <= e + 1, e <= Len(t), ServerOf(t) = SubSeq(t, b, e)
  PROVE  \E k \in Nat :
           /\ b <= k /\ k <= e /\ LaidHost(t, b, k) /\ LaidPort(t, k, e)
           /\ HostOf(t) = HostAt(t, b, k) /\ PortOf(t) = PortAt(t, k, e)
<1> DEFINE s == SubSeq(t, b, e)
<1>1. s \in Seq(STRING) /\ Len(s) = e - b + 1 /\ DOMAIN s = 1 .. e - b + 1 /\ (s = <<>> <=> b = e + 1)
  BY PartOf
<1>2. \A i \in 1 .. e - b + 1 : s[i] = t[b + i - 1]
  BY PartOf
<1>3. b < e + 1 => s[1] = t[b]
  <2>1. b < e + 1 => 1 \in 1 .. e - b + 1 /\ b + 1 - 1 = b
    OBVIOUS
  <2> HIDE DEF s
  <2> QED
    BY <1>2, <2>1
<1>4. CASE Bracketed(t)
  <2> DEFINE f == FirstOf(s, {"]"})
             k == b + f - 1
  <2>1. b < e + 1 /\ t[b] = "["
    <3>1. s # <<>> /\ s[1] = "["
      BY <1>4 DEF Bracketed
    <3>2. b < e + 1
      <4> HIDE DEF s
      <4> QED
        BY <3>1, <1>1
    <3> QED
      BY <3>1, <3>2, <1>3
  <2>2. /\ f \in 1 .. (e - b + 1) + 1 /\ \A i \in 1 .. f - 1 : s[i] \notin {"]"}
        /\ f <= e - b + 1 => s[f] \in {"]"}
    <3>1. /\ f \in 1 .. Len(s) + 1 /\ \A i \in 1 .. f - 1 : s[i] \notin {"]"}
          /\ f <= Len(s) => s[f] \in {"]"}
      <4> HIDE DEF s
      <4> QED
        BY <1>1, FirstOfIs
    <3> HIDE DEF f, s
    <3> QED
      BY <1>1, <3>1
  <2>3. f <= e - b + 1
    <3>1. "]" \in Range(s)
      BY <1>4 DEF WellFormed
    <3>2. PICK i \in 1 .. e - b + 1 : s[i] = "]"
      <4> HIDE DEF s
      <4> QED
        BY <3>1, <1>1 DEF Range
    <3>3. i \notin 1 .. f - 1
      <4> HIDE DEF f, s
      <4> QED
        BY <2>2, <3>2
    <3> HIDE DEF f, s
    <3> QED
      BY <2>2, <3>2, <3>3
  <2>4. f \in Nat /\ 2 <= f /\ f \in 1 .. e - b + 1 /\ s[f] = "]"
    <3>1. s[1] = "["
      BY <1>3, <2>1
    <3>2. f # 1
      <4> HIDE DEF f, s
      <4> QED
        BY <2>2, <2>3, <3>1
    <3> HIDE DEF f, s
    <3> QED
      BY <2>2, <2>3, <3>2
  <2>5. k \in Nat /\ b < k /\ k <= e /\ t[k] = "]"
    <3>1. s[f] = t[k]
      <4> HIDE DEF f, s
      <4> QED
        BY <1>2, <2>4
    <3> HIDE DEF f, s
    <3> QED
      BY <2>4, <3>1
  <2>6. HostOf(t) = SubSeq(t, b + 1, k - 1) /\ Len(HostOf(t)) = f - 2
    <3> DEFINE x == 2
               y == f - 1
    <3>1. HostOf(t) = SubSeq(SubSeq(t, b, e), x, y)
      BY <1>4 DEF HostOf
    <3>2. x \in Nat /\ y \in Nat /\ 1 <= x /\ x <= y + 1 /\ y <= e - b + 1 /\ 1 <= b /\ b <= e + 1
      <4> HIDE DEF f, s
      <4> QED
        BY <2>4
    <3>3. SubSeq(SubSeq(t, b, e), x, y) = SubSeq(t, b + x - 1, b + y - 1)
      <4> HIDE DEF x, y
      <4> QED
        BY <3>2, PartOfPart
    <3>4. b + x - 1 = b + 1 /\ b + y - 1 = k - 1
      <4> HIDE DEF f, s
      <4> QED
        BY <2>4
    <3>5. Len(SubSeq(SubSeq(t, b, e), x, y)) = y - x + 1
      <4> HIDE DEF x, y
      <4>1. y <= Len(s)
        <5> HIDE DEF s
        <5> QED
          BY <1>1, <3>2
      <4>2. Len(SubSeq(s, x, y)) = y - x + 1
        <5> HIDE DEF s
        <5> QED
          BY <4>1, <1>1, <3>2, PartOf
      <4> QED
        BY <4>2
    <3>6. y - x + 1 = f - 2
      <4> HIDE DEF f, s
      <4> QED
        BY <2>4
    <3> HIDE DEF f, s, x, y, k
    <3> QED
      BY <3>1, <3>3, <3>4, <3>5, <3>6
  <2>7. PortPart(t) = SubSeq(t, k + 1, e)
    <3> DEFINE x == f + 1
               y == e - b + 1
    <3>1. PortPart(t) = SubSeq(s, Len(HostOf(t)) + 3, Len(s))
      BY <1>4 DEF PortPart
    <3>2. Len(HostOf(t)) + 3 = x /\ Len(s) = y
      <4> HIDE DEF f, s
      <4> QED
        BY <1>1, <2>4, <2>6
    <3>3. x \in Nat /\ y \in Nat /\ 1 <= x /\ x <= y + 1 /\ y <= e - b + 1 /\ 1 <= b /\ b <= e + 1
      <4> HIDE DEF f, s
      <4> QED
        BY <2>4
    <3>4. SubSeq(SubSeq(t, b, e), x, y) = SubSeq(t, b + x - 1, b + y - 1)
      <4> HIDE DEF x, y
      <4> QED
        BY <3>3, PartOfPart
    <3>5. b + x - 1 = k + 1 /\ b + y - 1 = e
      <4> HIDE DEF f, s
      <4> QED
        BY <2>4
    <3> HIDE DEF f, x, y, k
    <3> QED
      BY <3>1, <3>2, <3>4, <3>5
  <2>8. LaidHost(t, b, k)
    <3>1. GoodIpv6(HostOf(t))
      BY <1>4 DEF WellFormed
    <3> HIDE DEF k
    <3> QED
      BY <3>1, <2>1, <2>5, <2>6 DEF LaidHost
  <2>9. HostOf(t) = HostAt(t, b, k)
    <3> HIDE DEF k
    <3> QED
      BY <2>1, <2>6 DEF HostAt
  <2> HIDE DEF k
  <2>10. LaidPort(t, k, e) /\ PortOf(t) = PortAt(t, k, e)
    <3>1. 1 <= k
      BY <2>5
    <3> QED
      BY <2>5, <2>7, <3>1, PortIs
  <2>11. b <= k
    BY <2>5
  <2> QED
    BY <2>5, <2>8, <2>9, <2>10, <2>11
<1>5. CASE ~Bracketed(t)
  <2> DEFINE f == FirstOf(s, {":"})
             k == b + f - 2
  <2>1. f \in 1 .. (e - b + 1) + 1
    <3>1. f \in 1 .. Len(s) + 1
      <4> HIDE DEF s
      <4> QED
        BY <1>1, FirstOfIs
    <3> HIDE DEF f, s
    <3> QED
      BY <1>1, <3>1
  <2> DEFINE x == 1
             y == f - 1
  <2>2. f \in Nat /\ x \in Nat /\ y \in Nat /\ 1 <= x /\ x <= y + 1 /\ y <= e - b + 1 /\ 1 <= b /\ b <= e + 1
    <3> HIDE DEF f, s
    <3> QED
      BY <2>1
  <2>3. HostOf(t) = SubSeq(t, b, k) /\ Len(HostOf(t)) = f - 1
    <3>1. HostOf(t) = SubSeq(SubSeq(t, b, e), x, y)
      BY <1>5 DEF HostOf
    <3>3. SubSeq(SubSeq(t, b, e), x, y) = SubSeq(t, b + x - 1, b + y - 1)
      <4> HIDE DEF x, y
      <4> QED
        BY <2>2, PartOfPart
    <3>4. b + x - 1 = b /\ b + y - 1 = k
      <4> HIDE DEF f, s
      <4> QED
        BY <2>2
    <3>5. Len(SubSeq(SubSeq(t, b, e), x, y)) = y - x + 1
      <4> HIDE DEF x, y
      <4>1. y <= Len(s)
        <5> HIDE DEF s
        <5> QED
          BY <1>1, <2>2
      <4>2. Len(SubSeq(s, x, y)) = y - x + 1
        <5> HIDE DEF s
        <5> QED
          BY <4>1, <1>1, <2>2, PartOf
      <4> QED
        BY <4>2
    <3>6. y - x + 1 = f - 1
      <4> HIDE DEF f, s
      <4> QED
        BY <2>2
    <3> HIDE DEF f, s, x, y, k
    <3> QED
      BY <3>1, <3>3, <3>4, <3>5, <3>6
  <2>4. GoodName(HostOf(t)) /\ HostOf(t) # <<>>
    BY <1>5 DEF WellFormed, GoodName
  <2>5. f # 1
    <3>1. ASSUME f = 1 PROVE FALSE
      <4>1. HostOf(t) = SubSeq(SubSeq(t, b, e), 1, 0)
        <5>1. HostOf(t) = SubSeq(SubSeq(t, b, e), x, y)
          BY <1>5 DEF HostOf
        <5>2. y = 0
          <6> HIDE DEF f
          <6> QED
            BY <3>1
        <5> HIDE DEF y
        <5> QED
          BY <5>1, <5>2
      <4>2. SubSeq(SubSeq(t, b, e), 1, 0) = <<>>
        BY SubSeqEmpty
      <4> QED
        BY <4>1, <4>2, <2>4
    <3> QED
      BY <3>1
  <2>6. k \in Nat /\ b <= k /\ k <= e /\ b < e + 1
    <3> HIDE DEF f
    <3> QED
      BY <2>1, <2>5
  <2>7. PortPart(t) = SubSeq(t, k + 1, e)
    <3> DEFINE v == f
               w == e - b + 1
    <3>1. PortPart(t) = SubSeq(s, Len(HostOf(t)) + 1, Len(s))
      BY <1>5 DEF PortPart
    <3>2. Len(HostOf(t)) + 1 = v /\ Len(s) = w
      <4> HIDE DEF f, s
      <4> QED
        BY <1>1, <2>2, <2>3
    <3>3. v \in Nat /\ w \in Nat /\ 1 <= v /\ v <= w + 1 /\ w <= e - b + 1 /\ 1 <= b /\ b <= e + 1
      <4> HIDE DEF f, s
      <4> QED
        BY <2>1
    <3>4. SubSeq(SubSeq(t, b, e), v, w) = SubSeq(t, b + v - 1, b + w - 1)
      <4> HIDE DEF v, w
      <4> QED
        BY <3>3, PartOfPart
    <3>5. b + v - 1 = k + 1 /\ b + w - 1 = e
      <4> HIDE DEF f, s
      <4> QED
        BY <2>2
    <3> HIDE DEF f, v, w, k
    <3> QED
      BY <3>1, <3>2, <3>4, <3>5
  <2>8. t[b] # "["
    <3>1. s # <<>>
      <4> HIDE DEF s
      <4> QED
        BY <1>1, <2>6
    <3>2. s[1] # "["
      BY <1>5, <3>1 DEF Bracketed
    <3> HIDE DEF s
    <3> QED
      BY <1>3, <2>6, <3>2
  <2> HIDE DEF k
  <2>9. LaidHost(t, b, k) /\ HostOf(t) = HostAt(t, b, k)
    BY <2>3, <2>4, <2>8 DEF LaidHost, HostAt
  <2>10. LaidPort(t, k, e) /\ PortOf(t) = PortAt(t, k, e)
    <3>1. 1 <= k
      BY <2>6
    <3> QED
      BY <2>6, <2>7, <3>1, PortIs
  <2> QED
    BY <2>6, <2>9, <2>10
<1> QED
  BY <1>4, <1>5

\* A well formed text is laid out so, and written as its parts say.
LEMMA LaidOut ==
  ASSUME NEW t \in Seq(STRING), WellFormed(t)
  PROVE  \E b, d, k, e \in Nat :
           /\ Laid(t, b, d, k, e)
           /\ AsWritten(t) = [accepted |-> TRUE, scheme |-> <<t[1]>>,
                            username |-> UserAt(t, b, d), password |-> PasswordAt(t, b, d),
                            host |-> HostAt(t, b, k), port |-> PortAt(t, k, e)]
<1>1. PICK e \in Nat : /\ 4 <= e /\ e <= Len(t) /\ AuthorityOf(t) = SubSeq(t, 5, e)
                       /\ LaidRest(t, e)
  BY AuthorityIs
<1>2. PICK b \in Nat, d \in Nat :
        /\ 5 <= b /\ b <= e + 1 /\ LaidInfo(t, b, d) /\ ServerOf(t) = SubSeq(t, b, e)
        /\ UserOf(t) = UserAt(t, b, d) /\ PasswordOf(t) = PasswordAt(t, b, d)
  <2>1. CASE HasInfo(t)
    <3>1. PICK b \in Nat, d \in Nat :
           /\ 5 < b /\ b <= e + 1 /\ LaidInfo(t, b, d) /\ ServerOf(t) = SubSeq(t, b, e)
           /\ UserOf(t) = SubSeq(t, 5, d - 1) /\ PasswordOf(t) = SubSeq(t, d + 1, b - 2)
      BY <1>1, <2>1, SomeInfoIs
    <3>2. 5 <= b /\ b # 5
      BY <3>1
    <3> QED
      BY <3>1, <3>2 DEF UserAt, PasswordAt
  <2>2. CASE ~HasInfo(t)
    <3>1. /\ LaidInfo(t, 5, 5) /\ ServerOf(t) = SubSeq(t, 5, e)
          /\ UserOf(t) = <<>> /\ PasswordOf(t) = <<>>
      BY <1>1, <2>2, NoInfoIs
    <3>2. 5 \in Nat /\ 5 <= 5 /\ 5 <= e + 1
      BY <1>1
    <3> QED
      BY <3>1, <3>2 DEF UserAt, PasswordAt
  <2> QED
    BY <2>1, <2>2
<1>3. PICK k \in Nat :
        /\ b <= k /\ k <= e /\ LaidHost(t, b, k) /\ LaidPort(t, k, e)
        /\ HostOf(t) = HostAt(t, b, k) /\ PortOf(t) = PortAt(t, k, e)
  BY <1>1, <1>2, ServerIs
<1>4. Laid(t, b, d, k, e)
  BY <1>1, <1>2, <1>3 DEF Laid
<1>5. AsWritten(t) = [accepted |-> TRUE, scheme |-> <<t[1]>>, username |-> UserOf(t),
                    password |-> PasswordOf(t), host |-> HostOf(t), port |-> PortOf(t)]
  BY DEF AsWritten, UserOf, PasswordOf, PortOf
<1> QED
  BY <1>2, <1>3, <1>4, <1>5

---------------------------------------------------------------------------
(* The state of the parser.                                               *)

\* What the parser reads, and what it knows behind a symbol.
Text == Seq(STRING)
States ==
  {"scheme_start", "scheme", "slash_start", "slash", "urn", "probe", "host", "port", "path", "query",
   "fragment"}
Verdicts == {"none", "accepted", "refused"}
PState ==
  [state : States, verdict : Verdicts, from : Nat, next : Nat,
   six : BOOLEAN, v6start : Nat, v6end : Nat,
   probe : Text, portAt : Nat, hasPort : BOOLEAN, portValid : BOOLEAN,
   scheme : Text, username : Text, password : Text, host : Text, port : Text]

\* What p has found of the parts.
SameParts(p, q) ==
  /\ q.scheme = p.scheme /\ q.username = p.username /\ q.password = p.password
  /\ q.host = p.host /\ q.port = p.port
\* What p knows of a text that may be user information or the server.
SameProbe(p, q) ==
  /\ q.six = p.six /\ q.v6start = p.v6start /\ q.v6end = p.v6end
  /\ q.probe = p.probe /\ q.portAt = p.portAt /\ q.hasPort = p.hasPort /\ q.portValid = p.portValid

\* A new part of the text changes nothing that has been found so far.
LEMMA EnterIs ==
  ASSUME NEW p \in PState, NEW s \in States, NEW k \in Nat
  PROVE  /\ Enter(p, s, k) \in PState
         /\ Enter(p, s, k).state = s /\ Enter(p, s, k).from = k /\ Enter(p, s, k).next = k
         /\ Enter(p, s, k).verdict = p.verdict
         /\ SameParts(p, Enter(p, s, k)) /\ SameProbe(p, Enter(p, s, k))
<1>1. Enter(p, s, k) \in PState
  BY DEF Enter, PState
<1>2. /\ Enter(p, s, k).state = s /\ Enter(p, s, k).from = k /\ Enter(p, s, k).next = k
      /\ Enter(p, s, k).verdict = p.verdict
  BY DEF Enter, PState
<1>3. SameParts(p, Enter(p, s, k)) /\ SameProbe(p, Enter(p, s, k))
  BY DEF Enter, PState, SameParts, SameProbe
<1> QED
  BY <1>1, <1>2, <1>3

\* It does not end the reading.
LEMMA EnterReads ==
  ASSUME NEW p \in PState, NEW s \in States, NEW k \in Nat, p.verdict = "none"
  PROVE  Enter(p, s, k).verdict = "none"
BY EnterIs

\* A verdict changes nothing that has been found.
LEMMA VerdictIs ==
  ASSUME NEW p \in PState, NEW v \in Verdicts
  PROVE  /\ [p EXCEPT !.verdict = v] \in PState /\ [p EXCEPT !.verdict = v].verdict = v
         /\ SameParts(p, [p EXCEPT !.verdict = v])
<1>1. [p EXCEPT !.verdict = v] \in PState /\ [p EXCEPT !.verdict = v].verdict = v
  BY DEF PState
<1>2. SameParts(p, [p EXCEPT !.verdict = v])
  BY DEF PState, SameParts
<1> QED
  BY <1>1, <1>2

\* Nor does acceptance.
LEMMA AcceptIs ==
  ASSUME NEW p \in PState, p.verdict = "none"
  PROVE  Accept(p) \in PState /\ Accept(p).verdict = "accepted" /\ SameParts(p, Accept(p))
<1>1. Accept(p) = [p EXCEPT !.verdict = "accepted"]
  BY DEF Accept
<1>2. "accepted" \in Verdicts
  BY DEF Verdicts
<1> QED
  BY <1>1, <1>2, VerdictIs

\* A host of the usual form is taken: CheckHost accepts it (uri.ipp:74).
LEMMA WithHostIs ==
  ASSUME NEW p \in PState, NEW h \in Text,
         (p.six = TRUE /\ GoodIpv6(h)) \/ (p.six = FALSE /\ GoodName(h))
  PROVE  /\ WithHost(p, h) = [p EXCEPT !.host = h]
         /\ WithHost(p, h) \in PState /\ WithHost(p, h).host = h
         /\ WithHost(p, h).verdict = p.verdict /\ WithHost(p, h).state = p.state
         /\ WithHost(p, h).from = p.from /\ WithHost(p, h).next = p.next
         /\ WithHost(p, h).scheme = p.scheme /\ WithHost(p, h).username = p.username
         /\ WithHost(p, h).password = p.password /\ WithHost(p, h).port = p.port
         /\ SameProbe(p, WithHost(p, h))
<1>1. CheckHost(h, p.six)
  BY GoodIpv6Accepted, GoodNameAccepted DEF CheckHost, Text
<1>2. WithHost(p, h) = [p EXCEPT !.host = h]
  BY <1>1 DEF WithHost
<1>3. [p EXCEPT !.host = h] \in PState
  BY DEF PState
<1> DEFINE q == [p EXCEPT !.host = h]
<1>4. /\ q.host = h /\ q.verdict = p.verdict /\ q.state = p.state /\ q.from = p.from /\ q.next = p.next
      /\ q.scheme = p.scheme /\ q.username = p.username /\ q.password = p.password /\ q.port = p.port
  BY DEF PState
<1>5. SameProbe(p, q)
  BY DEF PState, SameProbe
<1> QED
  BY <1>2, <1>3, <1>4, <1>5

\* What has been read so far is the form's last part but for what follows.
Accepted(t, q) ==
  /\ Run(t)[Len(t)] \in PState /\ Run(t)[Len(t)].verdict = "accepted"
  /\ SameParts(q, Run(t)[Len(t)])

\* As long as there is no verdict a symbol is read in the state it meets.
LEMMA RunReads ==
  ASSUME NEW t \in Text, NEW i \in Nat, 1 <= i, i <= Len(t), NEW p, p = Run(t)[i - 1],
         p \in PState, p.verdict = "none", p.next <= i
  PROVE  Run(t)[i] = Read(t, p, i)
<1>1. i \in 1 .. Len(t)
  OBVIOUS
<1>2. Run(t)[i] = Turn(t, p, i)
  BY <1>1, RunIs DEF Text
<1>3. p.next \in Nat
  BY DEF PState
<1>4. i >= p.next
  BY <1>3
<1> QED
  BY <1>2, <1>4 DEF Turn

\* When each symbol from lo to hi leaves the parser as it is, it is at hi as it
\* was at lo.
LEMMA RunStays ==
  ASSUME NEW t \in Text, NEW lo \in Nat, NEW hi \in Nat, lo <= hi, hi <= Len(t),
         \A i \in lo + 1 .. hi : Turn(t, Run(t)[lo], i) = Run(t)[lo]
  PROVE  Run(t)[hi] = Run(t)[lo]
<1> DEFINE S == {i \in Nat : Run(t)[i] = Run(t)[lo]}
<1>1. lo \in S
  OBVIOUS
<1>2. ASSUME NEW i \in Nat, lo <= i, i < hi, i \in S PROVE i + 1 \in S
  <2>1. i + 1 \in 1 .. Len(t) /\ (i + 1) - 1 = i /\ i + 1 \in lo + 1 .. hi /\ i + 1 \in Nat
    BY <1>2
  <2>2. Run(t)[i + 1] = Turn(t, Run(t)[(i + 1) - 1], i + 1)
    BY <2>1, RunIs DEF Text
  <2>3. Run(t)[i] = Run(t)[lo]
    BY <1>2
  <2>4. Run(t)[i + 1] = Run(t)[lo]
    BY <2>1, <2>2, <2>3
  <2> QED
    BY <2>1, <2>4
<1>3. \A i \in lo .. hi : i \in S
  <2> HIDE DEF S
  <2> QED
    BY <1>1, <1>2, RangeInduction
<1> QED
  BY <1>3

\* A turn of the loop that reads and finds nothing new changes nothing.
LEMMA TurnStays ==
  ASSUME NEW t, NEW p \in PState, NEW i \in Nat, p.verdict = "none", p.next <= i, Read(t, p, i) = p
  PROVE  Turn(t, p, i) = p
BY DEF Turn

---------------------------------------------------------------------------
(* Path, query and fragment.                                              *)

\* A symbol of path, query or fragment that does not end it is passed over
\* (uri.ipp:512).
LEMMA RestStays ==
  ASSUME NEW t \in Text, NEW p \in PState, p.state \in {"path", "query", "fragment"},
         NEW i \in Nat, i < Len(t), t[i] \in Unreserved \cup {"/"}
  PROVE  Read(t, p, i) = p
<1>1. t[i] \notin {"?", "#"} /\ i # Len(t)
  <2>1. Len(t) \in Nat
    BY DEF Text
  <2>2. i # Len(t)
    BY <2>1
  <2>3. t[i] \notin {"?", "#"}
    BY DEF Unreserved, Alpha
  <2> QED
    BY <2>2, <2>3
<1>2. t[i] \in Unreserved \cup SubDelims \cup {"%", "/", "&", ":"}
      /\ t[i] \in HSegment \cup SubDelims \cup {"/"}
  BY DEF HSegment
<1>3. Path(t, p, i) = p
  BY <1>1, <1>2 DEF Path
<1>4. Query(t, p, i) = p
  BY <1>1, <1>2 DEF Query
<1>5. Fragment(t, p, i) = p
  BY <1>1, <1>2 DEF Fragment
<1>6. CASE p.state = "path"
  BY <1>6, <1>3 DEF Read
<1>7. CASE p.state = "query"
  BY <1>7, <1>4 DEF Read
<1>8. CASE p.state = "fragment"
  BY <1>8, <1>5 DEF Read
<1> QED
  BY <1>6, <1>7, <1>8

\* The last symbol of path, query or fragment ends the text.
LEMMA RestEnds ==
  ASSUME NEW t \in Text, NEW p \in PState, p.state \in {"path", "query", "fragment"},
         t[Len(t)] \in Unreserved \cup {"/"}
  PROVE  Read(t, p, Len(t)) = Accept(p)
<1>1. t[Len(t)] \notin {"?", "#"}
  BY DEF Unreserved, Alpha
<1>3. Path(t, p, Len(t)) = Accept(p)
  BY <1>1 DEF Path
<1>4. Query(t, p, Len(t)) = Accept(p)
  BY <1>1 DEF Query
<1>5. Fragment(t, p, Len(t)) = Accept(p)
  BY DEF Fragment
<1>6. CASE p.state = "path"
  BY <1>6, <1>3 DEF Read
<1>7. CASE p.state = "query"
  BY <1>7, <1>4 DEF Read
<1>8. CASE p.state = "fragment"
  BY <1>8, <1>5 DEF Read
<1> QED
  BY <1>6, <1>7, <1>8

\* What is left of the text is passed over, and the text accepted.
LEMMA RestRead ==
  ASSUME NEW t \in Text, NEW j \in Nat, j < Len(t), NEW p \in PState, p = Run(t)[j],
         p.verdict = "none", p.state \in {"path", "query", "fragment"}, p.next <= j + 1,
         \A i \in j + 1 .. Len(t) : t[i] \in Unreserved \cup {"/"}
  PROVE  Accepted(t, p)
<1> DEFINE n == Len(t)
<1>1. n \in Nat /\ n - 1 \in Nat /\ j <= n - 1 /\ n - 1 <= n /\ p.next \in Nat /\ n \in j + 1 .. n /\ 1 <= n
  BY DEF PState, Text
<1>2. ASSUME NEW i \in j + 1 .. n - 1 PROVE Turn(t, p, i) = p
  <2>1. i \in Nat /\ i < n /\ i \in j + 1 .. n /\ p.next <= i
    BY <1>1
  <2>2. Read(t, p, i) = p
    BY <2>1, RestStays
  <2> QED
    BY <2>1, <2>2, TurnStays
<1>3. Run(t)[n - 1] = p
  <2> HIDE DEF n
  <2> QED
    BY <1>1, <1>2, RunStays DEF n
<1>4. Run(t)[n] = Read(t, p, n)
  <2>1. p.next <= n
    BY <1>1
  <2> QED
    BY <1>1, <1>3, <2>1, RunReads
<1>5. Read(t, p, n) = Accept(p)
  BY <1>1, RestEnds
<1> QED
  BY <1>4, <1>5, AcceptIs DEF Accepted

\* Behind host and port a path, a query or a fragment is passed over.
LEMMA AfterHostRead ==
  ASSUME NEW t \in Text, NEW e \in Nat, e < Len(t), LaidRest(t, e),
         NEW q \in PState, q.verdict = "none", Run(t)[e + 1] = AfterHost(t, q, e + 1)
  PROVE  Accepted(t, q)
<1> DEFINE n == Len(t)
           f == e + 1
<1>1. /\ n \in Nat /\ f \in Nat /\ f <= n /\ t[f] \in Delims
      /\ (\A i \in f + 1 .. n : t[i] \in Unreserved \cup {"/"})
      /\ t[n] \notin {"?", "#"}
  <2>1. e + 2 = f + 1
    OBVIOUS
  <2> QED
    BY <2>1 DEF LaidRest, Text
<1>2. Run(t)[f] = AfterHost(t, q, f)
  OBVIOUS
<1> HIDE DEF f
<1>3. CASE t[f] = "/"
  <2> DEFINE p == Enter(q, "path", f)
  <2>1. /\ p \in PState /\ p.verdict = "none" /\ p.state = "path" /\ p.next = f /\ SameParts(q, p)
    <3>1. f \in Nat
      BY <1>1
    <3>2. "path" \in States
      BY DEF States
    <3> QED
      BY <3>1, <3>2, EnterIs
  <2>2. AfterHost(t, q, f) = Path(t, p, f)
    BY <1>3 DEF AfterHost
  <2> HIDE DEF p
  <2>3. CASE f = n
    <3>1. Path(t, p, f) = Accept(p)
      BY <1>3, <2>3 DEF Path
    <3>2. Run(t)[Len(t)] = Accept(p)
      BY <1>2, <2>2, <2>3, <3>1
    <3>3. Accept(p) \in PState /\ Accept(p).verdict = "accepted" /\ SameParts(p, Accept(p))
      BY <2>1, AcceptIs
    <3>4. SameParts(q, Accept(p))
      BY <2>1, <3>3 DEF SameParts
    <3> QED
      BY <3>2, <3>3, <3>4 DEF Accepted
  <2>4. CASE f < n
    <3>1. Path(t, p, f) = p
      BY <1>3, <1>1, <2>4 DEF Path
    <3>2. Run(t)[f] = p
      BY <1>2, <2>2, <3>1
    <3>3. p.next <= f + 1 /\ f < Len(t)
      BY <1>1, <2>1, <2>4
    <3>4. Accepted(t, p)
      BY <1>1, <2>1, <3>2, <3>3, RestRead
    <3> QED
      BY <2>1, <3>4 DEF Accepted, SameParts
  <2> QED
    BY <1>1, <2>3, <2>4
<1>4. CASE t[f] \in {"?", "#"}
  <2> DEFINE s == IF t[f] = "?" THEN "query" ELSE "fragment"
             p == Enter(q, s, f + 1)
  <2>1. /\ p \in PState /\ p.verdict = "none" /\ p.state \in {"query", "fragment"} /\ p.next = f + 1
        /\ SameParts(q, p)
    <3>1. s \in {"query", "fragment"}
      OBVIOUS
    <3>2. f + 1 \in Nat
      BY <1>1
    <3> DEFINE g == f + 1
    <3> HIDE DEF s, g
    <3>3. g \in Nat
      BY <3>2 DEF g
    <3>5. s \in States
      BY <3>1 DEF States
    <3>4. /\ Enter(q, s, g) \in PState
          /\ Enter(q, s, g).state = s /\ Enter(q, s, g).next = g
          /\ Enter(q, s, g).verdict = q.verdict /\ SameParts(q, Enter(q, s, g))
      BY <3>3, <3>5, EnterIs
    <3> QED
      BY <3>1, <3>4 DEF g
  <2>2. f < n
    BY <1>1, <1>4
  <2>3. AfterHost(t, q, f) = p
    <3>1. AfterHost(t, q, f) = Section(t, q, f)
      BY <1>4 DEF AfterHost
    <3>2. Section(t, q, f) = p
      BY <2>2, <1>1 DEF Section
    <3> QED
      BY <3>1, <3>2
  <2> HIDE DEF p
  <2>4. Accepted(t, p)
    <3>1. Run(t)[f] = p /\ p.next <= f + 1
      BY <1>1, <1>2, <2>1, <2>3
    <3> QED
      BY <1>1, <2>1, <2>2, <3>1, RestRead
  <2> QED
    BY <2>1, <2>4 DEF Accepted, SameParts
<1> QED
  BY <1>1, <1>3, <1>4 DEF Delims

\* The port is x.
WithPort(p, x) == [p EXCEPT !.port = x]

\* It changes nothing else.
LEMMA WithPortIs ==
  ASSUME NEW p \in PState, NEW x \in Text
  PROVE  /\ WithPort(p, x) \in PState /\ WithPort(p, x).port = x
         /\ WithPort(p, x).verdict = p.verdict /\ WithPort(p, x).state = p.state
         /\ WithPort(p, x).from = p.from /\ WithPort(p, x).next = p.next
         /\ WithPort(p, x).scheme = p.scheme /\ WithPort(p, x).username = p.username
         /\ WithPort(p, x).password = p.password /\ WithPort(p, x).host = p.host
         /\ SameProbe(p, WithPort(p, x))
<1> DEFINE q == [p EXCEPT !.port = x]
<1>1. q \in PState
  BY DEF PState
<1>2. /\ q.port = x /\ q.verdict = p.verdict /\ q.state = p.state /\ q.from = p.from /\ q.next = p.next
      /\ q.scheme = p.scheme /\ q.username = p.username /\ q.password = p.password /\ q.host = p.host
  BY DEF PState
<1>3. SameProbe(p, q)
  BY DEF PState, SameProbe
<1>4. q = WithPort(p, x)
  BY DEF WithPort
<1> QED
  BY <1>1, <1>2, <1>3, <1>4

\* The last symbol has been read.
LEMMA EndsAccepted ==
  ASSUME NEW t \in Text, NEW q \in PState, q.verdict = "none", Run(t)[Len(t)] = Accept(q)
  PROVE  Accepted(t, q)
BY AcceptIs DEF Accepted

\* A port behind user information and host is read to its end (uri.ipp:478).
LEMMA PortRead ==
  ASSUME NEW t \in Text, NEW k \in Nat, NEW e \in Nat, k + 2 <= e, e <= Len(t),
         \A i \in k + 2 .. e : t[i] = "9", LaidRest(t, e),
         NEW p \in PState, p = Run(t)[k + 1], p.verdict = "none", p.state = "port",
         p.from = k + 2, p.next = k + 2
  PROVE  Accepted(t, WithPort(p, SubSeq(t, k + 2, e)))
<1> DEFINE n == Len(t)
           x == SubSeq(t, k + 2, e)
           q == WithPort(p, x)
<1>0. n \in Nat
  BY DEF Text
<1>1. x \in Text
  <2> DEFINE m == k + 2
  <2>1. m \in Nat /\ 1 <= m /\ m <= e + 1
    OBVIOUS
  <2> HIDE DEF m
  <2>2. SubSeq(t, m, e) \in Seq(STRING)
    BY <2>1, PartOf DEF Text
  <2> QED
    BY <2>2 DEF m, Text
<1>2. q \in PState /\ q.verdict = "none"
  <2> HIDE DEF x
  <2> QED
    BY <1>1, WithPortIs
<1>3. \A i \in Nat : Read(t, p, i) = Port(t, p, i)
  BY DEF Read
<1>4. ASSUME NEW i \in Nat, k + 2 <= i, i <= e, i < n PROVE Turn(t, p, i) = p
  <2>1. t[i] = "9" /\ i # n /\ p.next <= i
    BY <1>0, <1>4
  <2>2. Port(t, p, i) = p
    BY <2>1, <1>4 DEF Port
  <2> QED
    BY <1>3, <2>1, <2>2, TurnStays
<1>5. CASE e = n
  <2>1. n - 1 \in Nat /\ k + 1 \in Nat /\ k + 1 <= n - 1 /\ n - 1 <= n /\ p.next <= n /\ 1 <= n
    BY <1>0, <1>5
  <2>2. ASSUME NEW i \in (k + 1) + 1 .. n - 1 PROVE Turn(t, p, i) = p
    <3>1. i \in Nat /\ k + 2 <= i /\ i <= e /\ i < n
      BY <1>0, <1>5
    <3> QED
      BY <3>1, <1>4
  <2>3. Run(t)[n - 1] = p
    <3> DEFINE l == k + 1
               h == n - 1
    <3>1. l \in Nat /\ h \in Nat /\ l <= h /\ h <= Len(t) /\ Run(t)[l] = p
      BY <2>1
    <3>2. \A i \in l + 1 .. h : Turn(t, p, i) = p
      BY <2>2
    <3> HIDE DEF l, h
    <3>3. Run(t)[h] = p
      BY <3>1, <3>2, RunStays
    <3> QED
      BY <3>3 DEF h
  <2>4. Run(t)[n] = Port(t, p, n)
    <3>1. Run(t)[n] = Read(t, p, n)
      <4> HIDE DEF n
      <4>1. n <= Len(t) /\ n \in Nat /\ 1 <= n
        BY <1>0, <2>1 DEF n
      <4> QED
        BY <4>1, <2>1, <2>3, RunReads
    <3> QED
      BY <3>1, <1>3, <1>0
  <2>5. t[n] = "9"
    <3>1. n \in k + 2 .. e
      BY <1>0, <1>5
    <3> QED
      BY <3>1
  <2>6. Port(t, p, n) = Accept(q)
    <3>1. Port(t, p, n) = Accept([p EXCEPT !.port = SubSeq(t, p.from, n)])
      BY <2>5 DEF Port
    <3> QED
      BY <3>1, <1>5 DEF WithPort
  <2>7. Accepted(t, q)
    <3> HIDE DEF q
    <3> QED
      BY <1>2, <2>4, <2>6, EndsAccepted
  <2> QED
    BY <2>7
<1>6. CASE e < n
  <2>1. ASSUME NEW i \in (k + 1) + 1 .. e PROVE Turn(t, p, i) = p
    <3>1. i \in Nat /\ k + 2 <= i /\ i <= e /\ i < n
      BY <1>0, <1>6
    <3> QED
      BY <3>1, <1>4
  <2>2. Run(t)[e] = p
    <3> DEFINE l == k + 1
    <3>1. l \in Nat /\ l <= e /\ e <= Len(t) /\ Run(t)[l] = p
      BY <1>6
    <3>2. \A i \in l + 1 .. e : Turn(t, p, i) = p
      BY <2>1
    <3> HIDE DEF l
    <3> QED
      BY <3>1, <3>2, RunStays
  <2>3. Run(t)[e + 1] = Port(t, p, e + 1)
    <3> DEFINE g == e + 1
    <3>1. g \in Nat /\ 1 <= g /\ g <= Len(t) /\ g - 1 = e /\ p.next <= g
      BY <1>0, <1>6
    <3> HIDE DEF g
    <3>2. Run(t)[g] = Read(t, p, g)
      BY <2>2, <3>1, RunReads
    <3>3. Run(t)[g] = Port(t, p, g)
      BY <3>1, <3>2, <1>3
    <3> QED
      BY <3>3 DEF g
  <2>4. t[e + 1] \in {"/", "?", "#"}
    BY <1>6 DEF LaidRest, Delims
  <2>5. Port(t, p, e + 1) = AfterHost(t, q, e + 1)
    <3>1. Port(t, p, e + 1) = AfterHost(t, [p EXCEPT !.port = SubSeq(t, p.from, (e + 1) - 1)], e + 1)
      BY <2>4 DEF Port
    <3>2. (e + 1) - 1 = e
      OBVIOUS
    <3> QED
      BY <3>1, <3>2 DEF WithPort
  <2>7. Accepted(t, q)
    <3> HIDE DEF q
    <3> QED
      BY <1>2, <1>6, <2>3, <2>5, AfterHostRead
  <2> QED
    BY <2>7
<1> QED
  BY <1>0, <1>5, <1>6

\* What is left of the text when it has been read, as Parse returns it.
Outcome(t, scheme, username, password, host, port) ==
  /\ Run(t)[Len(t)].verdict = "accepted"
  /\ Run(t)[Len(t)].scheme = scheme
  /\ Run(t)[Len(t)].username = username /\ Run(t)[Len(t)].password = password
  /\ Run(t)[Len(t)].host = host /\ Run(t)[Len(t)].port = port

\* A text that is accepted has the parts found so far.
LEMMA AcceptedOutcome ==
  ASSUME NEW t, NEW q, Accepted(t, q)
  PROVE  Outcome(t, q.scheme, q.username, q.password, q.host, q.port)
BY DEF Accepted, SameParts, Outcome

\* What a name consists of.
LEMMA NameSymbols ==
  ASSUME NEW t \in Text, NEW b \in Nat, NEW k \in Nat, 1 <= b, b <= k, k <= Len(t),
         GoodName(SubSeq(t, b, k))
  PROVE  SubSeq(t, b, k) \in Text /\ \A i \in b .. k : t[i] \in Unreserved
<1> DEFINE h == SubSeq(t, b, k)
<1>1. b <= k + 1 /\ t \in Seq(STRING)
  BY DEF Text
<1>2. h \in Seq(STRING) /\ DOMAIN h = 1 .. k - b + 1
  BY <1>1, PartOf
<1>3. \A j \in b .. k : h[j - b + 1] = t[j] /\ j - b + 1 \in 1 .. k - b + 1
  BY <1>1, PartOf
<1>4. Over(h, Unreserved)
  BY DEF GoodName
<1> HIDE DEF h
<1>5. \A i \in b .. k : t[i] \in Unreserved
  BY <1>2, <1>3, <1>4 DEF Over
<1> QED
  BY <1>2, <1>5 DEF h, Text

\* What an address consists of, and that it has more than one symbol.
LEMMA AddressSymbols ==
  ASSUME NEW t \in Text, NEW b \in Nat, NEW k \in Nat, 1 <= b, b < k, k <= Len(t),
         GoodIpv6(SubSeq(t, b + 1, k - 1))
  PROVE  /\ SubSeq(t, b + 1, k - 1) \in Text
         /\ \A i \in b + 1 .. k - 1 : t[i] \in {"a", "9", ":"}
         /\ b + 2 < k
<1> DEFINE l == b + 1
           m == k - 1
           h == SubSeq(t, l, m)
<1>1. l \in Nat /\ m \in Nat /\ 1 <= l /\ l <= m + 1 /\ m <= Len(t) /\ t \in Seq(STRING)
  <2>1. Len(t) \in Nat
    BY DEF Text
  <2> QED
    BY <2>1 DEF Text
<1>2. h \in Seq(STRING) /\ DOMAIN h = 1 .. m - l + 1 /\ Len(h) = m - l + 1
  <2> HIDE DEF l, m
  <2> QED
    BY <1>1, PartOf
<1>3. \A j \in l .. m : h[j - l + 1] = t[j] /\ j - l + 1 \in 1 .. m - l + 1
  <2> HIDE DEF l, m
  <2> QED
    BY <1>1, PartOf
<1>4. Over(h, {"a", "9", ":"})
  BY DEF GoodIpv6
<1>5. Len(h) >= 2
  <2>1. GoodIpv6(h)
    OBVIOUS
  <2> HIDE DEF h
  <2> QED
    BY <1>2, <2>1, GoodIpv6Accepted
<1>6. b + 2 < k
  <2> HIDE DEF h
  <2> QED
    BY <1>2, <1>5
<1>7. \A i \in l .. m : t[i] \in {"a", "9", ":"}
  <2> HIDE DEF h, l, m
  <2> QED
    BY <1>2, <1>3, <1>4 DEF Over
<1> HIDE DEF h
<1> QED
  BY <1>2, <1>6, <1>7 DEF h, Text

---------------------------------------------------------------------------
(* The host behind user information.                                      *)

\* The parser is behind the user information, in the state host.
HostBegins(t, p, b) ==
  /\ p = Run(t)[b - 1] /\ p \in PState /\ p.verdict = "none" /\ p.state = "host"
  /\ p.from = b /\ p.next = b
  /\ p.six = FALSE /\ p.v6start = 0 /\ p.v6end = 0 /\ p.port = <<>>

\* The parser is in state r behind the symbol at i.
Arrives(t, i, r) == Run(t)[i] = r

\* The port follows.
LEMMA PortFollows ==
  ASSUME NEW t \in Text, NEW k \in Nat, NEW e \in Nat, k <= e, e <= Len(t), k # e,
         LaidPort(t, k, e), LaidRest(t, e),
         NEW q \in PState, q.verdict = "none", Arrives(t, k + 1, Enter(q, "port", k + 2))
  PROVE  Outcome(t, q.scheme, q.username, q.password, q.host, PortAt(t, k, e))
<1> DEFINE g == k + 2
           r == Enter(q, "port", g)
           x == SubSeq(t, g, e)
<1>1. g <= e /\ \A i \in k + 2 .. e : t[i] = "9"
  BY DEF LaidPort
<1>2. /\ r \in PState /\ r.state = "port" /\ r.verdict = "none" /\ r.from = g /\ r.next = g
      /\ SameParts(q, r)
  <2>1. g \in Nat
    OBVIOUS
  <2>2. "port" \in States
    BY DEF States
  <2> HIDE DEF g
  <2>3. r \in PState /\ r.state = "port"
    BY <2>1, <2>2, EnterIs
  <2>4. r.from = g /\ r.next = g
    BY <2>1, <2>2, EnterIs
  <2>5. r.verdict = "none"
    BY <2>1, <2>2, EnterReads
  <2>6. SameParts(q, r)
    BY <2>1, <2>2, EnterIs
  <2> QED
    BY <2>3, <2>4, <2>5, <2>6
<1>3. x \in Text
  <2>1. g \in Nat /\ 1 <= g /\ g <= e + 1 /\ t \in Seq(STRING)
    BY <1>1 DEF Text
  <2> HIDE DEF g
  <2>2. SubSeq(t, g, e) \in Seq(STRING)
    BY <2>1, PartOf
  <2> QED
    BY <2>2 DEF Text
<1>4. Accepted(t, WithPort(r, x))
  <2>1. r = Run(t)[k + 1]
    BY DEF Arrives
  <2> HIDE DEF r
  <2>2. r.from = k + 2 /\ r.next = k + 2 /\ k + 2 <= e
    BY <1>1, <1>2
  <2>3. Accepted(t, WithPort(r, SubSeq(t, k + 2, e)))
    BY <1>1, <1>2, <2>1, <2>2, PortRead
  <2> QED
    BY <2>3
<1> HIDE DEF r, x
<1>5. /\ WithPort(r, x).port = x /\ WithPort(r, x).scheme = r.scheme
      /\ WithPort(r, x).username = r.username
      /\ WithPort(r, x).password = r.password /\ WithPort(r, x).host = r.host
  BY <1>2, <1>3, WithPortIs
<1>6. Outcome(t, r.scheme, r.username, r.password, r.host, x)
  BY <1>4, <1>5, AcceptedOutcome
<1>7. x = PortAt(t, k, e)
  BY DEF x, PortAt
<1> QED
  BY <1>2, <1>6, <1>7 DEF SameParts

\* A name behind user information is read to its end, with its port
\* (uri.ipp:349).
LEMMA NameRead ==
  ASSUME NEW t \in Text, NEW b \in Nat, NEW k \in Nat, NEW e \in Nat,
         5 < b, b <= k, k <= e, e <= Len(t), t[b] # "[",
         LaidHost(t, b, k), LaidPort(t, k, e), LaidRest(t, e), NEW p, HostBegins(t, p, b)
  PROVE  Outcome(t, p.scheme, p.username, p.password, HostAt(t, b, k), PortAt(t, k, e))
<1> DEFINE n == Len(t)
           h == SubSeq(t, b, k)
           q == WithHost(p, h)
<1>0. n \in Nat
  BY DEF Text
<1>1. GoodName(h) /\ HostAt(t, b, k) = h
  BY DEF LaidHost, HostAt
<1>2. h \in Text /\ \A i \in b .. k : t[i] \in Unreserved
  <2>1. 1 <= b /\ k <= Len(t)
    BY <1>0
  <2> QED
    BY <1>1, <2>1, NameSymbols
<1>p. /\ p = Run(t)[b - 1] /\ p \in PState /\ p.verdict = "none" /\ p.state = "host"
      /\ p.from = b /\ p.next = b
      /\ p.six = FALSE /\ p.v6start = 0 /\ p.v6end = 0 /\ p.port = <<>>
  BY DEF HostBegins
<1>3. /\ q \in PState /\ q.verdict = "none" /\ q.host = h /\ q.port = <<>>
      /\ q.scheme = p.scheme /\ q.username = p.username /\ q.password = p.password
  <2> HIDE DEF h
  <2> QED
    BY <1>1, <1>2, <1>p, WithHostIs
<1>4. \A i \in Nat : Read(t, p, i) = Host(t, p, i)
  BY <1>p DEF Read
<1>5. ASSUME NEW i \in Nat, b <= i, i <= k PROVE
        t[i] \notin {"[", "]", "/", ":", "?", "#"} /\ t[i] \in Unreserved
  <2>1. t[i] \in Unreserved
    BY <1>2, <1>5
  <2> QED
    BY <2>1 DEF Unreserved, Alpha
<1>6. ASSUME NEW i \in Nat, b <= i, i <= k, i < n PROVE Turn(t, p, i) = p
  <2>1. i # Len(t)
    BY <1>0, <1>6
  <2>2. Host(t, p, i) = p
    BY <1>5, <1>6, <2>1, <1>p DEF Host
  <2>3. p.next <= i
    BY <1>p, <1>6
  <2> QED
    BY <1>4, <1>p, <2>2, <2>3, TurnStays
<1>7. CASE k = n
  <2> DEFINE l == b - 1
             m == n - 1
  <2>1. l \in Nat /\ m \in Nat /\ l <= m /\ m <= Len(t) /\ Run(t)[l] = p
    BY <1>0, <1>7, <1>p
  <2>2. ASSUME NEW i \in l + 1 .. m PROVE Turn(t, p, i) = p
    <3>1. i \in Nat /\ b <= i /\ i <= k /\ i < n
      BY <1>0, <1>7
    <3> QED
      BY <3>1, <1>6
  <2>3. Run(t)[m] = p
    <3> HIDE DEF l, m
    <3> QED
      BY <2>1, <2>2, RunStays
  <2>4. Run(t)[n] = Host(t, p, n)
    <3>1. n \in Nat /\ 1 <= n /\ n <= Len(t) /\ p.next <= n
      BY <1>0, <1>7, <1>p
    <3>2. p = Run(t)[n - 1]
      BY <2>3
    <3> HIDE DEF n
    <3> QED
      BY <3>1, <3>2, <1>p, <1>4, RunReads
  <2>5. Host(t, p, n) = Accept(q)
    <3>1. t[n] \notin {"[", "]", "/", ":", "?", "#"}
      BY <1>0, <1>5, <1>7
    <3>2. Host(t, p, n) = Accept(WithHost(p, SubSeq(t, p.from, n)))
      BY <3>1 DEF Host
    <3> QED
      BY <3>2, <1>7, <1>p
  <2>6. k = e
    BY <1>0, <1>7
  <2>7. Accepted(t, q)
    <3> HIDE DEF q
    <3> QED
      BY <1>3, <2>4, <2>5, EndsAccepted
  <2>8. PortAt(t, k, e) = <<>>
    BY <2>6 DEF PortAt
  <2> HIDE DEF q, h
  <2> QED
    BY <1>1, <1>3, <2>7, <2>8, AcceptedOutcome
<1>8. CASE k < n
  <2> DEFINE l == b - 1
             g == k + 1
  <2>1. l \in Nat /\ l <= k /\ k <= Len(t) /\ Run(t)[l] = p
    BY <1>0, <1>8, <1>p
  <2>2. ASSUME NEW i \in l + 1 .. k PROVE Turn(t, p, i) = p
    <3>1. i \in Nat /\ b <= i /\ i <= k /\ i < n
      BY <1>0, <1>8
    <3> QED
      BY <3>1, <1>6
  <2>3. Run(t)[k] = p
    <3> HIDE DEF l
    <3> QED
      BY <2>1, <2>2, RunStays
  <2>4. g \in Nat /\ 1 <= g /\ g <= Len(t) /\ p.next <= g /\ g - 1 = k
    BY <1>0, <1>8, <1>p
  <2>5. Run(t)[g] = Host(t, p, g)
    <3> HIDE DEF g
    <3> QED
      BY <2>3, <2>4, <1>p, <1>4, RunReads
  <2>6. WithHost(p, SubSeq(t, p.from, g - 1)) = q
    <3> HIDE DEF g
    <3> QED
      BY <2>4, <1>p
  <2>7. CASE k # e
    <3>1. t[g] = ":"
      BY <2>7 DEF LaidPort
    <3>2. Host(t, p, g) = Enter(q, "port", g + 1)
      <4> HIDE DEF g, q
      <4> QED
        BY <3>1, <2>6, <1>3, <1>p DEF Host
    <3>3. g + 1 = k + 2
      OBVIOUS
    <3>4. Arrives(t, k + 1, Enter(q, "port", k + 2))
      <4> HIDE DEF q
      <4> QED
        BY <2>5, <3>2, <3>3 DEF Arrives
    <3>5. Outcome(t, q.scheme, q.username, q.password, q.host, PortAt(t, k, e))
      <4> HIDE DEF q
      <4> QED
        BY <1>3, <2>7, <3>4, PortFollows
    <3> HIDE DEF q, h
    <3> QED
      BY <3>5, <1>1, <1>3
  <2>8. CASE k = e
    <3>1. t[g] \in {"/", "?", "#"}
      BY <1>8, <2>8 DEF LaidRest, Delims
    <3>2. Host(t, p, g) = AfterHost(t, q, g)
      <4>1. t[g] \in {"?", "#"} \/ (t[g] = "/" /\ ~p.six)
        BY <3>1, <1>p
      <4> HIDE DEF g, q
      <4> QED
        BY <3>1, <4>1, <2>6, <1>p DEF Host
    <3>3. Run(t)[e + 1] = AfterHost(t, q, e + 1)
      <4> HIDE DEF q
      <4> QED
        BY <2>5, <2>8, <3>2
    <3>4. Accepted(t, q)
      <4> HIDE DEF q
      <4> QED
        BY <1>3, <1>8, <2>8, <3>3, AfterHostRead
    <3>5. PortAt(t, k, e) = <<>>
      BY <2>8 DEF PortAt
    <3> HIDE DEF q, h
    <3> QED
      BY <1>1, <1>3, <3>4, <3>5, AcceptedOutcome
  <2> QED
    BY <2>7, <2>8
<1> QED
  BY <1>0, <1>7, <1>8

\* What follows an address, that is read at its closing bracket.
LEMMA AddressEnds ==
  ASSUME NEW t \in Text, NEW k \in Nat, NEW e \in Nat, k <= e, e <= Len(t),
         LaidPort(t, k, e), LaidRest(t, e),
         NEW q \in PState, q.verdict = "none", q.port = <<>>, Arrives(t, k, HostEnds(t, q, k))
  PROVE  Outcome(t, q.scheme, q.username, q.password, q.host, PortAt(t, k, e))
<1> DEFINE n == Len(t)
           g == k + 1
           h == k + 2
<1>0. n \in Nat /\ g \in Nat /\ h \in Nat /\ g - 1 = k /\ h = g + 1
  BY DEF Text
<1>1. CASE k = n
  <2>1. HostEnds(t, q, k) = Accept(q)
    BY <1>1 DEF HostEnds
  <2>2. Accepted(t, q)
    BY <1>1, <2>1, EndsAccepted DEF Arrives
  <2>3. k = e
    <3>1. Len(t) \in Nat /\ k = Len(t)
      BY <1>0, <1>1
    <3> QED
      BY <3>1
  <2>4. PortAt(t, k, e) = <<>>
    BY <2>3 DEF PortAt
  <2> QED
    BY <2>2, <2>4, AcceptedOutcome
<1>2. CASE k < n /\ k # e
  <2>1. t[g] = ":"
    BY <1>2 DEF LaidPort
  <2> DEFINE r == Enter(q, "port", h)
  <2>2. HostEnds(t, q, k) = r
    <3> HIDE DEF h
    <3>1. k < Len(t) /\ k # Len(t)
      BY <1>0, <1>2
    <3> QED
      BY <3>1, <2>1 DEF HostEnds, h
  <2>3. r \in PState /\ r.next = h /\ r.verdict = "none"
    <3>1. "port" \in States
      BY DEF States
    <3> HIDE DEF h
    <3> QED
      BY <1>0, <3>1, EnterIs
  <2> HIDE DEF r
  <2>4. Run(t)[g] = Turn(t, r, g)
    <3>1. g \in 1 .. Len(t)
      BY <1>0, <1>2
    <3>2. Run(t)[g] = Turn(t, Run(t)[g - 1], g)
      <4> HIDE DEF g
      <4> QED
        BY <3>1, RunIs DEF Text
    <3> QED
      BY <3>2, <1>0, <2>2 DEF Arrives
  <2>5. Turn(t, r, g) = r
    <3>1. ~(g >= r.next)
      BY <2>3
    <3> QED
      BY <3>1 DEF Turn
  <2>6. Arrives(t, k + 1, Enter(q, "port", k + 2))
    BY <2>4, <2>5 DEF r, Arrives
  <2> QED
    BY <1>2, <2>6, PortFollows
<1>3. CASE k < n /\ k = e
  <2>0. k < Len(t) /\ k # Len(t)
    BY <1>0, <1>3
  <2>1. /\ t[g] \in Delims
        /\ \A i \in h .. n : t[i] \in Unreserved \cup {"/"}
        /\ t[n] \notin {"?", "#"}
    BY <1>3 DEF LaidRest
  <2>2. ASSUME NEW r, Accepted(t, r), SameParts(q, r)
        PROVE  Outcome(t, q.scheme, q.username, q.password, q.host, PortAt(t, k, e))
    <3>1. PortAt(t, k, e) = <<>>
      BY <1>3 DEF PortAt
    <3>2. Outcome(t, r.scheme, r.username, r.password, r.host, r.port)
      BY <2>2, AcceptedOutcome
    <3> QED
      BY <2>2, <3>1, <3>2 DEF SameParts
  <2>3. CASE t[g] = "/"
    <3> DEFINE r == Enter(q, "path", g)
    <3>1. HostEnds(t, q, k) = r
      BY <2>0, <2>3 DEF HostEnds
    <3>2. r \in PState /\ r.next = g /\ r.verdict = "none" /\ r.state = "path" /\ SameParts(q, r)
      <4>1. "path" \in States
        BY DEF States
      <4> HIDE DEF g
      <4> QED
        BY <1>0, <4>1, EnterIs
    <3> HIDE DEF r
    <3>3. r = Run(t)[k] /\ r.next <= k + 1
      BY <3>1, <3>2 DEF Arrives
    <3>4. ASSUME NEW i \in k + 1 .. Len(t) PROVE t[i] \in Unreserved \cup {"/"}
      <4>1. i = g \/ i \in h .. n
        BY <1>0
      <4> QED
        BY <4>1, <2>1, <2>3
    <3>5. Accepted(t, r)
      BY <2>0, <3>2, <3>3, <3>4, RestRead
    <3> QED
      BY <2>2, <3>2, <3>5
  <2>4. CASE t[g] \in {"?", "#"}
    <3> DEFINE s == IF t[g] = "?" THEN "query" ELSE "fragment"
               r == Enter(q, s, h)
    <3>1. HostEnds(t, q, k) = r
      <4>1. h = k + 2
        OBVIOUS
      <4> HIDE DEF h
      <4>2. CASE t[g] = "?"
        BY <2>0, <4>1, <4>2 DEF HostEnds
      <4>3. CASE t[g] = "#"
        BY <2>0, <4>1, <4>3 DEF HostEnds
      <4> QED
        BY <2>4, <4>2, <4>3
    <3>2. /\ r \in PState /\ r.next = h /\ r.verdict = "none" /\ r.state \in {"query", "fragment"}
          /\ SameParts(q, r)
      <4>1. s \in {"query", "fragment"}
        OBVIOUS
      <4>2. s \in States
        BY <4>1 DEF States
      <4> HIDE DEF h, s
      <4>3. /\ Enter(q, s, h) \in PState
            /\ Enter(q, s, h).state = s /\ Enter(q, s, h).next = h
            /\ Enter(q, s, h).verdict = q.verdict /\ SameParts(q, Enter(q, s, h))
        BY <1>0, <4>2, EnterIs
      <4> QED
        BY <4>1, <4>3
    <3> HIDE DEF r
    <3>3. g < n
      BY <1>0, <2>0, <2>1, <2>4
    <3>4. Run(t)[g] = r
      <4>1. g \in 1 .. Len(t)
        BY <1>0, <3>3
      <4>2. Run(t)[g] = Turn(t, Run(t)[g - 1], g)
        <5> HIDE DEF g
        <5> QED
          BY <4>1, RunIs DEF Text
      <4>3. Run(t)[g] = Turn(t, r, g)
        BY <4>2, <1>0, <3>1 DEF Arrives
      <4>4. ~(g >= r.next)
        BY <3>2
      <4> QED
        BY <4>3, <4>4 DEF Turn
    <3>5. Accepted(t, r)
      <4>1. g < Len(t) /\ r.next <= g + 1 /\ \A i \in g + 1 .. Len(t) : t[i] \in Unreserved \cup {"/"}
        BY <1>0, <2>1, <3>2, <3>3
      <4> HIDE DEF g
      <4> QED
        BY <1>0, <3>2, <3>4, <4>1, RestRead
    <3> QED
      BY <2>2, <3>2, <3>5
  <2> QED
    BY <2>1, <2>3, <2>4 DEF Delims
<1> QED
  BY <1>0, <1>1, <1>2, <1>3

\* An address in brackets behind user information is read to its end, with its
\* port (uri.ipp:349).
LEMMA AddressRead ==
  ASSUME NEW t \in Text, NEW b \in Nat, NEW k \in Nat, NEW e \in Nat,
         5 < b, b <= k, k <= e, e <= Len(t), t[b] = "[",
         LaidHost(t, b, k), LaidPort(t, k, e), LaidRest(t, e), NEW p, HostBegins(t, p, b)
  PROVE  Outcome(t, p.scheme, p.username, p.password, HostAt(t, b, k), PortAt(t, k, e))
<1> DEFINE n == Len(t)
           c == b + 1
           m == k - 1
           h == SubSeq(t, c, m)
           o == [p EXCEPT !.six = TRUE, !.v6start = c]
           q == WithHost(o, h)
<1>0. n \in Nat /\ c \in Nat /\ m \in Nat
  BY DEF Text
<1>1. GoodIpv6(h) /\ HostAt(t, b, k) = h /\ b < k /\ t[k] = "]"
  BY DEF LaidHost, HostAt
<1>2. h \in Text /\ (\A i \in c .. m : t[i] \in {"a", "9", ":"}) /\ b + 2 < k
  <2>1. 1 <= b /\ b < k /\ k <= Len(t)
    BY <1>0, <1>1
  <2> QED
    BY <1>1, <2>1, AddressSymbols
<1>p. /\ p = Run(t)[b - 1] /\ p \in PState /\ p.verdict = "none" /\ p.state = "host"
      /\ p.from = b /\ p.next = b
      /\ p.six = FALSE /\ p.v6start = 0 /\ p.v6end = 0 /\ p.port = <<>>
  BY DEF HostBegins
<1>3. /\ o \in PState /\ o.verdict = "none" /\ o.state = "host" /\ o.next = b /\ o.v6start = c
      /\ o.port = <<>>
      /\ o.scheme = p.scheme /\ o.username = p.username /\ o.password = p.password
  <2> HIDE DEF c
  <2> QED
    BY <1>0, <1>p DEF PState
<1>4. o.six = TRUE
  <2> HIDE DEF c
  <2> QED
    BY <1>0, <1>p DEF PState
<1>5. Run(t)[b] = o
  <2>1. 1 <= b /\ b <= Len(t) /\ p.next <= b
    BY <1>0, <1>p
  <2>2. Run(t)[b] = Read(t, p, b)
    BY <1>p, <2>1, RunReads
  <2>3. Read(t, p, b) = Host(t, p, b)
    BY <1>p DEF Read
  <2>4. Host(t, p, b) = o
    BY <1>p DEF Host
  <2> QED
    BY <2>2, <2>3, <2>4
<1> HIDE DEF o
<1>6. \A i \in Nat : Read(t, o, i) = Host(t, o, i)
  BY <1>3 DEF Read
<1>7. ASSUME NEW i \in b + 1 .. m PROVE Turn(t, o, i) = o
  <2>1. t[i] \in {"a", "9", ":"} /\ i \in Nat /\ i < Len(t) /\ i # Len(t) /\ o.next <= i
    BY <1>0, <1>2, <1>3
  <2>2. t[i] \in Unreserved \cup SubDelims \cup {"%", ":", "@"}
    BY <2>1 DEF Unreserved, Alpha
  <2>3. t[i] \notin {"[", "]", "/", "?", "#"}
    BY <2>1
  <2>4. Host(t, o, i) = o
    BY <2>1, <2>2, <2>3, <1>4 DEF Host
  <2> QED
    BY <1>3, <1>6, <2>1, <2>4, TurnStays
<1>8. Run(t)[m] = o
  <2>1. b <= m /\ m <= Len(t)
    BY <1>0, <1>1
  <2> HIDE DEF m
  <2> QED
    BY <1>0, <1>5, <1>7, <2>1, RunStays
<1>9. Run(t)[k] = HostEnds(t, q, k)
  <2>1. 1 <= k /\ k <= Len(t) /\ o.next <= k /\ k - 1 = m
    BY <1>0, <1>1, <1>3
  <2>2. Run(t)[k] = Read(t, o, k)
    BY <1>3, <1>8, <2>1, RunReads
  <2>3. Host(t, o, k) = HostEnds(t, WithHost(o, SubSeq(t, o.v6start, k - 1)), k)
    BY <1>1, <1>4 DEF Host
  <2> QED
    BY <1>3, <1>6, <2>1, <2>2, <2>3
<1>10. /\ q \in PState /\ q.verdict = "none" /\ q.host = h /\ q.port = <<>>
       /\ q.scheme = p.scheme /\ q.username = p.username /\ q.password = p.password
  <2> HIDE DEF h
  <2> QED
    BY <1>1, <1>2, <1>3, <1>4, WithHostIs
<1> HIDE DEF q, h
<1>11. Outcome(t, q.scheme, q.username, q.password, q.host, PortAt(t, k, e))
  BY <1>9, <1>10, AddressEnds DEF Arrives
<1> QED
  BY <1>1, <1>10, <1>11

---------------------------------------------------------------------------
(* User information, and the server where there is none.                  *)

\* Whether what is read is still a port.
Digit(p, x) == [p EXCEPT !.portValid = @ /\ x = "9"]

\* That changes nothing else.
LEMMA DigitIs ==
  ASSUME NEW p \in PState, NEW x
  PROVE  /\ Digit(p, x) \in PState
         /\ SameParts(p, Digit(p, x))
         /\ Digit(p, x).state = p.state /\ Digit(p, x).from = p.from /\ Digit(p, x).next = p.next
         /\ Digit(p, x).six = p.six /\ Digit(p, x).v6start = p.v6start /\ Digit(p, x).v6end = p.v6end
         /\ Digit(p, x).probe = p.probe /\ Digit(p, x).portAt = p.portAt
         /\ Digit(p, x).hasPort = p.hasPort
         /\ x # "9" => Digit(p, x).portValid = FALSE
         /\ x = "9" => Digit(p, x).portValid = p.portValid
         /\ Digit(p, x).verdict = p.verdict
<1> DEFINE v == p.portValid /\ x = "9"
           q == [p EXCEPT !.portValid = v]
<1>1. Digit(p, x) = q
  BY DEF Digit
<1>2. v \in BOOLEAN
  OBVIOUS
<1>3. x # "9" => v = FALSE
  OBVIOUS
<1>4. x = "9" => v = p.portValid
  <2>1. p.portValid \in BOOLEAN
    BY DEF PState
  <2> QED
    BY <2>1
<1> HIDE DEF v
<1>5. q \in PState /\ q.portValid = v
  BY <1>2 DEF PState
<1>6. SameParts(p, q)
  BY <1>2 DEF PState, SameParts
<1>7. /\ q.state = p.state /\ q.from = p.from /\ q.next = p.next
      /\ q.six = p.six /\ q.v6start = p.v6start /\ q.v6end = p.v6end
      /\ q.probe = p.probe /\ q.portAt = p.portAt /\ q.hasPort = p.hasPort
      /\ q.verdict = p.verdict
  BY <1>2 DEF PState
<1> HIDE DEF q
<1> QED
  BY <1>1, <1>3, <1>4, <1>5, <1>6, <1>7

\* A colon ends what may be a host.
Colon(t, p, i) ==
  [p EXCEPT !.probe = SubSeq(t, p.from, i - 1), !.portAt = i + 1, !.hasPort = TRUE, !.portValid = TRUE]

\* That changes nothing else.
LEMMA ColonIs ==
  ASSUME NEW t \in Text, NEW p \in PState, NEW i \in Nat, p.from = 5, 5 <= i, i <= Len(t)
  PROVE  /\ Colon(t, p, i) \in PState
         /\ SameParts(p, Colon(t, p, i))
         /\ Colon(t, p, i).state = p.state /\ Colon(t, p, i).from = p.from
         /\ Colon(t, p, i).next = p.next
         /\ Colon(t, p, i).six = p.six /\ Colon(t, p, i).v6start = p.v6start
         /\ Colon(t, p, i).v6end = p.v6end
         /\ Colon(t, p, i).probe = SubSeq(t, 5, i - 1) /\ Colon(t, p, i).portAt = i + 1
         /\ Colon(t, p, i).hasPort = TRUE /\ Colon(t, p, i).portValid = TRUE
         /\ Colon(t, p, i).verdict = p.verdict
         /\ i # 5 => SubSeq(t, 5, i - 1) # <<>>
<1> DEFINE m == i - 1
           l == i + 1
           x == SubSeq(t, 5, m)
           q == [p EXCEPT !.probe = x, !.portAt = l, !.hasPort = TRUE, !.portValid = TRUE]
<1>1. m \in Nat /\ 5 <= m + 1 /\ m <= Len(t) /\ l \in Nat /\ (i # 5 => 5 # m + 1)
  <2>1. Len(t) \in Nat
    BY DEF Text
  <2> QED
    BY <2>1
<1>2. x \in Text /\ (i # 5 => x # <<>>)
  <2>1. t \in Seq(STRING) /\ 5 \in Nat /\ 1 <= 5
    BY DEF Text
  <2> HIDE DEF m
  <2>2. SubSeq(t, 5, m) \in Seq(STRING)
    BY <1>1, <2>1, PartOf
  <2>3. SubSeq(t, 5, m) = <<>> <=> 5 = m + 1
    BY <1>1, <2>1, PartOf
  <2> QED
    BY <1>1, <2>2, <2>3 DEF Text
<1>3. Colon(t, p, i) = q
  BY DEF Colon
<1> HIDE DEF x, l
<1>4. q \in PState
  BY <1>1, <1>2 DEF PState
<1>5. SameParts(p, q)
  BY DEF PState, SameParts
<1>6. /\ q.state = p.state /\ q.from = p.from /\ q.next = p.next
      /\ q.six = p.six /\ q.v6start = p.v6start /\ q.v6end = p.v6end
      /\ q.probe = x /\ q.portAt = l /\ q.hasPort = TRUE /\ q.portValid = TRUE
  BY DEF PState
<1>7. q.verdict = p.verdict
  BY DEF PState
<1>8. x = SubSeq(t, 5, i - 1) /\ l = i + 1
  BY DEF x, l
<1> HIDE DEF q
<1> QED
  BY <1>2, <1>3, <1>4, <1>5, <1>6, <1>7, <1>8

\* Symbols that mean nothing to the probe, and those that do.
Plain == Unreserved \cup SubDelims \cup {"%"}
Marks == {"@", ":", "/", "?", "#", "[", "]"}

\* No symbol is both.
LEMMA PlainIs ==
  ASSUME NEW x \in Plain
  PROVE  x \notin Marks
BY DEF Plain, Unreserved, SubDelims, Alpha, Marks

\* Only a bracket is treated as one.
LEMMA NoBracket ==
  ASSUME NEW t, NEW p, NEW i, t[i] \notin {"[", "]"}
  PROVE  Bracket(t, p, i) = p
BY DEF Bracket

\* In the probe of user information and host (uri.ipp:154) a plain symbol or a
\* bracket is passed over, once it has been treated as one;
LEMMA ProbeStays ==
  ASSUME NEW t, NEW b, NEW p, NEW i, p = Bracket(t, b, i), i < Len(t), i # Len(t), t[i] \in Plain \cup {"[", "]"}
  PROVE  Probe(t, b, i) = Digit(p, t[i])
<1>2. t[i] \notin {"@", ":", "/", "?", "#"}
  BY PlainIs DEF Marks
<1>5. t[i] \in Unreserved \cup SubDelims \cup {"%", " ", "[", "]"}
  BY DEF Plain
<1> QED
  BY <1>2, <1>5 DEF Probe, Digit

\* the first colon ends what may be a host or a user;
LEMMA ProbeColon ==
  ASSUME NEW t, NEW b, NEW i, i < Len(t), i # Len(t), t[i] = ":", b.probe = <<>>
  PROVE  Probe(t, b, i) = Colon(t, b, i)
<1>3. Bracket(t, b, i) = b
  BY NoBracket
<1>4. t[i] \notin Unreserved \cup SubDelims \cup {"%", " ", "[", "]"}
  BY DEF Unreserved, SubDelims, Alpha
<1> QED
  BY <1>3, <1>4 DEF Probe, Colon

\* another is passed over;
LEMMA ProbeColons ==
  ASSUME NEW t, NEW b, NEW i, i < Len(t), i # Len(t), t[i] = ":", b.probe # <<>>
  PROVE  Probe(t, b, i) = Digit(b, t[i])
<1>3. Bracket(t, b, i) = b
  BY NoBracket
<1> QED
  BY <1>3 DEF Probe, Digit

\* an "@" ends user information;
LEMMA ProbeAt ==
  ASSUME NEW t, NEW b, NEW i, t[i] = "@"
  PROVE  Probe(t, b, i) = UserInfo(t, b, i)
<1>3. Bracket(t, b, i) = b
  BY NoBracket
<1>4. t[i] \notin Unreserved \cup SubDelims \cup {"%", " ", "[", "]"}
  BY DEF Unreserved, SubDelims, Alpha
<1> QED
  BY <1>3, <1>4 DEF Probe

\* a delimiter ends the server;
LEMMA ProbeDelim ==
  ASSUME NEW t, NEW b, NEW i, t[i] \in Delims
  PROVE  Probe(t, b, i) = AfterHost(t, Authority(t, b, i - 1), i)
<1>3. Bracket(t, b, i) = b
  BY NoBracket DEF Delims
<1>4. t[i] \notin Unreserved \cup SubDelims \cup {"%", " ", "[", "]"}
  BY DEF Unreserved, SubDelims, Alpha, Delims
<1>5. t[i] # "@" /\ t[i] # ":"
  BY DEF Delims
<1> QED
  BY <1>3, <1>4, <1>5 DEF Probe, Delims

\* and so does the end of the text.
LEMMA ProbeEnds ==
  ASSUME NEW t, NEW b, NEW p, NEW i \in Nat, i = Len(t), t[i] \in Plain \cup {"[", "]"}, p = Bracket(t, b, i)
  PROVE  Probe(t, b, i) = Accept(Authority(t, Digit(p, t[i]), i))
<1>2. t[i] \notin {"@", ":", "/", "?", "#"}
  BY PlainIs DEF Marks
<1>3. ~(i < Len(t))
  OBVIOUS
<1> QED
  BY <1>2, <1>3 DEF Probe, Digit

\* The parser is in the part that may be user information or the server.
Probing(t, p) ==
  /\ p \in PState /\ p.verdict = "none" /\ p.state = "probe" /\ p.from = 5 /\ p.next = 5
  /\ p.scheme = <<t[1]>> /\ p.username = <<>> /\ p.password = <<>> /\ p.host = <<>> /\ p.port = <<>>

\* The parser stays there, and the brackets and the probe as they were, at a
\* plain symbol;
LEMMA DigitProbes ==
  ASSUME NEW t, NEW p, Probing(t, p), NEW x
  PROVE  /\ Probing(t, Digit(p, x)) /\ Digit(p, x).probe = p.probe /\ Digit(p, x).portAt = p.portAt
         /\ Digit(p, x).six = p.six /\ Digit(p, x).v6start = p.v6start
         /\ Digit(p, x).v6end = p.v6end /\ Digit(p, x).hasPort = p.hasPort
<1>1. p \in PState
  BY DEF Probing
<1> DEFINE q == Digit(p, x)
<1>2. q \in PState /\ SameParts(p, q)
  BY <1>1, DigitIs
<1>3. q.state = p.state /\ q.from = p.from /\ q.next = p.next
  BY <1>1, DigitIs
<1>4. q.verdict = p.verdict
  BY <1>1, DigitIs
<1>5. q.probe = p.probe /\ q.portAt = p.portAt /\ q.six = p.six /\ q.v6start = p.v6start
  BY <1>1, DigitIs
<1>6. q.v6end = p.v6end /\ q.hasPort = p.hasPort
  BY <1>1, DigitIs
<1> HIDE DEF q
<1>7. Probing(t, q)
  BY <1>2, <1>3, <1>4 DEF Probing, SameParts
<1> QED
  BY <1>5, <1>6, <1>7 DEF q

\* and at a colon, which ends what may be a host or a user.
LEMMA ColonProbes ==
  ASSUME NEW t \in Text, NEW p, Probing(t, p), NEW i \in Nat, 5 <= i, i <= Len(t)
  PROVE  /\ Probing(t, Colon(t, p, i))
         /\ Colon(t, p, i).probe = SubSeq(t, 5, i - 1) /\ Colon(t, p, i).portAt = i + 1
         /\ Colon(t, p, i).six = p.six /\ Colon(t, p, i).v6start = p.v6start
         /\ Colon(t, p, i).v6end = p.v6end
         /\ Colon(t, p, i).hasPort = TRUE /\ Colon(t, p, i).portValid = TRUE
         /\ i # 5 => SubSeq(t, 5, i - 1) # <<>>
<1>1. p \in PState /\ p.from = 5
  BY DEF Probing
<1> DEFINE q == Colon(t, p, i)
<1>2. q \in PState /\ SameParts(p, q)
  BY <1>1, ColonIs
<1>3. q.state = p.state /\ q.from = p.from /\ q.next = p.next
  BY <1>1, ColonIs
<1>4. q.verdict = p.verdict
  BY <1>1, ColonIs
<1>5. q.probe = SubSeq(t, 5, i - 1) /\ q.portAt = i + 1 /\ q.six = p.six /\ q.v6start = p.v6start
  BY <1>1, ColonIs
<1>6. q.v6end = p.v6end /\ q.hasPort = TRUE /\ q.portValid = TRUE
  BY <1>1, ColonIs
<1>8. i # 5 => SubSeq(t, 5, i - 1) # <<>>
  BY <1>1, ColonIs
<1> HIDE DEF q
<1>7. Probing(t, q)
  BY <1>2, <1>3, <1>4 DEF Probing, SameParts
<1> QED
  BY <1>5, <1>6, <1>7, <1>8 DEF q

\* There a symbol is read as Probe says.
LEMMA ProbingReads ==
  ASSUME NEW t \in Text, NEW i \in Nat, 5 <= i, i <= Len(t), NEW p, p = Run(t)[i - 1], Probing(t, p)
  PROVE  Run(t)[i] = Probe(t, p, i)
<1>1. /\ p \in PState /\ p.verdict = "none" /\ p.state = "probe" /\ p.next <= i /\ 1 <= i
  BY DEF Probing
<1>2. Run(t)[i] = Read(t, p, i)
  BY <1>1, RunReads
<1>3. Read(t, p, i) = Probe(t, p, i)
  BY <1>1 DEF Read
<1> QED
  BY <1>2, <1>3

\* The parser at the start of the authority.
ProbeBegins(t, p) ==
  /\ p = Run(t)[4] /\ Probing(t, p)
  /\ p.six = FALSE /\ p.v6start = 0 /\ p.v6end = 0
  /\ p.probe = <<>> /\ p.hasPort = FALSE /\ p.portValid = FALSE

\* It is in the user information, whose name ends before d.
InInfo(t, p, i, d) ==
  /\ Probing(t, p) /\ p.six = FALSE /\ p.v6start = 0 /\ p.v6end = 0
  /\ i < d => p.probe = <<>>
  /\ i >= d => p.probe = SubSeq(t, 5, d - 1) /\ p.portAt = d + 1 /\ p.probe # <<>>

\* The parser is still in the user information behind a symbol that does not end
\* its name,
LEMMA InfoDigit ==
  ASSUME NEW t, NEW p, NEW i \in Nat, NEW g, g = i + 1, NEW d \in Nat, g # d, InInfo(t, p, i, d), NEW x
  PROVE  InInfo(t, Digit(p, x), g, d)
<1> DEFINE q == Digit(p, x)
<1>0. Probing(t, p) /\ p.six = FALSE /\ p.v6start = 0 /\ p.v6end = 0
  BY DEF InInfo
<1>1. Probing(t, q) /\ q.probe = p.probe /\ q.portAt = p.portAt
  BY <1>0, DigitProbes
<1>2. q.six = FALSE /\ q.v6start = 0 /\ q.v6end = 0
  BY <1>0, DigitProbes
<1>3. (g < d => i < d) /\ (g >= d => i >= d)
  OBVIOUS
<1> HIDE DEF q
<1>4. g < d => q.probe = <<>>
  BY <1>1, <1>3 DEF InInfo
<1>5. g >= d => q.probe = SubSeq(t, 5, d - 1) /\ q.portAt = d + 1 /\ q.probe # <<>>
  BY <1>1, <1>3 DEF InInfo
<1>6. InInfo(t, q, g, d)
  BY <1>1, <1>2, <1>4, <1>5 DEF InInfo
<1> QED
  BY <1>6 DEF q

\* and behind the colon that does.
LEMMA InfoColon ==
  ASSUME NEW t \in Text, NEW p, NEW i \in Nat, NEW d \in Nat, 5 < d, d <= Len(t), InInfo(t, p, i, d)
  PROVE  InInfo(t, Colon(t, p, d), d, d)
<1> DEFINE q == Colon(t, p, d)
<1>0. Probing(t, p) /\ 5 <= d /\ d # 5
  BY DEF InInfo
<1>1. Probing(t, q)
  BY <1>0, ColonProbes
<1>a. q.six = p.six
  BY <1>0, ColonProbes
<1>b. q.v6start = p.v6start /\ q.v6end = p.v6end
  BY <1>0, ColonProbes
<1>c. q.probe = SubSeq(t, 5, d - 1)
  BY <1>0, ColonProbes
<1>d. q.portAt = d + 1
  BY <1>0, ColonProbes
<1>e. SubSeq(t, 5, d - 1) # <<>>
  BY <1>0, ColonProbes
<1>2. q.six = FALSE /\ q.v6start = 0 /\ q.v6end = 0
  BY <1>a, <1>b DEF InInfo
<1>4. ~(d < d)
  OBVIOUS
<1> HIDE DEF q
<1>6. InInfo(t, q, d, d)
  BY <1>1, <1>2, <1>c, <1>d, <1>e, <1>4 DEF InInfo
<1> QED
  BY <1>6 DEF q

\* Every symbol of the user information is one of the two.
LEMMA InfoStep ==
  ASSUME NEW t \in Text, NEW b \in Nat, NEW d \in Nat, 5 < b, b <= Len(t), LaidInfo(t, b, d),
         NEW i \in Nat, 4 <= i, i < b - 2, NEW p, InInfo(t, p, i, d), p = Run(t)[i]
  PROVE  InInfo(t, Run(t)[i + 1], i + 1, d)
<1> DEFINE g == i + 1
           q == Probe(t, p, g)
<1>0. Len(t) \in Nat
  BY DEF Text
<1>1. /\ g \in Nat /\ 5 <= g /\ g <= Len(t) /\ g < Len(t) /\ g # Len(t) /\ g - 1 = i
      /\ g \in 5 .. b - 2 /\ g = i + 1
  BY <1>0
<1>2. Probing(t, p)
  BY DEF InInfo
<1>3. Run(t)[g] = q
  <2>1. p = Run(t)[g - 1]
    BY <1>1
  <2> HIDE DEF g
  <2> QED
    BY <1>1, <1>2, <2>1, ProbingReads
<1>4. /\ d \in 5 .. b - 1 /\ \A j \in 5 .. d - 1 : t[j] # ":"
      /\ d < b - 1 => t[d] = ":" /\ d > 5
      /\ t[g] \in InfoSymbols
  BY <1>1 DEF LaidInfo
<1>5. t[g] \in Plain \/ t[g] = ":"
  BY <1>4 DEF InfoSymbols, Plain
<1> HIDE DEF g, q
<1>6. ASSUME g # d, q = Digit(p, t[g]) PROVE InInfo(t, q, g, d)
  BY <1>1, <1>4, <1>6, InfoDigit
<1>7. ASSUME g = d, q = Colon(t, p, g) PROVE InInfo(t, q, g, d)
  <2>1. 5 < d /\ d <= Len(t)
    BY <1>0, <1>1, <1>4, <1>7
  <2>2. InInfo(t, Colon(t, p, d), d, d)
    BY <2>1, <1>4, InfoColon
  <2> QED
    BY <1>7, <2>2
<1>8. InInfo(t, q, g, d)
  <2>1. CASE t[g] \in Plain
    <3>1. q = Digit(p, t[g])
      <4>1. p = Bracket(t, p, g)
        BY <2>1, PlainIs, NoBracket DEF Marks
      <4> QED
        BY <1>1, <2>1, <4>1, ProbeStays DEF q
    <3>2. g # d
      <4>1. t[g] # ":"
        BY <2>1, PlainIs DEF Marks
      <4>2. g = d => d < b - 1
        BY <1>1, <1>4
      <4> QED
        BY <4>1, <4>2, <1>4
    <3> QED
      BY <1>6, <3>1, <3>2
  <2>2. CASE t[g] = ":" /\ p.probe = <<>>
    <3>1. q = Colon(t, p, g)
      BY <1>1, <2>2, ProbeColon DEF q
    <3>2. i < d
      <4>1. ~(i >= d)
        BY <2>2 DEF InInfo
      <4> QED
        BY <4>1, <1>4
    <3>3. g \notin 5 .. d - 1
      BY <1>4, <2>2
    <3>4. g = d
      BY <1>1, <1>4, <3>2, <3>3
    <3> QED
      BY <1>7, <3>1, <3>4
  <2>3. CASE t[g] = ":" /\ p.probe # <<>>
    <3>1. q = Digit(p, t[g])
      BY <1>1, <2>3, ProbeColons DEF q
    <3>2. ~(i < d)
      BY <2>3 DEF InInfo
    <3>3. g # d
      BY <1>1, <1>4, <3>2
    <3> QED
      BY <1>6, <3>1, <3>3
  <2> QED
    BY <1>5, <2>1, <2>2, <2>3
<1> QED
  BY <1>3, <1>8 DEF g

\* The user information ends at i; its parts are x and y.
Named(p, i, x, y) ==
  [Enter(p, "host", i + 1) EXCEPT
     !.username = x, !.password = y, !.v6start = 0, !.v6end = 0, !.six = FALSE]

\* There the host begins.
LEMMA NamedBegins ==
  ASSUME NEW t \in Text, NEW i \in Nat, NEW b \in Nat, b = i + 1, NEW p, Probing(t, p),
         NEW x \in Text, NEW y \in Text, Run(t)[b - 1] = Named(p, i, x, y)
  PROVE  /\ HostBegins(t, Named(p, i, x, y), b)
         /\ Named(p, i, x, y).scheme = <<t[1]>>
         /\ Named(p, i, x, y).username = x /\ Named(p, i, x, y).password = y
<1> DEFINE r == Enter(p, "host", b)
           q == [r EXCEPT !.username = x, !.password = y, !.v6start = 0, !.v6end = 0, !.six = FALSE]
<1>1. p \in PState /\ "host" \in States
  BY DEF Probing, States
<1>2. r \in PState /\ r.state = "host" /\ r.from = b /\ r.next = b
  BY <1>1, EnterIs
<1>3. SameParts(p, r)
  BY <1>1, EnterIs
<1>4. r.verdict = "none"
  <2>1. p.verdict = "none"
    BY DEF Probing
  <2> QED
    BY <1>1, <2>1, EnterReads
<1>5. r.scheme = <<t[1]>> /\ r.port = <<>>
  BY <1>3 DEF SameParts, Probing
<1>6. Named(p, i, x, y) = q
  BY DEF Named
<1>z. Run(t)[b - 1] = q
  BY <1>6
<1> HIDE DEF r
<1>7. q \in PState
  BY <1>2 DEF PState
<1>8. q.state = "host" /\ q.from = b /\ q.next = b /\ q.scheme = r.scheme /\ q.port = r.port
  BY <1>2 DEF PState
<1>9. q.verdict = "none"
  BY <1>2, <1>4 DEF PState
<1>10. q.v6start = 0 /\ q.v6end = 0 /\ q.username = x /\ q.password = y
  BY <1>2 DEF PState
<1>11. q.six = FALSE
  BY <1>2 DEF PState
<1> HIDE DEF q
<1>12. HostBegins(t, q, b)
  BY <1>5, <1>7, <1>8, <1>9, <1>10, <1>11, <1>z DEF HostBegins
<1> QED
  BY <1>5, <1>6, <1>8, <1>10, <1>12

\* The user information is read.
LEMMA InfoRead ==
  ASSUME NEW t \in Text, NEW b \in Nat, NEW d \in Nat, 5 < b, b <= Len(t), LaidInfo(t, b, d),
         NEW p, ProbeBegins(t, p)
  PROVE  \E q : /\ HostBegins(t, q, b) /\ q.scheme = <<t[1]>>
                /\ q.username = UserAt(t, b, d) /\ q.password = PasswordAt(t, b, d)
<1> DEFINE S == {i \in Nat : InInfo(t, Run(t)[i], i, d)}
           h == b - 2
           g == b - 1
           o == Run(t)[h]
<1>0. Len(t) \in Nat
  BY DEF Text
<1>1. /\ h \in Nat /\ g \in Nat /\ 4 <= h /\ h + 1 = g /\ 5 <= g /\ g <= Len(t) /\ g - 1 = h
      /\ b = g + 1 /\ h \in 4 .. h /\ h <= g
  BY <1>0
<1>2. /\ t[g] = "@" /\ d \in 5 .. g
      /\ d < g => 5 < d
  BY DEF LaidInfo
<1>3. 4 \in S
  <2>1. InInfo(t, p, 4, d)
    <3>1. 4 < d /\ ~(4 >= d)
      BY <1>2
    <3> QED
      BY <3>1 DEF ProbeBegins, InInfo
  <2>2. p = Run(t)[4]
    BY DEF ProbeBegins
  <2> QED
    BY <2>1, <2>2
<1>4. ASSUME NEW i \in Nat, 4 <= i /\ i < h /\ i \in S PROVE i + 1 \in S
  <2>1. InInfo(t, Run(t)[i], i, d) /\ 4 <= i /\ i < b - 2
    BY <1>4
  <2>2. InInfo(t, Run(t)[i + 1], i + 1, d)
    <3> DEFINE r == Run(t)[i]
    <3>1. InInfo(t, r, i, d) /\ r = Run(t)[i]
      BY <2>1
    <3>2. d \in Nat
      OBVIOUS
    <3> HIDE DEF r
    <3> QED
      BY <2>1, <3>1, InfoStep
  <2> QED
    BY <2>2
<1>5. InInfo(t, o, h, d)
  <2>1. h \in S
    <3> HIDE DEF S, h
    <3> QED
      BY <1>1, <1>3, <1>4, RangeInduction
  <2> QED
    BY <2>1
<1> HIDE DEF S
<1>6. Probing(t, o)
  BY <1>5 DEF InInfo
<1>7. Run(t)[g] = UserInfo(t, o, g)
  <2>1. o = Run(t)[g - 1]
    BY <1>1
  <2> HIDE DEF o, g
  <2>2. Run(t)[g] = Probe(t, o, g)
    BY <1>1, <1>6, <2>1, ProbingReads
  <2>3. Probe(t, o, g) = UserInfo(t, o, g)
    BY <1>2, ProbeAt
  <2> QED
    BY <2>2, <2>3
<1>8. o.from = 5
  BY <1>6 DEF Probing
<1> DEFINE x == IF o.probe # <<>> THEN o.probe ELSE SubSeq(t, o.from, g - 1)
           y == IF o.probe # <<>> THEN SubSeq(t, o.portAt, g - 1) ELSE <<>>
<1>9. UserInfo(t, o, g) = Named(o, g, x, y)
  BY DEF UserInfo, Named
<1>10. x = SubSeq(t, 5, d - 1) /\ y = SubSeq(t, d + 1, h)
  <2> HIDE DEF o, g, h
  <2>1. CASE h < d
    <3>1. o.probe = <<>>
      BY <1>5, <2>1 DEF InInfo
    <3>2. d = g /\ d - 1 = h
      BY <1>1, <1>2, <2>1
    <3>3. SubSeq(t, d + 1, h) = <<>>
      BY <1>1, <3>2, SubSeqEmpty
    <3> QED
      BY <1>1, <1>8, <3>1, <3>2, <3>3
  <2>2. CASE h >= d
    <3>1. o.probe = SubSeq(t, 5, d - 1) /\ o.portAt = d + 1 /\ o.probe # <<>>
      BY <1>5, <2>2 DEF InInfo
    <3> QED
      BY <1>1, <3>1
  <2>3. h < d \/ h >= d
    <3>1. h \in Int /\ d \in Int
      BY <1>1
    <3> QED
      BY <3>1
  <2> HIDE DEF x, y
  <2> QED
    BY <2>1, <2>2, <2>3
<1>11. SubSeq(t, 5, d - 1) \in Text /\ SubSeq(t, d + 1, h) \in Text
  <2>1. t \in Seq(STRING) /\ 1 <= 5 /\ 5 \in Nat /\ 1 <= d + 1 /\ d + 1 \in Nat
    BY <1>2 DEF Text
  <2>2. d - 1 \in Nat /\ 5 <= (d - 1) + 1 /\ d - 1 <= Len(t)
    BY <1>0, <1>1, <1>2
  <2>3. SubSeq(t, 5, d - 1) \in Seq(STRING)
    BY <2>1, <2>2, PartOf
  <2>4. SubSeq(t, d + 1, h) \in Seq(STRING)
    <3>1. CASE d = g
      <4>1. SubSeq(t, d + 1, h) = <<>>
        BY <1>1, <3>1, SubSeqEmpty
      <4> QED
        BY <4>1
    <3>2. CASE d # g
      <4>1. d + 1 <= h + 1 /\ h <= Len(t)
        BY <1>1, <1>2, <3>2
      <4> HIDE DEF h
      <4> QED
        BY <1>1, <2>1, <4>1, PartOf
    <3> QED
      BY <3>1, <3>2
  <2> QED
    BY <2>3, <2>4 DEF Text
<1> HIDE DEF x, y
<1>12. x \in Text /\ y \in Text
  BY <1>10, <1>11
<1>13. b # 5
  OBVIOUS
<1>14. x = UserAt(t, b, d) /\ y = PasswordAt(t, b, d)
  BY <1>10, <1>13 DEF UserAt, PasswordAt
<1> DEFINE q == Named(o, g, x, y)
<1>15. Run(t)[b - 1] = Named(o, g, x, y)
  BY <1>7, <1>9
<1> HIDE DEF o, g
<1>16. HostBegins(t, q, b)
  BY <1>1, <1>6, <1>12, <1>15, NamedBegins
<1>17. q.scheme = <<t[1]>> /\ q.username = x /\ q.password = y
  BY <1>1, <1>6, <1>12, <1>15, NamedBegins
<1> HIDE DEF q
<1> QED
  BY <1>14, <1>16, <1>17

\* A digit changes nothing where a port is read, and no symbol where none is.
LEMMA DigitSame ==
  ASSUME NEW p \in PState, NEW x, x = "9" \/ p.portValid = FALSE
  PROVE  Digit(p, x) = p
<1>1. p.portValid \in BOOLEAN
  BY DEF PState
<1>2. (p.portValid /\ x = "9") = p.portValid
  BY <1>1
<1>3. Digit(p, x) = [p EXCEPT !.portValid = p.portValid]
  BY <1>2 DEF Digit
<1>4. [p EXCEPT !.portValid = p.portValid] = p
  BY DEF PState
<1> QED
  BY <1>3, <1>4

\* The server ends at e, read as r.
ServerEnds(t, r, e) ==
  /\ Probing(t, r)
  /\ e < Len(t) => Run(t)[e] = r
  /\ e = Len(t) => Run(t)[e] = Accept(Authority(t, r, e))

\* A server that ends at e is read, and nothing behind it changes what was found.
LEMMA ServerRead ==
  ASSUME NEW t \in Text, NEW e \in Nat, 5 <= e, e <= Len(t), LaidRest(t, e), NEW r, ServerEnds(t, r, e),
         NEW h \in Text, NEW x \in Text,
         (r.six = TRUE /\ GoodIpv6(h)) \/ (r.six = FALSE /\ GoodName(h)),
         Authority(t, r, e) = WithHost(WithPort(r, x), h)
  PROVE  Outcome(t, <<t[1]>>, <<>>, <<>>, h, x)
<1> DEFINE s == WithPort(r, x)
           q == WithHost(s, h)
           f == e + 1
<1>0. Len(t) \in Nat
  BY DEF Text
<1>1. Probing(t, r) /\ r \in PState /\ r.verdict = "none"
  BY DEF ServerEnds, Probing
<1>2. s \in PState /\ s.port = x /\ s.verdict = r.verdict
  BY <1>1, WithPortIs
<1>3. s.scheme = r.scheme /\ s.username = r.username /\ s.password = r.password
  BY <1>1, WithPortIs
<1>4. s.six = r.six
  BY <1>1, WithPortIs DEF SameProbe
<1>x. Authority(t, r, e) = q
  OBVIOUS
<1>y. (s.six = TRUE /\ GoodIpv6(h)) \/ (s.six = FALSE /\ GoodName(h))
  BY <1>4
<1> HIDE DEF s
<1>5. q \in PState /\ q.host = h
  BY <1>2, <1>y, WithHostIs
<1>6. q.verdict = s.verdict
  BY <1>2, <1>y, WithHostIs
<1>7. q.scheme = s.scheme /\ q.username = s.username /\ q.password = s.password
  BY <1>2, <1>y, WithHostIs
<1>8. q.port = s.port
  BY <1>2, <1>y, WithHostIs
<1> HIDE DEF q
<1>9. q.verdict = "none"
  BY <1>1, <1>2, <1>6
<1>10. Accepted(t, q)
  <2>1. CASE e = Len(t)
    <3>1. Run(t)[Len(t)] = Accept(q)
      BY <1>x, <2>1 DEF ServerEnds
    <3> QED
      BY <1>5, <1>9, <3>1, EndsAccepted
  <2>2. CASE e < Len(t)
    <3>1. Run(t)[e] = r
      BY <2>2 DEF ServerEnds
    <3>2. f \in Nat /\ 5 <= f /\ f <= Len(t) /\ f - 1 = e
      BY <1>0, <2>2
    <3>3. t[f] \in Delims
      BY <2>2 DEF LaidRest
    <3>4. r = Run(t)[f - 1]
      BY <3>1, <3>2
    <3> HIDE DEF f
    <3>5. Run(t)[f] = Probe(t, r, f)
      BY <1>1, <3>2, <3>4, ProbingReads
    <3>6. Probe(t, r, f) = AfterHost(t, Authority(t, r, f - 1), f)
      BY <3>3, ProbeDelim
    <3>7. Run(t)[f] = AfterHost(t, q, f)
      BY <1>x, <3>2, <3>5, <3>6
    <3>8. Run(t)[e + 1] = AfterHost(t, q, e + 1)
      BY <3>7 DEF f
    <3> QED
      BY <1>5, <1>9, <2>2, <3>8, AfterHostRead
  <2> QED
    BY <1>0, <2>1, <2>2
<1>11. Outcome(t, q.scheme, q.username, q.password, q.host, q.port)
  BY <1>10, AcceptedOutcome
<1>12. q.scheme = <<t[1]>> /\ q.username = <<>> /\ q.password = <<>>
  BY <1>3, <1>7 DEF ServerEnds, Probing
<1> QED
  BY <1>2, <1>5, <1>8, <1>11, <1>12

\* Behind the host follows a port.
LEMMA PortProbed ==
  ASSUME NEW t \in Text, NEW k \in Nat, NEW e \in Nat, 5 <= k, k + 2 <= e, e <= Len(t), t[k + 1] = ":",
         \A i \in k + 2 .. e : t[i] = "9", NEW o, Probing(t, o), o.probe = <<>>, o = Run(t)[k]
  PROVE  ServerEnds(t, Colon(t, o, k + 1), e)
<1> DEFINE n == Len(t)
           g == k + 1
           q == Colon(t, o, g)
           m == e - 1
<1>0. n \in Nat
  BY DEF Text
<1>1. /\ g \in Nat /\ 5 <= g /\ g <= n /\ g < n /\ g # n /\ g - 1 = k /\ g + 1 = k + 2
      /\ m \in Nat /\ g <= m /\ m < n /\ m <= n /\ m + 1 = e /\ e - 1 = m
  BY <1>0
<1>2. \A i \in g + 1 .. e : t[i] = "9"
  BY <1>1
<1>3. t[g] = ":" /\ o = Run(t)[g - 1]
  BY <1>1
<1>9. g = k + 1
  OBVIOUS
<1> HIDE DEF g, m, n
<1>4. Probing(t, q) /\ q.portValid = TRUE
  <2>1. g <= Len(t)
    BY <1>1 DEF n
  <2>2. Probing(t, q)
    BY <1>1, <2>1, ColonProbes
  <2>3. q.portValid = TRUE
    BY <1>1, <2>1, ColonProbes
  <2> QED
    BY <2>2, <2>3
<1>5. Run(t)[g] = q
  <2>1. Run(t)[g] = Probe(t, o, g)
    BY <1>1, <1>3, ProbingReads DEF n
  <2>2. Probe(t, o, g) = q
    BY <1>1, <1>3, ProbeColon DEF n
  <2> QED
    BY <2>1, <2>2
<1> HIDE DEF q
<1>6. q \in PState /\ q.verdict = "none" /\ q.state = "probe" /\ q.next = 5
  BY <1>4 DEF Probing
<1>7. ASSUME NEW i \in g + 1 .. e PROVE /\ t[i] \in Plain /\ Bracket(t, q, i) = q /\ Digit(q, t[i]) = q
  <2>1. t[i] = "9"
    BY <1>2
  <2>2. t[i] \in Plain
    BY <2>1 DEF Plain, Unreserved
  <2>3. Bracket(t, q, i) = q
    BY <2>1, NoBracket
  <2>4. Digit(q, t[i]) = q
    BY <1>6, <2>1, DigitSame
  <2> QED
    BY <2>2, <2>3, <2>4
<1>8. ASSUME NEW i \in g + 1 .. e, i < n PROVE Turn(t, q, i) = q
  <2>1. i \in Nat /\ i < Len(t) /\ i # Len(t) /\ q.next <= i
    BY <1>0, <1>1, <1>6, <1>8 DEF n
  <2>2. Probe(t, q, i) = Digit(q, t[i])
    BY <1>7, <2>1, ProbeStays
  <2>3. Read(t, q, i) = Probe(t, q, i)
    BY <1>6 DEF Read
  <2>4. Read(t, q, i) = q
    BY <1>7, <2>2, <2>3
  <2> QED
    BY <1>6, <2>1, <2>4, TurnStays
<1>10. CASE e = n
  <2>1. \A i \in g + 1 .. m : Turn(t, Run(t)[g], i) = Run(t)[g]
    BY <1>1, <1>5, <1>8, <1>10
  <2>2. Run(t)[m] = q
    <3>1. m <= Len(t)
      BY <1>1 DEF n
    <3> QED
      BY <1>1, <1>5, <2>1, <3>1, RunStays
  <2>3. Run(t)[e] = Probe(t, q, e)
    <3>1. q = Run(t)[e - 1] /\ 5 <= e
      BY <1>1, <2>2
    <3> QED
      BY <1>4, <3>1, ProbingReads
  <2>4. Probe(t, q, e) = Accept(Authority(t, q, e))
    <3>1. e \in g + 1 .. e /\ e = Len(t)
      BY <1>1, <1>10 DEF n
    <3>2. t[e] \in Plain \cup {"[", "]"} /\ q = Bracket(t, q, e) /\ Digit(q, t[e]) = q
      BY <1>7, <3>1
    <3>3. Probe(t, q, e) = Accept(Authority(t, Digit(q, t[e]), e))
      BY <3>1, <3>2, ProbeEnds
    <3> QED
      BY <3>2, <3>3
  <2>5. ~(e < Len(t))
    BY <1>0, <1>10 DEF n
  <2>6. ServerEnds(t, q, e)
    BY <1>4, <2>3, <2>4, <2>5 DEF ServerEnds
  <2> QED
    BY <1>9, <2>6 DEF q
<1>11. CASE e < n
  <2>1. \A i \in g + 1 .. e : Turn(t, Run(t)[g], i) = Run(t)[g]
    BY <1>0, <1>1, <1>5, <1>8, <1>11
  <2>2. Run(t)[e] = q
    <3>1. g <= e
      BY <1>1
    <3> QED
      BY <1>1, <1>5, <2>1, <3>1, RunStays
  <2>3. e # Len(t)
    BY <1>0, <1>11 DEF n
  <2>4. ServerEnds(t, q, e)
    BY <1>4, <2>2, <2>3 DEF ServerEnds
  <2> QED
    BY <1>9, <2>4 DEF q
<1> QED
  BY <1>0, <1>10, <1>11 DEF n

\* Without a port.
LEMMA NoPort ==
  ASSUME NEW p \in PState, p.port = <<>>
  PROVE  WithPort(p, <<>>) = p
BY DEF WithPort, PState

\* A name without a port;
LEMMA NameAuthority ==
  ASSUME NEW t, NEW p, NEW e, p \in PState, p.port = <<>>, p.from = 5,
         p.six = FALSE, p.v6start = 0, p.v6end = 0, p.hasPort = FALSE
  PROVE  Authority(t, p, e) = WithHost(WithPort(p, <<>>), SubSeq(t, 5, e))
<1>1. Authority(t, p, e) = WithHost(p, SubSeq(t, 5, e))
  BY DEF Authority
<1> QED
  BY <1>1, NoPort

\* and with one.
LEMMA NamePortAuthority ==
  ASSUME NEW t, NEW p, NEW e,
         p.six = FALSE, p.v6start = 0, p.v6end = 0, p.hasPort = TRUE, p.portValid = TRUE
  PROVE  Authority(t, p, e) = WithHost(WithPort(p, SubSeq(t, p.portAt, e)), p.probe)
BY DEF Authority, WithPort

\* A name without user information is read.
LEMMA BareNameRead ==
  ASSUME NEW t \in Text, NEW k \in Nat, NEW e \in Nat, 5 <= k, k <= e, e <= Len(t), t[5] # "[",
         LaidHost(t, 5, k), LaidPort(t, k, e), LaidRest(t, e), NEW p, ProbeBegins(t, p)
  PROVE  Outcome(t, <<t[1]>>, <<>>, <<>>, HostAt(t, 5, k), PortAt(t, k, e))
<1> DEFINE n == Len(t)
           h == SubSeq(t, 5, k)
           m == k - 1
<1>0. n \in Nat
  BY DEF Text
<1>1. GoodName(h) /\ HostAt(t, 5, k) = h
  BY DEF LaidHost, HostAt
<1>2. h \in Text /\ \A i \in 5 .. k : t[i] \in Unreserved
  <2>1. 1 <= 5 /\ k <= Len(t) /\ 5 \in Nat
    BY <1>0
  <2> QED
    BY <1>1, <2>1, NameSymbols
<1>3. /\ Probing(t, p) /\ p = Run(t)[4]
      /\ p.six = FALSE /\ p.v6start = 0 /\ p.v6end = 0
      /\ p.probe = <<>> /\ p.hasPort = FALSE /\ p.portValid = FALSE
  BY DEF ProbeBegins
<1>4. /\ p \in PState /\ p.verdict = "none" /\ p.state = "probe" /\ p.next = 5 /\ p.from = 5
      /\ p.port = <<>>
  BY <1>3 DEF Probing
<1>5. m \in Nat /\ 4 <= m /\ m < n /\ m + 1 = k /\ k - 1 = m /\ m <= n
  BY <1>0
<1> HIDE DEF h, m, n
<1>6. ASSUME NEW i \in 5 .. k
      PROVE  t[i] \in Plain /\ Bracket(t, p, i) = p /\ Digit(p, t[i]) = p
  <2>1. t[i] \in Plain
    BY <1>2 DEF Plain
  <2>2. Bracket(t, p, i) = p
    BY <2>1, PlainIs, NoBracket DEF Marks
  <2>3. Digit(p, t[i]) = p
    BY <1>3, <1>4, DigitSame
  <2> QED
    BY <2>1, <2>2, <2>3
<1>7. ASSUME NEW i \in 5 .. k, i < n PROVE Turn(t, p, i) = p
  <2>1. i \in Nat /\ i < Len(t) /\ i # Len(t) /\ p.next <= i
    BY <1>0, <1>4, <1>7 DEF n
  <2>2. Probe(t, p, i) = Digit(p, t[i])
    BY <1>6, <2>1, ProbeStays
  <2>3. Read(t, p, i) = Probe(t, p, i)
    BY <1>4 DEF Read
  <2>4. Read(t, p, i) = p
    BY <1>6, <2>2, <2>3
  <2> QED
    BY <1>4, <2>1, <2>4, TurnStays
<1>8. ASSUME k < n PROVE Run(t)[k] = p
  <2>1. \A i \in 4 + 1 .. k : Turn(t, Run(t)[4], i) = Run(t)[4]
    BY <1>3, <1>7, <1>8, <1>0
  <2>2. 4 <= k /\ 4 \in Nat
    OBVIOUS
  <2> QED
    BY <1>3, <2>1, <2>2, RunStays
<1>9. CASE k = e
  <2>1. PortAt(t, k, e) = <<>>
    BY <1>9 DEF PortAt
  <2>2. e < n => Run(t)[e] = p
    BY <1>8, <1>9
  <2>3. ASSUME e = n PROVE Run(t)[e] = Accept(Authority(t, p, e))
    <3>1. \A i \in 4 + 1 .. m : Turn(t, Run(t)[4], i) = Run(t)[4]
      BY <1>0, <1>3, <1>5, <1>7, <1>9
    <3>2. Run(t)[m] = p
      <4>1. m <= Len(t) /\ 4 \in Nat
        BY <1>5 DEF n
      <4> QED
        BY <1>3, <1>5, <3>1, <4>1, RunStays
    <3>3. p = Run(t)[e - 1]
      BY <1>5, <1>9, <3>2
    <3>4. 5 <= e
      OBVIOUS
    <3>5. Run(t)[e] = Probe(t, p, e)
      BY <1>3, <3>3, <3>4, ProbingReads
    <3>6. e \in 5 .. k /\ e = Len(t)
      BY <1>9, <2>3 DEF n
    <3>7. t[e] \in Plain \cup {"[", "]"} /\ p = Bracket(t, p, e) /\ Digit(p, t[e]) = p
      BY <1>6, <3>6
    <3>8. Probe(t, p, e) = Accept(Authority(t, Digit(p, t[e]), e))
      BY <3>6, <3>7, ProbeEnds
    <3> QED
      BY <3>5, <3>7, <3>8
  <2>4. ServerEnds(t, p, e)
    BY <1>3, <2>2, <2>3 DEF ServerEnds, n
  <2>5. Authority(t, p, e) = WithHost(WithPort(p, <<>>), h)
    <3>1. Authority(t, p, e) = WithHost(WithPort(p, <<>>), SubSeq(t, 5, e))
      BY <1>3, <1>4, NameAuthority
    <3> QED
      BY <1>9, <3>1 DEF h
  <2>6. p.six = FALSE /\ GoodName(h) /\ <<>> \in Text /\ 5 <= e
    BY <1>1, <1>3 DEF Text
  <2>7. Outcome(t, <<t[1]>>, <<>>, <<>>, h, <<>>)
    BY <1>2, <2>4, <2>5, <2>6, ServerRead
  <2> QED
    BY <1>1, <2>1, <2>7
<1>10. CASE k # e
  <2> DEFINE q == Colon(t, p, k + 1)
             x == SubSeq(t, k + 2, e)
             g == k + 1
  <2>1. k + 2 <= e /\ t[k + 1] = ":" /\ \A i \in k + 2 .. e : t[i] = "9"
    BY <1>10 DEF LaidPort
  <2>2. PortAt(t, k, e) = x
    BY <1>10 DEF PortAt
  <2>3. k < n
    BY <1>0, <2>1 DEF n
  <2>4. ServerEnds(t, q, e)
    <3>1. p = Run(t)[k]
      BY <1>8, <2>3
    <3> QED
      BY <1>3, <2>1, <3>1, PortProbed
  <2>5. g \in Nat /\ 5 <= g /\ g <= Len(t) /\ g - 1 = k /\ g + 1 = k + 2
    BY <2>3, <1>0 DEF n
  <2>6. x \in Text
    <3>1. t \in Seq(STRING) /\ k + 2 \in Nat /\ 1 <= k + 2 /\ k + 2 <= e + 1
      BY <2>1 DEF Text
    <3>2. x \in Seq(STRING)
      BY <3>1, PartOf
    <3> QED
      BY <3>2 DEF Text
  <2> HIDE DEF g
  <2>c. Probing(t, p) /\ g \in Nat /\ 5 <= g /\ g <= Len(t)
    BY <1>3, <2>5
  <2>7. Colon(t, p, g).probe = SubSeq(t, 5, g - 1) /\ Colon(t, p, g).portAt = g + 1
    <3>1. Colon(t, p, g).probe = SubSeq(t, 5, g - 1)
      BY <2>c, ColonProbes
    <3>2. Colon(t, p, g).portAt = g + 1
      BY <2>c, ColonProbes
    <3> QED
      BY <3>1, <3>2
  <2>8. Colon(t, p, g).six = p.six /\ Colon(t, p, g).v6start = p.v6start
    BY <2>c, ColonProbes
  <2>9. Colon(t, p, g).v6end = p.v6end
    BY <2>c, ColonProbes
  <2>10. Colon(t, p, g).hasPort = TRUE /\ Colon(t, p, g).portValid = TRUE
    BY <2>c, ColonProbes
  <2>11. q = Colon(t, p, g)
    BY DEF g
  <2> HIDE DEF q
  <2>12. q.probe = h /\ q.portAt = k + 2
    BY <2>5, <2>7, <2>11 DEF h
  <2>13. q.six = FALSE /\ q.v6start = 0 /\ q.v6end = 0 /\ q.hasPort = TRUE /\ q.portValid = TRUE
    BY <1>3, <2>8, <2>9, <2>10, <2>11
  <2>14. Authority(t, q, e) = WithHost(WithPort(q, x), h)
    <3>1. Authority(t, q, e) = WithHost(WithPort(q, SubSeq(t, q.portAt, e)), q.probe)
      BY <2>13, NamePortAuthority
    <3> QED
      BY <2>12, <3>1
  <2> HIDE DEF x
  <2>15. 5 <= e /\ q.six = FALSE /\ GoodName(h)
    BY <1>1, <2>13
  <2>16. Outcome(t, <<t[1]>>, <<>>, <<>>, h, x)
    BY <1>2, <2>4, <2>6, <2>14, <2>15, ServerRead
  <2> QED
    BY <1>1, <2>2, <2>16
<1> QED
  BY <1>9, <1>10

\* The parser is between the brackets of a host without user information.
InAddress(t, p) == Probing(t, p) /\ p.six = TRUE /\ p.v6start = 6 /\ p.v6end = 0

\* It is behind them.
BehindAddress(t, p, k) ==
  Probing(t, p) /\ p.six = TRUE /\ p.v6start = 6 /\ p.v6end = k /\ p.probe = <<>>

\* The opening bracket starts the address;
LEMMA BracketOpens ==
  ASSUME NEW t, NEW p, Probing(t, p), p.v6start = 0, p.v6end = 0, t[5] = "["
  PROVE  InAddress(t, Bracket(t, p, 5))
<1> DEFINE q == [p EXCEPT !.six = TRUE, !.v6start = 6]
<1>1. p \in PState /\ 6 \in Nat
  BY DEF Probing
<1>2. Bracket(t, p, 5) = q
  <2>1. (p.v6start = 0) = TRUE
    OBVIOUS
  <2>2. 5 + 1 = 6
    OBVIOUS
  <2> QED
    BY <2>1, <2>2 DEF Bracket
<1>3. q \in PState
  BY <1>1 DEF PState
<1>4. q.state = p.state /\ q.from = p.from /\ q.next = p.next /\ q.v6start = 6 /\ q.v6end = p.v6end
  BY <1>1 DEF PState
<1>5. SameParts(p, q)
  BY <1>1 DEF PState, SameParts
<1>6. q.six = TRUE
  BY <1>1 DEF PState
<1>7. q.verdict = p.verdict
  BY <1>1 DEF PState
<1> HIDE DEF q
<1>8. Probing(t, q)
  BY <1>3, <1>4, <1>5, <1>7 DEF Probing, SameParts
<1>9. InAddress(t, q)
  BY <1>4, <1>6, <1>8 DEF InAddress
<1> QED
  BY <1>2, <1>9

\* the closing one ends it and empties the probe, which holds its first group.
LEMMA BracketCloses ==
  ASSUME NEW t, NEW p, InAddress(t, p), NEW k \in Nat, t[k] = "]"
  PROVE  BehindAddress(t, Bracket(t, p, k), k)
<1> DEFINE q == [p EXCEPT !.six = TRUE, !.v6end = k, !.probe = <<>>]
<1>1. p \in PState /\ p.six = TRUE /\ p.v6end = 0
  BY DEF Probing, InAddress
<1>2. Bracket(t, p, k) = q
  <2>1. (p.six /\ p.v6end = 0) = TRUE
    BY <1>1
  <2> QED
    BY <2>1 DEF Bracket
<1>3. q \in PState
  <2>1. <<>> \in Text
    BY DEF Text
  <2> QED
    BY <1>1, <2>1 DEF PState
<1>4. q.state = p.state /\ q.from = p.from /\ q.next = p.next /\ q.v6start = p.v6start /\ q.v6end = k
  BY <1>1 DEF PState
<1>5. SameParts(p, q)
  BY <1>1 DEF PState, SameParts
<1>6. q.six = TRUE /\ q.probe = <<>>
  BY <1>1 DEF PState
<1>7. q.verdict = p.verdict
  BY <1>1 DEF PState
<1> HIDE DEF q
<1>8. Probing(t, q)
  BY <1>3, <1>4, <1>5, <1>7 DEF Probing, SameParts, InAddress
<1>9. BehindAddress(t, q, k)
  BY <1>4, <1>6, <1>8 DEF InAddress, BehindAddress
<1> QED
  BY <1>2, <1>9

\* Between the brackets a plain symbol changes nothing of the address,
LEMMA DigitInAddress ==
  ASSUME NEW t, NEW p, InAddress(t, p), NEW x
  PROVE  InAddress(t, Digit(p, x))
<1> DEFINE q == Digit(p, x)
<1>1. Probing(t, p)
  BY DEF InAddress
<1>2. Probing(t, q)
  BY <1>1, DigitProbes
<1>3. q.six = p.six /\ q.v6start = p.v6start /\ q.v6end = p.v6end
  BY <1>1, DigitProbes
<1> HIDE DEF q
<1>4. InAddress(t, q)
  BY <1>2, <1>3 DEF InAddress
<1> QED
  BY <1>4 DEF q

\* nor does one behind them,
LEMMA DigitBehind ==
  ASSUME NEW t, NEW p, NEW k, BehindAddress(t, p, k), NEW x
  PROVE  BehindAddress(t, Digit(p, x), k)
<1> DEFINE q == Digit(p, x)
<1>1. Probing(t, p)
  BY DEF BehindAddress
<1>2. Probing(t, q)
  BY <1>1, DigitProbes
<1>3. q.six = p.six /\ q.v6start = p.v6start /\ q.v6end = p.v6end
  BY <1>1, DigitProbes
<1>5. q.probe = p.probe
  BY <1>1, DigitProbes
<1> HIDE DEF q
<1>4. BehindAddress(t, q, k)
  BY <1>2, <1>3, <1>5 DEF BehindAddress
<1> QED
  BY <1>4 DEF q

\* nor a colon between them.
LEMMA ColonInAddress ==
  ASSUME NEW t \in Text, NEW p, InAddress(t, p), NEW i \in Nat, 5 <= i, i <= Len(t)
  PROVE  InAddress(t, Colon(t, p, i))
<1> DEFINE q == Colon(t, p, i)
<1>1. Probing(t, p)
  BY DEF InAddress
<1>2. Probing(t, q)
  BY <1>1, ColonProbes
<1>3. q.six = p.six
  BY <1>1, ColonProbes
<1>4. q.v6start = p.v6start
  BY <1>1, ColonProbes
<1>5. q.v6end = p.v6end
  BY <1>1, ColonProbes
<1> HIDE DEF q
<1>6. InAddress(t, q)
  BY <1>2, <1>3, <1>4, <1>5 DEF InAddress
<1> QED
  BY <1>6 DEF q

\* So the parser is between the brackets at each symbol of the address.
LEMMA AddressStep ==
  ASSUME NEW t \in Text, NEW i \in Nat, 5 <= i, i < Len(t), t[i] \in {"a", "9", ":"},
         NEW p, InAddress(t, p), p = Run(t)[i - 1]
  PROVE  InAddress(t, Run(t)[i])
<1>1. i # Len(t) /\ i <= Len(t)
  <2>1. Len(t) \in Nat
    BY DEF Text
  <2> QED
    BY <2>1
<1>2. Run(t)[i] = Probe(t, p, i)
  <2>1. Probing(t, p)
    BY DEF InAddress
  <2> QED
    BY <1>1, <2>1, ProbingReads
<1>3. CASE t[i] \in {"a", "9"}
  <2>1. t[i] \in Plain
    BY <1>3 DEF Plain, Unreserved, Alpha
  <2>2. p = Bracket(t, p, i)
    BY <1>3, NoBracket
  <2>3. Probe(t, p, i) = Digit(p, t[i])
    BY <1>1, <2>1, <2>2, ProbeStays
  <2> QED
    BY <1>2, <2>3, DigitInAddress
<1>4. CASE t[i] = ":" /\ p.probe = <<>>
  <2>1. Probe(t, p, i) = Colon(t, p, i)
    BY <1>1, <1>4, ProbeColon
  <2>2. InAddress(t, Colon(t, p, i))
    BY <1>1, ColonInAddress
  <2> QED
    BY <1>2, <2>1, <2>2
<1>5. CASE t[i] = ":" /\ p.probe # <<>>
  <2>1. Probe(t, p, i) = Digit(p, t[i])
    BY <1>1, <1>5, ProbeColons
  <2> QED
    BY <1>2, <2>1, DigitInAddress
<1> QED
  BY <1>3, <1>4, <1>5

\* The host in brackets ends at k, read as r.
LEMMA AddressProbed ==
  ASSUME NEW t \in Text, NEW k \in Nat, 6 < k, k <= Len(t), t[5] = "[", t[k] = "]",
         \A i \in 6 .. k - 1 : t[i] \in {"a", "9", ":"}, NEW p, ProbeBegins(t, p)
  PROVE  \E r : /\ BehindAddress(t, r, k)
                /\ k < Len(t) => Run(t)[k] = r
                /\ k = Len(t) => Run(t)[k] = Accept(Authority(t, r, k))
<1> DEFINE S == {i \in Nat : InAddress(t, Run(t)[i])}
           m == k - 1
           o == Run(t)[m]
<1>0. Len(t) \in Nat
  BY DEF Text
<1>1. Probing(t, p) /\ p = Run(t)[5 - 1] /\ p.v6start = 0 /\ p.v6end = 0
  <2>1. 5 - 1 = 4
    OBVIOUS
  <2> QED
    BY <2>1 DEF ProbeBegins
<1>2. m \in Nat /\ 5 <= m /\ m < Len(t) /\ m \in 5 .. m /\ o = Run(t)[k - 1]
  BY <1>0
<1>3. 5 \in S
  <2> DEFINE q == Bracket(t, p, 5)
  <2>1. InAddress(t, q)
    BY <1>1, BracketOpens
  <2>2. 5 \in Nat /\ 5 <= 5 /\ 5 <= Len(t) /\ 5 < Len(t) /\ 5 # Len(t)
    BY <1>0
  <2>3. Run(t)[5] = Probe(t, p, 5)
    BY <1>1, <2>2, ProbingReads
  <2>4. Probe(t, p, 5) = Digit(q, t[5])
    <3>1. t[5] \in Plain \cup {"[", "]"}
      OBVIOUS
    <3>2. q = Bracket(t, p, 5)
      OBVIOUS
    <3> HIDE DEF q
    <3> QED
      BY <2>2, <3>1, <3>2, ProbeStays
  <2> HIDE DEF q
  <2>5. InAddress(t, Run(t)[5])
    BY <2>1, <2>3, <2>4, DigitInAddress
  <2> QED
    BY <2>5
<1>4. ASSUME NEW i \in Nat, 5 <= i /\ i < m /\ i \in S PROVE i + 1 \in S
  <2> DEFINE g == i + 1
             q == Run(t)[i]
  <2>1. InAddress(t, q)
    BY <1>4
  <2>2. g \in Nat /\ 5 <= g /\ g < Len(t) /\ g \in 6 .. k - 1 /\ g - 1 = i
    BY <1>0, <1>4
  <2>3. t[g] \in {"a", "9", ":"}
    BY <2>2
  <2>4. q = Run(t)[g - 1]
    BY <2>2
  <2> HIDE DEF g, q
  <2>5. InAddress(t, Run(t)[g])
    BY <2>1, <2>2, <2>3, <2>4, AddressStep
  <2> QED
    BY <2>2, <2>5 DEF g
<1>5. InAddress(t, o)
  <2>1. m \in S
    <3> HIDE DEF S, m
    <3> QED
      BY <1>2, <1>3, <1>4, RangeInduction
  <2> QED
    BY <2>1
<1> HIDE DEF S, o, m
<1> DEFINE b == Bracket(t, o, k)
           r == Digit(b, t[k])
<1>6. BehindAddress(t, b, k) /\ b = Bracket(t, o, k)
  BY <1>5, BracketCloses
<1> HIDE DEF b
<1>7. BehindAddress(t, r, k)
  BY <1>6, DigitBehind
<1>8. Run(t)[k] = Probe(t, o, k)
  <2>1. Probing(t, o) /\ 5 <= k
    BY <1>5 DEF InAddress
  <2> QED
    BY <1>2, <2>1, ProbingReads
<1>9. k < Len(t) => Probe(t, o, k) = r
  <2> SUFFICES ASSUME k < Len(t) PROVE Probe(t, o, k) = r
    OBVIOUS
  <2>1. k # Len(t) /\ t[k] \in Plain \cup {"[", "]"}
    BY <1>0
  <2> QED
    BY <1>6, <2>1, ProbeStays
<1>10. k = Len(t) => Probe(t, o, k) = Accept(Authority(t, r, k))
  <2>1. t[k] \in Plain \cup {"[", "]"}
    OBVIOUS
  <2> QED
    BY <1>6, <2>1, ProbeEnds
<1> HIDE DEF r
<1> QED
  BY <1>7, <1>8, <1>9, <1>10

\* The address is that between the brackets.
LEMMA AddressAuthority ==
  ASSUME NEW t, NEW p, NEW e, NEW k, NEW x, p.six = TRUE, p.v6start = 6, p.v6end = k, ~(k <= 6),
         \/ p.probe = <<>> /\ x = <<>>
         \/ p.probe # <<>> /\ p.portValid = TRUE /\ x = SubSeq(t, p.portAt, e)
  PROVE  Authority(t, p, e) = WithHost(WithPort(p, x), SubSeq(t, 6, k - 1))
BY DEF Authority, WithPort

\* An address without user information is read.
LEMMA BareAddressRead ==
  ASSUME NEW t \in Text, NEW k \in Nat, NEW e \in Nat, 5 <= k, k <= e, e <= Len(t), t[5] = "[",
         LaidHost(t, 5, k), LaidPort(t, k, e), LaidRest(t, e), NEW p, ProbeBegins(t, p)
  PROVE  Outcome(t, <<t[1]>>, <<>>, <<>>, HostAt(t, 5, k), PortAt(t, k, e))
<1> DEFINE h == SubSeq(t, 6, k - 1)
<1>0. Len(t) \in Nat
  BY DEF Text
<1>1. GoodIpv6(h) /\ HostAt(t, 5, k) = h /\ 5 < k /\ t[k] = "]"
  <2>1. 5 + 1 = 6
    OBVIOUS
  <2> QED
    BY <2>1 DEF LaidHost, HostAt
<1>2. h \in Text /\ (\A i \in 6 .. k - 1 : t[i] \in {"a", "9", ":"}) /\ 5 + 2 < k
  <2>1. GoodIpv6(SubSeq(t, 5 + 1, k - 1)) /\ k <= Len(t) /\ 5 \in Nat /\ 1 <= 5
    BY <1>0, <1>1
  <2>2. SubSeq(t, 5 + 1, k - 1) \in Text
    BY <1>1, <2>1, AddressSymbols
  <2>3. \A i \in 5 + 1 .. k - 1 : t[i] \in {"a", "9", ":"}
    BY <1>1, <2>1, AddressSymbols
  <2>4. 5 + 2 < k
    BY <1>1, <2>1, AddressSymbols
  <2> QED
    BY <2>2, <2>3, <2>4
<1> HIDE DEF h
<1>3. PICK r : /\ BehindAddress(t, r, k)
               /\ k < Len(t) => Run(t)[k] = r
               /\ k = Len(t) => Run(t)[k] = Accept(Authority(t, r, k))
  <2>1. 6 < k /\ k <= Len(t)
    BY <1>0, <1>2
  <2> QED
    BY <1>1, <1>2, <2>1, AddressProbed
<1>4. /\ Probing(t, r) /\ r.six = TRUE /\ r.v6start = 6 /\ r.v6end = k /\ r.probe = <<>>
      /\ ~(k <= 6)
  BY <1>2, <1>3 DEF BehindAddress
<1>5. CASE k = e
  <2>1. PortAt(t, k, e) = <<>>
    BY <1>5 DEF PortAt
  <2>2. ServerEnds(t, r, e)
    BY <1>3, <1>4, <1>5 DEF ServerEnds
  <2>3. Authority(t, r, e) = WithHost(WithPort(r, <<>>), h)
    BY <1>4, AddressAuthority DEF h
  <2>4. r.six = TRUE /\ GoodIpv6(h) /\ <<>> \in Text /\ 5 <= e
    BY <1>1, <1>4 DEF Text
  <2>5. Outcome(t, <<t[1]>>, <<>>, <<>>, h, <<>>)
    BY <1>2, <2>2, <2>3, <2>4, ServerRead
  <2> QED
    BY <1>1, <2>1, <2>5
<1>6. CASE k # e
  <2> DEFINE q == Colon(t, r, k + 1)
             x == SubSeq(t, k + 2, e)
             g == k + 1
  <2>1. k + 2 <= e /\ t[k + 1] = ":" /\ \A i \in k + 2 .. e : t[i] = "9"
    BY <1>6 DEF LaidPort
  <2>2. PortAt(t, k, e) = x
    BY <1>6 DEF PortAt
  <2>3. k < Len(t)
    BY <1>0, <2>1
  <2>4. ServerEnds(t, q, e)
    <3>1. r = Run(t)[k]
      BY <1>3, <2>3
    <3> QED
      BY <1>4, <2>1, <3>1, PortProbed
  <2>5. g \in Nat /\ 5 <= g /\ g <= Len(t) /\ g - 1 = k /\ g + 1 = k + 2 /\ g # 5
    BY <2>3, <1>0
  <2>6. x \in Text
    <3>1. t \in Seq(STRING) /\ k + 2 \in Nat /\ 1 <= k + 2 /\ k + 2 <= e + 1
      BY <2>1 DEF Text
    <3>2. x \in Seq(STRING)
      BY <3>1, PartOf
    <3> QED
      BY <3>2 DEF Text
  <2> HIDE DEF g
  <2>c. Probing(t, r) /\ g \in Nat /\ 5 <= g /\ g <= Len(t)
    BY <1>4, <2>5
  <2>7. Colon(t, r, g).probe = SubSeq(t, 5, g - 1)
    BY <2>c, ColonProbes
  <2>8. SubSeq(t, 5, g - 1) # <<>>
    BY <2>c, <2>5, ColonProbes
  <2>9. Colon(t, r, g).portAt = g + 1
    BY <2>c, ColonProbes
  <2>10. Colon(t, r, g).six = r.six /\ Colon(t, r, g).v6start = r.v6start
    BY <2>c, ColonProbes
  <2>11. Colon(t, r, g).v6end = r.v6end
    BY <2>c, ColonProbes
  <2>12. Colon(t, r, g).portValid = TRUE
    BY <2>c, ColonProbes
  <2>13. q = Colon(t, r, g)
    BY DEF g
  <2> HIDE DEF q
  <2>14. q.probe # <<>> /\ q.portAt = k + 2 /\ q.portValid = TRUE
    BY <2>5, <2>7, <2>8, <2>9, <2>12, <2>13
  <2>15. q.six = TRUE /\ q.v6start = 6 /\ q.v6end = k
    BY <1>4, <2>10, <2>11, <2>13
  <2>16. x = SubSeq(t, q.portAt, e)
    BY <2>14
  <2> HIDE DEF x
  <2>17. Authority(t, q, e) = WithHost(WithPort(q, x), h)
    BY <1>4, <2>14, <2>15, <2>16, AddressAuthority DEF h
  <2>18. 5 <= e /\ GoodIpv6(h)
    BY <1>1
  <2>19. Outcome(t, <<t[1]>>, <<>>, <<>>, h, x)
    BY <1>2, <2>4, <2>6, <2>15, <2>17, <2>18, ServerRead
  <2> QED
    BY <1>1, <2>2, <2>19
<1> QED
  BY <1>5, <1>6

---------------------------------------------------------------------------
(* The scheme, and the whole.                                             *)

\* The parser is in state s behind the symbol at i.
Begins(t, i, p, s) ==
  /\ p = Run(t)[i] /\ p \in PState /\ p.verdict = "none" /\ p.state = s /\ p.from = 1 /\ p.next = 1
  /\ p.six = FALSE /\ p.v6start = 0 /\ p.v6end = 0
  /\ p.probe = <<>> /\ p.hasPort = FALSE /\ p.portValid = FALSE
  /\ p.username = <<>> /\ p.password = <<>> /\ p.host = <<>> /\ p.port = <<>>

\* There a symbol is read in state s.
LEMMA BeginsReads ==
  ASSUME NEW t \in Text, NEW i \in Nat, 1 <= i, i <= Len(t), NEW p, NEW s, Begins(t, i - 1, p, s)
  PROVE  Run(t)[i] = Read(t, p, i)
<1>1. p = Run(t)[i - 1] /\ p \in PState /\ p.verdict = "none" /\ p.next <= i
  BY DEF Begins
<1> QED
  BY <1>1, RunReads

\* The next state is r, and everything else as it was.
LEMMA BeginsState ==
  ASSUME NEW t, NEW i, NEW j, NEW p, NEW s, Begins(t, i, p, s), NEW r \in States,
         Run(t)[j] = [p EXCEPT !.state = r]
  PROVE  /\ Begins(t, j, [p EXCEPT !.state = r], r) /\ [p EXCEPT !.state = r].scheme = p.scheme
<1> DEFINE q == [p EXCEPT !.state = r]
<1>1. p \in PState
  BY DEF Begins
<1>2. q \in PState
  BY <1>1 DEF PState
<1>3. q.state = r /\ q.from = p.from /\ q.next = p.next /\ q.v6start = p.v6start /\ q.v6end = p.v6end
  BY <1>1 DEF PState
<1>4. q.verdict = p.verdict
  BY <1>1 DEF PState
<1>5. q.six = p.six /\ q.hasPort = p.hasPort /\ q.portValid = p.portValid
  BY <1>1 DEF PState
<1>6. /\ q.probe = p.probe /\ q.scheme = p.scheme /\ q.username = p.username
      /\ q.password = p.password /\ q.host = p.host /\ q.port = p.port
  BY <1>1 DEF PState
<1>7. Run(t)[j] = q
  OBVIOUS
<1> HIDE DEF q
<1>8. Begins(t, j, q, r)
  BY <1>2, <1>3, <1>4, <1>5, <1>6, <1>7 DEF Begins
<1> QED
  BY <1>6, <1>8 DEF q

\* So the parser starts.
LEMMA FreshBegins ==
  ASSUME NEW t \in Text
  PROVE  Begins(t, 0, Fresh, "scheme_start")
<1>1. Run(t)[0] = Fresh
  BY RunIs DEF Text
<1>2. Fresh \in PState
  <2>1. <<>> \in Text
    BY DEF Text
  <2>2. "scheme_start" \in States /\ "none" \in Verdicts
    BY DEF States, Verdicts
  <2> QED
    BY <2>1, <2>2 DEF Fresh, PState
<1> QED
  BY <1>1, <1>2 DEF Begins, Fresh

\* The scheme and its slashes are read (uri.ipp:94), and the probe begins.
LEMMA PrefixRead ==
  ASSUME NEW t \in Text, Len(t) > 4, t[1] \in Alpha \ {"file"}, t[2] = ":", t[3] = "/", t[4] = "/"
  PROVE  \E p : ProbeBegins(t, p)
<1>0. Len(t) \in Nat
  BY DEF Text
<1> DEFINE p1 == [Fresh EXCEPT !.state = "scheme"]
           p2 == [p1 EXCEPT !.state = "slash_start", !.scheme = SubSeq(t, 1, 1)]
           p3 == [p2 EXCEPT !.state = "slash"]
           p4 == Enter(p3, "probe", 5)
<1>1. Begins(t, 1, p1, "scheme")
  <2>1. Begins(t, 1 - 1, Fresh, "scheme_start")
    BY FreshBegins
  <2>2. Run(t)[1] = Read(t, Fresh, 1)
    <3>1. 1 \in Nat /\ 1 <= 1 /\ 1 <= Len(t)
      BY <1>0
    <3> QED
      BY <2>1, <3>1, BeginsReads
  <2>3. Read(t, Fresh, 1) = SchemeStart(t, Fresh, 1)
    BY DEF Read, Fresh
  <2>4. SchemeStart(t, Fresh, 1) = p1
    BY DEF SchemeStart
  <2>5. "scheme" \in States
    BY DEF States
  <2>6. Run(t)[1] = [Fresh EXCEPT !.state = "scheme"]
    BY <2>2, <2>3, <2>4
  <2>7. Begins(t, 0, Fresh, "scheme_start")
    BY FreshBegins
  <2>8. Begins(t, 1, [Fresh EXCEPT !.state = "scheme"], "scheme")
    BY <2>5, <2>6, <2>7, BeginsState
  <2> QED
    BY <2>8
<1> HIDE DEF p1
<1>2. SubSeq(t, 1, 1) = <<t[1]>> /\ SubSeq(t, 1, 1) \in Text
  <2>1. t \in Seq(STRING) /\ 1 \in Nat /\ 1 <= 1 /\ 1 <= 1 + 1 /\ 1 <= Len(t)
    BY <1>0 DEF Text
  <2>2. SubSeq(t, 1, 1) \in Seq(STRING)
    BY <2>1, PartOf
  <2>3. Len(SubSeq(t, 1, 1)) = 1
    <3>1. Len(SubSeq(t, 1, 1)) = 1 - 1 + 1
      BY <2>1, PartOf
    <3> QED
      BY <3>1
  <2>4. SubSeq(t, 1, 1)[1] = t[1]
    <3>1. 1 \in 1 .. 1 - 1 + 1
      OBVIOUS
    <3>2. SubSeq(t, 1, 1)[1] = t[1 + 1 - 1]
      BY <2>1, <3>1, PartOf
    <3> QED
      BY <3>2
  <2> DEFINE s == SubSeq(t, 1, 1)
             o == <<t[1]>>
  <2>5. t[1] \in STRING
    <3>1. 1 \in 1 .. Len(t)
      BY <1>0
    <3> QED
      BY <2>1, <3>1, ElementOfSeq
  <2>6. o \in Seq(STRING) /\ Len(o) = 1 /\ o[1] = t[1]
    BY <2>5
  <2>7. s \in Seq(STRING) /\ Len(s) = 1 /\ s[1] = t[1]
    BY <2>2, <2>3, <2>4
  <2> HIDE DEF s, o
  <2>8. Len(s) = Len(o) /\ \A i \in 1 .. Len(s) : s[i] = o[i]
    BY <2>6, <2>7
  <2>9. s = o
    BY <2>6, <2>7, <2>8, SeqEqual
  <2> QED
    BY <2>7, <2>9 DEF s, o, Text
<1>3. Begins(t, 2, p2, "slash_start") /\ p2.scheme = <<t[1]>>
  <2>1. Begins(t, 2 - 1, p1, "scheme")
    BY <1>1
  <2>2. Run(t)[2] = Read(t, p1, 2)
    <3>1. 2 \in Nat /\ 1 <= 2 /\ 2 <= Len(t)
      BY <1>0
    <3> QED
      BY <2>1, <3>1, BeginsReads
  <2>3. p1.state = "scheme" /\ p1 \in PState
    BY <1>1 DEF Begins
  <2>4. Read(t, p1, 2) = Scheme(t, p1, 2)
    BY <2>3 DEF Read
  <2>5. Scheme(t, p1, 2) = p2
    <3>1. t[2] \notin Alpha \cup {"9", "+", "-", "."} /\ 2 - 1 = 1
      BY DEF Alpha
    <3> QED
      BY <3>1 DEF Scheme
  <2> DEFINE o == [p1 EXCEPT !.scheme = SubSeq(t, 1, 1)]
  <2>6. p2.scheme = <<t[1]>>
    BY <1>2, <2>3 DEF PState
  <2>7. "slash_start" \in States
    BY DEF States
  <2>8. p2 \in PState
    BY <1>2, <2>3, <2>7 DEF PState
  <2>9. /\ p2.state = "slash_start" /\ p2.from = p1.from /\ p2.next = p1.next
        /\ p2.v6start = p1.v6start /\ p2.v6end = p1.v6end
    BY <2>3 DEF PState
  <2>10. p2.verdict = p1.verdict
    BY <2>3 DEF PState
  <2>11. p2.six = p1.six /\ p2.hasPort = p1.hasPort /\ p2.portValid = p1.portValid
    BY <2>3 DEF PState
  <2>12. /\ p2.probe = p1.probe /\ p2.username = p1.username
         /\ p2.password = p1.password /\ p2.host = p1.host /\ p2.port = p1.port
    BY <2>3 DEF PState
  <2>13. Run(t)[2] = p2
    BY <2>2, <2>4, <2>5
  <2> HIDE DEF p2
  <2>14. Begins(t, 2, p2, "slash_start")
    BY <1>1, <2>8, <2>9, <2>10, <2>11, <2>12, <2>13 DEF Begins
  <2> QED
    BY <2>6, <2>14
<1> HIDE DEF p2
<1>4. Begins(t, 3, p3, "slash") /\ p3.scheme = <<t[1]>>
  <2>1. Begins(t, 3 - 1, p2, "slash_start")
    BY <1>3
  <2>2. Run(t)[3] = Read(t, p2, 3)
    <3>1. 3 \in Nat /\ 1 <= 3 /\ 3 <= Len(t)
      BY <1>0
    <3> QED
      BY <2>1, <3>1, BeginsReads
  <2>3. p2.state = "slash_start"
    BY <1>3 DEF Begins
  <2>4. Read(t, p2, 3) = SlashStart(t, p2, 3)
    BY <2>3 DEF Read
  <2>5. SlashStart(t, p2, 3) = p3
    BY DEF SlashStart
  <2>6. "slash" \in States
    BY DEF States
  <2>7. Run(t)[3] = p3
    BY <2>2, <2>4, <2>5
  <2>8. Begins(t, 3, p3, "slash")
    BY <1>3, <2>6, <2>7, BeginsState
  <2>9. p3.scheme = p2.scheme
    BY <1>3, <2>6, <2>7, BeginsState
  <2> QED
    BY <1>3, <2>8, <2>9
<1> HIDE DEF p3
<1>5. Run(t)[4] = p4
  <2>1. Begins(t, 4 - 1, p3, "slash")
    BY <1>4
  <2>2. Run(t)[4] = Read(t, p3, 4)
    <3>1. 4 \in Nat /\ 1 <= 4 /\ 4 <= Len(t)
      BY <1>0
    <3> QED
      BY <2>1, <3>1, BeginsReads
  <2>3. p3.state = "slash"
    BY <1>4 DEF Begins
  <2>4. Read(t, p3, 4) = Slash(t, p3, 4)
    BY <2>3 DEF Read
  <2>5. p3.scheme # <<"file">>
    BY <1>4
  <2>6. Slash(t, p3, 4) = Enter(p3, "probe", 4 + 1)
    BY <2>5 DEF Slash
  <2>7. 4 + 1 = 5
    OBVIOUS
  <2> QED
    BY <2>2, <2>4, <2>6, <2>7
<1>6. p3 \in PState /\ "probe" \in States /\ 5 \in Nat
  BY <1>4 DEF Begins, States
<1>7. p4 \in PState /\ p4.state = "probe" /\ p4.from = 5 /\ p4.next = 5
  BY <1>6, EnterIs
<1>8. SameParts(p3, p4) /\ SameProbe(p3, p4)
  BY <1>6, EnterIs
<1>9. p4.verdict = "none"
  <2>1. p3.verdict = "none"
    BY <1>4 DEF Begins
  <2> QED
    BY <1>6, <2>1, EnterReads
<1> HIDE DEF p4
<1>10. Probing(t, p4)
  BY <1>4, <1>7, <1>8, <1>9 DEF Begins, SameParts, Probing
<1>11. ProbeBegins(t, p4)
  BY <1>4, <1>5, <1>8, <1>10 DEF Begins, SameProbe, ProbeBegins
<1> QED
  BY <1>11

\* Every setting of the usual form is read as it is written: uri::parse accepts
\* it, with the scheme, user, password, host and port that stand in it, whatever
\* their length.
THEOREM ParseWritten ==
  ASSUME NEW t \in Seq(STRING), WellFormed(t)
  PROVE  Parse(t) = AsWritten(t)
<1>0. t \in Text /\ Len(t) \in Nat
  BY DEF Text
<1>1. Len(t) > 4 /\ t[1] \in Alpha \ {"file"} /\ t[2] = ":" /\ t[3] = "/" /\ t[4] = "/"
  <2>1. Len(t) > 4 /\ t[1] \in Alpha \ {"file"} /\ SubSeq(t, 2, 4) = <<":", "/", "/">>
    BY DEF WellFormed, Prefix
  <2>2. 2 \in Nat /\ 4 \in Nat /\ 1 <= 2 /\ 2 <= 4 + 1 /\ 4 <= Len(t)
    BY <1>0, <2>1
  <2>3. \A j \in 2 .. 4 : SubSeq(t, 2, 4)[j - 2 + 1] = t[j]
    BY <2>2, PartOf
  <2> DEFINE s == SubSeq(t, 2, 4)
             o == <<":", "/", "/">>
  <2>4. s[1] = t[2] /\ s[2] = t[3] /\ s[3] = t[4]
    <3> HIDE DEF s
    <3>1. 2 \in 2 .. 4 /\ 3 \in 2 .. 4 /\ 4 \in 2 .. 4 /\ 2 - 2 + 1 = 1 /\ 3 - 2 + 1 = 2 /\ 4 - 2 + 1 = 3
      OBVIOUS
    <3>2. \A j \in 2 .. 4 : s[j - 2 + 1] = t[j]
      BY <2>3 DEF s
    <3>3. s[2 - 2 + 1] = t[2] /\ s[3 - 2 + 1] = t[3] /\ s[4 - 2 + 1] = t[4]
      BY <3>1, <3>2
    <3> QED
      BY <3>1, <3>3
  <2>5. t[2] = ":" /\ t[3] = "/" /\ t[4] = "/"
    <3>1. s = o
      BY <2>1
    <3>2. o[1] = ":" /\ o[2] = "/" /\ o[3] = "/"
      OBVIOUS
    <3> HIDE DEF s, o
    <3> QED
      BY <2>4, <3>1, <3>2
  <2> QED
    BY <2>1, <2>5
<1>2. PICK p : ProbeBegins(t, p)
  BY <1>0, <1>1, PrefixRead
<1>3. PICK b \in Nat, d \in Nat, k \in Nat, e \in Nat :
        /\ Laid(t, b, d, k, e)
        /\ AsWritten(t) = [accepted |-> TRUE, scheme |-> <<t[1]>>,
                         username |-> UserAt(t, b, d), password |-> PasswordAt(t, b, d),
                         host |-> HostAt(t, b, k), port |-> PortAt(t, k, e)]
  BY LaidOut
<1>4. /\ 5 <= b /\ b <= k /\ k <= e /\ e <= Len(t)
      /\ LaidInfo(t, b, d) /\ LaidHost(t, b, k) /\ LaidPort(t, k, e) /\ LaidRest(t, e)
  BY <1>3 DEF Laid
<1>5. Outcome(t, <<t[1]>>, UserAt(t, b, d), PasswordAt(t, b, d), HostAt(t, b, k), PortAt(t, k, e))
  <2>1. CASE b = 5
    <3>1. LaidHost(t, 5, k) /\ 5 <= k
      BY <1>4, <2>1
    <3>2. Outcome(t, <<t[1]>>, <<>>, <<>>, HostAt(t, 5, k), PortAt(t, k, e))
      <4>1. CASE t[5] = "["
        BY <1>0, <1>2, <1>4, <3>1, <4>1, BareAddressRead
      <4>2. CASE t[5] # "["
        BY <1>0, <1>2, <1>4, <3>1, <4>2, BareNameRead
      <4> QED
        BY <4>1, <4>2
    <3>3. UserAt(t, b, d) = <<>> /\ PasswordAt(t, b, d) = <<>>
      BY <2>1 DEF UserAt, PasswordAt
    <3> QED
      BY <2>1, <3>2, <3>3
  <2>2. CASE 5 < b
    <3>1. b <= Len(t)
      BY <1>0, <1>4
    <3>2. PICK q : /\ HostBegins(t, q, b) /\ q.scheme = <<t[1]>>
                   /\ q.username = UserAt(t, b, d) /\ q.password = PasswordAt(t, b, d)
      BY <1>0, <1>2, <1>4, <2>2, <3>1, InfoRead
    <3>3. Outcome(t, q.scheme, q.username, q.password, HostAt(t, b, k), PortAt(t, k, e))
      <4>1. CASE t[b] = "["
        BY <1>0, <1>4, <2>2, <3>2, <4>1, AddressRead
      <4>2. CASE t[b] # "["
        BY <1>0, <1>4, <2>2, <3>2, <4>2, NameRead
      <4> QED
        BY <4>1, <4>2
    <3> QED
      BY <3>2, <3>3
  <2> QED
    BY <1>4, <2>1, <2>2
<1>6. Parse(t) = [accepted |-> TRUE, scheme |-> <<t[1]>>,
                  username |-> UserAt(t, b, d), password |-> PasswordAt(t, b, d),
                  host |-> HostAt(t, b, k), port |-> PortAt(t, k, e)]
  <2>1. (Run(t)[Len(t)].verdict = "accepted") = TRUE
    BY <1>5 DEF Outcome
  <2> QED
    BY <1>5, <2>1 DEF Parse, Outcome
<1> QED
  BY <1>3, <1>6
===========================================================================
