--------------------------- MODULE RuleEngineProofs ---------------------------
(***************************************************************************)
(* What the nine checks flag, for all rules and all snapshots.  First come  *)
(* the principle of the least number, which stands in for induction, and    *)
(* facts about subsequences; then one lemma per check, saying which tickets *)
(* it flags; then what the whole evaluation flags and how that depends on   *)
(* the rules.                                                               *)
(***************************************************************************)
EXTENDS RuleEngine, FiniteSetTheorems, SequenceTheorems, TLAPS

\* Every non-empty set of natural numbers has a least element; applied to the
\* counterexamples of a statement this is induction.
LEMMA LeastNumber ==
  ASSUME NEW S \in SUBSET Nat, S # {}
  PROVE  \E n \in S : \A m \in S : n <= m
<1> DEFINE R == OpToRel(<, Nat)
<1>1. R = {ss \in Nat \X Nat : ss[1] < ss[2]}
  BY DEF OpToRel
<1>2. IsWellFoundedOn(R, Nat)
  BY NatLessThanWellFounded
<1> HIDE DEF R
<1>3. PICK n \in S : \A m \in S : ~ (<<m, n>> \in R)
  BY <1>2, WFMin
<1>4. ASSUME NEW m \in S PROVE n <= m
  <2>1. m \in Nat /\ n \in Nat
    OBVIOUS
  <2>2. ~(<<m, n>> \in {ss \in Nat \X Nat : ss[1] < ss[2]})
    BY <1>1, <1>3
  <2>3. <<m, n>> \in Nat \X Nat /\ <<m, n>>[1] = m /\ <<m, n>>[2] = n
    BY <2>1
  <2>4. ~(m < n)
    BY <2>2, <2>3, Zenon
  <2> QED
    BY <2>1, <2>4
<1> QED
  BY <1>4

\* What holds of 0 and of the number after every number it holds of, up to n.
LEMMA UpTo ==
  ASSUME NEW n \in Nat, NEW S, 0 \in S, \A i \in 1..n : i - 1 \in S => i \in S
  PROVE  \A i \in 0..n : i \in S
<1> DEFINE out == {i \in 0..n : i \notin S}
<1> SUFFICES ASSUME out # {} PROVE FALSE
  OBVIOUS
<1>1. PICK m \in out : \A k \in out : m <= k
  <2>1. out \in SUBSET Nat
    OBVIOUS
  <2> QED
    BY <2>1, LeastNumber
<1>2. m \in 1..n /\ m - 1 \in 0..n /\ ~(m <= m - 1)
  BY <1>1
<1> QED
  BY <1>1, <1>2

\* A non-empty set of positions has a greatest element, and Max returns it.
LEMMA GreatestPosition ==
  ASSUME NEW n \in Nat, NEW S \in SUBSET (1..n), S # {}
  PROVE  Max(S) \in S /\ \A i \in S : i <= Max(S)
<1> DEFINE T == {n - i : i \in S}
<1>1. T \in SUBSET Nat /\ T # {}
  <2>1. \A i \in S : n - i \in Nat
    OBVIOUS
  <2> QED
    BY <2>1
<1>2. PICK d \in T : \A e \in T : d <= e
  BY <1>1, LeastNumber
<1>3. PICK m \in S : d = n - m
  BY <1>2
<1>4. \A i \in S : n - i \in T /\ i \in Int
  OBVIOUS
<1>5. \A i \in S : m >= i
  BY <1>2, <1>3, <1>4
<1> HIDE DEF T
<1>6. \A i \in S : Max(S) >= i
  BY <1>3, <1>5, Zenon DEF Max
<1>7. Max(S) \in S
  BY <1>3, <1>5, Zenon DEF Max
<1> QED
  BY <1>6, <1>7

-------------------------------------------------------------------------------
(* Counting positions.                                                      *)

LEMMA PositionsType ==
  ASSUME NEW n \in Nat, NEW I \in SUBSET (1..n)
  PROVE  IsFiniteSet(I) /\ Cardinality(I) \in Nat /\ Cardinality(I) <= n
<1>1. IsFiniteSet(1..n) /\ Cardinality(1..n) = n
  BY FS_Interval
<1> QED
  BY <1>1, FS_Subset, FS_CardinalityType

LEMMA CountType ==
  ASSUME NEW n \in Nat, NEW I \in SUBSET (1..n), NEW i \in Nat
  PROVE  IsFiniteSet(I \intersect 1..i) /\ CountUpTo(I, i) \in Nat
<1>1. IsFiniteSet(I \intersect 1..i)
  BY PositionsType, FS_Intersection
<1> QED
  BY <1>1, FS_CardinalityType DEF CountUpTo

LEMMA CountSteps ==
  ASSUME NEW n \in Nat, NEW I \in SUBSET (1..n)
  PROVE  /\ CountUpTo(I, 0) = 0
         /\ CountUpTo(I, n) = Cardinality(I)
         /\ \A i \in Nat : CountUpTo(I, i + 1) =
              IF i + 1 \in I THEN CountUpTo(I, i) + 1 ELSE CountUpTo(I, i)
<1>1. I \intersect 1..0 = {} /\ I \intersect 1..n = I
  <2>1. 1..0 = {} /\ I \subseteq 1..n
    OBVIOUS
  <2> QED
    BY <2>1, Zenon
<1>2. ASSUME NEW i \in Nat
      PROVE CountUpTo(I, i + 1) = IF i + 1 \in I THEN CountUpTo(I, i) + 1 ELSE CountUpTo(I, i)
  <2>1. CASE i + 1 \in I
    <3>1. I \intersect 1..(i + 1) = (I \intersect 1..i) \union {i + 1} /\ i + 1 \notin I \intersect 1..i
      BY <2>1
    <3>2. IsFiniteSet(I \intersect 1..i)
      BY CountType
    <3>3. Cardinality((I \intersect 1..i) \union {i + 1}) = Cardinality(I \intersect 1..i) + 1
      BY <3>1, <3>2, FS_AddElement
    <3> QED
      BY <2>1, <3>1, <3>3 DEF CountUpTo
  <2>2. CASE i + 1 \notin I
    <3>1. I \intersect 1..(i + 1) = I \intersect 1..i
      BY <2>2
    <3> QED
      BY <2>2, <3>1 DEF CountUpTo
  <2> QED
    BY <2>1, <2>2
<1> QED
  BY <1>1, <1>2, FS_EmptySet DEF CountUpTo

LEMMA CountMonotonic ==
  ASSUME NEW n \in Nat, NEW I \in SUBSET (1..n), NEW i \in Nat, NEW j \in Nat, i <= j
  PROVE  CountUpTo(I, i) <= CountUpTo(I, j)
<1>1. IsFiniteSet(I \intersect 1..j)
  BY CountType
<1>2. 1..i \subseteq 1..j
  OBVIOUS
<1>3. I \intersect 1..i \in SUBSET (I \intersect 1..j)
  BY <1>2, Zenon
<1> QED
  BY <1>1, <1>3, FS_Subset DEF CountUpTo

\* The positions in I are counted one by one, without gaps.
LEMMA CountIsBijective ==
  ASSUME NEW n \in Nat, NEW I \in SUBSET (1..n)
  PROVE  /\ \A i \in I : CountUpTo(I, i) \in 1..Cardinality(I)
         /\ \A i, j \in I : i < j => CountUpTo(I, i) < CountUpTo(I, j)
         /\ \A k \in 1..Cardinality(I) : \E i \in I : CountUpTo(I, i) = k
<1>1. \A i \in I : i \in Nat /\ i - 1 \in Nat /\ i = (i - 1) + 1 /\ i <= n
  OBVIOUS
<1>2. ASSUME NEW i \in I
      PROVE  /\ CountUpTo(I, i - 1) \in Nat /\ CountUpTo(I, i) = CountUpTo(I, i - 1) + 1
             /\ CountUpTo(I, i) <= Cardinality(I)
  <2>1. CountUpTo(I, i - 1) \in Nat
    BY <1>1, CountType
  <2>2. CountUpTo(I, i) = CountUpTo(I, i - 1) + 1
    <3>1. i - 1 \in Nat /\ (i - 1) + 1 = i
      BY <1>1
    <3>2. CountUpTo(I, (i - 1) + 1) = IF (i - 1) + 1 \in I THEN CountUpTo(I, i - 1) + 1 ELSE CountUpTo(I, i - 1)
      BY <3>1, CountSteps
    <3> QED
      BY <3>1, <3>2
  <2>3. CountUpTo(I, i) <= CountUpTo(I, n)
    BY <1>1, CountMonotonic
  <2> QED
    BY <2>1, <2>2, <2>3, CountSteps
<1>3. ASSUME NEW i \in I, NEW j \in I, i < j PROVE CountUpTo(I, i) < CountUpTo(I, j)
  <2>1. i \in Nat /\ j - 1 \in Nat /\ i <= j - 1
    BY <1>1, <1>3
  <2>2. CountUpTo(I, i) <= CountUpTo(I, j - 1)
    BY <2>1, CountMonotonic
  <2>3. CountUpTo(I, i) \in Nat
    BY <2>1, CountType
  <2> QED
    BY <1>2, <2>2, <2>3
<1>4. ASSUME NEW k \in 1..Cardinality(I) PROVE \E i \in I : CountUpTo(I, i) = k
  <2> DEFINE S == {i \in Nat : CountUpTo(I, i) >= k}
  <2>1. Cardinality(I) \in Nat /\ k \in Nat /\ n \in S
    <3>1. Cardinality(I) \in Nat /\ CountUpTo(I, n) = Cardinality(I)
      BY PositionsType, CountSteps
    <3> QED
      BY <3>1
  <2>2. PICK i \in S : \A j \in S : i <= j
    BY <2>1, LeastNumber
  <2>3. i # 0
    BY <2>1, <2>2, CountSteps
  <2>4. i \in Nat /\ i - 1 \in Nat /\ i = (i - 1) + 1 /\ ~(i <= i - 1)
    BY <2>2, <2>3
  <2>5. ~(CountUpTo(I, i - 1) >= k) /\ CountUpTo(I, i) >= k
    BY <2>2, <2>4
  <2>6. CountUpTo(I, i - 1) \in Nat /\ CountUpTo(I, i) \in Nat
    BY <2>4, CountType
  <2>7. CountUpTo(I, i) = IF i \in I THEN CountUpTo(I, i - 1) + 1 ELSE CountUpTo(I, i - 1)
    BY <2>4, CountSteps
  <2> QED
    BY <2>1, <2>5, <2>6, <2>7
<1> QED
  BY <1>2, <1>3, <1>4

LEMMA KthIsPosition ==
  ASSUME NEW n \in Nat, NEW I \in SUBSET (1..n)
  PROVE  /\ \A k \in 1..Cardinality(I) : Kth(I, k) \in I /\ CountUpTo(I, Kth(I, k)) = k
         /\ \A i \in I : Kth(I, CountUpTo(I, i)) = i
<1>1. ASSUME NEW k \in 1..Cardinality(I) PROVE Kth(I, k) \in I /\ CountUpTo(I, Kth(I, k)) = k
  <2>1. \E i \in I : CountUpTo(I, i) = k
    BY CountIsBijective
  <2> QED
    BY <2>1, Zenon DEF Kth
<1>2. ASSUME NEW i \in I PROVE Kth(I, CountUpTo(I, i)) = i
  <2> DEFINE j == Kth(I, CountUpTo(I, i))
  <2>1. CountUpTo(I, i) \in 1..Cardinality(I)
    BY CountIsBijective
  <2>2. j \in I /\ CountUpTo(I, j) = CountUpTo(I, i)
    BY <1>1, <2>1
  <2> HIDE DEF j
  <2>3. i \in Nat /\ j \in Nat /\ CountUpTo(I, i) \in Nat
    <3>1. i \in Nat /\ j \in Nat
      BY <2>2
    <3> QED
      BY <3>1, CountType
  <2>4. ~(i < j) /\ ~(j < i)
    <3>1. /\ i < j => CountUpTo(I, i) < CountUpTo(I, j)
          /\ j < i => CountUpTo(I, j) < CountUpTo(I, i)
      BY <2>2, CountIsBijective
    <3> QED
      BY <2>2, <2>3, <3>1
  <2>5. i = j
    BY <2>3, <2>4
  <2> QED
    BY <2>5 DEF j
<1> QED
  BY <1>1, <1>2

-------------------------------------------------------------------------------
(* Subsequences.                                                            *)

\* A subsequence is a sequence, as long as there are positions kept.
LEMMA SubsequenceType ==
  ASSUME NEW S, NEW s \in Seq(S), NEW I \in SUBSET DOMAIN s
  PROVE  /\ Subsequence(s, I) \in Seq(S)
         /\ Len(Subsequence(s, I)) = Cardinality(I) /\ Cardinality(I) \in Nat
         /\ DOMAIN Subsequence(s, I) = 1..Cardinality(I)
<1>1. Len(s) \in Nat /\ DOMAIN s = 1..Len(s) /\ I \in SUBSET (1..Len(s))
  OBVIOUS
<1>2. Cardinality(I) \in Nat
  BY <1>1, PositionsType
<1>3. \A k \in 1..Cardinality(I) : s[Kth(I, k)] \in S
  <2>1. \A k \in 1..Cardinality(I) : Kth(I, k) \in I
    BY <1>1, KthIsPosition
  <2> QED
    BY <1>1, <2>1
<1> QED
  BY <1>2, <1>3 DEF Subsequence

\* It has the elements at the positions kept, and no others.
LEMMA SubsequenceElements ==
  ASSUME NEW S, NEW s \in Seq(S), NEW I \in SUBSET DOMAIN s
  PROVE  ToSet(Subsequence(s, I)) = {s[i] : i \in I}
<1> DEFINE t == Subsequence(s, I)
<1>1. Len(s) \in Nat /\ I \in SUBSET (1..Len(s))
  OBVIOUS
<1>2. DOMAIN t = 1..Cardinality(I) /\ \A k \in DOMAIN t : t[k] = s[Kth(I, k)]
  BY DEF Subsequence
<1>3. \A k \in DOMAIN t : Kth(I, k) \in I
  BY <1>1, <1>2, KthIsPosition
<1>4. \A i \in I : CountUpTo(I, i) \in DOMAIN t /\ t[CountUpTo(I, i)] = s[i]
  BY <1>1, <1>2, KthIsPosition, CountIsBijective
<1> HIDE DEF t
<1>5. {t[k] : k \in DOMAIN t} = {s[i] : i \in I}
  BY <1>2, <1>3, <1>4
<1> QED
  BY <1>5 DEF ToSet, t

-------------------------------------------------------------------------------
(* Elements of other sequences.                                             *)

LEMMA ElementsType ==
  ASSUME NEW S, NEW s \in Seq(S)
  PROVE  ToSet(s) \subseteq S
BY DEF ToSet

LEMMA ConcatElements ==
  ASSUME NEW S, NEW s \in Seq(S), NEW t \in Seq(S)
  PROVE  s \o t \in Seq(S) /\ ToSet(s \o t) = ToSet(s) \union ToSet(t)
<1> DEFINE u == s \o t
<1>1. /\ u \in Seq(S) /\ Len(u) = Len(s) + Len(t)
      /\ \A i \in 1..Len(s) + Len(t) : u[i] = IF i <= Len(s) THEN s[i] ELSE t[i - Len(s)]
  BY ConcatProperties
<1>2. /\ DOMAIN s = 1..Len(s) /\ DOMAIN t = 1..Len(t) /\ DOMAIN u = 1..Len(u)
      /\ Len(s) \in Nat /\ Len(t) \in Nat
  BY <1>1, LenProperties
<1> HIDE DEF u
<1>3. \A i \in DOMAIN s : i \in DOMAIN u /\ u[i] = s[i]
  BY <1>1, <1>2
<1>4. \A i \in DOMAIN t : Len(s) + i \in DOMAIN u /\ u[Len(s) + i] = t[i]
  BY <1>1, <1>2
<1>5. \A i \in DOMAIN u : (i \in DOMAIN s /\ u[i] = s[i]) \/ (i - Len(s) \in DOMAIN t /\ u[i] = t[i - Len(s)])
  BY <1>1, <1>2
<1>6. {u[i] : i \in DOMAIN u} = {s[i] : i \in DOMAIN s} \union {t[i] : i \in DOMAIN t}
  BY <1>3, <1>4, <1>5
<1> QED
  BY <1>1, <1>6 DEF ToSet, u

LEMMA HeadAndTailElements ==
  ASSUME NEW S, NEW s \in Seq(S), s # <<>>
  PROVE  /\ Head(s) \in S /\ Tail(s) \in Seq(S)
         /\ ToSet(s) = {Head(s)} \union ToSet(Tail(s))
<1> DEFINE t == Tail(s)
<1>1. /\ t \in Seq(S) /\ Len(t) = Len(s) - 1 /\ Head(s) \in S
      /\ \A i \in 1..Len(t) : t[i] = s[i + 1]
  BY HeadTailProperties
<1>2. /\ Head(s) = s[1] /\ DOMAIN t = 1..Len(t) /\ DOMAIN s = 1..Len(s)
      /\ Len(s) \in Nat /\ Len(s) # 0
  BY <1>1
<1> HIDE DEF t
<1>3. \A i \in DOMAIN t : i + 1 \in DOMAIN s /\ t[i] = s[i + 1]
  BY <1>1, <1>2
<1>4. \A i \in DOMAIN s : i = 1 \/ (i - 1 \in DOMAIN t /\ s[i] = t[i - 1])
  BY <1>1, <1>2
<1>5. {s[i] : i \in DOMAIN s} = {s[1]} \union {t[i] : i \in DOMAIN t}
  BY <1>2, <1>3, <1>4
<1> QED
  BY <1>1, <1>2, <1>5 DEF ToSet, t

\* Without its i-th element a sequence keeps the others in their order.
LEMMA RemoveAtProperties ==
  ASSUME NEW S, NEW s \in Seq(S), NEW i \in DOMAIN s
  PROVE  /\ RemoveAt(s, i) \in Seq(S) /\ Len(RemoveAt(s, i)) = Len(s) - 1
         /\ \A j \in DOMAIN RemoveAt(s, i) :
              RemoveAt(s, i)[j] = IF j < i THEN s[j] ELSE s[j + 1]
<1> DEFINE a == SubSeq(s, 1, i - 1)
           b == SubSeq(s, i + 1, Len(s))
<1>1. Len(s) \in Nat /\ DOMAIN s = 1..Len(s) /\ i \in 1..Len(s) /\ \A j \in 1..Len(s) : s[j] \in S
  OBVIOUS
<1>2. a \in Seq(S) /\ Len(a) = i - 1 /\ \A j \in 1..i - 1 : a[j] = s[j]
  <2>1. \A j \in 1..i - 1 : s[j] \in S
    BY <1>1
  <2> QED
    BY <1>1, <2>1, SubSeqProperties
<1>3. b \in Seq(S) /\ Len(b) = Len(s) - i /\ \A j \in 1..Len(s) - i : b[j] = s[i + j]
  <2>1. \A j \in i + 1..Len(s) : s[j] \in S
    BY <1>1
  <2> QED
    BY <1>1, <2>1, SubSeqProperties
<1> HIDE DEF a, b
<1> DEFINE c == a \o b
<1>4. /\ c \in Seq(S) /\ Len(c) = Len(a) + Len(b)
      /\ \A j \in 1..Len(a) + Len(b) : c[j] = IF j <= Len(a) THEN a[j] ELSE b[j - Len(a)]
  BY <1>2, <1>3, ConcatProperties
<1> HIDE DEF c
<1>5. i \in Int /\ i >= 1 /\ i <= Len(s) /\ Len(c) = Len(s) - 1 /\ DOMAIN c = 1..Len(s) - 1
  BY <1>1, <1>2, <1>3, <1>4
<1>6. ASSUME NEW j \in DOMAIN c PROVE c[j] = IF j < i THEN s[j] ELSE s[j + 1]
  <2>1. j \in Int /\ j >= 1 /\ j <= Len(s) - 1
    BY <1>1, <1>5
  <2>2. c[j] = IF j <= Len(a) THEN a[j] ELSE b[j - Len(a)]
    BY <1>1, <1>2, <1>3, <1>4, <2>1
  <2>3. CASE j < i
    <3>1. j <= Len(a) /\ j \in 1..i - 1
      BY <1>2, <1>5, <2>1, <2>3
    <3> QED
      BY <1>2, <2>2, <2>3, <3>1
  <2>4. CASE ~(j < i)
    <3>1. /\ ~(j <= Len(a)) /\ j - Len(a) = j - i + 1 /\ j - i + 1 \in 1..Len(s) - i
          /\ i + (j - i + 1) = j + 1
      BY <1>1, <1>2, <1>5, <2>1, <2>4
    <3> QED
      BY <1>3, <2>2, <2>4, <3>1
  <2> QED
    BY <2>3, <2>4
<1>7. RemoveAt(s, i) = c
  BY DEF RemoveAt, a, b, c
<1> QED
  BY <1>4, <1>5, <1>6, <1>7

-------------------------------------------------------------------------------
(* Minutes round the clock.                                                 *)

LEMMA Remainder ==
  ASSUME NEW a \in Int
  PROVE  /\ a % MinutesPerDay \in 0..MinutesPerDay - 1
         /\ a \in 0..MinutesPerDay - 1 => a % MinutesPerDay = a
         /\ a - MinutesPerDay \in 0..MinutesPerDay - 1 => a % MinutesPerDay = a - MinutesPerDay
         /\ a + MinutesPerDay \in 0..MinutesPerDay - 1 => a % MinutesPerDay = a + MinutesPerDay
BY RuleEngineAssumption

\* _time_in_range is the walk round the clock from the start of the session.
LEMMA TimeInRangeIsClockwise ==
  ASSUME NEW start \in 0..MinutesPerDay - 1, NEW end \in 0..MinutesPerDay - 1,
         NEW t \in 0..MinutesPerDay - 1
  PROVE  TimeInRange(t, start, end) <=> t \in SessionMinutes(start, end)
<1> DEFINE length == (end - start) % MinutesPerDay
<1>1. MinutesPerDay \in Nat \ {0} /\ start \in Nat /\ end \in Nat /\ t \in Nat
  BY RuleEngineAssumption
<1>2. length = IF start <= end THEN end - start ELSE end - start + MinutesPerDay
  <2>1. end - start \in Int
    BY <1>1
  <2>2. CASE start <= end
    <3>1. end - start \in 0..MinutesPerDay - 1
      BY <1>1, <2>2
    <3> QED
      BY <2>1, <2>2, <3>1, Remainder
  <2>3. CASE ~(start <= end)
    <3>1. (end - start) + MinutesPerDay \in 0..MinutesPerDay - 1
      BY <1>1, <2>3
    <3>2. length = (end - start) + MinutesPerDay
      BY <2>1, <3>1, Remainder
    <3> QED
      BY <2>3, <3>2
  <2> QED
    BY <2>2, <2>3
<1> HIDE DEF length
<1>3. ASSUME NEW k \in 0..length - 1, t = (start + k) % MinutesPerDay
      PROVE  TimeInRange(t, start, end)
  <2>1. k \in Nat /\ k < length /\ length <= MinutesPerDay - 1
    BY <1>1, <1>2, <1>3
  <2>2. t = start + k \/ t = start + k - MinutesPerDay
    <3>1. start + k \in Int
      BY <1>1, <2>1
    <3>2. CASE start + k \in 0..MinutesPerDay - 1
      BY <1>3, <3>1, <3>2, Remainder
    <3>3. CASE (start + k) - MinutesPerDay \in 0..MinutesPerDay - 1
      <4>1. (start + k) % MinutesPerDay = (start + k) - MinutesPerDay
        BY <3>1, <3>3, Remainder
      <4> QED
        BY <1>1, <1>3, <2>1, <4>1
    <3>4. start + k \in 0..MinutesPerDay - 1 \/ (start + k) - MinutesPerDay \in 0..MinutesPerDay - 1
      <4>1. start <= MinutesPerDay - 1 /\ k <= MinutesPerDay - 1 /\ start \in Int /\ k \in Int
        BY <1>1, <1>2, <2>1
      <4> QED
        BY <1>1, <2>1, <4>1
    <3> QED
      BY <3>2, <3>3, <3>4
  <2> QED
    BY <1>1, <1>2, <2>1, <2>2 DEF TimeInRange
<1>4. ASSUME TimeInRange(t, start, end)
      PROVE  \E k \in 0..length - 1 : t = (start + k) % MinutesPerDay
  <2>1. CASE t >= start
    <3>1. t - start \in 0..length - 1 /\ start + (t - start) = t
      BY <1>1, <1>2, <1>4, <2>1 DEF TimeInRange
    <3>2. t = t % MinutesPerDay
      BY <1>1, Remainder
    <3> QED
      BY <3>1, <3>2
  <2>2. CASE t < start
    <3>1. t + MinutesPerDay - start \in 0..length - 1 /\ start + (t + MinutesPerDay - start) = t + MinutesPerDay
      BY <1>1, <1>2, <1>4, <2>2 DEF TimeInRange
    <3>2. t = (t + MinutesPerDay) % MinutesPerDay
      <4>1. t + MinutesPerDay \in Int /\ (t + MinutesPerDay) - MinutesPerDay = t
        BY <1>1
      <4> QED
        BY <4>1, Remainder
    <3> QED
      BY <3>1, <3>2
  <2> QED
    BY <1>1, <2>1, <2>2
<1> QED
  BY <1>3, <1>4 DEF SessionMinutes, length

-------------------------------------------------------------------------------
(* The run of losses at the end of the day's trades.                        *)

\* The streak counted from the newest trade back is at least n if and only if
\* the last n trades lost.
LEMMA StreakIsRun ==
  ASSUME NEW trades \in Seq(Trade), NEW n \in Nat
  PROVE  /\ ConsecutiveLosses(trades) \in Nat
         /\ n <= ConsecutiveLosses(trades) <=> EndsInLosses(trades, n)
<1> DEFINE notLost == {i \in DOMAIN trades : trades[i].profit >= 0}
           last    == IF notLost = {} THEN 0 ELSE Max(notLost)
<1>1. /\ Len(trades) \in Nat /\ DOMAIN trades = 1..Len(trades) /\ notLost \in SUBSET (1..Len(trades))
      /\ \A i \in 1..Len(trades) : trades[i].profit \in Int
  <2>1. Len(trades) \in Nat /\ DOMAIN trades = 1..Len(trades) /\ \A i \in 1..Len(trades) : trades[i] \in Trade
    OBVIOUS
  <2>2. \A i \in 1..Len(trades) : trades[i].profit \in Int
    BY <2>1 DEF Trade
  <2> QED
    BY <2>1, <2>2
<1>2. last \in 0..Len(trades) /\ (last # 0 => last \in notLost) /\ \A i \in notLost : i <= last
  <2> HIDE DEF notLost
  <2>1. CASE notLost = {}
    BY <1>1, <2>1
  <2>2. CASE notLost # {}
    <3>1. Max(notLost) \in notLost /\ \A i \in notLost : i <= Max(notLost)
      BY <1>1, <2>2, GreatestPosition
    <3>2. last = Max(notLost)
      BY <2>2
    <3> HIDE DEF last
    <3>3. last \in notLost /\ \A i \in notLost : i <= last
      BY <3>1, <3>2, Zenon
    <3>4. last \in 1..Len(trades)
      BY <1>1, <3>3
    <3> QED
      BY <1>1, <3>3, <3>4
  <2> QED
    BY <2>1, <2>2
<1>3. \A i \in 1..Len(trades) : i \in notLost <=> ~(trades[i].profit < 0)
  BY <1>1
<1> HIDE DEF last, notLost
<1> DEFINE NoneNotLost == n <= Len(trades) /\ \A k \in Len(trades) - n + 1..Len(trades) : k \notin notLost
<1>4. n <= Len(trades) - last <=> NoneNotLost
  <2>1. ASSUME n <= Len(trades) - last PROVE NoneNotLost
    <3>1. \A k \in Len(trades) - n + 1..Len(trades) : ~(k <= last)
      BY <1>1, <1>2, <2>1
    <3> QED
      BY <1>1, <1>2, <2>1, <3>1
  <2>2. ASSUME NoneNotLost PROVE n <= Len(trades) - last
    <3>1. CASE last = 0
      BY <1>1, <2>2, <3>1
    <3>2. CASE last # 0
      <4>1. ~(last \in Len(trades) - n + 1..Len(trades))
        BY <1>2, <2>2, <3>2
      <4> QED
        BY <1>1, <1>2, <4>1
    <3> QED
      BY <3>1, <3>2
  <2> QED
    BY <2>1, <2>2
<1>5. EndsInLosses(trades, n) <=> NoneNotLost
  <2>1. ASSUME n <= Len(trades), NEW k \in Len(trades) - n + 1..Len(trades)
        PROVE  trades[k].profit < 0 <=> k \notin notLost
    <3>1. k \in 1..Len(trades)
      BY <1>1, <2>1
    <3> QED
      BY <1>3, <3>1
  <2> QED
    BY <2>1 DEF EndsInLosses
<1>6. ConsecutiveLosses(trades) = Len(trades) - last
  BY DEF ConsecutiveLosses, last, notLost
<1> QED
  BY <1>1, <1>2, <1>4, <1>5, <1>6

-------------------------------------------------------------------------------
(* The day's result is a number.                                            *)

LEMMA PartialSums ==
  ASSUME NEW n \in Nat, NEW p \in [1..n -> Int], NEW m \in 0..n
  PROVE  \E f \in [0..n -> Int] : f[0] = 0 /\ \A i \in 1..m : f[i] = f[i - 1] + p[i]
<1> DEFINE Sum(f, k) == f[0] = 0 /\ \A i \in 1..k : f[i] = f[i - 1] + p[i]
           bad       == {k \in 0..n : ~ \E f \in [0..n -> Int] : Sum(f, k)}
<1>1. bad = {}
  <2> SUFFICES ASSUME bad # {} PROVE FALSE
    OBVIOUS
  <2>1. PICK k \in bad : \A l \in bad : k <= l
    <3>1. bad \in SUBSET Nat
      OBVIOUS
    <3> QED
      BY <3>1, LeastNumber
  <2>2. k # 0
    <3> DEFINE zero == [i \in 0..n |-> 0]
    <3>1. zero \in [0..n -> Int] /\ Sum(zero, 0)
      OBVIOUS
    <3> QED
      BY <2>1, <3>1
  <2>3. k - 1 \in 0..n /\ k \in 1..n /\ ~(k <= k - 1)
    BY <2>1, <2>2
  <2>4. PICK f \in [0..n -> Int] : Sum(f, k - 1)
    BY <2>1, <2>3
  <2> DEFINE g == [f EXCEPT ![k] = f[k - 1] + p[k]]
  <2>5. g \in [0..n -> Int] /\ \A i \in 0..n : g[i] = IF i = k THEN f[k - 1] + p[k] ELSE f[i]
    <3>1. f[k - 1] \in Int /\ p[k] \in Int
      BY <2>3
    <3> QED
      BY <2>3, <3>1
  <2> HIDE DEF g
  <2>6. Sum(g, k)
    <3>1. g[0] = 0
      BY <2>3, <2>4, <2>5
    <3>2. ASSUME NEW i \in 1..k PROVE g[i] = g[i - 1] + p[i]
      <4>1. i \in 0..n /\ i - 1 \in 0..n /\ i - 1 # k
        BY <2>3
      <4>2. g[i - 1] = f[i - 1]
        BY <2>5, <4>1
      <4>3. CASE i = k
        BY <2>5, <4>1, <4>2, <4>3
      <4>4. CASE i # k
        <5>1. i \in 1..k - 1
          BY <2>3, <4>4
        <5> QED
          BY <2>4, <2>5, <4>1, <4>2, <4>4, <5>1
      <4> QED
        BY <4>3, <4>4
    <3> QED
      BY <3>1, <3>2
  <2> QED
    BY <2>1, <2>5, <2>6
<1> QED
  BY <1>1

\* The partial sums of a list, of which TotalProfit is the last.
SumsOf(items, f) ==
  /\ f \in [0..Len(items) -> Int] /\ f[0] = 0
  /\ \A i \in 1..Len(items) : f[i] = f[i - 1] + items[i].profit

HasProfits(items) == Len(items) \in Nat /\ \A i \in 1..Len(items) : items[i].profit \in Int

LEMMA TotalIsLastSum ==
  ASSUME NEW items, HasProfits(items)
  PROVE  \E f : SumsOf(items, f) /\ TotalProfit(items) = f[Len(items)]
<1> DEFINE n       == Len(items)
           p       == [i \in 1..n |-> items[i].profit]
           Step(f) == [i \in 0..n |-> IF i = 0 THEN 0 ELSE f[i - 1] + items[i].profit]
           sum     == CHOOSE h : h = Step(h)
<1>1. n \in Nat /\ p \in [1..n -> Int] /\ \A i \in 1..n : p[i] = items[i].profit
  BY DEF HasProfits
<1> HIDE DEF n, p
<1>2. PICK f \in [0..n -> Int] : f[0] = 0 /\ \A i \in 1..n : f[i] = f[i - 1] + p[i]
  <2>1. n \in 0..n
    BY <1>1
  <2> QED
    BY <1>1, <2>1, PartialSums
<1>3. f = Step(f)
  <2>1. \A i \in 0..n : f[i] = IF i = 0 THEN 0 ELSE f[i - 1] + items[i].profit
    <3>1. \A i \in 0..n : i = 0 \/ i \in 1..n
      BY <1>1
    <3> QED
      BY <1>1, <1>2, <3>1
  <2> QED
    BY <1>2, <2>1
<1>4. sum = Step(sum)
  <2> HIDE DEF Step
  <2> QED
    BY <1>3
<1> HIDE DEF sum
<1>5. sum[0] = 0 /\ \A i \in 1..n : i - 1 \in 0..n /\ sum[i] = sum[i - 1] + items[i].profit
  <2>1. 0 \in 0..n /\ \A i \in 1..n : i \in 0..n /\ i # 0 /\ i - 1 \in 0..n
    BY <1>1
  <2> QED
    BY <1>4, <2>1
<1>6. \A i \in 0..n : i \in {j \in 0..n : sum[j] \in Int}
  <2> DEFINE S == {j \in 0..n : sum[j] \in Int}
  <2>1. 0 \in S
    BY <1>1, <1>5
  <2>2. ASSUME NEW i \in 1..n, i - 1 \in S PROVE i \in S
    <3>1. items[i].profit \in Int /\ i \in 0..n
      BY <1>1
    <3> QED
      BY <1>5, <2>2, <3>1
  <2> HIDE DEF S
  <2>3. \A i \in 0..n : i \in S
    BY <1>1, <2>1, <2>2, UpTo
  <2> QED
    BY <2>3 DEF S
<1>7. sum \in [0..n -> Int]
  BY <1>4, <1>6
<1>8. SumsOf(items, sum)
  BY <1>5, <1>7 DEF SumsOf, n
<1> QED
  BY <1>8 DEF TotalProfit, sum, n

LEMMA TotalProfitType ==
  ASSUME NEW items, HasProfits(items)
  PROVE  TotalProfit(items) \in Int
<1>1. Len(items) \in 0..Len(items)
  BY DEF HasProfits
<1> QED
  BY <1>1, TotalIsLastSum DEF SumsOf

-------------------------------------------------------------------------------
(* What the checks return: results of their own rules, and these flagged.    *)

\* The tickets of the results that did not pass.
Flagged(results) == {r.ticket : r \in {r \in ToSet(results) : ~r.passed}}

\* A sequence of results, all of them for rules in ids.
ResultsFor(results, ids) == results \in Seq(CheckResult) /\ \A r \in ToSet(results) : r.rule \in ids

LEMMA TupleElements ==
  ToSet(<<>>) = {} /\ \A a, b : ToSet(<<a>>) = {a} /\ ToSet(<<a, b>>) = {a, b}
<1>1. ToSet(<<>>) = {}
  BY DEF ToSet
<1>2. ASSUME NEW a PROVE ToSet(<<a>>) = {a}
  <2> DEFINE s == <<a>>
  <2>1. DOMAIN s = {1} /\ s[1] = a
    OBVIOUS
  <2> HIDE DEF s
  <2>2. ToSet(s) = {a}
    BY <2>1 DEF ToSet
  <2> QED
    BY <2>2 DEF s
<1>3. ASSUME NEW a, NEW b PROVE ToSet(<<a, b>>) = {a, b}
  <2> DEFINE s == <<a, b>>
  <2>1. DOMAIN s = {1, 2} /\ s[1] = a /\ s[2] = b
    OBVIOUS
  <2> HIDE DEF s
  <2>2. ToSet(s) = {a, b}
    BY <2>1 DEF ToSet
  <2> QED
    BY <2>2 DEF s
<1> QED
  BY <1>1, <1>2, <1>3

LEMMA NoResults ==
  ASSUME NEW ids
  PROVE  ResultsFor(<<>>, ids) /\ Flagged(<<>>) = {}
<1>1. ToSet(<<>>) = {} /\ <<>> \in Seq(CheckResult)
  BY DEF ToSet
<1> QED
  BY <1>1 DEF ResultsFor, Flagged

LEMMA OneResult ==
  ASSUME NEW rule \in RuleIds, NEW passed \in BOOLEAN
  PROVE  LET results == <<Result(rule, passed, NoTicket)>>
         IN  ResultsFor(results, {rule}) /\ Flagged(results) = IF passed THEN {} ELSE {NoTicket}
<1> DEFINE r       == Result(rule, passed, NoTicket)
           results == <<r>>
<1>1. r \in CheckResult /\ r.rule = rule /\ r.passed = passed /\ r.ticket = NoTicket
  BY DEF Result, CheckResult
<1> HIDE DEF r
<1>2. results \in Seq(CheckResult) /\ ToSet(results) = {r}
  <2>1. DOMAIN results = {1} /\ results[1] = r /\ results \in Seq(CheckResult)
    BY <1>1
  <2> HIDE DEF results
  <2> QED
    BY <2>1 DEF ToSet
<1> HIDE DEF results
<1>3. ResultsFor(results, {rule}) /\ Flagged(results) = IF passed THEN {} ELSE {NoTicket}
  BY <1>1, <1>2 DEF ResultsFor, Flagged
<1> QED
  BY <1>3 DEF results, r

LEMMA PositionResults ==
  ASSUME NEW positions \in Seq(Position), NEW rule \in RuleIds, NEW passing
  PROVE  LET results == PerPosition(rule, positions, passing)
         IN  /\ ResultsFor(results, {rule})
             /\ Flagged(results) = {positions[i].ticket : i \in {i \in DOMAIN positions : i \notin passing}}
<1> DEFINE results == PerPosition(rule, positions, passing)
<1>1. /\ Len(positions) \in Nat /\ DOMAIN positions = 1..Len(positions)
      /\ \A i \in DOMAIN positions : positions[i] \in Position
  OBVIOUS
<1>2. \A i \in DOMAIN positions : positions[i].ticket \in Nat
  BY <1>1 DEF Position
<1>3. DOMAIN results = DOMAIN positions
  BY DEF PerPosition
<1>4. ASSUME NEW i \in DOMAIN positions
      PROVE  /\ results[i] \in CheckResult /\ results[i].rule = rule
             /\ results[i].passed = (i \in passing) /\ results[i].ticket = positions[i].ticket
  BY <1>2 DEF PerPosition, Result, CheckResult
<1>5. results \in Seq(CheckResult)
  <2>1. results = [i \in 1..Len(positions) |-> results[i]]
    BY <1>1 DEF PerPosition
  <2> HIDE DEF results
  <2> QED
    BY <1>1, <1>3, <1>4, <2>1
<1> HIDE DEF results
<1>6. ToSet(results) = {results[i] : i \in DOMAIN positions}
  BY <1>3 DEF ToSet
<1>7. Flagged(results) = {positions[i].ticket : i \in {i \in DOMAIN positions : i \notin passing}}
  <2> DEFINE notPassed == {r \in ToSet(results) : ~r.passed}
             out       == {i \in DOMAIN positions : i \notin passing}
  <2>1. \A i \in out : results[i] \in notPassed /\ results[i].ticket = positions[i].ticket
    BY <1>4, <1>6
  <2>2. \A r \in notPassed : \E i \in out : r = results[i]
    BY <1>4, <1>6
  <2> HIDE DEF notPassed, out
  <2>3. {r.ticket : r \in notPassed} = {positions[i].ticket : i \in out}
    BY <2>1, <2>2
  <2> QED
    BY <2>3 DEF Flagged, notPassed, out
<1> QED
  BY <1>4, <1>5, <1>6, <1>7 DEF ResultsFor, results

\* The places of the positions a check has nothing to say about, or lets pass,
\* are left out.
RiskTooHigh(rules, snap, p) ==
  p.sl /\ p.symbol \in snap.symbolInfo /\ ~RiskWithin(rules, snap, p)

TicketsWhere(positions, places) == {positions[i].ticket : i \in places}

LEMMA RiskResults ==
  ASSUME NEW rules \in TradingRules, NEW snap \in AccountSnapshot
  PROVE  /\ ResultsFor(CheckMaxRiskPerTrade(rules, snap), {"max_risk_per_trade"})
         /\ Flagged(CheckMaxRiskPerTrade(rules, snap)) =
              TicketsWhere(snap.positions,
                {i \in DOMAIN snap.positions : RiskTooHigh(rules, snap, snap.positions[i])})
<1> DEFINE all   == snap.positions
           I     == {i \in DOMAIN all : all[i].sl /\ all[i].symbol \in snap.symbolInfo}
           sized == Subsequence(all, I)
           ok    == {i \in DOMAIN sized : RiskWithin(rules, snap, sized[i])}
           bad   == {i \in DOMAIN all : RiskTooHigh(rules, snap, all[i])}
<1>1. all \in Seq(Position) /\ I \in SUBSET DOMAIN all
  BY DEF AccountSnapshot
<1>2. \A i \in DOMAIN all : i \in bad <=> i \in I /\ ~RiskWithin(rules, snap, all[i])
  BY DEF RiskTooHigh
<1>3. bad \subseteq DOMAIN all
  OBVIOUS
<1> HIDE DEF all, I, bad
<1>4. sized \in Seq(Position)
  BY <1>1, SubsequenceType
<1>5. ToSet(sized) = {all[i] : i \in I}
  BY <1>1, SubsequenceElements
<1>6. CheckMaxRiskPerTrade(rules, snap) = PerPosition("max_risk_per_trade", sized, ok)
  BY DEF CheckMaxRiskPerTrade, all, I
<1> HIDE DEF sized
<1>7. \A i \in DOMAIN sized : i \notin ok <=> ~RiskWithin(rules, snap, sized[i])
  OBVIOUS
<1> HIDE DEF ok
<1>8. {sized[i].ticket : i \in {i \in DOMAIN sized : i \notin ok}} = {all[i].ticket : i \in bad}
  <2>1. \A i \in DOMAIN sized : \E j \in I : sized[i] = all[j]
    BY <1>5 DEF ToSet
  <2>2. \A j \in I : \E i \in DOMAIN sized : sized[i] = all[j]
    BY <1>5 DEF ToSet
  <2>3. ASSUME NEW i \in DOMAIN sized, i \notin ok PROVE \E j \in bad : sized[i].ticket = all[j].ticket
    <3>1. PICK j \in I : sized[i] = all[j]
      BY <2>1
    <3>2. j \in bad
      BY <1>1, <1>2, <1>7, <2>3, <3>1
    <3> QED
      BY <3>1, <3>2
  <2>4. ASSUME NEW j \in bad PROVE \E i \in DOMAIN sized : i \notin ok /\ sized[i].ticket = all[j].ticket
    <3>1. j \in I /\ ~RiskWithin(rules, snap, all[j])
      BY <1>2, <1>3
    <3>2. PICK i \in DOMAIN sized : sized[i] = all[j]
      BY <2>2, <3>1
    <3> QED
      BY <1>7, <3>1, <3>2
  <2> QED
    BY <2>3, <2>4
<1>9. "max_risk_per_trade" \in RuleIds
  BY DEF RuleIds
<1>10. /\ ResultsFor(PerPosition("max_risk_per_trade", sized, ok), {"max_risk_per_trade"})
       /\ Flagged(PerPosition("max_risk_per_trade", sized, ok)) = {all[i].ticket : i \in bad}
  BY <1>4, <1>8, <1>9, PositionResults
<1> QED
  BY <1>6, <1>10 DEF TicketsWhere, all, bad

LEMMA PositionsOfSnapshot ==
  ASSUME NEW snap \in AccountSnapshot
  PROVE  /\ snap.positions \in Seq(Position) /\ snap.trades \in Seq(Trade)
         /\ snap.asOf \in Nat /\ snap.balance \in Int /\ snap.equity \in Int
BY DEF AccountSnapshot

\* A check that looks at every position; ok are the places of those that pass.
LEMMA EachPosition ==
  ASSUME NEW snap \in AccountSnapshot, NEW rule \in RuleIds, NEW ok
  PROVE  LET results == PerPosition(rule, snap.positions, ok)
         IN  /\ ResultsFor(results, {rule})
             /\ Flagged(results) = TicketsWhere(snap.positions, {i \in DOMAIN snap.positions : i \notin ok})
<1>1. snap.positions \in Seq(Position)
  BY PositionsOfSnapshot
<1> QED
  BY <1>1, PositionResults DEF TicketsWhere

LEMMA StopLossResults ==
  ASSUME NEW rules \in TradingRules, NEW snap \in AccountSnapshot
  PROVE  /\ ResultsFor(CheckStopLossRequired(rules, snap), {"stop_loss_required"})
         /\ Flagged(CheckStopLossRequired(rules, snap)) =
              IF rules.requireSL
              THEN TicketsWhere(snap.positions, {i \in DOMAIN snap.positions : ~snap.positions[i].sl})
              ELSE {}
<1> DEFINE ok == {i \in DOMAIN snap.positions : snap.positions[i].sl}
<1>1. CASE rules.requireSL
  <2>2. {i \in DOMAIN snap.positions : i \notin ok} = {i \in DOMAIN snap.positions : ~snap.positions[i].sl}
    OBVIOUS
  <2>3. CheckStopLossRequired(rules, snap) = PerPosition("stop_loss_required", snap.positions, ok)
    BY <1>1 DEF CheckStopLossRequired
  <2>4. "stop_loss_required" \in RuleIds
    BY DEF RuleIds
  <2> HIDE DEF ok
  <2>5. /\ ResultsFor(PerPosition("stop_loss_required", snap.positions, ok), {"stop_loss_required"})
        /\ Flagged(PerPosition("stop_loss_required", snap.positions, ok))
             = TicketsWhere(snap.positions, {i \in DOMAIN snap.positions : i \notin ok})
    BY <2>4, EachPosition
  <2> QED
    BY <1>1, <2>2, <2>3, <2>5
<1>2. CASE ~rules.requireSL
  <2>1. CheckStopLossRequired(rules, snap) = <<>>
    BY <1>2 DEF CheckStopLossRequired
  <2> QED
    BY <1>2, <2>1, NoResults
<1> QED
  BY <1>1, <1>2

LEMMA TakeProfitResults ==
  ASSUME NEW rules \in TradingRules, NEW snap \in AccountSnapshot
  PROVE  /\ ResultsFor(CheckTakeProfitRequired(rules, snap), {"take_profit_required"})
         /\ Flagged(CheckTakeProfitRequired(rules, snap)) =
              IF rules.requireTP
              THEN TicketsWhere(snap.positions, {i \in DOMAIN snap.positions : ~snap.positions[i].tp})
              ELSE {}
<1> DEFINE ok == {i \in DOMAIN snap.positions : snap.positions[i].tp}
<1>1. CASE rules.requireTP
  <2>2. {i \in DOMAIN snap.positions : i \notin ok} = {i \in DOMAIN snap.positions : ~snap.positions[i].tp}
    OBVIOUS
  <2>3. CheckTakeProfitRequired(rules, snap) = PerPosition("take_profit_required", snap.positions, ok)
    BY <1>1 DEF CheckTakeProfitRequired
  <2>4. "take_profit_required" \in RuleIds
    BY DEF RuleIds
  <2> HIDE DEF ok
  <2>5. /\ ResultsFor(PerPosition("take_profit_required", snap.positions, ok), {"take_profit_required"})
        /\ Flagged(PerPosition("take_profit_required", snap.positions, ok))
             = TicketsWhere(snap.positions, {i \in DOMAIN snap.positions : i \notin ok})
    BY <2>4, EachPosition
  <2> QED
    BY <1>1, <2>2, <2>3, <2>5
<1>2. CASE ~rules.requireTP
  <2>1. CheckTakeProfitRequired(rules, snap) = <<>>
    BY <1>2 DEF CheckTakeProfitRequired
  <2> QED
    BY <1>2, <2>1, NoResults
<1> QED
  BY <1>1, <1>2

LEMMA SymbolResults ==
  ASSUME NEW rules \in TradingRules, NEW snap \in AccountSnapshot
  PROVE  /\ ResultsFor(CheckAllowedSymbols(rules, snap), {"allowed_symbol"})
         /\ Flagged(CheckAllowedSymbols(rules, snap)) =
              TicketsWhere(snap.positions,
                {i \in DOMAIN snap.positions : snap.positions[i].symbol \notin rules.symbols})
<1> DEFINE ok == {i \in DOMAIN snap.positions : snap.positions[i].symbol \in rules.symbols}
<1>2. {i \in DOMAIN snap.positions : i \notin ok}
        = {i \in DOMAIN snap.positions : snap.positions[i].symbol \notin rules.symbols}
  OBVIOUS
<1>3. CheckAllowedSymbols(rules, snap) = PerPosition("allowed_symbol", snap.positions, ok)
  BY DEF CheckAllowedSymbols
<1>4. "allowed_symbol" \in RuleIds
  BY DEF RuleIds
<1> HIDE DEF ok
<1>5. /\ ResultsFor(PerPosition("allowed_symbol", snap.positions, ok), {"allowed_symbol"})
      /\ Flagged(PerPosition("allowed_symbol", snap.positions, ok))
           = TicketsWhere(snap.positions, {i \in DOMAIN snap.positions : i \notin ok})
  BY <1>4, EachPosition
<1> QED
  BY <1>2, <1>3, <1>5

\* The places of the positions opened outside the session, by the clock.
LEMMA SessionResults ==
  ASSUME NEW rules \in TradingRules, NEW snap \in AccountSnapshot
  PROVE  /\ ResultsFor(CheckTradingSession(rules, snap), {"trading_session"})
         /\ Flagged(CheckTradingSession(rules, snap)) =
              TicketsWhere(snap.positions,
                {i \in DOMAIN snap.positions :
                   Time(snap.positions[i].openTime) \notin SessionMinutes(rules.start, rules.end)})
<1> DEFINE ps == snap.positions
           ok == {i \in DOMAIN ps : TimeInRange(Time(ps[i].openTime), rules.start, rules.end)}
<1>2. \A i \in DOMAIN ps : i \notin ok <=> Time(ps[i].openTime) \notin SessionMinutes(rules.start, rules.end)
  <2> SUFFICES ASSUME NEW i \in DOMAIN ps
      PROVE TimeInRange(Time(ps[i].openTime), rules.start, rules.end)
              <=> Time(ps[i].openTime) \in SessionMinutes(rules.start, rules.end)
    OBVIOUS
  <2>1. ps[i].openTime \in Int
    <3>1. ps \in Seq(Position)
      BY PositionsOfSnapshot
    <3>2. ps[i] \in Position
      BY <3>1
    <3> QED
      BY <3>2 DEF Position
  <2>2. Time(ps[i].openTime) \in 0..MinutesPerDay - 1
    BY <2>1, Remainder DEF Time
  <2>3. rules.start \in 0..MinutesPerDay - 1 /\ rules.end \in 0..MinutesPerDay - 1
    BY DEF TradingRules
  <2> QED
    BY <2>2, <2>3, TimeInRangeIsClockwise
<1>3. {i \in DOMAIN ps : i \notin ok}
        = {i \in DOMAIN ps : Time(ps[i].openTime) \notin SessionMinutes(rules.start, rules.end)}
  <2> HIDE DEF ps, ok
  <2> QED
    BY <1>2
<1>4. CheckTradingSession(rules, snap) = PerPosition("trading_session", ps, ok)
  BY DEF CheckTradingSession
<1>5. "trading_session" \in RuleIds
  BY DEF RuleIds
<1> HIDE DEF ok
<1>6. /\ ResultsFor(PerPosition("trading_session", ps, ok), {"trading_session"})
      /\ Flagged(PerPosition("trading_session", ps, ok)) = TicketsWhere(ps, {i \in DOMAIN ps : i \notin ok})
  BY <1>5, EachPosition
<1> QED
  BY <1>3, <1>4, <1>6

LEMMA ConcurrentResults ==
  ASSUME NEW rules \in TradingRules, NEW snap \in AccountSnapshot
  PROVE  /\ ResultsFor(CheckMaxConcurrentPositions(rules, snap), {"max_concurrent_positions"})
         /\ Flagged(CheckMaxConcurrentPositions(rules, snap)) =
              IF Len(snap.positions) <= rules.maxPositions THEN {} ELSE {NoTicket}
<1>1. "max_concurrent_positions" \in RuleIds /\ (Len(snap.positions) <= rules.maxPositions) \in BOOLEAN
  BY DEF RuleIds
<1> QED
  BY <1>1, OneResult DEF CheckMaxConcurrentPositions

\* How many trades of today count for the limit.
TradesOfToday(snap) ==
  Cardinality({i \in DOMAIN snap.positions : Day(snap.positions[i].openTime) = Day(snap.asOf)})
    + Len(snap.trades)

LEMMA TradesResults ==
  ASSUME NEW rules \in TradingRules, NEW snap \in AccountSnapshot
  PROVE  /\ ResultsFor(CheckMaxTradesPerDay(rules, snap), {"max_trades_per_day"})
         /\ Flagged(CheckMaxTradesPerDay(rules, snap)) =
              IF TradesOfToday(snap) <= rules.maxTrades THEN {} ELSE {NoTicket}
<1>1. "max_trades_per_day" \in RuleIds /\ (TradesOfToday(snap) <= rules.maxTrades) \in BOOLEAN
  BY DEF RuleIds
<1> QED
  BY <1>1, OneResult DEF CheckMaxTradesPerDay, TradesOfToday

\* In a cooldown the positions opened after the last loss are flagged, and
\* nothing out of it.
LEMMA CooldownResults ==
  ASSUME NEW rules \in TradingRules, NEW snap \in AccountSnapshot
  PROVE  /\ ResultsFor(CheckConsecutiveLossCooldown(rules, snap), {"consecutive_loss_cooldown"})
         /\ Flagged(CheckConsecutiveLossCooldown(rules, snap)) =
              IF InCooldown(rules, snap.trades, snap.asOf)
              THEN TicketsWhere(snap.positions,
                     {i \in DOMAIN snap.positions : snap.positions[i].openTime > Last(snap.trades).closeTime})
              ELSE {}
<1> DEFINE ps       == snap.positions
           trades   == snap.trades
           id       == "consecutive_loss_cooldown"
           streak   == ConsecutiveLosses(trades)
           lastLoss == Last(trades).closeTime
           I        == {i \in DOMAIN ps : ps[i].openTime > lastLoss}
           during   == Subsequence(ps, I)
           check    == CheckConsecutiveLossCooldown(rules, snap)
<1>1. /\ ps \in Seq(Position) /\ trades \in Seq(Trade) /\ snap.asOf \in Nat
      /\ rules.lossTrigger \in Nat \ {0} /\ rules.cooldown \in Nat /\ I \in SUBSET DOMAIN ps
  BY PositionsOfSnapshot DEF TradingRules
<1>2. check = IF trades = <<>> \/ streak < rules.lossTrigger THEN <<>>
              ELSE IF snap.asOf >= lastLoss + rules.cooldown \/ during = <<>>
                   THEN <<Result(id, TRUE, NoTicket)>>
                   ELSE PerPosition(id, during, {})
  BY DEF CheckConsecutiveLossCooldown, OpenedAfter
<1>3. trades # <<>> /\ ~(streak < rules.lossTrigger) <=> EndsInLosses(trades, rules.lossTrigger)
  <2>1. streak \in Nat /\ (rules.lossTrigger <= streak <=> EndsInLosses(trades, rules.lossTrigger))
    BY <1>1, StreakIsRun
  <2>2. EndsInLosses(trades, rules.lossTrigger) => trades # <<>>
    BY <1>1 DEF EndsInLosses
  <2> HIDE DEF streak, trades
  <2> QED
    BY <1>1, <2>1, <2>2
<1>4. trades # <<>> => lastLoss \in Nat
  <2>1. trades # <<>> => trades[Len(trades)] \in Trade
    BY <1>1
  <2> QED
    BY <2>1 DEF Last, Trade
<1>5. InCooldown(rules, trades, snap.asOf)
        <=> EndsInLosses(trades, rules.lossTrigger) /\ snap.asOf < lastLoss + rules.cooldown
  BY DEF InCooldown, Last
<1> HIDE DEF ps, trades, streak, lastLoss, I, check
<1>6. during \in Seq(Position) /\ ToSet(during) = {ps[i] : i \in I} /\ (during = <<>> <=> I = {})
  <2>1. during \in Seq(Position) /\ ToSet(during) = {ps[i] : i \in I}
    BY <1>1, SubsequenceType, SubsequenceElements
  <2> HIDE DEF during
  <2>2. during = <<>> => I = {}
    <3>1. ToSet(<<>>) = {}
      BY DEF ToSet
    <3>2. {ps[i] : i \in I} = {} => I = {}
      OBVIOUS
    <3> QED
      BY <2>1, <3>1, <3>2
  <2>3. during # <<>> => 1 \in DOMAIN during
    BY <2>1
  <2>4. I = {} => during = <<>>
    BY <2>1, <2>3 DEF ToSet
  <2> QED
    BY <2>1, <2>2, <2>4
<1> HIDE DEF during
<1>7. id \in RuleIds
  BY DEF RuleIds
<1> HIDE DEF id
<1>8. CASE ~EndsInLosses(trades, rules.lossTrigger)
  <2>1. check = <<>> /\ ~InCooldown(rules, trades, snap.asOf)
    BY <1>2, <1>3, <1>5, <1>8
  <2>2. ResultsFor(check, {id}) /\ Flagged(check) = {}
    BY <2>1, NoResults
  <2> QED
    BY <2>1, <2>2 DEF check, trades, id
<1>9. CASE EndsInLosses(trades, rules.lossTrigger) /\ (snap.asOf >= lastLoss + rules.cooldown \/ I = {})
  <2>1. check = <<Result(id, TRUE, NoTicket)>>
    BY <1>2, <1>3, <1>6, <1>9
  <2>2. ResultsFor(check, {id}) /\ Flagged(check) = {}
    BY <1>7, <2>1, OneResult
  <2>3. ~InCooldown(rules, trades, snap.asOf) \/ TicketsWhere(ps, I) = {}
    <3>1. CASE I = {}
      BY <3>1 DEF TicketsWhere
    <3>2. CASE snap.asOf >= lastLoss + rules.cooldown
      BY <1>1, <1>3, <1>4, <1>5, <1>9, <3>2
    <3> QED
      BY <1>9, <3>1, <3>2
  <2> QED
    BY <2>2, <2>3 DEF check, trades, id, ps, I, lastLoss
<1>10. CASE EndsInLosses(trades, rules.lossTrigger) /\ ~(snap.asOf >= lastLoss + rules.cooldown) /\ I # {}
  <2>1. check = PerPosition(id, during, {})
    BY <1>2, <1>3, <1>6, <1>10
  <2>2. InCooldown(rules, trades, snap.asOf)
    BY <1>1, <1>3, <1>4, <1>5, <1>10
  <2> DEFINE none == {}
             out  == {i \in DOMAIN during : i \notin none}
  <2>3. ResultsFor(check, {id}) /\ Flagged(check) = {during[i].ticket : i \in out}
    <3> HIDE DEF none
    <3>1. check = PerPosition(id, during, none)
      BY <2>1 DEF none
    <3> QED
      BY <1>6, <1>7, <3>1, PositionResults
  <2>4. {during[i].ticket : i \in out} = {ps[i].ticket : i \in I}
    <3>1. out = DOMAIN during
      OBVIOUS
    <3> HIDE DEF out
    <3>2. {during[i] : i \in DOMAIN during} = {ps[i] : i \in I}
      BY <1>6 DEF ToSet
    <3>3. {during[i].ticket : i \in DOMAIN during} = {ps[i].ticket : i \in I}
      <4>1. \A i \in DOMAIN during : \E j \in I : during[i] = ps[j]
        BY <3>2
      <4>2. \A j \in I : \E i \in DOMAIN during : during[i] = ps[j]
        BY <3>2
      <4> QED
        BY <4>1, <4>2
    <3> QED
      BY <3>1, <3>3
  <2> QED
    BY <2>2, <2>3, <2>4 DEF TicketsWhere, check, trades, id, ps, I, lastLoss
<1> QED
  BY <1>8, <1>9, <1>10

LEMMA DailyLossResults ==
  ASSUME NEW rules \in TradingRules, NEW snap \in AccountSnapshot
  PROVE  LET check == CheckMaxDailyLoss(rules, snap)
         IN  /\ ResultsFor(check, {"max_daily_loss", "max_daily_loss_open_positions"})
             /\ {r.ticket : r \in {r \in ToSet(check) : r.rule = "max_daily_loss" /\ ~r.passed}} =
                  IF snap.balance > 0 /\ DailyLossBreached(rules, snap) THEN {NoTicket} ELSE {}
<1> DEFINE check  == CheckMaxDailyLoss(rules, snap)
           ids    == {"max_daily_loss", "max_daily_loss_open_positions"}
           passed == Result("max_daily_loss", TRUE, NoTicket)
           loss   == Result("max_daily_loss", FALSE, NoTicket)
           open   == Result("max_daily_loss_open_positions", FALSE, NoTicket)
           Own(s) == {r.ticket : r \in {r \in ToSet(s) : r.rule = "max_daily_loss" /\ ~r.passed}}
<1>1. /\ passed \in CheckResult /\ passed.rule = "max_daily_loss" /\ passed.passed
      /\ loss \in CheckResult /\ loss.rule = "max_daily_loss" /\ ~loss.passed /\ loss.ticket = NoTicket
      /\ open \in CheckResult /\ open.rule = "max_daily_loss_open_positions"
  BY DEF Result, CheckResult, RuleIds
<1>2. snap.balance \in Int
  BY PositionsOfSnapshot
<1> HIDE DEF passed, loss, open
<1>3. ToSet(<<passed>>) = {passed} /\ ToSet(<<loss>>) = {loss} /\ ToSet(<<loss, open>>) = {loss, open}
      /\ ToSet(<<>>) = {}
  BY TupleElements
<1>4. <<passed>> \in Seq(CheckResult) /\ <<loss>> \in Seq(CheckResult) /\ <<loss, open>> \in Seq(CheckResult)
  BY <1>1
<1>5. ResultsFor(<<>>, ids) /\ Own(<<>>) = {}
  BY <1>3, NoResults
<1>6. ResultsFor(<<passed>>, ids) /\ Own(<<passed>>) = {}
  BY <1>1, <1>3, <1>4 DEF ResultsFor
<1>7. ResultsFor(<<loss>>, ids) /\ Own(<<loss>>) = {NoTicket}
  BY <1>1, <1>3, <1>4 DEF ResultsFor
<1>8. ResultsFor(<<loss, open>>, ids) /\ Own(<<loss, open>>) = {NoTicket}
  BY <1>1, <1>3, <1>4 DEF ResultsFor
<1>9. check = IF snap.balance <= 0 THEN <<>>
              ELSE IF ~DailyLossBreached(rules, snap) THEN <<passed>>
              ELSE IF snap.positions = <<>> THEN <<loss>> ELSE <<loss, open>>
  BY DEF CheckMaxDailyLoss, passed, loss, open
<1>10. snap.balance > 0 <=> ~(snap.balance <= 0)
  BY <1>2
<1> HIDE DEF check, ids, Own
<1>11. ResultsFor(check, ids) /\ Own(check) = IF snap.balance > 0 /\ DailyLossBreached(rules, snap) THEN {NoTicket} ELSE {}
  BY <1>5, <1>6, <1>7, <1>8, <1>9, <1>10
<1> QED
  BY <1>11 DEF check, ids, Own

-------------------------------------------------------------------------------
(* The whole evaluation.                                                    *)

LEMMA EvaluateElements ==
  ASSUME NEW rules \in TradingRules, NEW snap \in AccountSnapshot
  PROVE  /\ Evaluate(rules, snap) \in Seq(CheckResult)
         /\ ToSet(Evaluate(rules, snap)) = UNION {
              ToSet(CheckMaxDailyLoss(rules, snap)),
              ToSet(CheckConsecutiveLossCooldown(rules, snap)),
              ToSet(CheckMaxRiskPerTrade(rules, snap)),
              ToSet(CheckStopLossRequired(rules, snap)),
              ToSet(CheckTakeProfitRequired(rules, snap)),
              ToSet(CheckMaxConcurrentPositions(rules, snap)),
              ToSet(CheckAllowedSymbols(rules, snap)),
              ToSet(CheckTradingSession(rules, snap)),
              ToSet(CheckMaxTradesPerDay(rules, snap))}
<1> DEFINE c1 == CheckMaxDailyLoss(rules, snap)
           c2 == CheckConsecutiveLossCooldown(rules, snap)
           c3 == CheckMaxRiskPerTrade(rules, snap)
           c4 == CheckStopLossRequired(rules, snap)
           c5 == CheckTakeProfitRequired(rules, snap)
           c6 == CheckMaxConcurrentPositions(rules, snap)
           c7 == CheckAllowedSymbols(rules, snap)
           c8 == CheckTradingSession(rules, snap)
           c9 == CheckMaxTradesPerDay(rules, snap)
           s2 == c1 \o c2
           s3 == s2 \o c3
           s4 == s3 \o c4
           s5 == s4 \o c5
           s6 == s5 \o c6
           s7 == s6 \o c7
           s8 == s7 \o c8
           s9 == s8 \o c9
<1>1. /\ c1 \in Seq(CheckResult) /\ c2 \in Seq(CheckResult) /\ c3 \in Seq(CheckResult)
      /\ c4 \in Seq(CheckResult) /\ c5 \in Seq(CheckResult) /\ c6 \in Seq(CheckResult)
      /\ c7 \in Seq(CheckResult) /\ c8 \in Seq(CheckResult) /\ c9 \in Seq(CheckResult)
  BY DailyLossResults, CooldownResults, RiskResults, StopLossResults, TakeProfitResults, ConcurrentResults, SymbolResults, SessionResults, TradesResults DEF ResultsFor
<1>2. Evaluate(rules, snap) = s9
  BY DEF Evaluate
<1> HIDE DEF c1, c2, c3, c4, c5, c6, c7, c8, c9
<1>3. s2 \in Seq(CheckResult) /\ ToSet(s2) = ToSet(c1) \union ToSet(c2)
  BY <1>1, ConcatElements
<1> HIDE DEF s2
<1>4. s3 \in Seq(CheckResult) /\ ToSet(s3) = ToSet(s2) \union ToSet(c3)
  BY <1>1, <1>3, ConcatElements
<1> HIDE DEF s3
<1>5. s4 \in Seq(CheckResult) /\ ToSet(s4) = ToSet(s3) \union ToSet(c4)
  BY <1>1, <1>4, ConcatElements
<1> HIDE DEF s4
<1>6. s5 \in Seq(CheckResult) /\ ToSet(s5) = ToSet(s4) \union ToSet(c5)
  BY <1>1, <1>5, ConcatElements
<1> HIDE DEF s5
<1>7. s6 \in Seq(CheckResult) /\ ToSet(s6) = ToSet(s5) \union ToSet(c6)
  BY <1>1, <1>6, ConcatElements
<1> HIDE DEF s6
<1>8. s7 \in Seq(CheckResult) /\ ToSet(s7) = ToSet(s6) \union ToSet(c7)
  BY <1>1, <1>7, ConcatElements
<1> HIDE DEF s7
<1>9. s8 \in Seq(CheckResult) /\ ToSet(s8) = ToSet(s7) \union ToSet(c8)
  BY <1>1, <1>8, ConcatElements
<1> HIDE DEF s8
<1>10. s9 \in Seq(CheckResult) /\ ToSet(s9) = ToSet(s8) \union ToSet(c9)
  BY <1>1, <1>9, ConcatElements
<1> HIDE DEF s9
<1>11. ToSet(s9) = UNION {ToSet(c1), ToSet(c2), ToSet(c3), ToSet(c4), ToSet(c5), ToSet(c6), ToSet(c7), ToSet(c8), ToSet(c9)}
  BY <1>3, <1>4, <1>5, <1>6, <1>7, <1>8, <1>9, <1>10, Zenon
<1> QED
  BY <1>2, <1>10, <1>11 DEF c1, c2, c3, c4, c5, c6, c7, c8, c9

\* A failed result of a rule comes from the check of this rule.
LEMMA FailedTicketsOfRules ==
  ASSUME NEW rules \in TradingRules, NEW snap \in AccountSnapshot
  PROVE  /\ FailedTickets(rules, snap, "max_daily_loss") =
              IF snap.balance > 0 /\ DailyLossBreached(rules, snap) THEN {NoTicket} ELSE {}
         /\ FailedTickets(rules, snap, "consecutive_loss_cooldown") = Flagged(CheckConsecutiveLossCooldown(rules, snap))
         /\ FailedTickets(rules, snap, "max_risk_per_trade") = Flagged(CheckMaxRiskPerTrade(rules, snap))
         /\ FailedTickets(rules, snap, "stop_loss_required") = Flagged(CheckStopLossRequired(rules, snap))
         /\ FailedTickets(rules, snap, "take_profit_required") = Flagged(CheckTakeProfitRequired(rules, snap))
         /\ FailedTickets(rules, snap, "max_concurrent_positions") = Flagged(CheckMaxConcurrentPositions(rules, snap))
         /\ FailedTickets(rules, snap, "allowed_symbol") = Flagged(CheckAllowedSymbols(rules, snap))
         /\ FailedTickets(rules, snap, "trading_session") = Flagged(CheckTradingSession(rules, snap))
         /\ FailedTickets(rules, snap, "max_trades_per_day") = Flagged(CheckMaxTradesPerDay(rules, snap))
<1> DEFINE all == ToSet(Evaluate(rules, snap))
           c1 == CheckMaxDailyLoss(rules, snap)
           c2 == CheckConsecutiveLossCooldown(rules, snap)
           c3 == CheckMaxRiskPerTrade(rules, snap)
           c4 == CheckStopLossRequired(rules, snap)
           c5 == CheckTakeProfitRequired(rules, snap)
           c6 == CheckMaxConcurrentPositions(rules, snap)
           c7 == CheckAllowedSymbols(rules, snap)
           c8 == CheckTradingSession(rules, snap)
           c9 == CheckMaxTradesPerDay(rules, snap)
<1>1. all = UNION {ToSet(c1), ToSet(c2), ToSet(c3), ToSet(c4), ToSet(c5), ToSet(c6), ToSet(c7), ToSet(c8), ToSet(c9)}
  BY EvaluateElements
<1>2. /\ \A r \in ToSet(c1) : r.rule \in {"max_daily_loss", "max_daily_loss_open_positions"}
      /\ \A r \in ToSet(c2) : r.rule \in {"consecutive_loss_cooldown"}
      /\ \A r \in ToSet(c3) : r.rule \in {"max_risk_per_trade"}
      /\ \A r \in ToSet(c4) : r.rule \in {"stop_loss_required"}
      /\ \A r \in ToSet(c5) : r.rule \in {"take_profit_required"}
      /\ \A r \in ToSet(c6) : r.rule \in {"max_concurrent_positions"}
      /\ \A r \in ToSet(c7) : r.rule \in {"allowed_symbol"}
      /\ \A r \in ToSet(c8) : r.rule \in {"trading_session"}
      /\ \A r \in ToSet(c9) : r.rule \in {"max_trades_per_day"}
  BY DailyLossResults, CooldownResults, RiskResults, StopLossResults, TakeProfitResults, ConcurrentResults, SymbolResults, SessionResults, TradesResults DEF ResultsFor
<1>3. {r.ticket : r \in {r \in ToSet(c1) : r.rule = "max_daily_loss" /\ ~r.passed}} =
        IF snap.balance > 0 /\ DailyLossBreached(rules, snap) THEN {NoTicket} ELSE {}
  BY DailyLossResults
<1> HIDE DEF all, c1, c2, c3, c4, c5, c6, c7, c8, c9
<1>4. {r \in all : r.rule = "max_daily_loss" /\ ~r.passed} = {r \in ToSet(c1) : r.rule = "max_daily_loss" /\ ~r.passed}
  BY <1>1, <1>2
<1>5. {r \in all : r.rule = "consecutive_loss_cooldown" /\ ~r.passed} = {r \in ToSet(c2) : ~r.passed}
  BY <1>1, <1>2
<1>6. {r \in all : r.rule = "max_risk_per_trade" /\ ~r.passed} = {r \in ToSet(c3) : ~r.passed}
  BY <1>1, <1>2
<1>7. {r \in all : r.rule = "stop_loss_required" /\ ~r.passed} = {r \in ToSet(c4) : ~r.passed}
  BY <1>1, <1>2
<1>8. {r \in all : r.rule = "take_profit_required" /\ ~r.passed} = {r \in ToSet(c5) : ~r.passed}
  BY <1>1, <1>2
<1>9. {r \in all : r.rule = "max_concurrent_positions" /\ ~r.passed} = {r \in ToSet(c6) : ~r.passed}
  BY <1>1, <1>2
<1>10. {r \in all : r.rule = "allowed_symbol" /\ ~r.passed} = {r \in ToSet(c7) : ~r.passed}
  BY <1>1, <1>2
<1>11. {r \in all : r.rule = "trading_session" /\ ~r.passed} = {r \in ToSet(c8) : ~r.passed}
  BY <1>1, <1>2
<1>12. {r \in all : r.rule = "max_trades_per_day" /\ ~r.passed} = {r \in ToSet(c9) : ~r.passed}
  BY <1>1, <1>2
<1>13. FailedTickets(rules, snap, "max_daily_loss") = IF snap.balance > 0 /\ DailyLossBreached(rules, snap) THEN {NoTicket} ELSE {}
  BY <1>3, <1>4 DEF FailedTickets, all, c1
<1>14. FailedTickets(rules, snap, "consecutive_loss_cooldown") = Flagged(c2)
  BY <1>5 DEF FailedTickets, Flagged, all, c2
<1>15. FailedTickets(rules, snap, "max_risk_per_trade") = Flagged(c3)
  BY <1>6 DEF FailedTickets, Flagged, all, c3
<1>16. FailedTickets(rules, snap, "stop_loss_required") = Flagged(c4)
  BY <1>7 DEF FailedTickets, Flagged, all, c4
<1>17. FailedTickets(rules, snap, "take_profit_required") = Flagged(c5)
  BY <1>8 DEF FailedTickets, Flagged, all, c5
<1>18. FailedTickets(rules, snap, "max_concurrent_positions") = Flagged(c6)
  BY <1>9 DEF FailedTickets, Flagged, all, c6
<1>19. FailedTickets(rules, snap, "allowed_symbol") = Flagged(c7)
  BY <1>10 DEF FailedTickets, Flagged, all, c7
<1>20. FailedTickets(rules, snap, "trading_session") = Flagged(c8)
  BY <1>11 DEF FailedTickets, Flagged, all, c8
<1>21. FailedTickets(rules, snap, "max_trades_per_day") = Flagged(c9)
  BY <1>12 DEF FailedTickets, Flagged, all, c9
<1> QED
  BY <1>13, <1>14, <1>15, <1>16, <1>17, <1>18, <1>19, <1>20, <1>21 DEF c1, c2, c3, c4, c5, c6, c7, c8, c9

\* The failed results, as the enforcer gets them.
LEMMA FailedElements ==
  ASSUME NEW rules \in TradingRules, NEW snap \in AccountSnapshot
  PROVE  LET results == Evaluate(rules, snap)
         IN  /\ Failed(results) \in Seq(CheckResult)
             /\ ToSet(Failed(results)) = {r \in ToSet(results) : ~r.passed}
<1> DEFINE results == Evaluate(rules, snap)
           I       == {i \in DOMAIN results : ~results[i].passed}
<1>1. results \in Seq(CheckResult) /\ I \in SUBSET DOMAIN results
  BY EvaluateElements
<1> HIDE DEF results
<1>2. {results[i] : i \in I} = {r \in ToSet(results) : ~r.passed}
  BY DEF ToSet
<1>3. Failed(results) = Subsequence(results, I)
  BY DEF Failed
<1> HIDE DEF I
<1>4. /\ Failed(results) \in Seq(CheckResult)
      /\ ToSet(Failed(results)) = {r \in ToSet(results) : ~r.passed}
  BY <1>1, <1>2, <1>3, SubsequenceType, SubsequenceElements
<1> QED
  BY <1>4 DEF results

\* The failed results of the cooldown name positions, and all those that were
\* opened in it.
LEMMA CooldownFailures ==
  ASSUME NEW rules \in TradingRules, NEW snap \in AccountSnapshot
  PROVE  LET failed == ToSet(Failed(Evaluate(rules, snap)))
             ps     == snap.positions
         IN  /\ \A r \in failed : r.rule = "consecutive_loss_cooldown" => r.ticket \in Nat
             /\ InCooldown(rules, snap.trades, snap.asOf) =>
                  \A i \in DOMAIN ps : ps[i].openTime > Last(snap.trades).closeTime =>
                    \E r \in failed : r.rule = "consecutive_loss_cooldown" /\ r.ticket = ps[i].ticket
<1> DEFINE results == ToSet(Evaluate(rules, snap))
           failed  == ToSet(Failed(Evaluate(rules, snap)))
           id      == "consecutive_loss_cooldown"
           ps      == snap.positions
           places  == {i \in DOMAIN ps : ps[i].openTime > Last(snap.trades).closeTime}
           tickets == FailedTickets(rules, snap, id)
<1>1. failed = {r \in results : ~r.passed}
  BY FailedElements
<1>2. tickets = IF InCooldown(rules, snap.trades, snap.asOf) THEN TicketsWhere(ps, places) ELSE {}
  BY FailedTicketsOfRules, CooldownResults
<1>3. \A i \in DOMAIN ps : ps[i].ticket \in Nat
  <2>1. ps \in Seq(Position)
    BY PositionsOfSnapshot
  <2>2. \A i \in DOMAIN ps : ps[i] \in Position
    BY <2>1
  <2> QED
    BY <2>2 DEF Position
<1>4. \A t : t \in tickets <=> \E r \in results : r.rule = id /\ ~r.passed /\ r.ticket = t
  BY DEF FailedTickets
<1> HIDE DEF results, failed, tickets
<1>5. \A r \in failed : r.rule = id => r.ticket \in Nat
  <2> SUFFICES ASSUME NEW r \in failed, r.rule = id PROVE r.ticket \in Nat
    OBVIOUS
  <2>1. r.ticket \in tickets
    BY <1>1, <1>4
  <2> QED
    BY <1>2, <1>3, <2>1 DEF TicketsWhere
<1>6. ASSUME InCooldown(rules, snap.trades, snap.asOf), NEW i \in DOMAIN ps,
             ps[i].openTime > Last(snap.trades).closeTime
      PROVE  \E r \in failed : r.rule = id /\ r.ticket = ps[i].ticket
  <2>1. ps[i].ticket \in tickets
    BY <1>2, <1>6 DEF TicketsWhere
  <2> QED
    BY <1>1, <1>4, <2>1
<1> QED
  BY <1>5, <1>6 DEF failed

-------------------------------------------------------------------------------
(* A tighter rule flags more.                                               *)

LEMMA ProductMonotonic ==
  ASSUME NEW a \in Int, NEW b \in Int, NEW c \in Nat, a <= b
  PROVE  a * c <= b * c
BY Z3

LEMMA MorePlaces ==
  ASSUME NEW positions, NEW few, NEW many, few \subseteq many
  PROVE  TicketsWhere(positions, few) \subseteq TicketsWhere(positions, many)
BY DEF TicketsWhere

\* A run of losses contains the shorter runs.
LEMMA ShorterRun ==
  ASSUME NEW trades \in Seq(Trade), NEW m \in Nat, NEW n \in Nat, m <= n, EndsInLosses(trades, n)
  PROVE  EndsInLosses(trades, m)
<1>1. Len(trades) \in Nat
  OBVIOUS
<1>2. \A k \in Len(trades) - m + 1..Len(trades) : k \in Len(trades) - n + 1..Len(trades)
  BY <1>1
<1> QED
  BY <1>1, <1>2 DEF EndsInLosses

LEMMA StricterRisk ==
  ASSUME NEW s \in TradingRules, NEW r \in TradingRules, s.maxRisk <= r.maxRisk,
         NEW snap \in AccountSnapshot, NEW p \in Position, RiskWithin(s, snap, p)
  PROVE  RiskWithin(r, snap, p)
<1>1. s.maxRisk \in Int /\ r.maxRisk \in Int /\ snap.equity \in Int /\ p.risk \in Int
  BY DEF TradingRules, AccountSnapshot, Position
<1>2. ASSUME snap.equity > 0 PROVE p.risk * 100 <= r.maxRisk * snap.equity
  <2>1. s.maxRisk * snap.equity <= r.maxRisk * snap.equity
    BY <1>1, <1>2, ProductMonotonic
  <2>2. p.risk * 100 <= s.maxRisk * snap.equity
    BY <1>2 DEF RiskWithin
  <2>3. p.risk * 100 \in Int /\ s.maxRisk * snap.equity \in Int /\ r.maxRisk * snap.equity \in Int
    BY <1>1
  <2> QED
    BY <2>1, <2>2, <2>3
<1> QED
  BY <1>2 DEF RiskWithin

LEMMA StricterLoss ==
  ASSUME NEW s \in TradingRules, NEW r \in TradingRules, s.maxLoss <= r.maxLoss,
         NEW snap \in AccountSnapshot, snap.balance > 0, DailyLossBreached(r, snap)
  PROVE  DailyLossBreached(s, snap)
<1> DEFINE result == (TotalProfit(snap.trades) + TotalProfit(snap.positions)) * 100
<1>1. s.maxLoss \in Int /\ r.maxLoss \in Int /\ snap.balance \in Int
  BY DEF TradingRules, AccountSnapshot
<1>2. result \in Int
  <2>1. /\ Len(snap.trades) \in Nat /\ \A i \in 1..Len(snap.trades) : snap.trades[i] \in Trade
        /\ Len(snap.positions) \in Nat /\ \A i \in 1..Len(snap.positions) : snap.positions[i] \in Position
    BY PositionsOfSnapshot
  <2>2. /\ \A i \in 1..Len(snap.trades) : snap.trades[i].profit \in Int
        /\ \A i \in 1..Len(snap.positions) : snap.positions[i].profit \in Int
    BY <2>1 DEF Trade, Position
  <2>3. TotalProfit(snap.trades) \in Int /\ TotalProfit(snap.positions) \in Int
    BY <2>1, <2>2, TotalProfitType DEF HasProfits
  <2> QED
    BY <2>3
<1>3. s.maxLoss * snap.balance <= r.maxLoss * snap.balance
  BY <1>1, ProductMonotonic
<1>4. s.maxLoss * snap.balance \in Int /\ r.maxLoss * snap.balance \in Int
  BY <1>1
<1>5. result <= -(r.maxLoss * snap.balance)
  BY DEF DailyLossBreached
<1> HIDE DEF result
<1>6. result <= -(s.maxLoss * snap.balance)
  BY <1>2, <1>3, <1>4, <1>5
<1> QED
  BY <1>6 DEF DailyLossBreached, result

LEMMA StricterCooldown ==
  ASSUME NEW s \in TradingRules, NEW r \in TradingRules,
         s.lossTrigger <= r.lossTrigger, s.cooldown >= r.cooldown,
         NEW snap \in AccountSnapshot, InCooldown(r, snap.trades, snap.asOf)
  PROVE  InCooldown(s, snap.trades, snap.asOf)
<1>1. /\ s.lossTrigger \in Nat /\ r.lossTrigger \in Nat \ {0} /\ s.cooldown \in Nat /\ r.cooldown \in Nat
      /\ snap.asOf \in Nat /\ snap.trades \in Seq(Trade)
  BY PositionsOfSnapshot DEF TradingRules
<1>2. EndsInLosses(snap.trades, s.lossTrigger)
  BY <1>1, ShorterRun DEF InCooldown
<1>3. snap.trades[Len(snap.trades)].closeTime \in Nat
  <2>1. Len(snap.trades) \in Nat /\ Len(snap.trades) # 0
    BY <1>1 DEF InCooldown, EndsInLosses
  <2>2. snap.trades[Len(snap.trades)] \in Trade
    BY <1>1, <2>1
  <2> QED
    BY <2>2 DEF Trade
<1> QED
  BY <1>1, <1>2, <1>3 DEF InCooldown

\* What each check flags under the looser rules it flags under the tighter.
LEMMA TighterFlags ==
  ASSUME NEW s \in TradingRules, NEW r \in TradingRules, Tighter(s, r), NEW snap \in AccountSnapshot
  PROVE  \A rule \in {"max_risk_per_trade", "max_daily_loss", "consecutive_loss_cooldown",
                      "stop_loss_required", "take_profit_required", "max_concurrent_positions",
                      "allowed_symbol", "trading_session", "max_trades_per_day"} :
           FailedTickets(r, snap, rule) \subseteq FailedTickets(s, snap, rule)
<1> DEFINE ps == snap.positions
<1>1. ps \in Seq(Position) /\ \A i \in DOMAIN ps : ps[i] \in Position
  BY PositionsOfSnapshot
<1>2. /\ s.maxRisk <= r.maxRisk /\ s.maxLoss <= r.maxLoss
      /\ s.maxPositions <= r.maxPositions /\ s.maxTrades <= r.maxTrades
      /\ (r.requireSL => s.requireSL) /\ (r.requireTP => s.requireTP)
      /\ s.lossTrigger <= r.lossTrigger /\ s.cooldown >= r.cooldown
      /\ s.symbols \subseteq r.symbols
      /\ SessionMinutes(s.start, s.end) \subseteq SessionMinutes(r.start, r.end)
  BY DEF Tighter
<1>3. FailedTickets(r, snap, "max_risk_per_trade") \subseteq FailedTickets(s, snap, "max_risk_per_trade")
  <2> DEFINE Places(q) == {i \in DOMAIN ps : RiskTooHigh(q, snap, ps[i])}
  <2>1. \A i \in DOMAIN ps : RiskTooHigh(r, snap, ps[i]) => RiskTooHigh(s, snap, ps[i])
    BY <1>1, <1>2, StricterRisk DEF RiskTooHigh
  <2>2. Places(r) \subseteq Places(s)
    BY <2>1
  <2>3. TicketsWhere(ps, Places(r)) \subseteq TicketsWhere(ps, Places(s))
    BY <2>2, MorePlaces
  <2>4. /\ FailedTickets(r, snap, "max_risk_per_trade") = TicketsWhere(ps, Places(r))
        /\ FailedTickets(s, snap, "max_risk_per_trade") = TicketsWhere(ps, Places(s))
    <3>1. /\ FailedTickets(r, snap, "max_risk_per_trade") = Flagged(CheckMaxRiskPerTrade(r, snap))
          /\ FailedTickets(s, snap, "max_risk_per_trade") = Flagged(CheckMaxRiskPerTrade(s, snap))
      BY FailedTicketsOfRules
    <3> QED
      BY <3>1, RiskResults
  <2> QED
    BY <2>3, <2>4
<1>4. FailedTickets(r, snap, "max_daily_loss") \subseteq FailedTickets(s, snap, "max_daily_loss")
  <2>1. snap.balance > 0 /\ DailyLossBreached(r, snap) => DailyLossBreached(s, snap)
    BY <1>2, StricterLoss
  <2> QED
    BY <2>1, FailedTicketsOfRules
<1>5. FailedTickets(r, snap, "consecutive_loss_cooldown") \subseteq FailedTickets(s, snap, "consecutive_loss_cooldown")
  <2>1. InCooldown(r, snap.trades, snap.asOf) => InCooldown(s, snap.trades, snap.asOf)
    BY <1>2, StricterCooldown
  <2> DEFINE T == TicketsWhere(ps, {i \in DOMAIN ps : ps[i].openTime > Last(snap.trades).closeTime})
  <2>2. /\ FailedTickets(r, snap, "consecutive_loss_cooldown") = IF InCooldown(r, snap.trades, snap.asOf) THEN T ELSE {}
        /\ FailedTickets(s, snap, "consecutive_loss_cooldown") = IF InCooldown(s, snap.trades, snap.asOf) THEN T ELSE {}
    <3>1. /\ FailedTickets(r, snap, "consecutive_loss_cooldown") = Flagged(CheckConsecutiveLossCooldown(r, snap))
          /\ FailedTickets(s, snap, "consecutive_loss_cooldown") = Flagged(CheckConsecutiveLossCooldown(s, snap))
      BY FailedTicketsOfRules
    <3> QED
      BY <3>1, CooldownResults
  <2> HIDE DEF T
  <2> QED
    BY <2>1, <2>2
<1>6. FailedTickets(r, snap, "stop_loss_required") \subseteq FailedTickets(s, snap, "stop_loss_required")
  <2> DEFINE T == TicketsWhere(ps, {i \in DOMAIN ps : ~ps[i].sl})
  <2>1. /\ FailedTickets(r, snap, "stop_loss_required") = IF r.requireSL THEN T ELSE {}
        /\ FailedTickets(s, snap, "stop_loss_required") = IF s.requireSL THEN T ELSE {}
    <3>1. /\ FailedTickets(r, snap, "stop_loss_required") = Flagged(CheckStopLossRequired(r, snap))
          /\ FailedTickets(s, snap, "stop_loss_required") = Flagged(CheckStopLossRequired(s, snap))
      BY FailedTicketsOfRules
    <3> QED
      BY <3>1, StopLossResults
  <2> HIDE DEF T
  <2> QED
    BY <1>2, <2>1
<1>7. FailedTickets(r, snap, "take_profit_required") \subseteq FailedTickets(s, snap, "take_profit_required")
  <2> DEFINE T == TicketsWhere(ps, {i \in DOMAIN ps : ~ps[i].tp})
  <2>1. /\ FailedTickets(r, snap, "take_profit_required") = IF r.requireTP THEN T ELSE {}
        /\ FailedTickets(s, snap, "take_profit_required") = IF s.requireTP THEN T ELSE {}
    <3>1. /\ FailedTickets(r, snap, "take_profit_required") = Flagged(CheckTakeProfitRequired(r, snap))
          /\ FailedTickets(s, snap, "take_profit_required") = Flagged(CheckTakeProfitRequired(s, snap))
      BY FailedTicketsOfRules
    <3> QED
      BY <3>1, TakeProfitResults
  <2> HIDE DEF T
  <2> QED
    BY <1>2, <2>1
<1>8. FailedTickets(r, snap, "max_concurrent_positions") \subseteq FailedTickets(s, snap, "max_concurrent_positions")
  <2>1. Len(ps) \in Int /\ s.maxPositions \in Int /\ r.maxPositions \in Int
    BY <1>1 DEF TradingRules
  <2>2. Len(ps) <= s.maxPositions => Len(ps) <= r.maxPositions
    BY <1>2, <2>1
  <2> QED
    BY <2>2, FailedTicketsOfRules, ConcurrentResults
<1>9. FailedTickets(r, snap, "allowed_symbol") \subseteq FailedTickets(s, snap, "allowed_symbol")
  <2> DEFINE Places(q) == {i \in DOMAIN ps : ps[i].symbol \notin q.symbols}
  <2>1. Places(r) \subseteq Places(s)
    BY <1>2
  <2>2. TicketsWhere(ps, Places(r)) \subseteq TicketsWhere(ps, Places(s))
    BY <2>1, MorePlaces
  <2>3. /\ FailedTickets(r, snap, "allowed_symbol") = TicketsWhere(ps, Places(r))
        /\ FailedTickets(s, snap, "allowed_symbol") = TicketsWhere(ps, Places(s))
    <3>1. /\ FailedTickets(r, snap, "allowed_symbol") = Flagged(CheckAllowedSymbols(r, snap))
          /\ FailedTickets(s, snap, "allowed_symbol") = Flagged(CheckAllowedSymbols(s, snap))
      BY FailedTicketsOfRules
    <3> QED
      BY <3>1, SymbolResults
  <2> QED
    BY <2>2, <2>3
<1>10. FailedTickets(r, snap, "trading_session") \subseteq FailedTickets(s, snap, "trading_session")
  <2> DEFINE Places(q) == {i \in DOMAIN ps : Time(ps[i].openTime) \notin SessionMinutes(q.start, q.end)}
  <2>1. Places(r) \subseteq Places(s)
    BY <1>2, Zenon
  <2>2. TicketsWhere(ps, Places(r)) \subseteq TicketsWhere(ps, Places(s))
    BY <2>1, MorePlaces
  <2>3. /\ FailedTickets(r, snap, "trading_session") = TicketsWhere(ps, Places(r))
        /\ FailedTickets(s, snap, "trading_session") = TicketsWhere(ps, Places(s))
    <3>1. /\ FailedTickets(r, snap, "trading_session") = Flagged(CheckTradingSession(r, snap))
          /\ FailedTickets(s, snap, "trading_session") = Flagged(CheckTradingSession(s, snap))
      BY FailedTicketsOfRules
    <3> QED
      BY <3>1, SessionResults
  <2> QED
    BY <2>2, <2>3
<1>11. FailedTickets(r, snap, "max_trades_per_day") \subseteq FailedTickets(s, snap, "max_trades_per_day")
  <2>1. s.maxTrades \in Int /\ r.maxTrades \in Int
    BY DEF TradingRules
  <2>2. TradesOfToday(snap) \in Int
    <3> DEFINE I == {i \in DOMAIN ps : Day(ps[i].openTime) = Day(snap.asOf)}
    <3>1. Len(ps) \in Nat /\ I \in SUBSET (1..Len(ps)) /\ Len(snap.trades) \in Nat
      BY <1>1, PositionsOfSnapshot
    <3>2. Cardinality(I) \in Nat
      BY <3>1, PositionsType
    <3>3. TradesOfToday(snap) = Cardinality(I) + Len(snap.trades)
      BY DEF TradesOfToday
    <3> HIDE DEF I
    <3> QED
      BY <3>1, <3>2, <3>3
  <2>3. TradesOfToday(snap) <= s.maxTrades => TradesOfToday(snap) <= r.maxTrades
    BY <1>2, <2>1, <2>2
  <2> QED
    BY <2>3, FailedTicketsOfRules, TradesResults
<1> QED
  BY <1>3, <1>4, <1>5, <1>6, <1>7, <1>8, <1>9, <1>10, <1>11

===============================================================================
