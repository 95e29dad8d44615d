------------------------------ MODULE RoundProofs ------------------------------
(***************************************************************************)
(* What holds of StageRounds for every field, both formats and any number  *)
(* of organizers, matches played and results corrected.                    *)
(***************************************************************************)
EXTENDS StageRounds, TLAPS, FiniteSetTheorems, SequenceTheorems, WellFoundedInduction

-----------------------------------------------------------------------------
(***************************************************************************)
(* Least and greatest.  Here is all the induction there is: the theorems   *)
(* of the library that take a predicate are out of the provers' reach, so  *)
(* what an induction shows is shown of a least counterexample.             *)
(***************************************************************************)

\* Of some finite sets, one has no other of them inside it.
LEMMA SmallestSet ==
  ASSUME NEW X, NEW T \in SUBSET FiniteSubsetsOf(X), T # {}
  PROVE  \E A \in T : \A B \in T : ~(B \subseteq A /\ B # A)
<1>1. IsWellFoundedOn(StrictSubsetOrdering(X), FiniteSubsetsOf(X))
  BY FS_StrictSubsetOrderingWellFounded
<1>2. PICK A \in T : \A B \in T : ~(<<B, A>> \in StrictSubsetOrdering(X))
  BY <1>1, WFMin
<1>3. T \subseteq SUBSET X
  BY DEF FiniteSubsetsOf
<1> QED BY <1>2, <1>3 DEF StrictSubsetOrdering, FiniteSubsetsOf

\* Every nonempty set of natural numbers has a least one ...
LEMMA Least == ASSUME NEW S \in SUBSET Nat, S # {} PROVE \E n \in S : \A m \in S : n <= m
<1> DEFINE T == {1..n : n \in S}
<1>1. T \in SUBSET FiniteSubsetsOf(Nat)
  <2>1. ASSUME NEW n \in S PROVE 1..n \in FiniteSubsetsOf(Nat)
    <3>1. n \in Int /\ IsFiniteSet(1..n)
      BY FS_Interval
    <3> QED BY <3>1 DEF FiniteSubsetsOf
  <2> QED BY <2>1
<1>2. T # {}
  OBVIOUS
<1> HIDE DEF T
<1>3. PICK A \in T : \A B \in T : ~(B \subseteq A /\ B # A)
  BY <1>1, <1>2, SmallestSet
<1>4. PICK n \in S : A = 1..n
  BY <1>3 DEF T
<1>5. ASSUME NEW m \in S PROVE n <= m
  <2>1. SUFFICES ASSUME m < n PROVE FALSE
    OBVIOUS
  <2>2. 1..m \subseteq 1..n /\ n \in 1..n /\ n \notin 1..m
    BY <2>1
  <2>3. 1..m \in T
    BY DEF T
  <2> QED BY <1>3, <1>4, <2>2, <2>3
<1> QED BY <1>5

\* ... and a bounded one a greatest.
LEMMA Greatest ==
  ASSUME NEW S \in SUBSET Nat, S # {}, NEW b \in Nat, \A n \in S : n <= b
  PROVE  \E n \in S : \A m \in S : m <= n
<1>1. {b - n : n \in S} \in SUBSET Nat /\ {b - n : n \in S} # {}
  <2>1. \A n \in S : b - n \in Nat
    OBVIOUS
  <2> QED BY <2>1
<1>2. PICK d \in {b - n : n \in S} : \A e \in {b - n : n \in S} : d <= e
  BY <1>1, Least
<1>3. PICK n \in S : d = b - n
  BY <1>2
<1>4. ASSUME NEW m \in S PROVE m <= n
  <2>1. d <= b - m
    BY <1>2
  <2> QED BY <1>3, <2>1
<1> QED BY <1>4

\* The k-th smallest of a finite set of numbers is one of them, for as many k
\* as it has members, and each is the k-th smallest for one k.
LEMMA NthFacts ==
  ASSUME NEW I \in SUBSET Int, IsFiniteSet(I)
  PROVE  /\ Cardinality(I) \in Nat
         /\ \A k \in 1..Cardinality(I) : Nth(I, k) \in I
         /\ \A i \in I : \E k \in 1..Cardinality(I) : Nth(I, k) = i
         /\ \A k, l \in 1..Cardinality(I) : k < l => Nth(I, k) < Nth(I, l)
<1> DEFINE UpTo(i) == {j \in I : j <= i}
           Rank    == [i \in I |-> Cardinality(UpTo(i))]
           Ranks   == 1..Cardinality(I)
<1> HIDE DEF Rank
<1>1. Cardinality(I) \in Nat /\ IsFiniteSet(Ranks) /\ Cardinality(Ranks) = Cardinality(I)
  BY FS_CardinalityType, FS_Interval
<1>2. ASSUME NEW i \in I
      PROVE  /\ IsFiniteSet(UpTo(i)) /\ Cardinality(UpTo(i)) \in Ranks
             /\ Rank[i] = Cardinality(UpTo(i))
  <2>1. UpTo(i) \in SUBSET I /\ i \in UpTo(i)
    OBVIOUS
  <2>2. IsFiniteSet(UpTo(i)) /\ Cardinality(UpTo(i)) <= Cardinality(I)
    BY <2>1, FS_Subset
  <2>3. Cardinality(UpTo(i)) \in Nat /\ Cardinality(UpTo(i)) # 0
    BY <2>1, <2>2, FS_CardinalityType, FS_EmptySet
  <2> QED BY <1>1, <2>2, <2>3 DEF Rank
<1>3. ASSUME NEW i \in I, NEW h \in I, i < h
      PROVE  Rank[i] < Rank[h]
  <2>1. UpTo(i) \in SUBSET UpTo(h) /\ UpTo(i) # UpTo(h)
    <3>1. i \in Int /\ h \in Int /\ \A j \in I : j \in Int
      OBVIOUS
    <3>2. h \in UpTo(h) /\ h \notin UpTo(i)
      BY <1>3, <3>1
    <3>3. \A j \in UpTo(i) : j \in UpTo(h)
      BY <1>3, <3>1
    <3> QED BY <3>2, <3>3
  <2>2. Cardinality(UpTo(i)) <= Cardinality(UpTo(h)) /\ Cardinality(UpTo(i)) # Cardinality(UpTo(h))
    BY <2>1, <1>2, FS_Subset
  <2>3. /\ Rank[i] = Cardinality(UpTo(i)) /\ Cardinality(UpTo(i)) \in Ranks
        /\ Rank[h] = Cardinality(UpTo(h)) /\ Cardinality(UpTo(h)) \in Ranks
    BY <1>2
  <2>4. \A k \in Ranks : k \in Int
    BY <1>1
  <2> QED BY <2>2, <2>3, <2>4
<1>4. Rank \in Injection(I, Ranks)
  <2>1. Rank \in [I -> Ranks]
    BY <1>2 DEF Rank
  <2>2. \A a, b \in I : Rank[a] = Rank[b] => a = b
    <3>1. ASSUME NEW a \in I PROVE a \in Int /\ Rank[a] \in Int
      <4>1. Rank[a] \in Ranks
        BY <1>2
      <4> QED BY <1>1, <4>1
    <3> QED BY <1>3, <3>1
  <2> QED BY <2>1, <2>2 DEF Injection, IsInjective
<1>5. Rank \in Surjection(I, Ranks)
  BY <1>1, <1>4, FS_Injection
<1>6. ASSUME NEW k \in Ranks PROVE Nth(I, k) \in I /\ Rank[Nth(I, k)] = k
  <2>1. PICK i \in I : Rank[i] = k
    BY <1>5 DEF Surjection
  <2>2. Cardinality({j \in I : j <= i}) = k
    BY <1>2, <2>1
  <2>3. Nth(I, k) \in I /\ Cardinality({j \in I : j <= Nth(I, k)}) = k
    BY <2>2 DEF Nth
  <2> QED BY <1>2, <2>3
<1>7. ASSUME NEW i \in I PROVE \E k \in Ranks : Nth(I, k) = i
  <2>1. Rank[i] \in Ranks
    BY <1>2
  <2>2. Nth(I, Rank[i]) \in I /\ Rank[Nth(I, Rank[i])] = Rank[i]
    BY <1>6, <2>1
  <2>3. Nth(I, Rank[i]) = i
    BY <1>4, <2>2 DEF Injection, IsInjective
  <2> QED BY <2>1, <2>3
<1>8. ASSUME NEW k \in Ranks, NEW l \in Ranks, k < l PROVE Nth(I, k) < Nth(I, l)
  <2>1. Nth(I, k) \in Int /\ Nth(I, l) \in Int
    BY <1>6
  <2>2. k \in Int /\ l \in Int
    BY <1>1
  <2>3. Nth(I, k) # Nth(I, l)
    BY <1>6, <1>8, <2>2
  <2>4. ~ (Nth(I, l) < Nth(I, k))
    <3>1. Nth(I, l) < Nth(I, k) => Rank[Nth(I, l)] < Rank[Nth(I, k)]
      BY <1>3, <1>6
    <3> QED BY <1>6, <1>8, <2>2, <3>1
  <2> QED BY <2>1, <2>3, <2>4
<1> QED BY <1>1, <1>6, <1>7, <1>8

-----------------------------------------------------------------------------
(***************************************************************************)
(* The first round.                                                        *)
(***************************************************************************)

\* slotOrder is the function its definition describes: up to any number there is
\* one such function, and two of them agree.
LEMMA SlotOrder ==
  \A k \in Nat : slotOrder[k] = IF k = 0 THEN <<1>> ELSE Doubled(slotOrder[k - 1])
<1> DEFINE UpTo(n, g) == /\ DOMAIN g = 0..n
                         /\ \A k \in 0..n : g[k] = IF k = 0 THEN <<1>> ELSE Doubled(g[k - 1])
           Missing    == {n \in Nat : ~ \E g : UpTo(n, g)}
           Part(n)    == CHOOSE g : UpTo(n, g)
           whole      == [n \in Nat |-> Part(n)[n]]
           Described(f) == f = [k \in Nat |-> IF k = 0 THEN <<1>> ELSE Doubled(f[k - 1])]
<1>1. \A n \in Nat : \E g : UpTo(n, g)
  <2>1. SUFFICES ASSUME Missing # {} PROVE FALSE
    OBVIOUS
  <2>2. PICK n \in Missing : \A m \in Missing : n <= m
    BY <2>1, Least
  <2>3. UpTo(0, [k \in 0..0 |-> <<1>>])
    OBVIOUS
  <2>4. n \in Nat /\ n - 1 \in Nat /\ n - 1 \notin Missing
    <3>1. n # 0
      BY <2>3
    <3> QED BY <2>2, <3>1
  <2>5. PICK g : UpTo(n - 1, g)
    BY <2>4
  <2>6. UpTo(n, [k \in 0..n |-> IF k = n THEN Doubled(g[n - 1]) ELSE g[k]])
    <3> DEFINE h == [k \in 0..n |-> IF k = n THEN Doubled(g[n - 1]) ELSE g[k]]
    <3>1. ASSUME NEW k \in 0..n PROVE h[k] = IF k = 0 THEN <<1>> ELSE Doubled(h[k - 1])
      <4>1. n # 0 /\ n \in Nat
        BY <2>4
      <4>2. CASE k = n
        BY <4>1, <4>2
      <4>3. CASE k # n
        <5>1. k \in 0..(n - 1) /\ h[k] = g[k] /\ (k # 0 => h[k - 1] = g[k - 1])
          BY <4>1, <4>3
        <5> QED BY <2>5, <5>1
      <4> QED BY <4>2, <4>3
    <3> QED BY <3>1
  <2> QED BY <2>2, <2>6
<1>2. ASSUME NEW m \in Nat, NEW n \in Nat, NEW g, NEW h, UpTo(m, g), UpTo(n, h),
             NEW i \in 0..m, i \in 0..n
      PROVE  g[i] = h[i]
  <2> DEFINE Differ == {k \in 0..m : k \in 0..n /\ g[k] # h[k]}
  <2>1. SUFFICES ASSUME Differ # {} PROVE FALSE
    BY <1>2
  <2>2. PICK k \in Differ : \A l \in Differ : k <= l
    <3>1. Differ \in SUBSET Nat
      OBVIOUS
    <3> QED BY <2>1, <3>1, Least
  <2>3. k # 0
    BY <1>2, <2>2
  <2>4. k - 1 \in 0..m /\ k - 1 \in 0..n /\ g[k - 1] = h[k - 1]
    BY <2>2, <2>3
  <2> QED BY <1>2, <2>2, <2>3, <2>4
<1>3. \A n \in Nat : UpTo(n, Part(n))
  BY <1>1
<1> HIDE DEF Part, UpTo
<1>4. ASSUME NEW k \in Nat
      PROVE  whole[k] = IF k = 0 THEN <<1>> ELSE Doubled(whole[k - 1])
  <2>1. Part(k)[k] = IF k = 0 THEN <<1>> ELSE Doubled(Part(k)[k - 1])
    BY <1>3 DEF UpTo
  <2>2. k # 0 => Part(k)[k - 1] = Part(k - 1)[k - 1]
    BY <1>2, <1>3
  <2> QED BY <2>1, <2>2
<1>5. Described(whole)
  BY <1>4
<1>6. Described(slotOrder)
  BY <1>5 DEF slotOrder
<1> HIDE DEF whole
<1> QED BY <1>6

\* An order of slots seats every seed there is, once.
IsSeating(order) ==
  /\ order \in Seq(Nat) /\ Len(order) # 0
  /\ \A i \in DOMAIN order : order[i] \in 1..Len(order)
  /\ \A i, j \in DOMAIN order : order[i] = order[j] => i = j

\* Twice as many slots seat twice as many seeds.
LEMMA DoubledFacts ==
  ASSUME NEW order, IsSeating(order)
  PROVE  IsSeating(Doubled(order)) /\ Len(Doubled(order)) = 2 * Len(order)
<1> DEFINE n == Len(order)
           d == Doubled(order)
<1>1. n \in Nat /\ n # 0 /\ DOMAIN order = 1..n
  BY LenProperties DEF IsSeating
<1>2. d = [i \in 1..2 * n |-> IF i % 2 = 1 THEN order[(i + 1) \div 2] ELSE 2 * n + 1 - order[i \div 2]]
  BY DEF Doubled
<1>3. ASSUME NEW i \in 1..2 * n
      PROVE  /\ i % 2 = 1 => (i + 1) \div 2 \in 1..n /\ d[i] = order[(i + 1) \div 2] /\ d[i] \in 1..n
             /\ i % 2 # 1 => i \div 2 \in 1..n /\ d[i] = 2 * n + 1 - order[i \div 2] /\ d[i] \in n + 1..2 * n
  <2>1. i % 2 = 1 => (i + 1) \div 2 \in 1..n
    BY <1>1
  <2>2. i % 2 # 1 => i \div 2 \in 1..n
    BY <1>1
  <2>3. \A j \in 1..n : order[j] \in 1..n
    BY <1>1 DEF IsSeating
  <2> QED BY <1>1, <1>2, <2>1, <2>2, <2>3
<1>4. d \in Seq(Nat) /\ Len(d) = 2 * n /\ DOMAIN d = 1..2 * n
  <2>1. d \in [1..2 * n -> Nat]
    <3>1. \A i \in 1..2 * n : d[i] \in Nat
      BY <1>1, <1>3
    <3> QED BY <1>2, <3>1
  <2>2. 2 * n \in Nat
    BY <1>1
  <2> QED BY <2>1, <2>2, SeqDef, LenProperties
<1>5. ASSUME NEW i \in 1..2 * n, NEW j \in 1..2 * n, d[i] = d[j] PROVE i = j
  <2>1. i % 2 = 1 <=> j % 2 = 1
    BY <1>1, <1>3, <1>5
  <2>2. \A k, l \in 1..n : order[k] = order[l] => k = l
    BY <1>1 DEF IsSeating
  <2>3. CASE i % 2 = 1
    <3>1. (i + 1) \div 2 \in 1..n /\ (j + 1) \div 2 \in 1..n
            /\ order[(i + 1) \div 2] = order[(j + 1) \div 2]
      BY <1>3, <1>5, <2>1, <2>3
    <3>2. (i + 1) \div 2 = (j + 1) \div 2
      BY <2>2, <3>1
    <3> QED BY <1>1, <2>1, <2>3, <3>2
  <2>4. CASE i % 2 # 1
    <3>1. order[i \div 2] = order[j \div 2]
      <4>1. order[i \div 2] \in Nat /\ order[j \div 2] \in Nat
        BY <1>1, <1>3, <2>1, <2>4 DEF IsSeating
      <4> QED BY <1>1, <1>3, <1>5, <2>1, <2>4, <4>1
    <3>2. i \div 2 = j \div 2
      BY <1>3, <2>1, <2>2, <2>4, <3>1
    <3> QED BY <1>1, <2>1, <2>4, <3>2
  <2> QED BY <2>3, <2>4
<1>6. \A i \in 1..2 * n : d[i] \in 1..2 * n
  BY <1>1, <1>3
<1> HIDE DEF d
<1> QED BY <1>1, <1>4, <1>5, <1>6 DEF IsSeating, d

\* Every order of slots is a seating, and they grow without bound ...
LEMMA SlotFacts ==
  ASSUME NEW k \in Nat PROVE IsSeating(slotOrder[k]) /\ Len(slotOrder[k]) > k
<1> DEFINE Bad == {m \in Nat : ~(IsSeating(slotOrder[m]) /\ Len(slotOrder[m]) > m)}
<1>1. SUFFICES ASSUME Bad # {} PROVE FALSE
  OBVIOUS
<1>2. PICK m \in Bad : \A l \in Bad : m <= l
  BY <1>1, Least
<1>3. m # 0
  <2>1. slotOrder[0] = <<1>>
    BY SlotOrder
  <2>2. IsSeating(<<1>>) /\ Len(<<1>>) = 1
    BY DEF IsSeating
  <2> QED BY <1>2, <2>1, <2>2
<1>4. m - 1 \in Nat /\ m - 1 \notin Bad /\ slotOrder[m] = Doubled(slotOrder[m - 1])
  BY <1>2, <1>3, SlotOrder
<1>5. IsSeating(slotOrder[m - 1]) /\ Len(slotOrder[m - 1]) > m - 1 /\ Len(slotOrder[m - 1]) \in Nat
  BY <1>4, LenProperties DEF IsSeating
<1>6. IsSeating(slotOrder[m]) /\ Len(slotOrder[m]) = 2 * Len(slotOrder[m - 1])
  BY <1>4, <1>5, DoubledFacts
<1> QED BY <1>2, <1>3, <1>5, <1>6

\* ... so that one of them has a slot for each of n entrants.
LEMMA SeedFacts ==
  ASSUME NEW n \in Nat PROVE IsSeating(seedSlotOrder(n)) /\ Len(seedSlotOrder(n)) >= n
<1> DEFINE Enough == {k \in Nat : Len(slotOrder[k]) >= n}
<1>0. \A k \in Nat : Len(slotOrder[k]) \in Nat /\ Len(slotOrder[k]) > k
  BY SlotFacts, LenProperties DEF IsSeating
<1>1. PICK k \in Enough : \A j \in Enough : k <= j
  <2>1. n \in Enough
    BY <1>0
  <2> QED BY <2>1, Least
<1>2. /\ k \in 0..n /\ Len(slotOrder[k]) >= n
      /\ \A j \in 0..k - 1 : Len(slotOrder[j]) < n
  <2>1. n \in Enough
    BY <1>0
  <2>2. k \in 0..n
    BY <1>1, <2>1
  <2>3. ASSUME NEW j \in 0..k - 1 PROVE Len(slotOrder[j]) < n
    <3>1. j \in Nat /\ j \notin Enough
      BY <1>1
    <3> QED BY <1>0, <3>1
  <2> QED BY <1>1, <2>2, <2>3
<1> DEFINE C == CHOOSE c \in 0..n : /\ Len(slotOrder[c]) >= n
                                    /\ \A j \in 0..c - 1 : Len(slotOrder[j]) < n
<1>3. C \in 0..n /\ Len(slotOrder[C]) >= n
  BY <1>2
<1>4. seedSlotOrder(n) = slotOrder[C]
  BY DEF seedSlotOrder
<1> HIDE DEF C
<1> QED BY <1>3, <1>4, SlotFacts

\* Who a pair seats, and who a round does, and a round that seats nobody twice.
Members(pair) == {pair[1], pair[2]} \ {Nobody}
Drawn(pairs)  == UNION {Members(pairs[n]) : n \in DOMAIN pairs}
Disjoint(pairs) ==
  \A m, n \in DOMAIN pairs : m # n => Members(pairs[m]) \cap Members(pairs[n]) = {}

\* An order of entrants names none twice.
IsOrder(ids, E) ==
  /\ E \in SUBSET (Nat \ {Nobody}) /\ ids \in Seq(E)
  /\ \A i, j \in DOMAIN ids : ids[i] = ids[j] => i = j

\* Those who play in the first round of a Swiss stage: all but an odd last one.
Playing(ids) == {ids[i] : i \in 1..2 * (Len(ids) \div 2)}

\* The first round of a bracket: nobody has two slots.
LEMMA TreeFacts ==
  ASSUME NEW E, NEW ids, IsOrder(ids, E)
  PROVE  /\ TreeRound(ids) \in Seq((E \cup {Nobody}) \X (E \cup {Nobody}))
         /\ Disjoint(TreeRound(ids))
<1> DEFINE n       == Len(ids)
           order   == seedSlotOrder(n)
           slot(i) == IF order[i] <= n THEN ids[order[i]] ELSE Nobody
           half    == Len(order) \div 2
           p       == TreeRound(ids)
<1>1. n \in Nat /\ DOMAIN ids = 1..n /\ \A i \in 1..n : ids[i] \in E
  BY LenProperties DEF IsOrder
<1>2. /\ Len(order) \in Nat /\ DOMAIN order = 1..Len(order)
      /\ \A i \in 1..Len(order) : order[i] \in 1..Len(order)
      /\ \A i, j \in 1..Len(order) : order[i] = order[j] => i = j
  <2>1. IsSeating(order)
    BY <1>1, SeedFacts
  <2> QED BY <2>1, LenProperties DEF IsSeating
<1>3. p = [i \in 1..half |-> <<slot(2 * i - 1), slot(2 * i)>>]
  BY DEF TreeRound
<1> HIDE DEF n, order, p
<1>4. ASSUME NEW i \in 1..Len(order)
      PROVE  /\ slot(i) \in E \cup {Nobody}
             /\ slot(i) # Nobody => order[i] \in 1..n /\ slot(i) = ids[order[i]]
  <2>1. order[i] \in 1..Len(order)
    BY <1>2
  <2> QED BY <1>1, <1>2, <2>1
<1>5. ASSUME NEW i \in 1..Len(order), NEW j \in 1..Len(order), i # j
      PROVE  slot(i) # slot(j) \/ slot(i) = Nobody
  <2>1. SUFFICES ASSUME slot(i) = slot(j), slot(i) # Nobody PROVE FALSE
    OBVIOUS
  <2>2. order[i] \in 1..n /\ order[j] \in 1..n /\ ids[order[i]] = ids[order[j]]
    BY <1>4, <2>1
  <2>3. order[i] = order[j]
    BY <1>1, <2>2 DEF IsOrder
  <2> QED BY <1>2, <1>5, <2>3
<1>6. half \in Nat /\ \A i \in 1..half : 2 * i \in 1..Len(order) /\ 2 * i - 1 \in 1..Len(order)
  BY <1>2
<1> HIDE DEF slot
<1>7. p \in Seq((E \cup {Nobody}) \X (E \cup {Nobody})) /\ DOMAIN p = 1..half
  <2>1. p \in [1..half -> (E \cup {Nobody}) \X (E \cup {Nobody})]
    BY <1>3, <1>4, <1>6
  <2> QED BY <1>6, <2>1, SeqDef
<1>8. ASSUME NEW i \in 1..half, NEW j \in 1..half, i # j
      PROVE  Members(p[i]) \cap Members(p[j]) = {}
  <2>1. /\ Members(p[i]) = {slot(2 * i - 1), slot(2 * i)} \ {Nobody}
        /\ Members(p[j]) = {slot(2 * j - 1), slot(2 * j)} \ {Nobody}
    BY <1>3 DEF Members
  <2>2. {2 * i - 1, 2 * i} \cap {2 * j - 1, 2 * j} = {}
    BY <1>6, <1>8
  <2>3. \A a \in {2 * i - 1, 2 * i} : \A b \in {2 * j - 1, 2 * j} :
          slot(a) # slot(b) \/ slot(a) = Nobody
    <3>1. {2 * i - 1, 2 * i} \subseteq 1..Len(order) /\ {2 * j - 1, 2 * j} \subseteq 1..Len(order)
      BY <1>6
    <3> QED BY <1>5, <2>2, <3>1
  <2> QED BY <2>1, <2>3
<1> QED BY <1>7, <1>8 DEF Disjoint, p

\* The first round of a Swiss stage, pair by pair.
LEMMA SwissFacts ==
  ASSUME NEW E, NEW ids, IsOrder(ids, E)
  PROVE  LET half == Len(ids) \div 2 IN
         /\ SwissRound(ids) \in Seq((E \cup {Nobody}) \X (E \cup {Nobody}))
         /\ half \in Nat /\ half <= Len(SwissRound(ids)) /\ Len(SwissRound(ids)) \in Nat
         /\ \A i \in DOMAIN SwissRound(ids) :
              SwissRound(ids)[i] = IF i <= half THEN <<ids[i], ids[half + i]>>
                                   ELSE <<ids[Len(ids)], Nobody>>
         /\ \A i \in 1..half : i \in DOMAIN ids /\ half + i \in DOMAIN ids
<1> DEFINE half == Len(ids) \div 2
           met  == [i \in 1..half |-> <<ids[i], ids[half + i]>>]
           rest == IF Len(ids) % 2 = 1 THEN << <<Last(ids), Nobody>> >> ELSE <<>>
           P    == (E \cup {Nobody}) \X (E \cup {Nobody})
<1>1. Len(ids) \in Nat /\ DOMAIN ids = 1..Len(ids) /\ \A i \in 1..Len(ids) : ids[i] \in E
  BY LenProperties DEF IsOrder
<1>2. half \in Nat /\ 2 * half <= Len(ids)
  BY <1>1
<1> HIDE DEF half
<1>3. \A i \in 1..half : i \in DOMAIN ids /\ half + i \in DOMAIN ids
  BY <1>1, <1>2
<1>4. met \in Seq(P) /\ Len(met) = half
  <2>1. met \in [1..half -> P]
    BY <1>1, <1>3
  <2> QED BY <1>2, <2>1, SeqDef, LenProperties
<1>5. /\ rest \in Seq(P) /\ Len(rest) \in {0, 1}
      /\ Len(rest) = 1 => rest[1] = <<ids[Len(ids)], Nobody>>
  <2>1. CASE Len(ids) % 2 = 1
    <3>1. Last(ids) = ids[Len(ids)] /\ ids[Len(ids)] \in E
      BY <1>1, <2>1 DEF Last
    <3> QED BY <2>1, <3>1
  <2>2. CASE Len(ids) % 2 # 1
    BY <2>2
  <2> QED BY <2>1, <2>2
<1>6. SwissRound(ids) = met \o rest
  BY DEF SwissRound, half
<1> HIDE DEF met, rest, P
<1>7. /\ met \o rest \in Seq(P) /\ Len(met \o rest) = half + Len(rest)
      /\ \A i \in 1..half + Len(rest) : (met \o rest)[i] = IF i <= half THEN met[i] ELSE rest[i - half]
  BY <1>4, <1>5, ConcatProperties
<1>8. ASSUME NEW i \in DOMAIN SwissRound(ids)
      PROVE  SwissRound(ids)[i] = IF i <= half THEN <<ids[i], ids[half + i]>>
                                  ELSE <<ids[Len(ids)], Nobody>>
  <2>1. i \in 1..half + Len(rest)
    BY <1>6, <1>7, LenProperties
  <2>2. CASE i <= half
    BY <1>2, <1>6, <1>7, <2>1, <2>2 DEF met
  <2>3. CASE ~(i <= half)
    <3>1. i \in Int /\ half \in Int /\ half < i /\ i <= half + Len(rest)
      BY <1>2, <1>5, <2>1, <2>3
    <3>2. i - half = 1 /\ Len(rest) = 1
      BY <1>5, <3>1
    <3> QED BY <1>5, <1>6, <1>7, <2>1, <2>3, <3>2
  <2> QED BY <2>2, <2>3
<1>9. half <= Len(SwissRound(ids)) /\ Len(SwissRound(ids)) \in Nat
  BY <1>2, <1>5, <1>6, <1>7
<1> QED BY <1>2, <1>3, <1>6, <1>7, <1>8, <1>9 DEF P, half

\* The pairs of a first round: of the matches with two entrants, each entrant of
\* the order has at most one, and in a Swiss stage all but an odd last one have.
LEMMA FirstRoundFacts ==
  ASSUME NEW E, NEW ids, IsOrder(ids, E)
  PROVE  /\ FirstRound(ids) \in Seq(E \X E)
         /\ Disjoint(FirstRound(ids))
         /\ format = "swiss" => Drawn(FirstRound(ids)) = Playing(ids)
<1> DEFINE pairs == IF format = "swiss" THEN SwissRound(ids) ELSE TreeRound(ids)
           I     == {i \in DOMAIN pairs : Nobody \notin {pairs[i][1], pairs[i][2]}}
           n     == Cardinality(I)
           half  == Len(ids) \div 2
           first == FirstRound(ids)
<1>1. /\ Len(ids) \in Nat /\ DOMAIN ids = 1..Len(ids) /\ half \in Nat /\ 2 * half <= Len(ids)
      /\ E \in SUBSET (Nat \ {Nobody}) /\ \A i \in 1..Len(ids) : ids[i] \in E
      /\ \A i, j \in 1..Len(ids) : ids[i] = ids[j] => i = j
  BY LenProperties DEF IsOrder
<1>0. \A i \in 1..Len(ids) : ids[i] \in E /\ ids[i] # Nobody
  <2>1. E \subseteq Nat \ {Nobody}
    BY <1>1
  <2> QED BY <1>1, <2>1
<1> HIDE DEF half
<1>9. half \in Nat /\ \A i \in 1..half : i \in 1..Len(ids) /\ half + i \in 1..Len(ids)
  BY <1>1
<1>2. /\ pairs \in Seq((E \cup {Nobody}) \X (E \cup {Nobody}))
      /\ \A i, j \in I : i # j => Members(pairs[i]) \cap Members(pairs[j]) = {}
      /\ format = "swiss" => I = 1..half /\ \A i \in 1..half : pairs[i] = <<ids[i], ids[half + i]>>
  <2>1. CASE format = "swiss"
    <3>1. /\ pairs \in Seq((E \cup {Nobody}) \X (E \cup {Nobody}))
          /\ half <= Len(pairs) /\ Len(pairs) \in Nat /\ DOMAIN pairs = 1..Len(pairs)
          /\ \A i \in DOMAIN pairs : pairs[i] = IF i <= half THEN <<ids[i], ids[half + i]>>
                                                ELSE <<ids[Len(ids)], Nobody>>
      BY <2>1, SwissFacts, LenProperties DEF half
    <3> HIDE DEF pairs
    <3>2. I = 1..half
      <4>1. ASSUME NEW i \in 1..half PROVE i \in I
        <5>1. i \in DOMAIN pairs /\ pairs[i] = <<ids[i], ids[half + i]>>
          <6>1. i \in Int /\ i <= half /\ i \in DOMAIN pairs
            BY <1>9, <3>1
          <6>2. \A j \in DOMAIN pairs : j <= half => pairs[j] = <<ids[j], ids[half + j]>>
            BY <3>1
          <6> QED BY <6>1, <6>2
        <5>2. ids[i] # Nobody /\ ids[half + i] # Nobody
          BY <1>0, <1>9
        <5> QED BY <5>1, <5>2
      <4>2. ASSUME NEW i \in I PROVE i \in 1..half
        <5>1. i \in 1..Len(pairs) /\ (i <= half \/ pairs[i] = <<ids[Len(ids)], Nobody>>)
          BY <3>1
        <5> QED BY <1>1, <3>1, <5>1
      <4> QED BY <4>1, <4>2
    <3>3. \A i \in 1..half : pairs[i] = <<ids[i], ids[half + i]>>
      <4>1. \A j \in DOMAIN pairs : j <= half => pairs[j] = <<ids[j], ids[half + j]>>
        BY <3>1
      <4>2. \A i \in 1..half : i \in DOMAIN pairs /\ i <= half
        BY <1>9, <3>1
      <4> QED BY <4>1, <4>2
    <3>4. ASSUME NEW i \in 1..half, NEW j \in 1..half, i # j
          PROVE  Members(pairs[i]) \cap Members(pairs[j]) = {}
      <4>1. Members(pairs[i]) \subseteq {ids[i], ids[half + i]}
            /\ Members(pairs[j]) \subseteq {ids[j], ids[half + j]}
        BY <3>3 DEF Members
      <4>2. {i, half + i} \cap {j, half + j} = {} /\ {i, half + i, j, half + j} \subseteq 1..Len(ids)
        BY <1>1, <3>4
      <4>3. {ids[i], ids[half + i]} \cap {ids[j], ids[half + j]} = {}
        BY <1>1, <4>2
      <4> QED BY <4>1, <4>3
    <3> HIDE DEF I
    <3> QED BY <3>1, <3>2, <3>3, <3>4
  <2>2. CASE format # "swiss"
    <3>1. pairs = TreeRound(ids)
      BY <2>2
    <3> QED BY <2>2, <3>1, TreeFacts DEF Disjoint
  <2> QED BY <2>1, <2>2
<1>3. first = [k \in 1..n |-> pairs[Nth(I, k)]]
  BY DEF FirstRound, Selected
<1>4. I \in SUBSET DOMAIN pairs /\ \A i \in I : pairs[i] \in E \X E
  <2>1. \A i \in DOMAIN pairs : pairs[i] \in (E \cup {Nobody}) \X (E \cup {Nobody})
    BY <1>2, ElementOfSeq, LenProperties
  <2> QED BY <2>1
<1>5. /\ IsFiniteSet(I) /\ n \in Nat
      /\ \A k \in 1..n : Nth(I, k) \in I
      /\ \A i \in I : \E k \in 1..n : Nth(I, k) = i
      /\ \A k, l \in 1..n : k # l => Nth(I, k) # Nth(I, l)
  <2>1. Len(pairs) \in Nat /\ DOMAIN pairs = 1..Len(pairs)
    BY <1>2, LenProperties
  <2>2. IsFiniteSet(I) /\ I \in SUBSET Int
    <3>1. IsFiniteSet(1..Len(pairs))
      BY <2>1, FS_Interval
    <3> QED BY <1>4, <2>1, <3>1, FS_Subset
  <2> HIDE DEF I
  <2>3. /\ n \in Nat
        /\ \A k \in 1..n : Nth(I, k) \in I
        /\ \A i \in I : \E k \in 1..n : Nth(I, k) = i
        /\ \A k, l \in 1..n : k < l => Nth(I, k) < Nth(I, l)
    BY <2>2, NthFacts
  <2> HIDE DEF n
  <2>4. ASSUME NEW k \in 1..n, NEW l \in 1..n, k # l PROVE Nth(I, k) # Nth(I, l)
    <3>1. Nth(I, k) \in Int /\ Nth(I, l) \in Int
      BY <2>2, <2>3
    <3>2. k < l \/ l < k
      BY <2>3, <2>4
    <3> QED BY <2>3, <3>1, <3>2
  <2> QED BY <2>2, <2>3, <2>4
<1> HIDE DEF pairs, I, n, first
<1>6. first \in Seq(E \X E) /\ DOMAIN first = 1..n
  <2>1. first \in [1..n -> E \X E]
    BY <1>3, <1>4, <1>5
  <2> QED BY <1>5, <2>1, SeqDef
<1>7. Disjoint(first)
  <2>1. ASSUME NEW k \in 1..n, NEW l \in 1..n, k # l
        PROVE  Members(first[k]) \cap Members(first[l]) = {}
    <3>1. Nth(I, k) \in I /\ Nth(I, l) \in I /\ Nth(I, k) # Nth(I, l)
      BY <1>5, <2>1
    <3>2. first[k] = pairs[Nth(I, k)] /\ first[l] = pairs[Nth(I, l)]
      BY <1>3
    <3> QED BY <1>2, <3>1, <3>2
  <2> QED BY <1>6, <2>1 DEF Disjoint
<1>8. ASSUME format = "swiss" PROVE Drawn(first) = {ids[i] : i \in 1..2 * half}
  <2>1. ASSUME NEW k \in 1..n
        PROVE  \E i \in 1..half : first[k] = <<ids[i], ids[half + i]>> /\ Members(first[k]) = {ids[i], ids[half + i]}
    <3>1. Nth(I, k) \in 1..half /\ first[k] = pairs[Nth(I, k)]
      BY <1>2, <1>3, <1>5, <1>8
    <3>2. ids[Nth(I, k)] # Nobody /\ ids[half + Nth(I, k)] # Nobody
      BY <1>0, <1>9, <3>1
    <3>3. first[k] = <<ids[Nth(I, k)], ids[half + Nth(I, k)]>>
      BY <1>2, <1>8, <3>1
    <3> QED BY <3>1, <3>2, <3>3 DEF Members
  <2>2. ASSUME NEW i \in 1..2 * half PROVE ids[i] \in Drawn(first)
    <3>1. PICK j \in 1..half : i = j \/ i = half + j
      <4>1. CASE i <= half
        BY <1>9, <4>1
      <4>2. CASE i > half
        <5>1. i - half \in 1..half /\ i = half + (i - half)
          BY <1>9, <4>2
        <5> QED BY <5>1
      <4> QED BY <1>9, <4>1, <4>2
    <3>2. PICK k \in 1..n : Nth(I, k) = j
      BY <1>2, <1>5, <1>8
    <3>3. first[k] = <<ids[j], ids[half + j]>>
      BY <1>2, <1>3, <1>8, <3>2
    <3>4. ids[i] # Nobody
      BY <1>0, <1>9, <3>1
    <3> QED BY <1>6, <3>1, <3>3, <3>4 DEF Drawn, Members
  <2>3. ASSUME NEW e \in Drawn(first) PROVE e \in {ids[i] : i \in 1..2 * half}
    <3>1. PICK k \in 1..n : e \in Members(first[k])
      BY <1>6 DEF Drawn
    <3>2. PICK i \in 1..half : Members(first[k]) = {ids[i], ids[half + i]}
      BY <2>1
    <3>3. i \in 1..2 * half /\ half + i \in 1..2 * half
      BY <1>1
    <3> QED BY <3>1, <3>2, <3>3
  <2> QED BY <2>2, <2>3
<1> QED BY <1>6, <1>7, <1>8 DEF first, half, Playing

-----------------------------------------------------------------------------
(***************************************************************************)
(* The search of solveSwissPairings.                                       *)
(***************************************************************************)

\* The players P, of whom each has numbers to be placed by.
Numbered(P, seed, score, tie) ==
  IsFiniteSet(P) /\ \A e \in P : seed[e] \in Nat /\ score[e] \in Nat /\ tie[e] \in Nat

\* Of some players, there is one whom none of the others is above.
LEMMA FirstFacts ==
  ASSUME NEW P, NEW seed, NEW score, NEW tie, Numbered(P, seed, score, tie),
         NEW S \in SUBSET P, S # {}
  PROVE  First(S, Standings(P, seed, score, tie)) \in S
<1> DEFINE above    == Standings(P, seed, score, tie)
           Ahead(e) == {d \in S : <<d, e>> \in above}
           T        == {Ahead(e) : e \in S}
<1>1. \A d, e \in S : <<d, e>> \in above <=>
        \/ score[d] > score[e]
        \/ score[d] = score[e] /\ tie[d] > tie[e]
        \/ score[d] = score[e] /\ tie[d] = tie[e] /\ seed[d] < seed[e]
  BY DEF Standings
<1>2. \A e \in S : seed[e] \in Nat /\ score[e] \in Nat /\ tie[e] \in Nat
  BY DEF Numbered
<1>3. /\ \A e \in S : <<e, e>> \notin above
      /\ \A c, d, e \in S : <<c, d>> \in above /\ <<d, e>> \in above => <<c, e>> \in above
  BY <1>1, <1>2
<1> HIDE DEF above
<1>4. T \in SUBSET FiniteSubsetsOf(S) /\ T # {}
  <2>1. ASSUME NEW e \in S PROVE Ahead(e) \in FiniteSubsetsOf(S)
    <3>1. IsFiniteSet(S)
      BY FS_Subset DEF Numbered
    <3> QED BY <3>1, FS_Subset DEF FiniteSubsetsOf
  <2> QED BY <2>1
<1> HIDE DEF T
<1>5. PICK A \in T : \A B \in T : ~(B \subseteq A /\ B # A)
  BY <1>4, SmallestSet
<1>6. PICK e \in S : A = Ahead(e)
  BY <1>5 DEF T
<1>7. ASSUME NEW d \in S PROVE <<d, e>> \notin above
  <2>1. SUFFICES ASSUME <<d, e>> \in above PROVE FALSE
    OBVIOUS
  <2>2. Ahead(d) \subseteq Ahead(e) /\ d \in Ahead(e) /\ d \notin Ahead(d)
    BY <1>3, <2>1
  <2>3. Ahead(d) \in T
    BY DEF T
  <2> QED BY <1>5, <1>6, <2>2, <2>3
<1> QED BY <1>7 DEF First, above

\* Whoever is open to meet, one of them is chosen.
LEMMA ChoiceFacts ==
  ASSUME NEW S, NEW first, NEW open, NEW above, NEW score, NEW seed,
         open # {}, score[first] \in Nat, \A e \in open : seed[e] \in Nat /\ score[e] \in Nat
  PROVE  Choice(S, first, open, above, score, seed) \in open
<1> DEFINE Gap(e) == Apart(score[first], score[e])
           near   == Nearest(open, first, score)
           middle == near \cap Middle({e \in S : score[e] = score[first]}, above)
           best   == IF middle = {} THEN near ELSE middle
<1>1. \A e \in open : Gap(e) \in Nat
  BY DEF Apart
<1> HIDE DEF Gap
<1>2. near # {} /\ near \subseteq open
  <2>1. {Gap(e) : e \in open} \in SUBSET Nat /\ {Gap(e) : e \in open} # {}
    BY <1>1
  <2>2. PICK g \in {Gap(e) : e \in open} : \A h \in {Gap(e) : e \in open} : g <= h
    BY <2>1, Least
  <2>3. PICK e \in open : g = Gap(e)
    BY <2>2
  <2>4. e \in near
    BY <2>2, <2>3 DEF Nearest, Gap
  <2> QED BY <2>4 DEF Nearest
<1>3. best # {} /\ best \subseteq open
  BY <1>2
<1>4. Choice(S, first, open, above, score, seed)
        = CHOOSE e \in best : \A d \in best : seed[e] <= seed[d]
  BY DEF Choice
<1> HIDE DEF best
<1>5. {seed[e] : e \in best} \in SUBSET Nat /\ {seed[e] : e \in best} # {}
  BY <1>3
<1>6. PICK g \in {seed[e] : e \in best} : \A h \in {seed[e] : e \in best} : g <= h
  BY <1>5, Least
<1>7. \E e \in best : \A d \in best : seed[e] <= seed[d]
  BY <1>6
<1> QED BY <1>3, <1>4, <1>7

\* A pairing of S is there if two of it who have not met leave the others one;
\* solved pairs the others.
Splits(pairs, S, fs, solved) ==
  pairs # NoPairing =>
    \E d, e \in S : /\ d # e /\ ~Met(fs, d, e) /\ solved[S \ {d, e}] # NoPairing
                    /\ pairs = << <<d, e>> >> \o solved[S \ {d, e}]

\* A solution is none, or a pair and a solution of the others.
LEMMA SolutionFacts ==
  ASSUME NEW P, NEW seed, NEW score, NEW tie, Numbered(P, seed, score, tie),
         NEW above, above = Standings(P, seed, score, tie),
         NEW fs, NEW solved, NEW S \in SUBSET P, S # {},
         NEW open, open = Open(S, First(S, above), fs, solved)
  PROVE  /\ open # {} => Choice(S, First(S, above), open, above, score, seed) \in S
         /\ Splits(Solution(S, above, fs, score, seed, solved), S, fs, solved)
<1> DEFINE first  == First(S, above)
           second == Choice(S, first, open, above, score, seed)
<1>1. first \in S
  BY FirstFacts
<1>2. open = {e \in S \ {first} : ~Met(fs, first, e) /\ solved[S \ {first, e}] # NoPairing}
  BY DEF Open
<1>3. Solution(S, above, fs, score, seed, solved)
        = IF open = {} THEN NoPairing ELSE << <<first, second>> >> \o solved[S \ {first, second}]
  BY DEF Solution
<1>4. open # {} => second \in open
  <2>1. score[first] \in Nat /\ \A e \in S : seed[e] \in Nat /\ score[e] \in Nat
    BY <1>1 DEF Numbered
  <2>2. \A e \in open : seed[e] \in Nat /\ score[e] \in Nat
    BY <1>2, <2>1
  <2> HIDE DEF first
  <2> QED BY <2>1, <2>2, ChoiceFacts
<1> HIDE DEF second, first
<1>5. open # {} => /\ second \in S /\ second # first /\ ~Met(fs, first, second)
                   /\ solved[S \ {first, second}] # NoPairing
  BY <1>2, <1>4
<1>6. Splits(Solution(S, above, fs, score, seed, solved), S, fs, solved)
  BY <1>1, <1>3, <1>5 DEF Splits
<1> QED BY <1>5, <1>6 DEF second, first

\* What pairs a set depends only on what pairs its proper subsets.
LEMMA SolutionAgrees ==
  ASSUME NEW P, NEW seed, NEW score, NEW tie, Numbered(P, seed, score, tie),
         NEW fs, NEW g, NEW h, NEW S \in SUBSET P,
         \A C \in SUBSET S : C # S => g[C] = h[C]
  PROVE  LET above == Standings(P, seed, score, tie) IN
         Solution(S, above, fs, score, seed, g) = Solution(S, above, fs, score, seed, h)
<1> DEFINE above == Standings(P, seed, score, tie)
           first == First(S, above)
<1>1. CASE S = {}
  BY <1>1 DEF Solution
<1>2. CASE S # {}
  <2>1. first \in S
    BY <1>2, FirstFacts
  <2>2. \A e \in S : g[S \ {first, e}] = h[S \ {first, e}]
    <3>1. ASSUME NEW e \in S PROVE S \ {first, e} \in SUBSET S /\ S \ {first, e} # S
      OBVIOUS
    <3> QED BY <3>1
  <2>3. Open(S, first, fs, g) = Open(S, first, fs, h)
    BY <2>2 DEF Open
  <2> HIDE DEF first, above
  <2> DEFINE open   == Open(S, first, fs, g)
             second == Choice(S, first, open, above, score, seed)
  <2>4. open # {} => second \in S
    BY <1>2, SolutionFacts DEF first, above
  <2>5. /\ Solution(S, above, fs, score, seed, g)
             = IF open = {} THEN NoPairing ELSE << <<first, second>> >> \o g[S \ {first, second}]
        /\ Solution(S, above, fs, score, seed, h)
             = IF open = {} THEN NoPairing ELSE << <<first, second>> >> \o h[S \ {first, second}]
    BY <1>2, <2>3 DEF Solution, first
  <2> HIDE DEF open, second
  <2>6. Solution(S, above, fs, score, seed, g) = Solution(S, above, fs, score, seed, h)
    BY <2>2, <2>4, <2>5
  <2> QED BY <2>6 DEF above
<1> QED BY <1>1, <1>2

\* The function Solve computes is there: for every set of players there is one
\* on its subsets, and on a set that two of them pair they agree.
LEMMA SolvedFacts ==
  ASSUME NEW P, NEW seed, NEW score, NEW tie, Numbered(P, seed, score, tie), NEW fs
  PROVE  LET above == Standings(P, seed, score, tie) IN
         \E f : /\ \A S \in SUBSET P : f[S] = Solution(S, above, fs, score, seed, f)
                /\ Solve(P, above, fs, score, seed) = f[P]
<1> DEFINE above      == Standings(P, seed, score, tie)
           Sol(S, g)  == Solution(S, above, fs, score, seed, g)
           On(A, g)   == /\ DOMAIN g = SUBSET A
                         /\ \A S \in SUBSET A : g[S] = Sol(S, g)
           Missing    == {A \in SUBSET P : ~ \E g : On(A, g)}
           Part(A)    == CHOOSE g : On(A, g)
<1>0. SUBSET P = FiniteSubsetsOf(P)
  BY FS_FiniteSubsetsOfFinite DEF Numbered
<1>1. ASSUME NEW g, NEW h, NEW S \in SUBSET P, \A C \in SUBSET S : C # S => g[C] = h[C]
      PROVE  Sol(S, g) = Sol(S, h)
  BY <1>1, SolutionAgrees
<1> HIDE DEF Sol
<1>2. ASSUME NEW A \in SUBSET P, NEW B \in SUBSET P, NEW g, NEW h, On(A, g), On(B, h),
             NEW S \in SUBSET A, S \in SUBSET B
      PROVE  g[S] = h[S]
  <2> DEFINE Differ == {C \in SUBSET A : C \in SUBSET B /\ g[C] # h[C]}
  <2>1. SUFFICES ASSUME Differ # {} PROVE FALSE
    BY <1>2
  <2>2. PICK C \in Differ : \A D \in Differ : ~(D \subseteq C /\ D # C)
    <3>1. Differ \in SUBSET FiniteSubsetsOf(P)
      BY <1>0
    <3> HIDE DEF Differ
    <3> QED BY <2>1, <3>1, SmallestSet
  <2>3. \A D \in SUBSET C : D # C => g[D] = h[D]
    <3>1. ASSUME NEW D \in SUBSET C, D # C PROVE D \in SUBSET A /\ D \in SUBSET B /\ D \notin Differ
      BY <2>2, <3>1
    <3> QED BY <3>1
  <2>4. Sol(C, g) = Sol(C, h)
    BY <1>1, <2>2, <2>3
  <2> QED BY <1>2, <2>2, <2>4
<1>3. Missing = {}
  <2>1. SUFFICES ASSUME Missing # {} PROVE FALSE
    OBVIOUS
  <2>2. PICK A \in Missing : \A B \in Missing : ~(B \subseteq A /\ B # A)
    <3>1. Missing \in SUBSET FiniteSubsetsOf(P)
      BY <1>0
    <3> HIDE DEF Missing
    <3> QED BY <2>1, <3>1, SmallestSet
  <2>3. A \in SUBSET P /\ ~ \E g : On(A, g)
    BY <2>2
  <2>4. \A B \in SUBSET A : B # A => On(B, Part(B))
    <3>1. ASSUME NEW B \in SUBSET A, B # A PROVE \E g : On(B, g)
      BY <2>2, <2>3, <3>1
    <3> QED BY <3>1
  <2> HIDE DEF On, Part, Missing
  <2> DEFINE below == [B \in SUBSET A |-> Part(B)[B]]
             whole == [B \in SUBSET A |-> IF B = A THEN Sol(A, below) ELSE Part(B)[B]]
  <2>5. ASSUME NEW B \in SUBSET A, B # A PROVE whole[B] = Sol(B, whole)
    <3>1. \A C \in SUBSET B : C # B => Part(B)[C] = whole[C]
      <4>1. ASSUME NEW C \in SUBSET B, C # B PROVE Part(B)[C] = Part(C)[C]
        <5>1. C # A /\ C \in SUBSET A /\ B \in SUBSET P /\ C \in SUBSET P /\ C \in SUBSET C
          BY <2>3, <2>5, <4>1
        <5>2. On(B, Part(B)) /\ On(C, Part(C))
          BY <2>4, <2>5, <5>1
        <5> QED BY <1>2, <5>1, <5>2
      <4>2. \A C \in SUBSET B : whole[C] = Part(C)[C]
        BY <2>5
      <4> QED BY <4>1, <4>2
    <3>2. Sol(B, Part(B)) = Sol(B, whole)
      BY <1>1, <2>3, <3>1
    <3>3. Part(B)[B] = Sol(B, Part(B))
      BY <2>4, <2>5 DEF On
    <3> QED BY <2>5, <3>2, <3>3
  <2>6. whole[A] = Sol(A, whole)
    <3>1. \A C \in SUBSET A : C # A => below[C] = whole[C]
      OBVIOUS
    <3>2. Sol(A, below) = Sol(A, whole)
      BY <1>1, <2>3, <3>1
    <3> QED BY <3>2
  <2>7. On(A, whole)
    <3>1. DOMAIN whole = SUBSET A
      OBVIOUS
    <3> HIDE DEF whole
    <3> QED BY <2>5, <2>6, <3>1 DEF On
  <2> QED BY <2>3, <2>7
<1>4. PICK g : On(P, g)
  BY <1>3
<1> DEFINE Described(f) == f = [S \in SUBSET P |-> Sol(S, f)]
           solved       == CHOOSE f : Described(f)
<1>5. Described([S \in SUBSET P |-> g[S]])
  <2> DEFINE f == [S \in SUBSET P |-> g[S]]
  <2>1. \A S \in SUBSET P : Sol(S, g) = Sol(S, f)
    <3>1. ASSUME NEW S \in SUBSET P PROVE \A C \in SUBSET S : C # S => g[C] = f[C]
      OBVIOUS
    <3> HIDE DEF f
    <3> QED BY <1>1, <3>1
  <2>2. \A S \in SUBSET P : f[S] = Sol(S, f)
    BY <1>4, <2>1
  <2>3. f = [S \in SUBSET P |-> f[S]]
    OBVIOUS
  <2> HIDE DEF f
  <2>4. Described(f)
    BY <2>2, <2>3
  <2> QED BY <2>4 DEF f
<1>6. Described(solved)
  BY <1>5
<1>7. Solve(P, above, fs, score, seed) = solved[P]
  BY DEF Solve, Sol
<1>8. \A S \in SUBSET P : solved[S] = Sol(S, solved)
  <2> HIDE DEF solved
  <2> QED BY <1>6
<1> HIDE DEF solved
<1> QED BY <1>7, <1>8 DEF Sol

\* A pairing of some of S, of players who have not met, or none.
IsPairing(pairs, S, fs) ==
  /\ pairs \in Seq(S \X S) /\ Disjoint(pairs)
  /\ \A n \in DOMAIN pairs : ~Met(fs, pairs[n][1], pairs[n][2])

\* One pair more, of two players who are in no other.
LEMMA PairFirst ==
  ASSUME NEW S, NEW C \in SUBSET S, NEW fs, NEW pairs, IsPairing(pairs, C, fs),
         NEW d \in S \ C, NEW e \in S \ C, ~Met(fs, d, e)
  PROVE  IsPairing(<< <<d, e>> >> \o pairs, S, fs)
<1> DEFINE all == << <<d, e>> >> \o pairs
<1>1. pairs \in Seq(C \X C) /\ Len(pairs) \in Nat /\ DOMAIN pairs = 1..Len(pairs)
  BY LenProperties DEF IsPairing
<1>2. pairs \in Seq(S \X S)
  <2>1. pairs \in [1..Len(pairs) -> C \X C]
    BY <1>1, LenProperties
  <2>2. pairs \in [1..Len(pairs) -> S \X S]
    BY <2>1
  <2> QED BY <1>1, <2>2, SeqDef
<1>3. << <<d, e>> >> \in Seq(S \X S) /\ Len(<< <<d, e>> >>) = 1
  OBVIOUS
<1>4. /\ all \in Seq(S \X S) /\ DOMAIN all = 1..Len(pairs) + 1
      /\ all[1] = <<d, e>> /\ \A n \in 2..Len(pairs) + 1 : all[n] = pairs[n - 1]
  <2>1. all \in Seq(S \X S) /\ Len(all) = 1 + Len(pairs)
    BY <1>2, <1>3, ConcatProperties
  <2>2. \A n \in 1..1 + Len(pairs) :
          all[n] = IF n <= 1 THEN << <<d, e>> >>[n] ELSE pairs[n - 1]
    BY <1>2, <1>3, ConcatProperties
  <2> HIDE DEF all
  <2> QED BY <1>1, <2>1, <2>2, LenProperties
<1> HIDE DEF all
<1>5. Members(all[1]) \subseteq {d, e} /\ \A n \in 1..Len(pairs) : Members(pairs[n]) \subseteq C
  <2>1. \A n \in 1..Len(pairs) : pairs[n] \in C \X C
    BY <1>1, ElementOfSeq
  <2> QED BY <1>4, <2>1 DEF Members
<1>6. ASSUME NEW m \in DOMAIN all, NEW n \in DOMAIN all, m # n
      PROVE  Members(all[m]) \cap Members(all[n]) = {}
  <2>1. \A l \in DOMAIN all : l = 1 \/ (l - 1 \in 1..Len(pairs) /\ all[l] = pairs[l - 1])
    BY <1>1, <1>4
  <2>2. CASE m = 1 \/ n = 1
    <3>1. /\ m = 1 => n - 1 \in 1..Len(pairs) /\ all[n] = pairs[n - 1]
          /\ n = 1 => m - 1 \in 1..Len(pairs) /\ all[m] = pairs[m - 1]
      BY <1>6, <2>1
    <3>2. d \notin C /\ e \notin C
      OBVIOUS
    <3>3. CASE m = 1
      <4>1. Members(all[n]) \subseteq C
        BY <1>5, <3>1, <3>3
      <4> QED BY <1>5, <3>2, <3>3, <4>1
    <3>4. CASE n = 1
      <4>1. Members(all[m]) \subseteq C
        BY <1>5, <3>1, <3>4
      <4> QED BY <1>5, <3>2, <3>4, <4>1
    <3> QED BY <2>2, <3>3, <3>4
  <2>3. CASE m # 1 /\ n # 1
    <3>1. m - 1 # n - 1
      BY <1>1, <1>4, <1>6
    <3>2. \A k, l \in 1..Len(pairs) : k # l => Members(pairs[k]) \cap Members(pairs[l]) = {}
      BY <1>1 DEF IsPairing, Disjoint
    <3> QED BY <2>1, <2>3, <3>1, <3>2
  <2> QED BY <2>2, <2>3
<1>7. \A n \in DOMAIN all : ~Met(fs, all[n][1], all[n][2])
  <2>1. \A l \in DOMAIN all : l = 1 \/ (l - 1 \in 1..Len(pairs) /\ all[l] = pairs[l - 1])
    BY <1>1, <1>4
  <2>2. \A n \in 1..Len(pairs) : ~Met(fs, pairs[n][1], pairs[n][2])
    BY <1>1 DEF IsPairing
  <2>3. all[1][1] = d /\ all[1][2] = e
    BY <1>4
  <2> QED BY <2>1, <2>2, <2>3
<1> QED BY <1>4, <1>6, <1>7 DEF IsPairing, Disjoint, all

\* What the search finds is a pairing.
LEMMA SolveFacts ==
  ASSUME NEW P, NEW seed, NEW score, NEW tie, Numbered(P, seed, score, tie), NEW fs
  PROVE  LET pairs == Solve(P, Standings(P, seed, score, tie), fs, score, seed)
         IN pairs = NoPairing \/ IsPairing(pairs, P, fs)
<1> DEFINE above == Standings(P, seed, score, tie)
<1>1. PICK f : /\ \A S \in SUBSET P : f[S] = Solution(S, above, fs, score, seed, f)
               /\ Solve(P, above, fs, score, seed) = f[P]
  BY SolvedFacts
<1> DEFINE Wrong == {S \in SUBSET P : ~(f[S] = NoPairing \/ IsPairing(f[S], S, fs))}
<1>2. SUFFICES ASSUME Wrong # {} PROVE FALSE
  BY <1>1
<1>3. PICK S \in Wrong : \A C \in Wrong : ~(C \subseteq S /\ C # S)
  <2>1. Wrong \in SUBSET FiniteSubsetsOf(P)
    BY FS_FiniteSubsetsOfFinite DEF Numbered
  <2> HIDE DEF Wrong
  <2> QED BY <1>2, <2>1, SmallestSet
<1>4. S \in SUBSET P /\ f[S] # NoPairing /\ ~IsPairing(f[S], S, fs)
  BY <1>3
<1>5. CASE S = {}
  <2>1. f[S] = <<>>
    BY <1>1, <1>5 DEF Solution
  <2>2. IsPairing(<<>>, S, fs)
    BY DEF IsPairing, Disjoint
  <2> QED BY <1>4, <2>1, <2>2
<1>6. CASE S # {}
  <2>1. f[S] = Solution(S, above, fs, score, seed, f)
    BY <1>1, <1>4
  <2>2. Splits(f[S], S, fs, f)
    BY <1>4, <1>6, <2>1, SolutionFacts
  <2>3. PICK d \in S, e \in S : /\ d # e /\ ~Met(fs, d, e) /\ f[S \ {d, e}] # NoPairing
                                /\ f[S] = << <<d, e>> >> \o f[S \ {d, e}]
    BY <1>4, <2>2 DEF Splits
  <2> DEFINE C == S \ {d, e}
  <2>4. C \in SUBSET P /\ C \in SUBSET S /\ C # S /\ d \in S \ C /\ e \in S \ C
    BY <1>4
  <2>5. f[C] # NoPairing /\ f[S] = << <<d, e>> >> \o f[C]
    BY <2>3
  <2> HIDE DEF C
  <2>6. IsPairing(f[C], C, fs)
    <3>1. C \notin Wrong
      BY <1>3, <2>4
    <3> QED BY <2>4, <2>5, <3>1
  <2>7. IsPairing(<< <<d, e>> >> \o f[C], S, fs)
    BY <2>3, <2>4, <2>6, PairFirst
  <2> QED BY <1>4, <2>5, <2>7
<1> QED BY <1>5, <1>6

\* Scores and tie-breaks are numbers.
LEMMA ScoreFacts ==
  ASSUME NEW F, NEW fs \in Seq(F), NEW G, NEW outcomes \in Seq(G), NEW e
  PROVE  Score(fs, outcomes, e) \in 0..3 * Len(outcomes) + 2 * Len(fs)
<1>1. /\ Len(fs) \in Nat /\ DOMAIN fs = 1..Len(fs)
      /\ Len(outcomes) \in Nat /\ DOMAIN outcomes = 1..Len(outcomes)
  BY LenProperties
<1>2. \A n \in Nat : IsFiniteSet(1..n) /\ Cardinality(1..n) = n
  BY FS_Interval
<1>3. \A n \in Nat : \A T \in SUBSET (1..n) : Cardinality(T) \in 0..n
  <2>1. ASSUME NEW n \in Nat, NEW T \in SUBSET (1..n) PROVE Cardinality(T) \in 0..n
    <3>1. IsFiniteSet(T) /\ Cardinality(T) <= Cardinality(1..n)
      BY <1>2, FS_Subset
    <3> QED BY <1>2, <3>1, FS_CardinalityType
  <2> QED BY <2>1
<1> DEFINE final == {i \in DOMAIN outcomes : outcomes[i].status = "finalized"}
           A == {i \in final : outcomes[i].winner = e}
           B == {i \in final : outcomes[i].winner = Nobody /\ e \in {outcomes[i].home, outcomes[i].away}}
           C == {i \in DOMAIN fs : fs[i].home = e /\ fs[i].away = Nobody}
<1>4. /\ Cardinality(A) \in 0..Len(outcomes)
      /\ Cardinality(B) \in 0..Len(outcomes)
      /\ Cardinality(C) \in 0..Len(fs)
  <2>1. A \in SUBSET (1..Len(outcomes)) /\ B \in SUBSET (1..Len(outcomes)) /\ C \in SUBSET (1..Len(fs))
    BY <1>1
  <2> HIDE DEF A, B, C
  <2> QED BY <1>1, <1>3, <2>1
<1>5. Score(fs, outcomes, e) = 2 * Cardinality(A) + Cardinality(B) + 2 * Cardinality(C)
  BY DEF Score
<1> HIDE DEF A, B, C
<1> QED BY <1>1, <1>4, <1>5

\* A tie is broken by a number: the opponents' scores are finite.
LEMMA BuchholzFacts ==
  ASSUME NEW F, NEW fs \in Seq(F), NEW E, NEW b \in Nat, NEW score \in [E -> 0..b], NEW e \in E,
         \A i \in DOMAIN fs : fs[i].home \in E /\ fs[i].away \in E \cup {Nobody}, Nobody \notin E
  PROVE  Buchholz(fs, score, e) \in Nat
<1> DEFINE opponent(i) == IF fs[i].home = e THEN fs[i].away ELSE fs[i].home
           games == {i \in DOMAIN fs : e \in {fs[i].home, fs[i].away} /\ fs[i].away # Nobody}
           all   == UNION {{i} \X (1..score[opponent(i)]) : i \in games}
<1>1. Len(fs) \in Nat /\ DOMAIN fs = 1..Len(fs)
  BY LenProperties
<1>2. \A i \in games : 1..score[opponent(i)] \subseteq 1..b
  <2>1. ASSUME NEW i \in games PROVE score[opponent(i)] \in 0..b
    <3>1. opponent(i) \in E
      <4>1. i \in DOMAIN fs /\ fs[i].away # Nobody /\ fs[i].away \in E /\ fs[i].home \in E
        OBVIOUS
      <4> QED BY <4>1
    <3> QED BY <3>1
  <2> HIDE DEF games, opponent
  <2> QED BY <2>1
<1>3. all \in SUBSET ((1..Len(fs)) \X (1..b))
  <2>1. games \subseteq 1..Len(fs)
    BY <1>1
  <2> HIDE DEF games, opponent
  <2> QED BY <1>2, <2>1
<1>4. IsFiniteSet((1..Len(fs)) \X (1..b))
  <2>1. IsFiniteSet(1..Len(fs)) /\ IsFiniteSet(1..b)
    BY <1>1, FS_Interval
  <2> QED BY <2>1, FS_Product
<1>5. Buchholz(fs, score, e) = Cardinality(all)
  BY DEF Buchholz
<1> HIDE DEF all
<1> QED BY <1>3, <1>4, <1>5, FS_Subset, FS_CardinalityType

\* The next round of an even number of entrants, generateNextSwissRoundFixtures: it
\* is refused, or a pairing of theirs, of who has not met before.
THEOREM NextSwissFacts ==
  ASSUME NEW F, NEW fs \in Seq(F), NEW G, NEW outcomes \in Seq(G),
         NEW E, IsFiniteSet(E), Cardinality(E) % 2 = 0, Nobody \notin E,
         NEW seed \in [E -> Nat],
         \A i \in DOMAIN fs : fs[i].home \in E /\ fs[i].away \in E \cup {Nobody}
  PROVE  \/ NextSwissRound(seed, fs, outcomes) = NoPairing
         \/ IsPairing(NextSwissRound(seed, fs, outcomes), E, fs)
<1> DEFINE b     == 3 * Len(outcomes) + 2 * Len(fs)
           score == [e \in DOMAIN seed |-> Score(fs, outcomes, e)]
           tie   == [e \in DOMAIN score |-> Buchholz(fs, score, e)]
<1>1. b \in Nat
  BY LenProperties
<1>2. score \in [E -> 0..b]
  BY ScoreFacts
<1> HIDE DEF score, b
<1>3. tie \in [E -> Nat]
  BY <1>1, <1>2, BuchholzFacts
<1>4. Numbered(E, seed, score, tie)
  BY <1>1, <1>2, <1>3 DEF Numbered
<1>5. ByeOf(seed, score, fs) = Nobody
  BY DEF ByeOf
<1>6. DOMAIN seed \ {Nobody} = E
  OBVIOUS
<1> HIDE DEF tie
<1>7. NextSwissRound(seed, fs, outcomes) = Solve(E, Standings(E, seed, score, tie), fs, score, seed)
  BY <1>5, <1>6 DEF NextSwissRound, score, tie
<1> QED BY <1>4, <1>7, SolveFacts

-----------------------------------------------------------------------------
(***************************************************************************)
(* Fixtures, and what may become of them in a step: a match is played, or  *)
(* a round is inserted.  n is the number of entrants, b that of rounds.    *)
(***************************************************************************)

IsStage(fs, n, b) ==
  /\ Len(fs) \in Nat /\ DOMAIN fs = 1..Len(fs) /\ (fs # <<>> => DOMAIN fs # {}) /\ b \in Nat
  /\ \A i \in DOMAIN fs : /\ fs[i].round \in 1..b
                          /\ fs[i].home \in 1..n /\ fs[i].away \in (1..n) \cup {Nobody}
                          /\ fs[i].winner \in {fs[i].home, fs[i].away, Nobody}

\* LastRound is the greatest of the rounds there are.
LEMMA LastFacts ==
  ASSUME NEW fs, NEW n, NEW b, IsStage(fs, n, b), fs # <<>>
  PROVE  /\ LastRound(fs) \in 1..b
         /\ \E i \in DOMAIN fs : fs[i].round = LastRound(fs)
         /\ \A i \in DOMAIN fs : fs[i].round <= LastRound(fs)
<1> DEFINE R == {f.round : f \in ToSet(fs)}
<1>1. R = {fs[i].round : i \in DOMAIN fs}
  BY DEF ToSet
<1>2. R \in SUBSET (1..b) /\ R # {} /\ b \in Nat
  BY <1>1 DEF IsStage
<1>3. PICK k \in R : \A l \in R : l <= k
  <2>1. R \in SUBSET Nat /\ \A k \in R : k <= b
    BY <1>2
  <2> HIDE DEF R
  <2> QED BY <1>2, <2>1, Greatest
<1>4. k \in {f.round : f \in ToSet(fs)} /\ \A f \in ToSet(fs) : f.round <= k
  BY <1>3
<1>5. LastRound(fs) \in R /\ \A f \in ToSet(fs) : f.round <= LastRound(fs)
  BY <1>4 DEF LastRound
<1>6. \A i \in DOMAIN fs : fs[i] \in ToSet(fs)
  BY DEF ToSet
<1> QED BY <1>1, <1>2, <1>5, <1>6

\* A round that no other is after is the last.
LEMMA LastIs ==
  ASSUME NEW fs, NEW n, NEW b, IsStage(fs, n, b), NEW i \in DOMAIN fs,
         \A j \in DOMAIN fs : fs[j].round <= fs[i].round
  PROVE  fs # <<>> /\ LastRound(fs) = fs[i].round
<1>1. fs # <<>>
  OBVIOUS
<1>2. LastRound(fs) \in 1..b /\ fs[i].round \in 1..b /\ b \in Nat
  BY <1>1, LastFacts DEF IsStage
<1>3. LastRound(fs) <= fs[i].round /\ fs[i].round <= LastRound(fs)
  BY <1>1, LastFacts
<1> QED BY <1>1, <1>2, <1>3

\* No round is missing before one there is, as long as none went astray.
Contiguous(fs) ==
  \A i \in DOMAIN fs : \A k \in 1..fs[i].round : \E j \in DOMAIN fs : fs[j].round = k
Unbroken(fs, ag) == ag = {} => Contiguous(fs)

\* vs are fixtures a request has read: there may be a round after them.  In a
\* Swiss stage they are of those who are seated, in the fixtures there are, too.
IsRead(vs, n, b) == IsStage(vs, n, b) /\ vs # <<>> /\ LastRound(vs) < b
IsSeated(vs, fs, seated) ==
  /\ fs # <<>>
  /\ \A i \in DOMAIN vs : vs[i].home \in seated /\ vs[i].away \in seated \cup {Nobody}

\* They have not been replaced since: fs has them all, and as long as no round went
\* astray, no more of their rounds.
IsPart(vs, fs, ag, n, b) ==
  /\ IsRead(vs, n, b)
  /\ DOMAIN vs \subseteq DOMAIN fs
  /\ \A i \in DOMAIN vs :
       vs[i].round = fs[i].round /\ vs[i].home = fs[i].home /\ vs[i].away = fs[i].away
  /\ ag = {} => \A i \in DOMAIN fs \ DOMAIN vs : fs[i].round > LastRound(vs)

\* Their matches have been read, too, when the last round of them was complete:
\* they are as they were but for the results in co.
IsView(vs, fs, ag, co, n, b) ==
  /\ IsPart(vs, fs, ag, n, b) /\ Complete(vs)
  /\ \A i \in DOMAIN vs :
       /\ vs[i].status = "finalized" => fs[i].status = "finalized"
       /\ vs[i].round = LastRound(vs) => vs[i].winner = fs[i].winner \/ LastRound(vs) \in co

\* The pairs a request drew from vs: nobody is in two of them, nobody meets an
\* opponent of before in a Swiss stage, and in a bracket they are the winners.
Fits(pairs, vs, fs, ag, co, fm, seated) ==
  /\ ag = {} => Disjoint(pairs)
  /\ fm = "swiss" => /\ \A m \in DOMAIN pairs : ~Met(vs, pairs[m][1], pairs[m][2])
                     /\ Drawn(pairs) \subseteq seated
  /\ fm = "single-elimination" /\ ag = {} /\ LastRound(vs) \notin co =>
       Drawn(pairs) = {fs[i].winner : i \in InRound(vs, LastRound(vs))}

\* The pairs of an order: nobody is in two of them, and in a Swiss stage they seat
\* the same entrants, an even number, whatever the order is.
Ordered(pairs, fm, seated) == Disjoint(pairs) /\ (fm = "swiss" => Drawn(pairs) = seated)
Even(fs, fm, seated) == fm = "swiss" /\ fs # <<>> => Everyone(fs) = seated

\* PairedOnce and RoundsInTurn, of fixtures given as such.
Paired(fs, ag, fm) ==
  \A i, j \in DOMAIN fs : i < j /\ ag = {} =>
    /\ fs[i].round = fs[j].round => ~Share(fs[i], fs[j])
    /\ fm = "swiss" => {fs[i].home, fs[i].away} # {fs[j].home, fs[j].away}
InTurn(fs, ag, co, fm) ==
  ag = {} => \A k \in 1..LastRound(fs) - 1 :
    /\ \A i \in InRound(fs, k) : fs[i].status = "finalized"
    /\ fm = "single-elimination" /\ k \notin co =>
         Players(fs, InRound(fs, k + 1)) = {fs[i].winner : i \in InRound(fs, k)}

\* A view's last round is one of fs, and none of its matches is missing.
LEMMA ViewFacts ==
  ASSUME NEW vs, NEW fs, NEW ag, NEW co, NEW n, NEW b,
         IsView(vs, fs, ag, co, n, b), IsStage(fs, n, b)
  PROVE  /\ LastRound(vs) \in 1..b /\ LastRound(vs) + 1 \in 1..b
         /\ InRound(vs, LastRound(vs)) # {}
         /\ \A i \in InRound(vs, LastRound(vs)) :
              /\ i \in DOMAIN fs /\ fs[i].round = LastRound(vs) /\ fs[i].status = "finalized"
              /\ fs[i].home = vs[i].home /\ fs[i].away = vs[i].away
              /\ vs[i].winner = fs[i].winner \/ LastRound(vs) \in co
         /\ ag = {} => InRound(vs, LastRound(vs)) = InRound(fs, LastRound(vs))
<1>1. /\ LastRound(vs) \in 1..b /\ LastRound(vs) < b /\ b \in Nat
      /\ \E i \in DOMAIN vs : vs[i].round = LastRound(vs)
  BY LastFacts DEF IsView, IsPart, IsRead, IsStage
<1>2. InRound(vs, LastRound(vs)) # {}
  BY <1>1 DEF InRound
<1>3. ASSUME NEW i \in InRound(vs, LastRound(vs))
      PROVE  /\ i \in DOMAIN fs /\ fs[i].round = LastRound(vs) /\ fs[i].status = "finalized"
             /\ fs[i].home = vs[i].home /\ fs[i].away = vs[i].away
             /\ vs[i].winner = fs[i].winner \/ LastRound(vs) \in co
  BY DEF IsView, IsPart, IsRead, Complete, InRound
<1>4. ASSUME ag = {} PROVE InRound(vs, LastRound(vs)) = InRound(fs, LastRound(vs))
  <2>1. ASSUME NEW i \in DOMAIN fs, fs[i].round = LastRound(vs) PROVE i \in DOMAIN vs
    <3>1. i \notin DOMAIN vs => fs[i].round > LastRound(vs)
      BY <1>4 DEF IsView, IsPart, IsRead
    <3> QED BY <1>1, <2>1, <3>1
  <2> QED BY <1>3, <2>1 DEF InRound, IsView, IsPart
<1> QED BY <1>1, <1>2, <1>3, <1>4

-----------------------------------------------------------------------------
\* The match of fixture i is started, finalized or corrected, and co are the
\* rounds whose results changed once they were read.
Plays(fs, gs, i, co) ==
  /\ i \in DOMAIN fs /\ DOMAIN gs = DOMAIN fs
  /\ \A j \in DOMAIN fs : /\ j # i => gs[j] = fs[j]
                          /\ gs[j].round = fs[j].round
                          /\ gs[j].home = fs[j].home /\ gs[j].away = fs[j].away
                          /\ fs[j].status = "finalized" => gs[j].status = "finalized"
  /\ fs[i].status = "finalized" /\ gs[i].winner # fs[i].winner /\ fs[i].round < LastRound(fs)
       => fs[i].round \in co

\* Playing a match leaves the rounds and their players alone ...
LEMMA PlaysLast ==
  ASSUME NEW fs, NEW gs, NEW n, NEW b, IsStage(fs, n, b), IsStage(gs, n, b),
         NEW i, NEW co, Plays(fs, gs, i, co)
  PROVE  /\ fs # <<>> /\ gs # <<>> /\ LastRound(gs) = LastRound(fs)
         /\ \A k : InRound(gs, k) = InRound(fs, k)
         /\ \A I \in SUBSET DOMAIN fs : Players(gs, I) = Players(fs, I)
<1>1. fs # <<>> /\ gs # <<>>
  BY DEF Plays
<1>2. PICK j \in DOMAIN fs : fs[j].round = LastRound(fs) /\ \A l \in DOMAIN fs : fs[l].round <= fs[j].round
  BY <1>1, LastFacts
<1>3. j \in DOMAIN gs /\ gs[j].round = fs[j].round /\ \A l \in DOMAIN gs : gs[l].round <= gs[j].round
  BY <1>2 DEF Plays
<1>4. LastRound(gs) = LastRound(fs)
  BY <1>2, <1>3, LastIs
<1>5. \A k : InRound(gs, k) = InRound(fs, k)
  BY DEF Plays, InRound
<1>6. \A I \in SUBSET DOMAIN fs : Players(gs, I) = Players(fs, I)
  BY DEF Plays, Players
<1> QED BY <1>1, <1>4, <1>5, <1>6

\* ... so that what is said of these alone stays true ...
LEMMA PlaysKeeps ==
  ASSUME NEW fs, NEW gs, NEW n, NEW b, IsStage(fs, n, b), IsStage(gs, n, b),
         NEW i, NEW co, Plays(fs, gs, i, co), NEW fm
  PROVE  /\ \A ag : Unbroken(fs, ag) => Unbroken(gs, ag)
         /\ \A seated : Even(fs, fm, seated) => Even(gs, fm, seated)
         /\ \A ag : Paired(fs, ag, fm) => Paired(gs, ag, fm)
<1>1. Contiguous(fs) => Contiguous(gs)
  BY DEF Contiguous, Plays
<1>2. Everyone(gs) = Everyone(fs) /\ fs # <<>>
  <2>1. fs # <<>> /\ \A I \in SUBSET DOMAIN fs : Players(gs, I) = Players(fs, I)
    BY PlaysLast
  <2>2. DOMAIN gs = DOMAIN fs
    BY DEF Plays
  <2>3. Players(gs, DOMAIN fs) = Players(fs, DOMAIN fs)
    BY <2>1
  <2> QED BY <2>1, <2>2, <2>3 DEF Everyone
<1>3. \A ag : Paired(fs, ag, fm) => Paired(gs, ag, fm)
  BY DEF Paired, Share, Plays
<1> QED BY <1>1, <1>2, <1>3 DEF Even, Unbroken

\* ... and the order of the rounds too, unless a result that was read changes.
LEMMA PlaysTurn ==
  ASSUME NEW fs, NEW gs, NEW n, NEW b, IsStage(fs, n, b), IsStage(gs, n, b),
         NEW i, NEW co, NEW cp, co \subseteq cp, Plays(fs, gs, i, cp), NEW ag, NEW fm,
         InTurn(fs, ag, co, fm)
  PROVE  InTurn(gs, ag, cp, fm)
<1>1. /\ fs # <<>> /\ LastRound(gs) = LastRound(fs)
      /\ \A k : InRound(gs, k) = InRound(fs, k)
      /\ \A I \in SUBSET DOMAIN fs : Players(gs, I) = Players(fs, I)
  BY PlaysLast
<1>2. SUFFICES ASSUME ag = {}, NEW k \in 1..LastRound(fs) - 1
               PROVE  /\ \A j \in InRound(fs, k) : gs[j].status = "finalized"
                      /\ fm = "single-elimination" /\ k \notin cp =>
                           Players(gs, InRound(fs, k + 1)) = {gs[j].winner : j \in InRound(fs, k)}
  BY <1>1 DEF InTurn
<1>3. /\ \A j \in InRound(fs, k) : fs[j].status = "finalized"
      /\ fm = "single-elimination" /\ k \notin cp =>
           Players(fs, InRound(fs, k + 1)) = {fs[j].winner : j \in InRound(fs, k)}
  BY <1>2 DEF InTurn
<1>4. \A j \in InRound(fs, k) : gs[j].status = "finalized"
  BY <1>3 DEF Plays, InRound
<1>5. ASSUME k \notin cp, NEW j \in InRound(fs, k) PROVE gs[j].winner = fs[j].winner
  <2>1. j \in DOMAIN fs /\ fs[j].round = k /\ k < LastRound(fs)
    <3>1. LastRound(fs) \in 1..b /\ b \in Nat
      BY <1>1, LastFacts DEF IsStage
    <3> QED BY <1>2, <3>1 DEF InRound
  <2> QED BY <1>3, <1>5, <2>1 DEF Plays
<1>6. Players(gs, InRound(fs, k + 1)) = Players(fs, InRound(fs, k + 1))
  BY <1>1 DEF InRound
<1> QED BY <1>3, <1>4, <1>5, <1>6

\* What was read stays where it was ...
LEMMA PlaysPart ==
  ASSUME NEW fs, NEW gs, NEW i, NEW cp, Plays(fs, gs, i, cp),
         NEW vs, NEW ag, NEW n, NEW b, IsPart(vs, fs, ag, n, b)
  PROVE  IsPart(vs, gs, ag, n, b)
BY DEF IsPart, Plays

\* ... and as it was, and so does what was drawn from it.
LEMMA PlaysView ==
  ASSUME NEW fs, NEW gs, NEW n, NEW b, IsStage(fs, n, b), IsStage(gs, n, b),
         NEW i, NEW co, NEW cp, co \subseteq cp, Plays(fs, gs, i, cp),
         fs[i].status = "finalized" /\ gs[i].winner # fs[i].winner => fs[i].round \in cp,
         NEW vs, NEW ag, IsView(vs, fs, ag, co, n, b)
  PROVE  /\ IsView(vs, gs, ag, cp, n, b)
         /\ \A pairs, fm, seated : Fits(pairs, vs, fs, ag, co, fm, seated)
                                     => Fits(pairs, vs, gs, ag, cp, fm, seated)
<1>1. /\ InRound(vs, LastRound(vs)) \subseteq DOMAIN fs
      /\ \A j \in InRound(vs, LastRound(vs)) : fs[j].round = LastRound(vs) /\ fs[j].status = "finalized"
  BY ViewFacts
<1>2. ASSUME LastRound(vs) \notin cp, NEW j \in InRound(vs, LastRound(vs))
      PROVE  gs[j].winner = fs[j].winner
  BY <1>1, <1>2 DEF Plays
<1>3. IsView(vs, gs, ag, cp, n, b)
  <2>1. \A j \in DOMAIN vs : vs[j].round = LastRound(vs) => vs[j].winner = gs[j].winner \/ LastRound(vs) \in cp
    BY <1>2 DEF IsView, IsPart, IsRead, InRound
  <2> QED BY <2>1 DEF IsView, IsPart, IsRead, Plays
<1>4. ASSUME NEW pairs, NEW fm, NEW seated, Fits(pairs, vs, fs, ag, co, fm, seated)
      PROVE  Fits(pairs, vs, gs, ag, cp, fm, seated)
  <2>1. LastRound(vs) \notin cp =>
          {gs[j].winner : j \in InRound(vs, LastRound(vs))} = {fs[j].winner : j \in InRound(vs, LastRound(vs))}
    BY <1>2
  <2> QED BY <1>4, <2>1 DEF Fits
<1> QED BY <1>3, <1>4

-----------------------------------------------------------------------------
\* gs are fs and the pairs of a round k, inserted after them.
Extends(fs, gs, pairs, k) ==
  /\ DOMAIN fs \subseteq DOMAIN gs
  /\ \A i \in DOMAIN fs : gs[i] = fs[i]
  /\ \A i \in DOMAIN gs \ DOMAIN fs :
       i - Len(fs) \in DOMAIN pairs /\ gs[i] = New(pairs[i - Len(fs)], k)
  /\ \A m \in DOMAIN pairs :
       Len(fs) + m \in DOMAIN gs \ DOMAIN fs /\ gs[Len(fs) + m] = New(pairs[m], k)
\* As long as none went astray, the round is new.
InTime(fs, ag, k, ag2) == ag2 = {} => ag = {} /\ InRound(fs, k) = {}

\* Insert appends the rows of its pairs.
LEMMA RowsExtend ==
  ASSUME NEW F, NEW fs \in Seq(F), NEW P, NEW pairs \in Seq(P), NEW k
  PROVE  /\ Extends(fs, fs \o Rows(pairs, k), pairs, k)
         /\ Len(fs \o Rows(pairs, k)) = Len(fs) + Len(pairs)
<1> DEFINE rows == Rows(pairs, k)
           gs   == fs \o rows
<1>1. /\ Len(fs) \in Nat /\ DOMAIN fs = 1..Len(fs)
      /\ Len(pairs) \in Nat /\ DOMAIN pairs = 1..Len(pairs)
  BY LenProperties
<1>2. /\ rows \in Seq({New(pairs[m], k) : m \in DOMAIN pairs}) /\ Len(rows) = Len(pairs)
      /\ \A m \in DOMAIN pairs : rows[m] = New(pairs[m], k)
  BY <1>1 DEF Rows
<1> HIDE DEF rows
<1>3. /\ Len(gs) = Len(fs) + Len(pairs) /\ DOMAIN gs = 1..Len(fs) + Len(pairs)
      /\ \A i \in 1..Len(fs) + Len(pairs) : gs[i] = IF i <= Len(fs) THEN fs[i] ELSE rows[i - Len(fs)]
  <2> DEFINE S == F \cup {New(pairs[m], k) : m \in DOMAIN pairs}
  <2>1. fs \in Seq(S) /\ rows \in Seq(S)
    BY <1>1, <1>2, LenProperties
  <2> HIDE DEF S
  <2>2. /\ gs \in Seq(S) /\ Len(gs) = Len(fs) + Len(rows)
        /\ \A i \in 1..Len(fs) + Len(rows) : gs[i] = IF i <= Len(fs) THEN fs[i] ELSE rows[i - Len(fs)]
    BY <2>1, ConcatProperties
  <2>3. DOMAIN gs = 1..Len(gs)
    BY <2>2, LenProperties
  <2> QED BY <1>2, <2>2, <2>3
<1> HIDE DEF gs
<1>4. \A i \in DOMAIN gs \ DOMAIN fs :
        i - Len(fs) \in DOMAIN pairs /\ gs[i] = New(pairs[i - Len(fs)], k)
  BY <1>1, <1>2, <1>3
<1>5. ASSUME NEW m \in DOMAIN pairs
      PROVE  Len(fs) + m \in DOMAIN gs \ DOMAIN fs /\ gs[Len(fs) + m] = New(pairs[m], k)
  <2>1. Len(fs) + m \in DOMAIN gs \ DOMAIN fs /\ Len(fs) + m - Len(fs) = m
    BY <1>1, <1>3
  <2> QED BY <2>1, <1>4
<1>6. DOMAIN fs \subseteq DOMAIN gs /\ \A i \in DOMAIN fs : gs[i] = fs[i]
  BY <1>1, <1>3
<1>7. Extends(fs, gs, pairs, k)
  BY <1>4, <1>5, <1>6 DEF Extends
<1> QED BY <1>3, <1>7 DEF gs, rows

\* The round after one there is leaves no gap.
LEMMA ExtendKeeps ==
  ASSUME NEW fs, NEW gs, NEW pairs, NEW n, NEW b, IsStage(fs, n, b), IsStage(gs, n, b),
         NEW k \in 1..b, Extends(fs, gs, pairs, k), NEW ag, Unbroken(fs, ag),
         NEW ag2, InTime(fs, ag, k, ag2),
         ag2 = {} => k = 1 \/ \E i \in DOMAIN fs : fs[i].round = k - 1
  PROVE  Unbroken(gs, ag2)
<1>1. SUFFICES ASSUME ag2 = {}, NEW i \in DOMAIN gs, NEW l \in 1..gs[i].round
               PROVE  \E j \in DOMAIN gs : gs[j].round = l
  BY DEF Unbroken, Contiguous
<1>0. Contiguous(fs) /\ (k = 1 \/ \E j \in DOMAIN fs : fs[j].round = k - 1)
  BY <1>1 DEF Unbroken, InTime
<1>2. CASE i \in DOMAIN fs
  BY <1>0, <1>1, <1>2 DEF Contiguous, Extends
<1>3. CASE i \notin DOMAIN fs
  <2>1. gs[i].round = k
    BY <1>3 DEF Extends, New
  <2>2. CASE l = k
    BY <2>1, <2>2
  <2>3. CASE l # k
    <3>1. b \in Nat
      BY DEF IsStage
    <3>2. l \in 1..k - 1 /\ k # 1
      BY <3>1, <1>1, <2>1, <2>3
    <3>3. PICK j \in DOMAIN fs : fs[j].round = k - 1
      BY <1>0, <3>2
    <3>4. PICK m \in DOMAIN fs : fs[m].round = l
      BY <1>0, <3>2, <3>3 DEF Contiguous
    <3> QED BY <3>4 DEF Extends
  <2> QED BY <2>2, <2>3
<1> QED BY <1>2, <1>3

\* A round of those who are seated seats nobody else.
LEMMA ExtendEven ==
  ASSUME NEW fs, NEW gs, NEW pairs, NEW k, Extends(fs, gs, pairs, k),
         NEW fm, NEW seated, Even(fs, fm, seated),
         fm = "swiss" => Drawn(pairs) = seated \/ (fs # <<>> /\ Drawn(pairs) \subseteq seated),
         fs = <<>> => DOMAIN fs = {}
  PROVE  Even(gs, fm, seated)
<1> DEFINE Of(i) == {gs[i].home, gs[i].away} \ {Nobody}
<1>1. Everyone(gs) = UNION {Of(i) : i \in DOMAIN gs}
  BY DEF Everyone, Players
<1>2. Everyone(fs) = UNION {Of(i) : i \in DOMAIN fs}
  BY DEF Everyone, Players, Extends
<1>3. \A i \in DOMAIN gs \ DOMAIN fs : i - Len(fs) \in DOMAIN pairs /\ Of(i) = Members(pairs[i - Len(fs)])
  BY DEF Extends, New, Members
<1>4. ASSUME NEW m \in DOMAIN pairs
      PROVE  Len(fs) + m \in DOMAIN gs /\ Of(Len(fs) + m) = Members(pairs[m])
  <2>1. Len(fs) + m \in DOMAIN gs /\ gs[Len(fs) + m] = New(pairs[m], k)
    BY DEF Extends
  <2> QED BY <2>1 DEF New, Members
<1>5. DOMAIN fs \subseteq DOMAIN gs
  BY DEF Extends
<1> HIDE DEF Of
<1>6. Everyone(gs) \subseteq Everyone(fs) \cup Drawn(pairs)
  BY <1>1, <1>2, <1>3 DEF Drawn
<1>7. Everyone(fs) \cup Drawn(pairs) \subseteq Everyone(gs)
  BY <1>1, <1>2, <1>4, <1>5 DEF Drawn
<1>8. fs = <<>> => Everyone(fs) = {}
  BY <1>2
<1> QED BY <1>6, <1>7, <1>8 DEF Even

\* A round that is not there yet comes after every round there is.
LEMMA NewRound ==
  ASSUME NEW fs, NEW n, NEW b, IsStage(fs, n, b), Contiguous(fs), NEW k \in 1..b, InRound(fs, k) = {}
  PROVE  \A i \in DOMAIN fs : fs[i].round < k
<1>1. SUFFICES ASSUME NEW i \in DOMAIN fs, ~(fs[i].round < k) PROVE FALSE
  OBVIOUS
<1>2. k \in 1..fs[i].round
  BY <1>1 DEF IsStage
<1>3. PICK j \in DOMAIN fs : fs[j].round = k
  BY <1>2 DEF Contiguous
<1> QED BY <1>3 DEF InRound

\* What was read before a round was inserted is still there, and nobody else has
\* inserted the round after it, as long as none went astray.
LEMMA ExtendPart ==
  ASSUME NEW fs, NEW gs, NEW pairs, NEW n, NEW b, IsStage(fs, n, b), IsStage(gs, n, b),
         NEW k \in 1..b, Extends(fs, gs, pairs, k), NEW ag, Unbroken(fs, ag),
         NEW vs, IsPart(vs, fs, ag, n, b), NEW ag2, InTime(fs, ag, k, ag2)
  PROVE  IsPart(vs, gs, ag2, n, b)
<1>1. DOMAIN vs \subseteq DOMAIN fs /\ \A i \in DOMAIN fs : gs[i] = fs[i]
  BY DEF IsPart, Extends
<1>2. ASSUME ag2 = {}, NEW i \in DOMAIN gs \ DOMAIN vs PROVE gs[i].round > LastRound(vs)
  <2>1. ag = {} /\ InRound(fs, k) = {} /\ Contiguous(fs)
    BY <1>2 DEF InTime, Unbroken
  <2>2. CASE i \in DOMAIN fs
    BY <1>1, <1>2, <2>1, <2>2 DEF IsPart
  <2>3. CASE i \notin DOMAIN fs
    <3>1. gs[i].round = k
      BY <2>3 DEF Extends, New
    <3>2. LastRound(vs) \in 1..b /\ b \in Nat /\ \E j \in DOMAIN vs : vs[j].round = LastRound(vs)
      BY LastFacts DEF IsPart, IsRead, IsStage
    <3>3. PICK j \in DOMAIN fs : fs[j].round = LastRound(vs)
      BY <1>1, <3>2 DEF IsPart
    <3>4. fs[j].round < k
      BY <2>1, NewRound
    <3> QED BY <3>1, <3>2, <3>3, <3>4
  <2> QED BY <2>2, <2>3
<1>3. DOMAIN vs \subseteq DOMAIN gs
  BY <1>1 DEF Extends
<1>4. \A i \in DOMAIN vs : vs[i].round = gs[i].round /\ vs[i].home = gs[i].home /\ vs[i].away = gs[i].away
  BY <1>1 DEF IsPart
<1> QED BY <1>2, <1>3, <1>4 DEF IsPart

LEMMA ExtendView ==
  ASSUME NEW fs, NEW gs, NEW pairs, NEW n, NEW b, IsStage(fs, n, b), IsStage(gs, n, b),
         NEW k \in 1..b, Extends(fs, gs, pairs, k), NEW ag, Unbroken(fs, ag),
         NEW vs, NEW co, IsView(vs, fs, ag, co, n, b), NEW ag2, InTime(fs, ag, k, ag2)
  PROVE  /\ IsView(vs, gs, ag2, co, n, b)
         /\ \A drawn, fm, seated : Fits(drawn, vs, fs, ag, co, fm, seated)
                                     => Fits(drawn, vs, gs, ag2, co, fm, seated)
<1>1. ag2 = {} => ag = {}
  BY DEF InTime
<1>2. DOMAIN vs \subseteq DOMAIN fs /\ \A i \in DOMAIN fs : gs[i] = fs[i]
  BY DEF IsView, IsPart, Extends
<1>3. IsPart(vs, gs, ag2, n, b)
  BY ExtendPart DEF IsView
<1>4. IsView(vs, gs, ag2, co, n, b)
  <2>1. ASSUME NEW i \in DOMAIN vs
        PROVE  /\ vs[i].status = "finalized" => gs[i].status = "finalized"
               /\ vs[i].round = LastRound(vs) => vs[i].winner = gs[i].winner \/ LastRound(vs) \in co
    <3>1. gs[i] = fs[i]
      BY <1>2
    <3> QED BY <3>1 DEF IsView
  <2> QED BY <1>3, <2>1 DEF IsView
<1>5. {gs[i].winner : i \in InRound(vs, LastRound(vs))} = {fs[i].winner : i \in InRound(vs, LastRound(vs))}
  BY <1>2 DEF InRound
<1>6. ASSUME NEW drawn, NEW fm, NEW seated, Fits(drawn, vs, fs, ag, co, fm, seated)
      PROVE  Fits(drawn, vs, gs, ag2, co, fm, seated)
  BY <1>1, <1>5, <1>6 DEF Fits
<1> QED BY <1>4, <1>6

\* A round whose pairs fit repeats nobody.
LEMMA ExtendPaired ==
  ASSUME NEW fs, NEW gs, NEW pairs, NEW n \in Nat, NEW b, IsStage(fs, n, b), IsStage(gs, n, b),
         NEW k \in 1..b, Extends(fs, gs, pairs, k), NEW ag, NEW fm, Paired(fs, ag, fm),
         NEW ag2, InTime(fs, ag, k, ag2), ag2 = {} => Disjoint(pairs),
         ag2 = {} /\ fm = "swiss" => \A m \in DOMAIN pairs : ~Met(fs, pairs[m][1], pairs[m][2])
  PROVE  Paired(gs, ag2, fm)
<1>1. SUFFICES ASSUME ag2 = {}, NEW i \in DOMAIN gs, NEW j \in DOMAIN gs, i < j
               PROVE  /\ gs[i].round = gs[j].round => ~Share(gs[i], gs[j])
                      /\ fm = "swiss" => {gs[i].home, gs[i].away} # {gs[j].home, gs[j].away}
  BY DEF Paired
<1>2. ag = {} /\ InRound(fs, k) = {}
  BY <1>1 DEF InTime
<1>3. /\ DOMAIN fs = 1..Len(fs) /\ Len(fs) \in Nat /\ DOMAIN gs = 1..Len(gs) /\ Len(gs) \in Nat
      /\ \A l \in DOMAIN fs : gs[l] = fs[l]
  BY DEF IsStage, Extends
<1>4. CASE j \in DOMAIN fs
  <2>1. i \in DOMAIN fs
    BY <1>1, <1>3, <1>4
  <2>2. gs[i] = fs[i] /\ gs[j] = fs[j]
    BY <1>3, <1>4, <2>1
  <2> QED BY <1>1, <1>2, <1>4, <2>1, <2>2 DEF Paired
<1>5. CASE j \notin DOMAIN fs
  <2> DEFINE q == pairs[j - Len(fs)]
  <2>1. j - Len(fs) \in DOMAIN pairs /\ gs[j].round = k /\ gs[j].home = q[1] /\ gs[j].away = q[2]
    BY <1>5 DEF Extends, New
  <2>2. CASE i \in DOMAIN fs
    <3>1. gs[i] = fs[i] /\ fs[i].round # k
      BY <1>2, <1>3, <2>2 DEF InRound
    <3>2. fm = "swiss" => {fs[i].home, fs[i].away} # {q[1], q[2]}
      BY <1>1, <2>1, <2>2 DEF Met
    <3> QED BY <2>1, <3>1, <3>2
  <2>3. CASE i \notin DOMAIN fs
    <3> DEFINE p == pairs[i - Len(fs)]
    <3>1. i - Len(fs) \in DOMAIN pairs /\ gs[i].home = p[1] /\ gs[i].away = p[2]
      BY <2>3 DEF Extends, New
    <3>2. i - Len(fs) # j - Len(fs)
      BY <1>1, <1>3
    <3>3. Members(p) \cap Members(q) = {}
      BY <1>1, <2>1, <3>1, <3>2 DEF Disjoint
    <3>4. gs[i].home # Nobody
      BY DEF IsStage, Nobody
    <3> HIDE DEF p, q
    <3> QED BY <2>1, <3>1, <3>3, <3>4 DEF Members, Share
  <2> QED BY <2>2, <2>3
<1> QED BY <1>4, <1>5

\* A first round comes after none, unless a round goes astray.
LEMMA CreateTurn ==
  ASSUME NEW fs, NEW gs, NEW pairs, NEW n, NEW b, IsStage(fs, n, b), IsStage(gs, n, b), 1 \in 1..b,
         Extends(fs, gs, pairs, 1), NEW ag, Unbroken(fs, ag), NEW ag2, InTime(fs, ag, 1, ag2),
         NEW co, NEW fm
  PROVE  InTurn(gs, ag2, co, fm)
<1>1. SUFFICES ASSUME ag2 = {}, NEW k \in 1..LastRound(gs) - 1 PROVE FALSE
  BY DEF InTurn
<1>2. InRound(fs, 1) = {} /\ Contiguous(fs)
  BY <1>1 DEF InTime, Unbroken
<1>3. \A i \in DOMAIN fs : fs[i].round < 1
  BY <1>2, NewRound
<1>4. DOMAIN fs = {}
  BY <1>3 DEF IsStage
<1>5. \A i \in DOMAIN gs : gs[i].round = 1
  BY <1>4 DEF Extends, New
<1>6. CASE gs = <<>>
  BY <1>1, <1>6 DEF LastRound
<1>7. CASE gs # <<>>
  BY <1>1, <1>5, <1>7, LastFacts
<1> QED BY <1>6, <1>7

\* The next round of a view: its matches are played by those who were drawn.
LEMMA InsertTurn ==
  ASSUME NEW fs, NEW gs, NEW pairs, NEW n, NEW b, IsStage(fs, n, b), IsStage(gs, n, b),
         NEW vs, NEW ag, NEW co, IsView(vs, fs, ag, co, n, b), NEW k, k = LastRound(vs) + 1,
         Extends(fs, gs, pairs, k), Unbroken(fs, ag), NEW ag2, InTime(fs, ag, k, ag2), NEW fm, NEW seated,
         Fits(pairs, vs, fs, ag, co, fm, seated), InTurn(fs, ag, co, fm)
  PROVE  InTurn(gs, ag2, co, fm)
<1> DEFINE l == LastRound(vs)
<1>1. SUFFICES ASSUME ag2 = {}, NEW m \in 1..LastRound(gs) - 1
               PROVE  /\ \A i \in InRound(gs, m) : gs[i].status = "finalized"
                      /\ fm = "single-elimination" /\ m \notin co =>
                           Players(gs, InRound(gs, m + 1)) = {gs[i].winner : i \in InRound(gs, m)}
  BY DEF InTurn
<1>2. ag = {} /\ InRound(fs, k) = {} /\ Contiguous(fs)
  BY <1>1 DEF InTime, Unbroken
<1>3. l \in 1..b /\ k \in 1..b /\ b \in Nat /\ k = l + 1
  BY ViewFacts DEF IsStage
<1>4. InRound(vs, l) # {} /\ InRound(vs, l) = InRound(fs, l)
  BY <1>2, ViewFacts
<1>5. \A i \in InRound(fs, l) : fs[i].status = "finalized"
  BY <1>4, ViewFacts
<1>6. \A i \in DOMAIN fs : fs[i].round < k /\ fs[i].round \in 1..b
  BY <1>2, <1>3, NewRound DEF IsStage
<1>7. DOMAIN fs \subseteq DOMAIN gs /\ \A i \in DOMAIN fs : gs[i] = fs[i]
  BY DEF Extends
<1>8. \A i \in DOMAIN gs \ DOMAIN fs : gs[i].round = k
  BY DEF Extends, New
<1>9. fs # <<>> /\ LastRound(fs) = l
  <2>1. PICK i \in DOMAIN fs : fs[i].round = l
    BY <1>4 DEF InRound
  <2>2. \A j \in DOMAIN fs : fs[j].round <= fs[i].round
    BY <1>3, <1>6, <2>1
  <2> QED BY <2>1, <2>2, LastIs
<1>10. \A j \in 1..l : InRound(gs, j) = InRound(fs, j)
  BY <1>3, <1>7, <1>8 DEF InRound
<1>11. gs # <<>> /\ LastRound(gs) \in 1..k
  <2>1. gs # <<>>
    BY <1>7, <1>4 DEF InRound
  <2>2. PICK i \in DOMAIN gs : gs[i].round = LastRound(gs)
    BY <2>1, LastFacts
  <2> QED BY <1>3, <1>6, <1>7, <1>8, <2>1, <2>2
<1>12. m \in 1..l /\ InRound(gs, m) = InRound(fs, m) /\ InRound(fs, m) \subseteq DOMAIN fs
  <2>1. m \in 1..l
    BY <1>1, <1>3, <1>11
  <2> QED BY <1>10, <2>1 DEF InRound
<1>13. CASE m < l
  <2>1. m \in 1..LastRound(fs) - 1 /\ m + 1 \in 1..l
    BY <1>3, <1>9, <1>12, <1>13
  <2>2. /\ \A i \in InRound(fs, m) : fs[i].status = "finalized"
        /\ fm = "single-elimination" /\ m \notin co =>
             Players(fs, InRound(fs, m + 1)) = {fs[i].winner : i \in InRound(fs, m)}
    BY <1>2, <2>1 DEF InTurn
  <2>3. InRound(gs, m + 1) = InRound(fs, m + 1) /\ InRound(fs, m + 1) \subseteq DOMAIN fs
    BY <1>10, <2>1 DEF InRound
  <2>4. Players(gs, InRound(gs, m + 1)) = Players(fs, InRound(fs, m + 1))
    BY <1>7, <2>3 DEF Players
  <2>5. {gs[i].winner : i \in InRound(gs, m)} = {fs[i].winner : i \in InRound(fs, m)}
    BY <1>7, <1>12
  <2> QED BY <1>7, <1>12, <2>2, <2>4, <2>5
<1>14. CASE m = l
  <2>1. \A i \in InRound(gs, m) : gs[i].status = "finalized"
    BY <1>5, <1>7, <1>12, <1>14
  <2>2. ASSUME fm = "single-elimination", m \notin co
        PROVE  Players(gs, InRound(gs, m + 1)) = {gs[i].winner : i \in InRound(gs, m)}
    <3>1. Drawn(pairs) = {fs[i].winner : i \in InRound(vs, l)}
      BY <1>2, <1>14, <2>2 DEF Fits
    <3>2. {gs[i].winner : i \in InRound(gs, m)} = {fs[i].winner : i \in InRound(vs, l)}
      BY <1>4, <1>7, <1>12, <1>14
    <3> DEFINE Of(i) == {gs[i].home, gs[i].away} \ {Nobody}
    <3>3. InRound(gs, k) = DOMAIN gs \ DOMAIN fs
      <4>1. \A i \in DOMAIN fs : gs[i].round # k
        BY <1>3, <1>6, <1>7
      <4> QED BY <1>8, <4>1 DEF InRound
    <3>4. Players(gs, InRound(gs, k)) = UNION {Of(i) : i \in DOMAIN gs \ DOMAIN fs}
      BY <3>3 DEF Players
    <3>5. \A i \in DOMAIN gs \ DOMAIN fs : i - Len(fs) \in DOMAIN pairs /\ Of(i) = Members(pairs[i - Len(fs)])
      BY DEF Extends, New, Members
    <3>6. ASSUME NEW p \in DOMAIN pairs
          PROVE  Len(fs) + p \in DOMAIN gs \ DOMAIN fs /\ Of(Len(fs) + p) = Members(pairs[p])
      <4>1. Len(fs) + p \in DOMAIN gs \ DOMAIN fs /\ gs[Len(fs) + p] = New(pairs[p], k)
        BY DEF Extends
      <4> QED BY <4>1 DEF New, Members
    <3> HIDE DEF Of
    <3>7. UNION {Of(i) : i \in DOMAIN gs \ DOMAIN fs} = Drawn(pairs)
      BY <3>5, <3>6 DEF Drawn
    <3>8. m + 1 = k
      BY <1>3, <1>14
    <3> QED BY <3>1, <3>2, <3>4, <3>7, <3>8
  <2> QED BY <2>1, <2>2
<1> QED BY <1>3, <1>12, <1>13, <1>14
-----------------------------------------------------------------------------
(***************************************************************************)
(* The orders a publication seeds by, and the rounds that are drawn.       *)
(***************************************************************************)
Seated == 1..2 * (field \div 2)

\* Descending lists a set, each of it once.
LEMMA DescendingFacts ==
  ASSUME NEW E \in SUBSET (Nat \ {Nobody}), IsFiniteSet(E)
  PROVE  /\ IsOrder(Descending(E), E) /\ Len(Descending(E)) = Cardinality(E)
         /\ {Descending(E)[i] : i \in 1..Cardinality(E)} = E
<1> DEFINE c   == Cardinality(E)
           ids == Descending(E)
<1>1. /\ c \in Nat /\ \A k \in 1..c : Nth(E, k) \in E
      /\ \A e \in E : \E k \in 1..c : Nth(E, k) = e
      /\ \A k, l \in 1..c : k < l => Nth(E, k) < Nth(E, l)
  BY NthFacts
<1>2. ids = [k \in 1..c |-> Nth(E, c + 1 - k)]
  BY DEF Descending
<1> HIDE DEF c
<1>3. \A k \in 1..c : c + 1 - k \in 1..c /\ c + 1 - (c + 1 - k) = k
  BY <1>1
<1> HIDE DEF ids
<1>4. ids \in Seq(E) /\ Len(ids) = c /\ DOMAIN ids = 1..c
  BY <1>1, <1>2, <1>3
<1>5. ASSUME NEW k \in 1..c, NEW l \in 1..c, k < l PROVE ids[k] # ids[l]
  <2>1. c + 1 - l \in 1..c /\ c + 1 - k \in 1..c /\ c + 1 - l < c + 1 - k
    BY <1>1, <1>5
  <2>2. Nth(E, c + 1 - l) < Nth(E, c + 1 - k)
    BY <1>1, <2>1
  <2>3. Nth(E, c + 1 - l) \in Nat /\ Nth(E, c + 1 - k) \in Nat
    BY <1>1, <2>1
  <2> QED BY <1>2, <2>2, <2>3
<1>6. \A k, l \in 1..c : ids[k] = ids[l] => k = l
  <2>1. \A k, l \in 1..c : k < l \/ l < k \/ k = l
    BY <1>1
  <2> QED BY <1>5, <2>1
<1>7. ASSUME NEW e \in E PROVE \E i \in 1..c : ids[i] = e
  <2>1. PICK k \in 1..c : Nth(E, k) = e
    BY <1>1
  <2>2. c + 1 - k \in 1..c /\ ids[c + 1 - k] = Nth(E, k)
    BY <1>2, <1>3
  <2> QED BY <2>1, <2>2
<1>8. {ids[i] : i \in 1..c} = E
  BY <1>4, <1>7
<1> QED BY <1>4, <1>6, <1>8 DEF IsOrder, c, ids

\* Publish: whatever the order, the first round seats nobody twice.
LEMMA PublishFacts ==
  ASSUME field \in Nat, IsStage(fixtures, field, MaxRounds[field]), Even(fixtures, format, Seated),
         NEW ids, ids = IF fixtures = <<>> THEN [e \in Entrant |-> e] ELSE Descending(Everyone(fixtures))
  PROVE  /\ FirstRound(ids) \in Seq(Entrant \X (Entrant \cup {Nobody}))
         /\ Ordered(FirstRound(ids), format, Seated)
<1> DEFINE h == field \div 2
<1>1. h \in Nat /\ 2 * h <= field
  OBVIOUS
<1>2. PICK E : /\ E \in SUBSET Entrant /\ IsOrder(ids, E)
               /\ format = "swiss" => Playing(ids) = Seated
  <2>1. CASE fixtures = <<>>
    <3>1. ids \in Seq(Entrant) /\ Len(ids) = field /\ \A i \in DOMAIN ids : ids[i] = i
      BY <2>1 DEF Entrant
    <3>2. IsOrder(ids, Entrant)
      <4>1. Entrant \in SUBSET (Nat \ {Nobody})
        BY DEF Entrant, Nobody
      <4>2. \A i, j \in DOMAIN ids : ids[i] = ids[j] => i = j
        BY <3>1
      <4> QED BY <3>1, <4>1, <4>2 DEF IsOrder
    <3>3. {ids[i] : i \in 1..2 * h} = 1..2 * h
      <4>1. \A i \in 1..2 * h : ids[i] = i
        BY <1>1, <2>1 DEF Entrant
      <4> QED BY <4>1
    <3> QED BY <3>1, <3>2, <3>3 DEF Seated, Playing
  <2>2. CASE fixtures # <<>>
    <3> DEFINE E == Everyone(fixtures)
    <3>1. E \in SUBSET Entrant
      BY DEF Everyone, Players, IsStage, Entrant
    <3>2. IsFiniteSet(E) /\ E \in SUBSET (Nat \ {Nobody})
      <4>1. IsFiniteSet(1..field)
        BY FS_Interval
      <4> QED BY <3>1, <4>1, FS_Subset DEF Entrant, Nobody
    <3>3. ids = Descending(E)
      BY <2>2
    <3> HIDE DEF E
    <3>4. IsOrder(ids, E) /\ Len(ids) = Cardinality(E) /\ {ids[i] : i \in 1..Cardinality(E)} = E
      <4>1. /\ IsOrder(Descending(E), E) /\ Len(Descending(E)) = Cardinality(E)
            /\ {Descending(E)[i] : i \in 1..Cardinality(E)} = E
        BY <3>2, DescendingFacts
      <4> QED BY <3>3, <4>1
    <3>5. ASSUME format = "swiss" PROVE Playing(ids) = Seated
      <4>1. E = Seated
        BY <2>2, <3>5 DEF Even, E
      <4>2. Seated = 1..2 * h
        BY DEF Seated
      <4> HIDE DEF h
      <4>3. Cardinality(1..2 * h) = 2 * h
        BY <1>1, FS_Interval
      <4>4. 2 * ((2 * h) \div 2) = 2 * h
        BY <1>1
      <4> QED BY <3>4, <4>1, <4>2, <4>3, <4>4 DEF Playing
    <3> QED BY <3>1, <3>4, <3>5
  <2> QED BY <2>1, <2>2
<1>3. /\ FirstRound(ids) \in Seq(E \X E) /\ Disjoint(FirstRound(ids))
      /\ format = "swiss" => Drawn(FirstRound(ids)) = Playing(ids)
  <2>1. IsOrder(ids, E)
    BY <1>2
  <2> QED BY <2>1, FirstRoundFacts
<1>4. FirstRound(ids) \in Seq(Entrant \X (Entrant \cup {Nobody}))
  BY <1>2, <1>3, LenProperties
<1> QED BY <1>2, <1>3, <1>4 DEF Ordered

\* The winners of a round, two by two.
LEMMA PairUpFacts ==
  ASSUME NEW E, Nobody \notin E, NEW w \in Seq(E)
  PROVE  /\ PairUp(w) \in Seq(E \X (E \cup {Nobody}))
         /\ Drawn(PairUp(w)) = {w[i] : i \in DOMAIN w}
         /\ (\A i, j \in DOMAIN w : w[i] = w[j] => i = j) => Disjoint(PairUp(w))
<1> DEFINE p == PairUp(w)
           h == (Len(w) + 1) \div 2
<1>1. Len(w) \in Nat /\ DOMAIN w = 1..Len(w) /\ \A i \in 1..Len(w) : w[i] \in E
  BY LenProperties
<1>2. h \in Nat /\ 2 * h <= Len(w) + 1 /\ Len(w) <= 2 * h
  BY <1>1
<1>3. p = [n \in 1..h |-> <<w[2 * n - 1], IF 2 * n <= Len(w) THEN w[2 * n] ELSE Nobody>>]
  BY DEF PairUp
<1> HIDE DEF p, h
<1>4. \A n \in 1..h : 2 * n - 1 \in 1..Len(w) /\ (2 * n <= Len(w) => 2 * n \in 1..Len(w))
  BY <1>1, <1>2
<1>5. /\ p \in Seq(E \X (E \cup {Nobody})) /\ DOMAIN p = 1..h
      /\ \A n \in 1..h : p[n][1] = w[2 * n - 1] /\ p[n][2] = IF 2 * n <= Len(w) THEN w[2 * n] ELSE Nobody
  <2>1. \A n \in 1..h : p[n] \in E \X (E \cup {Nobody})
    BY <1>1, <1>3, <1>4
  <2> QED BY <1>2, <1>3, <2>1
<1>6. ASSUME NEW n \in 1..h, NEW e \in Members(p[n])
      PROVE  \E i \in {2 * n - 1, 2 * n} : i \in 1..Len(w) /\ w[i] = e
  <2>1. e = w[2 * n - 1] \/ (2 * n <= Len(w) /\ e = w[2 * n])
    BY <1>5 DEF Members
  <2> QED BY <1>4, <2>1
<1>7. ASSUME NEW i \in 1..Len(w) PROVE \E n \in 1..h : w[i] \in Members(p[n])
  <2>1. w[i] \in E /\ w[i] # Nobody
    BY <1>1
  <2>2. CASE i % 2 = 1
    <3>1. (i + 1) \div 2 \in 1..h /\ 2 * ((i + 1) \div 2) - 1 = i
      BY <1>1, <1>2, <2>2
    <3>2. p[(i + 1) \div 2][1] = w[i]
      BY <1>5, <3>1
    <3> QED BY <2>1, <3>1, <3>2 DEF Members
  <2>3. CASE i % 2 # 1
    <3>1. i \div 2 \in 1..h /\ 2 * (i \div 2) = i /\ i <= Len(w)
      BY <1>1, <1>2, <2>3
    <3>2. p[i \div 2][2] = w[i]
      BY <1>5, <3>1
    <3> QED BY <2>1, <3>1, <3>2 DEF Members
  <2> QED BY <2>2, <2>3
<1>8. Drawn(p) = {w[i] : i \in DOMAIN w}
  <2>1. \A e \in Drawn(p) : \E i \in 1..Len(w) : w[i] = e
    BY <1>5, <1>6 DEF Drawn
  <2>2. \A i \in 1..Len(w) : w[i] \in Drawn(p)
    BY <1>5, <1>7 DEF Drawn
  <2> QED BY <1>1, <2>1, <2>2
<1>9. ASSUME \A i, j \in DOMAIN w : w[i] = w[j] => i = j PROVE Disjoint(p)
  <2>1. SUFFICES ASSUME NEW m \in 1..h, NEW n \in 1..h, m # n, NEW e \in Members(p[m]) \cap Members(p[n])
                 PROVE  FALSE
    BY <1>5 DEF Disjoint
  <2>2. PICK i \in {2 * m - 1, 2 * m} : i \in 1..Len(w) /\ w[i] = e
    BY <1>6
  <2>3. PICK j \in {2 * n - 1, 2 * n} : j \in 1..Len(w) /\ w[j] = e
    BY <1>6
  <2>4. i # j
    BY <1>2, <2>1, <2>2, <2>3
  <2> QED BY <1>1, <1>9, <2>2, <2>3, <2>4
<1> QED BY <1>5, <1>8, <1>9 DEF p

\* A row has a positive number ...
LEMMA RowFacts ==
  ASSUME NEW F, NEW fs \in Seq(F), NEW i \in DOMAIN fs, fs[i].round \in Nat
  PROVE  Row(fs, i) \in Nat \ {0}
<1> DEFINE before == {j \in DOMAIN fs : \/ fs[j].round < fs[i].round
                                        \/ fs[j].round = fs[i].round /\ j <= i}
<1>1. Len(fs) \in Nat /\ DOMAIN fs = 1..Len(fs)
  BY LenProperties
<1>2. before \subseteq 1..Len(fs) /\ i \in before
  BY <1>1
<1>3. Row(fs, i) = Cardinality(before)
  BY DEF Row
<1> HIDE DEF before
<1>4. IsFiniteSet(before)
  <2>1. IsFiniteSet(1..Len(fs))
    BY <1>1, FS_Interval
  <2> QED BY <1>2, <2>1, FS_Subset
<1>5. Cardinality(before) \in Nat /\ Cardinality(before) # 0
  BY <1>2, <1>4, FS_CardinalityType, FS_EmptySet
<1> QED BY <1>3, <1>5

\* ... so that everyone has a first seat, and a seed.
LEMMA SeedsFacts ==
  ASSUME NEW F, NEW fs \in Seq(F), \A i \in DOMAIN fs : fs[i].round \in Nat
  PROVE  Seeds(fs) \in [Everyone(fs) -> Nat]
<1>1. SUFFICES ASSUME NEW e \in Everyone(fs)
               PROVE  (CHOOSE m \in Seats(fs, e) : \A n \in Seats(fs, e) : m <= n) \in Nat
  BY DEF Seeds
<1>2. \A i \in DOMAIN fs : 2 * Row(fs, i) - 1 \in Nat /\ 2 * Row(fs, i) \in Nat
  <2>1. \A i \in DOMAIN fs : Row(fs, i) \in Nat \ {0}
    BY RowFacts
  <2> QED BY <2>1
<1>3. Seats(fs, e) \in SUBSET Nat
  BY <1>2 DEF Seats
<1>4. PICK i \in DOMAIN fs : e \in {fs[i].home, fs[i].away}
  BY DEF Everyone, Players
<1>5. Seats(fs, e) # {}
  BY <1>4 DEF Seats
<1>6. \E m \in Seats(fs, e) : \A n \in Seats(fs, e) : m <= n
  BY <1>3, <1>5, Least
<1> QED BY <1>3, <1>6

\* DrawRound: the pairs are of entrants, and fit what was read if it is still there.
LEMMA DrawFacts ==
  ASSUME field \in Nat, IsStage(fixtures, field, MaxRounds[field]), fixtures \in Seq(Fixture),
         NEW vs \in Seq(Fixture), IsRead(vs, field, MaxRounds[field]),
         format = "swiss" => IsSeated(vs, fixtures, Seated), NEW there \in BOOLEAN,
         there => IsView(vs, fixtures, astray, corrected, field, MaxRounds[field]),
         Even(fixtures, format, Seated), Paired(fixtures, astray, format),
         format \in {"swiss", "single-elimination"},
         NEW pairs, pairs = Draw(vs, there), pairs # NoPairing
  PROVE  /\ pairs \in Seq(Entrant \X (Entrant \cup {Nobody}))
         /\ format = "swiss" => Drawn(pairs) \subseteq Seated
         /\ there => Fits(pairs, vs, fixtures, astray, corrected, format, Seated)
<1> DEFINE E == Everyone(fixtures)
           last == InRound(vs, LastRound(vs))
<1>1. E \in SUBSET Entrant /\ Nobody \notin E
  BY DEF Everyone, Players, IsStage, Entrant
<1>2. CASE format = "swiss"
  <2>1. E = Seated /\ pairs = NextSwissRound(Seeds(fixtures), vs, fixtures)
    BY <1>2 DEF Even, Draw, IsSeated
  <2>2. IsFiniteSet(E) /\ Cardinality(E) % 2 = 0
    <3> DEFINE h == field \div 2
    <3>1. h \in Nat /\ E = 1..2 * h
      BY <2>1 DEF Seated
    <3> HIDE DEF h, E
    <3>2. IsFiniteSet(E) /\ Cardinality(E) = 2 * h
      BY <3>1, FS_Interval
    <3> QED BY <3>1, <3>2
  <2>3. Seeds(fixtures) \in [E -> Nat]
    <3>1. \A i \in DOMAIN fixtures : fixtures[i].round \in Nat
      BY DEF IsStage
    <3> QED BY <3>1, SeedsFacts
  <2>4. \A i \in DOMAIN vs : vs[i].home \in E /\ vs[i].away \in E \cup {Nobody}
    BY <1>2, <2>1 DEF IsSeated
  <2> HIDE DEF E
  <2>5. IsPairing(pairs, E, vs)
    BY <1>1, <2>1, <2>2, <2>3, <2>4, NextSwissFacts
  <2>6. pairs \in Seq(E \X E) /\ Disjoint(pairs) /\ \A m \in DOMAIN pairs : ~Met(vs, pairs[m][1], pairs[m][2])
    BY <2>5 DEF IsPairing
  <2>7. pairs \in Seq(Entrant \X (Entrant \cup {Nobody}))
    BY <1>1, <2>6, LenProperties
  <2>8. Drawn(pairs) \subseteq Seated
    <3>1. \A m \in DOMAIN pairs : pairs[m] \in E \X E
      BY <2>6, LenProperties
    <3> QED BY <2>1, <3>1 DEF Drawn, Members
  <2> QED BY <1>2, <2>6, <2>7, <2>8 DEF Fits
<1>3. CASE format = "single-elimination"
  <2> DEFINE w == WinnersOf(vs, there)
             c == Cardinality(last)
  <2>1. pairs = PairUp(w) /\ Nobody \notin ToSet(w)
    BY <1>3 DEF Draw
  <2>2. w = [n \in 1..c |-> WinnerAt(vs, Nth(last, n), there)]
    BY DEF WinnersOf
  <2>3. /\ last \in SUBSET DOMAIN vs /\ last \in SUBSET Int /\ IsFiniteSet(last)
    <3>1. DOMAIN vs = 1..Len(vs) /\ Len(vs) \in Nat
      BY DEF IsRead, IsStage
    <3>2. last \subseteq 1..Len(vs)
      BY <3>1 DEF InRound
    <3>3. IsFiniteSet(1..Len(vs))
      BY <3>1, FS_Interval
    <3> QED BY <3>1, <3>2, <3>3, FS_Subset
  <2> HIDE DEF w, last
  <2>4. /\ c \in Nat /\ \A n \in 1..c : Nth(last, n) \in last
        /\ \A i \in last : \E n \in 1..c : Nth(last, n) = i
        /\ \A m, n \in 1..c : m < n => Nth(last, m) < Nth(last, n)
    BY <2>3, NthFacts
  <2> HIDE DEF c
  <2>5. ASSUME NEW i \in last
        PROVE  /\ WinnerAt(vs, i, there) # Nobody
               /\ \/ WinnerAt(vs, i, there) = vs[i].winner
                  \/ there /\ fixtures[i].winner # Nobody /\ WinnerAt(vs, i, there) = fixtures[i].winner
    <3>1. WinnerAt(vs, i, there) # Nobody
      <4>1. PICK n \in 1..c : Nth(last, n) = i
        BY <2>4
      <4>2. n \in DOMAIN w /\ w[n] = WinnerAt(vs, i, there)
        BY <2>2, <4>1
      <4> QED BY <2>1, <4>2 DEF ToSet
    <3> QED BY <3>1 DEF WinnerAt
  <2>6. ASSUME there, NEW i \in last
         PROVE  /\ WinnerAt(vs, i, there) \in {fixtures[i].home, fixtures[i].away} \ {Nobody}
                /\ WinnerAt(vs, i, there) \in Entrant
                /\ i \in DOMAIN fixtures /\ fixtures[i].round = LastRound(vs)
                /\ LastRound(vs) \notin corrected => WinnerAt(vs, i, there) = fixtures[i].winner
    <3>1. /\ i \in DOMAIN fixtures /\ fixtures[i].round = LastRound(vs)
          /\ fixtures[i].home = vs[i].home /\ fixtures[i].away = vs[i].away
          /\ vs[i].winner = fixtures[i].winner \/ LastRound(vs) \in corrected
      BY <2>6, ViewFacts DEF last
    <3>2. /\ fixtures[i].winner \in {fixtures[i].home, fixtures[i].away, Nobody}
          /\ vs[i].winner \in {vs[i].home, vs[i].away, Nobody}
          /\ fixtures[i].home \in Entrant /\ fixtures[i].away \in Entrant \cup {Nobody}
      BY <2>3, <3>1 DEF IsRead, IsStage, Entrant
    <3> QED BY <2>5, <2>6, <3>1, <3>2 DEF WinnerAt
  <2>7. ASSUME NEW i \in last PROVE WinnerAt(vs, i, there) \in Entrant
    <3>1. vs[i].winner \in {vs[i].home, vs[i].away, Nobody}
            /\ vs[i].home \in Entrant /\ vs[i].away \in Entrant \cup {Nobody}
      BY <2>3 DEF IsRead, IsStage, Entrant
    <3> QED BY <2>5, <2>6, <3>1
  <2>8. w \in Seq(Entrant) /\ DOMAIN w = 1..c /\ \A n \in 1..c : w[n] = WinnerAt(vs, Nth(last, n), there)
    <3>1. \A n \in 1..c : WinnerAt(vs, Nth(last, n), there) \in Entrant
      BY <2>4, <2>7
    <3> QED BY <2>2, <2>4, <3>1
  <2>9. /\ pairs \in Seq(Entrant \X (Entrant \cup {Nobody}))
        /\ Drawn(pairs) = {w[n] : n \in DOMAIN w}
        /\ (\A m, n \in DOMAIN w : w[m] = w[n] => m = n) => Disjoint(pairs)
    <3>1. Nobody \notin Entrant
      BY DEF Entrant, Nobody
    <3> QED BY <2>1, <2>8, <3>1, PairUpFacts
  <2>10. ASSUME there, astray = {}, NEW m \in 1..c, NEW n \in 1..c, m < n PROVE w[m] # w[n]
    <3> DEFINE i == Nth(last, m)
               j == Nth(last, n)
    <3>1. i \in last /\ j \in last /\ i < j
      BY <2>4, <2>10
    <3> HIDE DEF i, j
    <3>2. i \in DOMAIN fixtures /\ j \in DOMAIN fixtures /\ fixtures[i].round = fixtures[j].round
      BY <2>10, <2>6, <3>1
    <3>3. ~Share(fixtures[i], fixtures[j])
      BY <2>10, <3>1, <3>2 DEF Paired
    <3>4. w[m] = WinnerAt(vs, i, there) /\ w[n] = WinnerAt(vs, j, there)
      BY <2>8 DEF i, j
    <3> QED BY <2>10, <2>6, <3>1, <3>3, <3>4 DEF Share
  <2>11. there /\ astray = {} => Disjoint(pairs)
    <3>1. \A m, n \in 1..c : m < n \/ n < m \/ m = n
      BY <2>4
    <3> QED BY <2>8, <2>9, <2>10, <3>1
  <2>12. ASSUME there, LastRound(vs) \notin corrected
         PROVE  Drawn(pairs) = {fixtures[i].winner : i \in last}
    <3>1. \A n \in 1..c : \E i \in last : w[n] = fixtures[i].winner
      BY <2>4, <2>8, <2>12, <2>6
    <3>2. ASSUME NEW i \in last PROVE \E n \in 1..c : w[n] = fixtures[i].winner
      <4>1. PICK n \in 1..c : Nth(last, n) = i
        BY <2>4
      <4> QED BY <2>8, <2>12, <2>6, <4>1
    <3>3. Drawn(pairs) = {w[n] : n \in 1..c}
      BY <2>8, <2>9
    <3> HIDE DEF c, w
    <3>4. {w[n] : n \in 1..c} \subseteq {fixtures[i].winner : i \in last}
      BY <3>1
    <3>5. {fixtures[i].winner : i \in last} \subseteq {w[n] : n \in 1..c}
      BY <3>2
    <3> QED BY <3>3, <3>4, <3>5
  <2> QED BY <1>3, <2>9, <2>11, <2>12 DEF Fits, last
<1> QED BY <1>2, <1>3
-----------------------------------------------------------------------------
(***************************************************************************)
(* The invariant.  A request holds fixtures it has read, a view of the      *)
(* stage, pairs drawn from a view, or pairs of an order; there says that   *)
(* the fixtures it has read have not been replaced since.                  *)
(***************************************************************************)
Sound(place, vs, pairs, there, fs, ag, co, fm, n, b, seated) ==
  /\ place \in {"matches", "results", "insert"} =>
       IsRead(vs, n, b) /\ (fm = "swiss" => IsSeated(vs, fs, seated))
  /\ place = "insert" /\ fm = "swiss" => Drawn(pairs) \subseteq seated
  /\ there /\ place = "matches" => IsPart(vs, fs, ag, n, b)
  /\ there /\ place \in {"results", "insert"} => IsView(vs, fs, ag, co, n, b)
  /\ there /\ place = "insert" => Fits(pairs, vs, fs, ag, co, fm, seated)
  /\ place \in {"create", "check", "replace"} => Ordered(pairs, fm, seated)
SoundAll ==
  \A r \in Request : Sound(pc[r], read[r], plan[r], r \notin gone, fixtures, astray, corrected,
                           format, field, MaxRounds[field], Seated)

\* Whatever is under way when a replacement is past its check has started since.
Late ==
  \A r \in Request : pc[r] = "replace" =>
    \A i \in DOMAIN fixtures : fixtures[i].status = "in-progress" => i \in late

RoundInv ==
  /\ TypeOK /\ Late /\ SoundAll
  /\ Unbroken(fixtures, astray) /\ Even(fixtures, format, Seated)
  /\ Paired(fixtures, astray, format) /\ InTurn(fixtures, astray, corrected, format)

\* The parts of TypeOK, of the values given.
FixtureOf(n, b) ==
  [round : 1..b, home : 1..n, away : (1..n) \cup {Nobody},
   status : {"scheduled", "in-progress", "finalized"}, winner : (1..n) \cup {Nobody}]
IsPlayed(fs, n, b) ==
  /\ fs \in Seq(FixtureOf(n, b))
  /\ \A i \in DOMAIN fs : fs[i].winner \in {fs[i].home, fs[i].away, Nobody}

\* Fixtures of the right types are a stage's.
LEMMA StageFacts ==
  ASSUME NEW n \in Nat, NEW b \in Nat, NEW fs, IsPlayed(fs, n, b)
  PROVE  IsStage(fs, n, b)
<1>1. fs \in Seq(FixtureOf(n, b))
  BY DEF IsPlayed
<1>2. Len(fs) \in Nat /\ DOMAIN fs = 1..Len(fs) /\ \A i \in DOMAIN fs : fs[i] \in FixtureOf(n, b)
  BY <1>1, LenProperties
<1>3. fs # <<>> => DOMAIN fs # {}
  <2>1. SUFFICES ASSUME DOMAIN fs = {} PROVE fs = <<>>
    OBVIOUS
  <2>2. Len(fs) = 0
    BY <1>2, <2>1
  <2> QED BY <1>1, <2>2, EmptySeq
<1>4. \A i \in DOMAIN fs : /\ fs[i].round \in 1..b /\ fs[i].home \in 1..n
                           /\ fs[i].away \in (1..n) \cup {Nobody}
  BY <1>2 DEF FixtureOf
<1> QED BY <1>2, <1>3, <1>4 DEF IsPlayed, IsStage

\* What the steps take from the invariant and the assumptions on the constants.
LEMMA InvFacts ==
  ASSUME RoundInv
  PROVE  /\ field \in Nat /\ field \in Field /\ MaxRounds[field] \in Nat \ {0}
         /\ MaxFixtures[field] \in Nat /\ MaxCorrections[format] \in Nat
         /\ Verdict[field] \subseteq {"home", "away", "draw"}
         /\ format \in {"swiss", "single-elimination"}
         /\ Fixture = FixtureOf(field, MaxRounds[field]) /\ fixtures \in Seq(Fixture)
         /\ IsPlayed(fixtures, field, MaxRounds[field])
         /\ IsStage(fixtures, field, MaxRounds[field])
<1>1. field \in Field /\ format \in Format
  BY DEF RoundInv, TypeOK
<1>2. /\ field \in Nat /\ MaxRounds[field] \in Nat \ {0}
      /\ MaxFixtures[field] \in Nat /\ MaxCorrections[format] \in Nat
      /\ Verdict[field] \subseteq {"home", "away", "draw"}
      /\ format \in {"swiss", "single-elimination"}
  BY <1>1, BoundAssumption, VerdictAssumption, FormatAssumption
<1>3. Fixture = FixtureOf(field, MaxRounds[field])
  BY DEF Fixture, FixtureOf, Entrant
<1>4. fixtures \in Seq(Fixture) /\ IsPlayed(fixtures, field, MaxRounds[field])
  BY <1>3 DEF RoundInv, TypeOK, IsPlayed
<1> QED BY <1>1, <1>2, <1>3, <1>4, StageFacts

\* A step leaves the stage alone, so the types after it are of the same field.
LEMMA TypesAfter ==
  ASSUME RoundInv, UNCHANGED stage, IsPlayed(fixtures', field, MaxRounds[field]),
         Len(fixtures') <= MaxFixtures[field],
         pc' \in [Request -> Place], read' \in [Request -> Seq(Fixture)],
         plan' \in [Request -> Seq(Entrant \X (Entrant \cup {Nobody}))],
         gone' \subseteq Request, astray' \subseteq 1..MaxRounds[field], late' \subseteq DOMAIN fixtures',
         corrected' \subseteq 1..MaxRounds[field], corrections' \in 0..MaxCorrections[format]
  PROVE  TypeOK' /\ Seated' = Seated
<1>1. format' = format /\ field' = field
  BY DEF stage
<1>2. Fixture' = Fixture /\ Entrant' = Entrant /\ Seated' = Seated
  BY <1>1 DEF Fixture, Entrant, Seated
<1>3. /\ fixtures' \in Seq(Fixture)
      /\ \A i \in DOMAIN fixtures' : fixtures'[i].winner \in {fixtures'[i].home, fixtures'[i].away, Nobody}
  BY InvFacts DEF IsPlayed
<1>4. format \in Format /\ field \in Field
  BY DEF RoundInv, TypeOK
<1> QED BY <1>1, <1>2, <1>3, <1>4 DEF TypeOK, Place

\* What the requests hold stays sound while a match is played ...
LEMMA PlaysSound ==
  ASSUME NEW fs, NEW gs, NEW n, NEW b, IsStage(fs, n, b), IsStage(gs, n, b),
         NEW i, NEW co, NEW cp, co \subseteq cp, Plays(fs, gs, i, cp),
         NEW place,
         place \in {"results", "insert"} =>
           (fs[i].status = "finalized" /\ gs[i].winner # fs[i].winner => fs[i].round \in cp),
         NEW vs, NEW pairs, NEW there, NEW ag, NEW fm, NEW seated,
         Sound(place, vs, pairs, there, fs, ag, co, fm, n, b, seated)
  PROVE  Sound(place, vs, pairs, there, gs, ag, cp, fm, n, b, seated)
<1>1. IsSeated(vs, fs, seated) => IsSeated(vs, gs, seated)
  <2>1. gs # <<>>
    BY PlaysLast
  <2> QED BY <2>1 DEF IsSeated
<1>2. there /\ place = "matches" => IsPart(vs, gs, ag, n, b)
  BY PlaysPart DEF Sound
<1>3. ASSUME there, place \in {"results", "insert"}
      PROVE  /\ IsView(vs, gs, ag, cp, n, b)
             /\ Fits(pairs, vs, fs, ag, co, fm, seated) => Fits(pairs, vs, gs, ag, cp, fm, seated)
  <2>1. IsView(vs, fs, ag, co, n, b)
    BY <1>3 DEF Sound
  <2>2. fs[i].status = "finalized" /\ gs[i].winner # fs[i].winner => fs[i].round \in cp
    BY <1>3
  <2> QED BY <2>1, <2>2, PlaysView
<1> QED BY <1>1, <1>2, <1>3 DEF Sound

\* ... and while a round is inserted.
LEMMA ExtendSound ==
  ASSUME NEW fs, NEW gs, NEW inserted, NEW n, NEW b, IsStage(fs, n, b), IsStage(gs, n, b),
         NEW k \in 1..b, Extends(fs, gs, inserted, k), NEW ag, Unbroken(fs, ag),
         NEW ag2, InTime(fs, ag, k, ag2), NEW place, NEW vs, NEW pairs, NEW there, NEW co, NEW fm, NEW seated,
         Sound(place, vs, pairs, there, fs, ag, co, fm, n, b, seated)
  PROVE  Sound(place, vs, pairs, there, gs, ag2, co, fm, n, b, seated)
<1>1. IsSeated(vs, fs, seated) => IsSeated(vs, gs, seated)
  <2>1. fs # <<>> => gs # <<>>
    BY DEF IsStage, Extends
  <2> QED BY <2>1 DEF IsSeated
<1>2. there /\ place = "matches" => IsPart(vs, gs, ag2, n, b)
  BY ExtendPart DEF Sound
<1>3. ASSUME there, place \in {"results", "insert"}
      PROVE  /\ IsView(vs, gs, ag2, co, n, b)
             /\ Fits(pairs, vs, fs, ag, co, fm, seated) => Fits(pairs, vs, gs, ag2, co, fm, seated)
  <2>1. IsView(vs, fs, ag, co, n, b)
    BY <1>3 DEF Sound
  <2> QED BY <2>1, ExtendView
<1> QED BY <1>1, <1>2, <1>3 DEF Sound

\* A request that ends holds nothing, and the others hold what they held.
LEMMA EndsFacts ==
  ASSUME RoundInv, NEW r \in Request, Ends(r)
  PROVE  /\ pc' \in [Request -> Place] /\ read' \in [Request -> Seq(Fixture)]
         /\ plan' \in [Request -> Seq(Entrant \X (Entrant \cup {Nobody}))]
         /\ pc'[r] = "idle"
         /\ \A q \in Request \ {r} : pc'[q] = pc[q] /\ read'[q] = read[q] /\ plan'[q] = plan[q]
<1>1. /\ pc \in [Request -> Place] /\ read \in [Request -> Seq(Fixture)]
      /\ plan \in [Request -> Seq(Entrant \X (Entrant \cup {Nobody}))]
  BY DEF RoundInv, TypeOK, Place
<1>2. /\ pc' = [pc EXCEPT ![r] = "idle"]
      /\ read' = [read EXCEPT ![r] = <<>>] /\ plan' = [plan EXCEPT ![r] = <<>>]
  BY DEF Ends, Goto
<1>3. "idle" \in Place /\ <<>> \in Seq(Fixture) /\ <<>> \in Seq(Entrant \X (Entrant \cup {Nobody}))
  BY DEF Place
<1> QED BY <1>1, <1>2, <1>3
-----------------------------------------------------------------------------
(***************************************************************************)
(* The steps.  Three of them insert a round.                               *)
(***************************************************************************)

LEMMA RowsTypes ==
  ASSUME NEW n \in Nat, NEW b \in Nat, NEW fs, IsPlayed(fs, n, b), NEW k \in 1..b,
         NEW pairs \in Seq((1..n) \X ((1..n) \cup {Nobody})), NEW gs, Extends(fs, gs, pairs, k),
         gs \in Seq(ToSet(gs))
  PROVE  IsPlayed(gs, n, b)
<1>1. \A i \in DOMAIN fs : fs[i] \in FixtureOf(n, b)
  BY LenProperties DEF IsPlayed
<1>2. \A m \in DOMAIN pairs : pairs[m] \in (1..n) \X ((1..n) \cup {Nobody})
  BY LenProperties
<1>3. ASSUME NEW i \in DOMAIN gs
      PROVE  gs[i] \in FixtureOf(n, b) /\ gs[i].winner \in {gs[i].home, gs[i].away, Nobody}
  <2>1. CASE i \in DOMAIN fs
    <3>1. gs[i] = fs[i]
      BY <2>1 DEF Extends
    <3> QED BY <1>1, <2>1, <3>1 DEF IsPlayed
  <2>2. CASE i \notin DOMAIN fs
    <3> DEFINE pair == pairs[i - Len(fs)]
    <3>1. gs[i] = New(pair, k) /\ pair \in (1..n) \X ((1..n) \cup {Nobody})
      BY <1>2, <2>2 DEF Extends
    <3> HIDE DEF pair
    <3> QED BY <3>1 DEF New, FixtureOf
  <2> QED BY <2>1, <2>2
<1>4. gs \in Seq(FixtureOf(n, b))
  BY <1>3, LenProperties
<1> QED BY <1>3, <1>4 DEF IsPlayed

\* Insert, whichever the round, keeps the types.
LEMMA InsertFacts ==
  ASSUME RoundInv, NEW r \in Request, NEW k \in 1..MaxRounds[field], Insert(r, plan[r], k)
  PROVE  /\ UNCHANGED stage /\ TypeOK' /\ Seated' = Seated
         /\ Extends(fixtures, fixtures', plan[r], k) /\ InTime(fixtures, astray, k, astray')
         /\ IsStage(fixtures', field, MaxRounds[field]) /\ corrected' = corrected
         /\ r \in gone => astray' # {}
<1> DEFINE pairs == plan[r]
<1>1. pairs \in Seq(Entrant \X (Entrant \cup {Nobody}))
  BY DEF RoundInv, TypeOK
<1>2. /\ fixtures' = fixtures \o Rows(pairs, k) /\ Len(fixtures) + Len(pairs) <= MaxFixtures[field]
      /\ astray' = (IF r \in gone \/ InRound(fixtures, k) # {} THEN astray \cup {k} ELSE astray)
      /\ Ends(r) /\ gone' = gone \ {r} /\ UNCHANGED <<stage, late, corrected, corrections>>
  BY DEF Insert
<1> HIDE DEF pairs
<1>3. Extends(fixtures, fixtures', pairs, k) /\ Len(fixtures') = Len(fixtures) + Len(pairs)
  BY <1>1, <1>2, InvFacts, RowsExtend
<1>4. IsPlayed(fixtures', field, MaxRounds[field])
  <2>1. fixtures' \in Seq(ToSet(fixtures'))
    <3>1. /\ fixtures \in Seq(Fixture) /\ Len(fixtures) \in Nat /\ DOMAIN fixtures = 1..Len(fixtures)
          /\ Len(pairs) \in Nat /\ DOMAIN pairs = 1..Len(pairs)
      BY <1>1, InvFacts, LenProperties
    <3> DEFINE S == Fixture \cup {New(pairs[m], k) : m \in DOMAIN pairs}
    <3>2. fixtures \in Seq(S) /\ Rows(pairs, k) \in Seq(S)
      BY <3>1, LenProperties DEF Rows
    <3> HIDE DEF S
    <3>3. fixtures' \in Seq(S)
      BY <1>2, <3>2, ConcatProperties
    <3>4. Len(fixtures') \in Nat /\ fixtures' = [i \in 1..Len(fixtures') |-> fixtures'[i]]
      BY <3>3, LenProperties
    <3> QED BY <3>4 DEF ToSet
  <2> QED BY <1>1, <1>3, <2>1, InvFacts, RowsTypes DEF Entrant
<1>5. IsStage(fixtures', field, MaxRounds[field])
  BY <1>4, InvFacts, StageFacts
<1>6. /\ Len(fixtures') <= MaxFixtures[field] /\ late' \subseteq DOMAIN fixtures'
      /\ gone' \subseteq Request /\ astray' \subseteq 1..MaxRounds[field]
      /\ corrected' \subseteq 1..MaxRounds[field] /\ corrections' \in 0..MaxCorrections[format]
  BY <1>2, <1>3 DEF RoundInv, TypeOK, Extends
<1>7. TypeOK' /\ Seated' = Seated
  BY <1>2, <1>4, <1>6, EndsFacts, TypesAfter
<1>8. InTime(fixtures, astray, k, astray') /\ (r \in gone => astray' # {})
  BY <1>2 DEF InTime
<1> QED BY <1>2, <1>3, <1>5, <1>7, <1>8 DEF pairs

\* What an inserted round leaves to be shown: that its pairs fit.
LEMMA InsertKeeps ==
  ASSUME RoundInv, NEW r \in Request, NEW k \in 1..MaxRounds[field], Insert(r, plan[r], k),
         astray' = {} => k = 1 \/ \E i \in DOMAIN fixtures : fixtures[i].round = k - 1,
         format = "swiss" => \/ Drawn(plan[r]) = Seated
                             \/ fixtures # <<>> /\ Drawn(plan[r]) \subseteq Seated,
         astray' = {} => Disjoint(plan[r]),
         astray' = {} /\ format = "swiss" =>
           \A m \in DOMAIN plan[r] : ~Met(fixtures, plan[r][m][1], plan[r][m][2]),
         InTurn(fixtures', astray', corrected, format)
  PROVE  RoundInv'
<1> DEFINE b == MaxRounds[field]
<1>1. /\ IsStage(fixtures, field, b) /\ field \in Nat /\ Unbroken(fixtures, astray)
      /\ Even(fixtures, format, Seated) /\ Paired(fixtures, astray, format)
  BY InvFacts DEF RoundInv
<1>2. /\ TypeOK' /\ Seated' = Seated /\ Extends(fixtures, fixtures', plan[r], k)
      /\ InTime(fixtures, astray, k, astray') /\ IsStage(fixtures', field, b)
      /\ format' = format /\ field' = field /\ corrected' = corrected
  BY InsertFacts DEF stage
<1>3. Ends(r) /\ late' = late /\ gone' = gone \ {r}
  BY DEF Insert
<1>4. /\ pc'[r] = "idle"
      /\ \A q \in Request \ {r} : pc'[q] = pc[q] /\ read'[q] = read[q] /\ plan'[q] = plan[q]
  BY <1>3, EndsFacts
<1>5. Late'
  <2>1. SUFFICES ASSUME NEW q \in Request, pc'[q] = "replace",
                        NEW i \in DOMAIN fixtures', fixtures'[i].status = "in-progress"
                 PROVE  i \in late'
    BY DEF Late
  <2>2. pc[q] = "replace"
    BY <1>4, <2>1
  <2>3. i \in DOMAIN fixtures /\ fixtures'[i] = fixtures[i]
    BY <1>2, <2>1 DEF Extends, New
  <2> QED BY <1>3, <2>1, <2>2, <2>3 DEF RoundInv, Late
<1>6. SoundAll'
  <2>1. SUFFICES ASSUME NEW q \in Request
                 PROVE  Sound(pc'[q], read'[q], plan'[q], q \notin gone', fixtures', astray', corrected, format, field, b, Seated)
    BY <1>2 DEF SoundAll
  <2>2. CASE q = r
    BY <1>4, <2>2 DEF Sound
  <2>3. CASE q # r
    <3>1. Sound(pc[q], read[q], plan[q], q \notin gone, fixtures, astray, corrected, format, field, b, Seated)
      BY DEF RoundInv, SoundAll
    <3>2. Sound(pc[q], read[q], plan[q], q \notin gone, fixtures', astray', corrected, format, field, b, Seated)
      BY <1>1, <1>2, <3>1, ExtendSound
    <3>3. (q \notin gone') = (q \notin gone)
      BY <1>3, <2>3
    <3> QED BY <1>4, <2>3, <3>2, <3>3
  <2> QED BY <2>2, <2>3
<1>7. Unbroken(fixtures', astray')
  BY <1>1, <1>2, ExtendKeeps
<1>8. Even(fixtures', format, Seated)
  <2>1. fixtures = <<>> => DOMAIN fixtures = {}
    OBVIOUS
  <2>2. format = "swiss" => Drawn(plan[r]) = Seated \/ (fixtures # <<>> /\ Drawn(plan[r]) \subseteq Seated)
    OBVIOUS
  <2> QED BY <1>1, <1>2, <2>1, <2>2, ExtendEven
<1>9. Paired(fixtures', astray', format)
  BY <1>1, <1>2, ExtendPaired
<1> QED BY <1>2, <1>5, <1>6, <1>7, <1>8, <1>9 DEF RoundInv

\* A first round fits, as nothing is there unless a round goes astray.
LEMMA CreateStep == ASSUME RoundInv, NEW r \in Request, Create(r) PROVE RoundInv'
<1> DEFINE b == MaxRounds[field]
<1>1. pc[r] = "create" /\ Insert(r, plan[r], 1)
  BY DEF Create
<1>2. 1 \in 1..b /\ IsStage(fixtures, field, b) /\ Unbroken(fixtures, astray)
  BY InvFacts DEF RoundInv
<1>3. Sound(pc[r], read[r], plan[r], r \notin gone, fixtures, astray, corrected, format, field, b, Seated)
  BY DEF RoundInv, SoundAll
<1>4. Disjoint(plan[r]) /\ (format = "swiss" => Drawn(plan[r]) = Seated)
  BY <1>1, <1>3 DEF Sound, Ordered
<1>5. /\ Extends(fixtures, fixtures', plan[r], 1) /\ InTime(fixtures, astray, 1, astray')
      /\ IsStage(fixtures', field, b)
  BY <1>1, <1>2, InsertFacts
<1>6. InTurn(fixtures', astray', corrected, format)
  BY <1>2, <1>5, CreateTurn
<1>7. ASSUME astray' = {} PROVE \A m \in DOMAIN plan[r] : ~Met(fixtures, plan[r][m][1], plan[r][m][2])
  <2>1. InRound(fixtures, 1) = {} /\ Contiguous(fixtures)
    BY <1>2, <1>5, <1>7 DEF InTime, Unbroken
  <2>2. \A i \in DOMAIN fixtures : fixtures[i].round < 1
    BY <1>2, <2>1, NewRound
  <2> QED BY <1>2, <2>2 DEF IsStage, Met
<1> QED BY <1>1, <1>2, <1>4, <1>6, <1>7, InsertKeeps

\* As long as no round went astray, no more is known to whoever inserts a round
\* than what was read for it.
LEMMA ViewKnows ==
  ASSUME NEW vs, NEW fs, NEW ag, NEW co, NEW n, NEW b, IsStage(fs, n, b), Contiguous(fs),
         IsView(vs, fs, ag, co, n, b), ag = {}, InRound(fs, LastRound(vs) + 1) = {}
  PROVE  \A d, e : Met(fs, d, e) <=> Met(vs, d, e)
<1>1. LastRound(vs) \in 1..b /\ LastRound(vs) + 1 \in 1..b
  BY ViewFacts
<1>2. \A i \in DOMAIN fs : fs[i].round < LastRound(vs) + 1 /\ fs[i].round \in 1..b
  BY <1>1, NewRound DEF IsStage
<1>3. \A i \in DOMAIN fs : ~(fs[i].round > LastRound(vs))
  BY <1>1, <1>2
<1>4. DOMAIN vs = DOMAIN fs
  BY <1>3 DEF IsView, IsPart
<1> QED BY <1>4 DEF IsView, IsPart, Met

\* A drawn round fits what was read, and that is all there is, or else it goes
\* astray.
LEMMA InsertRoundStep == ASSUME RoundInv, NEW r \in Request, InsertRound(r) PROVE RoundInv'
<1> DEFINE b  == MaxRounds[field]
           vs == read[r]
           k  == LastRound(vs) + 1
<1>1. pc[r] = "insert" /\ Insert(r, plan[r], k)
  BY DEF InsertRound
<1>2. IsStage(fixtures, field, b) /\ Unbroken(fixtures, astray) /\ InTurn(fixtures, astray, corrected, format)
  BY InvFacts DEF RoundInv
<1>3. Sound(pc[r], vs, plan[r], r \notin gone, fixtures, astray, corrected, format, field, b, Seated)
  BY DEF RoundInv, SoundAll
<1>4. /\ IsRead(vs, field, b)
      /\ format = "swiss" => fixtures # <<>> /\ Drawn(plan[r]) \subseteq Seated
      /\ r \notin gone => /\ IsView(vs, fixtures, astray, corrected, field, b)
                         /\ Fits(plan[r], vs, fixtures, astray, corrected, format, Seated)
  BY <1>1, <1>3 DEF Sound, IsSeated
<1> HIDE DEF vs
<1>5. k \in 1..b /\ LastRound(vs) \in 1..b
  <2>1. b \in Nat
    BY InvFacts
  <2> HIDE DEF b
  <2>2. LastRound(vs) \in 1..b
    BY <1>4, LastFacts DEF IsRead, IsStage
  <2>3. LastRound(vs) < b
    BY <1>4 DEF IsRead
  <2> QED BY <2>1, <2>2, <2>3
<1>6. k - 1 = LastRound(vs)
  BY <1>5
<1>7. /\ Extends(fixtures, fixtures', plan[r], k) /\ InTime(fixtures, astray, k, astray')
      /\ IsStage(fixtures', field, b) /\ (r \in gone => astray' # {})
  BY <1>1, <1>5, InsertFacts
<1> HIDE DEF b
<1>8. CASE r \in gone
  <2>1. InTurn(fixtures', astray', corrected, format)
    BY <1>7, <1>8 DEF InTurn
  <2> HIDE DEF k
  <2> QED BY <1>1, <1>4, <1>5, <1>7, <1>8, <2>1, InsertKeeps DEF b
<1>9. CASE r \notin gone
  <2>1. /\ IsView(vs, fixtures, astray, corrected, field, b)
        /\ Fits(plan[r], vs, fixtures, astray, corrected, format, Seated)
    BY <1>4, <1>9
  <2>2. \E i \in DOMAIN fixtures : fixtures[i].round = LastRound(vs)
    BY <1>2, <2>1, ViewFacts
  <2>3. InTurn(fixtures', astray', corrected, format)
    BY <1>2, <1>7, <2>1, InsertTurn
  <2>4. /\ astray' = {} => Disjoint(plan[r])
        /\ format = "swiss" => \A m \in DOMAIN plan[r] : ~Met(vs, plan[r][m][1], plan[r][m][2])
    BY <1>7, <2>1 DEF Fits, InTime
  <2>5. astray' = {} => \A d, e : Met(fixtures, d, e) <=> Met(vs, d, e)
    BY <1>2, <1>7, <2>1, ViewKnows DEF InTime, Unbroken
  <2> HIDE DEF k
  <2> QED BY <1>1, <1>4, <1>5, <1>6, <2>2, <2>3, <2>4, <2>5, InsertKeeps DEF b
<1> QED BY <1>8, <1>9

\* Everything is deleted, and a first round inserted as if it were the first: what
\* was read of the stage is gone.
LEMMA ReplaceStep == ASSUME RoundInv, NEW r \in Request, Replace(r) PROVE RoundInv'
<1> DEFINE b     == MaxRounds[field]
           pairs == plan[r]
<1>1. /\ pc[r] = "replace" /\ Len(pairs) <= MaxFixtures[field] /\ fixtures' = Rows(pairs, 1)
      /\ gone' = {q \in Request : Reading(q)}
      /\ astray' = {} /\ late' = {} /\ corrected' = {} /\ Ends(r) /\ UNCHANGED <<stage, corrections>>
  BY DEF Replace
<1>2. Sound(pc[r], read[r], pairs, r \notin gone, fixtures, astray, corrected, format, field, b, Seated)
  BY DEF RoundInv, SoundAll
<1>3. Disjoint(pairs) /\ (format = "swiss" => Drawn(pairs) = Seated)
  BY <1>1, <1>2 DEF Sound, Ordered
<1>4. /\ pairs \in Seq(Entrant \X (Entrant \cup {Nobody})) /\ DOMAIN pairs = 1..Len(pairs) /\ Len(pairs) \in Nat
  BY LenProperties DEF RoundInv, TypeOK
<1> HIDE DEF pairs
<1>5. /\ Extends(<<>>, fixtures', pairs, 1) /\ Len(fixtures') = Len(pairs)
      /\ fixtures' \in Seq(ToSet(fixtures'))
  <2>1. /\ DOMAIN fixtures' = 1..Len(pairs) /\ Len(fixtures') = Len(pairs)
        /\ \A m \in 1..Len(pairs) : fixtures'[m] = New(pairs[m], 1)
    BY <1>1, <1>4 DEF Rows
  <2>2. fixtures' = [i \in 1..Len(pairs) |-> fixtures'[i]]
    BY <1>1, <1>4 DEF Rows
  <2>3. fixtures' \in Seq(ToSet(fixtures'))
    BY <1>4, <2>1, <2>2 DEF ToSet
  <2>4. \A m \in 1..Len(pairs) : 0 + m = m /\ m - 0 = m
    BY <1>4
  <2>5. Len(<<>>) = 0 /\ DOMAIN <<>> = {}
    OBVIOUS
  <2> QED BY <1>4, <2>1, <2>3, <2>4, <2>5 DEF Extends
<1>6. /\ field \in Nat /\ b \in Nat \ {0} /\ 1 \in 1..b
  BY InvFacts
<1>7. IsPlayed(<<>>, field, b) /\ Unbroken(<<>>, {}) /\ Even(<<>>, format, Seated) /\ Paired(<<>>, {}, format)
  BY DEF IsPlayed, Unbroken, Contiguous, Even, Paired
<1>8. IsPlayed(fixtures', field, b)
  BY <1>4, <1>5, <1>6, <1>7, RowsTypes DEF Entrant
<1>9. IsStage(<<>>, field, b) /\ IsStage(fixtures', field, b)
  BY <1>6, <1>7, <1>8, StageFacts
<1>10. TypeOK' /\ Seated' = Seated /\ format' = format /\ field' = field
  <2>1. corrections \in 0..MaxCorrections[format]
    BY DEF RoundInv, TypeOK
  <2>2. format' = format /\ field' = field
    BY <1>1 DEF stage
  <2>3. gone' \subseteq Request
    BY <1>1
  <2> QED BY <1>1, <1>5, <1>8, <2>1, <2>2, <2>3, EndsFacts, TypesAfter
<1>11. /\ pc'[r] = "idle"
       /\ \A q \in Request \ {r} : pc'[q] = pc[q] /\ read'[q] = read[q] /\ plan'[q] = plan[q]
  BY <1>1, EndsFacts
<1>12. Late'
  <2>1. \A i \in DOMAIN fixtures' : fixtures'[i].status = "scheduled"
    BY <1>5 DEF Extends, New
  <2> QED BY <2>1 DEF Late
<1>13. format = "swiss" => fixtures' # <<>>
  <2>1. ASSUME format = "swiss" PROVE 1 \in Seated
    BY <1>6, InvFacts, BoundAssumption DEF Seated
  <2>2. ASSUME format = "swiss" PROVE DOMAIN pairs # {}
    BY <1>3, <2>1, <2>2 DEF Drawn
  <2> QED BY <1>5, <2>2 DEF Extends
<1>14. SoundAll'
  <2>1. SUFFICES ASSUME NEW q \in Request
                 PROVE  Sound(pc'[q], read'[q], plan'[q], q \notin gone', fixtures', {}, {},
                              format, field, b, Seated)
    BY <1>1, <1>10 DEF SoundAll
  <2>2. CASE q = r
    BY <1>11, <2>2 DEF Sound
  <2>3. CASE q # r
    <3>1. Sound(pc[q], read[q], plan[q], q \notin gone, fixtures, astray, corrected, format, field, b, Seated)
      BY DEF RoundInv, SoundAll
    <3>2. pc'[q] = pc[q] /\ read'[q] = read[q] /\ plan'[q] = plan[q]
      BY <1>11, <2>3
    <3>3. CASE Reading(q)
      <4>1. q \in gone' /\ pc[q] \in {"matches", "results", "insert"}
        BY <1>1, <3>3 DEF Reading
      <4>2. format = "swiss" /\ IsSeated(read[q], fixtures, Seated) => IsSeated(read[q], fixtures', Seated)
        BY <1>13 DEF IsSeated
      <4> QED BY <3>1, <3>2, <4>1, <4>2 DEF Sound
    <3>4. CASE ~Reading(q)
      BY <3>1, <3>2, <3>4 DEF Sound, Reading
    <3> QED BY <3>3, <3>4
  <2> QED BY <2>2, <2>3
<1>15. InTime(<<>>, {}, 1, {}) /\ \A d, e : ~Met(<<>>, d, e)
  <2>1. \A i : i \notin DOMAIN <<>>
    OBVIOUS
  <2>2. InRound(<<>>, 1) = {}
    BY <2>1 DEF InRound
  <2> QED BY <2>1, <2>2 DEF InTime, Met
<1>16. Unbroken(fixtures', {})
  BY <1>5, <1>6, <1>7, <1>9, <1>15, ExtendKeeps
<1>17. Even(fixtures', format, Seated)
  BY <1>3, <1>5, <1>7, ExtendEven
<1>18. Paired(fixtures', {}, format)
  BY <1>3, <1>5, <1>6, <1>7, <1>9, <1>15, ExtendPaired
<1>19. InTurn(fixtures', {}, {}, format)
  BY <1>5, <1>6, <1>7, <1>9, <1>15, CreateTurn
<1> QED BY <1>1, <1>10, <1>12, <1>14, <1>16, <1>17, <1>18, <1>19 DEF RoundInv

-----------------------------------------------------------------------------
\* The other requests change nothing but what one of them holds, and late when no
\* replacement is left.
LateKept == late' = late \/ (late' = {} /\ \A q \in Request : pc'[q] # "replace")
Turns(r, place, vs, pairs) ==
  /\ UNCHANGED <<stage, fixtures, astray, corrected, corrections>>
  /\ LateKept /\ gone' \subseteq gone /\ gone \ {r} \subseteq gone'
  /\ place \in Place /\ vs \in Seq(Fixture) /\ pairs \in Seq(Entrant \X (Entrant \cup {Nobody}))
  /\ pc' = [pc EXCEPT ![r] = place] /\ read' = [read EXCEPT ![r] = vs]
  /\ plan' = [plan EXCEPT ![r] = pairs]
  /\ Sound(place, vs, pairs, r \notin gone', fixtures, astray, corrected, format, field, MaxRounds[field], Seated)
  /\ place = "replace" => \A i \in DOMAIN fixtures : fixtures[i].status = "scheduled"

\* A step of a request alone keeps the invariant if what it then holds is sound.
LEMMA RequestKeeps ==
  ASSUME RoundInv, NEW r \in Request, NEW place, NEW vs, NEW pairs, Turns(r, place, vs, pairs)
  PROVE  RoundInv'
<1> USE DEF Turns, LateKept
<1>1. /\ pc \in [Request -> Place] /\ read \in [Request -> Seq(Fixture)]
      /\ plan \in [Request -> Seq(Entrant \X (Entrant \cup {Nobody}))]
      /\ Len(fixtures) <= MaxFixtures[field] /\ late \subseteq DOMAIN fixtures
      /\ astray \subseteq 1..MaxRounds[field] /\ corrected \subseteq 1..MaxRounds[field]
      /\ corrections \in 0..MaxCorrections[format] /\ gone \subseteq Request
  BY DEF RoundInv, TypeOK, Place
<1>2. /\ pc' \in [Request -> Place] /\ read' \in [Request -> Seq(Fixture)]
      /\ plan' \in [Request -> Seq(Entrant \X (Entrant \cup {Nobody}))]
      /\ pc'[r] = place /\ read'[r] = vs /\ plan'[r] = pairs
      /\ \A q \in Request \ {r} : pc'[q] = pc[q] /\ read'[q] = read[q] /\ plan'[q] = plan[q]
  BY <1>1
<1>3. /\ fixtures' = fixtures /\ astray' = astray /\ corrected' = corrected /\ corrections' = corrections
      /\ format' = format /\ field' = field /\ late' \subseteq DOMAIN fixtures'
      /\ gone' \subseteq Request
  BY <1>1 DEF stage
<1>4. TypeOK' /\ Seated' = Seated
  BY <1>1, <1>2, <1>3, InvFacts, TypesAfter
<1>5. Late'
  <2>1. SUFFICES ASSUME NEW q \in Request, pc'[q] = "replace",
                        NEW i \in DOMAIN fixtures, fixtures[i].status = "in-progress"
                 PROVE  i \in late'
    BY <1>3 DEF Late
  <2>2. late' = late
    BY <2>1
  <2>3. q # r
    BY <1>2, <2>1
  <2>4. pc[q] = "replace"
    BY <1>2, <2>1, <2>3
  <2> QED BY <2>1, <2>2, <2>4 DEF RoundInv, Late
<1>6. SoundAll'
  <2>1. SUFFICES ASSUME NEW q \in Request
                 PROVE  Sound(pc'[q], read'[q], plan'[q], q \notin gone', fixtures, astray, corrected,
                              format, field, MaxRounds[field], Seated)
    BY <1>3, <1>4 DEF SoundAll
  <2>2. CASE q = r
    BY <1>2, <2>2
  <2>3. CASE q # r
    <3>1. (q \notin gone') = (q \notin gone)
      BY <2>3
    <3> QED BY <1>2, <2>3, <3>1 DEF RoundInv, SoundAll
  <2> QED BY <2>2, <2>3
<1> QED BY <1>3, <1>4, <1>5, <1>6 DEF RoundInv

\* What requests hold, as the steps below take it.
LEMMA Holds ==
  ASSUME RoundInv, NEW r \in Request
  PROVE  /\ pc[r] \in Place /\ read[r] \in Seq(Fixture)
         /\ plan[r] \in Seq(Entrant \X (Entrant \cup {Nobody}))
         /\ Sound(pc[r], read[r], plan[r], r \notin gone, fixtures, astray, corrected, format, field, MaxRounds[field], Seated)
         /\ pc' = pc => pc' = [pc EXCEPT ![r] = pc[r]]
         /\ read' = read => read' = [read EXCEPT ![r] = read[r]]
         /\ plan' = plan => plan' = [plan EXCEPT ![r] = plan[r]]
BY DEF RoundInv, TypeOK, SoundAll, Place

\* A publication holds the pairs of an order.
LEMMA PublishStep == ASSUME RoundInv, NEW r \in Request, Publish(r) PROVE RoundInv'
<1> DEFINE ids   == IF fixtures = <<>> THEN [e \in Entrant |-> e] ELSE Descending(Everyone(fixtures))
           place == IF fixtures = <<>> THEN "create" ELSE "check"
<1>1. /\ FirstRound(ids) \in Seq(Entrant \X (Entrant \cup {Nobody}))
      /\ Ordered(FirstRound(ids), format, Seated)
  BY InvFacts, PublishFacts DEF RoundInv
<1>2. /\ plan' = [plan EXCEPT ![r] = FirstRound(ids)] /\ pc' = [pc EXCEPT ![r] = place]
      /\ read' = [read EXCEPT ![r] = read[r]] /\ late' = late /\ gone' = gone
      /\ UNCHANGED <<stage, fixtures, astray, corrected, corrections>>
  BY Holds DEF Publish, Begins, Goto, history
<1>3. place \in Place /\ place \in {"create", "check"}
  BY DEF Place
<1> HIDE DEF ids, place
<1>4. Sound(place, read[r], FirstRound(ids), r \notin gone, fixtures, astray, corrected, format, field, MaxRounds[field], Seated)
  BY <1>1, <1>3 DEF Sound
<1>5. read[r] \in Seq(Fixture) /\ place # "replace"
  BY <1>3, Holds
<1>6. Turns(r, place, read[r], FirstRound(ids))
  BY <1>1, <1>2, <1>3, <1>4, <1>5 DEF Turns, LateKept
<1> QED BY <1>6, RequestKeeps

\* A request that ends holds nothing.
LEMMA EndStep ==
  ASSUME RoundInv, NEW r \in Request, Ends(r), UNCHANGED <<stage, fixtures, astray, corrected, corrections>>,
         gone' \subseteq gone, gone \ {r} \subseteq gone', LateKept
  PROVE  RoundInv'
<1>1. /\ pc' = [pc EXCEPT ![r] = "idle"]
      /\ read' = [read EXCEPT ![r] = <<>>] /\ plan' = [plan EXCEPT ![r] = <<>>]
  BY DEF Ends, Goto
<1>2. "idle" \in Place /\ <<>> \in Seq(Fixture) /\ <<>> \in Seq(Entrant \X (Entrant \cup {Nobody}))
  BY DEF Place
<1>3. Sound("idle", <<>>, <<>>, r \notin gone', fixtures, astray, corrected, format, field, MaxRounds[field], Seated)
  BY DEF Sound
<1>4. Turns(r, "idle", <<>>, <<>>)
  BY <1>1, <1>2, <1>3 DEF Turns, LateKept
<1> QED BY <1>4, RequestKeeps

\* A replacement goes past its check when nothing has started.
LEMMA CheckStep == ASSUME RoundInv, NEW r \in Request, Check(r) PROVE RoundInv'
<1>1. /\ pc[r] = "check" /\ UNCHANGED <<stage, fixtures, astray, corrected, corrections>>
      /\ late' = late /\ gone' = gone
  BY DEF Check, history
<1>2. CASE Attached
  <2>1. Ends(r)
    BY <1>2 DEF Check
  <2> QED BY <1>1, <2>1, EndStep DEF LateKept
<1>3. CASE ~Attached
  <2>1. /\ pc' = [pc EXCEPT ![r] = "replace"]
        /\ read' = [read EXCEPT ![r] = read[r]] /\ plan' = [plan EXCEPT ![r] = plan[r]]
    BY <1>3, Holds DEF Check, Goto
  <2>2. Sound("replace", read[r], plan[r], r \notin gone', fixtures, astray, corrected, format, field, MaxRounds[field], Seated)
    <3>1. Ordered(plan[r], format, Seated)
      BY <1>1, Holds DEF Sound
    <3> QED BY <3>1 DEF Sound
  <2>3. \A i \in DOMAIN fixtures : fixtures[i].status = "scheduled"
    BY <1>3 DEF Attached
  <2>4. "replace" \in Place /\ read[r] \in Seq(Fixture) /\ plan[r] \in Seq(Entrant \X (Entrant \cup {Nobody}))
    BY Holds DEF Place
  <2>5. Turns(r, "replace", read[r], plan[r])
    BY <1>1, <2>1, <2>2, <2>3, <2>4 DEF Turns, LateKept
  <2> QED BY <2>5, RequestKeeps
<1> QED BY <1>2, <1>3

\* A deletion that fails leaves everything as it is.
LEMMA ReplaceFailsStep == ASSUME RoundInv, NEW r \in Request, ReplaceFails(r) PROVE RoundInv'
<1>1. Ends(r) /\ UNCHANGED <<stage, fixtures, gone, astray, corrected, corrections>>
  BY DEF ReplaceFails
<1>2. CASE \E q \in Request \ {r} : pc[q] = "replace"
  <2>1. late' = late
    BY <1>2 DEF ReplaceFails
  <2> QED BY <1>1, <2>1, EndStep DEF LateKept
<1>3. CASE ~ \E q \in Request \ {r} : pc[q] = "replace"
  <2>1. late' = {}
    BY <1>3 DEF ReplaceFails
  <2>2. \A q \in Request : pc'[q] # "replace"
    BY <1>1, <1>3, EndsFacts
  <2> QED BY <1>1, <2>1, <2>2, EndStep DEF LateKept
<1> QED BY <1>2, <1>3

\* A fixture and its winner.
LEMMA FixtureFacts ==
  ASSUME RoundInv, NEW i \in DOMAIN fixtures
  PROVE  /\ fixtures[i] \in Fixture /\ fixtures[i].round \in 1..MaxRounds[field]
         /\ fixtures[i].winner \in {fixtures[i].home, fixtures[i].away, Nobody}
         /\ fixtures[i].winner \in Entrant \cup {Nobody}
<1>1. fixtures[i] \in Fixture
  BY InvFacts, LenProperties
<1> QED BY <1>1 DEF RoundInv, TypeOK, Fixture

\* nextRound's first read: the fixtures, of those who are seated.
LEMMA AdvanceStep == ASSUME RoundInv, NEW r \in Request, Advance(r) PROVE RoundInv'
<1> DEFINE b  == MaxRounds[field]
           vs == [i \in DOMAIN fixtures |-> New(<<fixtures[i].home, fixtures[i].away>>, fixtures[i].round)]
<1>1. /\ fixtures # <<>> /\ LastRound(fixtures) < b
      /\ read' = [read EXCEPT ![r] = vs] /\ pc' = [pc EXCEPT ![r] = "matches"]
      /\ plan' = [plan EXCEPT ![r] = plan[r]] /\ late' = late /\ gone' = gone
      /\ UNCHANGED <<stage, fixtures, astray, corrected, corrections>>
  BY Holds DEF Advance, Begins, Goto, history
<1>2. /\ fixtures \in Seq(Fixture) /\ IsStage(fixtures, field, b) /\ Fixture = FixtureOf(field, b)
      /\ field \in Nat /\ b \in Nat
  BY InvFacts
<1>3. /\ DOMAIN vs = DOMAIN fixtures
      /\ \A i \in DOMAIN fixtures :
           /\ vs[i].round = fixtures[i].round /\ vs[i].home = fixtures[i].home
           /\ vs[i].away = fixtures[i].away /\ vs[i].winner = Nobody /\ vs[i] \in Fixture
  <2>1. \A i \in DOMAIN fixtures : fixtures[i] \in FixtureOf(field, b)
    BY <1>2, LenProperties
  <2> QED BY <1>2, <2>1 DEF New, FixtureOf
<1>4. vs \in Seq(Fixture) /\ IsPlayed(vs, field, b)
  <2>1. DOMAIN fixtures = 1..Len(fixtures) /\ Len(fixtures) \in Nat
    BY <1>2 DEF IsStage
  <2>2. vs \in [1..Len(fixtures) -> Fixture]
    BY <1>3, <2>1
  <2>3. vs \in Seq(Fixture)
    BY <2>1, <2>2, SeqDef
  <2> HIDE DEF vs
  <2> QED BY <1>2, <1>3, <2>3 DEF IsPlayed
<1> HIDE DEF vs
<1>5. IsStage(vs, field, b)
  BY <1>2, <1>4, StageFacts
<1>6. vs # <<>> /\ LastRound(vs) = LastRound(fixtures)
  <2>1. PICK j \in DOMAIN fixtures :
          fixtures[j].round = LastRound(fixtures) /\ \A l \in DOMAIN fixtures : fixtures[l].round <= fixtures[j].round
    BY <1>1, <1>2, LastFacts
  <2>2. j \in DOMAIN vs /\ vs[j].round = LastRound(fixtures) /\ \A l \in DOMAIN vs : vs[l].round <= vs[j].round
    BY <1>3, <2>1
  <2> QED BY <1>5, <2>2, LastIs
<1>7. IsPart(vs, fixtures, astray, field, b)
  BY <1>1, <1>3, <1>5, <1>6 DEF IsPart, IsRead
<1>8. format = "swiss" => IsSeated(vs, fixtures, Seated)
  <2>1. \A i \in DOMAIN fixtures : fixtures[i].home # Nobody
    BY <1>2 DEF IsStage, Nobody
  <2>2. format = "swiss" => Everyone(fixtures) = Seated
    BY <1>1 DEF RoundInv, Even
  <2> QED BY <1>1, <1>3, <2>1, <2>2 DEF IsSeated, Everyone, Players
<1>9. Sound("matches", vs, plan[r], r \notin gone, fixtures, astray, corrected, format, field, b, Seated)
  BY <1>7, <1>8 DEF Sound, IsPart
<1>10. "matches" \in Place /\ plan[r] \in Seq(Entrant \X (Entrant \cup {Nobody}))
  BY Holds DEF Place
<1> HIDE DEF b
<1>11. Turns(r, "matches", vs, plan[r])
  BY <1>1, <1>4, <1>9, <1>10 DEF Turns, LateKept, b
<1> QED BY <1>11, RequestKeeps

\* Its second read: a view, of a complete round, unless the fixtures are gone.
LEMMA ReadMatchesStep == ASSUME RoundInv, NEW r \in Request, ReadMatches(r) PROVE RoundInv'
<1> DEFINE b   == MaxRounds[field]
           fs  == read[r]
           now == IF r \in gone THEN fs ELSE [i \in DOMAIN fs |-> fixtures[i]]
<1>1. /\ pc[r] = "matches" /\ late' = late /\ UNCHANGED <<stage, fixtures, astray, corrected, corrections>>
      /\ \/ /\ r \in gone \/ Complete(now)
            /\ read' = [read EXCEPT ![r] = now] /\ pc' = [pc EXCEPT ![r] = "results"]
            /\ plan' = [plan EXCEPT ![r] = plan[r]] /\ gone' = gone
         \/ Ends(r) /\ gone' = gone \ {r}
  BY Holds DEF ReadMatches, Goto, history
<1>2. CASE Ends(r) /\ gone' = gone \ {r}
  BY <1>1, <1>2, EndStep DEF LateKept
<1>3. ASSUME r \in gone \/ Complete(now), read' = [read EXCEPT ![r] = now],
             pc' = [pc EXCEPT ![r] = "results"], plan' = [plan EXCEPT ![r] = plan[r]], gone' = gone
      PROVE  RoundInv'
  <2>1. /\ IsRead(fs, field, b) /\ (format = "swiss" => IsSeated(fs, fixtures, Seated))
        /\ r \notin gone => IsPart(fs, fixtures, astray, field, b)
        /\ fs \in Seq(Fixture) /\ plan[r] \in Seq(Entrant \X (Entrant \cup {Nobody})) /\ "results" \in Place
    BY <1>1, Holds DEF Sound, Place
  <2>2. CASE r \in gone
    <3>1. now = fs
      BY <2>2
    <3>2. Sound("results", now, plan[r], r \notin gone, fixtures, astray, corrected, format, field, b, Seated)
      BY <2>1, <2>2, <3>1 DEF Sound
    <3> HIDE DEF now, b, fs
    <3>3. Turns(r, "results", now, plan[r])
      BY <1>1, <1>3, <2>1, <3>1, <3>2 DEF Turns, LateKept, b
    <3> QED BY <3>3, RequestKeeps
  <2>3. CASE r \notin gone
    <3> HIDE DEF b, fs
    <3>1. now = [i \in DOMAIN fs |-> fixtures[i]] /\ Complete(now)
      BY <1>3, <2>3
    <3> HIDE DEF now
    <3>2. /\ DOMAIN fs = 1..Len(fs) /\ Len(fs) \in Nat /\ IsStage(fs, field, b) /\ fs # <<>>
          /\ DOMAIN fs \subseteq DOMAIN fixtures /\ LastRound(fs) < b
          /\ \A i \in DOMAIN fs : /\ fs[i].round = fixtures[i].round /\ fs[i].home = fixtures[i].home
                                  /\ fs[i].away = fixtures[i].away
      BY <2>1, <2>3 DEF IsPart, IsRead, IsStage
    <3>3. now \in Seq(Fixture) /\ DOMAIN now = DOMAIN fs
      <4>1. \A i \in DOMAIN fs : fixtures[i] \in Fixture
        BY <3>2, FixtureFacts
      <4>2. now \in [1..Len(fs) -> Fixture]
        BY <3>1, <3>2, <4>1
      <4> QED BY <3>2, <4>2, SeqDef
    <3>4. IsStage(now, field, b)
      <4>1. \A i \in DOMAIN now : now[i].winner \in {now[i].home, now[i].away, Nobody}
        BY <3>1, <3>2, <3>3, FixtureFacts
      <4>2. field \in Nat /\ b \in Nat /\ Fixture = FixtureOf(field, b)
        BY InvFacts DEF b
      <4> QED BY <3>3, <4>1, <4>2, StageFacts DEF IsPlayed
    <3>5. now # <<>> /\ LastRound(now) = LastRound(fs)
      <4>1. PICK j \in DOMAIN fs :
              fs[j].round = LastRound(fs) /\ \A l \in DOMAIN fs : fs[l].round <= fs[j].round
        BY <3>2, LastFacts
      <4>2. j \in DOMAIN now /\ now[j].round = LastRound(fs) /\ \A l \in DOMAIN now : now[l].round <= now[j].round
        BY <3>1, <3>2, <3>3, <4>1
      <4> QED BY <3>4, <4>2, LastIs
    <3>6. IsView(now, fixtures, astray, corrected, field, b)
      BY <2>1, <2>3, <3>1, <3>2, <3>3, <3>4, <3>5 DEF IsView, IsPart, IsRead
    <3>7. format = "swiss" => IsSeated(now, fixtures, Seated)
      BY <2>1, <3>1, <3>2, <3>3 DEF IsSeated
    <3>8. Sound("results", now, plan[r], r \notin gone, fixtures, astray, corrected, format, field, b, Seated)
      BY <3>6, <3>7 DEF Sound, IsView, IsPart
    <3>9. Turns(r, "results", now, plan[r])
      BY <1>1, <1>3, <2>1, <3>3, <3>8 DEF Turns, LateKept, b
    <3> QED BY <3>9, RequestKeeps
  <2> QED BY <2>2, <2>3
<1> QED BY <1>1, <1>2, <1>3

\* Its third read draws pairs that fit, or none.
LEMMA DrawRoundStep == ASSUME RoundInv, NEW r \in Request, DrawRound(r) PROVE RoundInv'
<1> DEFINE pairs == Draw(read[r], r \notin gone)
           b     == MaxRounds[field]
<1>1. pc[r] = "results" /\ UNCHANGED <<stage, fixtures, astray, corrected, corrections>> /\ late' = late
  BY DEF DrawRound, history
<1>2. /\ IsRead(read[r], field, b) /\ (format = "swiss" => IsSeated(read[r], fixtures, Seated))
      /\ r \notin gone => IsView(read[r], fixtures, astray, corrected, field, b)
  BY <1>1, Holds DEF Sound
<1>3. CASE pairs = NoPairing
  <2>1. Ends(r) /\ gone' = gone \ {r}
    BY <1>3 DEF DrawRound
  <2> QED BY <1>1, <2>1, EndStep DEF LateKept
<1>4. CASE pairs # NoPairing
  <2>1. /\ plan' = [plan EXCEPT ![r] = pairs] /\ pc' = [pc EXCEPT ![r] = "insert"]
        /\ read' = [read EXCEPT ![r] = read[r]] /\ gone' = gone
    BY <1>4, Holds DEF DrawRound, Goto
  <2>2. read[r] \in Seq(Fixture)
    BY Holds
  <2>3. /\ pairs \in Seq(Entrant \X (Entrant \cup {Nobody}))
        /\ format = "swiss" => Drawn(pairs) \subseteq Seated
        /\ r \notin gone => Fits(pairs, read[r], fixtures, astray, corrected, format, Seated)
    <3> DEFINE there == r \notin gone
    <3>1. pairs = Draw(read[r], there) /\ there \in BOOLEAN
      OBVIOUS
    <3>2. Even(fixtures, format, Seated) /\ Paired(fixtures, astray, format)
      BY DEF RoundInv
    <3>3. there => IsView(read[r], fixtures, astray, corrected, field, b)
      BY <1>2
    <3> HIDE DEF pairs, there
    <3>4. /\ pairs \in Seq(Entrant \X (Entrant \cup {Nobody}))
          /\ format = "swiss" => Drawn(pairs) \subseteq Seated
          /\ there => Fits(pairs, read[r], fixtures, astray, corrected, format, Seated)
      BY <1>2, <1>4, <2>2, <3>1, <3>2, <3>3, InvFacts, DrawFacts
    <3> QED BY <3>4 DEF there
  <2> HIDE DEF pairs
  <2>4. Sound("insert", read[r], pairs, r \notin gone, fixtures, astray, corrected, format, field, b, Seated)
    BY <1>2, <2>3 DEF Sound
  <2>5. "insert" \in Place
    BY DEF Place
  <2>6. Turns(r, "insert", read[r], pairs)
    BY <1>1, <2>1, <2>2, <2>3, <2>4, <2>5 DEF Turns, LateKept
  <2> QED BY <2>6, RequestKeeps
<1> QED BY <1>3, <1>4

-----------------------------------------------------------------------------
\* A match is played: the fixtures keep their places, and results that change
\* once they were read are marked.
Played(i, cp) ==
  /\ UNCHANGED <<stage, pc, read, plan, gone, astray>>
  /\ corrected \subseteq cp /\ corrected' = cp /\ cp \subseteq 1..MaxRounds[field]
  /\ Plays(fixtures, fixtures', i, cp)
  /\ \A r \in Request : pc[r] \in {"results", "insert"} =>
       (fixtures[i].status = "finalized" /\ fixtures'[i].winner # fixtures[i].winner => fixtures[i].round \in cp)
  /\ IsPlayed(fixtures', field, MaxRounds[field]) /\ Len(fixtures') = Len(fixtures)
  /\ late \ {i} \subseteq late' /\ late' \subseteq DOMAIN fixtures
  /\ corrections' \in 0..MaxCorrections[format]
  /\ \A r \in Request : pc[r] = "replace" /\ fixtures'[i].status = "in-progress" => i \in late'

\* Playing a match keeps the invariant.
LEMMA PlayedKeeps == ASSUME RoundInv, NEW i, NEW cp, Played(i, cp) PROVE RoundInv'
<1> DEFINE b == MaxRounds[field]
<1>1. /\ IsStage(fixtures, field, b) /\ Unbroken(fixtures, astray) /\ Even(fixtures, format, Seated)
      /\ Paired(fixtures, astray, format) /\ InTurn(fixtures, astray, corrected, format)
  BY InvFacts DEF RoundInv
<1>2. /\ format' = format /\ field' = field /\ pc' = pc /\ read' = read /\ plan' = plan
      /\ gone' = gone /\ astray' = astray
      /\ corrected \subseteq cp /\ corrected' = cp /\ Plays(fixtures, fixtures', i, cp)
      /\ IsPlayed(fixtures', field, b)
  BY DEF Played, stage
<1>3. IsStage(fixtures', field, b)
  BY <1>2, InvFacts, StageFacts
<1>4. DOMAIN fixtures' = DOMAIN fixtures
  BY <1>2 DEF Plays
<1>5. TypeOK' /\ Seated' = Seated
  <2>1. /\ pc \in [Request -> Place] /\ read \in [Request -> Seq(Fixture)]
        /\ plan \in [Request -> Seq(Entrant \X (Entrant \cup {Nobody}))]
        /\ Len(fixtures) <= MaxFixtures[field] /\ astray \subseteq 1..b /\ gone \subseteq Request
    BY DEF RoundInv, TypeOK, Place
  <2>2. UNCHANGED stage
    BY DEF Played
  <2> QED BY <1>2, <1>4, <2>1, <2>2, TypesAfter DEF Played
<1>6. Late'
  <2>1. SUFFICES ASSUME NEW r \in Request, pc[r] = "replace",
                        NEW j \in DOMAIN fixtures, fixtures'[j].status = "in-progress"
                 PROVE  j \in late'
    BY <1>2, <1>4 DEF Late
  <2>2. CASE j = i
    BY <2>1, <2>2 DEF Played
  <2>3. CASE j # i
    <3>1. fixtures'[j] = fixtures[j]
      BY <1>2, <2>3 DEF Plays
    <3> QED BY <2>1, <3>1 DEF Played, RoundInv, Late
  <2> QED BY <2>2, <2>3
<1>7. SoundAll'
  <2>1. SUFFICES ASSUME NEW r \in Request
                 PROVE  Sound(pc[r], read[r], plan[r], r \notin gone, fixtures', astray, cp, format, field, b, Seated)
    BY <1>2, <1>5 DEF SoundAll
  <2>2. Sound(pc[r], read[r], plan[r], r \notin gone, fixtures, astray, corrected, format, field, b, Seated)
    BY Holds
  <2>3. pc[r] \in {"results", "insert"} =>
          (fixtures[i].status = "finalized" /\ fixtures'[i].winner # fixtures[i].winner => fixtures[i].round \in cp)
    BY DEF Played
  <2> QED BY <1>1, <1>2, <1>3, <2>2, <2>3, PlaysSound
<1>8. /\ Unbroken(fixtures', astray) /\ Even(fixtures', format, Seated) /\ Paired(fixtures', astray, format)
  BY <1>1, <1>2, <1>3, PlaysKeeps
<1>9. InTurn(fixtures', astray, cp, format)
  BY <1>1, <1>2, <1>3, PlaysTurn
<1> QED BY <1>2, <1>5, <1>6, <1>7, <1>8, <1>9 DEF RoundInv

\* What a match is given, a status and perhaps a winner, leaves the rest alone.
LEMMA PlayFacts ==
  ASSUME RoundInv, NEW i \in DOMAIN fixtures, NEW f, f \in Fixture,
         f.round = fixtures[i].round, f.home = fixtures[i].home, f.away = fixtures[i].away,
         f.winner \in {f.home, f.away, Nobody},
         fixtures[i].status = "finalized" => f.status = "finalized",
         fixtures' = [fixtures EXCEPT ![i] = f], NEW cp,
         fixtures[i].status = "finalized" /\ f.winner # fixtures[i].winner
           /\ fixtures[i].round < LastRound(fixtures) => fixtures[i].round \in cp
  PROVE  /\ Plays(fixtures, fixtures', i, cp) /\ fixtures'[i] = f
         /\ IsPlayed(fixtures', field, MaxRounds[field]) /\ Len(fixtures') = Len(fixtures)
<1>1. /\ fixtures \in Seq(Fixture) /\ Fixture = FixtureOf(field, MaxRounds[field])
      /\ IsPlayed(fixtures, field, MaxRounds[field])
  BY InvFacts
<1>2. fixtures' \in Seq(Fixture) /\ Len(fixtures') = Len(fixtures) /\ DOMAIN fixtures' = DOMAIN fixtures
  BY <1>1
<1>3. fixtures'[i] = f /\ \A j \in DOMAIN fixtures : j # i => fixtures'[j] = fixtures[j]
  BY <1>1
<1>4. Plays(fixtures, fixtures', i, cp)
  BY <1>2, <1>3 DEF Plays
<1>5. IsPlayed(fixtures', field, MaxRounds[field])
  BY <1>1, <1>2, <1>3 DEF IsPlayed
<1> QED BY <1>2, <1>3, <1>4, <1>5

\* A match that starts past a replacement's check is late.
LEMMA StartStep == ASSUME RoundInv, NEW i \in DOMAIN fixtures, Start(i) PROVE RoundInv'
<1> DEFINE f == [fixtures[i] EXCEPT !.status = "in-progress"]
<1>1. /\ fixtures[i].status = "scheduled" /\ fixtures' = [fixtures EXCEPT ![i] = f]
      /\ late' = IF \E r \in Request : pc[r] = "replace" THEN late \cup {i} ELSE late
      /\ UNCHANGED <<stage, pc, read, plan, gone, astray>> /\ corrected' = corrected /\ corrections' = corrections
  BY DEF Start, requests
<1>2. /\ f \in Fixture /\ f.round = fixtures[i].round /\ f.home = fixtures[i].home
      /\ f.away = fixtures[i].away /\ f.winner = fixtures[i].winner /\ f.status = "in-progress"
  BY FixtureFacts DEF Fixture
<1> HIDE DEF f
<1>3. /\ Plays(fixtures, fixtures', i, corrected) /\ fixtures'[i] = f
      /\ IsPlayed(fixtures', field, MaxRounds[field]) /\ Len(fixtures') = Len(fixtures)
  BY <1>1, <1>2, FixtureFacts, PlayFacts
<1>4. /\ late \subseteq DOMAIN fixtures /\ corrected \subseteq 1..MaxRounds[field]
      /\ corrections \in 0..MaxCorrections[format]
  BY DEF RoundInv, TypeOK
<1>5. Played(i, corrected)
  BY <1>1, <1>3, <1>4 DEF Played
<1> QED BY <1>5, PlayedKeeps

\* A winner is one of the two, or nobody.
LEMMA WinnerFacts ==
  ASSUME RoundInv, NEW i \in DOMAIN fixtures, NEW v \in Verdict[field]
  PROVE  /\ Winner(fixtures[i], v) \in {fixtures[i].home, fixtures[i].away, Nobody}
         /\ Winner(fixtures[i], v) \in Entrant \cup {Nobody}
<1>1. v \in {"home", "away", "draw"}
  BY InvFacts
<1>2. fixtures[i].home \in Entrant /\ fixtures[i].away \in Entrant \cup {Nobody}
  BY FixtureFacts DEF Fixture
<1> QED BY <1>1, <1>2 DEF Winner

\* A first result changes none that was read.
RecordStep(i, v) ==
  /\ fixtures[i].status # "finalized" /\ RecordResult(i, v)
  /\ late \ {i} \subseteq late' /\ late' \subseteq late \cup {i}
  /\ UNCHANGED <<stage, requests, astray, corrected, corrections>>

LEMMA RecordKeeps ==
  ASSUME RoundInv, NEW i \in DOMAIN fixtures, NEW v \in Verdict[field], RecordStep(i, v) PROVE RoundInv'
<1> DEFINE w == Winner(fixtures[i], v)
           f == [fixtures[i] EXCEPT !.status = "finalized", !.winner = w]
<1>1. /\ fixtures[i].status # "finalized" /\ fixtures' = [fixtures EXCEPT ![i] = f]
      /\ UNCHANGED <<stage, pc, read, plan, gone, astray>>
      /\ late \ {i} \subseteq late' /\ late' \subseteq late \cup {i}
      /\ corrected' = corrected /\ corrections' = corrections
  BY DEF RecordStep, RecordResult, requests
<1>2. w \in {fixtures[i].home, fixtures[i].away, Nobody} /\ w \in Entrant \cup {Nobody}
  BY WinnerFacts
<1> HIDE DEF w
<1>3. /\ f \in Fixture /\ f.round = fixtures[i].round /\ f.home = fixtures[i].home
      /\ f.away = fixtures[i].away /\ f.winner = w /\ f.status = "finalized"
  BY <1>2, FixtureFacts DEF Fixture
<1> HIDE DEF f
<1>4. /\ Plays(fixtures, fixtures', i, corrected) /\ fixtures'[i] = f
      /\ IsPlayed(fixtures', field, MaxRounds[field]) /\ Len(fixtures') = Len(fixtures)
  BY <1>1, <1>2, <1>3, PlayFacts
<1>5. /\ late \subseteq DOMAIN fixtures /\ corrected \subseteq 1..MaxRounds[field]
      /\ corrections \in 0..MaxCorrections[format]
  BY DEF RoundInv, TypeOK
<1>6. Played(i, corrected)
  BY <1>1, <1>3, <1>4, <1>5 DEF Played
<1> QED BY <1>6, PlayedKeeps

LEMMA FinalizeStep ==
  ASSUME RoundInv, NEW i \in DOMAIN fixtures, NEW v \in Verdict[field], Finalize(i, v) PROVE RoundInv'
BY RecordKeeps DEF Finalize, RecordStep

LEMMA LoadStep ==
  ASSUME RoundInv, NEW i \in DOMAIN fixtures, NEW v \in Verdict[field], NEW bare, Load(i, v, bare)
  PROVE  RoundInv'
BY RecordKeeps DEF Load, RecordStep

\* A correction marks the round whose result was read.
LEMMA CorrectStep ==
  ASSUME RoundInv, NEW i \in DOMAIN fixtures, NEW v \in Verdict[field], Correct(i, v) PROVE RoundInv'
<1> DEFINE w == Winner(fixtures[i], v)
           f == [fixtures[i] EXCEPT !.winner = w]
<1>1. /\ fixtures[i].status = "finalized" /\ fixtures' = [fixtures EXCEPT ![i] = f]
      /\ corrected' = IF \/ fixtures[i].round < LastRound(fixtures)
                         \/ \E r \in Request : pc[r] \in {"results", "insert"}
                      THEN corrected \cup {fixtures[i].round} ELSE corrected
      /\ corrections < MaxCorrections[format] /\ corrections' = corrections + 1
      /\ UNCHANGED <<stage, pc, read, plan, gone, astray>> /\ late' = late
  BY DEF Correct, requests
<1>2. w \in {fixtures[i].home, fixtures[i].away, Nobody} /\ w \in Entrant \cup {Nobody}
  BY WinnerFacts
<1> HIDE DEF w
<1>3. /\ f \in Fixture /\ f.round = fixtures[i].round /\ f.home = fixtures[i].home
      /\ f.away = fixtures[i].away /\ f.winner = w /\ f.status = "finalized"
  BY <1>1, <1>2, FixtureFacts DEF Fixture
<1> HIDE DEF f
<1>4. fixtures[i].round < LastRound(fixtures) => fixtures[i].round \in corrected'
  BY <1>1
<1>5. /\ Plays(fixtures, fixtures', i, corrected') /\ fixtures'[i] = f
      /\ IsPlayed(fixtures', field, MaxRounds[field]) /\ Len(fixtures') = Len(fixtures)
  BY <1>1, <1>2, <1>3, <1>4, PlayFacts
<1>6. /\ late \subseteq DOMAIN fixtures /\ corrected \subseteq 1..MaxRounds[field]
      /\ corrections \in 0..MaxCorrections[format] /\ MaxCorrections[format] \in Nat
  BY InvFacts DEF RoundInv, TypeOK
<1>7. corrected \subseteq corrected' /\ corrected' \subseteq 1..MaxRounds[field]
  BY <1>1, <1>6, FixtureFacts
<1>8. corrections' \in 0..MaxCorrections[format]
  BY <1>1, <1>6
<1>9. Played(i, corrected')
  BY <1>1, <1>3, <1>5, <1>6, <1>7, <1>8 DEF Played
<1> QED BY <1>9, PlayedKeeps

-----------------------------------------------------------------------------
\* The invariant holds initially ...
LEMMA RoundStart == ASSUME Init PROVE RoundInv
<1>1. field \in Field /\ format \in Format /\ fixtures = <<>>
  BY DEF Init
<1>2. /\ field \in Nat /\ MaxFixtures[field] \in Nat /\ MaxCorrections[format] \in Nat
  BY <1>1, BoundAssumption
<1>3. \A i : i \notin DOMAIN <<>>
  OBVIOUS
<1>4. TypeOK
  BY <1>1, <1>2 DEF Init, TypeOK, Place
<1>5. Late /\ SoundAll
  BY DEF Init, Late, SoundAll, Sound
<1>6. Unbroken(fixtures, astray) /\ Even(fixtures, format, Seated) /\ Paired(fixtures, astray, format)
  BY <1>1, <1>3 DEF Unbroken, Contiguous, Even, Paired
<1>7. InTurn(fixtures, astray, corrected, format)
  <2>1. LastRound(fixtures) = 0
    BY <1>1 DEF LastRound
  <2> QED BY <2>1 DEF InTurn
<1> QED BY <1>4, <1>5, <1>6, <1>7 DEF RoundInv

\* ... and in every step.
LEMMA RoundStep == ASSUME RoundInv, [Next]_vars PROVE RoundInv'
<1>1. CASE UNCHANGED vars
  <2>1. /\ format' = format /\ field' = field /\ fixtures' = fixtures /\ pc' = pc /\ read' = read
        /\ plan' = plan /\ gone' = gone /\ astray' = astray /\ late' = late /\ corrected' = corrected
        /\ corrections' = corrections
    BY <1>1 DEF vars, stage, requests, history
  <2>2. TypeOK'
    BY <2>1 DEF RoundInv, TypeOK, Fixture, Entrant
  <2>3. Seated' = Seated
    BY <2>1 DEF Seated
  <2>4. Late' /\ SoundAll'
    BY <2>1, <2>3 DEF RoundInv, Late, SoundAll
  <2> QED BY <2>1, <2>2, <2>3, <2>4 DEF RoundInv
<1>2. ASSUME NEW r \in Request, \/ Publish(r) \/ Create(r) \/ Check(r) \/ Replace(r) \/ ReplaceFails(r)
                                \/ Advance(r) \/ ReadMatches(r) \/ DrawRound(r) \/ InsertRound(r)
      PROVE  RoundInv'
  BY <1>2, PublishStep, CreateStep, CheckStep, ReplaceStep, ReplaceFailsStep, AdvanceStep,
     ReadMatchesStep, DrawRoundStep, InsertRoundStep
<1>3. ASSUME NEW i \in DOMAIN fixtures,
             \/ Start(i)
             \/ \E v \in Verdict[field] : \/ Finalize(i, v) \/ Correct(i, v)
                                         \/ \E bare \in Loads[field] : Load(i, v, bare)
      PROVE  RoundInv'
  BY <1>3, StartStep, FinalizeStep, LoadStep, CorrectStep
<1> QED BY <1>1, <1>2, <1>3 DEF Next

\* TypeOK: whatever is drawn are pairs of entrants, and whatever is replaced,
\* inserted, played or corrected are fixtures of them.
THEOREM RoundTypes == Spec => []TypeOK
<1>1. RoundInv => TypeOK
  BY DEF RoundInv
<1> QED BY <1>1, RoundStart, RoundStep, PTL DEF Spec

\* PairedOnce: unless a round was inserted twice or drawn from fixtures that were
\* replaced meanwhile, nobody is drawn twice in a round, and no two entrants of a
\* Swiss stage meet twice, for any field.
THEOREM RoundsPairedOnce == Spec => []PairedOnce
<1>1. RoundInv => PairedOnce
  BY DEF RoundInv, PairedOnce, Paired
<1> QED BY <1>1, RoundStart, RoundStep, PTL DEF Spec

\* RoundsInTurn: with the same exceptions, a round follows one whose matches are
\* all final, and a bracket's is played by the winners of that one.
THEOREM RoundsFollow == Spec => []RoundsInTurn
<1>1. RoundInv => RoundsInTurn
  BY DEF RoundInv, RoundsInTurn, InTurn
<1> QED BY <1>1, RoundStart, RoundStep, PTL DEF Spec

\* PlayStands: no step but a replacement moves a fixture or takes its match back,
\* and whatever has started or been recorded when one deletes is late.
PlayKept ==
  \A i \in DOMAIN fixtures : Kept(i) =>
    /\ i \in DOMAIN fixtures'
    /\ fixtures'[i].home = fixtures[i].home /\ fixtures'[i].away = fixtures[i].away
    /\ fixtures'[i].status # "scheduled"

\* No step takes play back.
LEMMA KeptStep == ASSUME RoundInv, [Next]_vars PROVE PlayKept
<1>1. SUFFICES ASSUME NEW i \in DOMAIN fixtures, Kept(i)
               PROVE  /\ i \in DOMAIN fixtures'
                      /\ fixtures'[i].home = fixtures[i].home /\ fixtures'[i].away = fixtures[i].away
                      /\ fixtures'[i].status # "scheduled"
  BY DEF PlayKept
<1>2. fixtures[i].status # "scheduled"
  BY <1>1 DEF Kept
<1>3. CASE fixtures' = fixtures
  BY <1>2, <1>3
<1>4. ASSUME NEW r \in Request, NEW k, Insert(r, plan[r], k), k \in 1..MaxRounds[field]
      PROVE  i \in DOMAIN fixtures' /\ fixtures'[i] = fixtures[i]
  BY <1>4, InsertFacts DEF Extends
<1>5. ASSUME NEW r \in Request, Create(r) PROVE i \in DOMAIN fixtures' /\ fixtures'[i] = fixtures[i]
  <2>1. Insert(r, plan[r], 1) /\ 1 \in 1..MaxRounds[field]
    BY <1>5, InvFacts DEF Create
  <2> QED BY <1>4, <2>1
<1>6. ASSUME NEW r \in Request, InsertRound(r) PROVE i \in DOMAIN fixtures' /\ fixtures'[i] = fixtures[i]
  <2>1. pc[r] = "insert" /\ Insert(r, plan[r], LastRound(read[r]) + 1)
    BY <1>6 DEF InsertRound
  <2>2. IsRead(read[r], field, MaxRounds[field])
    BY <2>1, Holds DEF Sound
  <2>3. LastRound(read[r]) + 1 \in 1..MaxRounds[field]
    BY <2>2, InvFacts, LastFacts DEF IsRead
  <2> QED BY <1>4, <2>1, <2>3
<1>7. ASSUME NEW r \in Request, Replace(r) PROVE FALSE
  <2>1. pc[r] = "replace" /\ (fixtures[i].status = "finalized" => i \in late)
    BY <1>7 DEF Replace
  <2>2. fixtures[i].status = "in-progress" /\ i \notin late
    <3>1. fixtures[i] \in Fixture
      BY FixtureFacts
    <3> QED BY <1>1, <2>1, <3>1 DEF Kept, Fixture
  <2> QED BY <2>1, <2>2 DEF RoundInv, Late
<1>8. ASSUME NEW j \in DOMAIN fixtures, NEW v, NEW bare,
             Start(j) \/ Finalize(j, v) \/ Correct(j, v) \/ Load(j, v, bare)
      PROVE  /\ i \in DOMAIN fixtures'
             /\ fixtures'[i].home = fixtures[i].home /\ fixtures'[i].away = fixtures[i].away
             /\ fixtures'[i].status # "scheduled"
  <2>1. fixtures[i] \in Fixture /\ fixtures \in Seq(Fixture)
    BY InvFacts, FixtureFacts
  <2>2. CASE i = j
    BY <1>2, <1>8, <2>1, <2>2 DEF Start, Finalize, Load, RecordResult, Correct, Fixture
  <2>3. CASE i # j
    BY <1>2, <1>8, <2>1, <2>3 DEF Start, Finalize, Load, RecordResult, Correct
  <2> QED BY <2>2, <2>3
<1>9. ASSUME NEW r \in Request,
             \/ Publish(r) \/ Check(r) \/ ReplaceFails(r)
             \/ Advance(r) \/ ReadMatches(r) \/ DrawRound(r)
      PROVE  fixtures' = fixtures
  BY <1>9 DEF Publish, Check, ReplaceFails, Advance, ReadMatches, DrawRound
<1>10. CASE UNCHANGED vars
  BY <1>3, <1>10 DEF vars
<1>11. ASSUME NEW r \in Request, \/ Publish(r) \/ Create(r) \/ Check(r) \/ Replace(r) \/ ReplaceFails(r)
                                 \/ Advance(r) \/ ReadMatches(r) \/ DrawRound(r) \/ InsertRound(r)
       PROVE  /\ i \in DOMAIN fixtures'
              /\ fixtures'[i].home = fixtures[i].home /\ fixtures'[i].away = fixtures[i].away
              /\ fixtures'[i].status # "scheduled"
  BY <1>2, <1>3, <1>5, <1>6, <1>7, <1>9, <1>11
<1>12. ASSUME NEW j \in DOMAIN fixtures,
              \/ Start(j)
              \/ \E v \in Verdict[field] : \/ Finalize(j, v) \/ Correct(j, v)
                                          \/ \E bare \in Loads[field] : Load(j, v, bare)
       PROVE  /\ i \in DOMAIN fixtures'
              /\ fixtures'[i].home = fixtures[i].home /\ fixtures'[i].away = fixtures[i].away
              /\ fixtures'[i].status # "scheduled"
  BY <1>8, <1>12
<1> QED BY <1>10, <1>11, <1>12 DEF Next

\* A reseeding deletes no result and no match under way, unless it started, or was
\* loaded with nothing that refers to it, after the reseeding had looked.
THEOREM PlayIsKept == Spec => PlayStands
<1>1. RoundInv /\ [Next]_vars => [PlayKept]_vars
  BY KeptStep
<1>2. Spec => [][PlayKept]_vars
  BY <1>1, RoundStart, RoundStep, PTL DEF Spec
<1> QED BY <1>2 DEF PlayStands, PlayKept
=============================================================================
