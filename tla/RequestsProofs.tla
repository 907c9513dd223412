--------------------------- MODULE RequestsProofs ---------------------------
(***************************************************************************)
(* Proofs about the parts of Requests, for any number of keys, assets,     *)
(* updates, branches, imports, exports, calls, runs and years.             *)
(*                                                                         *)
(* RateLimit: the windows of a key never overlap, none lets through more   *)
(* than the limit, and no stretch of time as long as a window sees more    *)
(* than twice the limit.  Recognition: the treatment kept with an asset is *)
(* the one its fields call for.  Settings: making the row undoes no        *)
(* update.  Intake: every row of a sheet is reported, and the deletion of  *)
(* a branch without force strands newcomers only.  AssetExport: what an    *)
(* export leaves out shares a millisecond with the end of a page.          *)
(* Depreciation: runs charge within the base, the years add up, and        *)
(* rounding does not drift.                                                *)
(*                                                                         *)
(* Sums and pages are reasoned about by the smallest set, or the first     *)
(* year, for which a claim would be wrong.                                 *)
(***************************************************************************)
EXTENDS Requests, FiniteSetTheorems, WellFoundedInduction, TLAPS

-----------------------------------------------------------------------------
(* Least elements, and sums over finite sets *)

\* Every set of naturals with a member has a least one.
LEMMA LeastNat ==
    ASSUME NEW T, T \subseteq Nat, T # {}
    PROVE  \E m \in T : \A k \in T : m <= k
<1>1. PICK m \in T : \A k \in T : <<k, m>> \notin OpToRel(<, Nat)
  BY NatLessThanWellFounded, WFMin
<1>2. ASSUME NEW k \in T PROVE m <= k
  <2>1. \A x, y \in Nat : x < y => <<x, y>> \in OpToRel(<, Nat)
    BY DEF OpToRel
  <2>2. ~(k < m)
    BY <1>1, <2>1
  <2>3. QED
    BY <2>2
<1>3. QED
  BY <1>2

\* Of the subsets of a finite set with some property one has no smaller one with it.
LEMMA SmallestMember ==
    ASSUME NEW T, IsFiniteSet(T), NEW B, B \subseteq SUBSET T, B # {}
    PROVE  \E r \in B : /\ IsFiniteSet(r)
                       /\ \A q \in SUBSET r : q # r => q \notin B
<1> DEFINE C == {Cardinality(r) : r \in B}
<1>1. \A r \in SUBSET T : IsFiniteSet(r) /\ Cardinality(r) \in Nat
  BY FS_Subset, FS_CardinalityType
<1>2. C \subseteq Nat /\ C # {}
  BY <1>1
<1>3. PICK m \in C : \A k \in C : m <= k
  BY <1>2, LeastNat
<1>4. PICK r \in B : m = Cardinality(r)
  OBVIOUS
<1>5. ASSUME NEW q \in SUBSET r, q # r
      PROVE  q \notin B
  <2>1. Cardinality(q) <= Cardinality(r) /\ Cardinality(q) # Cardinality(r)
    BY <1>1, <1>4, <1>5, FS_Subset
  <2>2. Cardinality(q) \in Nat /\ Cardinality(r) \in Nat
    BY <1>1, <1>4
  <2> QED
    BY <1>3, <1>4, <2>1, <2>2
<1> QED
  BY <1>1, <1>4, <1>5

-----------------------------------------------------------------------------
(* Sums *)

\* The element that a sum over s takes first.
Pick(s) == CHOOSE x \in s : TRUE

\* g is the function that SumFunctionOnSet builds on the subsets of T.
IsSum(f, T, g) == g = [s \in SUBSET T |-> IF s = {} THEN 0 ELSE f[Pick(s)] + g[s \ {Pick(s)}]]

\* SumFunctionOnSet, unfolded.
LEMMA SumIsFold ==
    ASSUME NEW f, NEW T
    PROVE  SumFunctionOnSet(f, T) = (CHOOSE g : IsSum(f, T, g))[T]
  BY DEF SumFunctionOnSet, FoldFunctionOnSet, MapThenFoldSet, IsSum, Pick

\* Two such functions agree on the sets that both are defined on.
LEMMA SumIsUnique ==
    ASSUME NEW f, NEW T, NEW U, NEW g, NEW h, IsSum(f, T, g), IsSum(f, U, h),
           NEW s \in SUBSET T, s \subseteq U, IsFiniteSet(s)
    PROVE  g[s] = h[s]
<1> DEFINE B == {r \in SUBSET s : g[r] # h[r]}
<1>1. ASSUME B # {} PROVE FALSE
  <2>1. PICK r \in B : \A q \in SUBSET r : q # r => q \notin B
    <3>1. B \subseteq SUBSET s
      OBVIOUS
    <3> HIDE DEF B
    <3> QED
      BY <1>1, <3>1, SmallestMember
  <2>2. CASE r = {}
    BY <2>2 DEF IsSum
  <2>3. CASE r # {}
    <3>1. PICK p \in r : p = Pick(r)
      BY <2>3 DEF Pick
    <3>2. r \ {p} \notin B /\ r \ {p} \in SUBSET s
      BY <2>1, <3>1
    <3>3. g[r] = f[p] + g[r \ {p}] /\ h[r] = f[p] + h[r \ {p}]
      BY <2>3, <3>1 DEF IsSum
    <3> QED
      BY <3>2, <3>3
  <2> QED
    BY <2>2, <2>3
<1> QED
  BY <1>1

\* There is one for every finite set.
LEMMA SumExists ==
    ASSUME NEW f, NEW T, IsFiniteSet(T)
    PROVE  \E g : IsSum(f, T, g)
<1> DEFINE B == {r \in SUBSET T : ~\E g : IsSum(f, r, g)}
<1>1. ASSUME B # {} PROVE FALSE
  <2>1. PICK r \in B : IsFiniteSet(r) /\ \A q \in SUBSET r : q # r => q \notin B
    <3>1. B \subseteq SUBSET T
      OBVIOUS
    <3> HIDE DEF B
    <3> QED
      BY <1>1, <3>1, SmallestMember
  <2> DEFINE Part(q) == CHOOSE g : IsSum(f, q, g)
  <2>2. ASSUME NEW q \in SUBSET r, q # r
        PROVE  IsSum(f, q, Part(q))
    BY <2>1, <2>2
  <2> DEFINE g == [s \in SUBSET r |-> IF s = {} THEN 0
                                      ELSE f[Pick(s)] + Part(s \ {Pick(s)})[s \ {Pick(s)}]]
  <2>3. ASSUME NEW s \in SUBSET r, s # {}
        PROVE  Part(s \ {Pick(s)})[s \ {Pick(s)}] = g[s \ {Pick(s)}]
    <3>1. PICK t : t = s \ {Pick(s)}
      OBVIOUS
    <3>2. t \in SUBSET r /\ t # r
      BY <2>3, <3>1 DEF Pick
    <3>3. IsSum(f, t, Part(t))
      BY <2>2, <3>2
    <3>4. CASE t = {}
      BY <3>1, <3>2, <3>3, <3>4 DEF IsSum
    <3>5. CASE t # {}
      <4>1. PICK u : u = t \ {Pick(t)}
        OBVIOUS
      <4>2. u \in SUBSET t /\ u \in SUBSET r /\ u # r
        BY <3>2, <3>5, <4>1 DEF Pick
      <4>3. IsSum(f, u, Part(u)) /\ IsFiniteSet(u)
        BY <2>1, <2>2, <4>2, FS_Subset
      <4>4. Part(t)[u] = Part(u)[u]
        BY <3>3, <4>2, <4>3, SumIsUnique
      <4>5. Part(t)[t] = f[Pick(t)] + Part(t)[u]
        BY <3>3, <3>5, <4>1 DEF IsSum
      <4>6. g[t] = f[Pick(t)] + Part(u)[u]
        BY <3>2, <3>5, <4>1
      <4> QED
        BY <3>1, <4>4, <4>5, <4>6
    <3> QED
      BY <3>4, <3>5
  <2>4. \E h : IsSum(f, r, h)
    <3>1. PICK h : h = g
      OBVIOUS
    <3>2. \A s \in SUBSET r : h[s] = IF s = {} THEN 0 ELSE f[Pick(s)] + h[s \ {Pick(s)}]
      <4>1. ASSUME NEW s \in SUBSET r, s # {}
            PROVE  h[s] = f[Pick(s)] + h[s \ {Pick(s)}]
        <5>1. Part(s \ {Pick(s)})[s \ {Pick(s)}] = h[s \ {Pick(s)}]
          BY <2>3, <3>1, <4>1
        <5>2. h[s] = f[Pick(s)] + Part(s \ {Pick(s)})[s \ {Pick(s)}]
          BY <3>1, <4>1
        <5> QED
          BY <5>1, <5>2
      <4>2. h[{}] = 0
        BY <3>1
      <4> QED
        BY <4>1, <4>2
    <3>3. h = [s \in SUBSET r |-> h[s]]
      BY <3>1
    <3>4. IsSum(f, r, h)
      BY <3>2, <3>3, Zenon DEF IsSum
    <3> QED
      BY <3>4
  <2> QED
    BY <2>4
<1> QED
  BY <1>1

\* The sum over a finite set takes one element, and the sum over the others.
LEMMA SumSteps ==
    ASSUME NEW f, NEW T, IsFiniteSet(T)
    PROVE  /\ SumFunctionOnSet(f, {}) = 0
           /\ T # {} => /\ Pick(T) \in T
                        /\ SumFunctionOnSet(f, T) = f[Pick(T)] + SumFunctionOnSet(f, T \ {Pick(T)})
<1> DEFINE G(U) == CHOOSE g : IsSum(f, U, g)
<1>1. \A U : IsFiniteSet(U) => IsSum(f, U, G(U))
  BY SumExists
<1>2. SumFunctionOnSet(f, {}) = 0
  BY <1>1, SumIsFold, FS_EmptySet DEF IsSum
<1>3. ASSUME T # {}
      PROVE  /\ Pick(T) \in T
             /\ SumFunctionOnSet(f, T) = f[Pick(T)] + SumFunctionOnSet(f, T \ {Pick(T)})
  <2>1. PICK U : U = T \ {Pick(T)}
    OBVIOUS
  <2>2. IsFiniteSet(U) /\ U \in SUBSET T
    BY <2>1, FS_Subset
  <2>3. G(T)[T] = f[Pick(T)] + G(T)[U]
    <3>1. PICK h : h = G(T) /\ IsSum(f, T, h)
      BY <1>1
    <3>2. h[T] = f[Pick(T)] + h[U]
      BY <1>3, <2>1, <3>1 DEF IsSum
    <3> QED
      BY <3>1, <3>2
  <2>4. G(T)[U] = G(U)[U]
    BY <1>1, <2>2, SumIsUnique
  <2> QED
    BY <1>3, <2>1, <2>3, <2>4, SumIsFold DEF Pick
<1> QED
  BY <1>2, <1>3

\* A sum of integers is an integer.
LEMMA SumIsInt ==
    ASSUME NEW f, NEW T, IsFiniteSet(T), \A x \in T : f[x] \in Int
    PROVE  SumFunctionOnSet(f, T) \in Int
<1> DEFINE B == {r \in SUBSET T : SumFunctionOnSet(f, r) \notin Int}
<1>1. ASSUME B # {} PROVE FALSE
  <2>1. PICK r \in B : IsFiniteSet(r) /\ \A q \in SUBSET r : q # r => q \notin B
    <3>1. B \subseteq SUBSET T
      OBVIOUS
    <3> HIDE DEF B
    <3> QED
      BY <1>1, <3>1, SmallestMember
  <2>2. r # {}
    <3>1. SumFunctionOnSet(f, {}) = 0
      BY FS_EmptySet, SumSteps
    <3>2. SumFunctionOnSet(f, r) \notin Int
      OBVIOUS
    <3>3. ASSUME r = {} PROVE SumFunctionOnSet(f, r) = 0
      BY <3>1, <3>3
    <3>4. 0 \in Int
      OBVIOUS
    <3> HIDE DEF B
    <3> QED
      BY <3>2, <3>3, <3>4
  <2>3. Pick(r) \in r /\ SumFunctionOnSet(f, r) = f[Pick(r)] + SumFunctionOnSet(f, r \ {Pick(r)})
    BY <2>1, <2>2, SumSteps
  <2>4. SumFunctionOnSet(f, r \ {Pick(r)}) \in Int /\ f[Pick(r)] \in Int
    BY <2>1, <2>3
  <2> QED
    BY <2>3, <2>4
<1> QED
  BY <1>1

\* It does not matter which element is taken.
LEMMA SumTakes ==
    ASSUME NEW f, NEW T, IsFiniteSet(T), \A x \in T : f[x] \in Int, NEW y \in T
    PROVE  /\ SumFunctionOnSet(f, T \ {y}) \in Int /\ f[y] \in Int
           /\ SumFunctionOnSet(f, T) = f[y] + SumFunctionOnSet(f, T \ {y})
<1> DEFINE B == {r \in SUBSET T : \E x \in r :
                   SumFunctionOnSet(f, r) # f[x] + SumFunctionOnSet(f, r \ {x})}
<1>1. \A r \in SUBSET T : IsFiniteSet(r) /\ SumFunctionOnSet(f, r) \in Int
  BY FS_Subset, SumIsInt
<1>2. ASSUME B # {} PROVE FALSE
  <2>1. PICK r \in B : IsFiniteSet(r) /\ \A q \in SUBSET r : q # r => q \notin B
    <3>1. B \subseteq SUBSET T
      OBVIOUS
    <3> HIDE DEF B
    <3> QED
      BY <1>2, <3>1, SmallestMember
  <2>2. PICK x \in r : SumFunctionOnSet(f, r) # f[x] + SumFunctionOnSet(f, r \ {x})
    OBVIOUS
  <2>3. PICK p \in r : /\ p = Pick(r)
                       /\ SumFunctionOnSet(f, r) = f[p] + SumFunctionOnSet(f, r \ {p})
    <3>1. r # {}
      BY <2>2
    <3>2. /\ Pick(r) \in r
          /\ SumFunctionOnSet(f, r) = f[Pick(r)] + SumFunctionOnSet(f, r \ {Pick(r)})
      BY <2>1, <3>1, SumSteps
    <3> QED
      BY <3>2
  <2>4. p # x
    BY <2>2, <2>3
  <2>5. r \ {p} \notin B /\ r \ {x} \notin B
    BY <2>1
  <2>6. /\ SumFunctionOnSet(f, r \ {p}) = f[x] + SumFunctionOnSet(f, (r \ {p}) \ {x})
        /\ SumFunctionOnSet(f, r \ {x}) = f[p] + SumFunctionOnSet(f, (r \ {x}) \ {p})
    BY <2>4, <2>5
  <2>7. PICK q \in SUBSET T : q = (r \ {p}) \ {x} /\ q = (r \ {x}) \ {p}
    OBVIOUS
  <2>8. PICK m \in Int, n \in Int, k \in Int :
            m = f[x] /\ n = f[p] /\ k = SumFunctionOnSet(f, q)
    BY <1>1
  <2>9. SumFunctionOnSet(f, r) = n + (m + k) /\ SumFunctionOnSet(f, r \ {x}) = n + k
    BY <2>3, <2>6, <2>7, <2>8
  <2>10. n + (m + k) = m + (n + k)
    OBVIOUS
  <2> QED
    BY <2>2, <2>8, <2>9, <2>10
<1>3. T \notin B
  BY <1>2
<1> QED
  BY <1>1, <1>3

\* A sum depends on the values it adds only.
LEMMA SumSame ==
    ASSUME NEW f, NEW g, NEW T, IsFiniteSet(T), \A x \in T : f[x] = g[x]
    PROVE  SumFunctionOnSet(f, T) = SumFunctionOnSet(g, T)
<1> DEFINE B == {r \in SUBSET T : SumFunctionOnSet(f, r) # SumFunctionOnSet(g, r)}
<1>1. ASSUME B # {} PROVE FALSE
  <2>1. PICK r \in B : IsFiniteSet(r) /\ \A q \in SUBSET r : q # r => q \notin B
    <3>1. B \subseteq SUBSET T
      OBVIOUS
    <3> HIDE DEF B
    <3> QED
      BY <1>1, <3>1, SmallestMember
  <2>2. r # {}
    BY <2>1, SumSteps
  <2>3. /\ Pick(r) \in r
        /\ SumFunctionOnSet(f, r) = f[Pick(r)] + SumFunctionOnSet(f, r \ {Pick(r)})
        /\ SumFunctionOnSet(g, r) = g[Pick(r)] + SumFunctionOnSet(g, r \ {Pick(r)})
    BY <2>1, <2>2, SumSteps
  <2> QED
    BY <2>1, <2>3
<1> QED
  BY <1>1

\* A sum of nothing but zeros.
LEMMA SumOfZeros ==
    ASSUME NEW f, NEW T, IsFiniteSet(T), \A x \in T : f[x] = 0
    PROVE  SumFunctionOnSet(f, T) = 0
<1> DEFINE B == {r \in SUBSET T : SumFunctionOnSet(f, r) # 0}
<1>1. ASSUME B # {} PROVE FALSE
  <2>1. PICK r \in B : IsFiniteSet(r) /\ \A q \in SUBSET r : q # r => q \notin B
    <3>1. B \subseteq SUBSET T
      OBVIOUS
    <3> HIDE DEF B
    <3> QED
      BY <1>1, <3>1, SmallestMember
  <2>2. r # {}
    BY <2>1, SumSteps
  <2>3. Pick(r) \in r /\ SumFunctionOnSet(f, r) = f[Pick(r)] + SumFunctionOnSet(f, r \ {Pick(r)})
    BY <2>1, <2>2, SumSteps
  <2>4. SumFunctionOnSet(f, r \ {Pick(r)}) = 0 /\ f[Pick(r)] = 0
    BY <2>1, <2>3
  <2> QED
    BY <2>3, <2>4
<1> QED
  BY <1>1

\* One value is changed.
LEMMA SumChanges ==
    ASSUME NEW f, NEW g, NEW T, IsFiniteSet(T), \A x \in T : f[x] \in Int, NEW y \in T,
           g[y] \in Int, \A x \in T : x # y => g[x] = f[x]
    PROVE  /\ SumFunctionOnSet(f, T) \in Int /\ SumFunctionOnSet(g, T) \in Int
           /\ SumFunctionOnSet(g, T) - g[y] = SumFunctionOnSet(f, T) - f[y]
<1>1. \A x \in T : g[x] \in Int
  OBVIOUS
<1>2. SumFunctionOnSet(f, T \ {y}) = SumFunctionOnSet(g, T \ {y})
  BY FS_Subset, SumSame
<1>3. /\ SumFunctionOnSet(f, T) = f[y] + SumFunctionOnSet(f, T \ {y})
      /\ SumFunctionOnSet(g, T) = g[y] + SumFunctionOnSet(g, T \ {y})
      /\ SumFunctionOnSet(f, T \ {y}) \in Int /\ f[y] \in Int
  BY <1>1, SumTakes
<1> QED
  BY <1>2, <1>3

-----------------------------------------------------------------------------
(* RateLimit: the inductive invariant *)

\* A bucket counts the window that was opened when it says.
Counting ==
    \A k \in Keys :
        buckets[k] # NoBucket =>
            /\ Start(buckets[k]) \in Time
            /\ opened[k][Start(buckets[k])] = buckets[k].count

\* Every earlier window of the key has ended: before the present one began, if
\* there is a bucket, and before now, if there is none.
EarlierEnded ==
    \A k \in Keys, s \in Time :
        opened[k][s] > 0 =>
            IF buckets[k] = NoBucket THEN now - s > Window
            ELSE s = Start(buckets[k]) \/ Start(buckets[k]) - s > Window

\* No window lies in the future.
Past == \A k \in Keys, s \in Time : opened[k][s] > 0 => s <= now

RInv == TypeOK /\ Counting /\ EarlierEnded /\ Past /\ WindowsApart

-----------------------------------------------------------------------------

\* Bounds of the constants, without their names.
LEMMA Bounds ==
    /\ Limit \in Int /\ Limit > 0 /\ Window \in Int /\ Window > 0
    /\ SweepPeriod \in Int /\ SweepPeriod >= 0 /\ MaxTime \in Int
    /\ Time \subseteq Int /\ \A t \in Time : 0 <= t /\ t <= MaxTime
  BY LimitsAreNat DEF Time

\* What the sweep leaves: every bucket, or none for one that has ended.
LEMMA SweptIs ==
    ASSUME TypeOK
    PROVE  /\ Swept \in [Keys -> Bucket \cup {NoBucket}]
           /\ NextSweep \in Nat
           /\ \A k \in Keys : Swept[k] = buckets[k] \/ (Swept[k] = NoBucket /\ Sweepable(buckets[k]))
<1>1. Swept \in [Keys -> Bucket \cup {NoBucket}]
  BY DEF TypeOK, Swept
<1>2. NextSweep \in Nat
  <2>1. now \in Nat /\ nextSweepAt \in Nat /\ SweepPeriod \in Nat
    BY LimitsAreNat DEF TypeOK, Time
  <2> QED
    BY <2>1 DEF NextSweep
<1>3. ASSUME NEW k \in Keys
      PROVE  Swept[k] = buckets[k] \/ (Swept[k] = NoBucket /\ Sweepable(buckets[k]))
  BY DEF TypeOK, Swept
<1> QED
  BY <1>1, <1>2, <1>3

\* A bucket that was swept has left the window it counted behind.
LEMMA SweptKeeps ==
    ASSUME RInv, NEW k \in Keys, NEW s \in Time, opened[k][s] > 0, ~Live(Swept[k])
    PROVE  now - s > Window
<1>1. /\ now \in Int /\ s \in Int /\ Window \in Int
      /\ buckets[k] \in Bucket \cup {NoBucket} /\ Window > 0
  BY Bounds DEF RInv, TypeOK
<1>2. CASE buckets[k] = NoBucket
  BY <1>2 DEF RInv, EarlierEnded
<1>3. CASE buckets[k] # NoBucket
  <2>1. buckets[k] \in Bucket /\ buckets[k].resetAt \in Int
    BY <1>1, <1>3 DEF Bucket
  <2>2. now > buckets[k].resetAt
    BY <1>1, <1>3, <2>1, SweptIs DEF RInv, Live, Sweepable
  <2>3. s = Start(buckets[k]) \/ Start(buckets[k]) - s > Window
    BY <1>3 DEF RInv, EarlierEnded
  <2> QED
    BY <1>1, <2>1, <2>2, <2>3 DEF Start
<1> QED
  BY <1>2, <1>3
\* A window opens when all earlier ones have ended.
LEMMA OpenKeeps ==
    ASSUME RInv, NEW k \in Keys, OpenWindow(k)
    PROVE  RInv'
<1> DEFINE b == [count |-> 1, resetAt |-> now + Window]
<1>1. /\ now \in Time /\ now \in Nat /\ Window \in Nat /\ Limit \in Nat /\ Limit >= 1
      /\ buckets \in [Keys -> Bucket \cup {NoBucket}]
      /\ opened \in [Keys -> [Time -> Nat]] /\ passed \in [Keys -> [Time -> Nat]]
      /\ Time \subseteq Nat
  BY LimitsAreNat DEF RInv, TypeOK, Time
<1>2. b \in Bucket /\ b # NoBucket /\ Start(b) = now /\ b.count = 1
  BY <1>1 DEF Bucket, NoBucket, Start
<1>3. /\ Swept \in [Keys -> Bucket \cup {NoBucket}] /\ NextSweep \in Nat
      /\ \A x \in Keys : Swept[x] = buckets[x] \/ (Swept[x] = NoBucket /\ ~Live(Swept[x]))
  BY SweptIs DEF RInv, Live
<1>4. /\ buckets' = [Swept EXCEPT ![k] = b] /\ nextSweepAt' = NextSweep
      /\ passed' = [passed EXCEPT ![k][now] = @ + 1]
      /\ opened' = [opened EXCEPT ![k][now] = 1]
      /\ now' = now /\ ~Live(Swept[k])
  BY DEF OpenWindow
<1> HIDE DEF b
<1>5. /\ \A x \in Keys : buckets'[x] = IF x = k THEN b ELSE Swept[x]
      /\ \A x \in Keys, s \in Time : opened'[x][s] = IF x = k /\ s = now THEN 1 ELSE opened[x][s]
  BY <1>1, <1>3, <1>4
<1>6. TypeOK'
  <2>1. buckets' \in [Keys -> Bucket \cup {NoBucket}]
    BY <1>2, <1>3, <1>4
  <2>2. passed' \in [Keys -> [Time -> Nat]] /\ opened' \in [Keys -> [Time -> Nat]]
    BY <1>1, <1>4
  <2> QED
    BY <1>1, <1>3, <1>4, <2>1, <2>2 DEF TypeOK
<1>7. \A s \in Time : opened[k][s] > 0 => now - s > Window
  BY <1>4, SweptKeeps
<1>8. Counting'
  <2> SUFFICES ASSUME NEW x \in Keys, buckets'[x] # NoBucket
               PROVE  /\ Start(buckets'[x]) \in Time
                      /\ opened'[x][Start(buckets'[x])] = buckets'[x].count
    BY DEF Counting, Start
  <2>1. CASE x = k
    BY <1>1, <1>2, <1>5, <2>1
  <2>2. CASE x # k
    BY <1>3, <1>5, <2>2 DEF RInv, Counting
  <2> QED
    BY <2>1, <2>2
<1>9. EarlierEnded'
  <2> SUFFICES ASSUME NEW x \in Keys, NEW s \in Time, opened'[x][s] > 0
               PROVE  IF buckets'[x] = NoBucket THEN now - s > Window
                      ELSE s = Start(buckets'[x]) \/ Start(buckets'[x]) - s > Window
    BY <1>4 DEF EarlierEnded, Start
  <2>1. CASE x = k
    BY <1>1, <1>2, <1>5, <1>7, <2>1
  <2>2. CASE x # k /\ Swept[x] = buckets[x]
    BY <1>5, <2>2 DEF RInv, EarlierEnded
  <2>3. CASE x # k /\ Swept[x] # buckets[x]
    BY <1>3, <1>5, <2>3, SweptKeeps
  <2> QED
    BY <2>1, <2>2, <2>3
<1>10. Past'
  BY <1>1, <1>4, <1>5 DEF RInv, Past
<1>11. WindowsApart'
  <2> SUFFICES ASSUME NEW x \in Keys, NEW s \in Time, NEW t \in Time
               PROVE  /\ opened'[x][s] <= Limit
                      /\ opened'[x][s] > 0 /\ opened'[x][t] > 0 /\ s < t => t - s > Window
    BY DEF WindowsApart
  <2>1. opened'[x][s] <= Limit
    BY <1>1, <1>5 DEF RInv, WindowsApart
  <2>2. ASSUME opened'[x][s] > 0, opened'[x][t] > 0, s < t PROVE t - s > Window
    <3>1. CASE x # k \/ (s # now /\ t # now)
      BY <1>5, <2>2, <3>1 DEF RInv, WindowsApart
    <3>2. CASE x = k /\ t = now
      BY <1>1, <1>5, <1>7, <2>2, <3>2
    <3>3. CASE x = k /\ s = now /\ t # now
      BY <1>1, <1>5, <2>2, <3>3 DEF RInv, Past
    <3> QED
      BY <3>1, <3>2, <3>3
  <2> QED
    BY <2>1, <2>2
<1> QED
  BY <1>6, <1>8, <1>9, <1>10, <1>11 DEF RInv

\* A request counts in the window of its key's bucket.
LEMMA PassKeeps ==
    ASSUME RInv, NEW k \in Keys, Pass(k)
    PROVE  RInv'
<1> DEFINE w == Start(buckets[k])
           b == [buckets[k] EXCEPT !.count = @ + 1]
<1>1. /\ now \in Time /\ now \in Nat /\ Window \in Nat /\ Limit \in Nat
      /\ buckets \in [Keys -> Bucket \cup {NoBucket}]
      /\ opened \in [Keys -> [Time -> Nat]] /\ passed \in [Keys -> [Time -> Nat]]
      /\ Time \subseteq Nat
  BY LimitsAreNat DEF RInv, TypeOK, Time
<1>2. /\ Swept \in [Keys -> Bucket \cup {NoBucket}] /\ NextSweep \in Nat
      /\ \A x \in Keys : Swept[x] = buckets[x] \/ (Swept[x] = NoBucket /\ ~Live(Swept[x]))
  BY SweptIs DEF RInv, Live
<1>3. Swept[k] = buckets[k] /\ buckets[k] # NoBucket /\ buckets[k] \in Bucket
      /\ buckets[k].count < Limit
  BY <1>1, <1>2 DEF Pass, HasRoom, Live
<1>4. w \in Time /\ opened[k][w] = buckets[k].count /\ buckets[k].count \in Nat \ {0}
  BY <1>3 DEF RInv, Counting, Bucket
<1>5. b \in Bucket /\ b # NoBucket /\ Start(b) = w /\ b.count = buckets[k].count + 1
  BY <1>1, <1>3 DEF Bucket, NoBucket, Start
<1>6. /\ buckets' = [Swept EXCEPT ![k] = b] /\ nextSweepAt' = NextSweep
      /\ passed' = [passed EXCEPT ![k][now] = @ + 1]
      /\ opened' = [opened EXCEPT ![k][w] = @ + 1]
      /\ now' = now
  BY <1>2, <1>3 DEF Pass
<1> HIDE DEF b, w
<1>7. /\ \A x \in Keys : buckets'[x] = IF x = k THEN b ELSE Swept[x]
      /\ \A x \in Keys, s \in Time :
           opened'[x][s] = IF x = k /\ s = w THEN opened[x][s] + 1 ELSE opened[x][s]
  BY <1>1, <1>2, <1>4, <1>6
<1>8. \A x \in Keys, s \in Time : opened'[x][s] > 0 <=> opened[x][s] > 0
  BY <1>1, <1>4, <1>7
<1>9. TypeOK'
  <2>1. buckets' \in [Keys -> Bucket \cup {NoBucket}]
    BY <1>2, <1>5, <1>6
  <2>2. passed' \in [Keys -> [Time -> Nat]] /\ opened' \in [Keys -> [Time -> Nat]]
    BY <1>1, <1>4, <1>6
  <2> QED
    BY <1>1, <1>2, <1>6, <2>1, <2>2 DEF TypeOK
<1>10. Counting'
  <2> SUFFICES ASSUME NEW x \in Keys, buckets'[x] # NoBucket
               PROVE  /\ Start(buckets'[x]) \in Time
                      /\ opened'[x][Start(buckets'[x])] = buckets'[x].count
    BY DEF Counting, Start
  <2>1. CASE x = k
    BY <1>4, <1>5, <1>7, <2>1
  <2>2. CASE x # k
    BY <1>2, <1>7, <2>2 DEF RInv, Counting
  <2> QED
    BY <2>1, <2>2
<1>11. EarlierEnded'
  <2> SUFFICES ASSUME NEW x \in Keys, NEW s \in Time, opened'[x][s] > 0
               PROVE  IF buckets'[x] = NoBucket THEN now - s > Window
                      ELSE s = Start(buckets'[x]) \/ Start(buckets'[x]) - s > Window
    BY <1>6 DEF EarlierEnded, Start
  <2>1. opened[x][s] > 0
    BY <1>8
  <2>2. CASE x = k
    BY <1>3, <1>5, <1>7, <2>1, <2>2 DEF RInv, EarlierEnded, w
  <2>3. CASE x # k /\ Swept[x] = buckets[x]
    BY <1>7, <2>1, <2>3 DEF RInv, EarlierEnded
  <2>4. CASE x # k /\ Swept[x] # buckets[x]
    BY <1>2, <1>7, <2>1, <2>4, SweptKeeps
  <2> QED
    BY <2>2, <2>3, <2>4
<1>12. Past'
  BY <1>6, <1>8 DEF RInv, Past
<1>13. WindowsApart'
  <2>1. \A x \in Keys, s \in Time : opened'[x][s] <= Limit
    BY <1>1, <1>3, <1>4, <1>7 DEF RInv, WindowsApart
  <2> QED
    BY <1>8, <2>1 DEF RInv, WindowsApart
<1> QED
  BY <1>9, <1>10, <1>11, <1>12, <1>13 DEF RInv

\* A refused request leaves what the sweep leaves.
LEMMA RefuseKeeps ==
    ASSUME RInv, NEW k \in Keys, Refuse(k)
    PROVE  RInv'
<1>1. /\ Swept \in [Keys -> Bucket \cup {NoBucket}] /\ NextSweep \in Nat
      /\ \A x \in Keys : Swept[x] = buckets[x] \/ (Swept[x] = NoBucket /\ ~Live(Swept[x]))
  BY SweptIs DEF RInv, Live
<1>2. buckets' = Swept /\ nextSweepAt' = NextSweep /\ UNCHANGED <<now, passed, opened>>
  BY DEF Refuse
<1>3. TypeOK'
  BY <1>1, <1>2 DEF RInv, TypeOK
<1>4. Counting'
  BY <1>1, <1>2 DEF RInv, Counting, Start
<1>5. EarlierEnded'
  <2> SUFFICES ASSUME NEW x \in Keys, NEW s \in Time, opened[x][s] > 0
               PROVE  IF Swept[x] = NoBucket THEN now - s > Window
                      ELSE s = Start(Swept[x]) \/ Start(Swept[x]) - s > Window
    BY <1>2 DEF EarlierEnded, Start
  <2>1. CASE Swept[x] = buckets[x]
    BY <2>1 DEF RInv, EarlierEnded
  <2>2. CASE Swept[x] # buckets[x]
    BY <1>1, <2>2, SweptKeeps
  <2> QED
    BY <2>1, <2>2
<1>6. Past' /\ WindowsApart'
  BY <1>2 DEF RInv, Past, WindowsApart
<1> QED
  BY <1>3, <1>4, <1>5, <1>6 DEF RInv

-----------------------------------------------------------------------------
(* Theorems *)

\* The invariant holds initially.
LEMMA InitRInv == Init => RInv
<1> SUFFICES ASSUME Init PROVE RInv
  OBVIOUS
<1>1. TypeOK
  BY LimitsAreNat DEF Init, TypeOK, Time
<1>2. /\ \A k \in Keys : buckets[k] = NoBucket
      /\ \A k \in Keys, s \in Time : opened[k][s] = 0 /\ ~(opened[k][s] > 0)
  BY DEF Init
<1>3. Counting /\ EarlierEnded /\ Past
  <2>1. Counting
    BY <1>2 DEF Counting
  <2>2. EarlierEnded
    BY <1>2 DEF EarlierEnded
  <2>3. Past
    BY <1>2 DEF Past
  <2> QED
    BY <2>1, <2>2, <2>3
<1>4. WindowsApart
  <2>1. \A k \in Keys, s \in Time : opened[k][s] <= Limit
    BY <1>2, LimitsAreNat
  <2> QED
    BY <1>2, <2>1 DEF WindowsApart
<1> QED
  BY <1>1, <1>3, <1>4 DEF RInv

\* Every step keeps the invariant.
LEMMA NextRInv == RInv /\ [Next]_vars => RInv'
<1> SUFFICES ASSUME RInv, [Next]_vars PROVE RInv'
  OBVIOUS
<1>1. CASE Tick
  <2>1. now' = now + 1 /\ now' \in Time /\ now \in Int /\ Window \in Int /\ Time \subseteq Int
    BY <1>1, LimitsAreNat DEF Tick, RInv, TypeOK, Time
  <2>2. TypeOK' /\ Counting' /\ WindowsApart'
    BY <1>1, <2>1 DEF Tick, RInv, TypeOK, Counting, WindowsApart, Start
  <2>3. EarlierEnded' /\ Past'
    BY <1>1, <2>1 DEF Tick, RInv, EarlierEnded, Past, Start
  <2> QED
    BY <2>2, <2>3 DEF RInv
<1>2. CASE UNCHANGED vars
  BY <1>2 DEF RInv, vars, TypeOK, Counting, EarlierEnded, Past, WindowsApart, Start
<1> QED
  BY <1>1, <1>2, OpenKeeps, PassKeeps, RefuseKeeps DEF Next

\* Every variable keeps its type: in particular no bucket counts past the limit
\* (createRateLimit).
THEOREM RateTyping == Spec => []TypeOK
<1>1. RInv => TypeOK
  BY DEF RInv
<1> QED
  BY <1>1, InitRInv, NextRInv, PTL DEF Spec

\* For any limit, window and sweep, the windows of a key are further apart than a
\* window's length and each lets through at most the limit; a stretch of time as
\* long as a window so meets at most two of them (sweepExpiredBuckets and the
\* compare with resetAt in createRateLimit).
THEOREM WindowsNeverOverlap == Spec => []WindowsApart
<1>1. RInv => WindowsApart
  BY DEF RInv
<1> QED
  BY <1>1, InitRInv, NextRInv, PTL DEF Spec

-----------------------------------------------------------------------------
(* RateLimit: at most twice the limit *)

\* The instants of a stretch as long as a window, and those at which a window
\* can have been opened that lets a request through in it.
Stretch(t) == {s \in Time : t <= s /\ s <= t + Window}
Feeding(t) == {s \in Time : t - Window <= s /\ s <= t + Window}

\* What a stretch sees was counted by the windows that feed it.
Counted ==
    \A k \in Keys, t \in Time :
        SumFunctionOnSet(passed[k], Stretch(t)) <= SumFunctionOnSet(opened[k], Feeding(t))

\* Both are finite sets of instants.
LEMMA StretchesAreFinite ==
    ASSUME NEW t \in Time
    PROVE  /\ IsFiniteSet(Stretch(t)) /\ Stretch(t) \subseteq Time
           /\ IsFiniteSet(Feeding(t)) /\ Feeding(t) \subseteq Time
<1>1. IsFiniteSet(Time)
  BY LimitsAreNat, FS_Interval DEF Time
<1>2. Stretch(t) \subseteq Time /\ Feeding(t) \subseteq Time
  BY DEF Stretch, Feeding
<1> QED
  BY <1>1, <1>2, FS_Subset

\* A request let through now, and counted by a window opened at s, no longer ago than a window is long.
LEMMA CountedTogether ==
    ASSUME RInv, Counted, NEW k \in Keys, NEW s \in Time, s <= now, now - Window <= s,
           passed' = [passed EXCEPT ![k][now] = passed[k][now] + 1],
           opened' = [opened EXCEPT ![k][s] = opened[k][s] + 1]
    PROVE  Counted'
<1>1. /\ passed \in [Keys -> [Time -> Nat]] /\ opened \in [Keys -> [Time -> Nat]] /\ now \in Time
      /\ Window \in Int /\ Time \subseteq Int
  BY Bounds DEF RInv, TypeOK
<1> SUFFICES ASSUME NEW x \in Keys, NEW t \in Time
             PROVE  SumFunctionOnSet(passed'[x], Stretch(t)) <= SumFunctionOnSet(opened'[x], Feeding(t))
  BY DEF Counted, Stretch, Feeding, Time
<1>2. SumFunctionOnSet(passed[x], Stretch(t)) <= SumFunctionOnSet(opened[x], Feeding(t))
  BY DEF Counted
<1>3. CASE x # k
  <2>1. passed'[x] = passed[x] /\ opened'[x] = opened[x]
    BY <1>1, <1>3
  <2> QED
    BY <1>2, <2>1
<1>4. CASE x = k
  <2>1. PICK P \in [Time -> Nat], Q \in [Time -> Nat] : P = passed[k] /\ Q = opened[k]
    BY <1>1
  <2>2. PICK P2, Q2 : /\ P2 = [P EXCEPT ![now] = P[now] + 1] /\ Q2 = [Q EXCEPT ![s] = Q[s] + 1]
                      /\ P2 = passed'[x] /\ Q2 = opened'[x]
    <3>1. passed'[k] = [passed[k] EXCEPT ![now] = passed[k][now] + 1]
      BY <1>1
    <3>2. opened'[k] = [opened[k] EXCEPT ![s] = opened[k][s] + 1]
      BY <1>1
    <3> QED
      BY <1>4, <2>1, <3>1, <3>2
  <2> P2 \in [Time -> Nat] /\ Q2 \in [Time -> Nat]
    <3>1. P[now] + 1 \in Nat /\ Q[s] + 1 \in Nat
      BY <1>1, <2>1
    <3> QED
      BY <2>1, <2>2, <3>1
  <2>3. /\ P2[now] = P[now] + 1 /\ \A u \in Time : u # now => P2[u] = P[u]
        /\ Q2[s] = Q[s] + 1 /\ \A u \in Time : u # s => Q2[u] = Q[u]
    BY <1>1, <2>2
  <2>4. /\ \A u \in Stretch(t) : P[u] \in Int /\ P2[u] \in Int
        /\ \A u \in Feeding(t) : Q[u] \in Int /\ Q2[u] \in Int
    BY StretchesAreFinite
  <2>5. /\ SumFunctionOnSet(P, Stretch(t)) \in Int /\ SumFunctionOnSet(P2, Stretch(t)) \in Int
        /\ SumFunctionOnSet(Q, Feeding(t)) \in Int /\ SumFunctionOnSet(Q2, Feeding(t)) \in Int
    BY <2>4, StretchesAreFinite, SumIsInt
  <2>6. now \in Stretch(t) => s \in Feeding(t)
    BY <1>1 DEF Stretch, Feeding
  <2>7. SumFunctionOnSet(P2, Stretch(t)) =
            SumFunctionOnSet(P, Stretch(t)) + (IF now \in Stretch(t) THEN 1 ELSE 0)
    <3>1. CASE now \in Stretch(t)
      <4>1. SumFunctionOnSet(P2, Stretch(t)) - P2[now] = SumFunctionOnSet(P, Stretch(t)) - P[now]
        BY <2>3, <2>4, <3>1, StretchesAreFinite, SumChanges
      <4>2. PICK n \in Int : n = P[now]
        BY <2>4, <3>1
      <4> QED
        BY <2>3, <2>5, <3>1, <4>1, <4>2
    <3>2. CASE now \notin Stretch(t)
      <4>1. \A u \in Stretch(t) : P2[u] = P[u]
        BY <2>3, <3>2, StretchesAreFinite
      <4> QED
        BY <2>5, <3>2, <4>1, StretchesAreFinite, SumSame
    <3> QED
      BY <3>1, <3>2
  <2>8. SumFunctionOnSet(Q2, Feeding(t)) =
            SumFunctionOnSet(Q, Feeding(t)) + (IF s \in Feeding(t) THEN 1 ELSE 0)
    <3>1. CASE s \in Feeding(t)
      <4>1. SumFunctionOnSet(Q2, Feeding(t)) - Q2[s] = SumFunctionOnSet(Q, Feeding(t)) - Q[s]
        BY <2>3, <2>4, <3>1, StretchesAreFinite, SumChanges
      <4>2. PICK n \in Int : n = Q[s]
        BY <2>4, <3>1
      <4> QED
        BY <2>3, <2>5, <3>1, <4>1, <4>2
    <3>2. CASE s \notin Feeding(t)
      <4>1. \A u \in Feeding(t) : Q2[u] = Q[u]
        BY <2>3, <3>2, StretchesAreFinite
      <4> QED
        BY <2>5, <3>2, <4>1, StretchesAreFinite, SumSame
    <3> QED
      BY <3>1, <3>2
  <2>9. SumFunctionOnSet(P, Stretch(t)) <= SumFunctionOnSet(Q, Feeding(t))
    BY <1>2, <1>4, <2>1
  <2>10. SumFunctionOnSet(P2, Stretch(t)) <= SumFunctionOnSet(Q2, Feeding(t))
    BY <2>5, <2>6, <2>7, <2>8, <2>9
  <2> QED
    BY <2>2, <2>10
<1> QED
  BY <1>3, <1>4

\* Every step keeps what was counted.
LEMMA CountedKept ==
    ASSUME RInv, Counted, [Next]_vars
    PROVE  Counted'
<1>1. /\ passed \in [Keys -> [Time -> Nat]] /\ opened \in [Keys -> [Time -> Nat]] /\ now \in Time
      /\ Window \in Int /\ Window > 0 /\ Time \subseteq Int
      /\ buckets \in [Keys -> Bucket \cup {NoBucket}]
  BY Bounds DEF RInv, TypeOK
<1>2. ASSUME NEW k \in Keys, OpenWindow(k) PROVE Counted'
  <2>1. opened[k][now] = 0
    <3>1. PICK n \in Nat : n = opened[k][now]
      BY <1>1
    <3>2. ~Live(Swept[k])
      BY <1>2 DEF OpenWindow
    <3>3. ~(n > 0)
      BY <1>1, <3>1, <3>2, SweptKeeps
    <3> QED
      BY <3>1, <3>3
  <2>2. /\ passed' = [passed EXCEPT ![k][now] = passed[k][now] + 1]
        /\ opened' = [opened EXCEPT ![k][now] = opened[k][now] + 1]
    BY <1>1, <1>2, <2>1 DEF OpenWindow
  <2>3. now <= now /\ now - Window <= now
    BY <1>1
  <2> QED
    BY <1>1, <2>2, <2>3, CountedTogether
<1>3. ASSUME NEW k \in Keys, Pass(k) PROVE Counted'
  <2>1. /\ Swept[k] = buckets[k] /\ buckets[k] \in Bucket /\ buckets[k] # NoBucket
        /\ ~(now > buckets[k].resetAt)
    BY <1>1, <1>3, SweptIs DEF RInv, Pass, Live
  <2>2. PICK s \in Time : s = Start(buckets[k]) /\ opened[k][s] = buckets[k].count
    BY <2>1 DEF RInv, Counting
  <2>3. buckets[k].count \in Nat /\ buckets[k].count > 0 /\ buckets[k].resetAt \in Int
    BY <2>1, Bounds DEF Bucket
  <2>4. s <= now
    BY <2>2, <2>3 DEF RInv, Past
  <2>5. now - Window <= s
    BY <1>1, <2>1, <2>2, <2>3 DEF Start
  <2>6. /\ passed' = [passed EXCEPT ![k][now] = passed[k][now] + 1]
        /\ opened' = [opened EXCEPT ![k][s] = opened[k][s] + 1]
    BY <1>1, <1>3, <2>2 DEF Pass
  <2> QED
    BY <2>4, <2>5, <2>6, CountedTogether
<1>4. ASSUME UNCHANGED <<passed, opened>> PROVE Counted'
  BY <1>4 DEF Counted, Stretch, Feeding, Time
<1> QED
  BY <1>2, <1>3, <1>4 DEF Next, Tick, Refuse, vars

\* No three windows feed a stretch, and none lets through more than the limit.
LEMMA FedByTwo ==
    ASSUME RInv, NEW k \in Keys, NEW t \in Time
    PROVE  /\ SumFunctionOnSet(opened[k], Feeding(t)) \in Int
           /\ SumFunctionOnSet(opened[k], Feeding(t)) <= 2 * Limit
<1>1. PICK Q \in [Time -> Nat] : Q = opened[k]
  BY DEF RInv, TypeOK
<1>2. PICK F \in SUBSET Time : F = Feeding(t) /\ IsFiniteSet(F)
  BY StretchesAreFinite
<1>3. /\ \A s \in F : s \in Int /\ t \in Int /\ t - Window <= s /\ s <= t + Window
      /\ Limit \in Int /\ Limit > 0 /\ Window \in Int /\ Window > 0
  BY <1>2, Bounds DEF Feeding
<1>4. \A s \in F : Q[s] \in Int /\ Q[s] >= 0 /\ Q[s] <= Limit
  BY <1>1, <1>2 DEF RInv, WindowsApart
<1>5. \A r, s \in F : Q[r] > 0 /\ Q[s] > 0 /\ r < s => s - r > Window
  BY <1>1, <1>2 DEF RInv, WindowsApart
<1>6. CASE \A s \in F : Q[s] = 0
  BY <1>1, <1>2, <1>3, <1>6, SumOfZeros
<1>7. CASE \E s \in F : Q[s] # 0
  <2>1. PICK x \in F : Q[x] # 0
    BY <1>7
  <2>2. PICK G \in SUBSET F : G = F \ {x} /\ IsFiniteSet(G)
    <3>1. F \ {x} \subseteq F
      OBVIOUS
    <3>2. IsFiniteSet(F \ {x})
      BY <1>2, <3>1, FS_Subset
    <3> QED
      BY <3>1, <3>2
  <2>3. /\ SumFunctionOnSet(Q, F) = Q[x] + SumFunctionOnSet(Q, G)
        /\ SumFunctionOnSet(Q, G) \in Int
    BY <1>2, <1>4, <2>2, SumTakes
  <2>4. SumFunctionOnSet(Q, G) <= Limit
    <3>1. CASE \A s \in G : Q[s] = 0
      BY <1>3, <2>2, <3>1, SumOfZeros
    <3>2. CASE \E s \in G : Q[s] # 0
      <4>1. PICK y \in G : Q[y] # 0
        BY <3>2
      <4>2. IsFiniteSet(G \ {y})
        BY <2>2, FS_Subset
      <4>3. /\ SumFunctionOnSet(Q, G) = Q[y] + SumFunctionOnSet(Q, G \ {y})
        BY <1>4, <2>2, SumTakes
      <4>4. \A z \in G \ {y} : Q[z] = 0
        <5>1. SUFFICES ASSUME NEW z \in G \ {y}, Q[z] # 0 PROVE FALSE
          OBVIOUS
        <5>2. x \in F /\ y \in F /\ z \in F /\ x # y /\ y # z /\ x # z
          BY <2>2
        <5>3. Q[x] > 0 /\ Q[y] > 0 /\ Q[z] > 0
          BY <1>4, <2>1, <4>1, <5>1, <5>2
        <5>4. /\ x < y => y - x > Window
              /\ y < x => x - y > Window
              /\ y < z => z - y > Window
              /\ z < y => y - z > Window
              /\ x < z => z - x > Window
              /\ z < x => x - z > Window
          BY <1>5, <5>2, <5>3
        <5>5. /\ x \in Int /\ y \in Int /\ z \in Int /\ t \in Int
              /\ t - Window <= x /\ x <= t + Window
              /\ t - Window <= y /\ y <= t + Window
              /\ t - Window <= z /\ z <= t + Window
          BY <1>3, <5>2
        <5> QED
          BY <1>3, <5>2, <5>4, <5>5
      <4>5. SumFunctionOnSet(Q, G \ {y}) = 0
        BY <4>2, <4>4, SumOfZeros
      <4>6. Q[y] \in Int /\ Q[y] <= Limit
        BY <1>4, <2>2
      <4> QED
        BY <1>3, <4>3, <4>5, <4>6
    <3> QED
      BY <3>1, <3>2
  <2>5. PICK n \in Int : n = Q[x] /\ n <= Limit
    BY <1>4
  <2> QED
    BY <1>1, <1>2, <1>3, <2>3, <2>4, <2>5
<1> QED
  BY <1>6, <1>7

\* No stretch of time as long as a window sees more than twice the limit: what it
\* sees was counted by windows that were opened within two lengths of one another,
\* and there are no three of those.
THEOREM AtMostTwiceHolds == Spec => []AtMostTwice
<1>1. Init => RInv /\ Counted
  <2> SUFFICES ASSUME Init PROVE RInv /\ Counted
    OBVIOUS
  <2>1. RInv
    BY InitRInv
  <2>2. ASSUME NEW k \in Keys, NEW t \in Time
        PROVE  SumFunctionOnSet(passed[k], Stretch(t)) <= SumFunctionOnSet(opened[k], Feeding(t))
    <3>1. /\ \A s \in Stretch(t) : passed[k][s] = 0
          /\ \A s \in Feeding(t) : opened[k][s] = 0
      BY StretchesAreFinite DEF Init
    <3>2. /\ SumFunctionOnSet(passed[k], Stretch(t)) = 0
          /\ SumFunctionOnSet(opened[k], Feeding(t)) = 0
      BY <3>1, StretchesAreFinite, SumOfZeros
    <3> QED
      BY <3>2
  <2> QED
    BY <2>1, <2>2 DEF Counted
<1>2. RInv /\ Counted /\ [Next]_vars => (RInv /\ Counted)'
  BY NextRInv, CountedKept
<1>3. RInv /\ Counted => AtMostTwice
  <2> SUFFICES ASSUME RInv, Counted, NEW k \in Keys, NEW t \in Time, t + Window <= now
               PROVE  SumFunctionOnSet(passed[k], t..(t + Window)) <= 2 * Limit
    BY DEF AtMostTwice, PassedIn
  <2>1. /\ now \in Int /\ now <= MaxTime /\ t \in Int /\ 0 <= t /\ Window \in Int /\ Limit \in Int
        /\ MaxTime \in Int
    BY Bounds DEF RInv, TypeOK
  <2>2. Stretch(t) = t..(t + Window)
    BY <2>1 DEF Stretch, Time
  <2>3. SumFunctionOnSet(passed[k], Stretch(t)) \in Int
    <3>1. \A s \in Stretch(t) : passed[k][s] \in Int
      BY StretchesAreFinite DEF RInv, TypeOK
    <3> QED
      BY <3>1, StretchesAreFinite, SumIsInt
  <2>4. SumFunctionOnSet(passed[k], Stretch(t)) <= SumFunctionOnSet(opened[k], Feeding(t))
    BY DEF Counted
  <2> QED
    BY <2>1, <2>2, <2>3, <2>4, FedByTwo
<1> QED
  BY <1>1, <1>2, <1>3, PTL DEF Spec

-----------------------------------------------------------------------------
(* Recognition: the inductive invariant *)

\* The treatment is the one the fields call for, with the exceptions RecognitionFits names.
Fits(a) ==
    row[a] # None =>
        \/ row[a].treatment = R!Evaluate(row[a].cost, row[a].life, row[a].sound)
        \/ row[a].stale
        \/ row[a].decidedOn < Threshold /\ row[a].cost = Threshold

\* An update is of a row there is; and what it decided is right as long as no other one
\* has written that row since it was read.
Decided(u) ==
    job[u] # None =>
        /\ row[job[u].asset] # None
        /\ ~job[u].stale =>
              /\ job[u].decidedOn = R!Given(job[u].cost, row[job[u].asset].cost)
              /\ job[u].treatment = R!Evaluate(job[u].decidedOn,
                                               R!Given(job[u].life, row[job[u].asset].life),
                                               job[u].sound)

TreatmentInv ==
    /\ row \in [Assets -> R!Rows \cup {None}]
    /\ job \in [Patches -> R!Jobs \cup {None}]
    /\ \A a \in Assets : Fits(a)
    /\ \A u \in Patches : Decided(u)

-----------------------------------------------------------------------------
(* Recognition: the steps *)

\* Rounding to cents changes the treatment only of a cost that it lifts to the threshold.
LEMMA RoundingDecides ==
    ASSUME NEW c \in Costs, NEW l, NEW s \in BOOLEAN
    PROVE  \/ R!Evaluate(R!Stored(c), l, s) = R!Evaluate(c, l, s)
           \/ c < Threshold /\ R!Stored(c) = Threshold
<1>1. c \in Nat /\ Threshold \in Nat /\ Threshold % 10 = 0
  BY CostsAreTenths
<1>2. R!Stored(c) \in Nat
  BY <1>1 DEF R!Stored
<1>3. c < Threshold => R!Stored(c) <= Threshold
  BY <1>1 DEF R!Stored
<1>4. c >= Threshold => R!Stored(c) >= Threshold
  BY <1>1 DEF R!Stored
<1>5. CASE R!Stored(c) < Threshold <=> c < Threshold
  BY <1>5 DEF R!Evaluate
<1>6. CASE c < Threshold /\ R!Stored(c) = Threshold
  BY <1>6
<1> QED
  BY <1>1, <1>2, <1>3, <1>4, <1>5, <1>6

\* A decision is a treatment.
LEMMA EvaluateTyped ==
    ASSUME NEW c, NEW l, NEW s
    PROVE  R!Evaluate(c, l, s) \in R!Treatments
  BY DEF R!Evaluate, R!Treatments

\* To create an asset keeps the invariant.
LEMMA CreateFits ==
    ASSUME TreatmentInv, NEW a \in Assets, NEW c \in Costs, NEW l \in Lives \cup {None},
           NEW s \in BOOLEAN, R!Create(a, c, l, s)
    PROVE  TreatmentInv'
<1> USE DEF TreatmentInv
<1>1. PICK r : r = [cost |-> R!Stored(c), life |-> l, sound |-> s,
                    treatment |-> R!Evaluate(c, l, s), decidedOn |-> c, stale |-> FALSE]
  OBVIOUS
<1>2. /\ r.cost = R!Stored(c) /\ r.life = l /\ r.sound = s
      /\ r.treatment = R!Evaluate(c, l, s) /\ r.decidedOn = c
  BY <1>1
<1>3. r \in R!Rows
  BY <1>1, EvaluateTyped DEF R!Rows
<1>4. row[a] = None /\ row' = [row EXCEPT ![a] = r] /\ job' = job
  BY <1>1 DEF R!Create
<1>5. /\ row' \in [Assets -> R!Rows \cup {None}] /\ row'[a] = r
      /\ \A b \in Assets : b # a => row'[b] = row[b]
  BY <1>3, <1>4
<1>6. ASSUME NEW b \in Assets
      PROVE  Fits(b)'
  <2>1. CASE b = a
    <3>1. \/ R!Evaluate(r.cost, r.life, r.sound) = r.treatment
          \/ r.decidedOn < Threshold /\ r.cost = Threshold
      BY <1>2, RoundingDecides
    <3> QED
      BY <1>5, <2>1, <3>1 DEF Fits
  <2>2. CASE b # a
    BY <1>5, <2>2 DEF Fits
  <2> QED
    BY <2>1, <2>2
<1>7. ASSUME NEW u \in Patches
      PROVE  Decided(u)'
  <2>1. CASE job[u] = None
    BY <1>4, <2>1 DEF Decided
  <2>2. CASE job[u] # None
    <3>1. job[u].asset \in Assets
      BY <2>2 DEF R!Jobs
    <3>2. job[u].asset # a
      BY <1>4, <2>2 DEF Decided
    <3> QED
      BY <1>4, <1>5, <2>2, <3>1, <3>2 DEF Decided
  <2> QED
    BY <2>1, <2>2
<1> QED
  BY <1>4, <1>5, <1>6, <1>7

\* To read an asset and decide keeps the invariant.
LEMMA ReadFits ==
    ASSUME TreatmentInv, NEW u \in Patches, NEW a \in Assets, NEW c \in Costs \cup {None},
           NEW l \in Lives \cup {None}, NEW s \in BOOLEAN, R!Read(u, a, c, l, s)
    PROVE  TreatmentInv'
<1> USE DEF TreatmentInv
<1>1. PICK m : m = R!Merged(a, c, l)
  OBVIOUS
<1>2. m.cost = R!Given(c, row[a].cost) /\ m.life = R!Given(l, row[a].life)
  BY <1>1 DEF R!Merged
<1>3. PICK j : j = [asset |-> a, cost |-> c, life |-> l, sound |-> s,
                    treatment |-> R!Evaluate(m.cost, m.life, s),
                    decidedOn |-> m.cost, stale |-> FALSE]
  OBVIOUS
<1>4. row[a] # None /\ job' = [job EXCEPT ![u] = j] /\ row' = row
  BY <1>1, <1>3 DEF R!Read
<1>5. row[a].cost \in {R!Stored(d) : d \in Costs}
  BY <1>4 DEF R!Rows
<1>6. m.cost \in Costs \cup {R!Stored(d) : d \in Costs}
  BY <1>2, <1>5 DEF R!Given
<1>7. j \in R!Jobs
  BY <1>3, <1>6, EvaluateTyped DEF R!Jobs
<1>8. job' \in [Patches -> R!Jobs \cup {None}] /\ job'[u] = j
      /\ \A v \in Patches : v # u => job'[v] = job[v]
  BY <1>4, <1>7
<1>9. ASSUME NEW v \in Patches
      PROVE  Decided(v)'
  <2>1. CASE v = u
    <3>1. /\ j.asset = a /\ j.cost = c /\ j.life = l /\ j.sound = s
          /\ j.decidedOn = m.cost /\ j.treatment = R!Evaluate(m.cost, m.life, s)
      BY <1>3
    <3> QED
      BY <1>2, <1>4, <1>8, <2>1, <3>1 DEF Decided
  <2>2. CASE v # u
    BY <1>4, <1>8, <2>2 DEF Decided
  <2> QED
    BY <2>1, <2>2
<1>10. \A b \in Assets : Fits(b)'
  BY <1>4 DEF Fits
<1> QED
  BY <1>4, <1>8, <1>9, <1>10

\* To write what was decided keeps the invariant; who read the row before is stale.
LEMMA WriteFits ==
    ASSUME TreatmentInv, NEW u \in Patches, R!Write(u)
    PROVE  TreatmentInv'
<1> USE DEF TreatmentInv
<1>1. PICK j \in R!Jobs : j = job[u]
  BY DEF R!Write
<1>2. PICK a \in Assets : a = j.asset
  BY DEF R!Jobs
<1>3. job[u] # None /\ row[a] # None
  BY <1>1, <1>2 DEF R!Write, Decided
<1>4. PICK r \in R!Rows : r = row[a]
  BY <1>3
<1>5. PICK n : n = [cost |-> IF j.cost # None THEN R!Stored(j.cost) ELSE r.cost,
                    life |-> R!Given(j.life, r.life), sound |-> j.sound,
                    treatment |-> j.treatment,
                    decidedOn |-> j.decidedOn, stale |-> j.stale]
  OBVIOUS
<1>6. /\ n.cost = IF j.cost # None THEN R!Stored(j.cost) ELSE r.cost
      /\ n.life = R!Given(j.life, r.life) /\ n.sound = j.sound
      /\ n.treatment = j.treatment /\ n.decidedOn = j.decidedOn /\ n.stale = j.stale
  BY <1>5
<1>7. n \in R!Rows
  <2>1. n.cost \in {R!Stored(d) : d \in Costs}
    BY <1>6 DEF R!Jobs, R!Rows
  <2>2. n.life \in Lives \cup {None}
    BY <1>6 DEF R!Jobs, R!Rows, R!Given
  <2> QED
    BY <1>5, <1>6, <2>1, <2>2 DEF R!Jobs, R!Rows
<1>8. /\ row' = [row EXCEPT ![a] = n]
      /\ job' = [v \in Patches |-> IF v = u THEN None
                                   ELSE IF job[v] # None /\ job[v].asset = a
                                        THEN [job[v] EXCEPT !.stale = TRUE] ELSE job[v]]
  BY <1>1, <1>2, <1>4, <1>5 DEF R!Write
<1>9. /\ row' \in [Assets -> R!Rows \cup {None}] /\ row'[a] = n /\ n # None
      /\ \A b \in Assets : b # a => row'[b] = row[b]
  BY <1>7, <1>8, NoneIsApart
<1>10. ASSUME NEW v \in Patches
       PROVE  \/ job'[v] = None
              \/ /\ job'[v] \in R!Jobs /\ job'[v].asset = a /\ job'[v].stale
              \/ job'[v] = job[v] /\ job[v] # None /\ job[v].asset # a
  <2>1. CASE v # u /\ job[v] # None /\ job[v].asset = a
    <3>1. PICK k : k = [job[v] EXCEPT !.stale = TRUE]
      OBVIOUS
    <3>2. k \in R!Jobs /\ k.asset = a /\ k.stale
      BY <2>1, <3>1 DEF R!Jobs
    <3>3. job'[v] = k
      BY <1>8, <2>1, <3>1
    <3> QED
      BY <3>2, <3>3
  <2>2. CASE v = u \/ job[v] = None \/ job[v].asset # a
    BY <1>8, <2>2
  <2> QED
    BY <2>1, <2>2
<1>11. job' \in [Patches -> R!Jobs \cup {None}]
  BY <1>8, <1>10
<1>12. ASSUME NEW b \in Assets
       PROVE  Fits(b)'
  <2>1. CASE b = a
    <3>1. j.stale \/ (/\ j.decidedOn = R!Given(j.cost, r.cost)
                      /\ j.treatment = R!Evaluate(j.decidedOn, R!Given(j.life, r.life), j.sound))
      BY <1>1, <1>2, <1>3, <1>4 DEF Decided
    <3>2. CASE j.stale
      BY <1>6, <1>9, <2>1, <3>2 DEF Fits
    <3>3. CASE ~j.stale /\ j.cost = None
      <4>1. n.cost = j.decidedOn
        BY <1>6, <3>1, <3>3 DEF R!Given
      <4> QED
        BY <1>6, <1>9, <2>1, <3>1, <3>3, <4>1 DEF Fits
    <3>4. CASE ~j.stale /\ j.cost # None
      <4>1. j.cost \in Costs /\ j.decidedOn = j.cost /\ j.sound \in BOOLEAN
        BY <3>1, <3>4 DEF R!Jobs, R!Given
      <4>2. n.cost = R!Stored(j.cost)
        BY <1>6, <3>4
      <4>3. \/ R!Evaluate(n.cost, n.life, n.sound) = n.treatment
            \/ n.decidedOn < Threshold /\ n.cost = Threshold
        BY <1>6, <3>1, <3>4, <4>1, <4>2, RoundingDecides
      <4> QED
        BY <1>9, <2>1, <4>3 DEF Fits
    <3> QED
      BY <3>2, <3>3, <3>4
  <2>2. CASE b # a
    BY <1>9, <2>2 DEF Fits
  <2> QED
    BY <2>1, <2>2
<1>13. ASSUME NEW v \in Patches
       PROVE  Decided(v)'
  <2>1. CASE job'[v] = None
    BY <2>1 DEF Decided
  <2>2. CASE job'[v].asset = a /\ job'[v].stale
    BY <1>9, <2>2 DEF Decided
  <2>3. CASE job'[v] = job[v] /\ job[v] # None /\ job[v].asset # a
    <3>1. job[v].asset \in Assets
      BY <2>3 DEF R!Jobs
    <3>2. row'[job[v].asset] = row[job[v].asset]
      BY <1>9, <2>3, <3>1
    <3> QED
      BY <2>3, <3>2 DEF Decided
  <2> QED
    BY <1>10, <2>1, <2>2, <2>3
<1> QED
  BY <1>9, <1>11, <1>12, <1>13

\* To abandon an update keeps the invariant.
LEMMA AbandonFits ==
    ASSUME TreatmentInv, NEW u \in Patches, R!Abandon(u)
    PROVE  TreatmentInv'
<1>1. row' = row /\ job' \in [Patches -> R!Jobs \cup {None}]
      /\ \A v \in Patches : job'[v] = None \/ job'[v] = job[v]
  BY DEF TreatmentInv, R!Abandon
<1>2. \A v \in Patches : Decided(v)'
  BY <1>1 DEF TreatmentInv, Decided
<1>3. \A a \in Assets : Fits(a)'
  BY <1>1 DEF TreatmentInv, Fits
<1> QED
  BY <1>1, <1>2, <1>3 DEF TreatmentInv

-----------------------------------------------------------------------------
(* Recognition: theorem *)

\* However updates of some of the fields overlap, the treatment kept with an asset is the one
\* its fields call for, unless two updates overlapped or the cost was rounded up to the
\* threshold when it was stored; and rows and requests keep their types.
THEOREM RecognitionFitsHolds == R!Spec => []RecognitionFits
<1>1. R!Init => TreatmentInv
  BY DEF R!Init, TreatmentInv, Fits, Decided
<1>2. TreatmentInv /\ [R!Next]_(R!vars) => TreatmentInv'
  <2> SUFFICES ASSUME TreatmentInv, [R!Next]_(R!vars) PROVE TreatmentInv'
    OBVIOUS
  <2>1. CASE UNCHANGED R!vars
    BY <2>1 DEF R!vars, TreatmentInv, Fits, Decided
  <2>2. ASSUME NEW a \in Assets, NEW c \in Costs, NEW l \in Lives \cup {None}, NEW s \in BOOLEAN,
               R!Create(a, c, l, s) \/ \E u \in Patches : R!Read(u, a, c, l, s)
        PROVE  TreatmentInv'
    BY <2>2, CreateFits, ReadFits
  <2>3. ASSUME NEW a \in Assets, NEW l \in Lives \cup {None}, NEW s \in BOOLEAN,
               NEW u \in Patches, R!Read(u, a, None, l, s)
        PROVE  TreatmentInv'
    BY <2>3, ReadFits
  <2>4. ASSUME NEW u \in Patches, R!Write(u) \/ R!Abandon(u)
        PROVE  TreatmentInv'
    BY <2>4, WriteFits, AbandonFits
  <2> QED
    BY <2>1, <2>2, <2>3, <2>4 DEF R!Next
<1>3. TreatmentInv => RecognitionFits
  BY DEF TreatmentInv, Fits, RecognitionFits, R!RecognitionFits
<1> QED
  BY <1>1, <1>2, <1>3, PTL DEF R!Spec


-----------------------------------------------------------------------------
(* Settings: the inductive invariant *)

Columns == [Fields -> Values \cup {DefaultValue}]
CallStep == {"new", "find", "again", "create", "conflict", "update", "answered", "failed"}

\* A call that goes on to update found or made the row; an answer has what was asked for.
CallKept(c) ==
    /\ call[c].step \in {"conflict", "update"} => setting # None
    /\ call[c].step = "answered" =>
           \A f \in DOMAIN call[c].update : call[c].answer[f] = call[c].update[f]

SettingsInv ==
    /\ setting \in Columns \cup {None} /\ last \in Columns
    /\ call \in [Calls -> [step: CallStep, update: S!Updates, answer: Columns \cup {None}]]
    /\ setting = None => last = S!Defaults
    /\ setting # None => setting = last
    /\ \A c \in Calls : CallKept(c)

-----------------------------------------------------------------------------
(* Settings: the steps *)

\* A call moves on, the others stay; no row is ever taken away.
LEMMA CallMoves ==
    ASSUME SettingsInv, NEW c \in Calls,
           NEW x \in [step: CallStep, update: S!Updates, answer: Columns \cup {None}],
           call' = [call EXCEPT ![c] = x],
           x.step \in {"conflict", "update"} => setting' # None,
           x.step = "answered" => \A f \in DOMAIN x.update : x.answer[f] = x.update[f],
           setting # None => setting' # None
    PROVE  /\ call' \in [Calls -> [step: CallStep, update: S!Updates, answer: Columns \cup {None}]]
           /\ \A d \in Calls : CallKept(d)'
  BY DEF SettingsInv, CallKept

\* A call goes to a step that asks for nothing but the row.
LEMMA GotoKeeps ==
    ASSUME SettingsInv, NEW c \in Calls, NEW s \in CallStep, S!Goto(c, s),
           s # "answered", s \in {"conflict", "update"} => setting' # None,
           setting # None => setting' # None
    PROVE  /\ call' \in [Calls -> [step: CallStep, update: S!Updates, answer: Columns \cup {None}]]
           /\ \A d \in Calls : CallKept(d)'
<1>1. PICK x : x = [call[c] EXCEPT !.step = s]
  OBVIOUS
<1>2. x \in [step: CallStep, update: S!Updates, answer: Columns \cup {None}] /\ x.step = s
  BY <1>1 DEF SettingsInv
<1>3. call' = [call EXCEPT ![c] = x]
  BY <1>1 DEF S!Goto, SettingsInv
<1> QED
  BY <1>2, <1>3, CallMoves

\* A call is answered with a row that has what it asked for.
LEMMA AnswerKeeps ==
    ASSUME SettingsInv, NEW c \in Calls, NEW r \in Columns, S!Answer(c, r),
           \A f \in DOMAIN call[c].update : r[f] = call[c].update[f],
           setting # None => setting' # None
    PROVE  /\ call' \in [Calls -> [step: CallStep, update: S!Updates, answer: Columns \cup {None}]]
           /\ \A d \in Calls : CallKept(d)'
<1>1. PICK x : x = [call[c] EXCEPT !.step = "answered", !.answer = r]
  OBVIOUS
<1>2. /\ x \in [step: CallStep, update: S!Updates, answer: Columns \cup {None}]
      /\ x.step = "answered" /\ x.update = call[c].update /\ x.answer = r
  BY <1>1 DEF SettingsInv, CallStep
<1>3. call' = [call EXCEPT ![c] = x]
  BY <1>1 DEF S!Answer
<1> QED
  BY <1>2, <1>3, CallMoves

\* A call that found or made the row is answered with it or goes on to update.
LEMMA GotKeeps ==
    ASSUME SettingsInv, NEW c \in Calls, NEW r \in Columns, S!Got(c, r), setting' # None
    PROVE  /\ call' \in [Calls -> [step: CallStep, update: S!Updates, answer: Columns \cup {None}]]
           /\ \A d \in Calls : CallKept(d)'
<1>1. CASE call[c].update = S!Nothing
  <2>1. DOMAIN call[c].update = {}
    BY <1>1 DEF S!Nothing
  <2> QED
    BY <1>1, <2>1, AnswerKeeps DEF S!Got
<1>2. CASE call[c].update # S!Nothing
  BY <1>2, GotoKeeps DEF S!Got, CallStep
<1> QED
  BY <1>1, <1>2

\* The columns an update gives are those of the row after it, the others stay.
LEMMA GivenTyped ==
    ASSUME NEW u \in S!Updates, NEW r \in Columns
    PROVE  /\ S!Given(u, r) \in Columns
           /\ \A f \in DOMAIN u : S!Given(u, r)[f] = u[f]
<1>1. PICK F \in SUBSET Fields : u \in [F -> Values]
  BY DEF S!Updates
<1> QED
  BY <1>1 DEF S!Given, Columns

\* Every step of a call keeps the invariant.
LEMMA CallKeeps ==
    ASSUME SettingsInv, NEW c \in Calls,
           \/ \E u \in S!Updates : S!Ask(c, u)
           \/ S!Find(c) \/ S!Create(c) \/ S!FindOther(c) \/ S!Update(c) \/ S!Fail(c)
    PROVE  SettingsInv'
<1> DEFINE Ct == [step: CallStep, update: S!Updates, answer: Columns \cup {None}]
<1>1. S!Defaults \in Columns
  BY DEF S!Defaults, Columns
<1>2. None \notin Columns
  BY NoneIsApart DEF Columns
<1>3. ASSUME NEW u \in S!Updates, S!Ask(c, u)
      PROVE  SettingsInv'
  <2>1. PICK x : x = [call[c] EXCEPT !.step = "find", !.update = u]
    OBVIOUS
  <2>2. x \in Ct /\ x.step = "find"
    BY <2>1 DEF SettingsInv, CallStep
  <2>3. call' = [call EXCEPT ![c] = x] /\ UNCHANGED <<setting, last>>
    BY <1>3, <2>1 DEF S!Ask
  <2>4. call' \in [Calls -> Ct] /\ \A d \in Calls : CallKept(d)'
    BY <2>2, <2>3, CallMoves
  <2> QED
    BY <2>3, <2>4 DEF SettingsInv
<1>4. CASE S!Find(c) \/ S!FindOther(c) \/ S!Fail(c)
  <2>1. UNCHANGED <<setting, last>>
    BY <1>4 DEF S!Find, S!FindOther, S!Fail
  <2>2. setting # None => setting \in Columns
    BY DEF SettingsInv
  <2>3. CASE S!Got(c, setting) /\ setting # None
    <3>1. call' \in [Calls -> Ct] /\ \A d \in Calls : CallKept(d)'
      BY <2>1, <2>2, <2>3, GotKeeps
    <3> QED
      BY <2>1, <3>1 DEF SettingsInv
  <2>4. CASE \E s \in {"again", "create", "failed"} : S!Goto(c, s)
    <3>1. call' \in [Calls -> Ct] /\ \A d \in Calls : CallKept(d)'
      BY <2>1, <2>4, GotoKeeps DEF CallStep
    <3> QED
      BY <2>1, <3>1 DEF SettingsInv
  <2>5. S!FindOther(c) => setting # None
    BY DEF SettingsInv, CallKept, S!FindOther
  <2> QED
    BY <1>4, <2>3, <2>4, <2>5 DEF S!Find, S!FindOther, S!Fail
<1>5. CASE S!Create(c)
  <2>1. CASE setting = None
    <3>1. setting' = S!Defaults /\ S!Got(c, S!Defaults) /\ UNCHANGED last
      BY <1>5, <2>1 DEF S!Create
    <3>2. call' \in [Calls -> Ct] /\ \A d \in Calls : CallKept(d)'
      BY <1>1, <1>2, <3>1, GotKeeps
    <3> QED
      BY <1>1, <1>2, <2>1, <3>1, <3>2 DEF SettingsInv
  <2>2. CASE setting # None
    <3>1. S!Goto(c, "conflict") /\ UNCHANGED <<setting, last>>
      BY <1>5, <2>2 DEF S!Create
    <3>2. call' \in [Calls -> Ct] /\ \A d \in Calls : CallKept(d)'
      BY <2>2, <3>1, GotoKeeps DEF CallStep
    <3> QED
      BY <3>1, <3>2 DEF SettingsInv
  <2> QED
    BY <2>1, <2>2
<1>6. CASE S!Update(c)
  <2>1. PICK u \in S!Updates : u = call[c].update
    BY DEF SettingsInv
  <2>2. setting # None /\ setting \in Columns /\ setting = last
    BY <1>6 DEF S!Update, SettingsInv, CallKept
  <2>3. /\ setting' = S!Given(u, setting) /\ last' = S!Given(u, last)
        /\ S!Answer(c, S!Given(u, setting))
    BY <1>6, <2>1 DEF S!Update
  <2>4. S!Given(u, setting) \in Columns /\ \A f \in DOMAIN u : S!Given(u, setting)[f] = u[f]
    BY <2>2, GivenTyped
  <2>5. call' \in [Calls -> Ct] /\ \A d \in Calls : CallKept(d)'
    BY <1>2, <2>1, <2>3, <2>4, AnswerKeeps
  <2> QED
    BY <1>2, <2>2, <2>3, <2>4, <2>5 DEF SettingsInv
<1> QED
  BY <1>3, <1>4, <1>5, <1>6

-----------------------------------------------------------------------------
(* Settings: theorem *)

\* However calls that make, find and update the row of an organization overlap: each column
\* has what it was last set to, or its default, and who updated is answered with the update.
THEOREM SettingsKeptHolds == S!Spec => []SettingsKept
<1>1. S!Init => SettingsInv
  <2>1. S!Nothing \in S!Updates
    <3>1. S!Nothing \in [{} -> Values] /\ {} \in SUBSET Fields
      BY DEF S!Nothing
    <3> QED
      BY <3>1 DEF S!Updates
  <2>2. S!Defaults \in Columns
    BY DEF S!Defaults, Columns
  <2> QED
    BY <2>1, <2>2 DEF S!Init, SettingsInv, CallKept, CallStep
<1>2. SettingsInv /\ [S!Next]_(S!vars) => SettingsInv'
  <2>1. ASSUME SettingsInv, UNCHANGED S!vars
        PROVE  SettingsInv'
    BY <2>1 DEF S!vars, SettingsInv, CallKept
  <2> QED
    BY <2>1, CallKeeps DEF S!Next
<1>3. SettingsInv => SettingsKept
  BY DEF SettingsInv, CallKept, SettingsKept, S!SettingsKept
<1> QED
  BY <1>1, <1>2, <1>3, PTL DEF S!Spec


-----------------------------------------------------------------------------
(* Intake: what a sheet is read as *)

\* Intake counts as the modules about finite sets do.
LEMMA IntakeCounts ==
    ASSUME NEW T
    PROVE  I!Cardinality(T) = Cardinality(T)
  BY DEF I!Cardinality, Cardinality

Full(s) == {i \in DOMAIN s : s[i].kind # "blank"}

\* The rows that hold something, those that are read, and those over the limit.
LEMMA SheetCounts ==
    ASSUME NEW s \in Sheets
    PROVE  /\ DOMAIN s = 1..Len(s) /\ Len(s) \in Nat
           /\ IsFiniteSet(Full(s)) /\ Cardinality(Full(s)) \in Nat
           /\ I!Total(s) = Cardinality(Full(s)) /\ I!Total(s) <= Len(s)
           /\ I!Least(I!Total(s), SheetRows) \in Nat
           /\ I!Least(I!Total(s), SheetRows) <= I!Total(s)
           /\ I!Over(s) = I!Total(s) - I!Least(I!Total(s), SheetRows)
<1>1. PICK n \in Nat : n = Len(s) /\ DOMAIN s = 1..n
  <2>1. PICK T : s \in Seq(T)
    BY SheetsAreRows
  <2> QED
    BY <2>1
<1>2. IsFiniteSet(1..n) /\ Cardinality(1..n) = n
  BY FS_Interval
<1>3. IsFiniteSet(Full(s)) /\ Cardinality(Full(s)) <= n
  <2>1. Full(s) \subseteq 1..n
    BY <1>1 DEF Full
  <2> QED
    BY <1>2, <2>1, FS_Subset
<1>4. PICK t \in Nat : t = Cardinality(Full(s))
  BY <1>3, FS_CardinalityType
<1>5. I!Total(s) = t
  BY <1>4, IntakeCounts DEF I!Total, Full
<1>6. PICK m : m = I!Least(I!Total(s), SheetRows)
  OBVIOUS
<1>7. m \in Nat /\ m <= t /\ I!Over(s) = t - m
  <2>1. PICK c \in Nat : c = SheetRows
    BY SheetsAreRows
  <2>2. m = IF t <= c THEN t ELSE c
    BY <1>5, <1>6, <2>1 DEF I!Least
  <2>3. I!Over(s) = IF t > c THEN t - c ELSE 0
    BY <1>5, <2>1 DEF I!Over
  <2> QED
    BY <2>2, <2>3
<1> QED
  BY <1>1, <1>3, <1>4, <1>5, <1>6, <1>7

\* A blank row stands above one that holds something.
BlankAbove(s) == \E i, k \in DOMAIN s : i < k /\ s[i].kind = "blank" /\ s[k].kind # "blank"

\* Every row that holds something is read or over the limit, unless a blank one stands above.
LEMMA RowsAccounted ==
    ASSUME NEW s \in Sheets
    PROVE  /\ Cardinality(I!ReadRows(s)) \in Nat /\ I!Over(s) \in Nat /\ I!Total(s) \in Nat
           /\ IsFiniteSet(I!ReadRows(s))
           /\ \/ Cardinality(I!ReadRows(s)) + I!Over(s) = I!Total(s)
              \/ Cardinality(I!ReadRows(s)) + I!Over(s) < I!Total(s) /\ BlankAbove(s)
<1>0. PICK T : T = Full(s)
  OBVIOUS
<1>1. PICK n \in Nat, m \in Nat :
           /\ T \subseteq 1..n /\ n = Len(s) /\ DOMAIN s = 1..n
           /\ T = Full(s) /\ IsFiniteSet(T) /\ Cardinality(T) \in Nat
           /\ I!Total(s) = Cardinality(T) /\ Cardinality(T) <= n
           /\ m = I!Least(I!Total(s), SheetRows) /\ m <= Cardinality(T)
           /\ I!Over(s) = Cardinality(T) - m
  BY <1>0, SheetCounts DEF Full
<1>2. PICK Q : Q = I!ReadRows(s)
  OBVIOUS
<1>3. Q = {i \in 1..m : i \in T}
  <2>1. Q = {i \in 1..m : s[i].kind # "blank"}
    BY <1>1, <1>2 DEF I!ReadRows
  <2>2. \A i \in 1..m : i \in 1..n
    BY <1>1
  <2>3. \A i \in 1..m : i \in T <=> s[i].kind # "blank"
    BY <1>1, <2>2 DEF Full
  <2> QED
    BY <2>1, <2>3
<1>4. IsFiniteSet(1..m) /\ Cardinality(1..m) = m
  BY FS_Interval
<1>5. /\ IsFiniteSet(Q) /\ Cardinality(Q) <= m
      /\ Cardinality(Q) = m => Q = 1..m
      /\ Cardinality(Q) \in Nat
  <2>1. Q \subseteq 1..m
    BY <1>3
  <2>2. IsFiniteSet(Q)
    BY <1>4, <2>1, FS_Subset
  <2>3. /\ Cardinality(Q) <= Cardinality(1..m)
        /\ Cardinality(1..m) = Cardinality(Q) => 1..m = Q
    BY <1>4, <2>1, FS_Subset
  <2>4. Cardinality(Q) \in Nat
    BY <2>2, FS_CardinalityType
  <2> QED
    BY <1>4, <2>2, <2>3, <2>4
<1>6. ASSUME Cardinality(Q) < m
      PROVE  BlankAbove(s)
  <2>1. PICK i \in 1..m : i \notin T
    <3>1. Q # 1..m
      BY <1>4, <1>6
    <3> QED
      BY <1>3, <3>1
  <2>2. PICK k \in T : i < k
    <3> SUFFICES ASSUME \A k \in T : ~(i < k) PROVE FALSE
      OBVIOUS
    <3>1. \A k \in T : k \in 1..n /\ k <= i /\ k # i
      BY <1>1, <2>1
    <3>2. T \subseteq 1..(i - 1)
      BY <2>1, <3>1
    <3>3. IsFiniteSet(1..(i - 1)) /\ Cardinality(1..(i - 1)) = i - 1
      BY <2>1, FS_Interval
    <3>4. Cardinality(T) <= i - 1
      BY <3>2, <3>3, FS_Subset
    <3> QED
      BY <1>1, <2>1, <3>4
  <2>3. i \in 1..n /\ k \in 1..n
    BY <1>1, <2>1
  <2> QED
    BY <1>1, <2>1, <2>2, <2>3 DEF BlankAbove, Full
<1>7. CASE Cardinality(Q) = m
  BY <1>1, <1>2, <1>5, <1>7
<1>8. CASE Cardinality(Q) < m
  BY <1>1, <1>2, <1>5, <1>6, <1>8
<1> QED
  BY <1>5, <1>7, <1>8

-----------------------------------------------------------------------------
(* Intake: the inductive invariants *)

ImportRecord == [step: {"new", "listed", "done"}, sheet: Sheets \cup {<<>>},
                 listed: SUBSET Branches, inserted: Int, failed: Int]

\* An import has its sheet, and what it reported adds up.
Accounted(j) ==
    /\ import[j].step # "new" => import[j].sheet \in Sheets
    /\ import[j].step = "done" =>
          LET n == import[j].inserted + import[j].failed  s == import[j].sheet
          IN  n = I!Total(s) \/ (n < I!Total(s) /\ BlankAbove(s))

ImportInv ==
    /\ import \in [Imports -> ImportRecord]
    /\ \A j \in Imports : Accounted(j)

\* The rows that would be inserted are among those that are read.
LEMMA ValidCounted ==
    ASSUME ImportInv, NEW j \in Imports, import[j].step = "listed"
    PROVE  I!Cardinality(I!Valid(j)) \in Nat
<1>1. import[j].sheet \in Sheets
  BY DEF ImportInv, Accounted
<1>2. IsFiniteSet(I!ReadRows(import[j].sheet))
  BY <1>1, RowsAccounted
<1>3. IsFiniteSet(I!Valid(j))
  BY <1>2, FS_Subset DEF I!Valid
<1> QED
  BY <1>3, FS_CardinalityType, IntakeCounts

\* An import that reports keeps the invariant.
LEMMA ReportKeeps ==
    ASSUME ImportInv, NEW j \in Imports, import[j].step = "listed", NEW n \in Nat, I!Report(j, n)
    PROVE  ImportInv'
<1>1. PICK s \in Sheets : s = import[j].sheet
  BY DEF ImportInv, Accounted
<1>2. PICK r \in Nat, o \in Nat, t \in Nat :
           /\ r = Cardinality(I!ReadRows(s)) /\ o = I!Over(s) /\ t = I!Total(s)
           /\ r + o = t \/ (r + o < t /\ BlankAbove(s))
  BY RowsAccounted
<1>3. r = I!Cardinality(I!ReadRows(s))
  BY <1>2, IntakeCounts
<1>4. PICK x : x = [import[j] EXCEPT !.step = "done", !.inserted = n, !.failed = r - n + o]
  OBVIOUS
<1>5. x \in ImportRecord /\ x.step = "done" /\ x.sheet = s /\ x.inserted = n /\ x.failed = r - n + o
  <2>1. r - n + o \in Int /\ n \in Int
    OBVIOUS
  <2>2. import[j] \in ImportRecord
    BY DEF ImportInv
  <2>3. PICK f \in Int : f = r - n + o
    BY <2>1
  <2>4. x = [import[j] EXCEPT !.step = "done", !.inserted = n, !.failed = f]
    BY <1>4, <2>3
  <2> QED
    BY <1>1, <2>1, <2>2, <2>3, <2>4 DEF ImportRecord
<1>6. import' = [import EXCEPT ![j] = x]
  BY <1>1, <1>2, <1>3, <1>4 DEF I!Report
<1>7. import' \in [Imports -> ImportRecord] /\ import'[j] = x
      /\ \A i \in Imports : i # j => import'[i] = import[i]
  BY <1>5, <1>6 DEF ImportInv
<1>8. Accounted(j)'
  <2>1. x.inserted + x.failed = r + o
    BY <1>5
  <2> QED
    BY <1>2, <1>5, <1>7, <2>1 DEF Accounted
<1>9. \A i \in Imports : i # j => Accounted(i)'
  BY <1>7 DEF ImportInv, Accounted
<1> QED
  BY <1>7, <1>8, <1>9 DEF ImportInv

\* An import that lists the branches keeps the invariant.
LEMMA ListReads ==
    ASSUME ImportInv, NEW j \in Imports, NEW s \in Sheets, I!List(j, s)
    PROVE  ImportInv'
<1>1. PICK x : x = [import[j] EXCEPT !.step = "listed", !.sheet = s, !.listed = I!LiveBranches]
  OBVIOUS
<1>2. x \in ImportRecord /\ x.step = "listed" /\ x.sheet = s
  BY <1>1 DEF ImportInv, ImportRecord, I!LiveBranches
<1>3. import' = [import EXCEPT ![j] = x]
  BY <1>1 DEF I!List
<1> QED
  BY <1>2, <1>3 DEF ImportInv, Accounted

\* Every import has its sheet, and what it reported adds up.
LEMMA ImportInvHolds == I!Spec => []ImportInv
<1>1. I!Init => ImportInv
  <2> SUFFICES ASSUME I!Init PROVE ImportInv
    OBVIOUS
  <2>1. I!NewImport \in ImportRecord /\ I!NewImport.step = "new"
    BY DEF I!NewImport, ImportRecord
  <2> QED
    BY <2>1 DEF I!Init, ImportInv, Accounted
<1>2. ImportInv /\ [I!Next]_(I!vars) => ImportInv'
  <2> SUFFICES ASSUME ImportInv, [I!Next]_(I!vars) PROVE ImportInv'
    OBVIOUS
  <2>1. CASE UNCHANGED import
    BY <2>1 DEF ImportInv, Accounted
  <2>2. ASSUME NEW j \in Imports, I!Insert(j)
        PROVE  ImportInv'
    BY <2>2, ValidCounted, ReportKeeps DEF I!Insert
  <2>3. ASSUME NEW j \in Imports, I!InsertFails(j)
        PROVE  ImportInv'
    BY <2>3, ReportKeeps DEF I!InsertFails
  <2> QED
    BY <2>1, <2>2, <2>3, ListReads DEF I!Next, I!vars, I!DeleteAsset, I!RestoreAsset, I!Create,
       I!Transfer, I!CreateBranch, I!DeleteBranch, I!CountAssets, I!Force
<1> QED
  BY <1>1, <1>2, PTL DEF I!Spec

\* Whatever an import inserts, and whether its answer gets lost or all its rows fail: every row
\* of the sheet that holds something is reported, unless a blank row stands above one of them.
THEOREM ImportAccountsHolds == I!Spec => []ImportAccounts
<1>1. ImportInv => ImportAccounts
  BY DEF ImportInv, Accounted, BlankAbove, ImportAccounts, I!ImportAccounts
<1> QED
  BY <1>1, ImportInvHolds, PTL


-----------------------------------------------------------------------------
(* Intake: the branches *)

AssetRecord   == [live: BOOLEAN, branch: I!Places, known: BOOLEAN]
RemovalRecord == [step: {"new", "counted", "refused", "deleted"}, branch: I!Places,
                  force: BOOLEAN, newcomers: SUBSET Tags, left: SUBSET Tags]

\* A deletion that counted the assets of a branch, and was not forced, knows of all that
\* are there now; one that is over left nobody else behind.
Warned(d) ==
    /\ removal[d].step = "counted" /\ ~removal[d].force =>
           I!In(removal[d].branch) \subseteq removal[d].newcomers
    /\ removal[d].step = "deleted" /\ ~removal[d].force =>
           removal[d].left \subseteq removal[d].newcomers

PlaceTyped ==
    /\ branch \in [Branches -> {"none", "live", "deleted"}]
    /\ asset \in [Tags -> AssetRecord]
    /\ removal \in [Removals -> RemovalRecord]

PlaceInv == PlaceTyped /\ \A d \in Removals : Warned(d)

\* A deletion under way hears of the assets that have come, and of nothing else.
LEMMA NewcomersTyped ==
    ASSUME PlaceTyped, NEW d \in Removals, NEW T \in SUBSET Tags,
           removal'[d] = [removal[d] EXCEPT !.newcomers = removal[d].newcomers \cup T]
    PROVE  /\ removal'[d] \in RemovalRecord
           /\ removal'[d].step = removal[d].step /\ removal'[d].branch = removal[d].branch
           /\ removal'[d].force = removal[d].force /\ removal'[d].left = removal[d].left
           /\ removal'[d].newcomers = removal[d].newcomers \cup T
<1>1. PICK r \in RemovalRecord : r = removal[d]
  BY DEF PlaceTyped
<1>2. PICK q : q = [r EXCEPT !.newcomers = r.newcomers \cup T]
  OBVIOUS
<1>3. /\ q \in RemovalRecord /\ q.step = r.step /\ q.branch = r.branch
      /\ q.force = r.force /\ q.left = r.left /\ q.newcomers = r.newcomers \cup T
  BY <1>2 DEF RemovalRecord
<1> QED
  BY <1>1, <1>2, <1>3

\* One asset changes, and a deletion under way of the branch it is in now hears of it.
LEMMA OneCame ==
    ASSUME PlaceInv, NEW t \in Tags, NEW x \in AssetRecord,
           asset' = [asset EXCEPT ![t] = x], UNCHANGED branch,
           (~x.live /\ UNCHANGED removal) \/ I!Arrive({t}, x.branch)
    PROVE  PlaceInv'
<1>1. /\ asset' \in [Tags -> AssetRecord] /\ asset'[t] = x
      /\ \A u \in Tags : u # t => asset'[u] = asset[u]
  BY DEF PlaceInv, PlaceTyped
<1>2. ASSUME NEW d \in Removals
      PROVE  /\ removal'[d] \in RemovalRecord
             /\ removal'[d].step = removal[d].step /\ removal'[d].branch = removal[d].branch
             /\ removal'[d].force = removal[d].force /\ removal'[d].left = removal[d].left
             /\ removal[d].newcomers \subseteq removal'[d].newcomers
             /\ x.live /\ removal[d].step = "counted" /\ removal[d].branch = x.branch
                    => t \in removal'[d].newcomers
  <2>1. CASE I!Arrive({t}, x.branch) /\ removal[d].step = "counted" /\ removal[d].branch = x.branch
    <3>1. removal'[d] = [removal[d] EXCEPT !.newcomers = removal[d].newcomers \cup {t}]
      BY <2>1 DEF I!Arrive
    <3> QED
      BY <3>1, NewcomersTyped DEF PlaceInv
  <2>2. CASE removal'[d] = removal[d] /\ (~x.live \/ removal[d].step # "counted"
                                           \/ removal[d].branch # x.branch)
    BY <2>2 DEF PlaceInv, PlaceTyped
  <2>3. CASE I!Arrive({t}, x.branch) /\ ~(removal[d].step = "counted" /\ removal[d].branch = x.branch)
    BY <2>2, <2>3 DEF I!Arrive
  <2> QED
    BY <2>1, <2>2, <2>3
<1>3. removal' \in [Removals -> RemovalRecord]
  BY <1>2 DEF PlaceInv, PlaceTyped, I!Arrive
<1>4. ASSUME NEW d \in Removals
      PROVE  Warned(d)'
  <2>1. Warned(d)
    BY DEF PlaceInv
  <2>2. removal[d].step = "counted" =>
            I!In(removal[d].branch)' \subseteq I!In(removal[d].branch) \cup removal'[d].newcomers
    BY <1>1, <1>2 DEF I!In
  <2> QED
    BY <1>2, <2>1, <2>2 DEF Warned, I!In
<1>5. PlaceTyped'
  BY <1>1, <1>3 DEF PlaceInv, PlaceTyped
<1> QED
  BY <1>4, <1>5 DEF PlaceInv

\* The assets an import brings into b.
Arrivals(j, b) ==
    LET s    == import[j].sheet
        came == [i \in I!Valid(j) |-> I!Resolved(s[i], import[j].listed)]
    IN  {s[i].tag : i \in {k \in I!Valid(j) : came[k] = b}}

\* A row that is inserted has a tag.
LEMMA ArrivalsTagged ==
    ASSUME ImportInv, NEW j \in Imports, import[j].step = "listed", NEW b
    PROVE  Arrivals(j, b) \subseteq Tags
<1>1. PICK s \in Sheets : s = import[j].sheet
  BY DEF ImportInv, Accounted
<1>2. ASSUME NEW i \in I!Valid(j)
      PROVE  s[i].tag \in Tags
  <2>1. i \in 1..I!Least(I!Total(s), SheetRows) /\ s[i].kind = "asset"
    BY <1>1 DEF I!Valid, I!ReadRows
  <2>2. i \in DOMAIN s
    BY <2>1, SheetCounts
  <2> QED
    BY <2>1, <2>2, SheetsAreRows
<1> QED
  BY <1>1, <1>2 DEF Arrivals

\* Every asset an import brings is in the branch it arrives in, and the deletions under way
\* hear of those of their branch.
LEMMA PutIs ==
    ASSUME PlaceTyped, NEW j \in Imports, I!Put(j)
    PROVE  /\ asset' = [t \in Tags |->
                  IF \E b \in I!Places : t \in Arrivals(j, b)
                  THEN I!Asset(CHOOSE b \in I!Places : t \in Arrivals(j, b)) ELSE asset[t]]
           /\ removal' = [d \in Removals |->
                  IF removal[d].step = "counted"
                  THEN [removal[d] EXCEPT !.newcomers =
                           removal[d].newcomers \cup Arrivals(j, removal[d].branch)]
                  ELSE removal[d]]
  BY DEF I!Put, Arrivals

\* An import that inserts its rows strands nobody.
LEMMA InsertWarns ==
    ASSUME PlaceInv, ImportInv, NEW j \in Imports, I!Insert(j)
    PROVE  PlaceInv'
<1>1. I!Put(j) /\ import[j].step = "listed" /\ UNCHANGED branch
  BY DEF I!Insert
<1>2. ASSUME NEW t \in Tags
      PROVE  \/ asset'[t] = asset[t]
             \/ \E b \in I!Places : t \in Arrivals(j, b) /\ asset'[t] = I!Asset(b)
  BY <1>1, PutIs DEF PlaceInv
<1>3. asset' \in [Tags -> AssetRecord]
  <2>1. \A b \in I!Places : I!Asset(b) \in AssetRecord
    BY DEF I!Asset, AssetRecord
  <2>2. \A t \in Tags : asset'[t] \in AssetRecord
    BY <1>2, <2>1 DEF PlaceInv, PlaceTyped
  <2>3. asset' = [t \in Tags |-> asset'[t]]
    BY <1>1, PutIs DEF PlaceInv
  <2> QED
    BY <2>2, <2>3
<1>4. ASSUME NEW d \in Removals
      PROVE  /\ removal'[d] \in RemovalRecord
             /\ removal'[d].step = removal[d].step /\ removal'[d].branch = removal[d].branch
             /\ removal'[d].force = removal[d].force /\ removal'[d].left = removal[d].left
             /\ removal[d].newcomers \subseteq removal'[d].newcomers
             /\ removal[d].step = "counted" =>
                    Arrivals(j, removal[d].branch) \subseteq removal'[d].newcomers
  <2>1. CASE removal[d].step = "counted"
    <3>1. PICK T : T = Arrivals(j, removal[d].branch)
      OBVIOUS
    <3>2. T \subseteq Tags
      BY <1>1, <3>1, ArrivalsTagged
    <3>3. removal'[d] = [removal[d] EXCEPT !.newcomers = removal[d].newcomers \cup T]
      BY <1>1, <2>1, <3>1, PutIs DEF PlaceInv
    <3> QED
      BY <3>1, <3>2, <3>3, NewcomersTyped DEF PlaceInv
  <2>2. CASE removal[d].step # "counted"
    <3>1. removal'[d] = removal[d]
      BY <1>1, <2>2, PutIs DEF PlaceInv
    <3> QED
      BY <2>2, <3>1 DEF PlaceInv, PlaceTyped
  <2> QED
    BY <2>1, <2>2
<1>5. removal' \in [Removals -> RemovalRecord]
  <2>1. removal' = [d \in Removals |-> removal'[d]]
    BY <1>1, PutIs DEF PlaceInv
  <2> QED
    BY <1>4, <2>1
<1>6. ASSUME NEW d \in Removals
      PROVE  Warned(d)'
  <2>1. Warned(d)
    BY DEF PlaceInv
  <2>2. ASSUME removal[d].step = "counted", NEW t \in I!In(removal[d].branch)'
        PROVE  t \in I!In(removal[d].branch) \cup removal'[d].newcomers
    <3>1. t \in Tags /\ asset'[t].live /\ asset'[t].branch = removal'[d].branch
      BY <1>4, <2>2 DEF I!In
    <3>2. CASE asset'[t] = asset[t]
      BY <1>4, <3>1, <3>2 DEF I!In
    <3>3. ASSUME NEW b \in I!Places, t \in Arrivals(j, b), asset'[t] = I!Asset(b)
          PROVE  t \in removal'[d].newcomers
      <4>1. b = removal[d].branch
        BY <1>4, <3>1, <3>3 DEF I!Asset
      <4> QED
        BY <1>4, <2>2, <3>3, <4>1
    <3> QED
      BY <1>2, <3>1, <3>2, <3>3
  <2> QED
    BY <1>4, <2>1, <2>2 DEF Warned, I!In
<1> QED
  BY <1>1, <1>3, <1>5, <1>6 DEF PlaceInv, PlaceTyped

\* A deletion moves on, the assets stay: it has counted none, was forced, or leaves those
\* it knows of.
LEMMA RemovalWarns ==
    ASSUME PlaceInv, NEW d \in Removals, NEW r \in RemovalRecord,
           removal' = [removal EXCEPT ![d] = r], UNCHANGED asset,
           branch' \in [Branches -> {"none", "live", "deleted"}],
           r.step = "counted" /\ ~r.force => I!In(r.branch) \subseteq r.newcomers,
           r.step = "deleted" /\ ~r.force => r.left \subseteq r.newcomers
    PROVE  PlaceInv'
<1>1. /\ removal' \in [Removals -> RemovalRecord] /\ removal'[d] = r
      /\ \A e \in Removals : e # d => removal'[e] = removal[e]
  BY DEF PlaceInv, PlaceTyped
<1>2. PlaceTyped'
  BY <1>1 DEF PlaceInv, PlaceTyped
<1>3. ASSUME NEW e \in Removals
      PROVE  Warned(e)'
  <2>1. CASE e = d
    BY <1>1, <2>1 DEF Warned, I!In
  <2>2. CASE e # d
    <3>1. Warned(e) /\ removal'[e] = removal[e]
      BY <1>1, <2>2 DEF PlaceInv
    <3> QED
      BY <3>1 DEF Warned, I!In
  <2> QED
    BY <2>1, <2>2
<1> QED
  BY <1>2, <1>3 DEF PlaceInv

\* The steps of a deletion strand nobody it knows not of.
LEMMA DeletionWarns ==
    ASSUME PlaceInv, NEW d \in Removals,
           I!DeleteBranch(d) \/ \E b \in Branches : I!CountAssets(d, b) \/ I!Force(d, b)
    PROVE  PlaceInv'
<1>1. removal[d] \in RemovalRecord /\ Warned(d)
  BY DEF PlaceInv, PlaceTyped
<1>2. ASSUME NEW b \in Branches, I!CountAssets(d, b)
      PROVE  PlaceInv'
  <2>1. PICK s \in {"counted", "refused"} : s = IF I!AssetsOf(b) = {} THEN "counted" ELSE "refused"
    OBVIOUS
  <2>2. PICK r : r = [removal[d] EXCEPT !.step = s, !.branch = b]
    OBVIOUS
  <2>3. r \in RemovalRecord /\ r.step = s /\ r.branch = b
    BY <1>1, <2>2 DEF RemovalRecord, I!Places
  <2>4. removal' = [removal EXCEPT ![d] = r] /\ UNCHANGED <<asset, branch>>
    BY <1>2, <2>1, <2>2 DEF I!CountAssets
  <2>5. r.step = "counted" => I!In(r.branch) = {}
    BY <2>1, <2>3 DEF I!AssetsOf
  <2> QED
    BY <2>1, <2>3, <2>4, <2>5, RemovalWarns DEF PlaceInv, PlaceTyped
<1>3. ASSUME NEW b \in Branches, I!Force(d, b)
      PROVE  PlaceInv'
  <2>1. PICK r : r = [removal[d] EXCEPT !.step = "counted", !.branch = b, !.force = TRUE]
    OBVIOUS
  <2>2. r \in RemovalRecord /\ r.force
    BY <1>1, <2>1 DEF RemovalRecord, I!Places
  <2>3. removal' = [removal EXCEPT ![d] = r] /\ UNCHANGED <<asset, branch>>
    BY <1>3, <2>1 DEF I!Force
  <2> QED
    BY <2>2, <2>3, RemovalWarns DEF PlaceInv, PlaceTyped
<1>4. CASE I!DeleteBranch(d)
  <2>1. PICK b : b = removal[d].branch
    OBVIOUS
  <2>2. removal[d].step = "counted" /\ UNCHANGED asset
    BY <1>4 DEF I!DeleteBranch
  <2>3. CASE branch[b] = "live"
    <3>1. PICK r : r = [removal[d] EXCEPT !.step = "deleted", !.left = I!In(b)]
      OBVIOUS
    <3>2. /\ r \in RemovalRecord /\ r.step = "deleted" /\ r.left = I!In(b)
          /\ r.force = removal[d].force /\ r.newcomers = removal[d].newcomers
      BY <1>1, <3>1 DEF RemovalRecord, I!In
    <3>3. removal' = [removal EXCEPT ![d] = r]
      BY <1>4, <2>1, <2>3, <3>1 DEF I!DeleteBranch
    <3>4. branch' \in [Branches -> {"none", "live", "deleted"}]
      BY <1>4, <2>1, <2>3 DEF I!DeleteBranch, PlaceInv, PlaceTyped
    <3>5. ~r.force => r.left \subseteq r.newcomers
      BY <1>1, <2>1, <2>2, <3>2 DEF Warned
    <3> QED
      BY <2>2, <3>2, <3>3, <3>4, <3>5, RemovalWarns
  <2>4. CASE branch[b] # "live"
    <3>1. PICK r : r = [removal[d] EXCEPT !.step = "refused"]
      OBVIOUS
    <3>2. r \in RemovalRecord /\ r.step = "refused"
      BY <1>1, <3>1 DEF RemovalRecord
    <3>3. removal' = [removal EXCEPT ![d] = r] /\ UNCHANGED branch
      BY <1>4, <2>1, <2>4, <3>1 DEF I!DeleteBranch
    <3> QED
      BY <2>2, <3>2, <3>3, RemovalWarns DEF PlaceInv, PlaceTyped
  <2> QED
    BY <2>3, <2>4
<1> QED
  BY <1>2, <1>3, <1>4

\* The steps of a single asset strand nobody.
LEMMA AssetWarns ==
    ASSUME PlaceInv, NEW t \in Tags,
           \/ I!DeleteAsset(t) \/ I!RestoreAsset(t)
           \/ \E b \in I!Places : I!Create(t, b)
           \/ \E b \in Branches : I!Transfer(t, b)
    PROVE  PlaceInv'
<1>1. asset[t] \in AssetRecord
  BY DEF PlaceInv, PlaceTyped
<1>2. CASE I!DeleteAsset(t)
  <2>1. PICK x : x = [asset[t] EXCEPT !.live = FALSE]
    OBVIOUS
  <2>2. x \in AssetRecord /\ ~x.live
    BY <1>1, <2>1 DEF AssetRecord
  <2>3. asset' = [asset EXCEPT ![t] = x] /\ UNCHANGED <<branch, removal>>
    BY <1>2, <2>1 DEF I!DeleteAsset
  <2> QED
    BY <2>2, <2>3, OneCame
<1>3. CASE I!RestoreAsset(t)
  <2>1. PICK x : x = [asset[t] EXCEPT !.live = TRUE]
    OBVIOUS
  <2>2. x \in AssetRecord /\ x.branch = asset[t].branch
    BY <1>1, <2>1 DEF AssetRecord
  <2>3. asset' = [asset EXCEPT ![t] = x] /\ UNCHANGED branch /\ I!Arrive({t}, x.branch)
    BY <1>3, <2>1, <2>2 DEF I!RestoreAsset
  <2> QED
    BY <2>2, <2>3, OneCame
<1>4. ASSUME NEW b \in I!Places, I!Create(t, b)
      PROVE  PlaceInv'
  <2>1. I!Asset(b) \in AssetRecord /\ I!Asset(b).branch = b
    BY DEF I!Asset, AssetRecord
  <2>2. asset' = [asset EXCEPT ![t] = I!Asset(b)] /\ UNCHANGED branch
        /\ I!Arrive({t}, I!Asset(b).branch)
    BY <1>4, <2>1 DEF I!Create
  <2> QED
    BY <2>1, <2>2, OneCame
<1>5. ASSUME NEW b \in Branches, I!Transfer(t, b)
      PROVE  PlaceInv'
  <2>1. PICK x : x = [asset[t] EXCEPT !.branch = b]
    OBVIOUS
  <2>2. x \in AssetRecord /\ x.branch = b
    BY <1>1, <2>1 DEF AssetRecord, I!Places
  <2>3. asset' = [asset EXCEPT ![t] = x] /\ UNCHANGED branch /\ I!Arrive({t}, x.branch)
    BY <1>5, <2>1, <2>2 DEF I!Transfer
  <2> QED
    BY <2>2, <2>3, OneCame
<1> QED
  BY <1>2, <1>3, <1>4, <1>5

\* However assets are created, imported, transferred and restored while a branch is deleted
\* without force: it leaves no asset behind that was there when its assets were counted.
THEOREM OnlyNewcomersStrandedHolds == I!Spec => []OnlyNewcomersStranded
<1>1. I!Init => PlaceInv
  <2> SUFFICES ASSUME I!Init PROVE PlaceInv
    OBVIOUS
  <2>1. I!NewRemoval \in RemovalRecord /\ I!NewRemoval.step = "new"
    BY DEF I!NewRemoval, RemovalRecord, I!Places
  <2>2. I!NoAsset \in AssetRecord
    BY DEF I!NoAsset, AssetRecord, I!Places
  <2> QED
    BY <2>1, <2>2 DEF I!Init, PlaceInv, PlaceTyped, Warned
<1>2. PlaceInv /\ ImportInv /\ [I!Next]_(I!vars) => PlaceInv'
  <2> SUFFICES ASSUME PlaceInv, ImportInv, [I!Next]_(I!vars) PROVE PlaceInv'
    OBVIOUS
  <2>1. CASE UNCHANGED <<asset, removal>> /\ branch' \in [Branches -> {"none", "live", "deleted"}]
    BY <2>1 DEF PlaceInv, PlaceTyped, Warned, I!In
  <2>2. CASE UNCHANGED I!vars \/ \E j \in Imports : I!InsertFails(j) \/ \E s \in Sheets : I!List(j, s)
    BY <2>1, <2>2 DEF I!vars, I!InsertFails, I!List, PlaceInv, PlaceTyped
  <2>3. CASE \E b \in Branches : I!CreateBranch(b)
    BY <2>1, <2>3 DEF I!CreateBranch, PlaceInv, PlaceTyped
  <2> QED
    BY <2>2, <2>3, InsertWarns, DeletionWarns, AssetWarns DEF I!Next
<1>3. PlaceInv => OnlyNewcomersStranded
  BY DEF PlaceInv, PlaceTyped, AssetRecord, Warned, OnlyNewcomersStranded, I!OnlyNewcomersStranded
<1> QED
  BY <1>1, <1>2, <1>3, ImportInvHolds, PTL DEF I!Spec

-----------------------------------------------------------------------------
(* AssetExport: pages *)

\* AssetExport counts as the modules about finite sets do.
LEMMA ExportCounts ==
    ASSUME NEW T
    PROVE  E!Cardinality(T) = Cardinality(T)
  BY DEF E!Cardinality, Cardinality

\* The rows of B that come before a.
Ahead(B, a) == {b \in B : E!Before(b, a)}

\* The rows of a set have a total order.
LEMMA RowsAreOrdered ==
    ASSUME born \in [Listed -> Nat], NEW a \in Listed, NEW b \in Listed, NEW c \in Listed
    PROVE  /\ ~E!Before(a, a)
           /\ a = b \/ E!Before(a, b) \/ E!Before(b, a)
           /\ E!Before(a, b) /\ E!Before(b, c) => E!Before(a, c)
<1>1. /\ a \in Nat /\ b \in Nat /\ c \in Nat
      /\ born[a] \in Nat /\ born[b] \in Nat /\ born[c] \in Nat
  BY PagesAreFinite
<1> QED
  BY <1>1 DEF E!Before

\* A row that comes later has more rows before it.
LEMMA LaterHasMore ==
    ASSUME born \in [Listed -> Nat], NEW B \in SUBSET Listed, NEW a \in B, NEW b \in B, E!Before(b, a)
    PROVE  /\ Cardinality(Ahead(B, a)) \in Nat /\ Cardinality(Ahead(B, b)) \in Nat
           /\ Cardinality(Ahead(B, b)) < Cardinality(Ahead(B, a))
<1>1. IsFiniteSet(Ahead(B, a)) /\ IsFiniteSet(Ahead(B, b))
  BY PagesAreFinite, FS_Subset DEF Ahead
<1>2. b \in Ahead(B, a)
  BY DEF Ahead
<1>3. Ahead(B, b) \subseteq Ahead(B, a) \ {b}
  BY RowsAreOrdered DEF Ahead
<1>4. /\ IsFiniteSet(Ahead(B, a) \ {b})
      /\ Cardinality(Ahead(B, a) \ {b}) = Cardinality(Ahead(B, a)) - 1
  BY <1>1, <1>2, FS_RemoveElement
<1>5. Cardinality(Ahead(B, b)) <= Cardinality(Ahead(B, a) \ {b})
  BY <1>3, <1>4, FS_Subset
<1>6. Cardinality(Ahead(B, a)) \in Nat /\ Cardinality(Ahead(B, b)) \in Nat
  BY <1>1, FS_CardinalityType
<1> QED
  BY <1>4, <1>5, <1>6

\* What a page leaves comes behind all of its rows.
LEMMA PageIsFirst ==
    ASSUME born \in [Listed -> Nat], NEW B \in SUBSET Listed, NEW n \in Nat,
           NEW a \in B \ E!First(B, n), NEW l \in E!First(B, n)
    PROVE  E!Before(l, a)
<1>1. l \in B /\ Cardinality(Ahead(B, l)) < n /\ ~(Cardinality(Ahead(B, a)) < n)
  BY ExportCounts DEF E!First, Ahead
<1>2. ASSUME E!Before(a, l) PROVE FALSE
  BY <1>1, <1>2, LaterHasMore
<1> QED
  BY <1>1, <1>2, RowsAreOrdered

\* A page shorter than its limit leaves nothing.
LEMMA ShortPageIsAll ==
    ASSUME born \in [Listed -> Nat], NEW B \in SUBSET Listed, NEW n \in Nat,
           Cardinality(E!First(B, n)) < n
    PROVE  E!First(B, n) = B
<1> DEFINE X == B \ E!First(B, n)
           T == {Cardinality(Ahead(B, b)) : b \in X}
<1>1. \A a \in B : IsFiniteSet(Ahead(B, a)) /\ Cardinality(Ahead(B, a)) \in Nat
  BY PagesAreFinite, FS_Subset, FS_CardinalityType DEF Ahead
<1>2. E!First(B, n) \subseteq B /\ \A a \in X : ~(Cardinality(Ahead(B, a)) < n)
  BY ExportCounts DEF E!First, Ahead
<1>3. ASSUME X # {} PROVE FALSE
  <2>1. T \subseteq Nat /\ T # {}
    BY <1>1, <1>3
  <2>2. PICK m \in T : \A k \in T : m <= k
    BY <2>1, LeastNat
  <2>3. PICK a \in X : m = Cardinality(Ahead(B, a))
    OBVIOUS
  <2>4. ASSUME NEW b \in Ahead(B, a)
        PROVE  b \in E!First(B, n)
    <3>1. b \in B /\ E!Before(b, a)
      BY DEF Ahead
    <3>2. Cardinality(Ahead(B, b)) < m /\ m \in Nat /\ Cardinality(Ahead(B, b)) \in Nat
      BY <3>1, <2>3, LaterHasMore
    <3>3. b \notin X
      BY <3>2, <2>2
    <3> QED
      BY <3>1, <3>3
  <2>5. IsFiniteSet(E!First(B, n))
    BY <1>2, PagesAreFinite, FS_Subset
  <2>6. Cardinality(Ahead(B, a)) <= Cardinality(E!First(B, n))
    BY <2>4, <2>5, FS_Subset
  <2>7. Cardinality(E!First(B, n)) \in Nat
    BY <2>5, FS_CardinalityType
  <2> QED
    BY <1>1, <1>2, <2>3, <2>6, <2>7
<1> QED
  BY <1>2, <1>3

\* A page has at most as many rows as its limit.
LEMMA PageHasLimit ==
    ASSUME born \in [Listed -> Nat], NEW B \in SUBSET Listed, NEW n \in Nat,
           NEW l \in E!First(B, n), \A a \in E!First(B, n) \ {l} : E!Before(a, l)
    PROVE  Cardinality(E!First(B, n)) <= n
<1> DEFINE P == E!First(B, n)
<1>1. P \subseteq B /\ l \in B /\ Cardinality(Ahead(B, l)) < n
  BY ExportCounts DEF E!First, Ahead
<1>2. IsFiniteSet(P) /\ IsFiniteSet(Ahead(B, l))
  BY <1>1, PagesAreFinite, FS_Subset DEF Ahead
<1>3. P \ {l} \subseteq Ahead(B, l)
  BY <1>1 DEF Ahead
<1>4. /\ Cardinality(P \ {l}) <= Cardinality(Ahead(B, l))
      /\ Cardinality(P \ {l}) = Cardinality(P) - 1
  BY <1>2, <1>3, FS_Subset, FS_RemoveElement
<1>5. Cardinality(P) \in Nat /\ Cardinality(Ahead(B, l)) \in Nat
  BY <1>2, FS_CardinalityType
<1> QED
  BY <1>1, <1>4, <1>5

\* What lies between the beginning of a time's millisecond and that time is of the same one.
LEMMA SameMillisecond ==
    ASSUME NEW t \in Nat
    PROVE  /\ E!Millis(t) \in Nat /\ E!Millis(t) <= t
           /\ \A s \in Nat : E!Millis(t) <= s /\ s <= t => E!Millis(s) = E!Millis(t)
<1>1. PICK u \in Nat \ {0} : u = Unit
  BY PagesAreFinite
<1>2. /\ t \div u \in Nat /\ t % u \in 0..(u - 1) /\ t = u * (t \div u) + (t % u)
  BY <1>1
<1>3. E!Millis(t) = u * (t \div u) /\ E!Millis(t) \in Nat /\ E!Millis(t) <= t
  BY <1>1, <1>2 DEF E!Millis
<1>4. ASSUME NEW s \in Nat, E!Millis(t) <= s, s <= t
      PROVE  E!Millis(s) = E!Millis(t)
  <2>1. /\ s \div u \in Nat /\ s % u \in 0..(u - 1) /\ s = u * (s \div u) + (s % u)
    BY <1>1
  <2>2. E!Millis(s) = u * (s \div u)
    BY <1>1, <2>1 DEF E!Millis
  <2>3. PICK p \in Nat, q \in Nat : p = s \div u /\ q = t \div u
    BY <1>2, <2>1
  <2>4. u * p < u * q + u /\ u * q < u * p + u
    BY <1>2, <1>3, <1>4, <2>1, <2>3
  <2>5. p = q
    BY <2>4
  <2> QED
    BY <1>3, <2>2, <2>3, <2>5
<1> QED
  BY <1>3, <1>4

-----------------------------------------------------------------------------
(* AssetExport: the inductive invariant *)

Shared(e, a) == \E p \in e.ends : E!Millis(born[a]) = E!Millis(born[p]) /\ born[p] # E!Millis(born[p])

\* Behind the cursor.
ToCome(e, a) == e.ends = {} \/ born[a] < e.at \/ (born[a] = e.at /\ a < e.id)

\* What an export has written lies before its cursor; of the assets that matched all along
\* the others are still to come or share a millisecond with the end of a page.
PagesKept(e) ==
    /\ e.count = Cardinality(e.got) /\ e.count <= ExportRows
    /\ e.there \subseteq matching /\ \A g \in e.got : born[g] # 0
    /\ e.ends \subseteq e.got /\ (e.ends = {} => e.got = {})
    /\ e.step = "new" => e.ends = {}
    /\ e.ends # {} => \A g \in e.got : born[g] > e.at \/ (born[g] = e.at /\ g >= e.id)
    /\ e.step = "paging" => /\ e.count < ExportRows
                            /\ \A a \in e.there \ e.got : Shared(e, a) \/ ToCome(e, a)
    /\ E!Complete(e) => \A a \in e.there \ e.got : Shared(e, a)

ExportInv ==
    /\ born \in [Listed -> Times \cup {0}] /\ matching \subseteq Listed
    /\ \A a \in matching : born[a] # 0
    /\ export \in [Exports -> E!ExportType]
    /\ \A x \in Exports : PagesKept(export[x])

-----------------------------------------------------------------------------
(* AssetExport: the steps *)

\* Times are naturals, and all sets of assets finite.
LEMMA ExportTyped ==
    ASSUME ExportInv
    PROVE  /\ born \in [Listed -> Nat]
           /\ \A T \in SUBSET Listed : IsFiniteSet(T) /\ Cardinality(T) \in Nat
<1>0. Times \cup {0} \subseteq Nat
  BY PagesAreFinite
<1>1. born \in [Listed -> Nat]
  BY <1>0 DEF ExportInv
<1>2. \A T \in SUBSET Listed : IsFiniteSet(T) /\ Cardinality(T) \in Nat
  BY PagesAreFinite, FS_Subset, FS_CardinalityType
<1> QED
  BY <1>1, <1>2

\* An export is not disturbed by assets that come and go.
LEMMA ExportUndisturbed ==
    ASSUME ExportInv, NEW e \in E!ExportType, PagesKept(e), NEW f \in E!ExportType,
           f.step = e.step, f.at = e.at, f.id = e.id, f.count = e.count, f.got = e.got,
           f.ends = e.ends, f.there \subseteq e.there, f.there \subseteq matching',
           \A a \in Listed : born[a] # 0 => born'[a] = born[a]
    PROVE  PagesKept(f)'
<1>1. \A a \in f.there \cup e.got \cup e.ends : a \in Listed /\ born[a] # 0 /\ born'[a] = born[a]
  BY DEF ExportInv, PagesKept, E!ExportType
<1>2. \A a \in f.there : (Shared(e, a) => Shared(f, a)') /\ (ToCome(e, a) => ToCome(f, a)')
  BY <1>1 DEF Shared, ToCome, E!Millis
<1>3. E!Complete(f) <=> E!Complete(e)
  BY DEF E!Complete
<1> QED
  BY <1>1, <1>2, <1>3 DEF PagesKept

\* Assets are created, leave the filters, or come back to them.
LEMMA AssetsCome ==
    ASSUME ExportInv, \/ \E T \in SUBSET Listed, t \in Times : E!Create(T, t)
                      \/ \E a \in Listed : E!Leave(a) \/ E!Enter(a)
    PROVE  ExportInv'
<1>1. CASE \E T \in SUBSET Listed, t \in Times : E!Create(T, t)
  <2>1. PICK T \in SUBSET Listed, t \in Times : E!Create(T, t)
    BY <1>1
  <2>2. /\ born' \in [Listed -> Times \cup {0}] /\ t # 0
        /\ \A a \in Listed : born[a] # 0 => born'[a] = born[a]
        /\ \A a \in T : born'[a] = t
    BY <2>1, PagesAreFinite DEF E!Create, ExportInv
  <2>3. matching' = matching \cup T /\ export' = export
    BY <2>1 DEF E!Create
  <2>4. ASSUME NEW x \in Exports
        PROVE  PagesKept(export[x])'
    <3>1. export[x] \in E!ExportType /\ PagesKept(export[x]) /\ export'[x] = export[x]
      BY <2>3 DEF ExportInv
    <3>2. export[x].there \subseteq matching'
      BY <2>3, <3>1 DEF PagesKept
    <3>3. PICK e \in E!ExportType : e = export[x] /\ e = export'[x]
      BY <3>1
    <3>4. PagesKept(e)'
      BY <3>1, <3>2, <3>3, <2>2, ExportUndisturbed
    <3> QED
      BY <3>3, <3>4 DEF PagesKept, Shared, ToCome
  <2> QED
    BY <2>2, <2>3, <2>4 DEF ExportInv
<1>2. CASE \E a \in Listed : E!Leave(a)
  <2>1. PICK a \in Listed : E!Leave(a)
    BY <1>2
  <2>2. born' = born /\ matching' = matching \ {a}
    BY <2>1 DEF E!Leave
  <2>3. ASSUME NEW x \in Exports
        PROVE  export'[x] \in E!ExportType /\ PagesKept(export[x])'
    <3>1. export[x] \in E!ExportType /\ PagesKept(export[x])
      BY DEF ExportInv
    <3>2. PICK f : f = [export[x] EXCEPT !.there = export[x].there \ {a}]
      OBVIOUS
    <3>3. /\ f \in E!ExportType /\ f.there = export[x].there \ {a}
          /\ f.step = export[x].step /\ f.at = export[x].at /\ f.id = export[x].id
          /\ f.count = export[x].count /\ f.got = export[x].got /\ f.ends = export[x].ends
      BY <3>1, <3>2 DEF E!ExportType
    <3>4. export'[x] = f
      BY <2>1, <3>2 DEF E!Leave
    <3>5. f.there \subseteq matching'
      BY <2>2, <3>1, <3>3 DEF PagesKept
    <3>6. PagesKept(f)'
      BY <3>1, <3>3, <3>5, <2>2, ExportUndisturbed
    <3> QED
      BY <3>3, <3>4, <3>6 DEF PagesKept, Shared, ToCome
  <2>4. export' \in [Exports -> E!ExportType]
    BY <2>1, <2>3 DEF E!Leave
  <2> QED
    BY <2>2, <2>3, <2>4 DEF ExportInv
<1>3. CASE \E a \in Listed : E!Enter(a)
  <2>1. PICK a \in Listed : E!Enter(a)
    BY <1>3
  <2>2. born' = born /\ matching' = matching \cup {a} /\ export' = export /\ born[a] # 0
    BY <2>1 DEF E!Enter
  <2> QED
    BY <2>2 DEF ExportInv, PagesKept, Shared, ToCome
<1> QED
  BY <1>1, <1>2, <1>3

\* One export moves on.
LEMMA ExportMoves ==
    ASSUME ExportInv, NEW x \in Exports, NEW f \in E!ExportType, UNCHANGED <<born, matching>>,
           export' = [export EXCEPT ![x] = f], PagesKept(f)
    PROVE  ExportInv'
<1>1. /\ export' \in [Exports -> E!ExportType] /\ export'[x] = f
      /\ \A y \in Exports : y # x => export'[y] = export[y]
  BY DEF ExportInv
<1>2. ASSUME NEW y \in Exports
      PROVE  PagesKept(export[y])'
  BY <1>1 DEF ExportInv, PagesKept, Shared, ToCome
<1> QED
  BY <1>1, <1>2 DEF ExportInv

\* An export begins.
LEMMA BeginKept ==
    ASSUME ExportInv, NEW x \in Exports, E!Begin(x)
    PROVE  ExportInv'
<1>1. PICK e \in E!ExportType : e = export[x] /\ PagesKept(e)
  BY DEF ExportInv
<1>2. PICK f : f = [e EXCEPT !.step = "paging", !.there = matching]
  OBVIOUS
<1>3. /\ f \in E!ExportType /\ f.step = "paging" /\ f.there = matching /\ f.at = e.at /\ f.id = e.id
      /\ f.count = e.count /\ f.got = e.got /\ f.ends = e.ends
  BY <1>2 DEF E!ExportType, ExportInv
<1>4. e.ends = {} /\ e.got = {} /\ e.count = 0
  BY <1>1, FS_EmptySet DEF E!Begin, PagesKept
<1>5. PagesKept(f)
  BY <1>1, <1>3, <1>4, PagesAreFinite, FS_EmptySet DEF PagesKept, ToCome, E!Complete
<1>6. export' = [export EXCEPT ![x] = f] /\ UNCHANGED <<born, matching>>
  BY <1>1, <1>2 DEF E!Begin
<1> QED
  BY <1>3, <1>5, <1>6, ExportMoves

\* An export that finds no further row is done.
LEMMA NoPageKept ==
    ASSUME ExportInv, NEW x \in Exports, E!NoPage(x)
    PROVE  ExportInv'
<1>1. PICK e \in E!ExportType : e = export[x] /\ PagesKept(e)
  BY DEF ExportInv
<1>2. PICK f : f = [e EXCEPT !.step = "done"]
  OBVIOUS
<1>3. /\ f \in E!ExportType /\ f.step = "done" /\ f.there = e.there /\ f.at = e.at /\ f.id = e.id
      /\ f.count = e.count /\ f.got = e.got /\ f.ends = e.ends
  BY <1>2 DEF E!ExportType
<1>4. e.step = "paging" /\ E!Behind(e) = {}
  BY <1>1 DEF E!NoPage
<1>5. \A a \in e.there : ~ToCome(e, a)
  BY <1>1, <1>4 DEF PagesKept, ToCome, E!Behind
<1>6. \A a \in e.there \ e.got : Shared(f, a)
  BY <1>1, <1>3, <1>4, <1>5 DEF PagesKept, Shared
<1>7. PagesKept(f)
  BY <1>1, <1>3, <1>4, <1>6 DEF PagesKept
<1>8. export' = [export EXCEPT ![x] = f] /\ UNCHANGED <<born, matching>>
  BY <1>1, <1>2 DEF E!NoPage
<1> QED
  BY <1>3, <1>7, <1>8, ExportMoves

\* The fields of an export.
LEMMA ExportFields ==
    ASSUME NEW e \in E!ExportType
    PROVE  /\ e.at \in Nat /\ e.id \in Nat /\ e.count \in Nat
           /\ e.got \in SUBSET Listed /\ e.ends \in SUBSET Listed /\ e.there \in SUBSET Listed
<1>1. E!Ids \subseteq Nat
  BY PagesAreFinite DEF E!Ids
<1> QED
  BY <1>1 DEF E!ExportType

\* A page adds the first rows behind the cursor, and its last row becomes the cursor.
LEMMA PageKept ==
    ASSUME ExportInv, NEW x \in Exports, E!Page(x)
    PROVE  ExportInv'
<1>1. PICK e \in E!ExportType : e = export[x] /\ PagesKept(e)
  BY DEF ExportInv
<1>2. PICK limit, rows, n :
          /\ limit = E!Least(PageSize, ExportRows - e.count)
          /\ rows = E!First(E!Behind(e), limit) /\ n = e.count + E!Cardinality(rows)
  OBVIOUS
<1>3. /\ e.step = "paging" /\ UNCHANGED <<born, matching>>
      /\ \E last_ \in rows :
            /\ \A a \in rows \ {last_} : E!Before(a, last_)
            /\ export' = [export EXCEPT ![x] =
                   [e EXCEPT !.count = n, !.got = e.got \cup rows, !.ends = e.ends \cup {last_},
                             !.at = E!Millis(born[last_]), !.id = last_,
                             !.step = IF E!Short(rows, limit) \/ n >= ExportRows
                                      THEN "done" ELSE "paging"]]
  BY <1>1, <1>2 DEF E!Page
<1>4. PICK l \in rows :
          /\ \A a \in rows \ {l} : E!Before(a, l)
          /\ export' = [export EXCEPT ![x] =
                 [e EXCEPT !.count = n, !.got = e.got \cup rows, !.ends = e.ends \cup {l},
                           !.at = E!Millis(born[l]), !.id = l,
                           !.step = IF E!Short(rows, limit) \/ n >= ExportRows
                                    THEN "done" ELSE "paging"]]
  BY <1>3
<1>5. PICK B \in SUBSET Listed : B = E!Behind(e) /\ B \subseteq matching
  BY DEF E!Behind, ExportInv
<1>6. /\ born \in [Listed -> Nat] /\ limit \in Nat /\ e.count \in Nat
      /\ limit <= ExportRows - e.count /\ ExportRows \in Nat
  BY <1>1, <1>2, <1>3, ExportTyped, PagesAreFinite DEF PagesKept, E!Least, E!ExportType
<1>7. /\ rows \subseteq B /\ rows = E!First(B, limit) /\ rows \subseteq Listed
      /\ E!Cardinality(rows) = Cardinality(rows)
      /\ E!Short(rows, limit) <=> Cardinality(rows) < limit
  BY <1>2, <1>5, ExportCounts DEF E!First, E!Short
<1>8. /\ Cardinality(rows) \in Nat /\ Cardinality(rows) <= limit
      /\ n \in Nat /\ n <= ExportRows /\ n = e.count + Cardinality(rows)
  BY <1>2, <1>4, <1>5, <1>6, <1>7, PageHasLimit, ExportTyped
<1>9. n = Cardinality(e.got \cup rows)
  <2>1. ASSUME NEW g \in e.got, g \in rows
        PROVE  FALSE
    <3>1. e.ends # {} /\ g \in Listed /\ born[g] \in Nat /\ e.at \in Nat /\ e.id \in Nat /\ g \in Nat
      BY <1>1, <1>6, <2>1, ExportFields, PagesAreFinite DEF PagesKept
    <3>2. born[g] < e.at \/ (born[g] = e.at /\ g < e.id)
      BY <1>5, <1>7, <2>1, <3>1 DEF E!Behind
    <3>3. born[g] > e.at \/ (born[g] = e.at /\ g >= e.id)
      BY <1>1, <2>1, <3>1 DEF PagesKept
    <3> QED
      BY <3>1, <3>2, <3>3
  <2>2. /\ IsFiniteSet(e.got) /\ IsFiniteSet(rows) /\ e.got \cap rows = {}
        /\ e.count = Cardinality(e.got)
    BY <1>1, <1>7, <2>1, ExportTyped DEF E!ExportType, PagesKept
  <2>3. Cardinality(e.got \cup rows) = Cardinality(e.got) + Cardinality(rows) - Cardinality({})
    BY <2>2, FS_Union
  <2> QED
    BY <1>6, <1>8, <2>2, <2>3, FS_EmptySet
<1>10. PICK f : f = [e EXCEPT !.count = n, !.got = e.got \cup rows, !.ends = e.ends \cup {l},
                              !.at = E!Millis(born[l]), !.id = l,
                              !.step = IF E!Short(rows, limit) \/ n >= ExportRows
                                       THEN "done" ELSE "paging"]
  OBVIOUS
<1>11. /\ f.count = n /\ f.got = e.got \cup rows /\ f.ends = e.ends \cup {l} /\ f.there = e.there
       /\ f.at = E!Millis(born[l]) /\ f.id = l /\ f.step \in {"done", "paging"}
       /\ f.step = "paging" => n < ExportRows /\ ~(Cardinality(rows) < limit)
       /\ f.step = "done" => n >= ExportRows \/ Cardinality(rows) < limit
  <2>1. PICK c \in BOOLEAN : c = (E!Short(rows, limit) \/ n >= ExportRows)
    OBVIOUS
  <2>2. /\ f.count = n /\ f.got = e.got \cup rows /\ f.ends = e.ends \cup {l} /\ f.there = e.there
        /\ f.at = E!Millis(born[l]) /\ f.id = l /\ f.step = IF c THEN "done" ELSE "paging"
    BY <1>10, <2>1 DEF E!ExportType
  <2>3. c <=> (Cardinality(rows) < limit \/ n >= ExportRows)
    BY <1>7, <2>1
  <2> QED
    BY <1>6, <1>8, <2>2, <2>3
<1>12. f \in E!ExportType
  <2>1. l \in E!Ids /\ E!Millis(born[l]) \in Nat /\ e.got \cup rows \in SUBSET Listed
        /\ e.ends \cup {l} \in SUBSET Listed
    BY <1>6, <1>7, SameMillisecond DEF E!ExportType, E!Ids
  <2> QED
    BY <1>8, <1>10, <1>11, <2>1 DEF E!ExportType
\* What the page leaves is behind its last row.
<1>13. \A a \in e.there \ f.got : Shared(f, a) \/ (ToCome(f, a) /\ ~(Cardinality(rows) < limit))
  <2> SUFFICES ASSUME NEW a \in e.there, a \notin f.got, ~Shared(f, a)
               PROVE  ToCome(f, a) /\ ~(Cardinality(rows) < limit)
    OBVIOUS
  <2>1. ~Shared(e, a) /\ a \notin e.got /\ a \notin rows
    BY <1>11 DEF Shared
  <2>2. a \in B
    BY <1>1, <1>3, <1>5, <2>1 DEF PagesKept, ToCome, E!Behind
  <2>3. ~(Cardinality(rows) < limit)
    BY <1>5, <1>6, <1>7, <2>1, <2>2, ShortPageIsAll
  <2>4. E!Before(l, a)
    BY <1>5, <1>6, <1>7, <2>1, <2>2, PageIsFirst
  <2>5. PICK t \in Nat, s \in Nat : t = born[l] /\ s = born[a]
    BY <1>5, <1>6, <1>7, <2>2
  <2>6. /\ E!Millis(t) \in Nat /\ E!Millis(t) <= t
        /\ E!Millis(t) <= s /\ s <= t => E!Millis(s) = E!Millis(t)
    BY SameMillisecond
  <2>7. t > s \/ (t = s /\ l > a)
    BY <2>4, <2>5 DEF E!Before
  <2>8. ~(E!Millis(s) = E!Millis(t) /\ t # E!Millis(t))
    BY <1>11, <2>5 DEF Shared
  <2>9. /\ l \in Nat /\ a \in Nat
        /\ s < E!Millis(t) \/ (s = E!Millis(t) /\ a < l)
    BY <1>5, <1>7, <2>2, <2>6, <2>7, <2>8, PagesAreFinite
  <2> QED
    BY <1>11, <2>3, <2>5, <2>9 DEF ToCome
\* What is written is not behind it.
<1>14. \A g \in f.got : born[g] # 0 /\ (born[g] > f.at \/ (born[g] = f.at /\ g >= f.id))
  <2>1. PICK t \in Nat : t = born[l] /\ E!Millis(t) \in Nat /\ E!Millis(t) <= t /\ l \in Nat
    BY <1>6, <1>7, SameMillisecond, PagesAreFinite
  <2>2. ASSUME NEW g \in rows
        PROVE  born[g] # 0 /\ (born[g] > f.at \/ (born[g] = f.at /\ g >= f.id))
    <3>1. born[g] \in Nat /\ born[g] # 0 /\ g \in Nat
      BY <1>5, <1>6, <1>7, PagesAreFinite DEF ExportInv
    <3>2. g = l \/ born[g] > t \/ (born[g] = t /\ g > l)
      BY <1>4, <2>1 DEF E!Before
    <3> QED
      BY <1>11, <2>1, <3>1, <3>2
  <2>3. ASSUME NEW g \in e.got
        PROVE  born[g] # 0 /\ (born[g] > f.at \/ (born[g] = f.at /\ g >= f.id))
    <3>1. /\ e.ends # {} /\ g \in Listed /\ born[g] \in Nat /\ e.at \in Nat /\ e.id \in Nat /\ g \in Nat
          /\ born[g] # 0
      BY <1>1, <1>6, <2>3, ExportFields, PagesAreFinite DEF PagesKept
    <3>2. t < e.at \/ (t = e.at /\ l < e.id)
      BY <1>5, <1>7, <2>1, <3>1 DEF E!Behind
    <3>3. born[g] > e.at \/ (born[g] = e.at /\ g >= e.id)
      BY <1>1, <2>3, <3>1 DEF PagesKept
    <3> QED
      BY <1>11, <2>1, <3>1, <3>2, <3>3
  <2> QED
    BY <1>11, <2>2, <2>3
<1>15. PagesKept(f)
  <2>1. f.ends # {} /\ f.step # "new" /\ f.ends \subseteq f.got /\ f.there \subseteq matching
    BY <1>1, <1>11 DEF PagesKept
  <2>2. f.step = "paging" => /\ f.count < ExportRows
                             /\ \A a \in f.there \ f.got : Shared(f, a) \/ ToCome(f, a)
    BY <1>11, <1>13
  <2>3. f.step = "done" /\ f.count < ExportRows => \A a \in f.there \ f.got : Shared(f, a)
    BY <1>6, <1>8, <1>11, <1>13
  <2>4. f.count = Cardinality(f.got) /\ f.count <= ExportRows
    BY <1>8, <1>9, <1>11
  <2> QED
    BY <1>14, <2>1, <2>2, <2>3, <2>4 DEF PagesKept, E!Complete
<1>16. export' = [export EXCEPT ![x] = f]
  BY <1>4, <1>10
<1> QED
  BY <1>3, <1>12, <1>15, <1>16, ExportMoves

\* However assets come and go between two pages, no asset is exported twice, and one that
\* matched all along is left out of an export that was not cut short only if the last row of
\* some page was created in the same millisecond; and assets and exports keep their types.
THEOREM SkipsShareMillisecondHolds == E!Spec => []SkipsShareMillisecond
<1>1. E!Init => ExportInv
  <2> SUFFICES ASSUME E!Init PROVE ExportInv
    OBVIOUS
  <2>1. E!Fresh \in E!ExportType /\ PagesKept(E!Fresh)
    BY PagesAreFinite, FS_EmptySet DEF E!Fresh, E!ExportType, E!Ids, PagesKept, E!Complete
  <2> QED
    BY <2>1 DEF E!Init, ExportInv
<1>2. ExportInv /\ [E!Next]_(E!vars) => ExportInv'
  <2> SUFFICES ASSUME ExportInv, [E!Next]_(E!vars) PROVE ExportInv'
    OBVIOUS
  <2>1. CASE UNCHANGED E!vars
    BY <2>1 DEF E!vars, ExportInv, PagesKept, Shared, ToCome
  <2>2. CASE \/ \E T \in SUBSET Listed, t \in Times : E!Create(T, t)
             \/ \E a \in Listed : E!Leave(a) \/ E!Enter(a)
    BY <2>2, AssetsCome
  <2>3. CASE \E x \in Exports : E!Begin(x) \/ E!Page(x) \/ E!NoPage(x)
    BY <2>3, BeginKept, PageKept, NoPageKept
  <2> QED
    BY <2>1, <2>2, <2>3 DEF E!Next
<1>3. ExportInv => SkipsShareMillisecond
  BY ExportCounts DEF ExportInv, PagesKept, Shared, SkipsShareMillisecond, E!SkipsShareMillisecond
<1> QED
  BY <1>1, <1>2, <1>3, PTL DEF E!Spec

-----------------------------------------------------------------------------
(* Depreciation: the inductive invariant *)

\* What a run computes: negative months or amounts are not stored.
Calculation == [prior: Nat, months: Int, bf: Nat, charge: Int, total: Int]

\* A run under way, and what its fields say of one another.
UnderWay ==
    {j \in [step: {"compute"}, year: D!Years, method: D!Method, todo: SUBSET Depreciable,
            terms: UNION {[T -> Terms] : T \in SUBSET Depreciable},
            calc: UNION {[T -> Calculation] : T \in SUBSET Depreciable},
            crossed: SUBSET Depreciable] :
        /\ j.todo \subseteq DOMAIN j.terms /\ DOMAIN j.calc \subseteq DOMAIN j.terms
        /\ j.todo \cap DOMAIN j.calc = {}
        /\ \A a \in DOMAIN j.calc :
              /\ j.calc[a].months <= 12
              /\ j.calc[a].charge > 0 => j.calc[a].total <= D!Base(j.terms[a])}

LedgerTyped ==
    /\ terms \in [Depreciable -> Terms]
    /\ snap \in [Depreciable -> [D!Years -> D!Snapshot \cup {D!NoSnap}]]
    /\ run \in [Runs -> UnderWay \cup {D!Idle}]
    /\ origin \in [Depreciable -> [D!Years -> [method: D!Method, terms: Terms] \cup {D!Hand}]]
    /\ behind \in [Depreciable -> SUBSET D!Years]
    /\ \A a \in Depreciable : behind[a] \subseteq D!Recorded(a)

\* A year that a run recorded and that is not behind is what would be computed today.
StillTrue ==
    \A a \in Depreciable : \A y \in D!ByRun(a) \ behind[a] :
        snap[a][y] = D!Computed(a, origin[a][y].terms, origin[a][y].method, y)

\* So is what a run has computed of an asset that was not crossed.
StillGood ==
    \A r \in Runs : run[r] # D!Idle =>
        \A a \in DOMAIN run[r].calc \ run[r].crossed :
            run[r].calc[a] = D!Computed(a, run[r].terms[a], run[r].method, run[r].year)

LedgerInv == LedgerTyped /\ StillTrue /\ StillGood /\ D!ChargedWithinBase

-----------------------------------------------------------------------------

\* The columns of an asset.
LEMMA TermsTyped ==
    ASSUME NEW t \in Terms
    PROVE  /\ t.cost \in Nat /\ t.residual \in Nat /\ t.life \in Nat /\ t.life > 0
           /\ t.year \in Int /\ t.month \in 1..12 /\ t.num \in Int /\ t.den \in Nat /\ t.den > 0
           /\ D!Base(t) \in Int
<1>1. /\ t.cost \in Nat /\ t.residual \in Nat /\ t.life \in Nat \ {0}
      /\ t.year \in Int /\ t.month \in 1..12 /\ t.num \in Int /\ t.den \in Nat \ {0}
  BY LedgersAreSound DEF D!TermsAreSound
<1> QED
  BY <1>1 DEF D!Base

\* Fiscal years are positive numbers.
LEMMA YearsAreNat ==
    /\ D!Years \subseteq Nat /\ \A y \in D!Years : y >= 1 /\ y <= LastYear
    /\ LastYear \in Nat
  BY LedgersAreSound DEF D!Years

\* round2 is off by half a unit at most.
LEMMA RoundedIs ==
    ASSUME NEW n \in Int, NEW d \in Int, d > 0
    PROVE  /\ D!Rounded(n, d) \in Int
           /\ 2 * (d * D!Rounded(n, d)) <= 2 * n + d
           /\ 2 * n - d <= 2 * (d * D!Rounded(n, d))
<1>1. PICK q \in Int : q = D!Rounded(n, d) /\ q = (2 * n + d) \div (2 * d)
  BY DEF D!Rounded
<1>2. PICK e \in Int : e = 2 * d /\ e > 0
  OBVIOUS
<1>3. e * q <= 2 * n + d /\ 2 * n + d < e * q + e
  BY <1>1, <1>2
<1>4. e * q = 2 * (d * q)
  BY <1>2
<1> QED
  BY <1>1, <1>2, <1>3, <1>4

\* At most twelve months of a year are used.
LEMMA MonthsTyped ==
    ASSUME NEW t \in Terms, NEW y \in D!Years
    PROVE  D!MonthsUsed(t, y) \in 0..12
  BY TermsTyped, YearsAreNat DEF D!MonthsUsed

\* What is computed is in its domain, adds up, and stays within the base if it is a charge.
LEMMA CalculationTyped ==
    ASSUME NEW t \in Terms, NEW m \in D!Method, NEW y \in D!Years, NEW bf \in Nat, NEW prior \in Nat
    PROVE  LET c == D!Calculate(t, m, y, bf, prior)
           IN  /\ c \in Calculation
               /\ c.prior = prior /\ c.bf = bf /\ c.total = bf + c.charge
               /\ c.months <= 12
               /\ c.charge > 0 => c.total <= D!Base(t)
<1> DEFINE left   == t.life - prior
           months == IF m = "straight_line" /\ left < D!MonthsUsed(t, y) THEN left
                     ELSE D!MonthsUsed(t, y)
           charge == IF m = "straight_line" THEN D!StraightLine(t, months, bf)
                     ELSE D!ReducingBalance(t, months, bf)
<1>1. D!Calculate(t, m, y, bf, prior) =
          [prior |-> prior, months |-> months, bf |-> bf, charge |-> charge, total |-> bf + charge]
  BY DEF D!Calculate
<1>2. months \in Int /\ months <= 12
  BY TermsTyped, MonthsTyped
<1> HIDE DEF months
<1>3. PICK n \in Int : n = months
  BY <1>2
<1>4. /\ D!StraightLine(t, n, bf) \in Int
      /\ D!StraightLine(t, n, bf) > 0 => bf + D!StraightLine(t, n, bf) <= D!Base(t)
  <2>1. PICK b \in Int : b = D!Base(t)
    BY TermsTyped
  <2>2. b * n \in Int
    OBVIOUS
  <2>3. PICK q \in Int : q = D!Rounded(b * n, t.life)
    <3>1. t.life \in Int /\ t.life > 0
      BY TermsTyped
    <3>2. PICK n2 \in Int : n2 = b * n
      BY <2>2
    <3> QED
      BY <3>1, <3>2, RoundedIs
  <2> QED
    BY <2>1, <2>3 DEF D!StraightLine
<1>5. /\ D!ReducingBalance(t, n, bf) \in Int
      /\ D!ReducingBalance(t, n, bf) > 0 => bf + D!ReducingBalance(t, n, bf) <= D!Base(t)
  <2>1. PICK b \in Int : b = t.cost - bf
    BY TermsTyped
  <2>2. b * t.num \in Int
    BY TermsTyped
  <2>3. b * t.num * n \in Int /\ t.den * 12 \in Int /\ t.den * 12 > 0
    BY <2>2, TermsTyped
  <2>4. PICK q \in Int : q = D!Rounded(b * t.num * n, t.den * 12)
    BY <2>3, RoundedIs
  <2> QED
    BY <2>1, <2>4, TermsTyped DEF D!ReducingBalance, D!Base
<1>6. charge \in Int /\ (charge > 0 => bf + charge <= D!Base(t))
  BY <1>3, <1>4, <1>5
<1> HIDE DEF charge
<1> QED
  BY <1>1, <1>2, <1>6 DEF Calculation

\* The last of some years.
LEMMA LastOf ==
    ASSUME NEW T, T \subseteq D!Years, T # {}
    PROVE  D!Max(T) \in T /\ \A z \in T : z <= D!Max(T)
<1> DEFINE U == {LastYear - z : z \in T}
<1>0. \A z \in T : z \in Nat /\ z <= LastYear /\ LastYear \in Nat /\ LastYear - z \in Nat
  BY YearsAreNat
<1>1. U \subseteq Nat /\ U # {}
  BY <1>0
<1>2. PICK m \in U : \A k \in U : m <= k
  <2> HIDE DEF U
  <2> QED
    BY <1>1, LeastNat
<1>3. PICK x \in T : m = LastYear - x
  OBVIOUS
<1>4. ASSUME NEW z \in T PROVE x >= z
  <2>1. LastYear - z \in U
    OBVIOUS
  <2>2. LastYear - x <= LastYear - z
    BY <1>2, <1>3, <2>1
  <2> QED
    BY <1>0, <2>2
<1>5. D!Max(T) \in T /\ \A z \in T : D!Max(T) >= z
  BY <1>4 DEF D!Max
<1> QED
  BY <1>5, YearsAreNat

\* What is read of earlier years.
LEMMA ReadBack ==
    ASSUME LedgerTyped, NEW a \in Depreciable, NEW y \in D!Years
    PROVE  /\ D!Earlier(a, y) \subseteq D!Years
           /\ D!Earlier(a, y) = {} =>
                \A t, m : D!Computed(a, t, m, y) = D!Calculate(t, m, y, 0, 0)
           /\ D!Earlier(a, y) # {} =>
                \E p \in D!Earlier(a, y) :
                    /\ p \in D!Recorded(a) /\ p < y /\ \A z \in D!Earlier(a, y) : z <= p
                    /\ snap[a][p] \in D!Snapshot
                    /\ \A t, m : D!Computed(a, t, m, y) =
                         D!Calculate(t, m, y, snap[a][p].total, snap[a][p].prior + snap[a][p].months)
<1>1. D!Earlier(a, y) \subseteq D!Years
  BY DEF D!Earlier, D!Recorded
<1>2. ASSUME D!Earlier(a, y) # {}
      PROVE  \E p \in D!Earlier(a, y) :
                /\ p \in D!Recorded(a) /\ p < y /\ \A z \in D!Earlier(a, y) : z <= p
                /\ snap[a][p] \in D!Snapshot
                /\ \A t, m : D!Computed(a, t, m, y) =
                     D!Calculate(t, m, y, snap[a][p].total, snap[a][p].prior + snap[a][p].months)
  <2>1. PICK p \in D!Earlier(a, y) :
            p = D!Max(D!Earlier(a, y)) /\ \A z \in D!Earlier(a, y) : z <= p
    BY <1>1, <1>2, LastOf
  <2>2. p \in D!Recorded(a) /\ p < y /\ p \in D!Years /\ snap[a][p] # D!NoSnap
    BY DEF D!Earlier, D!Recorded
  <2>3. snap[a][p] \in D!Snapshot
    BY <2>2 DEF LedgerTyped
  <2>4. \A t, m : D!Computed(a, t, m, y) =
            D!Calculate(t, m, y, snap[a][p].total, snap[a][p].prior + snap[a][p].months)
    BY <1>2, <2>1 DEF D!Computed
  <2> QED
    BY <2>1, <2>2, <2>3, <2>4
<1> QED
  BY <1>1, <1>2 DEF D!Computed

\* So much for what is computed from them.
LEMMA ComputedTyped ==
    ASSUME LedgerTyped, NEW a \in Depreciable, NEW t \in Terms, NEW m \in D!Method, NEW y \in D!Years
    PROVE  LET c == D!Computed(a, t, m, y)
           IN  /\ c \in Calculation /\ c.total = c.bf + c.charge /\ c.months <= 12
               /\ c.charge > 0 => c.total <= D!Base(t)
<1>1. CASE D!Earlier(a, y) = {}
  <2>1. D!Computed(a, t, m, y) = D!Calculate(t, m, y, 0, 0)
    BY <1>1, ReadBack
  <2> QED
    BY <2>1, CalculationTyped
<1>2. CASE D!Earlier(a, y) # {}
  <2>1. PICK s \in D!Snapshot : D!Computed(a, t, m, y) = D!Calculate(t, m, y, s.total, s.prior + s.months)
    BY <1>2, ReadBack
  <2>2. s.total \in Nat /\ s.prior + s.months \in Nat
    BY DEF D!Snapshot
  <2> QED
    BY <2>1, <2>2, CalculationTyped
<1> QED
  BY <1>1, <1>2

\* It depends on the earlier years only.
LEMMA ComputedSame ==
    ASSUME NEW a \in Depreciable, NEW y \in D!Years,
           \A z \in D!Years : z < y => snap'[a][z] = snap[a][z]
    PROVE  \A t, m : D!Computed(a, t, m, y)' = D!Computed(a, t, m, y)
<1>1. D!Earlier(a, y)' = D!Earlier(a, y)
  BY DEF D!Earlier, D!Recorded, D!Years, D!NoSnap
<1>2. CASE D!Earlier(a, y) = {}
  BY <1>1, <1>2 DEF D!Computed, D!Calculate, D!MonthsUsed, D!StraightLine, D!ReducingBalance, D!Base, D!Rounded
<1>3. CASE D!Earlier(a, y) # {}
  <2>1. PICK p \in D!Earlier(a, y) : p = D!Max(D!Earlier(a, y))
    <3>1. D!Earlier(a, y) \subseteq D!Years
      BY DEF D!Earlier, D!Recorded
    <3> QED
      BY <1>3, <3>1, LastOf
  <2>2. snap'[a][p] = snap[a][p]
    BY DEF D!Earlier, D!Recorded
  <2>3. D!Max(D!Earlier(a, y))' = p
    BY <1>1, <2>1 DEF D!Max
  <2> QED
    BY <1>1, <1>3, <2>1, <2>2, <2>3 DEF D!Computed, D!Calculate, D!MonthsUsed, D!StraightLine, D!ReducingBalance, D!Base, D!Rounded, D!Max
<1> QED
  BY <1>2, <1>3

\* The fields of a run.
LEMMA UnderWayTyped ==
    ASSUME NEW j \in UnderWay
    PROVE  /\ j.step = "compute" /\ j.year \in D!Years /\ j.method \in D!Method
           /\ j.todo \subseteq DOMAIN j.terms /\ DOMAIN j.calc \subseteq DOMAIN j.terms
           /\ DOMAIN j.terms \subseteq Depreciable /\ j.todo \cap DOMAIN j.calc = {}
           /\ j.crossed \subseteq Depreciable
           /\ \A a \in DOMAIN j.terms : j.terms[a] \in Terms
           /\ \A a \in DOMAIN j.calc :
                 /\ j.calc[a] \in Calculation /\ j.calc[a].months <= 12
                 /\ j.calc[a].charge > 0 => j.calc[a].total <= D!Base(j.terms[a])
  BY DEF UnderWay

\* What is to be shown of the next state.
LEMMA StillTrueNext ==
    ASSUME \A a \in Depreciable : \A y \in D!ByRun(a)' \ behind'[a] : \A t, m :
               t = origin'[a][y].terms /\ m = origin'[a][y].method => snap'[a][y] = D!Computed(a, t, m, y)'
    PROVE  StillTrue'
  BY DEF StillTrue, D!Computed, D!Earlier, D!Recorded

\* And of the runs.
LEMMA StillGoodNext ==
    ASSUME \A r \in Runs : \A j : j = run'[r] /\ j # D!Idle =>
               \A a \in DOMAIN j.calc \ j.crossed : j.calc[a] = D!Computed(a, j.terms[a], j.method, j.year)'
    PROVE  StillGood'
  BY DEF StillGood, D!Idle, D!Computed, D!Earlier, D!Recorded

\* As long as no snapshot changes.
LEMMA StillTrueSame ==
    ASSUME StillTrue, UNCHANGED <<snap, origin, behind>>
    PROVE  StillTrue'
<1> SUFFICES ASSUME NEW a \in Depreciable, NEW y \in D!ByRun(a)' \ behind'[a], NEW t, NEW m,
                    t = origin'[a][y].terms, m = origin'[a][y].method
             PROVE  snap'[a][y] = D!Computed(a, t, m, y)'
  BY StillTrueNext
<1>1. y \in D!ByRun(a) \ behind[a] /\ y \in D!Years
  BY DEF D!ByRun, D!Recorded, D!Hand, D!NoSnap, D!Years
<1>2. snap[a][y] = D!Computed(a, t, m, y)
  BY <1>1 DEF StillTrue
<1> QED
  BY <1>1, <1>2, ComputedSame

\* A run begins with nothing computed, computes from what is stored, and stores it.
LEMMA RunReadKept ==
    ASSUME LedgerInv, NEW r \in Runs, NEW W \in SUBSET Depreciable, NEW y \in D!Years,
           NEW m \in D!Method, D!RunRead(r, W, y, m)
    PROVE  LedgerInv'
<1>1. PICK j : /\ j = [step |-> "compute", year |-> y, method |-> m, todo |-> W,
                       terms |-> [a \in W |-> terms[a]],
                       calc |-> [a \in {} |-> D!NoSnap], crossed |-> {}]
               /\ run' = [run EXCEPT ![r] = j]
  BY DEF D!RunRead
<1>2. /\ j.step = "compute" /\ j.year = y /\ j.method = m /\ j.todo = W /\ j.crossed = {}
      /\ j.terms = [a \in W |-> terms[a]] /\ j.calc = [a \in {} |-> D!NoSnap]
  BY <1>1
<1>3. j \in UnderWay
  <2>1. j.terms \in [W -> Terms]
    BY <1>2 DEF LedgerInv, LedgerTyped
  <2>2. j.calc \in [{} -> Calculation] /\ DOMAIN j.calc = {}
    BY <1>2
  <2>3. /\ j.terms \in UNION {[T -> Terms] : T \in SUBSET Depreciable}
        /\ j.calc \in UNION {[T -> Calculation] : T \in SUBSET Depreciable}
    BY <2>1, <2>2
  <2> QED
    BY <1>1, <1>2, <2>1, <2>2, <2>3 DEF UnderWay
<1>4. UNCHANGED <<terms, snap, origin, behind>>
  BY DEF D!RunRead
<1>5. LedgerTyped'
  BY <1>1, <1>3, <1>4 DEF LedgerInv, LedgerTyped, D!Recorded
<1>6. StillTrue'
  BY <1>4, StillTrueSame DEF LedgerInv
<1>7. StillGood'
  <2> SUFFICES ASSUME NEW q \in Runs, NEW k, k = run'[q], k # D!Idle, NEW a \in DOMAIN k.calc \ k.crossed
               PROVE  k.calc[a] = D!Computed(a, k.terms[a], k.method, k.year)'
    BY StillGoodNext
  <2>1. q # r /\ k = run[q] /\ k \in UnderWay
    BY <1>1, <1>2 DEF LedgerInv, LedgerTyped
  <2>2. k.calc[a] = D!Computed(a, k.terms[a], k.method, k.year)
    BY <2>1 DEF LedgerInv, StillGood
  <2>3. a \in Depreciable /\ k.year \in D!Years
    BY <2>1, UnderWayTyped
  <2> QED
    BY <1>4, <2>2, <2>3, ComputedSame
<1>8. D!ChargedWithinBase'
  BY <1>4 DEF LedgerInv, D!ChargedWithinBase, D!ByRun, D!Recorded
<1> QED
  BY <1>5, <1>6, <1>7, <1>8 DEF LedgerInv

\* What a run computes is what is stored today.
LEMMA RunComputeKept ==
    ASSUME LedgerInv, NEW r \in Runs, D!RunCompute(r)
    PROVE  LedgerInv'
<1>1. PICK a \in run[r].todo :
          run' = [run EXCEPT
                 ![r].todo = @ \ {a},
                 ![r].calc = [b \in DOMAIN @ \cup {a} |->
                                IF b = a THEN D!Computed(a, run[r].terms[a], run[r].method, run[r].year)
                                ELSE @[b]]]
  BY DEF D!RunCompute
<1>2. PICK c :
          /\ c = D!Computed(a, run[r].terms[a], run[r].method, run[r].year)
          /\ run' = [run EXCEPT
                 ![r].todo = @ \ {a},
                 ![r].calc = [b \in DOMAIN @ \cup {a} |-> IF b = a THEN c ELSE @[b]]]
  BY <1>1
<1>3. UNCHANGED <<terms, snap, origin, behind>>
  BY DEF D!RunCompute
<1>4. PICK j \in UnderWay : j = run[r]
  BY DEF LedgerInv, LedgerTyped, D!RunCompute, D!Idle
<1>5. PICK C : C = [b \in DOMAIN j.calc \cup {a} |-> IF b = a THEN c ELSE j.calc[b]]
  OBVIOUS
<1>6. PICK k : k = [j EXCEPT !.todo = j.todo \ {a}, !.calc = C]
  OBVIOUS
<1>7. run' = [run EXCEPT ![r] = k]
  BY <1>2, <1>4, <1>5, <1>6 DEF LedgerInv, LedgerTyped
<1>8. /\ a \in Depreciable /\ a \in j.todo /\ a \in DOMAIN j.terms /\ j.terms[a] \in Terms
      /\ a \notin DOMAIN j.calc
  BY <1>4, UnderWayTyped
<1>9. c \in Calculation /\ c.months <= 12 /\ (c.charge > 0 => c.total <= D!Base(j.terms[a]))
  BY <1>2, <1>4, <1>8, ComputedTyped, UnderWayTyped DEF LedgerInv
<1>10. /\ k.step = j.step /\ k.year = j.year /\ k.method = j.method /\ k.todo = j.todo \ {a}
      /\ k.terms = j.terms /\ k.calc = C /\ k.crossed = j.crossed
  BY <1>6 DEF UnderWay
<1>11. /\ DOMAIN C = DOMAIN j.calc \cup {a} /\ C[a] = c
       /\ \A b \in DOMAIN j.calc : b # a /\ C[b] = j.calc[b]
  BY <1>5, <1>8
<1>12. k \in UnderWay
  <2>1. C \in [DOMAIN C -> Calculation]
    BY <1>5, <1>9, <1>11, UnderWayTyped
  <2>2. DOMAIN C \subseteq Depreciable
    BY <1>8, <1>11, UnderWayTyped
  <2>3. C \in UNION {[T -> Calculation] : T \in SUBSET Depreciable}
    BY <2>1, <2>2
  <2>4. k \in [step: {"compute"}, year: D!Years, method: D!Method, todo: SUBSET Depreciable,
            terms: UNION {[T -> Terms] : T \in SUBSET Depreciable},
            calc: UNION {[T -> Calculation] : T \in SUBSET Depreciable},
            crossed: SUBSET Depreciable]
    BY <1>6, <2>3 DEF UnderWay
  <2>5. /\ k.todo \subseteq DOMAIN k.terms /\ DOMAIN k.calc \subseteq DOMAIN k.terms
        /\ k.todo \cap DOMAIN k.calc = {}
    BY <1>8, <1>10, <1>11, UnderWayTyped
  <2>6. \A b \in DOMAIN k.calc :
          /\ k.calc[b].months <= 12
          /\ k.calc[b].charge > 0 => k.calc[b].total <= D!Base(k.terms[b])
    BY <1>9, <1>10, <1>11, UnderWayTyped
  <2> QED
    BY <2>4, <2>5, <2>6 DEF UnderWay
<1>13. LedgerTyped'
  BY <1>3, <1>7, <1>12 DEF LedgerInv, LedgerTyped, D!Recorded
<1>14. StillTrue'
  BY <1>3, StillTrueSame DEF LedgerInv
<1>15. StillGood'
  <2> SUFFICES ASSUME NEW q \in Runs, NEW i, i = run'[q], i # D!Idle, NEW b \in DOMAIN i.calc \ i.crossed
               PROVE  i.calc[b] = D!Computed(b, i.terms[b], i.method, i.year)'
    BY StillGoodNext
  <2>1. i \in UnderWay
    BY <1>7, <1>12 DEF LedgerInv, LedgerTyped
  <2>2. b \in Depreciable /\ i.year \in D!Years
    BY <2>1, UnderWayTyped
  <2>3. i.calc[b] = D!Computed(b, i.terms[b], i.method, i.year)
    <3>1. CASE q # r
      BY <1>7, <3>1 DEF LedgerInv, StillGood
    <3>2. CASE q = r /\ b = a
      BY <1>2, <1>4, <1>7, <1>10, <1>11, <3>2 DEF LedgerInv, LedgerTyped
    <3>3. CASE q = r /\ b # a
      <4>1. i = k
        BY <1>7, <3>3 DEF LedgerInv, LedgerTyped
      <4>2. b \in DOMAIN j.calc \ j.crossed /\ i.calc[b] = j.calc[b]
        BY <1>10, <1>11, <3>3, <4>1
      <4>3. j # D!Idle
        BY UnderWayTyped DEF D!Idle
      <4>4. j.calc[b] = D!Computed(b, j.terms[b], j.method, j.year)
        BY <1>4, <4>2, <4>3 DEF LedgerInv, StillGood
      <4> QED
        BY <1>10, <4>1, <4>2, <4>4
    <3> QED
      BY <3>1, <3>2, <3>3
  <2> QED
    BY <1>3, <2>2, <2>3, ComputedSame
<1>16. D!ChargedWithinBase'
  BY <1>3 DEF LedgerInv, D!ChargedWithinBase, D!ByRun, D!Recorded
<1> QED
  BY <1>13, <1>14, <1>15, <1>16 DEF LedgerInv

\* A run that was overtaken by snapshots of an earlier year.
LEMMA CrossedTyped ==
    ASSUME NEW r \in Runs, run[r] \in UnderWay \cup {D!Idle}, NEW W \in SUBSET Depreciable, NEW y \in D!Years
    PROVE  /\ D!CrossedBy(r, W, y) \in UnderWay \cup {D!Idle}
           /\ D!CrossedBy(r, W, y) # D!Idle =>
                 /\ run[r] # D!Idle
                 /\ D!CrossedBy(r, W, y).year = run[r].year
                 /\ D!CrossedBy(r, W, y).method = run[r].method
                 /\ D!CrossedBy(r, W, y).terms = run[r].terms
                 /\ D!CrossedBy(r, W, y).calc = run[r].calc
                 /\ run[r].crossed \subseteq D!CrossedBy(r, W, y).crossed
                 /\ y < run[r].year => W \cap DOMAIN run[r].calc \subseteq D!CrossedBy(r, W, y).crossed
<1>1. CASE run[r] = D!Idle
  BY <1>1 DEF D!CrossedBy, D!Idle
<1>2. CASE run[r] \in UnderWay
  <2>1. PICK j \in UnderWay : j = run[r]
    BY <1>2
  <2>2. CASE y < j.year
    <3>1. PICK k : k = [j EXCEPT !.crossed = j.crossed \cup (W \cap DOMAIN j.calc)]
      OBVIOUS
    <3>2. k = D!CrossedBy(r, W, y)
      BY <2>1, <2>2, <3>1, UnderWayTyped DEF D!CrossedBy
    <3>3. /\ k.step = j.step /\ k.year = j.year /\ k.method = j.method /\ k.todo = j.todo
          /\ k.terms = j.terms /\ k.calc = j.calc
          /\ k.crossed = j.crossed \cup (W \cap DOMAIN j.calc)
      BY <3>1 DEF UnderWay
    <3>4. k \in UnderWay
      BY <3>1, <3>3 DEF UnderWay
    <3>5. j # D!Idle
      BY UnderWayTyped DEF D!Idle
    <3> QED
      BY <2>1, <3>2, <3>3, <3>4, <3>5
  <2>3. CASE ~(y < j.year)
    BY <2>1, <2>3 DEF D!CrossedBy
  <2> QED
    BY <2>2, <2>3
<1> QED
  BY <1>1, <1>2

\* What snapshots W of year y leave behind: the invariant holds of new ones that are
\* by hand, overtaken, or what would be computed today.
LEMMA WriteKept ==
    ASSUME LedgerInv, NEW W \in SUBSET Depreciable, NEW y \in D!Years,
           NEW s \in [W -> D!Snapshot], NEW by \in [W -> [method: D!Method, terms: Terms] \cup {D!Hand}],
           NEW overtaken, D!Overtake(W, y, overtaken), terms' = terms,
           snap' \in [Depreciable -> [D!Years -> D!Snapshot \cup {D!NoSnap}]],
           origin' \in [Depreciable -> [D!Years -> [method: D!Method, terms: Terms] \cup {D!Hand}]],
           \A a \in Depreciable : \A z \in D!Years :
               /\ snap'[a][z] = IF a \in W /\ z = y THEN s[a] ELSE snap[a][z]
               /\ origin'[a][z] = IF a \in W /\ z = y THEN by[a] ELSE origin[a][z],
           run' \in [Runs -> UnderWay \cup {D!Idle}],
           \A q \in Runs : run'[q] = D!Idle \/ run'[q] = D!CrossedBy(q, W, y),
           \A a \in W : by[a] # D!Hand =>
               /\ a \notin overtaken => s[a] = D!Computed(a, by[a].terms, by[a].method, y)
               /\ s[a].charge > 0 => s[a].total <= D!Base(by[a].terms)
    PROVE  LedgerInv'
<1>1. \A a \in Depreciable : behind'[a] =
          IF a \notin W THEN behind[a]
          ELSE (behind[a] \ {y}) \cup {z \in D!Recorded(a) : z > y}
                 \cup (IF a \in overtaken THEN {y} ELSE {})
  BY DEF D!Overtake
<1>2. /\ \A a \in Depreciable : \A z \in D!Years :
            /\ snap'[a][z] = IF a \in W /\ z = y THEN s[a] ELSE snap[a][z]
            /\ origin'[a][z] = IF a \in W /\ z = y THEN by[a] ELSE origin[a][z]
  OBVIOUS
<1>3. \A a \in W : s[a] # D!NoSnap
  <2>1. \A k \in D!Snapshot : k.months # -1
    BY DEF D!Snapshot
  <2> QED
    BY <2>1 DEF D!NoSnap
<1>4. ASSUME NEW a \in Depreciable
      PROVE  /\ a \in W => D!Recorded(a)' = D!Recorded(a) \cup {y}
             /\ a \notin W => D!Recorded(a)' = D!Recorded(a)
  BY <1>2, <1>3 DEF D!Recorded, D!NoSnap, D!Years
<1>5. LedgerTyped'
  <2>1. /\ snap' \in [Depreciable -> [D!Years -> D!Snapshot \cup {D!NoSnap}]]
        /\ origin' \in [Depreciable -> [D!Years -> [method: D!Method, terms: Terms] \cup {D!Hand}]]
    OBVIOUS
  <2>2. \A a \in Depreciable : behind'[a] \in SUBSET D!Years /\ behind'[a] \subseteq D!Recorded(a)'
    <3> SUFFICES ASSUME NEW a \in Depreciable
                 PROVE  behind'[a] \in SUBSET D!Years /\ behind'[a] \subseteq D!Recorded(a)'
      OBVIOUS
    <3>1. behind[a] \subseteq D!Recorded(a) /\ D!Recorded(a) \subseteq D!Years
      BY DEF LedgerInv, LedgerTyped, D!Recorded
    <3>2. CASE a \in W
      <4>1. D!Recorded(a)' = D!Recorded(a) \cup {y}
        BY <1>4, <3>2
      <4>2. behind'[a] = (behind[a] \ {y}) \cup {z \in D!Recorded(a) : z > y}
                           \cup (IF a \in overtaken THEN {y} ELSE {})
        BY <1>1, <3>2
      <4>3. PICK B, Q, Q2 : B = behind[a] /\ Q = D!Recorded(a) /\ Q2 = D!Recorded(a)'
        OBVIOUS
      <4>4. B \subseteq Q /\ Q2 = Q \cup {y} /\ Q2 \subseteq D!Years
        BY <3>1, <4>1, <4>3
      <4>5. behind'[a] \subseteq (B \ {y}) \cup {z \in Q : z > y} \cup {y}
        BY <4>2, <4>3
      <4>6. behind'[a] \subseteq Q2
        BY <4>4, <4>5
      <4> QED
        BY <4>3, <4>4, <4>6
    <3>3. CASE a \notin W
      <4>1. behind'[a] = behind[a]
        BY <1>1, <3>3
      <4>2. D!Recorded(a)' = D!Recorded(a)
        BY <1>4, <3>3
      <4> QED
        BY <3>1, <4>1, <4>2
    <3> QED
      BY <3>2, <3>3
  <2>3. behind' \in [Depreciable -> SUBSET D!Years]
    BY <2>2 DEF D!Overtake
  <2>4. terms' \in [Depreciable -> Terms]
    BY DEF LedgerInv, LedgerTyped
  <2> QED
    BY <2>1, <2>2, <2>3, <2>4 DEF LedgerTyped, D!Years, D!Snapshot, D!NoSnap, D!Hand, D!Method, D!Idle
<1>6. ASSUME NEW a \in Depreciable, NEW w \in D!Years, ~(y < w) \/ a \notin W
      PROVE  \A t, m : D!Computed(a, t, m, w)' = D!Computed(a, t, m, w)
  <2>1. \A z \in D!Years : z < w => snap'[a][z] = snap[a][z]
    BY <1>2, <1>6, YearsAreNat
  <2> QED
    BY <2>1, ComputedSame
<1>7. StillTrue'
  <2> SUFFICES ASSUME NEW a \in Depreciable, NEW z \in D!ByRun(a)' \ behind'[a], NEW t, NEW m,
                      t = origin'[a][z].terms, m = origin'[a][z].method
               PROVE  snap'[a][z] = D!Computed(a, t, m, z)'
    BY StillTrueNext
  <2>1. z \in D!Recorded(a)' /\ z \in D!Years /\ origin'[a][z] # D!Hand /\ z \notin behind'[a]
    BY DEF D!ByRun, D!Recorded, D!Hand, D!NoSnap, D!Years
  <2>2. CASE a \in W /\ z = y
    <3>1. s[a] = D!Computed(a, t, m, z) /\ snap'[a][z] = s[a]
      <4>1. /\ snap'[a][z] = s[a] /\ origin'[a][z] = by[a]
            /\ by[a] # D!Hand /\ a \notin overtaken
        <5>1. snap'[a][z] = s[a] /\ origin'[a][z] = by[a]
          BY <1>2, <2>1, <2>2
        <5>2. a \notin overtaken
          BY <1>1, <2>1, <2>2
        <5> QED
          BY <2>1, <5>1, <5>2
      <4>2. s[a] = D!Computed(a, by[a].terms, by[a].method, y)
        BY <2>2, <4>1
      <4> QED
        BY <2>2, <4>1, <4>2
    <3>2. ~(y < z)
      BY <2>2, YearsAreNat
    <3> QED
      BY <1>6, <2>1, <3>1, <3>2
  <2>3. CASE ~(a \in W /\ z = y)
    <3>1. z \in D!Recorded(a) /\ snap'[a][z] = snap[a][z] /\ origin'[a][z] = origin[a][z]
      BY <1>2, <1>4, <2>1, <2>3
    <3>2. z \in D!ByRun(a) \ behind[a]
      BY <1>1, <2>1, <2>3, <3>1 DEF D!ByRun
    <3>3. a \notin W \/ ~(y < z)
      BY <1>1, <2>1, <3>1, YearsAreNat
    <3>4. snap[a][z] = D!Computed(a, t, m, z)
      BY <3>1, <3>2 DEF LedgerInv, StillTrue
    <3> QED
      BY <1>6, <2>1, <3>1, <3>3, <3>4
  <2> QED
    BY <2>2, <2>3
<1>8. StillGood'
  <2> SUFFICES ASSUME NEW q \in Runs, NEW i, i = run'[q], i # D!Idle, NEW b \in DOMAIN i.calc \ i.crossed
               PROVE  i.calc[b] = D!Computed(b, i.terms[b], i.method, i.year)'
    BY StillGoodNext
  <2>1. i \in UnderWay /\ i = D!CrossedBy(q, W, y)
    OBVIOUS
  <2>2. b \in Depreciable /\ i.year \in D!Years
    BY <2>1, UnderWayTyped
  <2>3. PICK j : j = run[q] /\ j \in UnderWay \cup {D!Idle}
    BY DEF LedgerInv, LedgerTyped
  <2>4. /\ j # D!Idle /\ i.year = j.year /\ i.method = j.method /\ i.terms = j.terms
        /\ i.calc = j.calc /\ j.crossed \subseteq i.crossed
        /\ y < j.year => W \cap DOMAIN j.calc \subseteq i.crossed
    <3>1. run[q] \in UnderWay \cup {D!Idle} /\ D!CrossedBy(q, W, y) # D!Idle
      BY <2>1, <2>3
    <3>2. /\ run[q] # D!Idle
          /\ D!CrossedBy(q, W, y).year = run[q].year
          /\ D!CrossedBy(q, W, y).method = run[q].method
          /\ D!CrossedBy(q, W, y).terms = run[q].terms
          /\ D!CrossedBy(q, W, y).calc = run[q].calc
          /\ run[q].crossed \subseteq D!CrossedBy(q, W, y).crossed
          /\ y < run[q].year => W \cap DOMAIN run[q].calc \subseteq D!CrossedBy(q, W, y).crossed
      BY <3>1, CrossedTyped
    <3> QED
      BY <2>1, <2>3, <3>2
  <2>5. i.calc[b] = D!Computed(b, i.terms[b], i.method, i.year)
    <3>1. b \in DOMAIN j.calc \ j.crossed
      BY <2>4
    <3>2. j.calc[b] = D!Computed(b, j.terms[b], j.method, j.year)
      BY <2>3, <2>4, <3>1 DEF LedgerInv, StillGood
    <3> QED
      BY <2>4, <3>2
  <2>6. ~(y < i.year) \/ b \notin W
    BY <2>4
  <2> QED
    BY <1>6, <2>2, <2>5, <2>6
<1>9. D!ChargedWithinBase'
  <2> SUFFICES ASSUME NEW a \in Depreciable, NEW z \in D!ByRun(a)', snap'[a][z].charge > 0
               PROVE  snap'[a][z].total <= D!Base(origin'[a][z].terms)
    BY DEF D!ChargedWithinBase, D!Base
  <2>1. z \in D!Recorded(a)' /\ z \in D!Years /\ origin'[a][z] # D!Hand
    BY DEF D!ByRun, D!Recorded, D!Hand, D!NoSnap, D!Years
  <2>2. CASE a \in W /\ z = y
    BY <1>2, <2>1, <2>2
  <2>3. CASE ~(a \in W /\ z = y)
    <3>1. snap'[a][z] = snap[a][z] /\ origin'[a][z] = origin[a][z] /\ z \in D!ByRun(a)
      BY <1>2, <1>4, <2>1, <2>3 DEF D!ByRun
    <3> QED
      BY <3>1 DEF LedgerInv, D!ChargedWithinBase
  <2> QED
    BY <2>2, <2>3
<1> QED
  BY <1>5, <1>7, <1>8, <1>9 DEF LedgerInv

\* What the table accepts.
LEMMA StorableIs ==
    ASSUME NEW c \in Calculation, c.months <= 12, D!Storable(c)
    PROVE  c \in D!Snapshot
<1>1. DOMAIN c = {"prior", "months", "bf", "charge", "total"}
  BY DEF Calculation
<1>2. c["months"] >= 0 /\ c["charge"] >= 0 /\ c["total"] >= 0
  BY <1>1 DEF D!Storable
<1>3. c.months >= 0 /\ c.charge >= 0 /\ c.total >= 0
  BY <1>2
<1> QED
  BY <1>3 DEF Calculation, D!Snapshot

\* A run stores what it has computed.
LEMMA RunWriteKept ==
    ASSUME LedgerInv, NEW r \in Runs, D!RunWrite(r)
    PROVE  LedgerInv'
<1>1. PICK j \in UnderWay : j = run[r]
  BY DEF LedgerInv, LedgerTyped, D!RunWrite, D!Idle
<1>2. PICK W \in SUBSET Depreciable, y \in D!Years : W = DOMAIN j.calc /\ y = j.year
  BY UnderWayTyped
<1> PICK overtaken : overtaken = j.crossed
  OBVIOUS
<1>3. /\ \A a \in W : D!Storable(j.calc[a])
      /\ snap' = [a \in Depreciable |->
                      IF a \in W THEN [snap[a] EXCEPT ![y] = j.calc[a]] ELSE snap[a]]
      /\ origin' = [a \in Depreciable |->
                        IF a \in W
                        THEN [origin[a] EXCEPT ![y] =
                                [method |-> j.method, terms |-> j.terms[a]]]
                        ELSE origin[a]]
      /\ D!Overtake(W, y, overtaken)
      /\ run' = [q \in Runs |-> IF q = r THEN D!Idle ELSE D!CrossedBy(q, W, y)]
      /\ terms' = terms
  BY <1>1, <1>2 DEF D!RunWrite
<1>4. /\ W \subseteq Depreciable /\ j.method \in D!Method
      /\ \A a \in W : j.terms[a] \in Terms /\ j.calc[a] \in Calculation /\ j.calc[a].months <= 12
                      /\ (j.calc[a].charge > 0 => j.calc[a].total <= D!Base(j.terms[a]))
  BY <1>2, UnderWayTyped
<1>5. \A a \in W : j.calc[a] \in D!Snapshot
  BY <1>3, <1>4, StorableIs
<1>6. PICK s \in [W -> D!Snapshot] : \A a \in W : s[a] = j.calc[a]
  <2>1. [a \in W |-> j.calc[a]] \in [W -> D!Snapshot]
    BY <1>5
  <2> QED
    BY <2>1
<1>7. PICK by \in [W -> [method: D!Method, terms: Terms] \cup {D!Hand}] :
          \A a \in W : by[a] = [method |-> j.method, terms |-> j.terms[a]]
  <2>1. [a \in W |-> [method |-> j.method, terms |-> j.terms[a]]]
            \in [W -> [method: D!Method, terms: Terms] \cup {D!Hand}]
    BY <1>4
  <2> QED
    BY <2>1
<1>8. run' \in [Runs -> UnderWay \cup {D!Idle}]
  <2>1. \A q \in Runs : D!CrossedBy(q, W, y) \in UnderWay \cup {D!Idle}
    BY <1>4, CrossedTyped DEF LedgerInv, LedgerTyped
  <2> QED
    BY <1>3, <2>1
<1>9. \A a \in W : a \notin overtaken => s[a] = D!Computed(a, by[a].terms, by[a].method, y)
  <2>1. run[r] # D!Idle
    BY <1>1, UnderWayTyped DEF D!Idle
  <2>2. \A a \in W \ j.crossed : j.calc[a] = D!Computed(a, j.terms[a], j.method, j.year)
    BY <1>1, <1>2, <2>1 DEF LedgerInv, StillGood
  <2>3. \A a \in W : by[a].terms = j.terms[a] /\ by[a].method = j.method
    BY <1>7
  <2> QED
    BY <1>2, <1>6, <2>2, <2>3
<1>10. /\ snap' \in [Depreciable -> [D!Years -> D!Snapshot \cup {D!NoSnap}]]
       /\ origin' \in [Depreciable -> [D!Years -> [method: D!Method, terms: Terms] \cup {D!Hand}]]
       /\ \A a \in Depreciable : \A z \in D!Years :
            /\ snap'[a][z] = IF a \in W /\ z = y THEN s[a] ELSE snap[a][z]
            /\ origin'[a][z] = IF a \in W /\ z = y THEN by[a] ELSE origin[a][z]
  <2>1. /\ snap \in [Depreciable -> [D!Years -> D!Snapshot \cup {D!NoSnap}]]
        /\ origin \in [Depreciable -> [D!Years -> [method: D!Method, terms: Terms] \cup {D!Hand}]]
    BY DEF LedgerInv, LedgerTyped
  <2>2. \A a \in W : /\ j.calc[a] = s[a] /\ s[a] \in D!Snapshot
                     /\ [method |-> j.method, terms |-> j.terms[a]] = by[a]
                     /\ by[a] \in [method: D!Method, terms: Terms] \cup {D!Hand}
    BY <1>6, <1>7
  <2> QED
    BY <1>3, <2>1, <2>2
<1>11. \A a \in W : s[a].charge > 0 => s[a].total <= D!Base(by[a].terms)
  BY <1>4, <1>6, <1>7
<1>12. \A q \in Runs : run'[q] = D!Idle \/ run'[q] = D!CrossedBy(q, W, y)
  BY <1>3
<1> QED
  <2>1. \A a \in W : by[a] # D!Hand =>
            /\ a \notin overtaken => s[a] = D!Computed(a, by[a].terms, by[a].method, y)
            /\ s[a].charge > 0 => s[a].total <= D!Base(by[a].terms)
    BY <1>9, <1>11
  <2>2. D!Overtake(W, y, overtaken) /\ terms' = terms
    BY <1>3
  <2> QED
    BY <1>8, <1>10, <1>12, <2>1, <2>2, WriteKept

\* A snapshot recorded by hand.
LEMMA RecordKept ==
    ASSUME LedgerInv, NEW a \in Depreciable, NEW y \in D!Years, NEW h \in HandRecords,
           D!RecordByHand(a, y, h)
    PROVE  LedgerInv'
<1>1. PICK W \in SUBSET Depreciable : W = {a}
  OBVIOUS
<1> PICK overtaken : overtaken = {}
  OBVIOUS
<1>2. PICK s \in [W -> D!Snapshot] : s[a] = h
  <2>1. [b \in W |-> h] \in [W -> D!Snapshot]
    BY LedgersAreSound
  <2> QED
    BY <1>1, <2>1
<1>3. PICK by \in [W -> [method: D!Method, terms: Terms] \cup {D!Hand}] : by[a] = D!Hand
  <2>1. [b \in W |-> D!Hand] \in [W -> [method: D!Method, terms: Terms] \cup {D!Hand}]
    OBVIOUS
  <2> QED
    BY <1>1, <2>1
<1>4. /\ snap' \in [Depreciable -> [D!Years -> D!Snapshot \cup {D!NoSnap}]]
       /\ origin' \in [Depreciable -> [D!Years -> [method: D!Method, terms: Terms] \cup {D!Hand}]]
       /\ \A c \in Depreciable : \A z \in D!Years :
            /\ snap'[c][z] = IF c \in W /\ z = y THEN s[c] ELSE snap[c][z]
            /\ origin'[c][z] = IF c \in W /\ z = y THEN by[c] ELSE origin[c][z]
  <2>1. /\ snap \in [Depreciable -> [D!Years -> D!Snapshot \cup {D!NoSnap}]]
        /\ origin \in [Depreciable -> [D!Years -> [method: D!Method, terms: Terms] \cup {D!Hand}]]
    BY DEF LedgerInv, LedgerTyped
  <2>2. /\ snap' = [snap EXCEPT ![a][y] = s[a]]
        /\ origin' = [origin EXCEPT ![a][y] = by[a]]
    BY <1>2, <1>3 DEF D!RecordByHand
  <2>3. s[a] \in D!Snapshot /\ by[a] \in {D!Hand}
    BY <1>1, <1>3
  <2> QED
    BY <1>1, <2>1, <2>2, <2>3
<1>5. /\ D!Overtake(W, y, overtaken) /\ terms' = terms
      /\ run' = [q \in Runs |-> D!CrossedBy(q, W, y)]
  BY <1>1 DEF D!RecordByHand
<1>6. run' \in [Runs -> UnderWay \cup {D!Idle}]
  <2>1. \A q \in Runs : D!CrossedBy(q, W, y) \in UnderWay \cup {D!Idle}
    BY CrossedTyped DEF LedgerInv, LedgerTyped
  <2> QED
    BY <1>5, <2>1
<1>7. /\ \A q \in Runs : run'[q] = D!Idle \/ run'[q] = D!CrossedBy(q, W, y)
      /\ D!Overtake(W, y, overtaken)
  BY <1>5
<1>8. \A b \in W : by[b] # D!Hand =>
         /\ b \notin overtaken => s[b] = D!Computed(b, by[b].terms, by[b].method, y)
         /\ s[b].charge > 0 => s[b].total <= D!Base(by[b].terms)
  BY <1>1, <1>3
<1> QED
  BY <1>4, <1>5, <1>6, <1>7, <1>8, WriteKept

\* No snapshot is stored: a run ends, or an asset is revised.
LEMMA LedgerRests ==
    ASSUME LedgerInv, UNCHANGED <<snap, origin, behind>>, terms' \in [Depreciable -> Terms],
           run' \in [Runs -> UnderWay \cup {D!Idle}],
           \A q \in Runs : run'[q] = D!Idle \/ run'[q] = run[q]
    PROVE  LedgerInv'
<1>1. LedgerTyped'
  BY DEF LedgerInv, LedgerTyped, D!Recorded
<1>2. StillTrue'
  BY StillTrueSame DEF LedgerInv
<1>3. StillGood'
  <2> SUFFICES ASSUME NEW q \in Runs, NEW k, k = run'[q], k # D!Idle, NEW a \in DOMAIN k.calc \ k.crossed
               PROVE  k.calc[a] = D!Computed(a, k.terms[a], k.method, k.year)'
    BY StillGoodNext
  <2>1. k = run[q] /\ k \in UnderWay
    OBVIOUS
  <2>2. k.calc[a] = D!Computed(a, k.terms[a], k.method, k.year)
    BY <2>1 DEF LedgerInv, StillGood
  <2>3. a \in Depreciable /\ k.year \in D!Years
    BY <2>1, UnderWayTyped
  <2> QED
    BY <2>2, <2>3, ComputedSame
<1>4. D!ChargedWithinBase'
  BY DEF LedgerInv, D!ChargedWithinBase, D!ByRun, D!Recorded
<1> QED
  BY <1>1, <1>2, <1>3, <1>4 DEF LedgerInv

\* Nothing is recorded in the beginning.
LEMMA LedgerInit == D!Init => LedgerInv
<1> SUFFICES ASSUME D!Init PROVE LedgerInv
  OBVIOUS
<1>1. \A a \in Depreciable : D!Recorded(a) = {} /\ D!ByRun(a) = {}
  BY DEF D!Init, D!Recorded, D!ByRun
<1>2. LedgerTyped
  BY <1>1 DEF D!Init, LedgerTyped
<1>3. StillTrue /\ StillGood /\ D!ChargedWithinBase
  BY <1>1 DEF D!Init, StillTrue, StillGood, D!ChargedWithinBase
<1> QED
  BY <1>2, <1>3 DEF LedgerInv

\* Every step of a run, of a client or of an update keeps the invariant.
LEMMA LedgerStep == LedgerInv /\ [D!Next]_(D!vars) => LedgerInv'
<1> SUFFICES ASSUME LedgerInv, [D!Next]_(D!vars) PROVE LedgerInv'
  OBVIOUS
<1>1. /\ terms \in [Depreciable -> Terms] /\ run \in [Runs -> UnderWay \cup {D!Idle}]
  BY DEF LedgerInv, LedgerTyped
<1>2. ASSUME NEW r \in Runs, D!RunEnd(r) PROVE LedgerInv'
  BY <1>1, <1>2, LedgerRests DEF D!RunEnd
<1>3. ASSUME NEW a \in Depreciable, NEW t \in Terms, D!Revise(a, t) PROVE LedgerInv'
  BY <1>1, <1>3, LedgerRests DEF D!Revise
<1>4. ASSUME UNCHANGED D!vars PROVE LedgerInv'
  BY <1>1, <1>4, LedgerRests DEF D!vars
<1> QED
  BY <1>2, <1>3, <1>4, RunReadKept, RunComputeKept, RunWriteKept, RecordKept DEF D!Next

\* Depreciation, for any number of assets, runs and years and whatever the terms: a run
\* charges no more than was left of the base it read.  What is brought forward may come from
\* another method, a record by hand or other terms, so that nothing is assumed of it.
THEOREM ChargedWithinBaseHolds == D!Spec => []ChargedWithinBase
<1>1. LedgerInv => ChargedWithinBase
  BY DEF LedgerInv, ChargedWithinBase
<1> QED
  BY <1>1, LedgerInit, LedgerStep, PTL DEF D!Spec

-----------------------------------------------------------------------------
(* Depreciation: the years add up *)

\* A year that is still true brings forward what the last year before it left.
LEMMA BroughtForward ==
    ASSUME LedgerInv, NEW a \in Depreciable, NEW y \in D!ByRun(a) \ behind[a]
    PROVE  /\ y \in D!Years /\ y \in D!Recorded(a) /\ snap[a][y] \in D!Snapshot
           /\ origin[a][y] \in [method: D!Method, terms: Terms]
           /\ \E bf, prior \in Nat :
                /\ snap[a][y] = D!Calculate(origin[a][y].terms, origin[a][y].method, y, bf, prior)
                /\ snap[a][y].bf = bf /\ snap[a][y].prior = prior
                /\ snap[a][y].total = bf + snap[a][y].charge
                /\ D!Earlier(a, y) = {} => bf = 0 /\ prior = 0
                /\ D!Earlier(a, y) # {} =>
                     \E p \in D!Earlier(a, y) :
                        /\ p \in D!Recorded(a) /\ p < y /\ \A z \in D!Earlier(a, y) : z <= p
                        /\ snap[a][p] \in D!Snapshot
                        /\ bf = snap[a][p].total /\ prior = snap[a][p].prior + snap[a][p].months
<1>1. /\ y \in D!Years /\ y \in D!Recorded(a) /\ snap[a][y] \in D!Snapshot
      /\ origin[a][y] \in [method: D!Method, terms: Terms]
  BY DEF D!ByRun, D!Recorded, LedgerInv, LedgerTyped
<1>2. PICK t \in Terms, m \in D!Method : t = origin[a][y].terms /\ m = origin[a][y].method
  BY <1>1
<1>3. snap[a][y] = D!Computed(a, t, m, y)
  BY <1>2 DEF LedgerInv, StillTrue
<1>4. \E bf, prior \in Nat :
                /\ snap[a][y] = D!Calculate(t, m, y, bf, prior)
                /\ D!Earlier(a, y) = {} => bf = 0 /\ prior = 0
                /\ D!Earlier(a, y) # {} =>
                     \E p \in D!Earlier(a, y) :
                        /\ p \in D!Recorded(a) /\ p < y /\ \A z \in D!Earlier(a, y) : z <= p
                        /\ snap[a][p] \in D!Snapshot
                        /\ bf = snap[a][p].total /\ prior = snap[a][p].prior + snap[a][p].months
  <2>1. CASE D!Earlier(a, y) = {}
    BY <1>1, <1>3, <2>1, ReadBack DEF LedgerInv
  <2>2. CASE D!Earlier(a, y) # {}
    <3>1. PICK p \in D!Earlier(a, y) :
              /\ p \in D!Recorded(a) /\ p < y /\ \A z \in D!Earlier(a, y) : z <= p
              /\ snap[a][p] \in D!Snapshot
              /\ snap[a][y] = D!Calculate(t, m, y, snap[a][p].total, snap[a][p].prior + snap[a][p].months)
      BY <1>1, <1>3, <2>2, ReadBack DEF LedgerInv
    <3>2. snap[a][p].total \in Nat /\ snap[a][p].prior + snap[a][p].months \in Nat
      BY <3>1 DEF D!Snapshot
    <3> QED
      BY <2>2, <3>1, <3>2
  <2> QED
    BY <2>1, <2>2
<1>5. \A bf, prior \in Nat : snap[a][y] = D!Calculate(t, m, y, bf, prior) =>
          /\ snap[a][y].bf = bf /\ snap[a][y].prior = prior
          /\ snap[a][y].total = bf + snap[a][y].charge
  BY <1>1, CalculationTyped
<1> QED
  BY <1>1, <1>2, <1>4, <1>5

\* The years recorded add up, when runs recorded them all and none is behind.
LEMMA YearsAddUp ==
    ASSUME LedgerInv, NEW a \in Depreciable, behind[a] = {}, D!Recorded(a) = D!ByRun(a),
           NEW f, \A z \in D!Years : f[z] = snap[a][z].charge,
           NEW g, \A z \in D!Years : g[z] = snap[a][z].months
    PROVE  \A y \in D!Recorded(a) :
               /\ snap[a][y].bf = SumFunctionOnSet(f, D!Earlier(a, y))
               /\ snap[a][y].prior = SumFunctionOnSet(g, D!Earlier(a, y))
<1> DEFINE Wrong == {y \in D!Recorded(a) :
                        ~ /\ snap[a][y].bf = SumFunctionOnSet(f, D!Earlier(a, y))
                          /\ snap[a][y].prior = SumFunctionOnSet(g, D!Earlier(a, y))}
<1>1. /\ D!Recorded(a) \subseteq D!Years
      /\ \A y \in D!Years : D!Earlier(a, y) = {z \in D!Recorded(a) : z < y} 
      /\ \A z \in D!Recorded(a) : snap[a][z] \in D!Snapshot /\ f[z] \in Int /\ g[z] \in Int
                                  /\ f[z] = snap[a][z].charge /\ g[z] = snap[a][z].months
  <2>1. /\ D!Recorded(a) \subseteq D!Years
        /\ \A y \in D!Years : D!Earlier(a, y) = {z \in D!Recorded(a) : z < y}
    BY DEF D!Recorded, D!Earlier
  <2>2. \A z \in D!Recorded(a) : snap[a][z] \in D!Snapshot
    BY DEF D!Recorded, LedgerInv, LedgerTyped
  <2> QED
    BY <2>1, <2>2 DEF D!Snapshot
<1>2. IsFiniteSet(D!Years)
  BY LedgersAreSound, FS_Interval DEF D!Years
<1>3. ASSUME Wrong # {} PROVE FALSE
  <2>1. PICK y \in Wrong : \A z \in Wrong : y <= z
    <3>1. Wrong \subseteq Nat
      BY <1>1, YearsAreNat
    <3> HIDE DEF Wrong
    <3> QED
      BY <1>3, <3>1, LeastNat
  <2>2. y \in D!ByRun(a) \ behind[a] /\ y \in D!Years
    BY <1>1
  <2>3. PICK bf \in Nat, prior \in Nat :
                /\ snap[a][y].bf = bf /\ snap[a][y].prior = prior
                /\ D!Earlier(a, y) = {} => bf = 0 /\ prior = 0
                /\ D!Earlier(a, y) # {} =>
                     \E p \in D!Earlier(a, y) :
                        /\ p \in D!Recorded(a) /\ p < y /\ \A z \in D!Earlier(a, y) : z <= p
                        /\ bf = snap[a][p].total /\ prior = snap[a][p].prior + snap[a][p].months
    BY <2>2, BroughtForward
  <2>4. CASE D!Earlier(a, y) = {}
    <3>1. SumFunctionOnSet(f, {}) = 0 /\ SumFunctionOnSet(g, {}) = 0
      BY FS_EmptySet, SumSteps
    <3> QED
      BY <2>3, <2>4, <3>1
  <2>5. CASE D!Earlier(a, y) # {}
    <3>1. PICK p \in D!Earlier(a, y) :
                /\ p \in D!Recorded(a) /\ p < y /\ \A z \in D!Earlier(a, y) : z <= p
                /\ bf = snap[a][p].total /\ prior = snap[a][p].prior + snap[a][p].months
      BY <2>3, <2>5
    <3>2. p \notin Wrong
      <4>1. p \in Nat /\ y \in Nat
        BY <1>1, <2>2, <3>1, YearsAreNat
      <4> HIDE DEF Wrong
      <4> QED
        BY <2>1, <3>1, <4>1
    <3>3. /\ snap[a][p].bf = SumFunctionOnSet(f, D!Earlier(a, p))
          /\ snap[a][p].prior = SumFunctionOnSet(g, D!Earlier(a, p))
      BY <3>1, <3>2
    <3>4. p \in D!ByRun(a) \ behind[a]
      BY <3>1
    <3>5. snap[a][p].total = snap[a][p].bf + snap[a][p].charge
      BY <3>4, BroughtForward
    <3>6. D!Earlier(a, p) = D!Earlier(a, y) \ {p}
      <4>1. p \in D!Years /\ p \in Nat /\ y \in Nat /\ D!Recorded(a) \subseteq Nat
        BY <1>1, <2>2, <3>1, YearsAreNat
      <4>2. /\ D!Earlier(a, p) = {z \in D!Recorded(a) : z < p}
            /\ D!Earlier(a, y) = {z \in D!Recorded(a) : z < y}
        BY <1>1, <2>2, <4>1
      <4>3. \A z \in D!Recorded(a) : z < y => z <= p
        BY <3>1, <4>2
      <4> QED
        BY <3>1, <4>1, <4>2, <4>3
    <3>7. PICK P \in SUBSET D!Years : P = D!Earlier(a, y) /\ IsFiniteSet(P) /\ p \in P
                                     /\ \A z \in P : f[z] \in Int /\ g[z] \in Int
      <4>1. D!Earlier(a, y) \subseteq D!Recorded(a) /\ D!Earlier(a, y) \subseteq D!Years
        BY <1>1, <2>2
      <4>2. IsFiniteSet(D!Earlier(a, y))
        BY <1>2, <4>1, FS_Subset
      <4> QED
        BY <1>1, <3>1, <4>1, <4>2
    <3>8. \A h : (\A z \in P : h[z] \in Int) =>
              /\ SumFunctionOnSet(h, P) = h[p] + SumFunctionOnSet(h, P \ {p})
              /\ SumFunctionOnSet(h, P \ {p}) \in Int /\ h[p] \in Int
      <4>1. IsFiniteSet(P) /\ p \in P
        BY <3>7
      <4> QED
        BY <4>1, SumTakes
    <3>9. /\ SumFunctionOnSet(f, P) = f[p] + SumFunctionOnSet(f, P \ {p})
          /\ SumFunctionOnSet(g, P) = g[p] + SumFunctionOnSet(g, P \ {p})
      BY <3>7, <3>8
    <3>10. /\ f[p] = snap[a][p].charge /\ g[p] = snap[a][p].months
           /\ snap[a][p].charge \in Nat /\ snap[a][p].months \in Nat
           /\ snap[a][p].bf \in Nat /\ snap[a][p].prior \in Nat
      <4>1. snap[a][p] \in D!Snapshot
        BY <1>1, <3>1
      <4> QED
        BY <1>1, <3>1, <4>1 DEF D!Snapshot
    <3>11. bf = SumFunctionOnSet(f, P)
      BY <3>1, <3>3, <3>5, <3>6, <3>7, <3>9, <3>10
    <3>12. prior = SumFunctionOnSet(g, P)
      BY <3>1, <3>3, <3>6, <3>7, <3>9, <3>10
    <3> QED
      BY <2>3, <3>7, <3>11, <3>12
  <2> QED
    BY <2>4, <2>5
<1> QED
  BY <1>3

\* Depreciation: unless a year is behind, what is brought forward is what the years before
\* were charged, and the months before are those that were counted, for any number of
\* years, run in any order and any number of times by runs that may overlap.
THEOREM LedgerAddsUpHolds == D!Spec => []LedgerAddsUp
<1>1. LedgerInv => D!TypeOK
  <2> SUFFICES ASSUME LedgerInv PROVE D!TypeOK
    OBVIOUS
  <2>1. \A r \in Runs : run[r] # D!Idle =>
            /\ run[r].todo \cap DOMAIN run[r].calc = {}
            /\ \A a \in DOMAIN run[r].calc : run[r].calc[a].months <= 12
    BY UnderWayTyped DEF LedgerInv, LedgerTyped
  <2> QED
    BY <2>1 DEF LedgerInv, LedgerTyped, D!TypeOK
<1>2. LedgerInv => LedgerAddsUp
  <2> SUFFICES ASSUME LedgerInv, NEW a \in Depreciable, behind[a] = {}, D!Recorded(a) = D!ByRun(a),
                      NEW y \in D!Recorded(a)
               PROVE  /\ snap[a][y].bf = D!MapThenSumSet(LAMBDA z : snap[a][z].charge, D!Earlier(a, y))
                      /\ snap[a][y].prior = D!MapThenSumSet(LAMBDA z : snap[a][z].months, D!Earlier(a, y))
    BY <1>1 DEF LedgerAddsUp, D!LedgerAddsUp
  <2>1. PICK f : \A z \in D!Years : f[z] = snap[a][z].charge
    <3>1. \A z \in D!Years : [x \in D!Years |-> snap[a][x].charge][z] = snap[a][z].charge
      OBVIOUS
    <3> QED
      BY <3>1
  <2>2. PICK g : \A z \in D!Years : g[z] = snap[a][z].months
    <3>1. \A z \in D!Years : [x \in D!Years |-> snap[a][x].months][z] = snap[a][z].months
      OBVIOUS
    <3> QED
      BY <3>1
  <2>3. PICK T \in SUBSET D!Years : T = D!Earlier(a, y)
    BY DEF D!Earlier, D!Recorded
  <2>4. /\ D!MapThenSumSet(LAMBDA z : snap[a][z].charge, T) = SumFunctionOnSet(f, T)
        /\ D!MapThenSumSet(LAMBDA z : snap[a][z].months, T) = SumFunctionOnSet(g, T)
    <3>1. \A s \in SUBSET T : s # {} => /\ f[Pick(s)] = snap[a][Pick(s)].charge
                                        /\ g[Pick(s)] = snap[a][Pick(s)].months
      BY <2>1, <2>2 DEF Pick
    <3>2. D!MapThenSumSet(LAMBDA z : snap[a][z].charge, T) =
              (CHOOSE h : h = [s \in SUBSET T |-> IF s = {} THEN 0
                                                  ELSE snap[a][Pick(s)].charge + h[s \ {Pick(s)}]])[T]
      BY DEF D!MapThenSumSet, D!MapThenFoldSet, Pick
    <3>3. \A h : (h = [s \in SUBSET T |-> IF s = {} THEN 0
                                          ELSE snap[a][Pick(s)].charge + h[s \ {Pick(s)}]])
                   <=> IsSum(f, T, h)
      BY <3>1 DEF IsSum
    <3>4. (CHOOSE h : h = [s \in SUBSET T |-> IF s = {} THEN 0
                                              ELSE snap[a][Pick(s)].charge + h[s \ {Pick(s)}]])
            = CHOOSE h : IsSum(f, T, h)
      BY <3>3
    <3>5. D!MapThenSumSet(LAMBDA z : snap[a][z].months, T) =
              (CHOOSE h : h = [s \in SUBSET T |-> IF s = {} THEN 0
                                                  ELSE snap[a][Pick(s)].months + h[s \ {Pick(s)}]])[T]
      BY DEF D!MapThenSumSet, D!MapThenFoldSet, Pick
    <3>6. \A h : (h = [s \in SUBSET T |-> IF s = {} THEN 0
                                          ELSE snap[a][Pick(s)].months + h[s \ {Pick(s)}]])
                   <=> IsSum(g, T, h)
      BY <3>1 DEF IsSum
    <3>7. (CHOOSE h : h = [s \in SUBSET T |-> IF s = {} THEN 0
                                              ELSE snap[a][Pick(s)].months + h[s \ {Pick(s)}]])
            = CHOOSE h : IsSum(g, T, h)
      BY <3>6
    <3> QED
      BY <3>2, <3>4, <3>5, <3>7, SumIsFold
  <2> QED
    BY <2>1, <2>2, <2>3, <2>4, YearsAddUp
<1> QED
  BY <1>2, LedgerInit, LedgerStep, PTL DEF D!Spec

-----------------------------------------------------------------------------
(* Depreciation: rounding does not drift *)

\* One more year of the straight line, from a total within the base: off by half a cent at
\* most, unless the base is used up.
LEMMA StraightStep ==
    ASSUME NEW t \in Terms, NEW y \in D!Years, NEW bf \in Nat, NEW prior \in Nat,
           prior <= t.life, bf <= D!Base(t),
           NEW c, c = D!Calculate(t, "straight_line", y, bf, prior)
    PROVE  /\ c.total \in Nat /\ c.months \in Nat /\ c.total <= D!Base(t)
           /\ c.months = IF t.life - prior < D!MonthsUsed(t, y) THEN t.life - prior
                         ELSE D!MonthsUsed(t, y)
           /\ 2 * (t.life * c.total) <= 2 * (t.life * bf) + 2 * (D!Base(t) * c.months) + t.life
           /\ \/ c.total = D!Base(t)
              \/ 2 * (t.life * bf) + 2 * (D!Base(t) * c.months) - t.life <= 2 * (t.life * c.total)
<1>1. PICK b \in Nat, life \in Nat, used \in Nat :
          b = D!Base(t) /\ life = t.life /\ life > 0 /\ used = D!MonthsUsed(t, y)
  <2>1. D!Base(t) \in Nat
    BY TermsTyped
  <2>2. D!MonthsUsed(t, y) \in Nat
    BY MonthsTyped
  <2> QED
    BY <2>1, <2>2, TermsTyped
<1>2. PICK n \in Nat : n = IF life - prior < used THEN life - prior ELSE used
  BY <1>1
<1>3. PICK e \in Nat : e = b * n
  OBVIOUS
<1>4. PICK q \in Int : /\ q = D!Rounded(e, life)
                       /\ 2 * (life * q) <= 2 * e + life /\ 2 * e - life <= 2 * (life * q)
  <2>1. e \in Int /\ life \in Int /\ life > 0
    BY <1>1
  <2>2. /\ D!Rounded(e, life) \in Int
        /\ 2 * (life * D!Rounded(e, life)) <= 2 * e + life
        /\ 2 * e - life <= 2 * (life * D!Rounded(e, life))
    BY <2>1, RoundedIs
  <2> QED
    BY <2>2
<1>5. PICK charge \in Nat : charge = D!StraightLine(t, n, bf)
                            /\ charge = IF bf + q > b THEN b - bf ELSE q
  <2>1. q >= 0
    <3>1. q = (2 * e + life) \div (2 * life)
      BY <1>4 DEF D!Rounded
    <3>2. PICK m \in Nat, d \in Nat : m = 2 * e + life /\ d = 2 * life /\ d > 0
      BY <1>1
    <3> QED
      BY <3>1, <3>2
  <2>2. D!StraightLine(t, n, bf) = IF bf + q > b THEN b - bf ELSE q
    BY <1>1, <1>3, <1>4, <2>1 DEF D!StraightLine
  <2> QED
    BY <1>1, <2>1, <2>2
<1>6. c.months = n /\ c.charge = charge /\ c.total = bf + charge
  BY <1>1, <1>2, <1>5 DEF D!Calculate
<1>7. /\ bf + charge \in Nat /\ bf + charge <= b /\ charge <= q
      /\ bf + charge = b \/ charge = q
  BY <1>1, <1>5
<1>8. life * (bf + charge) = life * bf + life * charge /\ life * charge <= life * q
  BY <1>7
<1>9. 2 * (life * (bf + charge)) <= 2 * (life * bf) + 2 * e + life
  <2>1. PICK u \in Int, v \in Int, w \in Int, x \in Int :
            u = life * (bf + charge) /\ v = life * bf /\ w = life * charge /\ x = life * q
    OBVIOUS
  <2>2. u = v + w /\ w <= x /\ 2 * x <= 2 * e + life
    BY <1>4, <1>8, <2>1
  <2> QED
    BY <2>1, <2>2
<1>10. \/ bf + charge = b
       \/ 2 * (life * bf) + 2 * e - life <= 2 * (life * (bf + charge))
  <2>1. CASE charge = q
    <3>1. PICK u \in Int, v \in Int, w \in Int :
            u = life * (bf + charge) /\ v = life * bf /\ w = life * q
      OBVIOUS
    <3>2. u = v + w /\ 2 * e - life <= 2 * w
      BY <1>4, <1>8, <2>1, <3>1
    <3> QED
      BY <3>1, <3>2
  <2> QED
    BY <1>7, <2>1
<1> QED
  BY <1>1, <1>2, <1>3, <1>6, <1>7, <1>9, <1>10

\* The months used up to the end of year z, of a life that lasts no longer.
UsedBy(t, z) == IF 13 - t.month + 12 * (z - t.year) < t.life
                THEN 13 - t.month + 12 * (z - t.year) ELSE t.life

\* After year z the total is within half a cent for each year so far.
Close(a, t, z) ==
    /\ snap[a][z].prior + snap[a][z].months = UsedBy(t, z)
    /\ snap[a][z].total <= D!Base(t)
    /\ 2 * (t.life * snap[a][z].total) <= 2 * (D!Base(t) * UsedBy(t, z)) + t.life * (z - t.year + 1)
    /\ 2 * (D!Base(t) * UsedBy(t, z)) - t.life * (z - t.year + 1) <= 2 * (t.life * snap[a][z].total)

\* From one year to the next.
LEMMA CloseStep ==
    ASSUME NEW t \in Terms, t.year \in D!Years, NEW y \in D!Years, y >= t.year, NEW bf \in Nat, NEW prior \in Nat,
           bf <= D!Base(t), NEW c, c = D!Calculate(t, "straight_line", y, bf, prior),
           y = t.year => prior = 0 /\ bf = 0,
           y > t.year => prior = UsedBy(t, y - 1),
           2 * (t.life * bf) <= 2 * (D!Base(t) * prior) + t.life * (y - t.year),
           2 * (D!Base(t) * prior) - t.life * (y - t.year) <= 2 * (t.life * bf)
    PROVE  /\ prior + c.months = UsedBy(t, y)
           /\ c.total <= D!Base(t)
           /\ 2 * (t.life * c.total) <= 2 * (D!Base(t) * UsedBy(t, y)) + t.life * (y - t.year + 1)
           /\ 2 * (D!Base(t) * UsedBy(t, y)) - t.life * (y - t.year + 1) <= 2 * (t.life * c.total)
<1>1. PICK b \in Nat, life \in Nat, n \in Nat, year \in Nat, month \in 1..12 :
          /\ b = D!Base(t) /\ life = t.life /\ life > 0 /\ n = y - t.year /\ year = t.year
          /\ month = t.month /\ y \in Nat
  <2>1. t.year \in Nat /\ y \in Nat
    BY TermsTyped, YearsAreNat
  <2>2. D!Base(t) \in Nat
    BY TermsTyped
  <2>3. y - t.year \in Nat
    BY <2>1
  <2> QED
    BY <2>1, <2>2, <2>3, TermsTyped
<1>2. /\ UsedBy(t, y) = IF 13 - month + 12 * n < life THEN 13 - month + 12 * n ELSE life
      /\ n > 0 => prior = IF 13 - month + 12 * (n - 1) < life THEN 13 - month + 12 * (n - 1) ELSE life
      /\ n = 0 => prior = 0
      /\ prior <= life
  <2>1. y - t.year = n /\ (y - 1) - t.year = n - 1
    BY <1>1
  <2>2. n > 0 => y > t.year
    BY <1>1
  <2>3. n = 0 => y = t.year
    <3>1. \A i, j \in Nat : i - j = 0 => i = j
      OBVIOUS
    <3>2. y \in Nat /\ t.year \in Nat /\ n = y - t.year
      BY <1>1
    <3> HIDE <1>1
    <3> QED
      BY <3>1, <3>2
  <2>4. UsedBy(t, y) = IF 13 - month + 12 * n < life THEN 13 - month + 12 * n ELSE life
    BY <1>1, <2>1 DEF UsedBy
  <2>5. UsedBy(t, y - 1) =
            IF 13 - month + 12 * (n - 1) < life THEN 13 - month + 12 * (n - 1) ELSE life
    BY <1>1, <2>1 DEF UsedBy
  <2>6. n > 0 => prior = UsedBy(t, y - 1)
    BY <2>2
  <2>7. n = 0 => prior = 0
    BY <2>3
  <2>8. prior <= life
    <3>1. CASE n = 0
      BY <1>1, <2>7, <3>1
    <3>2. CASE n > 0
      <4>1. PICK k \in Int : k = 13 - month + 12 * (n - 1)
        BY <1>1
      <4>2. prior = IF k < life THEN k ELSE life
        BY <2>5, <2>6, <3>2, <4>1
      <4> QED
        BY <1>1, <4>2
    <3> QED
      BY <1>1, <3>1, <3>2
  <2> QED
    BY <2>4, <2>5, <2>6, <2>7, <2>8
<1>3. /\ c.total \in Nat /\ c.months \in Nat /\ c.total <= b
      /\ c.months = IF life - prior < D!MonthsUsed(t, y) THEN life - prior ELSE D!MonthsUsed(t, y)
      /\ 2 * (life * c.total) <= 2 * (life * bf) + 2 * (b * c.months) + life
      /\ c.total = b \/ 2 * (life * bf) + 2 * (b * c.months) - life <= 2 * (life * c.total)
  BY <1>1, <1>2, StraightStep
<1>4. D!MonthsUsed(t, y) = IF y = year THEN 13 - month ELSE 12
  BY <1>1 DEF D!MonthsUsed
<1>5. PICK m \in Nat, total \in Nat, u \in Nat :
          m = c.months /\ total = c.total /\ u = UsedBy(t, y) /\ prior + m = u /\ u <= life
  <2>1. D!MonthsUsed(t, y) = IF n = 0 THEN 13 - month ELSE 12
    BY <1>1, <1>4
  <2>2. PICK m \in Nat : m = c.months /\ m = IF life - prior < D!MonthsUsed(t, y) THEN life - prior
                                            ELSE D!MonthsUsed(t, y)
    BY <1>3
  <2>3. PICK u : u = UsedBy(t, y)
    OBVIOUS
  <2>4. prior + m = u /\ u <= life /\ u \in Nat
    <3>5. month \in Int /\ 1 <= month /\ month <= 12
      OBVIOUS
    <3>1. PICK k \in Int, i \in Int : k = 13 - month + 12 * n /\ i = 13 - month + 12 * (n - 1)
      <4>1. 13 - month + 12 * n \in Int /\ 13 - month + 12 * (n - 1) \in Int
        BY <3>5
      <4> QED
        BY <4>1
    <3>2. u = IF k < life THEN k ELSE life
      BY <1>2, <2>3, <3>1
    <3>3. CASE n = 0
      <4>1. prior = 0
        BY <1>2, <3>3
      <4>2. k = 13 - month
        BY <3>5, <3>1, <3>3
      <4>3. m = IF life < 13 - month THEN life ELSE 13 - month
        <5>1. D!MonthsUsed(t, y) = 13 - month
          BY <2>1, <3>3
        <5>2. life - prior = life
          BY <4>1
        <5> QED
          BY <2>2, <5>1, <5>2
      <4>4. m = IF life < k THEN life ELSE k
        BY <4>2, <4>3
      <4>5. k \in Nat
        BY <3>5, <4>2
      <4>6. m = u /\ u <= life
        BY <3>2, <4>4, <4>5
      <4> QED
        BY <4>1, <4>6
    <3>4. CASE n > 0
      <4>1. k = i + 12 /\ i >= 1
        BY <1>1, <3>1, <3>4
      <4>2. prior = IF i < life THEN i ELSE life
        BY <1>2, <3>1, <3>4
      <4>3. m = IF life - prior < 12 THEN life - prior ELSE 12
        BY <1>1, <2>1, <2>2, <3>4
      <4> QED
        BY <3>2, <4>1, <4>2, <4>3
    <3> QED
      BY <1>1, <3>3, <3>4
  <2>5. PICK total \in Nat : total = c.total
    BY <1>3
  <2> QED
    BY <2>2, <2>3, <2>4, <2>5
<1>6. PICK lt \in Int, lb \in Int, bm \in Int, bp \in Int, bu \in Int, ln \in Int, lm \in Int, bl \in Int :
          /\ lt = life * total /\ lb = life * bf /\ bm = b * m /\ bp = b * prior /\ bu = b * u
          /\ ln = life * n /\ lm = life * (n + 1) /\ bl = b * life
  OBVIOUS
<1>7. bu = bp + bm /\ lm = ln + life
  BY <1>5, <1>6
<1>8. 2 * lb <= 2 * bp + ln /\ 2 * bp - ln <= 2 * lb
  BY <1>1, <1>6
<1>9. 2 * lt <= 2 * lb + 2 * bm + life /\ (total = b \/ 2 * lb + 2 * bm - life <= 2 * lt)
  BY <1>3, <1>5, <1>6
<1>10. 2 * lt <= 2 * bu + lm
  BY <1>7, <1>8, <1>9
<1>11. 2 * bu - lm <= 2 * lt
  <2>1. CASE total = b
    <3>1. lt = bl /\ bu <= bl /\ lm >= 0
      <4>1. lt = bl
        BY <1>6, <2>1
      <4>2. bu <= bl
        BY <1>5, <1>6
      <4>3. lm >= 0
        BY <1>6
      <4> QED
        BY <4>1, <4>2, <4>3
    <3> QED
      BY <3>1
  <2>2. CASE 2 * lb + 2 * bm - life <= 2 * lt
    BY <1>7, <1>8, <2>2
  <2> QED
    BY <1>9, <2>1, <2>2
<1> QED
  BY <1>1, <1>3, <1>5, <1>6, <1>10, <1>11

\* Over all the years since the purchase.
LEMMA YearsStayClose ==
    ASSUME LedgerInv, NEW a \in Depreciable, behind[a] = {}, NEW t \in Terms, D!Base(t) >= 0,
           t.year \in D!Years, NEW y \in D!Years, D!Recorded(a) \cap (1..y) = t.year..y,
           \A z \in t.year..y : origin[a][z] = [method |-> "straight_line", terms |-> t]
    PROVE  \A z \in t.year..y : Close(a, t, z)
<1> DEFINE Wrong == {z \in t.year..y : ~Close(a, t, z)}
<1>1. t.year \in Nat /\ t.year >= 1 /\ y \in Nat
  BY TermsTyped, YearsAreNat
<1>2. \A z \in t.year..y : /\ z \in D!ByRun(a) \ behind[a] /\ z \in D!Recorded(a) /\ z \in D!Years
                           /\ origin[a][z].method = "straight_line" /\ origin[a][z].terms = t
  <2>1. \A z \in t.year..y : z \in D!Recorded(a) /\ origin[a][z] # D!Hand
    BY DEF D!Hand
  <2> QED
    BY <2>1 DEF D!ByRun, D!Recorded
<1>3. ASSUME Wrong # {} PROVE FALSE
  <2>1. PICK z \in Wrong : \A w \in Wrong : z <= w
    <3>1. Wrong \subseteq Nat
      BY <1>1
    <3> HIDE DEF Wrong
    <3> QED
      BY <1>3, <3>1, LeastNat
  <2>2. z \in t.year..y /\ z \in Nat /\ z >= t.year /\ z \in D!Years
    BY <1>1, <1>2
  <2>3. /\ D!Earlier(a, z) = {w \in D!Recorded(a) : w < z}
        /\ D!Recorded(a) \subseteq Nat /\ \A w \in D!Recorded(a) : w >= 1
    BY YearsAreNat DEF D!Earlier, D!Recorded
  <2>4. \A w \in D!Earlier(a, z) : w \in t.year..y
    BY <1>1, <2>2, <2>3
  <2>5. PICK bf \in Nat, prior \in Nat :
                /\ snap[a][z] = D!Calculate(t, "straight_line", z, bf, prior)
                /\ snap[a][z].prior = prior
                /\ D!Earlier(a, z) = {} => bf = 0 /\ prior = 0
                /\ D!Earlier(a, z) # {} =>
                     \E p \in D!Earlier(a, z) :
                        /\ p \in D!Recorded(a) /\ p < z /\ \A w \in D!Earlier(a, z) : w <= p
                        /\ bf = snap[a][p].total /\ prior = snap[a][p].prior + snap[a][p].months
    BY <1>2, <2>2, BroughtForward
  <2>6. CASE z = t.year
    <3>1. D!Earlier(a, z) = {}
      BY <1>1, <2>2, <2>3, <2>4, <2>6
    <3>2. bf = 0 /\ prior = 0
      BY <2>5, <3>1
    <3>3. /\ D!Base(t) \in Int /\ t.life \in Nat /\ z - t.year = 0
          /\ t.life * 0 = 0 /\ D!Base(t) * 0 = 0
      BY <2>2, <2>6, TermsTyped
    <3>4. /\ 2 * (t.life * bf) <= 2 * (D!Base(t) * prior) + t.life * (z - t.year)
          /\ 2 * (D!Base(t) * prior) - t.life * (z - t.year) <= 2 * (t.life * bf)
          /\ bf <= D!Base(t)
      BY <3>2, <3>3
    <3>5. PICK c : c = snap[a][z]
      OBVIOUS
    <3>6. ~(z > t.year)
      BY <1>1, <2>6
    <3>7. /\ prior + c.months = UsedBy(t, z)
          /\ c.total <= D!Base(t)
          /\ 2 * (t.life * c.total) <= 2 * (D!Base(t) * UsedBy(t, z)) + t.life * (z - t.year + 1)
          /\ 2 * (D!Base(t) * UsedBy(t, z)) - t.life * (z - t.year + 1) <= 2 * (t.life * c.total)
      BY <2>2, <2>5, <3>2, <3>4, <3>5, <3>6, CloseStep
    <3> QED
      BY <2>5, <3>5, <3>7 DEF Close
  <2>7. CASE z > t.year
    <3>1. z - 1 \in t.year..y /\ z - 1 \in D!Earlier(a, z)
      BY <1>1, <1>2, <2>2, <2>3, <2>7
    <3>2. bf = snap[a][z - 1].total /\ prior = snap[a][z - 1].prior + snap[a][z - 1].months
      <4>1. PICK p \in D!Earlier(a, z) :
                        /\ p \in D!Recorded(a) /\ p < z /\ \A w \in D!Earlier(a, z) : w <= p
                        /\ bf = snap[a][p].total /\ prior = snap[a][p].prior + snap[a][p].months
        BY <2>5, <3>1
      <4>2. p = z - 1
        BY <2>2, <2>3, <3>1, <4>1
      <4> QED
        BY <4>1, <4>2
    <3>3. Close(a, t, z - 1)
      <4>1. z - 1 \notin Wrong
        <5> HIDE DEF Wrong
        <5> QED
          BY <2>1, <2>2
      <4> QED
        BY <3>1, <4>1
    <3>4. z - 1 - t.year + 1 = z - t.year
      BY <1>1, <2>2
    <3>5. /\ prior = UsedBy(t, z - 1) /\ bf <= D!Base(t)
          /\ 2 * (t.life * bf) <= 2 * (D!Base(t) * prior) + t.life * (z - t.year)
          /\ 2 * (D!Base(t) * prior) - t.life * (z - t.year) <= 2 * (t.life * bf)
      BY <3>2, <3>3, <3>4 DEF Close
    <3>6. PICK c : c = snap[a][z]
      OBVIOUS
    <3>7. ~(z = t.year)
      BY <1>1, <2>7
    <3>8. /\ prior + c.months = UsedBy(t, z)
          /\ c.total <= D!Base(t)
          /\ 2 * (t.life * c.total) <= 2 * (D!Base(t) * UsedBy(t, z)) + t.life * (z - t.year + 1)
          /\ 2 * (D!Base(t) * UsedBy(t, z)) - t.life * (z - t.year + 1) <= 2 * (t.life * c.total)
      BY <2>2, <2>5, <3>5, <3>6, <3>7, CloseStep
    <3> QED
      BY <2>5, <3>6, <3>8 DEF Close
  <2> QED
    BY <1>1, <2>2, <2>6, <2>7
<1> QED
  BY <1>3

\* Depreciation: an asset charged by the straight line every year since its purchase is
\* within half a cent per year of the exact share of its base, for any terms, any number of
\* years and however often they were run: the cap on the months and the cap on the
\* charge take no more than what rounding left over.
THEOREM CentsFollowMonthsHolds == D!Spec => []CentsFollowMonths
<1>1. LedgerInv => CentsFollowMonths
  <2> SUFFICES ASSUME LedgerInv, NEW a \in Depreciable, NEW y \in D!ByRun(a), NEW t,
                      t = origin[a][y].terms, D!Base(t) >= 0, behind[a] = {},
                      D!Recorded(a) \cap (1..y) = t.year..y, t.year..y # {},
                      \A z \in t.year..y : origin[a][z] = [method |-> "straight_line", terms |-> t],
                      NEW used, used = 13 - t.month + 12 * (y - t.year),
                      NEW off, off = snap[a][y].total * t.life
                                        - D!Base(t) * (IF used < t.life THEN used ELSE t.life)
               PROVE  /\ 2 * off <= t.life * D!Cardinality(t.year..y)
                      /\ -2 * off <= t.life * D!Cardinality(t.year..y)
    BY DEF CentsFollowMonths, D!CentsFollowMonths
  <2>1. y \in D!Years /\ t \in Terms /\ snap[a][y] \in D!Snapshot
    BY DEF D!ByRun, D!Recorded, LedgerInv, LedgerTyped
  <2>2. /\ t.year \in D!Years
        /\ t.year \in Nat /\ y \in Nat /\ t.life \in Nat /\ t.month \in 1..12 /\ D!Base(t) \in Int
        /\ snap[a][y].total \in Nat
    <3>1. t.year \in Int /\ t.life \in Nat /\ t.month \in 1..12 /\ D!Base(t) \in Int
      BY <2>1, TermsTyped
    <3>2. t.year \in t.year..y
      BY <2>1, <3>1, YearsAreNat
    <3>3. t.year \in D!Years
      BY <3>2 DEF D!Recorded
    <3> QED
      BY <2>1, <3>1, <3>3, YearsAreNat DEF D!Snapshot
  <2>3. t.year <= y /\ y \in t.year..y
    BY <2>2
  <2>4. Close(a, t, y)
    BY <2>1, <2>2, <2>3, YearsStayClose
  <2>5. D!Cardinality(t.year..y) = y - t.year + 1
    <3>1. D!Cardinality(t.year..y) = Cardinality(t.year..y)
      BY DEF D!Cardinality, Cardinality
    <3>2. PICK lo \in Int, hi \in Int : lo = t.year /\ hi = y /\ lo <= hi
      BY <2>2, <2>3
    <3>3. Cardinality(lo..hi) = hi - lo + 1
      <4>1. ~(lo > hi)
        BY <3>2
      <4> QED
        BY <4>1, FS_Interval
    <3> QED
      BY <3>1, <3>2, <3>3
  <2>6. PICK u \in Int : u = UsedBy(t, y) /\ u = IF used < t.life THEN used ELSE t.life
    BY <2>2 DEF UsedBy
  <2>7. PICK lt \in Int, bu \in Int, ln \in Int :
            lt = t.life * snap[a][y].total /\ bu = D!Base(t) * u /\ ln = t.life * (y - t.year + 1)
    BY <2>2
  <2>8. off = lt - bu
    <3>1. snap[a][y].total * t.life = t.life * snap[a][y].total
      BY <2>2
    <3> QED
      BY <2>6, <2>7, <3>1
  <2>9. 2 * lt <= 2 * bu + ln /\ 2 * bu - ln <= 2 * lt
    BY <2>4, <2>6, <2>7 DEF Close
  <2>10. 2 * off <= ln /\ -2 * off <= ln
    BY <2>8, <2>9
  <2> QED
    BY <2>5, <2>7, <2>10
<1> QED
  BY <1>1, LedgerInit, LedgerStep, PTL DEF D!Spec

=============================================================================
