----------------------------- MODULE LimitsProofs -----------------------------
(***************************************************************************)
(* Proofs about the token bucket and the failure window of Limits, for     *)
(* every burst, refill rate, window, threshold and history of calls. The   *)
(* bucket is a running minimum: over all past grants i, of what the        *)
(* stretch of time from i on still allows. Ledger says that no stretch     *)
(* allows less than the bucket holds, Tight that some stretch allows       *)
(* exactly that; the first bounds what is granted, the second what is      *)
(* refused. The failure window holds, in order, those failures since the   *)
(* last reset that lie within Window of the newest one (WindowOf): the     *)
(* loop that drops the others leaves just these (Trimmed).                 *)
(***************************************************************************)
EXTENDS Limits, FiniteSetTheorems, WellFoundedInduction, TLAPS

LEMMA ConstantFacts ==
  /\ Burst \in Nat /\ Grain \in Nat /\ Refill \in Nat
  /\ Capacity \in Nat /\ Grain <= Capacity /\ Grain > 0
<1>1. Burst \in Nat \ {0} /\ Grain \in Nat \ {0} /\ Refill \in Nat
  BY LimitsAssumption
<1>2. Burst * Grain \in Nat /\ Grain <= Burst * Grain
  <2>1. PICK b \in Nat : Burst = b + 1
    <3>1. Burst - 1 \in Nat /\ Burst = (Burst - 1) + 1
      BY <1>1
    <3>2. QED
      BY <3>1
  <2>2. b * Grain \in Nat
    BY <1>1, <2>1
  <2>3. Burst * Grain = b * Grain + Grain
    BY <1>1, <2>1
  <2>4. QED
    BY <1>1, <2>2, <2>3
<1>3. QED
  BY <1>1, <1>2 DEF Capacity

\* Refilling in two stretches of time is refilling in one.
LEMMA RefillAdds ==
  ASSUME NEW a \in Nat, NEW b \in Nat, NEW c \in Nat
  PROVE  Refill * (b - a) + Refill * (c - b) = Refill * (c - a)
BY ConstantFacts

LEMMA RefillGrows ==
  ASSUME NEW a \in Nat, NEW b \in Nat, a <= b
  PROVE  Refill * (b - a) \in Nat
<1>1. b - a \in Nat
  OBVIOUS
<1>2. QED
  BY <1>1, ConstantFacts

LEMMA SpentType ==
  ASSUME NEW i \in Int, NEW n \in Int
  PROVE  Spent(i, n) \in Int
BY ConstantFacts DEF Spent

\* One more grant takes one more token from every stretch.
LEMMA SpentGrows ==
  ASSUME NEW i \in Int, NEW n \in Int
  PROVE  Spent(i, n + 1) = Spent(i, n) + Grain
BY ConstantFacts DEF Spent

LEMMA SpentOnce ==
  ASSUME NEW n \in Int
  PROVE  Spent(n, n) = Grain
BY ConstantFacts DEF Spent

-----------------------------------------------------------------------------
(* The inductive invariant *)

Typed(k) ==
  /\ buckets[k].last <= clock
  /\ buckets[k].grains \in 0..Capacity
  /\ \A i \in 1..Len(grants[k]) : grants[k][i] <= buckets[k].last

\* No stretch of time since a grant leaves less than the bucket holds.
Ledger(k) ==
  LET s == grants[k]
      b == buckets[k]
  IN  \A i \in 1..Len(s) :
        Spent(i, Len(s)) + b.grains <= Allowance(s, i, b.last)

\* Some stretch leaves no more than that; an unused key has granted nothing.
Tight(k) ==
  LET s == grants[k]
      b == buckets[k]
  IN  IF b.met
      THEN \E i \in 1..Len(s) :
             Spent(i, Len(s)) + b.grains = Allowance(s, i, b.last)
      ELSE s = <<>>

Bounded(k) ==
  LET s == grants[k]
  IN  \A j \in 1..Len(s) : \A i \in 1..j : Spent(i, j) <= Allowance(s, i, s[j])

KeyInv(k) == Typed(k) /\ Ledger(k) /\ Tight(k) /\ Bounded(k)

BucketInv ==
  /\ clock \in Nat
  /\ buckets \in [Key -> Bucket]
  /\ grants \in [Key -> Seq(Nat)]
  /\ \A k \in Key : KeyInv(k)

LEMMA InitBucket == Init => BucketInv
<1> SUFFICES ASSUME Init PROVE BucketInv
  OBVIOUS
<1>1. NoBucket \in Bucket /\ <<>> \in Seq(Nat)
  BY DEF NoBucket, Bucket
<1>2. clock \in Nat /\ buckets \in [Key -> Bucket] /\ grants \in [Key -> Seq(Nat)]
  BY <1>1 DEF Init
<1>3. ASSUME NEW k \in Key PROVE KeyInv(k)
  <2>1. buckets[k] = NoBucket /\ grants[k] = <<>> /\ clock = 0
    BY DEF Init
  <2>2. 0 \in 0..Capacity
    BY ConstantFacts
  <2>3. Len(grants[k]) = 0
    BY <2>1
  <2>4. Typed(k)
    BY <2>1, <2>2, <2>3 DEF Typed, NoBucket
  <2>5. Ledger(k) /\ Tight(k) /\ Bounded(k)
    BY <2>1, <2>3 DEF Ledger, Tight, Bounded, NoBucket
  <2>6. QED
    BY <2>4, <2>5 DEF KeyInv
<1>4. QED
  BY <1>2, <1>3 DEF BucketInv

\* What a call finds in a bucket of the invariant: nothing before the first call,
\* and otherwise the least of what the stretches leave, cut off at the burst.
LEMMA GrainsThere ==
  ASSUME BucketInv, NEW k \in Key, buckets[k].met
  PROVE  LET s == grants[k]
             n == Len(s)
             there == GrainsNow(buckets[k])
         IN  /\ there \in 0..Capacity
             /\ \A i \in 1..n : Spent(i, n) + there <= Allowance(s, i, clock)
             /\ there < Capacity =>
                  \E i \in 1..n : Spent(i, n) + there = Allowance(s, i, clock)
<1> DEFINE s == grants[k]
           n == Len(s)
           b == buckets[k]
           there == GrainsNow(b)
           passed == Refill * (clock - b.last)
<1>1. /\ clock \in Nat /\ b \in Bucket /\ s \in Seq(Nat)
      /\ Typed(k) /\ Ledger(k) /\ Tight(k)
  BY DEF BucketInv, KeyInv
<1>2. b.last \in Nat /\ b.last <= clock /\ b.grains \in 0..Capacity
  BY <1>1 DEF Bucket, Typed
<1>3. n \in Nat /\ \A i \in 1..n : s[i] \in Nat
  BY <1>1
<1>4. passed \in Nat
  BY <1>1, <1>2, RefillGrows
<1>5. there = IF b.grains + passed > Capacity THEN Capacity ELSE b.grains + passed
  BY DEF GrainsNow
<1>6. ASSUME NEW i \in 1..n
      PROVE  /\ Allowance(s, i, clock) = Allowance(s, i, b.last) + passed
             /\ Spent(i, n) \in Int
             /\ Allowance(s, i, b.last) \in Int
  <2>1. s[i] \in Nat /\ i \in Int /\ n \in Int
    BY <1>3
  <2>2. Refill * (b.last - s[i]) + Refill * (clock - b.last) = Refill * (clock - s[i])
    BY <1>1, <1>2, <2>1, RefillAdds
  <2>3. Refill * (b.last - s[i]) \in Int
    BY <1>2, <2>1, ConstantFacts
  <2>4. Spent(i, n) \in Int
    BY <2>1, SpentType
  <2>5. /\ Allowance(s, i, clock) = Capacity + Refill * (clock - s[i])
        /\ Allowance(s, i, b.last) = Capacity + Refill * (b.last - s[i])
    BY DEF Allowance
  <2>6. Refill * (b.last - s[i]) + passed = Refill * (clock - s[i])
    BY <2>2
  <2> HIDE DEF passed
  <2>7. QED
    BY <2>3, <2>4, <2>5, <2>6, <1>4, ConstantFacts
<1>7. there \in 0..Capacity
  BY <1>2, <1>4, <1>5, ConstantFacts
<1>8. ASSUME NEW i \in 1..n PROVE Spent(i, n) + there <= Allowance(s, i, clock)
  <2>1. Spent(i, n) + b.grains <= Allowance(s, i, b.last)
    BY <1>1 DEF Ledger
  <2>2. there <= b.grains + passed /\ there \in Int /\ b.grains \in Int
    BY <1>2, <1>4, <1>5, ConstantFacts
  <2> HIDE DEF there, passed
  <2>3. QED
    BY <2>1, <2>2, <1>4, <1>6
<1>9. ASSUME there < Capacity
      PROVE  \E i \in 1..n : Spent(i, n) + there = Allowance(s, i, clock)
  <2>1. PICK i \in 1..n : Spent(i, n) + b.grains = Allowance(s, i, b.last)
    BY <1>1 DEF Tight
  <2>2. there = b.grains + passed /\ b.grains \in Int
    BY <1>2, <1>4, <1>5, <1>9, ConstantFacts
  <2> HIDE DEF there, passed
  <2>3. Spent(i, n) + there = Allowance(s, i, clock)
    BY <2>1, <2>2, <1>4, <1>6
  <2>4. QED
    BY <2>3
<1>10. QED
  BY <1>7, <1>8, <1>9

-----------------------------------------------------------------------------
(* The steps *)

\* A step that leaves a key's bucket and grants alone, while time may pass.
LEMMA KeyUntouched ==
  ASSUME NEW k \in Key, KeyInv(k), clock \in Nat, clock' \in Nat, clock <= clock',
         buckets \in [Key -> Bucket],
         buckets'[k] = buckets[k], grants'[k] = grants[k]
  PROVE  KeyInv(k)'
<1>1. buckets[k].last \in Nat
  BY DEF Bucket
<1>2. Typed(k)'
  BY <1>1 DEF KeyInv, Typed
<1>3. Ledger(k)' /\ Tight(k)' /\ Bounded(k)'
  BY DEF KeyInv, Ledger, Tight, Bounded, Spent, Allowance
<1>4. QED
  BY <1>2, <1>3 DEF KeyInv

LEMMA Granted ==
  ASSUME BucketInv, NEW k \in Key, NEW there \in 0..Capacity, there >= Grain,
         LET s == grants[k] IN
           \A i \in 1..Len(s) : Spent(i, Len(s)) + there <= Allowance(s, i, clock),
         there < Capacity =>
           LET s == grants[k] IN
           \E i \in 1..Len(s) : Spent(i, Len(s)) + there = Allowance(s, i, clock),
         clock' = clock,
         buckets'[k] = [met |-> TRUE, last |-> clock, grains |-> there - Grain],
         grants'[k] = Append(grants[k], clock)
  PROVE  KeyInv(k)'
<1> DEFINE s == grants[k]
           n == Len(s)
           r == Append(s, clock)
           b == [met |-> TRUE, last |-> clock, grains |-> there - Grain]
<1>1. clock \in Nat /\ s \in Seq(Nat) /\ Typed(k) /\ Bounded(k) /\ buckets[k].last \in Nat
  BY DEF BucketInv, KeyInv, Bucket
<1>2. /\ n \in Nat /\ Len(r) = n + 1 /\ r[n + 1] = clock
      /\ \A i \in 1..n : r[i] = s[i] /\ s[i] \in Nat /\ s[i] <= clock
  <2>1. n \in Nat /\ Len(r) = n + 1 /\ r[n + 1] = clock
    BY <1>1
  <2>2. ASSUME NEW i \in 1..n PROVE r[i] = s[i] /\ s[i] \in Nat /\ s[i] <= clock
    <3>1. s[i] <= buckets[k].last /\ buckets[k].last <= clock
      BY <1>1 DEF Typed
    <3>2. r[i] = s[i] /\ s[i] \in Nat
      BY <1>1
    <3>3. QED
      BY <1>1, <3>1, <3>2
  <2>3. QED
    BY <2>1, <2>2
<1>3. \A i \in 1..(n + 1) : i \in 1..n \/ i = n + 1
  BY <1>2
<1>4. there - Grain \in 0..Capacity /\ there \in Int
  BY ConstantFacts
<1>5. ASSUME NEW i \in 1..n
      PROVE  /\ Spent(i, n + 1) = Spent(i, n) + Grain
             /\ Spent(i, n) \in Int
             /\ Allowance(r, i, clock) = Allowance(s, i, clock)
             /\ Allowance(s, i, clock) \in Int
  <2>1. i \in Int /\ n \in Int /\ s[i] \in Nat /\ r[i] = s[i]
    BY <1>2
  <2>2. Allowance(s, i, clock) = Capacity + Refill * (clock - s[i])
    BY DEF Allowance
  <2>3. Refill * (clock - s[i]) \in Int
    BY <1>1, <2>1, ConstantFacts, SMTT(30)
  <2>4. Allowance(r, i, clock) = Allowance(s, i, clock)
    BY <2>1 DEF Allowance
  <2>5. Spent(i, n + 1) = Spent(i, n) + Grain /\ Spent(i, n) \in Int
    BY <2>1, SpentGrows, SpentType
  <2>6. QED
    BY <2>2, <2>3, <2>4, <2>5, ConstantFacts
\* The stretch from the new grant on is one token short of the burst.
<1>6. Spent(n + 1, n + 1) = Grain /\ Allowance(r, n + 1, clock) = Capacity
  <2>1. Spent(n + 1, n + 1) = Grain
    BY <1>2, SpentOnce
  <2>2. clock - r[n + 1] = 0
    BY <1>1, <1>2
  <2>3. Refill * 0 = 0
    BY ConstantFacts
  <2>4. QED
    BY <2>1, <2>2, <2>3, ConstantFacts DEF Allowance
<1>7. /\ grants'[k] = r /\ buckets'[k] = b
      /\ b.met /\ b.last = clock /\ b.grains = there - Grain
  OBVIOUS
<1>8. ASSUME NEW i \in 1..n
      PROVE  Spent(i, n) + there <= Allowance(s, i, clock)
  OBVIOUS
<1>9. \A i \in 1..n : r[i] = s[i] /\ s[i] <= clock
  BY <1>2
<1> HIDE DEF r, b, s, n
<1>10. Typed(k)'
  <2>1. \A i \in 1..Len(r) : r[i] <= clock
    BY <1>1, <1>2, <1>3
  <2>2. clock <= clock
    BY <1>1
  <2>3. QED
    BY <1>4, <1>7, <2>1, <2>2 DEF Typed
<1>11. \A i \in 1..(n + 1) : Spent(i, n + 1) + (there - Grain) <= Allowance(r, i, clock)
  BY <1>3, <1>4, <1>5, <1>6, <1>8, ConstantFacts
<1>12. Ledger(k)'
  BY <1>2, <1>7, <1>11 DEF Ledger, Spent, Allowance
<1>13. \E i \in 1..(n + 1) : Spent(i, n + 1) + (there - Grain) = Allowance(r, i, clock)
  <2>1. CASE there < Capacity
    <3>1. PICK i \in 1..n : Spent(i, n) + there = Allowance(s, i, clock)
      BY <2>1 DEF s, n
    <3>2. Spent(i, n + 1) + (there - Grain) = Allowance(r, i, clock)
      BY <3>1, <1>4, <1>5, ConstantFacts
    <3>3. i \in 1..(n + 1)
      BY <1>2
    <3>4. QED
      BY <3>2, <3>3
  <2>2. CASE ~(there < Capacity)
    <3>1. there = Capacity
      BY <2>2, ConstantFacts
    <3>2. Spent(n + 1, n + 1) + (there - Grain) = Allowance(r, n + 1, clock)
      BY <3>1, <1>6, ConstantFacts
    <3>3. n + 1 \in 1..(n + 1)
      BY <1>2
    <3>4. QED
      BY <3>2, <3>3
  <2>3. QED
    BY <2>1, <2>2
<1>14. Tight(k)'
  BY <1>2, <1>7, <1>13 DEF Tight, Spent, Allowance
<1>15. ASSUME NEW j \in 1..(n + 1), NEW i \in 1..j
       PROVE  Spent(i, j) <= Allowance(r, i, r[j])
  <2>1. CASE j \in 1..n
    <3>1. i \in 1..n /\ r[i] = s[i] /\ r[j] = s[j]
      BY <2>1, <1>2
    <3>2. Spent(i, j) <= Allowance(s, i, s[j])
      BY <2>1, <1>1 DEF Bounded, s, n
    <3>3. QED
      BY <3>1, <3>2 DEF Spent, Allowance
  <2>2. CASE j = n + 1
    <3>1. i \in 1..(n + 1) /\ r[j] = clock
      BY <2>2, <1>2
    <3>2. Spent(i, n + 1) + (there - Grain) <= Allowance(r, i, clock)
      BY <3>1, <1>11
    <3>3. Spent(i, n + 1) \in Int /\ Allowance(r, i, clock) \in Int
      BY <3>1, <1>3, <1>5, <1>6, ConstantFacts
    <3>4. Spent(i, n + 1) <= Allowance(r, i, clock)
      BY <3>2, <3>3, <1>4
    <3>5. QED
      BY <2>2, <3>1, <3>4
  <2>3. QED
    BY <2>1, <2>2, <1>3
<1>16. Bounded(k)'
  BY <1>2, <1>7, <1>15 DEF Bounded, Spent, Allowance
<1>17. QED
  BY <1>10, <1>12, <1>14, <1>16 DEF KeyInv

\* A refused request leaves the bucket as it is, counted up to now.
LEMMA Refused ==
  ASSUME BucketInv, NEW k \in Key, NEW there \in 0..Capacity,
         LET s == grants[k] IN
           \A i \in 1..Len(s) : Spent(i, Len(s)) + there <= Allowance(s, i, clock),
         LET s == grants[k] IN
           \E i \in 1..Len(s) : Spent(i, Len(s)) + there = Allowance(s, i, clock),
         clock' = clock,
         buckets'[k] = [met |-> TRUE, last |-> clock, grains |-> there],
         grants'[k] = grants[k]
  PROVE  KeyInv(k)'
<1>1. clock \in Nat /\ grants[k] \in Seq(Nat) /\ Typed(k) /\ buckets[k].last \in Nat
  BY DEF BucketInv, KeyInv, Bucket
<1>2. ASSUME NEW i \in 1..Len(grants[k]) PROVE grants[k][i] <= clock
  <2>1. grants[k][i] <= buckets[k].last /\ buckets[k].last <= clock
    BY <1>1 DEF Typed
  <2>2. grants[k][i] \in Nat
    BY <1>1
  <2>3. QED
    BY <1>1, <2>1, <2>2
<1>3. Typed(k)'
  BY <1>1, <1>2 DEF Typed
<1>4. Ledger(k)' /\ Tight(k)'
  BY DEF Ledger, Tight, Spent, Allowance
<1>5. Bounded(k)'
  BY DEF BucketInv, KeyInv, Bounded, Spent, Allowance
<1>6. QED
  BY <1>3, <1>4, <1>5 DEF KeyInv

\* What Allow finds in the bucket, and what it does with it.
There(k) == IF buckets[k].met THEN GrainsNow(buckets[k]) ELSE Capacity

LEMMA AllowSteps ==
  ASSUME BucketInv, NEW k \in Key, Allow(k)
  PROVE  /\ There(k) \in 0..Capacity
         /\ LET s == grants[k] IN
              \A i \in 1..Len(s) : Spent(i, Len(s)) + There(k) <= Allowance(s, i, clock)
         /\ There(k) < Capacity =>
              LET s == grants[k] IN
              \E i \in 1..Len(s) : Spent(i, Len(s)) + There(k) = Allowance(s, i, clock)
         /\ clock' = clock
         /\ \/ /\ There(k) >= Grain
               /\ buckets'[k] = [met |-> TRUE, last |-> clock,
                                 grains |-> There(k) - Grain]
               /\ grants'[k] = Append(grants[k], clock)
            \/ /\ There(k) < Grain
               /\ buckets'[k] = [met |-> TRUE, last |-> clock, grains |-> There(k)]
               /\ grants'[k] = grants[k]
<1>1. buckets \in [Key -> Bucket] /\ grants \in [Key -> Seq(Nat)] /\ Tight(k)
  BY DEF BucketInv, KeyInv
<1>2. There(k) \in 0..Capacity
  BY GrainsThere, ConstantFacts DEF There
<1>3. /\ LET s == grants[k] IN
           \A i \in 1..Len(s) : Spent(i, Len(s)) + There(k) <= Allowance(s, i, clock)
      /\ There(k) < Capacity =>
           LET s == grants[k] IN
           \E i \in 1..Len(s) : Spent(i, Len(s)) + There(k) = Allowance(s, i, clock)
  <2>1. CASE buckets[k].met
    BY <2>1, GrainsThere DEF There
  <2>2. CASE ~buckets[k].met
    <3>1. There(k) = Capacity /\ grants[k] = <<>>
      BY <1>1, <2>2 DEF There, Tight
    <3>2. ~(There(k) < Capacity)
      BY <3>1, ConstantFacts
    <3>3. 1..Len(grants[k]) = {}
      BY <3>1
    <3>4. QED
      BY <3>2, <3>3
  <2>3. QED
    BY <2>1, <2>2
<1>4. There(k) >= Grain \/ There(k) < Grain
  BY <1>2, ConstantFacts
<1>5. CASE There(k) >= Grain
  BY <1>1, <1>2, <1>3, <1>5 DEF Allow, There
<1>6. CASE There(k) < Grain
  <2>1. ~(There(k) >= Grain)
    BY <1>2, <1>6, ConstantFacts
  <2>2. QED
    BY <1>1, <1>2, <1>3, <1>6, <2>1 DEF Allow, There
<1>7. QED
  BY <1>4, <1>5, <1>6

LEMMA AllowKeeps ==
  ASSUME BucketInv, NEW k \in Key, Allow(k)
  PROVE  BucketInv'
<1>1. /\ clock \in Nat /\ clock' = clock
      /\ buckets \in [Key -> Bucket] /\ grants \in [Key -> Seq(Nat)]
  BY DEF BucketInv, Allow
<1>2. There(k) \in 0..Capacity /\ Grain \in Nat /\ Grain <= Capacity /\ Capacity \in Nat
  BY AllowSteps, ConstantFacts
<1>3. KeyInv(k)'
  <2>1. CASE There(k) >= Grain
    <3>1. ~(There(k) < Grain)
      BY <1>2, <2>1
    <3>2. QED
      BY <3>1, <2>1, AllowSteps, Granted
  <2>2. CASE There(k) < Grain
    <3>1. ~(There(k) >= Grain) /\ There(k) < Capacity
      BY <1>2, <2>2
    <3>2. QED
      BY <3>1, <2>2, AllowSteps, Refused
  <2>3. QED
    BY <1>2, <2>1, <2>2
<1>4. ASSUME NEW j \in Key, j # k PROVE KeyInv(j)'
  <2>1. buckets'[j] = buckets[j] /\ grants'[j] = grants[j]
    BY <1>1, <1>4 DEF Allow
  <2>2. KeyInv(j) /\ clock <= clock'
    BY <1>1 DEF BucketInv
  <2>3. QED
    BY <1>1, <2>1, <2>2, KeyUntouched
<1>5. buckets' \in [Key -> Bucket]
  <2>1. PICK g \in Int : buckets'[k] = [met |-> TRUE, last |-> clock, grains |-> g]
    <3>1. There(k) - Grain \in Int /\ There(k) \in Int
      BY <1>2
    <3>2. \/ buckets'[k] = [met |-> TRUE, last |-> clock, grains |-> There(k) - Grain]
          \/ buckets'[k] = [met |-> TRUE, last |-> clock, grains |-> There(k)]
      BY AllowSteps
    <3>3. QED
      BY <3>1, <3>2
  <2>a. buckets'[k] \in Bucket
    BY <1>1, <2>1 DEF Bucket
  <2>2. buckets' = [buckets EXCEPT ![k] = buckets'[k]]
    BY <1>1 DEF Allow
  <2>3. QED
    BY <1>1, <2>a, <2>2
<1>6. grants' \in [Key -> Seq(Nat)]
  BY <1>1 DEF Allow
<1>7. QED
  BY <1>1, <1>3, <1>4, <1>5, <1>6 DEF BucketInv

LEMMA NextKeeps == BucketInv /\ [Next]_vars => BucketInv'
<1> SUFFICES ASSUME BucketInv, [Next]_vars PROVE BucketInv'
  OBVIOUS
<1>1. clock \in Nat /\ buckets \in [Key -> Bucket] /\ grants \in [Key -> Seq(Nat)]
  BY DEF BucketInv
<1>2. ASSUME UNCHANGED bucketVars, clock' \in Nat, clock <= clock'
      PROVE  BucketInv'
  <2>1. ASSUME NEW k \in Key PROVE KeyInv(k)'
    <3>1. KeyInv(k) /\ buckets'[k] = buckets[k] /\ grants'[k] = grants[k]
      BY <1>2 DEF BucketInv, bucketVars
    <3>2. QED
      BY <1>1, <1>2, <3>1, KeyUntouched
  <2>2. QED
    BY <1>1, <1>2, <2>1 DEF BucketInv, bucketVars
<1>3. CASE Tick
  BY <1>1, <1>2, <1>3 DEF Tick
<1>4. ASSUME NEW k \in Key, Allow(k) PROVE BucketInv'
  BY <1>4, AllowKeeps
<1>5. ASSUME NEW k \in Key, RecordFailure(k) \/ Reset(k) PROVE BucketInv'
  <2>1. UNCHANGED bucketVars /\ clock' = clock
    BY <1>5 DEF RecordFailure, Reset
  <2>2. QED
    BY <1>1, <1>2, <2>1
<1>6. CASE UNCHANGED vars
  BY <1>1, <1>2, <1>6 DEF vars
<1>7. QED
  BY <1>3, <1>4, <1>5, <1>6 DEF Next

-----------------------------------------------------------------------------
(* Theorems *)

\* The bucket and its history satisfy the invariant in every reachable state.
THEOREM BucketSafe == Spec => []BucketInv
<1>1. QED
  BY InitBucket, NextKeeps, PTL DEF Spec

\* For every burst and refill rate, and every sequence of requests, refusals and
\* pauses: no stretch of time has more grants than the burst and the refill.
THEOREM LimiterHolds == Spec => []GrantsBounded
<1>1. BucketInv => GrantsBounded
  BY DEF BucketInv, KeyInv, Bounded, GrantsBounded
<1>2. QED
  BY <1>1, BucketSafe, PTL

\* And a request is refused only when one more grant would break that bound.
THEOREM LimiterIsFair == Spec => RefusedOnlyWhenSpent
<1>1. BucketInv /\ [Next]_vars =>
        [\A k \in Key : Allow(k) /\ Entitled(k) => grants'[k] # grants[k]]_vars
  <2> SUFFICES ASSUME BucketInv, NEW k \in Key, Allow(k), Entitled(k)
               PROVE  grants'[k] # grants[k]
    OBVIOUS
  <2> DEFINE s == grants[k]
             n == Len(s)
  <2>1. s \in Seq(Nat) /\ clock \in Nat
    BY DEF BucketInv
  <2>2. There(k) \in 0..Capacity /\ Grain \in Nat /\ Grain <= Capacity /\ Capacity \in Nat
    BY AllowSteps, ConstantFacts
  <2>3. CASE There(k) >= Grain
    <3>1. ~(There(k) < Grain)
      BY <2>2, <2>3
    <3>2. grants'[k] = Append(s, clock)
      BY <3>1, AllowSteps
    <3>3. Len(Append(s, clock)) # Len(s)
      BY <2>1
    <3>4. QED
      BY <3>2, <3>3
  <2>4. CASE There(k) < Grain
    <3>1. There(k) < Capacity
      BY <2>2, <2>4
    <3>2. PICK i \in 1..n : Spent(i, n) + There(k) = Allowance(s, i, clock)
      BY <3>1, AllowSteps
    <3>3. Spent(i, n) + Grain <= Allowance(s, i, clock)
      BY DEF Entitled
    <3>4. i \in Int /\ n \in Int
      BY <2>1
    <3>5. Spent(i, n) \in Int
      BY <3>4, SpentType
    <3>6. QED
      BY <3>2, <3>3, <3>5, <2>2, <2>4
  <2>5. QED
    BY <2>2, <2>3, <2>4
<1>2. QED
  BY <1>1, BucketSafe, PTL DEF Spec, RefusedOnlyWhenSpent

-----------------------------------------------------------------------------
(* The window of failures: the loop *)

LEMMA LeastExists ==
  ASSUME NEW T, T \subseteq Nat, T # {}
  PROVE  \E x \in T : \A y \in T : x <= y
<1>1. PICK x \in T : \A y \in T : ~(<<y, x>> \in OpToRel(<, Nat))
  BY NatLessThanWellFounded, WFMin, Zenon
<1>2. ASSUME NEW y \in T
      PROVE  x <= y
  <2>1. ~(y < x)
    BY <1>1, Zenon DEF OpToRel
  <2> QED  BY <2>1
<1> QED  BY <1>2

\* What the loop does with its i-th element, when f says what it did before.
Kept(f, s, t, i) ==
  IF i = 0 THEN <<>>
  ELSE IF s[i] > t - Window THEN Append(f[i - 1], s[i]) ELSE f[i - 1]

Runs(f, s, t, n) == f = [i \in 0..n |-> Kept(f, s, t, i)]

\* The loop runs: by the least number of elements it would not get through.
LEMMA LoopRuns ==
  ASSUME NEW s, NEW t, NEW n \in Nat
  PROVE  \E f : Runs(f, s, t, n)
<1> DEFINE Stuck == {m \in Nat : ~\E f : Runs(f, s, t, m)}
<1> SUFFICES Stuck = {}
  OBVIOUS
<1> SUFFICES ASSUME Stuck # {} PROVE FALSE
  OBVIOUS
<1>1. PICK m \in Stuck : \A k \in Stuck : m <= k
  <2>1. Stuck \subseteq Nat
    OBVIOUS
  <2> HIDE DEF Stuck
  <2> QED  BY <2>1, LeastExists
<1>2. m \in Nat /\ ~\E f : Runs(f, s, t, m)
  OBVIOUS
<1>3. CASE m = 0
  <2> DEFINE f == [i \in 0..0 |-> <<>>]
  <2>1. Runs(f, s, t, 0)
    BY DEF Runs, Kept
  <2> QED  BY <1>2, <1>3, <2>1
<1>4. CASE m # 0
  <2>1. m - 1 \in Nat /\ m - 1 \notin Stuck
    BY <1>1, <1>2, <1>4
  <2>2. PICK g : Runs(g, s, t, m - 1)
    BY <2>1
  <2> DEFINE f == [i \in 0..m |-> IF i = m THEN Kept(g, s, t, m) ELSE g[i]]
  <2>3. \A i \in 0..(m - 1) : f[i] = g[i] /\ g[i] = Kept(g, s, t, i)
    BY <1>2, <2>1, <2>2, SMTT(30) DEF Runs
  <2>4. ASSUME NEW i \in 0..m PROVE f[i] = Kept(f, s, t, i)
    <3>1. i # 0 => f[i - 1] = g[i - 1]
      BY <1>2, <2>1
    <3>2. Kept(f, s, t, i) = Kept(g, s, t, i)
      <4> HIDE DEF f
      <4> QED  BY <3>1 DEF Kept
    <3>3. CASE i = m
      BY <3>2, <3>3
    <3>4. CASE i # m
      <4>1. i \in 0..(m - 1)
        BY <1>2, <3>4
      <4> QED  BY <2>3, <3>2, <4>1
    <3> QED  BY <3>3, <3>4
  <2>5. f = [i \in 0..m |-> f[i]]
    OBVIOUS
  <2> HIDE DEF f
  <2>6. Runs(f, s, t, m)
    BY <2>4, <2>5 DEF Runs
  <2> QED  BY <1>2, <2>6
<1> QED  BY <1>3, <1>4

LEMMA RecentRuns ==
  ASSUME NEW s \in Seq(Nat), NEW t
  PROVE  \E f : /\ \A i \in 0..Len(s) : f[i] = Kept(f, s, t, i)
                /\ Recent(s, t) = f[Len(s)]
<1> DEFINE f == CHOOSE f : Runs(f, s, t, Len(s))
<1>1. Len(s) \in Nat
  OBVIOUS
<1>2. Runs(f, s, t, Len(s))
  BY <1>1, LoopRuns
<1>3. Recent(s, t) = f[Len(s)]
  BY DEF Recent, Runs, Kept
<1> HIDE DEF f
<1>4. \A i \in 0..Len(s) : f[i] = Kept(f, s, t, i)
  BY <1>2 DEF Runs
<1> QED  BY <1>3, <1>4

-----------------------------------------------------------------------------
(* The window of failures: the invariant *)

InOrder(s) == \A i, j \in 1..Len(s) : i <= j => s[i] <= s[j]

\* e is s without its first d times, which are no later than c; the others are later.
Trimmed(s, e, d, c) ==
  /\ d \in 0..Len(s) /\ Len(e) = Len(s) - d
  /\ \A i \in 1..Len(e) : e[i] = s[d + i]
  /\ \A i \in 1..d : s[i] <= c
  /\ \A i \in (d + 1)..Len(s) : s[i] > c

\* What is left of the failures of a key is what the window before the newest leaves.
WindowOf(k) ==
  LET s == failures[k]
      e == events[k]
  IN  /\ InOrder(s)
      /\ \A i \in 1..Len(s) : s[i] <= clock
      /\ IF s = <<>> THEN e = <<>>
         ELSE \E d \in 0..Len(s) : Trimmed(s, e, d, s[Len(s)] - Window)
      /\ triggered[k] <=> s # <<>> /\ Len(e) >= Threshold

WindowInv ==
  /\ clock \in Nat
  /\ events \in [Key -> Seq(Nat)] /\ failures \in [Key -> Seq(Nat)]
  /\ triggered \in [Key -> BOOLEAN]
  /\ \A k \in Key : WindowOf(k)

\* After i rounds the loop holds the first i times without the late ones before them.
Sofar(s, f, i, c) ==
  /\ f[i] \in Seq(Nat)
  /\ \E d \in 0..i : /\ Len(f[i]) = i - d
                     /\ \A j \in 1..(i - d) : f[i][j] = s[d + j]
                     /\ \A j \in 1..d : s[j] <= c
                     /\ \A j \in (d + 1)..i : s[j] > c

LEMMA NextRound ==
  ASSUME NEW s \in Seq(Nat), InOrder(s), NEW t \in Nat, NEW f,
         NEW i \in 1..Len(s), f[i] = Kept(f, s, t, i), Sofar(s, f, i - 1, t - Window)
  PROVE  Sofar(s, f, i, t - Window)
<1> DEFINE c == t - Window
           g == f[i - 1]
<1>1. /\ i \in Nat \ {0} /\ Len(s) \in Nat /\ i <= Len(s) /\ c \in Int
      /\ s[i] \in Nat /\ \A j \in 1..Len(s) : s[j] \in Nat
  BY LimitsAssumption
<1>2. f[i] = IF s[i] > c THEN Append(g, s[i]) ELSE g
  BY <1>1 DEF Kept
<1>3. g \in Seq(Nat)
  BY DEF Sofar
<1>4. PICK d \in 0..(i - 1) : /\ Len(g) = i - 1 - d
                              /\ \A j \in 1..(i - 1 - d) : g[j] = s[d + j]
                              /\ \A j \in 1..d : s[j] <= c
                              /\ \A j \in (d + 1)..(i - 1) : s[j] > c
  BY DEF Sofar
<1> HIDE DEF c, g
<1>5. CASE s[i] > c
  <2>1. /\ f[i] = Append(g, s[i]) /\ f[i] \in Seq(Nat) /\ Len(f[i]) = i - d
        /\ f[i][i - d] = s[i] /\ \A j \in 1..(i - 1 - d) : f[i][j] = g[j]
    BY <1>1, <1>2, <1>3, <1>4, <1>5, SMTT(30)
  <2>2. ASSUME NEW j \in 1..(i - d) PROVE f[i][j] = s[d + j]
    <3>1. CASE j = i - d
      <4>1. d + j = i
        BY <1>1, <1>4, <3>1
      <4> QED  BY <2>1, <3>1, <4>1
    <3>2. CASE j # i - d
      <4>1. j \in 1..(i - 1 - d)
        BY <1>1, <1>4, <3>2
      <4> QED  BY <1>4, <2>1, <4>1
    <3> QED  BY <3>1, <3>2
  <2>3. ASSUME NEW j \in (d + 1)..i PROVE s[j] > c
    <3>1. j = i \/ j \in (d + 1)..(i - 1)
      BY <1>1, <1>4
    <3> QED  BY <1>4, <1>5, <3>1
  <2>4. d \in 0..i
    BY <1>1, <1>4
  <2> QED  BY <1>4, <2>1, <2>2, <2>3, <2>4 DEF Sofar, c
<1>6. CASE ~(s[i] > c)
  \* The times are in order: the earlier ones are late too.
  <2>1. ASSUME NEW j \in 1..i PROVE s[j] <= c
    <3>1. j \in 1..Len(s) /\ i \in 1..Len(s) /\ j <= i
      BY <1>1
    <3>2. s[j] <= s[i] /\ s[j] \in Nat
      BY <1>1, <3>1 DEF InOrder
    <3> QED  BY <1>1, <1>6, <3>2
  <2>2. d = i - 1
    <3>1. ASSUME d # i - 1 PROVE FALSE
      <4>1. i - 1 \in (d + 1)..(i - 1) /\ i - 1 \in 1..i
        BY <1>1, <1>4, <3>1
      <4>2. s[i - 1] > c /\ s[i - 1] <= c /\ i - 1 \in 1..Len(s)
        BY <1>1, <1>4, <2>1, <4>1
      <4> QED  BY <1>1, <4>2
    <3> QED  BY <3>1
  <2>3. f[i] = g /\ Len(f[i]) = i - i
    BY <1>1, <1>2, <1>4, <1>6, <2>2
  <2>4. i \in 0..i /\ 1..(i - i) = {} /\ (i + 1)..i = {}
    BY <1>1
  <2> QED  BY <1>3, <2>1, <2>3, <2>4 DEF Sofar, c
<1> QED  BY <1>5, <1>6

\* What the loop keeps of a list in order of time is the list from some place on.
LEMMA RecentTrims ==
  ASSUME NEW s \in Seq(Nat), InOrder(s), NEW t \in Nat
  PROVE  /\ Recent(s, t) \in Seq(Nat)
         /\ \E d \in 0..Len(s) : Trimmed(s, Recent(s, t), d, t - Window)
<1>1. PICK f : /\ \A i \in 0..Len(s) : f[i] = Kept(f, s, t, i)
               /\ Recent(s, t) = f[Len(s)]
  BY RecentRuns
<1> DEFINE c == t - Window
           Off == {i \in 0..Len(s) : ~Sofar(s, f, i, c)}
<1>2. Len(s) \in Nat
  OBVIOUS
<1>3. Off = {}
  <2> SUFFICES ASSUME Off # {} PROVE FALSE
    OBVIOUS
  <2>1. PICK i \in Off : \A j \in Off : i <= j
    <3>1. Off \subseteq Nat
      BY <1>2
    <3> HIDE DEF Off
    <3> QED  BY <3>1, LeastExists
  <2>2. i \in 0..Len(s) /\ ~Sofar(s, f, i, c)
    OBVIOUS
  <2>3. i # 0
    <3>1. f[0] = <<>>
      BY <1>1, <1>2 DEF Kept
    <3>2. 0 \in 0..0 /\ Len(<<>>) = 0 - 0 /\ 1..(0 - 0) = {} /\ 1..0 = {} /\ (0 + 1)..0 = {}
          /\ <<>> \in Seq(Nat)
      OBVIOUS
    <3>3. Sofar(s, f, 0, c)
      BY <3>1, <3>2 DEF Sofar
    <3> QED  BY <2>2, <3>3
  <2>4. i \in 1..Len(s) /\ i - 1 \in 0..Len(s) /\ i - 1 \notin Off
    BY <1>2, <2>1, <2>2, <2>3
  <2>5. Sofar(s, f, i - 1, t - Window)
    BY <2>4
  <2>6. Sofar(s, f, i, t - Window)
    BY <1>1, <2>2, <2>4, <2>5, NextRound
  <2> QED  BY <2>2, <2>6
<1>4. Sofar(s, f, Len(s), c)
  BY <1>2, <1>3
<1>5. PICK d \in 0..Len(s) : /\ Len(f[Len(s)]) = Len(s) - d
                             /\ \A j \in 1..(Len(s) - d) : f[Len(s)][j] = s[d + j]
                             /\ \A j \in 1..d : s[j] <= c
                             /\ \A j \in (d + 1)..Len(s) : s[j] > c
  BY <1>4 DEF Sofar
<1>6. Trimmed(s, Recent(s, t), d, t - Window)
  BY <1>1, <1>5 DEF Trimmed
<1> QED  BY <1>1, <1>4, <1>6 DEF Sofar

LEMMA TrimmedInOrder ==
  ASSUME NEW s \in Seq(Nat), InOrder(s), NEW e \in Seq(Nat), NEW d \in 0..Len(s), NEW c,
         Trimmed(s, e, d, c)
  PROVE  InOrder(e)
<1> SUFFICES ASSUME NEW i \in 1..Len(e), NEW j \in 1..Len(e), i <= j
             PROVE  e[i] <= e[j]
  BY DEF InOrder
<1>1. /\ Len(e) = Len(s) - d /\ e[i] = s[d + i] /\ e[j] = s[d + j]
      /\ Len(s) \in Nat /\ Len(e) \in Nat
  BY DEF Trimmed
<1>2. i \in Nat /\ j \in Nat /\ d \in Nat /\ 1 <= i /\ i <= j /\ j <= Len(e)
  BY <1>1, SMTT(30)
<1>3. d + i \in 1..Len(s) /\ d + j \in 1..Len(s) /\ d + i <= d + j
  <2>1. d + j <= Len(s) /\ 1 <= d + i /\ d + i <= d + j /\ d + i \in Nat /\ d + j \in Nat
    BY <1>1, <1>2
  <2> QED  BY <1>1, <2>1
<1> QED  BY <1>1, <1>3 DEF InOrder

\* Trimmed at one failure and again at the next is trimmed at once.
LEMMA TrimmedTwice ==
  ASSUME NEW s \in Seq(Nat), NEW e \in Seq(Nat), NEW r \in Seq(Nat), NEW t \in Nat,
         NEW b \in Int, b <= t - Window,
         NEW d \in 0..Len(s), Trimmed(s, e, d, b),
         NEW n \in 0..Len(e), Trimmed(e, r, n, t - Window)
  PROVE  Trimmed(Append(s, t), Append(r, t), d + n, t - Window)
<1> DEFINE c == t - Window
           st == Append(s, t)
           rt == Append(r, t)
<1>1. /\ Len(s) \in Nat /\ Len(e) = Len(s) - d /\ Len(r) = Len(e) - n
      /\ c \in Int /\ t > c /\ Window \in Nat
  BY LimitsAssumption DEF Trimmed
<1>2. /\ Len(st) = Len(s) + 1 /\ st[Len(s) + 1] = t /\ \A i \in 1..Len(s) : st[i] = s[i]
      /\ Len(rt) = Len(r) + 1 /\ rt[Len(r) + 1] = t /\ \A i \in 1..Len(r) : rt[i] = r[i]
  OBVIOUS
<1>3. /\ \A i \in 1..Len(e) : e[i] = s[d + i] /\ d + i \in 1..Len(s)
      /\ \A i \in 1..Len(r) : r[i] = e[n + i] /\ n + i \in 1..Len(e)
      /\ \A i \in 1..d : s[i] <= b
      /\ \A i \in 1..n : e[i] <= c
      /\ \A i \in (n + 1)..Len(e) : e[i] > c
  BY <1>1 DEF Trimmed
<1>4. \A i \in 1..Len(s) : s[i] \in Nat
  OBVIOUS
<1>a. b <= c
  OBVIOUS
<1> HIDE DEF c, st, rt
<1>5. d + n \in 0..Len(st) /\ Len(rt) = Len(st) - (d + n)
  BY <1>1, <1>2
<1>6. ASSUME NEW i \in 1..Len(rt) PROVE rt[i] = st[d + n + i]
  <2>1. CASE i \in 1..Len(r)
    <3>1. rt[i] = e[n + i] /\ n + i \in 1..Len(e)
      BY <1>2, <1>3, <2>1
    <3>2. e[n + i] = s[d + (n + i)] /\ d + (n + i) \in 1..Len(s) /\ d + (n + i) = d + n + i
      BY <1>1, <1>3, <3>1
    <3> QED  BY <1>2, <3>1, <3>2
  <2>2. CASE i = Len(r) + 1
    <3>1. d + n + i = Len(s) + 1
      BY <1>1, <2>2
    <3> QED  BY <1>2, <2>2, <3>1
  <2> QED  BY <1>1, <1>2, <2>1, <2>2, SMTT(30)
<1>7. ASSUME NEW i \in 1..(d + n) PROVE st[i] <= c
  <2>0. i \in 1..Len(s)
    BY <1>1
  <2>1. CASE i \in 1..d
    <3>1. s[i] <= b /\ st[i] = s[i] /\ s[i] \in Nat
      BY <1>2, <1>3, <1>4, <2>0, <2>1
    <3> QED  BY <1>1, <1>a, <3>1, SMTT(30)
  <2>2. CASE i \notin 1..d
    <3>1. i - d \in 1..n /\ i - d \in 1..Len(e) /\ d + (i - d) = i
      BY <1>1, <2>2
    <3> QED  BY <1>2, <1>3, <2>0, <3>1
  <2> QED  BY <2>1, <2>2
<1>8. ASSUME NEW i \in (d + n + 1)..Len(st) PROVE st[i] > c
  <2>1. CASE i = Len(s) + 1
    BY <1>1, <1>2, <2>1
  <2>2. CASE i # Len(s) + 1
    <3>1. i \in 1..Len(s) /\ i - d \in (n + 1)..Len(e) /\ i - d \in 1..Len(e) /\ d + (i - d) = i
      BY <1>1, <1>2, <2>2, SMTT(30)
    <3> QED  BY <1>2, <1>3, <3>1
  <2> QED  BY <2>1, <2>2
<1> QED  BY <1>5, <1>6, <1>7, <1>8 DEF Trimmed, st, rt, c

-----------------------------------------------------------------------------
(* The window of failures: the steps *)

LEMMA InOrderGrows ==
  ASSUME NEW s \in Seq(Nat), InOrder(s), NEW t \in Nat, \A i \in 1..Len(s) : s[i] <= t
  PROVE  InOrder(Append(s, t)) /\ \A i \in 1..Len(Append(s, t)) : Append(s, t)[i] <= t
<1> DEFINE st == Append(s, t)
           n == Len(s)
<1>1. /\ n \in Nat /\ Len(st) = n + 1 /\ st[n + 1] = t
      /\ \A i \in 1..n : st[i] = s[i] /\ s[i] \in Nat
  OBVIOUS
<1> HIDE DEF st
<1>2. ASSUME NEW i \in 1..(n + 1) PROVE st[i] <= t
  <2>1. i \in 1..n \/ i = n + 1
    BY <1>1
  <2> QED  BY <1>1, <2>1
<1>3. ASSUME NEW i \in 1..(n + 1), NEW j \in 1..(n + 1), i <= j PROVE st[i] <= st[j]
  <2>1. CASE j = n + 1
    BY <1>1, <1>2, <2>1
  <2>2. CASE j # n + 1
    <3>1. i \in 1..n /\ j \in 1..n
      BY <1>1, <1>3, <2>2
    <3> QED  BY <1>1, <1>3, <3>1 DEF InOrder
  <2> QED  BY <2>1, <2>2
<1> QED  BY <1>1, <1>2, <1>3 DEF InOrder, st

LEMMA RecordWindow ==
  ASSUME WindowInv, NEW k \in Key, RecordFailure(k)
  PROVE  WindowOf(k)' /\ events'[k] \in Seq(Nat) /\ failures'[k] \in Seq(Nat)
<1> DEFINE s == failures[k]
           e == events[k]
           r == Recent(e, clock)
<1>1. /\ s \in Seq(Nat) /\ e \in Seq(Nat) /\ clock \in Nat /\ WindowOf(k)
      /\ events \in [Key -> Seq(Nat)] /\ failures \in [Key -> Seq(Nat)]
      /\ triggered \in [Key -> BOOLEAN] /\ Window \in Nat \ {0}
  BY LimitsAssumption DEF WindowInv
<1>2. /\ clock' = clock /\ failures'[k] = Append(s, clock) /\ events'[k] = Append(r, clock)
      /\ triggered'[k] <=> Len(Append(r, clock)) >= Threshold
  BY <1>1 DEF RecordFailure
<1>3. InOrder(s) /\ \A i \in 1..Len(s) : s[i] <= clock
  BY <1>1 DEF WindowOf
<1> HIDE DEF s, e, r
<1>4. InOrder(Append(s, clock)) /\ \A i \in 1..Len(Append(s, clock)) : Append(s, clock)[i] <= clock
  BY <1>1, <1>3, InOrderGrows
<1>5. Len(Append(s, clock)) = Len(s) + 1 /\ Append(s, clock)[Len(s) + 1] = clock
      /\ Append(s, clock) # <<>> /\ Append(s, clock) \in Seq(Nat)
  <2>1. /\ Len(s) \in Nat /\ Len(Append(s, clock)) = Len(s) + 1
        /\ Append(s, clock)[Len(s) + 1] = clock /\ Append(s, clock) \in Seq(Nat)
    BY <1>1
  <2>2. Len(Append(s, clock)) # 0 /\ Len(<<>>) = 0
    BY <2>1
  <2>3. Append(s, clock) # <<>>
    BY <2>2
  <2> QED  BY <2>1, <2>3
<1>6. r \in Seq(Nat) /\ \E d \in 0..(Len(s) + 1) :
        Trimmed(Append(s, clock), Append(r, clock), d, clock - Window)
  <2>1. CASE s = <<>>
    <3>1. e = <<>> /\ InOrder(<<>>)
      BY <1>1, <2>1 DEF WindowOf, InOrder, s, e
    <3>2. <<>> \in Seq(Nat) /\ Len(<<>>) = 0 /\ 0..0 = {0} /\ 1..0 = {} /\ (0 + 1)..0 = {} /\ 0 - 0 = 0
      OBVIOUS
    <3>3. Trimmed(<<>>, <<>>, 0, clock - Window)
      BY <3>2 DEF Trimmed
    <3>4. r \in Seq(Nat) /\ \E d \in 0..Len(e) : Trimmed(e, r, d, clock - Window)
      BY <1>1, <3>1, RecentTrims DEF r
    <3>5. PICK n \in 0..Len(e) : Trimmed(e, r, n, clock - Window)
      BY <3>4
    <3>6. clock - Window \in Int /\ clock - Window <= clock - Window /\ 0 \in 0..Len(s)
      BY <1>1
    <3>7. Trimmed(Append(s, clock), Append(r, clock), 0 + n, clock - Window)
      BY <1>1, <2>1, <3>1, <3>3, <3>4, <3>5, <3>6, TrimmedTwice
    <3>8. 0 + n \in 0..(Len(s) + 1)
      BY <1>1, <2>1, <3>1
    <3> QED  BY <3>4, <3>7, <3>8
  <2>2. CASE s # <<>>
    <3> DEFINE b == s[Len(s)] - Window
    <3>1. PICK d \in 0..Len(s) : Trimmed(s, e, d, b)
      BY <1>1, <2>2 DEF WindowOf, s, e
    <3>2. Len(s) \in 1..Len(s) /\ s[Len(s)] \in Nat /\ s[Len(s)] <= clock
      BY <1>1, <1>3, <2>2
    <3>3. b \in Int /\ b <= clock - Window
      BY <1>1, <3>2
    <3> HIDE DEF b
    <3>4. InOrder(e)
      BY <1>1, <1>3, <3>1, TrimmedInOrder
    <3>5. r \in Seq(Nat) /\ \E n \in 0..Len(e) : Trimmed(e, r, n, clock - Window)
      BY <1>1, <3>4, RecentTrims DEF r
    <3>6. PICK n \in 0..Len(e) : Trimmed(e, r, n, clock - Window)
      BY <3>5
    <3>7. Trimmed(Append(s, clock), Append(r, clock), d + n, clock - Window)
      BY <1>1, <3>1, <3>3, <3>5, <3>6, TrimmedTwice
    <3>8. d + n \in 0..(Len(s) + 1)
      <4>1. Len(e) = Len(s) - d /\ Len(e) \in Nat /\ Len(s) \in Nat
        BY <1>1, <3>1 DEF Trimmed
      <4> QED  BY <4>1
    <3> QED  BY <3>5, <3>7, <3>8
  <2> QED  BY <2>1, <2>2
<1>7. Append(r, clock) \in Seq(Nat)
  BY <1>1, <1>6
<1>8. WindowOf(k)'
  BY <1>2, <1>4, <1>5, <1>6, ZenonT(30) DEF WindowOf, InOrder, Trimmed
<1> QED  BY <1>2, <1>5, <1>7, <1>8

LEMMA ResetWindow ==
  ASSUME WindowInv, NEW k \in Key, Reset(k)
  PROVE  WindowOf(k)' /\ events'[k] \in Seq(Nat) /\ failures'[k] \in Seq(Nat)
<1>1. failures'[k] = <<>> /\ events'[k] = <<>> /\ ~triggered'[k]
  BY DEF Reset, WindowInv
<1>2. <<>> \in Seq(Nat) /\ Len(<<>>) = 0 /\ 1..0 = {}
  OBVIOUS
<1> QED  BY <1>1, <1>2 DEF WindowOf, InOrder

\* A key that is left alone keeps its window while time passes.
LEMMA WindowUntouched ==
  ASSUME NEW k \in Key, WindowOf(k), clock \in Nat, clock' \in Nat, clock <= clock',
         failures[k] \in Seq(Nat),
         failures'[k] = failures[k], events'[k] = events[k], triggered'[k] = triggered[k]
  PROVE  WindowOf(k)'
<1>1. \A i \in 1..Len(failures[k]) : failures[k][i] \in Nat /\ failures[k][i] <= clock
  BY DEF WindowOf
<1>2. \A i \in 1..Len(failures[k]) : failures[k][i] <= clock'
  BY <1>1
<1> QED  BY <1>2 DEF WindowOf, InOrder, Trimmed

LEMMA NextWindow == WindowInv /\ [Next]_vars => WindowInv'
<1> SUFFICES ASSUME WindowInv, [Next]_vars PROVE WindowInv'
  OBVIOUS
<1>1. /\ clock \in Nat /\ events \in [Key -> Seq(Nat)] /\ failures \in [Key -> Seq(Nat)]
      /\ triggered \in [Key -> BOOLEAN] /\ \A k \in Key : WindowOf(k)
  BY DEF WindowInv
<1>2. ASSUME UNCHANGED windowVars, clock' \in Nat, clock <= clock'
      PROVE  WindowInv'
  <2>1. events' = events /\ failures' = failures /\ triggered' = triggered
    BY <1>2 DEF windowVars
  <2>2. ASSUME NEW k \in Key PROVE WindowOf(k)'
    BY <1>1, <1>2, <2>1, WindowUntouched
  <2> QED  BY <1>1, <1>2, <2>1, <2>2 DEF WindowInv
<1>3. CASE Tick
  BY <1>1, <1>2, <1>3 DEF Tick
<1>4. ASSUME NEW k \in Key, Allow(k) PROVE WindowInv'
  <2>1. UNCHANGED windowVars /\ clock' = clock
    BY <1>4 DEF Allow
  <2> QED  BY <1>1, <1>2, <2>1
<1>5. ASSUME NEW k \in Key, RecordFailure(k) \/ Reset(k) PROVE WindowInv'
  <2>1. WindowOf(k)' /\ events'[k] \in Seq(Nat) /\ failures'[k] \in Seq(Nat)
    BY <1>5, RecordWindow, ResetWindow
  <2>2. \E e, s, b : /\ events' = [events EXCEPT ![k] = e]
                     /\ failures' = [failures EXCEPT ![k] = s]
                     /\ triggered' = [triggered EXCEPT ![k] = b] /\ b \in BOOLEAN
                     /\ clock' = clock
    <3>1. CASE RecordFailure(k)
      <4> DEFINE r == Append(Recent(events[k], clock), clock)
                 b == Len(r) >= Threshold
      <4>1. /\ events' = [events EXCEPT ![k] = r] /\ triggered' = [triggered EXCEPT ![k] = b]
            /\ failures' = [failures EXCEPT ![k] = Append(failures[k], clock)]
            /\ clock' = clock
        BY <3>1 DEF RecordFailure
      <4>2. b \in BOOLEAN
        OBVIOUS
      <4> HIDE DEF r, b
      <4> QED  BY <4>1, <4>2
    <3>2. CASE Reset(k)
      BY <3>2 DEF Reset
    <3> QED  BY <1>5, <3>1, <3>2
  <2>3. /\ events' \in [Key -> Seq(Nat)] /\ failures' \in [Key -> Seq(Nat)]
        /\ triggered' \in [Key -> BOOLEAN] /\ clock' \in Nat /\ clock <= clock'
    BY <1>1, <2>1, <2>2
  <2>4. ASSUME NEW j \in Key, j # k PROVE WindowOf(j)'
    <3>1. failures'[j] = failures[j] /\ events'[j] = events[j] /\ triggered'[j] = triggered[j]
      BY <1>1, <2>2, <2>4
    <3> QED  BY <1>1, <2>3, <3>1, WindowUntouched
  <2> QED  BY <2>1, <2>3, <2>4 DEF WindowInv
<1>6. CASE UNCHANGED vars
  BY <1>1, <1>2, <1>6 DEF vars
<1> QED  BY <1>3, <1>4, <1>5, <1>6 DEF Next

LEMMA InitWindow == Init => WindowInv
<1> SUFFICES ASSUME Init PROVE WindowInv
  OBVIOUS
<1>1. <<>> \in Seq(Nat) /\ Len(<<>>) = 0 /\ 1..0 = {}
  OBVIOUS
<1>2. \A k \in Key : WindowOf(k)
  BY <1>1 DEF Init, WindowOf, InOrder
<1> QED  BY <1>1, <1>2 DEF Init, WindowInv

-----------------------------------------------------------------------------
LEMMA WindowHolds == Spec => []WindowInv
BY InitWindow, NextWindow, PTL DEF Spec

\* Both counters keep their types, and no bucket is overdrawn or overfull.
THEOREM LimitsTypes == Spec => []TypeOK
<1>1. BucketInv /\ WindowInv => TypeOK
  BY DEF BucketInv, KeyInv, Typed, WindowInv, TypeOK
<1> QED  BY <1>1, BucketSafe, WindowHolds, PTL

\* For every window and threshold and every sequence of failures, successes and pauses:
\* a burst is reported exactly when enough failures since the last success lie within
\* the window before the newest, as if none had ever been trimmed (bruteforce.go:36-54).
THEOREM BurstsReported == Spec => []BurstExactlyReported
<1>1. WindowInv => BurstExactlyReported
  <2> SUFFICES ASSUME WindowInv, NEW k \in Key
               PROVE  LET s == failures[k] IN
                      triggered[k] <=>
                        /\ s # <<>>
                        /\ Cardinality({i \in 1..Len(s) : s[Len(s)] - s[i] < Window})
                             >= Threshold
    BY DEF BurstExactlyReported
  <2> DEFINE s == failures[k]
             e == events[k]
             n == Len(s)
             Counted == {i \in 1..n : s[n] - s[i] < Window}
  <2>1. s \in Seq(Nat) /\ WindowOf(k) /\ n \in Nat /\ Window \in Nat
    BY LimitsAssumption DEF WindowInv
  <2>2. triggered[k] <=> s # <<>> /\ Len(e) >= Threshold
    BY <2>1 DEF WindowOf
  <2>3. ASSUME s # <<>> PROVE Cardinality(Counted) = Len(e)
    <3>1. PICK d \in 0..n : Trimmed(s, e, d, s[n] - Window)
      BY <2>1, <2>3 DEF WindowOf
    <3>2. n \in 1..n /\ \A i \in 1..n : s[i] \in Nat
      BY <2>1, <2>3
    <3>3. ASSUME NEW i \in 1..n PROVE s[n] - s[i] < Window <=> i \in (d + 1)..n
      <4>1. i \in 1..d \/ i \in (d + 1)..n
        BY <2>1
      <4>2. i \in 1..d => s[i] <= s[n] - Window
        BY <3>1 DEF Trimmed
      <4>3. i \in (d + 1)..n => s[i] > s[n] - Window
        BY <3>1 DEF Trimmed
      <4>4. s[i] \in Nat /\ s[n] \in Nat
        BY <3>2
      <4>5. i \in 1..d => ~(i \in (d + 1)..n)
        BY <2>1
      <4> QED  BY <2>1, <4>1, <4>2, <4>3, <4>4, <4>5
    <3>4. Counted = (d + 1)..n
      <4>1. (d + 1)..n \subseteq 1..n
        BY <2>1
      <4> QED  BY <3>3, <4>1
    <3>5. Cardinality((d + 1)..n) = IF d + 1 > n THEN 0 ELSE n - (d + 1) + 1
      <4>1. d + 1 \in Int /\ n \in Int
        BY <2>1
      <4> QED  BY <4>1, FS_Interval
    <3>6. Len(e) = n - d
      BY <3>1 DEF Trimmed
    <3> HIDE DEF s, e, n, Counted
    <3>7. (IF d + 1 > n THEN 0 ELSE n - (d + 1) + 1) = n - d
      BY <2>1
    <3> QED  BY <3>4, <3>5, <3>6, <3>7
  <2> QED  BY <2>2, <2>3
<1> QED  BY <1>1, WindowHolds, PTL

=============================================================================
