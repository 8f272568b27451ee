------------------------ MODULE RangeSamplingProofs ------------------------
(* Proofs about `random_range`, for words of any size and any draw budget. *)
EXTENDS RangeSampling, FiniteSetTheorems, TLAPS

(* What remains of n after division by d is less than d. *)
LEMMA Remainder ==
    ASSUME NEW n \in Nat, NEW d \in Nat \ {0}
    PROVE  /\ n % d \in 0 .. d - 1
           /\ n % d <= n
           /\ n \div d \in Nat
           /\ n = d * (n \div d) + (n % d)
OBVIOUS

(* A multiple of d leaves nothing. *)
LEMMA MultipleRemainder ==
    ASSUME NEW q \in Nat, NEW d \in Nat \ {0}
    PROVE  (d * q) % d = 0
OBVIOUS

(* The bounds of a call that draws make a range of words. *)
CallInv == TypeOK /\ InRange /\ (outcome = "drawing" => start < end /\ draws < MaxSamples)

(* A range that is not empty has a positive number of values, all words. *)
LEMMA SpanIsPositive ==
    ASSUME TypeOK, start < end
    PROVE  Span \in 1 .. Size - 1
BY SamplingAssumption DEF TypeOK, Words, Span

(* The threshold is what remains of the words, and less than the range. *)
LEMMA ThresholdType ==
    ASSUME TypeOK, start < end
    PROVE  /\ Threshold = (Size - Span) % Span
           /\ Threshold \in 0 .. Span - 1
           /\ Threshold <= Size - Span
<1>1. Span \in 1 .. Size - 1 /\ Size \in Nat \ {0}
  BY SpanIsPositive, SamplingAssumption
<1> HIDE DEF Span
<1>2. Size - Span \in 1 .. Size - 1
  BY <1>1
<1>3. \A n \in 1 .. Size - 1 : n % Size = n
  BY <1>1
<1>4. Threshold = (Size - Span) % Span
  BY <1>2, <1>3 DEF Threshold, WrappingNeg
<1>5. Span \in Nat \ {0} /\ Size - Span \in Nat
  BY <1>1, <1>2
<1>6. /\ (Size - Span) % Span \in 0 .. Span - 1
      /\ (Size - Span) % Span <= Size - Span
  BY <1>5, Remainder
<1> QED
  BY <1>4, <1>6

(* Both parts of EvenDeal, for one range. *)
LEMMA Deal ==
    ASSUME TypeOK, start < end
    PROVE  (Size - Threshold) % Span = 0 /\ 2 * Threshold < Size
<1>1. Span \in Nat \ {0} /\ Size \in Nat \ {0} /\ Size - Span \in Nat
  BY SpanIsPositive, SamplingAssumption
<1>2. /\ Threshold = (Size - Span) % Span
      /\ Threshold \in 0 .. Span - 1
      /\ Threshold <= Size - Span
  BY ThresholdType
<1> HIDE DEF Span, Threshold
<1>3. 2 * Threshold < Size
  BY <1>1, <1>2
<1> DEFINE q == (Size - Span) \div Span
<1>4. q \in Nat /\ Size - Span = Span * q + Threshold
  BY <1>1, <1>2, Remainder
<1> HIDE DEF q
<1>5. Span * (q + 1) = Span * q + Span /\ Span * q \in Int
  BY <1>1, <1>4
<1>6. Size - Threshold = Span * (q + 1)
  BY <1>1, <1>2, <1>4, <1>5
<1>7. q + 1 \in Nat
  BY <1>4
<1> QED
  BY <1>1, <1>3, <1>6, <1>7, MultipleRemainder

(* Of the m * d numbers from t on m leave any one remainder by d: they are d  *)
(* apart.                                                                   *)
LEMMA EqualShares ==
    ASSUME NEW d \in Nat \ {0}, NEW t \in 0 .. d - 1, NEW m \in Nat, NEW r \in 0 .. d - 1,
           NEW S, \A w : w \in S <=> w \in t .. t + d * m - 1 /\ w % d = r
    PROVE  Cardinality(S) = m
<1> DEFINE lo == IF r >= t THEN 0 ELSE 1
           f == [k \in 1 .. m |-> d * (lo + k - 1) + r]
<1>1. d * m \in Nat /\ \A j \in Nat : d * j \in Nat /\ (d * j + r) % d = r
  OBVIOUS
<1>2. \A i, j \in Nat : i < j => d * i + d <= d * j
  <2> TAKE i, j \in Nat
  <2>1. d * (j - i) = d * j - d * i /\ (j - i >= 1 => d * (j - i) >= d)
    OBVIOUS
  <2> QED
    BY <2>1
<1>3. \A k \in 1 .. m : f[k] \in S
  <2> TAKE k \in 1 .. m
  <2> DEFINE j == lo + k - 1
  <2>1. j \in Nat /\ (r >= t => j < m) /\ (r < t => 0 < j /\ j < m + 1)
    OBVIOUS
  <2> HIDE DEF j
  <2>2. r >= t => d * j + d <= d * m
    BY <1>2, <2>1
  <2>3. r < t => d * 0 + d <= d * j /\ d * j + d <= d * (m + 1)
    BY <1>2, <2>1
  <2>4. d * (m + 1) = d * m + d /\ d * 0 = 0 /\ d * j \in Nat
    BY <1>1, <2>1
  <2>5. d * j + r >= t /\ d * j + r <= t + d * m - 1
    BY <1>1, <2>2, <2>3, <2>4
  <2>6. d * j + r \in t .. t + d * m - 1 /\ (d * j + r) % d = r
    BY <1>1, <2>1, <2>4, <2>5
  <2> QED
    BY <2>6 DEF j
<1>4. \A k, l \in 1 .. m : f[k] = f[l] => k = l
  <2> TAKE k, l \in 1 .. m
  <2>1. lo + k - 1 \in Nat /\ lo + l - 1 \in Nat
    OBVIOUS
  <2>2. k < l => f[k] + d <= f[l]
    BY <1>1, <1>2, <2>1
  <2>3. l < k => f[l] + d <= f[k]
    BY <1>1, <1>2, <2>1
  <2> QED
    BY <1>1, <2>1, <2>2, <2>3
<1>5. \A w \in S : \E k \in 1 .. m : f[k] = w
  <2> TAKE w \in S
  <2> DEFINE j == w \div d
  <2>0. w \in t .. t + d * m - 1 /\ w % d = r
    OBVIOUS
  <2>1. j \in Nat /\ w = d * j + r /\ w \in Nat /\ w >= t /\ w < t + d * m
    BY <1>1, <2>0, Remainder
  <2> HIDE DEF j
  <2>2. CASE r >= t
    <3>1. ~ (m <= j)
      <4>1. m < j => d * m + d <= d * j
        BY <1>2, <2>1
      <4> QED
        BY <1>1, <2>1, <2>2, <4>1
    <3> QED
      BY <2>1, <2>2, <3>1
  <2>3. CASE r < t
    <3>1. j # 0
      BY <2>1, <2>3
    <3>2. ~ (m < j - 1 \/ m = j - 1)
      <4>1. m < j - 1 \/ m = j - 1 => d * m + d <= d * j
        BY <1>2, <2>1
      <4> QED
        BY <1>1, <2>1, <2>3, <4>1
    <3> QED
      BY <2>1, <2>3, <3>1, <3>2
  <2> QED
    BY <2>2, <2>3
<1> HIDE DEF f
<1>6. f \in [1 .. m -> S]
  BY <1>3 DEF f
<1>7. f \in Bijection(1 .. m, S)
  BY <1>4, <1>5, <1>6 DEF Bijection, Injection, Surjection, IsInjective
<1> QED
  BY <1>7, FS_CountingElements DEF ExistsBijection

(* The words that give a value are those that leave its distance from start. *)
LEMMA WordsShared ==
    ASSUME TypeOK, start < end, NEW v \in start .. end - 1
    PROVE  Cardinality(WordsFor(v)) * Span = Size - Threshold
<1>1. Span \in Nat \ {0} /\ Size \in Nat \ {0} /\ Size - Span \in Nat
  BY SpanIsPositive, SamplingAssumption
<1>2. /\ Threshold = (Size - Span) % Span
      /\ Threshold \in 0 .. Span - 1
  BY ThresholdType
<1>3. v - start \in 0 .. Span - 1 /\ start \in Nat
  BY DEF TypeOK, Words, Span
<1> HIDE DEF Span, Threshold
<1> DEFINE m == (Size - Span) \div Span + 1
<1>4. m \in Nat /\ Size - Threshold = Span * m
  <2>1. (Size - Span) \div Span \in Nat /\ Size - Span = Span * ((Size - Span) \div Span) + Threshold
    BY <1>1, <1>2, Remainder
  <2>2. Span * m = Span * ((Size - Span) \div Span) + Span
    BY <1>1, <2>1
  <2> QED
    BY <1>1, <1>2, <2>1, <2>2
<1> HIDE DEF m
<1>5. \A w : w \in WordsFor(v) <=> w \in Threshold .. Threshold + Span * m - 1 /\ w % Span = v - start
  <2>1. Words = 0 .. Threshold + Span * m - 1
    BY <1>1, <1>2, <1>4 DEF Words
  <2>2. \A w \in Words : Returned(w) = v <=> w % Span = v - start
    <3>1. \A w \in Words : w % Span \in Int
      BY <1>1 DEF Words
    <3> QED
      BY <1>3, <3>1 DEF Returned
  <2>3. \A w : w \in Words /\ w >= Threshold <=> w \in Threshold .. Threshold + Span * m - 1
    BY <1>1, <1>2, <1>4, <2>1
  <2> QED
    BY <2>2, <2>3 DEF WordsFor
<1>6. Cardinality(WordsFor(v)) = m
  <2> DEFINE r == v - start
             S == WordsFor(v)
  <2>1. r \in 0 .. Span - 1 /\ \A w : w \in S <=> w \in Threshold .. Threshold + Span * m - 1 /\ w % Span = r
    BY <1>3, <1>5, Zenon
  <2>2. Span \in Nat \ {0} /\ Threshold \in 0 .. Span - 1 /\ m \in Nat
    BY <1>1, <1>2, <1>4
  <2> HIDE DEF r, S
  <2>3. Cardinality(S) = m
    BY <2>1, <2>2, EqualShares
  <2> QED
    BY <2>3 DEF S
<1> QED
  BY <1>1, <1>4, <1>6

(* A call keeps to its range and its budget in every step ... *)
LEMMA CallStep ==
    ASSUME CallInv, [Next]_vars
    PROVE  CallInv'
<1> USE DEF CallInv
<1>1. ASSUME NEW s \in Words, NEW e \in Words, Call(s, e)
      PROVE  CallInv'
  BY <1>1, SamplingAssumption DEF Call, TypeOK, InRange, Outcomes
<1>2. ASSUME NEW word \in Words, Draw(word)
      PROVE  CallInv'
  <2>1. Span \in 1 .. Size - 1 /\ word \in Nat /\ start \in Nat /\ end \in Words
    BY <1>2, SpanIsPositive, SamplingAssumption DEF Draw, TypeOK, Words
  <2>2. word % Span \in 0 .. Span - 1
    BY <2>1, Remainder
  <2>3. Returned(word) \in start .. end - 1
    <3>1. \A s, r \in Int : r \in 0 .. (end - s) - 1 => s + r \in s .. end - 1
      BY <2>1 DEF Words
    <3>2. word % Span \in Int /\ word % Span \in 0 .. (end - start) - 1
      BY <2>2, <2>1 DEF Span
    <3> QED
      BY <2>1, <3>1, <3>2 DEF Returned
  <2>4. Returned(word) \in Words
    <3>1. start \in Nat /\ end \in 0 .. Size - 1 /\ Size \in Nat
      BY <2>1, SamplingAssumption DEF Words
    <3>2. \A v \in start .. end - 1 : v \in 0 .. Size - 1
      BY <3>1
    <3> QED
      BY <2>3, <3>2 DEF Words
  <2>5. draws + 1 \in 0 .. MaxSamples /\ draws' = draws + 1
    BY <1>2, SamplingAssumption DEF Draw, TypeOK
  <2>6. start' = start /\ end' = end /\ start < end
    BY <1>2 DEF Draw
  <2>7. CASE value' = Returned(word) /\ outcome' = "Ok"
    BY <2>3, <2>4, <2>5, <2>6, <2>7 DEF TypeOK, InRange, Outcomes
  <2>8. CASE draws + 1 < MaxSamples /\ UNCHANGED <<value, outcome>>
    BY <1>2, <2>5, <2>6, <2>8 DEF Draw, TypeOK, InRange
  <2>9. CASE outcome' = "RangeSamplingExhausted" /\ UNCHANGED value
    BY <2>5, <2>6, <2>9 DEF TypeOK, InRange, Outcomes
  <2> QED
    BY <1>2, <2>7, <2>8, <2>9 DEF Draw
<1>3. ASSUME NEW error \in Errors, DrawFails(error)
      PROVE  CallInv'
  BY <1>3, SamplingAssumption DEF DrawFails, TypeOK, InRange, Outcomes
<1>4. CASE UNCHANGED vars
  BY <1>4 DEF vars, TypeOK, InRange
<1> QED
  BY <1>1, <1>2, <1>3, <1>4 DEF Next, Drawing

(* ... and so in every behaviour. *)
LEMMA CallInvariant == Spec => []CallInv
<1>1. Init => CallInv
  BY SamplingAssumption DEF Init, CallInv, TypeOK, InRange, Words, Outcomes
<1> QED
  BY <1>1, CallStep, PTL DEF Spec

(* A returned value is a word of the range, for words of any size: the sum    *)
(* never wraps around.                                                      *)
THEOREM ValueInRange == Spec => [](TypeOK /\ InRange)
<1>1. CallInv => TypeOK /\ InRange
  BY DEF CallInv
<1> QED
  BY <1>1, CallInvariant, PTL

(* For words of any size and any range the rejection leaves a multiple of the *)
(* range's width, and rejects fewer words than it accepts.                  *)
THEOREM RejectionDealsEvenly == Spec => []EvenDeal
<1>1. CallInv => EvenDeal
  BY Deal DEF CallInv, EvenDeal
<1> QED
  BY <1>1, CallInvariant, PTL

(* Each value of the range is returned for the same number of the accepted    *)
(* words, for words of any size and any range.                              *)
THEOREM ValuesAreEquallyLikely == Spec => []Unbiased
<1>1. CallInv => Unbiased
  BY WordsShared DEF CallInv, Unbiased
<1> QED
  BY <1>1, CallInvariant, PTL
=============================================================================
