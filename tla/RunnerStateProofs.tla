------------------------- MODULE RunnerStateProofs -------------------------
(***************************************************************************)
(* What the methods of runnerState do to the set of idle runners and to    *)
(* its order.                                                              *)
(***************************************************************************)
EXTENDS RunnerState, SequenceTheorems, TLAPS

Increasing(s) == \A i, j \in 1 .. Len(s) : i < j => s[i] < s[j]

(* The elements of a sequence, by its indices. *)
LEMMA ToSetElements ==
  ASSUME NEW S \in SUBSET Nat, NEW s \in Seq(S)
  PROVE  /\ Len(s) \in Nat /\ DOMAIN s = 1 .. Len(s)
         /\ \A k \in 1 .. Len(s) : s[k] \in S /\ s[k] \in Nat /\ s[k] \in ToSet(s)
         /\ \A x \in ToSet(s) : \E k \in 1 .. Len(s) : x = s[k]
         /\ ToSet(s) \in SUBSET S
<1>1. /\ Len(s) \in Nat /\ DOMAIN s = 1 .. Len(s)
      /\ \A k \in 1 .. Len(s) : s[k] \in S
  BY LenProperties
<1>2. ToSet(s) = {s[k] : k \in 1 .. Len(s)}
  BY <1>1 DEF ToSet
<1> QED BY <1>1, <1>2

(* Cutting one element out of an increasing sequence removes that element   *)
(* and keeps the order.                                                     *)
LEMMA RemoveAtIncreasing ==
  ASSUME NEW S \in SUBSET Nat, NEW s \in Seq(S), Increasing(s), NEW i \in 1 .. Len(s)
  PROVE  /\ RemoveAt(s, i) \in Seq(S)
         /\ Increasing(RemoveAt(s, i))
         /\ ToSet(RemoveAt(s, i)) = ToSet(s) \ {s[i]}
<1> DEFINE t == RemoveAt(s, i)
<1>0. Len(s) \in Nat /\ \A k \in 1 .. Len(s) : s[k] \in S /\ s[k] \in Nat
  BY ToSetElements
<1>1. /\ Len(t) = Len(s) - 1
      /\ t \in Seq(S)
      /\ \A k \in 1 .. (i - 1) : t[k] = s[k]
      /\ \A k \in i .. (Len(s) - 1) : t[k] = s[k + 1]
  <2> DEFINE low == SubSeq(s, 1, i - 1)
             high == SubSeq(s, i + 1, Len(s))
  <2>1. /\ low \in Seq(S) /\ Len(low) = i - 1
        /\ \A k \in 1 .. (i - 1) : low[k] = s[k]
    <3>1. \A k \in 1 .. (i - 1) : s[k] \in S
      BY <1>0
    <3> QED BY <1>0, <3>1, SubSeqProperties
  <2>2. /\ high \in Seq(S) /\ Len(high) = Len(s) - i
        /\ \A k \in 1 .. (Len(s) - i) : high[k] = s[k + i]
    <3>1. \A k \in (i + 1) .. Len(s) : s[k] \in S
      BY <1>0
    <3>2. /\ high \in Seq(S)
          /\ Len(high) = IF i + 1 <= Len(s) THEN Len(s) - (i + 1) + 1 ELSE 0
          /\ \A k \in 1 .. (Len(s) - (i + 1) + 1) : high[k] = s[i + 1 + k - 1]
      BY <1>0, <3>1, SubSeqProperties
    <3>3. \A k \in 1 .. (Len(s) - i) : i + 1 + k - 1 = k + i
      BY <1>0
    <3>4. Len(s) - (i + 1) + 1 = Len(s) - i
      BY <1>0
    <3>5. Len(high) = Len(s) - i
      BY <1>0, <3>2
    <3>6. \A k \in 1 .. (Len(s) - i) : high[k] = s[k + i]
      BY <3>2, <3>3, <3>4
    <3> QED BY <3>2, <3>5, <3>6
  <2> HIDE DEF low, high
  <2>3. /\ low \o high \in Seq(S)
        /\ Len(low \o high) = Len(s) - 1
        /\ \A k \in 1 .. (Len(s) - 1) :
             (low \o high)[k] = IF k <= i - 1 THEN low[k] ELSE high[k - (i - 1)]
    <3>1. Len(low) + Len(high) = Len(s) - 1
      BY <1>0, <2>1, <2>2
    <3>2. /\ low \o high \in Seq(S)
          /\ Len(low \o high) = Len(low) + Len(high)
          /\ \A k \in 1 .. Len(low) + Len(high) :
               (low \o high)[k] = IF k <= Len(low) THEN low[k] ELSE high[k - Len(low)]
      BY <2>1, <2>2, ConcatProperties
    <3> QED BY <2>1, <3>1, <3>2
  <2>4. t = low \o high
    BY DEF RemoveAt, low, high
  <2>5. ASSUME NEW k \in 1 .. (i - 1) PROVE t[k] = s[k]
    BY <1>0, <2>1, <2>3, <2>4
  <2>6. ASSUME NEW k \in i .. (Len(s) - 1) PROVE t[k] = s[k + 1]
    <3>1. k \in 1 .. (Len(s) - 1) /\ ~(k <= i - 1) /\ k - (i - 1) \in 1 .. (Len(s) - i)
      BY <1>0
    <3>2. t[k] = high[k - (i - 1)]
      BY <2>3, <2>4, <3>1
    <3>3. (k - (i - 1)) + i = k + 1
      BY <1>0
    <3> QED BY <2>2, <3>1, <3>2, <3>3
  <2> QED BY <1>0, <2>3, <2>4, <2>5, <2>6, LenProperties
<1> HIDE DEF t
<1>2. Increasing(t)
  <2>1. ASSUME NEW m \in 1 .. (Len(s) - 1), NEW n \in 1 .. (Len(s) - 1), m < n
        PROVE  t[m] < t[n]
    <3>1. CASE n < i
      <4>1. t[m] = s[m] /\ t[n] = s[n]
        BY <1>0, <1>1, <2>1, <3>1
      <4>2. m \in 1 .. Len(s) /\ n \in 1 .. Len(s)
        BY <1>0
      <4> QED BY <2>1, <4>1, <4>2 DEF Increasing
    <3>2. CASE m < i /\ i <= n
      <4>1. t[m] = s[m] /\ t[n] = s[n + 1]
        BY <1>0, <1>1, <2>1, <3>2
      <4> QED BY <1>0, <2>1, <4>1 DEF Increasing
    <3>3. CASE i <= m
      <4>1. t[m] = s[m + 1] /\ t[n] = s[n + 1]
        BY <1>0, <1>1, <2>1, <3>3
      <4> QED BY <1>0, <2>1, <4>1 DEF Increasing
    <3> QED BY <1>0, <2>1, <3>1, <3>2, <3>3
  <2> QED BY <1>1, <2>1 DEF Increasing
<1>3. ASSUME NEW k \in 1 .. (Len(s) - 1)
      PROVE  \E j \in 1 .. Len(s) : t[k] = s[j] /\ s[j] # s[i]
  <2>1. CASE k < i
    <3>1. t[k] = s[k]
      BY <1>0, <1>1, <2>1
    <3>2. s[k] < s[i]
      BY <1>0, <2>1 DEF Increasing
    <3> QED BY <1>0, <3>1, <3>2
  <2>2. CASE ~(k < i)
    <3>1. t[k] = s[k + 1]
      BY <1>0, <1>1, <2>2
    <3>2. s[i] < s[k + 1]
      BY <1>0, <2>2 DEF Increasing
    <3> QED BY <1>0, <3>1, <3>2
  <2> QED BY <2>1, <2>2
<1>4. ASSUME NEW j \in 1 .. Len(s), s[j] # s[i]
      PROVE  \E k \in 1 .. (Len(s) - 1) : t[k] = s[j]
  <2>1. CASE j < i
    BY <1>0, <1>1, <2>1
  <2>2. CASE j > i
    <3>1. /\ j - 1 \in i .. (Len(s) - 1) /\ (j - 1) + 1 = j
          /\ j - 1 \in 1 .. (Len(s) - 1)
      BY <1>0, <2>2
    <3>2. t[j - 1] = s[j]
      BY <1>1, <3>1
    <3> QED BY <3>1, <3>2
  <2> QED BY <1>0, <1>4, <2>1, <2>2
<1>5. ToSet(t) = ToSet(s) \ {s[i]}
  <2>1. ASSUME NEW x \in ToSet(t) PROVE x \in ToSet(s) \ {s[i]}
    <3>1. PICK k \in 1 .. (Len(s) - 1) : x = t[k]
      BY <1>1, ToSetElements
    <3>2. PICK j \in 1 .. Len(s) : t[k] = s[j] /\ s[j] # s[i]
      BY <1>3
    <3> QED BY <3>1, <3>2, ToSetElements
  <2>2. ASSUME NEW x \in ToSet(s) \ {s[i]} PROVE x \in ToSet(t)
    <3>1. PICK j \in 1 .. Len(s) : x = s[j]
      BY ToSetElements
    <3>2. PICK k \in 1 .. (Len(s) - 1) : t[k] = s[j]
      BY <1>4, <3>1
    <3> QED BY <1>1, <3>1, <3>2, ToSetElements
  <2> QED BY <2>1, <2>2
<1> QED BY <1>1, <1>2, <1>5 DEF t

(* Appending an element above all others keeps the order. *)
LEMMA AppendIncreasing ==
  ASSUME NEW S \in SUBSET Nat, NEW s \in Seq(S), Increasing(s),
         NEW x \in S, \A y \in ToSet(s) : y < x
  PROVE  /\ Append(s, x) \in Seq(S)
         /\ Increasing(Append(s, x))
         /\ ToSet(Append(s, x)) = ToSet(s) \cup {x}
<1> DEFINE t == Append(s, x)
<1>0. Len(s) \in Nat /\ \A k \in 1 .. Len(s) : s[k] \in S /\ s[k] \in Nat /\ s[k] < x
  BY ToSetElements
<1>1. /\ t \in Seq(S) /\ Len(t) = Len(s) + 1
      /\ \A k \in 1 .. Len(s) : t[k] = s[k]
      /\ t[Len(s) + 1] = x
  OBVIOUS
<1> HIDE DEF t
<1>2. \A k \in 1 .. Len(t) : k \in 1 .. Len(s) \/ k = Len(s) + 1
  BY <1>0, <1>1
<1>3. Increasing(t)
  BY <1>0, <1>1, <1>2 DEF Increasing
<1>4. ToSet(t) = ToSet(s) \cup {x}
  <2>1. \A y \in ToSet(t) : y \in ToSet(s) \/ y = x
    <3> SUFFICES ASSUME NEW y \in ToSet(t) PROVE y \in ToSet(s) \/ y = x
      OBVIOUS
    <3>1. PICK k \in 1 .. Len(t) : y = t[k]
      BY <1>1, ToSetElements
    <3>2. CASE k \in 1 .. Len(s)
      BY <1>1, <3>1, <3>2, ToSetElements
    <3>3. CASE k = Len(s) + 1
      BY <1>1, <3>1, <3>3
    <3> QED BY <1>2, <3>2, <3>3
  <2>2. \A y \in ToSet(s) : y \in ToSet(t)
    BY <1>0, <1>1, ToSetElements
  <2>3. x \in ToSet(t)
    BY <1>0, <1>1, ToSetElements
  <2> QED BY <2>1, <2>2, <2>3
<1> QED BY <1>1, <1>3, <1>4 DEF t

(* Splitting an increasing sequence yields two, the first below the second. *)
LEMMA SplitIncreasing ==
  ASSUME NEW S \in SUBSET Nat, NEW s \in Seq(S), Increasing(s), NEW k \in 0 .. Len(s)
  PROVE  LET low == SubSeq(s, 1, k)  high == SubSeq(s, k + 1, Len(s))
         IN /\ low \in Seq(S) /\ high \in Seq(S)
            /\ Len(low) = k
            /\ Increasing(low) /\ Increasing(high)
            /\ ToSet(s) = ToSet(low) \cup ToSet(high)
            /\ \A x \in ToSet(low), y \in ToSet(high) : x < y
<1> DEFINE low == SubSeq(s, 1, k)
           high == SubSeq(s, k + 1, Len(s))
<1>0. Len(s) \in Nat /\ \A j \in 1 .. Len(s) : s[j] \in S /\ s[j] \in Nat
  BY ToSetElements
<1>1. /\ low \in Seq(S) /\ high \in Seq(S)
      /\ Len(low) = k /\ Len(high) = Len(s) - k
      /\ \A i \in 1 .. k : low[i] = s[i]
      /\ \A i \in 1 .. (Len(s) - k) : high[i] = s[i + k]
  OBVIOUS
<1> HIDE DEF low, high
<1>2. Increasing(low) /\ Increasing(high)
  <2>1. Increasing(low)
    BY <1>0, <1>1 DEF Increasing
  <2>2. Increasing(high)
    <3> SUFFICES ASSUME NEW i \in 1 .. (Len(s) - k), NEW j \in 1 .. (Len(s) - k), i < j
                 PROVE  high[i] < high[j]
      BY <1>1 DEF Increasing
    <3>1. i + k \in 1 .. Len(s) /\ j + k \in 1 .. Len(s) /\ i + k < j + k
      BY <1>0
    <3> QED BY <1>1, <3>1 DEF Increasing
  <2> QED BY <2>1, <2>2
<1>3. ASSUME NEW x \in ToSet(low)
      PROVE  \E i \in 1 .. k : x = s[i]
  BY <1>1, <1>3, ToSetElements
<1>4. ASSUME NEW y \in ToSet(high)
      PROVE  \E j \in 1 .. Len(s) : j > k /\ y = s[j]
  <2>1. PICK i \in 1 .. (Len(s) - k) : y = high[i]
    BY <1>1, ToSetElements
  <2>2. i + k \in 1 .. Len(s) /\ i + k > k
    BY <1>0
  <2> QED BY <1>1, <2>1, <2>2
<1>5. ASSUME NEW j \in 1 .. Len(s) PROVE s[j] \in ToSet(low) \cup ToSet(high)
  <2>1. CASE j <= k
    <3>1. j \in 1 .. k
      BY <1>0, <2>1
    <3>2. low[j] = s[j] /\ low[j] \in ToSet(low)
      BY <1>1, <3>1, ToSetElements
    <3> QED BY <3>2
  <2>2. CASE j > k
    <3>1. j - k \in 1 .. (Len(s) - k) /\ (j - k) + k = j
      BY <1>0, <2>2
    <3>2. high[j - k] = s[j]
      BY <1>1, <3>1
    <3>3. high[j - k] \in ToSet(high)
      BY <1>1, <3>1, ToSetElements
    <3> QED BY <3>2, <3>3
  <2>3. j \in Nat /\ k \in Nat
    BY <1>0
  <2> QED BY <2>1, <2>2, <2>3
<1>6. ToSet(s) = ToSet(low) \cup ToSet(high)
  <2>1. ToSet(low) \cup ToSet(high) \subseteq ToSet(s)
    <3>1. \A j \in 1 .. Len(s) : s[j] \in ToSet(s)
      BY ToSetElements
    <3>2. ToSet(low) \subseteq ToSet(s)
      BY <1>0, <1>3, <3>1
    <3>3. ToSet(high) \subseteq ToSet(s)
      BY <1>4, <3>1
    <3> QED BY <3>2, <3>3
  <2>2. ToSet(s) \subseteq ToSet(low) \cup ToSet(high)
    BY <1>5, ToSetElements
  <2> QED BY <2>1, <2>2
<1>7. ASSUME NEW x \in ToSet(low), NEW y \in ToSet(high) PROVE x < y
  <2>1. PICK i \in 1 .. k : x = s[i]
    BY <1>3
  <2>2. PICK j \in 1 .. Len(s) : j > k /\ y = s[j]
    BY <1>4
  <2> QED BY <1>0, <2>1, <2>2 DEF Increasing
<1> QED BY <1>1, <1>2, <1>6, <1>7 DEF low, high

(* Dropping the head of an increasing sequence removes just that element.   *)
LEMMA TailIncreasing ==
  ASSUME NEW S \in SUBSET Nat, NEW s \in Seq(S), Increasing(s), s # <<>>
  PROVE  /\ Head(s) \in S /\ Head(s) \in ToSet(s)
         /\ Tail(s) \in Seq(S)
         /\ Increasing(Tail(s))
         /\ ToSet(Tail(s)) = ToSet(s) \ {Head(s)}
<1>1. /\ Len(s) \in Nat /\ Len(s) >= 1 /\ 1 \in 1 .. Len(s)
      /\ Head(s) = s[1]
      /\ Tail(s) = RemoveAt(s, 1)
  <2>1. SubSeq(s, 1, 1 - 1) = <<>>
    OBVIOUS
  <2>2. Tail(s) = SubSeq(s, 2, Len(s))
    OBVIOUS
  <2> QED BY <2>1, <2>2 DEF RemoveAt
<1>2. s[1] \in S /\ s[1] \in ToSet(s)
  BY <1>1, ToSetElements
<1>3. /\ RemoveAt(s, 1) \in Seq(S)
      /\ Increasing(RemoveAt(s, 1))
      /\ ToSet(RemoveAt(s, 1)) = ToSet(s) \ {s[1]}
  BY <1>1, RemoveAtIncreasing
<1> QED BY <1>1, <1>2, <1>3
-----------------------------------------------------------------------------
(* What the methods do, as set equations.  They assume the order, which     *)
(* gives that a runner is idle at most once.                                *)

(* markBusy moves an idle runner to busy and ignores any other.             *)
LEMMA MarkBusyEffect ==
  ASSUME NEW S \in SUBSET Nat, idle \in Seq(S), Increasing(idle), NEW r, MarkBusy(r)
  PROVE  /\ idle' \in Seq(S) /\ Increasing(idle')
         /\ Idle' = Idle \ {r}
         /\ busy' = IF r \in Idle THEN busy \cup {r} ELSE busy
         /\ protected' = protected
<1>1. CASE r \in Idle
  <2>1. PICK i \in DOMAIN idle : idle[i] = r /\ idle' = RemoveAt(idle, i)
    BY <1>1 DEF MarkBusy
  <2>2. i \in 1 .. Len(idle)
    BY <2>1, ToSetElements
  <2>3. idle' \in Seq(S) /\ Increasing(idle') /\ ToSet(idle') = ToSet(idle) \ {r}
    BY <2>1, <2>2, RemoveAtIncreasing
  <2> QED BY <1>1, <2>3 DEF MarkBusy, Idle, runnerState
<1>2. CASE r \notin Idle
  <2>1. UNCHANGED runnerState
    BY <1>2, ToSetElements DEF MarkBusy, Idle
  <2> QED BY <1>2, <2>1 DEF Idle, runnerState
<1> QED BY <1>1, <1>2

(* takeOwnership leaves the runner neither idle nor busy.                   *)
LEMMA TakeOwnershipEffect ==
  ASSUME NEW S \in SUBSET Nat, idle \in Seq(S), Increasing(idle), Idle \cap busy = {},
         NEW r, TakeOwnership(r)
  PROVE  /\ idle' \in Seq(S) /\ Increasing(idle')
         /\ Idle' = Idle \ {r}
         /\ busy' = busy \ {r}
         /\ protected' = protected
<1>1. CASE r \in busy
  BY <1>1 DEF TakeOwnership, Owns, Idle
<1>2. CASE r \notin busy /\ r \in Idle
  <2>1. PICK i \in DOMAIN idle : idle[i] = r /\ idle' = RemoveAt(idle, i)
    BY <1>2 DEF TakeOwnership, Owns
  <2>2. i \in 1 .. Len(idle)
    BY <2>1, ToSetElements
  <2>3. idle' \in Seq(S) /\ Increasing(idle') /\ ToSet(idle') = ToSet(idle) \ {r}
    BY <2>1, <2>2, RemoveAtIncreasing
  <2> QED BY <1>2, <2>3 DEF TakeOwnership, Owns, Idle
<1>3. CASE ~Owns(r)
  <2>1. UNCHANGED runnerState
    BY <1>3, ToSetElements DEF TakeOwnership, Owns, Idle
  <2> QED BY <1>3, <2>1 DEF Owns, Idle, runnerState
<1> QED BY <1>1, <1>2, <1>3 DEF Owns

(* scaleDownIdle splits idle: what it returns is older than what stays.     *)
LEMMA ScaleDownIdleEffect ==
  ASSUME NEW S \in SUBSET Nat, idle \in Seq(S), Increasing(idle),
         NEW limit \in Int, ScaleDownIdle(limit)
  PROVE  /\ idle' \in Seq(S) /\ Increasing(idle')
         /\ OldestIdle(limit) \in Seq(S) /\ Increasing(OldestIdle(limit))
         /\ Len(OldestIdle(limit)) = Surplus(limit)
         /\ Surplus(limit) \in Nat
         /\ Idle = ToSet(OldestIdle(limit)) \cup Idle'
         /\ \A x \in ToSet(OldestIdle(limit)), y \in Idle' : x < y
         /\ busy' = busy /\ protected' = protected
<1> DEFINE k == Surplus(limit)
<1>1. Len(idle) \in Nat
  BY ToSetElements
<1>2. k \in 0 .. Len(idle)
  BY <1>1 DEF Surplus
<1> HIDE DEF k
<1>3. LET low == SubSeq(idle, 1, k)  high == SubSeq(idle, k + 1, Len(idle))
      IN /\ low \in Seq(S) /\ high \in Seq(S)
         /\ Len(low) = k
         /\ Increasing(low) /\ Increasing(high)
         /\ ToSet(idle) = ToSet(low) \cup ToSet(high)
         /\ \A x \in ToSet(low), y \in ToSet(high) : x < y
  BY <1>2, SplitIncreasing
<1>4. OldestIdle(limit) = SubSeq(idle, 1, k) /\ idle' = SubSeq(idle, k + 1, Len(idle))
  BY DEF OldestIdle, ScaleDownIdle, k
<1>5. k \in Nat
  BY <1>1, <1>2
<1>6. Len(OldestIdle(limit)) = Surplus(limit) /\ Surplus(limit) \in Nat
  BY <1>3, <1>4, <1>5 DEF k
<1> QED BY <1>3, <1>4, <1>6 DEF Idle, ScaleDownIdle

=============================================================================
