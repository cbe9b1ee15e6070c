-------------------------- MODULE RateLimiterProofs --------------------------
(***************************************************************************)
(* Theorems about RateLimiter, for every bucket, clock and pattern of      *)
(* calls.  The arithmetic is kept in lemmas over plain numbers.            *)
(***************************************************************************)
EXTENDS RateLimiter, TLAPS

(* What is refilled over two stretches is refilled over both.              *)
LEMMA Stretches ==
  ASSUME NEW c \in Nat, NEW x \in Int, NEW y \in Int, NEW z \in Int
  PROVE  c * (x - z) = c * (x - y) + c * (y - z)
OBVIOUS

(* Nothing is ever taken out of the bucket by a refill.                    *)
LEMMA RefillIsNat ==
  ASSUME NEW c \in Nat, NEW x \in Int, NEW y \in Int, y <= x
  PROVE  c * (x - y) \in Nat
<1>1. x - y \in Nat
  OBVIOUS
<1>2. \A d \in Nat : c * d \in Nat
  OBVIOUS
<1> QED
  BY <1>1, <1>2

(* A full bucket is some number of parts.                                  *)
LEMMA FullIsNat == Full \in Nat
BY RateAssumption DEF Full

(* One more grant is one more token.                                       *)
LEMMA OneMore ==
  ASSUME NEW g \in Int, NEW b \in Int, NEW s \in Int
  PROVE  ((g + 1) - b) * s = (g - b) * s + s
OBVIOUS

(* What was not granted and what fits in the bucket fit together.           *)
LEMMA Slack ==
  ASSUME NEW p \in Int, NEW r \in Int, NEW f \in Int, NEW q \in Nat,
         p <= 0, r <= f
  PROVE  p + r <= f + q
OBVIOUS

-----------------------------------------------------------------------------
(* After a refill at time now the bucket holds what it held plus what is   *)
(* due, and never more than a full bucket.                                 *)
LEMMA RefilledBounds ==
  ASSUME TypeOK
  PROVE  /\ Refilled \in 0..Full
         /\ Refilled <= tokens + Capacity * (now - lastRefill)
<1>1. Full \in Nat /\ tokens \in 0..Full /\ now \in Nat /\ lastRefill \in 0..now
  BY FullIsNat DEF TypeOK
<1>2. Capacity * (now - lastRefill) \in Nat
  BY <1>1, RefillIsNat, RateAssumption
<1> QED
  BY <1>1, <1>2 DEF Refilled, Uncapped

(* The variables keep their types: in particular the bucket never          *)
(* overflows and is never overdrawn.                                       *)
LEMMA NextTypeOK == TypeOK /\ [Next]_vars => TypeOK'
<1> SUFFICES ASSUME TypeOK, [Next]_vars PROVE TypeOK'
  OBVIOUS
<1> USE DEF TypeOK
<1>1. ASSUME NEW t \in 1..MaxTime, Advance(t) PROVE TypeOK'
  <2>1. now' = t /\ t > now /\ t \in Nat
    BY <1>1, RateAssumption DEF Advance
  <2>2. before' \in [0..t -> 0..granted]
    BY <1>1 DEF Advance
  <2> QED
    BY <1>1, <2>1, <2>2, FullIsNat DEF Advance, Full
<1>2. ASSUME Acquire PROVE TypeOK'
  <2>1. Refilled \in 0..Full /\ Refilled >= Second
    BY <1>2, RefilledBounds DEF Acquire, Enough
  <2>2. Refilled - Second \in 0..Full
    BY <2>1, FullIsNat, RateAssumption
  <2>3. before \in [0..now -> 0..(granted + 1)]
    OBVIOUS
  <2> QED
    BY <1>2, <2>2, <2>3 DEF Acquire, Full
<1>3. ASSUME Refuse PROVE TypeOK'
  BY <1>3, RefilledBounds DEF Refuse, Full
<1>4. ASSUME UNCHANGED vars PROVE TypeOK'
  BY <1>4 DEF vars, Full
<1> QED
  BY <1>1, <1>2, <1>3, <1>4 DEF Next

(* The bucket starts full.                                                 *)
LEMMA InitTypeOK == Init => TypeOK
BY FullIsNat DEF Init, TypeOK

(* Every step keeps the budget of every stretch of time.                   *)
LEMMA NextBudget == TypeOK /\ Budget /\ [Next]_vars => Budget'
<1> SUFFICES ASSUME TypeOK, Budget, [Next]_vars PROVE Budget'
  OBVIOUS
<1>0. /\ now \in Nat /\ lastRefill \in 0..now /\ tokens \in 0..Full
      /\ granted \in Nat /\ before \in [0..now -> 0..granted]
      /\ Full \in Nat /\ Second \in Nat \ {0} /\ Capacity \in Nat \ {0}
  BY FullIsNat, RateAssumption DEF TypeOK
<1>1. ASSUME NEW t \in 1..MaxTime, Advance(t) PROVE Budget'
  <2>1. /\ now' = t /\ t > now /\ t \in Nat
        /\ tokens' = tokens /\ lastRefill' = lastRefill /\ granted' = granted
        /\ \A u \in 0..t : before'[u] = IF u <= now THEN before[u] ELSE granted
    BY <1>1, RateAssumption DEF Advance
  <2>2. ASSUME NEW u \in 0..t
        PROVE  (granted' - before'[u]) * Second
                 <= IF u > lastRefill' THEN 0
                    ELSE Full - tokens' + Capacity * (lastRefill' - u)
    <3>1. CASE u <= now
      BY <1>0, <2>1, <3>1 DEF Budget
    <3>2. CASE u > now
      <4>1. before'[u] = granted /\ u > lastRefill
        BY <1>0, <2>1, <3>2
      <4>2. (granted - granted) * Second = 0
        BY <1>0
      <4> QED
        BY <2>1, <4>1, <4>2
    <3> QED
      BY <3>1, <3>2, <1>0, <2>1
  <2> QED
    BY <2>1, <2>2 DEF Budget, Full
<1>2. ASSUME NEW u \in 0..now
      PROVE  (granted - before[u]) * Second + Refilled
               <= Full + Capacity * (now - u)
  <2>1. before[u] \in 0..granted
    BY <1>0
  <2>2. /\ Refilled \in 0..Full
        /\ Refilled <= tokens + Capacity * (now - lastRefill)
    BY RefilledBounds
  <2>3. Capacity * (now - u) \in Nat
    BY <1>0, RefillIsNat
  <2>4. CASE u > lastRefill
    <3>1. (granted - before[u]) * Second <= 0
      BY <2>4, <1>0 DEF Budget
    <3>2. (granted - before[u]) * Second \in Int
      BY <1>0, <2>1
    <3> QED
      <4>1. Refilled \in Int /\ Refilled <= Full /\ Full \in Int
        BY <1>0, <2>2
      <4> QED
        BY <4>1, <2>3, <3>1, <3>2, Slack
  <2>5. CASE ~(u > lastRefill)
    <3>1. (granted - before[u]) * Second
            <= Full - tokens + Capacity * (lastRefill - u)
      BY <2>5, <1>0 DEF Budget
    <3>2. Capacity * (now - u)
            = Capacity * (now - lastRefill) + Capacity * (lastRefill - u)
      BY <1>0, Stretches
    <3>3. /\ (granted - before[u]) * Second \in Int
          /\ Capacity * (lastRefill - u) \in Int
          /\ Capacity * (now - lastRefill) \in Int
      BY <1>0, <2>1
    <3> QED
      BY <1>0, <2>2, <3>1, <3>2, <3>3
  <2> QED
    BY <2>4, <2>5
<1>3. ASSUME Acquire PROVE Budget'
  <2>1. /\ tokens' = Refilled - Second /\ lastRefill' = now /\ now' = now
        /\ granted' = granted + 1 /\ before' = before
    BY <1>3 DEF Acquire
  <2>2. ASSUME NEW u \in 0..now
        PROVE  /\ ~(u > now)
               /\ ((granted + 1) - before[u]) * Second
                    <= Full - (Refilled - Second) + Capacity * (now - u)
    <3>1. before[u] \in Int /\ Refilled \in Int
      BY <1>0, RefilledBounds
    <3>2. ((granted + 1) - before[u]) * Second
            = (granted - before[u]) * Second + Second
      BY <3>1, <1>0, OneMore
    <3>3. (granted - before[u]) * Second \in Int /\ Capacity * (now - u) \in Int
      BY <3>1, <1>0
    <3> QED
      BY <1>0, <1>2, <3>1, <3>2, <3>3, SMTT(30)
  <2>3. Full' = Full
    BY DEF Full
  <2> QED
    BY <2>1, <2>2, <2>3 DEF Budget
<1>4. ASSUME Refuse PROVE Budget'
  <2>1. /\ tokens' = Refilled /\ lastRefill' = now /\ now' = now
        /\ granted' = granted /\ before' = before
    BY <1>4 DEF Refuse
  <2>2. ASSUME NEW u \in 0..now
        PROVE  /\ ~(u > now)
               /\ (granted - before[u]) * Second
                    <= Full - Refilled + Capacity * (now - u)
    <3>1. before[u] \in Int /\ Refilled \in Int
      BY <1>0, RefilledBounds
    <3>2. (granted - before[u]) * Second \in Int /\ Capacity * (now - u) \in Int
      BY <3>1, <1>0
    <3> QED
      BY <1>0, <1>2, <3>1, <3>2
  <2> QED
    BY <2>1, <2>2 DEF Budget, Full
<1>5. ASSUME UNCHANGED vars PROVE Budget'
  BY <1>5 DEF vars, Budget, Full
<1> QED
  BY <1>1, <1>3, <1>4, <1>5 DEF Next

(* Nothing has been granted yet.                                           *)
LEMMA InitBudget == Init => Budget
<1> SUFFICES ASSUME Init PROVE Budget
  OBVIOUS
<1>1. /\ now = 0 /\ lastRefill = 0 /\ tokens = Full /\ granted = 0
      /\ before[0] = 0
  BY DEF Init
<1>2. Capacity * (0 - 0) = 0 /\ (0 - 0) * Second = 0 /\ Full \in Nat
  BY RateAssumption, FullIsNat
<1> QED
  BY <1>1, <1>2 DEF Budget

(* The bucket and its budget in every reachable state.                     *)
THEOREM BudgetHolds == Spec => [](TypeOK /\ Budget)
<1>1. Init => TypeOK /\ Budget
  BY InitTypeOK, InitBudget
<1>2. (TypeOK /\ Budget) /\ [Next]_vars => (TypeOK /\ Budget)'
  BY NextTypeOK, NextBudget
<1> QED
  BY <1>1, <1>2, PTL DEF Spec

(* The bucket never overflows and is never overdrawn.                      *)
THEOREM TypeCorrect == Spec => []TypeOK
<1> QED
  BY BudgetHolds, PTL

(* In any stretch of time the limiter grants at most a full bucket and     *)
(* what is refilled meanwhile, for every capacity, clock and call pattern. *)
THEOREM WindowBoundHolds == Spec => []WindowBound
<1>1. TypeOK /\ Budget => WindowBound
  <2> SUFFICES ASSUME TypeOK, Budget, NEW t \in 0..now
               PROVE  (granted - before[t]) * Second
                        <= Full + Capacity * (now - t)
    BY DEF WindowBound
  <2>1. /\ now \in Nat /\ lastRefill \in 0..now /\ tokens \in 0..Full
        /\ granted \in Nat /\ before[t] \in 0..granted
        /\ Full \in Nat /\ Second \in Nat /\ Capacity \in Nat
    BY FullIsNat, RateAssumption DEF TypeOK
  <2>2. /\ Capacity * (now - t) \in Nat
        /\ Capacity * (now - lastRefill) \in Nat
    BY <2>1, RefillIsNat
  <2>3. (granted - before[t]) * Second \in Int
    BY <2>1
  <2>4. CASE t > lastRefill
    BY <2>1, <2>2, <2>3, <2>4 DEF Budget
  <2>5. CASE ~(t > lastRefill)
    <3>1. Capacity * (now - t)
            = Capacity * (now - lastRefill) + Capacity * (lastRefill - t)
      BY <2>1, Stretches
    <3>2. (granted - before[t]) * Second
            <= Full - tokens + Capacity * (lastRefill - t)
      BY <2>5 DEF Budget
    <3>3. Capacity * (lastRefill - t) \in Int
      BY <2>1
    <3> QED
      BY <2>1, <2>2, <2>3, <3>1, <3>2, <3>3
  <2> QED
    BY <2>4, <2>5
<1> QED
  BY <1>1, BudgetHolds, PTL
=============================================================================
