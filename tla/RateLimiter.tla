----------------------------- MODULE RateLimiter -----------------------------
(***************************************************************************)
(* SubmissionRateLimiter of the Burp extension: the token bucket in front  *)
(* of every automatic submission, shared by the proxy threads and the site *)
(* map scan.  tryAcquire is synchronized, so a call is one step.           *)
(*                                                                         *)
(* Time is counted in ticks, Second of them in a second.  The bucket holds *)
(* capacity tokens; to stay in integers it is measured in parts of which   *)
(* Second make one token, so that a tick is worth Capacity parts.          *)
(***************************************************************************)
EXTENDS Integers

CONSTANTS
  Capacity,       \* tokens in a full bucket and tokens refilled per second
  Second,         \* ticks of the clock per second
  MaxTime         \* how long the clock runs (bound)

ASSUME RateAssumption ==
  Capacity \in Nat \ {0} /\ Second \in Nat \ {0} /\ MaxTime \in Nat

VARIABLES
  now,            \* clock.nanoTime()
  tokens,         \* in parts
  lastRefill,     \* lastRefillNanos
  granted,        \* how many calls have returned true
  before          \* before[t]: how many of them before time t

vars == <<now, tokens, lastRefill, granted, before>>

Full == Capacity * Second

Init ==
  /\ now = 0 /\ lastRefill = 0
  /\ tokens = Full
  /\ granted = 0 /\ before = [t \in {0} |-> 0]

-----------------------------------------------------------------------------
(* The clock advances, at any pace: idle stretches are long jumps.         *)
Advance(t) ==
  /\ t > now
  /\ now' = t
  /\ before' = [u \in 0..t |-> IF u <= now THEN before[u] ELSE granted]
  /\ UNCHANGED <<tokens, lastRefill, granted>>

(* refill: whatever time has passed since the last one, up to a full       *)
(* bucket.                                                                 *)
Uncapped == tokens + Capacity * (now - lastRefill)
Refilled == IF Uncapped > Full THEN Full ELSE Uncapped

(* tryAcquire, granted and refused; both refill.                           *)
Generous == Refilled >= 0
Enough   == Refilled >= Second

Acquire ==
  /\ Enough
  /\ tokens' = Refilled - Second
  /\ lastRefill' = now /\ granted' = granted + 1
  /\ UNCHANGED <<now, before>>

Refuse ==
  /\ ~Enough
  /\ tokens' = Refilled /\ lastRefill' = now
  /\ UNCHANGED <<now, granted, before>>

Next == (\E t \in 1..MaxTime : Advance(t)) \/ Acquire \/ Refuse

Spec == Init /\ [][Next]_vars

-----------------------------------------------------------------------------
TypeOK ==
  /\ now \in Nat /\ lastRefill \in 0..now
  /\ tokens \in 0..Full
  /\ granted \in Nat
  /\ before \in [0..now -> 0..granted]

(* Over any stretch of time that has just ended, however its calls were    *)
(* spread, the backend is sent at most one full bucket and what is         *)
(* refilled during the stretch.                                            *)
WindowBound ==
  \A t \in 0..now :
    (granted - before[t]) * Second <= Full + Capacity * (now - t)

(* The inductive invariant: what was granted since t and what is still in  *)
(* the bucket have both come from a full bucket at t and from the refills  *)
(* up to the last one.                                                     *)
Budget ==
  \A t \in 0..now :
    (granted - before[t]) * Second
      <= IF t > lastRefill THEN 0
         ELSE Full - tokens + Capacity * (lastRefill - t)
=============================================================================
