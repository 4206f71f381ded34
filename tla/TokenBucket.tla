---------------------------- MODULE TokenBucket ----------------------------
(***************************************************************************)
(* What the gateway promises of one rate-limit bucket, whichever backend   *)
(* holds it: a level that refills at a constant rate up to a capacity, a   *)
(* request granted exactly when a whole token is there.  The Redis script  *)
(* (RedisBucket) and the in-memory fallback (LocalBucket) refill lazily    *)
(* and are shown to implement this eager bucket.                           *)
(*                                                                         *)
(* Amounts are integers: a token is Unit parts, one tick of the clock      *)
(* refills Refill parts, so the configured rate is Refill/Unit per tick.   *)
(***************************************************************************)
EXTENDS Integers

CONSTANTS
  Capacity,  \* bucket_capacity, in tokens
  Unit,      \* parts of one token
  Refill,    \* parts refilled per tick (refill_rate_per_sec)
  MaxTime    \* bound: the clock stops here

VARIABLES
  now,       \* real time, in ticks
  level,     \* parts of a token in the bucket
  opened,    \* history: start of a window, any time, fixed from the start
  granted,   \* history: requests granted at or after opened
  decision   \* history: the last answer, "none", "allow" or "deny"

vars == <<now, level, opened, granted, decision>>

Cap == Capacity * Unit

Smaller(a, b) == IF a <= b THEN a ELSE b

Times == 0..MaxTime

CountGrant == granted' = IF opened <= now THEN granted + 1 ELSE granted

Init ==
  /\ now = 0
  /\ level = Cap
  /\ opened \in Times
  /\ granted = 0
  /\ decision = "none"

Tick ==
  /\ now < MaxTime
  /\ now' = now + 1
  /\ level' = Smaller(level + Refill, Cap)
  /\ UNCHANGED <<opened, granted, decision>>

Allow ==
  /\ level >= Unit
  /\ level' = level - Unit
  /\ CountGrant
  /\ decision' = "allow"
  /\ UNCHANGED <<now, opened>>

Deny ==
  /\ level < Unit
  /\ decision' = "deny"
  /\ UNCHANGED <<now, level, opened, granted>>

Next == Tick \/ Allow \/ Deny

Spec == Init /\ [][Next]_vars

=============================================================================
