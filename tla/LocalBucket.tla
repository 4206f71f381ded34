---------------------------- MODULE LocalBucket ----------------------------
(***************************************************************************)
(* The in-memory fallback bucket of one key (ratelimit/bucket.rs) and its  *)
(* creation on first use by enter_degraded.  The map's write lock is held  *)
(* from the lookup to the decision, so one call is one step.  Instant is   *)
(* monotonic and local: there is no skew, and no expiry.                   *)
(***************************************************************************)
EXTENDS Integers

CONSTANTS
  Capacity, Unit, Refill,  \* fallback_capacity and rate, as in TokenBucket
  MaxTime                  \* bound: the clock stops here

VARIABLES
  now,          \* monotonic time, in ticks
  created,      \* the map has an entry for the key
  tokens, last_refill,
  opened, granted, decision  \* history, as in TokenBucket

vars == <<now, created, tokens, last_refill, opened, granted, decision>>

Cap == Capacity * Unit

Smaller(a, b) == IF a <= b THEN a ELSE b

Times == 0..MaxTime

Init ==
  /\ now = 0
  /\ created = FALSE
  /\ tokens = 0
  /\ last_refill = 0
  /\ opened \in Times
  /\ granted = 0
  /\ decision = "none"

\* or_insert_with(LocalBucket::new) followed by refill(): both fields are
\* written whether the request is then allowed or not.
Refilled ==
  IF created THEN Smaller(tokens + Refill * (now - last_refill), Cap) ELSE Cap

\* Mutant of Consume: a denied request does not move last_refill although its
\* refill was kept.
ConsumeStale ==
  /\ created' = TRUE
  /\ last_refill' = IF Refilled >= Unit \/ ~created THEN now ELSE last_refill
  /\ \/ /\ Refilled >= Unit
        /\ tokens' = Refilled - Unit
        /\ granted' = IF opened <= now THEN granted + 1 ELSE granted
        /\ decision' = "allow"
     \/ /\ Refilled < Unit
        /\ tokens' = Refilled
        /\ decision' = "deny"
        /\ UNCHANGED granted
  /\ UNCHANGED <<now, opened>>

\* try_consume
Consume ==
  /\ created' = TRUE
  /\ last_refill' = now
  /\ \/ /\ Refilled >= Unit
        /\ tokens' = Refilled - Unit
        /\ granted' = IF opened <= now THEN granted + 1 ELSE granted
        /\ decision' = "allow"
     \/ /\ Refilled < Unit
        /\ tokens' = Refilled
        /\ decision' = "deny"
        /\ UNCHANGED granted
  /\ UNCHANGED <<now, opened>>

Tick ==
  /\ now < MaxTime
  /\ now' = now + 1
  /\ UNCHANGED <<created, tokens, last_refill, opened, granted, decision>>

Next == Tick \/ Consume

Spec == Init /\ [][Next]_vars

=============================================================================
