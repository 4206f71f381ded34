---------------------------- MODULE RedisBucket ----------------------------
(***************************************************************************)
(* One rate-limit key in Redis: the Lua script that try_redis invokes      *)
(* (ratelimit/lua.rs), the expiry it sets, and the wall clocks of the      *)
(* gateway replicas that pass it now_ms.  The script runs atomically in    *)
(* Redis, so one invocation is one step.                                   *)
(*                                                                         *)
(* Replicas read SystemTime, which is neither monotonic nor synchronised:  *)
(* each invocation carries any reading in now..now+MaxSkew.  Redis ages    *)
(* the key by real time.  Token amounts are in parts of a token as in      *)
(* TokenBucket; the rounding of Lua doubles is not modelled.               *)
(***************************************************************************)
EXTENDS Integers

CONSTANTS
  Capacity, Unit, Refill,  \* as in TokenBucket
  TicksPerSecond,          \* ticks in the one-second granularity of EXPIRE
  MaxSkew,                 \* largest difference between two clock readings
  MaxTime                  \* bound: the clock stops here

ASSUME BucketAssumption ==
  /\ Capacity \in Nat \ {0}
  /\ Unit \in Nat \ {0}
  /\ Refill \in Nat \ {0}
  /\ TicksPerSecond \in Nat \ {0}
  /\ MaxSkew \in Nat
  /\ MaxTime \in Nat

\* A reading is off by less than the time the rate takes to fill the bucket:
\* the slack that the factor two in ttl_seconds leaves.
ASSUME SkewAssumption == Refill * MaxSkew <= Capacity * Unit

VARIABLES
  now,             \* real time, in ticks
  present,         \* the hash was written at least once
  tokens,          \* HGET key 'tokens'
  last_refill_ms,  \* HGET key 'last_refill_ms'
  expires_at,      \* real time of the key's expiry
  opened,          \* history: start of a window, any time, fixed from the start
  granted,         \* history: requests allowed at or after opened
  decision,        \* history: the script's last answer
  promise          \* history: reading at which the last denial said to retry

vars ==
  <<now, present, tokens, last_refill_ms, expires_at, opened, granted,
    decision, promise>>

Cap == Capacity * Unit

Smaller(a, b) == IF a <= b THEN a ELSE b

CeilDiv(a, b) == (a + b - 1) \div b

Times == 0..MaxTime

NoPromise == -1

\* Mutant of ttl_seconds: the factor two on the wrong side of the division.
HalfTtl(capacity) == CeilDiv(capacity, 2 * Refill * TicksPerSecond)

\* ttl_seconds: ceil((capacity / refill_rate) * 2).  A rate of zero or less
\* is refused by the config validation.
ttl_seconds(capacity) == CeilDiv(2 * capacity, Refill * TicksPerSecond)

\* Redis drops a key once its expiry lies in the past.
Live == present /\ now <= expires_at

Held == IF Live THEN tokens ELSE Cap

LastRefill(now_ms) == IF Live THEN last_refill_ms ELSE now_ms

\* The bucket after the lazy refill, as the script computes it.
NewTokens(now_ms) ==
  Smaller(Held + Refill * (now_ms - LastRefill(now_ms)), Cap)

\* Mutant of RetryAfter: rounds down.
FloorRetry(held) == (Unit - held) \div Refill

\* retry_ms = ceil((deficit / refill_rate) * 1000)
RetryAfter(held) == CeilDiv(Unit - held, Refill)

-----------------------------------------------------------------------------
Init ==
  /\ now = 0
  /\ present = FALSE
  /\ tokens = 0
  /\ last_refill_ms = 0
  /\ expires_at = 0
  /\ opened \in Times
  /\ granted = 0
  /\ decision = "none"
  /\ promise = NoPromise

ScriptAllows(now_ms) ==
  /\ NewTokens(now_ms) >= Unit
  /\ present' = TRUE
  /\ tokens' = NewTokens(now_ms) - Unit
  /\ last_refill_ms' = now_ms
  /\ expires_at' = now + TicksPerSecond * ttl_seconds(Cap)
  /\ granted' = IF opened <= now THEN granted + 1 ELSE granted
  /\ decision' = "allow"
  /\ promise' = NoPromise
  /\ UNCHANGED <<now, opened>>

\* A denial writes nothing to Redis, not even the refill.
ScriptDenies(now_ms) ==
  /\ NewTokens(now_ms) < Unit
  /\ decision' = "deny"
  /\ promise' = now_ms + RetryAfter(NewTokens(now_ms))
  /\ UNCHANGED <<now, present, tokens, last_refill_ms, expires_at, opened,
                 granted>>

Tick ==
  /\ now < MaxTime
  /\ now' = now + 1
  /\ UNCHANGED <<present, tokens, last_refill_ms, expires_at, opened,
                 granted, decision, promise>>

Next ==
  \/ Tick
  \/ \E skew \in 0..MaxSkew : ScriptAllows(now + skew)
  \/ \E skew \in 0..MaxSkew : ScriptDenies(now + skew)

Spec == Init /\ [][Next]_vars

-----------------------------------------------------------------------------
TypeOK ==
  /\ now \in Times
  /\ present \in BOOLEAN
  /\ tokens \in 0..Cap
  /\ last_refill_ms \in 0..(MaxTime + MaxSkew)
  /\ expires_at \in Nat
  /\ opened \in Times
  /\ granted \in Nat
  /\ decision \in {"none", "allow", "deny"}
  /\ promise \in Int

\* What the key could still grant if no more time passed, the replicas' clocks
\* being free to move forward once by MaxSkew.
Reserve ==
  IF Live
    THEN Smaller(Cap + Refill * MaxSkew,
                 tokens + Refill * (now + MaxSkew - last_refill_ms))
    ELSE Cap + Refill * MaxSkew

\* In every window, however it is placed, the script grants at most the
\* capacity plus what the rate refills in the window plus what it refills in
\* the clock skew: neither the key's expiry nor a clock that steps back gives
\* a client more (lua.rs, ttl_seconds).
WindowBound ==
  now >= opened => Unit * granted <= Cap + Refill * (MaxSkew + (now - opened))

\* The inductive form of WindowBound: grants and reserve together never exceed
\* the bound, and the expiry is far enough from the last refill that a key
\* which expires had a full reserve already.
Accounted ==
  /\ present =>
       /\ last_refill_ms <= now + MaxSkew
       /\ last_refill_ms + TicksPerSecond * ttl_seconds(Cap)
            <= expires_at + MaxSkew
  /\ now < opened => granted = 0
  /\ now >= opened =>
       Unit * granted + Reserve <= Cap + Refill * (MaxSkew + (now - opened))

\* retry_after_ms is exact: as long as nothing else is granted and the key
\* lives, a request is allowed precisely from the clock reading that the last
\* denial announced, whichever replica's clock the next reading comes from.
RetryExact ==
  promise # NoPromise /\ Live =>
    \A skew \in 0..MaxSkew :
      NewTokens(now + skew) >= Unit <=> now + skew >= promise

=============================================================================
