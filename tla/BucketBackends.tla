--------------------------- MODULE BucketBackends ---------------------------
(***************************************************************************)
(* The two buckets that can decide about a key, the one in Redis and the   *)
(* fallback in memory, against the same promise.  A behaviour uses one of  *)
(* them from beginning to end; RateLimiter models the change from one to   *)
(* the other.                                                              *)
(***************************************************************************)
EXTENDS RedisBucket

VARIABLE backend  \* RateLimitMode: "redis" or "degraded-local"

Local ==
  INSTANCE LocalBucket WITH created <- present, last_refill <- last_refill_ms

BackendsInit ==
  /\ Init
  /\ backend \in {"redis", "degraded-local"}

RedisStep ==
  /\ backend = "redis"
  /\ Next
  /\ UNCHANGED backend

LocalStep ==
  /\ backend = "degraded-local"
  /\ Local!Next
  /\ UNCHANGED <<expires_at, promise, backend>>

BackendsSpec == BackendsInit /\ [][RedisStep \/ LocalStep]_<<vars, backend>>

\* The bucket as it would be if it were refilled at this moment.
Level == IF backend = "redis" THEN NewTokens(now) ELSE Local!Refilled

\* Either bucket, refilled only when it is asked, and the one in Redis dropped
\* when it expires, implements the eager bucket of TokenBucket: with replicas
\* whose clocks agree, laziness, expiry and the write that a denial leaves out
\* cannot be observed, and a degraded replica enforces exactly the configured
\* fallback capacity and rate (lua.rs, LocalBucket::try_consume, refill).
Promised == INSTANCE TokenBucket WITH level <- Level

ImplementsTokenBucket == Promised!Spec
=============================================================================
