---------------------------- MODULE RateLimiter ----------------------------
(***************************************************************************)
(* RateLimiter::check and RateLimiter::ping (ratelimit/limiter.rs) for one *)
(* key: the shared connection behind a FIFO mutex that is held across the  *)
(* awaits, the Redis and the fallback bucket, and the requests and health  *)
(* probes that run concurrently.                                           *)
(*                                                                         *)
(* Buckets hold whole tokens here; RedisBucket and LocalBucket justify     *)
(* that they behave as refilled counters.  Redis is healthy when it is     *)
(* reachable and answers within default_timeout_ms.  A command whose       *)
(* caller gave up may still run, later, or never.                          *)
(***************************************************************************)
EXTENDS Integers, Sequences, FiniteSets

CONSTANTS
  Requests,                      \* concurrent ext_authz checks (task slots)
  Probes,                        \* concurrent /readyz handlers (task slots)
  RedisCapacity, LocalCapacity,  \* bucket_capacity and fallback_capacity
  MaxRefills,                    \* bound: tokens refilled, per bucket
  MaxFlips,                      \* bound: changes of Redis health
  MaxCancels                     \* bound: handlers dropped by their client

ASSUME RateLimiterAssumption ==
  /\ Requests \cap Probes = {}
  /\ RedisCapacity \in Nat
  /\ LocalCapacity \in Nat
  /\ MaxRefills \in Nat
  /\ MaxFlips \in Nat
  /\ MaxCancels \in Nat

VARIABLES
  survivability, fail_open,  \* config, fixed at startup
  healthy, flips,            \* Redis, and how often its health changed
  conn,                      \* the guarded Option is Some
  queue,                     \* the mutex: holder first, then the waiters
  pc,                        \* where each caller awaits
  cmd,                       \* each request's script invocation
  orphans,                   \* invocations whose caller has gone
  cancels,                   \* handlers dropped so far
  answer,                    \* the decision a check returned, until the next one begins
  tokens,                    \* the two buckets
  refills, granted,          \* history, per bucket
  connects, fails            \* history: connections made and found dead

vars ==
  <<survivability, fail_open, healthy, flips, conn, queue, pc, cmd, orphans,
    cancels, answer, tokens, refills, granted, connects, fails>>

config == <<survivability, fail_open>>
redis == <<healthy, flips>>
buckets == <<tokens, refills, granted>>
link == <<conn, connects, fails>>
after == <<orphans, cancels>>

Callers == Requests \cup Probes

Buckets == {"redis", "local"}

Capacity == [redis |-> RedisCapacity, local |-> LocalCapacity]

Holds(c) == queue # <<>> /\ Head(queue) = c

\* The guard is dropped: the first waiter gets the mutex.
Unlock == queue' = Tail(queue)

\* from_config connects if it can and never fails.
Init ==
  /\ survivability \in BOOLEAN
  /\ fail_open \in BOOLEAN
  /\ healthy \in BOOLEAN
  /\ flips = 0
  /\ conn = healthy
  /\ queue = <<>>
  /\ pc = [c \in Callers |-> "idle"]
  /\ cmd = [r \in Requests |-> "none"]
  /\ orphans = 0
  /\ cancels = 0
  /\ answer = [r \in Requests |-> "none"]
  /\ tokens = Capacity
  /\ refills = [b \in Buckets |-> 0]
  /\ granted = [b \in Buckets |-> 0]
  /\ connects = IF conn THEN 1 ELSE 0
  /\ fails = 0

-----------------------------------------------------------------------------
(* Requests: try_redis, then enter_degraded on any error.                  *)

\* self.conn.lock(): in try_redis and in ping
Lock(c) ==
  /\ pc[c] = "idle"
  /\ pc' = [pc EXCEPT ![c] = "locking"]
  /\ queue' = Append(queue, c)
  /\ answer' = [r \in Requests |-> IF r = c THEN "none" ELSE answer[r]]
  /\ UNCHANGED <<config, redis, link, cmd, after, buckets>>

NoConnection(r) ==
  /\ pc[r] = "locking" /\ Holds(r) /\ ~conn
  /\ pc' = [pc EXCEPT ![r] = "degraded"]
  /\ Unlock
  /\ UNCHANGED <<config, redis, link, cmd, after, answer, buckets>>

Invoke(r) ==
  /\ pc[r] = "locking" /\ Holds(r) /\ conn
  /\ pc' = [pc EXCEPT ![r] = "invoking"]
  /\ cmd' = [cmd EXCEPT ![r] = "sent"]
  /\ UNCHANGED <<config, redis, link, queue, after, answer, buckets>>

\* Redis runs the script for the request, as in RedisBucket.
RunScript(r) ==
  /\ healthy /\ cmd[r] = "sent"
  /\ \/ /\ tokens["redis"] > 0
        /\ tokens' = [tokens EXCEPT !["redis"] = @ - 1]
        /\ cmd' = [cmd EXCEPT ![r] = "allowed"]
     \/ /\ tokens["redis"] = 0
        /\ cmd' = [cmd EXCEPT ![r] = "denied"]
        /\ UNCHANGED tokens
  /\ UNCHANGED <<config, redis, link, queue, pc, after, answer, refills, granted>>

\* Mutant of Decide: takes any answer for an allow.
DecideAllow(r) ==
  /\ pc[r] = "invoking" /\ cmd[r] \in {"allowed", "denied"}
  /\ pc' = [pc EXCEPT ![r] = "idle"]
  /\ cmd' = [cmd EXCEPT ![r] = "none"]
  /\ answer' = [answer EXCEPT ![r] = "allow"]
  /\ granted' = [granted EXCEPT !["redis"] = @ + 1]
  /\ Unlock
  /\ UNCHANGED <<config, redis, link, after, tokens, refills>>

\* The answer arrives in time and parses.
Decide(r) ==
  /\ pc[r] = "invoking" /\ cmd[r] \in {"allowed", "denied"}
  /\ pc' = [pc EXCEPT ![r] = "idle"]
  /\ cmd' = [cmd EXCEPT ![r] = "none"]
  /\ answer' = [answer EXCEPT ![r] = IF cmd[r] = "allowed" THEN "allow" ELSE "deny"]
  /\ granted' = [granted EXCEPT !["redis"] = IF cmd[r] = "allowed" THEN @ + 1 ELSE @]
  /\ Unlock
  /\ UNCHANGED <<config, redis, link, after, tokens, refills>>

\* The answer arrives and does not parse (Lua prints large numbers with an
\* exponent): an error that keeps the connection.
Unparsable(r) ==
  /\ pc[r] = "invoking" /\ cmd[r] \in {"allowed", "denied"}
  /\ pc' = [pc EXCEPT ![r] = "degraded"]
  /\ cmd' = [cmd EXCEPT ![r] = "none"]
  /\ Unlock
  /\ UNCHANGED <<config, redis, link, after, answer, buckets>>

\* The caller leaves its invocation behind: one that Redis has not run yet may
\* still be run.
Abandon(r) ==
  /\ cmd' = [cmd EXCEPT ![r] = "none"]
  /\ orphans' = IF cmd[r] = "sent" THEN orphans + 1 ELSE orphans

\* Mutant of InvokeFails: the error is returned but the connection is kept.
InvokeFailsKeep(r) ==
  /\ pc[r] = "invoking" /\ ~healthy
  /\ pc' = [pc EXCEPT ![r] = "degraded"]
  /\ fails' = fails + 1
  /\ Abandon(r)
  /\ Unlock
  /\ UNCHANGED <<config, redis, conn, connects, cancels, answer, buckets>>

\* Mutant of InvokeFails: no timeout around the invocation, so that only an
\* error that Redis reports ends it.
InvokeFailsReported(r) ==
  /\ pc[r] = "invoking" /\ ~healthy /\ cmd[r] \in {"allowed", "denied"}
  /\ pc' = [pc EXCEPT ![r] = "degraded"]
  /\ conn' = FALSE
  /\ fails' = fails + 1
  /\ Abandon(r)
  /\ Unlock
  /\ UNCHANGED <<config, redis, connects, cancels, answer, buckets>>

\* A command error or the timeout: the connection is dropped.
InvokeFails(r) ==
  /\ pc[r] = "invoking" /\ ~healthy
  /\ pc' = [pc EXCEPT ![r] = "degraded"]
  /\ conn' = FALSE
  /\ fails' = fails + 1
  /\ Abandon(r)
  /\ Unlock
  /\ UNCHANGED <<config, redis, connects, cancels, answer, buckets>>

\* survivability mode, else fail_open, else RateLimitError::Unavailable
enter_degraded(r) ==
  /\ pc[r] = "degraded"
  /\ pc' = [pc EXCEPT ![r] = "idle"]
  /\ \/ /\ survivability /\ tokens["local"] > 0
        /\ tokens' = [tokens EXCEPT !["local"] = @ - 1]
        /\ granted' = [granted EXCEPT !["local"] = @ + 1]
        /\ answer' = [answer EXCEPT ![r] = "allow"]
     \/ /\ survivability /\ tokens["local"] = 0
        /\ answer' = [answer EXCEPT ![r] = "deny"]
        /\ UNCHANGED <<tokens, granted>>
     \/ /\ ~survivability
        /\ answer' = [answer EXCEPT ![r] = IF fail_open THEN "allow" ELSE "unavailable"]
        /\ UNCHANGED <<tokens, granted>>
  /\ UNCHANGED <<config, redis, link, queue, cmd, after, refills>>

-----------------------------------------------------------------------------
(* Probes: ping, the only code that makes a connection after startup.      *)

\* Mutant of Ping: gives up when there is no connection.
PingOnly(p) ==
  /\ pc[p] = "locking" /\ Holds(p)
  /\ \/ /\ conn => healthy
        /\ pc' = [pc EXCEPT ![p] = "idle"]
        /\ Unlock
        /\ UNCHANGED <<conn, fails>>
     \/ /\ conn /\ ~healthy
        /\ conn' = FALSE
        /\ fails' = fails + 1
        /\ pc' = [pc EXCEPT ![p] = "connecting"]
        /\ UNCHANGED queue
  /\ UNCHANGED <<config, redis, connects, cmd, after, answer, buckets>>

\* PING on the existing connection; a dead one is dropped.
Ping(p) ==
  /\ pc[p] = "locking" /\ Holds(p)
  /\ \/ /\ conn /\ healthy
        /\ pc' = [pc EXCEPT ![p] = "idle"]
        /\ Unlock
        /\ UNCHANGED <<conn, fails>>
     \/ /\ conn /\ ~healthy
        /\ conn' = FALSE
        /\ fails' = fails + 1
        /\ pc' = [pc EXCEPT ![p] = "connecting"]
        /\ UNCHANGED queue
     \/ /\ ~conn
        /\ pc' = [pc EXCEPT ![p] = "connecting"]
        /\ UNCHANGED <<conn, fails, queue>>
  /\ UNCHANGED <<config, redis, connects, cmd, after, answer, buckets>>

\* get_multiplexed_tokio_connection under the timeout
Reconnect(p) ==
  /\ pc[p] = "connecting"
  /\ conn' = healthy
  /\ connects' = IF healthy THEN connects + 1 ELSE connects
  /\ pc' = [pc EXCEPT ![p] = "idle"]
  /\ Unlock
  /\ UNCHANGED <<config, redis, fails, cmd, after, answer, buckets>>

-----------------------------------------------------------------------------
(* The client goes away and the handler's future is dropped at its await:  *)
(* the guard or the place in the queue goes with it.                       *)
Cancel(c) ==
  /\ pc[c] # "idle" /\ cancels < MaxCancels
  /\ cancels' = cancels + 1
  /\ pc' = [pc EXCEPT ![c] = "idle"]
  /\ queue' = SelectSeq(queue, LAMBDA d : d # c)
  /\ IF c \in Requests
       THEN Abandon(c)
       ELSE UNCHANGED <<cmd, orphans>>
  /\ UNCHANGED <<config, redis, link, answer, buckets>>

\* An abandoned invocation runs after all, or is lost with its connection.
OrphanEnds ==
  /\ orphans > 0
  /\ orphans' = orphans - 1
  /\ \/ /\ tokens["redis"] > 0
        /\ tokens' = [tokens EXCEPT !["redis"] = @ - 1]
     \/ UNCHANGED tokens
  /\ UNCHANGED <<config, redis, link, queue, pc, cmd, cancels, answer, refills, granted>>

HealthChanges ==
  /\ flips < MaxFlips
  /\ flips' = flips + 1
  /\ healthy' = ~healthy
  /\ UNCHANGED <<config, link, queue, pc, cmd, after, answer, buckets>>

\* Time passes: a bucket below its capacity gains a token.
Refill(b) ==
  /\ refills[b] < MaxRefills
  /\ tokens[b] < Capacity[b]
  /\ tokens' = [tokens EXCEPT ![b] = @ + 1]
  /\ refills' = [refills EXCEPT ![b] = @ + 1]
  /\ UNCHANGED <<config, redis, link, queue, pc, cmd, after, answer, granted>>

-----------------------------------------------------------------------------
RequestStep(r) ==
  \/ NoConnection(r) \/ Invoke(r) \/ RunScript(r) \/ Decide(r)
  \/ Unparsable(r) \/ InvokeFails(r) \/ enter_degraded(r)

ProbeStep(p) == Ping(p) \/ Reconnect(p)

Next ==
  \/ \E c \in Callers : Lock(c) \/ Cancel(c)
  \/ \E r \in Requests : RequestStep(r)
  \/ \E p \in Probes : ProbeStep(p)
  \/ OrphanEnds
  \/ HealthChanges
  \/ \E b \in Buckets : Refill(b)

Spec == Init /\ [][Next]_vars

\* The executor polls every ready task and the timers fire; a healthy Redis
\* answers; requests and probes keep coming, and clients drop only finitely
\* many of them (MaxCancels).
Fairness ==
  /\ \A r \in Requests : WF_vars(Lock(r)) /\ WF_vars(RequestStep(r))
  /\ \A p \in Probes : WF_vars(Lock(p)) /\ WF_vars(ProbeStep(p))

FairSpec == Spec /\ Fairness

-----------------------------------------------------------------------------
\* Invocations that took a token and whose caller has not been told yet.
Paid == {r \in Requests : cmd[r] = "allowed"}

\* Every request that a bucket allows has paid a token of that bucket, whatever
\* timeouts, cancellations and late executions happened in between: an outage
\* costs a client tokens, it never gives the client any (check).
EveryGrantPaid ==
  /\ granted["redis"] + Cardinality(Paid) + tokens["redis"]
       <= RedisCapacity + refills["redis"]
  /\ granted["local"] + tokens["local"] <= LocalCapacity + refills["local"]

\* A dead connection is waited for once: after the first command on it fails,
\* everyone queued on the mutex finds None and goes to the fallback at once,
\* instead of each waiting for a timeout of its own (try_redis, ping).
OneFailurePerConnection ==
  fails + (IF conn THEN 1 ELSE 0) <= connects

\* Every check comes to an end, even if Redis hangs with the mutex held.
EveryCheckEnds ==
  \A r \in Requests : pc[r] # "idle" ~> pc[r] = "idle"

\* Once Redis stays healthy, decisions go back to Redis for good.  It takes a
\* probe: requests never reconnect.
HealsAfterOutage ==
  <>[]healthy => <>[]conn

=============================================================================
