----------------------------- MODULE JwksCache -----------------------------
(***************************************************************************)
(* The JWKS cache of one provider (auth/jwks_cache.rs), its background     *)
(* refresh loop, and the requests that validate tokens against it with     *)
(* validate_with_refresh (auth/mod.rs).  trigger_refresh and               *)
(* wait_for_refresh use the same Notify as the loop.                       *)
(*                                                                         *)
(* A token is abstracted to its kid: whatever validate_token finds wrong   *)
(* later, the key was found.  Time is counted in cache TTLs.  The identity *)
(* provider starts with the Stable keys and adds the others once.          *)
(***************************************************************************)
EXTENDS Integers, FiniteSets, Notify

CONSTANTS
  Requests,     \* concurrent validations (task slots)
  Kids,         \* key ids that tokens carry
  Stable,       \* those the provider publishes all along
  STALE_FACTOR, \* 10 in the code
  MaxUnknown,   \* bound: requests with a kid that is not Stable
  MaxFailures   \* bound: failed fetches

ASSUME JwksAssumption ==
  /\ Stable \subseteq Kids
  /\ "loop" \notin Requests
  /\ STALE_FACTOR \in Nat
  /\ MaxUnknown \in Nat
  /\ MaxFailures \in Nat

VARIABLES
  published,   \* the provider's keys
  keys,        \* inner.keys, as a set of kids
  age,         \* TTLs since inner.fetched_at, up to one past STALE_FACTOR
  tick_due,    \* the interval has a tick ready
  loop,        \* where the refresh loop is
  doc,         \* the document it received
  pc, kid, answer,  \* per request
  timed,       \* requests whose wait ended by the timeout
  unknowns, failures,  \* counters for the bounds
  refreshed,   \* history: requests that saw a fetch end since they triggered
  triggers, woken_fetches  \* history: trigger_refresh calls, fetches they caused

loopVars == <<age, tick_due, loop, doc, keys, woken_fetches>>
requestVars == <<pc, kid, answer, timed, unknowns, triggers>>
vars == <<published, loopVars, requestVars, failures, refreshed, notifyVars>>

\* JwksCache::new has fetched, and the first tick has been skipped.
Init ==
  /\ published = Stable
  /\ keys = Stable
  /\ age = 0
  /\ tick_due = FALSE
  /\ loop = "enter"
  /\ doc = {}
  /\ pc = [r \in Requests |-> "idle"]
  /\ kid \in [Requests -> Stable]
  /\ answer = [r \in Requests |-> "none"]
  /\ timed = {}
  /\ unknowns = 0
  /\ failures = 0
  /\ refreshed = {}
  /\ triggers = 0
  /\ woken_fetches = 0
  /\ NotifyInit

is_stale == age > STALE_FACTOR

-----------------------------------------------------------------------------
(* spawn_refresh_loop: select! polls its two branches in either order.     *)

\* The tick is polled first and is ready: the notification future is dropped
\* before its first poll, without effect.
LoopTickReady ==
  /\ loop = "enter" /\ tick_due
  /\ tick_due' = FALSE
  /\ loop' = "fetching"
  /\ UNCHANGED <<published, age, doc, keys, woken_fetches, requestVars,
                 failures, refreshed, notifyVars>>

LoopTakesPermit ==
  /\ loop = "enter"
  /\ PollTakesPermit
  /\ loop' = "fetching"
  /\ woken_fetches' = woken_fetches + 1
  /\ UNCHANGED <<published, age, tick_due, doc, keys, requestVars, failures,
                 refreshed>>

LoopWaits ==
  /\ loop = "enter"
  /\ PollWaits("loop")
  /\ loop' = "waiting"
  /\ UNCHANGED <<published, age, tick_due, doc, keys, woken_fetches,
                 requestVars, failures, refreshed>>

LoopNotified ==
  /\ loop = "waiting"
  /\ PollWoken("loop")
  /\ loop' = "fetching"
  /\ woken_fetches' = woken_fetches + 1
  /\ UNCHANGED <<published, age, tick_due, doc, keys, requestVars, failures,
                 refreshed>>

\* The tick wins while the notification future waits or has just been woken:
\* dropping it passes its notification on.
LoopTick ==
  /\ loop = "waiting" /\ tick_due
  /\ tick_due' = FALSE
  /\ DropFuture("loop")
  /\ loop' = "fetching"
  /\ UNCHANGED <<published, age, doc, keys, woken_fetches, requestVars,
                 failures, refreshed>>

-----------------------------------------------------------------------------
(* fetch_and_store, then notify_waiters.  The HTTP client has no timeout:  *)
(* a fetch may stay in "fetching" for ever.                                *)

FetchResponds ==
  /\ loop = "fetching"
  /\ doc' = published
  /\ loop' = "storing"
  /\ UNCHANGED <<published, age, tick_due, keys, woken_fetches, requestVars,
                 failures, refreshed, notifyVars>>

\* Requests that have called trigger_refresh and not validated again yet.
Triggered == {r \in Requests : pc[r] \in {"poll", "wait", "retry"}}

\* Mutant of FetchFails: the cache was cleared before the fetch.
FetchFailsCleared ==
  /\ loop = "fetching" /\ failures < MaxFailures
  /\ failures' = failures + 1
  /\ loop' = "notifying"
  /\ keys' = {}
  /\ refreshed' = refreshed \cup Triggered
  /\ UNCHANGED <<published, age, tick_due, doc, woken_fetches, requestVars,
                 notifyVars>>

\* A transport error, bad JSON or one bad RSA key: the old keys stay.
FetchFails ==
  /\ loop = "fetching" /\ failures < MaxFailures
  /\ failures' = failures + 1
  /\ loop' = "notifying"
  /\ refreshed' = refreshed \cup Triggered
  /\ UNCHANGED <<published, age, tick_due, doc, keys, woken_fetches,
                 requestVars, notifyVars>>

\* Mutant of Store: keys that are cached already are kept, new ones ignored.
StoreIntersection ==
  /\ loop = "storing"
  /\ keys' = keys \cap doc
  /\ age' = 0
  /\ loop' = "notifying"
  /\ refreshed' = refreshed \cup Triggered
  /\ UNCHANGED <<published, tick_due, doc, woken_fetches, requestVars,
                 failures, notifyVars>>

\* Under the write lock: keys and fetched_at together.
Store ==
  /\ loop = "storing"
  /\ keys' = doc
  /\ age' = 0
  /\ loop' = "notifying"
  /\ refreshed' = refreshed \cup Triggered
  /\ UNCHANGED <<published, tick_due, doc, woken_fetches, requestVars,
                 failures, notifyVars>>

\* Mutant of NotifyWaiters: notify_one instead of notify_waiters.
NotifyOneWaiter ==
  /\ loop = "notifying"
  /\ notify_one
  /\ loop' = "enter"
  /\ UNCHANGED <<published, age, tick_due, doc, keys, woken_fetches,
                 requestVars, failures, refreshed>>

NotifyWaiters ==
  /\ loop = "notifying"
  /\ notify_waiters
  /\ loop' = "enter"
  /\ UNCHANGED <<published, age, tick_due, doc, keys, woken_fetches,
                 requestVars, failures, refreshed>>

-----------------------------------------------------------------------------
(* validate_with_refresh                                                   *)

Goto(r, state) == pc' = [pc EXCEPT ![r] = state]

Answer(r, a) ==
  /\ Goto(r, "idle")
  /\ answer' = [answer EXCEPT ![r] = a]

Begin(r, k) ==
  /\ pc[r] = "idle"
  /\ k \in Stable \/ unknowns < MaxUnknown
  /\ unknowns' = IF k \in Stable THEN unknowns ELSE unknowns + 1
  /\ Goto(r, "begin")
  /\ kid' = [kid EXCEPT ![r] = k]
  /\ answer' = [answer EXCEPT ![r] = "none"]
  /\ timed' = timed \ {r}
  /\ refreshed' = refreshed \ {r}
  /\ UNCHANGED <<published, loopVars, triggers, failures, notifyVars>>

CheckStale(r) ==
  /\ pc[r] = "begin"
  /\ \/ is_stale /\ Answer(r, "unavailable")
     \/ ~is_stale /\ Goto(r, "lookup") /\ UNCHANGED answer
  /\ UNCHANGED <<published, loopVars, kid, timed, unknowns, triggers,
                 failures, refreshed, notifyVars>>

Lookup(r) ==
  /\ pc[r] = "lookup"
  /\ \/ kid[r] \in keys /\ Answer(r, "known")
     \/ kid[r] \notin keys /\ Goto(r, "trigger") /\ UNCHANGED answer
  /\ UNCHANGED <<published, loopVars, kid, timed, unknowns, triggers,
                 failures, refreshed, notifyVars>>

trigger_refresh(r) ==
  /\ pc[r] = "trigger"
  /\ notify_one
  /\ triggers' = triggers + 1
  /\ Goto(r, "poll")
  /\ UNCHANGED <<published, loopVars, kid, answer, timed, unknowns, failures,
                 refreshed>>

\* The request may find a permit, its own or another request's.
wait_for_refresh(r) ==
  /\ pc[r] = "poll"
  /\ \/ PollTakesPermit /\ Goto(r, "retry")
     \/ PollWaits(r) /\ Goto(r, "wait")
  /\ UNCHANGED <<published, loopVars, kid, answer, timed, unknowns, triggers,
                 failures, refreshed>>

Woken(r) ==
  /\ pc[r] = "wait"
  /\ PollWoken(r)
  /\ Goto(r, "retry")
  /\ UNCHANGED <<published, loopVars, kid, answer, timed, unknowns, triggers,
                 failures, refreshed>>

\* Mutant of WaitTimesOut: no timeout around the wait.
WaitForever(r) == FALSE /\ UNCHANGED vars

\* The five seconds are over; a wake-up that arrived is seen first.
WaitTimesOut(r) ==
  /\ pc[r] = "wait" /\ r \notin ones \cup alls
  /\ DropFuture(r)
  /\ timed' = timed \cup {r}
  /\ Goto(r, "retry")
  /\ UNCHANGED <<published, loopVars, kid, answer, unknowns, triggers,
                 failures, refreshed>>

Retry(r) ==
  /\ pc[r] = "retry"
  /\ Answer(r, IF kid[r] \in keys THEN "known" ELSE "unknown")
  /\ UNCHANGED <<published, loopVars, kid, timed, unknowns, triggers,
                 failures, refreshed, notifyVars>>

\* The handler's future is dropped.
Cancel(r) ==
  /\ pc[r] # "idle"
  /\ DropFuture(r)
  /\ Goto(r, "idle")
  /\ UNCHANGED <<published, loopVars, kid, answer, timed, unknowns, triggers,
                 failures, refreshed>>

-----------------------------------------------------------------------------
IntervalElapses ==
  /\ ~tick_due \/ ~is_stale
  /\ tick_due' = TRUE
  /\ age' = IF is_stale THEN age ELSE age + 1
  /\ UNCHANGED <<published, loop, doc, keys, woken_fetches, requestVars,
                 failures, refreshed, notifyVars>>

ProviderRotates ==
  /\ published # Kids
  /\ published' = Kids
  /\ UNCHANGED <<loopVars, requestVars, failures, refreshed, notifyVars>>

LoopStep ==
  \/ LoopTickReady \/ LoopTakesPermit \/ LoopWaits \/ LoopNotified
  \/ LoopTick \/ Store \/ NotifyWaiters

RequestStep(r) ==
  \/ CheckStale(r) \/ Lookup(r) \/ trigger_refresh(r) \/ wait_for_refresh(r)
  \/ Woken(r) \/ WaitTimesOut(r) \/ Retry(r)

Next ==
  \/ LoopStep
  \/ FetchResponds
  \/ FetchFails
  \/ \E r \in Requests : RequestStep(r) \/ Cancel(r) \/ \E k \in Kids : Begin(r, k)
  \/ IntervalElapses
  \/ ProviderRotates

Spec == Init /\ [][Next]_vars

\* The executor polls ready tasks and timers fire.  Nothing is assumed of the
\* provider: a fetch may hang.
Fairness ==
  /\ WF_vars(LoopStep)
  /\ WF_vars(IntervalElapses)
  /\ \A r \in Requests : WF_vars(RequestStep(r))

FairSpec == Spec /\ Fairness

-----------------------------------------------------------------------------
\* A key that the provider publishes all along is never reported unknown, in
\* whatever order fetches fail, arrive late and overlap with validations: a
\* failed refresh leaves the last known good keys (fetch_and_store).
StableKeyNeverUnknown ==
  \A r \in Requests : answer[r] = "unknown" => kid[r] \notin Stable

\* The loop fetches out of schedule at most once per trigger_refresh: its own
\* notify_waiters, forwarded notifications and dropped futures never make it
\* run again (spawn_refresh_loop).
FetchesAreCaused ==
  woken_fetches + Cardinality(ones) + (IF permit THEN 1 ELSE 0) <= triggers

\* A validation that waited without running into the timeout reports an
\* unknown kid only if a refresh ended since it triggered one.
UnknownOnlyAfterRefresh ==
  \A r \in Requests : answer[r] = "unknown" /\ r \notin timed => r \in refreshed

\* Every validation ends, even if the provider never answers the loop.
EveryValidationEnds ==
  \A r \in Requests : pc[r] # "idle" ~> pc[r] = "idle"

\* If fetches do not hang, a rotated key is learned by the schedule alone.
RotatedKeyLearned ==
  []<>(loop # "fetching") => (published = Kids ~> keys = Kids)

=============================================================================
