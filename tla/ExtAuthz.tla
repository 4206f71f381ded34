------------------------------ MODULE ExtAuthz ------------------------------
(***************************************************************************)
(* The ext_authz check (extauthz/handler.rs and its steps): the concurrency *)
(* limit, the inflight gauge, the config read lock a check keeps from its  *)
(* first await to its answer, the order of the decisions, and the access   *)
(* log.  Envoy may give a check up at any await (its timeout is 250 ms),   *)
(* which drops the future; a reload waits for the write lock meanwhile.    *)
(*                                                                         *)
(* What a stage decides is an input: JwksCache, RateLimiter and            *)
(* ConfigReload model the stages themselves.                               *)
(***************************************************************************)
EXTENDS Integers, Sequences, FiniteSets, SequencesExt

CONSTANTS
  Slots,            \* concurrent HTTP requests Envoy may have open
  MaxConcurrent,    \* gateway.max_concurrent_requests
  ExitStatuses,     \* statuses a plugin's exit may name
  EngineFails,      \* the plugin engine itself may fail (no Lua VM)
  MaxCancels,       \* bound: checks given up
  Reload            \* the reload handler, as an owner of the config lock

ASSUME ExtAuthzAssumption ==
  /\ IsFiniteSet(Slots) /\ Reload \notin Slots
  /\ MaxConcurrent \in Nat /\ MaxCancels \in Nat
  /\ ExitStatuses \subseteq Nat
  /\ EngineFails \in BOOLEAN

VARIABLES
  permits,     \* of concurrency_limit
  inflight,    \* the gauge
  readers,     \* checks that hold the config read lock
  queue,       \* those waiting for the config lock, first come first served
  pc,          \* state of each check
  status,      \* the status it answers with
  logs,        \* the statuses of its access-log entries
  settled_by,  \* the stage that decided
  cancels      \* checks given up so far

vars == <<permits, inflight, readers, queue, pc, status, logs, settled_by, cancels>>

Awaiting == {"queued", "plugins", "auth", "limit", "closing", "denying"}
Inside == Awaiting \cup {"responding"}
Active == {r \in Slots : pc[r] \in Inside}
Stages == {"none", "overload", "route", "method", "exit", "plugin", "engine",
           "auth", "limit"}

\* StatusCode::from_u16(status).unwrap_or(OK)
HttpStatus(s) == IF s \in 100..999 THEN s ELSE 200

Init ==
  /\ permits = MaxConcurrent
  /\ inflight = 0
  /\ readers = {}
  /\ queue = <<>>
  /\ pc = [r \in Slots |-> "idle"]
  /\ status = [r \in Slots |-> 0]
  /\ logs = [r \in Slots |-> <<>>]
  /\ settled_by = [r \in Slots |-> "none"]
  /\ cancels = 0

-----------------------------------------------------------------------------
(* The config lock: tokio's RwLock serves its waiters in order.            *)

Granted(w) ==
  /\ queue # <<>> /\ Head(queue) = w
  /\ w = Reload => readers = {}

-----------------------------------------------------------------------------
(* check                                                                   *)

Goto(r, state) == pc' = [pc EXCEPT ![r] = state]

\* The outcome of a check and, if it is known already, its log entry.
Settle(r, stage, s, entries) ==
  /\ status' = [status EXCEPT ![r] = HttpStatus(s)]
  /\ settled_by' = [settled_by EXCEPT ![r] = stage]
  /\ logs' = [logs EXCEPT ![r] = @ \o entries]

Fresh(r, stage, s) ==
  /\ status' = [status EXCEPT ![r] = s]
  /\ settled_by' = [settled_by EXCEPT ![r] = stage]
  /\ logs' = [logs EXCEPT ![r] = <<>>]

\* try_acquire has a permit: the gauge is raised, the config lock asked for.
Admit(r) ==
  /\ pc[r] = "idle" /\ permits > 0
  /\ permits' = permits - 1
  /\ inflight' = inflight + 1
  /\ queue' = Append(queue, r)
  /\ Goto(r, "queued")
  /\ UNCHANGED <<readers, status, logs, settled_by, cancels>>

\* overload_response, before anything is counted or logged
Overload(r) ==
  /\ pc[r] = "idle" /\ permits = 0
  /\ Fresh(r, "overload", 503)
  /\ Goto(r, "answered")
  /\ UNCHANGED <<permits, inflight, readers, queue, cancels>>

\* Mutant of Respond: the gauge is lowered only for allowed requests.
RespondAllowedOnly(r) ==
  /\ pc[r] = "responding"
  /\ permits' = permits + 1
  /\ inflight' = IF status[r] = 200 THEN inflight - 1 ELSE inflight
  /\ readers' = readers \ {r}
  /\ Goto(r, "answered")
  /\ UNCHANGED <<queue, status, logs, settled_by, cancels>>

\* check_inner has returned: its guard, the gauge and the permit are released.
Respond(r) ==
  /\ pc[r] = "responding"
  /\ permits' = permits + 1
  /\ inflight' = inflight - 1
  /\ readers' = readers \ {r}
  /\ Goto(r, "answered")
  /\ UNCHANGED <<queue, status, logs, settled_by, cancels>>

\* Mutant of GiveUp: the permit was forgotten, to be returned by hand.
GiveUpForgets(r) ==
  /\ pc[r] \in Awaiting /\ cancels < MaxCancels
  /\ cancels' = cancels + 1
  /\ readers' = readers \ {r}
  /\ queue' = SelectSeq(queue, LAMBDA w : w # r)
  /\ Goto(r, "gone")
  /\ UNCHANGED <<permits, inflight, status, logs, settled_by>>

\* The future is dropped: permit and lock guard go with it, the gauge stays.
GiveUp(r) ==
  /\ pc[r] \in Awaiting /\ cancels < MaxCancels
  /\ cancels' = cancels + 1
  /\ permits' = permits + 1
  /\ readers' = readers \ {r}
  /\ queue' = SelectSeq(queue, LAMBDA w : w # r)
  /\ Goto(r, "gone")
  /\ UNCHANGED <<inflight, status, logs, settled_by>>

\* Envoy's next request on this slot.
Reuse(r) ==
  /\ pc[r] \in {"answered", "gone"}
  /\ Fresh(r, "none", 0)
  /\ Goto(r, "idle")
  /\ UNCHANGED <<permits, inflight, readers, queue, cancels>>

-----------------------------------------------------------------------------
(* check_inner                                                             *)

\* The read lock, match_route and the method check: without a route the
\* request is allowed, with a wrong method it is not.
MatchRoute(r) ==
  /\ pc[r] = "queued" /\ Granted(r)
  /\ queue' = SelectSeq(queue, LAMBDA w : w # r)
  /\ readers' = readers \cup {r}
  /\ \/ Settle(r, "route", 200, <<200>>) /\ Goto(r, "responding")
     \/ Settle(r, "method", 405, <<405>>) /\ Goto(r, "responding")
     \/ Goto(r, "plugins") /\ UNCHANGED <<status, logs, settled_by>>
  /\ UNCHANGED <<permits, inflight, cancels>>

\* execute_access_plugins: the chain continues, exits, or fails; if the engine
\* itself fails its JSON body is returned as it is.
AccessPlugins(r) ==
  /\ pc[r] = "plugins"
  /\ \/ Goto(r, "auth") /\ UNCHANGED <<status, logs, settled_by>>
     \/ \E s \in ExitStatuses : Settle(r, "exit", s, <<s>>) /\ Goto(r, "closing")
     \/ Settle(r, "plugin", 500, <<500>>) /\ Goto(r, "closing")
     \/ EngineFails /\ Settle(r, "engine", 200, <<>>) /\ Goto(r, "responding")
  /\ UNCHANGED <<permits, inflight, readers, queue, cancels>>

\* Mutant of Auth: the denial is logged here and again by early_deny.
AuthLogsToo(r) ==
  /\ pc[r] = "auth"
  /\ \/ Goto(r, "limit") /\ UNCHANGED <<status, logs, settled_by>>
     \/ \E s \in {401, 403, 503} : Settle(r, "auth", s, <<s>>) /\ Goto(r, "denying")
  /\ UNCHANGED <<permits, inflight, readers, queue, cancels>>

\* apply_auth: not required or valid, or denied with the error's status.
Auth(r) ==
  /\ pc[r] = "auth"
  /\ \/ Goto(r, "limit") /\ UNCHANGED <<status, logs, settled_by>>
     \/ \E s \in {401, 403, 503} : Settle(r, "auth", s, <<>>) /\ Goto(r, "denying")
  /\ UNCHANGED <<permits, inflight, readers, queue, cancels>>

\* rate_limiter.check: allowed, denied, or unavailable.
Limit(r) ==
  /\ pc[r] = "limit"
  /\ \/ \E s \in {200, 429} : Settle(r, "limit", s, <<s>>) /\ Goto(r, "closing")
     \/ Settle(r, "limit", 503, <<>>) /\ Goto(r, "denying")
  /\ UNCHANGED <<permits, inflight, readers, queue, cancels>>

\* Mutant of PluginLog: it reads config_state again, behind a waiting writer.
PluginLogRelocks(r) ==
  /\ pc[r] \in {"closing", "denying"}
  /\ Reload \notin ToSet(queue)
  /\ logs' = IF pc[r] = "denying" THEN [logs EXCEPT ![r] = Append(@, status[r])] ELSE logs
  /\ Goto(r, "responding")
  /\ UNCHANGED <<permits, inflight, readers, queue, status, settled_by, cancels>>

\* run_plugin_log, then early_deny's log entry where there is none yet.
PluginLog(r) ==
  /\ pc[r] \in {"closing", "denying"}
  /\ logs' = IF pc[r] = "denying" THEN [logs EXCEPT ![r] = Append(@, status[r])] ELSE logs
  /\ Goto(r, "responding")
  /\ UNCHANGED <<permits, inflight, readers, queue, status, settled_by, cancels>>

-----------------------------------------------------------------------------
(* The reload handler at config_state.write()                              *)

RequestWrite ==
  /\ Reload \notin ToSet(queue)
  /\ queue' = Append(queue, Reload)
  /\ UNCHANGED <<permits, inflight, readers, pc, status, logs, settled_by, cancels>>

\* The locked section has no await.
Write ==
  /\ Granted(Reload)
  /\ queue' = Tail(queue)
  /\ UNCHANGED <<permits, inflight, readers, pc, status, logs, settled_by, cancels>>

Stage(r) ==
  MatchRoute(r) \/ AccessPlugins(r) \/ Auth(r) \/ Limit(r) \/ PluginLog(r) \/ Respond(r)

Next ==
  \/ \E r \in Slots : Admit(r) \/ Overload(r) \/ Stage(r) \/ GiveUp(r) \/ Reuse(r)
  \/ RequestWrite
  \/ Write

Spec == Init /\ [][Next]_vars

\* Every await of a check ends: the JWKS wait and the Redis calls have timeouts,
\* the plugin chain has limits, and a lock that is free goes to its first waiter.
FairSpec ==
  /\ Spec
  /\ \A r \in Slots : WF_vars(Stage(r))
  /\ WF_vars(Write)

-----------------------------------------------------------------------------
\* No permit is lost or made up, however a check ends: answered on any of its
\* paths, or dropped at any of its awaits (_permit in check).
PermitsConserved ==
  permits + Cardinality(Active) = MaxConcurrent

\* The gauge exceeds the checks in flight by exactly the checks given up: every
\* other path lowers it once (inc_inflight and dec_inflight in check).
GaugeDrift ==
  inflight = Cardinality(Active) + cancels

\* Log and answer agree: a check that comes to its answer has been logged once,
\* with that answer's status, except that an overloaded gateway and a failing
\* plugin engine answer without an entry, and that a plugin's exit with a number
\* that is no HTTP status is logged as it is and answered as 200 (emit_log).
LogAgrees ==
  \A r \in Slots :
    /\ Len(logs[r]) <= 1
    /\ pc[r] \in {"responding", "answered"} =>
         IF settled_by[r] \in {"overload", "engine"}
           THEN logs[r] = <<>>
           ELSE \/ logs[r] = <<status[r]>>
                \/ settled_by[r] = "exit" /\ logs[r][1] \notin 100..999

\* Every admitted check ends, though reloads keep queueing for the config lock
\* it holds (check_inner takes that lock once), and a reload gets its write lock
\* under any load of checks.
NobodyStarves ==
  /\ \A r \in Slots : pc[r] \in Inside ~> pc[r] \in {"answered", "gone"}
  /\ Reload \in ToSet(queue) ~> Reload \notin ToSet(queue)

=============================================================================
