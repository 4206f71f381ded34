---------------------------- MODULE PluginChain -----------------------------
(***************************************************************************)
(* How one worker thread runs the Lua plugins of a request                 *)
(* (plugins/executor.rs): the chain that build_runtime made for the route, *)
(* its access phase, which a plugin may end with exit, an error or the     *)
(* chain timeout, and its log phase, in the reverse order.  The requests   *)
(* of a thread follow each other (nothing awaits while the VM is           *)
(* borrowed) and share the VM's cache of plugin instances.  The headers    *)
(* that plugins set (plugins/sdk.rs) are collected in the RuntimeState of  *)
(* the access phase; Pipeline models what becomes of them.                 *)
(*                                                                         *)
(* What a plugin does is an input.  A plugin may catch the error that exit *)
(* raises, or replace it by another one, so whether exit was called and    *)
(* how the call ended are two things.  ConfigReload models what a new      *)
(* generation does to the cache.                                           *)
(***************************************************************************)
EXTENDS Integers, Sequences, FiniteSets, SequencesExt, TLC

CONSTANTS
  Routes,         \* names of routes
  Global,         \* plugins.global
  RoutePlugins,   \* the plugins of each route
  Priority,       \* PRIORITY of each plugin of the directory, by name
  Statuses,       \* what plugins exit with
  HeaderSets,     \* the set_header calls of plugins: [api, name]
  None

ASSUME PluginChainAssumption ==
  \A r \in Routes : \A p \in ToSet(Global) \cup ToSet(RoutePlugins[r]) :
    p.name \in DOMAIN Priority /\ p.name \in Nat

VARIABLES
  instances,      \* the VM's cache: the config each instance was made with
  phase,          \* of the current request
  route,          \* its route
  pos,            \* the next binding of the phase
  short_circuit,  \* RuntimeState.short_circuit
  upstream_headers, response_headers,  \* of RuntimeState: who set each name
  result,         \* PluginAccessResult, or the engine's error
  calls           \* history: the access calls of the request

headers == <<upstream_headers, response_headers>>
vars == <<instances, phase, route, pos, short_circuit, headers, result, calls>>

-----------------------------------------------------------------------------
(* The chain of a route                                                    *)

\* Mutant of Id: the plugin's name alone.
IdOfPlugin(r, name) == <<name>>

\* format!("{route_name}:{}", instance.name)
Id(r, name) == <<r, name>>

Binding(r, p) ==
  [id |-> Id(r, p.name), name |-> p.name, fail_open |-> p.fail_mode = "open",
   config |-> p.config]

push_bindings(r, configured) ==
  LET enabled == SelectSeq(configured, LAMBDA p : p.enabled)
  IN [i \in DOMAIN enabled |-> Binding(r, enabled[i])]

\* A stable sort by priority, then name.
Chain(r) ==
  LET bindings == push_bindings(r, Global) \o push_bindings(r, RoutePlugins[r])
      Rank(i) == <<Priority[bindings[i].name], bindings[i].name, i>>
      Before(i, j) == \E k \in 1..3 :
                        /\ Rank(i)[k] < Rank(j)[k]
                        /\ \A l \in 1..(k - 1) : Rank(i)[l] = Rank(j)[l]
      order == SetToSortSeq(DOMAIN bindings, Before)
  IN [i \in DOMAIN order |-> bindings[order[i]]]

Current == Chain(route)[pos]
AtBinding(p) == phase = p /\ pos <= Len(Chain(route))

-----------------------------------------------------------------------------
(* The access phase                                                        *)

Init ==
  /\ instances = <<>>
  /\ phase = "idle" /\ route = None /\ pos = 0
  /\ short_circuit = None /\ result = None
  /\ upstream_headers = <<>> /\ response_headers = <<>>
  /\ calls = <<>>

\* Mutant of Start: the state of the request before is used again.
StartWithOldState(r) ==
  /\ phase = "idle"
  /\ phase' = "access" /\ route' = r /\ pos' = 1
  /\ result' = None /\ calls' = <<>>
  /\ UNCHANGED <<instances, short_circuit, headers>>

Start(r) ==
  /\ phase = "idle"
  /\ phase' = "access" /\ route' = r /\ pos' = 1
  /\ short_circuit' = None
  /\ upstream_headers' = <<>> /\ response_headers' = <<>>
  /\ result' = None /\ calls' = <<>>
  /\ UNCHANGED instances

\* The access phase is over; the caller answers and runs the log phase.
Finish(r) ==
  /\ result' = r
  /\ phase' = "log" /\ pos' = 1

\* with_thread_local_vm has no VM, or the VM has no memory for a table: the
\* caller answers at once and runs no log phase.
EngineFails ==
  /\ phase = "access" /\ pos = 1 /\ calls = <<>>
  /\ result' = [kind |-> "engine"]
  /\ phase' = "idle"
  /\ UNCHANGED <<instances, route, pos, short_circuit, headers, calls>>

Failed(cause) == [kind |-> "error", by |-> Current.name, cause |-> cause]

ChainTimesOut ==
  /\ AtBinding("access")
  /\ Finish(Failed("timeout"))
  /\ UNCHANGED <<instances, route, short_circuit, headers, calls>>

\* The plugin's source or its constructor fails, whatever the fail mode.
InstanceFails ==
  /\ AtBinding("access") /\ Current.id \notin DOMAIN instances
  /\ Finish(Failed("load"))
  /\ UNCHANGED <<instances, route, short_circuit, headers, calls>>

\* The cached instance, or a new one made with the binding's config.
plugin_instance ==
  instances' = IF Current.id \in DOMAIN instances THEN instances
               ELSE [id \in DOMAIN instances \cup {Current.id} |->
                       IF id = Current.id THEN Current.config ELSE instances[id]]

\* How a call of the phase function ended, and what exit was called with.
Calls == [end : {"ok", "error"}, exit : Statuses \cup {None}]
         \cup [end : {"exit"}, exit : Statuses]
         \cup [end : {"absent"}, exit : {None}]

\* The exit run_phase reports for a call that leaves state behind.
Outcome(end, state) == IF end \in {"ok", "exit"} THEN state ELSE None

\* A name is its prefix and the rest, in lower case as set_header puts it.
Reserved(name) == name[1] \in {"x-auth-", "x-ratelimit-", "x-envoy-"}

\* Mutant of set_header: the check for reserved names is left out.
set_any_header(call) ==
  /\ upstream_headers' = IF call # None /\ call.api = "service"
                         THEN (call.name :> Current.name) @@ upstream_headers
                         ELSE upstream_headers
  /\ response_headers' = IF call # None /\ call.api = "response"
                         THEN (call.name :> Current.name) @@ response_headers
                         ELSE response_headers

\* gateway.service.request.set_header raises an error for a reserved name;
\* gateway.response.set_header takes any.  The last plugin to set a name wins.
set_header(call) ==
  /\ upstream_headers' = IF call # None /\ call.api = "service" /\ ~Reserved(call.name)
                         THEN (call.name :> Current.name) @@ upstream_headers
                         ELSE upstream_headers
  /\ response_headers' = IF call # None /\ call.api = "response"
                         THEN (call.name :> Current.name) @@ response_headers
                         ELSE response_headers

\* The headers that a call sets stay, however it ends.
run_phase(call, header) ==
  LET exit == [status |-> call.exit, by |-> Current.name]
      state == IF call.exit = None THEN short_circuit ELSE exit
      reported == Outcome(call.end, state)
  IN /\ AtBinding("access")
     /\ call.end = "absent" => header = None
     /\ plugin_instance
     /\ set_header(header)
     /\ calls' = Append(calls, [binding |-> Current, call |-> call,
                                config |-> instances'[Current.id]])
     /\ short_circuit' = state
     /\ IF call.end = "error" /\ ~Current.fail_open
        THEN Finish(Failed("runtime"))
        ELSE IF reported # None
        THEN Finish([kind |-> "exit", by |-> reported.by, status |-> reported.status])
        ELSE pos' = pos + 1 /\ UNCHANGED <<phase, result>>
     /\ UNCHANGED route

Continue ==
  /\ phase = "access" /\ pos > Len(Chain(route))
  /\ Finish([kind |-> "continue"])
  /\ UNCHANGED <<instances, route, short_circuit, headers, calls>>

-----------------------------------------------------------------------------
(* The log phase: from the last binding to the first, errors ignored       *)

Logging == Reverse(Chain(route))[pos]

LogInstanceFails ==
  /\ AtBinding("log") /\ Logging.id \notin DOMAIN instances
  /\ pos' = pos + 1
  /\ UNCHANGED <<instances, phase, route, short_circuit, headers, result, calls>>

\* The log phase has a RuntimeState of its own, which nobody reads.
LogCall ==
  /\ AtBinding("log")
  /\ instances' = [id \in DOMAIN instances \cup {Logging.id} |->
                     IF id \in DOMAIN instances THEN instances[id] ELSE Logging.config]
  /\ pos' = pos + 1
  /\ UNCHANGED <<phase, route, short_circuit, headers, result, calls>>

\* The chain is through, or the engine fails before its first call, which
\* run_plugin_log ignores.
LogDone ==
  /\ phase = "log" /\ (pos = 1 \/ pos > Len(Chain(route)))
  /\ phase' = "idle"
  /\ UNCHANGED <<instances, route, pos, short_circuit, headers, result, calls>>

Next ==
  \/ \E r \in Routes : Start(r)
  \/ EngineFails \/ ChainTimesOut \/ InstanceFails \/ Continue
  \/ \E call \in Calls, header \in HeaderSets \cup {None} : run_phase(call, header)
  \/ LogInstanceFails \/ LogCall \/ LogDone

Spec == Init /\ [][Next]_vars

-----------------------------------------------------------------------------
(* Properties                                                              *)

Exited(k) == calls[k].call.exit # None
Heard(k) == calls[k].call.end \in {"ok", "exit"}

\* What ends the access phase is explained by this request's calls.  A
\* plugin's exit answers exactly when a call that ended well came with or
\* after an exit, and then with the status and the name of the last plugin
\* that called exit: an exit of an earlier request never answers
\* (RuntimeState::new).  A runtime error refuses the request only if the
\* configuration says that this plugin fails closed (fail_mode), and no plugin
\* is asked after one that exited, unless that one went on to fail and fails
\* open.
ResultExplained ==
  result # None =>
    /\ result.kind = "exit" <=>
         \E i, k \in DOMAIN calls : i <= k /\ Exited(i) /\ Heard(k)
    /\ result.kind = "exit" =>
         \E i \in DOMAIN calls :
           /\ Exited(i) /\ \A k \in DOMAIN calls : Exited(k) => k <= i
           /\ result.status = calls[i].call.exit
           /\ result.by = calls[i].binding.name
    /\ result.kind = "error" /\ result.cause = "runtime" =>
         \E p \in ToSet(Global) \cup ToSet(RoutePlugins[route]) :
           p.name = result.by /\ p.enabled /\ p.fail_mode # "open"
    /\ \A i \in DOMAIN calls :
         Exited(i) /\ i < Len(calls) =>
           calls[i].call.end = "error" /\ calls[i].binding.fail_open

Overridden(r) ==
  {p.name : p \in ToSet(Global)} \cap {p.name : p \in ToSet(RoutePlugins[r])}

\* A plugin runs with the config of its binding, across routes that
\* configure the same plugin differently, as long as it is not configured
\* both globally and on the route: those two bindings share an id, hence
\* one instance (push_bindings, plugin_instance).
OwnConfig ==
  \A i \in DOMAIN calls :
    calls[i].binding.name \notin Overridden(route) =>
      calls[i].config = calls[i].binding.config
=============================================================================
