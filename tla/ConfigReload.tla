---------------------------- MODULE ConfigReload ----------------------------
(***************************************************************************)
(* POST /config/reload (admin/handlers.rs) with everything it replaces in  *)
(* turn: the plugin runtime (plugins/mod.rs, types.rs), the xDS snapshot,  *)
(* config_state and the generated Envoy file; and the ext_authz requests   *)
(* that read these while reloads run.  A request keeps the read lock of    *)
(* config_state for its whole life, clones the plugin runtime once for the *)
(* access and once for the log phase, and runs the clone on some worker    *)
(* thread's Lua VM, which caches plugin instances (plugins/pool.rs).       *)
(*                                                                         *)
(* A config is a name; what is built from it is represented by that name.  *)
(* The write-locked sections contain no await and are one step each.  Time *)
(* and result of the last reload, which only the status page reads, are    *)
(* left out.                                                               *)
(***************************************************************************)
EXTENDS Integers

CONSTANTS
  Configs,         \* contents the config file may have
  Initial,         \* the one the gateway started with
  Invalid,         \* those that validation refuses
  Broken,          \* those whose plugins do not build
  Reloads,         \* concurrent reload handlers (task slots)
  Requests,        \* concurrent checks (task slots)
  Threads,         \* worker threads
  MaxGeneration,   \* bound: plugin generations
  None             \* no config

ASSUME ReloadAssumption ==
  /\ Invalid \subseteq Configs /\ Broken \subseteq Configs
  /\ Initial \in Configs \ (Invalid \cup Broken)
  /\ None \notin Configs
  /\ MaxGeneration \in Nat \ {0}

VARIABLES
  next_generation,    \* PluginEngine
  plugins,            \* its runtime: generation and config
  snapshot,           \* config of the xDS snapshot
  config,             \* of config_state
  envoy_file,         \* config of the generated file
  file_failed,        \* the last write of that file failed
  readers,            \* requests that hold the read lock
  lpc, new, gen,      \* per reload: state, config read, generation
  pc, seen, runtime,  \* per request: state, config, runtime clone
  phase,              \* per request: "access" or "log"
  used,               \* per request: config of the plugin instance it ran
  vm,                 \* per thread: generation and config of the instances
  raced               \* history: reloads overlapped, or one was dropped

engineVars == <<next_generation, plugins>>
stateVars == <<config, envoy_file, file_failed>>
reloadVars == <<lpc, new, gen, raced>>
requestVars == <<readers, pc, seen, runtime, phase, used>>
vars == <<engineVars, snapshot, stateVars, reloadVars, requestVars, vm>>

Runtime == [generation : 0..MaxGeneration, config : Configs]

Init ==
  /\ next_generation = 2
  /\ plugins = [generation |-> 1, config |-> Initial]
  /\ snapshot = Initial
  /\ config = Initial
  /\ envoy_file = Initial
  /\ file_failed = FALSE
  /\ readers = {}
  /\ lpc = [a \in Reloads |-> "idle"]
  /\ new = [a \in Reloads |-> Initial]
  /\ gen = [a \in Reloads |-> 0]
  /\ pc = [r \in Requests |-> "idle"]
  /\ seen = [r \in Requests |-> Initial]
  /\ runtime = [r \in Requests |-> plugins]
  /\ phase = [r \in Requests |-> "access"]
  /\ used = [r \in Requests |-> None]
  /\ vm = [t \in Threads |-> [generation |-> 0, config |-> None]]
  /\ raced = FALSE

-----------------------------------------------------------------------------
(* config_reload and apply_config_reload                                   *)

Step(a, state) == lpc' = [lpc EXCEPT ![a] = state]

\* The handler is gone, and its locals with it.
Leave(a) ==
  /\ Step(a, "idle")
  /\ new' = [new EXCEPT ![a] = Initial]
  /\ gen' = [gen EXCEPT ![a] = 0]

\* The file, which holds c now, is read, parsed and validated; a file that
\* cannot be read is one of the invalid contents.
ReadFile(a, c) ==
  /\ lpc[a] = "idle"
  /\ new' = [new EXCEPT ![a] = c]
  /\ Step(a, IF c \in Invalid THEN "rejecting" ELSE "building")
  /\ raced' = (raced \/ \E b \in Reloads \ {a} : lpc[b] # "idle")
  /\ UNCHANGED <<engineVars, snapshot, stateVars, gen, requestVars, vm>>

\* Mutant of BuildPlugins: the build's failure is dropped.
BuildPluginsIgnored(a) ==
  /\ lpc[a] = "building" /\ next_generation <= MaxGeneration
  /\ gen' = [gen EXCEPT ![a] = next_generation]
  /\ next_generation' = next_generation + 1
  /\ Step(a, "swapping")
  /\ UNCHANGED <<plugins, snapshot, stateVars, new, raced, requestVars, vm>>

\* reload_from_config: a generation is taken, then the runtime is built; a
\* build that fails has used its generation up.
BuildPlugins(a) ==
  /\ lpc[a] = "building" /\ next_generation <= MaxGeneration
  /\ gen' = [gen EXCEPT ![a] = next_generation]
  /\ next_generation' = next_generation + 1
  /\ Step(a, IF new[a] \in Broken THEN "rejecting" ELSE "swapping")
  /\ UNCHANGED <<plugins, snapshot, stateVars, new, raced, requestVars, vm>>

\* replace_runtime
SwapPlugins(a) ==
  /\ lpc[a] = "swapping"
  /\ plugins' = [generation |-> gen[a], config |-> new[a]]
  /\ Step(a, "rebuilding")
  /\ UNCHANGED <<next_generation, snapshot, stateVars, new, raced, gen,
                 requestVars, vm>>

\* xds.rebuild_from_config: the snapshot is written and broadcast (XdsServer).
\* It cannot fail for a config that passed validation.
RebuildXds(a) ==
  /\ lpc[a] = "rebuilding"
  /\ snapshot' = new[a]
  /\ Step(a, "applying")
  /\ UNCHANGED <<engineVars, stateVars, new, raced, gen, requestVars, vm>>

\* Mutant of Apply: the Envoy file is generated from the snapshot's config
\* instead of the one just stored.
ApplyFromSnapshot(a) ==
  /\ lpc[a] = "applying" /\ readers = {}
  /\ config' = new[a]
  /\ \/ envoy_file' = snapshot /\ file_failed' = FALSE
     \/ file_failed' = TRUE /\ UNCHANGED envoy_file
  /\ Leave(a)
  /\ UNCHANGED <<engineVars, snapshot, raced, requestVars, vm>>

\* Mutant of Apply: config_state keeps the old config.
ApplyNothing(a) ==
  /\ lpc[a] = "applying" /\ readers = {}
  /\ \/ envoy_file' = new[a] /\ file_failed' = FALSE
     \/ file_failed' = TRUE /\ UNCHANGED envoy_file
  /\ Leave(a)
  /\ UNCHANGED <<engineVars, snapshot, config, raced,
                 requestVars, vm>>

\* Under the write lock: config_state, then the Envoy file, whose failure is
\* only logged.
Apply(a) ==
  /\ lpc[a] = "applying" /\ readers = {}
  /\ config' = new[a]
  /\ \/ envoy_file' = new[a] /\ file_failed' = FALSE
     \/ file_failed' = TRUE /\ UNCHANGED envoy_file
  /\ Leave(a)
  /\ UNCHANGED <<engineVars, snapshot, raced, requestVars, vm>>

\* reload_validation_error, under the write lock: it only records the failure.
Reject(a) ==
  /\ lpc[a] = "rejecting" /\ readers = {}
  /\ Leave(a)
  /\ UNCHANGED <<engineVars, snapshot, stateVars, raced,
                 requestVars, vm>>

\* The admin client goes away: the handler is dropped at an await.
CancelReload(a) ==
  /\ lpc[a] \in {"swapping", "rebuilding", "applying", "rejecting"}
  /\ Leave(a)
  /\ raced' = TRUE
  /\ UNCHANGED <<engineVars, snapshot, stateVars, requestVars, vm>>

-----------------------------------------------------------------------------
(* check_inner, as far as configuration goes                               *)

Goto(r, state) == pc' = [pc EXCEPT ![r] = state]

\* The check is over, and its guard and its view of the config with it.
Release(r) ==
  /\ Goto(r, "idle")
  /\ readers' = readers \ {r}
  /\ seen' = [seen EXCEPT ![r] = Initial]
  /\ phase' = [phase EXCEPT ![r] = "access"]

\* Mutant of LockConfig: the config is cloned and the guard dropped at once.
LockConfigClones(r) ==
  /\ pc[r] = "idle"
  /\ seen' = [seen EXCEPT ![r] = config]
  /\ used' = [used EXCEPT ![r] = None]
  /\ Goto(r, "cloning")
  /\ UNCHANGED <<engineVars, snapshot, stateVars, reloadVars, readers, runtime,
                 phase, vm>>

LockConfig(r) ==
  /\ pc[r] = "idle"
  /\ readers' = readers \cup {r}
  /\ seen' = [seen EXCEPT ![r] = config]
  /\ used' = [used EXCEPT ![r] = None]
  /\ Goto(r, "cloning")
  /\ UNCHANGED <<engineVars, snapshot, stateVars, reloadVars, runtime, phase,
                 vm>>

\* self.runtime().await in execute_access and in execute_log
CloneRuntime(r) ==
  /\ pc[r] = "cloning"
  /\ runtime' = [runtime EXCEPT ![r] = plugins]
  /\ Goto(r, "running")
  /\ UNCHANGED <<engineVars, snapshot, stateVars, reloadVars, readers,
                 seen, phase, used, vm>>

\* Mutant of prepare: the VM only moves forward.
prepareForward(v, generation) ==
  IF v.generation < generation
    THEN [generation |-> generation, config |-> None]
    ELSE v

\* ThreadLocalVm::prepare: another generation clears the instances.
prepare(v, generation) ==
  IF v.generation # generation
    THEN [generation |-> generation, config |-> None]
    ELSE v

\* plugin_instance: the cached instance, or one made from the binding.
plugin_instance(v, rt) == IF v.config # None THEN v.config ELSE rt.config

\* with_thread_local_vm runs the whole chain without an await; the sandbox or
\* the plugin's constructor may fail before there is an instance.
RunChain(r, t) ==
  /\ pc[r] = "running"
  /\ LET v == prepare(vm[t], runtime[r].generation)
         instance == plugin_instance(v, runtime[r])
     IN  \/ /\ vm' = [vm EXCEPT ![t] = [generation |-> v.generation, config |-> instance]]
            /\ used' = [used EXCEPT ![r] = instance]
         \/ /\ vm' = [vm EXCEPT ![t] = v]
            /\ used' = [used EXCEPT ![r] = None]
  /\ \/ phase[r] = "access" /\ Goto(r, "deciding") /\ UNCHANGED <<readers, seen, phase>>
     \/ phase[r] = "log" /\ Release(r)
  /\ UNCHANGED <<engineVars, snapshot, stateVars, reloadVars, runtime>>

\* Authentication and rate limiting, then the log phase.
Decide(r) ==
  /\ pc[r] = "deciding"
  /\ phase' = [phase EXCEPT ![r] = "log"]
  /\ Goto(r, "cloning")
  /\ UNCHANGED <<engineVars, snapshot, stateVars, reloadVars, readers,
                 seen, runtime, used, vm>>

\* Envoy gives the check up: it is dropped at an await, and its guard with it.
DropRequest(r) ==
  /\ pc[r] \in {"cloning", "deciding"}
  /\ Release(r)
  /\ used' = [used EXCEPT ![r] = None]
  /\ UNCHANGED <<engineVars, snapshot, stateVars, reloadVars, runtime, vm>>

-----------------------------------------------------------------------------
Next ==
  \/ \E a \in Reloads :
       \/ \E c \in Configs : ReadFile(a, c)
       \/ BuildPlugins(a) \/ SwapPlugins(a) \/ RebuildXds(a)
       \/ Apply(a) \/ Reject(a) \/ CancelReload(a)
  \/ \E r \in Requests :
       \/ LockConfig(r) \/ CloneRuntime(r) \/ Decide(r) \/ DropRequest(r)
       \/ \E t \in Threads : RunChain(r, t)

Spec == Init /\ [][Next]_vars

-----------------------------------------------------------------------------
TypeOK ==
  /\ next_generation \in 1..(MaxGeneration + 1)
  /\ plugins \in Runtime
  /\ snapshot \in Configs /\ config \in Configs /\ envoy_file \in Configs
  /\ file_failed \in BOOLEAN
  /\ readers \subseteq Requests
  /\ lpc \in [Reloads -> {"idle", "building", "swapping", "rebuilding", "applying", "rejecting"}]
  /\ new \in [Reloads -> Configs]
  /\ raced \in BOOLEAN
  /\ gen \in [Reloads -> 0..MaxGeneration]
  /\ pc \in [Requests -> {"idle", "cloning", "running", "deciding"}]
  /\ seen \in [Requests -> Configs] /\ runtime \in [Requests -> Runtime]
  /\ phase \in [Requests -> {"access", "log"}]
  /\ used \in [Requests -> Configs \cup {None}]
  /\ vm \in [Threads -> [generation : 0..MaxGeneration, config : Configs \cup {None}]]

\* A request runs exactly the plugin instances of the runtime it cloned,
\* although the VM caches instances of whatever ran on its thread before and
\* racing reloads may install an older generation over a newer one (prepare,
\* next_generation).
NoStaleInstance ==
  \A r \in Requests :
    used[r] # None /\ pc[r] # "running" => used[r] = runtime[r].config

\* Generation g is that of config c, as the engine, a request's clone, a VM's
\* cache or a reload about to swap sees it.
Tagged(g, c) ==
  \/ plugins.generation = g /\ plugins.config = c
  \/ \E r \in Requests : runtime[r].generation = g /\ runtime[r].config = c
  \/ \E t \in Threads : vm[t].generation = g /\ vm[t].config = c
  \/ \E a \in Reloads : lpc[a] = "swapping" /\ gen[a] = g /\ new[a] = c

\* A generation names one config wherever it is held, and the counter is ahead
\* of all of them: what makes NoStaleInstance inductive (next_generation).
GenerationsUnique ==
  \A g \in 0..MaxGeneration : \A c, d \in Configs :
    /\ Tagged(g, c) /\ Tagged(g, d) => c = d
    /\ Tagged(g, c) => g < next_generation

\* The Envoy file on disk is the one generated from the active config, whatever
\* reloads race, unless its last write failed (Apply holds the write lock).
FileMatchesConfig ==
  ~file_failed => envoy_file = config

\* "Keep the old config active": a config that validation or the plugin build
\* refused is never in force, in whole or in part (the early returns of
\* config_reload and apply_config_reload).
RefusedNeverActive ==
  {config, plugins.config, snapshot, envoy_file} \cap (Invalid \cup Broken) = {}

\* As long as reloads neither overlap nor are dropped, a reload is all or
\* nothing: between reloads plugin runtime, xDS snapshot and config_state are
\* of one config, also after reloads that failed (apply_config_reload).  The
\* handler takes no lock to exclude another reload, hence the condition.
AtomicReload ==
  ~raced /\ (\A a \in Reloads : lpc[a] = "idle") =>
    plugins.config = config /\ snapshot = config

\* Under the same condition a request runs the plugins of the config that
\* routes it, or those of the one reload that has swapped the runtime already
\* and now waits for the request's read lock (runtime, apply_config_reload).
PluginsAheadOnlyOfApply ==
  ~raced =>
    \A r \in Requests : pc[r] # "idle" /\ used[r] # None =>
      \/ used[r] = seen[r]
      \/ \E a \in Reloads :
           lpc[a] \in {"rebuilding", "applying"} /\ new[a] = used[r]

=============================================================================
