------------------------- MODULE ConfigReload_proofs -------------------------
(***************************************************************************)
(* NoStaleInstance for any number of reloads, requests and worker threads: *)
(* the generation is a faithful name of the config a runtime was built     *)
(* from, so comparing generations is enough to keep the VM caches apart.   *)
(***************************************************************************)
EXTENDS ConfigReload, TLAPS

\* Every state has the types of TypeOK: no reload, request or VM ever holds a
\* generation the counter has not handed out (next_generation).
THEOREM TypeCorrect == Spec => []TypeOK
<1> USE ReloadAssumption DEF Runtime
<1>1. Init => TypeOK
  <2>1. Init => file_failed \in BOOLEAN /\ raced \in BOOLEAN
    BY Zenon DEF Init
  <2> QED
    BY <2>1 DEF Init, TypeOK
<1>2. TypeOK /\ [Next]_vars => TypeOK'
  <2> SUFFICES ASSUME TypeOK, [Next]_vars
               PROVE  TypeOK'
    OBVIOUS
  <2> USE DEF TypeOK, engineVars, stateVars, reloadVars, requestVars
  <2>1. ASSUME NEW a \in Reloads, NEW b \in Configs, ReadFile(a, b) PROVE TypeOK'
    <3>1. raced' \in BOOLEAN
      BY <2>1, Zenon DEF ReadFile
    <3> QED
      BY <2>1, <3>1 DEF ReadFile, Step
  <2>2. ASSUME NEW a \in Reloads, BuildPlugins(a) PROVE TypeOK'
    <3>1. next_generation \in 0..MaxGeneration /\ next_generation' \in 1..(MaxGeneration + 1)
      BY <2>2 DEF BuildPlugins
    <3> QED
      BY <2>2, <3>1 DEF BuildPlugins, Step
  <2>3. ASSUME NEW a \in Reloads, SwapPlugins(a) PROVE TypeOK'
    BY <2>3 DEF SwapPlugins, Step
  <2>4. ASSUME NEW a \in Reloads, RebuildXds(a) PROVE TypeOK'
    BY <2>4 DEF RebuildXds, Step
  <2>5. ASSUME NEW a \in Reloads, Apply(a) PROVE TypeOK'
    <3>1. file_failed' \in BOOLEAN
      BY <2>5, Zenon DEF Apply
    <3> QED
      BY <2>5, <3>1 DEF Apply, Leave, Step
  <2>6. ASSUME NEW a \in Reloads, Reject(a) PROVE TypeOK'
    BY <2>6 DEF Reject, Leave, Step
  <2>7. ASSUME NEW a \in Reloads, CancelReload(a) PROVE TypeOK'
    <3>1. raced' \in BOOLEAN
      BY <2>7, Zenon DEF CancelReload
    <3> QED
      BY <2>7, <3>1 DEF CancelReload, Leave, Step
  <2>8. ASSUME NEW r \in Requests, LockConfig(r) PROVE TypeOK'
    BY <2>8 DEF LockConfig, Goto
  <2>9. ASSUME NEW r \in Requests, CloneRuntime(r) PROVE TypeOK'
    BY <2>9 DEF CloneRuntime, Goto
  <2>10. ASSUME NEW r \in Requests, Decide(r) PROVE TypeOK'
    BY <2>10 DEF Decide, Goto
  <2>11. ASSUME NEW r \in Requests, DropRequest(r) PROVE TypeOK'
    BY <2>11 DEF DropRequest, Release, Goto
  <2>12. ASSUME NEW r \in Requests, NEW t \in Threads, RunChain(r, t) PROVE TypeOK'
    <3> DEFINE v == prepare(vm[t], runtime[r].generation)
    <3>1. /\ v \in [generation : 0..MaxGeneration, config : Configs \cup {None}]
          /\ plugin_instance(v, runtime[r]) \in Configs
      BY DEF prepare, plugin_instance
    <3>2. /\ vm' \in [Threads -> [generation : 0..MaxGeneration, config : Configs \cup {None}]]
          /\ used' \in [Requests -> Configs \cup {None}]
      <4> HIDE DEF v
      <4>1. \/ /\ vm' = [vm EXCEPT ![t] = [generation |-> v.generation,
                                           config |-> plugin_instance(v, runtime[r])]]
               /\ used' = [used EXCEPT ![r] = plugin_instance(v, runtime[r])]
            \/ /\ vm' = [vm EXCEPT ![t] = v]
               /\ used' = [used EXCEPT ![r] = None]
        BY <2>12 DEF RunChain, v
      <4>2. [generation |-> v.generation, config |-> plugin_instance(v, runtime[r])]
              \in [generation : 0..MaxGeneration, config : Configs \cup {None}]
        BY <3>1
      <4>3. \E x \in [generation : 0..MaxGeneration, config : Configs \cup {None}],
               y \in Configs \cup {None} :
              vm' = [vm EXCEPT ![t] = x] /\ used' = [used EXCEPT ![r] = y]
        BY <3>1, <4>1, <4>2, Zenon
      <4>4. PICK x \in [generation : 0..MaxGeneration, config : Configs \cup {None}],
                 y \in Configs \cup {None} :
              vm' = [vm EXCEPT ![t] = x] /\ used' = [used EXCEPT ![r] = y]
        BY <4>3
      <4>5. used' \in [Requests -> Configs \cup {None}]
        BY <4>4
      <4>6. vm' \in [Threads -> [generation : 0..MaxGeneration, config : Configs \cup {None}]]
        BY <4>4, Zenon
      <4> QED
        BY <4>5, <4>6
    <3>3. /\ readers' \subseteq Requests
          /\ pc' \in [Requests -> {"idle", "cloning", "running", "deciding"}]
          /\ seen' \in [Requests -> Configs]
          /\ phase' \in [Requests -> {"access", "log"}]
      <4>1. \/ Goto(r, "deciding") /\ UNCHANGED <<readers, seen, phase>>
            \/ Release(r)
        BY <2>12 DEF RunChain
      <4>2. CASE Goto(r, "deciding") /\ UNCHANGED <<readers, seen, phase>>
        BY <4>2 DEF Goto
      <4>3. CASE Release(r)
        BY <4>3 DEF Release, Goto
      <4> QED
        BY <4>1, <4>2, <4>3
    <3>4. UNCHANGED <<engineVars, snapshot, stateVars, reloadVars, runtime>>
      BY <2>12 DEF RunChain
    <3> QED
      <4> HIDE DEF v
      <4> QED
        BY <3>2, <3>3, <3>4
  <2>13. CASE UNCHANGED vars
    BY <2>13 DEF vars
  <2> QED
    BY <2>1, <2>2, <2>3, <2>4, <2>5, <2>6, <2>7, <2>8, <2>9, <2>10, <2>11,
       <2>12, <2>13 DEF Next
<1> QED
  BY <1>1, <1>2, PTL DEF Spec

\* No step but BuildPlugins gives a generation a config it did not have.
LEMMA TagsPersist ==
  ASSUME TypeOK, [Next]_vars, \A a \in Reloads : ~BuildPlugins(a),
         NEW g \in 0..MaxGeneration, NEW c \in Configs, Tagged(g, c)'
  PROVE  Tagged(g, c) /\ next_generation' = next_generation
<1> USE ReloadAssumption DEF TypeOK, Runtime, Tagged, engineVars, stateVars,
        reloadVars, requestVars
<1>1. ASSUME NEW a \in Reloads, NEW b \in Configs, ReadFile(a, b)
      PROVE  Tagged(g, c) /\ next_generation' = next_generation
  BY <1>1 DEF ReadFile, Step
<1>2. ASSUME NEW a \in Reloads, SwapPlugins(a)
      PROVE  Tagged(g, c) /\ next_generation' = next_generation
  BY <1>2 DEF SwapPlugins, Step
<1>3. ASSUME NEW a \in Reloads,
             RebuildXds(a) \/ Apply(a) \/ Reject(a) \/ CancelReload(a)
      PROVE  Tagged(g, c) /\ next_generation' = next_generation
  BY <1>3 DEF RebuildXds, Apply, Reject, CancelReload, Leave, Step
<1>4. ASSUME NEW r \in Requests, LockConfig(r) \/ Decide(r) \/ DropRequest(r)
      PROVE  Tagged(g, c) /\ next_generation' = next_generation
  BY <1>4 DEF LockConfig, Decide, DropRequest
<1>5. ASSUME NEW r \in Requests, CloneRuntime(r)
      PROVE  Tagged(g, c) /\ next_generation' = next_generation
  BY <1>5 DEF CloneRuntime
<1>6. ASSUME NEW r \in Requests, NEW t \in Threads, RunChain(r, t)
      PROVE  Tagged(g, c) /\ next_generation' = next_generation
  <2> DEFINE v == prepare(vm[t], runtime[r].generation)
  <2>1. v.config # None => v = vm[t]
    BY DEF prepare
  <2>2. v.generation = runtime[r].generation
    BY DEF prepare
  <2>3. CASE vm' = [vm EXCEPT ![t] = v]
    BY <1>6, <2>1, <2>3 DEF RunChain
  <2>4. CASE vm' = [vm EXCEPT ![t] = [generation |-> v.generation,
                                      config |-> plugin_instance(v, runtime[r])]]
    BY <1>6, <2>1, <2>2, <2>4 DEF RunChain, plugin_instance
  <2> QED
    BY <1>6, <2>3, <2>4 DEF RunChain
<1>7. CASE UNCHANGED vars
  BY <1>7 DEF vars
<1> QED
  BY <1>1, <1>2, <1>3, <1>4, <1>5, <1>6, <1>7 DEF Next

\* BuildPlugins tags only the generation it takes, with the config it read.
LEMMA BuildTagsFresh ==
  ASSUME TypeOK, NEW a \in Reloads, BuildPlugins(a),
         NEW g \in 0..MaxGeneration, NEW c \in Configs, Tagged(g, c)'
  PROVE  /\ Tagged(g, c) \/ (g = next_generation /\ c = new[a])
         /\ next_generation' = next_generation + 1
BY DEF BuildPlugins, Step, TypeOK, Tagged, requestVars

\* A generation names one config wherever it is held (fetch_add in
\* next_generation; the counter is ahead of every generation in use).
THEOREM GenerationsNameConfigs == Spec => []GenerationsUnique
<1>1. Init => GenerationsUnique
  BY ReloadAssumption DEF Init, GenerationsUnique, Tagged
<1>2. TypeOK /\ GenerationsUnique /\ [Next]_vars => GenerationsUnique'
  <2> SUFFICES ASSUME TypeOK, GenerationsUnique, [Next]_vars,
                      NEW g \in 0..MaxGeneration, NEW c \in Configs, NEW d \in Configs,
                      Tagged(g, c)'
               PROVE  (Tagged(g, d)' => c = d) /\ g < next_generation'
    BY DEF GenerationsUnique
  <2>1. CASE \A a \in Reloads : ~BuildPlugins(a)
    BY <2>1, TagsPersist DEF GenerationsUnique
  <2>2. ASSUME NEW a \in Reloads, BuildPlugins(a)
        PROVE  (Tagged(g, d)' => c = d) /\ g < next_generation'
    <3>1. next_generation \in Int
      BY DEF TypeOK
    <3>2. /\ Tagged(g, c) \/ (g = next_generation /\ c = new[a])
          /\ next_generation' = next_generation + 1
      BY <2>2, BuildTagsFresh
    <3>3. Tagged(g, d)' => Tagged(g, d) \/ (g = next_generation /\ d = new[a])
      BY <2>2, BuildTagsFresh
    <3> QED
      BY <3>1, <3>2, <3>3 DEF GenerationsUnique
  <2> QED
    BY <2>1, <2>2
<1> QED
  BY <1>1, <1>2, TypeCorrect, PTL DEF Spec

\* A request runs the plugin instances of exactly the runtime it cloned, for
\* any interleaving of reloads and requests on any worker threads (prepare,
\* plugin_instance).
THEOREM InstancesFresh == Spec => []NoStaleInstance
<1>1. Init => NoStaleInstance
  BY DEF Init, NoStaleInstance
<1>2. TypeOK /\ GenerationsUnique /\ NoStaleInstance /\ [Next]_vars => NoStaleInstance'
  <2> SUFFICES ASSUME TypeOK, GenerationsUnique, NoStaleInstance, [Next]_vars
               PROVE  NoStaleInstance'
    OBVIOUS
  <2> USE DEF TypeOK, NoStaleInstance, engineVars, stateVars, reloadVars, requestVars
  <2>1. ASSUME NEW r \in Requests, NEW t \in Threads, RunChain(r, t)
        PROVE  NoStaleInstance'
    <3>1. vm[t].config # None /\ vm[t].generation = runtime[r].generation
            => vm[t].config = runtime[r].config
      BY DEF GenerationsUnique, Tagged, Runtime
    <3>2. \/ used' = [used EXCEPT ![r] = runtime[r].config]
          \/ used' = [used EXCEPT ![r] = None]
      BY <2>1, <3>1 DEF RunChain, prepare, plugin_instance
    <3> QED
      BY <2>1, <3>2 DEF RunChain, Release, Goto
  <2>2. ASSUME NEW r \in Requests, LockConfig(r) \/ Decide(r) \/ DropRequest(r)
        PROVE  NoStaleInstance'
    BY <2>2 DEF LockConfig, Decide, DropRequest, Release, Goto
  <2>3. ASSUME NEW r \in Requests, CloneRuntime(r) PROVE NoStaleInstance'
    BY <2>3 DEF CloneRuntime, Goto
  <2>4. ASSUME NEW a \in Reloads,
               \/ \E c \in Configs : ReadFile(a, c)
               \/ BuildPlugins(a) \/ SwapPlugins(a) \/ RebuildXds(a)
               \/ Apply(a) \/ Reject(a) \/ CancelReload(a)
        PROVE  NoStaleInstance'
    BY <2>4 DEF ReadFile, BuildPlugins, SwapPlugins, RebuildXds, Apply, Reject, CancelReload
  <2>5. CASE UNCHANGED vars
    BY <2>5 DEF vars
  <2> QED
    BY <2>1, <2>2, <2>3, <2>4, <2>5 DEF Next
<1> QED
  BY <1>1, <1>2, TypeCorrect, GenerationsNameConfigs, PTL DEF Spec

=============================================================================
