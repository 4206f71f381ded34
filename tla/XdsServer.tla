----------------------------- MODULE XdsServer -----------------------------
(***************************************************************************)
(* The ADS server (xds/server.rs, registry.rs, snapshot.rs, version.rs):   *)
(* the shared snapshot, the registry of streams by node id, one task per   *)
(* stream with a bounded response channel, and the rebuilds that config    *)
(* reloads run, which take a version, write the snapshot and broadcast it. *)
(*                                                                         *)
(* A snapshot is its version: its resources are a function of the config   *)
(* it was built from.  Status bookkeeping for the admin API is left out.   *)
(* Every node id has a registry shard of its own; broadcast keeps the      *)
(* shard locked while it awaits room in the channel of that node's stream. *)
(***************************************************************************)
EXTENDS Integers, Sequences, SequencesExt

CONSTANTS
  Nodes,               \* Envoy node ids
  Streams,             \* ADS streams open at a time (slots)
  Rebuilds,            \* concurrent config reloads (task slots)
  TYPE_URLS_IN_ORDER,  \* resource types, in push order
  Capacity,            \* 16 in the code
  MaxVersion,          \* bound: snapshot versions
  None                 \* no stream, no node

ASSUME XdsAssumption ==
  /\ None \notin Nodes \cup Streams
  /\ Capacity \in Nat \ {0}
  /\ MaxVersion \in Nat

VARIABLES
  next,      \* VersionCounter
  snapshot,  \* version of the shared snapshot
  registry,  \* node id -> the stream whose sender it holds
  rpc, ver, todo, at, left, dead,  \* per rebuild: state, version, nodes to
             \* visit, node whose shard it holds, responses left, failed nodes
  pc, node,  \* per stream: the task's state, its Envoy
  open,      \* the client is there
  inbound,   \* per stream: the request on its way to the task, a type or None
  msg, out,  \* per stream: request being handled, responses left to send
  chan,      \* per stream: the bounded channel to the client
  got,       \* per stream: version the Envoy holds, per type
  asked, owed,  \* per stream: types requested, types to acknowledge
  covered,   \* history, per stream: types answered from the snapshot
  newest,    \* history, per stream: newest version delivered, per type
  abandoned  \* history: versions whose rebuild was dropped

rebuildVars == <<rpc, ver, todo, at, left, dead, abandoned>>
taskVars == <<pc, msg, out, covered>>
envoyVars == <<node, open, got, newest, asked, owed>>
vars == <<next, snapshot, registry, rebuildVars, taskVars, envoyVars, inbound, chan>>

Types == Range(TYPE_URLS_IN_ORDER)

\* A type the server does not know, or none.
Other == "other"

Requested == Types \cup {Other}

Init ==
  /\ next = 1
  /\ snapshot = 1
  /\ registry = [n \in Nodes |-> None]
  /\ rpc = [b \in Rebuilds |-> "idle"]
  /\ ver = [b \in Rebuilds |-> 1]
  /\ todo = [b \in Rebuilds |-> {}]
  /\ at = [b \in Rebuilds |-> None]
  /\ left = [b \in Rebuilds |-> <<>>]
  /\ dead = [b \in Rebuilds |-> {}]
  /\ pc = [s \in Streams |-> "new"]
  /\ node = [s \in Streams |-> None]
  /\ open = [s \in Streams |-> FALSE]
  /\ inbound = [s \in Streams |-> None]
  /\ msg = [s \in Streams |-> None]
  /\ out = [s \in Streams |-> <<>>]
  /\ chan = [s \in Streams |-> <<>>]
  /\ got = [s \in Streams |-> [t \in Types |-> 0]]
  /\ newest = [s \in Streams |-> [t \in Types |-> 0]]
  /\ asked = [s \in Streams |-> {}]
  /\ owed = [s \in Streams |-> {}]
  /\ covered = [s \in Streams |-> {}]
  /\ abandoned = {}

response_for(t, v) == [type |-> t, version |-> v]

ordered_responses(v) ==
  [i \in 1..Len(TYPE_URLS_IN_ORDER) |-> response_for(TYPE_URLS_IN_ORDER[i], v)]

Unlocked(n) == \A b \in Rebuilds : at[b] # n

HasRoom(s) == Len(chan[s]) < Capacity

-----------------------------------------------------------------------------
(* rebuild_from_config                                                     *)

\* VersionCounter::increment; a validated config always builds.
TakeVersion(b) ==
  /\ rpc[b] = "idle" /\ next < MaxVersion
  /\ next' = next + 1
  /\ ver' = [ver EXCEPT ![b] = next + 1]
  /\ rpc' = [rpc EXCEPT ![b] = "writing"]
  /\ UNCHANGED <<snapshot, registry, todo, at, left, dead, abandoned, taskVars,
                 envoyVars, inbound, chan>>

WriteSnapshot(b) ==
  /\ rpc[b] = "writing"
  /\ snapshot' = ver[b]
  /\ todo' = [todo EXCEPT ![b] = Nodes]
  /\ dead' = [dead EXCEPT ![b] = {}]
  /\ rpc' = [rpc EXCEPT ![b] = "broadcasting"]
  /\ UNCHANGED <<next, registry, ver, at, left, abandoned, taskVars, envoyVars, inbound,
                 chan>>

\* broadcast: the iterator reaches the shard of n.
Visit(b, n) ==
  /\ rpc[b] = "broadcasting" /\ at[b] = None /\ n \in todo[b]
  /\ todo' = [todo EXCEPT ![b] = @ \ {n}]
  /\ IF registry[n] = None
       THEN UNCHANGED <<at, left>>
       ELSE /\ at' = [at EXCEPT ![b] = n]
            /\ left' = [left EXCEPT ![b] = ordered_responses(ver[b])]
  /\ UNCHANGED <<next, snapshot, registry, rpc, ver, dead, abandoned, taskVars,
                 envoyVars, inbound, chan>>

\* The rebuild moves on to the next response, or out of the shard.
Advance(b, rest) ==
  /\ left' = [left EXCEPT ![b] = rest]
  /\ at' = IF rest = <<>> THEN [at EXCEPT ![b] = None] ELSE at

\* Mutant of Push: try_send, which drops the response if the channel is full.
PushTrySend(b) ==
  /\ at[b] # None
  /\ LET s == registry[at[b]]
     IN  \/ /\ open[s]
            /\ chan' = IF HasRoom(s)
                         THEN [chan EXCEPT ![s] = Append(@, Head(left[b]))]
                         ELSE chan
            /\ Advance(b, Tail(left[b]))
            /\ UNCHANGED dead
         \/ /\ ~open[s]
            /\ dead' = [dead EXCEPT ![b] = @ \cup {at[b]}]
            /\ Advance(b, <<>>)
            /\ UNCHANGED chan
  /\ UNCHANGED <<next, snapshot, registry, rpc, ver, todo, abandoned, taskVars,
                 envoyVars, inbound>>

\* Mutant of Push: a closed channel is not noticed, the send is tried again.
PushRetries(b) ==
  /\ at[b] # None
  /\ LET s == registry[at[b]]
     IN  /\ open[s] /\ HasRoom(s)
         /\ chan' = [chan EXCEPT ![s] = Append(@, Head(left[b]))]
         /\ Advance(b, Tail(left[b]))
  /\ UNCHANGED <<next, snapshot, registry, rpc, ver, todo, dead, abandoned, taskVars,
                 envoyVars, inbound>>

\* sender.send().await, with the shard locked: it waits for room and fails
\* when the receiver is gone.
Push(b) ==
  /\ at[b] # None
  /\ LET s == registry[at[b]]
     IN  \/ /\ open[s] /\ HasRoom(s)
            /\ chan' = [chan EXCEPT ![s] = Append(@, Head(left[b]))]
            /\ Advance(b, Tail(left[b]))
            /\ UNCHANGED dead
         \/ /\ ~open[s]
            /\ dead' = [dead EXCEPT ![b] = @ \cup {at[b]}]
            /\ Advance(b, <<>>)
            /\ UNCHANGED chan
  /\ UNCHANGED <<next, snapshot, registry, rpc, ver, todo, abandoned, taskVars,
                 envoyVars, inbound>>

\* The nodes whose stream failed are removed by node id.
RemoveDead(b, n) ==
  /\ rpc[b] = "broadcasting" /\ todo[b] = {} /\ at[b] = None
  /\ n \in dead[b] /\ Unlocked(n)
  /\ dead' = [dead EXCEPT ![b] = @ \ {n}]
  /\ registry' = [registry EXCEPT ![n] = None]
  /\ UNCHANGED <<next, snapshot, rpc, ver, todo, at, left, abandoned, taskVars,
                 envoyVars, inbound, chan>>

RebuildDone(b) ==
  /\ rpc[b] = "broadcasting" /\ todo[b] = {} /\ at[b] = None /\ dead[b] = {}
  /\ rpc' = [rpc EXCEPT ![b] = "idle"]
  /\ ver' = [ver EXCEPT ![b] = 1]
  /\ UNCHANGED <<next, snapshot, registry, todo, at, left, dead,
                 abandoned, taskVars, envoyVars, inbound, chan>>

\* The client of the reload goes away and the handler is dropped where it
\* awaits the lock of the snapshot or room in a channel: the shard is free again,
\* and the nodes not reached yet are not told.
Abandon(b) ==
  /\ rpc[b] = "writing" \/ at[b] # None
  /\ rpc' = [rpc EXCEPT ![b] = "idle"]
  /\ ver' = [ver EXCEPT ![b] = 1]
  /\ todo' = [todo EXCEPT ![b] = {}]
  /\ at' = [at EXCEPT ![b] = None]
  /\ left' = [left EXCEPT ![b] = <<>>]
  /\ dead' = [dead EXCEPT ![b] = {}]
  /\ abandoned' = abandoned \cup {ver[b]}
  /\ UNCHANGED <<next, snapshot, registry, taskVars, envoyVars, inbound, chan>>

-----------------------------------------------------------------------------
(* stream_aggregated_resources: the task of stream s                       *)

\* A request arrives; the first one registers the stream, replacing whatever
\* the node had.
Receive(s) ==
  /\ pc[s] \in {"unnamed", "reading"} /\ inbound[s] # None
  /\ \/ /\ pc[s] = "unnamed" /\ Unlocked(node[s])
        /\ registry' = [registry EXCEPT ![node[s]] = s]
     \/ /\ pc[s] = "reading"
        /\ UNCHANGED registry
  /\ msg' = [msg EXCEPT ![s] = inbound[s]]
  /\ inbound' = [inbound EXCEPT ![s] = None]
  /\ pc' = [pc EXCEPT ![s] = "answering"]
  /\ UNCHANGED <<next, snapshot, rebuildVars, out, covered, envoyVars, chan>>

\* Mutant of ReadSnapshot: an acknowledgement is not answered.
ReadSnapshotOnce(s) ==
  /\ pc[s] = "answering"
  /\ out' = [out EXCEPT ![s] =
       IF msg[s] \in covered[s] THEN <<>>
       ELSE IF msg[s] \in Types THEN <<response_for(msg[s], snapshot)>>
       ELSE ordered_responses(snapshot)]
  /\ covered' = [covered EXCEPT ![s] = @ \cup {r.type : r \in Range(out'[s])}]
  /\ msg' = [msg EXCEPT ![s] = None]
  /\ pc' = [pc EXCEPT ![s] = "sending"]
  /\ UNCHANGED <<next, snapshot, registry, rebuildVars, envoyVars, inbound, chan>>

\* The snapshot is cloned and the responses are chosen from the clone.
ReadSnapshot(s) ==
  /\ pc[s] = "answering"
  /\ out' = [out EXCEPT ![s] =
       IF msg[s] \in Types THEN <<response_for(msg[s], snapshot)>>
       ELSE ordered_responses(snapshot)]
  /\ covered' = [covered EXCEPT ![s] = @ \cup {r.type : r \in Range(out'[s])}]
  /\ msg' = [msg EXCEPT ![s] = None]
  /\ pc' = [pc EXCEPT ![s] = "sending"]
  /\ UNCHANGED <<next, snapshot, registry, rebuildVars, envoyVars, inbound, chan>>

Send(s) ==
  /\ pc[s] = "sending" /\ out[s] # <<>>
  /\ \/ /\ open[s] /\ HasRoom(s)
        /\ chan' = [chan EXCEPT ![s] = Append(@, Head(out[s]))]
        /\ out' = [out EXCEPT ![s] = Tail(@)]
     \/ /\ ~open[s]
        /\ out' = [out EXCEPT ![s] = <<>>]
        /\ UNCHANGED chan
  /\ UNCHANGED <<next, snapshot, registry, rebuildVars, pc, msg, covered,
                 envoyVars, inbound>>

SendDone(s) ==
  /\ pc[s] = "sending" /\ out[s] = <<>>
  /\ pc' = [pc EXCEPT ![s] = "reading"]
  /\ UNCHANGED <<next, snapshot, registry, rebuildVars, msg, out, covered,
                 envoyVars, inbound, chan>>

\* Mutant of End: the registry entry is left behind.
EndLeaves(s) ==
  /\ pc[s] \in {"unnamed", "reading"} /\ ~open[s]
  /\ pc' = [pc EXCEPT ![s] = "ended"]
  /\ node' = [node EXCEPT ![s] = None]
  /\ covered' = [covered EXCEPT ![s] = {}]
  /\ UNCHANGED <<next, snapshot, registry, rebuildVars, msg, out, open, got,
                 newest, asked, owed, inbound, chan>>

\* The inbound stream ends: a named stream removes its node id.
End(s) ==
  /\ pc[s] \in {"unnamed", "reading"} /\ ~open[s]
  /\ \/ /\ pc[s] = "reading" /\ Unlocked(node[s])
        /\ registry' = [registry EXCEPT ![node[s]] = None]
     \/ /\ pc[s] = "unnamed"
        /\ UNCHANGED registry
  /\ pc' = [pc EXCEPT ![s] = "ended"]
  /\ node' = [node EXCEPT ![s] = None]
  /\ covered' = [covered EXCEPT ![s] = {}]
  /\ UNCHANGED <<next, snapshot, rebuildVars, msg, out, open, got, newest,
                 asked, owed, inbound, chan>>

-----------------------------------------------------------------------------
(* The Envoys                                                              *)

\* stream_aggregated_resources spawns the task of a new stream.
Connect(s, n) ==
  /\ pc[s] \in {"new", "ended"}
  /\ pc' = [pc EXCEPT ![s] = "unnamed"]
  /\ node' = [node EXCEPT ![s] = n]
  /\ open' = [open EXCEPT ![s] = TRUE]
  /\ UNCHANGED <<next, snapshot, registry, rebuildVars, msg, out, covered, got,
                 newest, asked, owed, inbound, chan>>

\* A first request for a type, or the acknowledgement of a response.
Request(s, t) ==
  /\ open[s] /\ inbound[s] = None
  /\ t \notin asked[s] \/ t \in owed[s]
  /\ inbound' = [inbound EXCEPT ![s] = t]
  /\ asked' = [asked EXCEPT ![s] = @ \cup {t}]
  /\ owed' = [owed EXCEPT ![s] = @ \ {t}]
  /\ UNCHANGED <<next, snapshot, registry, rebuildVars, taskVars, node, open,
                 got, newest, chan>>

Accept(s) ==
  /\ open[s] /\ chan[s] # <<>>
  /\ LET r == Head(chan[s])
     IN  /\ got' = [got EXCEPT ![s][r.type] = r.version]
         /\ newest' = [newest EXCEPT ![s][r.type] = IF r.version > @ THEN r.version ELSE @]
         /\ owed' = [owed EXCEPT ![s] = @ \cup {r.type}]
  /\ chan' = [chan EXCEPT ![s] = Tail(@)]
  /\ UNCHANGED <<next, snapshot, registry, rebuildVars, taskVars, node, open,
                 asked, inbound>>

\* The connection breaks: both directions are lost, and what the Envoy knew of
\* the stream.
Disconnect(s) ==
  /\ open[s]
  /\ open' = [open EXCEPT ![s] = FALSE]
  /\ inbound' = [inbound EXCEPT ![s] = None]
  /\ chan' = [chan EXCEPT ![s] = <<>>]
  /\ got' = [got EXCEPT ![s] = [t \in Types |-> 0]]
  /\ newest' = [newest EXCEPT ![s] = [t \in Types |-> 0]]
  /\ asked' = [asked EXCEPT ![s] = {}]
  /\ owed' = [owed EXCEPT ![s] = {}]
  /\ UNCHANGED <<next, snapshot, registry, rebuildVars, taskVars, node>>

-----------------------------------------------------------------------------
RebuildStep(b) ==
  \/ WriteSnapshot(b) \/ Push(b) \/ RebuildDone(b)
  \/ \E n \in Nodes : Visit(b, n) \/ RemoveDead(b, n)

TaskStep(s) ==
  Receive(s) \/ ReadSnapshot(s) \/ Send(s) \/ SendDone(s) \/ End(s)

Next ==
  \/ \E b \in Rebuilds : TakeVersion(b) \/ RebuildStep(b) \/ Abandon(b)
  \/ \E s \in Streams :
       \/ TaskStep(s) \/ Accept(s) \/ Disconnect(s)
       \/ \E n \in Nodes : Connect(s, n)
       \/ \E t \in Requested : Request(s, t)

Spec == Init /\ [][Next]_vars

\* The executor polls ready tasks, and the channel gives room to its senders in
\* the order they asked, so neither the task nor a rebuild is starved of it.  A
\* connected Envoy reads its responses and acknowledges each type.
Fairness ==
  /\ \A b \in Rebuilds : SF_vars(RebuildStep(b))
  /\ \A s \in Streams :
       /\ WF_vars(TaskStep(s))
       /\ WF_vars(Accept(s))
       /\ \A t \in Types : SF_vars(t \in owed[s] /\ Request(s, t))

FairSpec == Spec /\ Fairness

-----------------------------------------------------------------------------
\* A version of type t no older than v was delivered to the Envoy of s, is in the channel,
\* about to be sent by the task, or still to be pushed by a rebuild.
OnItsWay(s, t, v) ==
  \/ newest[s][t] >= v
  \/ \E r \in Range(chan[s]) \cup Range(out[s]) : r.type = t /\ r.version >= v
  \/ \E b \in Rebuilds :
       /\ ver[b] >= v
       /\ \/ node[s] \in todo[b]
          \/ at[b] = node[s] /\ \E r \in Range(left[b]) : r.type = t

\* No update is lost: once a registered stream has been answered for a type,
\* the current snapshot reaches it without a further request, however its
\* registration, its answers and concurrent rebuilds interleave (register
\* before the snapshot is read, write before broadcast).  Only the rebuild that
\* wrote this snapshot can prevent it, when its handler is dropped on the way.
NoLostUpdate ==
  \A s \in Streams :
    open[s] /\ registry[node[s]] = s /\ snapshot \notin abandoned =>
      \A t \in covered[s] : OnItsWay(s, t, snapshot)

\* The registry never keeps a stream whose task has ended, also when streams
\* of the same node replace and remove each other (register, remove).
NoDeadEntries ==
  \A n \in Nodes : registry[n] # None => pc[registry[n]] # "ended"

\* Every rebuild ends although it waits for room in the channels of streams
\* that come, go and are slow; so a config reload returns.
RebuildsEnd ==
  \A b \in Rebuilds : rpc[b] # "idle" ~> rpc[b] = "idle"

\* Whatever order racing rebuilds and late answers arrive in, an Envoy that
\* stays connected ends up with the one current snapshot (every request, also
\* an acknowledgement, is answered from it).  This needs no broadcast to be
\* complete: a dropped rebuild only delays it to the next acknowledgement.
Converges ==
  \A s \in Streams :
    <>[]open[s] => <>[](\A t \in covered[s] : got[s][t] = snapshot)
=============================================================================
