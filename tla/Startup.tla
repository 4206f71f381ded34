------------------------------ MODULE Startup -------------------------------
(***************************************************************************)
(* The life of the process (startup.rs): the initialisation in its order,  *)
(* each part fatal or not, the servers that serve spawns, the end of the   *)
(* process when the first of them ends; and, in between, what a reload     *)
(* replaces and what stays as it was at startup (admin/handlers.rs,        *)
(* admin/state.rs, auth/registry.rs).  The steps of a reload and their     *)
(* interleavings are ConfigReload's matter: here a reload is one step.     *)
(*                                                                         *)
(* A config is [providers, route, admin, extauthz, xds, ext_proc]: the     *)
(* auth providers by name, the auth settings of one route, and the listen  *)
(* addresses, None where the server is not wanted.  An address is          *)
(* [host, port]; all of them are host:port for the validation, but a host  *)
(* may be a name or an IP.  A file that cannot be read or that validate    *)
(* refuses is None; a validated config always generates (Routing), so the  *)
(* fatal branches of the generators are not taken.                         *)
(***************************************************************************)
EXTENDS Authentication

CONSTANTS
  Configs,         \* the configs that files hold
  Published,       \* the keys behind each jwks_uri
  Authorizations,  \* Authorization headers of requests
  Ips,             \* hosts that are IP addresses; other hosts are names
  EnvoyFile        \* ENVOY_CONFIG_PATH is set

ASSUME StartupAssumption ==
  /\ EnvoyFile \in BOOLEAN
  /\ \A c \in Configs : \A p \in DOMAIN c.providers :
       c.providers[p].jwks_uri \in DOMAIN Published

VARIABLES
  stage,       \* where run and serve are
  boot,        \* cfg in run: the config the process was started with
  active,      \* config_state.config
  caches,      \* jwks_registry: the jwks_uri of each cache and whether it is stale
  spawned,     \* servers in the JoinSet that have not bound their address yet
  listening,   \* servers that listen
  ended,       \* how the first server ended: None, "ok" or "failed"
  exit         \* exit status of the process, None while it runs

startupVars == <<stage, boot, active, caches, spawned, listening, ended, exit>>

Documents == Configs \cup {None}

\* run up to build_state, then serve up to join_next.
Stages ==
  <<"read", "tracing", "envoy_file", "jwks", "rate_limiter", "plugins", "xds",
    "state", "bind_admin", "bind_extauthz", "spawn_xds", "spawn_ext_proc", "serving">>

Running == exit = None

-----------------------------------------------------------------------------
(* run                                                                     *)

StartupInit ==
  /\ stage = "read"
  /\ boot = None /\ active = None
  /\ caches = <<>>
  /\ spawned = {} /\ listening = {} /\ ended = None
  /\ exit = None

At(s) == Running /\ stage = s

Advance ==
  stage' = Stages[1 + CHOOSE i \in DOMAIN Stages : Stages[i] = stage]

\* process::exit, or the return from run: every server goes with the process.
Exit(code) ==
  /\ exit' = code
  /\ stage' = "gone" /\ spawned' = {} /\ listening' = {}
  /\ caches' = <<>> /\ boot' = None /\ active' = None /\ ended' = None

\* fatal_stderr, fatal_log
Fatal == Exit(1)

\* std::fs::read and load_config_from_str
ReadConfig(document) ==
  /\ At("read")
  /\ \/ /\ document # None
        /\ boot' = document /\ Advance
        /\ UNCHANGED <<active, caches, spawned, listening, ended,
                       exit>>
     \/ document = None /\ Fatal

\* A part that fails fatally or leaves nothing behind that a reload could
\* change: init_tracing, write_envoy_config where asked for, the metrics with
\* the plugins, XdsControlPlane::new.
InitPart(s, may_fail) ==
  /\ At(s)
  /\ \/ Advance /\ UNCHANGED <<boot, active, caches, spawned,
                               listening, ended, exit>>
     \/ may_fail /\ Fatal

\* JwksCacheRegistry::from_config fetches for every provider, or fails.
InitJwks ==
  /\ At("jwks")
  /\ \/ /\ caches' = [p \in DOMAIN boot.providers |->
                        [uri |-> boot.providers[p].jwks_uri, stale |-> FALSE]]
        /\ Advance
        /\ UNCHANGED <<boot, active, spawned, listening, ended,
                       exit>>
     \/ boot.providers # <<>> /\ Fatal

build_state ==
  /\ At("state")
  /\ active' = boot
  /\ Advance
  /\ UNCHANGED <<boot, caches, spawned, listening, ended, exit>>

-----------------------------------------------------------------------------
(* serve                                                                   *)

Address(server) ==
  CASE server = "admin" -> boot.admin
    [] server = "extauthz" -> boot.extauthz
    [] server = "xds" -> boot.xds
    [] server = "ext_proc" -> boot.ext_proc

Servers == {"admin", "extauthz", "xds", "ext_proc"}

PortFree(server) ==
  \A other \in listening : Address(other).port # Address(server).port

\* TcpListener::bind(..).await.unwrap_or_else(fatal_log), then spawn.  Binding
\* may fail whatever the config says: the port is somebody else's.
BindFirst(server, s) ==
  /\ At(s)
  /\ \/ /\ Address(server) = None
        /\ Advance
        /\ UNCHANGED <<boot, active, caches, spawned, listening,
                       ended, exit>>
     \/ /\ Address(server) # None /\ PortFree(server)
        /\ listening' = listening \cup {server}
        /\ Advance
        /\ UNCHANGED <<boot, active, caches, spawned, ended, exit>>
     \/ Address(server) # None /\ Fatal

\* Mutant of SpawnFirst: the address is taken from the config in force.
SpawnActive(server, s) ==
  LET address == IF server = "xds" THEN active.xds ELSE active.ext_proc
  IN /\ At(s)
     /\ \/ /\ address # None => address.host \in Ips
           /\ spawned' = IF address = None THEN spawned ELSE spawned \cup {server}
           /\ Advance
           /\ UNCHANGED <<boot, active, caches, listening, ended,
                          exit>>
        \/ address # None /\ address.host \notin Ips /\ Fatal

\* parse_socket_addr takes only an IP and a port; the server binds in its task.
SpawnFirst(server, s) ==
  /\ At(s)
  /\ \/ /\ Address(server) # None => Address(server).host \in Ips
        /\ spawned' = IF Address(server) = None THEN spawned
                      ELSE spawned \cup {server}
        /\ Advance
        /\ UNCHANGED <<boot, active, caches, listening, ended, exit>>
     \/ Address(server) # None /\ Address(server).host \notin Ips /\ Fatal

\* tonic's serve binds, or returns the error as the task's result.
BindSpawned(server) ==
  /\ Running /\ server \in spawned
  /\ spawned' = spawned \ {server}
  /\ \/ /\ PortFree(server)
        /\ listening' = listening \cup {server}
        /\ UNCHANGED ended
     \/ /\ ended' = IF ended = None THEN "failed" ELSE ended
        /\ UNCHANGED listening
  /\ UNCHANGED <<stage, boot, active, caches, exit>>

\* A server returns, fails or panics.
ServerEnds(server, how) ==
  /\ Running /\ server \in listening
  /\ listening' = listening \ {server}
  /\ ended' = IF ended = None THEN how ELSE ended
  /\ UNCHANGED <<stage, boot, active, caches, spawned, exit>>

\* Mutant of JoinNext: an error of one server is only logged.
JoinLogs ==
  /\ At("serving") /\ ended = "ok"
  /\ Exit(0)

\* servers.join_next(): whichever ends first ends the process.
JoinNext ==
  /\ At("serving") /\ ended # None
  /\ Exit(IF ended = "ok" THEN 0 ELSE 1)

StartStep ==
  \/ \E document \in Documents : ReadConfig(document)
  \/ \E s \in {"tracing", "plugins"} : InitPart(s, TRUE)
  \/ InitPart("envoy_file", EnvoyFile)
  \/ \E s \in {"rate_limiter", "xds"} : InitPart(s, FALSE)
  \/ build_state
  \/ BindFirst("admin", "bind_admin") \/ BindFirst("extauthz", "bind_extauthz")
  \/ SpawnFirst("xds", "spawn_xds") \/ SpawnFirst("ext_proc", "spawn_ext_proc")
  \/ JoinNext

-----------------------------------------------------------------------------
(* The running process                                                     *)

\* config_reload: the config in force is replaced, nothing else is made from
\* it; a reload that is refused replaces nothing.
Reload(document) ==
  /\ Running /\ "admin" \in listening
  /\ document # None
  /\ active' = document
  /\ UNCHANGED <<stage, boot, caches, spawned, listening, ended, exit>>

\* The refresh loop of a provider's cache fails for long, or succeeds again.
CacheAges(p) ==
  /\ Running /\ stage = "serving"
  /\ caches' = [caches EXCEPT ![p].stale = ~@]
  /\ UNCHANGED <<stage, boot, active, spawned, listening, ended, exit>>

\* jwks_registry.get, as a check of the extauthz server sees it
Caches ==
  [p \in DOMAIN caches |->
     [keys |-> Published[caches[p].uri], stale |-> caches[p].stale]]

\* Mutant of all_healthy: one fresh cache is enough.
some_healthy == \E p \in DOMAIN caches : ~caches[p].stale

all_healthy == \A p \in DOMAIN caches : ~caches[p].stale

\* The answer of GET /readyz, with what the ping of Redis found.
readyz(redis_ok) == IF redis_ok /\ all_healthy THEN 200 ELSE 503

\* The supervisor starts the process again.
Restart ==
  /\ ~Running
  /\ exit' = None /\ stage' = "read"
  /\ UNCHANGED <<boot, active, caches, spawned, listening, ended>>

StartupNext ==
  \/ StartStep \/ InitJwks
  \/ \E server \in Servers : BindSpawned(server)
  \/ \E server \in Servers, how \in {"ok", "failed"} : ServerEnds(server, how)
  \/ \E document \in Documents : Reload(document)
  \/ \E p \in DOMAIN caches : CacheAges(p)
  \/ Restart

-----------------------------------------------------------------------------
(* Properties                                                              *)

Wanted == {server \in Servers : Address(server) # None}

\* A process serves all of what it was started for or is about to end: once
\* serve has reached join_next, every server of the startup config listens,
\* has still to bind, or has ended and takes the process with it; no reload
\* adds, moves or removes one, and none outlives the process (serve).
ServesWhatItBootedWith ==
  /\ stage = "serving" /\ ended = None => listening \cup spawned = Wanted
  /\ ~Running => listening \cup spawned = {}

UniqueKids(keys) == \A i, j \in DOMAIN keys : keys[i].kid = keys[j].kid => i = j

\* What the auth stage lets through is decided by two configs: the issuer,
\* audience, skew and scopes are those in force, the keys are those behind the
\* uri that the provider had when the process started.  A request passes
\* exactly if its route asks for no token or its token is genuine by that
\* measure, 403 is for a genuine one without the scopes and 401 for the rest;
\* a provider that a reload added, or whose cache is stale, answers 503 and
\* never anything else (apply_auth, JwksCacheRegistry).
AuthExplained ==
  "extauthz" \in listening =>
    \A authorization \in Authorizations :
      LET route == active.route
          p == ProviderName(route)
          status == apply_auth(active.providers, Caches, route, authorization).status
          known == p \in DOMAIN active.providers \cap DOMAIN boot.providers
          keys == Published[boot.providers[p].jwks_uri]
          token == authorization.token
          genuine == Genuine(token, active.providers[p], keys)
          scoped == Scoped(token.claims, route.required_scopes)
      IN IF ~route.auth_required THEN status = 200
         ELSE IF extract_bearer(authorization) # "valid" THEN status = 401
         ELSE /\ (status = 503) <=> (~known \/ caches[p].stale)
              /\ status = 200 => genuine /\ scoped /\ token.claims.sub # None
              /\ status = 403 => genuine /\ ~scoped
              /\ status = 401 => \/ ~(genuine /\ UniqueKids(keys))
                                 \/ scoped /\ token.claims.sub = None

\* A gateway that calls itself ready can authenticate: whatever config is in
\* force, a route whose provider was there at startup would at that moment
\* refuse no request for an unavailable provider.  For a provider that came
\* with a reload it says nothing: readyz looks at the caches made at startup
\* (readyz, all_healthy).
ReadyMeansAuthenticates ==
  "admin" \in listening /\ readyz(TRUE) = 200 =>
    \A c \in Configs :
      ProviderName(c.route) \in DOMAIN c.providers \cap DOMAIN boot.providers =>
        \A authorization \in Authorizations :
          apply_auth(c.providers, Caches, c.route, authorization).status # 503

\* Starting ends: the process comes to serve all its servers or exits, unless
\* the first fetch of a provider's keys never returns, since the HTTP client
\* that init_jwks makes has no timeout; and a process one of whose servers has
\* ended exits (run, join_next).
StartEnds ==
  /\ stage = "read" ~> (stage = "serving" \/ ~Running \/ [](stage = "jwks"))
  /\ ended # None ~> ~Running
=============================================================================
