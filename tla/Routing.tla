------------------------------ MODULE Routing -------------------------------
(***************************************************************************)
(* From a configuration file to the route of a request: the file is loaded *)
(* (Validation), two generators make Envoy's listener, virtual hosts and   *)
(* clusters of it (config/envoy_gen.rs for the bootstrap file,             *)
(* xds/resources.rs for the ADS snapshot), and the ext_authz service picks *)
(* the route it decides on (extauthz/helpers.rs).  Envoy picks the         *)
(* upstream from the virtual hosts and the ext_authz service picks the     *)
(* policy from the configuration, so each request is matched twice, by two *)
(* algorithms.                                                             *)
(***************************************************************************)
EXTENDS Validation

CONSTANTS
  Documents,  \* the contents the configuration file may have
  Hosts,      \* the Host headers of requests
  Paths       \* the paths of requests

ASSUME RoutingAssumption == None \notin Nat /\ NaN # None

VARIABLES
  config,     \* the configuration loaded, None before or if refused
  outcome,    \* of loading it
  file,       \* the bootstrap file
  snapshot,   \* the ADS snapshot, None without the xDS server
  match       \* the last request and the routes it was given

vars == <<config, outcome, file, snapshot, match>>

Wildcard == "*"
Named(routes, name) == {i \in DOMAIN routes : routes[i].name = name}

Unmatched == [host |-> None, path |-> <<>>, authz |-> None, file |-> None,
              snapshot |-> None]

-----------------------------------------------------------------------------
(* Conversions: addresses and durations                                    *)

\* The parsers of the two generators; None is their error.
parse_endpoint(s) ==
  IF LastColon(s) = 0 \/ Host(s) = <<>> \/ Port(s) = None THEN None
  ELSE [address |-> Host(s), port_value |-> Port(s)]

xds_parse_endpoint(s) ==
  IF LastColon(s) = 0 \/ Port(s) = None \/ Host(s) = <<>> THEN None
  ELSE [address |-> Host(s), port_value |-> Port(s)]

\* Mutant of duration_string: {frac} without the padding.
duration_unpadded(ms) ==
  LET n == ms % 1000 IN
  [secs |-> ms \div 1000,
   frac |-> CASE n = 0 -> <<>>
              [] n \in 1..9 -> <<n>>
              [] n \in 10..99 -> <<n \div 10, n % 10>>
              [] OTHER -> <<n \div 100, (n \div 10) % 10, n % 10>>]

\* "{secs}s" or "{secs}.{frac:03}s": the digits after the point.
duration_string(ms) ==
  LET n == ms % 1000 IN
  [secs |-> ms \div 1000,
   frac |-> IF n = 0 THEN <<>> ELSE <<n \div 100, (n \div 10) % 10, n % 10>>]

\* The protobuf duration of the snapshot.
duration(ms) == [seconds |-> ms \div 1000, nanos |-> (ms % 1000) * 1000000]

\* Envoy reads the text of a duration: digits after the point are a fraction.
ReadDuration(text) ==
  [seconds |-> text.secs,
   nanos |-> FoldLeft(LAMBDA n, d : 10 * n + d, 0, text.frac)
             * 10 ^ (9 - Len(text.frac))]

-----------------------------------------------------------------------------
(* The virtual hosts                                                       *)

\* The sorted list of hostnames, as the number of times each occurs in it.
Key(hostnames) ==
  [h \in ToSet(hostnames) |-> Cardinality({i \in DOMAIN hostnames : hostnames[i] = h})]

\* The first route of each group of routes with one key.
Leaders(routes) ==
  {i \in DOMAIN routes :
     \A j \in 1..(i - 1) : Key(routes[j].hostnames) # Key(routes[i].hostnames)}

\* The routes of a group, in the order of the configuration.
Group(routes, leader) ==
  SelectSeq([i \in DOMAIN routes |-> i],
            LAMBDA i : Key(routes[i].hostnames) = Key(routes[leader].hostnames))

\* An entry of a virtual host; 0 retries are no retry policy.  The index is
\* that of the route it is for, which Envoy does not see.
build_route_entry(routes, i) ==
  [index |-> i, prefix |-> routes[i].path_prefix,
   cluster |-> routes[i].upstream.service,
   timeout |-> duration_string(routes[i].upstream.request_timeout_ms),
   num_retries |-> routes[i].upstream.retries]

xds_route_entry(routes, i) ==
  [index |-> i, prefix |-> routes[i].path_prefix,
   cluster |-> routes[i].upstream.service,
   timeout |-> duration(routes[i].upstream.request_timeout_ms),
   num_retries |-> routes[i].upstream.retries]

\* The generator of the file finds a group's domains again by the name of
\* its first route.
build_virtual_hosts(routes) ==
  {[name    |-> routes[i].name,
    domains |-> Key(routes[Min(Named(routes, routes[i].name))].hostnames),
    routes  |-> [k \in DOMAIN Group(routes, i) |->
                   build_route_entry(routes, Group(routes, i)[k])]] :
     i \in Leaders(routes)}

\* The generator of the snapshot keeps the key as the group's domains.
xds_virtual_hosts(routes) ==
  {[name    |-> routes[i].name,
    domains |-> Key(routes[i].hostnames),
    routes  |-> [k \in DOMAIN Group(routes, i) |->
                   xds_route_entry(routes, Group(routes, i)[k])]] :
     i \in Leaders(routes)}

-----------------------------------------------------------------------------
(* Clusters and listeners                                                  *)

ExtAuthzCluster == "gateway_manager_extauthz"

build_health_check(service) ==
  [path |-> service.health_check.path,
   timeout |-> duration_string(service.health_check.timeout_ms),
   interval |-> duration_string(service.health_check.interval_ms),
   unhealthy_threshold |-> 3, healthy_threshold |-> 1]

build_cluster(service) ==
  [name |-> service.name,
   endpoints |-> [i \in DOMAIN service.endpoints |-> parse_endpoint(service.endpoints[i])],
   connect_timeout |-> duration_string(service.health_check.timeout_ms),
   health_check |-> build_health_check(service)]

build_ext_authz_cluster(address) ==
  [name |-> ExtAuthzCluster, endpoints |-> <<parse_endpoint(address)>>,
   connect_timeout |-> [secs |-> 0, frac |-> <<2, 5, 0>>], health_check |-> None]

If(condition, list) == IF condition THEN list ELSE <<>>

build_listener(c) ==
  [address |-> parse_endpoint(c.gateway.listen_address),
   idle_timeout |-> duration_string(c.gateway.idle_timeout_ms),
   http_filters |-> If(c.gateway.extauthz_address # None, <<"ext_authz">>)
                    \o <<"router">>,
   virtual_hosts |-> build_virtual_hosts(c.routes)]

\* The first error of a generator fails it as a whole.
Generated(listener, clusters) ==
  IF \/ listener.address = None
     \/ \E cluster \in ToSet(clusters) : None \in ToSet(cluster.endpoints)
  THEN None ELSE [listener |-> listener, clusters |-> clusters]

\* build_clusters, and the cluster of the ext_authz service
generate_envoy_config(c) ==
  Generated(build_listener(c),
            [i \in DOMAIN c.services |-> build_cluster(c.services[i])]
            \o If(c.gateway.extauthz_address # None,
                  <<build_ext_authz_cluster(c.gateway.extauthz_address)>>))

build_cluster_assignment(service) ==
  [i \in DOMAIN service.endpoints |-> xds_parse_endpoint(service.endpoints[i])]

xds_clusters(c) ==
  [i \in DOMAIN c.services |->
     LET service == c.services[i] IN
     [name |-> service.name, endpoints |-> build_cluster_assignment(service),
      connect_timeout |-> duration(service.health_check.timeout_ms),
      health_check |->
        [path |-> service.health_check.path,
         timeout |-> duration(service.health_check.timeout_ms),
         interval |-> duration(service.health_check.interval_ms),
         unhealthy_threshold |-> 3, healthy_threshold |-> 1]]]

build_http_filters(c) ==
  If(c.gateway.extauthz_address # None, <<"ext_authz">>)
  \o If(c.ext_proc.enabled, <<"ext_proc">>)
  \o <<"router">>

xds_listener(c) ==
  [address |-> xds_parse_endpoint(c.gateway.listen_address),
   idle_timeout |-> duration(c.gateway.idle_timeout_ms),
   http_filters |-> build_http_filters(c),
   virtual_hosts |-> xds_virtual_hosts(c.routes)]

\* XdsSnapshot::build; build_endpoints repeats the assignments of the clusters.
build_snapshot(c) == Generated(xds_listener(c), xds_clusters(c))

-----------------------------------------------------------------------------
(* Matching a request                                                      *)

Matches(route, path) == IsPrefix(route.path_prefix, path)

\* Mutant of match_route: the host is not compared.
match_path_only(routes, host, path) ==
  LET candidates == {i \in DOMAIN routes : Matches(routes[i], path)}
      longest == {i \in candidates : \A j \in candidates :
                    Len(routes[j].path_prefix) <= Len(routes[i].path_prefix)}
  IN IF candidates = {} THEN None ELSE Max(longest)

\* max_by_key keeps the last of several longest prefixes.
match_route(routes, host, path) ==
  LET candidates == {i \in DOMAIN routes :
                       /\ \E h \in ToSet(routes[i].hostnames) : h \in {Wildcard, host}
                       /\ Matches(routes[i], path)}
      longest == {i \in candidates : \A j \in candidates :
                    Len(routes[j].path_prefix) <= Len(routes[i].path_prefix)}
  IN IF candidates = {} THEN None ELSE Max(longest)

\* Envoy refuses a configuration in which a domain or a cluster occurs twice.
EnvoyAccepts(resources) ==
  LET vhosts == resources.listener.virtual_hosts IN
  /\ Unique(resources.clusters)
  /\ \A v \in vhosts : \A d \in DOMAIN v.domains :
       /\ v.domains[d] = 1
       /\ \A w \in vhosts \ {v} : d \notin DOMAIN w.domains

\* Envoy takes the virtual host of the exact domain, that of the wildcard
\* if there is none, and in it the first route whose prefix matches.
EnvoyRoute(vhosts, host, path) ==
  LET Hosting(d) == {v \in vhosts : d \in DOMAIN v.domains}
      chosen == IF Hosting(host) # {} THEN Hosting(host) ELSE Hosting(Wildcard)
      matching == UNION {{<<v, k>> : k \in {k \in DOMAIN v.routes :
                                              IsPrefix(v.routes[k].prefix, path)}} :
                           v \in chosen}
  IN IF matching = {} THEN None
     ELSE LET first == CHOOSE m \in matching : \A n \in matching : m[2] <= n[2]
          IN first[1].routes[first[2]]

-----------------------------------------------------------------------------
Init ==
  /\ config = None /\ outcome = "unread"
  /\ file = None /\ snapshot = None
  /\ match = Unmatched

\* The configuration is read and refused, and nothing else happens.
Refuse(document) ==
  /\ outcome = "unread" /\ load_config_from_str(document) = None
  /\ outcome' = "refused"
  /\ UNCHANGED <<config, file, snapshot, match>>

\* It is accepted, and the file and the snapshot are made from it.
Load(document) ==
  LET c == load_config_from_str(document) IN
  /\ outcome = "unread" /\ c # None
  /\ config' = c
  /\ file' = generate_envoy_config(c)
  /\ snapshot' = IF c.xds.enabled THEN build_snapshot(c) ELSE None
  /\ outcome' = IF file' = None \/ (c.xds.enabled /\ snapshot' = None)
                THEN "failed" ELSE "active"
  /\ UNCHANGED match

\* A request arrives at an Envoy that runs on the file, and at one that runs
\* on the snapshot.
Request(host, path) ==
  /\ outcome = "active" /\ EnvoyAccepts(file)
  /\ snapshot # None => EnvoyAccepts(snapshot)
  /\ match' = [host |-> host, path |-> path,
               authz |-> match_route(config.routes, host, path),
               file |-> EnvoyRoute(file.listener.virtual_hosts, host, path),
               snapshot |-> IF snapshot = None THEN None
                            ELSE EnvoyRoute(snapshot.listener.virtual_hosts, host, path)]
  /\ UNCHANGED <<config, outcome, file, snapshot>>

Next ==
  \/ outcome = "unread" /\ \E document \in Documents : Refuse(document) \/ Load(document)
  \/ \E host \in Hosts, path \in Paths : Request(host, path)

Spec == Init /\ [][Next]_vars

-----------------------------------------------------------------------------
(* Properties                                                              *)

\* A configuration that validation accepts, with the defaults of what it
\* leaves out, is one that the rest of the program can run with: neither
\* generator fails on an address (validate_host_port and the two
\* parse_endpoint are separate parsers), every server that is switched on has
\* a port, every route with authentication names exactly one provider, every
\* bucket can hold a token, every plugin instance has a fail mode that the
\* chain knows and plugins that are switched on have room and time to run.
AcceptedIsUsable ==
  /\ outcome # "failed"
  /\ outcome = "active" =>
       /\ \A server \in {config.xds, config.ext_proc} :
            server.enabled => Port(server.listen_address) # None
       /\ \A r \in ToSet(config.routes) :
            /\ r.auth_required =>
                 Cardinality(Named(config.auth.providers, r.auth_provider)) = 1
            /\ r.rate_limit.bucket_capacity > 0
            /\ \A p \in ToSet(r.plugins \o config.plugins.global) :
                 p.fail_mode \in {"open", "closed"}
       /\ config.plugins.enabled =>
            config.plugins.limits.max_memory_bytes > 0
            /\ config.plugins.limits.chain_timeout_ms > 0

\* Route i is in exactly one of vhosts, which has the hostnames of the route.
ServedBy(vhosts, i) ==
  \E v \in vhosts :
    /\ {w \in vhosts : \E k \in DOMAIN w.routes : w.routes[k].index = i} = {v}
    /\ v.domains = Key(config.routes[i].hostnames)

\* Every route is in one virtual host of the file and of the snapshot, one for
\* exactly its hostnames, and its upstream is one of the clusters (Envoy
\* refuses a route to an unknown cluster), with an endpoint.
\* build_virtual_hosts finds the domains again by a route's name, so this
\* rests on check_uniqueness.
EveryRouteServed ==
  outcome = "active" =>
    \A resources \in {file, snapshot} \ {None} : \A i \in DOMAIN config.routes :
      /\ ServedBy(resources.listener.virtual_hosts, i)
      /\ \E cluster \in ToSet(resources.clusters) :
           cluster.name = config.routes[i].upstream.service /\ cluster.endpoints # <<>>

\* What Envoy reads in the file, in the terms of the snapshot.
ReadEntry(entry) ==
  IF entry = None THEN None ELSE [entry EXCEPT !.timeout = ReadDuration(@)]
ReadCluster(cluster) ==
  [cluster EXCEPT !.connect_timeout = ReadDuration(@),
                  !.health_check.timeout = ReadDuration(@),
                  !.health_check.interval = ReadDuration(@)]

\* An Envoy that starts from the file and one fed by ADS listen at the same
\* address, send every request to the same route with the same timeout and
\* retries, and find the same endpoints with the same health checks behind it,
\* though two generators made their tables and one writes durations as text.
\* They differ in two ways: only ADS puts the ext_proc filter before the
\* router, and only the file has the cluster of the ext_authz service.
GeneratorsAgree ==
  outcome = "active" /\ snapshot # None =>
    /\ file.listener.address = snapshot.listener.address
    /\ ReadDuration(file.listener.idle_timeout) = snapshot.listener.idle_timeout
    /\ file.listener.http_filters =
         SelectSeq(snapshot.listener.http_filters, LAMBDA f : f # "ext_proc")
    /\ \A i \in DOMAIN config.services :
         ReadCluster(file.clusters[i]) = snapshot.clusters[i]
    /\ {c.name : c \in ToSet(file.clusters)} \ {ExtAuthzCluster} =
         {c.name : c \in ToSet(snapshot.clusters)} \ {ExtAuthzCluster}
    /\ ReadEntry(match.file) = match.snapshot

\* Among routes with the same hostnames longer prefixes come first and no two
\* have one prefix; if one route has the wildcard, all have its hostnames.
\* (Hostname lists that overlap otherwise are refused by Envoy, see Request.)
Orderly(routes) ==
  /\ \A i, j \in DOMAIN routes :
       /\ Key(routes[i].hostnames) = Key(routes[j].hostnames) =>
            (i < j => Len(routes[i].path_prefix) >= Len(routes[j].path_prefix))
       /\ Key(routes[i].hostnames) = Key(routes[j].hostnames) /\ i # j =>
            routes[i].path_prefix # routes[j].path_prefix
       /\ Wildcard \in ToSet(routes[i].hostnames) =>
            Key(routes[i].hostnames) = Key(routes[j].hostnames)

\* For an orderly configuration the ext_authz service applies the policy of
\* the very route Envoy forwards the request to (match_route against the
\* virtual hosts).
PolicyOfTheRoute ==
  match.host # None /\ Orderly(config.routes) =>
    match.authz = IF match.file = None THEN None ELSE match.file.index
=============================================================================
