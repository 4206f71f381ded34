----------------------------- MODULE MCRouting ------------------------------
(* Small sets of configuration files for Routing: a plain file, and files  *)
(* that differ from it in one part, or in two where they interact.         *)
EXTENDS Routing

CONSTANTS h1, h2, r1, r2, r3, s1, s2, MaxAddress

Good == <<"h", ":", "9">>
Root == <<"/">>
Deep == <<"/", "a">>

Service(name) ==
  [name |-> name, endpoints |-> <<Good>>,
   health_check |-> [path |-> Root, interval_ms |-> 5000, timeout_ms |-> 500]]

Route(name, hostnames, prefix, service) ==
  [name |-> name, hostnames |-> hostnames, path_prefix |-> prefix,
   methods |-> {"GET"}, auth_required |-> FALSE, auth_provider |-> None,
   required_scopes |-> None,
   rate_limit |-> [bucket_capacity |-> 1, refill_rate_per_sec |-> 1, key_by |-> "ip"],
   upstream |-> [service |-> service, request_timeout_ms |-> 1000, retries |-> 0],
   plugins |-> None]

Provider(name) ==
  [name |-> name, jwks_uri |-> [scheme |-> "https"], cache_ttl_seconds |-> 300]

Plain ==
  [version |-> 1,
   gateway |-> [listen_address |-> Good, admin_address |-> Good,
                idle_timeout_ms |-> 60000, extauthz_address |-> None],
   auth |-> [providers |-> <<Provider("main")>>],
   rate_limits |-> [redis_address |-> Good],
   routes |-> <<Route(r1, <<h1>>, Root, s1)>>,
   services |-> <<Service(s1)>>,
   observability |-> [tracing |-> [enabled |-> FALSE, otlp_endpoint |-> "",
                                   sample_rate |-> 10]],
   plugins |-> None, xds |-> [enabled |-> TRUE, listen_address |-> None],
   ext_proc |-> None, unknown |-> {}]

-----------------------------------------------------------------------------
(* Routes and services                                                     *)

\* Lists of routes in the order of the file: names repeated or not in lists
\* of one and two, all different in lists of three.
HostLists == {<<h1>>, <<h2>>, <<h1, h2>>, <<h2, h1>>, <<Wildcard>>}
Entry(names) ==
  {Route(name, hostnames, prefix, s1) :
     name \in names, hostnames \in HostLists, prefix \in {Root, Deep}}
RouteLists ==
  {<<x>> : x \in Entry({r1})}
  \cup {<<x, y>> : x \in Entry({r1}), y \in Entry({r1, r2})}
  \cup {<<x, y, z>> : x \in Entry({r1}), y \in Entry({r2}), z \in Entry({r3})}

Ordered == {[Plain EXCEPT !.routes = routes] : routes \in RouteLists}

\* Services missing or repeated or with the name of the ext_authz cluster, a
\* route without hostname or slash.
Partial ==
  {[Plain EXCEPT !.routes = <<Route(r1, hostnames, prefix, s)>>,
                 !.services = services, !.gateway.extauthz_address = authz] :
     hostnames \in HostLists \cup {<<>>, <<h1, h1>>},
     prefix \in {Root, Deep, <<"a">>}, s \in {s1, s2, ExtAuthzCluster},
     authz \in {None, Good},
     services \in {<<>>, <<Service(s1)>>, <<Service(s2)>>, <<Service(ExtAuthzCluster)>>,
                   <<Service(s1), Service(s2)>>, <<Service(s1), Service(s1)>>}}

\* Durations with and without milliseconds, and with leading zeros in them.
Durations == {0, 5, 50, 500, 999, 1000, 1050, 60000}
Timed ==
  {[Plain EXCEPT !.routes[1].upstream.request_timeout_ms = ms,
                 !.routes[1].upstream.retries = retries,
                 !.services[1].health_check.timeout_ms = timeout] :
     ms \in Durations, retries \in {0, 2}, timeout \in Durations}
  \cup {[Plain EXCEPT !.gateway.idle_timeout_ms = ms,
                      !.services[1].health_check.interval_ms = interval] :
          ms \in Durations, interval \in Durations}

\* Authentication, methods and limits of a route.
Policies ==
  {[Plain EXCEPT !.routes[1].auth_required = required, !.routes[1].auth_provider = name,
                 !.routes[1].required_scopes = scopes, !.auth.providers = providers] :
     required \in BOOLEAN, name \in {None, "main", "other"},
     scopes \in {None, {}, {"read"}},
     providers \in {<<>>, <<Provider("main")>>, <<Provider("other"), Provider("main")>>,
                    <<Provider("main"), Provider("main")>>, <<Provider("")>>}}
  \cup {[Plain EXCEPT !.routes[1].rate_limit =
           [bucket_capacity |-> capacity, refill_rate_per_sec |-> rate, key_by |-> by],
           !.routes[1].methods = methods] :
          capacity \in {0, 1}, rate \in {-1, 0, 1, NaN}, by \in {"ip", "sub", "name"},
          methods \in {{}, {"GET", "PUT"}, {"TRACE"}}}

-----------------------------------------------------------------------------
(* Addresses and sections                                                  *)

\* Every short string, and ports at the limit, as the address of the listener,
\* of an endpoint, of the ext_authz service and of the xDS server.
Addresses ==
  UNION {[1..n -> {"h", ":", "9"}] : n \in 0..MaxAddress}
  \cup {<<"h", ":", "9", "9", "9", "9">>, <<"h", ":", "9", "9", "9", "9", "9">>,
        <<"h", ":", "+", "9">>, <<"h", ":", "+">>, <<"h", ":", "+", "+", "9">>}
Addressed ==
  UNION {{[Plain EXCEPT !.gateway.listen_address = a],
          [Plain EXCEPT !.gateway.extauthz_address = a],
          [Plain EXCEPT !.services[1].endpoints = <<Good, a>>],
          [Plain EXCEPT !.xds.listen_address = a]} : a \in Addresses}

Switches == {None, TRUE, FALSE}
Bad == <<"h">>
Sections ==
  {[Plain EXCEPT !.xds = xds, !.ext_proc = ext_proc] :
     xds \in {None} \cup [enabled : Switches, listen_address : {None, Bad}],
     ext_proc \in {None} \cup [enabled : Switches, listen_address : {None, Good, Bad}]}
  \cup {[Plain EXCEPT ![section] = None] : section \in Required}
  \cup {[Plain EXCEPT !.unknown = {"listeners"}], [Plain EXCEPT !.version = 2],
        [Plain EXCEPT !.gateway.admin_address = Bad],
        [Plain EXCEPT !.rate_limits.redis_address = Bad],
        [Plain EXCEPT !.services[1].health_check.path = <<"a">>],
        [Plain EXCEPT !.auth.providers[1].jwks_uri.scheme = None],
        [Plain EXCEPT !.auth.providers[1].cache_ttl_seconds = 0]}
  \cup {[Plain EXCEPT !.observability.tracing =
           [enabled |-> on, otlp_endpoint |-> endpoint, sample_rate |-> rate]] :
          on \in BOOLEAN, endpoint \in {"", "http"}, rate \in {-1, 0, 100, 101, NaN}}

Instances ==
  {None, <<>>}
  \cup {<<[name |-> name, enabled |-> None, fail_mode |-> mode]>> :
          name \in {"", " ", "p"}, mode \in {None, "open", "shut"}}
  \cup {<<[name |-> "p", enabled |-> FALSE, fail_mode |-> "open"],
          [name |-> name, enabled |-> TRUE, fail_mode |-> None]>> : name \in {"p", "q"}}
Plugged ==
  {[Plain EXCEPT !.plugins = [enabled |-> on, directory |-> dir, limits |-> limits,
                              global |-> None]] :
     on \in Switches, dir \in {None, " ", "dir"},
     limits \in {None} \cup [max_memory_bytes : {None, 0, 1}, max_instructions : {None, 0, 1},
                             chain_timeout_ms : {None, 0, 1}]}
  \cup {[Plain EXCEPT !.routes[1].plugins = route,
                      !.plugins = [enabled |-> None, directory |-> None, limits |-> None,
                                   global |-> global]] :
          route \in Instances, global \in Instances}

MCDocuments ==
  Ordered \cup Partial \cup Timed \cup Policies \cup Addressed \cup Sections \cup Plugged
MCPaths == {Root, Deep, <<"/", "b">>, <<"/", "a", "b">>}
MCHosts == {h1, h2, "elsewhere"}
=============================================================================
