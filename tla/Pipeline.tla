----------------------------- MODULE Pipeline -------------------------------
(***************************************************************************)
(* What a check answers, logs and counts (extauthz/handler.rs,             *)
(* plugin_step.rs, auth_step.rs, helpers.rs, observability/metrics.rs),    *)
(* as a function of what the plugins of PluginChain did, what the auth     *)
(* stage found and what the rate limiter decided.  The order of the stages *)
(* against other checks, reloads and cancellations is ExtAuthz's matter.   *)
(*                                                                         *)
(* A header value has a text, a form and where it comes from.  The form is *)
(* "ascii", "opaque" (bytes above 127: HeaderValue takes them, to_str does *)
(* not) or "control" (HeaderValue does not take it).  A text is a sequence *)
(* of characters, since a bucket key is put together from several.         *)
(***************************************************************************)
EXTENDS PluginChain

CONSTANTS
  RouteName,        \* the name of each route, as text
  Policy,           \* of each route: [auth_required, key_by]
  TrustForwarded,   \* gateway.trust_forwarded_headers
  Auths,            \* what the auth stage finds: a deny or an identity
  Clients,          \* [forwarded, external]: the two headers, None if absent
  PluginText,       \* what plugins set headers to
  Decisions         \* of the rate limiter, or None where it is unavailable

ASSUME PipelineAssumption ==
  /\ TrustForwarded \in BOOLEAN
  /\ \A r \in Routes : Policy[r].key_by \in {"ip", "sub"}

-----------------------------------------------------------------------------
(* Headers                                                                 *)

Value(from, text, form) == [from |-> from, text |-> text, form |-> form]

\* if let Ok(value) = text.parse() { headers.insert(name, value) }
Insert(map, name, value) ==
  IF value.form = "control" THEN map ELSE (name :> value) @@ map

\* A name that is no HeaderName is left out.
IsHeaderName(name) == name[1] # "not a header"

\* What plugins set goes over what is there.
insert_string_headers(map, values, store) ==
  [n \in {n \in DOMAIN values : IsHeaderName(n)} |->
     Value(store, PluginText, "ascii")] @@ map

AuthHeaders == {<<"x-auth-", "sub">>, <<"x-auth-", "iss">>, <<"x-auth-", "scopes">>}
LimitHeaders ==
  {<<"x-rate-limit-", n>> : n \in {"remaining", "limit", "mode", "reset"}}
RequestId == <<"x-", "request-id">>

\* The tail of apply_auth; the issuer and the scopes of an identity are in
\* the form of its subject here.
insert_identity(map, identity) ==
  IF identity = None \/ identity.form = "control" THEN map
  ELSE [n \in AuthHeaders |-> Value("token", identity.text, identity.form)] @@ map

insert_rate_limit_headers(map, decision) ==
  [n \in LimitHeaders |-> Value("limiter", <<decision.mode>>, "ascii")] @@ map

WithRequestId(map) == Insert(map, RequestId, Value("gateway", <<>>, "ascii"))

\* The ext_authz filter of the bootstrap file: the headers of a request that
\* Envoy sends to the check, and those of the answer it adds to the request.
build_ext_authz_filter ==
  [allowed_headers |->
     [exact |-> {<<"", "authorization">>, <<"", "host">>}, prefix |-> {"x-forwarded-"}],
   allowed_upstream_headers |-> [exact |-> {}, prefix |-> {"x-auth-", "x-ratelimit-"}]]

Allows(patterns, name) == name \in patterns.exact \/ name[1] \in patterns.prefix

Upstream(map) ==
  Restrict(map, {n \in DOMAIN map :
                   Allows(build_ext_authz_filter.allowed_upstream_headers, n)})

-----------------------------------------------------------------------------
(* The bucket key                                                          *)

\* header_str of a header of the client's request, as the check sees it
header_str(name, value) ==
  IF Allows(build_ext_authz_filter.allowed_headers, name) THEN value ELSE None

\* The first of x-forwarded-for if it is trusted and not blank.
client_ip(client, trust_forwarded) ==
  LET forwarded == header_str(<<"x-forwarded-", "for">>, client.forwarded)
      external == header_str(<<"x-envoy-", "external-address">>, client.external)
  IN IF trust_forwarded /\ forwarded \notin {None, <<>>} THEN forwarded
     ELSE IF external # None THEN external
     ELSE <<"0.0.0.0">>

key_value(r, map, client) ==
  LET sub == <<"x-auth-", "sub">>
  IN IF Policy[r].key_by = "sub"
     THEN IF sub \in DOMAIN map /\ map[sub].form = "ascii" THEN map[sub].text
          ELSE <<"anonymous">>
     ELSE client_ip(client, TrustForwarded)

\* format!("{prefix}:{route}:{dimension}:{value}")
build_key(name, dimension, value) ==
  <<"prefix", ":">> \o name \o <<":", dimension, ":">> \o value

-----------------------------------------------------------------------------
(* Metrics and the access log                                              *)

status_class(status) ==
  CASE status \in 100..199 -> "1xx" [] status \in 200..299 -> "2xx"
    [] status \in 300..399 -> "3xx" [] status \in 400..499 -> "4xx"
    [] OTHER -> "5xx"

\* A metric that is incremented, with its labels.
Count(metric, r, label) == [metric |-> metric, route |-> r, label |-> label]

record_request(r, status) == Count("http_requests_total", r, status_class(status))

emit_log(r, status, auth_subject, mode) ==
  [route |-> r, status |-> status, auth_subject |-> auth_subject, mode |-> mode]

Answer(status, map, log, counts) ==
  [status |-> status, headers |-> map, log |-> log, counts |-> counts]

-----------------------------------------------------------------------------
(* check_inner                                                             *)

early_deny(r, status) ==
  Answer(status, WithRequestId(<<>>),
         <<emit_log(r, status, None, "none")>>, <<record_request(r, status)>>)

\* A request that no route takes, and one whose method the route refuses.
NoRoute ==
  Answer(200, WithRequestId(<<>>), <<emit_log(None, 200, None, "none")>>,
         <<record_request(None, 200)>>)
method_denied(r) == early_deny(r, 405)

ChainCounts(r) ==
  <<Count("plugin_chain_duration_us", r, None), Count("plugin_duration_us", r, "access")>>

\* StatusCode::from_u16(status).unwrap_or(OK)
HttpStatus(status) == IF status \in 100..999 THEN status ELSE 200

\* execute_access_plugins where it answers itself: an exit, an error of a
\* plugin, and an error of the engine, which is neither logged nor counted as
\* a request and is sent with status 200.
PluginAnswer(r) ==
  CASE result.kind = "exit" ->
         Answer(HttpStatus(result.status),
                WithRequestId(insert_string_headers(<<>>, response_headers, "response")),
                <<emit_log(r, result.status, None, "plugin-short-circuit")>>,
                ChainCounts(r)
                \o <<Count("plugin_short_circuits_total", r, result.status),
                     record_request(r, result.status)>>)
    [] result.kind = "error" ->
         Answer(500,
                WithRequestId(Insert(<<>>, <<"x-", "plugin-error">>,
                                     Value("gateway", <<result.by>>, "ascii"))),
                <<emit_log(r, 500, None, "plugin-error")>>,
                ChainCounts(r)
                \o <<Count("plugin_errors_total", r, result.cause), record_request(r, 500)>>)
    [] result.kind = "engine" ->
         Answer(200, <<>>, <<>>, <<Count("plugin_errors_total", r, "runtime")>>)

\* RateLimitMode::as_header_value
as_header_value(mode) == IF mode = "fail-open" THEN "redis" ELSE mode

\* Mutant of limit_counts: a degraded decision is counted twice.
limit_counts_both(r, decision) ==
  IF decision = None \/ ~decision.allowed
  THEN <<Count("rate_limit_denied_total", r, None)>>
  ELSE IF decision.mode = "degraded-local"
  THEN <<Count("rate_limit_degraded_total", r, None),
         Count("rate_limit_allowed_total", r, None)>>
  ELSE <<Count("rate_limit_allowed_total", r, None)>>

limit_counts(r, decision) ==
  IF decision = None \/ ~decision.allowed
  THEN <<Count("rate_limit_denied_total", r, None)>>
  ELSE IF decision.mode = "degraded-local"
  THEN <<Count("rate_limit_degraded_total", r, None)>>
  ELSE <<Count("rate_limit_allowed_total", r, None)>>

\* Mutant of BeforeLimit: what plugins set goes over the identity.
BeforeLimitSwapped(auth) ==
  insert_string_headers(insert_identity(<<>>, auth.identity), response_headers, "response")

\* The headers that the limiter's key is read from.
BeforeLimit(auth) ==
  insert_identity(insert_string_headers(<<>>, response_headers, "response"), auth.identity)

RateLimited(r, auth, decision) ==
  LET subject == IF auth.identity = None THEN None ELSE auth.identity.text
      mode == as_header_value(decision.mode)
      map == insert_rate_limit_headers(BeforeLimit(auth), decision)
      counts == ChainCounts(r) \o limit_counts(r, decision)
  IN IF ~decision.allowed
     THEN Answer(429,
                 Insert(map, <<"retry-", "after">>, Value("gateway", <<>>, "ascii")),
                 <<emit_log(r, 429, subject, mode)>>, counts \o <<record_request(r, 429)>>)
     ELSE Answer(200,
                 WithRequestId(insert_string_headers(map, upstream_headers, "service")),
                 <<emit_log(r, 200, subject, mode)>>, counts \o <<record_request(r, 200)>>)

\* matched says how far the request got before the plugins: "no route",
\* "method" where the route refuses its method, or "route".
check_inner(r, matched, auth, decision) ==
  LET deny(status, counts) ==
        [early_deny(r, status) EXCEPT !.counts = ChainCounts(r) \o counts \o @]
  IN IF matched = "no route" THEN NoRoute
     ELSE IF matched = "method" THEN method_denied(r)
     ELSE IF result.kind # "continue" THEN PluginAnswer(r)
     ELSE IF auth.denied # None
       THEN deny(auth.denied, <<Count("auth_failures_total", r, None)>>)
     ELSE IF decision = None THEN deny(503, limit_counts(r, decision))
     ELSE RateLimited(r, auth, decision)

-----------------------------------------------------------------------------
(* Properties: what may happen to any request once its plugins are through *)

\* The findings of the auth stage that the route's policy allows.
AuthsOf(r) ==
  {a \in Auths : ~Policy[r].auth_required <=> (a.denied = None /\ a.identity = None)}

Answering == result # None /\ (result.kind = "engine" \/ (phase = "log" /\ pos = 1))

\* What the upstream is told about the caller is the token's, whatever the
\* plugins of the route set: on a route with authentication the identity
\* headers of an allowed request come from the token, unless its subject
\* cannot be a header value; nothing that plugins set through
\* service.request.set_header gets upstream, since the prefixes that Envoy lets
\* through are the ones reserved to the gateway; and no plugin replaces the id
\* of the request (the order of the insertions in check_inner,
\* RESERVED_HEADER_PREFIXES, build_ext_authz_filter).
IdentityFromToken ==
  Answering /\ result.kind = "continue" =>
    \A auth \in AuthsOf(route), decision \in Decisions :
      LET answer == check_inner(route, "route", auth, decision)
          upstream == Upstream(answer.headers)
      IN answer.status = 200 =>
           /\ answer.headers[RequestId].from = "gateway"
           /\ \A n \in DOMAIN upstream : upstream[n].from # "service"
           /\ Policy[route].auth_required /\ auth.identity.form # "control" =>
                /\ AuthHeaders \subseteq DOMAIN upstream
                /\ \A n \in AuthHeaders : upstream[n].from = "token"

\* A client whose address the check can know.
Addressed(client) == TrustForwarded /\ client.forwarded \notin {None, <<>>}

\* Who shares a bucket: only requests of one route, and of them only those of
\* one caller.  By subject: subjects that are not plain ASCII are all
\* "anonymous", and where a subject cannot be a header value, or the route has
\* no authentication, a plugin may name the caller.  By address: only clients
\* with a trusted x-forwarded-for are told apart, and all others share one
\* bucket, since Envoy is not told to pass x-envoy-external-address on.  For
\* names of routes without a colon (key_value, build_key, allowed_headers).
CallersApart ==
  Answering /\ result.kind = "continue" =>
    \A q \in Routes : \A a \in AuthsOf(route), b \in AuthsOf(q) :
      a.denied = None /\ b.denied = None =>
        \A c, d \in Clients :
          LET Key(r, auth, client) ==
                build_key(RouteName[r], Policy[r].key_by,
                          key_value(r, BeforeLimit(auth), client))
              Plain(auth) == auth.identity # None /\ auth.identity.form = "ascii"
              shared == Key(route, a, c) = Key(q, b, d)
          IN /\ shared => route = q
             /\ shared /\ Policy[route].key_by = "sub" /\ Plain(a) /\ Plain(b) =>
                  a.identity.text = b.identity.text
             /\ route = q /\ Policy[route].key_by = "ip" =>
                  shared <=> IF Addressed(c) /\ Addressed(d)
                             THEN c.forwarded = d.forwarded
                             ELSE ~Addressed(c) /\ ~Addressed(d)

Total(counts, metrics) == Len(SelectSeq(counts, LAMBDA c : c.metric \in metrics))
LimitCounts ==
  {"rate_limit_allowed_total", "rate_limit_degraded_total", "rate_limit_denied_total"}

\* The books balance.  Every answer is logged and counted as a request exactly
\* once, and log, count and answer agree on the status, except that an exit
\* with a number that is no HTTP status is logged and counted with it while 200
\* is sent, and that the engine's error is answered with 200 and appears only
\* among the plugin errors; the limiter's decisions are counted once each, and only for
\* requests that the plugins and the auth stage let through; and only a request
\* that passed both names a subject or a mode in the log (record_*, emit_log).
BooksBalance ==
  Answering =>
    \A matched \in {"no route", "method", "route"},
       auth \in AuthsOf(route), decision \in Decisions :
      LET answer == check_inner(route, matched, auth, decision)
          engine == matched = "route" /\ result.kind = "engine"
          through == matched = "route" /\ result.kind = "continue" /\ auth.denied = None
          logged == IF engine THEN 0 ELSE 1
      IN /\ Len(answer.log) = logged
         /\ Total(answer.counts, {"http_requests_total"}) = logged
         /\ \A i \in DOMAIN answer.log :
              LET said == answer.log[i].status
              IN /\ \/ said = answer.status
                    \/ result.kind = "exit" /\ said \notin 100..999 /\ answer.status = 200
                 /\ record_request(answer.log[i].route, said) \in ToSet(answer.counts)
         /\ Total(answer.counts, LimitCounts) = IF through THEN 1 ELSE 0
         /\ answer.status = 429 =>
              Total(answer.counts, {"rate_limit_denied_total"}) = 1
         /\ \A i \in DOMAIN answer.log :
              answer.log[i].mode \in {"redis", "degraded-local"} =>
                through /\ decision # None
=============================================================================
