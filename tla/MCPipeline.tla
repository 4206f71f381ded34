----------------------------- MODULE MCPipeline -----------------------------
(* Two routes that configure one plugin differently, a plugin that is      *)
(* configured both globally and on a route, and one that is disabled; one  *)
(* route limits by the subject of its tokens, the other by address.        *)
EXTENDS Pipeline

Plugin(name, fail_mode, config) ==
  [name |-> name, fail_mode |-> fail_mode, config |-> config, enabled |-> TRUE]

MCGlobal == <<Plugin(2, "open", "global")>>
MCRoutePlugins ==
  [r \in {"ra", "rb"} |->
     IF r = "ra" THEN <<Plugin(1, "open", "a"), Plugin(3, "closed", "a")>>
     ELSE <<Plugin(3, "open", "b"), Plugin(2, "closed", "b"),
            [Plugin(1, "open", "b") EXCEPT !.enabled = FALSE]>>]
MCPriority == <<20, 10, 10>>

MCHeaderSets ==
  {[api |-> "response", name |-> <<"x-auth-", "sub">>],
   [api |-> "response", name |-> <<"not a header", "">>],
   [api |-> "service", name |-> <<"x-auth-", "sub">>],
   [api |-> "service", name |-> <<"x-", "request-id">>]}

MCRouteName == [ra |-> <<"a">>, rb |-> <<"a", "b">>]
MCPolicy ==
  [ra |-> [auth_required |-> TRUE, key_by |-> "sub"],
   rb |-> [auth_required |-> FALSE, key_by |-> "ip"]]

Identity(text, form) == [denied |-> None, identity |-> [text |-> text, form |-> form]]
MCAuths ==
  {[denied |-> None, identity |-> None], [denied |-> 401, identity |-> None],
   Identity(<<"s">>, "ascii"), Identity(<<"b", ":", "ip", ":", "s">>, "ascii"),
   Identity(<<"o">>, "opaque"), Identity(<<"c">>, "control")}

MCPluginText == <<"s">>
MCClients ==
  {[forwarded |-> None, external |-> None], [forwarded |-> <<>>, external |-> <<"s">>],
   [forwarded |-> <<"sub", ":", "s">>, external |-> <<"s">>]}

MCDecisions ==
  {None} \cup [allowed : BOOLEAN, mode : {"redis", "degraded-local"}]
  \cup {[allowed |-> TRUE, mode |-> "fail-open"]}
=============================================================================
