----------------------------- MODULE MCGateway ------------------------------
(***************************************************************************)
(* Five configs: one with a single provider, one that moves its jwks_uri,  *)
(* asks for a scope and adds a provider, one whose route uses that one and *)
(* whose xDS port is taken, one that lets xDS listen by name, and one with *)
(* ext_proc and without authentication.                                    *)
(***************************************************************************)
EXTENDS Gateway

Provider(issuer, uri) ==
  [issuer |-> issuer, audience |-> "api", jwks_uri |-> uri, clock_skew_seconds |-> 1]

Route(provider, scopes) ==
  [auth_required |-> TRUE, auth_provider |-> provider, required_scopes |-> scopes]

At_(host, port) == [host |-> host, port |-> port]

Old ==
  [providers |-> [main |-> Provider("idp", "old_uri")],
   route |-> Route(None, {}),
   admin |-> At_("ip", 1), extauthz |-> At_("name", 2), xds |-> None,
   ext_proc |-> None]

Moved ==
  [Old EXCEPT !.providers = [main |-> Provider("idp", "new_uri"),
                             extra |-> Provider("idp", "old_uri")],
              !.route = Route("main", {"read"}),
              !.xds = At_("ip", 3)]

Extra == [Moved EXCEPT !.route = Route("extra", {}), !.xds = At_("ip", 2)]

Named == [Old EXCEPT !.xds = At_("name", 3)]

Processing == [Old EXCEPT !.providers = <<>>, !.route.auth_required = FALSE,
                          !.extauthz = None, !.ext_proc = At_("ip", 4)]

MCConfigs == {Old, Moved, Extra, Named, Processing}

Key(kid, material) == [kid |-> kid, material |-> material]

MCPublished ==
  [old_uri |-> <<Key("k1", "m1"), Key("k2", "m2")>>,
   new_uri |-> <<Key("k1", "m3"), Key("k1", "m1")>>]

Claims ==
  [iss |-> "idp", aud |-> {"api", "other"}, exp |-> -1, nbf |-> 1,
   scope |-> {"read"}, scp |-> None, sub |-> "alice"]

Token ==
  [parses |-> TRUE, alg |-> "RS256", kid |-> "k1", signed_by |-> "m1", claims |-> Claims]

WithClaims(c) == [Token EXCEPT !.claims = c]

Tokens ==
  {Token,
   [Token EXCEPT !.parses = FALSE], [Token EXCEPT !.alg = "HS256"],
   [Token EXCEPT !.kid = None], [Token EXCEPT !.kid = "k3"],
   [Token EXCEPT !.kid = "k2"], [Token EXCEPT !.signed_by = "m3"]}
  \cup {WithClaims(c) : c \in
          {[Claims EXCEPT !.iss = "other"], [Claims EXCEPT !.iss = None],
           [Claims EXCEPT !.aud = {"other"}], [Claims EXCEPT !.aud = None],
           [Claims EXCEPT !.exp = -2], [Claims EXCEPT !.exp = None],
           [Claims EXCEPT !.nbf = 2], [Claims EXCEPT !.nbf = None],
           [Claims EXCEPT !.sub = None],
           [Claims EXCEPT !.scope = {}, !.scp = {"read"}],
           [Claims EXCEPT !.scope = None, !.scp = {"read"}],
           [Claims EXCEPT !.scope = None]}}

MCAuthorizations ==
  {None, [scheme |-> "Basic", token |-> Token], [scheme |-> "Bearer", token |-> None]}
  \cup {[scheme |-> "Bearer", token |-> t] : t \in Tokens}

Headers(immediate, body, set) ==
  [kind |-> "request_headers", immediate |-> immediate, body |-> body, set |-> set]

MCMessages ==
  {Headers("none", "none", "k=v"), Headers("junk", "none", "none"),
   [kind |-> "request_body"], [kind |-> "response_headers"],
   [kind |-> "response_body"], [kind |-> "none"]}
=============================================================================
