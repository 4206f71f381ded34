--------------------------- MODULE Authentication ---------------------------
(***************************************************************************)
(* What the auth stage decides about one request, as operators:            *)
(* extract_bearer (extauthz/helpers.rs), validate_token and its errors     *)
(* (auth/validator.rs, auth/error.rs) and apply_auth                       *)
(* (extauthz/auth_step.rs).  When keys are fetched is JwksCache's matter:  *)
(* here a provider's cache is a sequence of keys and whether it is stale.  *)
(*                                                                         *)
(* A token is a record of what its parts say.  A key is a kid and the key  *)
(* material; a signature verifies with the material it was made with.      *)
(* Times are relative to the moment of the check.                          *)
(***************************************************************************)
EXTENDS Integers, Sequences, FiniteSetsExt, SequencesExt

CONSTANT None  \* Option::None

-----------------------------------------------------------------------------
(* AuthError                                                               *)

http_status(error) ==
  CASE error = "insufficient_scopes" -> 403
    [] error = "auth_provider_unavailable" -> 503
    [] OTHER -> 401

\* The error of the first check that fails, or None.
FirstFailure(checks) ==
  LET failing == {i \in DOMAIN checks : ~checks[i].holds}
  IN IF failing = {} THEN None ELSE checks[Min(failing)].error

Check(holds, error) == [holds |-> holds, error |-> error]

-----------------------------------------------------------------------------
(* validate_token                                                          *)

\* keys.iter().find(|k| k.kid == kid)
KeyFor(kid, keys) ==
  LET matching == SelectSeq(keys, LAMBDA k : k.kid = kid)
  IN IF kid = None \/ matching = <<>> THEN None ELSE Head(matching)

\* Audience::contains: a single string or an array
HasAudience(aud, target) == target \in aud

\* Mutant of extract_scopes: both claims count.
BothScopes(claims) ==
  UNION {s \in {claims.scope, claims.scp} : s # None}

\* The scope string, or else the scp array, even if the string is empty.
extract_scopes(claims) ==
  CASE claims.scope # None -> claims.scope
    [] claims.scope = None /\ claims.scp # None -> claims.scp
    [] OTHER -> {}

\* The checks of jsonwebtoken's decode as decode_and_verify configures it:
\* the signature, the claims' form, the claims that must be there, exp and
\* nbf with the leeway, then the issuer and the audience.
decode_and_verify(token, key, provider) ==
  LET claims == token.claims
      skew == provider.clock_skew_seconds
  IN << Check(token.signed_by = key.material, "invalid_signature"),
        Check(claims.exp # None /\ claims.iss # None /\ claims.aud # None,
              "invalid_token"),
        Check(claims.exp # None => claims.exp + skew >= 0, "token_expired"),
        Check(claims.nbf # None => claims.nbf <= skew, "token_not_yet_valid"),
        Check(claims.iss = provider.issuer, "invalid_issuer"),
        Check(claims.aud # None => HasAudience(claims.aud, provider.audience),
              "invalid_audience") >>

\* The scopes are compared before the subject is asked for.
validate_token(token, provider, keys, required_scopes) ==
  LET key == KeyFor(token.kid, keys)
      error == FirstFailure(
                 << Check(token.parses, "invalid_token"),
                    Check(token.alg = "RS256", "unsupported_algorithm"),
                    Check(key # None, "unknown_key_id") >>
                 \o (IF key = None THEN <<>>
                     ELSE decode_and_verify(token, key, provider))
                 \o << Check(required_scopes \subseteq extract_scopes(token.claims),
                             "insufficient_scopes"),
                       Check(token.claims.sub # None, "missing_subject") >>)
  IN [error |-> error,
      identity |-> IF error # None THEN None
                   ELSE [sub |-> token.claims.sub, iss |-> token.claims.iss,
                         scopes |-> extract_scopes(token.claims)]]

-----------------------------------------------------------------------------
(* apply_auth                                                              *)

\* The Authorization header is absent, or a scheme and what follows it.
extract_bearer(authorization) ==
  IF authorization = None \/ authorization.scheme # "Bearer" THEN "none"
  ELSE IF authorization.token = None THEN "malformed"
  ELSE "valid"

\* auth_provider.as_deref().unwrap_or("main")
ProviderName(route) ==
  IF route.auth_provider = None THEN "main" ELSE route.auth_provider

Denied(error) == [status |-> http_status(error), error |-> error, identity |-> None]
Passed(identity) == [status |-> 200, error |-> None, identity |-> identity]

\* validate_with_refresh on a cache that is not refreshed meanwhile
Validated(token, provider, cache, required_scopes) ==
  LET result == validate_token(token, provider, cache.keys, required_scopes)
  IN IF cache.stale THEN Denied("auth_provider_unavailable")
     ELSE IF result.error # None THEN Denied(result.error)
     ELSE Passed(result.identity)

\* providers are those of the active config, caches those made at startup.
apply_auth(providers, caches, route, authorization) ==
  LET bearer == extract_bearer(authorization)
      name == ProviderName(route)
  IN IF ~route.auth_required THEN Passed(None)
     ELSE IF bearer = "malformed" THEN Denied("invalid_token_format")
     ELSE IF bearer = "none" THEN Denied("missing_token")
     ELSE IF name \notin DOMAIN providers \/ name \notin DOMAIN caches
       THEN Denied("auth_provider_unavailable")
     ELSE Validated(authorization.token, providers[name], caches[name],
                    route.required_scopes)

-----------------------------------------------------------------------------
(* The reference: what it means for a token to be good, claim by claim     *)

\* Some key that the provider published under the token's kid made the
\* signature, the token is for this gateway, from the provider's issuer and in
\* its lifetime up to the clock skew.
Genuine(token, provider, keys) ==
  /\ token.parses /\ token.alg = "RS256"
  /\ \E k \in ToSet(keys) : k.kid = token.kid /\ k.material = token.signed_by
  /\ token.claims.iss = provider.issuer
  /\ token.claims.aud # None /\ provider.audience \in token.claims.aud
  /\ token.claims.exp # None /\ -provider.clock_skew_seconds <= token.claims.exp
  /\ token.claims.nbf = None \/ token.claims.nbf <= provider.clock_skew_seconds

\* The token has every scope, in the claim that counts.
Scoped(claims, required_scopes) ==
  \A s \in required_scopes :
    \/ claims.scope # None /\ s \in claims.scope
    \/ claims.scope = None /\ claims.scp # None /\ s \in claims.scp
=============================================================================
