----------------------------- MODULE Validation -----------------------------
(***************************************************************************)
(* What a configuration file has to say: the fields that may be left out   *)
(* and their defaults (shared/config_types.rs), and the checks of          *)
(* config/validation.rs.  The checks collect every error; here each is the *)
(* condition that it finds none.                                           *)
(*                                                                         *)
(* Records have the fields of the source.  A field that the file leaves    *)
(* out is None; "unknown" stands for fields that no structure has.         *)
(* Addresses and paths are sequences of characters; the other strings are  *)
(* values, of which the empty and the blank one matter.                    *)
(***************************************************************************)
EXTENDS Integers, Sequences, FiniteSetsExt, SequencesExt

CONSTANTS
  None,       \* Option::None, or a field that the file leaves out
  NaN         \* the f64 that no comparison holds of

-----------------------------------------------------------------------------
(* serde_yaml::from_str                                                    *)

Or(field, default) == IF field = None THEN default ELSE field

default_xds_listen_address ==
  <<"0", ".", "0", ".", "0", ".", "0", ":", "1", "8", "0", "0", "0">>
default_ext_proc_listen_address ==
  <<"0", ".", "0", ".", "0", ".", "0", ":", "1", "9", "0", "0", "0">>

\* XdsConfig and ExtProcConfig
Server(section, address) ==
  IF section = None THEN [enabled |-> FALSE, listen_address |-> address]
  ELSE [enabled |-> Or(section.enabled, FALSE),
        listen_address |-> Or(section.listen_address, address)]

PluginLimits(limits) ==
  LET given == Or(limits, [max_memory_bytes |-> None, max_instructions |-> None,
                           chain_timeout_ms |-> None])
  IN [max_memory_bytes |-> Or(given.max_memory_bytes, 8 * 1024 * 1024),
      max_instructions |-> Or(given.max_instructions, 1000000),
      chain_timeout_ms |-> Or(given.chain_timeout_ms, 50)]

PluginInstance(plugin) ==
  [name |-> plugin.name, enabled |-> Or(plugin.enabled, TRUE),
   fail_mode |-> Or(plugin.fail_mode, "closed")]

PluginInstances(list) ==
  LET given == Or(list, <<>>) IN [i \in DOMAIN given |-> PluginInstance(given[i])]

PluginsConfig(plugins) ==
  LET given == Or(plugins, [enabled |-> None, directory |-> None, limits |-> None,
                            global |-> None])
  IN [enabled |-> Or(given.enabled, FALSE), directory |-> Or(given.directory, ""),
      limits |-> PluginLimits(given.limits), global |-> PluginInstances(given.global)]

Required ==
  {"version", "gateway", "auth", "rate_limits", "routes", "services", "observability"}

Parses(document) ==
  document.unknown = {} /\ \A field \in Required : document[field] # None

GatewayConfig(document) ==
  [document EXCEPT
     !.routes = [i \in DOMAIN @ |-> [@[i] EXCEPT !.plugins = PluginInstances(@)]],
     !.plugins = PluginsConfig(@),
     !.xds = Server(@, default_xds_listen_address),
     !.ext_proc = Server(@, default_ext_proc_listen_address)]

-----------------------------------------------------------------------------
(* Addresses                                                               *)

Digits == <<"0", "1", "2", "3", "4", "5", "6", "7", "8", "9">>
Digit(ch) == (CHOOSE i \in DOMAIN Digits : Digits[i] = ch) - 1

\* rsplitn(2, ':') and rfind(':'): the place of the last colon, 0 if none.
LastColon(s) == Max({0} \cup {i \in DOMAIN s : s[i] = ":"})

\* str::parse::<u16>: digits after at most one plus sign, None if it fails.
ParsePort(s) ==
  LET digits == IF Len(s) > 1 /\ s[1] = "+" THEN Tail(s) ELSE s
      value == FoldLeft(LAMBDA n, ch : 10 * n + Digit(ch), 0, digits)
  IN IF digits # <<>> /\ ToSet(digits) \subseteq ToSet(Digits) /\ value < 2^16
     THEN value ELSE None

Host(s) == SubSeq(s, 1, LastColon(s) - 1)
Port(s) == ParsePort(SubSeq(s, LastColon(s) + 1, Len(s)))

\* Mutant of validate_host_port: the host may be empty.
validate_port_only(s) == LastColon(s) # 0 /\ Port(s) # None

validate_host_port(s) == LastColon(s) # 0 /\ Port(s) # None /\ Host(s) # <<>>

-----------------------------------------------------------------------------
(* The checks                                                              *)

check_version(c) == c.version = 1

Unique(list) == Cardinality({list[i].name : i \in DOMAIN list}) = Len(list)
Names(list) == {list[i].name : i \in DOMAIN list}

\* Mutant of check_uniqueness: route names are not compared.
check_service_names(c) == Unique(c.services) /\ Unique(c.auth.providers)

check_uniqueness(c) ==
  Unique(c.routes) /\ Unique(c.services) /\ Unique(c.auth.providers)

check_referential_integrity(c) ==
  \A r \in ToSet(c.routes) :
    /\ r.upstream.service \in Names(c.services)
    /\ r.auth_required /\ r.auth_provider # None =>
         r.auth_provider \in Names(c.auth.providers)

check_addresses(c) ==
  /\ validate_host_port(c.gateway.listen_address)
  /\ validate_host_port(c.gateway.admin_address)
  /\ c.gateway.extauthz_address # None => validate_host_port(c.gateway.extauthz_address)
  /\ c.xds.enabled => validate_host_port(c.xds.listen_address)
  /\ c.ext_proc.enabled => validate_host_port(c.ext_proc.listen_address)
  /\ validate_host_port(c.rate_limits.redis_address)

\* Url::parse needs a scheme.
check_providers(c) ==
  \A p \in ToSet(c.auth.providers) :
    p.name # "" /\ p.jwks_uri.scheme # None /\ p.cache_ttl_seconds # 0

VALID_METHODS == {"GET", "POST", "PUT", "DELETE", "PATCH", "HEAD"}
VALID_KEY_BY == {"ip", "sub"}
VALID_PLUGIN_FAIL_MODES == {"closed", "open"}

\* x < bound for an f64, which may be NaN
Less(x, bound) == x # NaN /\ x < bound
Blank(s) == s \in {"", " "}

validate_plugin_instance(plugin) ==
  ~Blank(plugin.name) /\ plugin.fail_mode \in VALID_PLUGIN_FAIL_MODES

check_plugin_list(list) ==
  Unique(list) /\ \A p \in ToSet(list) : validate_plugin_instance(p)

check_routes(c) ==
  \A r \in ToSet(c.routes) :
    /\ r.name # "" /\ r.hostnames # <<>> /\ r.methods # {}
    /\ IsPrefix(<<"/">>, r.path_prefix)
    /\ r.methods \subseteq VALID_METHODS
    /\ r.rate_limit.bucket_capacity >= 1
    /\ ~(Less(r.rate_limit.refill_rate_per_sec, 0) \/ r.rate_limit.refill_rate_per_sec = 0)
    /\ r.rate_limit.key_by \in VALID_KEY_BY
    /\ check_plugin_list(r.plugins)

check_services(c) ==
  \A s \in ToSet(c.services) :
    /\ s.name # "" /\ s.endpoints # <<>>
    /\ \A e \in ToSet(s.endpoints) : validate_host_port(e)
    /\ IsPrefix(<<"/">>, s.health_check.path)

\* The sample rate, in hundredths.
check_sample_rate(c) ==
  LET rate == c.observability.tracing.sample_rate
  IN ~Less(rate, 0) /\ (rate = NaN \/ rate <= 100)

check_plugins(c) ==
  /\ c.plugins.enabled =>
       /\ ~Blank(c.plugins.directory)
       /\ \A limit \in {"max_memory_bytes", "max_instructions", "chain_timeout_ms"} :
            c.plugins.limits[limit] # 0
  /\ check_plugin_list(c.plugins.global)

check_conditional_requirements(c) ==
  /\ \A r \in ToSet(c.routes) :
       /\ r.auth_required => r.auth_provider # None
       /\ r.required_scopes # {}
  /\ c.observability.tracing.enabled => c.observability.tracing.otlp_endpoint # ""

validate(c) ==
  /\ check_version(c)
  /\ check_uniqueness(c)
  /\ check_referential_integrity(c)
  /\ check_addresses(c) /\ check_providers(c) /\ check_routes(c)
  /\ check_services(c) /\ check_sample_rate(c) /\ check_plugins(c)
  /\ check_conditional_requirements(c)

\* The configuration, None if there is none.
load_config_from_str(document) ==
  IF ~Parses(document) THEN None
  ELSE LET c == GatewayConfig(document) IN IF validate(c) THEN c ELSE None
=============================================================================
