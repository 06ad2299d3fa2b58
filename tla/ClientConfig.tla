----------------------------- MODULE ClientConfig -----------------------------
(***************************************************************************)
(* client/client_config.cpp and client/credential_security.cpp: which      *)
(* profiles the client accepts, and the two parsers of a route, the one    *)
(* that accepts the profile and the one that installs the route later.     *)
(* A profile is the sequence of its fields, each a record with one field.  *)
(* A missing section is one whose fields are missing.  A text that         *)
(* require_text refuses is BadText, the path of no regular file NoFile; a  *)
(* key file is a record of its own.  A route is what its text says: the    *)
(* family (a colon), the number of slashes, the address and the prefix     *)
(* around the first one, and whether the two are spelled the shortest way. *)
(***************************************************************************)
EXTENDS ServerConfig

BadText == "bad text"
NoFile == "no regular file"

RequiredFields ==
    {"schema_version", "host", "port", "expected_name", "ca_file", "certificate_chain_file",
     "private_key_file", "requested_mtu", "routes"}
Fields == RequiredFields \cup {"allow_default_route"}

Route(ipv6, address, prefix) ==
    [ipv6 |-> ipv6, slashes |-> 1, address |-> address, prefix |-> prefix, shortest |-> TRUE]
DefaultIpv4 == Route(FALSE, Zeros(4), 0)        \* the text 0.0.0.0/0
DefaultIpv6 == Route(TRUE, Zeros(16), 0)        \* the text ::/0
-------------------------------------------------------------------------------
(* The access control list of a private key: entries with a type, the      *)
(* principal and whether the mask has a right to read.  A file without a   *)
(* list (restricted is FALSE) may be read by everybody.                    *)
TrustedSids == {"user", "system", "administrators"}

validate_private_key_acl(restricted, dacl) ==
    /\ restricted
    /\ \A i \in DOMAIN dacl :
          \/ dacl[i].type = "deny"
          \/ dacl[i].type = "allow" /\ (dacl[i].reads => dacl[i].sid \in TrustedSids)

(* The key is opened once; what is validated is the file that is read.     *)
open_validated_private_key_file(file) ==
    {key \in {file} : key.kind = "regular" /\ validate_private_key_acl(key.restricted, key.dacl)}

(* Windows' access check for a reader with the given principals: the first *)
(* entry about it decides.  An entry of an unknown type may grant.         *)
MayRead(sids, restricted, dacl) ==
    \/ ~restricted
    \/ \E i \in DOMAIN dacl :
          /\ dacl[i].type # "deny" /\ dacl[i].reads /\ dacl[i].sid \in sids
          /\ \A j \in 1..(i - 1) : dacl[j].sid \in sids /\ dacl[j].reads => dacl[j].type # "deny"
-------------------------------------------------------------------------------
(* The bits of the address after the prefix are zero.                      *)
is_canonical(address, prefix) ==
    \A i \in DOMAIN address :
       LET kept == Max({0, Min({8, prefix - 8 * (i - 1)})}) IN address[i] % 2^(8 - kept) = 0

address_of(route) ==
    IF route.ipv6 THEN parse_ipv6_address(route.address) ELSE parse_ipv4_address(route.address)

\* Mutant: only the default route of IPv4 needs the user's consent.
ValidateIpv4Default(route, allow_default_route) ==
    /\ route.slashes = 1
    /\ route.prefix \in 0..(IF route.ipv6 THEN 128 ELSE 32)
    /\ route.prefix = 0 => route.ipv6 \/ allow_default_route
    /\ \E address \in address_of(route) : is_canonical(address, route.prefix)

(* After a second slash the prefix of an IPv6 route is no number.          *)
validate_route(route, allow_default_route) ==
    /\ route.slashes = 1
    /\ route.prefix \in 0..(IF route.ipv6 THEN 128 ELSE 32)
    /\ route.prefix = 0 => allow_default_route
    /\ \E address \in address_of(route) : is_canonical(address, route.prefix)

(* client_network_transaction.cpp: parse_route and parse_route_v6.         *)
parse_route(route, assignment) ==
    {[network |-> a, prefix_length |-> route.prefix, gateway |-> assignment.gateway_address] :
        a \in {x \in parse_ipv4_address(route.address) : route.slashes = 1 /\ route.prefix \in 0..32}}

parse_route_v6(route, assignment) ==
    {[network |-> a, prefix_length |-> route.prefix, gateway |-> assignment.gateway_ipv6_address] :
        a \in {x \in parse_ipv6_address(route.address) :
                  route.slashes = 1 /\ route.prefix \in 0..128 /\ is_canonical(x, route.prefix)}}
-------------------------------------------------------------------------------
(* ensure_keys, for all sections: known fields, each at most once.         *)
ensure_keys(profile) ==
    /\ \A i \in DOMAIN profile : NameOf(profile[i]) \in Fields
    /\ \A i, j \in DOMAIN profile : NameOf(profile[i]) = NameOf(profile[j]) => i = j

Given(profile) == {NameOf(profile[i]) : i \in DOMAIN profile}
require_section(profile) == RequiredFields \subseteq Given(profile)

require_text(value) == value # BadText
require_unsigned(value, limits) == value \in limits
optional_boolean(value) == value \in {"true", "false"}
credential_path(file) == require_text(file) /\ file # NoFile

(* The one field that may be missing is a boolean, then false.             *)
FieldOf(profile, field) ==
    profile[CHOOSE i \in DOMAIN profile : NameOf(profile[i]) = field][field]
read_profile(profile) ==
    [field \in Fields |-> IF field \in Given(profile) THEN FieldOf(profile, field) ELSE "false"]

requests_full_tunnel(config) ==
    /\ config.allow_default_route = "true"
    /\ \E i \in DOMAIN config.routes : config.routes[i] \in {DefaultIpv4, DefaultIpv6}

routes_are_valid(config) ==
    /\ Len(config.routes) \in 1..64
    /\ \A i \in DOMAIN config.routes :
          /\ validate_route(config.routes[i], config.allow_default_route = "true")
          /\ \A j \in 1..(i - 1) : config.routes[j] # config.routes[i]

config_is_valid(config) ==
    /\ require_unsigned(config.schema_version, {1})
    /\ require_text(config.host) /\ require_text(config.expected_name)
    /\ require_unsigned(config.port, Ports)
    /\ credential_path(config.ca_file) /\ credential_path(config.certificate_chain_file)
    /\ open_validated_private_key_file(config.private_key_file) # {}
    /\ require_unsigned(config.requested_mtu, kMinimumIpv6Mtu..kMaximumTunnelMtu)
    /\ optional_boolean(config.allow_default_route)
    /\ routes_are_valid(config)
    /\ requests_full_tunnel(config) => config.host = "numeric"

load_client_config(profile) ==
    IF ensure_keys(profile) /\ require_section(profile)
    THEN {config \in {read_profile(profile)} : config_is_valid(config)}
    ELSE {}
===============================================================================
