----------------------------- MODULE ServerConfig -----------------------------
(***************************************************************************)
(* server/server_config.cpp and the checks of LeaseManager's constructor:  *)
(* which arguments the server starts with.  An argument is a record with   *)
(* one field, the option, named after the member of ServerConfig it sets.  *)
(* An option without a value is a record with the field without_value.  A  *)
(* dotted address is the sequence of its components, an IPv6 address the   *)
(* sequence of its bytes, and NotParsed or NotANumber any text that is     *)
(* neither.  A parser returns the set of the one value it accepts.         *)
(***************************************************************************)
EXTENDS Integers, ControlMessages

NotParsed == <<>>
NotANumber == -1

(* Addresses as numbers; TLC's numbers end at 2^31, so the models keep the *)
(* first byte below 128.                                                   *)
to_integer(address) ==
    ((address[1] * 256 + address[2]) * 256 + address[3]) * 256 + address[4]
from_integer(value) ==
    <<value \div 256^3, (value \div 256^2) % 256, (value \div 256) % 256, value % 256>>

parse_ipv4_address(text) ==
    {address \in {text} : Len(address) = 4 /\ \A i \in 1..4 : address[i] \in 0..255}
parse_ipv6_address(text) == {address \in {text} : Len(address) = 16}

(* value & mask, and the last address of its network.                      *)
Network(value, prefix_length) == value - (value % 2^(32 - prefix_length))
Broadcast(value, prefix_length) == Network(value, prefix_length) + 2^(32 - prefix_length) - 1
-------------------------------------------------------------------------------
Defaults ==
    [show_help |-> FALSE, show_version |-> FALSE,
     listen_address |-> <<0, 0, 0, 0>>, listen_port |-> 8443, tun_name |-> "pvpn0",
     certificate_chain_file |-> "", private_key_file |-> "", client_ca_file |-> "",
     client_crl_file |-> "",
     first_lease_address |-> <<10, 8, 0, 2>>, last_lease_address |-> <<10, 8, 0, 254>>,
     gateway_address |-> <<10, 8, 0, 1>>,
     ipv6_prefix_address |-> <<253, 0, 0, 8>> \o Zeros(12),
     ipv6_gateway_address |-> <<253, 0, 0, 8>> \o Zeros(11) \o <<1>>,
     prefix_length |-> 24, mtu |-> 1400, lease_seconds |-> <<0, 3600>>,
     worker_threads |-> 2, maximum_sessions |-> 1024, handshake_timeout_seconds |-> 10,
     idle_timeout_seconds |-> 300, metrics_interval_seconds |-> 60, metrics_format |-> "json"]

Ports == 1..65535

(* The limits that parse_unsigned is called with.  The one of              *)
(* lease_seconds is the whole range of its 32 bits but for zero.           *)
NumberLimits ==
    [listen_port |-> Ports, prefix_length |-> 1..32,
     mtu |-> kMinimumIpv6Mtu..kMaximumTunnelMtu, worker_threads |-> 1..256,
     maximum_sessions |-> 1..1000000, handshake_timeout_seconds |-> 1..300,
     idle_timeout_seconds |-> 1..86400, metrics_interval_seconds |-> 0..86400]

NameOf(a) == CHOOSE option \in DOMAIN a : TRUE

parse_unsigned(value, limits) == value \in limits
require_value(option) == option # "without_value"

argument_is_valid(a) ==
    LET option == NameOf(a)
    IN  /\ require_value(option)
        /\ option \in DOMAIN Defaults
        /\ option \in DOMAIN NumberLimits => parse_unsigned(a[option], NumberLimits[option])
        /\ option = "lease_seconds" => a[option] # <<0, 0>>
        /\ option = "metrics_format" => a[option] \in {"json", "prometheus"}

(* The last of several arguments for one option counts.                    *)
read_arguments(arguments) ==
    [option \in DOMAIN Defaults |->
        LET given == {i \in DOMAIN arguments : NameOf(arguments[i]) = option}
        IN  IF given = {} THEN Defaults[option] ELSE arguments[Max(given)][option]]

\* Mutant: a pool that begins at the address of the network is accepted.
PolicyFromNetwork(first, last, gateway, config) ==
    /\ first <= last
    /\ gateway # 0
    /\ config.prefix_length \in 1..32
    /\ config.mtu \in kMinimumIpv4Mtu..kMaximumTunnelMtu
    /\ config.lease_seconds # <<0, 0>>
    /\ gateway \notin first..last
    /\ \A value \in {first, last} :
          Network(value, config.prefix_length) = Network(gateway, config.prefix_length)
    /\ config.prefix_length <= 30 => last < Broadcast(gateway, config.prefix_length)

(* The checks of LeaseManager's constructor on the IPv4 pool.              *)
lease_policy_is_valid(first, last, gateway, config) ==
    /\ first <= last
    /\ gateway # 0
    /\ config.prefix_length \in 1..32
    /\ config.mtu \in kMinimumIpv4Mtu..kMaximumTunnelMtu
    /\ config.lease_seconds # <<0, 0>>
    /\ gateway \notin first..last
    /\ \A value \in {first, last} :
          Network(value, config.prefix_length) = Network(gateway, config.prefix_length)
    /\ config.prefix_length <= 30 =>
          /\ Network(gateway, config.prefix_length) < first
          /\ last < Broadcast(gateway, config.prefix_length)

(* The same for IPv6, whose prefix has always 64 bits.                     *)
ipv6_policy_is_valid(prefix, gateway) ==
    /\ ~is_unspecified(gateway)
    /\ bytes(prefix, 0, 8) = bytes(gateway, 0, 8)
    /\ is_unspecified(bytes(prefix, 8, 8))

validate(config) ==
    \/ config.show_help \/ config.show_version
    \/ /\ config.certificate_chain_file # "" /\ config.private_key_file # ""
       /\ config.client_ca_file # ""
       /\ config.listen_address # NotParsed
       /\ config.tun_name \notin {"", "longer than 15"}
       /\ \E first \in parse_ipv4_address(config.first_lease_address) :
          \E last \in parse_ipv4_address(config.last_lease_address) :
          \E gateway \in parse_ipv4_address(config.gateway_address) :
             lease_policy_is_valid(to_integer(first), to_integer(last), to_integer(gateway), config)
       /\ \E prefix \in parse_ipv6_address(config.ipv6_prefix_address) :
          \E gateway \in parse_ipv6_address(config.ipv6_gateway_address) :
             ipv6_policy_is_valid(prefix, gateway)

parse_server_arguments(arguments) ==
    IF \A i \in DOMAIN arguments : argument_is_valid(arguments[i])
    THEN {config \in {read_arguments(arguments)} : validate(config)}
    ELSE {}
===============================================================================
