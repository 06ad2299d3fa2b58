---------------------------- MODULE ControlMessages ----------------------------
(***************************************************************************)
(* protocol/control_messages.cpp: the payloads of control frames as bytes  *)
(* in network order.  A 32-bit number is the pair, a 64-bit number the     *)
(* quadruple of its 16-bit words, so that all of them keep their width.    *)
(* An address is the sequence of its bytes.  A decoder returns the set of  *)
(* the one message it accepts, and the empty set where the code throws     *)
(* std::invalid_argument.                                                  *)
(***************************************************************************)
EXTENDS Naturals, SequencesExt

kMinimumIpv4Mtu == 576
kMinimumIpv6Mtu == 1280
kMaximumTunnelMtu == 9000
kMaximumErrorMessageSize == 1024
kCapabilityIpv4 == 1
kCapabilityIpv6 == 2

Zeros(n) == [i \in 1..n |-> 0]
is_unspecified(address) == \A i \in DOMAIN address : address[i] = 0

append_u16(value) == <<value \div 256, value % 256>>
append_words(words) == FlattenSeq([i \in DOMAIN words |-> append_u16(words[i])])

(* Offsets count from zero, as in the code.                                *)
read_u16(data, offset) == 256 * data[offset + 1] + data[offset + 2]
read_words(data, offset, n) == [i \in 1..n |-> read_u16(data, offset + 2 * (i - 1))]
bytes(data, offset, n) == SubSeq(data, offset + 1, offset + n)
-------------------------------------------------------------------------------
hello_is_valid(m) ==
    /\ m.requested_mtu \in kMinimumIpv6Mtu..kMaximumTunnelMtu
    /\ m.capabilities = <<0, kCapabilityIpv4 + kCapabilityIpv6>>

encode_client_hello(m) == append_words(<<m.requested_mtu, 0>> \o m.capabilities)

decode_client_hello(payload) ==
    IF Len(payload) # 8 \/ read_u16(payload, 2) # 0 THEN {}
    ELSE LET m == [requested_mtu |-> read_u16(payload, 0), capabilities |-> read_words(payload, 4, 2)]
         IN  IF hello_is_valid(m) THEN {m} ELSE {}
-------------------------------------------------------------------------------
validate_ip_assignment(m) ==
    /\ ~is_unspecified(m.client_address) /\ ~is_unspecified(m.gateway_address)
    /\ m.prefix_length \in 1..32
    /\ m.mtu \in kMinimumIpv4Mtu..kMaximumTunnelMtu
    /\ m.lease_seconds # <<0, 0>>
    /\ IF m.ipv6_prefix_length # 0
       THEN /\ m.ipv6_prefix_length <= 128
            /\ ~is_unspecified(m.client_ipv6_address) /\ ~is_unspecified(m.gateway_ipv6_address)
            /\ m.client_ipv6_address # m.gateway_ipv6_address
            /\ m.mtu >= kMinimumIpv6Mtu
       ELSE is_unspecified(m.client_ipv6_address) /\ is_unspecified(m.gateway_ipv6_address)

\* Mutant: the gateways are written before the addresses of the client.
EncodeGatewayFirst(m) ==
    m.gateway_address \o m.client_address \o <<m.prefix_length, 0>>
        \o append_u16(m.mtu) \o append_words(m.lease_seconds)
        \o m.client_ipv6_address \o m.gateway_ipv6_address
        \o <<m.ipv6_prefix_length, 0, 0, 0>>

encode_ip_assignment(m) ==
    m.client_address \o m.gateway_address \o <<m.prefix_length, 0>>
        \o append_u16(m.mtu) \o append_words(m.lease_seconds)
        \o m.client_ipv6_address \o m.gateway_ipv6_address
        \o <<m.ipv6_prefix_length, 0, 0, 0>>

read_ip_assignment(payload) ==
    [client_address |-> bytes(payload, 0, 4), gateway_address |-> bytes(payload, 4, 4),
     prefix_length |-> payload[9], mtu |-> read_u16(payload, 10),
     lease_seconds |-> read_words(payload, 12, 2),
     client_ipv6_address |-> bytes(payload, 16, 16), gateway_ipv6_address |-> bytes(payload, 32, 16),
     ipv6_prefix_length |-> payload[49]]

decode_ip_assignment(payload) ==
    IF Len(payload) # 52 \/ payload[10] # 0 \/ ~is_unspecified(bytes(payload, 49, 3)) THEN {}
    ELSE {m \in {read_ip_assignment(payload)} : validate_ip_assignment(m)}
-------------------------------------------------------------------------------
encode_liveness_probe(m) == append_words(m.nonce)

decode_liveness_probe(payload) ==
    IF Len(payload) # 8 THEN {} ELSE {[nonce |-> read_words(payload, 0, 4)]}

(* A text is the sequence of its bytes.                                    *)
error_is_valid(m) == Len(m.message) <= kMaximumErrorMessageSize

encode_error_message(m) == append_u16(m.code) \o m.message

decode_error_message(payload) ==
    IF Len(payload) \notin 2..(2 + kMaximumErrorMessageSize) THEN {}
    ELSE {[code |-> read_u16(payload, 0), message |-> SubSeq(payload, 3, Len(payload))]}

encode_close_message(m) == append_u16(m.code)

decode_close_message(payload) ==
    IF Len(payload) # 2 THEN {} ELSE {[code |-> read_u16(payload, 0)]}
===============================================================================
