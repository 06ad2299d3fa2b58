----------------------------- MODULE PacketPolicy -----------------------------
(***************************************************************************)
(* The checks on an inner packet at the two ends of a tunnel, which the    *)
(* code makes four times over: in the client (client_session_controller),  *)
(* in the server's session (session_controller), once for each direction,  *)
(* and in its router (tunnel_router).  A packet is its size and the fields *)
(* of its header; a field that the size does not cover is never looked at. *)
(* Its length is the total length of IPv4, the payload length of IPv6.     *)
(***************************************************************************)
EXTENDS ControlMessages

(* The client, which knows its assignment.                                 *)
client_validate_ipv4_packet(p, from_server, a) ==
    /\ p.size >= 20 /\ p.size <= a.mtu
    /\ p.version = 4 /\ 4 * p.header_length \in 20..p.size /\ p.length = p.size
    /\ (IF from_server THEN p.destination ELSE p.source) = a.client_address

\* Mutant: the MTU limits the payload of an IPv6 packet, not the packet.
ClientPayloadMtu(p, from_server, a) ==
    /\ a.ipv6_prefix_length # 0
    /\ p.size >= 40 /\ p.length <= a.mtu /\ p.version = 6
    /\ p.length + 40 = p.size
    /\ (IF from_server THEN p.destination ELSE p.source) = a.client_ipv6_address

client_validate_ipv6_packet(p, from_server, a) ==
    /\ a.ipv6_prefix_length # 0
    /\ p.size >= 40 /\ p.size <= a.mtu /\ p.version = 6
    /\ p.length + 40 = p.size
    /\ (IF from_server THEN p.destination ELSE p.source) = a.client_ipv6_address

(* The types of the frames that carry the packet: one or none.             *)
make_data_to_server(p, a) ==
    IF p.size # 0 /\ p.version = 6
    THEN {t \in {"DATA_IPV6"} : client_validate_ipv6_packet(p, FALSE, a)}
    ELSE {t \in {"DATA_IPV4"} : client_validate_ipv4_packet(p, FALSE, a)}

client_accepts(type, p, a) ==
    IF type = "DATA_IPV6" THEN client_validate_ipv6_packet(p, TRUE, a)
    ELSE client_validate_ipv4_packet(p, TRUE, a)
-------------------------------------------------------------------------------
(* The server, which knows the lease and the negotiated MTU.               *)
server_validate_ipv4_packet(p, lease, negotiated_mtu) ==
    /\ p.size >= 20 /\ p.size <= negotiated_mtu
    /\ p.version = 4 /\ 4 * p.header_length >= 20 /\ 4 * p.header_length <= p.size
    /\ p.length = p.size
    /\ p.source = lease.address

server_validate_ipv6_packet(p, lease, negotiated_mtu) ==
    /\ ~is_unspecified(lease.ipv6_address)
    /\ p.size >= 40 /\ p.size <= negotiated_mtu /\ p.version = 6
    /\ p.length + 40 = p.size
    /\ p.source = lease.ipv6_address

server_accepts(type, p, lease, negotiated_mtu) ==
    IF type = "DATA_IPV6" THEN server_validate_ipv6_packet(p, lease, negotiated_mtu)
    ELSE server_validate_ipv4_packet(p, lease, negotiated_mtu)

make_data_to_client(p, lease, negotiated_mtu) ==
    IF p.size = 0 \/ p.size > negotiated_mtu THEN {}
    ELSE IF p.version = 6
    THEN {t \in {"DATA_IPV6"} :
            /\ p.size >= 40 /\ ~is_unspecified(lease.ipv6_address)
            /\ p.length + 40 = p.size /\ p.destination = lease.ipv6_address}
    ELSE {t \in {"DATA_IPV4"} :
            /\ p.size >= 20
            /\ p.version = 4 /\ 4 * p.header_length \in 20..p.size
            /\ p.length = p.size /\ p.destination = lease.address}

(* on_tun_packet and the router: the packet is handed to the session that  *)
(* has the lease.                                                          *)
route_ipv4_packet(p, lease) ==
    /\ p.size >= 20
    /\ p.version = 4 /\ 4 * p.header_length >= 20 /\ 4 * p.header_length <= p.size
    /\ p.length = p.size
    /\ p.destination = lease.address

route_ipv6_packet(p, lease) ==
    /\ p.size >= 40 /\ p.version = 6
    /\ p.length + 40 = p.size
    /\ p.destination = lease.ipv6_address

on_tun_packet(p, lease) ==
    IF p.size # 0 /\ p.version = 6 THEN route_ipv6_packet(p, lease) ELSE route_ipv4_packet(p, lease)
===============================================================================
