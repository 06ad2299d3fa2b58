----------------------------- MODULE TunnelSetup -----------------------------
(***************************************************************************)
(* How a tunnel comes to be, from the texts that two people wrote to the   *)
(* routes that carry packets: the server parses its arguments, the client  *)
(* loads its profile and its credentials, CLIENT_HELLO and IP_ASSIGN cross *)
(* the wire as bytes, and the client installs the routes.  Each of these   *)
(* steps has checks of its own, in five source files; the properties say   *)
(* that the checks fit each other.                                         *)
(***************************************************************************)
EXTENDS ClientConfig, PacketPolicy

CONSTANTS
    Setups,         \* pairs of server arguments and a client profile
    Keys,           \* the private key files that may replace the profile's
    Readers         \* tokens of strangers: sets of principals that are not trusted

ASSUME ReadersAssumption == \A sids \in Readers : sids \cap TrustedSids = {}

VARIABLES
    setup,          \* the texts: arguments and profile
    stage,          \* how far the tunnel has come, or how it ended
    server,         \* ServerConfig, as the server accepted it
    client,         \* ClientConfig, as the client accepted it
    key,            \* the private key file on disk
    used_key,       \* the file whose key the client's TLS context holds
    wire,           \* the payload of the frame in flight
    session,        \* the server's session: its lease and negotiated MTU
    assignment,     \* what the client was assigned
    routes          \* the routes the client has installed

setupVars == <<setup, stage, server, client, key, used_key, wire, session, assignment, routes>>

None == <<>>

SetupInit ==
    /\ setup \in Setups
    /\ stage = "arguments"
    /\ server = None /\ client = None /\ key = None /\ used_key = None
    /\ wire = <<>> /\ session = None /\ assignment = None /\ routes = {}

(* Move on with the one value of a set, or end where it is empty.          *)
Proceed(values, next, failed) == stage' = IF values # {} THEN next ELSE failed
-------------------------------------------------------------------------------
ParseArguments ==
    /\ stage = "arguments"
    /\ LET accepted == {c \in parse_server_arguments(setup.arguments) :
                           ~c.show_help /\ ~c.show_version}
       IN  /\ Proceed(accepted, "profile", "refused")
           /\ server' = IF accepted # {} THEN CHOOSE c \in accepted : TRUE ELSE None
    /\ UNCHANGED <<setup, client, key, used_key, wire, session, assignment, routes>>

LoadProfile ==
    /\ stage = "profile"
    /\ LET accepted == load_client_config(setup.profile)
       IN  /\ Proceed(accepted, "credentials", "refused")
           /\ client' = IF accepted # {} THEN CHOOSE c \in accepted : TRUE ELSE None
           /\ key' = IF accepted # {} THEN client'.private_key_file ELSE None
    /\ UNCHANGED <<setup, server, used_key, wire, session, assignment, routes>>

(* Between loading and use, another program may replace the key.           *)
ReplaceKey(file) ==
    /\ stage = "credentials"
    /\ key' = file
    /\ UNCHANGED <<setup, stage, server, client, used_key, wire, session, assignment, routes>>

\* Mutant: the key is taken by its path, without another look at its list.
ContextUnchecked ==
    /\ stage = "credentials"
    /\ LET opened == {k \in {key} : k.matches}
       IN  /\ Proceed(opened, "hello", "refused")
           /\ used_key' = IF opened # {} THEN key ELSE None
    /\ UNCHANGED <<setup, server, client, key, wire, session, assignment, routes>>

(* The runtime's constructor: make_client_tls_context opens the key again  *)
(* and checks that it belongs to the certificate.                          *)
make_client_tls_context ==
    /\ stage = "credentials"
    /\ LET opened == {k \in open_validated_private_key_file(key) : k.matches}
       IN  /\ Proceed(opened, "hello", "refused")
           /\ used_key' = IF opened # {} THEN key ELSE None
    /\ UNCHANGED <<setup, server, client, key, wire, session, assignment, routes>>
-------------------------------------------------------------------------------
(* ClientSessionController's constructor and start.                        *)
StartSession ==
    /\ stage = "hello"
    /\ LET hello == [requested_mtu |-> client.requested_mtu,
                     capabilities |-> <<0, kCapabilityIpv4 + kCapabilityIpv6>>]
       IN  IF hello_is_valid(hello)
           THEN wire' = encode_client_hello(hello) /\ stage' = "hello sent"
           ELSE stage' = "failed" /\ UNCHANGED wire
    /\ UNCHANGED <<setup, server, client, key, used_key, session, assignment, routes>>

(* acquire with its lowest free address.                                   *)
acquire(candidate) ==
    LET address == from_integer(candidate)
    IN  {lease \in {[address |-> address,
                     ipv6_address |-> bytes(server.ipv6_prefix_address, 0, 8) \o Zeros(4) \o address]} :
            lease.ipv6_address # server.ipv6_gateway_address}

to_assignment(lease, mtu) ==
    [client_address |-> lease.address, gateway_address |-> server.gateway_address,
     prefix_length |-> server.prefix_length, mtu |-> mtu, lease_seconds |-> server.lease_seconds,
     client_ipv6_address |-> lease.ipv6_address,
     gateway_ipv6_address |-> server.ipv6_gateway_address, ipv6_prefix_length |-> 64]

negotiate(requested_mtu) == Min({requested_mtu, server.mtu})

(* The lease and the MTU of the reply, if it can be given and encoded.     *)
replies(candidate) ==
    {r \in {[lease |-> l, mtu |-> negotiate(h.requested_mtu)] :
               h \in decode_client_hello(wire), l \in acquire(candidate)} :
        validate_ip_assignment(to_assignment(r.lease, r.mtu))}

(* SessionErrorCode of what handle throws at; its text is left out.        *)
InvalidControlPayload == 3
LeaseUnavailable == 4

refusal(candidate) ==
    [code |-> IF decode_client_hello(wire) # {} /\ acquire(candidate) = {} THEN LeaseUnavailable
              ELSE InvalidControlPayload,
     message |-> <<>>]

(* SessionController::handle for CLIENT_HELLO.  A payload it cannot read,  *)
(* an address it cannot lease or an assignment it cannot encode ends the   *)
(* session with an ERROR, which the client takes for an unexpected message.*)
HandleHello(candidate) ==
    /\ stage = "hello sent"
    /\ LET valid == replies(candidate)
       IN  /\ Proceed(valid, "assignment sent", "failed")
           /\ session' = IF valid # {} THEN CHOOSE r \in valid : TRUE ELSE None
           /\ wire' = IF valid # {} THEN encode_ip_assignment(to_assignment(session'.lease, session'.mtu))
                      ELSE encode_error_message(refusal(candidate))
    /\ UNCHANGED <<setup, server, client, key, used_key, assignment, routes>>

assignment_is_acceptable(a) ==
    LET value == to_integer(a.client_address)
        gateway == to_integer(a.gateway_address)
        edges == {Network(gateway, a.prefix_length), Broadcast(gateway, a.prefix_length)}
    IN  /\ a.mtu <= client.requested_mtu /\ a.client_address # a.gateway_address
        /\ Network(value, a.prefix_length) = Network(gateway, a.prefix_length)
        /\ a.prefix_length <= 30 => value \notin edges /\ gateway \notin edges
        /\ IF a.ipv6_prefix_length = 0
           THEN is_unspecified(a.client_ipv6_address) /\ is_unspecified(a.gateway_ipv6_address)
           ELSE /\ a.ipv6_prefix_length = 64
                /\ a.client_ipv6_address # a.gateway_ipv6_address
                /\ bytes(a.client_ipv6_address, 0, 8) = bytes(a.gateway_ipv6_address, 0, 8)

(* ClientSessionController::handle for IP_ASSIGN.                          *)
HandleAssignment ==
    /\ stage = "assignment sent"
    /\ LET accepted == {a \in decode_ip_assignment(wire) : assignment_is_acceptable(a)}
       IN  /\ Proceed(accepted, "established", "failed")
           /\ assignment' = IF accepted # {} THEN CHOOSE a \in accepted : TRUE ELSE None
    /\ UNCHANGED <<setup, server, client, key, used_key, wire, session, routes>>

(* The routes of ClientNetworkTransaction::activate; a text it cannot read *)
(* undoes the whole transaction.                                           *)
parsed(i) ==
    LET text == client.routes[i]
    IN  IF text.ipv6 THEN parse_route_v6(text, assignment) ELSE parse_route(text, assignment)

InstallRoutes ==
    /\ stage = "established"
    /\ IF \A i \in DOMAIN client.routes : parsed(i) # {}
       THEN stage' = "up" /\ routes' = UNION {parsed(i) : i \in DOMAIN client.routes}
       ELSE stage' = "not configured" /\ UNCHANGED routes
    /\ UNCHANGED <<setup, server, client, key, used_key, wire, session, assignment>>

Pool == to_integer(server.first_lease_address)..to_integer(server.last_lease_address)

SetupNext ==
    \/ ParseArguments \/ LoadProfile \/ (\E file \in Keys : ReplaceKey(file))
    \/ make_client_tls_context \/ StartSession
    \/ stage = "hello sent" /\ \E candidate \in Pool : HandleHello(candidate)
    \/ HandleAssignment \/ InstallRoutes
-------------------------------------------------------------------------------
(* What LeaseManager's constructor lets pass and the other checks do not:  *)
(* a gateway at the edge of its network, which every client refuses, a     *)
(* pool with the address 0.0.0.0, which IP_ASSIGN cannot carry, and a pool *)
(* with the address whose IPv6 counterpart is the IPv6 gateway, when the   *)
(* session ended with LeaseUnavailable.                                    *)
Defective(config) ==
    LET gateway == to_integer(config.gateway_address)
    IN  \/ /\ config.prefix_length <= 30
           /\ gateway \in {Network(gateway, config.prefix_length),
                          Broadcast(gateway, config.prefix_length)}
        \/ 0 \in Pool
        \/ /\ session = None /\ \E m \in decode_error_message(wire) : m.code = LeaseUnavailable
           /\ \E candidate \in Pool : acquire(candidate) = {}

(* A server that starts can serve a client that starts: whatever arguments *)
(* and profile were accepted, whatever MTU each side asks for and whichever*)
(* address of the pool is free, the exchange of CLIENT_HELLO and IP_ASSIGN *)
(* succeeds, but for the three defects above.                              *)
AcceptedIsServed == stage = "failed" => Defective(server)

(* The two ends of an established tunnel mean the same by it: the client   *)
(* read from the bytes of IP_ASSIGN the lease the server's session holds,  *)
(* the gateway of its arguments and an MTU that both accept.               *)
EndsAgree ==
    stage \in {"established", "up"} =>
        /\ assignment = to_assignment(session.lease, session.mtu)
        /\ session.mtu = Min({client.requested_mtu, server.mtu})
        /\ to_integer(assignment.client_address) \in Pool

(* Packets of every size at a boundary, with right and wrong fields.       *)
Sizes == {0, 19, 20, 39, 40, 60, session.mtu, session.mtu + 1, session.mtu + 40}

Headed(size, versions, addresses, lengths) ==
    [size : {size}, version : versions, header_length : {4, 5, 10},
     length : lengths, source : addresses, destination : addresses]

Packets ==
    LET four == {session.lease.address, server.gateway_address}
        six == {session.lease.ipv6_address, server.ipv6_gateway_address}
    IN  (UNION {Headed(n, {0, 4}, four, {n, n + 1}) : n \in Sizes})
           \cup (UNION {Headed(n, {6}, six, {l \in {n, n - 40, n - 39} : l >= 0}) : n \in Sizes})

(* A packet that one end lets into the tunnel is never refused at the      *)
(* other, where the refusal would end the session: what the client sends   *)
(* passes the server's session, and what the server's router hands to the  *)
(* session and the session sends passes the client.                        *)
PacketsAgree ==
    stage = "up" => \A p \in Packets :
        /\ \A t \in make_data_to_server(p, assignment) :
              server_accepts(t, p, session.lease, session.mtu)
        /\ \A t \in make_data_to_client(p, session.lease, session.mtu) :
              on_tun_packet(p, session.lease) => client_accepts(t, p, assignment)

(* The routes of an accepted profile are installed: the parser that runs   *)
(* once the tunnel is established never refuses what the one that loaded   *)
(* the profile accepted, every route leads to the gateway of its family,   *)
(* and all traffic of a family only if the profile allows it.              *)
RoutesAgree ==
    /\ stage # "not configured"
    /\ stage = "up" =>
          \A r \in routes :
             /\ r.gateway = IF Len(r.network) = 16 THEN server.ipv6_gateway_address
                            ELSE server.gateway_address
             /\ is_canonical(r.network, r.prefix_length)
             /\ r.prefix_length = 0 => client.allow_default_route = "true"

(* The key the client uses could be read by no stranger when it was read,  *)
(* whatever its list of entries and whenever the file was replaced.        *)
KeyIsPrivate ==
    stage \in {"hello", "hello sent", "assignment sent", "established", "up"} =>
        \A sids \in Readers : ~MayRead(sids, used_key.restricted, used_key.dacl)
===============================================================================
