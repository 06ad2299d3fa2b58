--------------------------- MODULE TunnelSetupProofs ---------------------------
(***************************************************************************)
(* What holds of the setup of a tunnel for every access list, every packet *)
(* and every route, where MC_WireProtocol has samples.                     *)
(***************************************************************************)
EXTENDS WireProtocol, FrameProofs

(* The limits of an MTU are numbers.                                       *)
LEMMA MtuLimits == kMinimumIpv4Mtu \in Nat /\ kMaximumTunnelMtu \in Nat
PROOF BY DEF kMinimumIpv4Mtu, kMaximumTunnelMtu

(* What lies between two numbers is one.                                   *)
LEMMA BetweenNumbers == \A low, high \in Nat : \A n \in low..high : n \in Nat
PROOF OBVIOUS

(* A negotiated MTU is a number.                                           *)
LEMMA MtuIsNatural ==
    ASSUME NEW mtu, mtu \in kMinimumIpv4Mtu..kMaximumTunnelMtu
    PROVE  mtu \in Nat
PROOF BY MtuLimits, BetweenNumbers

(* A client and a session of the server that agree about the tunnel.       *)
Agreed(a, lease, negotiated_mtu) ==
    /\ a.mtu = negotiated_mtu
    /\ a.client_address = lease.address /\ a.client_ipv6_address = lease.ipv6_address
    /\ a.ipv6_prefix_length # 0 /\ ~is_unspecified(lease.ipv6_address)

(* Whatever packet the client sends, SessionController::handle takes it.   *)
LEMMA UplinkAccepted ==
    ASSUME NEW a, NEW lease, NEW negotiated_mtu, Agreed(a, lease, negotiated_mtu),
           NEW p, p.size \in Nat, p.header_length \in Nat, NEW t \in make_data_to_server(p, a)
    PROVE  server_accepts(t, p, lease, negotiated_mtu)
PROOF
<1>1. CASE p.size # 0 /\ p.version = 6
    <2>1. t = "DATA_IPV6" /\ client_validate_ipv6_packet(p, FALSE, a)
        BY <1>1 DEF make_data_to_server
    <2> QED BY <2>1 DEF client_validate_ipv6_packet, server_accepts, server_validate_ipv6_packet, Agreed
<1>2. CASE ~(p.size # 0 /\ p.version = 6)
    <2>1. t = "DATA_IPV4" /\ client_validate_ipv4_packet(p, FALSE, a)
        BY <1>2 DEF make_data_to_server
    <2> QED BY <2>1 DEF client_validate_ipv4_packet, server_accepts, server_validate_ipv4_packet, Agreed
<1> QED BY <1>1, <1>2

(* Whatever packet the router hands to the session and the session sends,  *)
(* ClientSessionController::handle takes it.                               *)
LEMMA DownlinkAccepted ==
    ASSUME NEW a, NEW lease, NEW negotiated_mtu, Agreed(a, lease, negotiated_mtu),
           negotiated_mtu \in Nat,
           NEW p, p.size \in Nat, p.header_length \in Nat,
           NEW t \in make_data_to_client(p, lease, negotiated_mtu)
    PROVE  client_accepts(t, p, a)
PROOF
<1>1. p.size # 0 /\ p.size <= negotiated_mtu
    BY DEF make_data_to_client
<1>2. CASE p.version = 6
    <2>1. /\ t = "DATA_IPV6"
          /\ p.size >= 40 /\ p.length + 40 = p.size /\ p.destination = lease.ipv6_address
        BY <1>1, <1>2 DEF make_data_to_client
    <2> QED BY <1>1, <1>2, <2>1 DEF client_accepts, client_validate_ipv6_packet, Agreed
<1>3. CASE p.version # 6
    <2>1. /\ t = "DATA_IPV4"
          /\ p.size >= 20 /\ p.version = 4 /\ 4 * p.header_length \in 20..p.size
          /\ p.length = p.size /\ p.destination = lease.address
        BY <1>1, <1>3 DEF make_data_to_client
    <2> QED BY <1>1, <2>1 DEF client_accepts, client_validate_ipv4_packet, Agreed
<1> QED BY <1>2, <1>3
-------------------------------------------------------------------------------
(* The stages in which the client has a TLS context.                       *)
Keyed == {"hello", "hello sent", "assignment sent", "established", "up"}

(* The key in the context has passed the check of its list.                *)
KeyInv == stage \in Keyed => validate_private_key_acl(used_key.restricted, used_key.dacl)

(* validate_private_key_acl is enough: an access list of any length that   *)
(* passes it grants no stranger the right to read, in whatever order       *)
(* Windows meets its entries.                                              *)
LEMMA ListExcludesStrangers ==
    ASSUME NEW sids, sids \cap TrustedSids = {}, NEW restricted, NEW dacl,
           validate_private_key_acl(restricted, dacl)
    PROVE  ~MayRead(sids, restricted, dacl)
PROOF BY DEF validate_private_key_acl, MayRead

(* No key is in use at first.                                              *)
LEMMA KeyInvInit == WholeInit => KeyInv
PROOF BY Zenon DEF WholeInit, SetupIdle, SetupInit, KeyInv, Keyed

(* A key comes into use only through validate_private_key_acl.             *)
LEMMA KeyInvStep == KeyInv /\ [WholeNext]_wholeVars => KeyInv'
PROOF
<1> SUFFICES ASSUME KeyInv, [WholeNext]_wholeVars PROVE KeyInv'
    OBVIOUS
<1>1. CASE UNCHANGED setupVars
    BY <1>1 DEF setupVars, KeyInv
<1>2. CASE ParseArguments
    BY <1>2 DEF ParseArguments, Proceed, KeyInv, Keyed
<1>3. CASE LoadProfile
    BY <1>3 DEF LoadProfile, Proceed, KeyInv, Keyed
<1>4. ASSUME NEW file \in Keys, ReplaceKey(file) PROVE KeyInv'
    BY <1>4 DEF ReplaceKey, KeyInv, Keyed
<1>5. CASE make_client_tls_context
    <2> DEFINE opened == {k \in open_validated_private_key_file(key) : k.matches}
    <2>1. CASE opened = {}
        BY <1>5, <2>1 DEF make_client_tls_context, Proceed, KeyInv, Keyed
    <2>2. CASE opened # {}
        <3>1. used_key' = key
            BY <1>5, <2>2 DEF make_client_tls_context
        <3>2. validate_private_key_acl(key.restricted, key.dacl)
            BY <2>2 DEF open_validated_private_key_file
        <3> QED BY <3>1, <3>2 DEF KeyInv, validate_private_key_acl
    <2> QED BY <2>1, <2>2
<1>6. CASE StartSession
    BY <1>6, Zenon DEF StartSession, KeyInv, Keyed
<1>7. ASSUME NEW candidate, HandleHello(candidate) PROVE KeyInv'
    BY <1>7, Zenon DEF HandleHello, Proceed, KeyInv, Keyed
<1>8. CASE HandleAssignment
    BY <1>8, Zenon DEF HandleAssignment, Proceed, KeyInv, Keyed
<1>9. CASE InstallRoutes
    BY <1>9, Zenon DEF InstallRoutes, KeyInv, Keyed
<1> QED
    BY <1>1, <1>2, <1>3, <1>4, <1>5, <1>6, <1>7, <1>8, <1>9, Zenon
    DEF WholeNext, wholeVars, SetupNext

(* The key that the client's TLS context holds could be read by no         *)
(* stranger when it was read, for every access list and every replacement  *)
(* of the file between loading the profile and make_client_tls_context.    *)
THEOREM KeyStaysPrivate == WholeSpec => []KeyIsPrivate
PROOF
<1>1. KeyInv => KeyIsPrivate
    BY ListExcludesStrangers, ReadersAssumption, Zenon DEF KeyInv, KeyIsPrivate, Keyed
<1> QED BY <1>1, KeyInvInit, KeyInvStep, PTL DEF WholeSpec
-------------------------------------------------------------------------------
(* What the stages keep of the steps before them: the routes of the        *)
(* profile have passed validate_route, the assignment has passed           *)
(* validate_ip_assignment, and what is installed are the profile's routes. *)
Loaded == Keyed \cup {"credentials"}

StageInv ==
    /\ stage # "not configured"
    /\ stage \in Loaded =>
          \A i \in DOMAIN client.routes :
             validate_route(client.routes[i], client.allow_default_route = "true")
    /\ stage \in {"established", "up"} => validate_ip_assignment(assignment)
    /\ stage = "up" => \A r \in routes : \E i \in DOMAIN client.routes : r \in parsed(i)

(* The parts of validate_route.                                            *)
LEMMA RouteParts ==
    ASSUME NEW route, NEW allow, validate_route(route, allow)
    PROVE  /\ route.slashes = 1 /\ (route.prefix = 0 => allow)
           /\ route.prefix \in 0..(IF route.ipv6 THEN 128 ELSE 32)
           /\ \E address \in address_of(route) : is_canonical(address, route.prefix)
PROOF BY Zenon DEF validate_route

(* What is parsed as an address is that address.                           *)
LEMMA AddressParts ==
    ASSUME NEW text
    PROVE  /\ \A a \in parse_ipv6_address(text) : a = text /\ Len(text) = 16
           /\ \A a \in parse_ipv4_address(text) : a = text /\ Len(text) = 4
PROOF BY Zenon DEF parse_ipv4_address, parse_ipv6_address

(* parse_route and parse_route_v6 read every route that validate_route has *)
(* accepted, and read it as the network it was accepted for.               *)
LEMMA ParsedAgain ==
    ASSUME NEW i, NEW allow, validate_route(client.routes[i], allow)
    PROVE  /\ parsed(i) # {}
           /\ \A r \in parsed(i) :
                 /\ is_canonical(r.network, r.prefix_length)
                 /\ r.prefix_length = 0 => allow
                 /\ r.gateway = IF Len(r.network) = 16 THEN assignment.gateway_ipv6_address
                                ELSE assignment.gateway_address
PROOF
<1> DEFINE route == client.routes[i]
<1>1. /\ route.slashes = 1 /\ (route.prefix = 0 => allow)
      /\ route.prefix \in 0..(IF route.ipv6 THEN 128 ELSE 32)
      /\ \E address \in address_of(route) : is_canonical(address, route.prefix)
    BY RouteParts, Zenon
<1>2. PICK address \in address_of(route) : is_canonical(address, route.prefix)
    BY <1>1, Zenon
<1>3. CASE route.ipv6
    <2>1. address \in parse_ipv6_address(route.address)
        BY <1>2, <1>3, Zenon DEF address_of
    <2>2. address = route.address /\ Len(route.address) = 16
        BY <2>1, AddressParts, Zenon
    <2>3. route.prefix \in 0..128 /\ is_canonical(route.address, route.prefix)
        BY <1>1, <1>2, <1>3, <2>2, Zenon
    <2>4. parsed(i) = parse_route_v6(route, assignment)
        BY <1>3, Zenon DEF parsed
    <2>5. parse_route_v6(route, assignment) =
              {[network |-> route.address, prefix_length |-> route.prefix,
                gateway |-> assignment.gateway_ipv6_address]}
        <3>1. {x \in parse_ipv6_address(route.address) :
                  route.slashes = 1 /\ route.prefix \in 0..128 /\ is_canonical(x, route.prefix)}
              = {route.address}
            <4>1. \A x \in parse_ipv6_address(route.address) : x = route.address
                BY AddressParts, Zenon
            <4>2. route.address \in parse_ipv6_address(route.address)
                BY <2>1, <2>2, Zenon
            <4> HIDE DEF route
            <4> QED BY ONLY <1>1, <2>3, <4>1, <4>2, Zenon
        <3> QED BY <3>1, Zenon DEF parse_route_v6
    <2> HIDE DEF route
    <2> QED BY <1>1, <2>2, <2>3, <2>4, <2>5
<1>4. CASE ~route.ipv6
    <2>1. address \in parse_ipv4_address(route.address)
        BY <1>2, <1>4, Zenon DEF address_of
    <2>2. address = route.address /\ Len(route.address) = 4
        BY <2>1, AddressParts, Zenon
    <2>3. route.prefix \in 0..32 /\ is_canonical(route.address, route.prefix)
        BY <1>1, <1>2, <1>4, <2>2, Zenon
    <2>4. parsed(i) = parse_route(route, assignment)
        BY <1>4, Zenon DEF parsed
    <2>5. parse_route(route, assignment) =
              {[network |-> route.address, prefix_length |-> route.prefix,
                gateway |-> assignment.gateway_address]}
        <3>1. {x \in parse_ipv4_address(route.address) : route.slashes = 1 /\ route.prefix \in 0..32}
              = {route.address}
            <4>1. \A x \in parse_ipv4_address(route.address) : x = route.address
                BY AddressParts, Zenon
            <4>2. route.address \in parse_ipv4_address(route.address)
                BY <2>1, <2>2, Zenon
            <4> HIDE DEF route
            <4> QED BY ONLY <1>1, <2>3, <4>1, <4>2, Zenon
        <3> QED BY <3>1, Zenon DEF parse_route
    <2> HIDE DEF route
    <2> QED BY <1>1, <2>2, <2>3, <2>4, <2>5
<1> QED BY <1>3, <1>4

(* Before the setup nothing has been loaded.                               *)
LEMMA StageInvInit == WholeInit => StageInv
PROOF BY Zenon DEF WholeInit, SetupIdle, SetupInit, StageInv, Loaded, Keyed

(* A profile that load_client_config accepts has only accepted routes.     *)
LEMMA LoadedRoutes ==
    ASSUME NEW profile, NEW config \in load_client_config(profile), NEW i \in DOMAIN config.routes
    PROVE  validate_route(config.routes[i], config.allow_default_route = "true")
PROOF
<1>1. config_is_valid(config)
    BY DEF load_client_config
<1>2. routes_are_valid(config)
    BY <1>1, Zenon DEF config_is_valid
<1> QED BY <1>2, Zenon DEF routes_are_valid

(* Each stage of the setup checks what it hands on.                        *)
LEMMA StageInvStep == StageInv /\ [WholeNext]_wholeVars => StageInv'
PROOF
<1> SUFFICES ASSUME StageInv, [WholeNext]_wholeVars PROVE StageInv'
    OBVIOUS
<1>1. CASE UNCHANGED setupVars
    BY <1>1, Zenon DEF setupVars, StageInv, parsed
<1>2. CASE ParseArguments
    BY <1>2 DEF ParseArguments, Proceed, StageInv, Loaded, Keyed
<1>3. CASE LoadProfile
    <2> DEFINE accepted == load_client_config(setup.profile)
    <2>1. CASE accepted = {}
        BY <1>3, <2>1 DEF LoadProfile, Proceed, StageInv, Loaded, Keyed
    <2>2. CASE accepted # {}
        <3>1. stage' = "credentials" /\ client' \in accepted
            BY <1>3, <2>2 DEF LoadProfile, Proceed
        <3> HIDE DEF accepted
        <3>2. \A i \in DOMAIN client'.routes :
                 validate_route(client'.routes[i], client'.allow_default_route = "true")
            BY <3>1, LoadedRoutes DEF accepted
        <3> QED BY <3>1, <3>2, Zenon DEF StageInv
    <2> QED BY <2>1, <2>2
<1>4. ASSUME NEW file \in Keys, ReplaceKey(file) PROVE StageInv'
    BY <1>4 DEF ReplaceKey, StageInv, parsed
<1>5. CASE make_client_tls_context
    <2>1. /\ stage = "credentials" /\ stage' \in {"hello", "refused"}
          /\ UNCHANGED client
        BY <1>5 DEF make_client_tls_context, Proceed
    <2> QED BY <2>1, Zenon DEF StageInv, Loaded, Keyed
<1>6. CASE StartSession
    <2>1. /\ stage = "hello" /\ stage' \in {"hello sent", "failed"}
          /\ UNCHANGED client
        BY <1>6, Zenon DEF StartSession
    <2> QED BY <2>1, Zenon DEF StageInv, Loaded, Keyed
<1>7. ASSUME NEW candidate, HandleHello(candidate) PROVE StageInv'
    <2>1. stage = "hello sent" /\ UNCHANGED client
        BY <1>7, Zenon DEF HandleHello
    <2>2. stage' \in {"assignment sent", "failed"}
        BY <1>7, Zenon DEF HandleHello, Proceed
    <2> QED BY <2>1, <2>2, Zenon DEF StageInv, Loaded, Keyed
<1>8. CASE HandleAssignment
    <2>1. /\ stage = "assignment sent" /\ stage' \in {"established", "failed"}
          /\ UNCHANGED client
        BY <1>8, Zenon DEF HandleAssignment, Proceed
    <2>2. stage' = "established" => validate_ip_assignment(assignment')
        <3> DEFINE accepted == {a \in decode_ip_assignment(wire) : assignment_is_acceptable(a)}
        <3>1. CASE accepted = {}
            BY <1>8, <3>1, Zenon DEF HandleAssignment, Proceed
        <3>2. CASE accepted # {}
            <4>1. assignment' \in accepted
                BY <1>8, <3>2, Zenon DEF HandleAssignment
            <4> QED BY <4>1 DEF decode_ip_assignment
        <3> QED BY <3>1, <3>2
    <2> QED BY <2>1, <2>2, Zenon DEF StageInv, Loaded, Keyed
<1>9. CASE InstallRoutes
    <2>1. /\ stage = "established" /\ stage' \in {"up", "not configured"}
          /\ UNCHANGED <<client, assignment>>
        BY <1>9, Zenon DEF InstallRoutes
    <2>2. \A i \in DOMAIN client.routes : parsed(i) # {}
        BY <2>1, ParsedAgain, Zenon DEF StageInv, Loaded, Keyed
    <2>3. stage' = "up" /\ routes' = UNION {parsed(i) : i \in DOMAIN client.routes}
        BY <1>9, <2>2, Zenon DEF InstallRoutes
    <2>4. \A r \in routes' : \E i \in DOMAIN client'.routes : r \in parsed(i)'
        BY <2>1, <2>3 DEF parsed
    <2> QED BY <2>1, <2>3, <2>4 DEF StageInv, Loaded, Keyed
<1> QED
    BY <1>1, <1>2, <1>3, <1>4, <1>5, <1>6, <1>7, <1>8, <1>9, Zenon
    DEF WholeNext, wholeVars, SetupNext

(* EndsAgree gives the packet checks what they need.                       *)
LEMMA EstablishedAgree ==
    ASSUME StageInv, EndsAgree, stage = "up"
    PROVE  Agreed(assignment, session.lease, session.mtu) /\ session.mtu \in Nat
PROOF
<1>1. assignment = to_assignment(session.lease, session.mtu)
    BY DEF EndsAgree
<1>2. /\ assignment.mtu = session.mtu /\ assignment.client_address = session.lease.address
      /\ assignment.client_ipv6_address = session.lease.ipv6_address
      /\ assignment.ipv6_prefix_length = 64
    BY <1>1 DEF to_assignment
<1>3. validate_ip_assignment(assignment)
    BY DEF StageInv
<1>4. session.mtu \in Nat
    <2>1. assignment.mtu \in kMinimumIpv4Mtu..kMaximumTunnelMtu
        BY <1>3 DEF validate_ip_assignment
    <2> QED BY <1>2, <2>1, MtuIsNatural
<1>5. ~is_unspecified(session.lease.ipv6_address)
    BY <1>2, <1>3 DEF validate_ip_assignment
<1> QED BY <1>2, <1>4, <1>5 DEF Agreed

(* The packet checks of the two ends fit each other for every packet, not  *)
(* only for those of the run, in every tunnel whose ends agree about it.   *)
THEOREM EveryPacketAgrees ==
    ASSUME StageInv, EndsAgree, stage = "up",
           NEW p, p.size \in Nat, p.header_length \in Nat
    PROVE  /\ \A t \in make_data_to_server(p, assignment) :
                 server_accepts(t, p, session.lease, session.mtu)
           /\ \A t \in make_data_to_client(p, session.lease, session.mtu) :
                 client_accepts(t, p, assignment)
PROOF BY EstablishedAgree, UplinkAccepted, DownlinkAccepted

(* The packets of the model have the fields that the checks look at.       *)
LEMMA PacketsAreTyped ==
    ASSUME NEW p \in Packets, session.mtu \in Nat
    PROVE  p.size \in Nat /\ p.header_length \in Nat
PROOF
<1> DEFINE F(n) == Headed(n, {0, 4}, {session.lease.address, server.gateway_address}, {n, n + 1})
           G(n) == Headed(n, {6}, {session.lease.ipv6_address, server.ipv6_gateway_address},
                          {l \in {n, n - 40, n - 39} : l >= 0})
<1>0. p \in (UNION {F(n) : n \in Sizes}) \cup (UNION {G(n) : n \in Sizes})
    BY Zenon DEF Packets
<1> HIDE DEF F, G
<1>1. ASSUME NEW n \in Sizes, p \in F(n) \/ p \in G(n)
      PROVE  p.size \in Nat /\ p.header_length \in Nat
    <2>1. p.size = n /\ p.header_length \in {4, 5, 10}
        BY <1>1 DEF F, G, Headed
    <2>2. n \in Nat
        BY DEF Sizes
    <2> QED BY <2>1, <2>2
<1>2. CASE p \in UNION {F(n) : n \in Sizes}
    BY <1>1, <1>2, Zenon
<1>3. CASE p \in UNION {G(n) : n \in Sizes}
    BY <1>1, <1>3, Zenon
<1>4. p \in UNION {F(n) : n \in Sizes} \/ p \in UNION {G(n) : n \in Sizes}
    BY <1>0
<1> QED BY <1>2, <1>3, <1>4

(* As long as the two ends of the tunnel agree, no packet that one end     *)
(* lets in is refused by the other.  That they agree is model-checked.     *)
THEOREM PacketsFit == WholeSpec => [](EndsAgree => PacketsAgree)
PROOF
<1>1. StageInv /\ EndsAgree => PacketsAgree
    <2> SUFFICES ASSUME StageInv, EndsAgree, stage = "up", NEW p \in Packets
                 PROVE  /\ \A t \in make_data_to_server(p, assignment) :
                              server_accepts(t, p, session.lease, session.mtu)
                        /\ \A t \in make_data_to_client(p, session.lease, session.mtu) :
                              client_accepts(t, p, assignment)
        BY DEF PacketsAgree
    <2>1. session.mtu \in Nat
        BY EstablishedAgree
    <2>2. p.size \in Nat /\ p.header_length \in Nat
        BY <2>1, PacketsAreTyped
    <2> QED BY <2>2, EveryPacketAgrees
<1> QED BY <1>1, StageInvInit, StageInvStep, PTL DEF WholeSpec

(* As long as the two ends agree, the routes of every accepted profile are *)
(* installed, each through the gateway of its family, and all traffic of a *)
(* family only with the consent of the profile.                            *)
THEOREM RoutesFit == WholeSpec => [](EndsAgree => RoutesAgree)
PROOF
<1>1. StageInv /\ EndsAgree => RoutesAgree
    <2> SUFFICES ASSUME StageInv, EndsAgree PROVE RoutesAgree
        OBVIOUS
    <2>1. stage # "not configured"
        BY Zenon DEF StageInv
    <2>2. ASSUME stage = "up", NEW r \in routes
          PROVE  /\ r.gateway = IF Len(r.network) = 16 THEN server.ipv6_gateway_address
                                ELSE server.gateway_address
                 /\ is_canonical(r.network, r.prefix_length)
                 /\ r.prefix_length = 0 => client.allow_default_route = "true"
        <3>1. assignment = to_assignment(session.lease, session.mtu)
            BY <2>2 DEF EndsAgree
        <3>2. /\ assignment.gateway_address = server.gateway_address
              /\ assignment.gateway_ipv6_address = server.ipv6_gateway_address
            BY <3>1 DEF to_assignment
        <3>3. PICK i \in DOMAIN client.routes : r \in parsed(i)
            BY <2>2 DEF StageInv
        <3>4. validate_route(client.routes[i], client.allow_default_route = "true")
            BY <2>2 DEF StageInv, Loaded, Keyed
        <3> QED BY <3>2, <3>3, <3>4, ParsedAgain, Zenon
    <2> QED BY <2>1, <2>2, Zenon DEF RoutesAgree
<1> QED BY <1>1, StageInvInit, StageInvStep, PTL DEF WholeSpec
-------------------------------------------------------------------------------
(* The stream of frames is a part of the whole that no other step touches. *)
LEMMA StreamIsPart == WholeSpec => StreamSpec
PROOF
<1>1. WholeInit => StreamInit
    <2>1. FramesIdle => StreamInit
        <3> SUFFICES ASSUME FramesIdle PROVE stream \in UNION {[1..n -> Byte] : n \in 0..StreamLength}
            BY DEF FramesIdle, StreamInit
        <3>1. stream = <<>> /\ <<>> \in [1..0 -> Byte] /\ 0 \in 0..StreamLength
            BY Limits DEF FramesIdle
        <3> QED BY <3>1
    <2> QED BY <2>1 DEF WholeInit
<1>2. [WholeNext]_wholeVars => [StreamNext]_streamVars
    BY DEF WholeNext, wholeVars
<1> QED BY <1>1, <1>2, PTL DEF WholeSpec, StreamSpec

(* In every behaviour of the wire FrameDecoder::push finds the frames of   *)
(* the stream, each once and in order, and fails where it must.            *)
THEOREM FramesAreDecoded == WholeSpec => []DecodesStream
PROOF BY StreamIsPart, StreamIsDecoded, PTL
===============================================================================
