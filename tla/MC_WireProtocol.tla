--------------------------- MODULE MC_WireProtocol ---------------------------
(* Every stream of up to six bytes in every division into reads; every     *)
(* pool and gateway in small networks at 0.0.0.0 and 10.8.0.0, all pairs   *)
(* of MTUs at the limits, arguments and profiles with one thing out of the *)
(* ordinary, every access list of up to two entries; and every payload     *)
(* with one byte changed, lost or added.                                   *)
EXTENDS WireProtocol

Required ==
    <<[certificate_chain_file |-> "cert"], [private_key_file |-> "key"],
      [client_ca_file |-> "ca"]>>
Ula == <<253, 0, 0, 8, 0, 0, 0, 0>>
Small == <<[first_lease_address |-> <<10, 8, 0, 2>>], [last_lease_address |-> <<10, 8, 0, 3>>]>>

PoolArguments ==
    {Required \o <<[first_lease_address |-> base \o <<first>>],
                   [last_lease_address |-> base \o <<last>>],
                   [gateway_address |-> base \o <<gateway>>],
                   [prefix_length |-> prefix], [ipv6_gateway_address |-> gateway6]>> :
        base \in {<<0, 0, 0>>, <<10, 8, 0>>}, first \in 0..7, last \in 0..7, gateway \in 0..7,
        prefix \in {29, 30, 31, 32}, gateway6 \in {Ula \o Zeros(7) \o <<1>>, Ula \o Zeros(4) \o <<10, 8, 0, 3>>}}

OddArguments ==
    {[listen_port |-> p] : p \in {NotANumber, 0, 1, 65535, 65536}}
    \cup {[prefix_length |-> p] : p \in {0, 8, 33}}
    \cup {[lease_seconds |-> s] : s \in {<<0, 0>>, <<65535, 65535>>}}
    \cup {[worker_threads |-> n] : n \in {0, 256, 257}}
    \cup {[maximum_sessions |-> n] : n \in {0, 1000001}}
    \cup {[handshake_timeout_seconds |-> n] : n \in {0, 301}}
    \cup {[idle_timeout_seconds |-> n] : n \in {0, 86401}}
    \cup {[metrics_interval_seconds |-> n] : n \in {0, 86401}}
    \cup {[metrics_format |-> f] : f \in {"prometheus", "xml"}}
    \cup {[listen_address |-> NotParsed], [tun_name |-> "longer than 15"],
          [client_ca_file |-> ""], [unknown |-> ""], [client_crl_file |-> "crl"],
          [show_help |-> TRUE], [show_version |-> TRUE],
          [without_value |-> "gateway_address"]}
    \cup {[gateway_address |-> a] : a \in {<<10, 8, 0>>, <<10, 8, 0, 256>>, <<10, 8, 0, 1, 1>>}}
    \cup {[ipv6_prefix_address |-> a] : a \in {NotParsed, Zeros(16), Ula \o Zeros(7) \o <<1>>}}
    \cup {[ipv6_gateway_address |-> a] : a \in {NotParsed, Zeros(16), Ula \o Zeros(8)}}

Mtus == {1279, 1280, 1400, 9000, 9001}
-------------------------------------------------------------------------------
Entry(type, sid, reads) == [type |-> type, sid |-> sid, reads |-> reads]
Entries == {Entry(t, s, r) : t \in {"allow", "deny", "other"},
                             s \in {"user", "everyone", "stranger"}, r \in BOOLEAN}
Key(restricted, dacl) == [kind |-> "regular", matches |-> TRUE, restricted |-> restricted, dacl |-> dacl]
OwnKey == Key(TRUE, <<Entry("allow", "user", TRUE), Entry("allow", "system", TRUE)>>)
AllKeys ==
    {Key(TRUE, dacl) : dacl \in {<<>>} \cup {<<e>> : e \in Entries} \cup (Entries \X Entries)}
        \cup {Key(FALSE, <<>>), [OwnKey EXCEPT !.kind = "reparse point"]}
OtherKeys ==
    {OwnKey, [OwnKey EXCEPT !.matches = FALSE], Key(FALSE, <<>>),
     Key(TRUE, <<Entry("allow", "user", TRUE), Entry("allow", "everyone", TRUE)>>)}
Strangers == {{"everyone"}, {"everyone", "stranger"}}

Profile(host, mtu, file, allow, list) ==
    <<[schema_version |-> 1], [host |-> host], [port |-> 8443],
      [expected_name |-> "name"], [ca_file |-> "ca"], [certificate_chain_file |-> "cert"],
      [private_key_file |-> file], [requested_mtu |-> mtu], [routes |-> list],
      [allow_default_route |-> allow]>>

Split == Route(FALSE, <<10, 9, 0, 0>>, 16)
Plain == Profile("name", 1400, OwnKey, "false", <<Split>>)

OddRoutes ==
    {[r EXCEPT !.slashes = n, !.shortest = s] :
        r \in {Route(FALSE, a, p) : a \in {Zeros(4), <<10, 9, 0, 0>>, <<10, 9, 0, 1>>, <<10, 9, 0>>, <<10, 256, 0, 0>>},
                                    p \in {NotANumber, 0, 8, 15, 16, 31, 32, 33}}
              \cup {Route(TRUE, a, p) : a \in {Zeros(16), Ula \o Zeros(8), Ula \o Zeros(7) \o <<1>>, NotParsed},
                                        p \in {NotANumber, 0, 31, 32, 64, 127, 128, 129}},
        n \in 0..2, s \in BOOLEAN}

OddProfiles ==
    {Profile("name", 1400, file, "false", <<Split>>) : file \in AllKeys}
    \cup {Profile(host, 1400, OwnKey, allow, <<r>>) :
            host \in {"numeric", "name"}, allow \in {"true", "false"}, r \in OddRoutes}
    \cup {Profile("numeric", 1400, OwnKey, "true", list) :
            list \in {<<DefaultIpv4, DefaultIpv6, Split>>, <<Split, Split>>, <<>>, [i \in 1..65 |-> Split]}}
    \cup {Profile(BadText, 1400, OwnKey, "false", <<Split>>), Profile("name", 1400, OwnKey, "yes", <<Split>>)}
    \cup {ReplaceAt(Plain, 5, [ca_file |-> NoFile]), ReplaceAt(Plain, 3, [port |-> 0])}
    \cup {RemoveAt(Plain, i) : i \in 1..Len(Plain)}
    \cup {Append(Plain, [port |-> 1]), Append(Plain, [unknown |-> 1])}

SmallSetups ==
    {[arguments |-> a, profile |-> Plain] : a \in PoolArguments \cup {Required \o Small \o <<o>> : o \in OddArguments}}
    \cup {[arguments |-> Required \o Small, profile |-> p] : p \in OddProfiles}
    \cup {[arguments |-> Required \o Small \o <<[mtu |-> a], [mtu |-> b]>>,
           profile |-> Profile("name", c, OwnKey, "false", <<Split>>)] : a \in Mtus, b \in Mtus, c \in Mtus}
-------------------------------------------------------------------------------
Assigned ==
    [client_address |-> <<10, 8, 0, 2>>, gateway_address |-> <<10, 8, 0, 1>>, prefix_length |-> 24,
     mtu |-> 1400, lease_seconds |-> <<1, 3600>>, client_ipv6_address |-> Ula \o <<0, 0, 0, 0, 10, 8, 0, 2>>,
     gateway_ipv6_address |-> Ula \o Zeros(7) \o <<1>>, ipv6_prefix_length |-> 64]
OnlyIpv4 ==
    [Assigned EXCEPT !.client_ipv6_address = Zeros(16), !.gateway_ipv6_address = Zeros(16),
                     !.ipv6_prefix_length = 0, !.mtu = 576]
Text(n) == [i \in 1..n |-> 97]

SomeMessages ==
    {[codec |-> "CLIENT_HELLO", message |-> [requested_mtu |-> n, capabilities |-> <<0, 3>>]] : n \in Mtus}
    \cup {[codec |-> "IP_ASSIGN", message |-> m] : m \in {Assigned, OnlyIpv4, [Assigned EXCEPT !.mtu = 1279]}}
    \cup {[codec |-> "PING", message |-> [nonce |-> <<0, 256, 65535, 1>>]]}
    \cup {[codec |-> "ERROR", message |-> [code |-> 257, message |-> Text(n)]] : n \in {0, 3}}
    \cup {[codec |-> "CLOSE", message |-> [code |-> 65280]]}
    \cup {[codec |-> "broker", message |-> [type |-> t, request_id |-> <<1, 0, 0, 256>>, profile_id |-> Text(n)]] :
            t \in 1..3, n \in {0, 1, 63, 64, 65}}

SomeValues == {0, 1, 2, 3, 33, 64, 65, 128, 255}
===============================================================================
