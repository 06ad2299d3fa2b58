---------------------------- MODULE MC_TunnelServer ----------------------------
(* Two connections that compete for a pool of one address: of different    *)
(* identities, the address passes from one to the other while the first    *)
(* still has to close; of the same identity, the duplicate is refused.     *)
EXTENDS TunnelServer

CONSTANTS alice, bob, s1, s2

MCIdentities == {alice, bob}
TwoPeers == {s1, s2}
===============================================================================
