----------------------------- MODULE TunnelRouter -----------------------------
(***************************************************************************)
(* core::TunnelRouter: which peer receives the packets for an address.     *)
(* The class has one map per address family and the same methods for each; *)
(* a method holds mutex_ for its whole body, so it is a function from the  *)
(* map before it to the map after it.  The maps hold weak pointers: `alive`*)
(* is the set of peers whose object still exists, and an entry for any     *)
(* other peer counts as absent.                                            *)
(***************************************************************************)
CONSTANTS
    Peers,      \* the TunnelPeer objects
    NoPeer      \* "no entry"

ASSUME RouterConstants == NoPeer \notin Peers

\* Mutant: a registration replaces the peer it finds.
RegisterOver(peers, alive, address, peer) ==
    [peers |-> [peers EXCEPT ![address] = peer], ok |-> TRUE]

register_peer(peers, alive, address, peer) ==
    IF peers[address] \in alive
    THEN [peers |-> peers, ok |-> peers[address] = peer]
    ELSE [peers |-> [peers EXCEPT ![address] = peer], ok |-> TRUE]

\* Mutant: the entry is erased whoever it belongs to.
UnregisterAny(peers, alive, address, expected_peer) ==
    [peers EXCEPT ![address] = NoPeer]

unregister_peer(peers, alive, address, expected_peer) ==
    IF peers[address] \in alive /\ peers[address] # expected_peer
    THEN peers
    ELSE [peers EXCEPT ![address] = NoPeer]

(* The peer found, NoPeer if there is none, and the map without the entry  *)
(* if it was expired.                                                      *)
find_peer(peers, alive, address) ==
    IF peers[address] \in alive
    THEN [peers |-> peers, peer |-> peers[address]]
    ELSE [peers |-> [peers EXCEPT ![address] = NoPeer], peer |-> NoPeer]
===============================================================================
