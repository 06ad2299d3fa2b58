---------------------------- MODULE AddressService ----------------------------
(***************************************************************************)
(* What the server promises its clients about virtual addresses, without   *)
(* leases, routes, strands or registries: an address serves at most one    *)
(* client at a time, it passes from one to the next only through a state   *)
(* in which it serves nobody, and a connection is served once.             *)
(***************************************************************************)
CONSTANTS Addresses, Clients, Nobody

VARIABLES
    owner,      \* the client an address serves
    served      \* the clients that have been sent an address

serviceVars == <<owner, served>>

Init ==
    /\ owner = [a \in Addresses |-> Nobody]
    /\ served = {}

Assign(a, c) ==
    /\ owner[a] = Nobody
    /\ c \notin served
    /\ owner' = [owner EXCEPT ![a] = c]
    /\ served' = served \cup {c}

Withdraw(a) ==
    /\ owner[a] # Nobody
    /\ owner' = [owner EXCEPT ![a] = Nobody]
    /\ UNCHANGED served

Next == \E a \in Addresses : Withdraw(a) \/ \E c \in Clients : Assign(a, c)

Spec == Init /\ [][Next]_serviceVars
===============================================================================
