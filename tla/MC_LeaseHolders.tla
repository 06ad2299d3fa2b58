---------------------------- MODULE MC_LeaseHolders ----------------------------
(* Two identities, a pool of two addresses, three generations: enough for   *)
(* an address to pass from one identity to the other and back while the     *)
(* old holders still act.                                                   *)
EXTENDS LeaseHolders

CONSTANTS alice, bob

MCIdentities == {alice, bob}
===============================================================================
