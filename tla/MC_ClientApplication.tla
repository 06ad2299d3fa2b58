------------------------- MODULE MC_ClientApplication -------------------------
(* Two servers, one of each family, of which a resolution may return one   *)
(* or both, and three adapters: two connections and a restart.             *)
EXTENDS ClientApplication

Servers == {<<"ipv4", 1>>, <<"ipv6", 1>>}
===============================================================================
