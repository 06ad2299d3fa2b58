--------------------------- MODULE MC_TlsTunnelClient ---------------------------
(* A write queue of two frames and three bytes: a DATA frame has two, so   *)
(* that either limit can be the one that is met.                           *)
EXTENDS TlsTunnelClient
===============================================================================
