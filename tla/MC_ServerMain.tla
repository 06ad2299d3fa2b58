----------------------------- MODULE MC_ServerMain -----------------------------
(* Two sessions, signals that arrive while another is handled, with and    *)
(* without the metrics timer.                                              *)
EXTENDS ServerMain

AllSignals == {"hup", "term"}
OnlyTerm == {"term"}
===============================================================================
