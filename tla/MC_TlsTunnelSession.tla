-------------------------- MODULE MC_TlsTunnelSession --------------------------
(* Three frames from the client and two packets for it, a queue of two     *)
(* frames and three bytes: both limits of the queue are met, a session can *)
(* be established and fail with frames still to write, and two expired     *)
(* deadlines can wait at once.                                             *)
EXTENDS TlsTunnelSession
===============================================================================
