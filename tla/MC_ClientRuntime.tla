--------------------------- MODULE MC_ClientRuntime ---------------------------
(* Two connections and two calls of stop: the second tunnel meets the late *)
(* callbacks of the first, and the second stop those of the first stop.    *)
EXTENDS ClientRuntime
===============================================================================
