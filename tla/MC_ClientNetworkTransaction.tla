---------------------- MODULE MC_ClientNetworkTransaction ----------------------
(* Two routes, one of them named twice in the profile, over every initial  *)
(* ownership of the objects, and a second activation after the first.      *)
EXTENDS ClientNetworkTransaction

Profile == <<"route 1", "route 2", "route 1">>
===============================================================================
