--------------------------- MODULE MC_LinuxTunDevice ---------------------------
(* Three packets of every size, legal or not, and a queue that two of them *)
(* can fill by number or by bytes.                                         *)
EXTENDS LinuxTunDevice
===============================================================================
