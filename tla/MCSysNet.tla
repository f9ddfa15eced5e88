------------------------------ MODULE MCSysNet ------------------------------
(***************************************************************************)
(* SYS_NET for TLC: which trouble the environment makes in which run.      *)
(***************************************************************************)
EXTENDS SysNetProps

\* Everything, the commands of the console included.
AllFaults == FaultKinds

\* Everything the network does. `sysnet open' and `sysmqtt open' are not used.
NetworkFaults == FaultKinds \ {"CliReconnect"}
=============================================================================
