--------------------------- MODULE MCMountRepair ----------------------------
(* A window and a command at one drive that is pulled out or plugged in,    *)
(* while a program run as root is cut off or a process is killed.           *)
EXTENDS MountRepairProofs
=============================================================================
