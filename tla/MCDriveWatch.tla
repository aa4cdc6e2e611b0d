---------------------------- MODULE MCDriveWatch ----------------------------
(* One drive, a window and the command, either killed at any time, and a    *)
(* drive that is forgotten after two runs instead of five.                  *)
EXTENDS DriveWatch
=============================================================================
