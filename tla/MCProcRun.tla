----------------------------- MODULE MCProcRun -----------------------------
(* The thread that watches the drives and the window's own thread run       *)
(* programs at the same time.                                               *)
EXTENDS ProcRun, TLC

CONSTANTS watcher, window

MCUses == watcher :> {"run"} @@ window :> {"input", "capture", "reason", "spawn"}
=============================================================================
