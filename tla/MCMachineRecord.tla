-------------------------- MODULE MCMachineRecord --------------------------
(* Two copies of the program at one file, fresh, old or current, two kills *)
(* or refused statements and one change of hardware.                        *)
EXTENDS MachineRecord, TLC

MCDisks    == [m \in Machines |-> 2]
MCSymmetry == Permutations(Procs) \cup Permutations(Machines)
=============================================================================
