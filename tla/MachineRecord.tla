--------------------------- MODULE MachineRecord ---------------------------
(***************************************************************************)
(* What an install remembers of its machine (store/store.c, schema.c): an  *)
(* identity, written once, and one snapshot per configuration with a row   *)
(* for each disk.  Several copies of the program open the file, each       *)
(* statement by itself and none in a transaction; any of them may be       *)
(* killed between two statements, or have a statement refused.             *)
(***************************************************************************)
EXTENDS Naturals, FiniteSets, FiniteSetsExt

CONSTANTS
  Procs,      \* copies of the program
  Ids,        \* identities that may be drawn, in the order of the index
  Machines,   \* configurations, as their fingerprints tell them apart
  NoPrint,    \* no snapshot to compare with
  Disks,      \* per configuration, how many disks it has
  MaxRows,    \* bound: snapshots that are kept
  MaxMishaps, \* bound: processes killed and statements refused
  MaxChanges  \* bound: times the hardware changes

ASSUME RecordAssumption ==
  /\ Ids \subseteq Nat
  /\ NoPrint \notin Machines
  /\ Disks \in [Machines -> Nat \ {0}]
  /\ MaxRows \in Nat /\ MaxMishaps \in Nat /\ MaxChanges \in Nat

VARIABLES
  version,  \* user_version of the file
  install,  \* the identities in the table
  snaps,    \* the snapshots, by row number
  machine,  \* the configuration the machine is in
  at,       \* per process, where it is and what it holds
  met,      \* the places where one process overtook another
  mishaps, changes

vars == <<version, install, snaps, machine, at, met, mishaps, changes>>

Places == {"identity", "snapshot", "upgrade"}
Snap   == [of : Ids, print : Machines, disks : Nat]
Stages == {"closed", "to2", "clear", "to3", "to4", "find", "create", "gate",
           "latest", "sight", "insert", "disk", "up"}
At     == [pc : Stages,
           id : Ids \cup {0}, new : BOOLEAN, \* install_id, install_is_new
           print : Machines \cup {NoPrint},  \* the reading it writes down
           row : Nat,                        \* the snapshot it is writing
           left : Nat,                       \* disks it has yet to write
           owed : BOOLEAN]                   \* the machine answered, on an install
                                             \* that was found, and nothing failed

Closed == [pc |-> "closed", id |-> 0, new |-> FALSE,
           print |-> NoPrint, row |-> 0, left |-> 0, owed |-> FALSE]

TypeOK ==
  /\ version \in 0 .. 4 /\ install \subseteq Ids
  /\ DOMAIN snaps \subseteq 1 .. MaxRows /\ snaps \in [DOMAIN snaps -> Snap]
  /\ machine \in Machines /\ at \in [Procs -> At] /\ met \subseteq Places
  /\ mishaps \in 0 .. MaxMishaps /\ changes \in 0 .. MaxChanges

-----------------------------------------------------------------------------
Rows(id) == {r \in DOMAIN snaps : snaps[r].of = id}

\* The newest of an install: the clock is not put back, so it has the highest
\* number (MAX(taken_at), then MAX(id)).
Newest(id) == Max(Rows(id))
Latest(id) == IF Rows(id) = {} THEN NoPrint ELSE snaps[Newest(id)].print

\* gs_store_is_mounted.
Mounted(id) == Rows(id) # {}

\* The number the next row gets, that of a deleted last row too.
NextRow == IF DOMAIN snaps = {} THEN 1 ELSE Max(DOMAIN snaps) + 1

\* Bound: the machine answers while there is a row left for everyone.
RowLeft == NextRow + Cardinality({q \in Procs : at[q].pc \in {"latest", "insert"}}) <= MaxRows

\* Another process is at one of these statements.
Elsewhere(p, pcs) == \E q \in Procs \ {p} : at[q].pc \in pcs

Goes(p, pc) == at' = [at EXCEPT ![p].pc = pc]

\* gs_store_mount returns, and the window goes on.
Back(p, owed) == at' = [at EXCEPT ![p].pc = "up", ![p].print = NoPrint, ![p].row = 0,
                                  ![p].left = 0, ![p].owed = owed]
World       == UNCHANGED <<machine, mishaps, changes>>

\* A file nobody has opened, one an older build left with a reading that has
\* no disks, one of this build.
Init ==
  /\ machine \in Machines
  /\ \E i \in Ids, m \in Machines :
       \/ version = 0 /\ install = {} /\ snaps = << >>
       \/ version \in {1, 2} /\ install = {i}
          /\ snaps = [r \in {1} |-> [of |-> i, print |-> m, disks |-> 0]]
       \/ version \in {3, 4} /\ install = {i}
          /\ snaps \in {<< >>, [r \in {1} |-> [of |-> i, print |-> m, disks |-> Disks[m]]]}
  /\ at = [p \in Procs |-> Closed] /\ met = {}
  /\ mishaps = 0 /\ changes = 0

-----------------------------------------------------------------------------
(* gs_store_open: gs_store_migrate, then load_or_create_install. *)

\* Where the reading of the version leads.
After(v) == CASE v < 2 -> "to2" [] v = 2 -> "clear" [] v = 3 -> "to4" [] OTHER -> "find"

Open(p) ==
  /\ at[p].pc = "closed"
  /\ at' = [at EXCEPT ![p] = [Closed EXCEPT !.pc = After(version)]]
  /\ UNCHANGED <<version, install, snaps, met>> /\ World

\* The file is stamped, whatever another process has stamped it with since.
Stamp(p) ==
  /\ at[p].pc \in {"to2", "to3", "to4"}
  /\ version' = CASE at[p].pc = "to2" -> 2 [] at[p].pc = "to3" -> 3 [] OTHER -> 4
  /\ Goes(p, CASE at[p].pc = "to2" -> "clear" [] at[p].pc = "to3" -> "to4" [] OTHER -> "find")
  /\ met' = IF at[p].pc # "to4" /\ Elsewhere(p, Stages \ {"closed"})
            THEN met \cup {"upgrade"} ELSE met
  /\ UNCHANGED <<install, snaps>> /\ World

\* Snapshots without a disk are deleted, one being written too.
Clear(p) ==
  /\ at[p].pc = "clear"
  /\ LET stay == {r \in DOMAIN snaps : snaps[r].disks > 0} IN
       snaps' = [r \in stay |-> snaps[r]]
  /\ met' = IF Elsewhere(p, Stages \ {"closed"}) THEN met \cup {"upgrade"} ELSE met
  /\ Goes(p, "to3")
  /\ UNCHANGED <<version, install>> /\ World

\* Mutant of Find: what the table held is not taken for found.
FindNot(p) ==
  /\ at[p].pc = "find"
  /\ at' = [at EXCEPT ![p].pc = "create", ![p].new = TRUE]
  /\ met' = IF Elsewhere(p, {"create"}) THEN met \cup {"identity"} ELSE met
  /\ UNCHANGED <<version, install, snaps>> /\ World

Find(p) ==
  /\ at[p].pc = "find"
  /\ IF install = {}
     THEN /\ at' = [at EXCEPT ![p].pc = "create", ![p].new = TRUE]
          /\ met' = IF Elsewhere(p, {"create"}) THEN met \cup {"identity"} ELSE met
     ELSE /\ at' = [at EXCEPT ![p].pc = "gate", ![p].id = Min(install)]
          /\ UNCHANGED met
  /\ UNCHANGED <<version, install, snaps>> /\ World

Create(p) ==
  /\ at[p].pc = "create"
  /\ \E i \in Ids \ install :
       /\ install' = install \cup {i}
       /\ at' = [at EXCEPT ![p].pc = "gate", ![p].id = i]
  /\ UNCHANGED <<version, snaps, met>> /\ World

-----------------------------------------------------------------------------
(* The window's start, and the Mount Device control. *)

\* Mutant of Gate: only what was mounted before is read again.
GateMounted(p) ==
  /\ at[p].pc = "gate"
  /\ \E answers \in {RowLeft, FALSE} :
       IF answers /\ Mounted(at[p].id)
       THEN at' = [at EXCEPT ![p].pc = "latest", ![p].print = machine, ![p].owed = ~at[p].new]
       ELSE at' = [at EXCEPT ![p].pc = "up", ![p].owed = answers /\ ~at[p].new]
  /\ UNCHANGED <<version, install, snaps, met>> /\ World

\* The machine is read, and may not answer; a first run waits for the person.
Gate(p) ==
  /\ at[p].pc = "gate"
  /\ \E answers \in {RowLeft, FALSE} :
       IF answers /\ (Mounted(at[p].id) \/ ~at[p].new)
       THEN at' = [at EXCEPT ![p].pc = "latest", ![p].print = machine, ![p].owed = ~at[p].new]
       ELSE at' = [at EXCEPT ![p].pc = "up", ![p].owed = answers /\ ~at[p].new]
  /\ UNCHANGED <<version, install, snaps, met>> /\ World

Press(p) ==
  /\ at[p].pc = "up" /\ RowLeft
  /\ at' = [at EXCEPT ![p].pc = "latest", ![p].print = machine]
  /\ UNCHANGED <<version, install, snaps, met>> /\ World

-----------------------------------------------------------------------------
(* gs_store_mount. *)

\* Mutant of Compare: what was there before is not looked at.
CompareNot(p) ==
  /\ at[p].pc = "latest"
  /\ met' = IF Elsewhere(p, {"insert"}) THEN met \cup {"snapshot"} ELSE met
  /\ Goes(p, "insert")
  /\ UNCHANGED <<version, install, snaps>> /\ World

Compare(p) ==
  /\ at[p].pc = "latest"
  /\ IF Latest(at[p].id) = at[p].print
     THEN Goes(p, "sight") /\ UNCHANGED met
     ELSE /\ Goes(p, "insert")
          /\ met' = IF Elsewhere(p, {"insert"}) THEN met \cup {"snapshot"} ELSE met
  /\ UNCHANGED <<version, install, snaps>> /\ World

\* The same machine as last time: only times and free space are written.
Sight(p) ==
  /\ at[p].pc = "sight"
  /\ Back(p, at[p].owed)
  /\ UNCHANGED <<version, install, snaps, met>> /\ World

Insert(p) ==
  /\ at[p].pc = "insert"
  /\ snaps' = [r \in DOMAIN snaps \cup {NextRow} |->
                 IF r = NextRow THEN [of |-> at[p].id, print |-> at[p].print, disks |-> 0]
                                ELSE snaps[r]]
  /\ at' = [at EXCEPT ![p].pc = "disk", ![p].row = NextRow, ![p].left = Disks[at[p].print]]
  /\ UNCHANGED <<version, install, met>> /\ World

\* Mutant of Disk: the loop stops at the last but one.
DiskShort(p) ==
  /\ at[p].pc = "disk" /\ at[p].row \in DOMAIN snaps
  /\ snaps' = [snaps EXCEPT ![at[p].row].disks = @ + 1]
  /\ Back(p, at[p].owed)
  /\ UNCHANGED <<version, install, met>> /\ World

\* One row for each disk; the engine refuses it when the snapshot is gone.
Disk(p) ==
  /\ at[p].pc = "disk"
  /\ IF at[p].row \in DOMAIN snaps
     THEN /\ snaps' = [snaps EXCEPT ![at[p].row].disks = @ + 1]
          /\ IF at[p].left = 1 THEN Back(p, at[p].owed)
                               ELSE at' = [at EXCEPT ![p].left = @ - 1]
     ELSE Back(p, FALSE) /\ UNCHANGED snaps
  /\ UNCHANGED <<version, install, met>> /\ World

-----------------------------------------------------------------------------
\* A statement is refused: the program does not open, or the reading is not
\* written down, wherever it stands.
Refused(p) ==
  /\ mishaps < MaxMishaps /\ mishaps' = mishaps + 1
  /\ \/ /\ at[p].pc \in {"to2", "clear", "to3", "to4", "find", "create"}
        /\ at' = [at EXCEPT ![p] = Closed]
     \/ /\ at[p].pc \in {"latest", "sight", "insert", "disk"}
        /\ Back(p, FALSE)
  /\ UNCHANGED <<version, install, snaps, machine, met, changes>>

Crash(p) ==
  /\ at[p].pc # "closed"
  /\ mishaps < MaxMishaps /\ mishaps' = mishaps + 1
  /\ at' = [at EXCEPT ![p] = Closed]
  /\ UNCHANGED <<version, install, snaps, machine, met, changes>>

Close(p) ==
  /\ at[p].pc = "up" /\ at' = [at EXCEPT ![p] = Closed]
  /\ UNCHANGED <<version, install, snaps, met>> /\ World

\* A card is swapped, or a drive is added.
Change ==
  /\ changes < MaxChanges /\ changes' = changes + 1
  /\ machine' \in Machines \ {machine}
  /\ UNCHANGED <<version, install, snaps, at, met, mishaps>>

Opens(p)   == Open(p) \/ Stamp(p) \/ Clear(p) \/ Find(p) \/ Create(p)
Records(p) == Gate(p) \/ Press(p) \/ Compare(p) \/ Sight(p) \/ Insert(p) \/ Disk(p)
Ends(p)    == Refused(p) \/ Crash(p) \/ Close(p)

Next == (\E p \in Procs : Opens(p) \/ Records(p) \/ Ends(p)) \/ Change

Spec == Init /\ [][Next]_vars

-----------------------------------------------------------------------------
(* Properties. *)

\* There is one identity, and it stays what it is, unless two first starts
\* overtook each other between looking for one and writing one
\* (store.c:55-88, "a random value written once", store.h:4-6).
OneIdentity ==
  "identity" \notin met => \A i, j \in install : i = j

\* A configuration is written down anew only when another one was last: not
\* after a kill, not by a second window, unless both found it missing at once
\* (store.c:166-216, 240-248).
NoneTwice ==
  met = {} =>
    \A r \in DOMAIN snaps :
      LET before == {s \in Rows(snaps[r].of) : s < r} IN
      before # {} => snaps[Max(before)].print # snaps[r].print

\* A window that came up on an install that was there before, on a machine
\* that answered, has a reading to show: also when an upgrade took the old one
\* away, or was killed half way (ui.c:184-196, schema.c:85-108).
ShowsReading ==
  "upgrade" \notin met =>
    \A p \in Procs : at[p].pc = "up" /\ at[p].owed => Mounted(at[p].id)

\* A snapshot lacks a disk only while its process writes it, or by a mishap
\* (store.c:249-275).
Short == {r \in DOMAIN snaps : snaps[r].disks < Disks[snaps[r].print]}

ShortByMishap ==
  "upgrade" \notin met /\ version = 4 =>
    Cardinality(Short) <= mishaps
       + Cardinality({p \in Procs : at[p].pc = "disk" /\ at[p].row \in Short})
=============================================================================
