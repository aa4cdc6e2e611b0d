---------------------------- MODULE MountRepair ----------------------------
(***************************************************************************)
(* One Windows drive under WSL and the place it is mounted at, /mnt/d say. *)
(* Every window has a thread that looks every fifteen seconds and puts the *)
(* drive back where it has died or is missing (gs_mount_restore_all), one  *)
(* copy of the program at a time; the command `gravestone mount` does the  *)
(* same and then tries every drive once more, without the lock.  A drive   *)
(* is put back by programs run as the administrator, each cut off after    *)
(* twenty seconds.  Other letters have places of their own and are         *)
(* treated alike.                                                          *)
(***************************************************************************)
EXTENDS Naturals, Sequences, FiniteSets

CONSTANTS
  Windows,      \* copies of the program showing a window
  Commands,     \* copies run as `gravestone mount`
  NoOne,        \* the lock file is not locked
  MaxMishaps,   \* bound: programs cut off and processes killed
  MaxFlips,     \* bound: times the drive is plugged in or pulled out
  MaxByHand     \* bound: filesystems a person mounts there by hand

ASSUME RepairAssumption ==
  /\ Windows \cap Commands = {}
  /\ NoOne \notin Windows \cup Commands
  /\ MaxMishaps \in Nat /\ MaxFlips \in Nat /\ MaxByHand \in Nat

VARIABLES
  root,      \* there is a road to root with nothing asked
  granted,   \* /etc/fstab lets an ordinary person mount the drive, and the
             \* system goes by it
  plugged,   \* the drive is in the machine
  dir,       \* what is at the mount point itself
  under,     \* that directory holds files of its own
  stack,     \* what is mounted there, the newest last
  written,   \* the drive is in the stored list
  late,      \* programs that go on though whoever ran them has let go
  strayed,   \* there ever was such a program
  lock,      \* who holds mount.lock
  settled,   \* the processes that know whether there is a road to root
  at,        \* per process, where it is and what it holds
  timeouts, flips, byhand, crashes

machine == <<root, granted, under>>
bounds  == <<timeouts, flips, byhand, crashes>>
vars    == <<machine, plugged, dir, stack, written, late, strayed, lock, settled,
             at, bounds>>

Procs == Windows \cup Commands

Mount    == [is : {"live", "dead", "other"}, held : BOOLEAN]
Outcomes == {"NONE", "ALREADY", "REMOUNTED", "SKIPPED", "BUSY", "NO RIGHTS",
             "GONE", "DETACHED", "TIMED OUT", "FAILED"}
Stages   == {"idle", "look", "holders", "line", "seen", "road", "down", "again",
             "place", "mkdir", "mount", "check", "over", "done", "killed"}
At       == [pc : Stages,
             saw : {"ABSENT", "STALE", "HEALTHY", "FOREIGN"},
             was : BOOLEAN,       \* was_stale: a dead one was taken down
             locked : BOOLEAN,    \* it holds the lock for this
             listed : BOOLEAN,    \* a command found the drive in the list
             out : Outcomes]

Idle == [pc |-> "idle", saw |-> "ABSENT", was |-> FALSE, locked |-> FALSE,
         listed |-> FALSE, out |-> "NONE"]

-----------------------------------------------------------------------------
(* The mount point. *)

Top  == stack[Len(stack)]
Held == \E i \in DOMAIN stack : stack[i].held
Live == {i \in DOMAIN stack : stack[i].is = "live"}

\* gs_mount_answers: something is mounted there and gives its size.
Answers == stack # << >> /\ Top.is # "dead"

\* A row of the kernel's table names a drive there.
Row == \E i \in DOMAIN stack : stack[i].is # "other"

\* Mutant of State: it asks for the free space and for nothing else, which
\* an empty directory answers for the disk it lies on.
StateBySpace == CASE dir = "dir" /\ (stack # << >> => Top.is # "dead")
                                   -> "HEALTHY"
                  [] Row           -> "STALE"
                  [] OTHER         -> "ABSENT"

\* Mutant of State: whatever answers there is not asked what it is.
StateOfRows == CASE Row /\ Answers  -> "HEALTHY"
                 [] Row /\ ~Answers -> "STALE"
                 [] OTHER           -> "ABSENT"

\* gs_mount_state.
State == CASE Row /\ Answers           -> "HEALTHY"
           [] Row /\ ~Answers          -> "STALE"
           [] ~Row /\ stack # << >>    -> "FOREIGN"
           [] OTHER                    -> "ABSENT"

\* What `umount` and `mount -t drvfs` make of it, run as root: the one takes
\* the newest down unless a program has files open there, the other puts
\* the drive on top when it is in the machine.
After(program) ==
  CASE program = "umount" ->
         IF stack # << >> /\ ~Top.held THEN SubSeq(stack, 1, Len(stack) - 1)
                                       ELSE stack
    [] program = "mount" ->
         IF plugged /\ dir = "dir"
         THEN Append(stack, [is |-> "live", held |-> FALSE]) ELSE stack

\* gs_proc_run: the program ends in time ...
InTime(program) ==
  stack' = After(program) /\ UNCHANGED <<late, strayed, timeouts>>

\* ... or the deadline cuts off what ran it: it had done its work, it never
\* will, or it goes on by itself.
CutOff(program) ==
  /\ timeouts + crashes < MaxMishaps /\ timeouts' = timeouts + 1
  /\ \/ stack' \in {stack, After(program)} /\ UNCHANGED <<late, strayed>>
     \/ UNCHANGED stack /\ late' = late \cup {program} /\ strayed' = TRUE

-----------------------------------------------------------------------------
Init ==
  /\ root \in BOOLEAN /\ granted \in BOOLEAN
  /\ plugged \in BOOLEAN /\ written \in BOOLEAN
  /\ dir \in {"none", "dir", "file"} /\ under \in BOOLEAN
  /\ under => dir = "dir"
  /\ stack \in {<< >>} \cup {<<[is |-> k, held |-> h]>> :
                               k \in {"live", "dead"}, h \in BOOLEAN}
  /\ stack # << >> => dir = "dir"
  /\ Live # {} => plugged
  /\ late = {} /\ strayed = FALSE /\ lock = NoOne /\ settled = {}
  /\ at = [p \in Procs |-> Idle]
  /\ timeouts = 0 /\ flips = 0 /\ byhand = 0 /\ crashes = 0

\* What no step of the program changes but the one that makes the directory.
Stay == UNCHANGED <<machine, plugged, dir, flips, byhand, crashes>>

\* ... and what only programs run by it change.
Runs == <<stack, late, strayed, timeouts>>

\* Process p goes on at pc, or is done with the drive.
Goes(p, pc) == at' = [at EXCEPT ![p].pc = pc]
Ends(p, o)  == at' = [at EXCEPT ![p] = [@ EXCEPT !.pc = "over", !.out = o]]

\* Mutant of Known: the stored list is not read.
KnownToWindows == {plugged, FALSE}

\* Whether restore_all has the drive on its list: it is written down, or
\* Windows names it, which it does when it is asked and answers in time.
Known == IF written THEN {TRUE} ELSE {plugged, FALSE}

\* Mutant of Enter: the lock is not asked for.
EnterAnyhow(p) ==
  /\ at[p].pc = "idle"
  /\ TRUE \in Known
  /\ lock' = p
  /\ at' = [at EXCEPT ![p] = [Idle EXCEPT !.pc = "look", !.locked = TRUE,
                                          !.listed = written]]
  /\ Stay /\ UNCHANGED <<Runs, written, settled>>

\* gs_mount_restore_all with the lock, when the drive is on its list.  A
\* window whose turn it is not looks again fifteen seconds later.
Enter(p) ==
  /\ at[p].pc = "idle" /\ lock = NoOne
  /\ TRUE \in Known
  /\ lock' = p
  /\ at' = [at EXCEPT ![p] = [Idle EXCEPT !.pc = "look", !.locked = TRUE,
                                          !.listed = written]]
  /\ Stay /\ UNCHANGED <<Runs, written, settled>>

\* mount_run where restore_all did nothing about the drive: another copy
\* has the lock, or the drive is on no list.
EnterLoose(p) ==
  /\ p \in Commands /\ at[p].pc = "idle"
  /\ lock # NoOne \/ FALSE \in Known
  /\ at' = [at EXCEPT ![p] =
             [Idle EXCEPT !.pc = IF written THEN "look" ELSE "done"]]
  /\ Stay /\ UNCHANGED <<Runs, written, lock, settled>>

\* gs_mount_restore reads where the drive stands.
Look(p) ==
  /\ at[p].pc = "look"
  /\ at' = [at EXCEPT ![p] =
             [@ EXCEPT !.saw = State,
                       !.pc = CASE State = "STALE"  -> "holders"
                                [] State = "ABSENT" -> "line"
                                [] OTHER            -> "over",
                       !.out = CASE State = "HEALTHY" -> "ALREADY"
                                 [] State = "FOREIGN" -> "SKIPPED"
                                 [] OTHER             -> "NONE"]]
  /\ Stay /\ UNCHANGED <<Runs, written, lock, settled>>

\* gs_mount_holders: it sees the files of this user's programs only.
Holders(p) ==
  /\ at[p].pc = "holders"
  /\ \/ Held /\ Ends(p, "BUSY")
     \/ Goes(p, "road")
  /\ Stay /\ UNCHANGED <<Runs, written, lock, settled>>

\* The line in /etc/fstab is tried, where it grants the right; the system may
\* refuse all the same.
UserLine(p) ==
  /\ at[p].pc = "line"
  /\ \/ /\ granted /\ dir = "dir"
        /\ \/ InTime("mount") /\ stack' # stack /\ Goes(p, "seen")
           \/ CutOff("mount") /\ Goes(p, "road")
     \/ Goes(p, "road") /\ UNCHANGED Runs
  /\ Stay /\ UNCHANGED <<written, lock, settled>>

\* The table is read after it.
Seen(p) ==
  /\ at[p].pc = "seen"
  /\ \/ State = "HEALTHY" /\ Ends(p, "REMOUNTED")
     \/ State # "HEALTHY" /\ Goes(p, "road")
  /\ Stay /\ UNCHANGED <<Runs, written, lock, settled>>

\* gs_mount_root_free: the road is looked for until an answer is definite.
Road(p) ==
  /\ at[p].pc = "road"
  /\ \/ /\ root /\ Goes(p, IF at[p].saw = "STALE" THEN "down" ELSE "place")
        /\ settled' = settled \cup {p} /\ UNCHANGED timeouts
     \/ /\ ~root /\ Ends(p, "NO RIGHTS")
        /\ settled' = settled \cup {p} /\ UNCHANGED timeouts
     \/ /\ p \notin settled /\ timeouts + crashes < MaxMishaps
        /\ timeouts' = timeouts + 1 /\ Ends(p, "NO RIGHTS")
        /\ UNCHANGED settled
  /\ Stay /\ UNCHANGED <<stack, late, strayed, written, lock>>

\* The dead one is taken down.
Down(p) ==
  /\ at[p].pc = "down"
  /\ \/ /\ InTime("umount")
        /\ at' = [at EXCEPT ![p] = [@ EXCEPT !.was = TRUE, !.pc = "again"]]
     \/ CutOff("umount") /\ Ends(p, "TIMED OUT")
  /\ Stay /\ UNCHANGED <<written, lock, settled>>

\* What the command returned decides nothing: the table is read again.
Again(p) ==
  /\ at[p].pc = "again"
  /\ \/ State = "STALE" /\ Ends(p, "BUSY")
     \/ State # "STALE" /\ Goes(p, "place")
  /\ Stay /\ UNCHANGED <<Runs, written, lock, settled>>

\* Where nothing may be mounted over what is there.
Refuses(p) == Ends(p, IF at[p].was THEN "DETACHED" ELSE "FAILED")

\* gs_mount_dir_has_content: the files of the directory, or of what is
\* mounted over it; a dead mount cannot be opened and shows none.
Content == IF stack = << >> THEN {under}
           ELSE IF Top.is = "dead" THEN {FALSE} ELSE BOOLEAN

\* Mutant of Place: what a dead drive lay over is not looked at.
PlaceOver(p) ==
  /\ at[p].pc = "place"
  /\ \/ dir = "file" /\ Refuses(p)
     \/ dir = "none" /\ Goes(p, "mkdir")
     \/ dir = "dir" /\ (at[p].was \/ FALSE \in Content) /\ Goes(p, "mount")
     \/ dir = "dir" /\ ~at[p].was /\ TRUE \in Content /\ Refuses(p)
  /\ Stay /\ UNCHANGED <<Runs, written, lock, settled>>

\* The mount point has to be an empty directory, or nothing yet.
Place(p) ==
  /\ at[p].pc = "place"
  /\ \/ dir = "file" /\ Refuses(p)
     \/ dir = "none" /\ Goes(p, "mkdir")
     \/ dir = "dir" /\ FALSE \in Content /\ Goes(p, "mount")
     \/ dir = "dir" /\ TRUE \in Content /\ Refuses(p)
  /\ Stay /\ UNCHANGED <<Runs, written, lock, settled>>

MakeDir(p) ==
  /\ at[p].pc = "mkdir"
  /\ \/ dir' = "dir" /\ Goes(p, "mount") /\ UNCHANGED timeouts
     \/ /\ timeouts + crashes < MaxMishaps /\ timeouts' = timeouts + 1
        /\ dir' \in {dir, "dir"} /\ Refuses(p)
  /\ UNCHANGED <<machine, plugged, stack, written, late, strayed, lock, settled,
                 flips, byhand, crashes>>

MountDrive(p) ==
  /\ at[p].pc = "mount"
  /\ \/ InTime("mount") /\ Goes(p, "check")
     \/ CutOff("mount") /\ Ends(p, "TIMED OUT")
  /\ Stay /\ UNCHANGED <<written, lock, settled>>

\* Mutant of Check: it ends without saying how.
CheckUnsaid(p) ==
  /\ at[p].pc = "check"
  /\ Goes(p, "over")
  /\ Stay /\ UNCHANGED <<Runs, written, lock, settled>>

\* And the table is read once more.
Check(p) ==
  /\ at[p].pc = "check"
  /\ \/ State = "HEALTHY" /\ Ends(p, "REMOUNTED")
     \/ State # "HEALTHY" /\ Ends(p, IF at[p].was THEN "DETACHED" ELSE "GONE")
  /\ Stay /\ UNCHANGED <<Runs, written, lock, settled>>

\* Where a process goes once it is done with the drive: a command has been
\* through its list once more, and a window looks again.
Rest(p) == CASE p \in Windows -> Idle
             [] p \in Commands /\ at[p].locked /\ at[p].listed ->
                  [Idle EXCEPT !.pc = "look"]
             [] OTHER -> [Idle EXCEPT !.pc = "done"]

\* Mutant of Leave: a drive in use is left without the lock being let go of.
LeaveBusy(p) ==
  /\ at[p].pc = "over"
  /\ written' = (written \/ (at[p].locked /\ at[p].out = "REMOUNTED"))
  /\ lock' = IF at[p].locked /\ at[p].out # "BUSY" THEN NoOne ELSE lock
  /\ at' = [at EXCEPT ![p] = Rest(p)]
  /\ Stay /\ UNCHANGED <<Runs, settled>>

\* restore_all writes a drive that came back into its list and lets go of
\* the lock.
Leave(p) ==
  /\ at[p].pc = "over"
  /\ written' = (written \/ (at[p].locked /\ at[p].out = "REMOUNTED"))
  /\ lock' = IF at[p].locked THEN NoOne ELSE lock
  /\ at' = [at EXCEPT ![p] = Rest(p)]
  /\ Stay /\ UNCHANGED <<Runs, settled>>

-----------------------------------------------------------------------------
(* What happens around it. *)

\* A process is killed; the lock goes with it, and a program it was running
\* may go on.
Crash(p) ==
  /\ at[p].pc \notin {"idle", "done", "killed"}
  /\ timeouts + crashes < MaxMishaps /\ crashes' = crashes + 1
  /\ at' = [at EXCEPT ![p] = [Idle EXCEPT !.pc = "killed"]]
  /\ lock' = IF lock = p THEN NoOne ELSE lock
  /\ LET running == CASE at[p].pc = "down"              -> {"umount"}
                      [] at[p].pc = "mount"             -> {"mount"}
                      [] at[p].pc = "line" /\ granted   -> {"mount"}
                      [] OTHER                          -> {}
     IN \E left \in SUBSET running : /\ late' = late \cup left
                                     /\ strayed' = (strayed \/ left # {})
  /\ settled' = settled \ {p}
  /\ UNCHANGED <<machine, plugged, dir, stack, written, timeouts, flips, byhand>>

\* A program that goes on does its work after all, or comes to nothing.
Late ==
  \E program \in late :
    /\ late' = late \ {program}
    /\ stack' \in {stack, After(program)}
    /\ Stay /\ UNCHANGED <<strayed, written, lock, settled, at, timeouts>>

\* gs_mount_keep_reading, once in a run: a drive that answers is written
\* down, and one that does not is forgotten when it was the fifth miss.
KeepReading ==
  /\ \E p \in Procs : at[p].pc = "idle"
  /\ written' = (Row /\ Answers)
  /\ Stay /\ UNCHANGED <<Runs, lock, settled, at>>

\* The drive is plugged in, and Linux takes no notice.
Plug ==
  /\ ~plugged /\ flips < MaxFlips
  /\ plugged' = TRUE /\ flips' = flips + 1
  /\ UNCHANGED <<machine, dir, Runs, written, lock, settled, at, byhand, crashes>>

\* The drive is pulled out: its row stays, and every read of it fails.
PullOut ==
  /\ plugged /\ flips < MaxFlips
  /\ plugged' = FALSE /\ flips' = flips + 1
  /\ stack' = [i \in DOMAIN stack |->
                 IF i \in Live THEN [stack[i] EXCEPT !.is = "dead"]
                               ELSE stack[i]]
  /\ UNCHANGED <<machine, dir, written, late, strayed, lock, settled, at, timeouts,
                 byhand, crashes>>

\* A program opens files on what is mounted there, and closes them.
Hold ==
  /\ Answers /\ ~Top.held
  /\ stack' = [stack EXCEPT ![Len(stack)].held = TRUE]
  /\ Stay /\ UNCHANGED <<written, late, strayed, lock, settled, at, timeouts>>

Release ==
  /\ \E i \in DOMAIN stack :
       stack[i].held /\ stack' = [stack EXCEPT ![i].held = FALSE]
  /\ Stay /\ UNCHANGED <<written, late, strayed, lock, settled, at, timeouts>>

\* A person mounts a filesystem there while no repair is at it.
ByHand ==
  /\ byhand < MaxByHand /\ byhand' = byhand + 1
  /\ dir = "dir" /\ late = {}
  /\ \A p \in Procs : at[p].pc \in {"idle", "done", "killed"}
  /\ stack' = Append(stack, [is |-> "other", held |-> FALSE])
  /\ UNCHANGED <<machine, plugged, dir, written, late, strayed, lock, settled, at,
                 timeouts, flips, crashes>>

-----------------------------------------------------------------------------
Repair(p) ==
  \/ Look(p) \/ Holders(p) \/ UserLine(p) \/ Seen(p) \/ Road(p) \/ Down(p) \/ Again(p)
  \/ Place(p) \/ MakeDir(p) \/ MountDrive(p) \/ Check(p) \/ Leave(p)

Outside == Late \/ KeepReading \/ Plug \/ PullOut \/ Hold \/ Release \/ ByHand

Next ==
  \/ \E p \in Procs : Enter(p) \/ EnterLoose(p) \/ Repair(p) \/ Crash(p)
  \/ Outside

Spec == Init /\ [][Next]_vars

\* The system schedules every thread, every program ends or is cut off, and
\* a window looks again every fifteen seconds.  Nobody has to run a command,
\* plug in a drive or close a file.
Fairness ==
  /\ \A p \in Procs : WF_vars(Repair(p))
  /\ \A p \in Windows : WF_vars(Enter(p))

FairSpec == Spec /\ Fairness

-----------------------------------------------------------------------------
(* What makes it right. *)

\* Every variable holds values of its kind; something is mounted only on a
\* directory, an attempt that ended says how, and who works under the lock
\* holds it.
TypeOK ==
  /\ root \in BOOLEAN /\ granted \in BOOLEAN /\ strayed \in BOOLEAN
  /\ plugged \in BOOLEAN /\ written \in BOOLEAN /\ under \in BOOLEAN
  /\ dir \in {"none", "dir", "file"}
  /\ stack \in Seq(Mount) /\ (stack # << >> => dir = "dir")
  /\ late \subseteq {"umount", "mount"}
  /\ lock \in Procs \cup {NoOne} /\ settled \subseteq Procs
  /\ at \in [Procs -> At]
  /\ \A p \in Procs : at[p].pc = "over" => at[p].out # "NONE"
  /\ \A p \in Procs : at[p].locked => lock = p
  /\ timeouts \in Nat /\ flips \in Nat /\ byhand \in Nat /\ crashes \in Nat

\* No program went on by itself, and no command is past the lock.
Guarded == /\ ~strayed
           /\ \A c \in Commands : at[c].pc = "idle" \/ at[c].locked

\* While every repair ran under the lock and no program went on by itself, a
\* drive that answers is never taken down, whoever looked at it and when
\* (gs_mount_lock in gs_mount_restore_all).
LiveStays ==
  [][Guarded' => \A i \in Live : i \in DOMAIN stack']_vars

\* ... and the drive is never mounted a second time over itself, unless the
\* mount from the line in /etc/fstab was cut off after it had done its work
\* (gs_mount_state after every mount in gs_mount_repair).
OneMount == Guarded /\ (granted => timeouts = 0) => Cardinality(Live) <= 1

\* What a person mounted there by hand is neither taken down nor covered by
\* any repair that starts after it (gs_mount_state).
OthersStay ==
  [][\A i \in DOMAIN stack : stack[i].is = "other" =>
       \/ byhand' # byhand
       \/ i \in DOMAIN stack' /\ Len(stack') = Len(stack)]_<<stack, byhand>>

\* Files the directory holds are never covered by what the program mounts as
\* root (gs_mount_dir_has_content in gs_mount_repair): where no line of
\* /etc/fstab is used, they stay in sight once nothing lies over them.
FilesInSight ==
  [][under /\ stack = << >> /\ ~granted =>
       stack' = << >> \/ byhand' # byhand]_stack

\* Every window was killed.
Unwatched == \A w \in Windows : at[w].pc = "killed"

\* A drive that is in the machine comes back by itself, whatever was cut off
\* or killed before, unless there is no road to root, its place is taken, or
\* a program holds the dead one (gs_mount_restore_all every fifteen seconds).
Back == \/ ~root \/ ~plugged \/ Held \/ under \/ dir = "file"
        \/ stack # << >> /\ Top.is # "dead"
        \/ Unwatched
ComesBack == plugged ~> Back

\* A dead entry of a drive on the list is cleared ("a drive pulled out has
\* its dead entry cleared", README), unless a program holds it.
Dead == stack # << >> /\ Top.is = "dead"
DeadIsCleared == (Dead /\ written) ~> (~Dead \/ Held \/ ~written \/ ~root \/ Unwatched)

\* Nobody keeps the lock (every path of gs_mount_restore_all reaches
\* gs_mount_unlock, and a killed process lets go of it).
LockIsLetGo == \A p \in Procs : (lock = p) ~> (lock # p)

\* "A drive that answers is never touched" (README).
AnsweringIsLeft == [][\A i \in Live : i \in DOMAIN stack']_vars

\* "A directory already holding files is left alone rather than mounted over"
\* (README).
FullIsLeft ==
  [][under /\ stack = << >> => stack' = << >> \/ byhand' # byhand]_stack
=============================================================================
