----------------------------- MODULE Workspace -----------------------------
(***************************************************************************)
(* The window's table of the models on the chosen disk (library/library.c) *)
(* and all that reads it: the loop of ui.c with its confirm box, the       *)
(* thread that removes or pulls a model (ui_actions.c), the panes that     *)
(* read it anew (ui_models.c), the ticks of the models that answer         *)
(* (ui_fleet.c), and what the store keeps of them (ui_settings.c), while   *)
(* disks come and go and the program ends and starts again.  When the      *)
(* watcher has a report is DriveWatch's; here it may have one at any time. *)
(***************************************************************************)
EXTENDS Naturals, Sequences, FiniteSets

CONSTANTS
  Disks,     \* by their mount points
  Models,    \* names, in the order a directory is read
  Fits,      \* those of the fit list, which may be pulled
  NoDisk,
  Holds      \* the models each disk holds at first

ASSUME WorkspaceAssumption ==
  /\ Models \subseteq Nat \ {0} /\ Fits \subseteq Models /\ NoDisk \notin Disks
  /\ Holds \in [Disks -> SUBSET Models]

VARIABLES
  here,      \* the disks that are attached
  on,        \* what they hold
  key,       \* disk.mount, the chosen disk in the store
  names,     \* models.chosen, by name
  record,    \* the table of models, of the chosen disk
  kept,      \* there are settings at all
  listed,    \* the disks the window knows of
  sel,       \* the one chosen there
  lib,       \* gs_library: the models on it
  ticks,     \* model_chosen: the rows that answer
  picked,    \* the person chose this disk from this list
  up, screen,
  box,       \* the confirm box
  about,     \* the row it asks about, and whether that is one to add
  job        \* the thread that removes or pulls

saved  == <<key, names, record, kept>>
table  == <<listed, sel, lib, ticks>>
window == <<up, screen>>
asking == <<box, about>>
vars   == <<here, on, saved, table, picked, window, asking, job>>

NoRow == [add |-> FALSE, row |-> 0]
NoJob == [pc |-> "none", add |-> FALSE, row |-> 0, name |-> 0, root |-> NoDisk, ok |-> FALSE]

TypeOK ==
  /\ here \subseteq Disks /\ on \in [Disks -> SUBSET Models]
  /\ key \in Disks \cup {NoDisk} /\ names \subseteq Models /\ record \subseteq Models
  /\ kept \in BOOLEAN /\ listed \subseteq Disks /\ sel \in Disks \cup {NoDisk}
  /\ lib \in Seq(Models) /\ ticks \subseteq Nat /\ picked \in BOOLEAN
  /\ up \in {"closed", "loop", "quit"} /\ screen \in {"HOME", "WORKSPACE"}
  /\ box \in {"shut", "opens", "open", "busy", "shuts"}
  /\ about \in [add : BOOLEAN, row : Nat]
  /\ job \in [pc : {"none", "run", "done"}, add : BOOLEAN, row : Nat,
              name : Models \cup {0}, root : Disks \cup {NoDisk}, ok : BOOLEAN]

-----------------------------------------------------------------------------
Set(s) == {s[i] : i \in DOMAIN s}

\* The names of the rows t.
Ticked(s, t) == {s[i] : i \in t \cap DOMAIN s}

\* A directory is read in one order, here that of the names.
Listing(S) ==
  [i \in 1 .. Cardinality(S) |->
     CHOOSE m \in S : Cardinality({n \in S : n < m}) = i - 1]

\* gs_library_scan: nothing is found where nothing is attached.
Scan(d) == IF d \in here THEN Listing(on[d]) ELSE << >>

\* The pane's disk, gs_ui_panes_disk(disk_sel).
Chosen == IF sel \in listed THEN sel ELSE NoDisk

\* gs_ui_settings_record_models: the record of before stays unless there is
\* something to put in its place.
Recorded(d, s) == IF d = NoDisk \/ s = << >> THEN record ELSE Set(s)

\* Mutant of Merged: what is not in the library is not written again.
MergedShown(s, t) == Ticked(s, t)

\* gs_ui_settings_merge_chosen.
Merged(s, t) == Ticked(s, t) \cup (names \ Set(s))

\* A disk that was chosen and is away keeps its place, unless another is picked.
Stays(d, p) == d # NoDisk /\ ~p /\ key # NoDisk /\ key \notin listed

\* gs_ui_settings_save, with disk d chosen, picked or not, its table and ticks.
Save(d, p, s, t) ==
  /\ kept' = TRUE
  /\ key' = IF d = NoDisk \/ Stays(d, p) THEN key ELSE d
  /\ names' = Merged(s, t)
  /\ record' = IF Stays(d, p) THEN record ELSE Recorded(d, s)

\* gs_ui_panes_refresh: the machine may not answer, and the table stays; a disk
\* that was chosen stays chosen, else there is a best one.
Refresh(l, s, b) ==
  \/ l = {} /\ s = sel /\ b = lib
  \/ /\ l = here
     /\ IF sel \in listed \cap here THEN s = sel
        ELSE IF here = {} THEN s = NoDisk ELSE s \in here
     /\ b = Scan(s)

\* gs_ui_settings_restore, after a refresh.
Restore(l, s, b) ==
  /\ listed' = l
  /\ IF kept /\ key \in l
     THEN /\ sel' = key /\ lib' = Scan(key)
          /\ ticks' = {i \in DOMAIN lib' : lib'[i] \in names}
          /\ record' = Recorded(key, lib')
     ELSE sel' = s /\ lib' = b /\ UNCHANGED <<ticks, record>>

Tables == {Listing(S) : S \in SUBSET Models} \cup {lib}

-----------------------------------------------------------------------------
Init ==
  /\ here \in SUBSET Disks /\ on = Holds
  /\ key = NoDisk /\ names = {} /\ record = {} /\ kept = FALSE
  /\ listed = {} /\ sel = NoDisk /\ lib = << >> /\ ticks = {} /\ picked = FALSE
  /\ up = "closed" /\ screen = "HOME" /\ box = "shut" /\ about = NoRow /\ job = NoJob

Start ==
  /\ up = "closed" /\ up' = "loop"
  /\ \E l \in {here, {}}, s \in Disks \cup {NoDisk}, b \in Tables :
       Refresh(l, s, b) /\ Restore(l, s, b)
  /\ UNCHANGED <<here, on, key, names, kept, picked, screen, asking, job>>

\* The process is gone, with all it knew.
Gone ==
  /\ up' = "closed" /\ screen' = "HOME" /\ box' = "shut" /\ about' = NoRow /\ job' = NoJob
  /\ listed' = {} /\ sel' = NoDisk /\ lib' = << >> /\ ticks' = {} /\ picked' = FALSE

-----------------------------------------------------------------------------
(* Clicks and keys.  The confirm box takes them all while it is up. *)

Home == up = "loop" /\ screen = "HOME"
Free == up = "loop" /\ screen = "WORKSPACE" /\ box = "shut"

Settings ==
  /\ Home /\ screen' = "WORKSPACE"
  /\ UNCHANGED <<here, on, saved, table, picked, up, asking, job>>

Toggle ==
  /\ Home
  /\ \E i \in DOMAIN lib : ticks' = IF i \in ticks THEN ticks \ {i} ELSE ticks \cup {i}
  /\ Save(Chosen, picked, lib, ticks')
  /\ UNCHANGED <<here, on, listed, sel, lib, picked, window, asking, job>>

\* The button, or Escape when nothing else is open.
Back ==
  /\ Free /\ screen' = "HOME" /\ Save(Chosen, picked, lib, ticks)
  /\ UNCHANGED <<here, on, table, picked, up, asking, job>>

\* A row of the fit list or a category.
Choose ==
  /\ Free /\ Save(Chosen, picked, lib, ticks)
  /\ UNCHANGED <<here, on, table, picked, window, asking, job>>

PickDisk ==
  /\ Free
  /\ \E d \in listed : sel' = d /\ lib' = Scan(d) /\ Save(d, TRUE, Scan(d), ticks)
  /\ picked' = TRUE
  /\ UNCHANGED <<here, on, listed, ticks, window, asking, job>>

\* gs_ui_do_mount, as far as the panes go, when the machine answers.
Mount ==
  /\ Free /\ listed' = here
  /\ \E s \in Disks \cup {NoDisk}, b \in Tables : Refresh(here, s, b) /\ sel' = s /\ lib' = b
  /\ UNCHANGED <<here, on, saved, ticks, picked, window, asking, job>>

\* The cross of a model on the disk, or the mark of one that fits.
Cross ==
  /\ Free /\ box' = "opens"
  /\ about' \in [add : {FALSE}, row : DOMAIN lib] \cup [add : {TRUE}, row : Fits]
  /\ UNCHANGED <<here, on, saved, table, picked, window, job>>

\* No, or Escape.
No ==
  /\ up = "loop" /\ box \in {"opens", "open"} /\ box' = "shuts"
  /\ UNCHANGED <<here, on, saved, table, picked, window, about, job>>

\* Mutant of Escape: a key the box does not take goes back to the start.
EscapeHome ==
  /\ up = "loop" /\ box = "busy" /\ screen' = "HOME" /\ Save(Chosen, picked, lib, ticks)
  /\ UNCHANGED <<here, on, table, picked, up, asking, job>>

\* Escape while the thread runs, which cannot be called back.
Escape == up = "loop" /\ box = "busy" /\ UNCHANGED vars

\* gs_ui_remove_begin, gs_ui_add_begin: the row's name is noted for the words on
\* the screen, its number for the thread.  In the fit list a row is its model.
Ok ==
  /\ up = "loop" /\ box = "open"
  /\ IF ~about.add /\ about.row \notin DOMAIN lib
     THEN box' = "shuts" /\ UNCHANGED job
     ELSE /\ box' = "busy"
          /\ job' = [pc |-> "run", add |-> about.add, row |-> about.row, ok |-> FALSE,
                     name |-> IF about.add THEN about.row ELSE lib[about.row],
                     root |-> IF about.add THEN Chosen ELSE NoDisk]
  /\ UNCHANGED <<here, on, saved, table, picked, window, about>>

-----------------------------------------------------------------------------
(* The thread, removal_worker. *)

Ends(ok) == job' = [job EXCEPT !.pc = "done", !.ok = ok]

\* gs_library_remove looks the row up now; gs_library_pull has its own copies.
Worker ==
  /\ job.pc = "run"
  /\ \/ /\ ~job.add /\ job.row \in DOMAIN lib /\ sel \in here
        /\ on' = [on EXCEPT ![sel] = @ \ {lib[job.row]}] /\ Ends(TRUE)
     \/ /\ job.add /\ job.root \in here
        /\ on' = [on EXCEPT ![job.root] = @ \cup {job.name}] /\ Ends(TRUE)
     \/ UNCHANGED on /\ Ends(FALSE)
  /\ UNCHANGED <<here, saved, table, picked, window, asking>>

-----------------------------------------------------------------------------
(* What the loop does by itself. *)

\* The clock of the box runs only where that of the home screen does not.
Advance ==
  /\ up = "loop" /\ screen = "WORKSPACE" /\ box \in {"opens", "shuts"}
  /\ IF box = "opens" THEN box' = "open" /\ UNCHANGED about
                      ELSE box' = "shut" /\ about' = NoRow
  /\ UNCHANGED <<here, on, saved, table, picked, window, job>>

\* gs_ui_remove_poll, and what the loop does when it has an answer.
RemovePoll ==
  /\ up = "loop" /\ screen = "WORKSPACE" /\ box = "busy" /\ job.pc = "done"
  /\ job' = NoJob /\ box' = "shuts"
  /\ IF job.ok
     THEN \E l \in {here, {}}, s \in Disks \cup {NoDisk}, b \in Tables :
            /\ Refresh(l, s, b) /\ listed' = l /\ sel' = s /\ lib' = b
            /\ record' = Recorded(IF s \in l THEN s ELSE NoDisk, b)
     ELSE UNCHANGED <<listed, sel, lib, record>>
  /\ UNCHANGED <<here, on, key, names, kept, ticks, picked, window, about>>

\* Mutants of Quiet: nothing is waited for, or the threads and not the box.
QuietEver      == TRUE
QuietOfThreads == job.pc = "none"

\* No thread reads the table and no box asks about a row of it.
Quiet == job.pc = "none" /\ box = "shut"

\* gs_ui_mount_poll, when the watcher has a report.
MountPoll ==
  /\ up = "loop" /\ Quiet /\ picked' = FALSE
  /\ \E l \in {here, {}}, s \in Disks \cup {NoDisk}, b \in Tables :
       Refresh(l, s, b) /\ Restore(l, s, b)
  /\ UNCHANGED <<here, on, key, names, kept, window, asking, job>>

\* The close button, a signal, or the display is lost.
Quit ==
  /\ up = "loop" /\ up' = "quit"
  /\ UNCHANGED <<here, on, saved, table, picked, screen, asking, job>>

\* gs_ui_remove_wait, the settings saved, the table let go of.
Finish ==
  /\ up = "quit" /\ job.pc # "run"
  /\ IF kept \/ screen = "WORKSPACE" THEN Save(Chosen, picked, lib, ticks) ELSE UNCHANGED saved
  /\ Gone
  /\ UNCHANGED <<here, on>>

-----------------------------------------------------------------------------
(* Around the program. *)

Plug ==
  /\ \E d \in Disks : here' = IF d \in here THEN here \ {d} ELSE here \cup {d}
  /\ UNCHANGED <<on, saved, table, picked, window, asking, job>>

Crash == up # "closed" /\ Gone /\ UNCHANGED <<here, on, saved>>

Person == Start \/ Settings \/ Toggle \/ Back \/ Choose \/ PickDisk \/ Mount \/ Cross
          \/ No \/ Escape \/ Ok \/ Quit
Loop   == Advance \/ RemovePoll \/ MountPoll \/ Finish
Next   == Person \/ Loop \/ Worker \/ Plug \/ Crash

Spec == Init /\ [][Next]_vars

\* The loop comes round for its clocks and at its end, and a removal or a pull
\* has one.
FairSpec == Spec /\ WF_vars(Advance \/ RemovePoll) /\ WF_vars(Finish) /\ WF_vars(Worker)

-----------------------------------------------------------------------------
(* Properties. *)

\* The model a removal takes off a disk is the one the window names, though its
\* thread is given only the number of a row (ui_actions.c:203, 220-221).
RemovesWhatItSays ==
  [][\A d \in Disks : on[d] \ on'[d] \subseteq IF job.add THEN {} ELSE {job.name}]_vars

\* The table is not read anew nor let go of while a box asks about one of its
\* rows, nor under a thread (ui_mount.c:142-149, ui.c:868-874).
TableStays ==
  [][/\ box \in {"opens", "open", "busy"} /\ box' \in {"opens", "open", "busy"} =>
          lib' = lib /\ sel' = sel
     /\ job.pc = "run" /\ job'.pc = "run" => lib' = lib]_vars

\* What was chosen on a disk that is away stays chosen, whatever is done on
\* another and however often the program starts: only a model on the screen is
\* unticked, only a disk that is in the list or gave way to one that was picked
\* is replaced, and no empty disk takes the place of the record
\* (ui_settings.c:126-150, 163-202, 45-50).
NamesStay   == names \ names' \subseteq Set(lib) \cup Set(lib')
DiskStays   == key # key' => key = NoDisk \/ key \in listed \/ picked \/ picked'
RecordStays == record # {} => record' # {}

AwayIsKept == [][NamesStay /\ DiskStays /\ RecordStays]_vars

\* A box that waits for a thread shuts when the thread is done; the loop never
\* leaves it standing on a screen whose branch does not look (ui.c:270-310).
EveryBoxShuts == box = "busy" ~> box = "shut"

\* The choice of models is of models and not of rows, so that after a removal it
\* is of those that are left: "a position in the library shifts the moment a
\* model is added or removed" (ui_settings.c:180-181).
TicksStay ==
  [][box = "busy" /\ box' = "shuts" =>
       Ticked(lib', ticks') = Ticked(lib, ticks) \cap Set(lib')]_vars
=============================================================================
