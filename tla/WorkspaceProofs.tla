-------------------------- MODULE WorkspaceProofs --------------------------
(***************************************************************************)
(* Any number of disks and models: proofs that the table stays under a box *)
(* and under a thread, and so that the model a removal takes off the disk  *)
(* is the one the window named.                                            *)
(***************************************************************************)
EXTENDS Workspace, TLAPS

\* The thread works for the box that waits for it, or for a window that is
\* going; a program that is not there has neither.
ThreadHasBox ==
  /\ job.pc # "none" => box = "busy" \/ up = "quit"
  /\ up = "closed" => box = "shut" /\ job.pc = "none"

\* The row a removal was given is still the model that was named.
RowIsName ==
  job.pc = "run" /\ ~job.add => job.row \in DOMAIN lib /\ lib[job.row] = job.name

\* The inductive invariant.
IInv == on = [d \in Disks |-> on[d]] /\ ThreadHasBox /\ RowIsName

-----------------------------------------------------------------------------
LEMMA InitHolds == Init => IInv
BY WorkspaceAssumption DEF Init, IInv, ThreadHasBox, RowIsName, NoJob

\* What a person does leaves table and thread alone while either is needed.
LEMMA PersonKeeps ==
  ASSUME IInv, Person
  PROVE  IInv'
<1> USE DEF saved, table, window, asking, IInv, ThreadHasBox, RowIsName
<1>1. CASE Start
  BY <1>1 DEF Start
<1>2. CASE Settings \/ Toggle \/ Back \/ Choose \/ Quit
  BY <1>2 DEF Settings, Toggle, Back, Choose, Quit, Home, Free
<1>3. CASE PickDisk \/ Mount
  BY <1>3 DEF PickDisk, Mount, Free
<1>4. CASE Cross \/ No
  BY <1>4 DEF Cross, No, Free
<1>5. CASE Escape
  BY <1>5 DEF Escape, vars
<1>6. CASE Ok
  BY <1>6 DEF Ok
<1>7. QED
  BY <1>1, <1>2, <1>3, <1>4, <1>5, <1>6 DEF Person

LEMMA LoopKeeps ==
  ASSUME IInv, Loop
  PROVE  IInv'
<1> USE DEF saved, table, window, asking, IInv, ThreadHasBox, RowIsName
<1>1. CASE Advance
  BY <1>1 DEF Advance
<1>2. CASE RemovePoll
  BY <1>2 DEF RemovePoll, NoJob
<1>3. CASE MountPoll
  BY <1>3 DEF MountPoll, Quiet
<1>4. CASE Finish
  BY <1>4 DEF Finish, Gone, NoJob
<1>5. QED
  BY <1>1, <1>2, <1>3, <1>4 DEF Loop

LEMMA WorkerKeeps ==
  ASSUME IInv, Worker
  PROVE  IInv'
<1>1. /\ on' = [d \in Disks |-> on'[d]]
      /\ UNCHANGED <<box, up, lib>>
  BY DEF Worker, IInv, table, window, asking
<1>2. job.pc = "run" /\ \E ok \in BOOLEAN : job' = [job EXCEPT !.pc = "done", !.ok = ok]
  BY DEF Worker, Ends
<1>3. QED
  BY <1>1, <1>2 DEF IInv, ThreadHasBox, RowIsName

LEMMA InvariantKept == IInv /\ [Next]_vars => IInv'
<1> SUFFICES ASSUME IInv, [Next]_vars
             PROVE  IInv'
  OBVIOUS
<1> USE DEF saved, table, window, asking
<1>1. CASE Plug
  BY <1>1 DEF Plug, IInv, ThreadHasBox, RowIsName
<1>2. CASE Crash
  BY <1>2 DEF Crash, Gone, NoJob, IInv, ThreadHasBox, RowIsName
<1>3. CASE UNCHANGED vars
  BY <1>3 DEF vars, IInv, ThreadHasBox, RowIsName
<1>4. QED
  BY <1>1, <1>2, <1>3, PersonKeeps, LoopKeeps, WorkerKeeps DEF Next

LEMMA Invariant == Spec => []IInv
<1>1. Init => IInv
  BY InitHolds
<1>2. IInv /\ [Next]_vars => IInv'
  BY InvariantKept
<1>3. QED
  BY <1>1, <1>2, PTL DEF Spec

-----------------------------------------------------------------------------
\* What a step does to a disk: a removal takes one model off, of the row that
\* was asked about, and nothing else takes any.
LEMMA OnlyTheNamed ==
  ASSUME IInv, [Next]_vars, NEW d \in Disks
  PROVE  on[d] \ on'[d] \subseteq IF job.add THEN {} ELSE {job.name}
<1>1. CASE Worker
  <2>1. CASE on' = [on EXCEPT ![sel] = @ \ {lib[job.row]}] /\ ~job.add
    BY <1>1, <2>1 DEF Worker, IInv, RowIsName
  <2>2. CASE on' = [on EXCEPT ![job.root] = @ \cup {job.name}]
    BY <2>2 DEF IInv
  <2>3. CASE UNCHANGED on
    BY <2>3
  <2>4. QED
    BY <1>1, <2>1, <2>2, <2>3 DEF Worker
<1>2. CASE ~Worker
  <2>1. UNCHANGED on
    BY <1>2 DEF Next, Person, Loop, Start, Settings, Toggle, Back, Choose, PickDisk, Mount,
                Cross, No, Escape, Ok, Quit, Advance, RemovePoll, MountPoll, Finish, Plug,
                Crash, vars
  <2>2. QED
    BY <2>1
<1>3. QED
  BY <1>1, <1>2

\* The thread of a removal is given the number of a row and looks the model up
\* when it runs; it is the model the confirm box named all the same, whatever
\* the watcher reports, and however disks come and go meanwhile
\* (ui_actions.c:203, 220-221).
THEOREM OnlyTheNamedIsRemoved == Spec => RemovesWhatItSays
<1>1. ASSUME IInv, [Next]_vars
      PROVE  [\A d \in Disks :
                on[d] \ on'[d] \subseteq IF job.add THEN {} ELSE {job.name}]_vars
  BY <1>1, OnlyTheNamed
<1>2. QED
  BY <1>1, Invariant, PTL DEF Spec, RemovesWhatItSays

-----------------------------------------------------------------------------
\* Where the table is read anew no box asks and no thread runs, before or after.
LEMMA TableUnderNone ==
  ASSUME IInv, [Next]_vars
  PROVE  /\ box \in {"opens", "open", "busy"} /\ box' \in {"opens", "open", "busy"} =>
              lib' = lib /\ sel' = sel
         /\ job.pc = "run" /\ job'.pc = "run" => lib' = lib
<1> USE DEF table, window, asking, IInv, ThreadHasBox
<1>1. CASE Start \/ PickDisk \/ Mount \/ Cross
  BY <1>1 DEF Start, PickDisk, Mount, Cross, Free
<1>2. CASE Settings \/ Toggle \/ Back \/ Choose \/ No \/ Escape \/ Ok \/ Quit
  BY <1>2 DEF Settings, Toggle, Back, Choose, No, Escape, Ok, Quit, vars
<1>3. CASE Advance \/ MountPoll
  BY <1>3 DEF Advance, MountPoll, Quiet
<1>4. CASE RemovePoll
  BY <1>4 DEF RemovePoll
<1>5. CASE Finish \/ Crash
  BY <1>5 DEF Finish, Crash, Gone, NoJob
<1>6. CASE Worker \/ Plug \/ UNCHANGED vars
  BY <1>6 DEF Worker, Plug, vars
<1>7. QED
  BY <1>1, <1>2, <1>3, <1>4, <1>5, <1>6 DEF Next, Person, Loop

\* The table is neither read anew nor let go of under a box or a thread, for
\* any number of disks and models (ui_mount.c:142-149, ui.c:868-874).
THEOREM TableAlwaysStays == Spec => TableStays
<1>1. ASSUME IInv, [Next]_vars
      PROVE  [/\ box \in {"opens", "open", "busy"} /\ box' \in {"opens", "open", "busy"} =>
                   lib' = lib /\ sel' = sel
              /\ job.pc = "run" /\ job'.pc = "run" => lib' = lib]_vars
  BY <1>1, TableUnderNone
<1>2. QED
  BY <1>1, Invariant, PTL DEF Spec, TableStays

-----------------------------------------------------------------------------
\* A save keeps the names of what is not in its table, and the chosen disk if
\* that is away.
LEMMA SaveKeeps ==
  ASSUME NEW d, NEW p, NEW s, NEW t, Save(d, p, s, t)
  PROVE  /\ names \ names' \subseteq Set(s)
         /\ key # key' => key = NoDisk \/ key \in listed \/ p
BY DEF Save, Merged, Stays

LEMMA StaysChosen ==
  ASSUME [Next]_vars
  PROVE  NamesStay /\ DiskStays
<1> USE DEF NamesStay, DiskStays
<1>1. CASE \E t : Save(Chosen, picked, lib, t)
  BY <1>1, SaveKeeps
<1>2. CASE PickDisk
  <2>1. PICK d \in listed : lib' = Scan(d) /\ Save(d, TRUE, Scan(d), ticks)
    BY <1>2 DEF PickDisk
  <2>2. picked'
    BY <1>2 DEF PickDisk
  <2>3. QED
    BY <2>1, <2>2, SaveKeeps
<1>3. CASE UNCHANGED <<names, key>>
  BY <1>3
<1>4. QED
  BY <1>1, <1>2, <1>3
     DEF Next, Person, Loop, Start, Settings, Toggle, Back, Choose, Mount, Cross, No,
         Escape, Ok, Quit, Advance, RemovePoll, MountPoll, Finish, Worker, Plug, Crash,
         vars, saved

-----------------------------------------------------------------------------
\* A table that is not empty has a row.
Listed(s) == s = << >> \/ Set(s) # {}

LEMMA ScanIsListed == \A d : Listed(Scan(d))
<1>1. ASSUME NEW S
      PROVE  Listed(Listing(S))
  <2> DEFINE n == Cardinality(S)
             f(i) == CHOOSE m \in S : Cardinality({k \in S : k < m}) = i - 1
  <2>1. Listing(S) = [i \in 1 .. n |-> f(i)]
    BY DEF Listing
  <2> HIDE DEF n, f
  <2>2. CASE 1 .. n = {}
    <3>1. Listing(S) = << >>
      BY <2>1, <2>2
    <3>2. QED
      BY <3>1 DEF Listed
  <2>3. CASE 1 .. n # {}
    <3>1. PICK i \in 1 .. n : TRUE
      BY <2>3
    <3>2. Listing(S)[i] \in Set(Listing(S))
      BY <2>1, <3>1 DEF Set
    <3>3. QED
      BY <3>2 DEF Listed
  <2>4. QED
    BY <2>2, <2>3
<1>2. QED
  BY <1>1 DEF Scan, Listed

\* Wherever the table is read anew, it is what a scan found.
LEMMA RefreshReads ==
  ASSUME NEW l, NEW s, NEW b, Refresh(l, s, b)
  PROVE  b = lib \/ \E d : b = Scan(d)
BY DEF Refresh

LEMMA RestoreReads ==
  ASSUME NEW l, NEW s, NEW b, Listed(b), Restore(l, s, b)
  PROVE  /\ Listed(lib')
         /\ record' = record \/ \E d : record' = Recorded(d, lib')
<1>1. CASE kept /\ key \in l
  <2>1. lib' = Scan(key) /\ record' = Recorded(key, lib')
    BY <1>1 DEF Restore
  <2>2. QED
    BY <2>1, ScanIsListed
<1>2. CASE ~(kept /\ key \in l)
  <2>1. lib' = b /\ record' = record
    BY <1>2 DEF Restore
  <2>2. QED
    BY <2>1
<1>3. QED
  BY <1>1, <1>2

\* A record gives way to none but a record of something.
LEMMA RecordedIs ==
  ASSUME NEW d, NEW s, Listed(s), record # {}
  PROVE  Recorded(d, s) # {}
BY DEF Recorded, Listed

LEMMA SaveRecords ==
  ASSUME NEW d, NEW p, NEW s, NEW t, Listed(s), Save(d, p, s, t)
  PROVE  RecordStays
<1>1. record' = record \/ record' = Recorded(d, s)
  BY DEF Save
<1>2. QED
  BY <1>1, RecordedIs DEF RecordStays

LEMMA RecordKept ==
  ASSUME Listed(lib), [Next]_vars
  PROVE  Listed(lib') /\ RecordStays
<1> USE DEF saved, table, window, asking
<1>1. ASSUME NEW l, NEW s, NEW b, Refresh(l, s, b)
      PROVE  Listed(b)
  BY <1>1, RefreshReads, ScanIsListed
<1>2. CASE Start \/ MountPoll
  <2>1. PICK l, s, b : Refresh(l, s, b) /\ Restore(l, s, b)
    BY <1>2 DEF Start, MountPoll
  <2>2. /\ Listed(lib')
        /\ record' = record \/ \E d : record' = Recorded(d, lib')
    BY <1>1, <2>1, RestoreReads
  <2>3. QED
    BY <2>2, RecordedIs DEF RecordStays
<1>3. CASE RemovePoll
  <2>1. CASE job.ok
    <3>1. PICK l, s, b : /\ Refresh(l, s, b) /\ lib' = b
                         /\ record' = Recorded(IF s \in l THEN s ELSE NoDisk, b)
      BY <1>3, <2>1 DEF RemovePoll
    <3>2. Listed(b)
      BY <1>1, <3>1
    <3>3. record # {} => Recorded(IF s \in l THEN s ELSE NoDisk, b) # {}
      BY <3>2, RecordedIs
    <3>4. QED
      BY <3>1, <3>2, <3>3 DEF RecordStays
  <2>2. CASE ~job.ok
    <3>1. UNCHANGED <<lib, record>>
      BY <1>3, <2>2 DEF RemovePoll
    <3>2. QED
      BY <3>1 DEF RecordStays, Listed, Set
  <2>3. QED
    BY <2>1, <2>2
<1>4. CASE PickDisk
  <2>1. PICK d : lib' = Scan(d) /\ Save(d, TRUE, Scan(d), ticks)
    BY <1>4 DEF PickDisk
  <2>2. QED
    BY <2>1, ScanIsListed, SaveRecords
<1>5. CASE Mount
  <2>1. \E l, s, b : Refresh(l, s, b) /\ lib' = b
    BY <1>5 DEF Mount
  <2>2. record' = record
    BY <1>5 DEF Mount
  <2>3. QED
    BY <1>1, <2>1, <2>2 DEF RecordStays
<1>6. CASE (\E t : Save(Chosen, picked, lib, t)) /\ (lib' = lib \/ lib' = << >>)
  <2>1. Listed(lib')
    BY <1>6 DEF Listed, Set
  <2>2. QED
    BY <1>6, <2>1, SaveRecords
<1>7. CASE record' = record /\ (lib' = lib \/ lib' = << >>)
  BY <1>7 DEF Listed, Set, RecordStays
<1>8. CASE Toggle \/ Back \/ Choose \/ Finish
  <2>1. CASE Toggle \/ Back \/ Choose
    BY <1>6, <2>1 DEF Toggle, Back, Choose
  <2>2. CASE Finish
    BY <1>6, <1>7, <2>2 DEF Finish, Gone
  <2>3. QED
    BY <1>8, <2>1, <2>2
<1>9. CASE Settings \/ Cross \/ No \/ Escape \/ Ok \/ Quit
  BY <1>7, <1>9 DEF Settings, Cross, No, Escape, Ok, Quit, vars
<1>10. CASE Advance \/ Worker \/ Plug \/ Crash \/ UNCHANGED vars
  BY <1>7, <1>10 DEF Advance, Worker, Plug, Crash, Gone, vars
<1>11. QED
  BY <1>2, <1>3, <1>4, <1>5, <1>8, <1>9, <1>10 DEF Next, Person, Loop

\* What was chosen on a disk that is away stays chosen: only a model on the
\* screen is unticked, only a disk in the list, or one that gave way to a disk
\* that was picked, is replaced, and no empty disk takes the place of the
\* record (ui_settings.c:126-150, 163-202, 45-50).
THEOREM AwayStaysChosen == Spec => AwayIsKept
<1>1. Init => Listed(lib)
  BY DEF Init, Listed
<1>2. Listed(lib) /\ [Next]_vars => Listed(lib)'
  BY RecordKept DEF Listed, Set
<1>3. Listed(lib) /\ [Next]_vars => [NamesStay /\ DiskStays /\ RecordStays]_vars
  BY StaysChosen, RecordKept
<1>4. QED
  BY <1>1, <1>2, <1>3, PTL DEF Spec, AwayIsKept
=============================================================================
