----------------------------- MODULE DriveWatch -----------------------------
(***************************************************************************)
(* The drives the program remembers (mount/mount_store.c), the thread of   *)
(* the window that puts them back every fifteen seconds and leaves a       *)
(* report (ui/ui_mount.c), the loop that takes it, and the box that asks   *)
(* for a password once (ui/ui_secret.c, mount/mount_fstab.c).  The command *)
(* line does the same work in another process, at the same time.  How one  *)
(* drive is put back is MountRepair; here it works or it does not.         *)
(***************************************************************************)
EXTENDS Naturals, FiniteSets

CONSTANTS
  Drives,    \* letters, none of them the system's own
  None,      \* no drive, no word
  MissLimit  \* runs in a row after which a drive is forgotten

ASSUME WatchAssumption ==
  /\ None \notin Drives /\ "back" \notin Drives /\ None # "back"
  /\ MissLimit \in Nat \ {0}

VARIABLES
  up,        \* the drives that are mounted and answer
  granted,   \* the drives with a line for this user in /etc/fstab
  lock,      \* which process holds mount.lock
  rows, misses, declined,           \* the table of drives
  runs,      \* how many runs in a row missed a drive, by the runs themselves
  counted,   \* per process, the drives this run of it has missed
  at,        \* per process, where its pass over the drives is
  note, last, wants, changed,       \* what the thread and the window share,
  first, asked, stop,               \* and the thread's own
  road,      \* whether the window's process knows of a road to root
  win, box, busy,                   \* the window
  owed       \* the drives the thread has put up since the disks were read

world  == <<up, granted, lock>>
table  == <<rows, misses, declined>>
ghosts == <<runs, counted>>
thread == <<last, first, asked, road>>
report == <<note, wants, changed>>
window == <<stop, win, box, busy>>
vars   == <<world, table, ghosts, at, thread, report, window, owed>>

Procs == {"window", "command"}
Words == Drives \cup {None, "back"}   \* nothing, DRIVE D: ..., n DRIVES PUT BACK
Roads == {"unknown", "free", "asks"}
Pcs   == {"off", "pass", "restore", "write", "tell", "keep", "miss", "drop", "sleep"}
At    == [pc : Pcs,
          todo : SUBSET Drives,       \* drives the loop has yet to come to
          list : SUBSET Drives,       \* those that were up when the rows are kept
          d : Drives \cup {None},     \* the one a second statement is about
          word : Words]
Off   == [pc |-> "off", todo |-> {}, list |-> {}, d |-> None, word |-> None]

\* The thread holds watch.lock.
Locked == at["window"].pc \in {"keep", "miss", "drop"}

TypeOK ==
  /\ up \subseteq Drives /\ granted \subseteq Drives
  /\ lock \in Procs \cup {None}
  /\ rows \subseteq Drives /\ declined \subseteq rows
  /\ misses \in [Drives -> 0 .. MissLimit] /\ runs \in [Drives -> 0 .. MissLimit]
  /\ counted \in [Procs -> SUBSET Drives] /\ at \in [Procs -> At]
  /\ note \in Words /\ last \in Words /\ wants \in Drives \cup {None}
  /\ changed \in BOOLEAN /\ first \in BOOLEAN /\ asked \in BOOLEAN /\ stop \in BOOLEAN
  /\ win \in {"closed", "loop", "take", "apply", "join"}
  /\ box \in Drives \cup {None} /\ busy \in BOOLEAN
  /\ road \in Roads /\ owed \subseteq up

Init ==
  /\ up \in SUBSET Drives /\ granted = {} /\ lock = None
  /\ rows = {} /\ declined = {}
  /\ misses = [d \in Drives |-> 0] /\ runs = [d \in Drives |-> 0]
  /\ counted = [p \in Procs |-> {}] /\ at = [p \in Procs |-> Off]
  /\ note = None /\ last = None /\ wants = None /\ changed = FALSE
  /\ first = TRUE /\ asked = FALSE /\ stop = FALSE /\ road = "unknown"
  /\ win = "closed" /\ box = None /\ busy = FALSE /\ owed = {}

-----------------------------------------------------------------------------
(* The statements.  Each may be refused, and no caller looks. *)

\* The runs in a row begin anew.
Anew(d) ==
  /\ misses' = [misses EXCEPT ![d] = 0] /\ runs' = [runs EXCEPT ![d] = 0]
  /\ counted' = [p \in Procs |-> counted[p] \ {d}]

Refused == UNCHANGED <<table, ghosts>>

\* Mutant of Remember: what the person said is written over.
RememberAfresh(d) ==
  \/ rows' = rows \cup {d} /\ declined' = declined \ {d} /\ Anew(d)
  \/ Refused

Remember(d) ==
  \/ rows' = rows \cup {d} /\ UNCHANGED declined /\ Anew(d)
  \/ Refused

Decline(d) ==
  \/ rows' = rows \cup {d} /\ declined' = declined \cup {d} /\ UNCHANGED <<misses, ghosts>>
  \/ Refused

\* Numbers beyond the limit do what the limit does.
OneMore(n) == IF n = MissLimit THEN n ELSE n + 1

CountMiss(p, d) ==
  \/ /\ d \in rows
     /\ misses' = [misses EXCEPT ![d] = OneMore(@)]
     /\ runs' = IF d \in counted[p] THEN runs ELSE [runs EXCEPT ![d] = OneMore(@)]
     /\ counted' = [counted EXCEPT ![p] = @ \cup {d}]
     /\ UNCHANGED <<rows, declined>>
  \/ Refused

\* A row's numbers go with it.
Forget(d) ==
  \/ /\ d \in rows /\ misses[d] = MissLimit
     /\ rows' = rows \ {d} /\ declined' = declined \ {d} /\ Anew(d)
  \/ Refused

-----------------------------------------------------------------------------
(* gs_mount_restore_all, in either process. *)

\* The rows are kept, as far as a run goes.
KeptUp(p) == at[p].pc = "miss" /\ at[p].todo = {}

\* It returns.  What the command does after that writes nothing down: its
\* second round over the drives is in MountRepair.
Returns(p) ==
  IF p = "window"
  THEN at' = [at EXCEPT ![p].pc = "tell"] /\ UNCHANGED counted
  ELSE at' = [at EXCEPT ![p] = Off] /\ counted' = [counted EXCEPT ![p] = {}]

\* One copy at a time.  Windows tells of the drives it has, of some, or of none.
Pass(p) ==
  /\ at[p].pc = "pass" \/ (p = "command" /\ KeptUp(p))
  /\ \/ lock # None /\ Returns(p) /\ UNCHANGED lock
     \/ /\ lock = None /\ lock' = p
        /\ \E told \in SUBSET Drives :
             at' = [at EXCEPT ![p] = [Off EXCEPT !.pc = "restore", !.todo = rows \cup told]]
        /\ UNCHANGED counted
  /\ UNCHANGED <<up, granted, table, runs, thread, report, window, owed>>

\* What is said: the first warning, unless a drive was put back.  The command
\* does not look at it.
Said(p, d, back, warns) ==
  CASE p = "command"              -> None
    [] p = "window" /\ back       -> "back"
    [] p = "window" /\ ~back      -> IF warns /\ at[p].word = None THEN d ELSE at[p].word

\* gs_mount_restore: a drive that answers is left, another may come back if
\* root is reached with nothing asked or its line is there.  The window's road
\* is looked for until a probe has finished; the command's may be any.
Restored(p, d, back, warns) ==
  /\ back \/ warns => d \notin up
  /\ ~(back /\ warns)
  /\ up' = IF back THEN up \cup {d} ELSE up
  /\ IF p = "window"
     THEN /\ road' \in IF d \notin up /\ road = "unknown" THEN Roads ELSE {road}
          /\ back => road' = "free" \/ d \in granted
          /\ owed' = IF back THEN owed \cup {d} ELSE owed
     ELSE UNCHANGED <<road, owed>>
  /\ at' = [at EXCEPT ![p].pc = IF back THEN "write" ELSE "restore",
                      ![p].todo = @ \ {d}, ![p].d = IF back THEN d ELSE None,
                      ![p].word = Said(p, d, back, warns)]

\* The loop of gs_mount_restore_all, in any order of the letters.
Restore(p) ==
  /\ at[p].pc = "restore"
  /\ \E d \in at[p].todo, back, warns \in BOOLEAN : Restored(p, d, back, warns)
  /\ UNCHANGED <<granted, lock, table, ghosts, last, first, asked, report, window>>

\* It is written down at once.
Write(p) ==
  /\ at[p].pc = "write"
  /\ Remember(at[p].d)
  /\ at' = [at EXCEPT ![p].pc = "restore", ![p].d = None]
  /\ UNCHANGED <<world, thread, report, window, owed>>

Unlock(p) ==
  /\ at[p].pc = "restore" /\ at[p].todo = {}
  /\ lock' = None /\ Returns(p)
  /\ UNCHANGED <<up, granted, table, runs, thread, report, window, owed>>

-----------------------------------------------------------------------------
(* gs_mount_keep_reading, in either process. *)

Reads == UNCHANGED <<world, thread, report, window, owed>>

\* What answers is remembered, one after the other ...
Keep(p) ==
  /\ at[p].pc = "keep"
  /\ \E d \in at[p].todo :
       /\ IF d \in up THEN Remember(d) ELSE Refused
       /\ at' = [at EXCEPT ![p].todo = @ \ {d}]
  /\ Reads

Recall(p) ==
  /\ at[p].pc = "keep" /\ at[p].todo = {}
  /\ at' = [at EXCEPT ![p].pc = "miss", ![p].todo = rows]
  /\ Refused /\ Reads

\* ... and a miss counted for what is written down and does not, ...
Miss(p) ==
  /\ at[p].pc = "miss"
  /\ \E d \in at[p].todo :
       \/ /\ d \in at[p].list \cap up
          /\ at' = [at EXCEPT ![p].todo = @ \ {d}] /\ Refused
       \/ /\ d \notin at[p].list \cap up
          /\ at' = [at EXCEPT ![p].todo = @ \ {d}, ![p].pc = "drop", ![p].d = d]
          /\ CountMiss(p, d)
  /\ Reads

\* ... which is forgotten in a statement of its own.
Drop(p) ==
  /\ at[p].pc = "drop"
  /\ Forget(at[p].d)
  /\ at' = [at EXCEPT ![p].pc = "miss", ![p].d = None]
  /\ Reads

-----------------------------------------------------------------------------
(* The thread: watch_worker. *)

\* Mutant of FirstPass: the rows are kept on every pass.
EveryPass == TRUE

FirstPass == first

\* watch.lock is taken.
Tell ==
  /\ at["window"].pc = "tell"
  /\ at' = IF FirstPass
           THEN [at EXCEPT !["window"].pc = "keep", !["window"].todo = up, !["window"].list = up]
           ELSE [at EXCEPT !["window"].pc = "miss"]
  /\ Refused /\ Reads

\* gs_mount_wants_setup: a drive that is not up, without a line, not turned
\* down.  (Of several that Windows tells of, the first letter.)
Wanting == Drives \ (up \cup granted \cup declined)

Question ==
  \/ (asked \/ road = "unknown") /\ UNCHANGED <<wants, asked>>
  \/ /\ ~asked /\ road # "unknown" /\ asked' = TRUE
     /\ \/ road = "asks" /\ wants' \in Wanting
        \/ wants' = None   \* there is none, or Windows does not tell

\* Mutant of News: a question is written down and not flagged.
NewsOfWords(word) ==
  LET new == word = "back" \/ word # last IN
  /\ note' = IF new THEN word ELSE note
  /\ last' = word
  /\ changed' = (changed \/ new \/ first)

\* A word that repeats is not news; a question is.
News(word) ==
  LET new == word = "back" \/ word # last IN
  /\ note' = IF new THEN word ELSE note
  /\ last' = word
  /\ changed' = (changed \/ new \/ first \/ (~asked /\ wants' # None))

\* watch.lock is let go of.
Ask ==
  /\ KeptUp("window")
  /\ Question /\ News(at["window"].word)
  /\ first' = FALSE
  /\ at' = [at EXCEPT !["window"] = [Off EXCEPT !.pc = "sleep"]]
  /\ UNCHANGED <<world, table, ghosts, road, window, owed>>

Sleep ==
  /\ at["window"].pc = "sleep"
  /\ at' = [at EXCEPT !["window"].pc = IF stop THEN "off" ELSE "pass"]
  /\ Refused /\ Reads

-----------------------------------------------------------------------------
(* The window: gs_ui_mount_begin, poll and wait, and the box. *)

Fresh ==
  /\ note' = None /\ last' = None /\ wants' = None /\ changed' = FALSE
  /\ first' = TRUE /\ asked' = FALSE /\ stop' = FALSE /\ road' = "unknown"
  /\ box' = None /\ busy' = FALSE /\ owed' = {}

\* There may be no thread to be had.
Start ==
  /\ win = "closed" /\ win' = "loop" /\ Fresh
  /\ \E pc \in {"pass", "off"} : at' = [at EXCEPT !["window"].pc = pc]
  /\ UNCHANGED <<world, table, ghosts>>

\* A confirm box is up, or a model is removed, pulled or looked for.
Work ==
  /\ win = "loop" /\ box = None /\ busy' = ~busy
  /\ UNCHANGED <<world, table, ghosts, at, thread, report, stop, win, box, owed>>

\* Mutant of Poll: a report waits for the box as well.
PollShut ==
  /\ win = "loop" /\ changed /\ ~busy /\ box = None
  /\ win' = "take" /\ changed' = FALSE
  /\ UNCHANGED <<world, table, ghosts, at, thread, note, wants, stop, box, busy, owed>>

\* Whatever the library or a confirm box is used for comes first.
Poll ==
  /\ win = "loop" /\ changed /\ ~busy
  /\ win' = "take" /\ changed' = FALSE
  /\ UNCHANGED <<world, table, ghosts, at, thread, note, wants, stop, box, busy, owed>>

\* Mutant of Take: the question stays where it was.
TakeTwice ==
  /\ win = "take" /\ ~Locked /\ win' = "loop"
  /\ note' = None /\ box' = IF box = None THEN wants ELSE box
  /\ owed' = {}
  /\ UNCHANGED <<world, table, ghosts, at, thread, wants, changed, stop, busy>>

\* watch.lock is waited for; the question waits while a box is open.  Then the
\* disks are read.
Take ==
  /\ win = "take" /\ ~Locked /\ win' = "loop"
  /\ note' = None /\ owed' = {}
  /\ IF box = None THEN box' = wants /\ wants' = None ELSE UNCHANGED <<box, wants>>
  /\ UNCHANGED <<world, table, ghosts, at, thread, changed, stop, busy>>

TurnDown ==
  /\ win = "loop" /\ box # None
  /\ Decline(box) /\ box' = None
  /\ UNCHANGED <<world, at, thread, report, stop, win, busy, owed>>

\* gs_ui_secret_apply: the line is written, or the box stays; ...
Apply ==
  /\ win = "loop" /\ box # None
  /\ granted' = granted \cup {box} /\ win' = "apply"
  /\ UNCHANGED <<up, lock, table, ghosts, at, thread, report, stop, box, busy, owed>>

\* ... with it the drive may come up, without mount.lock and not written down.
PutUp ==
  /\ win = "apply" /\ win' = "loop" /\ box' = None
  /\ up' \in {up, up \cup {box}}
  /\ UNCHANGED <<granted, lock, table, ghosts, at, thread, report, stop, busy, owed>>

Quit ==
  /\ win = "loop" /\ ~busy
  /\ win' = "join" /\ stop' = TRUE
  /\ UNCHANGED <<world, table, ghosts, at, thread, report, box, busy, owed>>

Join ==
  /\ win = "join" /\ at["window"].pc = "off"
  /\ win' = "closed" /\ Fresh
  /\ counted' = [counted EXCEPT !["window"] = {}]
  /\ UNCHANGED <<world, table, runs, at>>

-----------------------------------------------------------------------------
\* The command line: mount_run.
Command ==
  /\ at["command"].pc = "off"
  /\ at' = [at EXCEPT !["command"] = [Off EXCEPT !.pc = "keep", !.todo = up, !.list = up]]
  /\ Refused /\ Reads

-----------------------------------------------------------------------------
(* What happens around the program. *)

\* A process is killed; the kernel lets go of its lock.
Crash(p) ==
  /\ at[p].pc # "off" \/ (p = "window" /\ win # "closed")
  /\ at' = [at EXCEPT ![p] = Off]
  /\ lock' = IF lock = p THEN None ELSE lock
  /\ IF p = "window" THEN win' = "closed" /\ Fresh
                     ELSE UNCHANGED <<thread, report, window, owed>>
  /\ counted' = [counted EXCEPT ![p] = {}]
  /\ UNCHANGED <<up, granted, table, runs>>

\* A drive is pulled out, dies, or is mounted by hand.
World ==
  /\ \E d \in Drives :
       up' = IF d \in up THEN up \ {d} ELSE up \cup {d}
  /\ owed' = owed \cap up'
  /\ UNCHANGED <<granted, lock, table, ghosts, at, thread, report, window>>

Passes(p) == Pass(p) \/ Restore(p) \/ Write(p) \/ Unlock(p)
Keeps(p)  == Keep(p) \/ Recall(p) \/ Miss(p) \/ Drop(p)
Thread    == Passes("window") \/ Keeps("window") \/ Tell \/ Ask \/ Sleep
Person    == Start \/ Work \/ TurnDown \/ Apply \/ Quit
Fetch     == Poll \/ Take
Wait      == PutUp \/ Join
Line      == Command \/ Passes("command") \/ Keeps("command")

Next == Thread \/ Person \/ Fetch \/ Wait \/ Line \/ World \/ \E p \in Procs : Crash(p)

Spec == Init /\ [][Next]_vars

\* The thread runs and the loop turns: it comes by the poll whenever it is
\* quiet, and the thread sleeps between two times it holds the lock.
FairSpec == Spec /\ WF_vars(Thread) /\ SF_vars(Fetch) /\ WF_vars(Wait)

-----------------------------------------------------------------------------
(* Properties. *)

\* No report is lost between the thread and the window: a word, a question or
\* a drive put back that the window has not got is flagged, on its way, or not
\* told yet (ui_mount.c:60-93, 145-169).
OnItsWay == changed \/ win = "take"
NotTold  == at["window"].pc \in {"restore", "write", "tell", "keep", "miss", "drop"}

ReportStands ==
  win \in {"loop", "apply"} =>
    /\ note # None \/ wants # None => OnItsWay
    /\ owed # {} => OnItsWay \/ NotTold

\* A drive, and what the person said of it, is forgotten only after MissLimit
\* runs of the program in a row that did not find it, however their statements
\* fall between each other (mount_store.c:100-104, 260-274, ui_mount.c:62-67).
ForgottenInTime ==
  [][\A d \in Drives :
       d \in rows \ rows' \/ d \in declined \ declined' => runs[d] = MissLimit]_vars

\* A drive that was turned down is not asked about, by this run or a later one,
\* while its row is there (mount_fstab.c:263-266, ui.c:693-698).
NoMeansNo == box # None => box \notin declined

\* What the thread has to say gets to the window, if that is ever quiet again,
\* or the window is left (ui_mount.c:135-171).
ReportArrives ==
  []<>~busy =>
    ((note # None \/ wants # None)
       ~> ((note = None /\ wants = None) \/ win \in {"join", "closed"}))
=============================================================================
