-------------------------- MODULE DriveWatchProofs --------------------------
(***************************************************************************)
(* Any number of drives and of misses: proofs that no report is lost, that *)
(* a drive that was turned down is not asked about while it is on the list *)
(* and that it leaves the list, with what was said of it, only after       *)
(* MissLimit runs in a row that did not find it.                           *)
(***************************************************************************)
EXTENDS DriveWatch, TLAPS

\* A second statement is about a drive, and so is a line that was written.
DriveInHand == \A p \in Procs : at[p].pc \in {"write", "drop"} => at[p].d \in Drives

BoxInHand == win = "apply" => box # None

Typed == TypeOK /\ DriveInHand /\ BoxInHand

\* One question is on its way or open, and not about a drive turned down.
OneQuestion ==
  /\ wants # None \/ box # None => asked
  /\ wants = None \/ box = None
  /\ wants \notin declined /\ box \notin declined

\* A drive put up that is not flagged is in the word the thread has to say.
NewsInHand ==
  win \in {"loop", "apply"} =>
    /\ note # None \/ wants # None => OnItsWay
    /\ owed # {} => OnItsWay \/ (NotTold /\ at["window"].word = "back")

\* No row is counted twice by one run of the program.
CountedOnce(p) ==
  /\ at[p].pc = "keep" => counted[p] = {}
  /\ at[p].pc \in {"miss", "drop"} => at[p].todo \cap counted[p] = {}
  /\ at[p].pc \in {"off", "pass", "tell", "sleep"} => at[p].todo = {}

Counts ==
  /\ \A d \in Drives : misses[d] <= runs[d]
  /\ \A p \in Procs : CountedOnce(p)
  /\ at["command"].pc = "off" => counted["command"] = {}
  /\ first /\ ~Locked => counted["window"] = {}
  /\ win = "closed" => counted["window"] = {} /\ at["window"].pc = "off"

\* The inductive invariant.
IInv == Typed /\ OneQuestion /\ NewsInHand /\ Counts

-----------------------------------------------------------------------------
LEMMA InitHolds == Init => IInv
<1> SUFFICES ASSUME Init PROVE IInv
  OBVIOUS
<1> USE WatchAssumption DEF Init
<1>1. Off \in At
  BY DEF Off, At, Pcs, Words
<1>2. TypeOK
  <2>1. misses \in [Drives -> 0 .. MissLimit] /\ runs \in [Drives -> 0 .. MissLimit]
    OBVIOUS
  <2>2. counted \in [Procs -> SUBSET Drives] /\ at \in [Procs -> At]
    BY <1>1
  <2>3. QED
    BY <2>1, <2>2 DEF TypeOK, Words, Roads
<1>3. DriveInHand
  BY DEF DriveInHand, Off
<1>4. OneQuestion /\ NewsInHand
  BY DEF OneQuestion, NewsInHand
<1>5. Counts
  BY DEF Counts, CountedOnce, Locked, Procs, Off
<1>6. QED
  BY <1>2, <1>3, <1>4, <1>5 DEF IInv, Typed, BoxInHand

\* The statements keep the table to its type.
LEMMA RememberTyped ==
  ASSUME TypeOK, NEW d \in Drives, Remember(d)
  PROVE  /\ rows' \subseteq Drives /\ declined' \subseteq rows'
         /\ misses' \in [Drives -> 0 .. MissLimit] /\ runs' \in [Drives -> 0 .. MissLimit]
         /\ counted' \in [Procs -> SUBSET Drives]
BY WatchAssumption DEF Remember, Refused, Anew, TypeOK, table, ghosts

LEMMA DeclineTyped ==
  ASSUME TypeOK, NEW d \in Drives, Decline(d)
  PROVE  /\ rows' \subseteq Drives /\ declined' \subseteq rows'
         /\ misses' \in [Drives -> 0 .. MissLimit] /\ runs' \in [Drives -> 0 .. MissLimit]
         /\ counted' \in [Procs -> SUBSET Drives]
BY WatchAssumption DEF Decline, Refused, TypeOK, table, ghosts

LEMMA CountMissTyped ==
  ASSUME TypeOK, NEW p \in Procs, NEW d \in Drives, CountMiss(p, d)
  PROVE  /\ rows' \subseteq Drives /\ declined' \subseteq rows'
         /\ misses' \in [Drives -> 0 .. MissLimit] /\ runs' \in [Drives -> 0 .. MissLimit]
         /\ counted' \in [Procs -> SUBSET Drives]
BY WatchAssumption DEF CountMiss, Refused, OneMore, TypeOK, table, ghosts

LEMMA ForgetTyped ==
  ASSUME TypeOK, NEW d \in Drives, Forget(d)
  PROVE  /\ rows' \subseteq Drives /\ declined' \subseteq rows'
         /\ misses' \in [Drives -> 0 .. MissLimit] /\ runs' \in [Drives -> 0 .. MissLimit]
         /\ counted' \in [Procs -> SUBSET Drives]
BY WatchAssumption DEF Forget, Refused, Anew, TypeOK, table, ghosts

\* One place of a process changes.
LEMMA PcTyped ==
  ASSUME Typed, NEW p \in Procs, NEW pc \in Pcs \ {"write", "drop"},
         at' = [at EXCEPT ![p].pc = pc]
  PROVE  at' \in [Procs -> At] /\ DriveInHand'
<1> DEFINE A == [at[p] EXCEPT !.pc = pc]
<1>1. at[p] \in At
  BY DEF Typed, TypeOK
<1>2. A \in At /\ A.pc = pc
  BY <1>1 DEF At
<1>3. at' = [at EXCEPT ![p] = A]
  OBVIOUS
<1> HIDE DEF A
<1>4. at' \in [Procs -> At]
  BY <1>2, <1>3 DEF Typed, TypeOK
<1>5. DriveInHand'
  BY <1>2, <1>3 DEF Typed, TypeOK, DriveInHand
<1>6. QED
  BY <1>4, <1>5

\* One process is at another place.
LEMMA AtTyped ==
  ASSUME Typed, NEW p \in Procs, NEW a \in At, a.pc \in {"write", "drop"} => a.d \in Drives,
         at' = [at EXCEPT ![p] = a]
  PROVE  at' \in [Procs -> At] /\ DriveInHand'
BY DEF Typed, TypeOK, DriveInHand

LEMMA ReturnsTyped ==
  ASSUME Typed, NEW p \in Procs, Returns(p)
  PROVE  at' \in [Procs -> At] /\ DriveInHand' /\ counted' \in [Procs -> SUBSET Drives]
<1>1. Off \in At /\ Off.pc = "off"
  BY DEF Off, At, Pcs, Words
<1>2. CASE p = "window"
  BY <1>2, PcTyped DEF Returns, Typed, TypeOK, Pcs
<1>3. CASE p # "window"
  <2>1. at' = [at EXCEPT ![p] = Off] /\ counted' = [counted EXCEPT ![p] = {}]
    BY <1>3 DEF Returns
  <2>2. QED
    BY <1>1, <2>1, AtTyped DEF Typed, TypeOK
<1>4. QED
  BY <1>2, <1>3

LEMMA PassLocked ==
  ASSUME NEW p, Pass(p), lock # None
  PROVE  Returns(p) /\ UNCHANGED lock
BY Zenon DEF Pass

LEMMA PassLeaves ==
  ASSUME NEW p, Pass(p)
  PROVE  UNCHANGED <<up, granted, table, runs, thread, report, window, owed>>
BY Zenon DEF Pass

LEMMA PassesTyped ==
  ASSUME Typed, NEW p \in Procs, Passes(p)
  PROVE  Typed'
<1> USE WatchAssumption DEF Typed, BoxInHand, world, table, ghosts, thread, report, window
<1>1. CASE Pass(p)
  <2>1. CASE lock # None
    <3>1. Returns(p) /\ UNCHANGED lock
      BY <1>1, <2>1, PassLocked
    <3>2. at' \in [Procs -> At] /\ DriveInHand' /\ counted' \in [Procs -> SUBSET Drives]
      BY <3>1, ReturnsTyped
    <3>3. UNCHANGED <<up, granted, table, runs, thread, report, window, owed>>
      BY <1>1, PassLeaves
    <3>4. QED
      BY <3>1, <3>2, <3>3 DEF TypeOK
  <2>2. CASE lock = None
    <3>1. PICK told \in SUBSET Drives :
            at' = [at EXCEPT ![p] = [Off EXCEPT !.pc = "restore", !.todo = rows \cup told]]
      BY <1>1, <2>2 DEF Pass
    <3>2. /\ [Off EXCEPT !.pc = "restore", !.todo = rows \cup told] \in At
          /\ [Off EXCEPT !.pc = "restore", !.todo = rows \cup told].pc = "restore"
      BY DEF Off, At, Pcs, Words, TypeOK
    <3>3. at' \in [Procs -> At] /\ DriveInHand'
      BY <3>1, <3>2, AtTyped
    <3>4. QED
      BY <1>1, <2>2, <3>3 DEF Pass, TypeOK
  <2>3. QED
    BY <2>1, <2>2
<1>2. CASE Restore(p)
  <2> DEFINE A(back, d, word) ==
        [at[p] EXCEPT !.pc = IF back THEN "write" ELSE "restore", !.todo = @ \ {d},
                      !.d = IF back THEN d ELSE None, !.word = word]
  <2>1. PICK d \in at[p].todo, back, warns \in BOOLEAN : Restored(p, d, back, warns)
    BY <1>2 DEF Restore
  <2>2. d \in Drives /\ at[p] \in At /\ at[p].word \in Words
    BY DEF TypeOK, At
  <2>3. Said(p, d, back, warns) \in Words
    BY <2>2 DEF Said, Words, Procs
  <2>4. CASE back
    <3>0. at' = [at EXCEPT ![p] = A(TRUE, d, Said(p, d, back, warns))]
      BY <2>1, <2>2, <2>4 DEF Restored, At
    <3>1. /\ A(TRUE, d, Said(p, d, back, warns)) \in At
          /\ A(TRUE, d, Said(p, d, back, warns)).d = d
      BY <2>2, <2>3 DEF At, Pcs
    <3>2. at' \in [Procs -> At] /\ DriveInHand'
      BY <2>2, <3>0, <3>1, AtTyped
    <3>3. QED
      BY <1>2, <2>1, <2>2, <2>4, <3>2 DEF Restore, Restored, TypeOK
  <2>5. CASE ~back
    <3>0. at' = [at EXCEPT ![p] = A(FALSE, d, Said(p, d, back, warns))]
      BY <2>1, <2>2, <2>5 DEF Restored, At
    <3>1. /\ A(FALSE, d, Said(p, d, back, warns)) \in At
          /\ A(FALSE, d, Said(p, d, back, warns)).pc = "restore"
      BY <2>2, <2>3 DEF At, Pcs
    <3>2. at' \in [Procs -> At] /\ DriveInHand'
      BY <2>2, <3>0, <3>1, AtTyped
    <3>3. QED
      BY <1>2, <2>1, <2>2, <2>5, <3>2 DEF Restore, Restored, TypeOK
  <2>6. QED
    BY <2>4, <2>5
<1>3. CASE Write(p)
  <2>1. at[p].d \in Drives
    BY <1>3 DEF Write, DriveInHand
  <2>2. /\ [at[p] EXCEPT !.pc = "restore", !.d = None] \in At
        /\ [at[p] EXCEPT !.pc = "restore", !.d = None].pc = "restore"
        /\ at' = [at EXCEPT ![p] = [at[p] EXCEPT !.pc = "restore", !.d = None]]
    <3>1. at[p] \in At /\ at' = [at EXCEPT ![p].pc = "restore", ![p].d = None]
      BY <1>3 DEF Write, TypeOK
    <3>2. QED
      BY <3>1 DEF At, Pcs
  <2>3. at' \in [Procs -> At] /\ DriveInHand'
    BY <2>2, AtTyped
  <2>4. QED
    BY <1>3, <2>1, <2>3, RememberTyped DEF Write, TypeOK
<1>4. CASE Unlock(p)
  BY <1>4, ReturnsTyped DEF Unlock, TypeOK
<1>5. QED
  BY <1>1, <1>2, <1>3, <1>4 DEF Passes

LEMMA KeepsTyped ==
  ASSUME Typed, NEW p \in Procs, Keeps(p)
  PROVE  Typed'
<1> USE WatchAssumption DEF Typed, BoxInHand, Reads, Refused, world, table, ghosts, thread, report, window
<1>0. at[p] \in At /\ at[p].todo \subseteq Drives
  BY DEF TypeOK, At
<1>1. CASE Keep(p)
  <2>1. PICK d \in at[p].todo :
          /\ IF d \in up THEN Remember(d) ELSE Refused
          /\ at' = [at EXCEPT ![p].todo = @ \ {d}]
    BY <1>1 DEF Keep
  <2>2. /\ [at[p] EXCEPT !.todo = @ \ {d}] \in At
        /\ [at[p] EXCEPT !.todo = @ \ {d}].pc = "keep"
    BY <1>0, <1>1 DEF Keep, At
  <2>3. at' = [at EXCEPT ![p] = [at[p] EXCEPT !.todo = @ \ {d}]]
    BY <1>0, <2>1 DEF At
  <2>4. at' \in [Procs -> At] /\ DriveInHand'
    BY <2>2, <2>3, AtTyped
  <2>5. QED
    BY <1>0, <1>1, <2>1, <2>4, RememberTyped DEF Keep, TypeOK
<1>2. CASE Recall(p)
  <2>1. /\ [at[p] EXCEPT !.pc = "miss", !.todo = rows] \in At
        /\ [at[p] EXCEPT !.pc = "miss", !.todo = rows].pc = "miss"
    BY <1>0 DEF At, Pcs, TypeOK
  <2>2. at' = [at EXCEPT ![p] = [at[p] EXCEPT !.pc = "miss", !.todo = rows]]
    BY <1>0, <1>2 DEF Recall, At
  <2>3. at' \in [Procs -> At] /\ DriveInHand'
    BY <2>1, <2>2, AtTyped
  <2>4. QED
    BY <1>2, <2>3 DEF Recall, TypeOK
<1>3. CASE Miss(p)
  <2>1. PICK d \in at[p].todo :
          \/ at' = [at EXCEPT ![p].todo = @ \ {d}] /\ Refused
          \/ /\ at' = [at EXCEPT ![p].todo = @ \ {d}, ![p].pc = "drop", ![p].d = d]
             /\ CountMiss(p, d)
    BY <1>3 DEF Miss
  <2>2. d \in Drives
    BY <1>0
  <2>3. CASE at' = [at EXCEPT ![p].todo = @ \ {d}] /\ Refused
    <3>1. /\ [at[p] EXCEPT !.todo = @ \ {d}] \in At
          /\ [at[p] EXCEPT !.todo = @ \ {d}].pc = "miss"
      BY <1>0, <1>3 DEF Miss, At
    <3>2. at' = [at EXCEPT ![p] = [at[p] EXCEPT !.todo = @ \ {d}]]
      BY <1>0, <2>3 DEF At
    <3>3. at' \in [Procs -> At] /\ DriveInHand'
      BY <3>1, <3>2, AtTyped
    <3>4. QED
      BY <1>3, <2>3, <3>3 DEF Miss, TypeOK
  <2>4. CASE /\ at' = [at EXCEPT ![p].todo = @ \ {d}, ![p].pc = "drop", ![p].d = d]
             /\ CountMiss(p, d)
    <3>1. /\ [at[p] EXCEPT !.todo = @ \ {d}, !.pc = "drop", !.d = d] \in At
          /\ [at[p] EXCEPT !.todo = @ \ {d}, !.pc = "drop", !.d = d].d = d
      BY <1>0, <2>2 DEF At, Pcs
    <3>2. at' = [at EXCEPT ![p] = [at[p] EXCEPT !.todo = @ \ {d}, !.pc = "drop", !.d = d]]
      BY <1>0, <2>4 DEF At
    <3>3. at' \in [Procs -> At] /\ DriveInHand'
      BY <2>2, <3>1, <3>2, AtTyped
    <3>4. QED
      BY <1>3, <2>2, <2>4, <3>3, CountMissTyped DEF Miss, TypeOK
  <2>5. QED
    BY <2>1, <2>3, <2>4
<1>4. CASE Drop(p)
  <2>1. at[p].d \in Drives
    BY <1>4 DEF Drop, DriveInHand
  <2>2. /\ [at[p] EXCEPT !.pc = "miss", !.d = None] \in At
        /\ [at[p] EXCEPT !.pc = "miss", !.d = None].pc = "miss"
    BY <1>0 DEF At, Pcs
  <2>3. at' = [at EXCEPT ![p] = [at[p] EXCEPT !.pc = "miss", !.d = None]]
    BY <1>0, <1>4 DEF Drop, At
  <2>4. at' \in [Procs -> At] /\ DriveInHand'
    BY <2>2, <2>3, AtTyped
  <2>5. QED
    BY <1>4, <2>1, <2>4, ForgetTyped DEF Drop, TypeOK
<1>5. QED
  BY <1>1, <1>2, <1>3, <1>4 DEF Keeps

LEMMA FreshTyped ==
  ASSUME Typed, Fresh
  PROVE  /\ note' \in Words /\ last' \in Words /\ wants' \in Drives \cup {None}
         /\ changed' \in BOOLEAN /\ first' \in BOOLEAN /\ asked' \in BOOLEAN
         /\ stop' \in BOOLEAN /\ box' \in Drives \cup {None} /\ busy' \in BOOLEAN
         /\ road' \in Roads /\ owed' = {}
BY DEF Fresh, Words, Roads

LEMMA ThreadTyped ==
  ASSUME Typed, Tell \/ Ask \/ Sleep
  PROVE  Typed'
<1> USE WatchAssumption DEF Typed, BoxInHand, Reads, Refused, world, table, ghosts, thread, report, window
<1> DEFINE w == "window"
<1>0. w \in Procs /\ at[w] \in At
  BY DEF Procs, TypeOK
<1>1. CASE Tell
  <2>1. CASE FirstPass
    <3>1. /\ [at[w] EXCEPT !.pc = "keep", !.todo = up, !.list = up] \in At
          /\ [at[w] EXCEPT !.pc = "keep", !.todo = up, !.list = up].pc = "keep"
      BY <1>0 DEF At, Pcs, TypeOK
    <3>2. at' = [at EXCEPT ![w] = [at[w] EXCEPT !.pc = "keep", !.todo = up, !.list = up]]
      BY <1>0, <1>1, <2>1 DEF Tell, At
    <3>3. at' \in [Procs -> At] /\ DriveInHand'
      BY <1>0, <3>1, <3>2, AtTyped
    <3>4. QED
      BY <1>1, <3>3 DEF Tell, TypeOK
  <2>2. CASE ~FirstPass
    <3>1. at' \in [Procs -> At] /\ DriveInHand'
      BY <1>0, <1>1, <2>2, PcTyped DEF Tell, Pcs
    <3>2. QED
      BY <1>1, <3>1 DEF Tell, TypeOK
  <2>3. QED
    BY <2>1, <2>2
<1>2. CASE Ask
  <2>1. [Off EXCEPT !.pc = "sleep"] \in At /\ [Off EXCEPT !.pc = "sleep"].pc = "sleep"
    BY DEF Off, At, Pcs, Words
  <2>2. at' \in [Procs -> At] /\ DriveInHand'
    BY <1>0, <1>2, <2>1, AtTyped DEF Ask
  <2>3. wants' \in Drives \cup {None} /\ asked' \in BOOLEAN
    BY <1>2 DEF Ask, Question, Wanting, TypeOK
  <2>4. at[w].word \in Words
    BY <1>0 DEF At
  <2>5. note' \in Words /\ last' \in Words /\ changed' \in BOOLEAN
    BY <1>2, <2>4 DEF Ask, News, TypeOK
  <2>6. QED
    BY <1>2, <2>2, <2>3, <2>5 DEF Ask, TypeOK
<1>3. CASE Sleep
  <2>1. at' \in [Procs -> At] /\ DriveInHand'
    BY <1>0, <1>3, PcTyped DEF Sleep, Pcs
  <2>2. QED
    BY <1>3, <2>1 DEF Sleep, TypeOK
<1>4. QED
  BY <1>1, <1>2, <1>3

LEMMA WindowTyped ==
  ASSUME Typed, Person \/ Fetch \/ Wait
  PROVE  Typed'
<1> USE WatchAssumption DEF Typed, BoxInHand, world, table, ghosts, thread, report, window
<1>1. CASE Start
  <2>1. at' \in [Procs -> At] /\ DriveInHand'
    BY <1>1, PcTyped DEF Start, Pcs, Procs
  <2>2. QED
    BY <1>1, <2>1, FreshTyped DEF Start, TypeOK
<1>2. CASE Work
  BY <1>2 DEF Work, TypeOK, DriveInHand
<1>3. CASE TurnDown
  <2>1. box \in Drives
    BY <1>3 DEF TurnDown, TypeOK
  <2>2. QED
    BY <1>3, <2>1, DeclineTyped DEF TurnDown, TypeOK, DriveInHand
<1>4. CASE Apply
  BY <1>4 DEF Apply, TypeOK, DriveInHand
<1>5. CASE Quit
  BY <1>5 DEF Quit, TypeOK, DriveInHand
<1>6. CASE Poll
  BY <1>6 DEF Poll, TypeOK, DriveInHand
<1>7. CASE Take
  BY <1>7 DEF Take, TypeOK, DriveInHand, Words
<1>8. CASE PutUp
  BY <1>8 DEF PutUp, TypeOK, DriveInHand
<1>9. CASE Join
  BY <1>9, FreshTyped DEF Join, TypeOK, DriveInHand
<1>10. QED
  BY <1>1, <1>2, <1>3, <1>4, <1>5, <1>6, <1>7, <1>8, <1>9 DEF Person, Fetch, Wait

LEMMA AroundTyped ==
  ASSUME Typed, Command \/ World \/ \E p \in Procs : Crash(p)
  PROVE  Typed'
<1> USE WatchAssumption DEF Typed, BoxInHand, world, table, ghosts, thread, report, window
<1>1. CASE Command
  <2>1. /\ [Off EXCEPT !.pc = "keep", !.todo = up, !.list = up] \in At
        /\ [Off EXCEPT !.pc = "keep", !.todo = up, !.list = up].pc = "keep"
    BY DEF Off, At, Pcs, Words, TypeOK
  <2>2. at' \in [Procs -> At] /\ DriveInHand'
    BY <1>1, <2>1, AtTyped DEF Command, Procs
  <2>3. QED
    BY <1>1, <2>2 DEF Command, Reads, Refused, TypeOK
<1>2. CASE World
  BY <1>2 DEF World, TypeOK, DriveInHand
<1>3. ASSUME NEW p \in Procs, Crash(p)
      PROVE  Typed'
  <2>1. Off \in At /\ Off.pc = "off"
    BY DEF Off, At, Pcs, Words
  <2>2. at' \in [Procs -> At] /\ DriveInHand'
    BY <1>3, <2>1, AtTyped DEF Crash
  <2>3. QED
    BY <1>3, <2>2, FreshTyped DEF Crash, TypeOK
<1>4. QED
  BY <1>1, <1>2, <1>3

LEMMA TypesKept == Typed /\ [Next]_vars => Typed'
<1> SUFFICES ASSUME Typed, [Next]_vars
             PROVE  Typed'
  OBVIOUS
<1>1. CASE UNCHANGED vars
  BY <1>1 DEF vars, world, table, ghosts, thread, report, window, Typed, TypeOK, DriveInHand, BoxInHand
<1>2. CASE Next
  BY <1>2, PassesTyped, KeepsTyped, ThreadTyped, WindowTyped, AroundTyped
     DEF Next, Thread, Line, Procs
<1>3. QED
  BY <1>1, <1>2

-----------------------------------------------------------------------------
\* What the statements leave of a question.
LEMMA PassesAsk ==
  ASSUME IInv, NEW p \in Procs, Passes(p) \/ Keeps(p)
  PROVE  OneQuestion'
<1>1. declined' \subseteq declined
  BY DEF Passes, Pass, Restore, Restored, Write, Unlock, Keeps, Keep, Recall, Miss, Drop, Returns,
         Remember, CountMiss, Forget, Refused, table, ghosts
<1>2. UNCHANGED <<wants, box, asked>>
  BY DEF Passes, Pass, Restore, Restored, Write, Unlock, Keeps, Keep, Recall, Miss, Drop, Reads,
         thread, report, window
<1>3. QED
  BY <1>1, <1>2 DEF IInv, OneQuestion

LEMMA QuestionKept == IInv /\ [Next]_vars => OneQuestion'
<1> SUFFICES ASSUME IInv, [Next]_vars
             PROVE  OneQuestion'
  OBVIOUS
<1> USE WatchAssumption
    DEF Refused, Reads, world, table, ghosts, thread, report, window
<1>0. /\ OneQuestion /\ declined \subseteq Drives
      /\ wants \in Drives \cup {None} /\ box \in Drives \cup {None}
  BY DEF IInv, Typed, TypeOK
<1>1. ASSUME NEW p \in Procs, Passes(p) \/ Keeps(p)
      PROVE  OneQuestion'
  BY <1>1, PassesAsk
<1>2. CASE Tell \/ Sleep
  BY <1>0, <1>2 DEF Tell, Sleep, OneQuestion
<1>3. CASE Ask
  BY <1>0, <1>3 DEF Ask, Question, Wanting, OneQuestion
<1>4. CASE Start
  BY <1>0, <1>4 DEF Start, Fresh, OneQuestion
<1>5. CASE Work
  BY <1>0, <1>5 DEF Work, OneQuestion
<1>6. CASE TurnDown
  BY <1>0, <1>6 DEF TurnDown, Decline, OneQuestion
<1>7. CASE Apply
  BY <1>0, <1>7 DEF Apply, OneQuestion
<1>8. CASE Quit
  BY <1>0, <1>8 DEF Quit, OneQuestion
<1>9. CASE Poll
  BY <1>0, <1>9 DEF Poll, OneQuestion
<1>10. CASE Take
  BY <1>0, <1>10 DEF Take, OneQuestion
<1>11. CASE PutUp
  BY <1>0, <1>11 DEF PutUp, OneQuestion
<1>12. CASE Join
  BY <1>0, <1>12 DEF Join, Fresh, OneQuestion
<1>13. CASE Command \/ World
  BY <1>0, <1>13 DEF Command, World, OneQuestion
<1>14. ASSUME NEW p \in Procs, Crash(p)
       PROVE  OneQuestion'
  BY <1>0, <1>14 DEF Crash, Fresh, OneQuestion
<1>15. CASE UNCHANGED vars
  BY <1>0, <1>15 DEF vars, OneQuestion
<1>16. QED
  BY <1>1, <1>2, <1>3, <1>4, <1>5, <1>6, <1>7, <1>8, <1>9, <1>10, <1>11, <1>12, <1>13,
     <1>14, <1>15 DEF Next, Thread, Person, Fetch, Wait, Line, Procs

-----------------------------------------------------------------------------
\* What the command does is no news to the window.
LEMMA CommandTellsNot ==
  ASSUME IInv, Passes("command") \/ Keeps("command")
  PROVE  NewsInHand'
<1>0. at \in [Procs -> At] /\ "window" \in Procs
  BY DEF IInv, Typed, TypeOK, Procs
<1>1. at'["window"] = at["window"]
  <2>1. CASE Pass("command") \/ Write("command") \/ Unlock("command")
    BY <1>0, <2>1 DEF Pass, Write, Unlock, Returns
  <2>2. CASE Restore("command")
    BY <1>0, <2>2 DEF Restore, Restored
  <2>3. CASE Keeps("command")
    BY <1>0, <2>3 DEF Keeps, Keep, Recall, Miss, Drop, Returns
  <2>4. QED
    BY <2>1, <2>2, <2>3 DEF Passes
<1>2. UNCHANGED <<note, wants, changed, win, owed>>
  BY DEF Passes, Pass, Restore, Restored, Write, Unlock, Keeps, Keep, Recall, Miss, Drop, Reads,
         thread, report, window
<1>3. QED
  BY <1>1, <1>2 DEF IInv, NewsInHand, OnItsWay, NotTold

\* A pass of the window's thread has its news in hand.
LEMMA PassTells ==
  ASSUME IInv, Passes("window")
  PROVE  NewsInHand'
<1> DEFINE w == "window"
<1>0. /\ w \in Procs /\ at[w] \in At /\ w # "command" /\ NewsInHand
      /\ at \in [Procs -> At]
  BY DEF Procs, IInv, Typed, TypeOK
<1>1. UNCHANGED <<note, wants, changed, win>>
  BY DEF Passes, Pass, Restore, Restored, Write, Unlock, report, window
<1>2. CASE Pass(w)
  <2>1. ~NotTold /\ UNCHANGED owed
    BY <1>0, <1>2 DEF Pass, NotTold
  <2>2. QED
    BY <1>0, <1>1, <2>1 DEF NewsInHand, OnItsWay
<1>3. CASE Restore(w)
  <2>1. PICK d \in at[w].todo, back, warns \in BOOLEAN : Restored(w, d, back, warns)
    BY <1>3 DEF Restore
  <2>2. /\ at'[w].word = Said(w, d, back, warns) /\ NotTold'
        /\ owed' = IF back THEN owed \cup {d} ELSE owed
    BY <1>0, <2>1 DEF Restored, At, NotTold
  <2>3. NotTold
    BY <1>3 DEF Restore, Restored, NotTold
  <2>4. back \/ at[w].word = "back" => at'[w].word = "back"
    BY <1>0, <2>2, WatchAssumption DEF Said
  <2>5. QED
    BY <1>0, <1>1, <2>2, <2>3, <2>4 DEF NewsInHand, OnItsWay
<1>4. CASE Write(w)
  <2>1. NotTold /\ NotTold' /\ at'[w].word = at[w].word /\ UNCHANGED owed
    BY <1>0, <1>4 DEF Write, NotTold, At
  <2>2. QED
    BY <1>0, <1>1, <2>1 DEF NewsInHand, OnItsWay
<1>5. CASE Unlock(w)
  <2>1. at' = [at EXCEPT ![w].pc = "tell"] /\ at[w].pc = "restore" /\ UNCHANGED owed
    BY <1>5 DEF Unlock, Returns
  <2>2. NotTold /\ NotTold' /\ at'[w].word = at[w].word
    BY <1>0, <2>1 DEF NotTold, At
  <2>3. QED
    BY <1>0, <1>1, <2>1, <2>2 DEF NewsInHand, OnItsWay
<1>6. QED
  BY <1>2, <1>3, <1>4, <1>5 DEF Passes

LEMMA ThreadTells ==
  ASSUME IInv, Keeps("window") \/ Tell \/ Ask \/ Sleep
  PROVE  NewsInHand'
<1> DEFINE w == "window"
<1>0. /\ w \in Procs /\ at[w] \in At /\ NewsInHand /\ at \in [Procs -> At]
  BY DEF Procs, IInv, Typed, TypeOK
<1>1. CASE Keeps(w)
  <2>1. at'[w].word = at[w].word /\ NotTold /\ NotTold'
    <3>1. CASE Keep(w)
      BY <1>0, <3>1 DEF Keep, NotTold, At
    <3>2. CASE Recall(w)
      BY <1>0, <3>2 DEF Recall, NotTold, At
    <3>3. CASE Miss(w)
      BY <1>0, <3>3 DEF Miss, NotTold, At
    <3>4. CASE Drop(w)
      BY <1>0, <3>4 DEF Drop, NotTold, At
    <3>5. QED
      BY <1>1, <3>1, <3>2, <3>3, <3>4 DEF Keeps
  <2>2. UNCHANGED <<note, wants, changed, win, owed>>
    BY <1>1 DEF Keeps, Keep, Recall, Miss, Drop, Reads, report, window
  <2>3. QED
    BY <1>0, <2>1, <2>2 DEF NewsInHand, OnItsWay
<1>2. CASE Tell
  <2>1. at'[w].word = at[w].word /\ NotTold /\ NotTold'
    BY <1>0, <1>2 DEF Tell, NotTold, At
  <2>2. UNCHANGED <<note, wants, changed, win, owed>>
    BY <1>2 DEF Tell, Reads, report, window
  <2>3. QED
    BY <1>0, <2>1, <2>2 DEF NewsInHand, OnItsWay
<1>3. CASE Ask
  <2>1. at[w].pc = "miss" /\ UNCHANGED <<owed, win>>
    BY <1>3 DEF Ask, KeptUp, window
  <2>2. note' # None => note' = note \/ changed'
    BY <1>3 DEF Ask, News
  <2>3. wants' # None => wants' = wants \/ changed'
    BY <1>3 DEF Ask, News, Question
  <2>4. at[w].word = "back" \/ changed => changed'
    BY <1>3 DEF Ask, News
  <2>5. QED
    BY <1>0, <2>1, <2>2, <2>3, <2>4 DEF NewsInHand, OnItsWay
<1>4. CASE Sleep
  <2>1. ~NotTold /\ UNCHANGED <<note, wants, changed, win, owed>>
    BY <1>4 DEF Sleep, NotTold, Reads, report, window
  <2>2. QED
    BY <1>0, <2>1 DEF NewsInHand, OnItsWay
<1>5. QED
  BY <1>1, <1>2, <1>3, <1>4

LEMMA NewsKept == IInv /\ [Next]_vars => NewsInHand'
<1> SUFFICES ASSUME IInv, [Next]_vars
             PROVE  NewsInHand'
  OBVIOUS
<1> USE DEF Refused, Reads, world, table, ghosts, thread, report, window, OnItsWay, NotTold
<1>0. NewsInHand /\ OneQuestion /\ at \in [Procs -> At]
  BY DEF IInv, Typed, TypeOK
<1>1. CASE Start \/ Join
  BY <1>0, <1>1 DEF Start, Join, Fresh, NewsInHand
<1>2. CASE Work \/ TurnDown \/ Apply \/ Quit \/ PutUp
  BY <1>0, <1>2 DEF Work, TurnDown, Apply, Quit, PutUp, NewsInHand
<1>3. CASE Poll
  BY <1>3 DEF Poll, NewsInHand
<1>4. CASE Take
  BY <1>0, <1>4 DEF Take, NewsInHand, OneQuestion
<1>5. CASE Command
  BY <1>0, <1>5 DEF Command, NewsInHand, Procs
<1>6. CASE World
  BY <1>0, <1>6 DEF World, NewsInHand
<1>7. ASSUME NEW p \in Procs, Crash(p)
      PROVE  NewsInHand'
  <2>1. CASE p = "window"
    BY <1>7, <2>1 DEF Crash, NewsInHand
  <2>2. CASE p # "window"
    BY <1>0, <1>7, <2>2 DEF Crash, NewsInHand, Procs
  <2>3. QED
    BY <2>1, <2>2
<1>8. CASE UNCHANGED vars
  BY <1>0, <1>8 DEF vars, NewsInHand
<1>9. QED
  BY <1>1, <1>2, <1>3, <1>4, <1>5, <1>6, <1>7, <1>8, CommandTellsNot, PassTells, ThreadTells
     DEF Next, Thread, Person, Fetch, Wait, Line

-----------------------------------------------------------------------------
\* What a statement about drive d does to the numbers, whoever runs it.
Fewer(d) ==
  /\ misses' = [misses EXCEPT ![d] = 0] /\ runs' = [runs EXCEPT ![d] = 0]
  /\ \A p \in Procs : counted'[p] \subseteq counted[p]

SameNumbers == UNCHANGED <<misses, runs, counted>>

LEMMA Numbers ==
  ASSUME Typed, NEW d \in Drives, Remember(d) \/ Forget(d) \/ Decline(d) \/ Refused
  PROVE  Fewer(d) \/ SameNumbers
BY DEF Typed, TypeOK, Remember, Forget, Decline, Refused, Anew, Fewer, SameNumbers,
       table, ghosts

\* The numbers keep to each other, and no row is counted twice.
LEMMA FewerKeeps ==
  ASSUME IInv, NEW d \in Drives, Fewer(d) \/ SameNumbers
  PROVE  /\ \A e \in Drives : misses'[e] <= runs'[e]
         /\ \A p \in Procs : counted'[p] \subseteq counted[p]
BY DEF IInv, Typed, TypeOK, Counts, Fewer, SameNumbers

\* What stays as it was of the counts of process q.
SameAt(q) == at'[q] = at[q] /\ counted'[q] \subseteq counted[q]

\* A run of the command, and one of the window, start at nothing.
StartsAtNone(p) ==
  /\ p = "command" /\ at[p].pc = "off" => counted[p] = {}
  /\ p = "window" /\ first /\ ~Locked => counted[p] = {}
  /\ p = "window" /\ win = "closed" => counted[p] = {} /\ at[p].pc = "off"

LEMMA CountsOf ==
  ASSUME IInv, NEW p \in Procs,
         \A e \in Drives : misses'[e] <= runs'[e],
         CountedOnce(p)', StartsAtNone(p)', \A q \in Procs \ {p} : SameAt(q),
         p = "command" => UNCHANGED <<first, win>>
  PROVE  Counts'
<1>1. \A q \in Procs \ {p} : CountedOnce(q)'
  BY DEF SameAt, CountedOnce, IInv, Counts
<1>2. CASE p = "window"
  BY <1>1, <1>2 DEF Counts, IInv, SameAt, StartsAtNone, Procs
<1>3. CASE p = "command"
  BY <1>1, <1>3 DEF Counts, IInv, SameAt, StartsAtNone, Procs, Locked
<1>4. QED
  BY <1>2, <1>3 DEF Procs

\* It returns with nothing to count.
LEMMA ReturnsCount ==
  ASSUME IInv, NEW p \in Procs, Returns(p), UNCHANGED <<first, win>>,
         p = "window" => /\ at[p].todo = {} /\ win # "closed"
                         /\ first => counted[p] = {}
  PROVE  CountedOnce(p)' /\ StartsAtNone(p)'
<1>0. /\ at[p] \in At /\ at \in [Procs -> At] /\ counted \in [Procs -> SUBSET Drives]
  BY DEF IInv, Typed, TypeOK
<1>1. CASE p = "window"
  <2>1. /\ at'[p].pc = "tell" /\ at'[p].todo = at[p].todo /\ UNCHANGED counted
    BY <1>0, <1>1 DEF Returns, At
  <2>2. QED
    BY <1>1, <2>1 DEF CountedOnce, StartsAtNone
<1>2. CASE p # "window"
  <2>1. at'[p] = Off /\ counted'[p] = {}
    BY <1>0, <1>2 DEF Returns
  <2>2. QED
    BY <1>2, <2>1 DEF CountedOnce, StartsAtNone, Off
<1>3. QED
  BY <1>1, <1>2

LEMMA PassesCount ==
  ASSUME IInv, NEW p \in Procs, Passes(p)
  PROVE  Counts'
<1> USE DEF table, ghosts, thread, report, window
<1>0. /\ at[p] \in At /\ at \in [Procs -> At] /\ counted \in [Procs -> SUBSET Drives]
      /\ Counts /\ Typed /\ CountedOnce(p)
  BY DEF IInv, Typed, TypeOK, Counts
<1>1. UNCHANGED <<first, win>>
  BY DEF Passes, Pass, Restore, Restored, Write, Unlock
<1>2. \A q \in Procs \ {p} : SameAt(q)
  <2>1. CASE Pass(p)
    BY <1>0, <2>1 DEF Pass, Returns, SameAt
  <2>2. CASE Restore(p)
    BY <1>0, <2>2 DEF Restore, Restored, SameAt
  <2>3. CASE Write(p)
    <3>1. at[p].d \in Drives /\ Remember(at[p].d)
      BY <1>0, <2>3 DEF Write, Typed, DriveInHand
    <3>2. \A q \in Procs : counted'[q] \subseteq counted[q]
      BY <1>0, <3>1, Numbers, FewerKeeps
    <3>3. QED
      BY <1>0, <2>3, <3>2 DEF Write, SameAt
  <2>4. CASE Unlock(p)
    BY <1>0, <2>4 DEF Unlock, Returns, SameAt
  <2>5. QED
    BY <2>1, <2>2, <2>3, <2>4 DEF Passes
<1>3. \A e \in Drives : misses'[e] <= runs'[e]
  <2>1. CASE Write(p)
    <3>1. at[p].d \in Drives /\ Remember(at[p].d)
      BY <1>0, <2>1 DEF Write, Typed, DriveInHand
    <3>2. QED
      BY <1>0, <3>1, Numbers, FewerKeeps
  <2>2. CASE ~Write(p)
    BY <1>0, <2>2 DEF Passes, Pass, Restore, Restored, Unlock, Counts
  <2>3. QED
    BY <2>1, <2>2
<1>4. CountedOnce(p)' /\ StartsAtNone(p)'
  <2>0. p = "window" /\ at[p].pc \in {"pass", "restore", "write"} =>
          (first => counted[p] = {}) /\ win # "closed"
    BY <1>0 DEF Counts, Locked
  <2>1. CASE Pass(p)
    <3>1. CASE lock # None
      <4>1. Returns(p) /\ (at[p].todo = {} \/ p = "command")
        BY <1>0, <2>1, <3>1 DEF Pass, CountedOnce
      <4>2. QED
        BY <1>0, <1>1, <2>0, <2>1, <3>1, <4>1, ReturnsCount DEF Pass
    <3>2. CASE lock = None
      <4>1. at'[p].pc = "restore" /\ UNCHANGED counted
        BY <1>0, <2>1, <3>2 DEF Pass, Off
      <4>2. p = "window" => at[p].pc = "pass"
        BY <2>1 DEF Pass
      <4>3. QED
        BY <1>1, <2>0, <4>1, <4>2 DEF CountedOnce, StartsAtNone, Locked
    <3>3. QED
      BY <3>1, <3>2
  <2>2. CASE Restore(p)
    <3>1. at'[p].pc \in {"restore", "write"} /\ UNCHANGED counted
      BY <1>0, <2>2 DEF Restore, Restored, At
    <3>2. QED
      BY <1>1, <2>0, <2>2, <3>1 DEF Restore, Restored, CountedOnce, StartsAtNone, Locked
  <2>3. CASE Write(p)
    <3>1. at[p].d \in Drives /\ Remember(at[p].d)
      BY <1>0, <2>3 DEF Write, Typed, DriveInHand
    <3>2. counted'[p] \subseteq counted[p]
      BY <1>0, <3>1, Numbers, FewerKeeps
    <3>3. at'[p].pc = "restore" /\ at[p].pc = "write"
      BY <1>0, <2>3 DEF Write, At
    <3>4. QED
      BY <1>1, <2>0, <3>2, <3>3 DEF CountedOnce, StartsAtNone, Locked
  <2>4. CASE Unlock(p)
    BY <1>0, <1>1, <2>0, <2>4, ReturnsCount DEF Unlock
  <2>5. QED
    BY <2>1, <2>2, <2>3, <2>4 DEF Passes
<1>5. QED
  BY <1>1, <1>2, <1>3, <1>4, CountsOf

LEMMA KeepsCount ==
  ASSUME IInv, NEW p \in Procs, Keeps(p)
  PROVE  Counts'
<1> USE DEF Reads, Refused, table, ghosts, thread, report, window
<1>0. /\ at[p] \in At /\ at \in [Procs -> At] /\ counted \in [Procs -> SUBSET Drives]
      /\ Counts /\ Typed /\ CountedOnce(p)
      /\ at[p].todo \subseteq Drives
  BY DEF IInv, Typed, TypeOK, Counts, At
<1>1. UNCHANGED <<first, win>>
  BY DEF Keeps, Keep, Recall, Miss, Drop
<1>2. p = "window" => win # "closed"
  BY <1>0 DEF Keeps, Keep, Recall, Miss, Drop, Counts
<1>3. CASE Keep(p)
  <2>1. PICK d \in at[p].todo :
          /\ IF d \in up THEN Remember(d) ELSE Refused
          /\ at' = [at EXCEPT ![p].todo = @ \ {d}]
    BY <1>3 DEF Keep
  <2>2. d \in Drives /\ (Remember(d) \/ Refused)
    BY <1>0, <2>1
  <2>3. /\ \A e \in Drives : misses'[e] <= runs'[e]
        /\ \A q \in Procs : counted'[q] \subseteq counted[q]
    BY <1>0, <2>2, Numbers, FewerKeeps
  <2>4. at'[p].pc = "keep" /\ \A q \in Procs \ {p} : at'[q] = at[q]
    BY <1>0, <1>3, <2>1 DEF Keep, At
  <2>5. counted[p] = {} /\ counted'[p] = {}
    BY <1>0, <1>3, <2>3 DEF Keep, CountedOnce
  <2>6. CountedOnce(p)' /\ StartsAtNone(p)' /\ \A q \in Procs \ {p} : SameAt(q)
    BY <1>1, <1>2, <2>3, <2>4, <2>5 DEF CountedOnce, StartsAtNone, SameAt
  <2>7. QED
    BY <1>1, <2>3, <2>6, CountsOf
<1>4. CASE Recall(p)
  <2>1. at'[p].pc = "miss" /\ counted[p] = {} /\ UNCHANGED <<counted, misses, runs>>
    BY <1>0, <1>4 DEF Recall, At, CountedOnce
  <2>2. \A q \in Procs \ {p} : at'[q] = at[q]
    BY <1>0, <1>4 DEF Recall
  <2>3. CountedOnce(p)' /\ StartsAtNone(p)' /\ \A q \in Procs \ {p} : SameAt(q)
    BY <1>1, <1>2, <2>1, <2>2 DEF CountedOnce, StartsAtNone, SameAt
  <2>4. QED
    BY <1>0, <1>1, <2>1, <2>3, CountsOf DEF Counts
<1>5. CASE Miss(p)
  <2>1. PICK d \in at[p].todo :
          \/ at' = [at EXCEPT ![p].todo = @ \ {d}] /\ Refused
          \/ /\ at' = [at EXCEPT ![p].todo = @ \ {d}, ![p].pc = "drop", ![p].d = d]
             /\ CountMiss(p, d)
    BY <1>5 DEF Miss
  <2>2. /\ at'[p].pc \in {"miss", "drop"} /\ at'[p].todo = at[p].todo \ {d}
        /\ \A q \in Procs \ {p} : at'[q] = at[q]
    BY <1>0, <1>5, <2>1 DEF Miss, At
  <2>3. d \in Drives /\ d \notin counted[p]
    BY <1>0, <1>5, <2>1 DEF Miss, CountedOnce
  <2>4. \/ UNCHANGED <<counted, misses, runs>>
        \/ /\ misses' = [misses EXCEPT ![d] = OneMore(@)]
           /\ runs' = [runs EXCEPT ![d] = OneMore(@)]
           /\ counted' = [counted EXCEPT ![p] = @ \cup {d}]
    BY <2>1, <2>3 DEF CountMiss
  <2>5. \A e \in Drives : misses'[e] <= runs'[e]
    BY <1>0, <2>3, <2>4, WatchAssumption DEF Typed, TypeOK, Counts, OneMore
  <2>6. counted'[p] \subseteq counted[p] \cup {d}
    BY <1>0, <2>4
  <2>7. CountedOnce(p)' /\ StartsAtNone(p)'
    BY <1>0, <1>1, <1>2, <1>5, <2>2, <2>6 DEF Miss, CountedOnce, StartsAtNone, Locked
  <2>8. \A q \in Procs \ {p} : SameAt(q)
    BY <1>0, <2>2, <2>4 DEF SameAt
  <2>9. QED
    BY <1>1, <2>5, <2>7, <2>8, CountsOf
<1>6. CASE Drop(p)
  <2>1. at[p].d \in Drives /\ Forget(at[p].d)
    BY <1>0, <1>6 DEF Drop, Typed, DriveInHand
  <2>2. /\ \A e \in Drives : misses'[e] <= runs'[e]
        /\ \A q \in Procs : counted'[q] \subseteq counted[q]
    BY <1>0, <2>1, Numbers, FewerKeeps
  <2>3. /\ at'[p].pc = "miss" /\ at'[p].todo = at[p].todo
        /\ \A q \in Procs \ {p} : at'[q] = at[q]
    BY <1>0, <1>6 DEF Drop, At
  <2>4. CountedOnce(p)' /\ StartsAtNone(p)' /\ \A q \in Procs \ {p} : SameAt(q)
    BY <1>0, <1>1, <1>2, <1>6, <2>2, <2>3 DEF Drop, CountedOnce, StartsAtNone, SameAt, Locked
  <2>5. QED
    BY <1>1, <2>2, <2>4, CountsOf
<1>7. QED
  BY <1>3, <1>4, <1>5, <1>6 DEF Keeps

LEMMA ThreadCounts ==
  ASSUME IInv, Tell \/ Ask \/ Sleep
  PROVE  Counts'
<1> USE DEF Reads, Refused, table, ghosts, thread, report, window
<1> DEFINE w == "window"
<1>0. /\ w \in Procs /\ at[w] \in At /\ at \in [Procs -> At]
      /\ counted \in [Procs -> SUBSET Drives] /\ Counts /\ CountedOnce(w)
  BY DEF IInv, Typed, TypeOK, Counts, Procs
<1>1. /\ \A e \in Drives : misses'[e] <= runs'[e]
      /\ \A q \in Procs \ {w} : SameAt(q)
      /\ UNCHANGED <<counted, win>> /\ win # "closed"
  BY <1>0 DEF Tell, Ask, Sleep, SameAt, Counts, KeptUp
<1>2. CountedOnce(w)' /\ StartsAtNone(w)'
  <2>1. CASE Tell
    <3>1. CASE first
      <4>1. counted[w] = {}
        BY <1>0, <2>1, <3>1 DEF Tell, Counts, Locked
      <4>2. at'[w].pc = "keep"
        BY <1>0, <2>1, <3>1 DEF Tell, FirstPass, At
      <4>3. QED
        BY <1>1, <4>1, <4>2 DEF CountedOnce, StartsAtNone
    <3>2. CASE ~first
      <4>1. at'[w].pc = "miss" /\ at'[w].todo = at[w].todo /\ ~first'
        BY <1>0, <2>1, <3>2 DEF Tell, FirstPass, At
      <4>2. at[w].todo = {}
        BY <1>0, <2>1 DEF Tell, CountedOnce
      <4>3. at'[w].todo \cap counted'[w] = {}
        BY <4>1, <4>2
      <4>4. QED
        BY <1>1, <4>1, <4>3 DEF CountedOnce, StartsAtNone, Locked
    <3>3. QED
      BY <3>1, <3>2
  <2>2. CASE Ask
    <3>1. at'[w].pc = "sleep" /\ at'[w].todo = {} /\ ~first'
      BY <1>0, <2>2 DEF Ask, Off
    <3>2. QED
      BY <1>1, <3>1 DEF CountedOnce, StartsAtNone
  <2>3. CASE Sleep
    <3>1. /\ at'[w].pc \in {"off", "pass"} /\ at'[w].todo = {}
          /\ UNCHANGED first /\ ~Locked
      BY <1>0, <2>3 DEF Sleep, At, Locked, CountedOnce
    <3>2. QED
      BY <1>0, <1>1, <3>1 DEF CountedOnce, StartsAtNone, Counts
  <2>4. QED
    BY <2>1, <2>2, <2>3
<1>3. QED
  BY <1>0, <1>1, <1>2, CountsOf

LEMMA CountsKept == IInv /\ [Next]_vars => Counts'
<1> SUFFICES ASSUME IInv, [Next]_vars
             PROVE  Counts'
  OBVIOUS
<1> USE DEF Reads, Refused, world, table, ghosts, thread, report, window
<1>0. /\ at \in [Procs -> At] /\ counted \in [Procs -> SUBSET Drives]
      /\ Counts /\ Typed /\ "window" \in Procs /\ "command" \in Procs
  BY DEF IInv, Typed, TypeOK, Procs
<1>1. CASE Start
  <2>1. /\ counted["window"] = {} /\ at["window"].todo = {}
        /\ at'["window"].pc \in {"pass", "off"} /\ at'["window"].todo = at["window"].todo
        /\ \A q \in Procs \ {"window"} : at'[q] = at[q]
    BY <1>0, <1>1 DEF Start, Counts, CountedOnce, At
  <2>2. CountedOnce("window")' /\ StartsAtNone("window")'
    BY <1>1, <2>1 DEF Start, CountedOnce, StartsAtNone
  <2>3. QED
    BY <1>0, <1>1, <2>1, <2>2, CountsOf DEF Start, Counts, SameAt
<1>2. CASE Work \/ Apply \/ Quit \/ Poll \/ Take \/ PutUp \/ World
  <2>1. UNCHANGED <<misses, runs, counted, at, first>> /\ (win' = "closed" <=> win = "closed")
    BY <1>2 DEF Work, Apply, Quit, Poll, Take, PutUp, World
  <2>2. QED
    BY <1>0, <2>1 DEF Counts, CountedOnce, Locked
<1>3. CASE TurnDown
  <2>1. UNCHANGED <<misses, runs, counted, at, first, win>>
    BY <1>3 DEF TurnDown, Decline
  <2>2. QED
    BY <1>0, <2>1 DEF Counts, CountedOnce, Locked
<1>4. CASE Join
  <2>1. /\ at["window"].pc = "off" /\ counted'["window"] = {}
        /\ \A q \in Procs \ {"window"} : SameAt(q)
        /\ UNCHANGED <<misses, runs, at>>
    BY <1>0, <1>4 DEF Join, SameAt
  <2>2. CountedOnce("window")' /\ StartsAtNone("window")'
    BY <1>0, <2>1 DEF CountedOnce, StartsAtNone, Counts
  <2>3. QED
    BY <1>0, <2>1, <2>2, CountsOf DEF Counts
<1>5. CASE Command
  <2>1. /\ counted["command"] = {} /\ at'["command"].pc = "keep"
        /\ \A q \in Procs \ {"command"} : SameAt(q)
        /\ UNCHANGED <<misses, runs, counted, first, win>>
    BY <1>0, <1>5 DEF Command, Counts, SameAt, Off
  <2>2. CountedOnce("command")' /\ StartsAtNone("command")'
    BY <2>1 DEF CountedOnce, StartsAtNone
  <2>3. QED
    BY <1>0, <2>1, <2>2, CountsOf DEF Counts
<1>6. ASSUME NEW p \in Procs, Crash(p)
      PROVE  Counts'
  <2>1. /\ at'[p] = Off /\ counted'[p] = {}
        /\ \A q \in Procs \ {p} : SameAt(q)
        /\ UNCHANGED <<misses, runs>>
        /\ p = "command" => UNCHANGED <<first, win>>
    BY <1>0, <1>6 DEF Crash, SameAt
  <2>2. CountedOnce(p)' /\ StartsAtNone(p)'
    BY <2>1 DEF CountedOnce, StartsAtNone, Off
  <2>3. QED
    BY <1>0, <2>1, <2>2, CountsOf DEF Counts
<1>7. CASE UNCHANGED vars
  BY <1>0, <1>7 DEF vars, Counts, CountedOnce, Locked
<1>8. QED
  BY <1>1, <1>2, <1>3, <1>4, <1>5, <1>6, <1>7, PassesCount, KeepsCount, ThreadCounts
     DEF Next, Thread, Person, Fetch, Wait, Line, Procs

-----------------------------------------------------------------------------
LEMMA InvariantKept == IInv /\ [Next]_vars => IInv'
BY TypesKept, QuestionKept, NewsKept, CountsKept DEF IInv

LEMMA Invariant == Spec => []IInv
<1>1. Init => IInv
  BY InitHolds
<1>2. IInv /\ [Next]_vars => IInv'
  BY InvariantKept
<1>3. QED
  BY <1>1, <1>2, PTL DEF Spec

\* Every variable keeps to its type, and no row is ever of no drive
\* (ui_mount.c, mount_store.c).
THEOREM WatchTypeCorrect == Spec => []TypeOK
<1>1. IInv => TypeOK
  BY DEF IInv, Typed
<1>2. QED
  BY <1>1, Invariant, PTL

\* Whatever the two processes do between each other's statements, a word, a
\* question or a drive put back is flagged, on its way, or yet to be told
\* (ui_mount.c:60-93, 145-169).
THEOREM NoReportIsLost == Spec => []ReportStands
<1>1. IInv => ReportStands
  BY DEF IInv, NewsInHand, ReportStands
<1>2. QED
  BY <1>1, Invariant, PTL

\* A drive that was turned down is not asked about while its row is there
\* (mount_fstab.c:263-266, ui.c:693-698).
THEOREM TurnedDownIsLeft == Spec => []NoMeansNo
<1>1. IInv => NoMeansNo
  BY DEF IInv, OneQuestion, NoMeansNo
<1>2. QED
  BY <1>1, Invariant, PTL

\* A row goes, and a no with it, only by the statement that forgets.
LEMMA OnlyForgotten ==
  ASSUME IInv, [Next]_vars, NEW d \in Drives,
         d \in rows \ rows' \/ d \in declined \ declined'
  PROVE  \E p \in Procs : at[p].d = d /\ Forget(d)
<1> USE DEF Reads, Refused, world, table, ghosts, thread, report, window
<1>1. ~(UNCHANGED <<rows, declined>>)
  OBVIOUS
<1>2. ~(UNCHANGED vars)
  BY <1>1 DEF vars
<1>3. ~(Tell \/ Ask \/ Sleep \/ Person \/ Fetch \/ Wait)
  BY <1>1 DEF Tell, Ask, Sleep, Person, Fetch, Wait, Start, Work, TurnDown, Apply, Quit,
              Poll, Take, PutUp, Join, Decline
<1>4. ~(Command \/ World \/ \E p \in Procs : Crash(p))
  BY <1>1 DEF Command, World, Crash
<1>5. PICK p \in Procs : Passes(p) \/ Keeps(p)
  BY <1>2, <1>3, <1>4 DEF Next, Thread, Line, Procs
<1>6. ~(Passes(p) \/ Keep(p) \/ Recall(p) \/ Miss(p))
  BY <1>1 DEF Passes, Pass, Restore, Restored, Write, Unlock, Keep, Recall, Miss, Remember, CountMiss
<1>7. QED
  BY <1>1, <1>5, <1>6 DEF Keeps, Drop, Forget

\* The statements of two processes fall between each other in any way, and
\* still a row takes MissLimit runs in a row that missed its drive to go
\* (mount_store.c:100-104, 260-274, ui_mount.c:62-67).
THEOREM ForgottenOnlyInTime == Spec => ForgottenInTime
<1>1. ASSUME IInv, [Next]_vars
      PROVE  [\A d \in Drives : d \in rows \ rows' \/ d \in declined \ declined'
                               => runs[d] = MissLimit]_vars
  <2>1. SUFFICES ASSUME NEW d \in Drives,
                        d \in rows \ rows' \/ d \in declined \ declined'
                 PROVE  runs[d] = MissLimit
    OBVIOUS
  <2>2. Forget(d)
    BY <1>1, <2>1, OnlyForgotten
  <2>3. misses[d] = MissLimit
    BY <2>1, <2>2 DEF Forget, Refused, table
  <2>4. QED
    BY <1>1, <2>3, WatchAssumption DEF IInv, Typed, TypeOK, Counts
<1>2. QED
  BY <1>1, Invariant, PTL DEF Spec, ForgottenInTime
=============================================================================
