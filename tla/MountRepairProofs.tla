------------------------- MODULE MountRepairProofs -------------------------
(***************************************************************************)
(* Proofs about MountRepair, for any number of windows and commands and    *)
(* with no bound on what is cut off, killed, plugged or mounted by hand.   *)
(***************************************************************************)
EXTENDS MountRepair, FiniteSetTheorems, SequenceTheorems, TLAPS

-----------------------------------------------------------------------------
(* What always holds, one named part each. *)

\* Where a process found the drive dead and goes to take it down.
ToTakeDown(p) == \/ at[p].pc \in {"holders", "down"}
                 \/ at[p].pc = "road" /\ at[p].saw = "STALE"

\* Where it takes the place for free and goes to mount there.
ToMount(p) == \/ at[p].pc \in {"line", "place", "mkdir", "mount"}
              \/ at[p].pc = "road" /\ at[p].saw # "STALE"

\* A process at work that holds no lock is a command on its second round.
AtWorkLocked ==
  \A p \in Procs : \/ at[p].pc \in {"idle", "done", "killed"} \/ at[p].locked
                   \/ p \in Commands

\* Which way a process goes follows from what it saw.
SawIsKept ==
  \A p \in Procs : /\ at[p].pc \in {"line", "seen"} => at[p].saw = "ABSENT"
                   /\ at[p].pc \in {"holders", "down", "again"} => at[p].saw = "STALE"

\* Only a program that strayed is late.
LateStrayed == ~strayed => late = {}

\* Nothing dead lies over a drive that answers.
LiveOnTop == \A i, j \in DOMAIN stack :
               i < j /\ stack[i].is = "live" => stack[j].is # "dead"

\* What was mounted by hand lies on top, and nobody gets past looking at it.
HandOnTop ==
  (\E i \in DOMAIN stack : stack[i].is = "other") =>
    /\ Top.is = "other" /\ late = {}
    /\ \A p \in Procs : at[p].pc \in {"idle", "look", "over", "done", "killed"}

\* Under the lock, what was found dead is still dead.
StillDead == Guarded => \A p \in Procs : ToTakeDown(p) => Dead

\* ... and what is to be mounted is not there yet.
NotYetThere ==
  Guarded /\ (granted => timeouts = 0) =>
    /\ \A i, j \in Live : i = j
    /\ \A p \in Procs : ToMount(p) \/ at[p].pc = "again" => Live = {}

\* A directory with files and no line in /etc/fstab: nothing of the program's
\* lies over it, nor is anything of the program's on its way there.
FullUncovered ==
  under /\ ~granted =>
    /\ dir = "dir" /\ late \subseteq {"umount"}
    /\ \A i \in DOMAIN stack : i > 1 => stack[i].is = "other"
    /\ \A p \in Procs :
         /\ at[p].pc \notin {"mkdir", "mount", "check", "seen"}
         /\ ToMount(p) => stack = << >>
         /\ ToTakeDown(p) \/ at[p].pc = "again" => stack = << >> \/ Dead

IInv == /\ TypeOK /\ AtWorkLocked /\ SawIsKept /\ LateStrayed /\ LiveOnTop /\ HandOnTop
        /\ StillDead /\ NotYetThere /\ FullUncovered

-----------------------------------------------------------------------------
(* The mount point. *)

LEMMA StackFacts ==
  ASSUME TypeOK
  PROVE  /\ stack \in Seq(Mount) /\ Len(stack) \in Nat
         /\ DOMAIN stack = 1..Len(stack)
         /\ \A i \in DOMAIN stack : stack[i] \in Mount
         /\ stack = << >> <=> Len(stack) = 0
  BY DEF TypeOK

\* gs_mount_state, its four answers.
LEMMA StateIs ==
  ASSUME TypeOK
  PROVE  /\ State \in {"HEALTHY", "STALE", "FOREIGN", "ABSENT"}
         /\ State = "HEALTHY" <=> Row /\ Answers
         /\ State = "STALE" <=> Row /\ ~Answers
         /\ State = "ABSENT" <=> stack = << >>
<1>1. Row => stack # << >>
  BY StackFacts DEF Row
<1>2. CASE Row /\ Answers
  BY <1>1, <1>2 DEF State
<1>3. CASE Row /\ ~Answers
  BY <1>1, <1>3 DEF State
<1>4. CASE ~Row /\ stack # << >>
  BY <1>4 DEF State
<1>5. CASE ~Row /\ stack = << >>
  BY <1>5 DEF State
<1> QED
  BY <1>2, <1>3, <1>4, <1>5

LEMMA StaleIsDead == ASSUME TypeOK, State = "STALE" PROVE Dead
<1>1. Row => stack # << >>
  BY StackFacts DEF Row
<1> QED
  BY <1>1, StateIs DEF Answers, Dead

\* What a program may have done to the mount point: nothing, or taken the
\* newest down, or put the drive on top.
Lowered == /\ stack # << >> /\ ~Top.held
           /\ stack' = SubSeq(stack, 1, Len(stack) - 1)
Raised  == /\ plugged /\ dir = "dir"
           /\ stack' = Append(stack, [is |-> "live", held |-> FALSE])

LEMMA Effect ==
  /\ stack' \in {stack, After("umount")} => stack' = stack \/ Lowered
  /\ stack' \in {stack, After("mount")} => stack' = stack \/ Raised
  BY DEF After, Lowered, Raised

LEMMA LoweredFacts ==
  ASSUME TypeOK, Lowered
  PROVE  /\ stack' \in Seq(Mount) /\ Len(stack') = Len(stack) - 1
         /\ Len(stack) > 0 /\ DOMAIN stack' = 1..(Len(stack) - 1)
         /\ \A i \in 1..(Len(stack) - 1) : stack'[i] = stack[i]
<1>1. /\ stack \in Seq(Mount) /\ Len(stack) \in Nat /\ Len(stack) # 0
      /\ stack' = SubSeq(stack, 1, Len(stack) - 1)
  BY StackFacts DEF Lowered
<1> DEFINE n == Len(stack) - 1
<1>2. n \in Nat /\ \A i \in 1..n : i \in 1..Len(stack)
  BY <1>1
<1>3. \A i \in 1..n : stack[i] \in Mount
  BY <1>1, <1>2
<1>4. stack' = [i \in 1..n |-> stack[i]]
  BY <1>1, <1>2
<1>5. stack' \in Seq(Mount) /\ Len(stack') = n
  BY <1>2, <1>3, <1>4
<1> QED
  BY <1>1, <1>4, <1>5

LEMMA RaisedFacts ==
  ASSUME TypeOK, Raised
  PROVE  /\ stack' \in Seq(Mount) /\ Len(stack') = Len(stack) + 1
         /\ DOMAIN stack' = 1..(Len(stack) + 1)
         /\ \A i \in 1..Len(stack) : stack'[i] = stack[i]
         /\ stack'[Len(stack) + 1] = [is |-> "live", held |-> FALSE]
         /\ dir = "dir"
<1>1. /\ stack \in Seq(Mount) /\ Len(stack) \in Nat
      /\ stack' = Append(stack, [is |-> "live", held |-> FALSE])
      /\ [is |-> "live", held |-> FALSE] \in Mount /\ dir = "dir"
  BY StackFacts DEF Raised, Mount
<1> QED
  BY <1>1

\* Which steps do what to the mount point.
LEMMA StackMoves ==
  ASSUME TypeOK, Next
  PROVE  \/ UNCHANGED stack
         \/ Lowered /\ (Late \/ \E p \in Procs : Down(p))
         \/ Raised /\ (Late \/ \E p \in Procs : UserLine(p) \/ MountDrive(p))
         \/ PullOut \/ Hold \/ Release \/ ByHand
<1>1. ASSUME NEW p \in Procs, Down(p)
      PROVE  stack' = stack \/ Lowered
  BY <1>1, Effect DEF Down, InTime, CutOff
<1>2. ASSUME NEW p \in Procs, UserLine(p) \/ MountDrive(p)
      PROVE  stack' = stack \/ Raised
  BY <1>2, Effect DEF UserLine, MountDrive, InTime, CutOff, Runs
<1>3. ASSUME Late
      PROVE  stack' = stack \/ Lowered \/ Raised
  <2>1. PICK program \in late : stack' \in {stack, After(program)}
    BY <1>3 DEF Late
  <2>2. program \in {"umount", "mount"}
    BY <2>1 DEF TypeOK
  <2> QED
    BY <2>1, <2>2, Effect
<1>4. ASSUME NEW p \in Procs,
             \/ Enter(p) \/ EnterLoose(p) \/ Look(p) \/ Holders(p) \/ Seen(p)
             \/ Road(p) \/ Again(p) \/ Place(p) \/ MakeDir(p) \/ Check(p)
             \/ Leave(p) \/ Crash(p)
      PROVE  UNCHANGED stack
  BY <1>4 DEF Enter, EnterLoose, Look, Holders, Seen, Road, Again, Place,
              MakeDir, Check, Leave, Crash, Runs
<1>5. KeepReading \/ Plug => UNCHANGED stack
  BY DEF KeepReading, Plug, Runs
<1> QED
  BY <1>1, <1>2, <1>3, <1>4, <1>5 DEF Next, Repair, Outside

-----------------------------------------------------------------------------
(* Types. *)

\* What is known of a process's place when a step of its own starts.
AtIsRight(p) == /\ at[p] \in At
                /\ at[p].pc = "over" => at[p].out # "NONE"
                /\ at[p].locked => lock = p

\* A step of p's own leaves the others where they are.
LEMMA AtMoves ==
  ASSUME TypeOK, NEW p \in Procs, Enter(p) \/ EnterLoose(p) \/ Repair(p) \/ Crash(p)
  PROVE  /\ at' = [at EXCEPT ![p] = at'[p]]
         /\ \A q \in Procs : q # p => at'[q] = at[q]
<1>1. at \in [Procs -> At]
  BY DEF TypeOK
<1>2. \E e : at' = [at EXCEPT ![p] = e]
  <2>1. ASSUME NEW pc, Goes(p, pc)
        PROVE  at' = [at EXCEPT ![p] = [at[p] EXCEPT !.pc = pc]]
    BY <1>1, <2>1 DEF Goes
  <2>2. ASSUME NEW o, Ends(p, o)
        PROVE  at' = [at EXCEPT ![p] = [at[p] EXCEPT !.pc = "over", !.out = o]]
    BY <1>1, <2>2 DEF Ends
  <2>3. CASE Enter(p) \/ EnterLoose(p) \/ Look(p) \/ Leave(p) \/ Crash(p)
    BY <1>1, <2>3 DEF Enter, EnterLoose, Look, Leave, Crash
  <2>4. CASE Holders(p) \/ UserLine(p) \/ Seen(p) \/ Road(p)
    BY <2>1, <2>2, <2>4 DEF Holders, UserLine, Seen, Road
  <2>5. CASE Down(p)
    BY <1>1, <2>2, <2>5 DEF Down
  <2>6. CASE Again(p) \/ Place(p) \/ MakeDir(p) \/ MountDrive(p) \/ Check(p)
    BY <2>1, <2>2, <2>6 DEF Again, Place, MakeDir, MountDrive, Check, Refuses
  <2> QED
    BY <2>3, <2>4, <2>5, <2>6 DEF Repair
<1> QED
  BY <1>1, <1>2

LEMMA IdleType == Idle \in At
  BY DEF Idle, At, Stages, Outcomes

LEMMA OwnStep ==
  ASSUME TypeOK, NEW p \in Procs, Enter(p) \/ EnterLoose(p) \/ Repair(p) \/ Crash(p)
  PROVE  AtIsRight(p)'
<1>1. at \in [Procs -> At] /\ at[p] \in At /\ (at[p].locked => lock = p)
  BY DEF TypeOK
<1>2. ASSUME NEW pc \in Stages \ {"over"}, Goes(p, pc), UNCHANGED lock
      PROVE  AtIsRight(p)'
  BY <1>1, <1>2 DEF Goes, AtIsRight, At
<1>3. ASSUME NEW o \in Outcomes \ {"NONE"}, Ends(p, o), UNCHANGED lock
      PROVE  AtIsRight(p)'
  BY <1>1, <1>3 DEF Ends, AtIsRight, At, Stages
<1>4. CASE Enter(p)
  BY <1>1, <1>4, IdleType DEF Enter, AtIsRight, At, Stages, Idle, TypeOK
<1>5. CASE EnterLoose(p)
  BY <1>1, <1>5, IdleType DEF EnterLoose, AtIsRight, At, Stages, Idle
<1>6. CASE Look(p)
  BY <1>1, <1>6, StateIs DEF Look, AtIsRight, At, Stages, Outcomes
<1>7. CASE Holders(p)
  BY <1>2, <1>3, <1>7 DEF Holders, Stages, Outcomes
<1>8. CASE UserLine(p) \/ Seen(p)
  BY <1>2, <1>3, <1>8 DEF UserLine, Seen, Stages, Outcomes
<1>9. CASE Road(p)
  BY <1>2, <1>3, <1>9 DEF Road, Stages, Outcomes
<1>10. CASE Down(p)
  <2>1. CASE at' = [at EXCEPT ![p] = [@ EXCEPT !.was = TRUE, !.pc = "again"]]
    BY <1>1, <1>10, <2>1 DEF Down, AtIsRight, At, Stages
  <2> QED
    BY <1>3, <1>10, <2>1 DEF Down, Outcomes
<1>11. CASE Again(p) \/ Place(p) \/ MakeDir(p)
  BY <1>2, <1>3, <1>11 DEF Again, Place, MakeDir, Refuses, Stages, Outcomes
<1>12. CASE MountDrive(p) \/ Check(p)
  BY <1>2, <1>3, <1>12 DEF MountDrive, Check, Stages, Outcomes
<1>13. CASE Leave(p)
  <2>1. at'[p] \in At /\ at'[p].pc # "over" /\ ~at'[p].locked
    BY <1>1, <1>13, IdleType DEF Leave, Rest, Idle, At, Stages
  <2> QED
    BY <2>1 DEF AtIsRight
<1>14. CASE Crash(p)
  <2>1. at'[p] \in At /\ at'[p].pc # "over" /\ ~at'[p].locked
    BY <1>1, <1>14, IdleType DEF Crash, Idle, At, Stages
  <2> QED
    BY <2>1 DEF AtIsRight
<1> QED
  BY <1>4, <1>5, <1>6, <1>7, <1>8, <1>9, <1>10, <1>11, <1>12, <1>13, <1>14
     DEF Repair

\* Only the one that holds the lock, or finds it free, touches it.
LEMMA LockStep ==
  ASSUME TypeOK, NEW p \in Procs, Enter(p) \/ EnterLoose(p) \/ Repair(p) \/ Crash(p)
  PROVE  /\ lock' \in {lock, p, NoOne}
         /\ lock' # lock => lock \in {p, NoOne}
<1>1. at[p].locked => lock = p
  BY DEF TypeOK
<1> QED
  BY <1>1 DEF Enter, EnterLoose, Repair, Crash, Look, Holders, UserLine, Seen,
              Road, Down, Again, Place, MakeDir, MountDrive, Check, Leave

LEMMA AtStep ==
  ASSUME TypeOK, Next
  PROVE  /\ at' \in [Procs -> At]
         /\ \A q \in Procs : AtIsRight(q)'
<1>1. at \in [Procs -> At] /\ \A q \in Procs : AtIsRight(q)
  BY DEF TypeOK, AtIsRight
<1>2. ASSUME NEW p \in Procs, Enter(p) \/ EnterLoose(p) \/ Repair(p) \/ Crash(p)
      PROVE  /\ at' \in [Procs -> At]
             /\ \A q \in Procs : AtIsRight(q)'
  <2>1. AtIsRight(p)' /\ at'[p] \in At
    BY <1>2, OwnStep DEF AtIsRight
  <2>2. at' \in [Procs -> At]
    BY <1>1, <1>2, <2>1, AtMoves
  <2>3. p # NoOne
    BY RepairAssumption DEF Procs
  <2>4. ASSUME NEW q \in Procs, q # p
        PROVE  AtIsRight(q)'
    <3>1. at'[q] = at[q] /\ q # NoOne
      BY <1>2, <2>4, AtMoves, RepairAssumption DEF Procs
    <3> QED
      BY <1>1, <1>2, <2>4, <3>1, LockStep DEF AtIsRight
  <2> QED
    BY <2>1, <2>2, <2>4
<1>3. CASE Outside
  BY <1>1, <1>3 DEF Outside, Late, KeepReading, Plug, PullOut, Hold, Release,
                    ByHand, AtIsRight
<1> QED
  BY <1>2, <1>3 DEF Next

\* What is mounted stays a list of mounts.
LEMMA StackStep ==
  ASSUME TypeOK, Next
  PROVE  stack' \in Seq(Mount)
<1>1. CASE UNCHANGED stack
  BY <1>1, StackFacts
<1>2. CASE Lowered
  BY <1>2, LoweredFacts
<1>3. CASE Raised
  BY <1>3, RaisedFacts
<1>4. ASSUME DOMAIN stack' = DOMAIN stack,
             stack' = [i \in DOMAIN stack |-> stack'[i]],
             \A i \in DOMAIN stack : stack'[i] \in Mount
      PROVE  stack' \in Seq(Mount)
  <2>1. stack' \in [1..Len(stack) -> Mount] /\ Len(stack) \in Nat
    BY <1>4, StackFacts
  <2> QED
    BY <2>1, SeqDef
<1>5. CASE PullOut
  <2>1. \A i \in DOMAIN stack : [stack[i] EXCEPT !.is = "dead"] \in Mount
    BY StackFacts DEF Mount
  <2> QED
    BY <1>4, <1>5, <2>1, StackFacts DEF PullOut
<1>6. \A i \in DOMAIN stack, h \in BOOLEAN : [stack[i] EXCEPT !.held = h] \in Mount
  BY StackFacts DEF Mount
<1>7. ASSUME NEW i \in DOMAIN stack, NEW h \in BOOLEAN,
             stack' = [stack EXCEPT ![i].held = h]
      PROVE  stack' \in Seq(Mount)
  BY <1>4, <1>6, <1>7, StackFacts
<1>8. CASE Hold
  <2>1. Len(stack) \in DOMAIN stack
    BY <1>8, StackFacts DEF Hold, Answers
  <2> QED
    BY <1>7, <1>8, <2>1 DEF Hold
<1>9. CASE Release
  BY <1>7, <1>9 DEF Release
<1>10. CASE ByHand
  <2>1. [is |-> "other", held |-> FALSE] \in Mount
    BY DEF Mount
  <2> QED
    BY <1>10, <2>1, StackFacts, AppendProperties DEF ByHand
<1> QED
  BY <1>1, <1>2, <1>3, <1>5, <1>8, <1>9, <1>10, StackMoves

\* Something is only ever mounted on a directory, and a directory stays one.
LEMMA DirStep ==
  ASSUME TypeOK, Next
  PROVE  /\ dir' \in {"none", "dir", "file"}
         /\ stack' # << >> => dir' = "dir"
         /\ dir = "dir" => dir' = "dir"
<1>1. dir' = dir \/ dir' = "dir"
  BY DEF Next, Repair, Outside, Stay, Enter, EnterLoose, Look, Holders, UserLine,
         Seen, Road, Down, Again, Place, MakeDir, MountDrive, Check, Leave, Crash,
         Late, KeepReading, Plug, PullOut, Hold, Release, ByHand
<1>2. ASSUME stack' # << >> PROVE dir = "dir" \/ dir' = "dir"
  <2>1. stack # << >> => dir = "dir"
    BY DEF TypeOK
  <2>2. CASE PullOut
    <3>1. DOMAIN stack' = DOMAIN stack
      BY <2>2 DEF PullOut
    <3>2. stack # << >>
      BY <1>2, <2>2, <3>1, StackFacts DEF PullOut
    <3> QED
      BY <2>1, <3>2
  <2>3. CASE Hold \/ Release
    BY <2>1, <2>3, StackFacts DEF Hold, Release, Answers
  <2> QED
    BY <1>2, <2>1, <2>2, <2>3, StackMoves DEF Lowered, Raised, ByHand
<1> QED
  BY <1>1, <1>2 DEF TypeOK

LEMMA OthersTyped ==
  ASSUME TypeOK, Next
  PROVE  /\ root' \in BOOLEAN /\ granted' \in BOOLEAN /\ under' \in BOOLEAN
         /\ plugged' \in BOOLEAN /\ written' \in BOOLEAN
         /\ strayed' \in BOOLEAN /\ late' \subseteq {"umount", "mount"}
         /\ lock' \in Procs \cup {NoOne} /\ settled' \subseteq Procs
         /\ timeouts' \in Nat /\ flips' \in Nat
         /\ byhand' \in Nat /\ crashes' \in Nat
<1> USE DEF TypeOK
<1>1. ASSUME NEW p \in Procs, Enter(p) \/ EnterLoose(p) \/ Look(p) \/ Holders(p)
                              \/ Seen(p) \/ Again(p) \/ Place(p) \/ Check(p)
      PROVE  /\ UNCHANGED <<machine, plugged, written, strayed, late, settled,
                            bounds>>
             /\ lock' \in {lock, p}
  BY <1>1 DEF Enter, EnterLoose, Look, Holders, Seen, Again, Place, Check, Stay,
              Runs, bounds
<1>2. ASSUME NEW p \in Procs, UserLine(p) \/ Down(p) \/ MountDrive(p)
      PROVE  /\ UNCHANGED <<machine, plugged, written, settled, lock, flips,
                            byhand, crashes>>
             /\ strayed' \in {strayed, TRUE} /\ timeouts' \in {timeouts, timeouts + 1}
             /\ late' \subseteq late \cup {"umount", "mount"}
  BY <1>2 DEF UserLine, Down, MountDrive, Stay, InTime, CutOff, Runs
<1>3. ASSUME NEW p \in Procs, Road(p) \/ MakeDir(p) \/ Leave(p)
      PROVE  /\ UNCHANGED <<machine, plugged, strayed, late, flips, byhand, crashes>>
             /\ written' \in BOOLEAN /\ settled' \subseteq settled \cup {p}
             /\ lock' \in {lock, NoOne} /\ timeouts' \in {timeouts, timeouts + 1}
  BY <1>3 DEF Road, MakeDir, Leave, Stay, Runs
<1>4. ASSUME NEW p \in Procs, Crash(p)
      PROVE  /\ UNCHANGED <<machine, plugged, written, timeouts, flips, byhand>>
             /\ crashes' = crashes + 1 /\ lock' \in {lock, NoOne}
             /\ strayed' \in BOOLEAN /\ late' \subseteq late \cup {"umount", "mount"}
             /\ settled' \subseteq settled
  BY <1>4 DEF Crash
<1>5. ASSUME Outside
      PROVE  /\ UNCHANGED <<machine, strayed, lock, settled, timeouts, crashes>>
             /\ plugged' \in BOOLEAN /\ written' \in BOOLEAN /\ late' \subseteq late
             /\ flips' \in {flips, flips + 1} /\ byhand' \in {byhand, byhand + 1}
  BY <1>5 DEF Outside, Late, KeepReading, Plug, PullOut, Hold, Release, ByHand,
              Stay, Runs
<1>6. ASSUME NEW p \in Procs, Enter(p) \/ EnterLoose(p) \/ Repair(p) \/ Crash(p)
      PROVE  /\ UNCHANGED <<machine, plugged, flips, byhand>>
             /\ written' \in BOOLEAN /\ strayed' \in BOOLEAN
             /\ late' \subseteq {"umount", "mount"}
             /\ lock' \in Procs \cup {NoOne} /\ settled' \subseteq Procs
             /\ timeouts' \in Nat /\ crashes' \in Nat
  <2>1. timeouts + 1 \in Nat /\ crashes + 1 \in Nat
    OBVIOUS
  <2>2. CASE Enter(p) \/ EnterLoose(p) \/ Look(p) \/ Holders(p) \/ Seen(p)
             \/ Again(p) \/ Place(p) \/ Check(p)
    BY <1>1, <2>2 DEF bounds
  <2>3. CASE UserLine(p) \/ Down(p) \/ MountDrive(p)
    BY <1>2, <2>1, <2>3
  <2>4. CASE Road(p) \/ MakeDir(p) \/ Leave(p)
    BY <1>3, <2>1, <2>4
  <2>5. CASE Crash(p)
    BY <1>4, <2>1, <2>5
  <2> QED
    BY <1>6, <2>2, <2>3, <2>4, <2>5 DEF Repair
<1>7. CASE Outside
  <2>1. flips + 1 \in Nat /\ byhand + 1 \in Nat
    OBVIOUS
  <2> QED
    BY <1>5, <1>7, <2>1 DEF machine
<1>8. CASE \E p \in Procs : Enter(p) \/ EnterLoose(p) \/ Repair(p) \/ Crash(p)
  BY <1>6, <1>8 DEF machine
<1> QED
  BY <1>7, <1>8 DEF Next

LEMMA TypeStep == TypeOK /\ [Next]_vars => TypeOK'
<1>1. CASE Next /\ TypeOK
  BY <1>1, AtStep, StackStep, DirStep, OthersTyped DEF TypeOK, AtIsRight
<1>2. CASE UNCHANGED vars /\ TypeOK
  BY <1>2 DEF vars, machine, bounds, TypeOK
<1> QED
  BY <1>1, <1>2

LEMMA TypeInit == Init => TypeOK
<1> SUFFICES ASSUME Init PROVE TypeOK
  OBVIOUS
<1>1. \A k \in {"live", "dead"}, h \in BOOLEAN : [is |-> k, held |-> h] \in Mount
  BY DEF Mount
<1>2. stack \in Seq(Mount)
  <2>1. \A m \in Mount : <<m>> \in Seq(Mount)
    OBVIOUS
  <2>2. << >> \in Seq(Mount)
    OBVIOUS
  <2>3. CASE stack = << >>
    BY <2>2, <2>3
  <2>4. CASE \E k \in {"live", "dead"}, h \in BOOLEAN : stack = <<[is |-> k, held |-> h]>>
    BY <1>1, <2>1, <2>4
  <2> QED
    BY <2>3, <2>4 DEF Init
<1>3. /\ at \in [Procs -> At]
      /\ \A p \in Procs : at[p].pc = "idle" /\ ~at[p].locked
  BY IdleType DEF Init, Idle
<1>4. stack # << >> => dir = "dir"
  BY DEF Init
<1>5. /\ root \in BOOLEAN /\ granted \in BOOLEAN /\ plugged \in BOOLEAN
      /\ written \in BOOLEAN /\ under \in BOOLEAN /\ dir \in {"none", "dir", "file"}
      /\ late = {} /\ strayed = FALSE /\ lock = NoOne /\ settled = {}
      /\ timeouts = 0 /\ flips = 0 /\ byhand = 0 /\ crashes = 0
  BY DEF Init
<1> QED
  BY <1>2, <1>3, <1>4, <1>5 DEF TypeOK

\* Every variable of MountRepair keeps to its type, what is mounted lies on a
\* directory, and who works under mount.lock holds it.
THEOREM TypesHold == Spec => []TypeOK
<1>1. Init => TypeOK
  BY TypeInit
<1>2. TypeOK /\ [Next]_vars => TypeOK'
  BY TypeStep
<1> QED
  BY <1>1, <1>2, PTL DEF Spec

-----------------------------------------------------------------------------
(* Where a step takes a process. *)

\* p goes on to a place of S with what it saw and the lock it holds.
Kept(p)    == at'[p].saw = at[p].saw /\ at'[p].locked = at[p].locked
Onto(p, S) == at'[p].pc \in S /\ Kept(p)

LEMMA Onwards ==
  ASSUME TypeOK, NEW p \in Procs
  PROVE  /\ Holders(p)    => at[p].pc = "holders" /\ Onto(p, {"over", "road"})
         /\ UserLine(p)   => at[p].pc = "line" /\ Onto(p, {"seen", "road"})
         /\ Seen(p)       => at[p].pc = "seen" /\ Onto(p, {"over", "road"})
         /\ Road(p)       => /\ at[p].pc = "road" /\ Onto(p, {"over", "down", "place"})
                             /\ at'[p].pc = "down" => at[p].saw = "STALE"
                             /\ at'[p].pc = "place" => at[p].saw # "STALE"
         /\ Down(p)       => at[p].pc = "down" /\ Onto(p, {"over", "again"})
         /\ Again(p)      => /\ at[p].pc = "again" /\ Onto(p, {"over", "place"})
                             /\ at'[p].pc = "place" => State # "STALE"
         /\ Place(p)      => at[p].pc = "place" /\ Onto(p, {"over", "mkdir", "mount"})
         /\ MakeDir(p)    => at[p].pc = "mkdir" /\ Onto(p, {"over", "mount"})
         /\ MountDrive(p) => at[p].pc = "mount" /\ Onto(p, {"over", "check"})
         /\ Check(p)      => at[p].pc = "check" /\ Onto(p, {"over"})
<1>1. at \in [Procs -> At] /\ at[p] \in At
  BY DEF TypeOK
<1>2. ASSUME NEW pc, Goes(p, pc)
      PROVE  at'[p].pc = pc /\ Kept(p)
  BY <1>1, <1>2 DEF Goes, Kept, At
<1>3. ASSUME NEW o, Ends(p, o)
      PROVE  at'[p].pc = "over" /\ Kept(p)
  BY <1>1, <1>3 DEF Ends, Kept, At
<1>4. at' = [at EXCEPT ![p] = [@ EXCEPT !.was = TRUE, !.pc = "again"]]
        => at'[p].pc = "again" /\ Kept(p)
  BY <1>1 DEF Kept, At
<1>6. Holders(p) => at[p].pc = "holders" /\ Onto(p, {"over", "road"})
  BY <1>2, <1>3 DEF Onto, Holders
<1>7. UserLine(p) => at[p].pc = "line" /\ Onto(p, {"seen", "road"})
  BY <1>2, <1>3 DEF Onto, UserLine
<1>8. Seen(p) => at[p].pc = "seen" /\ Onto(p, {"over", "road"})
  BY <1>2, <1>3 DEF Onto, Seen
<1>9. Road(p) => /\ at[p].pc = "road" /\ Onto(p, {"over", "down", "place"})
                 /\ at'[p].pc = "down" => at[p].saw = "STALE"
                 /\ at'[p].pc = "place" => at[p].saw # "STALE"
  <2> SUFFICES ASSUME Road(p)
               PROVE  \/ Onto(p, {"over"})
                      \/ at[p].saw = "STALE" /\ Onto(p, {"down"})
                      \/ at[p].saw # "STALE" /\ Onto(p, {"place"})
    BY DEF Road, Onto
  <2> QED
    BY <1>2, <1>3 DEF Onto, Road
<1>10. Down(p) => at[p].pc = "down" /\ Onto(p, {"over", "again"})
  BY <1>3, <1>4 DEF Onto, Down
<1>11. Again(p) => /\ at[p].pc = "again" /\ Onto(p, {"over", "place"})
                   /\ at'[p].pc = "place" => State # "STALE"
  <2> SUFFICES ASSUME Again(p)
               PROVE  \/ Onto(p, {"over"})
                      \/ State # "STALE" /\ Onto(p, {"place"})
    BY DEF Again, Onto
  <2> QED
    BY <1>2, <1>3 DEF Onto, Again
<1>12. Place(p) => at[p].pc = "place" /\ Onto(p, {"over", "mkdir", "mount"})
  BY <1>2, <1>3 DEF Onto, Place, Refuses
<1>13. MakeDir(p) => at[p].pc = "mkdir" /\ Onto(p, {"over", "mount"})
  BY <1>2, <1>3 DEF Onto, MakeDir, Refuses
<1>14. MountDrive(p) => at[p].pc = "mount" /\ Onto(p, {"over", "check"})
  BY <1>2, <1>3 DEF Onto, MountDrive
<1>15. Check(p) => at[p].pc = "check" /\ Onto(p, {"over"})
  BY <1>3 DEF Onto, Check
<1> QED
  BY <1>6, <1>7, <1>8, <1>9, <1>10, <1>11, <1>12, <1>13, <1>14, <1>15

\* Entering, looking, leaving and dying, which touch nothing but at and lock.
LEMMA Around ==
  ASSUME TypeOK, NEW p \in Procs
  PROVE  /\ Enter(p) => /\ at[p].pc = "idle" /\ at'[p].pc = "look"
                        /\ at'[p].locked /\ lock = NoOne
         /\ EnterLoose(p) => /\ p \in Commands /\ at[p].pc = "idle"
                             /\ at'[p].pc \in {"look", "done"} /\ ~at'[p].locked
         /\ Look(p) => /\ at[p].pc = "look" /\ at'[p].locked = at[p].locked
                       /\ at'[p].saw = State
                       /\ at'[p].pc \in {"holders", "line", "over"}
                       /\ at'[p].pc = "holders" => State = "STALE"
                       /\ at'[p].pc = "line" => State = "ABSENT"
         /\ Leave(p) => /\ at[p].pc = "over" /\ ~at'[p].locked
                        /\ p \in Windows => at'[p].pc = "idle"
                        /\ p \in Commands => at'[p].pc \in {"look", "done"}
         /\ Crash(p) => at[p].pc # "idle" /\ at'[p].pc = "killed" /\ ~at'[p].locked
<1>1. at \in [Procs -> At] /\ at[p] \in At /\ Windows \cap Commands = {}
  BY RepairAssumption DEF TypeOK
<1>2. Enter(p) => at[p].pc = "idle" /\ at'[p].pc = "look" /\ at'[p].locked /\ lock = NoOne
  BY <1>1 DEF Enter, Idle
<1>3. EnterLoose(p) => /\ p \in Commands /\ at[p].pc = "idle"
                       /\ at'[p].pc \in {"look", "done"} /\ ~at'[p].locked
  BY <1>1 DEF EnterLoose, Idle
<1>4. Look(p) => /\ at[p].pc = "look" /\ at'[p].locked = at[p].locked
                 /\ at'[p].saw = State
                 /\ at'[p].pc \in {"holders", "line", "over"}
                 /\ at'[p].pc = "holders" => State = "STALE"
                 /\ at'[p].pc = "line" => State = "ABSENT"
  <2> SUFFICES ASSUME Look(p)
               PROVE  /\ at[p].pc = "look" /\ at'[p].locked = at[p].locked
                      /\ at'[p].saw = State
                      /\ \/ State = "STALE" /\ at'[p].pc = "holders"
                         \/ State = "ABSENT" /\ at'[p].pc = "line"
                         \/ at'[p].pc = "over"
    OBVIOUS
  <2>1. CASE State = "STALE"
    BY <1>1, <2>1 DEF Look, At
  <2>2. CASE State = "ABSENT"
    BY <1>1, <2>2 DEF Look, At
  <2>3. CASE State \notin {"STALE", "ABSENT"}
    BY <1>1, <2>3 DEF Look, At
  <2> QED
    BY <2>1, <2>2, <2>3
<1>5. Leave(p) => /\ at[p].pc = "over" /\ ~at'[p].locked
                  /\ p \in Windows => at'[p].pc = "idle"
                  /\ p \in Commands => at'[p].pc \in {"look", "done"}
  BY <1>1 DEF Leave, Rest, Idle
<1>6. Crash(p) => at[p].pc # "idle" /\ at'[p].pc = "killed" /\ ~at'[p].locked
  BY <1>1 DEF Crash, Idle
<1> QED
  BY <1>2, <1>3, <1>4, <1>5, <1>6

\* What the steps of gs_mount_repair have in common.
LEMMA InRepair ==
  ASSUME TypeOK, NEW p \in Procs, Repair(p), ~Look(p), ~Leave(p)
  PROVE  /\ Kept(p)
         /\ at[p].pc \notin {"idle", "look", "over", "done", "killed"}
         /\ at'[p].pc \notin {"idle", "look", "holders", "line", "done", "killed"}
         /\ at'[p].pc = "seen" => at[p].pc = "line"
         /\ at'[p].pc = "down" => at[p].saw = "STALE"
         /\ at'[p].pc = "again" => at[p].pc = "down"
<1>1. CASE Holders(p) \/ UserLine(p) \/ Seen(p)
  BY <1>1, Onwards DEF Onto
<1>2. CASE Road(p)
  BY <1>2, Onwards DEF Onto
<1>3. CASE Down(p) \/ Again(p) \/ Place(p)
  BY <1>3, Onwards DEF Onto
<1>4. CASE MakeDir(p) \/ MountDrive(p) \/ Check(p)
  BY <1>4, Onwards DEF Onto
<1> QED
  BY <1>1, <1>2, <1>3, <1>4 DEF Repair

\* Nothing outside the processes moves them.
LEMMA OutsideQuiet == ASSUME Outside PROVE UNCHANGED <<at, lock>>
  BY DEF Outside, Late, KeepReading, Plug, PullOut, Hold, Release, ByHand

-----------------------------------------------------------------------------
(* The lock. *)

Working(p) == at[p].pc \notin {"idle", "done", "killed"}

\* Under the lock one process is at work at a time.
LEMMA Alone ==
  ASSUME TypeOK, AtWorkLocked, Guarded,
         NEW p \in Procs, NEW q \in Procs, Working(p), Working(q)
  PROVE  p = q
<1>1. ASSUME NEW r \in Procs, Working(r)
      PROVE  lock = r
  <2>1. at[r].locked
    BY <1>1 DEF AtWorkLocked, Guarded, Working
  <2> QED
    BY <2>1 DEF TypeOK
<1> QED
  BY <1>1

\* Where a process goes when it is at work, and what it comes from.
LEMMA WorkMoves ==
  ASSUME TypeOK, AtWorkLocked, NEW p \in Procs,
         Enter(p) \/ EnterLoose(p) \/ Repair(p) \/ Crash(p)
  PROVE  /\ at'[p].pc \in {"idle", "done", "killed"} \/ at'[p].locked \/ p \in Commands
         /\ p \in Commands /\ at[p].pc # "idle" /\ ~at[p].locked
              => at'[p].pc # "idle" /\ ~at'[p].locked
<1>1. p \in Windows \/ p \in Commands
  BY DEF Procs
<1>2. Windows \cap Commands = {}
  BY RepairAssumption
<1>3. \/ at[p].pc \in {"idle", "done", "killed"} \/ at[p].locked \/ p \in Commands
  BY DEF AtWorkLocked
<1>4. CASE Enter(p) \/ EnterLoose(p) \/ Crash(p)
  BY <1>4, Around
<1>5. CASE Look(p)
  BY <1>3, <1>5, Around
<1>6. CASE Leave(p)
  BY <1>1, <1>2, <1>6, Around
<1>7. CASE Repair(p) /\ ~Look(p) /\ ~Leave(p)
  BY <1>3, <1>7, InRepair DEF Kept
<1> QED
  BY <1>4, <1>5, <1>6, <1>7

LEMMA AtWorkLockedStep ==
  ASSUME TypeOK, AtWorkLocked, Next
  PROVE  AtWorkLocked'
<1>1. ASSUME NEW p \in Procs, Enter(p) \/ EnterLoose(p) \/ Repair(p) \/ Crash(p),
             NEW q \in Procs
      PROVE  at'[q].pc \in {"idle", "done", "killed"} \/ at'[q].locked \/ q \in Commands
  <2>1. CASE q = p
    BY <1>1, <2>1, WorkMoves
  <2>2. CASE q # p
    BY <1>1, <2>2, AtMoves DEF AtWorkLocked
  <2> QED
    BY <2>1, <2>2
<1>2. CASE Outside
  BY <1>2, OutsideQuiet DEF AtWorkLocked
<1> QED
  BY <1>1, <1>2 DEF Next, AtWorkLocked

\* A program that strayed is not called back.
LEMMA StrayedStays ==
  ASSUME TypeOK, Next
  PROVE  /\ strayed' = strayed \/ strayed' = TRUE
         /\ timeouts' \in {timeouts, timeouts + 1}
<1>1. ASSUME NEW p \in Procs, UserLine(p) \/ Down(p) \/ MountDrive(p)
      PROVE  /\ strayed' = strayed \/ strayed' = TRUE
             /\ timeouts' \in {timeouts, timeouts + 1}
  BY <1>1 DEF UserLine, Down, MountDrive, InTime, CutOff, Runs
<1>2. ASSUME NEW p \in Procs,
             \/ Enter(p) \/ EnterLoose(p) \/ Look(p) \/ Holders(p) \/ Seen(p)
             \/ Road(p) \/ Again(p) \/ Place(p) \/ MakeDir(p) \/ Check(p) \/ Leave(p)
      PROVE  UNCHANGED strayed /\ timeouts' \in {timeouts, timeouts + 1}
  BY <1>2 DEF Enter, EnterLoose, Look, Holders, Seen, Road, Again, Place, MakeDir,
              Check, Leave, Runs
<1>3. ASSUME NEW p \in Procs, Crash(p)
      PROVE  (strayed' = strayed \/ strayed' = TRUE) /\ UNCHANGED timeouts
  <2>1. PICK left : strayed' = (strayed \/ left # {})
    BY <1>3 DEF Crash
  <2> QED
    BY <1>3, <2>1 DEF Crash, TypeOK
<1>4. ASSUME Outside
      PROVE  UNCHANGED <<strayed, timeouts>>
  BY <1>4 DEF Outside, Late, KeepReading, Plug, PullOut, Hold, Release, ByHand, Runs
<1> QED
  BY <1>1, <1>2, <1>3, <1>4 DEF Next, Repair

\* The machine and the line in /etc/fstab stay as they are.
LEMMA MachineStays == ASSUME Next PROVE UNCHANGED <<root, granted, under>>
<1>1. UNCHANGED machine
  BY DEF Next, Repair, Outside, Stay, Enter, EnterLoose, Look, Holders, UserLine,
         Seen, Road, Down, Again, Place, MakeDir, MountDrive, Check, Leave, Crash,
         Late, KeepReading, Plug, PullOut, Hold, Release, ByHand
<1> QED
  BY <1>1 DEF machine

\* Once a command went past the lock it does not come back under it.
LEMMA GuardedBefore ==
  ASSUME TypeOK, AtWorkLocked, Next, Guarded'
  PROVE  Guarded
<1>1. ~strayed
  BY StrayedStays DEF Guarded, TypeOK
<1>2. ASSUME NEW c \in Commands, at[c].pc # "idle", ~at[c].locked
      PROVE  FALSE
  <2>1. c \in Procs
    BY DEF Procs
  <2>2. at'[c].pc = "idle" \/ at'[c].locked
    BY DEF Guarded
  <2>3. ASSUME NEW p \in Procs, Enter(p) \/ EnterLoose(p) \/ Repair(p) \/ Crash(p)
        PROVE  FALSE
    <3>1. CASE p = c
      BY <1>2, <2>2, <2>3, <3>1, WorkMoves
    <3>2. CASE p # c
      BY <1>2, <2>1, <2>2, <2>3, <3>2, AtMoves
    <3> QED
      BY <3>1, <3>2
  <2>4. CASE Outside
    BY <1>2, <2>2, <2>4, OutsideQuiet
  <2> QED
    BY <2>3, <2>4 DEF Next
<1> QED
  BY <1>1, <1>2 DEF Guarded

LEMMA SawIsKeptStep ==
  ASSUME TypeOK, SawIsKept, Next
  PROVE  SawIsKept'
<1> DEFINE Right(q) == /\ at[q].pc \in {"line", "seen"} => at[q].saw = "ABSENT"
                       /\ at[q].pc \in {"holders", "down", "again"} => at[q].saw = "STALE"
<1>1. ASSUME NEW p \in Procs, Enter(p) \/ EnterLoose(p) \/ Repair(p) \/ Crash(p)
      PROVE  Right(p)'
  <2>1. Right(p)
    BY DEF SawIsKept
  <2>2. CASE Enter(p) \/ EnterLoose(p) \/ Crash(p) \/ Leave(p)
    <3>1. at'[p].pc \in {"idle", "look", "done", "killed"}
      BY <2>2, Around DEF Procs
    <3> QED
      BY <3>1
  <2>3. CASE Look(p)
    BY <2>3, Around, StateIs
  <2>4. CASE Repair(p) /\ ~Look(p) /\ ~Leave(p)
    BY <2>1, <2>4, InRepair DEF Kept
  <2> QED
    BY <1>1, <2>2, <2>3, <2>4
<1>2. ASSUME NEW p \in Procs, Enter(p) \/ EnterLoose(p) \/ Repair(p) \/ Crash(p),
             NEW q \in Procs
      PROVE  Right(q)'
  BY <1>1, <1>2, AtMoves DEF SawIsKept
<1>3. CASE Outside
  BY <1>3, OutsideQuiet DEF SawIsKept
<1> QED
  BY <1>2, <1>3 DEF Next, SawIsKept

LEMMA LateStrayedStep ==
  ASSUME TypeOK, LateStrayed, Next
  PROVE  LateStrayed'
<1>1. ASSUME NEW p \in Procs, UserLine(p) \/ Down(p) \/ MountDrive(p)
      PROVE  UNCHANGED <<late, strayed>> \/ strayed' = TRUE
  BY <1>1 DEF UserLine, Down, MountDrive, InTime, CutOff, Runs
<1>2. ASSUME NEW p \in Procs,
             \/ Enter(p) \/ EnterLoose(p) \/ Look(p) \/ Holders(p) \/ Seen(p)
             \/ Road(p) \/ Again(p) \/ Place(p) \/ MakeDir(p) \/ Check(p) \/ Leave(p)
      PROVE  UNCHANGED <<late, strayed>>
  BY <1>2 DEF Enter, EnterLoose, Look, Holders, Seen, Road, Again, Place, MakeDir,
              Check, Leave, Runs
<1>3. ASSUME NEW p \in Procs, Crash(p)
      PROVE  UNCHANGED <<late, strayed>> \/ strayed' = TRUE
  <2>1. PICK left : late' = late \cup left /\ strayed' = (strayed \/ left # {})
    BY <1>3 DEF Crash
  <2> QED
    BY <2>1 DEF TypeOK
<1>4. ASSUME Outside
      PROVE  late' \subseteq late /\ UNCHANGED strayed
  BY <1>4 DEF Outside, Late, KeepReading, Plug, PullOut, Hold, Release, ByHand, Runs
<1> QED
  BY <1>1, <1>2, <1>3, <1>4 DEF Next, Repair, LateStrayed

-----------------------------------------------------------------------------
(* What is mounted. *)

\* What happens to a mount from outside: it dies with the drive, or is held.
LEMMA Rekinded ==
  ASSUME TypeOK, PullOut \/ Hold \/ Release
  PROVE  /\ DOMAIN stack' = DOMAIN stack /\ Len(stack') = Len(stack)
         /\ \A i \in DOMAIN stack :
              stack'[i].is = stack[i].is \/ (stack[i].is = "live" /\ stack'[i].is = "dead")
         /\ PullOut => \A i \in DOMAIN stack : stack'[i].is # "live"
<1>1. \A i \in DOMAIN stack : stack[i] \in Mount
  BY StackFacts
<1>2. CASE PullOut
  <2>1. DOMAIN stack' = DOMAIN stack /\ Len(stack') = Len(stack)
    BY <1>2, StackFacts DEF PullOut
  <2>2. \A i \in DOMAIN stack : stack'[i] = IF stack[i].is = "live"
                                           THEN [stack[i] EXCEPT !.is = "dead"] ELSE stack[i]
    BY <1>2 DEF PullOut, Live
  <2> QED
    BY <1>1, <2>1, <2>2 DEF Mount
<1>3. CASE Hold \/ Release
  <2>1. ASSUME NEW j, NEW h, stack' = [stack EXCEPT ![j].held = h]
        PROVE  /\ DOMAIN stack' = DOMAIN stack /\ Len(stack') = Len(stack)
               /\ \A i \in DOMAIN stack : stack'[i].is = stack[i].is
    BY <1>1, <2>1, StackFacts DEF Mount
  <2>2. DOMAIN stack' = DOMAIN stack /\ Len(stack') = Len(stack)
    BY <1>3, <2>1 DEF Hold, Release
  <2>3. \A i \in DOMAIN stack : stack'[i].is = stack[i].is
    BY <1>3, <2>1 DEF Hold, Release
  <2>4. ~PullOut \/ \A i \in DOMAIN stack : stack'[i].is # "live"
    BY <1>2, <2>2 DEF PullOut, Live, Mount
  <2> QED
    BY <2>2, <2>3, <2>4
<1> QED
  BY <1>2, <1>3

LEMMA HandFacts ==
  ASSUME TypeOK, ByHand
  PROVE  /\ Len(stack') = Len(stack) + 1 /\ DOMAIN stack' = 1..(Len(stack) + 1)
         /\ \A i \in 1..Len(stack) : stack'[i] = stack[i]
         /\ stack'[Len(stack) + 1] = [is |-> "other", held |-> FALSE]
         /\ late' = {} /\ \A p \in Procs : ~Working(p)
<1>1. /\ stack \in Seq(Mount) /\ Len(stack) \in Nat
      /\ stack' = Append(stack, [is |-> "other", held |-> FALSE])
      /\ [is |-> "other", held |-> FALSE] \in Mount
  BY StackFacts DEF ByHand, Mount
<1>2. late' = {} /\ \A p \in Procs : ~Working(p)
  BY DEF ByHand, Working
<1>3. /\ Len(stack') = Len(stack) + 1 /\ DOMAIN stack' = 1..(Len(stack) + 1)
      /\ \A i \in 1..Len(stack) : stack'[i] = stack[i]
      /\ stack'[Len(stack) + 1] = [is |-> "other", held |-> FALSE]
  BY <1>1
<1> QED
  BY <1>2, <1>3

LEMMA DeadMeansNoneLive == ASSUME TypeOK, LiveOnTop, Dead PROVE Live = {}
<1>1. Len(stack) \in DOMAIN stack /\ \A i \in DOMAIN stack : i <= Len(stack)
  BY StackFacts DEF Dead
<1>2. \A i \in DOMAIN stack : stack[i].is # "live"
  BY <1>1, StackFacts DEF LiveOnTop, Dead, Top
<1> QED
  BY <1>2 DEF Live

LEMMA LiveOnTopStep ==
  ASSUME TypeOK, LiveOnTop, Next
  PROVE  LiveOnTop'
<1> SUFFICES ASSUME NEW i \in DOMAIN stack', NEW j \in DOMAIN stack', i < j,
                    stack'[i].is = "live"
             PROVE  stack'[j].is # "dead"
  BY DEF LiveOnTop
<1>1. CASE UNCHANGED stack
  BY <1>1 DEF LiveOnTop
<1>2. CASE Lowered
  <2>1. i \in DOMAIN stack /\ j \in DOMAIN stack
    BY <1>2, LoweredFacts, StackFacts
  <2> QED
    BY <1>2, <2>1, LoweredFacts DEF LiveOnTop
<1>3. CASE Raised
  <2>1. i \in DOMAIN stack /\ stack'[i] = stack[i]
    BY <1>3, RaisedFacts, StackFacts
  <2>2. CASE j = Len(stack) + 1
    BY <1>3, <2>2, RaisedFacts
  <2>3. CASE j # Len(stack) + 1
    BY <1>3, <2>1, <2>3, RaisedFacts, StackFacts DEF LiveOnTop
  <2> QED
    BY <2>2, <2>3
<1>4. CASE PullOut \/ Hold \/ Release
  <2>1. CASE PullOut
    BY <2>1, Rekinded
  <2>2. CASE Hold \/ Release
    <3>1. \A k \in DOMAIN stack : stack'[k].is = stack[k].is
      BY <2>2, StackFacts DEF Hold, Release, Mount
    <3> QED
      BY <2>2, <3>1, Rekinded DEF LiveOnTop
  <2> QED
    BY <1>4, <2>1, <2>2
<1>5. CASE ByHand
  <2>1. i \in DOMAIN stack /\ stack'[i] = stack[i]
    BY <1>5, HandFacts, StackFacts
  <2>2. CASE j = Len(stack) + 1
    BY <1>5, <2>2, HandFacts
  <2>3. CASE j # Len(stack) + 1
    BY <1>5, <2>1, <2>3, HandFacts, StackFacts DEF LiveOnTop
  <2> QED
    BY <2>2, <2>3
<1> QED
  BY <1>1, <1>2, <1>3, <1>4, <1>5, StackMoves

\* A process that takes a program into use is past looking.
LEMMA AtPrograms ==
  ASSUME TypeOK, NEW p \in Procs, Down(p) \/ UserLine(p) \/ MountDrive(p)
  PROVE  at[p].pc \notin {"idle", "look", "over", "done", "killed"} /\ Working(p)
  BY Onwards DEF Working

LEMMA HandOnTopStep ==
  ASSUME TypeOK, HandOnTop, Next
  PROVE  HandOnTop'
<1> DEFINE Others == \E i \in DOMAIN stack : stack[i].is = "other"
           Passive(p) == at[p].pc \in {"idle", "look", "over", "done", "killed"}
<1>1. CASE ByHand
  <2>1. Top'.is = "other"
    BY <1>1, HandFacts, StackFacts DEF Top
  <2>2. \A p \in Procs : Passive(p)'
    BY <1>1, HandFacts DEF Working, ByHand
  <2> QED
    BY <1>1, <2>1, <2>2, HandFacts DEF HandOnTop
<1>2. CASE ~ByHand /\ ~Others'
  BY <1>2 DEF HandOnTop
<1>3. CASE ~ByHand /\ Others'
  <2>1. Others
    <3>1. CASE UNCHANGED stack
      BY <1>3, <3>1
    <3>2. CASE Lowered
      BY <1>3, <3>2, LoweredFacts, StackFacts
    <3>3. CASE Raised
      BY <1>3, <3>3, RaisedFacts, StackFacts
    <3>4. CASE PullOut \/ Hold \/ Release
      BY <1>3, <3>4, Rekinded
    <3> QED
      BY <1>3, <3>1, <3>2, <3>3, <3>4, StackMoves
  <2>2. Top.is = "other" /\ late = {} /\ \A p \in Procs : Passive(p)
    BY <2>1 DEF HandOnTop
  <2>3. ~Late /\ \A p \in Procs : ~(Down(p) \/ UserLine(p) \/ MountDrive(p))
    BY <2>2, AtPrograms DEF Late
  <2>4. Len(stack) \in DOMAIN stack
    BY <2>1, StackFacts
  <2>5. Top'.is = "other"
    <3>1. CASE UNCHANGED stack
      BY <2>2, <3>1 DEF Top
    <3>2. CASE PullOut \/ Hold \/ Release
      BY <2>2, <2>4, <3>2, Rekinded DEF Top
    <3> QED
      BY <1>3, <2>3, <3>1, <3>2, StackMoves
  <2>6. ASSUME NEW p \in Procs, Enter(p) \/ EnterLoose(p) \/ Repair(p) \/ Crash(p)
        PROVE  Passive(p)' /\ late' = {}
    <3>1. CASE Enter(p) \/ EnterLoose(p)
      BY <2>2, <3>1, Around DEF Enter, EnterLoose, Runs
    <3>2. CASE Leave(p)
      BY <2>2, <3>2, Around DEF Leave, Runs, Procs
    <3>3. CASE Look(p)
      <4>1. State \notin {"STALE", "ABSENT"}
        BY <2>2, <2>4, StateIs, StackFacts DEF Answers
      <4> QED
        BY <2>2, <3>3, <4>1, Around DEF Look, Runs
    <3>4. CASE Crash(p)
      <4>1. at[p].pc \notin {"down", "mount", "line"}
        BY <2>2
      <4>2. late' = late
        BY <3>4, <4>1 DEF Crash
      <4> QED
        BY <2>2, <3>4, <4>2, Around
    <3>5. CASE Repair(p) /\ ~Look(p) /\ ~Leave(p)
      BY <2>2, <3>5, InRepair
    <3> QED
      BY <2>6, <3>1, <3>2, <3>3, <3>4, <3>5
  <2>7. ASSUME NEW p \in Procs, Enter(p) \/ EnterLoose(p) \/ Repair(p) \/ Crash(p)
        PROVE  \A q \in Procs : Passive(q)'
    BY <2>2, <2>6, <2>7, AtMoves
  <2>8. CASE Outside
    <3>1. late' = {}
      BY <1>3, <2>2, <2>3, <2>8 DEF Outside, KeepReading, Plug, PullOut, Hold, Release, Runs
    <3>2. \A p \in Procs : Passive(p)'
      BY <2>2, <2>8, OutsideQuiet
    <3> QED
      BY <2>5, <3>1, <3>2 DEF HandOnTop
  <2>9. CASE \E p \in Procs : Enter(p) \/ EnterLoose(p) \/ Repair(p) \/ Crash(p)
    BY <2>5, <2>6, <2>7, <2>9 DEF HandOnTop
  <2> QED
    BY <2>8, <2>9 DEF Next
<1> QED
  BY <1>1, <1>2, <1>3

-----------------------------------------------------------------------------
(* What a process found, under the lock. *)

\* A dead one stays dead until it is taken down.
LEMMA DeadStays ==
  ASSUME TypeOK, Dead, Next
  PROVE  \/ Dead' \/ Lowered \/ Raised \/ ByHand
<1>1. Len(stack) \in DOMAIN stack /\ stack # << >>
  BY StackFacts DEF Dead
<1>2. CASE UNCHANGED stack
  BY <1>2 DEF Dead, Top
<1>3. CASE PullOut \/ Hold \/ Release
  <2>1. /\ Len(stack') = Len(stack) /\ DOMAIN stack' = DOMAIN stack
        /\ stack'[Len(stack)].is = "dead"
    BY <1>1, <1>3, Rekinded DEF Dead, Top
  <2>2. stack' # << >>
    BY <1>1, <2>1
  <2> QED
    BY <2>1, <2>2 DEF Dead, Top
<1> QED
  BY <1>2, <1>3, StackMoves

LEMMA Resized ==
  ASSUME TypeOK, Lowered \/ Raised
  PROVE  Len(stack') # Len(stack) /\ ~PullOut /\ ~Hold /\ ~Release
<1>1. Len(stack) \in Nat
  BY StackFacts
<1>2. Lowered => Len(stack') = Len(stack) - 1
  BY LoweredFacts
<1>3. Raised => Len(stack') = Len(stack) + 1
  BY RaisedFacts
<1>4. Len(stack') # Len(stack)
  BY <1>1, <1>2, <1>3
<1>5. PullOut \/ Hold \/ Release => Len(stack') = Len(stack)
  BY Rekinded
<1> QED
  BY <1>4, <1>5

\* A mount of the drive is nothing else.
LEMMA RaisedOnly ==
  ASSUME TypeOK, Raised
  PROVE  ~UNCHANGED stack /\ ~Lowered /\ ~ByHand
<1>1. Len(stack) \in Nat
  BY StackFacts
<1>2. Len(stack') = Len(stack) + 1 /\ stack'[Len(stack) + 1].is = "live"
  BY RaisedFacts
<1>3. ~Lowered
  <2>1. Lowered => Len(stack') = Len(stack) - 1
    BY LoweredFacts
  <2> QED
    BY <1>1, <1>2, <2>1
<1>4. ~ByHand
  <2>1. ByHand => stack'[Len(stack) + 1].is = "other"
    BY HandFacts
  <2> QED
    BY <1>2, <2>1
<1> QED
  BY <1>1, <1>2, <1>3, <1>4

\* Who moves the mount point under the lock, when p is at work there.
LEMMA Undisturbed ==
  ASSUME TypeOK, AtWorkLocked, LateStrayed, Guarded, Next,
         NEW p \in Procs, Working(p), Lowered \/ Raised \/ ByHand
  PROVE  Down(p) \/ UserLine(p) \/ MountDrive(p)
<1>1. ~Late
  BY DEF Late, LateStrayed, Guarded
<1>2. ~ByHand
  BY HandFacts
<1>3. ASSUME NEW q \in Procs, Down(q) \/ UserLine(q) \/ MountDrive(q)
      PROVE  q = p
  BY <1>3, Alone, AtPrograms
<1>4. Len(stack') # Len(stack) /\ ~PullOut /\ ~Hold /\ ~Release
  BY <1>2, Resized
<1> QED
  BY <1>1, <1>2, <1>3, <1>4, StackMoves

LEMMA StillDeadStep ==
  ASSUME TypeOK, AtWorkLocked, SawIsKept, LateStrayed, StillDead, Next
  PROVE  StillDead'
<1> SUFFICES ASSUME Guarded', NEW p \in Procs, ToTakeDown(p)'
             PROVE  Dead'
  BY DEF StillDead
<1>1. Guarded
  BY GuardedBefore
<1>2. ASSUME ToTakeDown(p), ~Down(p) PROVE Dead'
  <2>1. Working(p) /\ Dead
    BY <1>1, <1>2 DEF ToTakeDown, Working, StillDead
  <2>2. at[p].pc \notin {"line", "mount"}
    BY <1>2 DEF ToTakeDown
  <2>3. ~UserLine(p) /\ ~MountDrive(p)
    BY <2>2, Onwards
  <2>4. ~Lowered /\ ~Raised /\ ~ByHand
    BY <1>1, <1>2, <2>1, <2>3, Undisturbed
  <2> QED
    BY <2>1, <2>4, DeadStays
<1>3. CASE ~ToTakeDown(p) \/ Down(p)
  <2>1. CASE Down(p)
    BY <2>1, Onwards DEF ToTakeDown, Onto
  <2>2. CASE Look(p)
    <3>1. at'[p].pc = "holders" /\ UNCHANGED stack
      BY <2>2, Around DEF ToTakeDown, Look, Runs
    <3>2. Dead
      BY <2>2, <3>1, Around, StaleIsDead
    <3> QED
      BY <3>1, <3>2 DEF Dead, Top
  <2>3. CASE Repair(p) /\ ~Look(p) /\ ~Leave(p) /\ ~Down(p)
    <3>1. ~ToTakeDown(p)
      BY <1>3, <2>3
    <3>2. CASE UserLine(p) \/ Seen(p)
      BY <3>2, Onwards DEF ToTakeDown, Onto, Kept, SawIsKept
    <3>3. CASE Road(p)
      BY <3>1, <3>3, Onwards DEF ToTakeDown, Onto, Kept
    <3>4. CASE Holders(p)
      BY <3>1, <3>4, Onwards DEF ToTakeDown
    <3>5. CASE Again(p) \/ Place(p) \/ MakeDir(p) \/ MountDrive(p) \/ Check(p)
      BY <3>5, Onwards DEF ToTakeDown, Onto
    <3> QED
      BY <2>3, <3>2, <3>3, <3>4, <3>5 DEF Repair
  <2>4. CASE Enter(p) \/ EnterLoose(p) \/ Leave(p) \/ Crash(p)
    BY <2>4, Around DEF ToTakeDown, Procs
  <2>5. CASE Outside
    BY <1>3, <2>1, <2>5, OutsideQuiet DEF ToTakeDown
  <2>6. ASSUME NEW q \in Procs, q # p,
               Enter(q) \/ EnterLoose(q) \/ Repair(q) \/ Crash(q)
        PROVE  Dead'
    BY <1>3, <2>1, <2>6, AtMoves DEF ToTakeDown
  <2> QED
    BY <2>1, <2>2, <2>3, <2>4, <2>5, <2>6 DEF Next
<1> QED
  BY <1>2, <1>3

\* Where the drive does not answer, there is no live mount of it.
LEMMA UnhealthyMeansNoneLive ==
  ASSUME TypeOK, LiveOnTop, State # "HEALTHY"
  PROVE  Live = {}
<1>1. CASE State = "STALE"
  BY <1>1, StaleIsDead, DeadMeansNoneLive
<1>2. CASE State # "STALE"
  <2>1. ~Row
    BY <1>2, StateIs
  <2> QED
    BY <2>1 DEF Row, Live
<1> QED
  BY <1>1, <1>2

\* The live mounts only ever grow by a mount of the drive.
LEMMA LiveMoves ==
  ASSUME TypeOK, Next
  PROVE  Live' \subseteq Live \/ (Raised /\ Live' = Live \cup {Len(stack) + 1})
<1>1. CASE UNCHANGED stack
  BY <1>1 DEF Live
<1>2. CASE Lowered
  BY <1>2, LoweredFacts, StackFacts DEF Live
<1>3. CASE Raised
  BY <1>3, RaisedFacts, StackFacts DEF Live
<1>4. CASE PullOut \/ Hold \/ Release
  BY <1>4, Rekinded DEF Live
<1>5. CASE ByHand
  BY <1>5, HandFacts, StackFacts DEF Live
<1> QED
  BY <1>1, <1>2, <1>3, <1>4, <1>5, StackMoves

\* Past Seen, the drive was found not to answer.
LEMMA SeenUnhealthy ==
  ASSUME TypeOK, NEW p \in Procs, Seen(p), at'[p].pc # "over"
  PROVE  State # "HEALTHY" /\ UNCHANGED stack
<1>1. at \in [Procs -> At] /\ at[p] \in At
  BY DEF TypeOK
<1>2. ASSUME Ends(p, "REMOUNTED")
      PROVE  at'[p].pc = "over"
  BY <1>1, <1>2 DEF Ends, At
<1>3. State # "HEALTHY"
  BY <1>2 DEF Seen
<1>4. UNCHANGED stack
  BY DEF Seen, Runs
<1> QED
  BY <1>3, <1>4

LEMMA NotYetThereStep ==
  ASSUME TypeOK, AtWorkLocked, SawIsKept, LateStrayed, LiveOnTop, StillDead,
         NotYetThere, Next
  PROVE  NotYetThere'
<1> SUFFICES ASSUME Guarded', granted' => timeouts' = 0
             PROVE  /\ \A i, j \in Live' : i = j
                    /\ \A p \in Procs : (ToMount(p) \/ at[p].pc = "again")' => Live' = {}
  BY DEF NotYetThere
<1>1. Guarded
  BY GuardedBefore
<1>2. granted => timeouts = 0 /\ timeouts' = 0
  <2>1. timeouts' = 0 => timeouts = 0
    <3>1. timeouts \in Nat
      BY DEF TypeOK
    <3> QED
      BY <3>1, StrayedStays
  <2>2. granted' = granted
    BY MachineStays
  <2> QED
    BY <2>1, <2>2
<1>3. /\ \A i, j \in Live : i = j
      /\ \A p \in Procs : ToMount(p) \/ at[p].pc = "again" => Live = {}
  BY <1>1, <1>2 DEF NotYetThere
<1>4. \A i, j \in Live' : i = j
  <2>1. CASE Live' \subseteq Live
    BY <1>3, <2>1
  <2>2. CASE Raised /\ Live' = Live \cup {Len(stack) + 1}
    <3>1. ~Late
      BY <1>1 DEF Late, LateStrayed, Guarded
    <3>2. PICK p \in Procs : Down(p) \/ UserLine(p) \/ MountDrive(p)
      BY <2>2, <3>1, StackMoves, Resized, RaisedOnly
    <3>3. Down(p) => Dead
      BY <1>1, Onwards DEF StillDead, ToTakeDown
    <3>4. Live = {}
      BY <1>3, <3>2, <3>3, Onwards, DeadMeansNoneLive DEF ToMount
    <3> QED
      BY <2>2, <3>4
  <2> QED
    BY <2>1, <2>2, LiveMoves
<1>5. ASSUME NEW p \in Procs, (ToMount(p) \/ at[p].pc = "again")'
      PROVE  Live' = {}
  <2>1. CASE UserLine(p)
    <3>1. at'[p].pc = "road" /\ Live = {}
      BY <1>3, <1>5, <2>1, Onwards DEF ToMount, Onto
    <3>2. UNCHANGED stack
      <4>1. at \in [Procs -> At]
        BY DEF TypeOK
      <4>2. ~Goes(p, "seen")
        BY <3>1, <4>1 DEF Goes, At
      <4>3. ~(granted /\ CutOff("mount"))
        BY <1>2, <2>1 DEF CutOff
      <4> QED
        BY <2>1, <4>2, <4>3 DEF UserLine, Runs
    <3> QED
      BY <3>1, <3>2 DEF Live
  <2>2. CASE MountDrive(p)
    BY <1>5, <2>2, Onwards DEF ToMount, Onto
  <2>3. CASE Down(p)
    <3>1. Live = {}
      BY <1>1, <2>3, Onwards, DeadMeansNoneLive DEF StillDead, ToTakeDown
    <3>2. ~Raised
      <4>1. stack' \in {stack, After("umount")}
        BY <2>3 DEF Down, InTime, CutOff
      <4>2. stack' = stack \/ Lowered
        BY <4>1, Effect
      <4> QED
        BY <4>2, RaisedOnly
    <3> QED
      BY <3>1, <3>2, LiveMoves
  <2>4. CASE /\ ToMount(p) \/ at[p].pc = "again"
             /\ ~UserLine(p) /\ ~MountDrive(p) /\ ~Down(p)
    <3>1. Working(p) /\ Live = {}
      BY <1>3, <2>4 DEF ToMount, Working
    <3>2. ~Raised
      BY <1>1, <2>4, <3>1, Undisturbed
    <3> QED
      BY <3>1, <3>2, LiveMoves
  <2>5. CASE /\ ~(ToMount(p) \/ at[p].pc = "again")
             /\ ~UserLine(p) /\ ~MountDrive(p) /\ ~Down(p)
    <3>1. CASE Look(p) \/ Seen(p)
      <4>1. State # "HEALTHY" /\ UNCHANGED stack
        <5>1. CASE Look(p)
          BY <1>5, <5>1, Around, StateIs DEF ToMount, Look, Runs
        <5>2. CASE Seen(p)
          <6>1. at'[p].pc # "over"
            BY <1>5 DEF ToMount
          <6> QED
            BY <5>2, <6>1, SeenUnhealthy
        <5> QED
          BY <3>1, <5>1, <5>2
      <4> QED
        BY <4>1, UnhealthyMeansNoneLive DEF Live
    <3>2. CASE Holders(p) \/ Road(p)
      BY <1>5, <2>5, <3>2, Onwards DEF ToMount, Onto, Kept, SawIsKept
    <3>3. CASE Again(p) \/ Place(p) \/ MakeDir(p) \/ Check(p)
      BY <1>5, <2>5, <3>3, Onwards DEF ToMount, Onto
    <3>4. CASE Enter(p) \/ EnterLoose(p) \/ Leave(p) \/ Crash(p)
      BY <1>5, <3>4, Around DEF ToMount, Procs
    <3>5. CASE Outside
      BY <1>5, <2>5, <3>5, OutsideQuiet DEF ToMount
    <3>6. ASSUME NEW q \in Procs, q # p,
                 Enter(q) \/ EnterLoose(q) \/ Repair(q) \/ Crash(q)
          PROVE  Live' = {}
      BY <1>5, <2>5, <3>6, AtMoves DEF ToMount
    <3> QED
      BY <2>5, <3>1, <3>2, <3>3, <3>4, <3>5, <3>6 DEF Next, Repair
  <2> QED
    BY <2>1, <2>2, <2>3, <2>4, <2>5
<1> QED
  BY <1>4, <1>5

-----------------------------------------------------------------------------
(* A directory with files of its own. *)

\* A dead mount of the drive on top is a stale one.
LEMMA DeadIsStale == ASSUME TypeOK, Dead PROVE State = "STALE"
<1>1. Len(stack) \in DOMAIN stack
  BY StackFacts DEF Dead
<1>2. Row /\ ~Answers
  BY <1>1 DEF Dead, Row, Answers, Top
<1> QED
  BY <1>2, StateIs

\* Nothing of the program's is put over such a directory.
LEMMA FullNotRaised ==
  ASSUME TypeOK, FullUncovered, Next, under, ~granted
  PROVE  ~Raised
<1>1. late \subseteq {"umount"} /\ \A p \in Procs : at[p].pc # "mount"
  BY DEF FullUncovered
<1>2. Late => stack' = stack \/ Lowered
  BY <1>1, Effect DEF Late
<1>3. ASSUME NEW p \in Procs, Down(p)
      PROVE  stack' = stack \/ Lowered
  BY <1>3, Effect DEF Down, InTime, CutOff
<1>4. ASSUME NEW p \in Procs, UserLine(p) \/ MountDrive(p)
      PROVE  UNCHANGED stack
  BY <1>1, <1>4 DEF UserLine, MountDrive, Runs
<1> QED
  BY <1>2, <1>3, <1>4, StackMoves, RaisedOnly, Resized

LEMMA BareStays ==
  ASSUME TypeOK, FullUncovered, Next, under, ~granted, stack = << >>, ~ByHand
  PROVE  stack' = << >>
<1>1. ~Lowered /\ ~Raised
  BY FullNotRaised DEF Lowered
<1>2. PullOut \/ Hold \/ Release => Len(stack') = 0 /\ stack' \in Seq(Mount)
  BY Rekinded, StackStep
<1> QED
  BY <1>1, <1>2, StackMoves

LEMMA FullUncoveredStep ==
  ASSUME TypeOK, SawIsKept, FullUncovered, Next
  PROVE  FullUncovered'
<1> SUFFICES ASSUME under', ~granted'
             PROVE  /\ dir' = "dir" /\ late' \subseteq {"umount"}
                    /\ \A i \in DOMAIN stack' : i > 1 => stack'[i].is = "other"
                    /\ \A p \in Procs :
                         /\ at'[p].pc \notin {"mkdir", "mount", "check", "seen"}
                         /\ ToMount(p)' => stack' = << >>
                         /\ (ToTakeDown(p) \/ at[p].pc = "again")'
                              => stack' = << >> \/ Dead'
  BY DEF FullUncovered
<1>1. under /\ ~granted
  <2>1. under' = under /\ granted' = granted
    BY MachineStays
  <2> QED
    BY <2>1
<1>2. /\ dir = "dir" /\ late \subseteq {"umount"}
      /\ \A i \in DOMAIN stack : i > 1 => stack[i].is = "other"
      /\ \A p \in Procs :
           /\ at[p].pc \notin {"mkdir", "mount", "check", "seen"}
           /\ ToMount(p) => stack = << >>
           /\ ToTakeDown(p) \/ at[p].pc = "again" => stack = << >> \/ Dead
  BY <1>1 DEF FullUncovered
<1>3. dir' = "dir"
  BY <1>2, DirStep
<1>4. ASSUME NEW p \in Procs
      PROVE  /\ ~MountDrive(p) /\ ~MakeDir(p) /\ ~Check(p) /\ ~Seen(p)
             /\ UserLine(p) => UNCHANGED Runs /\ Goes(p, "road")
  BY <1>1, <1>2, Onwards DEF UserLine
<1>5. late' \subseteq {"umount"}
  <2>1. ASSUME NEW p \in Procs, Down(p)
        PROVE  late' \subseteq late \cup {"umount"}
    BY <2>1 DEF Down, InTime, CutOff
  <2>2. ASSUME NEW p \in Procs, Crash(p)
        PROVE  late' \subseteq late \cup {"umount"}
    BY <1>1, <1>2, <2>2 DEF Crash
  <2>3. ASSUME NEW p \in Procs,
               \/ Enter(p) \/ EnterLoose(p) \/ Look(p) \/ Holders(p) \/ UserLine(p)
               \/ Road(p) \/ Again(p) \/ Place(p) \/ Leave(p)
        PROVE  late' = late
    BY <1>4, <2>3 DEF Enter, EnterLoose, Look, Holders, Road, Again, Place, Leave, Runs
  <2>4. Outside => late' \subseteq late
    BY DEF Outside, Late, KeepReading, Plug, PullOut, Hold, Release, ByHand, Runs
  <2> QED
    BY <1>2, <1>4, <2>1, <2>2, <2>3, <2>4 DEF Next, Repair
<1>6. ~Raised
  BY <1>1, FullNotRaised
<1>7. \A i \in DOMAIN stack' : i > 1 => stack'[i].is = "other"
  <2>1. CASE UNCHANGED stack
    BY <1>2, <2>1
  <2>2. CASE Lowered
    BY <1>2, <2>2, LoweredFacts, StackFacts
  <2>3. CASE PullOut \/ Hold \/ Release
    BY <1>2, <2>3, Rekinded
  <2>4. CASE ByHand
    <3> SUFFICES ASSUME NEW i \in DOMAIN stack', i > 1
                 PROVE  stack'[i].is = "other"
      OBVIOUS
    <3>1. CASE i = Len(stack) + 1
      BY <2>4, <3>1, HandFacts
    <3>2. CASE i # Len(stack) + 1
      BY <1>2, <2>4, <3>2, HandFacts, StackFacts
    <3> QED
      BY <3>1, <3>2
  <2> QED
    BY <1>6, <2>1, <2>2, <2>3, <2>4, StackMoves
<1>8. Dead /\ Lowered => stack' = << >>
  <2> SUFFICES ASSUME Dead, Lowered PROVE stack' = << >>
    OBVIOUS
  <2>1. Len(stack) \in DOMAIN stack /\ stack[Len(stack)].is # "other"
    BY StackFacts DEF Dead, Top
  <2>2. Len(stack) = 1
    BY <1>2, <2>1, StackFacts
  <2> QED
    BY <2>2, LoweredFacts
<1>9. stack = << >> /\ ~ByHand => stack' = << >>
  BY <1>1, BareStays
<1>10. ASSUME NEW p \in Procs
       PROVE  /\ at'[p].pc \notin {"mkdir", "mount", "check", "seen"}
              /\ ToMount(p)' => stack' = << >>
              /\ (ToTakeDown(p) \/ at[p].pc = "again")' => stack' = << >> \/ Dead'
  <2> DEFINE Rights == /\ at'[p].pc \notin {"mkdir", "mount", "check", "seen"}
                       /\ ToMount(p)' => stack' = << >>
                       /\ (ToTakeDown(p) \/ at[p].pc = "again")'
                            => stack' = << >> \/ Dead'
  <2>1. Working(p) => ~ByHand
    BY HandFacts
  <2>2. ToMount(p) \/ ToTakeDown(p) \/ at[p].pc = "again" => Working(p)
    BY DEF ToMount, ToTakeDown, Working
  <2>3. ToMount(p) => stack' = << >>
    BY <1>2, <1>9, <2>1, <2>2
  <2>4. ToTakeDown(p) \/ at[p].pc = "again" => stack' = << >> \/ Dead'
    BY <1>2, <1>6, <1>8, <1>9, <2>1, <2>2, DeadStays
  <2>5. CASE Look(p)
    <3>1. UNCHANGED stack
      BY <2>5 DEF Look, Runs
    <3>2. State = "ABSENT" => stack' = << >>
      BY <3>1, StateIs
    <3>3. State = "STALE" => Dead'
      BY <3>1, StaleIsDead DEF Dead, Top
    <3> QED
      BY <2>5, <3>2, <3>3, Around DEF ToMount, ToTakeDown
  <2>6. CASE Holders(p)
    BY <2>4, <2>6, Onwards DEF ToMount, ToTakeDown, Onto, Kept, SawIsKept
  <2>7. CASE UserLine(p)
    <3>1. at[p].pc = "line" /\ at'[p].pc \in {"seen", "road"} /\ at'[p].saw = "ABSENT"
      BY <2>7, Onwards DEF Onto, Kept, SawIsKept
    <3>2. at'[p].pc = "road"
      BY <1>4, <2>7 DEF Goes, TypeOK, At
    <3>3. stack' = << >>
      BY <2>3, <3>1 DEF ToMount
    <3> QED
      BY <3>1, <3>2, <3>3 DEF ToMount, ToTakeDown
  <2>8. CASE Road(p)
    BY <2>3, <2>4, <2>8, Onwards DEF ToMount, ToTakeDown, Onto, Kept
  <2>9. CASE Down(p)
    BY <2>4, <2>9, Onwards DEF ToMount, ToTakeDown, Onto
  <2>10. CASE Again(p)
    <3>1. at'[p].pc = "place" => stack' = << >>
      <4>1. at'[p].pc = "place" => State # "STALE"
        BY <2>10, Onwards
      <4>2. at[p].pc = "again" /\ UNCHANGED stack
        BY <2>10, Onwards DEF Again, Runs
      <4> QED
        BY <1>2, <4>1, <4>2, DeadIsStale
    <3> QED
      BY <2>10, <3>1, Onwards DEF ToMount, ToTakeDown, Onto
  <2>11. CASE Place(p)
    <3>1. stack = << >>
      BY <1>2, <2>11, Onwards DEF ToMount
    <3>2. Refuses(p)
      BY <1>1, <1>2, <2>11, <3>1 DEF Place, Content
    <3>3. at'[p].pc = "over"
      BY <3>2 DEF Refuses, Ends, TypeOK, At
    <3> QED
      BY <3>3 DEF ToMount, ToTakeDown
  <2>12. CASE Enter(p) \/ EnterLoose(p) \/ Leave(p) \/ Crash(p)
    <3>1. at'[p].pc \in {"idle", "look", "done", "killed"}
      BY <2>12, Around DEF Procs
    <3> QED
      BY <3>1 DEF ToMount, ToTakeDown
  <2>13. CASE at'[p] = at[p]
    BY <1>2, <2>3, <2>4, <2>13 DEF ToMount, ToTakeDown
  <2>14. ASSUME NEW q \in Procs, q # p,
                Enter(q) \/ EnterLoose(q) \/ Repair(q) \/ Crash(q)
         PROVE  at'[p] = at[p]
    BY <2>14, AtMoves
  <2>15. Outside => at'[p] = at[p]
    BY OutsideQuiet
  <2>16. CASE Enter(p) \/ EnterLoose(p) \/ Repair(p) \/ Crash(p)
    BY <1>4, <2>5, <2>6, <2>7, <2>8, <2>9, <2>10, <2>11, <2>12, <2>16 DEF Repair
  <2> QED
    BY <2>13, <2>14, <2>15, <2>16 DEF Next
<1> QED
  BY <1>3, <1>5, <1>7, <1>10

-----------------------------------------------------------------------------
(* The invariant. *)

LEMMA IInvInit == Init => IInv
<1> SUFFICES ASSUME Init PROVE IInv
  OBVIOUS
<1>1. TypeOK
  BY TypeInit
<1>2. \A p \in Procs : at[p].pc = "idle"
  BY DEF Init, Idle
<1>3. late = {} /\ (under => dir = "dir")
  BY DEF Init
<1>4. Len(stack) \in {0, 1} /\ \A i \in DOMAIN stack : i = 1 /\ stack[i].is # "other"
  <2>1. stack = << >> \/ \E m : stack = <<m>> /\ m.is # "other"
    <3>1. \A k \in {"live", "dead"}, h \in BOOLEAN : [is |-> k, held |-> h].is # "other"
      OBVIOUS
    <3> QED
      BY <3>1 DEF Init
  <2> QED
    BY <2>1
<1>5. AtWorkLocked /\ SawIsKept /\ LateStrayed
  BY <1>2, <1>3 DEF AtWorkLocked, SawIsKept, LateStrayed
<1>6. LiveOnTop /\ HandOnTop
  BY <1>4 DEF LiveOnTop, HandOnTop
<1>7. \A p \in Procs : ~ToMount(p) /\ ~ToTakeDown(p) /\ at[p].pc # "again"
  BY <1>2 DEF ToMount, ToTakeDown
<1>8. StillDead /\ NotYetThere
  BY <1>4, <1>7 DEF StillDead, NotYetThere, Live
<1>9. FullUncovered
  BY <1>2, <1>3, <1>4, <1>7 DEF FullUncovered
<1> QED
  BY <1>1, <1>5, <1>6, <1>8, <1>9 DEF IInv

LEMMA IInvStep == IInv /\ [Next]_vars => IInv'
<1>1. CASE IInv /\ Next
  <2>1. TypeOK' /\ AtWorkLocked' /\ SawIsKept' /\ LateStrayed' /\ LiveOnTop'
    BY <1>1, TypeStep, AtWorkLockedStep, SawIsKeptStep, LateStrayedStep, LiveOnTopStep
       DEF IInv
  <2>2. HandOnTop' /\ StillDead' /\ NotYetThere' /\ FullUncovered'
    BY <1>1, HandOnTopStep, StillDeadStep, NotYetThereStep, FullUncoveredStep DEF IInv
  <2> QED
    BY <2>1, <2>2 DEF IInv
<1>2. CASE IInv /\ UNCHANGED vars
  BY <1>2 DEF vars, machine, bounds, IInv, TypeOK, AtWorkLocked, SawIsKept,
              LateStrayed, LiveOnTop, HandOnTop, StillDead, NotYetThere,
              FullUncovered, Guarded, ToMount, ToTakeDown, Live, Dead, Top
<1> QED
  BY <1>1, <1>2

\* While every repair is made under mount.lock and no program went on by
\* itself, what a process saw dead stays dead until it took it down, and nobody
\* is on the way to mount where the drive is up; nothing dead or of the
\* program's ever comes to lie over what must not be covered.  This is what
\* the theorems below rest on (gs_mount_repair in mount_repair.c, the lock in
\* gs_mount_restore_all).
THEOREM IInvHolds == Spec => []IInv
<1>1. Init => IInv
  BY IInvInit
<1>2. IInv /\ [Next]_vars => IInv'
  BY IInvStep
<1> QED
  BY <1>1, <1>2, PTL DEF Spec

-----------------------------------------------------------------------------
(* The theorems. *)

\* While every repair runs under mount.lock and no program went on by itself,
\* no repair takes down a drive that answers, whoever looked at it and when.
THEOREM LiveAlwaysStays == Spec => LiveStays
<1>1. ASSUME IInv, Next, Guarded'
      PROVE  \A i \in Live : i \in DOMAIN stack'
  <2>1. TypeOK /\ Guarded
    BY <1>1, GuardedBefore DEF IInv
  <2>2. CASE Lowered
    <3>1. ~Late
      BY <1>1, <2>1 DEF Late, LateStrayed, Guarded, IInv
    <3>2. PICK p \in Procs : Down(p)
      BY <1>1, <2>1, <2>2, <3>1, StackMoves, Resized, RaisedOnly, HandFacts, LoweredFacts,
         StackFacts
    <3>3. Dead
      BY <1>1, <2>1, <3>2, Onwards DEF StillDead, ToTakeDown, IInv
    <3> QED
      BY <1>1, <2>1, <3>3, DeadMeansNoneLive DEF IInv
  <2>3. CASE UNCHANGED stack \/ PullOut \/ Hold \/ Release
    BY <2>1, <2>3, Rekinded DEF Live
  <2>4. CASE Raised \/ ByHand
    BY <2>1, <2>4, RaisedFacts, HandFacts, StackFacts DEF Live
  <2> QED
    BY <1>1, <2>1, <2>2, <2>3, <2>4, StackMoves
<1>2. UNCHANGED vars => \A i \in Live : i \in DOMAIN stack'
  BY DEF vars, Live
<1>3. IInv /\ [Next]_vars => [Guarded' => \A i \in Live : i \in DOMAIN stack']_vars
  BY <1>1, <1>2
<1> QED
  BY <1>3, IInvHolds, PTL DEF Spec, LiveStays

\* ... and no repair mounts the drive a second time over itself.
THEOREM MountedOnce == Spec => []OneMount
<1>1. ASSUME NEW S, \A i, j \in S : i = j
      PROVE  Cardinality(S) <= 1
  <2>1. CASE S = {}
    BY <2>1, FS_EmptySet
  <2>2. CASE S # {}
    <3>1. PICK x \in S : S = {x}
      BY <1>1, <2>2
    <3> QED
      BY <3>1, FS_Singleton
  <2> QED
    BY <2>1, <2>2
<1>2. IInv => OneMount
  BY <1>1 DEF IInv, NotYetThere, OneMount
<1> QED
  BY <1>2, IInvHolds, PTL

\* A filesystem a person mounted there is neither taken down nor covered.
THEOREM OthersAlwaysStay == Spec => OthersStay
<1> DEFINE Stays == \A i \in DOMAIN stack : stack[i].is = "other" =>
                      \/ byhand' # byhand
                      \/ i \in DOMAIN stack' /\ Len(stack') = Len(stack)
<1>1. ASSUME IInv, Next PROVE Stays
  <2> SUFFICES ASSUME NEW i \in DOMAIN stack, stack[i].is = "other", byhand' = byhand
               PROVE  i \in DOMAIN stack' /\ Len(stack') = Len(stack)
    OBVIOUS
  <2>1. TypeOK
    BY <1>1 DEF IInv
  <2>2. late = {} /\ \A p \in Procs : ~(Down(p) \/ UserLine(p) \/ MountDrive(p))
    BY <1>1, <2>1, AtPrograms DEF IInv, HandOnTop
  <2>3. ~Late
    BY <2>2 DEF Late
  <2>4. ~ByHand
    <3>1. byhand \in Nat
      BY <2>1 DEF TypeOK
    <3> QED
      BY <3>1 DEF ByHand
  <2> QED
    BY <1>1, <2>1, <2>2, <2>3, <2>4, StackMoves, Rekinded
<1>2. UNCHANGED vars => Stays
  BY DEF vars
<1>3. IInv /\ [Next]_vars => [Stays]_<<stack, byhand>>
  BY <1>1, <1>2
<1> QED
  BY <1>3, IInvHolds, PTL DEF Spec, OthersStay

\* Where no line of /etc/fstab is used, files the directory holds are never
\* covered, whatever is cut off or killed and however many are at it.
THEOREM FilesAlwaysInSight == Spec => FilesInSight
<1> DEFINE Bare == under /\ stack = << >> /\ ~granted =>
                      stack' = << >> \/ byhand' # byhand
<1>1. ASSUME IInv, Next PROVE Bare
  <2> SUFFICES ASSUME under, stack = << >>, ~granted, byhand' = byhand
               PROVE  stack' = << >>
    OBVIOUS
  <2>1. TypeOK /\ FullUncovered
    BY <1>1 DEF IInv
  <2>2. ~ByHand
    <3>1. byhand \in Nat
      BY <2>1 DEF TypeOK
    <3> QED
      BY <3>1 DEF ByHand
  <2> QED
    BY <1>1, <2>1, <2>2, BareStays
<1>2. UNCHANGED vars => Bare
  BY DEF vars
<1>3. IInv /\ [Next]_vars => [Bare]_stack
  BY <1>1, <1>2
<1> QED
  BY <1>3, IInvHolds, PTL DEF Spec, FilesInSight

-----------------------------------------------------------------------------
(* What it takes for the README to be right about a drive that answers. *)

\* Nothing was cut off, and nobody killed.
NoMishap == ~strayed /\ timeouts = 0

\* Where no mishap is allowed, no step brings one.
LEMMA NoMishapStep ==
  ASSUME MaxMishaps = 0, TypeOK, NoMishap, [Next]_vars
  PROVE  NoMishap'
<1>1. timeouts \in Nat /\ crashes \in Nat
  BY DEF TypeOK
<1>2. ~(timeouts + crashes < MaxMishaps)
  BY <1>1
<1>3. CASE UNCHANGED vars
  BY <1>3 DEF vars, bounds, NoMishap
<1>4. ASSUME NEW p \in Procs, UserLine(p) \/ Down(p) \/ MountDrive(p)
      PROVE  UNCHANGED <<strayed, timeouts>>
  BY <1>2, <1>4 DEF UserLine, Down, MountDrive, InTime, CutOff, Runs
<1>5. ASSUME NEW p \in Procs,
             \/ Enter(p) \/ EnterLoose(p) \/ Look(p) \/ Holders(p) \/ Seen(p)
             \/ Road(p) \/ Again(p) \/ Place(p) \/ MakeDir(p) \/ Check(p) \/ Leave(p)
      PROVE  UNCHANGED <<strayed, timeouts>>
  BY <1>2, <1>5 DEF Enter, EnterLoose, Look, Holders, Seen, Road, Again, Place, MakeDir,
                    Check, Leave, Runs
<1>6. ASSUME NEW p \in Procs, Crash(p)
      PROVE  FALSE
  BY <1>2, <1>6 DEF Crash
<1>7. ASSUME Outside
      PROVE  UNCHANGED <<strayed, timeouts>>
  BY <1>7 DEF Outside, Late, KeepReading, Plug, PullOut, Hold, Release, ByHand, Runs
<1> QED
  BY <1>3, <1>4, <1>5, <1>6, <1>7 DEF Next, Repair, NoMishap

\* What the README says of a drive that answers, and of the lock, is so
\* wherever there are windows only, any number of them, and every program
\* ended in time: the command's second round and the deadline are what it
\* takes to break it (mount_run in mount.c, gs_proc_run).
THEOREM WindowsLeaveIt ==
  ASSUME Commands = {}, MaxMishaps = 0
  PROVE  Spec => AnsweringIsLeft /\ [](Cardinality(Live) <= 1)
<1>1. Init => NoMishap
  BY DEF Init, NoMishap
<1>2. Spec => []NoMishap
  BY <1>1, TypesHold, NoMishapStep, PTL DEF Spec
<1>3. NoMishap => Guarded
  BY DEF NoMishap, Guarded
<1>4. NoMishap /\ OneMount => Cardinality(Live) <= 1
  BY DEF NoMishap, Guarded, OneMount
<1>5. NoMishap' /\ [Guarded' => \A i \in Live : i \in DOMAIN stack']_vars
        => [\A i \in Live : i \in DOMAIN stack']_vars
  BY DEF NoMishap, Guarded
<1> QED
  BY <1>2, <1>4, <1>5, LiveAlwaysStays, MountedOnce, PTL DEF LiveStays, AnsweringIsLeft
=============================================================================
