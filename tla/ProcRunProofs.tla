--------------------------- MODULE ProcRunProofs ---------------------------
(***************************************************************************)
(* Any number of threads, of any sizes of pipe and answer: proofs that no  *)
(* call leaves anything open, that the answer of a call that went well is  *)
(* whole, and that a thread that is alone never takes a program that has   *)
(* ended for one that is late.                                             *)
(***************************************************************************)
EXTENDS ProcRun, TLAPS

\* What thread t has open and runs at each place of a call.
Placed(t) ==
  /\ ear[t] <=> pc[t] \in {"open", "forked", "poll"}
  /\ mouth[t] <=> pc[t] \in {"open", "forked"}
  /\ prog[t] = "none" <=> pc[t] \in {"idle", "open"}
  /\ pc[t] \in {"idle", "reap"} => feed[t] # "open"
  /\ pc[t] \in {"open", "forked"} => form[t] \in Timed
  /\ pc[t] \in {"poll", "reap"} => form[t] \in Timed \cup Shells

\* Everything written is in the answer or in the channel, until the answer is
\* full.
Accounted(t) ==
  /\ kept[t] < Room => wrote[t] = Least(kept[t] + chan[t], Room + 1)
  /\ kept[t] = Room => wrote[t] >= Room

Whole(t) == kept[t] = Least(wrote[t], Room)

\* The account holds while there is a channel, and is settled when it goes.
Kept(t) ==
  /\ pc[t] \in {"open", "forked", "poll"} => Accounted(t) /\ ~cut[t]
  /\ pc[t] = "reap" /\ form[t] \in Shells => ~cut[t]
  /\ pc[t] = "reap" /\ ~cut[t] => Whole(t)
  /\ pc[t] = "idle" /\ result[t] = "OK" /\ form[t] # "spawn" => ~cut[t] /\ Whole(t)

\* The inductive invariant.
IInv == TypeOK /\ \A t \in Threads : Placed(t) /\ Kept(t)

-----------------------------------------------------------------------------
LEMMA InitHolds == Init => IInv
BY ProcAssumption DEF Init, IInv, TypeOK, Placed, Kept, Accounted, Whole, Least, Timed,
   Shells, Forms

\* A step that leaves all of this of u alone leaves what is known of u.
Same(u) ==
  /\ form'[u] = form[u] /\ pc'[u] = pc[u] /\ result'[u] = result[u]
  /\ kept'[u] = kept[u] /\ cut'[u] = cut[u] /\ ear'[u] = ear[u]
  /\ mouth'[u] = mouth[u] /\ feed'[u] = feed[u] /\ chan'[u] = chan[u]
  /\ prog'[u] = prog[u] /\ wrote'[u] = wrote[u]

LEMMA OthersKeep ==
  ASSUME IInv, NEW t \in Threads, TypeOK', Placed(t)' /\ Kept(t)',
         \A u \in Threads \ {t} : Same(u)
  PROVE  IInv'
<1>1. ASSUME NEW u \in Threads \ {t}
      PROVE  Placed(u)' /\ Kept(u)'
  <2>1. Placed(u) /\ Kept(u) /\ Same(u)
    BY DEF IInv
  <2>2. QED
    BY <2>1 DEF Same, Placed, Kept, Accounted, Whole, Least
<1>2. QED
  BY <1>1 DEF IInv

\* Pipes change hands without anything else being known of them.
LEMMA HandsTyped ==
  ASSUME TypeOK, NEW x \in Threads \cup {Server}
  PROVE  /\ Inherit(x) \in [Threads -> SUBSET (Threads \cup {Server})]
         /\ LetGo(x) \in [Threads -> SUBSET (Threads \cup {Server})]
BY DEF TypeOK, Inherit, LetGo

LEMMA CallsKeep ==
  ASSUME IInv, NEW t \in Threads, Calls(t)
  PROVE  IInv'
<1>0. TypeOK /\ Placed(t) /\ Kept(t)
  BY DEF IInv
<1> USE ProcAssumption, <1>0 DEF Put, answer, clock, ends, program, Forms, Timed,
        Shells, Alive, Ended
<1>1. CASE Begin(t)
  <2>1. TypeOK' BY <1>1 DEF Begin, Starts, TypeOK
  <2>2. Placed(t)' /\ Kept(t)'
    BY <1>1 DEF Begin, Starts, TypeOK, Placed, Kept, Accounted, Whole, Least
  <2>3. \A u \in Threads \ {t} : Same(u)
    BY <1>1 DEF Begin, Starts, TypeOK, Same
  <2>4. QED BY <2>1, <2>2, <2>3, OthersKeep
<1>2. CASE NoPipe(t)
  <2>1. TypeOK' BY <1>2 DEF NoPipe, Starts, TypeOK
  <2>2. Placed(t)' /\ Kept(t)'
    BY <1>2 DEF NoPipe, Starts, TypeOK, Placed, Kept, Accounted, Whole, Least
  <2>3. \A u \in Threads \ {t} : Same(u)
    BY <1>2 DEF NoPipe, Starts, TypeOK, Same
  <2>4. QED BY <2>1, <2>2, <2>3, OthersKeep
<1>3. CASE Capture(t)
  <2>1. TypeOK' BY <1>3, HandsTyped DEF Capture, Starts, TypeOK
  <2>2. Placed(t)' /\ Kept(t)'
    BY <1>3 DEF Capture, Starts, TypeOK, Placed, Kept, Accounted, Whole, Least
  <2>3. \A u \in Threads \ {t} : Same(u)
    BY <1>3 DEF Capture, Starts, TypeOK, Same
  <2>4. QED BY <2>1, <2>2, <2>3, OthersKeep
<1>4. CASE Spawn(t)
  <2>1. TypeOK' BY <1>4, HandsTyped DEF Spawn, Starts, TypeOK
  <2>2. Placed(t)' /\ Kept(t)'
    BY <1>4 DEF Spawn, Starts, TypeOK, Placed, Kept, Accounted, Whole, Least
  <2>3. \A u \in Threads \ {t} : Same(u)
    BY <1>4 DEF Spawn, Starts, TypeOK, Same
  <2>4. QED BY <2>1, <2>2, <2>3, OthersKeep
<1>5. QED BY <1>1, <1>2, <1>3, <1>4 DEF Calls


LEMMA GoesKeep ==
  ASSUME IInv, NEW t \in Threads, Goes(t)
  PROVE  IInv'
<1>0. TypeOK /\ Placed(t) /\ Kept(t)
  BY DEF IInv
<1> USE ProcAssumption, <1>0 DEF Put, answer, clock, ends, program, Forms, Timed,
        Shells, Alive, Ended
<1>1. CASE Fork(t)
  <2>1. TypeOK' BY <1>1, HandsTyped DEF Fork, TypeOK
  <2>2. Placed(t)' /\ Kept(t)'
    BY <1>1 DEF Fork, TypeOK, Placed, Kept, Accounted, Whole, Least
  <2>3. \A u \in Threads \ {t} : Same(u)
    BY <1>1 DEF Fork, TypeOK, Same
  <2>4. QED BY <2>1, <2>2, <2>3, OthersKeep
<1>2. CASE NoFork(t)
  <2>1. TypeOK' BY <1>2 DEF NoFork, TypeOK
  <2>2. Placed(t)' /\ Kept(t)'
    BY <1>2 DEF NoFork, TypeOK, Placed, Kept, Accounted, Whole, Least
  <2>3. \A u \in Threads \ {t} : Same(u)
    BY <1>2 DEF NoFork, TypeOK, Same
  <2>4. QED BY <2>1, <2>2, <2>3, OthersKeep
<1>3. CASE CloseMouth(t)
  <2>1. TypeOK' BY <1>3 DEF CloseMouth, TypeOK
  <2>2. Placed(t)' /\ Kept(t)'
    BY <1>3 DEF CloseMouth, TypeOK, Placed, Kept, Accounted, Whole, Least
  <2>3. \A u \in Threads \ {t} : Same(u)
    BY <1>3 DEF CloseMouth, TypeOK, Same
  <2>4. QED BY <2>1, <2>2, <2>3, OthersKeep
<1>4. CASE Feed(t)
  <2>1. TypeOK' BY <1>4 DEF Feed, TypeOK
  <2>2. Placed(t)' /\ Kept(t)'
    BY <1>4 DEF Feed, TypeOK, Placed, Kept, Accounted, Whole, Least
  <2>3. \A u \in Threads \ {t} : Same(u)
    BY <1>4 DEF Feed, TypeOK, Same
  <2>4. QED BY <2>1, <2>2, <2>3, OthersKeep
<1>5. CASE Take(t)
  <2>1. TypeOK' BY <1>5 DEF Take, Reading, Gets, Least, TypeOK
  <2>2. Placed(t)' /\ Kept(t)'
    BY <1>5 DEF Take, Reading, Gets, Least, TypeOK, Placed, Kept, Accounted, Whole, Least
  <2>3. \A u \in Threads \ {t} : Same(u)
    BY <1>5 DEF Take, Reading, Gets, Least, TypeOK, Same
  <2>4. QED BY <2>1, <2>2, <2>3, OthersKeep
<1>6. CASE Drain(t)
  <2>1. TypeOK' BY <1>6 DEF Drain, Reading, TypeOK
  <2>2. Placed(t)' /\ Kept(t)'
    BY <1>6 DEF Drain, Reading, TypeOK, Placed, Kept, Accounted, Whole, Least
  <2>3. \A u \in Threads \ {t} : Same(u)
    BY <1>6 DEF Drain, Reading, TypeOK, Same
  <2>4. QED BY <2>1, <2>2, <2>3, OthersKeep
<1>7. CASE Full(t)
  <2>1. TypeOK' BY <1>7 DEF Full, Reading, Leaves, TypeOK
  <2>2. Placed(t)' /\ Kept(t)'
    BY <1>7 DEF Full, Reading, Leaves, TypeOK, Placed, Kept, Accounted, Whole, Least
  <2>3. \A u \in Threads \ {t} : Same(u)
    BY <1>7 DEF Full, Reading, Leaves, TypeOK, Same
  <2>4. QED BY <2>1, <2>2, <2>3, OthersKeep
<1>8. CASE Eof(t)
  <2>1. TypeOK' BY <1>8 DEF Eof, Reading, AtEof, Leaves, TypeOK
  <2>2. Placed(t)' /\ Kept(t)'
    <3>1. /\ pc[t] = "poll" /\ pc'[t] = "reap" /\ ear'[t] = FALSE /\ feed'[t] # "open"
          /\ UNCHANGED <<mouth, prog, form, kept, wrote, cut>> /\ chan[t] = 0
      BY <1>8 DEF Eof, Reading, AtEof, Leaves, TypeOK
    <3>2. Placed(t)'
      BY <3>1 DEF Placed
    <3>3. Whole(t)
      BY <3>1 DEF TypeOK, Kept, Accounted, Whole, Least
    <3>4. QED
      BY <3>1, <3>2, <3>3 DEF Kept, Whole
  <2>3. \A u \in Threads \ {t} : Same(u)
    BY <1>8 DEF Eof, Reading, AtEof, Leaves, TypeOK, Same
  <2>4. QED BY <2>1, <2>2, <2>3, OthersKeep
<1>9. CASE Late(t)
  <2>1. TypeOK' BY <1>9 DEF Late, Reading, Leaves, TypeOK
  <2>2. Placed(t)' /\ Kept(t)'
    BY <1>9 DEF Late, Reading, Leaves, TypeOK, Placed, Kept, Accounted, Whole, Least
  <2>3. \A u \in Threads \ {t} : Same(u)
    BY <1>9 DEF Late, Reading, Leaves, TypeOK, Same
  <2>4. QED BY <2>1, <2>2, <2>3, OthersKeep
<1>10. CASE Reap(t)
  <2>1. TypeOK' BY <1>10 DEF Reap, TypeOK
  <2>2. Placed(t)' /\ Kept(t)'
    <3>1. pc[t] = "reap" /\ pc'[t] = "idle" /\ prog'[t] = "none"
      BY <1>10 DEF Reap, TypeOK
    <3>2. Placed(t)'
      BY <1>10, <3>1 DEF Reap, Placed
    <3>3. CASE form[t] \in Timed
      <4>1. result'[t] = "OK" => ~cut[t]
        BY <1>10, <3>3 DEF Reap, TypeOK
      <4>2. QED
        BY <1>10, <3>1, <3>2, <3>3, <4>1 DEF Reap, Kept, Whole, Least
    <3>4. CASE form[t] \in Shells
      <4>1. result'[t] = "OK" => kept'[t] = kept[t]
        BY <1>10, <3>4 DEF Reap, TypeOK
      <4>2. ~cut[t]
        BY <1>10, <3>1, <3>4 DEF Kept
      <4>3. QED
        BY <1>10, <3>1, <3>4, <4>1, <4>2, <3>2 DEF Reap, Kept, Whole, Least
    <3>5. QED BY <1>10, <3>2, <3>3, <3>4 DEF Reap
  <2>3. \A u \in Threads \ {t} : Same(u)
    BY <1>10 DEF Reap, TypeOK, Same
  <2>4. QED BY <2>1, <2>2, <2>3, OthersKeep
<1>11. QED BY <1>1, <1>2, <1>3, <1>4, <1>5, <1>6, <1>7, <1>8, <1>9, <1>10 DEF Goes

LEMMA LivesKeep ==
  ASSUME IInv, NEW t \in Threads, Lives(t)
  PROVE  IInv'
<1>0. TypeOK /\ Placed(t) /\ Kept(t)
  BY DEF IInv
<1> USE ProcAssumption, <1>0 DEF Put, answer, clock, ends, program, Forms, Timed,
        Shells, Alive, Ended
<1>1. CASE Write(t)
  <2>1. TypeOK'
    <3>1. CASE ear[t]
      BY <1>1, <3>1 DEF Write, Least, TypeOK
    <3>2. CASE ~ear[t]
      <4>1. LetGo(t) \in [Threads -> SUBSET (Threads \cup {Server})]
        BY HandsTyped
      <4>2. QED
        BY <1>1, <3>2, <4>1 DEF Write, TypeOK
    <3>3. QED BY <3>1, <3>2
  <2>2. Placed(t)' /\ Kept(t)'
    BY <1>1 DEF Write, Least, TypeOK, Placed, Kept, Accounted, Whole
  <2>3. \A u \in Threads \ {t} : Same(u)
    BY <1>1 DEF Write, Least, TypeOK, Same
  <2>4. QED BY <2>1, <2>2, <2>3, OthersKeep
<1>2. CASE Hush(t)
  <2>1. TypeOK' BY <1>2 DEF Hush, TypeOK
  <2>2. Placed(t)' /\ Kept(t)'
    BY <1>2 DEF Hush, TypeOK, Placed, Kept, Accounted, Whole, Least
  <2>3. \A u \in Threads \ {t} : Same(u)
    BY <1>2 DEF Hush, TypeOK, Same
  <2>4. QED BY <2>1, <2>2, <2>3, OthersKeep
<1>3. CASE Stick(t)
  <2>1. TypeOK' BY <1>3 DEF Stick, TypeOK
  <2>2. Placed(t)' /\ Kept(t)'
    BY <1>3 DEF Stick, TypeOK, Placed, Kept, Accounted, Whole, Least
  <2>3. \A u \in Threads \ {t} : Same(u)
    BY <1>3 DEF Stick, TypeOK, Same
  <2>4. QED BY <2>1, <2>2, <2>3, OthersKeep
<1>4. CASE End(t)
  <2>1. TypeOK' BY <1>4, HandsTyped DEF End, TypeOK
  <2>2. Placed(t)' /\ Kept(t)'
    BY <1>4 DEF End, TypeOK, Placed, Kept, Accounted, Whole, Least
  <2>3. \A u \in Threads \ {t} : Same(u)
    BY <1>4 DEF End, TypeOK, Same
  <2>4. QED BY <2>1, <2>2, <2>3, OthersKeep
<1>5. CASE Die(t)
  <2>1. TypeOK' BY <1>5, HandsTyped DEF Die, TypeOK
  <2>2. Placed(t)' /\ Kept(t)'
    BY <1>5 DEF Die, TypeOK, Placed, Kept, Accounted, Whole, Least
  <2>3. \A u \in Threads \ {t} : Same(u)
    BY <1>5 DEF Die, TypeOK, Same
  <2>4. QED BY <2>1, <2>2, <2>3, OthersKeep
<1>6. QED BY <1>1, <1>2, <1>3, <1>4, <1>5 DEF Lives

LEMMA NextKeeps == IInv /\ [Next]_vars => IInv'
<1> SUFFICES ASSUME IInv, [Next]_vars
             PROVE  IInv'
  OBVIOUS
<1>1. ASSUME NEW t \in Threads, Calls(t) \/ Goes(t) \/ Lives(t)
      PROVE  IInv'
  BY <1>1, CallsKeep, GoesKeep, LivesKeep
<1>2. ASSUME NEW t \in Threads, TimePasses(t)
      PROVE  IInv'
  <2>1. TypeOK'
    BY <1>2 DEF TimePasses, IInv, TypeOK, Put, answer, ends, program
  <2>2. \A u \in Threads : Same(u)
    BY <1>2 DEF TimePasses, Same, answer, ends, program
  <2>3. \A u \in Threads : Placed(u)' /\ Kept(u)'
    BY <2>2 DEF IInv, Same, Placed, Kept, Accounted, Whole, Least
  <2>4. QED BY <2>1, <2>3 DEF IInv
<1>3. CASE ServerEnds
  <2>1. TypeOK'
    BY <1>3, HandsTyped DEF ServerEnds, IInv, TypeOK, answer, ends, clock, program
  <2>2. \A u \in Threads : Same(u)
    BY <1>3 DEF ServerEnds, Same, answer, ends, clock, program
  <2>3. \A u \in Threads : Placed(u)' /\ Kept(u)'
    BY <2>2 DEF IInv, Same, Placed, Kept, Accounted, Whole, Least
  <2>4. QED BY <2>1, <2>3 DEF IInv
<1>4. CASE UNCHANGED vars
  <2>1. TypeOK'
    BY <1>4 DEF vars, IInv, TypeOK, answer, ends, clock, program
  <2>2. \A u \in Threads : Same(u)
    BY <1>4 DEF vars, Same, answer, ends, clock, program
  <2>3. \A u \in Threads : Placed(u)' /\ Kept(u)'
    BY <2>2 DEF IInv, Same, Placed, Kept, Accounted, Whole, Least
  <2>4. QED BY <2>1, <2>3 DEF IInv
<1>5. QED BY <1>1, <1>2, <1>3, <1>4 DEF Next

THEOREM IInvHolds == Spec => []IInv
BY InitHolds, NextKeeps, PTL DEF Spec

-----------------------------------------------------------------------------
\* Every variable keeps its type.
THEOREM ProcTypeCorrect == Spec => []TypeOK
<1>1. IInv => TypeOK BY DEF IInv
<1>2. QED BY <1>1, IInvHolds, PTL

\* For any threads and any programs, a thread that is in no call has no pipe
\* end open and no program it did not wait for.
THEOREM NothingIsLeftOpen == Spec => []NothingLeftOpen
<1>1. IInv => NothingLeftOpen BY DEF IInv, Placed, NothingLeftOpen
<1>2. QED BY <1>1, IInvHolds, PTL

\* For any sizes of pipe and answer, a call that returns GS_OK has the whole
\* of what the program wrote, as far as there is room.
THEOREM AnswersAreWhole == Spec => []AnswerIsWhole
<1>1. IInv => AnswerIsWhole BY DEF IInv, Kept, Whole, AnswerIsWhole
<1>2. QED BY <1>1, IInvHolds, PTL

-----------------------------------------------------------------------------
(* What a thread that runs programs alone can rely on. *)

\* A program that has ended, or was left alone, has no hold on the channel.
Unshared(t) ==
  /\ holds[t] \subseteq {t}
  /\ t \in holds[t] => prog[t] \in Alive

\* A call cuts off only a program that is still there.  With other threads a
\* program that has ended may be taken for one that is late, because one of
\* theirs has its channel open (proc.c:249, 279, 351).
CutsOffTheLate == [][\A t \in Threads : Late(t) => prog[t] \in Alive]_vars

\* A thread alone cuts off nothing that has ended.
THEOREM AloneCutsOffTheLate ==
  ASSUME NEW only, Threads = {only}
  PROVE  Spec => CutsOffTheLate
<1> DEFINE Inv == IInv /\ Unshared(only)
<1> USE ProcAssumption DEF Unshared
<1>1. Init => Inv
  BY InitHolds DEF Init
<1>2. ASSUME Inv, [Next]_vars
      PROVE  Unshared(only)'
  <2>0. TypeOK /\ Placed(only)
    BY <1>2 DEF IInv
  <2> USE <2>0 DEF TypeOK, Placed, Put, Alive, Ended, answer, clock, ends, program
  <2>1. CASE Begin(only) BY <1>2, <2>1 DEF Begin, Starts
  <2>2. CASE NoPipe(only) BY <1>2, <2>2 DEF NoPipe, Starts
  <2>3. CASE Capture(only) BY <1>2, <2>3 DEF Capture, Starts, Inherit
  <2>4. CASE Spawn(only) BY <1>2, <2>4 DEF Spawn, Starts, Inherit
  <2>5. CASE Fork(only) BY <1>2, <2>5 DEF Fork, Inherit
  <2>6. CASE NoFork(only) BY <1>2, <2>6 DEF NoFork
  <2>7. CASE CloseMouth(only) \/ Feed(only) \/ Take(only) \/ Drain(only)
    BY <1>2, <2>7 DEF CloseMouth, Feed, Take, Drain
  <2>8. CASE Full(only) \/ Eof(only) \/ Late(only)
    BY <1>2, <2>8 DEF Full, Eof, Late, Leaves
  <2>9. CASE Reap(only) BY <1>2, <2>9 DEF Reap
  <2>10. CASE Write(only) BY <1>2, <2>10 DEF Write, LetGo
  <2>11. CASE Hush(only) BY <1>2, <2>11 DEF Hush
  <2>12. CASE Stick(only) BY <1>2, <2>12 DEF Stick
  <2>13. CASE End(only) BY <1>2, <2>13 DEF End, LetGo
  <2>14. CASE Die(only) BY <1>2, <2>14 DEF Die, LetGo
  <2>15. CASE TimePasses(only) BY <1>2, <2>15 DEF TimePasses
  <2>16. CASE ServerEnds BY <1>2, <2>16 DEF ServerEnds, LetGo
  <2>17. CASE UNCHANGED vars BY <1>2, <2>17 DEF vars
  <2>18. QED
    BY <1>2, <2>1, <2>2, <2>3, <2>4, <2>5, <2>6, <2>7, <2>8, <2>9, <2>10, <2>11,
       <2>12, <2>13, <2>14, <2>15, <2>16, <2>17 DEF Next, Calls, Goes, Lives
<1>3. Inv /\ [Next]_vars => Inv'
  BY <1>2, NextKeeps
<1>4. Inv => \A t \in Threads : Late(t) => prog[t] \in Alive
  BY DEF Late, Reading, AtEof, IInv, TypeOK, Placed, Forms
<1>5. QED
  BY <1>1, <1>3, <1>4, PTL DEF Spec, CutsOffTheLate
=============================================================================
