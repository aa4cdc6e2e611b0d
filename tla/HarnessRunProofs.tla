-------------------------- MODULE HarnessRunProofs --------------------------
(***************************************************************************)
(* Proofs about HarnessRun, for any number of processes, models, prompts,  *)
(* crashes and refused statements.                                         *)
(***************************************************************************)
EXTENDS HarnessRun, SequenceTheorems, TLAPS

-----------------------------------------------------------------------------
(* The operators the model is built from. *)

\* What an action finds when it starts, one variable at a time.
LEMMA Types ==
  ASSUME TypeOK, NEW p \in Procs
  PROVE  /\ ui \in [Procs -> Ui] /\ ui[p] \in Ui
         /\ run \in [Procs -> Run] /\ run[p] \in Run
         /\ work \in [Procs -> Work] /\ work[p] \in Work
         /\ turns \in Seq(Turn) /\ DOMAIN turns = 1..Len(turns)
         /\ answers \in Seq(Answer) /\ DOMAIN answers = 1..Len(answers)
         /\ Len(turns) \in Nat /\ Len(answers) \in Nat
         /\ sessions \in Nat /\ setting \in Nat
         /\ faults \in Nat /\ crashes \in Nat
  BY DEF TypeOK

LEMMA NoType == NoUi \in Ui /\ NoRun \in Run /\ NoWork \in Work
  BY DEF NoUi, NoRun, NoWork, Ui, Run, Work, Lines, Status, Texts

LEMMA GivenUpType == ASSUME TypeOK, NEW p \in Procs PROVE GivenUp(p) \in Ui
<1>1. ui[p] \in Ui
  BY DEF TypeOK
<1> QED
  BY <1>1, NoType DEF GivenUp, Ui

LEMMA ReloadType ==
  ASSUME TypeOK, NEW p, NEW b
  PROVE  Reload(p, b) \in Seq(Lines)
<1> DEFINE line(t) == Reload(p, b)[t]
<1>1. DOMAIN turns = 1..Len(turns) /\ Len(turns) \in Nat
  BY DEF TypeOK
<1>2. \A t \in 1..Len(turns) : line(t) \in Lines
  BY <1>1 DEF Reload, Lines
<1>3. Reload(p, b) = [t \in 1..Len(turns) |-> line(t)]
  BY <1>1 DEF Reload
<1> QED  BY <1>1, <1>2, <1>3

\* The ids an operator collects are the ids of rows there are.
LEMMA IdsType ==
  ASSUME TypeOK, NEW t
  PROVE  /\ AnswersTo(t) \subseteq Nat /\ Best(t) \subseteq Nat
         /\ \A H \in NewestOf(Exchanges(t)) : H \subseteq Exchanges(t)
<1>1. DOMAIN answers \subseteq Nat
  BY DEF TypeOK
<1>2. AnswersTo(t) \subseteq Nat
  BY <1>1 DEF AnswersTo
<1>3. Best(t) \subseteq AnswersTo(t)
  BY DEF Best, PassedFor
<1> QED
  BY <1>2, <1>3 DEF NewestOf

\* An update of a row there is not leaves the table a table.
LEMMA ExceptElsewhere ==
  ASSUME NEW S, NEW f \in Seq(S), NEW i, NEW e, i \notin DOMAIN f
  PROVE  [f EXCEPT ![i] = e] \in Seq(S)
<1>1. f \in [1..Len(f) -> S] /\ Len(f) \in Nat /\ DOMAIN f = 1..Len(f)
  OBVIOUS
<1>2. [f EXCEPT ![i] = e] \in [1..Len(f) -> S]
  BY <1>1
<1> QED
  BY <1>1, <1>2, SeqDef

-----------------------------------------------------------------------------
(* Types, one variable at a time. *)

LEMMA UiStep ==
  ASSUME TypeOK, NEW p \in Procs,
         Front(p) \/ Person(p) \/ Worker(p) \/ Crash(p)
  PROVE  ui' \in [Procs -> Ui]
<1>1. ui \in [Procs -> Ui] /\ ui[p] \in Ui
  BY Types
<1>2. GivenUp(p) \in Ui /\ NoUi \in Ui
  BY GivenUpType, NoType
<1>3. /\ Reload(p, FALSE) \in Seq(Lines)
      /\ Reload(p, run[p].running) \in Seq(Lines)
  BY ReloadType
<1>4. Fails(p) => ui' \in [Procs -> Ui]
  BY <1>1, <1>2 DEF Fails
<1>5. CASE Open(p)
  <2>1. PICK s \in 0..sessions :
          ui' = [ui EXCEPT ![p] = [@ EXCEPT !.main = "idle", !.session = s,
                                            !.panel = Reload(p, FALSE)]]
    BY <1>5 DEF Open
  <2>2. s \in Nat
    BY Types
  <2> QED
    BY <1>1, <1>3, <2>1, <2>2 DEF Ui
<1>6. CASE Send(p) \/ SendBusy(p) \/ Ask(p) \/ Close(p) \/ KeepSession(p)
  <2>1. CASE Send(p)
    BY <1>1, <2>1 DEF Send, Ui
  <2>2. CASE SendBusy(p)
    BY <1>1, <2>2 DEF SendBusy, Ui, Status
  <2>3. CASE Ask(p)
    BY <1>1, <2>3 DEF Ask, Ui
  <2>4. CASE Close(p)
    BY <1>1, <2>4 DEF Close, Ui
  <2>5. CASE KeepSession(p)
    BY <1>1, <2>5 DEF KeepSession, Ui
  <2> QED
    BY <1>6, <2>1, <2>2, <2>3, <2>4, <2>5
<1>7. CASE StartSession(p)
  <2>1. ASSUME NEW next \in {"keep", "order"},
               ui' = [ui EXCEPT ![p] = [@ EXCEPT !.session = sessions + 1,
                                                 !.main = next]]
        PROVE  ui' \in [Procs -> Ui]
    <3>1. sessions + 1 \in Nat
      BY Types
    <3> QED
      BY <1>1, <2>1, <3>1 DEF Ui
  <2> QED
    BY <1>4, <1>7, <2>1 DEF StartSession
<1>8. CASE ReadOrdinal(p)
  <2>1. ASSUME NEW n \in 1..(Len(turns) + 1),
               ui' = [ui EXCEPT ![p] = [@ EXCEPT !.main = "write",
                                                 !.ordinal = n]]
        PROVE  ui' \in [Procs -> Ui]
    <3>1. n \in Nat
      BY Types
    <3> QED
      BY <1>1, <2>1, <3>1 DEF Ui
  <2> QED
    BY <1>4, <1>8, <2>1 DEF ReadOrdinal
<1>9. CASE InsertTurn(p)
  <2>1. ASSUME ui' = [ui EXCEPT ![p] = [@ EXCEPT !.main = "begin",
                                                 !.turn = Len(turns) + 1]]
        PROVE  ui' \in [Procs -> Ui]
    <3>1. Len(turns) + 1 \in Nat
      BY Types
    <3> QED
      BY <1>1, <2>1, <3>1 DEF Ui
  <2> QED
    BY <1>4, <1>9, <2>1 DEF InsertTurn
<1>10. CASE Begin(p)
  BY <1>1, <1>10 DEF Begin, Ui
<1>11. CASE NotBegun(p)
  <2>1. ASSUME NEW why \in {"NO MODEL", "NO SERVER", "STARTING SERVER"},
               ui' = [ui EXCEPT ![p] = [@ EXCEPT !.main = "reload",
                                                 !.status = why]]
        PROVE  ui' \in [Procs -> Ui]
    BY <1>1, <2>1 DEF Ui, Status
  <2> QED
    BY <1>1, <1>2, <1>11, <2>1 DEF NotBegun
<1>12. CASE ReloadSent(p)
  BY <1>1, <1>3, <1>12 DEF ReloadSent, Ui
<1>13. CASE Watch(p)
  BY <1>1, <1>13 DEF Watch, Ui, Status
<1>14. CASE Poll(p)
  BY <1>1, <1>3, <1>14 DEF Poll, Ui, Status
<1>15. CASE WaitRun(p) \/ Crash(p)
  BY <1>1, <1>2, <1>15 DEF WaitRun, Crash, Gone
<1>16. CASE Worker(p)
  BY <1>1, <1>16 DEF Worker, LoadHistory, AskModel, FirstReply, SecondReply,
     Unanswered, WriteAnswer, Collect, Judge, Pick, Show, Settle, Note, Finish
<1> QED
  BY <1>5, <1>6, <1>7, <1>8, <1>9, <1>10, <1>11, <1>12, <1>13, <1>14, <1>15,
     <1>16 DEF Front, Person

LEMMA RunStep ==
  ASSUME TypeOK, NEW p \in Procs,
         Front(p) \/ Person(p) \/ Worker(p) \/ Crash(p)
  PROVE  run' \in [Procs -> Run]
<1>1. run \in [Procs -> Run] /\ run[p] \in Run
  BY Types
<1>2. CASE Begin(p)
  <2>1. PICK n \in 1..MaxModels :
          run' = [run EXCEPT ![p] = [NoRun EXCEPT !.running = TRUE,
                                                  !.turn = ui[p].turn,
                                                  !.count = n]]
    BY <1>2 DEF Begin
  <2>2. n \in Nat /\ ui[p].turn \in Nat
    BY Types DEF Ui
  <2> QED
    BY <1>1, <2>1, <2>2, NoType DEF Run
<1>3. CASE Poll(p)
  BY <1>1, <1>3 DEF Poll, Run
<1>4. CASE WaitRun(p) \/ Crash(p)
  BY <1>1, <1>4, NoType DEF WaitRun, Crash, Gone
<1>5. CASE AskModel(p) \/ Collect(p) \/ Finish(p)
  <2>1. CASE AskModel(p)
    BY <1>1, <2>1 DEF AskModel, Run
  <2>2. CASE Collect(p)
    BY <1>1, <2>2 DEF Collect, Run
  <2>3. CASE Finish(p)
    BY <1>1, <2>3 DEF Finish, Run
  <2> QED
    BY <1>5, <2>1, <2>2, <2>3
<1>6. CASE Unanswered(p)
  <2>1. PICK k \in Nat : k = run[p].empty + 1
    BY <1>1 DEF Run
  <2>2. run' = [run EXCEPT ![p] = [@ EXCEPT !.empty = k]]
    BY <1>1, <1>6, <2>1 DEF Unanswered
  <2> QED
    BY <1>1, <2>2 DEF Run
<1>7. CASE WriteAnswer(p)
  <2>1. ASSUME NEW n \in {0, 1},
               run' = [run EXCEPT ![p] = [run[p] EXCEPT !.answered = @ + 1,
                                                   !.empty = @ + n]]
        PROVE  run' \in [Procs -> Run]
    <3>1. run[p].answered + 1 \in Nat /\ run[p].empty + n \in Nat
      BY <1>1 DEF Run
    <3>2. [run[p] EXCEPT !.answered = @ + 1, !.empty = @ + n] \in Run
      BY <1>1, <3>1 DEF Run
    <3> QED
      BY <1>1, <2>1, <3>2
  <2> QED
    BY <1>1, <1>7, <2>1 DEF WriteAnswer
<1>8. CASE Judge(p)
  <2>1. PICK n \in {0, 1} : run' = [run EXCEPT ![p].passed = @ + n]
    BY <1>8 DEF Judge
  <2> QED
    BY <1>1, <2>1 DEF Run
<1>9. CASE Settle(p)
  <2>1. work[p].winner \in Nat
    BY Types DEF Work
  <2> QED
    BY <1>1, <1>9, <2>1 DEF Settle, Run
<1>10. CASE \/ Person(p) \/ StartSession(p) \/ KeepSession(p)
            \/ ReadOrdinal(p) \/ InsertTurn(p) \/ NotBegun(p) \/ ReloadSent(p)
            \/ Watch(p) \/ LoadHistory(p) \/ FirstReply(p) \/ SecondReply(p)
            \/ Pick(p) \/ Show(p) \/ Note(p)
  BY <1>1, <1>10 DEF Person, Open, Send, SendBusy, Ask, Close, StartSession,
     KeepSession, ReadOrdinal, InsertTurn, NotBegun, ReloadSent, Watch,
     LoadHistory, FirstReply, SecondReply, Pick, Show, Note, thread
<1> QED
  BY <1>2, <1>3, <1>4, <1>5, <1>6, <1>7, <1>8, <1>9, <1>10 DEF Front, Worker

LEMMA WorkStep ==
  ASSUME TypeOK, NEW p \in Procs,
         Front(p) \/ Person(p) \/ Worker(p) \/ Crash(p)
  PROVE  work' \in [Procs -> Work]
<1>1. work \in [Procs -> Work] /\ work[p] \in Work
  BY Types
<1>2. CASE Begin(p)
  BY <1>1, <1>2, NoType DEF Begin, Work
<1>13. CASE WaitRun(p) \/ Crash(p) \/ Finish(p)
  BY <1>1, <1>13, NoType DEF WaitRun, Crash, Finish, Gone
<1>3. CASE LoadHistory(p)
  <2>1. PICK H \in NewestOf(Exchanges(run[p].turn)) :
          work' = [work EXCEPT ![p] = [@ EXCEPT !.history = H, !.model = 1,
                                                !.pc = "ask"]]
    BY <1>3 DEF LoadHistory
  <2>2. H \subseteq Nat
    <3>1. H \subseteq Exchanges(run[p].turn)
      BY IdsType
    <3>2. run[p].turn \in Nat
      BY Types DEF Run
    <3> QED
      BY <3>1, <3>2 DEF Exchanges
  <2> QED
    BY <1>1, <2>1, <2>2 DEF Work
<1>4. CASE AskModel(p) \/ Settle(p) \/ Note(p)
  BY <1>1, <1>4 DEF AskModel, Settle, Note, Work
<1>5. Replies(p) => work' \in [Procs -> Work]
  <2>1. ASSUME NEW t \in Texts,
               work' = [work EXCEPT ![p] = [@ EXCEPT !.reply = t,
                                                     !.pc = "write"]]
        PROVE  work' \in [Procs -> Work]
    BY <1>1, <2>1 DEF Work
  <2>2. ASSUME work' = [work EXCEPT ![p].pc = "unanswered"]
        PROVE  work' \in [Procs -> Work]
    BY <1>1, <2>2 DEF Work
  <2> QED
    BY <2>1, <2>2 DEF Replies
<1>6. CASE FirstReply(p) \/ SecondReply(p)
  <2>1. ASSUME work' = [work EXCEPT ![p].pc = "again"]
        PROVE  work' \in [Procs -> Work]
    BY <1>1, <2>1 DEF Work
  <2> QED
    BY <1>5, <1>6, <2>1 DEF FirstReply, SecondReply
<1>7. CASE Unanswered(p) \/ WriteAnswer(p)
  <2>1. ASSUME work' = [work EXCEPT ![p] = [work[p] EXCEPT !.reply = Silence,
                                                     !.model = @ + 1,
                                                     !.pc = "ask"]]
        PROVE  work' \in [Procs -> Work]
    <3>1. work[p].model + 1 \in Nat
      BY <1>1 DEF Work
    <3>2. [work[p] EXCEPT !.reply = Silence, !.model = @ + 1, !.pc = "ask"]
            \in Work
      BY <1>1, <3>1 DEF Work, Texts
    <3> QED
      BY <1>1, <2>1, <3>2
  <2>2. ASSUME work' = [work EXCEPT ![p] = [@ EXCEPT !.reply = Silence,
                                                     !.pc = "collect"]]
        PROVE  work' \in [Procs -> Work]
    BY <1>1, <2>2 DEF Work, Texts
  <2> QED
    BY <1>7, <2>1, <2>2 DEF Unanswered, WriteAnswer, Onwards
<1>8. CASE Collect(p)
  <2>1. PICK S \in SUBSET AnswersTo(run[p].turn) :
          work' = [work EXCEPT ![p] = [@ EXCEPT !.unchecked = S,
                                                !.pc = "check"]]
    BY <1>8 DEF Collect
  <2>2. S \subseteq Nat
    BY IdsType
  <2> QED
    BY <1>1, <2>1, <2>2 DEF Work
<1>9. CASE Judge(p)
  <2>1. PICK a \in work[p].unchecked :
          work' = [work EXCEPT ![p].unchecked = @ \ {a}]
    BY <1>9 DEF Judge
  <2> QED
    BY <1>1, <2>1 DEF Work
<1>10. CASE Pick(p)
  <2>1. ASSUME NEW a \in Best(run[p].turn),
               work' = [work EXCEPT ![p] = [@ EXCEPT !.winner = a,
                                                     !.pc = "show"]]
        PROVE  work' \in [Procs -> Work]
    <3>1. a \in Nat
      BY IdsType
    <3> QED
      BY <1>1, <2>1, <3>1 DEF Work
  <2>2. ASSUME work' = [work EXCEPT ![p].pc = "settle"]
        PROVE  work' \in [Procs -> Work]
    BY <1>1, <2>2 DEF Work
  <2> QED
    BY <1>10, <2>1, <2>2 DEF Pick
<1>11. CASE Show(p)
  <2>1. ASSUME work' = [work EXCEPT ![p].pc = "settle"]
        PROVE  work' \in [Procs -> Work]
    BY <1>1, <2>1 DEF Work
  <2>2. ASSUME work' = [work EXCEPT ![p] = [@ EXCEPT !.winner = 0,
                                                     !.pc = "settle"]]
        PROVE  work' \in [Procs -> Work]
    BY <1>1, <2>2 DEF Work
  <2> QED
    BY <1>11, <2>1, <2>2 DEF Show
<1>12. CASE \/ Person(p) \/ StartSession(p) \/ KeepSession(p)
            \/ ReadOrdinal(p) \/ InsertTurn(p) \/ NotBegun(p) \/ ReloadSent(p)
            \/ Watch(p) \/ Poll(p)
  BY <1>1, <1>12 DEF Person, Open, Send, SendBusy, Ask, Close, StartSession,
     KeepSession, ReadOrdinal, InsertTurn, NotBegun, ReloadSent, Watch, Poll,
     thread
<1> QED
  BY <1>2, <1>3, <1>4, <1>6, <1>7, <1>8, <1>9, <1>10, <1>11, <1>12,
     <1>13 DEF Front, Worker

\* turns and answers only get rows of their own kind, and only at the end.
LEMMA TurnsStep ==
  ASSUME TypeOK, NEW p \in Procs,
         Front(p) \/ Person(p) \/ Worker(p) \/ Crash(p)
  PROVE  turns' \in Seq(Turn)
<1>1. turns \in Seq(Turn)
  BY Types
<1>2. CASE InsertTurn(p)
  <2>1. ui[p].session \in Nat /\ ui[p].ordinal \in Nat
    BY Types DEF Ui
  <2>2. Prompt(p) \in Turn
    BY <2>1 DEF Prompt, Turn
  <2> QED
    BY <1>1, <1>2, <2>2 DEF InsertTurn
<1>3. CASE Show(p)
  <2>1. work[p].winner \in Nat
    BY Types DEF Work
  <2>2. ASSUME turns' = [turns EXCEPT ![run[p].turn].shown = work[p].winner]
        PROVE  turns' \in Seq(Turn)
    <3>1. CASE run[p].turn \in DOMAIN turns
      <4>1. turns[run[p].turn] \in Turn
        BY <1>1, <3>1
      <4>2. [turns[run[p].turn] EXCEPT !.shown = work[p].winner] \in Turn
        BY <2>1, <4>1 DEF Turn
      <4>3. run[p].turn \in 1..Len(turns)
        BY <3>1, Types
      <4> QED
        BY <1>1, <2>2, <4>2, <4>3, ExceptSeq
    <3>2. CASE run[p].turn \notin DOMAIN turns
      BY <1>1, <2>2, <3>2, ExceptElsewhere
    <3> QED
      BY <3>1, <3>2
  <2> QED
    BY <1>1, <1>3, <2>2 DEF Show
<1>4. CASE Note(p)
  <2>1. ASSUME turns' = [turns EXCEPT ![run[p].turn].noted = TRUE]
        PROVE  turns' \in Seq(Turn)
    <3>1. CASE run[p].turn \in DOMAIN turns
      <4>1. turns[run[p].turn] \in Turn
        BY <1>1, <3>1
      <4>2. [turns[run[p].turn] EXCEPT !.noted = TRUE] \in Turn
        BY <4>1 DEF Turn
      <4>3. run[p].turn \in 1..Len(turns)
        BY <3>1, Types
      <4> QED
        BY <1>1, <2>1, <4>2, <4>3, ExceptSeq
    <3>2. CASE run[p].turn \notin DOMAIN turns
      BY <1>1, <2>1, <3>2, ExceptElsewhere
    <3> QED
      BY <3>1, <3>2
  <2> QED
    BY <1>1, <1>4, <2>1 DEF Note
<1>5. CASE \/ Person(p) \/ StartSession(p) \/ KeepSession(p)
           \/ ReadOrdinal(p) \/ Begin(p) \/ NotBegun(p) \/ ReloadSent(p)
           \/ Watch(p) \/ Poll(p) \/ WaitRun(p) \/ Crash(p)
           \/ LoadHistory(p) \/ AskModel(p) \/ FirstReply(p)
           \/ SecondReply(p) \/ Unanswered(p) \/ WriteAnswer(p)
           \/ Collect(p) \/ Judge(p) \/ Pick(p) \/ Settle(p) \/ Finish(p)
  <2>1. turns' = turns
    BY <1>5 DEF Person, Open, Send, SendBusy, Ask, Close, StartSession,
       KeepSession, ReadOrdinal, Begin, NotBegun, ReloadSent, Watch, Poll,
       WaitRun, Crash, LoadHistory, AskModel, FirstReply, SecondReply,
       Unanswered, WriteAnswer, Collect, Judge, Pick, Settle, Finish, file
  <2> QED
    BY <1>1, <2>1
<1> QED
  BY <1>2, <1>3, <1>4, <1>5 DEF Front, Worker

LEMMA AnswersStep ==
  ASSUME TypeOK, NEW p \in Procs,
         Front(p) \/ Person(p) \/ Worker(p) \/ Crash(p)
  PROVE  answers' \in Seq(Answer)
<1>1. answers \in Seq(Answer)
  BY Types
<1>2. CASE Unanswered(p) \/ WriteAnswer(p)
  <2>1. run[p].turn \in Nat /\ work[p].model \in Nat
    BY Types DEF Run, Work
  <2>2. work[p].reply \in Texts /\ Silence \in Texts
    BY Types DEF Work, Texts
  <2>3. \A text \in Texts : Row(p, text) \in Answer
    BY <2>1 DEF Row, Answer
  <2>4. \A text \in Texts : Append(answers, Row(p, text)) \in Seq(Answer)
    BY <1>1, <2>3
  <2> QED
    BY <1>1, <1>2, <2>2, <2>4 DEF Unanswered, WriteAnswer
<1>3. CASE Judge(p)
  <2>1. ASSUME NEW a,
               answers' = [answers EXCEPT ![a].verdict =
                                            Judged(answers[a].text)]
        PROVE  answers' \in Seq(Answer)
    <3>1. CASE a \in DOMAIN answers
      <4>1. answers[a] \in Answer
        BY <1>1, <3>1
      <4>2. [answers[a] EXCEPT !.verdict = Judged(answers[a].text)] \in Answer
        <5>1. Judged(answers[a].text) \in {"EMPTY", "PASSED", "FAILED_CHECK"}
          BY DEF Judged
        <5> QED
          BY <4>1, <5>1 DEF Answer
      <4>3. a \in 1..Len(answers)
        BY <3>1, Types
      <4> QED
        BY <1>1, <2>1, <4>2, <4>3, ExceptSeq
    <3>2. CASE a \notin DOMAIN answers
      BY <1>1, <2>1, <3>2, ExceptElsewhere
    <3> QED
      BY <3>1, <3>2
  <2> QED
    BY <1>1, <1>3, <2>1 DEF Judge
<1>4. CASE Front(p) \/ Person(p) \/ Crash(p)
  BY <1>1, <1>4 DEF Front, Person, Open, Send, SendBusy, Ask, Close,
     StartSession, KeepSession, ReadOrdinal, InsertTurn, Begin, NotBegun,
     ReloadSent, Watch, Poll, WaitRun, Crash, file
<1>5. CASE \/ LoadHistory(p) \/ AskModel(p) \/ FirstReply(p)
           \/ SecondReply(p) \/ Collect(p) \/ Pick(p) \/ Show(p)
           \/ Settle(p) \/ Note(p) \/ Finish(p)
  BY <1>1, <1>5 DEF LoadHistory, AskModel, FirstReply, SecondReply, Collect,
     Pick, Show, Settle, Note, Finish, file
<1> QED
  BY <1>2, <1>3, <1>4, <1>5 DEF Worker

LEMMA NumbersStep ==
  ASSUME TypeOK, NEW p \in Procs,
         Front(p) \/ Person(p) \/ Worker(p) \/ Crash(p)
  PROVE  /\ sessions' \in Nat /\ setting' \in Nat
         /\ faults' \in Nat /\ crashes' \in Nat
<1>1. /\ sessions \in Nat /\ setting \in Nat
      /\ faults \in Nat /\ crashes \in Nat /\ ui[p].session \in Nat
  BY Types DEF Ui
<1>2. Taken \/ Refused => faults' \in Nat /\ crashes' \in Nat
  BY <1>1 DEF Taken, Refused, outside
<1>3. Fails(p) => faults' \in Nat /\ crashes' \in Nat
  BY <1>2 DEF Fails
<1>4. CASE Front(p)
  <2>1. CASE StartSession(p) \/ KeepSession(p)
    BY <1>1, <1>2, <1>3, <2>1 DEF StartSession, KeepSession
  <2>2. CASE ReadOrdinal(p) \/ InsertTurn(p)
    BY <1>1, <1>2, <1>3, <2>2 DEF ReadOrdinal, InsertTurn, file
  <2>3. CASE \/ Begin(p) \/ NotBegun(p) \/ ReloadSent(p) \/ Watch(p)
             \/ Poll(p) \/ WaitRun(p)
    BY <1>1, <2>3 DEF Begin, NotBegun, ReloadSent, Watch, Poll, WaitRun, file,
       outside
  <2> QED
    BY <1>4, <2>1, <2>2, <2>3 DEF Front
<1>5. CASE Person(p)
  BY <1>1, <1>5 DEF Person, Open, Send, SendBusy, Ask, Close, file, outside
<1>7. CASE Crash(p)
  BY <1>1, <1>7 DEF Crash, file
<1>6. CASE Worker(p)
  BY <1>1, <1>2, <1>6 DEF Worker, LoadHistory, AskModel, FirstReply,
     SecondReply, Unanswered, WriteAnswer, Collect, Judge, Pick, Show, Settle,
     Note, Finish, file, outside
<1> QED
  BY <1>4, <1>5, <1>6, <1>7

\* Every variable keeps values of its own kind, whatever a step does.
LEMMA TypeStep == TypeOK /\ [Next]_vars => TypeOK'
<1>1. ASSUME TypeOK, NEW p \in Procs,
             Front(p) \/ Person(p) \/ Worker(p) \/ Crash(p)
      PROVE  TypeOK'
  BY <1>1, UiStep, RunStep, WorkStep, TurnsStep, AnswersStep, NumbersStep
     DEF TypeOK
<1>2. ASSUME TypeOK, UNCHANGED vars
      PROVE  TypeOK'
  BY <1>2 DEF TypeOK, vars, file, thread, outside
<1> QED
  BY <1>1, <1>2 DEF Next

LEMMA TypeInit == Init => TypeOK
<1> SUFFICES ASSUME Init PROVE TypeOK
  OBVIOUS
<1>1. /\ ui \in [Procs -> Ui] /\ run \in [Procs -> Run]
      /\ work \in [Procs -> Work]
  BY NoType DEF Init
<1>2. turns \in Seq(Turn) /\ answers \in Seq(Answer)
  BY DEF Init
<1> QED
  BY <1>1, <1>2 DEF Init, TypeOK

\* Every variable holds values of its own kind in every state reached.
THEOREM TypesHold == Spec => []TypeOK
<1> QED
  BY TypeInit, TypeStep, PTL DEF Spec

-----------------------------------------------------------------------------
(* Why what is shown has been checked.                                     *)
(*                                                                         *)
(* A prompt has at most one process that may still write to it: the one    *)
(* that wrote it down, from its INSERT until the run it started is let go  *)
(* of.  So what the run's thread has found out about its prompt is still   *)
(* so when it acts on it.                                                  *)

Owner(p, t) ==
  \/ ui[p].main = "begin" /\ ui[p].turn = t
  \/ run[p].running /\ run[p].turn = t

Apart ==
  \A p, q \in Procs : \A t \in DOMAIN turns :
    p # q /\ Owner(p, t) => ~Owner(q, t)

\* No verdict is given without the checking, and every row has its prompt.
Rows == \A a \in DOMAIN answers :
  /\ answers[a].turn \in DOMAIN turns
  /\ answers[a].verdict = "PASSED" => answers[a].text \in Sound
  /\ answers[a].verdict = "EMPTY" => answers[a].text = Silence

Unjudged == {"PENDING", "EMPTY"}
Asking   == {"load", "ask", "first", "again", "unanswered", "write",
             "collect"}

\* What process p relies on about the prompt it owns.
Relies(p) ==
  /\ work[p].pc # "none" => run[p].running /\ ~run[p].done
  /\ run[p].running => run[p].turn \in DOMAIN turns
  /\ ui[p].main \in {"off", "start", "keep", "order", "write", "begin"} =>
       ~run[p].running
  /\ ui[p].main = "begin" =>
       /\ ui[p].turn \in DOMAIN turns
       /\ turns[ui[p].turn].shown = 0 /\ ~turns[ui[p].turn].noted
       /\ AnswersTo(ui[p].turn) = {}
  /\ work[p].pc \in Asking \cup {"check", "show"} =>
       turns[run[p].turn].shown = 0
  /\ work[p].pc \in Asking \cup {"check", "show", "settle", "note"} =>
       ~turns[run[p].turn].noted
  /\ work[p].pc \in Asking =>
       \A a \in AnswersTo(run[p].turn) : answers[a].verdict \in Unjudged
  /\ work[p].pc = "check" =>
       /\ work[p].unchecked \subseteq AnswersTo(run[p].turn)
       /\ \A a \in work[p].unchecked : answers[a].verdict \in Unjudged
  /\ work[p].pc = "show" => work[p].winner \in Best(run[p].turn)

IInv ==
  /\ TypeOK /\ Apart /\ Rows
  /\ \A p \in Procs : Relies(p)
  /\ ShownIsChecked /\ ShownIsBest

\* A step that leaves the tables alone and does not take on another prompt
\* keeps the invariant when it keeps what its own process relies on.
LEMMA SameFile ==
  ASSUME IInv, TypeOK', NEW p \in Procs,
         turns' = turns, answers' = answers,
         \A q \in Procs \ {p} :
           ui'[q] = ui[q] /\ run'[q] = run[q] /\ work'[q] = work[q],
         \A t \in DOMAIN turns : Owner(p, t)' => Owner(p, t),
         Relies(p)'
  PROVE  IInv'
<1>1. \A q \in Procs \ {p}, t \in DOMAIN turns : Owner(q, t)' <=> Owner(q, t)
  BY DEF Owner
<1>2. Apart'
  BY <1>1 DEF IInv, Apart
<1>3. \A q \in Procs : Relies(q)'
  <2>1. SUFFICES ASSUME NEW q \in Procs \ {p} PROVE Relies(q)'
    OBVIOUS
  <2>2. Relies(q) /\ ui'[q] = ui[q] /\ run'[q] = run[q] /\ work'[q] = work[q]
    BY DEF IInv
  <2>3. \A t : AnswersTo(t)' = AnswersTo(t) /\ Best(t)' = Best(t)
    BY DEF AnswersTo, Best, PassedFor, Before
  <2> QED
    BY <2>2, <2>3 DEF Relies
<1>4. Rows' /\ ShownIsChecked' /\ ShownIsBest'
  BY DEF IInv, Rows, ShownIsChecked, ShownIsBest, AnswersTo, PassedFor, Before
<1> QED
  BY <1>2, <1>3, <1>4 DEF IInv

\* The asking thread moves on without a prompt in its hands.
LEMMA QuietMove ==
  ASSUME IInv, TypeOK', NEW p \in Procs, NEW u \in Ui,
         turns' = turns, answers' = answers, run' = run, work' = work,
         ui' = [ui EXCEPT ![p] = u],
         u.main # "begin",
         u.main \in {"off", "start", "keep", "order", "write"} =>
           ~run[p].running
  PROVE  IInv'
<1>1. /\ ui \in [Procs -> Ui] /\ ui'[p] = u
      /\ \A q \in Procs \ {p} : ui'[q] = ui[q]
  BY DEF IInv, TypeOK
<1>2. \A t : Owner(p, t)' => Owner(p, t)
  BY <1>1 DEF Owner
<1>3. Relies(p)'
  <2>1. Relies(p)
    BY DEF IInv
  <2>2. \A t : AnswersTo(t)' = AnswersTo(t) /\ Best(t)' = Best(t)
    BY DEF AnswersTo, Best, PassedFor, Before
  <2> QED
    BY <1>1, <2>1, <2>2 DEF Relies
<1> QED
  BY <1>1, <1>2, <1>3, SameFile

LEMMA QuietStep ==
  ASSUME IInv, TypeOK', NEW p \in Procs,
         \/ Person(p) \/ StartSession(p) \/ KeepSession(p) \/ ReadOrdinal(p)
         \/ NotBegun(p) \/ ReloadSent(p) \/ Watch(p)
  PROVE  IInv'
<1>1. ui \in [Procs -> Ui] /\ ui' \in [Procs -> Ui] /\ ui'[p] \in Ui
  BY DEF IInv, TypeOK
<1>2. turns' = turns /\ answers' = answers /\ run' = run /\ work' = work
  BY DEF Person, Open, Send, SendBusy, Ask, Close, StartSession, KeepSession,
     ReadOrdinal, NotBegun, ReloadSent, Watch, file, thread
<1>3. \A q \in Procs \ {p} : ui'[q] = ui[q]
  BY <1>1 DEF Person, Open, Send, SendBusy, Ask, Close, StartSession,
     KeepSession, ReadOrdinal, NotBegun, ReloadSent, Watch, Fails
<1> DEFINE Settled ==
      /\ ui'[p].main # "begin"
      /\ ui'[p].main \in {"off", "start", "keep", "order", "write"} =>
           ~run[p].running
<1>4. NoUi.main = "off"
  BY DEF NoUi
<1>5. ASSUME Fails(p), ~run[p].running PROVE Settled
  <2>1. CASE p \in Windows
    BY <1>1, <1>5, <2>1 DEF Fails, GivenUp, Ui
  <2>2. CASE p \notin Windows
    BY <1>1, <1>5, <1>4, <2>2 DEF Fails, GivenUp
  <2> QED
    BY <2>1, <2>2
<1>6. /\ ui[p] \in Ui
      /\ ui[p].main \in {"off", "start", "keep", "order", "write", "begin"} =>
           ~run[p].running
  BY DEF IInv, TypeOK, Relies
<1>7. Settled
  <2>1. CASE Open(p)
    BY <1>1, <2>1 DEF Open, Ui
  <2>2. CASE Send(p)
    BY <1>1, <2>2 DEF Send, Ui
  <2>3. CASE SendBusy(p)
    BY <1>1, <1>6, <2>3 DEF SendBusy, Ui
  <2>4. CASE Ask(p)
    BY <1>1, <1>6, <2>4 DEF Ask, Ui
  <2>5. CASE Close(p)
    BY <1>1, <2>5 DEF Close, Ui
  <2>6. CASE StartSession(p)
    <3>1. ASSUME NEW next \in {"keep", "order"},
                 ui' = [ui EXCEPT ![p] = [@ EXCEPT !.session = sessions + 1,
                                                   !.main = next]]
          PROVE  ui'[p].main = next
      BY <1>1, <3>1 DEF Ui
    <3>2. ~run[p].running
      BY <1>6, <2>6 DEF StartSession
    <3> QED
      BY <1>5, <2>6, <3>1, <3>2 DEF StartSession
  <2>7. CASE KeepSession(p)
    BY <1>1, <1>6, <2>7 DEF KeepSession, Ui
  <2>8. CASE ReadOrdinal(p)
    <3>1. ASSUME NEW n, ui' = [ui EXCEPT ![p] = [@ EXCEPT !.main = "write",
                                                         !.ordinal = n]]
          PROVE  ui'[p].main = "write"
      BY <1>1, <3>1 DEF Ui
    <3>2. ~run[p].running
      BY <1>6, <2>8 DEF ReadOrdinal
    <3> QED
      BY <1>5, <2>8, <3>1, <3>2 DEF ReadOrdinal
  <2>9. CASE NotBegun(p)
    <3>1. ASSUME NEW why,
                 ui' = [ui EXCEPT ![p] = [@ EXCEPT !.main = "reload",
                                                   !.status = why]]
          PROVE  ui'[p].main = "reload"
      BY <1>1, <3>1 DEF Ui
    <3>2. ASSUME ui' = [ui EXCEPT ![p] = NoUi]
          PROVE  ui'[p].main = "off"
      BY <1>1, <1>4, <3>2
    <3>3. ~run[p].running
      BY <1>6, <2>9 DEF NotBegun
    <3> QED
      BY <2>9, <3>1, <3>2, <3>3 DEF NotBegun
  <2>10. CASE ReloadSent(p)
    BY <1>1, <2>10 DEF ReloadSent, Ui
  <2>11. CASE Watch(p)
    BY <1>1, <1>6, <2>11 DEF Watch, Ui
  <2> QED
    BY <2>1, <2>2, <2>3, <2>4, <2>5, <2>6, <2>7, <2>8, <2>9, <2>10, <2>11
       DEF Person
<1> HIDE DEF Settled
<1> QED
  BY <1>1, <1>2, <1>3, <1>7, QuietMove DEF Settled

\* The process ends or is killed: it relies on nothing any more.
LEMMA GoneStep ==
  ASSUME IInv, TypeOK', NEW p \in Procs, WaitRun(p) \/ Crash(p)
  PROVE  IInv'
<1>1. /\ ui \in [Procs -> Ui] /\ run \in [Procs -> Run]
      /\ work \in [Procs -> Work]
  BY DEF IInv, TypeOK
<1>2. turns' = turns /\ answers' = answers /\ Gone(p)
  BY DEF WaitRun, Crash, file
<1>3. /\ \A q \in Procs \ {p} :
           ui'[q] = ui[q] /\ run'[q] = run[q] /\ work'[q] = work[q]
      /\ ui'[p] = NoUi /\ run'[p] = NoRun /\ work'[p] = NoWork
  BY <1>1, <1>2 DEF Gone
<1>4. NoUi.main = "off" /\ ~NoRun.running /\ NoWork.pc = "none"
  BY DEF NoUi, NoRun, NoWork
<1>5. Relies(p)' /\ \A t : ~Owner(p, t)'
  BY <1>3, <1>4 DEF Relies, Owner, Asking
<1> QED
  BY <1>2, <1>3, <1>5, SameFile

\* The run takes the prompt over from the thread that wrote it down.
LEMMA BeginStep ==
  ASSUME IInv, TypeOK', NEW p \in Procs, Begin(p)
  PROVE  IInv'
<1>1. /\ ui \in [Procs -> Ui] /\ run \in [Procs -> Run]
      /\ work \in [Procs -> Work] /\ ui[p] \in Ui /\ Relies(p)
  BY DEF IInv, TypeOK
<1>2. turns' = turns /\ answers' = answers
  BY DEF Begin, file
<1>3. \A q \in Procs \ {p} :
        ui'[q] = ui[q] /\ run'[q] = run[q] /\ work'[q] = work[q]
  BY <1>1 DEF Begin
<1>4. ui[p].main = "begin" /\ ui'[p].main \in {"reload", "wait"}
  BY <1>1 DEF Begin, Ui
<1>5. run'[p].running /\ ~run'[p].done /\ run'[p].turn = ui[p].turn
  <2>1. PICK n \in 1..MaxModels :
          run' = [run EXCEPT ![p] = [NoRun EXCEPT !.running = TRUE,
                                                  !.turn = ui[p].turn,
                                                  !.count = n]]
    BY DEF Begin
  <2> QED
    BY <1>1, <2>1 DEF NoRun
<1>6. work'[p].pc = "load"
  BY <1>1 DEF Begin, NoWork
<1>7. \A t : Owner(p, t)' => Owner(p, t)
  BY <1>4, <1>5 DEF Owner
<1>8. \A t : AnswersTo(t)' = AnswersTo(t)
  BY <1>2 DEF AnswersTo
<1>9. Relies(p)'
  BY <1>1, <1>2, <1>4, <1>5, <1>6, <1>8 DEF Relies, Asking
<1> QED
  BY <1>2, <1>3, <1>7, <1>9, SameFile

\* The run is let go of.
LEMMA PollStep ==
  ASSUME IInv, TypeOK', NEW p \in Procs, Poll(p)
  PROVE  IInv'
<1>1. /\ ui \in [Procs -> Ui] /\ run \in [Procs -> Run]
      /\ ui[p] \in Ui /\ run[p] \in Run /\ Relies(p)
  BY DEF IInv, TypeOK
<1>2. turns' = turns /\ answers' = answers /\ work' = work
  BY DEF Poll, file
<1>3. \A q \in Procs \ {p} :
        ui'[q] = ui[q] /\ run'[q] = run[q] /\ work'[q] = work[q]
  BY <1>1, <1>2 DEF Poll
<1>4. ui'[p].main = "idle" /\ ~run'[p].running
  BY <1>1 DEF Poll, Ui, Run
<1>5. work[p].pc = "none"
  BY <1>1 DEF Poll, Relies
<1>6. Relies(p)' /\ \A t : ~Owner(p, t)'
  BY <1>2, <1>4, <1>5 DEF Relies, Owner, Asking
<1> QED
  BY <1>2, <1>3, <1>6, SameFile

\* The run's thread goes from one place to another and writes nothing.
LEMMA WorkMove ==
  ASSUME IInv, TypeOK', NEW p \in Procs,
         turns' = turns, answers' = answers, ui' = ui,
         \A q \in Procs \ {p} : run'[q] = run[q] /\ work'[q] = work[q],
         run'[p].turn = run[p].turn, run'[p].running = run[p].running,
         work'[p].pc # "none" => run'[p].done = run[p].done,
         \/ work[p].pc \in Asking /\ work'[p].pc \in Asking
         \/ /\ work[p].pc = "collect" /\ work'[p].pc = "check"
            /\ work'[p].unchecked \subseteq AnswersTo(run[p].turn)
         \/ /\ work[p].pc = "check" /\ work'[p].pc = "show"
            /\ work'[p].winner \in Best(run[p].turn)
         \/ work[p].pc \in {"check", "show"} /\ work'[p].pc = "settle"
         \/ work[p].pc = "settle" /\ work'[p].pc = "note"
         \/ work[p].pc = "note" /\ work'[p].pc = "end"
         \/ work[p].pc = "end" /\ work'[p].pc = "none"
  PROVE  IInv'
<1>1. Relies(p)
  BY DEF IInv
<1>2. \A t : AnswersTo(t)' = AnswersTo(t) /\ Best(t)' = Best(t)
  BY DEF AnswersTo, Best, PassedFor, Before
<1>3. Relies(p)'
  BY <1>1, <1>2 DEF Relies, Asking
<1>4. \A t : Owner(p, t)' => Owner(p, t)
  BY DEF Owner
<1> QED
  BY <1>3, <1>4, SameFile

LEMMA WorkMoveStep ==
  ASSUME IInv, TypeOK', NEW p \in Procs,
         \/ LoadHistory(p) \/ AskModel(p) \/ FirstReply(p) \/ SecondReply(p)
         \/ Collect(p) \/ Pick(p) \/ Settle(p) \/ Finish(p)
  PROVE  IInv'
<1>1. /\ run \in [Procs -> Run] /\ work \in [Procs -> Work]
      /\ run[p] \in Run /\ work[p] \in Work
  BY DEF IInv, TypeOK
<1>2. turns' = turns /\ answers' = answers /\ ui' = ui
  BY DEF LoadHistory, AskModel, FirstReply, SecondReply, Collect, Pick, Settle,
     Finish, file
<1>3. \A q \in Procs \ {p} : run'[q] = run[q] /\ work'[q] = work[q]
  BY <1>1 DEF LoadHistory, AskModel, FirstReply, SecondReply, Replies, Collect,
     Pick, Settle, Finish
<1>4. /\ run'[p].turn = run[p].turn /\ run'[p].running = run[p].running
      /\ work'[p].pc # "none" => run'[p].done = run[p].done
  <2>1. CASE AskModel(p)
    BY <1>1, <2>1 DEF AskModel, Run
  <2>2. CASE Collect(p)
    BY <1>1, <2>2 DEF Collect, Run
  <2>3. CASE Settle(p)
    BY <1>1, <2>3 DEF Settle, Run
  <2>4. CASE Finish(p)
    BY <1>1, <2>4 DEF Finish, Run, NoWork
  <2> QED
    BY <2>1, <2>2, <2>3, <2>4 DEF LoadHistory, FirstReply, SecondReply, Pick
<1>5. CASE LoadHistory(p)
  <2>1. PICK H : work' = [work EXCEPT ![p] = [@ EXCEPT !.history = H,
                                                       !.model = 1,
                                                       !.pc = "ask"]]
    BY <1>5 DEF LoadHistory
  <2>2. work[p].pc \in Asking /\ work'[p].pc \in Asking
    BY <1>1, <1>5, <2>1 DEF LoadHistory, Work, Asking
  <2> QED
    BY <1>2, <1>3, <1>4, <2>2, WorkMove
<1>6. CASE AskModel(p)
  <2>1. work[p].pc \in Asking /\ work'[p].pc \in Asking
    BY <1>1, <1>6 DEF AskModel, Work, Asking
  <2> QED
    BY <1>2, <1>3, <1>4, <2>1, WorkMove
<1>7. CASE FirstReply(p) \/ SecondReply(p)
  <2>1. ASSUME NEW t, work' = [work EXCEPT ![p] = [@ EXCEPT !.reply = t,
                                                            !.pc = "write"]]
        PROVE  work'[p].pc \in Asking
    BY <1>1, <2>1 DEF Work, Asking
  <2>2. ASSUME NEW c \in {"again", "unanswered"},
               work' = [work EXCEPT ![p].pc = c]
        PROVE  work'[p].pc \in Asking
    BY <1>1, <2>2 DEF Work, Asking
  <2>3. work[p].pc \in Asking
    BY <1>7 DEF FirstReply, SecondReply, Asking
  <2>4. work'[p].pc \in Asking
    BY <1>7, <2>1, <2>2 DEF FirstReply, SecondReply, Replies
  <2> QED
    BY <1>2, <1>3, <1>4, <2>3, <2>4, WorkMove
<1>8. CASE Collect(p)
  <2>1. PICK S \in SUBSET AnswersTo(run[p].turn) :
          work' = [work EXCEPT ![p] = [@ EXCEPT !.unchecked = S,
                                                !.pc = "check"]]
    BY <1>8 DEF Collect
  <2>2. /\ work[p].pc = "collect" /\ work'[p].pc = "check"
        /\ work'[p].unchecked \subseteq AnswersTo(run[p].turn)
    BY <1>1, <1>8, <2>1 DEF Collect, Work
  <2> QED
    BY <1>2, <1>3, <1>4, <2>2, WorkMove
<1>9. CASE Pick(p)
  <2>1. ASSUME NEW a \in Best(run[p].turn),
               work' = [work EXCEPT ![p] = [@ EXCEPT !.winner = a,
                                                     !.pc = "show"]]
        PROVE  work'[p].pc = "show" /\ work'[p].winner \in Best(run[p].turn)
    BY <1>1, <2>1 DEF Work
  <2>2. ASSUME work' = [work EXCEPT ![p].pc = "settle"]
        PROVE  work'[p].pc = "settle"
    BY <1>1, <2>2 DEF Work
  <2>3. /\ work[p].pc = "check"
        /\ \/ work'[p].pc = "settle"
           \/ work'[p].pc = "show" /\ work'[p].winner \in Best(run[p].turn)
    BY <1>9, <2>1, <2>2 DEF Pick
  <2> QED
    BY <1>2, <1>3, <1>4, <2>3, WorkMove
<1>10. CASE Settle(p)
  <2>1. work[p].pc = "settle" /\ work'[p].pc = "note"
    BY <1>1, <1>10 DEF Settle, Work
  <2> QED
    BY <1>2, <1>3, <1>4, <2>1, WorkMove
<1>11. CASE Finish(p)
  <2>1. work[p].pc = "end" /\ work'[p].pc = "none"
    BY <1>1, <1>11 DEF Finish, NoWork
  <2> QED
    BY <1>2, <1>3, <1>4, <2>1, WorkMove
<1> QED
  BY <1>5, <1>6, <1>7, <1>8, <1>9, <1>10, <1>11

\* A process keeps what it relies on while nobody else writes to the prompt
\* it owns.
LEMMA OthersKept ==
  ASSUME IInv, NEW q \in Procs,
         ui'[q] = ui[q], run'[q] = run[q], work'[q] = work[q],
         DOMAIN turns \subseteq DOMAIN turns',
         \A t \in DOMAIN turns : Owner(q, t) =>
           /\ turns'[t] = turns[t]
           /\ AnswersTo(t)' = AnswersTo(t)
           /\ \A a \in AnswersTo(t) : answers'[a] = answers[a]
  PROVE  Relies(q)'
<1>1. Relies(q)
  BY DEF IInv
<1>2. CASE ui[q].main = "begin"
  <2>1. Owner(q, ui[q].turn) /\ ui[q].turn \in DOMAIN turns
    BY <1>1, <1>2 DEF Owner, Relies
  <2>2. /\ turns'[ui[q].turn] = turns[ui[q].turn]
        /\ \A t : t = ui[q].turn => AnswersTo(t)' = AnswersTo(t)
    BY <2>1
  <2>3. ~run[q].running /\ work[q].pc = "none"
    BY <1>1, <1>2 DEF Relies
  <2> QED
    BY <1>1, <2>1, <2>2, <2>3 DEF Relies, Asking
<1>3. CASE run[q].running
  <2>1. Owner(q, run[q].turn) /\ run[q].turn \in DOMAIN turns
    BY <1>1, <1>3 DEF Owner, Relies
  <2>2. /\ turns'[run[q].turn] = turns[run[q].turn]
        /\ \A t : t = run[q].turn => AnswersTo(t)' = AnswersTo(t)
        /\ \A a \in AnswersTo(run[q].turn) : answers'[a] = answers[a]
    BY <2>1
  <2>3. \A t : t = run[q].turn => Best(t)' = Best(t)
    <3>1. \A t : t = run[q].turn => PassedFor(t)' = PassedFor(t)
      BY <2>2 DEF PassedFor
    <3>2. \A a \in PassedFor(run[q].turn) : answers'[a] = answers[a]
      BY <2>2 DEF PassedFor
    <3> QED
      BY <3>1, <3>2 DEF Best, Before
  <2>4. ui[q].main # "begin"
    BY <1>1, <1>3 DEF Relies
  <2>5. work[q].unchecked \subseteq AnswersTo(run[q].turn) =>
          \A a \in work[q].unchecked : answers'[a] = answers[a]
    BY <2>2
  <2> QED
    BY <1>1, <1>3, <2>1, <2>2, <2>3, <2>4, <2>5 DEF Relies
<1>4. CASE ui[q].main # "begin" /\ ~run[q].running
  BY <1>1, <1>4 DEF Relies, Asking
<1> QED
  BY <1>2, <1>3, <1>4

\* A new prompt is the only one its process owns, and no answer has it yet.
LEMMA InsertStep ==
  ASSUME IInv, TypeOK', NEW p \in Procs, InsertTurn(p)
  PROVE  IInv'
<1>1. /\ ui \in [Procs -> Ui] /\ ui[p] \in Ui /\ ui' \in [Procs -> Ui]
      /\ turns \in Seq(Turn) /\ Len(turns) \in Nat
      /\ DOMAIN turns = 1..Len(turns) /\ Relies(p)
  BY DEF IInv, TypeOK
<1>2. answers' = answers /\ run' = run /\ work' = work
  BY DEF InsertTurn, thread
<1>3. ui[p].main = "write" /\ ~run[p].running
  BY <1>1 DEF InsertTurn, Relies
<1>4. CASE Fails(p) /\ UNCHANGED turns
  <2>1. GivenUp(p).main \in {"off", "idle"}
    BY <1>1 DEF GivenUp, NoUi, Ui
  <2>2. GivenUp(p) \in Ui
    BY GivenUpType DEF IInv
  <2>3. ui' = [ui EXCEPT ![p] = GivenUp(p)]
    BY <1>4 DEF Fails
  <2> QED
    BY <1>2, <1>3, <1>4, <2>1, <2>2, <2>3, QuietMove
<1>5. CASE /\ turns' = Append(turns, Prompt(p))
           /\ ui' = [ui EXCEPT ![p] = [@ EXCEPT !.main = "begin",
                                                !.turn = Len(turns) + 1]]
  <2>0. PICK n \in Nat : n = Len(turns) + 1
    BY <1>1
  <2>1. /\ DOMAIN turns' = 1..n /\ n \in DOMAIN turns' /\ n \notin DOMAIN turns
        /\ \A t \in DOMAIN turns : t \in DOMAIN turns' /\ turns'[t] = turns[t]
        /\ \A t \in DOMAIN turns' : t = n \/ t \in DOMAIN turns
        /\ turns'[n] = Prompt(p)
    BY <1>1, <1>5, <2>0
  <2>2. /\ \A q \in Procs \ {p} : ui'[q] = ui[q]
        /\ ui'[p].main = "begin" /\ ui'[p].turn = n
    BY <1>1, <1>5, <2>0 DEF Ui
  <2>3. \A t : AnswersTo(t)' = AnswersTo(t) /\ PassedFor(t)' = PassedFor(t)
    BY <1>2 DEF AnswersTo, PassedFor
  <2>4. AnswersTo(n) = {}
    BY <2>1 DEF AnswersTo, IInv, Rows
  <2>5. Prompt(p).shown = 0 /\ ~Prompt(p).noted
    BY DEF Prompt
  <2>6. \A q \in Procs \ {p} : Relies(q)'
    BY <1>2, <2>1, <2>2, <2>3, OthersKept
  <2>7. Relies(p)'
    <3>1. work[p].pc = "none"
      BY <1>1, <1>3 DEF Relies
    <3>2. \A t : t = n => AnswersTo(t)' = {}
      BY <2>3, <2>4
    <3> QED
      BY <1>2, <1>3, <2>1, <2>2, <2>5, <3>1, <3>2 DEF Relies, Asking
  <2>8. Apart'
    <3>1. \A q \in Procs \ {p} : /\ ~Owner(q, n)'
                                 /\ \A t : Owner(q, t)' <=> Owner(q, t)
      <4>1. \A q \in Procs :
              /\ ui[q].main = "begin" => ui[q].turn \in DOMAIN turns
              /\ run[q].running => run[q].turn \in DOMAIN turns
        BY DEF IInv, Relies
      <4> QED
        BY <1>2, <2>1, <2>2, <4>1 DEF Owner
    <3>2. \A t : Owner(p, t)' => t = n
      BY <1>2, <1>3, <2>2 DEF Owner
    <3> QED
      BY <2>1, <3>1, <3>2 DEF IInv, Apart
  <2>9. Rows'
    BY <1>2, <2>1 DEF IInv, Rows
  <2>10. ShownIsChecked' /\ ShownIsBest'
    <3>1. \A t \in DOMAIN turns' : turns'[t].shown # 0 =>
            t \in DOMAIN turns /\ turns'[t] = turns[t]
      BY <1>1, <2>1, <2>5
    <3> QED
      BY <1>2, <2>3, <3>1 DEF IInv, ShownIsChecked, ShownIsBest, Before
  <2> QED
    BY <2>6, <2>7, <2>8, <2>9, <2>10 DEF IInv
<1> QED
  BY <1>4, <1>5 DEF InsertTurn

\* What a process whose run's thread is at work owns.
LEMMA AtWork ==
  ASSUME IInv, NEW p \in Procs, work[p].pc # "none"
  PROVE  /\ run[p].turn \in DOMAIN turns /\ Owner(p, run[p].turn)
         /\ ui[p].main # "begin" /\ run[p].running
         /\ \A q \in Procs \ {p}, t \in DOMAIN turns :
              Owner(q, t) => t # run[p].turn
<1>1. Relies(p)
  BY DEF IInv
<1>2. /\ run[p].turn \in DOMAIN turns /\ Owner(p, run[p].turn)
      /\ ui[p].main # "begin" /\ run[p].running
  BY <1>1 DEF Relies, Owner
<1> QED
  BY <1>2 DEF IInv, Apart

\* A row is added for the prompt the run is on, and none of them is judged.
LEMMA AnswerStep ==
  ASSUME IInv, TypeOK', NEW p \in Procs, Unanswered(p) \/ WriteAnswer(p)
  PROVE  IInv'
<1>1. /\ run \in [Procs -> Run] /\ work \in [Procs -> Work]
      /\ run[p] \in Run /\ work[p] \in Work /\ Relies(p)
      /\ answers \in Seq(Answer) /\ Len(answers) \in Nat
      /\ DOMAIN answers = 1..Len(answers)
  BY DEF IInv, TypeOK
<1>2. turns' = turns /\ ui' = ui
  BY DEF Unanswered, WriteAnswer
<1>3. \A q \in Procs \ {p} : run'[q] = run[q] /\ work'[q] = work[q]
  BY <1>1 DEF Unanswered, WriteAnswer, Onwards
<1>4. /\ run'[p].turn = run[p].turn /\ run'[p].running = run[p].running
      /\ run'[p].done = run[p].done
  <2>1. CASE Unanswered(p)
    BY <1>1, <2>1 DEF Unanswered, Run
  <2>2. CASE WriteAnswer(p)
    <3>1. ASSUME NEW n,
                 run' = [run EXCEPT ![p] = [run[p] EXCEPT !.answered = @ + 1,
                                                          !.empty = @ + n]]
          PROVE  /\ run'[p].turn = run[p].turn
                 /\ run'[p].running = run[p].running
                 /\ run'[p].done = run[p].done
      BY <1>1, <3>1 DEF Run
    <3> QED
      BY <2>2, <3>1 DEF WriteAnswer
  <2> QED
    BY <2>1, <2>2
<1>5. work[p].pc \in Asking /\ work'[p].pc \in Asking
  <2>1. ASSUME work' = [work EXCEPT ![p] = [work[p] EXCEPT !.reply = Silence,
                                                          !.model = @ + 1,
                                                          !.pc = "ask"]]
        PROVE  work'[p].pc \in Asking
    BY <1>1, <2>1 DEF Work, Asking
  <2>2. ASSUME work' = [work EXCEPT ![p] = [@ EXCEPT !.reply = Silence,
                                                     !.pc = "collect"]]
        PROVE  work'[p].pc \in Asking
    BY <1>1, <2>2 DEF Work, Asking
  <2>3. work[p].pc \in Asking
    BY DEF Unanswered, WriteAnswer, Asking
  <2> QED
    BY <2>1, <2>2, <2>3 DEF Unanswered, WriteAnswer, Onwards
<1>6. CASE answers' = answers
  BY <1>2, <1>3, <1>4, <1>5, <1>6, WorkMove
<1>7. ASSUME NEW r, answers' = Append(answers, r), r.turn = run[p].turn,
             r.verdict \in Unjudged, r.verdict = "EMPTY" => r.text = Silence
      PROVE  IInv'
  <2>1. PICK n \in Nat : n = Len(answers) + 1
    BY <1>1
  <2>2. /\ DOMAIN answers' = DOMAIN answers \cup {n} /\ n \notin DOMAIN answers
        /\ \A a \in DOMAIN answers : answers'[a] = answers[a]
        /\ answers'[n] = r
    BY <1>1, <1>7, <2>1
  <2>3. /\ run[p].turn \in DOMAIN turns /\ ui[p].main # "begin"
        /\ run[p].running
        /\ \A q \in Procs \ {p}, t \in DOMAIN turns :
             Owner(q, t) => t # run[p].turn
    <3>1. work[p].pc # "none"
      BY <1>5 DEF Asking
    <3> QED
      BY <3>1, AtWork
  <2>4. /\ \A t : t # run[p].turn => AnswersTo(t)' = AnswersTo(t)
        /\ \A t : t = run[p].turn => AnswersTo(t)' = AnswersTo(t) \cup {n}
        /\ \A t : AnswersTo(t) \subseteq DOMAIN answers
    BY <1>7, <2>2 DEF AnswersTo
  <2>5. \A t : PassedFor(t)' = PassedFor(t)
    BY <1>7, <2>2, <2>4 DEF PassedFor, Unjudged
  <2>6. \A q \in Procs \ {p} : Relies(q)'
    BY <1>2, <1>3, <2>2, <2>3, <2>4, OthersKept
  <2>7. Relies(p)'
    <3>1. \A a \in AnswersTo(run[p].turn) : answers[a].verdict \in Unjudged
      BY <1>1, <1>5 DEF Relies
    <3>2. \A t : t = run[p].turn =>
            \A a \in AnswersTo(t)' : answers'[a].verdict \in Unjudged
      BY <1>7, <2>2, <2>4, <3>1
    <3> QED
      BY <1>1, <1>2, <1>4, <1>5, <2>3, <3>2 DEF Relies, Asking
  <2>8. Apart'
    BY <1>2, <1>3, <1>4 DEF IInv, Apart, Owner
  <2>9. Rows'
    BY <1>2, <1>7, <2>2, <2>3 DEF IInv, Rows, Unjudged
  <2>10. ShownIsChecked' /\ ShownIsBest'
    <3>1. \A t : \A a \in PassedFor(t) : answers'[a] = answers[a]
      BY <2>2, <2>4 DEF PassedFor
    <3> QED
      BY <1>2, <2>5, <3>1 DEF IInv, ShownIsChecked, ShownIsBest, Before
  <2> QED
    BY <2>6, <2>7, <2>8, <2>9, <2>10 DEF IInv
<1>8. \A text : /\ Row(p, text).turn = run[p].turn
                /\ Row(p, text).verdict \in Unjudged
                /\ Row(p, text).verdict = "EMPTY" =>
                     Row(p, text).text = Silence
  BY DEF Row, Unjudged
<1> QED
  BY <1>6, <1>7, <1>8 DEF Unanswered, WriteAnswer

\* The checking decides about an answer to the prompt the run is on, and for
\* that prompt nothing has been chosen yet.
LEMMA JudgeStep ==
  ASSUME IInv, TypeOK', NEW p \in Procs, Judge(p)
  PROVE  IInv'
<1>1. /\ run \in [Procs -> Run] /\ work \in [Procs -> Work]
      /\ run[p] \in Run /\ work[p] \in Work /\ Relies(p)
      /\ answers \in Seq(Answer)
  BY DEF IInv, TypeOK
<1>2. turns' = turns /\ ui' = ui /\ work[p].pc = "check"
  BY DEF Judge
<1>3. PICK a \in work[p].unchecked :
        /\ \/ answers' = [answers EXCEPT ![a].verdict =
                                             Judged(answers[a].text)]
           \/ answers' = answers
        /\ work' = [work EXCEPT ![p].unchecked = @ \ {a}]
        /\ \E n \in {0, 1} : run' = [run EXCEPT ![p].passed = @ + n]
  BY DEF Judge
<1>4. /\ \A q \in Procs \ {p} : run'[q] = run[q] /\ work'[q] = work[q]
      /\ run'[p].turn = run[p].turn /\ run'[p].running = run[p].running
      /\ run'[p].done = run[p].done
      /\ work'[p].pc = "check" /\ work'[p].unchecked = work[p].unchecked \ {a}
  BY <1>1, <1>2, <1>3 DEF Run, Work
<1>5. /\ run[p].turn \in DOMAIN turns /\ ui[p].main # "begin"
      /\ run[p].running
      /\ \A q \in Procs \ {p}, t \in DOMAIN turns :
           Owner(q, t) => t # run[p].turn
  BY <1>2, AtWork
<1>6. /\ work[p].unchecked \subseteq AnswersTo(run[p].turn)
      /\ a \in DOMAIN answers /\ answers[a].turn = run[p].turn
  BY <1>1, <1>2, <1>3 DEF Relies, AnswersTo
<1>7. /\ DOMAIN answers' = DOMAIN answers
      /\ \A b \in DOMAIN answers :
           /\ b # a => answers'[b] = answers[b]
           /\ answers'[b].turn = answers[b].turn
           /\ answers'[b].text = answers[b].text
      /\ answers'[a].verdict \in {answers[a].verdict, Judged(answers[a].text)}
  <2>1. answers[a] \in Answer
    BY <1>1, <1>6
  <2> QED
    BY <1>1, <1>3, <1>6, <2>1 DEF Answer
<1>8. /\ \A t : AnswersTo(t)' = AnswersTo(t)
      /\ \A t : t # run[p].turn => PassedFor(t)' = PassedFor(t)
  BY <1>6, <1>7 DEF AnswersTo, PassedFor
<1>9. \A q \in Procs \ {p} : Relies(q)'
  <2>1. \A t : t # run[p].turn => a \notin AnswersTo(t)
    BY <1>6 DEF AnswersTo
  <2>2. \A t : AnswersTo(t) \subseteq DOMAIN answers
    BY DEF AnswersTo
  <2> QED
    BY <1>2, <1>4, <1>5, <1>7, <1>8, <2>1, <2>2, OthersKept
<1>10. Relies(p)'
  <2>1. \A b \in work[p].unchecked \ {a} : answers'[b].verdict \in Unjudged
    BY <1>1, <1>2, <1>6, <1>7 DEF Relies, AnswersTo
  <2> QED
    BY <1>1, <1>2, <1>4, <1>5, <1>6, <1>8, <2>1 DEF Relies, Asking
<1>11. Apart'
  BY <1>2, <1>4 DEF IInv, Apart, Owner
<1>12. Rows'
  <2>1. /\ Judged(answers[a].text) = "PASSED" => answers[a].text \in Sound
        /\ Judged(answers[a].text) = "EMPTY" => answers[a].text = Silence
    BY DEF Judged
  <2> QED
    BY <1>2, <1>6, <1>7, <2>1 DEF IInv, Rows
<1>13. ShownIsChecked' /\ ShownIsBest'
  <2>1. turns[run[p].turn].shown = 0
    BY <1>1, <1>2 DEF Relies
  <2>2. \A t : PassedFor(t) \subseteq DOMAIN answers
    BY DEF PassedFor, AnswersTo
  <2> QED
    BY <1>2, <1>7, <1>8, <2>1, <2>2 DEF IInv, ShownIsChecked, ShownIsBest,
       Before
<1> QED
  BY <1>9, <1>10, <1>11, <1>12, <1>13 DEF IInv

\* Only the run's own prompt gets the answer it picked, and the record.
LEMMA ShowStep ==
  ASSUME IInv, TypeOK', NEW p \in Procs, Show(p) \/ Note(p)
  PROVE  IInv'
<1>1. /\ work \in [Procs -> Work] /\ work[p] \in Work /\ Relies(p)
      /\ turns \in Seq(Turn)
  BY DEF IInv, TypeOK
<1>2. answers' = answers /\ ui' = ui /\ run' = run
  BY DEF Show, Note
<1>3. \A q \in Procs \ {p} : work'[q] = work[q]
  BY <1>1 DEF Show, Note
<1>4. \/ work[p].pc = "show" /\ work'[p].pc = "settle"
      \/ work[p].pc = "note" /\ work'[p].pc = "end"
  <2>1. ASSUME work' = [work EXCEPT ![p] = [@ EXCEPT !.winner = 0,
                                                     !.pc = "settle"]]
        PROVE  work'[p].pc = "settle"
    BY <1>1, <2>1 DEF Work
  <2>2. ASSUME NEW c, work' = [work EXCEPT ![p].pc = c]
        PROVE  work'[p].pc = c
    BY <1>1, <2>2 DEF Work
  <2> QED
    BY <2>1, <2>2 DEF Show, Note
<1>5. CASE turns' = turns
  BY <1>2, <1>3, <1>4, <1>5, WorkMove
<1>6. /\ run[p].turn \in DOMAIN turns /\ ui[p].main # "begin"
      /\ run[p].running
      /\ \A q \in Procs \ {p}, t \in DOMAIN turns :
           Owner(q, t) => t # run[p].turn
  BY <1>4, AtWork
<1>7. turns[run[p].turn] \in Turn
  BY <1>1, <1>6
<1>8. ASSUME DOMAIN turns' = DOMAIN turns,
             \A t \in DOMAIN turns : t # run[p].turn => turns'[t] = turns[t],
             \/ turns'[run[p].turn].shown = turns[run[p].turn].shown
             \/ turns'[run[p].turn].shown \in Best(run[p].turn),
             work'[p].pc = "settle" => ~turns'[run[p].turn].noted
      PROVE  IInv'
  <2>1. \A t : /\ AnswersTo(t)' = AnswersTo(t) /\ PassedFor(t)' = PassedFor(t)
               /\ Best(t)' = Best(t)
    BY <1>2 DEF AnswersTo, PassedFor, Best, Before
  <2>2. \A q \in Procs \ {p} : Relies(q)'
    BY <1>2, <1>3, <1>6, <1>8, <2>1, OthersKept
  <2>3. Relies(p)'
    BY <1>1, <1>2, <1>4, <1>6, <1>8 DEF Relies, Asking
  <2>4. Apart' /\ Rows'
    BY <1>2, <1>8 DEF IInv, Apart, Owner, Rows
  <2>5. /\ Best(run[p].turn) \subseteq PassedFor(run[p].turn)
        /\ \A a \in PassedFor(run[p].turn) : answers[a].text \in Sound
        /\ \A a \in Best(run[p].turn) :
             \A b \in PassedFor(run[p].turn) \ {a} : Before(a, b)
    BY DEF Best, PassedFor, AnswersTo, IInv, Rows
  <2>6. \A a, b : Before(a, b)' <=> Before(a, b)
    BY <1>2 DEF Before
  <2>7. ShownIsChecked' /\ ShownIsBest'
    BY <1>2, <1>8, <2>1, <2>5, <2>6 DEF IInv, ShownIsChecked, ShownIsBest
  <2> QED
    BY <2>2, <2>3, <2>4, <2>7 DEF IInv
<1>9. CASE /\ work[p].pc = "show"
           /\ turns' = [turns EXCEPT ![run[p].turn].shown = work[p].winner]
  <2>1. work[p].winner \in Best(run[p].turn) /\ ~turns[run[p].turn].noted
    BY <1>1, <1>9 DEF Relies
  <2>2. /\ turns'[run[p].turn].shown = work[p].winner
        /\ turns'[run[p].turn].noted = turns[run[p].turn].noted
        /\ DOMAIN turns' = DOMAIN turns
        /\ \A t \in DOMAIN turns : t # run[p].turn => turns'[t] = turns[t]
    BY <1>1, <1>6, <1>7, <1>9 DEF Turn
  <2> QED
    BY <1>8, <2>1, <2>2
<1>10. CASE /\ work[p].pc = "note"
            /\ turns' = [turns EXCEPT ![run[p].turn].noted = TRUE]
  <2>1. /\ turns'[run[p].turn].shown = turns[run[p].turn].shown
        /\ DOMAIN turns' = DOMAIN turns
        /\ \A t \in DOMAIN turns : t # run[p].turn => turns'[t] = turns[t]
    BY <1>1, <1>6, <1>7, <1>10 DEF Turn
  <2> QED
    BY <1>4, <1>8, <1>10, <2>1
<1> QED
  BY <1>5, <1>9, <1>10 DEF Show, Note

-----------------------------------------------------------------------------
(* The theorems. *)

LEMMA IInvInit == Init => IInv
<1> SUFFICES ASSUME Init PROVE IInv
  OBVIOUS
<1>1. /\ turns = << >> /\ answers = << >>
      /\ \A p \in Procs : ui[p] = NoUi /\ run[p] = NoRun /\ work[p] = NoWork
  BY DEF Init
<1>2. NoUi.main = "off" /\ ~NoRun.running /\ NoWork.pc = "none"
  BY DEF NoUi, NoRun, NoWork
<1>3. \A p \in Procs : Relies(p)
  BY <1>1, <1>2 DEF Relies, Asking
<1>4. Apart /\ Rows /\ ShownIsChecked /\ ShownIsBest
  BY <1>1 DEF Apart, Rows, ShownIsChecked, ShownIsBest
<1> QED
  BY <1>3, <1>4, TypeInit DEF IInv

LEMMA IInvStep == IInv /\ [Next]_vars => IInv'
<1>1. ASSUME IInv, NEW p \in Procs, TypeOK',
             Front(p) \/ Person(p) \/ Worker(p) \/ Crash(p)
      PROVE  IInv'
  BY <1>1, QuietStep, GoneStep, BeginStep, PollStep, WorkMoveStep, InsertStep,
     AnswerStep, JudgeStep, ShowStep DEF Front, Worker
<1>2. ASSUME IInv, UNCHANGED vars
      PROVE  IInv'
  <2>1. \A t : AnswersTo(t)' = AnswersTo(t) /\ PassedFor(t)' = PassedFor(t)
               /\ Best(t)' = Best(t)
    BY <1>2 DEF AnswersTo, PassedFor, Best, Before, vars, file
  <2>2. \A q \in Procs : Relies(q)'
    BY <1>2, <2>1 DEF IInv, Relies, vars, file, thread
  <2>3. Apart' /\ Rows'
    BY <1>2 DEF IInv, Apart, Owner, Rows, vars, file, thread
  <2>4. ShownIsChecked' /\ ShownIsBest'
    BY <1>2, <2>1 DEF IInv, ShownIsChecked, ShownIsBest, Before, vars, file
  <2> QED
    BY <1>2, <2>2, <2>3, <2>4, TypeStep DEF IInv
<1>3. IInv /\ [Next]_vars => TypeOK'
  BY TypeStep DEF IInv
<1> QED
  BY <1>1, <1>2, <1>3 DEF Next

\* Whatever is refused or killed, and however many copies of the program ask
\* at once, the words under a prompt were collected for it and passed.
THEOREM ShownIsAlwaysChecked == Spec => []ShownIsChecked
<1>1. IInv => ShownIsChecked
  BY DEF IInv
<1> QED
  BY <1>1, IInvInit, IInvStep, PTL DEF Spec

\* They are the best of those that passed, now and ever after.
THEOREM ShownIsAlwaysBest == Spec => []ShownIsBest
<1>1. IInv => ShownIsBest
  BY DEF IInv
<1> QED
  BY <1>1, IInvInit, IInvStep, PTL DEF Spec

\* No two runs are ever on one prompt, in however many processes.
THEOREM RunsAlwaysApart == Spec => []RunsApart
<1>1. IInv => RunsApart
  BY DEF IInv, RunsApart, Relies, Apart, Owner
<1> QED
  BY <1>1, IInvInit, IInvStep, PTL DEF Spec

=============================================================================
