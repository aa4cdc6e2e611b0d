-------------------------- MODULE HarnessRunRecord --------------------------
(***************************************************************************)
(* What a run says of itself is what the file says of it: its outcome, its *)
(* counts, the history its models are told, and the header of the window.  *)
(* Proofs for any number of processes, models, prompts, crashes and        *)
(* refused statements.                                                     *)
(***************************************************************************)
EXTENDS HarnessRunLife, FiniteSetTheorems

-----------------------------------------------------------------------------
(* The invariants. *)

\* What the run's thread has come to, from the choice on.
Outcome(p) ==
  LET t    == run[p].turn
      over == work[p].pc \in {"note", "end"} \/ run[p].done
  IN  /\ work[p].pc \in Asking \cup {"check"} => work[p].winner = 0
      /\ work[p].pc = "settle" => work[p].winner = turns[t].shown
      /\ over => /\ run[p].stage \in {"DONE", "FAILED"}
                 /\ run[p].stage = "DONE" <=> turns[t].shown # 0
                 /\ run[p].shown = turns[t].shown
      /\ over \/ work[p].pc = "settle" =>
           (turns[t].shown = 0 /\ faults = 0 => PassedFor(t) = {})
      /\ work[p].pc = "end" \/ run[p].done => turns[t].noted \/ faults > 0

Outcomes == \A p \in Procs : run[p].running => Outcome(p)

\* The models that have been asked and dealt with.
Behind(p) ==
  CASE work[p].pc = "load" -> 0
    [] work[p].pc \in Asking \ {"load", "collect"} -> work[p].model - 1
    [] OTHER -> run[p].count

Silent(t) == {a \in AnswersTo(t) : answers[a].text = Silence}

\* The rows and the counts, while nothing was refused.
Tally(p) ==
  LET t == run[p].turn
  IN  /\ work[p].pc \in Asking \ {"load", "collect"} =>
           work[p].model \in 1..run[p].count
      /\ work[p].pc = "load" => run[p].count >= 1
      /\ Cardinality(AnswersTo(t)) = Behind(p)
      /\ \A m \in 1..Behind(p) : \E a \in AnswersTo(t) : answers[a].model = m
      /\ run[p].passed = Cardinality(PassedFor(t))
      /\ run[p].empty = Cardinality(Silent(t))

Tallies == \A p \in Procs : run[p].running /\ faults = 0 => Tally(p)

\* A process has the prompt it wrote last to itself, also after its run.
OwnPrompt ==
  /\ \A p \in Procs : /\ run[p].running => run[p].turn = ui[p].turn
                      /\ ui[p].turn # 0 => ui[p].turn \in DOMAIN turns
  /\ \A p, q \in Procs : p # q /\ ui[p].turn # 0 => ui[p].turn # ui[q].turn

Ended == {"ANSWERED", "NOTHING SURVIVED"}

\* What the header and the history of a process with no run going may say.
Header(p) ==
  LET line == ui[p].panel
      t    == ui[p].turn
  IN  /\ \A u \in DOMAIN line : line[u] # "nothing yet"
      /\ ui[p].main \in {"off", "reload"} => ui[p].status \notin Ended
      /\ ui[p].main \in {"idle", "start", "keep", "order", "write"} =>
           /\ ui[p].status \in Ended => t # 0 /\ t \in DOMAIN line
           /\ ui[p].status = "ANSWERED" => line[t] = "the answer"
           /\ ui[p].status = "NOTHING SURVIVED" =>
                line[t] # "the answer" /\ (faults = 0 => PassedFor(t) = {})

Headers == \A p \in Procs : ~run[p].running => Header(p)

RecordInv ==
  IInv /\ Outcomes /\ Tallies /\ OwnPrompt /\ Headers /\ HistoryIsChecked

-----------------------------------------------------------------------------
(* What one step leaves alone. *)

Step(p) == Front(p) \/ Person(p) \/ Worker(p) \/ Crash(p)

\* Prompt t and its answers are as they were.
Kept(t) ==
  /\ t \in DOMAIN turns' /\ turns'[t] = turns[t]
  /\ AnswersTo(t)' = AnswersTo(t)
  /\ \A a \in AnswersTo(t) : answers'[a] = answers[a]

LEMMA KeptSets ==
  ASSUME NEW t, Kept(t)
  PROVE  PassedFor(t)' = PassedFor(t) /\ Silent(t)' = Silent(t)
BY DEF Kept, PassedFor, Silent

LEMMA SameSets ==
  ASSUME answers' = answers
  PROVE  \A t : /\ AnswersTo(t)' = AnswersTo(t) /\ Silent(t)' = Silent(t)
                /\ PassedFor(t)' = PassedFor(t)
BY DEF AnswersTo, PassedFor, Silent

LEMMA FileKept ==
  ASSUME turns' = turns, answers' = answers, NEW t \in DOMAIN turns
  PROVE  Kept(t)
BY SameSets DEF Kept

\* No process changes what another holds in memory.
LEMMA Alone ==
  ASSUME IInv, NEW p \in Procs, Step(p), NEW q \in Procs, q # p
  PROVE  ui'[q] = ui[q] /\ run'[q] = run[q] /\ work'[q] = work[q]
<1>1. /\ ui \in [Procs -> Ui] /\ run \in [Procs -> Run] /\ work \in [Procs -> Work]
  BY DEF IInv, TypeOK
<1>2. CASE Open(p)
  BY <1>1, <1>2 DEF Open, thread
<1>3. CASE Send(p)
  BY <1>1, <1>3 DEF Send, thread
<1>4. CASE SendBusy(p)
  BY <1>1, <1>4 DEF SendBusy, thread
<1>5. CASE Ask(p)
  BY <1>1, <1>5 DEF Ask, thread
<1>6. CASE Close(p)
  BY <1>1, <1>6 DEF Close, thread
<1>7. CASE StartSession(p)
  BY <1>1, <1>7 DEF StartSession, Fails, thread
<1>8. CASE KeepSession(p)
  BY <1>1, <1>8 DEF KeepSession, thread
<1>9. CASE ReadOrdinal(p)
  BY <1>1, <1>9 DEF ReadOrdinal, Fails, thread
<1>10. CASE InsertTurn(p)
  BY <1>1, <1>10 DEF InsertTurn, Fails, thread
<1>11. CASE Begin(p)
  BY <1>1, <1>11 DEF Begin
<1>12. CASE NotBegun(p)
  BY <1>1, <1>12 DEF NotBegun, thread
<1>13. CASE ReloadSent(p)
  BY <1>1, <1>13 DEF ReloadSent, thread
<1>14. CASE Watch(p)
  BY <1>1, <1>14 DEF Watch, thread
<1>15. CASE Poll(p)
  BY <1>1, <1>15 DEF Poll
<1>16. CASE WaitRun(p)
  BY <1>1, <1>16 DEF WaitRun, Gone
<1>17. CASE Crash(p)
  BY <1>1, <1>17 DEF Crash, Gone
<1>18. CASE LoadHistory(p)
  BY <1>1, <1>18 DEF LoadHistory
<1>19. CASE AskModel(p)
  BY <1>1, <1>19 DEF AskModel
<1>20. CASE FirstReply(p)
  BY <1>1, <1>20 DEF FirstReply, Replies
<1>21. CASE SecondReply(p)
  BY <1>1, <1>21 DEF SecondReply, Replies
<1>22. CASE Unanswered(p)
  BY <1>1, <1>22 DEF Unanswered, Onwards
<1>23. CASE WriteAnswer(p)
  BY <1>1, <1>23 DEF WriteAnswer, Onwards
<1>24. CASE Collect(p)
  BY <1>1, <1>24 DEF Collect
<1>25. CASE Judge(p)
  BY <1>1, <1>25 DEF Judge
<1>26. CASE Pick(p)
  BY <1>1, <1>26 DEF Pick
<1>27. CASE Show(p)
  BY <1>1, <1>27 DEF Show
<1>28. CASE Settle(p)
  BY <1>1, <1>28 DEF Settle
<1>29. CASE Note(p)
  BY <1>1, <1>29 DEF Note
<1>30. CASE Finish(p)
  BY <1>1, <1>30 DEF Finish
<1> QED
  BY <1>2, <1>3, <1>4, <1>5, <1>6, <1>7, <1>8, <1>9, <1>10, <1>11, <1>12, <1>13, <1>14, <1>15,
     <1>16, <1>17, <1>18, <1>19, <1>20, <1>21, <1>22, <1>23, <1>24, <1>25, <1>26, <1>27, <1>28, <1>29, <1>30
     DEF Step, Front, Person, Worker

\* A refusal is never taken back.
LEMMA FaultsGrow ==
  ASSUME IInv, NEW p \in Procs, Step(p)
  PROVE  faults \in Nat /\ faults' \in Nat /\ faults <= faults'
<1>1. faults \in Nat
  BY DEF IInv, TypeOK
<1>2. Taken \/ Refused \/ Fails(p) \/ faults' = faults
  <2>1. CASE Person(p)
    BY <2>1, Zenon DEF Person, Open, Send, SendBusy, Ask, Close, Taken
  <2>2. CASE Front(p)
    BY <2>2, Zenon DEF Front, StartSession, KeepSession, ReadOrdinal, InsertTurn, Begin,
       NotBegun, ReloadSent, Watch, Poll, WaitRun, Taken
  <2>3. CASE Worker(p)
    BY <2>3, Zenon DEF Worker, LoadHistory, AskModel, FirstReply, SecondReply, Unanswered,
       WriteAnswer, Collect, Judge, Pick, Show, Settle, Note, Finish, Taken
  <2>4. CASE Crash(p)
    BY <2>4, Zenon DEF Crash
  <2> QED
    BY <2>1, <2>2, <2>3, <2>4 DEF Step
<1>3. Taken => faults' = faults
  BY DEF Taken, outside
<1>4. Refused \/ Fails(p) => faults' = faults + 1
  BY DEF Refused, Fails
<1> QED
  BY <1>1, <1>2, <1>3, <1>4

\* A step touches no prompt but the one its own run is on.
LEMMA KeptElsewhere ==
  ASSUME IInv, NEW p \in Procs, Step(p), NEW t \in DOMAIN turns,
         Worker(p) => t # run[p].turn
  PROVE  Kept(t)
<1>1. turns \in Seq(Turn) /\ answers \in Seq(Answer) /\ Relies(p)
  BY DEF IInv, TypeOK
<1>2. CASE turns' = turns /\ answers' = answers
  BY <1>2, FileKept
<1>3. CASE InsertTurn(p)
  <2>1. CASE turns' = Append(turns, Prompt(p))
    <3>1. t \in DOMAIN turns' /\ turns'[t] = turns[t]
      BY <1>1, <2>1
    <3>2. answers' = answers
      BY <1>3 DEF InsertTurn
    <3> QED
      BY <3>1, <3>2, SameSets DEF Kept
  <2> QED
    BY <1>2, <1>3, <2>1 DEF InsertTurn
<1>4. CASE Unanswered(p) \/ WriteAnswer(p)
  <2>1. t # run[p].turn /\ turns' = turns
    BY <1>4 DEF Worker, Unanswered, WriteAnswer
  <2>2. ASSUME NEW text, answers' = Append(answers, Row(p, text))
        PROVE  Kept(t)
    <3>1. PICK n \in Nat : n = Len(answers) + 1
      BY <1>1
    <3>2. /\ DOMAIN answers' = DOMAIN answers \cup {n}
          /\ \A a \in DOMAIN answers : answers'[a] = answers[a]
          /\ answers'[n] = Row(p, text)
      BY <1>1, <2>2, <3>1
    <3>3. Row(p, text).turn # t
      BY <2>1 DEF Row
    <3>4. AnswersTo(t) \subseteq DOMAIN answers
      BY DEF AnswersTo
    <3>5. AnswersTo(t)' = AnswersTo(t)
      BY <3>2, <3>3 DEF AnswersTo
    <3> QED
      BY <2>1, <3>2, <3>4, <3>5 DEF Kept
  <2> QED
    BY <1>2, <1>4, <2>1, <2>2 DEF Unanswered, WriteAnswer
<1>5. CASE Judge(p)
  <2>1. t # run[p].turn /\ turns' = turns
    BY <1>5 DEF Worker, Judge
  <2>2. PICK a \in work[p].unchecked :
          \/ answers' = [answers EXCEPT ![a].verdict = Judged(answers[a].text)]
          \/ answers' = answers
    BY <1>5 DEF Judge
  <2>3. a \in DOMAIN answers /\ answers[a].turn = run[p].turn
    BY <1>1, <1>5 DEF Judge, Relies, AnswersTo
  <2>4. /\ DOMAIN answers' = DOMAIN answers
        /\ \A b \in DOMAIN answers : b # a => answers'[b] = answers[b]
        /\ answers'[a].turn = answers[a].turn
    <3>1. answers[a] \in Answer
      BY <1>1, <2>3
    <3> QED
      BY <1>1, <2>2, <2>3, <3>1 DEF Answer
  <2>5. AnswersTo(t)' = AnswersTo(t)
    BY <2>1, <2>3, <2>4 DEF AnswersTo
  <2>6. \A b \in AnswersTo(t) : b \in DOMAIN answers /\ b # a
    BY <2>1, <2>3 DEF AnswersTo
  <2> QED
    BY <2>1, <2>4, <2>5, <2>6 DEF Kept
<1>6. CASE Show(p) \/ Note(p)
  <2>1. t # run[p].turn /\ answers' = answers
    BY <1>6 DEF Worker, Show, Note
  <2>2. t \in DOMAIN turns' /\ turns'[t] = turns[t]
    BY <1>1, <1>6, <2>1 DEF Show, Note
  <2> QED
    BY <2>1, <2>2, SameSets DEF Kept
<1>7. CASE Person(p) \/ Crash(p) \/ WaitRun(p)
  <2>1. turns' = turns /\ answers' = answers
    BY <1>7 DEF Person, Open, Send, SendBusy, Ask, Close, Crash, WaitRun, file
  <2> QED
    BY <1>2, <2>1
<1>8. CASE \/ StartSession(p) \/ KeepSession(p) \/ ReadOrdinal(p) \/ Begin(p)
           \/ NotBegun(p) \/ ReloadSent(p) \/ Watch(p) \/ Poll(p)
  <2>1. turns' = turns /\ answers' = answers
    BY <1>8 DEF StartSession, KeepSession, ReadOrdinal, Begin, NotBegun, ReloadSent,
       Watch, Poll, file
  <2> QED
    BY <1>2, <2>1
<1>9. CASE \/ LoadHistory(p) \/ AskModel(p) \/ FirstReply(p) \/ SecondReply(p)
           \/ Collect(p) \/ Pick(p) \/ Settle(p) \/ Finish(p)
  <2>1. turns' = turns /\ answers' = answers
    BY <1>9 DEF LoadHistory, AskModel, FirstReply, SecondReply, Collect, Pick, Settle,
       Finish, file
  <2> QED
    BY <1>2, <2>1
<1> QED
  BY <1>3, <1>4, <1>5, <1>6, <1>7, <1>8, <1>9 DEF Step, Front, Worker

\* A run keeps its prompt and its models for as long as its thread is at work.
LEMMA RunFields ==
  ASSUME IInv, NEW p \in Procs, Worker(p)
  PROVE  /\ work[p].pc # "none" /\ run[p].running
         /\ run'[p].turn = run[p].turn /\ run'[p].running = run[p].running
         /\ run'[p].count = run[p].count
<1>1. run \in [Procs -> Run] /\ run[p] \in Run
  BY DEF IInv, TypeOK
<1>2. work[p].pc # "none"
  BY DEF Worker, LoadHistory, AskModel, FirstReply, SecondReply, Unanswered, WriteAnswer,
     Collect, Judge, Pick, Show, Settle, Note, Finish
<1>3. run[p].running
  BY <1>2 DEF IInv, Relies
<1> DEFINE Same == /\ run'[p].turn = run[p].turn /\ run'[p].running = run[p].running
                   /\ run'[p].count = run[p].count
<1>4. ASSUME run' = run PROVE Same
  BY <1>4
<1>5. ASSUME AskModel(p) PROVE Same
  BY <1>1, <1>5 DEF AskModel, Run
<1>6. ASSUME Unanswered(p) PROVE Same
  BY <1>1, <1>6 DEF Unanswered, Run
<1>7. ASSUME WriteAnswer(p) PROVE Same
  <2>1. ASSUME NEW n, run' = [run EXCEPT ![p] = [run[p] EXCEPT !.answered = @ + 1,
                                                               !.empty = @ + n]]
        PROVE  Same
    BY <1>1, <2>1 DEF Run
  <2> QED
    BY <1>4, <1>7, <2>1 DEF WriteAnswer
<1>8. ASSUME Collect(p) PROVE Same
  BY <1>1, <1>8 DEF Collect, Run
<1>9. ASSUME Judge(p) PROVE Same
  <2>1. PICK n : run' = [run EXCEPT ![p].passed = @ + n]
    BY <1>9 DEF Judge
  <2> QED
    BY <1>1, <2>1 DEF Run
<1>10. ASSUME Settle(p) PROVE Same
  BY <1>1, <1>10 DEF Settle, Run
<1>11. ASSUME Finish(p) PROVE Same
  BY <1>1, <1>11 DEF Finish, Run
<1> HIDE DEF Same
<1>12. Same
  BY <1>4, <1>5, <1>6, <1>7, <1>8, <1>9, <1>10, <1>11
     DEF Same, Worker, LoadHistory, FirstReply, SecondReply, Pick, Show, Note
<1> QED
  BY <1>2, <1>3, <1>12 DEF Same

\* It is done when its thread is, and its thread keeps what it loaded.
LEMMA WorkFields ==
  ASSUME IInv, NEW p \in Procs, Worker(p), ~Finish(p)
  PROVE  /\ ~run'[p].done
         /\ ~LoadHistory(p) => work'[p].history = work[p].history
         /\ ~Pick(p) /\ ~Show(p) => work'[p].winner = work[p].winner
<1>1. /\ run \in [Procs -> Run] /\ run[p] \in Run
      /\ work \in [Procs -> Work] /\ work[p] \in Work
  BY DEF IInv, TypeOK
<1>2. ~run[p].done
  BY RunFields DEF IInv, Relies
<1>3. CASE LoadHistory(p)
  <2>1. PICK H : work' = [work EXCEPT ![p] = [@ EXCEPT !.history = H, !.model = 1,
                                                       !.pc = "ask"]]
    BY <1>3 DEF LoadHistory
  <2>2. work'[p].winner = work[p].winner
    BY <1>1, <2>1 DEF Work
  <2> QED
    BY <1>2, <1>3, <2>2 DEF LoadHistory
<1>4. CASE AskModel(p)
  <2>1. ~run'[p].done
    BY <1>1, <1>2, <1>4 DEF AskModel, Run
  <2> QED
    BY <1>1, <1>4, <2>1 DEF AskModel, Work
<1> DEFINE Same == work'[p].history = work[p].history /\ work'[p].winner = work[p].winner
<1>5. ASSUME Replies(p) PROVE Same
  <2>1. ASSUME NEW t, work' = [work EXCEPT ![p] = [@ EXCEPT !.reply = t, !.pc = "write"]]
        PROVE  Same
    BY <1>1, <2>1 DEF Work
  <2>2. ASSUME work' = [work EXCEPT ![p].pc = "unanswered"]
        PROVE  Same
    BY <1>1, <2>2 DEF Work
  <2> QED
    BY <1>5, <2>1, <2>2 DEF Replies
<1>6. ASSUME work' = [work EXCEPT ![p].pc = "again"] PROVE Same
  BY <1>1, <1>6 DEF Work
<1>7. ASSUME Onwards(p) PROVE Same
  <2>1. ASSUME work' = [work EXCEPT ![p] = [work[p] EXCEPT !.reply = Silence,
                                                           !.model = @ + 1, !.pc = "ask"]]
        PROVE  Same
    BY <1>1, <2>1 DEF Work
  <2>2. ASSUME work' = [work EXCEPT ![p] = [@ EXCEPT !.reply = Silence, !.pc = "collect"]]
        PROVE  Same
    BY <1>1, <2>2 DEF Work
  <2> QED
    BY <1>7, <2>1, <2>2 DEF Onwards
<1> HIDE DEF Same
<1>8. CASE FirstReply(p) \/ SecondReply(p)
  <2>1. Same /\ run' = run
    BY <1>5, <1>6, <1>8 DEF FirstReply, SecondReply
  <2> QED
    BY <1>2, <2>1 DEF Same
<1>9. CASE Unanswered(p)
  <2>1. Same
    BY <1>7, <1>9 DEF Unanswered
  <2>2. ~run'[p].done
    BY <1>1, <1>2, <1>9 DEF Unanswered, Run
  <2> QED
    BY <2>1, <2>2 DEF Same
<1>10. CASE WriteAnswer(p)
  <2>1. Same
    BY <1>7, <1>10 DEF WriteAnswer
  <2>2. ASSUME NEW n, run' = [run EXCEPT ![p] = [run[p] EXCEPT !.answered = @ + 1,
                                                               !.empty = @ + n]]
        PROVE  ~run'[p].done
    BY <1>1, <1>2, <2>2 DEF Run
  <2>3. ~run'[p].done
    BY <1>2, <1>10, <2>2 DEF WriteAnswer
  <2> QED
    BY <2>1, <2>3 DEF Same
<1>11. CASE Collect(p)
  <2>1. ~run'[p].done
    BY <1>1, <1>2, <1>11 DEF Collect, Run
  <2>2. PICK S : work' = [work EXCEPT ![p] = [@ EXCEPT !.unchecked = S, !.pc = "check"]]
    BY <1>11 DEF Collect
  <2> QED
    BY <1>1, <2>1, <2>2 DEF Work
<1>12. CASE Judge(p)
  <2>1. PICK n : run' = [run EXCEPT ![p].passed = @ + n]
    BY <1>12 DEF Judge
  <2>2. PICK a : work' = [work EXCEPT ![p].unchecked = @ \ {a}]
    BY <1>12 DEF Judge
  <2> QED
    BY <1>1, <1>2, <2>1, <2>2 DEF Run, Work
<1>13. CASE Pick(p)
  <2>1. ASSUME NEW a, work' = [work EXCEPT ![p] = [@ EXCEPT !.winner = a, !.pc = "show"]]
        PROVE  work'[p].history = work[p].history
    BY <1>1, <2>1 DEF Work
  <2>2. ASSUME work' = [work EXCEPT ![p].pc = "settle"]
        PROVE  work'[p].history = work[p].history
    BY <1>1, <2>2 DEF Work
  <2> QED
    BY <1>2, <1>13, <2>1, <2>2 DEF Pick
<1>14. CASE Show(p)
  <2>1. ASSUME work' = [work EXCEPT ![p] = [@ EXCEPT !.winner = 0, !.pc = "settle"]]
        PROVE  work'[p].history = work[p].history
    BY <1>1, <2>1 DEF Work
  <2>2. ASSUME work' = [work EXCEPT ![p].pc = "settle"]
        PROVE  work'[p].history = work[p].history
    BY <1>1, <2>2 DEF Work
  <2> QED
    BY <1>2, <1>14, <2>1, <2>2 DEF Show
<1>15. CASE Settle(p)
  BY <1>1, <1>2, <1>15 DEF Settle, Run, Work
<1>16. CASE Note(p)
  BY <1>1, <1>2, <1>16 DEF Note, Work
<1> QED
  BY <1>3, <1>4, <1>8, <1>9, <1>10, <1>11, <1>12, <1>13, <1>14, <1>15, <1>16 DEF Worker

-----------------------------------------------------------------------------
(* The history. *)

\* A prompt stays in its conversation, and what is shown under it stays.
LEMMA PromptsStay ==
  ASSUME IInv, [Next]_vars, NEW t \in DOMAIN turns
  PROVE  /\ t \in DOMAIN turns' /\ turns'[t].session = turns[t].session
         /\ turns[t].shown # 0 => turns'[t].shown = turns[t].shown
<1>1. turns \in Seq(Turn) /\ turns[t] \in Turn
  BY DEF IInv, TypeOK
<1>2. CASE turns' = turns
  BY <1>2
<1>3. CASE PromptAdded
  BY <1>1, <1>3 DEF PromptAdded
<1>4. CASE AnswerChosen
  <2>1. PICK u \in DOMAIN turns : \E a \in AnswersTo(u) :
          Answerable(u) /\ turns' = [turns EXCEPT ![u].shown = a]
    BY <1>4 DEF AnswerChosen
  <2>2. turns[u] \in Turn
    BY <1>1
  <2> QED
    BY <1>1, <2>1, <2>2 DEF Answerable, Turn
<1>5. CASE RecordAdded
  <2>1. PICK u \in DOMAIN turns : turns' = [turns EXCEPT ![u].noted = TRUE]
    BY <1>5 DEF RecordAdded
  <2>2. turns[u] \in Turn
    BY <1>1
  <2> QED
    BY <1>1, <2>1, <2>2 DEF Turn
<1> QED
  BY <1>2, <1>3, <1>4, <1>5, FileStep DEF Untouched, AnswerAdded, AnswerJudged

\* The run a history was loaded for is the run it is used in.
LEMMA HistoryMove ==
  ASSUME IInv, NEW p \in Procs, Step(p)
  PROVE  \/ ~run'[p].running
         \/ work'[p].history = {}
         \/ /\ run'[p].turn = run[p].turn /\ run[p].running
            /\ \/ work'[p].history = work[p].history
               \/ work'[p].history \subseteq Exchanges(run[p].turn)
<1>1. /\ run \in [Procs -> Run] /\ work \in [Procs -> Work]
      /\ run[p] \in Run /\ work[p] \in Work
  BY DEF IInv, TypeOK
<1>2. work[p].pc # "none" => run[p].running
  BY DEF IInv, Relies
<1>3. CASE run' = run /\ work' = work
  BY <1>3
<1>4. CASE Begin(p) \/ Finish(p)
  <2>1. work'[p] = [NoWork EXCEPT !.pc = "load"] \/ work'[p] = NoWork
    BY <1>1, <1>4 DEF Begin, Finish
  <2> QED
    BY <2>1 DEF NoWork
<1>5. CASE Poll(p) \/ WaitRun(p) \/ Crash(p)
  <2>1. CASE Poll(p)
    BY <1>1, <2>1 DEF Poll, Run
  <2>2. CASE WaitRun(p) \/ Crash(p)
    BY <1>1, <2>2 DEF WaitRun, Crash, Gone, NoRun
  <2> QED
    BY <1>5, <2>1, <2>2
<1>6. CASE LoadHistory(p)
  <2>1. PICK H \in NewestOf(Exchanges(run[p].turn)) :
          work' = [work EXCEPT ![p] = [@ EXCEPT !.history = H, !.model = 1, !.pc = "ask"]]
    BY <1>6 DEF LoadHistory
  <2>2. H \subseteq Exchanges(run[p].turn)
    BY DEF NewestOf
  <2>3. work'[p].history = H
    BY <1>1, <2>1 DEF Work
  <2> QED
    BY <1>2, <1>6, <2>2, <2>3 DEF LoadHistory
<1>7. CASE Worker(p) /\ ~LoadHistory(p) /\ ~Finish(p)
  BY <1>7, RunFields, WorkFields
<1>8. CASE Person(p)
  BY <1>3, <1>8 DEF Person, Open, Send, SendBusy, Ask, Close, thread
<1>9. CASE \/ StartSession(p) \/ KeepSession(p) \/ ReadOrdinal(p) \/ InsertTurn(p)
           \/ NotBegun(p) \/ ReloadSent(p) \/ Watch(p)
  BY <1>3, <1>9 DEF StartSession, KeepSession, ReadOrdinal, InsertTurn, NotBegun,
     ReloadSent, Watch, thread
<1> QED
  BY <1>4, <1>5, <1>6, <1>7, <1>8, <1>9 DEF Step, Front

LEMMA HistoryStep ==
  ASSUME IInv, IInv', NEW p \in Procs, Step(p), HistoryIsChecked
  PROVE  HistoryIsChecked'
<1> DEFINE Fits(u, t) == /\ u \in DOMAIN turns /\ u < t
                         /\ turns[u].session = turns[t].session
                         /\ turns[u].shown # 0
<1>1. [Next]_vars
  BY DEF Next, Step
<1>2. ASSUME NEW t \in DOMAIN turns, NEW u, Fits(u, t)
      PROVE  /\ u < t /\ turns'[u].session = turns'[t].session
             /\ turns'[u].shown \in PassedFor(u)'
  <2>1. u \in DOMAIN turns' /\ turns'[u].shown # 0
    BY <1>1, <1>2, PromptsStay
  <2>2. turns'[u].session = turns'[t].session
    BY <1>1, <1>2, PromptsStay
  <2>3. turns'[u].shown \in PassedFor(u)'
    BY <2>1 DEF IInv, ShownIsChecked
  <2> QED
    BY <1>2, <2>2, <2>3
<1>3. ASSUME NEW t \in DOMAIN turns, NEW u,
             u < t, turns[u].session = turns[t].session, turns[u].shown \in PassedFor(u)
      PROVE  Fits(u, t)
  <2>1. answers \in Seq(Answer)
    BY DEF IInv, TypeOK
  <2>2. turns[u].shown \in DOMAIN answers /\ answers[turns[u].shown].turn = u
    BY <1>3 DEF PassedFor, AnswersTo
  <2>3. turns[u].shown # 0 /\ u \in DOMAIN turns
    BY <2>1, <2>2 DEF IInv, Rows
  <2> QED
    BY <1>3, <2>3
<1>4. ASSUME NEW t \in DOMAIN turns, NEW u \in Exchanges(t)
      PROVE  Fits(u, t)
  BY DEF Exchanges, IInv, TypeOK
<1>5. ASSUME NEW q \in Procs, run'[q].running, NEW u \in work'[q].history
      PROVE  /\ u < run'[q].turn
             /\ turns'[u].session = turns'[run'[q].turn].session
             /\ turns'[u].shown \in PassedFor(u)'
  <2>1. /\ run'[q].turn = run[q].turn /\ run[q].running
        /\ \/ work'[q].history = work[q].history
           \/ work'[q].history \subseteq Exchanges(run[q].turn)
    <3>1. CASE q = p
      BY <1>5, <3>1, HistoryMove
    <3>2. CASE q # p
      BY <1>5, <3>2, Alone
    <3> QED
      BY <3>1, <3>2
  <2>2. run[q].turn \in DOMAIN turns
    BY <2>1 DEF IInv, Relies
  <2>3. Fits(u, run[q].turn)
    <3>1. CASE u \in work[q].history
      BY <1>3, <2>1, <2>2, <3>1 DEF HistoryIsChecked
    <3>2. CASE u \in Exchanges(run[q].turn)
      BY <1>4, <2>2, <3>2
    <3> QED
      BY <1>5, <2>1, <3>1, <3>2
  <2> HIDE DEF Fits
  <2> QED
    BY <1>2, <2>1, <2>2, <2>3
<1> QED
  BY <1>5 DEF HistoryIsChecked

-----------------------------------------------------------------------------
(* The outcome. *)

\* A run is as it was after a step that is not its own.
LEMMA RunKept ==
  ASSUME IInv, NEW p \in Procs, Step(p), NEW q \in Procs, run'[q].running,
         q # p \/ (~Worker(p) /\ ~Begin(p))
  PROVE  /\ run[q].running /\ run'[q] = run[q] /\ work'[q] = work[q]
         /\ \E t \in DOMAIN turns : t = run[q].turn /\ Kept(t)
<1>1. /\ ui \in [Procs -> Ui] /\ run \in [Procs -> Run] /\ run[p] \in Run
  BY DEF IInv, TypeOK
<1>2. run'[q] = run[q] /\ work'[q] = work[q]
  <2>1. CASE q # p
    BY <2>1, Alone
  <2>2. CASE q = p
    <3>1. CASE Person(p)
      BY <2>2, <3>1, Zenon DEF Person, Open, Send, SendBusy, Ask, Close, thread
    <3>2. CASE Poll(p)
      BY <1>1, <2>2, <3>2 DEF Poll, Run
    <3>3. CASE WaitRun(p) \/ Crash(p)
      BY <1>1, <2>2, <3>3 DEF WaitRun, Crash, Gone, NoRun
    <3>4. CASE \/ StartSession(p) \/ KeepSession(p) \/ ReadOrdinal(p) \/ InsertTurn(p)
               \/ NotBegun(p) \/ ReloadSent(p) \/ Watch(p)
      BY <3>4 DEF StartSession, KeepSession, ReadOrdinal, InsertTurn, NotBegun,
         ReloadSent, Watch, thread
    <3> QED
      BY <2>2, <3>1, <3>2, <3>3, <3>4 DEF Step, Front
  <2> QED
    BY <2>1, <2>2
<1>3. run[q].running
  BY <1>2
<1>4. PICK t \in DOMAIN turns : t = run[q].turn
  BY <1>3 DEF IInv, Relies
<1>5. Worker(p) => t # run[p].turn
  <2>1. SUFFICES ASSUME Worker(p) PROVE t # run[p].turn
    OBVIOUS
  <2>2. run[p].running /\ p # q
    BY <2>1, RunFields
  <2>3. Owner(p, run[p].turn) /\ Owner(q, t)
    BY <1>3, <1>4, <2>2 DEF Owner
  <2> QED
    BY <1>4, <2>2, <2>3 DEF IInv, Apart
<1>6. Kept(t)
  BY <1>5, KeptElsewhere
<1> QED
  BY <1>2, <1>3, <1>4, <1>6

LEMMA OutcomeKept ==
  ASSUME IInv, NEW q \in Procs, Outcome(q),
         run'[q] = run[q], work'[q] = work[q],
         NEW t, t = run[q].turn, Kept(t),
         faults \in Nat, faults' \in Nat, faults <= faults'
  PROVE  Outcome(q)'
<1>1. turns'[t] = turns[t] /\ PassedFor(t)' = PassedFor(t)
  BY KeptSets DEF Kept
<1>2. (faults' = 0 => faults = 0) /\ (faults > 0 => faults' > 0)
  OBVIOUS
<1> QED
  BY <1>1, <1>2 DEF Outcome

LEMMA OutcomeBusy ==
  ASSUME NEW p, ~run'[p].done, work'[p].pc \in Asking \cup {"check", "show"},
         work'[p].pc # "show" => work'[p].winner = 0
  PROVE  Outcome(p)'
BY DEF Outcome, Asking

\* Where the thread is after a step of its own.
LEMMA PcAsking ==
  ASSUME IInv, NEW p \in Procs,
         \/ LoadHistory(p) \/ AskModel(p) \/ FirstReply(p) \/ SecondReply(p)
         \/ Unanswered(p) \/ WriteAnswer(p) \/ Collect(p) \/ Judge(p)
  PROVE  /\ work[p].pc \in Asking \cup {"check"}
         /\ work'[p].pc \in Asking \cup {"check"}
<1>1. work \in [Procs -> Work] /\ work[p] \in Work
  BY DEF IInv, TypeOK
<1>2. work[p].pc \in Asking \cup {"check"}
  BY DEF LoadHistory, AskModel, FirstReply, SecondReply, Unanswered, WriteAnswer, Collect,
     Judge, Asking
<1>3. CASE LoadHistory(p)
  <2>1. PICK H : work' = [work EXCEPT ![p] = [@ EXCEPT !.history = H, !.model = 1,
                                                       !.pc = "ask"]]
    BY <1>3 DEF LoadHistory
  <2> QED
    BY <1>1, <1>2, <2>1 DEF Work, Asking
<1>4. CASE AskModel(p)
  BY <1>1, <1>2, <1>4 DEF AskModel, Work, Asking
<1>5. CASE FirstReply(p) \/ SecondReply(p)
  <2>1. ASSUME NEW t, work' = [work EXCEPT ![p] = [@ EXCEPT !.reply = t, !.pc = "write"]]
        PROVE  work'[p].pc \in Asking
    BY <1>1, <2>1 DEF Work, Asking
  <2>2. ASSUME NEW c \in {"again", "unanswered"}, work' = [work EXCEPT ![p].pc = c]
        PROVE  work'[p].pc \in Asking
    BY <1>1, <2>2 DEF Work, Asking
  <2> QED
    BY <1>2, <1>5, <2>1, <2>2 DEF FirstReply, SecondReply, Replies
<1>6. CASE Unanswered(p) \/ WriteAnswer(p)
  <2>1. ASSUME work' = [work EXCEPT ![p] = [work[p] EXCEPT !.reply = Silence,
                                                           !.model = @ + 1, !.pc = "ask"]]
        PROVE  work'[p].pc \in Asking
    BY <1>1, <2>1 DEF Work, Asking
  <2>2. ASSUME work' = [work EXCEPT ![p] = [@ EXCEPT !.reply = Silence, !.pc = "collect"]]
        PROVE  work'[p].pc \in Asking
    BY <1>1, <2>2 DEF Work, Asking
  <2> QED
    BY <1>2, <1>6, <2>1, <2>2 DEF Unanswered, WriteAnswer, Onwards
<1>7. CASE Collect(p)
  <2>1. PICK S : work' = [work EXCEPT ![p] = [@ EXCEPT !.unchecked = S, !.pc = "check"]]
    BY <1>7 DEF Collect
  <2> QED
    BY <1>1, <1>2, <2>1 DEF Work
<1>8. CASE Judge(p)
  <2>1. PICK a : work' = [work EXCEPT ![p].unchecked = @ \ {a}]
    BY <1>8 DEF Judge
  <2> QED
    BY <1>1, <1>2, <2>1 DEF Work
<1> QED
  BY <1>3, <1>4, <1>5, <1>6, <1>7, <1>8

\* The choice is made, or there is none and nothing to choose from.
LEMMA OutcomePick ==
  ASSUME IInv, NEW p \in Procs, Pick(p), Outcome(p), faults \in Nat
  PROVE  Outcome(p)'
<1>1. /\ work \in [Procs -> Work] /\ work[p] \in Work /\ run' = run /\ ~run'[p].done
      /\ turns' = turns /\ answers' = answers /\ work[p].pc = "check"
  <2>1. ~run'[p].done
    BY WorkFields DEF Worker, Pick, Finish
  <2> QED
    BY <2>1 DEF Pick, IInv, TypeOK, file
<1>2. turns[run[p].turn].shown = 0 /\ work[p].winner = 0
  BY <1>1 DEF IInv, Relies, Outcome
<1>3. CASE \E a \in Best(run[p].turn) :
             work' = [work EXCEPT ![p] = [@ EXCEPT !.winner = a, !.pc = "show"]]
  <2>1. work'[p].pc = "show"
    BY <1>1, <1>3 DEF Work
  <2> QED
    BY <1>1, <2>1, OutcomeBusy
<1>4. CASE /\ work' = [work EXCEPT ![p].pc = "settle"]
           /\ PassedFor(run[p].turn) = {} \/ Refused
  <2>1. work'[p].pc = "settle" /\ work'[p].winner = 0
    BY <1>1, <1>2, <1>4 DEF Work
  <2>2. SUFFICES ASSUME NEW t, t = run[p].turn PROVE Outcome(p)'
    OBVIOUS
  <2>3. PassedFor(t)' = {} \/ faults' # 0
    BY <1>1, <1>4, <2>2, SameSets DEF Refused
  <2> QED
    BY <1>1, <1>2, <2>1, <2>2, <2>3 DEF Outcome, Asking
<1> QED
  BY <1>3, <1>4 DEF Pick

\* It is put up, or what was to be put up is forgotten.
LEMMA OutcomeShow ==
  ASSUME IInv, NEW p \in Procs, Show(p), Outcome(p), faults \in Nat
  PROVE  Outcome(p)'
<1>1. /\ work \in [Procs -> Work] /\ work[p] \in Work /\ run' = run /\ ~run'[p].done
      /\ answers' = answers /\ work[p].pc = "show" /\ turns \in Seq(Turn)
      /\ answers \in Seq(Answer)
  <2>1. ~run'[p].done
    BY WorkFields DEF Worker, Show, Finish
  <2> QED
    BY <2>1 DEF Show, IInv, TypeOK
<1>2. PICK t \in DOMAIN turns : t = run[p].turn
  BY RunFields DEF Worker, IInv, Relies
<1>3. /\ turns[t].shown = 0 /\ work[p].winner \in DOMAIN answers
      /\ answers[work[p].winner].turn = t
  BY <1>1, <1>2 DEF IInv, Relies, Best, PassedFor, AnswersTo
<1>4. work[p].winner # 0
  BY <1>1, <1>3
<1>5. CASE /\ turns' = [turns EXCEPT ![run[p].turn].shown = work[p].winner]
           /\ work' = [work EXCEPT ![p].pc = "settle"]
  <2>1. turns[t] \in Turn
    BY <1>1
  <2>2. turns'[t].shown = work[p].winner
    BY <1>1, <1>2, <1>5, <2>1 DEF Turn
  <2>3. work'[p].pc = "settle" /\ work'[p].winner = work[p].winner
    BY <1>1, <1>5 DEF Work
  <2> QED
    BY <1>1, <1>2, <1>4, <2>2, <2>3 DEF Outcome, Asking
<1>6. CASE /\ work' = [work EXCEPT ![p] = [@ EXCEPT !.winner = 0, !.pc = "settle"]]
           /\ turns' = turns /\ Refused
  <2>1. work'[p].pc = "settle" /\ work'[p].winner = 0
    BY <1>1, <1>6 DEF Work
  <2>2. faults' # 0
    BY <1>6 DEF Refused
  <2> QED
    BY <1>1, <1>2, <1>3, <1>6, <2>1, <2>2 DEF Outcome, Asking
<1> QED
  BY <1>2, <1>3, <1>5, <1>6 DEF Show

\* The outcome is said as it is in the file, and the record written.
LEMMA OutcomeEnd ==
  ASSUME IInv, NEW p \in Procs, Settle(p) \/ Note(p) \/ Finish(p), Outcome(p),
         faults \in Nat, run[p].running
  PROVE  Outcome(p)'
<1>1. /\ work \in [Procs -> Work] /\ work[p] \in Work /\ turns \in Seq(Turn)
      /\ run \in [Procs -> Run] /\ run[p] \in Run /\ answers' = answers
  BY DEF Settle, Note, Finish, IInv, TypeOK, file
<1>2. PICK t \in DOMAIN turns : t = run[p].turn
  BY DEF IInv, Relies
<1>3. PassedFor(t)' = PassedFor(t) /\ turns[t] \in Turn
  BY <1>1, SameSets
<1>4. CASE Settle(p)
  <2>1. /\ work'[p].pc = "note" /\ work[p].pc = "settle" /\ turns' = turns
        /\ faults' = faults
    BY <1>1, <1>4 DEF Settle, file, outside, Work
  <2>2. /\ run'[p].turn = t /\ run'[p].shown = work[p].winner
        /\ run'[p].stage = IF work[p].winner # 0 THEN "DONE" ELSE "FAILED"
    BY <1>1, <1>2, <1>4 DEF Settle, Run
  <2>3. ~run'[p].done
    BY <1>4, WorkFields DEF Worker, Settle, Finish
  <2>4. /\ work[p].winner = turns[t].shown
        /\ turns[t].shown = 0 /\ faults = 0 => PassedFor(t) = {}
    BY <1>2, <2>1 DEF Outcome
  <2> QED
    BY <1>3, <2>1, <2>2, <2>3, <2>4 DEF Outcome, Asking
<1>5. CASE Note(p)
  <2>1. work'[p].pc = "end" /\ work[p].pc = "note" /\ run' = run
    BY <1>1, <1>5 DEF Note, Work
  <2>2. /\ turns'[t].shown = turns[t].shown
        /\ \/ turns'[t].noted /\ faults' = faults
           \/ faults' = faults + 1
    BY <1>1, <1>2, <1>3, <1>5 DEF Note, Turn, Taken, Refused, outside
  <2> QED
    BY <1>2, <1>3, <2>1, <2>2 DEF Outcome, Asking
<1>6. CASE Finish(p)
  <2>1. /\ work'[p].pc = "none" /\ work[p].pc = "end" /\ turns' = turns /\ faults' = faults
    BY <1>1, <1>6 DEF Finish, file, outside, NoWork
  <2>2. /\ run'[p].turn = t /\ run'[p].stage = run[p].stage
        /\ run'[p].shown = run[p].shown
    BY <1>1, <1>2, <1>6 DEF Finish, Run
  <2> QED
    BY <1>2, <1>3, <2>1, <2>2 DEF Outcome, Asking
<1> QED
  BY <1>4, <1>5, <1>6

LEMMA OutcomeStep ==
  ASSUME IInv, Outcomes, NEW p \in Procs, Step(p)
  PROVE  Outcomes'
<1>1. SUFFICES ASSUME NEW q \in Procs, run'[q].running PROVE Outcome(q)'
  BY DEF Outcomes
<1>2. faults \in Nat /\ faults' \in Nat /\ faults <= faults'
  BY FaultsGrow
<1>3. CASE q # p \/ (~Worker(p) /\ ~Begin(p))
  <2>1. /\ run[q].running /\ run'[q] = run[q] /\ work'[q] = work[q]
        /\ \E t \in DOMAIN turns : t = run[q].turn /\ Kept(t)
    BY <1>1, <1>3, RunKept
  <2>2. Outcome(q)
    BY <2>1 DEF Outcomes
  <2> QED
    BY <1>2, <2>1, <2>2, OutcomeKept
<1>4. CASE q = p /\ Begin(p)
  <2>1. run \in [Procs -> Run] /\ work \in [Procs -> Work]
    BY DEF IInv, TypeOK
  <2>2. PICK n : run' = [run EXCEPT ![p] = [NoRun EXCEPT !.running = TRUE,
                                                         !.turn = ui[p].turn, !.count = n]]
    BY <1>4 DEF Begin
  <2>3. ~run'[p].done
    BY <2>1, <2>2 DEF NoRun
  <2>4. work'[p].pc = "load" /\ work'[p].winner = 0
    BY <1>4, <2>1 DEF Begin, NoWork
  <2> QED
    BY <1>4, <2>3, <2>4, OutcomeBusy DEF Asking
<1>5. CASE q = p /\ Worker(p)
  <2>1. run[p].running /\ Outcome(p)
    BY <1>5, RunFields DEF Outcomes
  <2>2. CASE Pick(p) \/ Show(p) \/ Settle(p) \/ Note(p) \/ Finish(p)
    BY <1>2, <1>5, <2>1, <2>2, OutcomePick, OutcomeShow, OutcomeEnd
  <2>3. CASE \/ LoadHistory(p) \/ AskModel(p) \/ FirstReply(p) \/ SecondReply(p)
             \/ Unanswered(p) \/ WriteAnswer(p) \/ Collect(p) \/ Judge(p)
    <3>1. /\ work[p].pc \in Asking \cup {"check"}
          /\ work'[p].pc \in Asking \cup {"check"}
      BY <2>3, PcAsking
    <3>2. ~Finish(p) /\ ~Pick(p) /\ ~Show(p)
      <4>1. work[p].pc # "show" /\ work[p].pc # "end"
        BY <3>1 DEF Asking
      <4>2. ~Pick(p)
        BY <2>3 DEF LoadHistory, AskModel, FirstReply, SecondReply, Unanswered,
           WriteAnswer, Collect, Judge, Pick
      <4> QED
        BY <4>1, <4>2 DEF Show, Finish
    <3>3. ~run'[p].done /\ work'[p].winner = work[p].winner
      BY <1>5, <3>2, WorkFields
    <3>4. work[p].winner = 0
      BY <2>1, <3>1 DEF Outcome
    <3> QED
      BY <1>5, <3>1, <3>3, <3>4, OutcomeBusy
  <2> QED
    BY <1>5, <2>2, <2>3 DEF Worker
<1> QED
  BY <1>3, <1>4, <1>5

-----------------------------------------------------------------------------
(* The counts. *)

LEMMA RowsFinite ==
  ASSUME IInv, NEW t
  PROVE  /\ IsFiniteSet(AnswersTo(t)) /\ IsFiniteSet(PassedFor(t))
         /\ IsFiniteSet(Silent(t))
<1>1. answers \in Seq(Answer)
  BY DEF IInv, TypeOK
<1>2. DOMAIN answers = 1..Len(answers) /\ Len(answers) \in Nat
  BY <1>1
<1>3. IsFiniteSet(DOMAIN answers)
  BY <1>2, FS_Interval
<1>4. /\ AnswersTo(t) \subseteq DOMAIN answers /\ PassedFor(t) \subseteq DOMAIN answers
      /\ Silent(t) \subseteq DOMAIN answers
  BY DEF AnswersTo, PassedFor, Silent
<1> QED
  BY <1>3, <1>4, FS_Subset

LEMMA TallyKept ==
  ASSUME IInv, NEW q \in Procs, Tally(q),
         run'[q] = run[q], work'[q] = work[q], NEW t, t = run[q].turn, Kept(t)
  PROVE  Tally(q)'
<1>1. /\ AnswersTo(t)' = AnswersTo(t) /\ PassedFor(t)' = PassedFor(t)
      /\ Silent(t)' = Silent(t)
      /\ \A a \in AnswersTo(t) : answers'[a] = answers[a]
  BY KeptSets DEF Kept
<1>2. Behind(q)' = Behind(q)
  BY DEF Behind
<1> QED
  BY <1>1, <1>2 DEF Tally

\* The thread moves on and no row is written.
LEMMA TallyMove ==
  ASSUME NEW p \in Procs, Tally(p), answers' = answers,
         run'[p].turn = run[p].turn, run'[p].count = run[p].count,
         run'[p].passed = run[p].passed, run'[p].empty = run[p].empty,
         Behind(p)' = Behind(p),
         work'[p].pc # "load",
         work'[p].pc \in Asking \ {"load", "collect"} => work'[p].model \in 1..run[p].count
  PROVE  Tally(p)'
<1>1. SUFFICES ASSUME NEW t, t = run[p].turn PROVE Tally(p)'
  OBVIOUS
<1>2. /\ AnswersTo(t)' = AnswersTo(t) /\ PassedFor(t)' = PassedFor(t)
      /\ Silent(t)' = Silent(t)
  BY SameSets
<1> QED
  BY <1>1, <1>2 DEF Tally

LEMMA TallyAsk ==
  ASSUME IInv, NEW p \in Procs, Tally(p),
         LoadHistory(p) \/ AskModel(p) \/ FirstReply(p) \/ SecondReply(p)
  PROVE  Tally(p)'
<1>1. /\ run \in [Procs -> Run] /\ run[p] \in Run /\ run[p].count \in Nat
      /\ work \in [Procs -> Work] /\ work[p] \in Work
  BY DEF IInv, TypeOK, Run
<1>2. answers' = answers
  BY DEF LoadHistory, AskModel, FirstReply, SecondReply, file
<1>3. /\ run'[p].turn = run[p].turn /\ run'[p].count = run[p].count
      /\ run'[p].passed = run[p].passed /\ run'[p].empty = run[p].empty
  <2>1. CASE AskModel(p)
    BY <1>1, <2>1 DEF AskModel, Run
  <2> QED
    BY <2>1 DEF LoadHistory, FirstReply, SecondReply
<1>4. CASE LoadHistory(p)
  <2>1. PICK H : work' = [work EXCEPT ![p] = [@ EXCEPT !.history = H, !.model = 1,
                                                       !.pc = "ask"]]
    BY <1>4 DEF LoadHistory
  <2>2. work'[p].pc = "ask" /\ work'[p].model = 1 /\ work[p].pc = "load"
    BY <1>1, <1>4, <2>1 DEF Work, LoadHistory
  <2>3. Behind(p)' = Behind(p)
    BY <2>2 DEF Behind, Asking
  <2>4. run[p].count >= 1
    BY <2>2 DEF Tally
  <2> QED
    BY <1>1, <1>2, <1>3, <2>2, <2>3, <2>4, TallyMove
<1> DEFINE Mid == {"ask", "first", "again", "unanswered", "write"}
<1>5. ASSUME work[p].pc \in Mid, work'[p].pc \in Mid, work'[p].model = work[p].model
      PROVE  Tally(p)'
  <2>1. work[p].model \in 1..run[p].count
    BY <1>5 DEF Tally, Asking
  <2>2. Behind(p)' = Behind(p)
    BY <1>5 DEF Behind, Asking
  <2> QED
    BY <1>2, <1>3, <1>5, <2>1, <2>2, TallyMove
<1>6. CASE AskModel(p)
  BY <1>1, <1>5, <1>6 DEF AskModel, Work
<1>7. CASE FirstReply(p) \/ SecondReply(p)
  <2>1. ASSUME NEW t, work' = [work EXCEPT ![p] = [@ EXCEPT !.reply = t, !.pc = "write"]]
        PROVE  work'[p].pc \in Mid /\ work'[p].model = work[p].model
    BY <1>1, <2>1 DEF Work
  <2>2. ASSUME NEW c \in {"again", "unanswered"}, work' = [work EXCEPT ![p].pc = c]
        PROVE  work'[p].pc \in Mid /\ work'[p].model = work[p].model
    BY <1>1, <2>2 DEF Work
  <2>3. work[p].pc \in Mid
    BY <1>7 DEF FirstReply, SecondReply
  <2>4. work'[p].pc \in Mid /\ work'[p].model = work[p].model
    BY <1>7, <2>1, <2>2 DEF FirstReply, SecondReply, Replies
  <2> HIDE DEF Mid
  <2> QED
    BY <1>5, <2>3, <2>4
<1> QED
  BY <1>4, <1>6, <1>7

\* After the last model nothing is added to the rows.
LEMMA TallyLater ==
  ASSUME IInv, NEW p \in Procs, Tally(p),
         Collect(p) \/ Pick(p) \/ Show(p) \/ Settle(p) \/ Note(p) \/ Finish(p)
  PROVE  Tally(p)'
<1>1. /\ run \in [Procs -> Run] /\ run[p] \in Run
      /\ work \in [Procs -> Work] /\ work[p] \in Work
  BY DEF IInv, TypeOK
<1>2. answers' = answers
  BY DEF Collect, Pick, Show, Settle, Note, Finish, file
<1>3. /\ run'[p].turn = run[p].turn /\ run'[p].count = run[p].count
      /\ run'[p].passed = run[p].passed /\ run'[p].empty = run[p].empty
  <2>1. CASE Collect(p)
    BY <1>1, <2>1 DEF Collect, Run
  <2>2. CASE Settle(p)
    BY <1>1, <2>2 DEF Settle, Run
  <2>3. CASE Finish(p)
    BY <1>1, <2>3 DEF Finish, Run
  <2> QED
    BY <2>1, <2>2, <2>3 DEF Pick, Show, Note
<1>4. /\ work[p].pc \notin Asking \/ work[p].pc = "collect"
      /\ work[p].pc # "load"
  BY DEF Collect, Pick, Show, Settle, Note, Finish, Asking
<1>5. work'[p].pc \notin Asking
  <2>1. CASE Collect(p)
    <3>1. PICK S : work' = [work EXCEPT ![p] = [@ EXCEPT !.unchecked = S, !.pc = "check"]]
      BY <2>1 DEF Collect
    <3> QED
      BY <1>1, <3>1 DEF Work, Asking
  <2>2. CASE Pick(p)
    <3>1. ASSUME NEW a, work' = [work EXCEPT ![p] = [@ EXCEPT !.winner = a, !.pc = "show"]]
          PROVE  work'[p].pc \notin Asking
      BY <1>1, <3>1 DEF Work, Asking
    <3>2. ASSUME work' = [work EXCEPT ![p].pc = "settle"] PROVE work'[p].pc \notin Asking
      BY <1>1, <3>2 DEF Work, Asking
    <3> QED
      BY <2>2, <3>1, <3>2 DEF Pick
  <2>3. CASE Show(p)
    <3>1. ASSUME work' = [work EXCEPT ![p] = [@ EXCEPT !.winner = 0, !.pc = "settle"]]
          PROVE  work'[p].pc \notin Asking
      BY <1>1, <3>1 DEF Work, Asking
    <3>2. ASSUME work' = [work EXCEPT ![p].pc = "settle"] PROVE work'[p].pc \notin Asking
      BY <1>1, <3>2 DEF Work, Asking
    <3> QED
      BY <2>3, <3>1, <3>2 DEF Show
  <2>4. CASE Settle(p)
    BY <1>1, <2>4 DEF Settle, Work, Asking
  <2>5. CASE Note(p)
    BY <1>1, <2>5 DEF Note, Work, Asking
  <2>6. CASE Finish(p)
    BY <1>1, <2>6 DEF Finish, NoWork, Asking
  <2> QED
    BY <2>1, <2>2, <2>3, <2>4, <2>5, <2>6
<1>6. Behind(p)' = Behind(p)
  BY <1>3, <1>4, <1>5 DEF Behind, Asking
<1>7. work'[p].pc # "load"
  BY <1>5 DEF Asking
<1> QED
  BY <1>2, <1>3, <1>5, <1>6, <1>7, TallyMove

\* A new row is the only one the prompt has for its model.
LEMMA TallyRow ==
  ASSUME IInv, IInv', NEW p \in Procs, Tally(p), Worker(p), NEW text,
         answers' = Append(answers, Row(p, text)), Onwards(p),
         work[p].pc \in {"unanswered", "write"},
         run'[p].passed = run[p].passed,
         run'[p].empty = run[p].empty + (IF text = Silence THEN 1 ELSE 0)
  PROVE  Tally(p)'
<1>1. /\ run[p] \in Run /\ run[p].count \in Nat
      /\ work \in [Procs -> Work] /\ work[p] \in Work
      /\ answers \in Seq(Answer) /\ answers' \in Seq(Answer)
  BY DEF IInv, TypeOK, Run
<1>2. PICK t : t = run[p].turn /\ t = run'[p].turn /\ run'[p].count = run[p].count
  BY RunFields
<1>3. PICK m \in 1..run[p].count : m = work[p].model /\ Behind(p) = m - 1
  BY DEF Tally, Behind, Asking
<1>4. PICK n \in Nat : n = Len(answers) + 1
  BY <1>1
<1>5. /\ DOMAIN answers' = DOMAIN answers \cup {n} /\ n \notin DOMAIN answers
      /\ \A a \in DOMAIN answers : answers'[a] = answers[a]
      /\ answers'[n] = Row(p, text)
  BY <1>1, <1>4
<1>6. /\ Row(p, text).turn = t /\ Row(p, text).model = m /\ Row(p, text).text = text
      /\ Row(p, text).verdict # "PASSED"
  BY <1>2, <1>3 DEF Row
<1>7. /\ AnswersTo(t)' = AnswersTo(t) \cup {n} /\ n \notin AnswersTo(t)
      /\ AnswersTo(t) \subseteq DOMAIN answers
  BY <1>5, <1>6 DEF AnswersTo
<1>8. PassedFor(t)' = PassedFor(t)
  BY <1>5, <1>6, <1>7 DEF PassedFor
<1>9. /\ n \notin Silent(t)
      /\ Silent(t)' = IF text = Silence THEN Silent(t) \cup {n} ELSE Silent(t)
  BY <1>5, <1>6, <1>7 DEF Silent
<1>10. /\ Cardinality(AnswersTo(t)) = m - 1 /\ run[p].passed = Cardinality(PassedFor(t))
       /\ run[p].empty = Cardinality(Silent(t))
       /\ \A k \in 1..(m - 1) : \E a \in AnswersTo(t) : answers[a].model = k
  BY <1>2, <1>3 DEF Tally
<1>11. /\ Cardinality(AnswersTo(t) \cup {n}) = Cardinality(AnswersTo(t)) + 1
       /\ Cardinality(Silent(t) \cup {n}) = Cardinality(Silent(t)) + 1
  BY <1>7, <1>9, RowsFinite, FS_AddElement
<1>12. Cardinality(AnswersTo(t)') = m
  BY <1>7, <1>10, <1>11
<1>13. run'[p].empty = Cardinality(Silent(t)')
  <2>1. Cardinality(Silent(t)) \in Nat
    BY RowsFinite, FS_CardinalityType
  <2> QED
    BY <1>9, <1>10, <1>11, <2>1
<1>14. \A k \in 1..m : \E a \in AnswersTo(t)' : answers'[a].model = k
  <2>1. SUFFICES ASSUME NEW k \in 1..m
                 PROVE  \E a \in AnswersTo(t)' : answers'[a].model = k
    OBVIOUS
  <2>2. CASE k = m
    BY <1>5, <1>6, <1>7, <2>2
  <2>3. CASE k # m
    <3>1. k \in 1..(m - 1)
      BY <2>3
    <3>2. PICK a \in AnswersTo(t) : answers[a].model = k
      BY <1>10, <3>1
    <3> QED
      BY <1>5, <1>7, <3>2
  <2> QED
    BY <2>2, <2>3
<1>15. /\ work'[p].pc # "load" /\ Behind(p)' = m
       /\ work'[p].pc \in Asking \ {"load", "collect"} => work'[p].model \in 1..run[p].count
  <2>1. CASE /\ work[p].model < run[p].count
             /\ work' = [work EXCEPT ![p] = [work[p] EXCEPT !.reply = Silence,
                                                            !.model = @ + 1, !.pc = "ask"]]
    <3>1. work'[p].pc = "ask" /\ work'[p].model = m + 1
      BY <1>1, <1>3, <2>1 DEF Work
    <3>2. Behind(p)' = m
      BY <3>1 DEF Behind, Asking
    <3> QED
      BY <1>1, <1>3, <2>1, <3>1, <3>2
  <2>2. CASE /\ work[p].model >= run[p].count
             /\ work' = [work EXCEPT ![p] = [@ EXCEPT !.reply = Silence, !.pc = "collect"]]
    <3>1. work'[p].pc = "collect"
      BY <1>1, <2>2 DEF Work
    <3>2. m = run[p].count
      BY <1>1, <1>3, <2>2
    <3>3. Behind(p)' = run'[p].count
      BY <3>1 DEF Behind, Asking
    <3> QED
      BY <1>2, <3>1, <3>2, <3>3
  <2> QED
    BY <2>1, <2>2 DEF Onwards
<1> QED
  BY <1>2, <1>8, <1>10, <1>12, <1>13, <1>14, <1>15 DEF Tally

LEMMA NotRefused ==
  ASSUME faults \in Nat, faults' = 0
  PROVE  ~Refused
BY DEF Refused

LEMMA TallyAnswer ==
  ASSUME IInv, IInv', NEW p \in Procs, Tally(p), Unanswered(p) \/ WriteAnswer(p),
         faults \in Nat, faults' = 0
  PROVE  Tally(p)'
<1>1. /\ run \in [Procs -> Run] /\ run[p] \in Run /\ run[p].empty \in Nat
      /\ Worker(p) /\ ~Refused
  BY NotRefused DEF IInv, TypeOK, Run, Worker
<1>2. CASE Unanswered(p)
  <2>1. /\ answers' = Append(answers, Row(p, Silence)) /\ Onwards(p)
        /\ work[p].pc = "unanswered"
    BY <1>1, <1>2 DEF Unanswered
  <2>2. run'[p].passed = run[p].passed /\ run'[p].empty = run[p].empty + 1
    BY <1>1, <1>2 DEF Unanswered, Run
  <2> QED
    BY <1>1, <2>1, <2>2, TallyRow
<1>3. CASE WriteAnswer(p)
  <2>1. PICK text : text = work[p].reply
    OBVIOUS
  <2>2. /\ answers' = Append(answers, Row(p, text)) /\ Onwards(p)
        /\ work[p].pc = "write"
    BY <1>1, <1>3, <2>1 DEF WriteAnswer
  <2>3. PICK n \in {0, 1} :
          /\ n = 1 <=> text = Silence
          /\ run' = [run EXCEPT ![p] = [run[p] EXCEPT !.answered = @ + 1,
                                                      !.empty = @ + n]]
    BY <1>1, <1>3, <2>1 DEF WriteAnswer
  <2>4. run'[p].passed = run[p].passed /\ run'[p].empty = run[p].empty + n
    BY <1>1, <2>3 DEF Run
  <2>5. n = IF text = Silence THEN 1 ELSE 0
    BY <2>3
  <2> QED
    BY <1>1, <2>2, <2>4, <2>5, TallyRow
<1> QED
  BY <1>2, <1>3

\* What passes is counted, and had not passed before.
LEMMA TallyJudge ==
  ASSUME IInv, IInv', NEW p \in Procs, Tally(p), Judge(p), faults \in Nat, faults' = 0
  PROVE  Tally(p)'
<1>1. /\ run \in [Procs -> Run] /\ run[p] \in Run /\ run[p].passed \in Nat
      /\ work \in [Procs -> Work] /\ work[p] \in Work
      /\ answers \in Seq(Answer) /\ ~Refused /\ Relies(p) /\ work[p].pc = "check"
  BY NotRefused DEF IInv, TypeOK, Run, Judge
<1>2. PICK a \in work[p].unchecked :
        /\ answers' = [answers EXCEPT ![a].verdict = Judged(answers[a].text)]
        /\ work' = [work EXCEPT ![p].unchecked = @ \ {a}]
        /\ \E n \in {0, 1} :
             /\ n = 1 <=> Judged(answers[a].text) = "PASSED"
             /\ run' = [run EXCEPT ![p].passed = @ + n]
  BY <1>1 DEF Judge
<1>3. PICK n \in {0, 1} : /\ n = 1 <=> Judged(answers[a].text) = "PASSED"
                          /\ run' = [run EXCEPT ![p].passed = @ + n]
  BY <1>2
<1>4. PICK t : t = run[p].turn
  OBVIOUS
<1>5. /\ run'[p].turn = t /\ run'[p].count = run[p].count /\ run'[p].empty = run[p].empty
      /\ run'[p].passed = run[p].passed + n
  BY <1>1, <1>3, <1>4 DEF Run
<1>6. /\ a \in AnswersTo(t) /\ a \in DOMAIN answers /\ a \notin PassedFor(t)
  <2>1. a \in AnswersTo(t) /\ answers[a].verdict \in Unjudged
    BY <1>1, <1>2, <1>4 DEF Relies
  <2> QED
    BY <2>1 DEF AnswersTo, PassedFor, Unjudged
<1>7. /\ DOMAIN answers' = DOMAIN answers
      /\ \A b \in DOMAIN answers :
           /\ b # a => answers'[b] = answers[b]
           /\ answers'[b].turn = answers[b].turn
           /\ answers'[b].text = answers[b].text
           /\ answers'[b].model = answers[b].model
      /\ answers'[a].verdict = Judged(answers[a].text)
  <2>1. answers[a] \in Answer
    BY <1>1, <1>6
  <2> QED
    BY <1>1, <1>2, <1>6, <2>1 DEF Answer
<1>8. AnswersTo(t)' = AnswersTo(t) /\ AnswersTo(t) \subseteq DOMAIN answers
  BY <1>7 DEF AnswersTo
<1>9. Silent(t)' = Silent(t)
  BY <1>7, <1>8 DEF Silent
<1>10. PassedFor(t)' = IF Judged(answers[a].text) = "PASSED" THEN PassedFor(t) \cup {a}
                                                             ELSE PassedFor(t)
  BY <1>6, <1>7, <1>8 DEF PassedFor
<1>11. run'[p].passed = Cardinality(PassedFor(t)')
  <2>1. Cardinality(PassedFor(t) \cup {a}) = Cardinality(PassedFor(t)) + 1
    BY <1>6, RowsFinite, FS_AddElement
  <2>2. run[p].passed = Cardinality(PassedFor(t))
    BY <1>4 DEF Tally
  <2> QED
    BY <1>1, <1>3, <1>5, <1>10, <2>1, <2>2
<1>12. Behind(p) = run[p].count /\ Behind(p)' = run[p].count /\ work'[p].pc = "check"
  <2>1. work'[p].pc = "check"
    BY <1>1, <1>2 DEF Work
  <2> QED
    BY <1>1, <1>5, <2>1 DEF Behind, Asking
<1>13. \A m \in 1..run[p].count : \E b \in AnswersTo(t)' : answers'[b].model = m
  <2>1. \A m \in 1..run[p].count : \E b \in AnswersTo(t) : answers[b].model = m
    BY <1>4, <1>12 DEF Tally
  <2> QED
    BY <1>7, <1>8, <2>1
<1>14. Cardinality(AnswersTo(t)) = run[p].count /\ run[p].empty = Cardinality(Silent(t))
  BY <1>4, <1>12 DEF Tally
<1>15. work'[p].pc \notin Asking /\ work'[p].pc # "load"
  BY <1>12 DEF Asking
<1> QED
  BY <1>5, <1>8, <1>9, <1>11, <1>12, <1>13, <1>14, <1>15 DEF Tally

\* Nothing is there for a prompt when its run begins.
LEMMA TallyBegin ==
  ASSUME IInv, NEW p \in Procs, Begin(p)
  PROVE  Tally(p)'
<1>1. /\ run \in [Procs -> Run] /\ work \in [Procs -> Work] /\ Relies(p)
      /\ answers' = answers /\ ui[p].main = "begin"
  BY DEF IInv, TypeOK, Begin, file
<1>2. PICK n \in 1..MaxModels :
        run' = [run EXCEPT ![p] = [NoRun EXCEPT !.running = TRUE,
                                                !.turn = ui[p].turn, !.count = n]]
  BY DEF Begin
<1>3. PICK t : t = ui[p].turn
  OBVIOUS
<1>4. /\ run'[p].turn = t /\ run'[p].count = n /\ run'[p].passed = 0 /\ run'[p].empty = 0
  BY <1>1, <1>2, <1>3 DEF NoRun
<1>5. AnswersTo(t)' = {}
  <2>1. AnswersTo(t) = {}
    BY <1>1, <1>3 DEF Relies
  <2> QED
    BY <1>1, <2>1, SameSets
<1>6. PassedFor(t)' = {} /\ Silent(t)' = {}
  BY <1>5 DEF PassedFor, Silent
<1>7. work'[p].pc = "load"
  BY <1>1 DEF Begin, NoWork
<1>8. Behind(p)' = 0
  BY <1>7 DEF Behind
<1>9. Cardinality({}) = 0
  BY FS_EmptySet
<1>10. n >= 1
  BY RunAssumption
<1> QED
  BY <1>4, <1>5, <1>6, <1>7, <1>8, <1>9, <1>10 DEF Tally, Asking

LEMMA TallyStep ==
  ASSUME IInv, IInv', Tallies, NEW p \in Procs, Step(p)
  PROVE  Tallies'
<1>1. SUFFICES ASSUME NEW q \in Procs, run'[q].running, faults' = 0 PROVE Tally(q)'
  BY DEF Tallies
<1>2. faults \in Nat /\ faults = 0
  BY <1>1, FaultsGrow
<1>3. CASE q # p \/ (~Worker(p) /\ ~Begin(p))
  <2>1. /\ run[q].running /\ run'[q] = run[q] /\ work'[q] = work[q]
        /\ \E t \in DOMAIN turns : t = run[q].turn /\ Kept(t)
    BY <1>1, <1>3, RunKept
  <2>2. Tally(q)
    BY <1>2, <2>1 DEF Tallies
  <2> QED
    BY <2>1, <2>2, TallyKept
<1>4. CASE q = p /\ Begin(p)
  BY <1>4, TallyBegin
<1>5. CASE q = p /\ Worker(p)
  <2>1. Tally(p)
    BY <1>2, <1>5, RunFields DEF Tallies
  <2>2. CASE LoadHistory(p) \/ AskModel(p) \/ FirstReply(p) \/ SecondReply(p)
    BY <1>5, <2>1, <2>2, TallyAsk
  <2>3. CASE Unanswered(p) \/ WriteAnswer(p)
    BY <1>1, <1>2, <1>5, <2>1, <2>3, TallyAnswer
  <2>4. CASE Judge(p)
    BY <1>1, <1>2, <1>5, <2>1, <2>4, TallyJudge
  <2>5. CASE Collect(p) \/ Pick(p) \/ Show(p) \/ Settle(p) \/ Note(p) \/ Finish(p)
    BY <1>5, <2>1, <2>5, TallyLater
  <2> QED
    BY <1>5, <2>2, <2>3, <2>4, <2>5 DEF Worker
<1> QED
  BY <1>3, <1>4, <1>5

-----------------------------------------------------------------------------
(* The header. *)

\* A prompt a process has written keeps to it.
LEMMA OwnPromptStep ==
  ASSUME IInv, IInv', OwnPrompt, NEW p \in Procs, Step(p)
  PROVE  OwnPrompt'
<1>1. /\ ui \in [Procs -> Ui] /\ run \in [Procs -> Run] /\ ui[p] \in Ui /\ run[p] \in Run
      /\ turns \in Seq(Turn) /\ Len(turns) \in Nat /\ DOMAIN turns = 1..Len(turns)
  BY DEF IInv, TypeOK
<1>2. DOMAIN turns \subseteq DOMAIN turns'
  BY PromptsStay DEF Next, Step
<1>3. \A q \in Procs : q # p => ui'[q] = ui[q] /\ run'[q] = run[q]
  BY Alone
<1>4. ASSUME ui'[p].turn = ui[p].turn \/ ui'[p].turn = 0,
             run'[p].running => run'[p].turn = ui'[p].turn
      PROVE  OwnPrompt'
  BY <1>1, <1>2, <1>3, <1>4 DEF OwnPrompt
<1>5. ASSUME ui'[p].turn = ui[p].turn, run' = run
      PROVE  OwnPrompt'
  BY <1>4, <1>5 DEF OwnPrompt
<1>6. CASE Worker(p)
  <2>1. ui' = ui
    BY <1>6, Zenon DEF Worker, LoadHistory, AskModel, FirstReply, SecondReply, Unanswered,
       WriteAnswer, Collect, Judge, Pick, Show, Settle, Note, Finish
  <2>2. run'[p].turn = run[p].turn /\ run[p].running
    BY <1>6, RunFields
  <2> QED
    BY <1>4, <2>1, <2>2 DEF OwnPrompt
<1>7. CASE Poll(p)
  <2>1. ui'[p].turn = ui[p].turn
    BY <1>1, <1>7 DEF Poll, Ui
  <2>2. ~run'[p].running
    BY <1>1, <1>7 DEF Poll, Run
  <2> QED
    BY <1>4, <2>1, <2>2
<1>8. CASE WaitRun(p) \/ Crash(p)
  <2>1. Gone(p)
    BY <1>8 DEF WaitRun, Crash
  <2>2. ui'[p].turn = 0 /\ ~run'[p].running
    BY <1>1, <2>1 DEF Gone, NoUi, NoRun
  <2> QED
    BY <1>4, <2>2
<1>9. CASE Begin(p)
  <2>1. PICK n : run' = [run EXCEPT ![p] = [NoRun EXCEPT !.running = TRUE,
                                                         !.turn = ui[p].turn, !.count = n]]
    BY <1>9 DEF Begin
  <2>2. run'[p].turn = ui[p].turn
    BY <1>1, <2>1 DEF NoRun
  <2>3. ui'[p].turn = ui[p].turn
    BY <1>1, <1>9 DEF Begin, Ui
  <2> QED
    BY <1>4, <2>2, <2>3
<1>10. ASSUME Fails(p) PROVE ui'[p].turn = ui[p].turn \/ ui'[p].turn = 0
  <2>1. GivenUp(p).turn \in {ui[p].turn, 0}
    BY <1>1 DEF GivenUp, NoUi, Ui
  <2> QED
    BY <1>1, <1>10, <2>1 DEF Fails
<1>11. ASSUME Fails(p), run' = run, ui[p].main \in {"start", "order", "write"}
       PROVE  OwnPrompt'
  <2>1. ~run[p].running
    BY <1>11 DEF IInv, Relies
  <2> QED
    BY <1>4, <1>10, <1>11, <2>1
<1>12. CASE InsertTurn(p)
  <2>1. run' = run /\ ui[p].main = "write" /\ ~run[p].running
    BY <1>12 DEF InsertTurn, IInv, Relies, thread
  <2>2. CASE /\ turns' = Append(turns, Prompt(p))
             /\ ui' = [ui EXCEPT ![p] = [@ EXCEPT !.main = "begin", !.turn = Len(turns) + 1]]
    <3>1. PICK n \in Nat : n = Len(turns) + 1
      BY <1>1
    <3>2. n \in DOMAIN turns' /\ n \notin DOMAIN turns /\ n # 0
      BY <1>1, <2>2, <3>1
    <3>3. ui'[p].turn = n
      BY <1>1, <2>2, <3>1 DEF Ui
    <3>4. \A q \in Procs : ui[q].turn # n
      BY <3>2 DEF OwnPrompt
    <3> QED
      BY <1>2, <1>3, <2>1, <3>2, <3>3, <3>4 DEF OwnPrompt
  <2> QED
    BY <1>11, <1>12, <2>1, <2>2 DEF InsertTurn
<1>13. CASE StartSession(p)
  <2>1. run' = run /\ ui[p].main = "start"
    BY <1>13 DEF StartSession, thread
  <2>2. ASSUME NEW next, ui' = [ui EXCEPT ![p] = [@ EXCEPT !.session = sessions + 1,
                                                           !.main = next]]
        PROVE  ui'[p].turn = ui[p].turn
    BY <1>1, <2>2 DEF Ui
  <2> QED
    BY <1>5, <1>11, <1>13, <2>1, <2>2 DEF StartSession
<1>14. CASE ReadOrdinal(p)
  <2>1. run' = run /\ ui[p].main = "order"
    BY <1>14 DEF ReadOrdinal, thread
  <2>2. ASSUME NEW n, ui' = [ui EXCEPT ![p] = [@ EXCEPT !.main = "write", !.ordinal = n]]
        PROVE  ui'[p].turn = ui[p].turn
    BY <1>1, <2>2 DEF Ui
  <2> QED
    BY <1>5, <1>11, <1>14, <2>1, <2>2 DEF ReadOrdinal
<1>15. CASE NotBegun(p)
  <2>1. run' = run /\ ~run[p].running
    BY <1>15 DEF NotBegun, thread, IInv, Relies
  <2>2. ASSUME NEW why, ui' = [ui EXCEPT ![p] = [@ EXCEPT !.main = "reload", !.status = why]]
        PROVE  ui'[p].turn = ui[p].turn
    BY <1>1, <2>2 DEF Ui
  <2>3. ASSUME ui' = [ui EXCEPT ![p] = NoUi] PROVE ui'[p].turn = 0
    BY <1>1, <2>3 DEF NoUi
  <2> QED
    BY <1>4, <1>15, <2>1, <2>2, <2>3 DEF NotBegun
<1>16. CASE Open(p)
  <2>1. PICK s : ui' = [ui EXCEPT ![p] = [@ EXCEPT !.main = "idle", !.session = s,
                                                   !.panel = Reload(p, FALSE)]]
    BY <1>16 DEF Open
  <2>2. ui'[p].turn = ui[p].turn
    BY <1>1, <2>1 DEF Ui
  <2>3. run' = run
    BY <1>16 DEF Open, thread
  <2> QED
    BY <1>5, <2>2, <2>3
<1>17. CASE Send(p)
  BY <1>1, <1>5, <1>17 DEF Send, Ui, thread
<1>18. CASE SendBusy(p) \/ Ask(p) \/ Close(p)
  BY <1>1, <1>5, <1>18 DEF SendBusy, Ask, Close, Ui, thread
<1>19. CASE KeepSession(p)
  BY <1>1, <1>5, <1>19 DEF KeepSession, Ui, thread
<1>20. CASE ReloadSent(p)
  BY <1>1, <1>5, <1>20 DEF ReloadSent, Ui, thread
<1>21. CASE Watch(p)
  BY <1>1, <1>5, <1>21 DEF Watch, Ui, thread
<1> QED
  BY <1>6, <1>7, <1>8, <1>9, <1>12, <1>13, <1>14, <1>15, <1>16, <1>17, <1>18, <1>19,
     <1>20, <1>21 DEF Step, Front, Person

\* The history as a process reads it when no run of its own is going.
LEMMA ReloadClean ==
  ASSUME NEW p
  PROVE  /\ DOMAIN Reload(p, FALSE) = DOMAIN turns
         /\ \A u \in DOMAIN turns : Reload(p, FALSE)[u] # "nothing yet"
         /\ \A u \in DOMAIN turns :
              Reload(p, FALSE)[u] = "the answer" <=> turns[u].shown # 0
BY DEF Reload

Clean(line) == \A u \in DOMAIN line : line[u] # "nothing yet"

LEMMA HeaderPlain ==
  ASSUME NEW p, Clean(ui[p].panel)', ui'[p].status \notin Ended
  PROVE  Header(p)'
BY DEF Header, Clean, Ended

LEMMA HeaderAway ==
  ASSUME NEW p, Clean(ui[p].panel)', ui'[p].main \in {"begin", "wait"}
  PROVE  Header(p)'
BY DEF Header, Clean

\* What the header says of a prompt stands while nobody writes to it.
LEMMA HeaderStands ==
  ASSUME NEW p, Header(p), NEW t, t = ui[p].turn,
         ui'[p].panel = ui[p].panel, ui'[p].status = ui[p].status, ui'[p].turn = t,
         ui'[p].main = ui[p].main
           \/ {ui[p].main, ui'[p].main} \subseteq {"idle", "start", "keep", "order", "write"},
         t # 0 => Kept(t),
         faults \in Nat, faults' \in Nat, faults <= faults'
  PROVE  Header(p)'
<1>1. t # 0 => PassedFor(t)' = PassedFor(t)
  BY KeptSets
<1>2. faults' = 0 => faults = 0
  OBVIOUS
<1> QED
  BY <1>1, <1>2 DEF Header, Ended

\* Once the run is let go of, the header and the history say its outcome.
LEMMA HeaderPoll ==
  ASSUME IInv, Outcomes, OwnPrompt, NEW p \in Procs, Poll(p)
  PROVE  Header(p)'
<1>1. /\ ui \in [Procs -> Ui] /\ ui[p] \in Ui /\ turns' = turns /\ answers' = answers
      /\ faults' = faults /\ run[p].running /\ run[p].done
  BY DEF IInv, TypeOK, Poll, file, outside
<1>2. PICK t \in DOMAIN turns : t = run[p].turn /\ t = ui[p].turn
  BY <1>1 DEF IInv, Relies, OwnPrompt
<1>3. t # 0
  BY DEF IInv, TypeOK
<1>4. /\ run[p].stage = "DONE" <=> turns[t].shown # 0
      /\ turns[t].shown = 0 /\ faults = 0 => PassedFor(t) = {}
  BY <1>1, <1>2 DEF Outcomes, Outcome
<1>5. /\ ui'[p].panel = Reload(p, FALSE) /\ ui'[p].turn = t /\ ui'[p].main = "idle"
      /\ ui'[p].status = IF run[p].stage = "DONE" THEN "ANSWERED" ELSE "NOTHING SURVIVED"
  BY <1>1, <1>2 DEF Poll, Ui
<1>6. PassedFor(t)' = PassedFor(t)
  BY <1>1, SameSets
<1>7. /\ \A u \in DOMAIN ui'[p].panel : ui'[p].panel[u] # "nothing yet"
      /\ t \in DOMAIN ui'[p].panel
      /\ ui'[p].panel[t] = "the answer" <=> turns[t].shown # 0
  BY <1>2, <1>5, ReloadClean
<1>8. /\ ui'[p].status = "ANSWERED" => turns[t].shown # 0
      /\ ui'[p].status = "NOTHING SURVIVED" => turns[t].shown = 0
      /\ ui'[p].main \notin {"off", "reload"}
  BY <1>4, <1>5
<1> QED
  BY <1>1, <1>3, <1>4, <1>5, <1>6, <1>7, <1>8 DEF Header

\* A process that is not there says nothing.
LEMMA HeaderGone ==
  ASSUME NEW p, ui'[p] = NoUi
  PROVE  Header(p)'
<1>1. NoUi.panel = << >> /\ NoUi.status \notin Ended
  BY DEF NoUi, Ended
<1>2. Clean(NoUi.panel)
  <2>1. DOMAIN NoUi.panel = {}
    BY <1>1
  <2> QED
    BY <2>1 DEF Clean
<1>3. Clean(ui[p].panel)' /\ ui'[p].status \notin Ended
  BY <1>1, <1>2 DEF Clean
<1> QED
  BY <1>3, HeaderPlain

\* A statement the asking thread needed was refused.
LEMMA HeaderFails ==
  ASSUME IInv, NEW p \in Procs, Header(p), Fails(p),
         ui[p].main \in {"start", "order", "write"},
         ui[p].turn # 0 => Kept(ui[p].turn), faults \in Nat
  PROVE  Header(p)'
<1>1. ui \in [Procs -> Ui] /\ ui[p] \in Ui
  BY DEF IInv, TypeOK
<1>2. faults' \in Nat /\ faults <= faults'
  BY DEF Fails, Refused
<1>3. CASE p \in Windows
  <2>1. ui'[p] = [ui[p] EXCEPT !.main = "idle"]
    BY <1>1, <1>3 DEF Fails, GivenUp
  <2>2. /\ ui'[p].panel = ui[p].panel /\ ui'[p].status = ui[p].status
        /\ ui'[p].turn = ui[p].turn /\ ui'[p].main = "idle"
    BY <1>1, <2>1 DEF Ui
  <2> QED
    BY <1>2, <2>2, HeaderStands
<1>4. CASE p \notin Windows
  <2>1. ui'[p] = NoUi
    BY <1>1, <1>4 DEF Fails, GivenUp
  <2> QED
    BY <2>1, HeaderGone
<1> QED
  BY <1>3, <1>4

\* The steps of the asking thread, with no run of its own going.
LEMMA HeaderOwn ==
  ASSUME IInv, Outcomes, OwnPrompt, NEW p \in Procs, Step(p), ~run'[p].running,
         run[p].running \/ Header(p), ui[p].turn # 0 => Kept(ui[p].turn),
         faults \in Nat, faults' \in Nat, faults <= faults'
  PROVE  Header(p)'
<1>1. /\ ui \in [Procs -> Ui] /\ ui[p] \in Ui /\ run \in [Procs -> Run] /\ run[p] \in Run
      /\ Relies(p)
  BY DEF IInv, TypeOK
<1>2. ~Worker(p)
  BY RunFields
<1>3. ~Begin(p)
  <2>1. SUFFICES ASSUME Begin(p) PROVE run'[p].running
    OBVIOUS
  <2>2. PICK n : run' = [run EXCEPT ![p] = [NoRun EXCEPT !.running = TRUE,
                                                         !.turn = ui[p].turn, !.count = n]]
    BY <2>1 DEF Begin
  <2> QED
    BY <1>1, <2>2 DEF NoRun
<1>4. CASE Poll(p)
  BY <1>4, HeaderPoll
<1>5. CASE WaitRun(p) \/ Crash(p)
  <2>1. Gone(p)
    BY <1>5 DEF WaitRun, Crash
  <2>2. ui'[p] = NoUi
    BY <1>1, <2>1 DEF Gone
  <2> QED
    BY <2>2, HeaderGone
<1> DEFINE Said == ui'[p].panel = ui[p].panel /\ ui'[p].status = ui[p].status
           Held == {"idle", "start", "keep", "order", "write"}
<1>6. ASSUME run' = run, Said, ui'[p].turn = ui[p].turn,
             ui[p].main \in Held, ui'[p].main \in Held
      PROVE  Header(p)'
  BY <1>6, HeaderStands
<1>7. ASSUME run' = run
      PROVE  Clean(ui[p].panel) /\ Header(p)
  BY <1>7 DEF Header, Clean
<1>8. CASE Open(p)
  <2>1. PICK s : ui' = [ui EXCEPT ![p] = [@ EXCEPT !.main = "idle", !.session = s,
                                                   !.panel = Reload(p, FALSE)]]
    BY <1>8 DEF Open
  <2>2. ui'[p].panel = Reload(p, FALSE) /\ ui'[p].status = ui[p].status
    BY <1>1, <2>1 DEF Ui
  <2>3. ui[p].status \notin Ended
    BY <1>7, <1>8 DEF Open, Header, thread
  <2>4. Clean(ui[p].panel)'
    BY <2>2, ReloadClean DEF Clean
  <2> QED
    BY <2>2, <2>3, <2>4, HeaderPlain
<1>9. CASE Ask(p)
  <2>1. Said
    BY <1>1, <1>9 DEF Ask, Ui
  <2>2. ui[p].status \notin Ended /\ Clean(ui[p].panel)
    BY <1>7, <1>9 DEF Ask, Header, thread
  <2>3. Clean(ui[p].panel)'
    BY <2>1, <2>2 DEF Clean
  <2> QED
    BY <2>1, <2>2, <2>3, HeaderPlain
<1>10. CASE Send(p)
  <2>1. Said /\ ui'[p].turn = ui[p].turn /\ ui'[p].main \in {"start", "order"}
    BY <1>1, <1>10 DEF Send, Ui
  <2> QED
    BY <1>6, <1>10, <2>1 DEF Send, thread
<1>11. CASE Close(p)
  <2>1. Said /\ ui'[p].main = "wait"
    BY <1>1, <1>11 DEF Close, Ui
  <2>2. Clean(ui[p].panel)'
    BY <1>7, <1>11, <2>1 DEF Close, Clean, thread
  <2> QED
    BY <2>1, <2>2, HeaderAway
<1>12. CASE SendBusy(p) \/ Watch(p)
  BY <1>12 DEF SendBusy, Watch, thread
<1>13. CASE StartSession(p)
  <2>1. run' = run /\ ui[p].main = "start"
    BY <1>13 DEF StartSession, thread
  <2>2. ASSUME NEW next \in {"keep", "order"},
               ui' = [ui EXCEPT ![p] = [@ EXCEPT !.session = sessions + 1, !.main = next]]
        PROVE  Header(p)'
    <3>1. Said /\ ui'[p].turn = ui[p].turn /\ ui'[p].main = next
      BY <1>1, <2>2 DEF Ui
    <3> QED
      BY <1>6, <2>1, <3>1
  <2>3. Fails(p) => Header(p)'
    BY <1>7, <2>1, HeaderFails
  <2> QED
    BY <1>13, <2>2, <2>3 DEF StartSession
<1>14. CASE KeepSession(p)
  <2>1. Said /\ ui'[p].turn = ui[p].turn /\ ui'[p].main = "order"
    BY <1>1, <1>14 DEF KeepSession, Ui
  <2> QED
    BY <1>6, <1>14, <2>1 DEF KeepSession, thread
<1>15. CASE ReadOrdinal(p)
  <2>1. run' = run /\ ui[p].main = "order"
    BY <1>15 DEF ReadOrdinal, thread
  <2>2. ASSUME NEW n, ui' = [ui EXCEPT ![p] = [@ EXCEPT !.main = "write", !.ordinal = n]]
        PROVE  Header(p)'
    <3>1. Said /\ ui'[p].turn = ui[p].turn /\ ui'[p].main = "write"
      BY <1>1, <2>2 DEF Ui
    <3> QED
      BY <1>6, <2>1, <3>1
  <2>3. Fails(p) => Header(p)'
    BY <1>7, <2>1, HeaderFails
  <2> QED
    BY <1>15, <2>2, <2>3 DEF ReadOrdinal
<1>16. CASE InsertTurn(p)
  <2>1. run' = run /\ ui[p].main = "write"
    BY <1>16 DEF InsertTurn, thread
  <2>2. ASSUME ui' = [ui EXCEPT ![p] = [@ EXCEPT !.main = "begin", !.turn = Len(turns) + 1]]
        PROVE  Header(p)'
    <3>1. Said /\ ui'[p].main = "begin"
      BY <1>1, <2>2 DEF Ui
    <3>2. Clean(ui[p].panel)'
      BY <1>7, <2>1, <3>1 DEF Clean
    <3> QED
      BY <3>1, <3>2, HeaderAway
  <2>3. Fails(p) => Header(p)'
    BY <1>7, <2>1, HeaderFails
  <2> QED
    BY <1>16, <2>2, <2>3 DEF InsertTurn
<1>17. CASE NotBegun(p)
  <2>1. run' = run
    BY <1>17 DEF NotBegun, thread
  <2>2. ASSUME NEW why \in {"NO MODEL", "NO SERVER", "STARTING SERVER"},
               ui' = [ui EXCEPT ![p] = [@ EXCEPT !.main = "reload", !.status = why]]
        PROVE  Header(p)'
    <3>1. ui'[p].panel = ui[p].panel /\ ui'[p].status = why
      BY <1>1, <2>2 DEF Ui
    <3>2. Clean(ui[p].panel)' /\ ui'[p].status \notin Ended
      BY <1>7, <2>1, <3>1 DEF Clean, Ended
    <3> QED
      BY <3>2, HeaderPlain
  <2>3. ASSUME ui' = [ui EXCEPT ![p] = NoUi] PROVE Header(p)'
    <3>1. ui'[p] = NoUi
      BY <1>1, <2>3
    <3> QED
      BY <3>1, HeaderGone
  <2> QED
    BY <1>17, <2>2, <2>3 DEF NotBegun
<1>18. CASE ReloadSent(p)
  <2>1. run' = run /\ ui[p].main = "reload" /\ run[p].running = FALSE
    BY <1>1, <1>18 DEF ReloadSent, thread, Run
  <2>2. ui'[p].panel = Reload(p, FALSE) /\ ui'[p].status = ui[p].status
    BY <1>1, <1>18, <2>1 DEF ReloadSent, Ui
  <2>3. ui[p].status \notin Ended
    BY <1>7, <2>1 DEF Header
  <2>4. Clean(ui[p].panel)'
    BY <2>2, ReloadClean DEF Clean
  <2> QED
    BY <2>2, <2>3, <2>4, HeaderPlain
<1> QED
  BY <1>2, <1>3, <1>4, <1>5, <1>8, <1>9, <1>10, <1>11, <1>12, <1>13, <1>14, <1>15, <1>16,
     <1>17, <1>18 DEF Step, Front, Person

LEMMA HeaderStep ==
  ASSUME IInv, IInv', Outcomes, OwnPrompt, Headers, NEW p \in Procs, Step(p)
  PROVE  Headers'
<1>1. SUFFICES ASSUME NEW q \in Procs, ~run'[q].running PROVE Header(q)'
  BY DEF Headers
<1>2. faults \in Nat /\ faults' \in Nat /\ faults <= faults'
  BY FaultsGrow
<1>3. q # p \/ ~Worker(p)
  BY <1>1, RunFields
<1>4. SUFFICES ASSUME NEW t, t = ui[q].turn PROVE Header(q)'
  OBVIOUS
<1>5. t # 0 => Kept(t)
  <2>1. SUFFICES ASSUME t # 0 PROVE Kept(t)
    OBVIOUS
  <2>2. t \in DOMAIN turns
    BY <1>4, <2>1 DEF OwnPrompt
  <2>3. Worker(p) => t # run[p].turn
    <3>1. SUFFICES ASSUME Worker(p) PROVE t # run[p].turn
      OBVIOUS
    <3>2. run[p].running /\ q # p
      BY <1>3, <3>1, RunFields
    <3>3. run[p].turn = ui[p].turn /\ ui[q].turn # ui[p].turn
      BY <1>4, <2>1, <3>2 DEF OwnPrompt
    <3> QED
      BY <1>4, <3>3
  <2> QED
    BY <2>2, <2>3, KeptElsewhere
<1>6. CASE q # p
  <2>1. ui'[q] = ui[q] /\ run'[q] = run[q]
    BY <1>6, Alone
  <2>2. Header(q)
    BY <1>1, <2>1 DEF Headers
  <2> QED
    BY <1>2, <1>4, <1>5, <2>1, <2>2, HeaderStands
<1>7. CASE q = p
  <2>1. run[p].running \/ Header(p)
    BY DEF Headers
  <2> QED
    BY <1>1, <1>2, <1>4, <1>5, <1>7, <2>1, HeaderOwn
<1> QED
  BY <1>6, <1>7

-----------------------------------------------------------------------------
(* The theorems. *)

\* All of it together is inductive.
LEMMA RecordInit == Init => RecordInv
<1> SUFFICES ASSUME Init PROVE RecordInv
  OBVIOUS
<1>1. \A p \in Procs : ui[p] = NoUi /\ run[p] = NoRun
  BY DEF Init
<1>2. ~NoRun.running /\ NoUi.turn = 0 /\ NoUi.panel = << >> /\ NoUi.status \notin Ended
  BY DEF NoRun, NoUi, Ended
<1>3. Outcomes /\ Tallies /\ HistoryIsChecked
  BY <1>1, <1>2 DEF Outcomes, Tallies, HistoryIsChecked
<1>4. OwnPrompt
  BY <1>1, <1>2 DEF OwnPrompt
<1>5. Headers
  <2>1. DOMAIN NoUi.panel = {}
    BY <1>2
  <2>2. NoUi.main = "off"
    BY DEF NoUi
  <2> QED
    BY <1>1, <1>2, <2>1, <2>2 DEF Headers, Header
<1> QED
  BY <1>3, <1>4, <1>5, IInvInit DEF RecordInv

LEMMA RecordStep == RecordInv /\ [Next]_vars => RecordInv'
<1> SUFFICES ASSUME RecordInv, [Next]_vars PROVE RecordInv'
  OBVIOUS
<1>1. IInv /\ IInv'
  BY IInvStep DEF RecordInv
<1>2. ASSUME NEW p \in Procs, Step(p)
      PROVE  RecordInv'
  BY <1>1, <1>2, OutcomeStep, TallyStep, OwnPromptStep, HeaderStep, HistoryStep
     DEF RecordInv
<1>3. CASE UNCHANGED vars
  <2>1. /\ turns' = turns /\ answers' = answers /\ ui' = ui /\ run' = run /\ work' = work
        /\ faults' = faults
    BY <1>3 DEF vars, file, thread, outside
  <2>2. \A t : /\ AnswersTo(t)' = AnswersTo(t) /\ Silent(t)' = Silent(t)
               /\ PassedFor(t)' = PassedFor(t)
    BY <2>1, SameSets
  <2>3. Outcomes'
    BY <2>1, <2>2 DEF RecordInv, Outcomes, Outcome
  <2>4. Tallies'
    <3>1. \A p : Behind(p)' = Behind(p)
      BY <2>1 DEF Behind
    <3> QED
      BY <2>1, <2>2, <3>1 DEF RecordInv, Tallies, Tally
  <2>5. OwnPrompt'
    BY <2>1 DEF RecordInv, OwnPrompt
  <2>6. Headers'
    BY <2>1, <2>2 DEF RecordInv, Headers, Header
  <2>7. HistoryIsChecked'
    BY <2>1, <2>2 DEF RecordInv, HistoryIsChecked
  <2> QED
    BY <1>1, <2>3, <2>4, <2>5, <2>6, <2>7 DEF RecordInv
<1> QED
  BY <1>2, <1>3 DEF Next, Step

\* Of every run, what its thread has come to, what it has counted and what it
\* was told is what the file says; so is what a window with no run going
\* shows.  All of it holds after every statement that is run, refused or cut
\* off (worker in harness.c, gs_ui_harness_poll in ui_chat_actions.c).
THEOREM RecordHolds == Spec => []RecordInv
<1> QED
  BY RecordInit, RecordStep, PTL DEF Spec

\* A run that can be joined has settled what is shown under its prompt, says
\* the same of itself, and has left its record, unless a statement was
\* refused (worker in harness.c stores run.done last).
THEOREM DoneAlwaysRecorded == Spec => []DoneIsRecorded
<1>1. RecordInv => DoneIsRecorded
  BY DEF RecordInv, Outcomes, Outcome, DoneIsRecorded
<1> QED
  BY <1>1, RecordInit, RecordStep, PTL DEF Spec

\* Unless a statement was refused, it has a row for every model it was given
\* and its counts are those of the rows, whoever else writes to the file.
THEOREM EveryModelAlwaysAccounted == Spec => []EveryModelAccounted
<1>1. ASSUME RecordInv, NEW p \in Procs, run[p].running, run[p].done, faults = 0
      PROVE  Behind(p) = run[p].count /\ Tally(p)
  <2>1. work[p].pc = "none"
    BY <1>1 DEF RecordInv, IInv, Relies
  <2> QED
    BY <1>1, <2>1 DEF RecordInv, Tallies, Behind, Asking
<1>2. RecordInv => EveryModelAccounted
  BY <1>1 DEF Tally, Silent, EveryModelAccounted
<1> QED
  BY <1>2, RecordInit, RecordStep, PTL DEF Spec

\* What a model is told was said before are earlier prompts of the same
\* conversation with the answers that passed, at every moment of the run.
THEOREM HistoryAlwaysChecked == Spec => []HistoryIsChecked
<1>1. RecordInv => HistoryIsChecked
  BY DEF RecordInv
<1> QED
  BY <1>1, RecordInit, RecordStep, PTL DEF Spec

\* The header of a window with no run going says what its history says, and
\* goes on saying what the file says of the prompt.
THEOREM HeaderAlwaysAgrees == Spec => []HeaderAgrees
<1>1. ASSUME RecordInv, NEW p \in Windows, ui[p].main = "idle", ~run[p].running
      PROVE  Header(p)
  BY <1>1 DEF RecordInv, Headers, Procs
<1>2. RecordInv => HeaderAgrees
  BY <1>1 DEF Header, Ended, HeaderAgrees
<1> QED
  BY <1>2, RecordInit, RecordStep, PTL DEF Spec

-----------------------------------------------------------------------------
(* Two comments of the code that do not hold of two processes, and what it *)
(* takes for them to hold.                                                 *)

\* What a process says of the prompt its own run is on.
OwnRunTold ==
  \A p \in Procs : run[p].running /\ run[p].turn \in DOMAIN ui[p].panel =>
    ui[p].panel[run[p].turn] \in {"the answer", "nothing yet"}

\* Either it has not read the file since it wrote that prompt, or it spared it.
Spared(p) ==
  /\ DOMAIN ui[p].panel \subseteq DOMAIN turns
  /\ ui[p].main = "begin" => ui[p].turn \notin DOMAIN ui[p].panel
  /\ run[p].running /\ run[p].turn \in DOMAIN ui[p].panel =>
       ui[p].panel[run[p].turn] \in {"the answer", "nothing yet"}

\* A process whose run and history stay says what it said.
LEMMA SparedKept ==
  ASSUME NEW p, Spared(p), run'[p] = run[p], ui'[p].panel = ui[p].panel,
         ui'[p].main # "begin" \/ (ui'[p].main = ui[p].main /\ ui'[p].turn = ui[p].turn),
         DOMAIN turns \subseteq DOMAIN turns'
  PROVE  Spared(p)'
BY DEF Spared

\* One that is gone says nothing.
LEMMA SparedGone ==
  ASSUME NEW p, ui'[p] = NoUi
  PROVE  Spared(p)'
<1>1. NoUi.panel = << >> /\ NoUi.main # "begin"
  BY DEF NoUi
<1>2. ui'[p].panel = << >> /\ ui'[p].main # "begin"
  BY <1>1
<1>3. DOMAIN ui'[p].panel = {}
  BY <1>2
<1> QED
  BY <1>2, <1>3 DEF Spared

\* A refused statement leaves the history.
LEMMA SparedFails ==
  ASSUME IInv, NEW p \in Procs, Spared(p), Fails(p), run' = run,
         DOMAIN turns \subseteq DOMAIN turns'
  PROVE  Spared(p)'
<1>1. ui \in [Procs -> Ui] /\ ui[p] \in Ui
  BY DEF IInv, TypeOK
<1>2. CASE p \in Windows
  <2>1. ui'[p] = [ui[p] EXCEPT !.main = "idle"]
    BY <1>1, <1>2 DEF Fails, GivenUp
  <2>2. ui'[p].panel = ui[p].panel /\ ui'[p].main = "idle"
    BY <1>1, <2>1 DEF Ui
  <2> QED
    BY <2>2, SparedKept
<1>3. CASE p \notin Windows
  <2>1. ui'[p] = NoUi
    BY <1>1, <1>3 DEF Fails, GivenUp
  <2> QED
    BY <2>1, SparedGone
<1> QED
  BY <1>2, <1>3

\* What it reads of its own run's prompt.
LEMMA SparedRead ==
  ASSUME NEW p, NEW b, b = run[p].running, turns' = turns, run' = run,
         ui'[p].panel = Reload(p, b), ui'[p].main = "idle"
  PROVE  Spared(p)'
<1>1. DOMAIN Reload(p, b) = DOMAIN turns
  BY DEF Reload
<1>2. \A t \in DOMAIN turns : b /\ run[p].turn = t =>
        Reload(p, b)[t] \in {"the answer", "nothing yet"}
  BY DEF Reload
<1> QED
  BY <1>1, <1>2 DEF Spared

\* Steps that change nothing of a process but its place, or its header.
LEMMA PlaceMoves ==
  ASSUME IInv, NEW p \in Procs, NEW m, ui' = [ui EXCEPT ![p].main = m]
  PROVE  /\ ui'[p].panel = ui[p].panel /\ ui'[p].main = m
         /\ ui'[p].session = ui[p].session /\ ui'[p].ordinal = ui[p].ordinal
<1>1. ui \in [Procs -> Ui] /\ ui[p] \in Ui
  BY DEF IInv, TypeOK
<1> QED
  BY <1>1 DEF Ui

LEMMA HeaderMoves ==
  ASSUME IInv, NEW p \in Procs, NEW s, ui' = [ui EXCEPT ![p].status = s]
  PROVE  /\ ui'[p].panel = ui[p].panel /\ ui'[p].main = ui[p].main
         /\ ui'[p].session = ui[p].session /\ ui'[p].ordinal = ui[p].ordinal
<1>1. ui \in [Procs -> Ui] /\ ui[p] \in Ui
  BY DEF IInv, TypeOK
<1> QED
  BY <1>1 DEF Ui

\* The steps of the process itself.
LEMMA SparedOwn ==
  ASSUME IInv, NEW p \in Procs, Spared(p), Step(p),
         DOMAIN turns \subseteq DOMAIN turns'
  PROVE  Spared(p)'
<1>1. /\ ui \in [Procs -> Ui] /\ ui[p] \in Ui /\ run \in [Procs -> Run] /\ run[p] \in Run
      /\ Relies(p) /\ turns \in Seq(Turn) /\ DOMAIN turns = 1..Len(turns) /\ Len(turns) \in Nat
  BY DEF IInv, TypeOK
<1>2. CASE Worker(p)
  <2>1. ui' = ui
    BY <1>2, Zenon DEF Worker, LoadHistory, AskModel, FirstReply, SecondReply, Unanswered,
       WriteAnswer, Collect, Judge, Pick, Show, Settle, Note, Finish
  <2>2. run'[p].turn = run[p].turn /\ run'[p].running = run[p].running
    BY <1>2, RunFields
  <2> QED
    BY <2>1, <2>2 DEF Spared
<1>3. CASE WaitRun(p) \/ Crash(p)
  <2>1. ui'[p] = NoUi
    BY <1>1, <1>3 DEF WaitRun, Crash, Gone
  <2> QED
    BY <2>1, SparedGone
<1>4. CASE Poll(p)
  <2>1. ui'[p].panel = Reload(p, FALSE) /\ ui'[p].main = "idle" /\ turns' = turns
    BY <1>1, <1>4 DEF Poll, Ui, file
  <2>2. ~run'[p].running
    BY <1>1, <1>4 DEF Poll, Run
  <2>3. DOMAIN Reload(p, FALSE) = DOMAIN turns
    BY ReloadClean
  <2> QED
    BY <2>1, <2>2, <2>3 DEF Spared
<1>5. CASE Begin(p)
  <2>1. PICK n : run' = [run EXCEPT ![p] = [NoRun EXCEPT !.running = TRUE,
                                                         !.turn = ui[p].turn, !.count = n]]
    BY <1>5 DEF Begin
  <2>2. run'[p].turn = ui[p].turn
    BY <1>1, <2>1 DEF NoRun
  <2>3. ui'[p].panel = ui[p].panel /\ ui'[p].main # "begin"
    BY <1>1, <1>5 DEF Begin, Ui
  <2>4. ui[p].turn \notin DOMAIN ui[p].panel
    BY <1>5 DEF Begin, Spared
  <2> QED
    BY <2>2, <2>3, <2>4 DEF Spared
<1>6. CASE InsertTurn(p)
  <2>1. run' = run /\ ~run[p].running
    BY <1>1, <1>6 DEF InsertTurn, thread, Relies
  <2>2. ASSUME ui' = [ui EXCEPT ![p] = [@ EXCEPT !.main = "begin", !.turn = Len(turns) + 1]]
        PROVE  Spared(p)'
    <3>1. ui'[p].panel = ui[p].panel /\ ui'[p].turn = Len(turns) + 1
      BY <1>1, <2>2 DEF Ui
    <3>2. Len(turns) + 1 \notin DOMAIN turns
      BY <1>1
    <3> QED
      BY <2>1, <3>1, <3>2 DEF Spared
  <2> QED
    BY <1>6, <2>1, <2>2, SparedFails DEF InsertTurn
<1>7. CASE Open(p)
  <2>1. PICK s : ui' = [ui EXCEPT ![p] = [@ EXCEPT !.main = "idle", !.session = s,
                                                   !.panel = Reload(p, FALSE)]]
    BY <1>7 DEF Open
  <2>2. ui'[p].panel = Reload(p, FALSE) /\ ui'[p].main = "idle"
    BY <1>1, <2>1 DEF Ui
  <2>3. run[p].running = FALSE /\ run' = run /\ turns' = turns
    BY <1>1, <1>7 DEF Open, Relies, thread, file, Run
  <2> QED
    BY <2>2, <2>3, SparedRead
<1>8. CASE ReloadSent(p)
  <2>1. ui'[p].panel = Reload(p, run[p].running) /\ ui'[p].main = "idle"
    BY <1>1, <1>8 DEF ReloadSent, Ui
  <2>2. run' = run /\ turns' = turns
    BY <1>8 DEF ReloadSent, thread, file
  <2> QED
    BY <2>1, <2>2, SparedRead
<1>9. ASSUME NEW m, m # "begin", run' = run, ui' = [ui EXCEPT ![p].main = m]
      PROVE  Spared(p)'
  BY <1>9, PlaceMoves, SparedKept
<1>10. ASSUME NEW s, run' = run, ui[p].main = "idle", ui' = [ui EXCEPT ![p].status = s]
      PROVE  Spared(p)'
  BY <1>10, HeaderMoves, SparedKept
<1>11. CASE StartSession(p)
  <2>1. run' = run
    BY <1>11 DEF StartSession, thread
  <2>2. ASSUME NEW next \in {"keep", "order"},
               ui' = [ui EXCEPT ![p] = [@ EXCEPT !.session = sessions + 1, !.main = next]]
        PROVE  Spared(p)'
    <3>1. ui'[p].panel = ui[p].panel /\ ui'[p].main = next
      BY <1>1, <2>2 DEF Ui
    <3> QED
      BY <2>1, <3>1, SparedKept
  <2> QED
    BY <1>11, <2>1, <2>2, SparedFails DEF StartSession
<1>12. CASE ReadOrdinal(p)
  <2>1. run' = run
    BY <1>12 DEF ReadOrdinal, thread
  <2>2. ASSUME NEW n, ui' = [ui EXCEPT ![p] = [@ EXCEPT !.main = "write", !.ordinal = n]]
        PROVE  Spared(p)'
    <3>1. ui'[p].panel = ui[p].panel /\ ui'[p].main = "write"
      BY <1>1, <2>2 DEF Ui
    <3> QED
      BY <2>1, <3>1, SparedKept
  <2> QED
    BY <1>12, <2>1, <2>2, SparedFails DEF ReadOrdinal
<1>13. CASE Send(p)
  BY <1>9, <1>13 DEF Send, thread
<1>14. CASE Ask(p)
  BY <1>9, <1>14 DEF Ask, thread
<1>15. CASE Close(p)
  BY <1>9, <1>15 DEF Close, thread
<1>16. CASE KeepSession(p)
  BY <1>9, <1>16 DEF KeepSession, thread
<1>17. CASE SendBusy(p)
  BY <1>10, <1>17 DEF SendBusy, thread
<1>18. CASE Watch(p)
  BY <1>10, <1>18 DEF Watch, thread
<1>19. CASE NotBegun(p)
  <2>1. run' = run
    BY <1>19 DEF NotBegun, thread
  <2>2. ASSUME NEW why, ui' = [ui EXCEPT ![p] = [@ EXCEPT !.main = "reload", !.status = why]]
        PROVE  Spared(p)'
    <3>1. ui'[p].panel = ui[p].panel /\ ui'[p].main = "reload"
      BY <1>1, <2>2 DEF Ui
    <3> QED
      BY <2>1, <3>1, SparedKept
  <2>3. ASSUME ui' = [ui EXCEPT ![p] = NoUi] PROVE Spared(p)'
    <3>1. ui'[p] = NoUi
      BY <1>1, <2>3
    <3> QED
      BY <3>1, SparedGone
  <2> QED
    BY <1>19, <2>2, <2>3 DEF NotBegun
<1> QED
  BY <1>2, <1>3, <1>4, <1>5, <1>6, <1>7, <1>8, <1>11, <1>12, <1>13, <1>14, <1>15,
     <1>16, <1>17, <1>18, <1>19 DEF Step, Front, Person

\* Any step: what the others do adds prompts, and none that it has read.
LEMMA SparedStep ==
  ASSUME IInv, \A p \in Procs : Spared(p), [Next]_vars
  PROVE  \A p \in Procs : Spared(p)'
<1>1. SUFFICES ASSUME NEW q \in Procs PROVE Spared(q)'
  OBVIOUS
<1>2. DOMAIN turns \subseteq DOMAIN turns'
  BY PromptsStay
<1>3. ASSUME ui'[q] = ui[q], run'[q] = run[q] PROVE Spared(q)'
  BY <1>2, <1>3, SparedKept
<1>4. CASE UNCHANGED vars
  BY <1>3, <1>4 DEF vars, thread
<1>5. ASSUME NEW p \in Procs, Step(p) PROVE Spared(q)'
  <2>1. CASE q = p
    BY <1>2, <1>5, <2>1, SparedOwn
  <2>2. CASE q # p
    BY <1>3, <1>5, <2>2, Alone
  <2> QED
    BY <2>1, <2>2
<1> QED
  BY <1>4, <1>5 DEF Next, Step

\* Of the prompt its own run is on, no process says that no answer came back,
\* nor that every answer failed: it has the answer, or nothing yet, whoever
\* else writes to the file (gs_ui_chat_reload in ui_chat_actions.c).
THEOREM OwnRunAlwaysSpared == Spec => []OwnRunTold
<1> DEFINE Inv == IInv /\ \A p \in Procs : Spared(p)
<1>1. ASSUME Init, NEW p \in Procs PROVE Spared(p)
  <2>1. ui[p] = NoUi /\ run[p] = NoRun
    BY <1>1 DEF Init
  <2>2. DOMAIN NoUi.panel = {} /\ NoUi.main # "begin"
    BY DEF NoUi
  <2> QED
    BY <2>1, <2>2 DEF Spared
<1>2. Init => Inv
  BY <1>1, IInvInit
<1>3. Inv /\ [Next]_vars => Inv'
  BY IInvStep, SparedStep
<1>4. Inv => OwnRunTold
  BY DEF Spared, OwnRunTold
<1> QED
  BY <1>2, <1>3, <1>4, PTL DEF Spec

\* So the comment in gs_ui_chat_reload, "saying no answer came back while the
\* model is thinking would be false", is kept as long as there is one process.
THEOREM AloneNeverFalse ==
  ASSUME \A p, q \in Procs : p = q
  PROVE  Spec => []NotFalseWhileThinking
<1>1. OwnRunTold => NotFalseWhileThinking
  <2>1. SUFFICES ASSUME OwnRunTold, NEW p \in Windows, NEW q \in Procs,
                        run[q].running, run[q].turn \in DOMAIN ui[p].panel
                 PROVE  ui[p].panel[run[q].turn] # "no answer came back"
    BY DEF NotFalseWhileThinking
  <2>2. p = q
    BY DEF Procs
  <2> QED
    BY <2>1, <2>2 DEF OwnRunTold
<1> QED
  BY <1>1, OwnRunAlwaysSpared, PTL

-----------------------------------------------------------------------------
\* Two processes that have read where their prompts go, in one conversation.
Crossing == \E p, q \in Procs : /\ p # q /\ ui[p].main = "write" /\ ui[q].main = "write"
                                /\ ui[p].session = ui[q].session

\* The place a process has read is still free.
Free(p) == ui[p].main = "write" =>
             \A t \in DOMAIN turns : turns[t].session = ui[p].session =>
               turns[t].ordinal # ui[p].ordinal

Places == faults = 0 => PlacesApart /\ \A p \in Procs : Free(p)

\* Only the asking thread's own INSERT takes a place.
SamePlaces ==
  /\ DOMAIN turns' = DOMAIN turns
  /\ \A t \in DOMAIN turns : /\ turns'[t].session = turns[t].session
                             /\ turns'[t].ordinal = turns[t].ordinal

\* Any other statement leaves the places as they are.
LEMMA PlacesTaken ==
  ASSUME IInv, NEW p \in Procs, Step(p)
  PROVE  SamePlaces \/ (InsertTurn(p) /\ turns' = Append(turns, Prompt(p)))
<1>1. turns \in Seq(Turn)
  BY DEF IInv, TypeOK
<1>2. turns' = turns => SamePlaces
  BY DEF SamePlaces
<1>3. CASE Worker(p)
  <2>1. ASSUME NEW u \in DOMAIN turns, NEW v, turns' = [turns EXCEPT ![u] = v],
               v.session = turns[u].session, v.ordinal = turns[u].ordinal
        PROVE  SamePlaces
    BY <1>1, <2>1 DEF SamePlaces
  <2>2. CASE AnswerChosen
    <3>1. PICK u \in DOMAIN turns : \E a \in AnswersTo(u) :
            turns' = [turns EXCEPT ![u].shown = a]
      BY <2>2 DEF AnswerChosen
    <3>2. turns[u] \in Turn
      BY <1>1
    <3> QED
      BY <2>1, <3>1, <3>2 DEF Turn
  <2>3. CASE RecordAdded
    <3>1. PICK u \in DOMAIN turns : turns' = [turns EXCEPT ![u].noted = TRUE]
      BY <2>3 DEF RecordAdded
    <3>2. turns[u] \in Turn
      BY <1>1
    <3> QED
      BY <2>1, <3>1, <3>2 DEF Turn
  <2> QED
    BY <1>2, <1>3, <2>2, <2>3, WorkerFile DEF Untouched, AnswerAdded, AnswerJudged
<1>4. CASE InsertTurn(p)
  BY <1>2, <1>4 DEF InsertTurn
<1>5. CASE Person(p) \/ Crash(p)
  BY <1>2, <1>5 DEF Person, Open, Send, SendBusy, Ask, Close, Crash, file
<1>6. CASE \/ StartSession(p) \/ KeepSession(p) \/ ReadOrdinal(p) \/ Begin(p)
           \/ NotBegun(p) \/ ReloadSent(p) \/ Watch(p) \/ Poll(p) \/ WaitRun(p)
  BY <1>2, <1>6 DEF StartSession, KeepSession, ReadOrdinal, Begin, NotBegun,
     ReloadSent, Watch, Poll, WaitRun, file
<1> QED
  BY <1>3, <1>4, <1>5, <1>6 DEF Step, Front

\* A process comes to a place by reading it, and is not told a wrong one
\* while no statement is refused.
LEMMA PlaceRead ==
  ASSUME IInv, NEW p \in Procs, Step(p), ui'[p].main = "write", faults' = faults
  PROVE  \/ ui'[p] = ui[p]
         \/ /\ ui'[p].session = ui[p].session /\ turns' = turns
            /\ ui'[p].ordinal \in Nat /\ IsNext(ui'[p].ordinal, ui[p].session)
<1>1. /\ ui \in [Procs -> Ui] /\ ui[p] \in Ui /\ Len(turns) \in Nat /\ faults \in Nat
  BY DEF IInv, TypeOK
<1>2. ~Refused /\ ~Fails(p)
  BY <1>1 DEF Fails, Refused
<1>3. CASE Worker(p)
  BY <1>3, Zenon DEF Worker, LoadHistory, AskModel, FirstReply, SecondReply, Unanswered,
     WriteAnswer, Collect, Judge, Pick, Show, Settle, Note, Finish
<1>4. ASSUME NEW m, m # "write", ui' = [ui EXCEPT ![p].main = m]
      PROVE  FALSE
  BY <1>4, PlaceMoves
<1>5. ASSUME NEW s, ui[p].main # "write", ui' = [ui EXCEPT ![p].status = s]
      PROVE  FALSE
  BY <1>5, HeaderMoves
<1>6. ASSUME NEW m, m.main # "write", ui' = [ui EXCEPT ![p] = m]
      PROVE  FALSE
  BY <1>1, <1>6
<1>7. CASE ReadOrdinal(p)
  <2>1. PICK n \in 1..(Len(turns) + 1) :
          /\ IsNext(n, ui[p].session)
          /\ ui' = [ui EXCEPT ![p] = [@ EXCEPT !.main = "write", !.ordinal = n]]
    BY <1>2, <1>7 DEF ReadOrdinal
  <2>2. ui'[p].session = ui[p].session /\ ui'[p].ordinal = n
    BY <1>1, <2>1 DEF Ui
  <2>3. turns' = turns
    BY <1>7, Zenon DEF ReadOrdinal, file
  <2>4. n \in Nat
    BY <1>1
  <2> QED
    BY <2>1, <2>2, <2>3, <2>4
<1>8. CASE Person(p)
  <2>1. CASE Open(p)
    <3>1. PICK s : ui' = [ui EXCEPT ![p] = [@ EXCEPT !.main = "idle", !.session = s,
                                                     !.panel = Reload(p, FALSE)]]
      BY <2>1 DEF Open
    <3> QED
      BY <1>1, <3>1 DEF Ui
  <2>2. CASE Send(p) \/ Ask(p) \/ Close(p)
    BY <1>4, <2>2 DEF Send, Ask, Close
  <2>3. CASE SendBusy(p)
    BY <1>5, <2>3 DEF SendBusy
  <2> QED
    BY <1>8, <2>1, <2>2, <2>3 DEF Person
<1>9. CASE WaitRun(p) \/ Crash(p)
  BY <1>6, <1>9 DEF WaitRun, Crash, Gone, NoUi
<1>10. CASE StartSession(p)
  <2>1. PICK next \in {"keep", "order"} :
          ui' = [ui EXCEPT ![p] = [@ EXCEPT !.session = sessions + 1, !.main = next]]
    BY <1>2, <1>10 DEF StartSession
  <2> QED
    BY <1>1, <2>1 DEF Ui
<1>11. CASE InsertTurn(p)
  <2>1. ui' = [ui EXCEPT ![p] = [@ EXCEPT !.main = "begin", !.turn = Len(turns) + 1]]
    BY <1>2, <1>11 DEF InsertTurn
  <2> QED
    BY <1>1, <2>1 DEF Ui
<1>12. CASE KeepSession(p) \/ Begin(p)
  BY <1>4, <1>12 DEF KeepSession, Begin
<1>13. CASE Watch(p)
  BY <1>5, <1>13 DEF Watch
<1>14. CASE ReloadSent(p)
  <2>1. ui'[p].main = "idle"
    BY <1>1, <1>14 DEF ReloadSent, Ui
  <2> QED
    BY <2>1
<1>15. CASE NotBegun(p)
  <2>1. ASSUME NEW why, ui' = [ui EXCEPT ![p] = [@ EXCEPT !.main = "reload", !.status = why]]
        PROVE  FALSE
    BY <1>1, <2>1 DEF Ui
  <2> QED
    BY <1>6, <1>15, <2>1 DEF NotBegun, NoUi
<1>16. CASE Poll(p)
  <2>1. ui'[p].main = ui[p].main
    BY <1>1, <1>16 DEF Poll, Ui
  <2> QED
    BY <1>16, <2>1 DEF Poll
<1> QED
  BY <1>3, <1>7, <1>8, <1>9, <1>10, <1>11, <1>12, <1>13, <1>14, <1>15, <1>16
     DEF Step, Front

\* So what is read free stays free, unless another takes it at that moment.
LEMMA PlacesStep ==
  ASSUME IInv, Places, ~Crossing, [Next]_vars
  PROVE  Places'
<1>1. CASE UNCHANGED vars
  <2>1. turns' = turns /\ ui' = ui /\ faults' = faults
    BY <1>1 DEF vars, file, outside
  <2> QED
    BY <2>1 DEF Places, PlacesApart, Free
<1>2. ASSUME NEW p \in Procs, Step(p) PROVE Places'
  <2>1. SUFFICES ASSUME faults' = 0
                 PROVE  PlacesApart' /\ \A q \in Procs : Free(q)'
    BY DEF Places
  <2>2. faults = 0
    BY <1>2, <2>1, FaultsGrow
  <2>3. PlacesApart /\ \A q \in Procs : Free(q)
    BY <2>2 DEF Places
  <2>4. \A q \in Procs : q # p => ui'[q] = ui[q]
    BY <1>2, Alone
  <2>5. turns \in Seq(Turn) /\ Len(turns) \in Nat /\ DOMAIN turns = 1..Len(turns)
    BY DEF IInv, TypeOK
  <2>6. CASE SamePlaces
    <3>1. PlacesApart'
      BY <2>3, <2>6 DEF PlacesApart, SamePlaces
    <3>2. ASSUME NEW q \in Procs, ui'[q] = ui[q] PROVE Free(q)'
      BY <2>3, <2>6, <3>2 DEF Free, SamePlaces
    <3>3. Free(p)'
      <4>1. SUFFICES ASSUME ui'[p].main = "write", ui'[p] # ui[p] PROVE Free(p)'
        BY <3>2 DEF Free
      <4>2. /\ ui'[p].session = ui[p].session /\ turns' = turns
            /\ ui'[p].ordinal \in Nat /\ IsNext(ui'[p].ordinal, ui[p].session)
        BY <1>2, <2>1, <2>2, <4>1, PlaceRead
      <4>3. ASSUME NEW t \in DOMAIN turns, turns[t].session = ui[p].session
            PROVE  turns[t].ordinal # ui'[p].ordinal
        <5>1. turns[t].ordinal < ui'[p].ordinal
          <6> DEFINE there == {u \in DOMAIN turns : turns[u].session = ui[p].session}
          <6>1. \A o \in {turns[u].ordinal : u \in there} : o < ui'[p].ordinal
            BY <4>2, Zenon DEF IsNext
          <6>2. t \in there
            BY <4>3
          <6> QED
            BY <6>1, <6>2
        <5>2. turns[t] \in Turn
          BY <2>5
        <5>3. turns[t].ordinal \in Nat
          BY <5>2 DEF Turn
        <5> QED
          BY <4>2, <5>1, <5>3
      <4> QED
        BY <4>2, <4>3 DEF Free
    <3> QED
      BY <2>4, <3>1, <3>2, <3>3
  <2>7. CASE InsertTurn(p) /\ turns' = Append(turns, Prompt(p))
    <3>1. PICK n \in Nat : n = Len(turns) + 1
      BY <2>5
    <3>2. /\ DOMAIN turns' = DOMAIN turns \cup {n} /\ n \notin DOMAIN turns
          /\ \A t \in DOMAIN turns : turns'[t] = turns[t]
          /\ turns'[n].session = ui[p].session /\ turns'[n].ordinal = ui[p].ordinal
      BY <2>5, <2>7, <3>1 DEF Prompt
    <3>3. ui[p].main = "write"
      BY <2>7 DEF InsertTurn
    <3>4. PlacesApart'
      BY <2>3, <3>2, <3>3 DEF PlacesApart, Free
    <3>5. ASSUME NEW q \in Procs, q # p PROVE Free(q)'
      <4>1. SUFFICES ASSUME ui[q].main = "write" PROVE Free(q)'
        BY <2>4, <3>5 DEF Free
      <4>2. ui[q].session # ui[p].session
        BY <3>3, <3>5, <4>1 DEF Crossing
      <4> QED
        BY <2>3, <2>4, <3>2, <3>5, <4>2 DEF Free
    <3>6. Free(p)'
      <4>1. SUFFICES ASSUME ui'[p].main = "write" PROVE FALSE
        BY DEF Free
      <4>2. turns' # turns
        BY <3>2
      <4>3. ui'[p] = ui[p]
        BY <1>2, <2>1, <2>2, <4>1, <4>2, PlaceRead
      <4>4. ui' = [ui EXCEPT ![p] = [@ EXCEPT !.main = "begin", !.turn = Len(turns) + 1]]
        BY <2>1, <2>2, <2>7 DEF InsertTurn, Fails, Refused
      <4>5. ui[p] \in Ui /\ ui \in [Procs -> Ui]
        BY DEF IInv, TypeOK
      <4> QED
        BY <4>1, <4>4, <4>5 DEF Ui
    <3> QED
      BY <3>4, <3>5, <3>6
  <2> QED
    BY <1>2, <2>6, <2>7, PlacesTaken
<1> QED
  BY <1>1, <1>2 DEF Next, Step

\* "A second copy of the program cannot write two turns into the same place"
\* (gs_session_add_turn in session.c) holds of any number of copies, as long
\* as no two of them are between the SELECT and the INSERT of one conversation
\* at once and no statement is refused: that crossing is all that is missing.
THEOREM PlacesNeedCrossing ==
  Spec /\ []~Crossing => [](faults = 0 => PlacesApart)
<1>1. Init => Places
  <2>1. SUFFICES ASSUME Init PROVE PlacesApart /\ \A p \in Procs : Free(p)
    BY DEF Places
  <2>2. DOMAIN turns = {}
    BY <2>1 DEF Init
  <2> QED
    BY <2>2 DEF PlacesApart, Free
<1>2. IInv /\ Places /\ ~Crossing /\ [Next]_vars => IInv' /\ Places'
  BY IInvStep, PlacesStep
<1>3. Places => (faults = 0 => PlacesApart)
  BY DEF Places
<1> QED
  BY <1>1, <1>2, <1>3, IInvInit, PTL DEF Spec

\* One process by itself never crosses.
THEOREM AloneKeepsPlaces ==
  ASSUME \A p, q \in Procs : p = q
  PROVE  Spec => [](faults = 0 => PlacesApart)
<1>1. ~Crossing
  BY DEF Crossing
<1> QED
  BY <1>1, PlacesNeedCrossing, PTL
=============================================================================
