--------------------------- MODULE HarnessRunLife ---------------------------
(***************************************************************************)
(* HarnessRun keeps the promise of TurnLife, and rewrites nothing: proofs  *)
(* for any number of processes, models, prompts, crashes and refusals.     *)
(***************************************************************************)
EXTENDS HarnessRunProofs

-----------------------------------------------------------------------------
(* What one step may do to the tables, whoever takes it. *)

Answerable(t) == turns[t].shown = 0 /\ ~turns[t].noted

Untouched == turns' = turns /\ answers' = answers

PromptAdded ==
  /\ answers' = answers
  /\ \E r \in Turn : /\ r.shown = 0 /\ ~r.noted
                     /\ turns' = Append(turns, r)

AnswerAdded ==
  /\ turns' = turns
  /\ \E r \in Answer : /\ r.turn \in DOMAIN turns /\ Answerable(r.turn)
                       /\ answers' = Append(answers, r)

AnswerJudged ==
  /\ turns' = turns
  /\ \E a \in DOMAIN answers : \E v \in {"EMPTY", "PASSED", "FAILED_CHECK"} :
       /\ answers' = [answers EXCEPT ![a].verdict = v]
       /\ answers[a].verdict \in {"PENDING", v}

AnswerChosen ==
  /\ answers' = answers
  /\ \E t \in DOMAIN turns : \E a \in AnswersTo(t) :
       /\ Answerable(t)
       /\ turns' = [turns EXCEPT ![t].shown = a]

RecordAdded ==
  /\ answers' = answers
  /\ \E t \in DOMAIN turns : /\ ~turns[t].noted
                             /\ turns' = [turns EXCEPT ![t].noted = TRUE]

LEMMA WorkerFile ==
  ASSUME IInv, NEW p \in Procs, Worker(p)
  PROVE  \/ Untouched \/ AnswerAdded \/ AnswerJudged \/ AnswerChosen
         \/ RecordAdded
<1>1. /\ work[p] \in Work /\ run[p] \in Run /\ Relies(p)
      /\ answers \in Seq(Answer)
  BY DEF IInv, TypeOK
<1>2. CASE \/ LoadHistory(p) \/ AskModel(p) \/ FirstReply(p)
           \/ SecondReply(p) \/ Collect(p) \/ Pick(p) \/ Settle(p)
           \/ Finish(p)
  BY <1>2 DEF LoadHistory, AskModel, FirstReply, SecondReply, Collect, Pick,
     Settle, Finish, file, Untouched
<1>3. CASE Unanswered(p) \/ WriteAnswer(p)
  <2>1. work[p].pc \in Asking
    BY <1>3 DEF Unanswered, WriteAnswer, Asking
  <2>2. run[p].turn \in DOMAIN turns /\ Answerable(run[p].turn)
    BY <1>1, <2>1 DEF Relies, Answerable, Asking
  <2>3. work[p].reply \in Texts /\ Silence \in Texts
    BY <1>1 DEF Work, Texts
  <2>4. \A text \in Texts : Row(p, text) \in Answer
    BY <1>1 DEF Row, Answer, Work, Run
  <2>5. \A text : Row(p, text).turn = run[p].turn
    BY DEF Row
  <2> QED
    BY <1>3, <2>2, <2>3, <2>4, <2>5 DEF Unanswered, WriteAnswer, AnswerAdded,
       Untouched
<1>4. CASE Judge(p)
  <2>1. PICK a \in work[p].unchecked :
          \/ answers' = [answers EXCEPT ![a].verdict = Judged(answers[a].text)]
          \/ answers' = answers
    BY <1>4 DEF Judge
  <2>2. a \in DOMAIN answers /\ answers[a].verdict \in Unjudged
    BY <1>1, <1>4 DEF Judge, Relies, AnswersTo
  <2>3. answers[a].verdict = "EMPTY" => Judged(answers[a].text) = "EMPTY"
    <3>1. answers[a].verdict = "EMPTY" => answers[a].text = Silence
      BY <2>2 DEF IInv, Rows
    <3>2. \A text : text = Silence => Judged(text) = "EMPTY"
      BY RunAssumption DEF Judged
    <3> QED
      BY <3>1, <3>2
  <2>4. Judged(answers[a].text) \in {"EMPTY", "PASSED", "FAILED_CHECK"}
    BY DEF Judged
  <2>5. turns' = turns
    BY <1>4 DEF Judge
  <2> QED
    BY <2>1, <2>2, <2>3, <2>4, <2>5 DEF AnswerJudged, Untouched, Unjudged
<1>5. CASE Show(p)
  <2>1. /\ run[p].turn \in DOMAIN turns /\ Answerable(run[p].turn)
        /\ work[p].winner \in AnswersTo(run[p].turn)
    BY <1>1, <1>5 DEF Show, Relies, Answerable, Best, PassedFor
  <2> QED
    BY <1>5, <2>1 DEF Show, AnswerChosen, Untouched
<1>6. CASE Note(p)
  <2>1. run[p].turn \in DOMAIN turns /\ ~turns[run[p].turn].noted
    BY <1>1, <1>6 DEF Note, Relies
  <2> QED
    BY <1>6, <2>1 DEF Note, RecordAdded, Untouched
<1> QED
  BY <1>2, <1>3, <1>4, <1>5, <1>6 DEF Worker

LEMMA OthersFile ==
  ASSUME IInv, NEW p \in Procs, Front(p) \/ Person(p) \/ Crash(p)
  PROVE  Untouched \/ PromptAdded
<1>1. CASE InsertTurn(p)
  <2>1. Prompt(p) \in Turn /\ Prompt(p).shown = 0 /\ ~Prompt(p).noted
    <3>1. ui[p] \in Ui
      BY DEF IInv, TypeOK
    <3> QED
      BY <3>1 DEF Prompt, Turn, Ui
  <2> QED
    BY <1>1, <2>1 DEF InsertTurn, PromptAdded, Untouched
<1>2. CASE Person(p) \/ Crash(p)
  BY <1>2 DEF Person, Open, Send, SendBusy, Ask, Close, Crash, file, Untouched
<1>3. CASE \/ StartSession(p) \/ KeepSession(p) \/ ReadOrdinal(p)
           \/ Begin(p) \/ NotBegun(p) \/ ReloadSent(p) \/ Watch(p)
           \/ Poll(p) \/ WaitRun(p)
  BY <1>3 DEF StartSession, KeepSession, ReadOrdinal, Begin, NotBegun,
     ReloadSent, Watch, Poll, WaitRun, file, Untouched
<1> QED
  BY <1>1, <1>2, <1>3 DEF Front

LEMMA FileStep ==
  ASSUME IInv, [Next]_vars
  PROVE  \/ Untouched \/ PromptAdded \/ AnswerAdded \/ AnswerJudged
         \/ AnswerChosen \/ RecordAdded
<1>1. CASE UNCHANGED vars
  BY <1>1 DEF vars, file, Untouched
<1> QED
  BY <1>1, WorkerFile, OthersFile DEF Next

-----------------------------------------------------------------------------
(* The promise of TurnLife. *)

\* One prompt as TurnLife sees it.
View(t) == [given |-> AnswersTo(t), shown |-> turns[t].shown,
            noted |-> turns[t].noted]

LEMMA LivesViews ==
  ASSUME turns \in Seq(Turn)
  PROVE  /\ Lives = [t \in DOMAIN turns |-> View(t)]
         /\ DOMAIN Lives = DOMAIN turns
         /\ \A t \in DOMAIN turns : Lives[t] = View(t)
         /\ Lives \in Seq({View(t) : t \in DOMAIN turns})
         /\ Len(Lives) = Len(turns)
<1>1. /\ Lives = [t \in DOMAIN turns |-> View(t)]
      /\ DOMAIN turns = 1..Len(turns) /\ Len(turns) \in Nat
  BY DEF Lives, View
<1> QED
  BY <1>1

\* What choosing an answer and adding the record make of a row.
LEMMA ViewRows ==
  ASSUME NEW t, NEW a
  PROVE  /\ [View(t) EXCEPT !.shown = a] =
              [given |-> AnswersTo(t), shown |-> a, noted |-> turns[t].noted]
         /\ [View(t) EXCEPT !.noted = a] =
              [given |-> AnswersTo(t), shown |-> turns[t].shown, noted |-> a]
  BY DEF View

\* Where every prompt looks as it did, nothing has happened.
LEMMA SameViews ==
  ASSUME turns \in Seq(Turn), turns' \in Seq(Turn),
         DOMAIN turns' = DOMAIN turns,
         \A t \in DOMAIN turns : View(t)' = View(t)
  PROVE  Lives' = Lives
  BY DEF Lives, View

LEMMA LifeInit == Init => Life!Init
<1> SUFFICES ASSUME Init PROVE Life!Init
  OBVIOUS
<1>1. turns = << >> /\ answers = << >>
  BY DEF Init
<1>2. Lives = << >>
  BY <1>1 DEF Lives
<1> QED
  BY <1>1, <1>2 DEF Life!Init

LEMMA LifeStep ==
  ASSUME IInv, IInv', [Next]_vars
  PROVE  [Life!Next]_<<Lives, Len(answers)>>
<1>1. /\ turns \in Seq(Turn) /\ turns' \in Seq(Turn)
      /\ answers \in Seq(Answer) /\ Len(answers) \in Nat
  BY DEF IInv, TypeOK
<1>2. /\ DOMAIN turns = 1..Len(turns) /\ Len(turns) \in Nat
      /\ DOMAIN answers = 1..Len(answers)
  BY <1>1
<1>3. /\ DOMAIN Lives = DOMAIN turns
      /\ \A t \in DOMAIN turns : Lives[t] = View(t)
      /\ Lives \in Seq({View(t) : t \in DOMAIN turns})
      /\ Len(Lives) = Len(turns)
  BY <1>1, LivesViews
<1>4. Lives' = [t \in DOMAIN turns' |-> View(t)']
  BY DEF Lives, View
<1>5. CASE Untouched
  BY <1>5 DEF Untouched, Lives, AnswersTo
<1>6. CASE PromptAdded
  <2>1. PICK r \in Turn : /\ r.shown = 0 /\ ~r.noted
                          /\ turns' = Append(turns, r)
    BY <1>6 DEF PromptAdded
  <2>2. PICK n \in Nat : n = Len(turns) + 1
    BY <1>2
  <2>3. /\ DOMAIN turns' = 1..n /\ turns'[n] = r
        /\ \A t \in DOMAIN turns : turns'[t] = turns[t]
    BY <1>1, <1>2, <2>1, <2>2
  <2>4. answers' = answers
    BY <1>6 DEF PromptAdded
  <2>5. \A t : AnswersTo(t)' = AnswersTo(t)
    BY <2>4 DEF AnswersTo
  <2>6. AnswersTo(n) = {}
    BY <1>2, <2>2 DEF AnswersTo, IInv, Rows
  <2>7. \A t \in DOMAIN turns : View(t)' = View(t)
    BY <2>3, <2>5 DEF View
  <2> DEFINE new == [given |-> {}, shown |-> 0, noted |-> FALSE]
  <2>8. \A t : t = n => View(t)' = new
    BY <2>1, <2>3, <2>5, <2>6 DEF View, Turn
  <2> HIDE DEF new
  <2>9. Lives' = Append(Lives, new)
    <3> DEFINE S == {View(t) : t \in DOMAIN turns} \cup {new}
    <3>1. Lives \in Seq(S) /\ new \in S
      BY <1>2, <1>3
    <3> HIDE DEF S
    <3>2. /\ Append(Lives, new) \in Seq(S)
          /\ Len(Append(Lives, new)) = n /\ Append(Lives, new)[n] = new
          /\ \A t \in DOMAIN turns : Append(Lives, new)[t] = Lives[t]
      BY <1>2, <1>3, <2>2, <3>1, AppendProperties
    <3>3. /\ DOMAIN Lives' = 1..n
          /\ \A t \in 1..n : Lives'[t] = IF t = n THEN new ELSE Lives[t]
      BY <1>2, <1>3, <1>4, <2>2, <2>3, <2>7, <2>8
    <3>4. \A t \in 1..n : Lives'[t] \in S
      <4>1. \A t \in 1..Len(turns) : Lives[t] \in S
        BY <1>3, <3>1, ElementOfSeq
      <4> QED
        BY <1>2, <2>2, <3>1, <3>3, <4>1
    <3>5. Lives' \in Seq(S) /\ Len(Lives') = n
      BY <1>4, <3>3, <3>4
    <3>6. \A t \in 1..n : Lives'[t] = Append(Lives, new)[t]
      BY <1>2, <2>2, <3>2, <3>3
    <3> QED
      BY <3>2, <3>5, <3>6, SeqEqual
  <2> QED
    BY <2>4, <2>9 DEF new, Life!Next, Life!Ask
<1>7. CASE AnswerAdded
  <2>1. PICK r \in Answer : /\ r.turn \in DOMAIN turns /\ Answerable(r.turn)
                            /\ answers' = Append(answers, r)
    BY <1>7 DEF AnswerAdded
  <2>2. PICK u \in DOMAIN turns : u = r.turn
    BY <2>1
  <2>3. PICK n \in Nat : n = Len(answers) + 1
    BY <1>1
  <2>4. /\ DOMAIN answers' = DOMAIN answers \cup {n} /\ n \notin DOMAIN answers
        /\ \A a \in DOMAIN answers : answers'[a] = answers[a]
        /\ answers'[n] = r /\ Len(answers') = n
    BY <1>1, <1>2, <2>1, <2>3
  <2>5. /\ \A t : t # u => AnswersTo(t)' = AnswersTo(t)
        /\ \A t : t = u => AnswersTo(t)' = AnswersTo(t) \cup {n}
    BY <2>2, <2>4 DEF AnswersTo
  <2>6. turns' = turns
    BY <1>7 DEF AnswerAdded
  <2>7. /\ \A t \in DOMAIN turns : t # u => View(t)' = View(t)
        /\ \A t : t = u => View(t)' = [View(t) EXCEPT !.given = @ \cup {n}]
    BY <2>5, <2>6 DEF View
  <2>8. Lives' = [Lives EXCEPT ![u].given = @ \cup {n}]
    BY <1>3, <1>4, <2>2, <2>6, <2>7
  <2>9. Life!Open(u)
    BY <1>3, <2>1, <2>2 DEF Life!Open, View, Answerable
  <2> QED
    BY <1>3, <2>3, <2>4, <2>8, <2>9 DEF Life!Next, Life!Answer
<1>8. CASE AnswerJudged
  <2>1. PICK a \in DOMAIN answers, v \in {"EMPTY", "PASSED", "FAILED_CHECK"} :
          answers' = [answers EXCEPT ![a].verdict = v]
    BY <1>8 DEF AnswerJudged
  <2>2. answers[a] \in Answer
    BY <1>1
  <2>3. /\ DOMAIN answers' = DOMAIN answers /\ Len(answers') = Len(answers)
        /\ \A b \in DOMAIN answers : answers'[b].turn = answers[b].turn
    BY <1>1, <2>1, <2>2 DEF Answer
  <2>4. turns' = turns
    BY <1>8 DEF AnswerJudged
  <2>5. \A t : AnswersTo(t)' = AnswersTo(t)
    BY <2>3 DEF AnswersTo
  <2> QED
    BY <1>1, <2>3, <2>4, <2>5, SameViews DEF View
<1>9. CASE AnswerChosen
  <2> PICK u \in DOMAIN turns : \E c \in AnswersTo(u) :
         Answerable(u) /\ turns' = [turns EXCEPT ![u].shown = c]
    BY <1>9 DEF AnswerChosen
  <2>1. PICK a \in AnswersTo(u) :
          Answerable(u) /\ turns' = [turns EXCEPT ![u].shown = a]
    OBVIOUS
  <2>2. answers' = answers
    BY <1>9 DEF AnswerChosen
  <2>3. turns[u] \in Turn
    BY <1>1
  <2>4. /\ DOMAIN turns' = DOMAIN turns
        /\ \A t \in DOMAIN turns : t # u => turns'[t] = turns[t]
        /\ turns'[u].shown = a /\ turns'[u].noted = turns[u].noted
    BY <1>1, <2>1, <2>3 DEF Turn
  <2>5. \A t : AnswersTo(t)' = AnswersTo(t)
    BY <2>2 DEF AnswersTo
  <2>6. /\ \A t \in DOMAIN turns : t # u => View(t)' = View(t)
        /\ \A t : t = u => View(t)' = [given |-> AnswersTo(t), shown |-> a,
                                      noted |-> turns[t].noted]
    BY <2>4, <2>5 DEF View
  <2>7. Lives' = [Lives EXCEPT ![u].shown = a]
    <3>1. View(u)' = [View(u) EXCEPT !.shown = a]
      <4>1. [View(u) EXCEPT !.shown = a] =
              [given |-> AnswersTo(u), shown |-> a, noted |-> turns[u].noted]
        BY ViewRows, Zenon
      <4> QED
        BY <2>6, <4>1
    <3>2. Lives' = [t \in DOMAIN Lives |->
                      IF t = u THEN View(u)' ELSE Lives[t]]
      BY <1>3, <1>4, <2>4, <2>6
    <3> QED
      BY <1>3, <3>1, <3>2
  <2>8. Life!Open(u) /\ a \in Lives[u].given
    BY <1>3, <2>1 DEF Life!Open, View, Answerable
  <2> QED
    BY <1>3, <2>2, <2>7, <2>8 DEF Life!Next, Life!Choose
<1>10. CASE RecordAdded
  <2>1. PICK u \in DOMAIN turns :
          ~turns[u].noted /\ turns' = [turns EXCEPT ![u].noted = TRUE]
    BY <1>10 DEF RecordAdded
  <2>2. answers' = answers
    BY <1>10 DEF RecordAdded
  <2>3. turns[u] \in Turn
    BY <1>1
  <2>4. /\ DOMAIN turns' = DOMAIN turns
        /\ \A t \in DOMAIN turns : t # u => turns'[t] = turns[t]
        /\ turns'[u].shown = turns[u].shown /\ turns'[u].noted = TRUE
    BY <1>1, <2>1, <2>3 DEF Turn
  <2>5. \A t : AnswersTo(t)' = AnswersTo(t)
    BY <2>2 DEF AnswersTo
  <2>6. /\ \A t \in DOMAIN turns : t # u => View(t)' = View(t)
        /\ \A t : t = u => View(t)' = [given |-> AnswersTo(t),
                                      shown |-> turns[t].shown,
                                      noted |-> TRUE]
    BY <2>4, <2>5 DEF View
  <2>7. Lives' = [Lives EXCEPT ![u].noted = TRUE]
    <3>1. View(u)' = [View(u) EXCEPT !.noted = TRUE]
      <4>1. [View(u) EXCEPT !.noted = TRUE] =
              [given |-> AnswersTo(u), shown |-> turns[u].shown,
               noted |-> TRUE]
        BY ViewRows, Zenon
      <4> QED
        BY <2>6, <4>1
    <3>2. Lives' = [t \in DOMAIN Lives |->
                      IF t = u THEN View(u)' ELSE Lives[t]]
      BY <1>3, <1>4, <2>4, <2>6
    <3> QED
      BY <1>3, <3>1, <3>2
  <2>8. ~Lives[u].noted
    BY <1>3, <2>1 DEF View
  <2> QED
    BY <1>3, <2>2, <2>7, <2>8 DEF Life!Next, Life!Close
<1> QED
  BY <1>5, <1>6, <1>7, <1>8, <1>9, <1>10, FileStep

\* The conversation file, written to by any number of processes that may be
\* killed at any step, implements the life of a prompt TurnLife describes.
THEOREM TurnLifeKept == Spec => KeepsTurnLife
<1>1. IInv /\ IInv' /\ [Next]_vars => [Life!Next]_<<Lives, Len(answers)>>
  BY LifeStep
<1> QED
  BY <1>1, LifeInit, IInvInit, IInvStep, PTL
     DEF Spec, KeepsTurnLife, Life!Spec

-----------------------------------------------------------------------------
(* Nothing is rewritten. *)

\* A row is never rewritten but by the checking, which decides once; a
\* choice once made is kept, and so is the whole prompt once its record is in.
THEOREM RecordsAlwaysKept == Spec => RecordsKept
<1> DEFINE
  AnswersKept == \A a \in DOMAIN answers :
    /\ a \in DOMAIN answers'
    /\ answers'[a] # answers[a] =>
         /\ answers[a].verdict = "PENDING"
         /\ answers'[a] = [answers[a] EXCEPT !.verdict =
                                               answers'[a].verdict]
  TurnsKept == \A t \in DOMAIN turns :
    /\ t \in DOMAIN turns'
    /\ turns[t].shown # 0 => turns'[t].shown = turns[t].shown
    /\ turns[t].noted => turns'[t] = turns[t]
<1>1. ASSUME IInv, [Next]_vars
      PROVE  AnswersKept /\ TurnsKept
  <2>1. answers \in Seq(Answer) /\ turns \in Seq(Turn)
    BY <1>1 DEF IInv, TypeOK
  <2>2. CASE Untouched
    BY <2>2 DEF Untouched
  <2>3. CASE PromptAdded
    BY <2>1, <2>3 DEF PromptAdded
  <2>4. CASE AnswerAdded
    BY <2>1, <2>4 DEF AnswerAdded
  <2>5. CASE AnswerJudged
    <3>1. PICK a \in DOMAIN answers,
               v \in {"EMPTY", "PASSED", "FAILED_CHECK"} :
            /\ answers' = [answers EXCEPT ![a].verdict = v]
            /\ answers[a].verdict \in {"PENDING", v}
      BY <2>5 DEF AnswerJudged
    <3>2. answers[a] \in Answer
      BY <2>1
    <3>3. /\ DOMAIN answers' = DOMAIN answers
          /\ \A b \in DOMAIN answers \ {a} : answers'[b] = answers[b]
          /\ answers'[a] = [answers[a] EXCEPT !.verdict = v]
      BY <3>1
    <3>4. answers'[a].verdict = v
      BY <3>2, <3>3 DEF Answer
    <3>5. answers[a].verdict = v => answers'[a] = answers[a]
      BY <3>2, <3>3 DEF Answer
    <3>6. AnswersKept
      BY <3>1, <3>3, <3>4, <3>5
    <3> QED
      BY <2>5, <3>6 DEF AnswerJudged
  <2>6. CASE AnswerChosen
    BY <2>1, <2>6 DEF AnswerChosen, Answerable
  <2>7. CASE RecordAdded
    <3>1. PICK t \in DOMAIN turns :
            /\ ~turns[t].noted
            /\ turns' = [turns EXCEPT ![t].noted = TRUE]
      BY <2>7 DEF RecordAdded
    <3>2. turns[t] \in Turn
      BY <2>1
    <3>3. turns'[t].shown = turns[t].shown
      BY <2>1, <3>1, <3>2 DEF Turn
    <3> QED
      BY <2>1, <2>7, <3>1, <3>3 DEF RecordAdded
  <2> QED
    BY <1>1, <2>2, <2>3, <2>4, <2>5, <2>6, <2>7, FileStep
<1>2. IInv /\ [Next]_vars => [AnswersKept /\ TurnsKept]_file
  BY <1>1
<1> QED
  BY <1>2, IInvInit, IInvStep, PTL DEF Spec, RecordsKept
=============================================================================
