----------------------------- MODULE HarnessRun -----------------------------
(***************************************************************************)
(* One question put to several models: the window (ui_chat_actions.c) or   *)
(* the command line (harness_run) writes the prompt down and starts a run, *)
(* the run's own thread (worker, ask_one and check_all in harness.c) asks  *)
(* the models one at a time, has every answer checked and lets the counts  *)
(* pick, and the thread that started it joins it.  All of it is written to *)
(* one SQLite file (session.c), which several copies of the program share. *)
(*                                                                         *)
(* One action per SQL statement that writes or decides, together with the  *)
(* section under run.lock that follows it when nobody else can tell them   *)
(* apart.  A process may be killed between any two actions, and the engine *)
(* may refuse a statement (a full disk, a lock held past the busy timeout).*)
(***************************************************************************)
EXTENDS Integers, Sequences, FiniteSets

CONSTANTS
  Windows,     \* copies of the program showing a window
  Clis,        \* copies run as `gravestone harness <question>`
  Words,       \* the answers with words in them that a model may give
  Sound,       \* those gs_verify_answer finds nothing wrong with
  Rank,        \* Rank[w]: place of w by score, then by shortness; higher wins
  Silence,     \* the answer of a model that gave back nothing
  MaxModels,   \* GS_HARNESS_MODELS
  MaxTurns,    \* bound: prompts ever written
  MaxCrashes,  \* bound: processes killed
  MaxFaults    \* bound: statements refused

ASSUME RunAssumption ==
  /\ Windows \cap Clis = {}
  /\ Sound \subseteq Words
  /\ Silence \notin Words
  /\ Rank \in [Words -> Nat]
  /\ MaxModels \in Nat \ {0}
  /\ MaxTurns \in Nat /\ MaxCrashes \in Nat /\ MaxFaults \in Nat

VARIABLES
  sessions,  \* conversations made so far, numbered 1..sessions
  turns,     \* the turn table, by id
  answers,   \* the answer table, by id
  setting,   \* the setting "chat.session", 0 while there is none
  ui,        \* per process, the thread that asks (gs_ui_state_t)
  run,       \* per process, the static struct run of harness.c
  work,      \* per process, where the run's thread is and what it holds
  faults,    \* statements refused so far
  crashes    \* processes killed so far

file    == <<sessions, turns, answers, setting>>
thread  == <<run, work>>
outside == <<faults, crashes>>
vars    == <<file, ui, thread, outside>>

Procs  == Windows \cup Clis
Texts  == Words \cup {Silence}

Turn   == [session : Nat, ordinal : Nat, shown : Nat, noted : BOOLEAN]
Answer == [turn    : Nat,
           model   : Nat,
           text    : Texts,
           verdict : {"PENDING", "PASSED", "FAILED_CHECK", "EMPTY"}]

\* What the history says under a prompt, and what the header says.
Lines  == {"the answer", "nothing yet", "no answer came back",
           "every answer failed the checking"}
Status == {"", "BUSY", "NO MODEL", "NO SERVER", "STARTING SERVER", "ASKING",
           "CHECKING", "ANSWERED", "NOTHING SURVIVED"}
Ui     == [main : {"off", "idle", "start", "keep", "order", "write", "begin",
                   "reload", "wait"},
           session : Nat, ordinal : Nat, turn : Nat,
           status : Status, panel : Seq(Lines)]
Run    == [running : BOOLEAN, done : BOOLEAN, turn : Nat, count : Nat,
           stage : {"IDLE", "ASKING", "CHECKING", "DONE", "FAILED"},
           answered : Nat, empty : Nat, passed : Nat, shown : Nat]
Work   == [pc : {"none", "load", "ask", "first", "again", "unanswered",
                 "write", "collect", "check", "show", "settle", "note", "end"},
           model : Nat, reply : Texts, unchecked : SUBSET Nat, winner : Nat,
           history : SUBSET Nat]

\* A process that is not running.  turn is the last prompt it wrote down,
\* panel[t] what its history last said under prompt t.
NoUi  == [main |-> "off", session |-> 0, ordinal |-> 0, turn |-> 0,
          status |-> "", panel |-> << >>]
\* Before the first run: no thread, and run.state all noughts.
NoRun  == [running |-> FALSE, done |-> FALSE, turn |-> 0, count |-> 0,
           stage |-> "IDLE", answered |-> 0, empty |-> 0, passed |-> 0,
           shown |-> 0]
NoWork == [pc |-> "none", model |-> 0, reply |-> Silence, unchecked |-> {},
           winner |-> 0, history |-> {}]

-----------------------------------------------------------------------------
(* What the file holds. *)

AnswersTo(t) == {a \in DOMAIN answers : answers[a].turn = t}
PassedFor(t) == {a \in AnswersTo(t) : answers[a].verdict = "PASSED"}

\* Mutant of Judged: the switch in check_all without FAILED_CHECK.
JudgedLeniently(text) == IF text = Silence THEN "EMPTY" ELSE "PASSED"

\* gs_verify_answer and the switch in check_all.
Judged(text) == CASE text = Silence -> "EMPTY"
                  [] text \in Sound -> "PASSED"
                  [] OTHER          -> "FAILED_CHECK"

\* ORDER BY score DESC, LENGTH(text) ASC, sampled_at ASC, id ASC.  The
\* answers of a turn are written one after another, so the last two agree.
Before(a, b) ==
  \/ Rank[answers[a].text] > Rank[answers[b].text]
  \/ Rank[answers[a].text] = Rank[answers[b].text] /\ a < b

\* Mutant of Exchanges: its SELECT without the conversation.
ExchangesOfAll(t) == {u \in 1..(t - 1) : /\ turns[u].shown # 0
                                         /\ answers[turns[u].shown].text
                                              # Silence}

\* gs_session_exchanges: what was shown before turn t in its conversation.
Exchanges(t) == {u \in 1..(t - 1) : /\ turns[u].session = turns[t].session
                                    /\ turns[u].shown # 0
                                    /\ answers[turns[u].shown].text # Silence}

\* The newest of them that fit: the walk stops at the first that does not.
NewestOf(S) == {H \in SUBSET S : \A u \in H, v \in S : u < v => v \in H}

\* gs_ui_chat_reload: what the history of process p comes to say under every
\* prompt in the file.  The one its own run is on has nothing to show yet.
Reload(p, running) ==
  [t \in DOMAIN turns |->
     IF turns[t].shown # 0 THEN "the answer"
     ELSE IF running /\ run[p].turn = t THEN "nothing yet"
     ELSE IF \E a \in AnswersTo(t) : answers[a].text # Silence
          THEN "every answer failed the checking"
     ELSE "no answer came back"]

-----------------------------------------------------------------------------
Init ==
  /\ sessions = 0 /\ turns = << >> /\ answers = << >> /\ setting = 0
  /\ ui = [p \in Procs |-> NoUi]
  /\ run = [p \in Procs |-> NoRun]
  /\ work = [p \in Procs |-> NoWork]
  /\ faults = 0 /\ crashes = 0

\* The engine takes a statement, or refuses it.
Taken   == UNCHANGED outside
Refused == faults < MaxFaults /\ faults' = faults + 1 /\ UNCHANGED crashes

-----------------------------------------------------------------------------
(* The thread that asks. *)

\* gs_ui_chat_resume: the window's own conversation, else the one written
\* to last.  Times are not kept here, so that may be any of them.
Open(p) ==
  /\ p \in Windows /\ ui[p].main = "off"
  /\ \E s \in 0..sessions :
       /\ setting \in 1..sessions => s = setting
       /\ s = 0 => sessions = 0
       /\ ui' = [ui EXCEPT ![p] = [@ EXCEPT !.main = "idle", !.session = s,
                                            !.panel = Reload(p, FALSE)]]
  /\ UNCHANGED <<file, thread, outside>>

\* Prompts on their way to the turn table.
Sending == {p \in Procs : ui[p].main \in {"start", "keep", "order", "write"}}
Room    == Cardinality(Sending) + Len(turns) < MaxTurns

\* gs_ui_chat_send with a prompt in the box, up to its first statement.
Send(p) ==
  /\ p \in Windows /\ ui[p].main = "idle" /\ ~run[p].running /\ Room
  /\ ui' = [ui EXCEPT ![p].main = IF ui[p].session = 0 THEN "start"
                                                       ELSE "order"]
  /\ UNCHANGED <<file, thread, outside>>

\* While a run is going it is refused and the words stay in the box.
SendBusy(p) ==
  /\ p \in Windows /\ ui[p].main = "idle" /\ run[p].running
  /\ ui' = [ui EXCEPT ![p].status = "BUSY"]
  /\ UNCHANGED <<file, thread, outside>>

\* harness_run, up to its first statement.
Ask(p) ==
  /\ p \in Clis /\ ui[p].main = "off" /\ Room
  /\ ui' = [ui EXCEPT ![p].main = "start"]
  /\ UNCHANGED <<file, thread, outside>>

\* Where the asking thread goes when a call it makes fails: the window
\* keeps the prompt in its box, the command line prints a line and ends.
GivenUp(p) == IF p \in Windows THEN [ui[p] EXCEPT !.main = "idle"] ELSE NoUi

\* The engine refuses the statement the asking thread needed.
Fails(p) == ui' = [ui EXCEPT ![p] = GivenUp(p)] /\ Refused

\* gs_session_start.
StartSession(p) ==
  /\ ui[p].main = "start"
  /\ \/ /\ sessions' = sessions + 1
        /\ \E next \in {"keep", "order"} :
             /\ next = "keep" <=> p \in Windows
             /\ ui' = [ui EXCEPT ![p] = [@ EXCEPT !.session = sessions + 1,
                                                  !.main = next]]
        /\ Taken
     \/ Fails(p) /\ UNCHANGED sessions
  /\ UNCHANGED <<turns, answers, setting, thread>>

\* gs_store_setting_put of GS_UI_KEY_CHAT, whose failure is ignored.
KeepSession(p) ==
  /\ ui[p].main = "keep"
  /\ ui' = [ui EXCEPT ![p].main = "order"]
  /\ \/ setting' = ui[p].session /\ Taken
     \/ UNCHANGED setting /\ Refused
  /\ UNCHANGED <<sessions, turns, answers, thread>>

\* The place after every prompt of conversation s there is.
IsNext(n, s) ==
  LET taken == {turns[t].ordinal : t \in {u \in DOMAIN turns :
                                            turns[u].session = s}}
  IN  (\A o \in taken : o < n) /\ (n = 1 \/ n - 1 \in taken)

\* gs_session_add_turn reads the next place in the conversation; a SELECT
\* that will not step leaves the 1 it started with, and one that will not
\* prepare ends the call.
ReadOrdinal(p) ==
  /\ ui[p].main = "order"
  /\ \/ \E n \in 1..(Len(turns) + 1) :
          /\ \/ IsNext(n, ui[p].session) /\ Taken
             \/ n = 1 /\ Refused
          /\ ui' = [ui EXCEPT ![p] = [@ EXCEPT !.main = "write",
                                               !.ordinal = n]]
     \/ Fails(p)
  /\ UNCHANGED <<file, thread>>

\* The prompt it adds.
Prompt(p) == [session |-> ui[p].session, ordinal |-> ui[p].ordinal,
              shown |-> 0, noted |-> FALSE]

\* It writes the prompt there.  The id comes out of the INSERT itself.
InsertTurn(p) ==
  /\ ui[p].main = "write"
  /\ \/ /\ turns' = Append(turns, Prompt(p))
        /\ ui' = [ui EXCEPT ![p] = [@ EXCEPT !.main = "begin",
                                             !.turn = Len(turns) + 1]]
        /\ Taken
     \/ Fails(p) /\ UNCHANGED turns
  /\ UNCHANGED <<sessions, answers, setting, thread>>

\* Mutant of Begin: the prompt is taken to be the newest row of the table.
BeginNewest(p) ==
  /\ ui[p].main = "begin" /\ ~run[p].running
  /\ \E n \in 1..MaxModels :
       run' = [run EXCEPT ![p] = [NoRun EXCEPT !.running = TRUE,
                                               !.turn = Len(turns),
                                               !.count = n]]
  /\ work' = [work EXCEPT ![p] = [NoWork EXCEPT !.pc = "load"]]
  /\ ui' = [ui EXCEPT ![p].main = IF p \in Windows THEN "reload" ELSE "wait"]
  /\ UNCHANGED <<file, outside>>

\* gs_harness_begin: a thread for the n models picked ...
Begin(p) ==
  /\ ui[p].main = "begin" /\ ~run[p].running
  /\ \E n \in 1..MaxModels :
       run' = [run EXCEPT ![p] = [NoRun EXCEPT !.running = TRUE,
                                               !.turn = ui[p].turn,
                                               !.count = n]]
  /\ work' = [work EXCEPT ![p] = [NoWork EXCEPT !.pc = "load"]]
  /\ ui' = [ui EXCEPT ![p].main = IF p \in Windows THEN "reload" ELSE "wait"]
  /\ UNCHANGED <<file, outside>>

\* ... or none, when no ticked model is usable or no server is answering.
NotBegun(p) ==
  /\ ui[p].main = "begin"
  /\ \/ /\ p \in Windows
        /\ \E why \in {"NO MODEL", "NO SERVER", "STARTING SERVER"} :
             ui' = [ui EXCEPT ![p] = [@ EXCEPT !.main = "reload",
                                               !.status = why]]
     \/ p \in Clis /\ ui' = [ui EXCEPT ![p] = NoUi]
  /\ UNCHANGED <<file, thread, outside>>

\* What the window's loop does after a prompt was taken.
ReloadSent(p) ==
  /\ ui[p].main = "reload"
  /\ ui' = [ui EXCEPT ![p] = [@ EXCEPT !.main = "idle",
                                       !.panel = Reload(p, run[p].running)]]
  /\ UNCHANGED <<file, thread, outside>>

\* Mutant of Watch: any stage is put up as it is read.
WatchAny(p) ==
  /\ ui[p].main = "idle" /\ run[p].running /\ ~run[p].done
  /\ ui' = [ui EXCEPT ![p].status = run[p].stage]
  /\ UNCHANGED <<file, thread, outside>>

\* gs_ui_harness_poll while the run goes on: the header says how far it is,
\* unless it says that a prompt was refused.
Watch(p) ==
  /\ ui[p].main = "idle" /\ run[p].running /\ ~run[p].done
  /\ run[p].stage \in {"ASKING", "CHECKING"} /\ ui[p].status # "BUSY"
  /\ ui' = [ui EXCEPT ![p].status = run[p].stage]
  /\ UNCHANGED <<file, thread, outside>>

\* Mutant of Poll: it looks away while the header says a prompt was refused.
PollUnlessBusy(p) ==
  /\ ui[p].main = "idle" /\ run[p].running /\ run[p].done
  /\ ui[p].status # "BUSY"
  /\ run' = [run EXCEPT ![p].running = FALSE]
  /\ ui' = [ui EXCEPT ![p] =
            [@ EXCEPT !.panel = Reload(p, FALSE),
                      !.status = IF run[p].stage = "DONE"
                                 THEN "ANSWERED" ELSE "NOTHING SURVIVED"]]
  /\ UNCHANGED <<file, work, outside>>

\* Mutant of Poll: the history is read before the run is let go of.
PollReadFirst(p) ==
  /\ ui[p].main = "idle" /\ run[p].running /\ run[p].done
  /\ run' = [run EXCEPT ![p].running = FALSE]
  /\ ui' = [ui EXCEPT ![p] =
            [@ EXCEPT !.panel = Reload(p, TRUE),
                      !.status = IF run[p].stage = "DONE"
                                 THEN "ANSWERED" ELSE "NOTHING SURVIVED"]]
  /\ UNCHANGED <<file, work, outside>>

\* gs_ui_harness_poll once it has ended: joined, the history read again, and
\* the outcome put up.
Poll(p) ==
  /\ ui[p].main = "idle" /\ run[p].running /\ run[p].done
  /\ run' = [run EXCEPT ![p].running = FALSE]
  /\ ui' = [ui EXCEPT ![p] =
            [@ EXCEPT !.panel = Reload(p, FALSE),
                      !.status = IF run[p].stage = "DONE"
                                 THEN "ANSWERED" ELSE "NOTHING SURVIVED"]]
  /\ UNCHANGED <<file, work, outside>>

\* The window's loop is left, by the close button or a stop signal.
Close(p) ==
  /\ p \in Windows /\ ui[p].main = "idle"
  /\ ui' = [ui EXCEPT ![p].main = "wait"]
  /\ UNCHANGED <<file, thread, outside>>

\* The process is gone, and everything it held in memory.
Gone(p) ==
  /\ ui'   = [ui   EXCEPT ![p] = NoUi]
  /\ run'  = [run  EXCEPT ![p] = NoRun]
  /\ work' = [work EXCEPT ![p] = NoWork]

\* Mutant of WaitRun: it waits for the poll that only the loop made.
WaitForPoll(p) ==
  /\ ui[p].main = "wait" /\ ~run[p].running
  /\ Gone(p)
  /\ UNCHANGED <<file, outside>>

\* gs_harness_wait, and the end of the process after it.
WaitRun(p) ==
  /\ ui[p].main = "wait" /\ (run[p].running => run[p].done)
  /\ Gone(p)
  /\ UNCHANGED <<file, outside>>

\* The process is killed, and the file is as its threads left it.
Crash(p) ==
  /\ ui[p].main # "off" /\ crashes < MaxCrashes
  /\ crashes' = crashes + 1
  /\ Gone(p)
  /\ UNCHANGED <<file, faults>>

-----------------------------------------------------------------------------
(* The run's thread. *)

\* gs_harness_history_load.
LoadHistory(p) ==
  /\ work[p].pc = "load"
  /\ \E H \in NewestOf(Exchanges(run[p].turn)) :
       work' = [work EXCEPT ![p] = [@ EXCEPT !.history = H, !.model = 1,
                                             !.pc = "ask"]]
  /\ UNCHANGED <<file, ui, run, outside>>

\* ask_one up to gs_provider_ask_full.
AskModel(p) ==
  /\ work[p].pc = "ask"
  /\ run' = [run EXCEPT ![p].stage = "ASKING"]
  /\ work' = [work EXCEPT ![p].pc = "first"]
  /\ UNCHANGED <<file, ui, outside>>

\* A model gives words, or nothing, or the request fails.
Replies(p) ==
  \/ \E t \in Texts :
       work' = [work EXCEPT ![p] = [@ EXCEPT !.reply = t, !.pc = "write"]]
  \/ work' = [work EXCEPT ![p].pc = "unanswered"]

\* The model's first try, or it ran out of its allowance, with or without
\* words, and is asked again.
FirstReply(p) ==
  /\ work[p].pc = "first"
  /\ Replies(p) \/ work' = [work EXCEPT ![p].pc = "again"]
  /\ UNCHANGED <<file, ui, run, outside>>

\* The second try is taken as it comes, marked if it is cut short too.  What
\* the first one held was cleared before it.
SecondReply(p) ==
  /\ work[p].pc = "again"
  /\ Replies(p)
  /\ UNCHANGED <<file, ui, run, outside>>

\* The loop in worker: the next model, or the checking.
Onwards(p) ==
  \/ /\ work[p].model < run[p].count
     /\ work' = [work EXCEPT ![p] = [work[p] EXCEPT !.reply = Silence,
                                                    !.model = @ + 1,
                                                    !.pc = "ask"]]
  \/ /\ work[p].model >= run[p].count
     /\ work' = [work EXCEPT ![p] = [@ EXCEPT !.reply = Silence,
                                              !.pc = "collect"]]

\* Mutant of Row: it is written against the newest prompt of the table.
RowOfNewest(p, text) ==
  [turn |-> Len(turns), model |-> work[p].model, text |-> text,
   verdict |-> IF text = Silence THEN "EMPTY" ELSE "PENDING"]

\* The row of the answer table a model's answer, or its silence, becomes.
Row(p, text) == [turn |-> run[p].turn, model |-> work[p].model, text |-> text,
                 verdict |-> IF text = Silence THEN "EMPTY" ELSE "PENDING"]

\* Mutant of Unanswered: a model that did not answer leaves no row.
UnansweredUnwritten(p) ==
  /\ work[p].pc = "unanswered"
  /\ run' = [run EXCEPT ![p].empty = @ + 1]
  /\ Onwards(p)
  /\ UNCHANGED <<file, ui, outside>>

\* A model that did not answer leaves a row with no words in it.  Whether
\* the row was taken is not looked at.
Unanswered(p) ==
  /\ work[p].pc = "unanswered"
  /\ \/ answers' = Append(answers, Row(p, Silence)) /\ Taken
     \/ UNCHANGED answers /\ Refused
  /\ run' = [run EXCEPT ![p].empty = @ + 1]
  /\ Onwards(p)
  /\ UNCHANGED <<sessions, turns, setting, ui>>

\* gs_session_add_answer; one that could not be written down is not counted.
WriteAnswer(p) ==
  /\ work[p].pc = "write"
  /\ \/ /\ answers' = Append(answers, Row(p, work[p].reply))
        /\ \E n \in {0, 1} :
             /\ n = 1 <=> work[p].reply = Silence
             /\ run' = [run EXCEPT ![p] = [run[p] EXCEPT !.answered = @ + 1,
                                                          !.empty = @ + n]]
        /\ Taken
     \/ UNCHANGED <<answers, run>> /\ Refused
  /\ Onwards(p)
  /\ UNCHANGED <<sessions, turns, setting, ui>>

\* check_all reads the answers of the turn, oldest first; a refusal ends the
\* reading where it happens.
Collect(p) ==
  /\ work[p].pc = "collect"
  /\ run' = [run EXCEPT ![p].stage = "CHECKING"]
  /\ \E S \in SUBSET AnswersTo(run[p].turn) :
       /\ \/ S = AnswersTo(run[p].turn) /\ Taken
          \/ /\ \A a \in S, b \in AnswersTo(run[p].turn) : b < a => b \in S
             /\ Refused
       /\ work' = [work EXCEPT ![p] = [@ EXCEPT !.unchecked = S,
                                                !.pc = "check"]]
  /\ UNCHANGED <<file, ui>>

\* gs_session_judge for the next of them.  Its failure is not looked at, so
\* the count of those that passed goes up either way.
Judge(p) ==
  /\ work[p].pc = "check"
  /\ \E a \in work[p].unchecked :
       /\ \A b \in work[p].unchecked : a <= b
       /\ \/ /\ answers' = [answers EXCEPT ![a].verdict =
                                               Judged(answers[a].text)]
             /\ Taken
          \/ UNCHANGED answers /\ Refused
       /\ work' = [work EXCEPT ![p].unchecked = @ \ {a}]
       /\ \E n \in {0, 1} :
            /\ n = 1 <=> Judged(answers[a].text) = "PASSED"
            /\ run' = [run EXCEPT ![p].passed = @ + n]
  /\ UNCHANGED <<sessions, turns, setting, ui>>

\* Mutant of Best: the order of the SELECT turned round.
Worst(t) == {a \in PassedFor(t) : \A b \in PassedFor(t) \ {a} : Before(b, a)}

\* gs_session_pick reads the best of those that passed.
Best(t) == {a \in PassedFor(t) : \A b \in PassedFor(t) \ {a} : Before(a, b)}

Pick(p) ==
  /\ work[p].pc = "check" /\ work[p].unchecked = {}
  /\ \/ /\ \E a \in Best(run[p].turn) :
             work' = [work EXCEPT ![p] = [@ EXCEPT !.winner = a,
                                                   !.pc = "show"]]
        /\ Taken
     \/ /\ work' = [work EXCEPT ![p].pc = "settle"]
        /\ \/ PassedFor(run[p].turn) = {} /\ Taken
           \/ Refused
  /\ UNCHANGED <<file, ui, run>>

\* gs_session_show, which puts up an answer of the turn's own and no other;
\* where it fails nothing is shown.
Show(p) ==
  /\ work[p].pc = "show"
  /\ \/ /\ answers[work[p].winner].turn = run[p].turn
        /\ turns' = [turns EXCEPT ![run[p].turn].shown = work[p].winner]
        /\ work' = [work EXCEPT ![p].pc = "settle"]
        /\ Taken
     \/ /\ work' = [work EXCEPT ![p] = [@ EXCEPT !.winner = 0,
                                                 !.pc = "settle"]]
        /\ UNCHANGED turns
        /\ \/ answers[work[p].winner].turn # run[p].turn /\ Taken
           \/ Refused
  /\ UNCHANGED <<sessions, answers, setting, ui, run>>

\* Mutant of Settle: the run is over without its record.
SettleUnnoted(p) ==
  /\ work[p].pc = "settle"
  /\ run' = [run EXCEPT ![p] =
             [@ EXCEPT !.shown = work[p].winner,
                       !.stage = IF work[p].winner # 0 THEN "DONE"
                                                       ELSE "FAILED"]]
  /\ work' = [work EXCEPT ![p].pc = "end"]
  /\ UNCHANGED <<file, ui, outside>>

\* worker says how it ended.
Settle(p) ==
  /\ work[p].pc = "settle"
  /\ run' = [run EXCEPT ![p] =
             [@ EXCEPT !.shown = work[p].winner,
                       !.stage = IF work[p].winner # 0 THEN "DONE"
                                                       ELSE "FAILED"]]
  /\ work' = [work EXCEPT ![p].pc = "note"]
  /\ UNCHANGED <<file, ui, outside>>

\* Mutant of Note: the row is replaced, and its choice lost with it.
NoteReplacing(p) ==
  /\ work[p].pc = "note"
  /\ turns' = [turns EXCEPT ![run[p].turn].noted = TRUE,
                            ![run[p].turn].shown = 0]
  /\ work' = [work EXCEPT ![p].pc = "end"]
  /\ UNCHANGED <<sessions, answers, setting, ui, run, outside>>

\* gs_session_note, whose failure is only logged.
Note(p) ==
  /\ work[p].pc = "note"
  /\ \/ turns' = [turns EXCEPT ![run[p].turn].noted = TRUE] /\ Taken
     \/ UNCHANGED turns /\ Refused
  /\ work' = [work EXCEPT ![p].pc = "end"]
  /\ UNCHANGED <<sessions, answers, setting, ui, run>>

\* atomic_store(&run.done, 1), the last thing the thread does: what was its
\* own is gone with it.
Finish(p) ==
  /\ work[p].pc = "end"
  /\ run' = [run EXCEPT ![p].done = TRUE]
  /\ work' = [work EXCEPT ![p] = NoWork]
  /\ UNCHANGED <<file, ui, outside>>

-----------------------------------------------------------------------------
Front(p) ==
  \/ StartSession(p) \/ KeepSession(p) \/ ReadOrdinal(p) \/ InsertTurn(p)
  \/ Begin(p) \/ NotBegun(p) \/ ReloadSent(p) \/ Watch(p)
  \/ Poll(p) \/ WaitRun(p)

Person(p) == Open(p) \/ Send(p) \/ SendBusy(p) \/ Ask(p) \/ Close(p)

Worker(p) ==
  \/ LoadHistory(p) \/ AskModel(p) \/ FirstReply(p) \/ SecondReply(p)
  \/ Unanswered(p) \/ WriteAnswer(p) \/ Collect(p) \/ Judge(p) \/ Pick(p)
  \/ Show(p) \/ Settle(p) \/ Note(p) \/ Finish(p)

Next == \E p \in Procs : Front(p) \/ Person(p) \/ Worker(p) \/ Crash(p)

Spec == Init /\ [][Next]_vars

\* The operating system schedules both threads, and a model that was asked
\* answers or fails: every read of the reply is given up after 600 seconds
\* (SO_RCVTIMEO in http.c) and its length is bounded by the allowance.  No
\* person has to send, open or close anything.
Fairness == \A p \in Procs : WF_vars(Front(p)) /\ WF_vars(Worker(p))

FairSpec == Spec /\ Fairness

-----------------------------------------------------------------------------
(* What makes it right. *)

\* Every variable holds values of its own kind: the header only says what the
\* window has words for, and no count of a run goes below nought.
TypeOK ==
  /\ sessions \in Nat /\ setting \in Nat
  /\ faults \in Nat /\ crashes \in Nat
  /\ turns \in Seq(Turn) /\ answers \in Seq(Answer)
  /\ ui \in [Procs -> Ui] /\ run \in [Procs -> Run]
  /\ work \in [Procs -> Work]

\* The words shown under a prompt were collected for that prompt, are not
\* empty, and were judged to have passed, whatever was refused or killed.
ShownIsChecked ==
  \A t \in DOMAIN turns : turns[t].shown # 0 =>
    /\ turns[t].shown \in PassedFor(t)
    /\ answers[turns[t].shown].text \in Sound

\* No answer that passed the checking for that prompt comes before it in the
\* order gs_session_pick gives: nothing passes after the choice was made.
ShownIsBest ==
  \A t \in DOMAIN turns : turns[t].shown # 0 =>
    \A a \in PassedFor(t) \ {turns[t].shown} : Before(turns[t].shown, a)

\* Two runs never work on one prompt, in one process or in two: the id a run
\* is given is that of the row its own INSERT wrote.
RunsApart ==
  \A p, q \in Procs :
    p # q /\ run[p].running /\ run[q].running => run[p].turn # run[q].turn

\* Once run.done can be read, the run has settled what is shown, the record
\* behind the prompt is in the file, and the worker touches neither again.
DoneIsRecorded ==
  \A p \in Procs : run[p].running /\ run[p].done =>
    /\ run[p].stage \in {"DONE", "FAILED"}
    /\ run[p].stage = "DONE" <=> turns[run[p].turn].shown # 0
    /\ run[p].shown = turns[run[p].turn].shown
    /\ turns[run[p].turn].noted \/ faults > 0

\* Unless a statement was refused, a run that ended has one row for every
\* model it was given, answered or not, and its counts agree with the rows.
EveryModelAccounted ==
  \A p \in Procs : run[p].running /\ run[p].done /\ faults = 0 =>
    LET rows == AnswersTo(run[p].turn)
    IN  /\ Cardinality(rows) = run[p].count
        /\ \A m \in 1..run[p].count : \E a \in rows : answers[a].model = m
        /\ run[p].passed = Cardinality(PassedFor(run[p].turn))
        /\ run[p].empty = Cardinality({a \in rows :
                                         answers[a].text = Silence})

\* What a model is told was said before comes from earlier prompts of the
\* same conversation, each with the answer the checking let through.
HistoryIsChecked ==
  \A p \in Procs : run[p].running => \A u \in work[p].history :
    /\ u < run[p].turn
    /\ turns[u].session = turns[run[p].turn].session
    /\ turns[u].shown \in PassedFor(u)

\* The header of a window with no run going and the history under it say
\* the same: ANSWERED when the prompt last sent has an answer under it, and
\* NOTHING SURVIVED, unless a statement was refused, only when none of its
\* answers passed.  No prompt is left looking as if it were still thinking.
HeaderAgrees ==
  \A p \in Windows : ui[p].main = "idle" /\ ~run[p].running =>
    LET line == ui[p].panel
        t    == ui[p].turn
    IN  /\ ui[p].status = "ANSWERED" => line[t] = "the answer"
        /\ ui[p].status = "NOTHING SURVIVED" =>
             line[t] # "the answer" /\ (faults = 0 => PassedFor(t) = {})
        /\ \A u \in DOMAIN line : line[u] # "nothing yet"

\* What was collected stays as it was: a row is never rewritten except by
\* the checking, which decides once, and a choice once made is kept.
RecordsKept ==
  [][/\ \A a \in DOMAIN answers :
          /\ a \in DOMAIN answers'
          /\ answers'[a] # answers[a] =>
               /\ answers[a].verdict = "PENDING"
               /\ answers'[a] = [answers[a] EXCEPT !.verdict =
                                                     answers'[a].verdict]
     /\ \A t \in DOMAIN turns :
          /\ t \in DOMAIN turns'
          /\ turns[t].shown # 0 => turns'[t].shown = turns[t].shown
          /\ turns[t].noted => turns'[t] = turns[t]]_file

\* A run that was started comes to its end and is let go of, and a window
\* that was closed, or a question from the command line, ends.
EveryRunEnds == \A p \in Procs : run[p].running ~> ~run[p].running
EveryWaitEnds == \A p \in Procs : ui[p].main = "wait" ~> ui[p].main = "off"

\* "saying no answer came back while the model is thinking would be false"
\* (gs_ui_chat_reload): no window says so of a prompt some run is still on.
NotFalseWhileThinking ==
  \A p \in Windows, q \in Procs :
    run[q].running /\ ~run[q].done /\ run[q].turn \in DOMAIN ui[p].panel =>
      ui[p].panel[run[q].turn] # "no answer came back"

\* "a second copy of the program cannot write two turns into the same place"
\* (gs_session_add_turn): no two prompts of a conversation share a place.
PlacesApart ==
  \A t, u \in DOMAIN turns :
    t # u /\ turns[t].session = turns[u].session =>
      turns[t].ordinal # turns[u].ordinal

\* The file keeps the promise of TurnLife: prompts are only added, an answer
\* is collected only while nothing was chosen for its prompt and its record
\* is not in, one of the prompt's own answers is chosen at most once, and
\* the record comes last.
Lives == [t \in DOMAIN turns |-> [given |-> AnswersTo(t),
                                  shown |-> turns[t].shown,
                                  noted |-> turns[t].noted]]
Life  == INSTANCE TurnLife WITH life <- Lives, written <- Len(answers)
KeepsTurnLife == Life!Spec
=============================================================================
