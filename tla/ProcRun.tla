------------------------------ MODULE ProcRun ------------------------------
(***************************************************************************)
(* How the program runs other programs (lib/proc/proc.c): with their words *)
(* kept and a deadline (gs_proc_run, gs_proc_run_input), through the shell *)
(* with no deadline (gs_proc_capture, gs_proc_reason), and started and     *)
(* left alone (gs_proc_spawn).  Several threads do so at the same time:    *)
(* the one that watches the drives, the one that removes or pulls a model, *)
(* and the window's own.  A pipe made for one of them is open in the       *)
(* program that another one starts in the meantime.                        *)
(***************************************************************************)
EXTENDS Naturals, FiniteSets

CONSTANTS
  Threads,   \* the threads that run programs, at most one at a time each
  Uses,      \* per thread, which of the calls it makes
  Server,    \* the one program that is started and left alone
  PipeRoom,  \* what a pipe holds before the writer has to wait
  Room       \* what the caller has room for

Forms  == {"run", "input", "capture", "reason", "spawn"}
Timed  == {"run", "input"}      \* those with a deadline
Shells == {"capture", "reason"} \* those through the shell

ASSUME ProcAssumption ==
  /\ Server \notin Threads
  /\ Uses \in [Threads -> SUBSET Forms]
  /\ PipeRoom \in Nat \ {0} /\ Room \in Nat \ {0}

VARIABLES
  form,    \* the call the thread made last
  pc,      \* where it is in it
  result,  \* what the last call returned, or "none" before and during one
  code,    \* the exit number it told
  kept,    \* how much of what was written is in the answer
  due,     \* the deadline has passed
  cut,     \* the program was stopped at the deadline
  ear,     \* the reading end of the channel is open
  mouth,   \* this process still has the writing end open
  feed,    \* the pipe to the program's input
  chan,    \* what is in the channel
  holds,   \* the programs that have the writing end open
  prog,    \* the program the thread runs
  killed,  \* it was told to stop at once
  wrote,   \* how much it has written, as far as it can matter
  server   \* the program left alone

answer  == <<form, result, code, kept>>
clock   == <<due, cut>>
ends    == <<ear, mouth, feed>>
program == <<prog, killed, wrote>>
vars    == <<answer, pc, clock, ends, chan, holds, program, server>>

Alive == {"runs", "stuck"}
Ended == {"zero", "other", "signal"}

TypeOK ==
  /\ form \in [Threads -> Forms \cup {"none"}]
  /\ pc \in [Threads -> {"idle", "open", "forked", "poll", "reap"}]
  /\ result \in [Threads -> {"none", "OK", "ERR", "IO"}]
  /\ code \in [Threads -> {"none", "zero", "other"}]
  /\ kept \in [Threads -> 0 .. Room]
  /\ due \in [Threads -> BOOLEAN] /\ cut \in [Threads -> BOOLEAN]
  /\ ear \in [Threads -> BOOLEAN] /\ mouth \in [Threads -> BOOLEAN]
  /\ feed \in [Threads -> {"none", "open", "shut"}]
  /\ chan \in [Threads -> 0 .. PipeRoom]
  /\ holds \in [Threads -> SUBSET (Threads \cup {Server})]
  /\ prog \in [Threads -> Alive \cup Ended \cup {"none"}]
  /\ killed \in [Threads -> BOOLEAN]
  /\ wrote \in [Threads -> 0 .. Room + 1]
  /\ server \in {"none", "runs"}

-----------------------------------------------------------------------------
Least(a, b) == IF a < b THEN a ELSE b

\* Mutant of Gets: the room left in the answer is not looked at.
GetsAll(t) == chan[t]

\* Of what lies in the channel, what one read takes into the answer.
Gets(t) == Least(chan[t], Room - kept[t])

\* fork: whatever is started now has every pipe open whose writing end this
\* process has not closed yet.  (popen marks its own pipe to be closed.)
Inherit(x) == [u \in Threads |-> IF mouth[u] THEN holds[u] \cup {x} ELSE holds[u]]

\* A program that ends lets go of every pipe.
LetGo(x) == [u \in Threads |-> holds[u] \ {x}]

\* Nothing is left to read and nobody is left who could write.
AtEof(t) == chan[t] = 0 /\ ~mouth[t] /\ holds[t] = {}

Put(f, t, v) == [f EXCEPT ![t] = v]

Init ==
  /\ form = [t \in Threads |-> "none"] /\ pc = [t \in Threads |-> "idle"]
  /\ result = [t \in Threads |-> "none"] /\ code = [t \in Threads |-> "none"]
  /\ kept = [t \in Threads |-> 0]
  /\ due = [t \in Threads |-> FALSE] /\ cut = [t \in Threads |-> FALSE]
  /\ ear = [t \in Threads |-> FALSE] /\ mouth = [t \in Threads |-> FALSE]
  /\ feed = [t \in Threads |-> "none"]
  /\ chan = [t \in Threads |-> 0] /\ holds = [t \in Threads |-> {}]
  /\ prog = [t \in Threads |-> "none"] /\ killed = [t \in Threads |-> FALSE]
  /\ wrote = [t \in Threads |-> 0] /\ server = "none"

\* The answer and the exit number are cleared before anything is tried.
Starts(t, f) ==
  /\ pc[t] = "idle" /\ f \in Uses[t]
  /\ form' = Put(form, t, f)
  /\ code' = Put(code, t, "none") /\ kept' = Put(kept, t, 0)
  /\ due' = Put(due, t, FALSE) /\ cut' = Put(cut, t, FALSE)

\* gs_proc_run, gs_proc_run_input: the pipes are made ...
Begin(t) ==
  \E f \in Timed :
    /\ Starts(t, f)
    /\ pc' = Put(pc, t, "open") /\ result' = Put(result, t, "none")
    /\ ear' = Put(ear, t, TRUE) /\ mouth' = Put(mouth, t, TRUE)
    /\ feed' = Put(feed, t, IF f = "input" THEN "open" ELSE "none")
    /\ chan' = Put(chan, t, 0) /\ holds' = Put(holds, t, {})
    /\ wrote' = Put(wrote, t, 0)
    /\ UNCHANGED <<prog, killed, server>>

\* ... or there is none to be had, or no process, for any of the calls.
NoPipe(t) ==
  \E f \in Forms :
    /\ Starts(t, f)
    /\ result' = Put(result, t, "IO")
    /\ UNCHANGED <<pc, ends, chan, holds, program, server>>

Fork(t) ==
  /\ pc[t] = "open"
  /\ pc' = Put(pc, t, "forked")
  /\ holds' = Inherit(t)
  /\ prog' = Put(prog, t, "runs") /\ killed' = Put(killed, t, FALSE)
  /\ UNCHANGED <<answer, clock, ends, chan, wrote, server>>

\* Mutant of NoFork: the pipes made for it stay open.
NoForkLeaves(t) ==
  /\ pc[t] = "open"
  /\ pc' = Put(pc, t, "idle") /\ result' = Put(result, t, "IO")
  /\ UNCHANGED <<form, code, kept, clock, ends, chan, holds, program, server>>

NoFork(t) ==
  /\ pc[t] = "open"
  /\ pc' = Put(pc, t, "idle") /\ result' = Put(result, t, "IO")
  /\ ear' = Put(ear, t, FALSE) /\ mouth' = Put(mouth, t, FALSE)
  /\ feed' = Put(feed, t, "none")
  /\ UNCHANGED <<form, code, kept, clock, chan, holds, program, server>>

\* The writing end is the program's alone, and the clock runs.
CloseMouth(t) ==
  /\ pc[t] = "forked"
  /\ pc' = Put(pc, t, "poll") /\ mouth' = Put(mouth, t, FALSE)
  /\ UNCHANGED <<answer, clock, ear, feed, chan, holds, program, server>>

\* popen, which starts the shell at once.
Capture(t) ==
  \E f \in Shells :
    /\ Starts(t, f)
    /\ pc' = Put(pc, t, "poll") /\ result' = Put(result, t, "none")
    /\ ear' = Put(ear, t, TRUE) /\ feed' = Put(feed, t, "none")
    /\ chan' = Put(chan, t, 0)
    /\ holds' = [Inherit(t) EXCEPT ![t] = {t}]
    /\ prog' = Put(prog, t, "runs") /\ killed' = Put(killed, t, FALSE)
    /\ wrote' = Put(wrote, t, 0)
    /\ UNCHANGED <<mouth, server>>

\* gs_proc_spawn: the one in the middle is waited for and that it could not
\* start the program is not looked at.  Bound: one such program at a time.
Spawn(t) ==
  /\ Starts(t, "spawn") /\ server = "none"
  /\ result' = Put(result, t, "OK")
  /\ \/ server' = "runs" /\ holds' = Inherit(Server)
     \/ UNCHANGED <<server, holds>>
  /\ UNCHANGED <<pc, ends, chan, program>>

-----------------------------------------------------------------------------
(* The loop that reads, and what ends it. *)

\* What is typed is written whole, being shorter than a pipe, or the program
\* is gone; either way its input is at an end.
Feed(t) ==
  /\ pc[t] = "poll" /\ feed[t] = "open"
  /\ feed' = Put(feed, t, "shut")
  /\ UNCHANGED <<answer, pc, clock, ear, mouth, chan, holds, program, server>>

Reading(t) == pc[t] = "poll" /\ feed[t] # "open"

Take(t) ==
  /\ Reading(t) /\ chan[t] > 0 /\ kept[t] < Room
  /\ kept' = Put(kept, t, kept[t] + Gets(t))
  /\ chan' = Put(chan, t, chan[t] - Gets(t))
  /\ UNCHANGED <<form, result, code, pc, clock, ends, holds, program, server>>

\* Mutant of Drain: what follows is left where it is, as pclose does.
DrainNot(t) ==
  /\ Reading(t) /\ form[t] \in Timed /\ chan[t] > 0 /\ kept[t] = Room
  /\ UNCHANGED vars

\* The answer is full: what follows is read and thrown away.
Drain(t) ==
  /\ Reading(t) /\ form[t] \in Timed /\ chan[t] > 0 /\ kept[t] = Room
  /\ chan' = Put(chan, t, 0)
  /\ UNCHANGED <<answer, pc, clock, ends, holds, program, server>>

\* The ends that are still open are closed, and the program is waited for.
Leaves(t) ==
  /\ pc' = Put(pc, t, "reap")
  /\ ear' = Put(ear, t, FALSE)
  /\ feed' = Put(feed, t, IF feed[t] = "open" THEN "shut" ELSE feed[t])
  /\ chan' = Put(chan, t, 0)
  /\ UNCHANGED <<answer, due, mouth, holds, prog, wrote, server>>

\* The shell's answer is full: nothing more is read.
Full(t) ==
  /\ Reading(t) /\ form[t] \in Shells /\ chan[t] > 0 /\ kept[t] = Room
  /\ Leaves(t) /\ UNCHANGED <<cut, killed>>

\* Mutant of Eof: the program has ended, and what it left in the pipe is
\* not asked for.
EofEarly(t) ==
  /\ Reading(t) /\ (AtEof(t) \/ prog[t] \in Ended)
  /\ Leaves(t) /\ UNCHANGED <<cut, killed>>

Eof(t) ==
  /\ Reading(t) /\ AtEof(t)
  /\ Leaves(t) /\ UNCHANGED <<cut, killed>>

\* Mutant of Late: the deadline is an end like another, and nothing is killed.
LateKillsNot(t) ==
  /\ Reading(t) /\ form[t] \in Timed /\ due[t]
  /\ chan[t] = 0 /\ ~AtEof(t)
  /\ Leaves(t) /\ UNCHANGED <<cut, killed>>

\* The deadline is looked at only when there is nothing to read.
Late(t) ==
  /\ Reading(t) /\ form[t] \in Timed /\ due[t]
  /\ chan[t] = 0 /\ ~AtEof(t)
  /\ cut' = Put(cut, t, TRUE)
  /\ killed' = Put(killed, t, prog[t] \in Alive)
  /\ Leaves(t)

\* waitpid or pclose, for as long as it takes.
Reap(t) ==
  /\ pc[t] = "reap" /\ prog[t] \in Ended
  /\ pc' = Put(pc, t, "idle")
  /\ prog' = Put(prog, t, "none") /\ killed' = Put(killed, t, FALSE)
  /\ \/ /\ form[t] \in Timed
        /\ LET fine == ~cut[t] /\ prog[t] # "signal" IN
           /\ result' = Put(result, t, IF fine THEN "OK" ELSE "ERR")
           /\ code' = Put(code, t, IF fine THEN prog[t] ELSE "none")
        /\ UNCHANGED kept
     \/ /\ form[t] \in Shells
        /\ LET fine == prog[t] = "zero" IN
           /\ result' = Put(result, t, IF fine /\ kept[t] > 0 THEN "OK" ELSE "ERR")
           /\ kept' = Put(kept, t, IF fine \/ form[t] = "reason" THEN kept[t] ELSE 0)
        /\ UNCHANGED code
  /\ UNCHANGED <<form, clock, ends, chan, holds, wrote, server>>

-----------------------------------------------------------------------------
(* The programs, which do as they like, and time. *)

\* It writes, waits while the pipe is full, or finds that nobody listens.
Write(t) ==
  /\ prog[t] = "runs" /\ ~killed[t] /\ t \in holds[t]
  /\ \/ /\ ear[t] /\ chan[t] < PipeRoom
        /\ chan' = Put(chan, t, chan[t] + 1)
        /\ wrote' = Put(wrote, t, Least(wrote[t] + 1, Room + 1))
        /\ UNCHANGED <<prog, holds>>
     \/ /\ ~ear[t]
        /\ prog' = Put(prog, t, "signal") /\ holds' = LetGo(t)
        /\ UNCHANGED <<chan, wrote>>
  /\ UNCHANGED <<answer, pc, clock, ends, killed, server>>

\* It closes what it writes to and goes on.
Hush(t) ==
  /\ prog[t] = "runs" /\ ~killed[t] /\ t \in holds[t]
  /\ holds' = Put(holds, t, holds[t] \ {t})
  /\ UNCHANGED <<answer, pc, clock, ends, chan, program, server>>

\* It waits inside the kernel for a device, where no signal reaches it.
Stick(t) ==
  /\ prog[t] \in Alive
  /\ prog' = Put(prog, t, IF prog[t] = "runs" THEN "stuck" ELSE "runs")
  /\ UNCHANGED <<answer, pc, clock, ends, chan, holds, killed, wrote, server>>

End(t) ==
  /\ prog[t] = "runs" /\ ~killed[t]
  /\ \E s \in Ended : prog' = Put(prog, t, s)
  /\ holds' = LetGo(t)
  /\ UNCHANGED <<answer, pc, clock, ends, chan, killed, wrote, server>>

Die(t) ==
  /\ prog[t] = "runs" /\ killed[t]
  /\ prog' = Put(prog, t, "signal") /\ holds' = LetGo(t)
  /\ UNCHANGED <<answer, pc, clock, ends, chan, killed, wrote, server>>

ServerEnds ==
  /\ server = "runs" /\ server' = "none"
  /\ holds' = LetGo(Server)
  /\ UNCHANGED <<answer, pc, clock, ends, chan, program>>

TimePasses(t) ==
  /\ pc[t] = "poll" /\ form[t] \in Timed /\ ~due[t]
  /\ due' = Put(due, t, TRUE)
  /\ UNCHANGED <<answer, pc, cut, ends, chan, holds, program, server>>

-----------------------------------------------------------------------------
Calls(t) == Begin(t) \/ NoPipe(t) \/ Capture(t) \/ Spawn(t)

Goes(t) == \/ Fork(t) \/ NoFork(t) \/ CloseMouth(t) \/ Feed(t) \/ Take(t)
           \/ Drain(t) \/ Full(t) \/ Eof(t) \/ Late(t) \/ Reap(t)

Lives(t) == Write(t) \/ Hush(t) \/ Stick(t) \/ End(t) \/ Die(t)

Next ==
  \/ \E t \in Threads : Calls(t) \/ Goes(t) \/ Lives(t) \/ TimePasses(t)
  \/ ServerEnds

Spec == Init /\ [][Next]_vars

\* The threads are scheduled, time passes, and what is killed dies unless the
\* kernel holds it.  Nothing is asked of the programs.
FairSpec ==
  /\ Spec
  /\ \A t \in Threads : WF_vars(Goes(t)) /\ WF_vars(TimePasses(t)) /\ WF_vars(Die(t))

-----------------------------------------------------------------------------
(* Properties. *)

\* A thread that is in no call has no end of a pipe open and no program that
\* was not waited for, whichever way its last call ended (proc.c:249-283,
\* 347-361).
NothingLeftOpen ==
  \A t \in Threads : pc[t] = "idle" =>
    ~ear[t] /\ ~mouth[t] /\ feed[t] # "open" /\ prog[t] = "none"

\* A call that returns GS_OK has in its answer all the program wrote, or as
\* much of it as there is room for, however the writing, the end of the
\* program and the reading fell together (proc.c:325-345, 362-366).
AnswerIsWhole ==
  \A t \in Threads :
    pc[t] = "idle" /\ result[t] = "OK" /\ form[t] # "spawn" =>
      ~cut[t] /\ kept[t] = Least(wrote[t], Room)

\* A program that has filled the pipe does not wait for ever, though there is
\* no room left in the answer (proc.c:325-334, and pclose for the shell).
WriterGoesOn ==
  \A t \in Threads : chan[t] = PipeRoom ~> chan[t] < PipeRoom

\* The ways in which a call can wait for ever: the program writes on and on,
\* it has closed its channel and runs, the kernel holds it, or it was started
\* through the shell, which has no deadline, and runs.
Excused(t) == \/ chan[t] > 0
              \/ prog[t] = "stuck"
              \/ prog[t] = "runs" /\ ~killed[t]
                 /\ (t \notin holds[t] \/ form[t] \in Shells)

\* No call hangs but in those ways, whatever other threads run meanwhile and
\* whoever holds its channel open (proc.c:290-361).
EveryCallEnds ==
  \A t \in Threads : <>[]~Excused(t) => []<>(pc[t] = "idle")
=============================================================================
