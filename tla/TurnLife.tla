------------------------------ MODULE TurnLife ------------------------------
(***************************************************************************)
(* What the conversation file promises about a prompt, whoever writes it   *)
(* and whatever is stopped half way.  A prompt is added at the end and is  *)
(* never taken back.  Answers are collected for one prompt each, until one *)
(* of them is chosen: it is one of the prompt's own, it is chosen once,    *)
(* and nothing is collected for the prompt afterwards.  The record of how  *)
(* the prompt was answered closes it.                                      *)
(***************************************************************************)
EXTENDS Naturals, Sequences

VARIABLES
  life,    \* life[t]: the answers given to prompt t so far, the one chosen
           \* (turn.shown_answer, 0 while none is), and whether turn.note is in
  written  \* answers written so far, the id of the newest

Init == life = << >> /\ written = 0

\* A prompt is written down (gs_session_add_turn).
Ask ==
  /\ life' = Append(life, [given |-> {}, shown |-> 0, noted |-> FALSE])
  /\ UNCHANGED written

\* Prompt t can still be answered.
Open(t) == life[t].shown = 0 /\ ~life[t].noted

\* An answer to prompt t is written down (gs_session_add_answer).
Answer(t) ==
  /\ Open(t)
  /\ written' = written + 1
  /\ life' = [life EXCEPT ![t].given = @ \cup {written'}]

\* Answer a is chosen for prompt t (gs_session_show).
Choose(t, a) ==
  /\ Open(t) /\ a \in life[t].given
  /\ life' = [life EXCEPT ![t].shown = a]
  /\ UNCHANGED written

\* The record of the run is written against prompt t (gs_session_note).
Close(t) ==
  /\ ~life[t].noted
  /\ life' = [life EXCEPT ![t].noted = TRUE]
  /\ UNCHANGED written

Next ==
  \/ Ask
  \/ \E t \in DOMAIN life :
       \/ Answer(t)
       \/ \E a \in life[t].given : Choose(t, a)
       \/ Close(t)

Spec == Init /\ [][Next]_<<life, written>>
=============================================================================
