------------------------------ MODULE TurnLog ------------------------------
(***************************************************************************)
(* What the conversations of agent_api/main.py promise of their two        *)
(* records of a thread: the turns the model remembers (the LangGraph       *)
(* checkpoint) and the transcript the user reads.  A question is written   *)
(* to the transcript only while it is the newest thing remembered, its     *)
(* answer only right behind it, and nothing is written twice.              *)
(***************************************************************************)
EXTENDS SequencesExt

CONSTANTS Threads, Turns

VARIABLES remembered, transcript

Question(r) == [role |-> "user", turn |-> r]
Answer(r)   == [role |-> "assistant", turn |-> r]

Init ==
  /\ remembered = [t \in Threads |-> <<>>]
  /\ transcript = [t \in Threads |-> <<>>]

Remember(t, r) ==
  /\ \A u \in Threads : r \notin ToSet(remembered[u])
  /\ remembered' = [remembered EXCEPT ![t] = Append(@, r)]
  /\ UNCHANGED transcript

Ask(t, r) ==
  /\ remembered[t] # <<>> /\ r = Last(remembered[t])
  /\ Question(r) \notin ToSet(transcript[t])
  /\ transcript' = [transcript EXCEPT ![t] = Append(@, Question(r))]
  /\ UNCHANGED remembered

Reply(t, r) ==
  /\ remembered[t] # <<>> /\ r = Last(remembered[t])
  /\ transcript[t] # <<>> /\ Last(transcript[t]) = Question(r)
  /\ transcript' = [transcript EXCEPT ![t] = Append(@, Answer(r))]
  /\ UNCHANGED remembered

Next == \E t \in Threads, r \in Turns : Remember(t, r) \/ Ask(t, r) \/ Reply(t, r)

Spec == Init /\ [][Next]_<<remembered, transcript>>
=============================================================================
