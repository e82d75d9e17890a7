------------------------------ MODULE CallOnce ------------------------------
(***************************************************************************)
(* What a task sent to another server promises its caller: it takes effect *)
(* at most once, "ok" means that it was carried out, and one that was      *)
(* refused before it was handed over never begins.  An error says nothing  *)
(* of the effect: the task may go on after the caller has given up.        *)
(***************************************************************************)
CONSTANT Task

VARIABLES
  outcome,  \* what the caller of a task was told
  effect    \* what became of it on the server

Init ==
  /\ outcome = [t \in Task |-> "none"]
  /\ effect = [t \in Task |-> "none"]

\* What one task does in a step; several tasks may move at once.
Moves(t) ==
  \/ outcome'[t] = outcome[t]
  \/ <<outcome[t], outcome'[t]>> \in
       {<<"none", "pending">>, <<"none", "handed">>, <<"pending", "handed">>,
        <<"pending", "refused">>, <<"handed", "error">>}
  \/ <<outcome[t], outcome'[t]>> = <<"handed", "ok">> /\ effect[t] = "done"

Works(t) ==
  \/ effect'[t] = effect[t]
  \/ <<effect[t], effect'[t]>> = <<"none", "started">> /\ outcome[t] \in {"handed", "error"}
  \/ effect[t] = "started" /\ effect'[t] \in {"done", "broken"}

Next == \A t \in Task : Moves(t) /\ Works(t)

Spec == Init /\ [][Next]_<<outcome, effect>>
=============================================================================
