---------------------------- MODULE TaskService ----------------------------
(***************************************************************************)
(* What a service that runs tasks promises: a task is accepted once, and   *)
(* has one outcome, for ever.  A fault may lose tasks that were accepted,  *)
(* and none that has its outcome.  The mesh (Mesh.tla) is shown to         *)
(* implement it.                                                           *)
(***************************************************************************)
CONSTANT Task

VARIABLE outcome   \* of each task

Outcome == {"none", "accepted", "answered", "refused", "lost"}

Init == outcome = [t \in Task |-> "none"]

Accept(t) ==
  /\ outcome[t] = "none"
  /\ outcome' = [outcome EXCEPT ![t] = "accepted"]

Finish(t) ==
  /\ outcome[t] = "accepted"
  /\ \E o \in {"answered", "refused"} : outcome' = [outcome EXCEPT ![t] = o]

Lose ==
  \E lost \in SUBSET {t \in Task : outcome[t] = "accepted"} :
    outcome' = [t \in Task |-> IF t \in lost THEN "lost" ELSE outcome[t]]

Next == Lose \/ \E t \in Task : Accept(t) \/ Finish(t)

Spec == Init /\ [][Next]_outcome
=============================================================================
