------------------------------- MODULE Swarm -------------------------------
(***************************************************************************)
(* The swarm engine (runtime/swarm_engine.py): a batch of queries, each    *)
(* planned by a model and executed by a coroutine of its own, over one     *)
(* gateway whose cloud channel any of them may switch off.  A step is what *)
(* a coroutine does between two awaits.                                    *)
(***************************************************************************)
EXTENDS Naturals

CONSTANTS
  Query,        \* the queries of the batch
  MaxFaults     \* bound on sandboxes that are lost and on exceptions

VARIABLES
  batch,        \* execute_parallel_swarm
  cloud,        \* the gateway's cloud_active
  node,         \* orchestrate_node_task of each query: the step and the source of its plan
  result,       \* the status each coroutine returned
  faults,       \* what the bound counts
  ran,          \* auxiliary: how often each plan was executed, up to 2
  unheard,      \* auxiliary: the queries whose sandbox was lost after it executed the plan
  severed       \* auxiliary: the queries that switched the channel off, or found it so

swarm == <<batch, cloud, node, result, ran, unheard, severed>>

TypeOK ==
  /\ batch \in {"off", "running", "returned", "raised"} /\ cloud \in BOOLEAN
  /\ node \in [Query -> [step : {"off", "infer", "asking", "sandbox", "local", "done"},
                         source : {"none", "cloud", "local"}]]
  /\ result \in [Query -> {"none", "success", "failed", "rejected"}]
  /\ \A q \in Query : node[q].step \in {"sandbox", "local"} => node[q].source # "none"
  /\ faults \in 0..MaxFaults /\ ran \in [Query -> 0..2]
  /\ unheard \subseteq Query /\ severed \subseteq Query

Init ==
  /\ batch = "off" /\ cloud \in BOOLEAN
  /\ node = [q \in Query |-> [step |-> "off", source |-> "none"]]
  /\ result = [q \in Query |-> "none"] /\ faults = 0
  /\ ran = [q \in Query |-> 0] /\ unheard = {} /\ severed = {}

Fine == UNCHANGED faults
Fault == faults < MaxFaults /\ faults' = faults + 1
At(q, step) == batch = "running" /\ node[q].step = step
Goto(q, step, source) == node' = [node EXCEPT ![q] = [step |-> step, source |-> source]]
Return(q, status) ==
  result' = [result EXCEPT ![q] = status] /\ node' = [node EXCEPT ![q].step = "done"]
Executed(q) == ran' = [ran EXCEPT ![q] = IF @ < 2 THEN @ + 1 ELSE 2]
NotExecuted == UNCHANGED <<ran, unheard>>

-----------------------------------------------------------------------------
Begin ==
  /\ batch = "off" /\ batch' = "running"
  /\ node' = [q \in Query |-> [step |-> "infer", source |-> "none"]]
  /\ Fine /\ NotExecuted /\ UNCHANGED <<cloud, result, severed>>

(* generate_inference.  A local plan is made at once, and where it is      *)
(* executed is read from the gateway just before.                          *)
Infer(q) ==
  /\ At(q, "infer")
  /\ IF cloud THEN Goto(q, "asking", "none") /\ UNCHANGED severed
     ELSE Goto(q, "local", "local") /\ severed' = severed \cup {q}
  /\ Fine /\ NotExecuted /\ UNCHANGED <<batch, cloud, result>>
Where == IF cloud THEN "sandbox" ELSE "local"
(* An answer that is no plan is replaced by a local one.                   *)
ParsedPlan == {"cloud", "local"}
Plan(q) ==
  /\ At(q, "asking")
  /\ \E source \in ParsedPlan : Goto(q, Where, source)
  /\ severed' = IF cloud THEN severed ELSE severed \cup {q}
  /\ Fine /\ NotExecuted /\ UNCHANGED <<batch, cloud, result>>
(* verify_and_inject rejects what the cloud wrote.                         *)
Reject(q) ==
  /\ At(q, "asking") /\ Return(q, "rejected")
  /\ Fine /\ NotExecuted /\ UNCHANGED <<batch, cloud, severed>>
Sever(q) ==
  /\ At(q, "asking") /\ cloud' = FALSE /\ severed' = severed \cup {q}
  /\ Goto(q, "local", "local")
  /\ Fine /\ NotExecuted /\ UNCHANGED <<batch, result>>

(* run_payload: what the sandbox raises sends the plan to a subprocess,    *)
(* whether it was executed there or not.                                   *)
Sandbox(q) ==
  /\ At(q, "sandbox")
  /\ \E status \in {"success", "failed"} : Return(q, status)
  /\ Executed(q) /\ Fine /\ UNCHANGED <<batch, cloud, severed, unheard>>
SandboxRaises(q) ==
  /\ At(q, "sandbox") /\ Goto(q, "local", node[q].source) /\ Fault
  /\ \/ NotExecuted
     \/ Executed(q) /\ unheard' = unheard \cup {q}
  /\ UNCHANGED <<batch, cloud, result, severed>>
Subprocess(q) ==
  /\ At(q, "local")
  /\ \E status \in {"success", "failed"} : Return(q, status)
  /\ Executed(q) /\ Fine /\ UNCHANGED <<batch, cloud, severed, unheard>>

(* gather returns the results when it has all of them; the first exception *)
(* goes on to its caller, and the other coroutines are cancelled.          *)
Gather ==
  /\ batch = "running" /\ \A q \in Query : node[q].step = "done"
  /\ batch' = "returned"
  /\ Fine /\ NotExecuted /\ UNCHANGED <<cloud, node, result, severed>>
Raise(q) ==
  /\ At(q, "local") /\ Fault /\ batch' = "raised"
  /\ NotExecuted /\ UNCHANGED <<cloud, node, result, severed>>

Next ==
  \/ Begin \/ Gather
  \/ \E q \in Query :
       \/ Infer(q) \/ Plan(q) \/ Reject(q) \/ Sever(q)
       \/ Sandbox(q) \/ SandboxRaises(q) \/ Subprocess(q) \/ Raise(q)

-----------------------------------------------------------------------------
(* A plan is executed once, unless the sandbox was lost after it did.      *)
EffectsOnce == \A q \in Query : ran[q] > 1 => q \in unheard

(* A batch that returns has a status of every query: that of an execution, *)
(* or a rejection of a plan that was not executed.  What the cloud wrote   *)
(* is executed in the sandbox, unless the channel was switched off or the  *)
(* sandbox raised.                                                         *)
NothingLost ==
  /\ batch = "returned" =>
       \A q \in Query : /\ result[q] # "none"
                        /\ result[q] = "rejected" <=> ran[q] = 0
  /\ batch = "raised" => faults > 0
  /\ \A q \in Query : node[q].step = "local" /\ node[q].source = "cloud" =>
       faults > 0 \/ (q \in severed /\ ~cloud)
=============================================================================
