---------------------------- MODULE ProcessMesh ----------------------------
(***************************************************************************)
(* The process mesh of Revenue-OS (lib/revenue-os/                         *)
(* intelligent-process-mesh.mjs): one run of specialist agents, stage by   *)
(* stage, the agents of a stage at once.  Each asks one model behind one   *)
(* circuit (beforeCircuitCall and its records in execution-control.mjs),   *)
(* once, and has an envelope in any case.  A step is what an agent does    *)
(* between two awaits on the store or the model.                           *)
(***************************************************************************)
EXTENDS Naturals, Sequences, FiniteSets, FiniteSetsExt

CONSTANTS
  Selected,     \* input.processAgents
  Threshold,    \* circuitFailureThreshold
  MaxFaults     \* bound on operations of the store that raise

(* PROCESS_AGENTS.                                                         *)
DependsOn == [
  portfolio_supervisor |-> {},
  opportunity_researcher |-> {"portfolio_supervisor"},
  analytics_analyst |-> {"portfolio_supervisor"},
  technical_product_strategist |-> {"opportunity_researcher", "analytics_analyst"},
  stock_concept_designer |-> {"opportunity_researcher"},
  newsletter_researcher |-> {"opportunity_researcher"},
  technical_product_builder |-> {"technical_product_strategist"},
  stock_compliance_reviewer |-> {"stock_concept_designer"},
  newsletter_editor |-> {"newsletter_researcher"},
  technical_product_verifier |-> {"technical_product_builder"},
  seo_optimizer |-> {"technical_product_builder", "newsletter_editor", "stock_compliance_reviewer"},
  independent_critic |-> {"technical_product_verifier", "seo_optimizer",
                          "stock_compliance_reviewer", "newsletter_editor"},
  delivery_controller |-> {"technical_product_verifier", "seo_optimizer",
                           "stock_compliance_reviewer", "newsletter_editor"},
  catch_correct_optimizer |-> {"independent_critic", "delivery_controller"}]
Staged == <<
  {"portfolio_supervisor"},
  {"opportunity_researcher", "analytics_analyst"},
  {"technical_product_strategist", "stock_concept_designer", "newsletter_researcher"},
  {"technical_product_builder", "stock_compliance_reviewer", "newsletter_editor"},
  {"technical_product_verifier", "seo_optimizer"},
  {"independent_critic", "delivery_controller"},
  {"catch_correct_optimizer"}>>

(* Assumed of the constants, in Services.                                  *)
ProcessBounds ==
  /\ Selected \subseteq DOMAIN DependsOn /\ Selected # {}
  /\ Threshold \in Nat \ {0} /\ MaxFaults \in Nat

VARIABLES
  stage,        \* the stage under way, 0 before the first and one more than the last at the end
  worker,       \* the agents: step, and what is kept across an await
  output,       \* outputs
  aiCircuit,    \* the circuit of the model
  faults,       \* what the bound counts
  asked,        \* auxiliary: the agents that asked the model
  answers,      \* auxiliary: the envelopes the model gave
  failing       \* auxiliary: the agents whose call counts as failed

process == <<stage, worker, output, aiCircuit, asked, answers, failing>>

Envelope == {"ready", "review_required", "blocked"}
Mode == {"CLOSED", "HALF_OPEN", "OPEN"}
Off == [step |-> "off", envelope |-> "none", failures |-> 0, mode |-> "CLOSED"]

TypeOK ==
  /\ stage \in 0..(Len(Staged) + 1)
  /\ \A a \in Selected :
       /\ worker[a].step \in {"off", "circuit", "ask", "close", "read", "count", "write", "done"}
       /\ worker[a].step \notin {"off", "done"} => stage \in DOMAIN Staged /\ a \in Staged[stage]
       /\ worker[a].envelope \in Envelope \cup {"none"}
       /\ worker[a].mode \in Mode /\ worker[a].failures \in 0..Cardinality(Selected)
  /\ {output, answers} \subseteq [Selected -> Envelope \cup {"none"}]
  /\ aiCircuit.mode \in Mode /\ aiCircuit.failures \in 0..Cardinality(Selected)
  /\ aiCircuit.waited => aiCircuit.mode # "CLOSED"
  /\ faults \in 0..MaxFaults /\ failing \subseteq asked /\ asked \subseteq Selected

Closed == [mode |-> "CLOSED", failures |-> 0, waited |-> FALSE]
Init ==
  /\ stage = 0 /\ worker = [a \in Selected |-> Off] /\ output = [a \in Selected |-> "none"]
  /\ aiCircuit = Closed /\ faults = 0
  /\ asked = {} /\ answers = [a \in Selected |-> "none"] /\ failing = {}

Fine == UNCHANGED faults
Fault == faults < MaxFaults /\ faults' = faults + 1

-----------------------------------------------------------------------------
(* buildProcessMeshPlan, and Promise.all over each of its stages.  An      *)
(* agent whose dependency has no output would get the envelope that asks   *)
(* for a review.                                                           *)
Review == [Off EXCEPT !.step = "done", !.envelope = "review_required"]
Collected == [a \in Selected |-> IF worker[a].step = "done" THEN worker[a].envelope ELSE "none"]
Missing(a) == \E d \in DependsOn[a] \cap Selected : Collected[d] = "none"
StageDone == \A a \in Selected : worker[a].step \in {"off", "done"}
Following ==
  LET later == {n \in DOMAIN Staged : n > stage /\ Staged[n] \cap Selected # {}} IN
  IF later = {} THEN Len(Staged) + 1 ELSE Min(later)
NextStage ==
  /\ stage <= Len(Staged) /\ StageDone
  /\ stage' = Following /\ output' = Collected
  /\ worker' = [a \in Selected |->
       IF stage' \notin DOMAIN Staged \/ a \notin Staged[stage'] THEN worker[a]
       ELSE IF Missing(a) THEN Review ELSE [Off EXCEPT !.step = "circuit"]]
  /\ Fine /\ UNCHANGED <<aiCircuit, asked, answers, failing>>

At(a, step) == worker[a].step = step
Goto(a, step) == worker' = [worker EXCEPT ![a].step = step]
Failsafe(a) == worker' = [worker EXCEPT ![a] = Review]
AgentOnly == UNCHANGED <<stage, output>>

(* beforeCircuitCall; the lease of runOnce is of this run alone.           *)
BeforeCall(a) ==
  /\ At(a, "circuit")
  /\ IF aiCircuit.mode = "CLOSED" THEN Goto(a, "ask") /\ UNCHANGED aiCircuit
     ELSE IF aiCircuit.waited
          THEN Goto(a, "ask") /\ aiCircuit' = [aiCircuit EXCEPT !.mode = "HALF_OPEN", !.waited = FALSE]
          ELSE Failsafe(a) /\ UNCHANGED aiCircuit
  /\ Fine /\ AgentOnly /\ UNCHANGED <<asked, answers, failing>>

(* The model's envelope, an answer that is none, or no answer.             *)
Ask(a) ==
  /\ At(a, "ask") /\ asked' = asked \cup {a}
  /\ \/ \E e \in Envelope \cup {"none"} :
          /\ worker' = [worker EXCEPT ![a].step = "close", ![a].envelope = e]
          /\ answers' = [answers EXCEPT ![a] = e] /\ UNCHANGED failing
     \/ Goto(a, "read") /\ failing' = failing \cup {a} /\ UNCHANGED answers
  /\ Fine /\ AgentOnly /\ UNCHANGED aiCircuit

(* recordCircuitSuccess, before the envelope is parsed.                    *)
RecordSuccess(a) ==
  /\ At(a, "close") /\ aiCircuit' = Closed
  /\ IF worker[a].envelope = "none" THEN Failsafe(a) ELSE Goto(a, "write")
  /\ Fine /\ AgentOnly /\ UNCHANGED <<asked, answers, failing>>
(* recordCircuitFailure reads the circuit and writes what it makes of it.  *)
ReadFailures(a) ==
  /\ At(a, "read")
  /\ worker' = [worker EXCEPT ![a] =
       [@ EXCEPT !.step = "count", !.failures = aiCircuit.failures, !.mode = aiCircuit.mode]]
  /\ Fine /\ AgentOnly /\ UNCHANGED <<aiCircuit, asked, answers, failing>>
RecordFailure(a) ==
  /\ At(a, "count") /\ Failsafe(a)
  /\ LET counted == worker[a].failures + 1
         opens == worker[a].mode = "HALF_OPEN" \/ counted >= Threshold IN
     aiCircuit' = [mode |-> IF opens THEN "OPEN" ELSE "CLOSED", failures |-> counted, waited |-> FALSE]
  /\ Fine /\ AgentOnly /\ UNCHANGED <<asked, answers, failing>>
(* runOnce records the result.                                             *)
Complete(a) ==
  /\ At(a, "write") /\ Goto(a, "done")
  /\ Fine /\ AgentOnly /\ UNCHANGED <<aiCircuit, asked, answers, failing>>

(* The store raises: after an answer it counts as a failure of the model,  *)
(* and otherwise the agent has the envelope that asks for a review.        *)
StoreRaises(a) ==
  /\ worker[a].step \in {"circuit", "close", "read", "count", "write"} /\ Fault
  /\ IF At(a, "close")
     THEN worker' = [worker EXCEPT ![a] = [Off EXCEPT !.step = "read"]] /\ failing' = failing \cup {a}
     ELSE Failsafe(a) /\ UNCHANGED failing
  /\ AgentOnly /\ UNCHANGED <<aiCircuit, asked, answers>>

(* openUntil passes; or probeUntil, which no probe outlives.               *)
Elapse ==
  /\ aiCircuit.mode # "CLOSED" /\ ~aiCircuit.waited
  /\ aiCircuit.mode = "HALF_OPEN" =>
       \A a \in Selected : worker[a].step \notin {"ask", "close", "read", "count"}
  /\ aiCircuit' = [aiCircuit EXCEPT !.waited = TRUE]
  /\ Fine /\ UNCHANGED <<stage, worker, output, asked, answers, failing>>

Next ==
  \/ NextStage \/ Elapse
  \/ \E a \in Selected :
       \/ BeforeCall(a) \/ Ask(a) \/ RecordSuccess(a) \/ ReadFailures(a) \/ RecordFailure(a)
       \/ Complete(a) \/ StoreRaises(a)

-----------------------------------------------------------------------------
(* However their records overtake each other, the circuit is not closed    *)
(* only after as many failures as it takes; and an agent asks the model    *)
(* only when every dependency of it that takes part has its envelope.      *)
EffectsOnce ==
  /\ aiCircuit.mode # "CLOSED" => Cardinality(failing) >= Threshold
  /\ \A a \in asked : \A d \in DependsOn[a] \cap Selected : output[d] # "none"

(* A run that ends has the envelope of every agent: the one the model      *)
(* gave, or the one that asks for a review, and the latter after a valid   *)
(* answer only when the store raised.                                      *)
NothingLost ==
  stage > Len(Staged) =>
    \A a \in Selected :
      /\ output[a] \in {answers[a], "review_required"} \ {"none"}
      /\ faults = 0 /\ answers[a] # "none" => output[a] = answers[a]
=============================================================================
