----------------------------- MODULE Hypervisor -----------------------------
(***************************************************************************)
(* The hypervisor's pipeline (runtime/hypervisor/hypervisor.py): the feeds *)
(* are journalled, ingested in parallel, and what came of them is handed   *)
(* to growth agents.  Each run is a process; runs share the journal and    *)
(* may overlap.  A step is one call of a model or one transaction.         *)
(***************************************************************************)
EXTENDS Naturals, FiniteSets

CONSTANTS
  Process,      \* the runs of the pipeline, numbers
  Feed,         \* the feeds of a run, numbers
  MaxFaults     \* bound on transactions that raise and processes that end

(* Assumed of the constants, in Services.                                  *)
PipelineBounds == Process \subseteq Nat \ {0} /\ MaxFaults \in Nat

VARIABLES
  ledger,       \* task_ledger: the TX row of each feed, and the run whose output it holds
  pipeline,     \* the runs: the stage
  agent,        \* their agents, one for each feed
  faults,       \* what the bound counts
  answered,     \* auxiliary: the feeds each run has an ingestion answer for
  grown,        \* auxiliary: the feeds each run has a growth answer for
  overtaken     \* auxiliary: two runs overlapped

piping == <<ledger, pipeline, agent, answered, grown, overtaken>>

NoRow == [state |-> "none", output |-> 0]

TypeOK ==
  /\ \A f \in Feed :
       /\ ledger[f].state \in {"none", "QUEUED", "INGESTION_COMPLETE", "INGESTION_FAILED"}
       /\ ledger[f].output \in Process \cup {0}
       /\ ledger[f].output # 0 <=> ledger[f].state = "INGESTION_COMPLETE"
  /\ pipeline \in [Process -> {"off", "ingestion", "growth", "ended", "killed"}]
  /\ \A p \in Process, f \in Feed :
       /\ agent[p][f].step \in {"off", "dispatch", "update", "returned"}
       /\ agent[p][f].step \in {"dispatch", "update"} =>
            pipeline[p] \in {"ingestion", "growth"}
  /\ faults \in 0..MaxFaults
  /\ answered \in [Process -> SUBSET Feed] /\ grown \in [Process -> SUBSET Feed]
  /\ overtaken \in BOOLEAN

Idle == [step |-> "off", result |-> FALSE]
Init ==
  /\ ledger = [f \in Feed |-> NoRow]
  /\ pipeline = [p \in Process |-> "off"] /\ agent = [p \in Process |-> [f \in Feed |-> Idle]]
  /\ faults = 0 /\ answered = [p \in Process |-> {}] /\ grown = [p \in Process |-> {}]
  /\ overtaken = FALSE

Fine == UNCHANGED faults
Fault == faults < MaxFaults /\ faults' = faults + 1
Running(p) == pipeline[p] \in {"ingestion", "growth"}

-----------------------------------------------------------------------------
(* run_pipeline.  All rows are put back to QUEUED, those of an earlier run *)
(* too, in one transaction.                                                *)
Start(p) ==
  /\ pipeline[p] = "off" /\ \A q \in Process : q < p => pipeline[q] # "off"
  /\ ledger' = [f \in Feed |-> [state |-> "QUEUED", output |-> 0]]
  /\ pipeline' = [pipeline EXCEPT ![p] = "ingestion"]
  /\ agent' = [agent EXCEPT ![p] = [f \in Feed |-> [step |-> "dispatch", result |-> FALSE]]]
  /\ overtaken' = (overtaken \/ \E q \in Process : Running(q))
  /\ Fine /\ UNCHANGED <<answered, grown>>
(* The agents of a stage have all returned.                                *)
Returned(p) == \A f \in Feed : agent[p][f].step \in {"off", "returned"}
Useful(p) == {f \in Feed : agent[p][f].step = "returned" /\ agent[p][f].result}
Grow(p) ==
  /\ pipeline[p] = "ingestion" /\ Returned(p)
  /\ pipeline' = [pipeline EXCEPT ![p] = IF Useful(p) = {} THEN "ended" ELSE "growth"]
  /\ agent' = [agent EXCEPT ![p] =
       [f \in Feed |-> IF f \in Useful(p) THEN [step |-> "dispatch", result |-> FALSE] ELSE Idle]]
  /\ Fine /\ UNCHANGED <<ledger, answered, grown, overtaken>>
End(p) ==
  /\ pipeline[p] = "growth" /\ Returned(p)
  /\ pipeline' = [pipeline EXCEPT ![p] = "ended"]
  /\ Fine /\ UNCHANGED <<ledger, agent, answered, grown, overtaken>>

-----------------------------------------------------------------------------
At(p, f, step) == agent[p][f].step = step
AgentOnly == UNCHANGED <<pipeline, overtaken>>
Answer(p, f) ==
  /\ agent' = [agent EXCEPT ![p][f] = [step |-> "update", result |-> TRUE]]
  /\ IF pipeline[p] = "ingestion"
     THEN answered' = [answered EXCEPT ![p] = @ \cup {f}] /\ UNCHANGED grown
     ELSE grown' = [grown EXCEPT ![p] = @ \cup {f}] /\ UNCHANGED answered

(* _dispatch: an answer of the gateway or else of the local model, or none *)
(* of either.                                                              *)
Dispatch(p, f) ==
  /\ At(p, f, "dispatch")
  /\ \/ Answer(p, f)
     \/ agent' = [agent EXCEPT ![p][f].step = "update"] /\ UNCHANGED <<answered, grown>>
  /\ Fine /\ AgentOnly /\ UNCHANGED ledger

(* _update_state.  A growth agent's row is not in the table, and an UPDATE *)
(* of no row is no error.                                                  *)
Update(p, f) ==
  /\ At(p, f, "update")
  /\ ledger' = IF pipeline[p] = "growth" THEN ledger
               ELSE [ledger EXCEPT ![f] =
                 IF agent[p][f].result THEN [state |-> "INGESTION_COMPLETE", output |-> p]
                 ELSE [state |-> "INGESTION_FAILED", output |-> 0]]
  /\ agent' = [agent EXCEPT ![p][f].step = "returned"]
  /\ Fine /\ AgentOnly /\ UNCHANGED <<answered, grown>>
(* gather takes an exception for a result of none.                         *)
UpdateRaises(p, f) ==
  /\ At(p, f, "update") /\ Fault
  /\ agent' = [agent EXCEPT ![p][f] = [step |-> "returned", result |-> FALSE]]
  /\ AgentOnly /\ UNCHANGED <<ledger, answered, grown>>
Kill(p) ==
  /\ Running(p) /\ Fault
  /\ pipeline' = [pipeline EXCEPT ![p] = "killed"]
  /\ agent' = [agent EXCEPT ![p] = [f \in Feed |-> Idle]]
  /\ UNCHANGED <<ledger, answered, grown, overtaken>>

Next ==
  \E p \in Process :
    \/ Start(p) \/ Grow(p) \/ End(p) \/ Kill(p)
    \/ \E f \in Feed : Dispatch(p, f) \/ Update(p, f) \/ UpdateRaises(p, f)

-----------------------------------------------------------------------------
Latest == {p \in Process : pipeline[p] # "off" /\ \A q \in Process : q > p => pipeline[q] = "off"}

(* A feed is handed to growth only by a run that has its ingestion, and    *)
(* the journal holds outputs of the last run only, unless runs overlapped. *)
EffectsOnce ==
  /\ \A p \in Process : grown[p] \subseteq answered[p]
  /\ ~overtaken => \A f \in Feed : ledger[f].output # 0 => ledger[f].output \in Latest

(* When the last run has ended by itself, every feed it has an answer for  *)
(* is journalled as complete, the others as failed, unless a transaction   *)
(* raised or runs overlapped.                                              *)
NothingLost ==
  ~overtaken =>
    \A p \in Latest :
      /\ \A f \in Feed : ledger[f].output = p => f \in answered[p]
      /\ pipeline[p] = "ended" /\ faults = 0 =>
           \A f \in Feed : ledger[f].state =
             IF f \in answered[p] THEN "INGESTION_COMPLETE" ELSE "INGESTION_FAILED"
=============================================================================
