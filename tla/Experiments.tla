---------------------------- MODULE Experiments ----------------------------
(***************************************************************************)
(* Growth experiments (runtime/growth_experiments.py): a ledger that is    *)
(* only appended to, and commands that replay it, check, and append one    *)
(* event.  One experiment is followed.  Only create holds the lock from    *)
(* its check to its append; between those of the other commands anything   *)
(* may be appended.                                                        *)
(***************************************************************************)
EXTENDS Naturals, Sequences, SequencesExt, FiniteSetsExt

CONSTANTS
  Commander,    \* the processes that may run a command at once, numbers
  Variants,     \* how many variants the experiment has
  Measured,     \* the values that are measured
  MinSamples,   \* observations a variant needs before a conclusion
  MaxRequests   \* bound on commands

(* Assumed of the constants, in Services.                                  *)
ExperimentBounds ==
  /\ {MinSamples, MaxRequests} \subseteq Nat /\ Variants \in Nat \ {0, 1} /\ Measured \subseteq Nat

VARIABLES
  ledger,       \* the events of the experiment
  commander,    \* the event each command is about to append
  requests,     \* what the bound counts
  contended     \* auxiliary: two commands were under way at once

experiment == <<ledger, commander, contended>>

Variant == 1..Variants
Created == [type |-> "created", variant |-> 0, value |-> 0]
Started == [type |-> "started", variant |-> 0, value |-> 0]
Observation(v, x) == [type |-> "observation", variant |-> v, value |-> x]
Concluded(v) == [type |-> "concluded", variant |-> v, value |-> 0]
Nothing == [type |-> "none", variant |-> 0, value |-> 0]
Event ==
  {Created, Started} \cup {Concluded(v) : v \in Variant}
  \cup {Observation(v, x) : v \in Variant, x \in Measured}

(* load_experiments: the status is that of the last event that sets one,   *)
(* and a second creation would begin anew.                                 *)
StatusOf == [created |-> "draft", started |-> "running", concluded |-> "concluded"]
Status(events) ==
  FoldLeft(LAMBDA s, e : IF e.type \in DOMAIN StatusOf THEN StatusOf[e.type] ELSE s, "unknown", events)
Values(events, v) == SelectSeq(events, LAMBDA e : e.type = "observation" /\ e.variant = v)
Total(events, v) == FoldLeft(LAMBDA sum, e : sum + e.value, 0, Values(events, v))
Samples(events, v) == Len(Values(events, v))

(* The variant of the highest mean, the first of those that tie.           *)
AtLeast(events, v, w) == Total(events, v) * Samples(events, w) >= Total(events, w) * Samples(events, v)
Winner(events) == Min({v \in Variant : \A w \in Variant : AtLeast(events, v, w)})

TypeOK ==
  /\ \A i \in DOMAIN ledger : ledger[i] \in Event
  /\ ledger # <<>> => ledger[1] = Created
  /\ commander \in [Commander -> Event \cup {Nothing}]
  /\ requests \in 0..MaxRequests /\ contended \in BOOLEAN

Init ==
  ledger = <<>> /\ commander = [c \in Commander |-> Nothing] /\ requests = 0 /\ contended = FALSE

Asked == requests < MaxRequests /\ requests' = requests + 1

-----------------------------------------------------------------------------
(* create_experiment checks and appends under the lock.                    *)
Create ==
  /\ Status(ledger) = "unknown" /\ Asked
  /\ ledger' = Append(ledger, Created)
  /\ UNCHANGED <<commander, contended>>

(* The check of the other commands passes for this event.                  *)
Check(c, event) ==
  /\ commander[c] = Nothing /\ \A d \in Commander : d < c => commander[d] # Nothing
  /\ Asked
  /\ commander' = [commander EXCEPT ![c] = event]
  /\ contended' = (contended \/ \E d \in Commander : commander[d] # Nothing)
  /\ UNCHANGED ledger
StartExperiment(c) == Status(ledger) = "draft" /\ Check(c, Started)
RecordObservation(c) ==
  /\ Status(ledger) = "running"
  /\ \E v \in Variant, x \in Measured : Check(c, Observation(v, x))
ConcludeExperiment(c) ==
  /\ Status(ledger) = "running"
  /\ \A v \in Variant : Samples(ledger, v) >= MinSamples
  /\ Check(c, Concluded(Winner(ledger)))

(* _append, or the process ends before it.                                 *)
AppendEvent(c) ==
  /\ commander[c] # Nothing
  /\ ledger' \in {Append(ledger, commander[c]), ledger}
  /\ commander' = [commander EXCEPT ![c] = Nothing]
  /\ UNCHANGED <<requests, contended>>

Next ==
  \/ Create
  \/ \E c \in Commander :
       StartExperiment(c) \/ RecordObservation(c) \/ ConcludeExperiment(c) \/ AppendEvent(c)

-----------------------------------------------------------------------------
Of(type) == {i \in DOMAIN ledger : ledger[i].type = type}

(* An experiment is created once, whatever overlaps, so that no history is *)
(* reset; and it starts and is concluded once unless commands overlapped.  *)
EffectsOnce ==
  /\ Cardinality(Of("created")) <= 1
  /\ ~contended => Cardinality(Of("started")) <= 1 /\ Cardinality(Of("concluded")) <= 1

(* The winner on record is that of all the observations on record, each    *)
(* variant with its samples, and a conclusion ends the experiment, unless  *)
(* commands overlapped.                                                    *)
NothingLost ==
  ~contended =>
    \A i \in Of("concluded") :
      /\ i = Len(ledger) /\ Status(ledger) = "concluded"
      /\ ledger[i].variant = Winner(ledger)
      /\ \A v \in Variant : Samples(ledger, v) >= MinSamples
=============================================================================
