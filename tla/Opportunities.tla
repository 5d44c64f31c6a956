--------------------------- MODULE Opportunities ---------------------------
(***************************************************************************)
(* Opportunity intelligence (runtime/opportunity_intelligence.py and       *)
(* runtime/daily_command_producer.py): an offer is scored with learned     *)
(* weights, stored and told to Daily Command, and an outcome moves the     *)
(* weights.  One offer is followed.  A step is one connection to the       *)
(* database or one post.  Every connection is a transaction of its own, so *)
(* a score may mix weights, and an outcome is many reads and writes.       *)
(***************************************************************************)
EXTENDS Integers, FiniteSets, SequencesExt

CONSTANTS
  Keywords,       \* how many keywords the offer matches
  Floor, Start, Ceiling, \* the weights, in steps of 0.05: 0.1, 1.0 and 3.0
  Cutoff,         \* the sum of the weights under which the grade is Avoid
  Registrar,      \* callers of register_outcome, numbers
  Wired,          \* DC_WEBHOOK_URL and WEBHOOK_SECRET are set
  MaxRequests,    \* bound on evaluations and outcomes
  MaxFaults       \* bound on posts that are lost and processes that end

(* Assumed of the constants, in Services.                                  *)
OpportunityBounds ==
  /\ {Keywords, Cutoff, MaxRequests, MaxFaults} \subseteq Nat
  /\ Floor <= Start /\ Start <= Ceiling /\ Wired \in BOOLEAN

VARIABLES
  weight,         \* weights
  stored,         \* opportunities: the offer and the decision of its row
  outcomes,       \* outcomes: the directions, in the order of their rows
  evaluation,     \* the evaluation under way
  registrar,      \* the calls of register_outcome
  emitting,       \* the daemon threads that post to Daily Command
  card,           \* Daily Command: the decision on the card of the offer
  requests, faults, \* what the bounds count
  evaluated,      \* auxiliary: how often the offer was stored, up to 2
  overlap, cut    \* auxiliary: registrations overlapped; one was cut off

opportunity == <<weight, stored, outcomes, evaluation, registrar, emitting, card, evaluated,
                 overlap, cut>>

Keyword == 1..Keywords
(* The kinds of offer that the decision tells apart, the weights left      *)
(* aside: by the pay against minimum_dispatch_value and the total asked    *)
(* for, and by the risk flags.                                             *)
Offer == {"pay missing", "under dispatch", "under total", "unclassified", "approval", "good"}
Decision == {"PROCEED", "COUNTER", "HUMAN_APPROVAL", "DISCARD"}
NotEvaluating == [at |-> 0, sum |-> 0, offer |-> "good"]
Off == [step |-> "off", at |-> 1, read |-> 0, move |-> 0]

(* _grade, as far as it decides, and _decision.                            *)
Avoided(o, sum) == o \in {"under total", "approval", "good"} /\ sum < Cutoff
Decide(o, sum) ==
  IF Avoided(o, sum) THEN "DISCARD"
  ELSE CASE o \in {"pay missing", "under dispatch", "under total"} -> "COUNTER"
         [] o = "approval" -> "HUMAN_APPROVAL"
         [] o \in {"unclassified", "good"} -> "PROCEED"

(* set_weight keeps a weight within its bounds.                            *)
Bounded(w) == IF w < Floor THEN Floor ELSE IF w > Ceiling THEN Ceiling ELSE w

TypeOK ==
  /\ weight \in [Keyword -> Floor..Ceiling]
  /\ stored.decision \in Decision \cup {"none"} /\ stored.offer \in Offer
  /\ \A i \in DOMAIN outcomes : outcomes[i] \in {-1, 0, 1}
  /\ evaluation.at \in 0..(Keywords + 1) /\ evaluation.offer \in Offer
  /\ \A r \in Registrar :
       /\ registrar[r].step \in {"off", "read", "set", "note"}
       /\ registrar[r].at \in 1..(Keywords + 1) /\ registrar[r].read \in 0..Ceiling
       /\ registrar[r].move \in {-1, 0, 1}
       /\ registrar[r].step \in {"read", "set"} => registrar[r].at \in Keyword
  /\ emitting \subseteq Decision \ {"DISCARD"} /\ card \in Decision \cup {"none"}
  /\ requests \in 0..MaxRequests /\ faults \in 0..MaxFaults
  /\ evaluated \in 0..2 /\ {overlap, cut} \subseteq BOOLEAN

Init ==
  /\ weight = [k \in Keyword |-> Start]
  /\ stored = [decision |-> "none", offer |-> "good"] /\ outcomes = <<>>
  /\ evaluation = NotEvaluating
  /\ registrar = [r \in Registrar |-> Off]
  /\ emitting = {} /\ card = "none" /\ requests = 0 /\ faults = 0
  /\ evaluated = 0 /\ overlap = FALSE /\ cut = FALSE

Asked == requests < MaxRequests /\ requests' = requests + 1
Fine == UNCHANGED faults
Fault == faults < MaxFaults /\ faults' = faults + 1

-----------------------------------------------------------------------------
(* evaluate.  The page of an offer stays the same, and with it its         *)
(* signature, while its pay and the rest of the payload may change.        *)
EvaluationOnly == UNCHANGED <<weight, outcomes, registrar, overlap, cut>>

Evaluate ==
  /\ evaluation.at = 0 /\ Asked
  /\ \E o \in Offer : evaluation' = [at |-> 1, sum |-> 0, offer |-> o]
  /\ Fine /\ EvaluationOnly /\ UNCHANGED <<stored, emitting, card, evaluated>>
GetWeight ==
  /\ evaluation.at \in Keyword
  /\ evaluation' = [evaluation EXCEPT !.at = @ + 1, !.sum = @ + weight[evaluation.at]]
  /\ Fine /\ EvaluationOnly /\ UNCHANGED <<stored, emitting, card, requests, evaluated>>

(* _emit_to_daily_command: an offer that is not discarded is posted by a   *)
(* daemon thread, if Daily Command is wired.                               *)
Told(d) == IF Wired THEN {d} \ {"DISCARD"} ELSE {}
Save ==
  /\ evaluation.at = Keywords + 1
  /\ LET d == Decide(evaluation.offer, evaluation.sum) IN
     /\ stored' = [decision |-> d, offer |-> evaluation.offer]
     /\ emitting' = emitting \cup Told(d)
  /\ evaluation' = NotEvaluating
  /\ evaluated' = IF evaluated = 2 THEN 2 ELSE evaluated + 1
  /\ Fine /\ EvaluationOnly /\ UNCHANGED <<card, requests>>

(* emit: the signature is the idempotency key, so the first post stays.    *)
Emit(d) ==
  /\ d \in emitting /\ emitting' = emitting \ {d}
  /\ \/ /\ card' = IF card = "none" THEN d ELSE card
        /\ Fine
     \/ Fault /\ UNCHANGED card
  /\ EvaluationOnly /\ UNCHANGED <<stored, evaluation, requests, evaluated>>
(* The process ends, and with it the daemon threads.                       *)
Exit ==
  /\ evaluation.at # 0 \/ emitting # {}
  /\ evaluation' = NotEvaluating /\ emitting' = {} /\ Fault
  /\ EvaluationOnly /\ UNCHANGED <<stored, card, requests, evaluated>>

-----------------------------------------------------------------------------
(* register_outcome.  An outcome is that of the stored offer, and the      *)
(* keywords are taken one by one.                                          *)
RegistrarOnly == UNCHANGED <<stored, evaluation, emitting, card, evaluated>>
Goto(r, step) == registrar' = [registrar EXCEPT ![r].step = step]

Register(r) ==
  /\ registrar[r].step = "off" /\ stored.decision # "none" /\ Asked
  /\ \A q \in Registrar : q < r => registrar[q].step # "off"
  /\ \E move \in {-1, 0, 1} :
       registrar' = [registrar EXCEPT ![r] =
         [Off EXCEPT !.step = IF move = 0 \/ Keywords = 0 THEN "note" ELSE "read", !.move = move]]
  /\ overlap' = (overlap \/ \E q \in Registrar : registrar[q].step # "off")
  /\ Fine /\ RegistrarOnly /\ UNCHANGED <<weight, outcomes, cut>>
ReadWeight(r) ==
  /\ registrar[r].step = "read"
  /\ registrar' = [registrar EXCEPT ![r].step = "set", ![r].read = weight[registrar[r].at]]
  /\ Fine /\ RegistrarOnly /\ UNCHANGED <<weight, outcomes, requests, overlap, cut>>
SetWeight(r) ==
  /\ registrar[r].step = "set"
  /\ weight' = [weight EXCEPT ![registrar[r].at] = Bounded(registrar[r].read + registrar[r].move)]
  /\ registrar' = [registrar EXCEPT
       ![r] = [@ EXCEPT !.step = IF registrar[r].at = Keywords THEN "note" ELSE "read",
                        !.at = @ + 1, !.read = 0]]
  /\ Fine /\ RegistrarOnly /\ UNCHANGED <<outcomes, requests, overlap, cut>>
Note(r) ==
  /\ registrar[r].step = "note"
  /\ outcomes' = Append(outcomes, registrar[r].move)
  /\ registrar' = [registrar EXCEPT ![r] = Off]
  /\ Fine /\ RegistrarOnly /\ UNCHANGED <<weight, requests, overlap, cut>>
CutOff(r) ==
  /\ registrar[r].step # "off" /\ registrar' = [registrar EXCEPT ![r] = Off]
  /\ cut' = TRUE /\ Fault
  /\ RegistrarOnly /\ UNCHANGED <<weight, outcomes, requests, overlap>>

Next ==
  \/ Evaluate \/ GetWeight \/ Save \/ Exit
  \/ \E d \in Decision : Emit(d)
  \/ \E r \in Registrar : Register(r) \/ ReadWeight(r) \/ SetWeight(r) \/ Note(r) \/ CutOff(r)

-----------------------------------------------------------------------------
(* The weights are what the outcomes on record make of the first ones,     *)
(* each counted once and within the bounds, unless registrations           *)
(* overlapped or one was cut off.                                          *)
Learned == FoldLeft(LAMBDA w, move : Bounded(w + move), Start, outcomes)
EffectsOnce ==
  ~overlap /\ ~cut /\ (\A r \in Registrar : registrar[r].step = "off") =>
    \A k \in Keyword : weight[k] = Learned

(* No offer is discarded for what is not known of it.  The card shows what *)
(* is stored, unless the offer was stored more than once, a post was lost  *)
(* or it is still under way, or Daily Command is not wired at all.         *)
NothingLost ==
  /\ stored.decision = "DISCARD" => stored.offer \notin {"pay missing", "unclassified"}
  /\ Wired /\ evaluated = 1 /\ stored.decision # "DISCARD" /\ faults = 0 /\ emitting = {} =>
       card = stored.decision
  /\ card # "none" => evaluated > 0
=============================================================================
