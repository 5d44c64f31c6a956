------------------------------- MODULE Leads --------------------------------
(***************************************************************************)
(* The revenue matrix and its leads (pipeline/revenue_matrix.py), the      *)
(* batches of the outreach engine that tell a webhook about them           *)
(* (pipeline/outreach_engine.py), and the commands of the dashboard        *)
(* (pipeline/vp_dashboard.py).  All companies belong to one phase; a step  *)
(* is one transaction of the database or one call of the webhook.          *)
(***************************************************************************)
EXTENDS Naturals, FiniteSets, FiniteSetsExt

CONSTANTS
  Company,      \* the targets
  MaxLeads,     \* bound on leads
  Amount,       \* what a lead may bring
  Goal,         \* the target_usd of the phase
  MaxRequests,  \* bound on runs and commands
  MaxFaults     \* bound on posts that fail, updates that raise and processes that end

(* Assumed of the constants, in Services.                                  *)
LeadsBounds == MaxLeads \in Nat /\ Goal \in Nat /\ Amount \subseteq Nat

VARIABLES
  lead,         \* revenue_leads
  phase,        \* the row of revenue_phases
  sender,       \* the coroutine of a batch for each company
  requests, faults, \* what the bounds count
  posted,       \* auxiliary: the leads whose packet the webhook received
  runs,         \* auxiliary: how often a company was in a batch that posts
  wins,         \* auxiliary: how often each lead was closed
  printed       \* auxiliary: the leads that were marked after being printed or logged

selling == <<lead, phase, sender, posted, runs, wins, printed>>

Id == 1..MaxLeads
NoLead == [company |-> {}, status |-> "none", realized |-> 0]
Idle == [step |-> "off", on |-> 0]
Added == {l \in Id : lead[l] # NoLead}

TypeOK ==
  /\ \A l \in Id :
       /\ lead[l].status \in {"none", "prospecting", "outreach_sent", "won"}
       /\ lead[l].company \subseteq Company
       /\ lead[l].realized \in Amount \cup {0}
       /\ l \in Added => Cardinality(lead[l].company) = 1 /\ \A k \in 1..(l - 1) : k \in Added
  /\ phase.status \in {"pending", "active", "complete"} /\ phase.realized \in Nat
  /\ \A c \in Company :
       /\ sender[c].step \in {"off", "post", "mark"}
       /\ sender[c].step # "off" => lead[sender[c].on].company = {c}
  /\ requests \in 0..MaxRequests /\ faults \in 0..MaxFaults
  /\ posted \subseteq Id /\ printed \subseteq Id /\ runs \in [Company -> 0..MaxRequests]
  /\ wins \in [Id -> 0..MaxRequests]

Init ==
  /\ lead = [l \in Id |-> NoLead] /\ phase = [realized |-> 0, status |-> "pending"]
  /\ sender = [c \in Company |-> Idle] /\ requests = 0 /\ faults = 0
  /\ posted = {} /\ runs = [c \in Company |-> 0] /\ wins = [l \in Id |-> 0] /\ printed = {}

Asked == requests < MaxRequests /\ requests' = requests + 1
Fine == UNCHANGED faults
Fault == faults < MaxFaults /\ faults' = faults + 1

-----------------------------------------------------------------------------
(* add_lead: nothing looks for a lead of the same company.                 *)
NewLead == Cardinality(Added) + 1
Insert(c) ==
  NewLead \in Id /\ lead' = [lead EXCEPT ![NewLead] = [NoLead EXCEPT !.company = {c}, !.status = "prospecting"]]

(* A target of run_batch: with a webhook its packet is posted, without one *)
(* it is logged; the outreach command prints it.                           *)
Start(c) ==
  /\ sender[c] = Idle /\ Asked /\ Insert(c)
  /\ \/ /\ sender' = [sender EXCEPT ![c] = [step |-> "post", on |-> NewLead]]
        /\ runs' = [runs EXCEPT ![c] = @ + 1] /\ UNCHANGED printed
     \/ /\ sender' = [sender EXCEPT ![c] = [step |-> "mark", on |-> NewLead]]
        /\ printed' = printed \cup {NewLead} /\ UNCHANGED runs
  /\ Fine /\ UNCHANGED <<phase, posted, wins>>
(* cmd_add_lead *)
AddByHand(c) ==
  /\ Asked /\ Insert(c) /\ Fine
  /\ UNCHANGED <<phase, sender, posted, runs, wins, printed>>

Goto(c, step) == sender' = [sender EXCEPT ![c].step = step]
Stop(c) == sender' = [sender EXCEPT ![c] = Idle]
SenderOnly == UNCHANGED <<phase, requests, runs, wins, printed>>

(* _post_outreach: anything but 200 raises, and the target is given up.    *)
Post(c) ==
  /\ sender[c].step = "post"
  /\ \/ Goto(c, "mark") /\ posted' = posted \cup {sender[c].on} /\ Fine
     \/ Stop(c) /\ posted' \in {posted, posted \cup {sender[c].on}} /\ Fault
  /\ SenderOnly /\ UNCHANGED lead
(* mark_outreach_sent, whatever the status was.                            *)
Mark(c) ==
  /\ sender[c].step = "mark" /\ Stop(c)
  /\ \/ lead' = [lead EXCEPT ![sender[c].on].status = "outreach_sent"] /\ Fine
     \/ Fault /\ UNCHANGED lead
  /\ SenderOnly /\ UNCHANGED posted
Cut(c) == sender[c] # Idle /\ Stop(c) /\ Fault /\ SenderOnly /\ UNCHANGED <<lead, posted>>

-----------------------------------------------------------------------------
CommandOnly == Fine /\ UNCHANGED <<sender, posted, runs, printed>>

(* close_won, one transaction: the lead takes the amount, the phase adds   *)
(* it, and is complete when it reaches its goal.                           *)
CloseWon(l, amount) ==
  /\ l \in Added /\ Asked
  /\ lead' = [lead EXCEPT ![l].status = "won", ![l].realized = amount]
  /\ LET sum == phase.realized + amount IN
     phase' = [realized |-> sum, status |-> IF sum >= Goal THEN "complete" ELSE phase.status]
  /\ wins' = [wins EXCEPT ![l] = @ + 1]
  /\ CommandOnly
ActivatePhase ==
  /\ phase.status = "pending"
  /\ phase' = [phase EXCEPT !.status = "active"]
  /\ CommandOnly /\ UNCHANGED <<lead, wins, requests>>

Next ==
  \/ \E c \in Company : Start(c) \/ AddByHand(c) \/ Post(c) \/ Mark(c) \/ Cut(c)
  \/ \E l \in Id, amount \in Amount : CloseWon(l, amount)
  \/ ActivatePhase

-----------------------------------------------------------------------------
(* The webhook hears of a company at most once for each run it was in.     *)
(* The phase has realized what its leads did, unless a lead was closed     *)
(* more than once, and is complete when that reaches its goal.             *)
EffectsOnce ==
  /\ \A c \in Company : Cardinality({l \in posted : lead[l].company = {c}}) <= runs[c]
  /\ (\A l \in Id : wins[l] <= 1) =>
       phase.realized = MapThenSumSet(LAMBDA l : lead[l].realized, Id)
  /\ phase.status = "complete" <=> phase.realized >= Goal

(* A lead marked as sent was posted or printed.  One that was posted is    *)
(* marked or won, or about to be, unless an operation failed; and one that *)
(* was won says so, unless it was won while its outreach was under way.    *)
NothingLost ==
  \A l \in Added :
    /\ lead[l].status = "outreach_sent" => l \in posted \cup printed
    /\ l \in posted /\ lead[l].status = "prospecting" =>
         faults > 0 \/ \E c \in Company : sender[c] = [step |-> "mark", on |-> l]
    /\ wins[l] > 0 /\ l \notin posted \cup printed => lead[l].status = "won"
=============================================================================
