------------------------------ MODULE Outreach ------------------------------
(***************************************************************************)
(* lib/outreach/orchestrator.ts on the collection of lib/outreach/store.ts: *)
(* a message is queued, approved by a person, and sent through Gmail.      *)
(*                                                                         *)
(* Each request reads the message in one operation and updates it in       *)
(* another, by its id alone, so requests for one message may cross.  The   *)
(* notifications (notify.ts) never reject and are left out.                *)
(***************************************************************************)
EXTENDS Naturals

CONSTANTS
  Message,       \* the ids of messages
  Request,       \* the requests that may be under way at once
  MaxRequests,   \* bound on requests, the first of each message aside
  MaxFaults      \* bound on lost answers, updates that raise and requests that are cut off

(* Assumed of the constants, in Services.                                  *)
OutreachBounds == {MaxRequests, MaxFaults} \subseteq Nat

VARIABLES
  message,     \* the status of each message
  request,     \* the requests under way
  mails,       \* mails Gmail sent for each message: 0, 1, or more
  requests, faults, \* what the bounds count
  approvals,   \* auxiliary: approvals written for each message
  crossed,     \* auxiliary: messages that two requests had at once
  unnoted      \* auxiliary: messages mailed, or taken, with the outcome not written

vars == <<message, request, mails, requests, faults, approvals, crossed, unnoted>>

Status == {"none", "queued", "approved", "sending", "sent", "failed"}

TypeOK ==
  /\ message \in [Message -> Status]
  /\ request \in [Request -> [step : {"off", "approve", "take", "mail", "sent", "failed"},
                              on : SUBSET Message]]
  /\ \A r \in Request : \A m \in request[r].on : message[m] # "none"
  /\ mails \in [Message -> 0..2] /\ approvals \in [Message -> 0..MaxRequests]
  /\ requests \in 0..MaxRequests /\ faults \in 0..MaxFaults
  /\ crossed \subseteq Message /\ unnoted \subseteq Message

NoRequest == [step |-> "off", on |-> {}]

Init ==
  /\ message = [m \in Message |-> "none"]
  /\ request = [r \in Request |-> NoRequest]
  /\ mails = [m \in Message |-> 0] /\ approvals = [m \in Message |-> 0]
  /\ requests = 0 /\ faults = 0 /\ crossed = {} /\ unnoted = {}

Fine == UNCHANGED faults
Fault == faults < MaxFaults /\ faults' = faults + 1

At(r, m, step) == request[r].step = step /\ m \in request[r].on
Goto(r, step) == request' = [request EXCEPT ![r] = IF step = "off" THEN NoRequest
                                                   ELSE [@ EXCEPT !.step = step]]
Write(m, status) == message' = [message EXCEPT ![m] = status]

QueueMessage(m) ==
  /\ message[m] = "none" /\ Write(m, "queued")
  /\ UNCHANGED <<request, mails, requests, faults, approvals, crossed, unnoted>>

(* The findOne of a request, which goes on to its first update.            *)
Reads(r, m, step) ==
  /\ request[r].step = "off" /\ requests < MaxRequests /\ requests' = requests + 1
  /\ request' = [request EXCEPT ![r] = [step |-> step, on |-> {m}]]
  /\ crossed' = IF \E o \in Request : m \in request[o].on THEN crossed \cup {m} ELSE crossed
  /\ UNCHANGED <<message, mails, faults, approvals, unnoted>>

ReadToApprove(r, m) == message[m] \notin {"none", "sent"} /\ Reads(r, m, "approve")

ReadToSend(r, m) == message[m] = "approved" /\ Reads(r, m, "take")

Approve(r, m) ==
  /\ At(r, m, "approve") /\ Goto(r, "off")
  /\ \/ Write(m, "approved") /\ approvals' = [approvals EXCEPT ![m] = @ + 1] /\ Fine
     \/ UNCHANGED <<message, approvals>> /\ Fault
  /\ UNCHANGED <<mails, requests, crossed, unnoted>>

Take(r, m) ==
  /\ At(r, m, "take")
  /\ \/ Write(m, "sending") /\ Goto(r, "mail") /\ Fine
     \/ Goto(r, "off") /\ UNCHANGED message /\ Fault
  /\ UNCHANGED <<mails, requests, approvals, crossed, unnoted>>

(* sendGmailMessage: sent, sent with its answer lost, or refused.          *)
Mail(r, m) ==
  /\ At(r, m, "mail")
  /\ \/ /\ mails' = [mails EXCEPT ![m] = IF @ < 2 THEN @ + 1 ELSE 2]
        /\ \/ Goto(r, "sent") /\ Fine /\ UNCHANGED unnoted
           \/ Goto(r, "failed") /\ Fault /\ unnoted' = unnoted \cup {m}
     \/ Goto(r, "failed") /\ Fine /\ UNCHANGED <<mails, unnoted>>
  /\ UNCHANGED <<message, requests, approvals, crossed>>

NoteSent(r, m) ==
  /\ At(r, m, "sent")
  /\ \/ Write(m, "sent") /\ Goto(r, "off") /\ Fine /\ UNCHANGED unnoted
     \/ Goto(r, "failed") /\ Fault /\ unnoted' = unnoted \cup {m} /\ UNCHANGED message
  /\ UNCHANGED <<mails, requests, approvals, crossed>>

NoteFailed(r, m) ==
  /\ At(r, m, "failed") /\ Goto(r, "off")
  /\ \/ Write(m, "failed") /\ Fine /\ UNCHANGED unnoted
     \/ Fault /\ unnoted' = unnoted \cup {m} /\ UNCHANGED message
  /\ UNCHANGED <<mails, requests, approvals, crossed>>

(* A request is cut off with the process that serves it.                   *)
CutOff(r) ==
  /\ request[r].step # "off" /\ Goto(r, "off") /\ Fault
  /\ unnoted' = IF request[r].step \in {"mail", "sent", "failed"} THEN unnoted \cup request[r].on
                ELSE unnoted
  /\ UNCHANGED <<message, mails, requests, approvals, crossed>>

Next ==
  \/ \E m \in Message : QueueMessage(m)
  \/ \E r \in Request : CutOff(r) \/ \E m \in Message :
       \/ ReadToApprove(r, m) \/ ReadToSend(r, m) \/ Approve(r, m) \/ Take(r, m)
       \/ Mail(r, m) \/ NoteSent(r, m) \/ NoteFailed(r, m)

-----------------------------------------------------------------------------
(* Every mail spends an approval, and a message is mailed once unless the  *)
(* outcome of a mail was not written; requests that cross may break both.  *)
EffectsOnce ==
  \A m \in Message : m \in crossed \/
    /\ mails[m] <= approvals[m]
    /\ mails[m] > 1 => m \in unnoted

(* A message that was mailed is sent, one that is sent was mailed, and one *)
(* that is sending has a request that will say how it ended.               *)
NothingLost ==
  \A m \in Message : m \in crossed \cup unnoted \/
    /\ mails[m] > 0 => message[m] = "sent" \/ \E r \in Request : At(r, m, "sent")
    /\ message[m] = "sent" => mails[m] > 0
    /\ message[m] = "sending"
         => \E r \in Request, step \in {"mail", "sent", "failed"} : At(r, m, step)
=============================================================================
