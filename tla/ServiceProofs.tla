--------------------------- MODULE ServiceProofs ----------------------------
(***************************************************************************)
(* The promises of nine of the services, each proved of the machine that   *)
(* Services follows: the swarm, the outreach, the checkout, the edge       *)
(* failover, the proof of publication, the cycles of the distiller, the    *)
(* cluster master, the hypervisor's pipeline and the payment mesh, under   *)
(* the names and with the renamed variables they have there.  Each has an  *)
(* inductive invariant, one lemma per action, and at the end a theorem for *)
(* every value of its constants.                                           *)
(***************************************************************************)
EXTENDS Naturals, FiniteSets, FiniteSetTheorems, TLAPS

CONSTANTS
  Query, Message, Request, Session, Handler,
  EdgeEvent, EdgePayload, NoPayload, Command, Caller, Run,
  Task, TaskRetries, LastRow, Process, Feed, FewFaults,
  Node, Cycle, MaxRetries, FailureThreshold, SuccessThreshold,
  MaxIngests, MaxRequests, MaxFaults, EdgeFaults

VARIABLES
  batch, cloud, node, result, ran, unheard, severed,
  message, request, mails, approvals, crossed, unnoted,
  session, stripeEvent, tx, subscription, handler, handlersMet, failed,
  event, snapshot, command, ingests, edgeFaults, dispatched, repeated, shared, unsaved,
  manifest, job, receipt, caller, callersMet,
  cache, row, accounted, run, answers, paid, runsMet, interrupted, stale,
  lane, task, deadLetter, executing, loop, effect, journal, lastRow,
  daemon, backlog, posted, doubtful, unlettered,
  feedLedger, pipeline, agent, answered, grown, overtaken,
  asset, letters, stripe, told, circuit, making, sync, raised,
  overlapped, expired, unrecorded, stranded,
  requests, faults

Swarming == INSTANCE Swarm
Mailing == INSTANCE Outreach
Pay == INSTANCE Checkout WITH event <- stripeEvent, met <- handlersMet
Edge == INSTANCE EdgeFailover WITH Event <- EdgeEvent, Payload <- EdgePayload
Proof == INSTANCE ProofPublish WITH met <- callersMet
Cycles == INSTANCE Distillation WITH met <- runsMet
Cluster == INSTANCE Eaos
Piping == INSTANCE Hypervisor WITH ledger <- feedLedger, MaxFaults <- FewFaults
Payments == INSTANCE PaymentMesh

-----------------------------------------------------------------------------
(* What the steps of the machines do to the size of a set.                 *)
LEMMA CountNone ==
  ASSUME NEW S, S = {}
  PROVE  IsFiniteSet(S) /\ Cardinality(S) = 0
BY FS_EmptySet

(* No more elements than before.                                           *)
LEMMA CountSubset ==
  ASSUME NEW S, NEW T, IsFiniteSet(S), T \subseteq S
  PROVE  /\ IsFiniteSet(T) /\ Cardinality(T) \in Nat /\ Cardinality(S) \in Nat
         /\ Cardinality(T) <= Cardinality(S)
BY FS_Subset, FS_CardinalityType

(* One more at most.                                                       *)
LEMMA CountAdd ==
  ASSUME NEW S, NEW T, NEW x, IsFiniteSet(S), T \subseteq S \cup {x}
  PROVE  /\ IsFiniteSet(T) /\ Cardinality(T) \in Nat /\ Cardinality(S) \in Nat
         /\ Cardinality(T) <= Cardinality(S) + 1
<1>1. /\ IsFiniteSet(S \cup {x})
      /\ Cardinality(S \cup {x}) = IF x \in S THEN Cardinality(S) ELSE Cardinality(S) + 1
  BY FS_AddElement
<1>2. Cardinality(S) \in Nat
  BY FS_CardinalityType
<1>3. Cardinality(S \cup {x}) <= Cardinality(S) + 1 /\ Cardinality(S \cup {x}) \in Nat
  BY <1>1, <1>2
<1>4. IsFiniteSet(T) /\ Cardinality(T) <= Cardinality(S \cup {x}) /\ Cardinality(T) \in Nat
  BY <1>1, CountSubset
<1>5. QED
  BY <1>2, <1>3, <1>4

(* One less at least.                                                      *)
LEMMA CountRemove ==
  ASSUME NEW S, NEW T, NEW x \in S, IsFiniteSet(S), T \subseteq S \ {x}
  PROVE  /\ IsFiniteSet(T) /\ Cardinality(T) \in Nat /\ Cardinality(S) \in Nat
         /\ Cardinality(T) + 1 <= Cardinality(S)
<1>1. IsFiniteSet(S \ {x}) /\ Cardinality(S \ {x}) = Cardinality(S) - 1
  <2>1. /\ IsFiniteSet(S \ {x})
        /\ Cardinality(S \ {x}) = IF x \in S THEN Cardinality(S) - 1 ELSE Cardinality(S)
    BY FS_RemoveElement
  <2>2. QED
    BY <2>1
<1>2. Cardinality(S) \in Nat
  BY FS_CardinalityType
<1>3. IsFiniteSet(T) /\ Cardinality(T) <= Cardinality(S \ {x}) /\ Cardinality(T) \in Nat
  BY <1>1, CountSubset
<1>4. QED
  BY <1>1, <1>2, <1>3

(* A bounded count that goes up, or stays.                                 *)
LEMMA CountUp ==
  ASSUME NEW m \in Nat, NEW n \in 0..m, NEW k, k = n \/ (n < m /\ k = n + 1)
  PROVE  k \in 0..m
OBVIOUS

-----------------------------------------------------------------------------
(* The swarm.                                                              *)

(* A query that was not executed has no status, and once it has one it is  *)
(* that of its execution; only a sandbox that was lost lets it run again.  *)
SwarmQuery(q) ==
  /\ node[q].step \in {"off", "infer", "asking", "sandbox"} => ran[q] = 0
  /\ node[q].step = "local" => ran[q] = 0 \/ (ran[q] = 1 /\ q \in unheard)
  /\ node[q].step = "done" => result[q] # "none" /\ (result[q] = "rejected" <=> ran[q] = 0)
  /\ ran[q] > 1 => q \in unheard
  /\ node[q].step = "local" /\ node[q].source = "cloud" => faults > 0 \/ (q \in severed /\ ~cloud)

SwarmInv ==
  /\ Swarming!TypeOK
  /\ \A q \in Query : SwarmQuery(q)
  /\ batch = "off" => \A q \in Query : node[q].step = "off"
  /\ batch = "returned" => \A q \in Query : node[q].step = "done"
  /\ batch = "raised" => faults > 0

(* It holds at first.                                                      *)
LEMMA SwarmInit == MaxFaults \in Nat /\ Swarming!Init => SwarmInv
BY DEF Swarming!Init, SwarmInv, Swarming!TypeOK, SwarmQuery

(* It says what was asked.                                                 *)
LEMMA SwarmSays == SwarmInv => Swarming!TypeOK /\ Swarming!EffectsOnce /\ Swarming!NothingLost
BY DEF SwarmInv, SwarmQuery, Swarming!EffectsOnce, Swarming!NothingLost

(* What the step of one query does to it, and that it leaves the others.   *)
SwarmMove(q) ==
  /\ batch = "running" /\ batch' = "running" /\ faults' \in {faults, faults + 1} \cap 0..MaxFaults
  /\ node' = [node EXCEPT ![q] = node'[q]]
  /\ ran' = [ran EXCEPT ![q] = ran'[q]] /\ ran'[q] \in 0..2
  /\ result' = [result EXCEPT ![q] = result'[q]]
  /\ result'[q] \in {"none", "success", "failed", "rejected"}
  /\ node'[q] \in [step : {"infer", "asking", "sandbox", "local", "done"},
                   source : {"none", "cloud", "local"}]
  /\ node'[q].step \in {"sandbox", "local"} => node'[q].source # "none"
  /\ cloud' \in BOOLEAN /\ (cloud' => cloud)
  /\ severed' \in {severed, severed \cup {q}} /\ unheard' \in {unheard, unheard \cup {q}}
  /\ SwarmQuery(q)'

(* Whatever does no more keeps the invariant.                              *)
LEMMA SwarmMoves ==
  ASSUME MaxFaults \in Nat, SwarmInv, NEW q \in Query, SwarmMove(q)
  PROVE  SwarmInv'
<1>1. \A p \in Query : p # q => node'[p] = node[p] /\ ran'[p] = ran[p] /\ result'[p] = result[p]
  BY DEF SwarmInv, Swarming!TypeOK, SwarmMove
<1>2. Swarming!TypeOK'
  BY DEF SwarmInv, Swarming!TypeOK, SwarmMove
<1>3. SwarmQuery(q)'
  BY DEF SwarmMove
<1>4. ASSUME NEW p \in Query, p # q PROVE SwarmQuery(p)'
  BY <1>1, <1>4 DEF SwarmInv, SwarmQuery, Swarming!TypeOK, SwarmMove
<1>5. QED
  BY <1>2, <1>3, <1>4 DEF SwarmInv, SwarmMove

(* Every step keeps it.                                                    *)
LEMMA SwarmStep ==
  ASSUME MaxFaults \in Nat, SwarmInv, Swarming!Next
  PROVE  SwarmInv'
<1>1. ASSUME batch' \in {"returned", "raised"}, UNCHANGED <<cloud, node, result, severed, ran, unheard>>,
             batch' = "returned" => \A q \in Query : node[q].step = "done",
             batch' = "raised" => faults' > 0, faults' \in 0..MaxFaults, faults' \in {faults, faults + 1}
      PROVE  SwarmInv'
  BY <1>1 DEF SwarmInv, Swarming!TypeOK, SwarmQuery
<1>2. CASE Swarming!Begin
  BY <1>2 DEF Swarming!Begin, Swarming!Fine, Swarming!NotExecuted, SwarmInv, Swarming!TypeOK,
     SwarmQuery
<1>3. CASE Swarming!Gather
  BY <1>1, <1>3 DEF Swarming!Gather, Swarming!Fine, Swarming!NotExecuted, SwarmInv, Swarming!TypeOK
<1>4. ASSUME NEW q \in Query PROVE Swarming!Raise(q) => SwarmInv'
  BY <1>1 DEF Swarming!Raise, Swarming!Fault, Swarming!NotExecuted, SwarmInv, Swarming!TypeOK
<1>5. ASSUME NEW q \in Query,
             Swarming!Infer(q) \/ Swarming!Plan(q) \/ Swarming!Reject(q) \/ Swarming!Sever(q) \/ Swarming!Sandbox(q) \/ Swarming!SandboxRaises(q)
             \/ Swarming!Subprocess(q)
      PROVE  SwarmInv'
  <2>1. /\ node[q] \in [step : {"off", "infer", "asking", "sandbox", "local", "done"},
                        source : {"none", "cloud", "local"}]
        /\ node[q].step \in {"sandbox", "local"} => node[q].source # "none"
        /\ ran[q] \in 0..2 /\ SwarmQuery(q) /\ batch = "running"
        /\ result[q] \in {"none", "success", "failed", "rejected"} /\ faults \in 0..MaxFaults
        /\ cloud \in BOOLEAN
        /\ ran = [ran EXCEPT ![q] = ran[q]] /\ result = [result EXCEPT ![q] = result[q]]
    BY <1>5 DEF SwarmInv, Swarming!TypeOK, Swarming!Infer, Swarming!Plan, Swarming!Reject,
       Swarming!Sever, Swarming!Sandbox, Swarming!SandboxRaises, Swarming!Subprocess, Swarming!At
  <2>2. SwarmMove(q)
    <3> USE DEF SwarmMove, Swarming!At, Swarming!Return, Swarming!Fine, Swarming!Fault,
       Swarming!NotExecuted, SwarmQuery
    <3>1. \A step, source : Swarming!Goto(q, step, source) =>
            /\ node'[q] = [step |-> step, source |-> source]
            /\ node' = [node EXCEPT ![q] = node'[q]]
      BY DEF Swarming!Goto, SwarmInv, Swarming!TypeOK
    <3>2. \A k \in 0..2 : ran' = [ran EXCEPT ![q] = k] => ran'[q] = k /\ ran' = [ran EXCEPT ![q] = ran'[q]]
      BY DEF SwarmInv, Swarming!TypeOK
    <3>3. CASE Swarming!Infer(q)
      <4>1. Swarming!Goto(q, "asking", "none") \/ Swarming!Goto(q, "local", "local")
        BY <3>3 DEF Swarming!Infer
      <4>2. /\ node'[q] \in {[step |-> "asking", source |-> "none"], [step |-> "local", source |-> "local"]}
            /\ node' = [node EXCEPT ![q] = node'[q]]
        BY <4>1, <3>1
      <4>3. severed' \in {severed, severed \cup {q}} /\ cloud' = cloud
        BY <3>3 DEF Swarming!Infer
      <4>4. UNCHANGED <<faults, ran, unheard, batch, result>> /\ node[q].step = "infer"
        BY <3>3 DEF Swarming!Infer
      <4>5. QED
        BY <2>1, <4>2, <4>3, <4>4
    <3>4. CASE Swarming!Plan(q)
      <4>1. \E step \in {"sandbox", "local"}, source \in {"cloud", "local"} :
              /\ Swarming!Goto(q, step, source)
              /\ step = "local" => q \in severed' /\ ~cloud'
        BY <3>4 DEF Swarming!Plan, Swarming!Where, Swarming!ParsedPlan
      <4>2. /\ severed' \in {severed, severed \cup {q}} /\ cloud' = cloud
            /\ UNCHANGED <<faults, ran, unheard, batch, result>> /\ node[q].step = "asking"
        BY <3>4 DEF Swarming!Plan
      <4>3. PICK step \in {"sandbox", "local"}, source \in {"cloud", "local"} :
              /\ Swarming!Goto(q, step, source)
              /\ step = "local" => q \in severed' /\ ~cloud'
        BY <4>1
      <4>4. node'[q] = [step |-> step, source |-> source] /\ node' = [node EXCEPT ![q] = node'[q]]
        BY <4>3, <3>1
      <4>5. QED
        BY <2>1, <4>2, <4>3, <4>4
    <3>5. CASE Swarming!Reject(q)
      BY <2>1, <3>1, <3>2, <3>5 DEF Swarming!Reject, SwarmInv, Swarming!TypeOK
    <3>6. CASE Swarming!Sever(q)
      <4>1. /\ node'[q] = [step |-> "local", source |-> "local"]
            /\ node' = [node EXCEPT ![q] = node'[q]]
            /\ severed' = severed \cup {q} /\ q \in severed'
            /\ UNCHANGED <<faults, ran, unheard, batch, result>> /\ node[q].step = "asking"
        BY <3>1, <3>6 DEF Swarming!Sever
      <4>2. cloud' \in BOOLEAN /\ (cloud' => cloud) /\ ~cloud'
        BY <3>6 DEF Swarming!Sever
      <4>3. QED
        BY <2>1, <4>1, <4>2
    <3>7. CASE Swarming!Sandbox(q)
      BY <2>1, <3>1, <3>2, <3>7 DEF Swarming!Sandbox, Swarming!Executed, SwarmInv, Swarming!TypeOK
    <3>8. CASE Swarming!SandboxRaises(q)
      <4>1. /\ node'[q] = [step |-> "local", source |-> node[q].source]
            /\ node' = [node EXCEPT ![q] = node'[q]]
            /\ faults' > 0 /\ faults' \in 0..MaxFaults /\ faults' = faults + 1
            /\ UNCHANGED <<severed, cloud, batch, result>> /\ node[q].step = "sandbox"
        BY <2>1, <3>1, <3>8 DEF Swarming!SandboxRaises
      <4>2. /\ ran' = [ran EXCEPT ![q] = ran'[q]] /\ ran'[q] \in 0..1
            /\ unheard' \in {unheard, unheard \cup {q}}
            /\ ran'[q] = 0 \/ (ran'[q] = 1 /\ q \in unheard')
        <5>1. ran[q] = 0 /\ (UNCHANGED <<ran, unheard>> \/ (Swarming!Executed(q) /\ unheard' = unheard \cup {q}))
          BY <2>1, <3>8 DEF Swarming!SandboxRaises
        <5>2. Swarming!Executed(q) => ran' = [ran EXCEPT ![q] = 1] /\ 1 \in 0..2
          BY <5>1 DEF Swarming!Executed
        <5>3. QED
          BY <2>1, <3>2, <5>1, <5>2
      <4>3. QED
        BY <2>1, <4>1, <4>2
    <3>9. CASE Swarming!Subprocess(q)
      BY <2>1, <3>1, <3>2, <3>9 DEF Swarming!Subprocess, Swarming!Executed, SwarmInv,
         Swarming!TypeOK
    <3>10. QED
      BY <1>5, <3>3, <3>4, <3>5, <3>6, <3>7, <3>8, <3>9
  <2>3. QED
    BY <2>2, SwarmMoves
<1>6. QED
  BY <1>2, <1>3, <1>4, <1>5 DEF Swarming!Next

(* A step of another service leaves it.                                    *)
LEMMA SwarmRests == SwarmInv /\ UNCHANGED <<Swarming!swarm, faults>> => SwarmInv'
BY DEF SwarmInv, Swarming!TypeOK, SwarmQuery, Swarming!swarm

(* A plan runs once unless the sandbox was lost after it ran, and a batch  *)
(* that returns has a status of every query.                               *)
THEOREM SwarmKeeps ==
  ASSUME MaxFaults \in Nat
  PROVE  Swarming!Init /\ [][Swarming!Next]_<<Swarming!swarm, faults>> =>
           [](Swarming!TypeOK /\ Swarming!EffectsOnce /\ Swarming!NothingLost)
<1>1. Swarming!Init => SwarmInv
  BY SwarmInit
<1>2. SwarmInv /\ [Swarming!Next]_<<Swarming!swarm, faults>> => SwarmInv'
  BY SwarmStep, SwarmRests
<1>3. SwarmInv => Swarming!TypeOK /\ Swarming!EffectsOnce /\ Swarming!NothingLost
  BY SwarmSays
<1>4. QED
  BY <1>1, <1>2, <1>3, PTL

-----------------------------------------------------------------------------
(* The outreach.                                                           *)

(* The requests that may still write an approval of a message.             *)
MailApproving(m) == {r \in Request : Mailing!At(r, m, "approve")}

(* Each request has one message, and each approval was asked for.          *)
MailAsked(m) ==
  IsFiniteSet(MailApproving(m)) /\ approvals[m] + Cardinality(MailApproving(m)) <= requests

(* What holds of a message that no two requests had at once: one that is   *)
(* approved, or about to be mailed, has an approval that no mail spent.    *)
MailAlone(m) ==
  /\ \A r, o \in Request : m \in request[r].on \cap request[o].on => r = o
  /\ \A r \in Request :
       /\ Mailing!At(r, m, "approve") => message[m] \notin {"none", "sent"}
       /\ Mailing!At(r, m, "take") => message[m] = "approved"
       /\ Mailing!At(r, m, "mail") => message[m] = "sending" /\ mails[m] < approvals[m]
       /\ Mailing!At(r, m, "sent") => message[m] = "sending" /\ mails[m] > 0
       /\ Mailing!At(r, m, "failed") => message[m] = "sending"
  /\ mails[m] <= approvals[m]
  /\ message[m] = "approved" => mails[m] < approvals[m]
  /\ message[m] = "sent" => mails[m] > 0
  /\ mails[m] > 1 => m \in unnoted
  /\ m \notin unnoted =>
       /\ mails[m] > 0 => message[m] = "sent" \/ \E r \in Request : Mailing!At(r, m, "sent")
       /\ message[m] = "sending"
            => \E r \in Request : Mailing!At(r, m, "mail") \/ Mailing!At(r, m, "sent") \/ Mailing!At(r, m, "failed")

OutreachInv ==
  /\ Mailing!TypeOK
  /\ \A r \in Request : IF request[r].step = "off" THEN request[r].on = {}
                        ELSE \E m \in Message : request[r].on = {m}
  /\ \A m \in Message : MailAsked(m)
  /\ \A m \in Message \ crossed : MailAlone(m)

(* It holds at first.                                                      *)
LEMMA OutreachInit == Mailing!OutreachBounds /\ Mailing!Init => OutreachInv
<1> SUFFICES ASSUME Mailing!OutreachBounds, Mailing!Init PROVE OutreachInv
  OBVIOUS
<1>5. \A r \in Request : request[r].step = "off" /\ request[r].on = {}
  BY DEF Mailing!Init, Mailing!NoRequest
<1>1. \A m \in Message : MailApproving(m) = {}
  BY <1>5 DEF MailApproving, Mailing!At
<1>2. \A m \in Message : MailAsked(m)
  <2>1. ASSUME NEW m \in Message PROVE MailAsked(m)
    <3>1. IsFiniteSet(MailApproving(m)) /\ Cardinality(MailApproving(m)) = 0
      BY <1>1, CountNone
    <3>2. approvals[m] = 0 /\ requests = 0
      BY DEF Mailing!Init
    <3>3. QED
      BY <3>1, <3>2 DEF MailAsked
  <2>2. QED
    BY <2>1
<1>3. \A m \in Message : MailAlone(m)
  <2>1. ASSUME NEW m \in Message PROVE MailAlone(m)
    <3>1. message[m] = "none" /\ mails[m] = 0 /\ approvals[m] = 0
      BY DEF Mailing!Init
    <3>2. QED
      BY <1>5, <3>1 DEF MailAlone, Mailing!At
  <2>2. QED
    BY <2>1
<1>4. Mailing!TypeOK
  <2>1. Mailing!NoRequest \in [step : {"off", "approve", "take", "mail", "sent", "failed"}, on : SUBSET Message]
    BY DEF Mailing!NoRequest
  <2>2. QED
    BY <1>5, <2>1 DEF Mailing!TypeOK, Mailing!Init, Mailing!OutreachBounds, Mailing!Status
<1>6. QED
  BY <1>2, <1>3, <1>4, <1>5 DEF OutreachInv

(* It says what was asked.                                                 *)
LEMMA OutreachSays == OutreachInv => Mailing!TypeOK /\ Mailing!EffectsOnce /\ Mailing!NothingLost
BY DEF OutreachInv, MailAlone, Mailing!EffectsOnce, Mailing!NothingLost

(* A step of another service leaves it.                                    *)
LEMMA OutreachRests == OutreachInv /\ UNCHANGED Mailing!vars => OutreachInv'
BY DEF OutreachInv, Mailing!TypeOK, MailAsked, MailApproving, MailAlone, Mailing!At, Mailing!vars

(* The step of a request r touches its message m only.                     *)
MailTouches(r, m) ==
  /\ request' = [request EXCEPT ![r] = request'[r]]
  /\ request[r].on \subseteq {m} /\ request'[r].on \subseteq {m}
  /\ message' = [message EXCEPT ![m] = message'[m]]
  /\ mails' = [mails EXCEPT ![m] = mails'[m]]
  /\ approvals' = [approvals EXCEPT ![m] = approvals'[m]]
  /\ crossed' \in {crossed, crossed \cup {m}}
  /\ unnoted' \in {unnoted, unnoted \cup {m}}

(* The types and the shape of its request.                                 *)
MailTyped(r, m) ==
  /\ request'[r] \in [step : {"off", "approve", "take", "mail", "sent", "failed"},
                      on : SUBSET Message]
  /\ IF request'[r].step = "off" THEN request'[r].on = {} ELSE request'[r].on = {m}
  /\ message'[m] \in Mailing!Status \ {"none"}
  /\ mails'[m] \in 0..2
  /\ requests' \in {requests, requests + 1} \cap 0..MaxRequests
  /\ faults' \in {faults, faults + 1} \cap 0..MaxFaults

(* The approvals it counts.                                                *)
MailCounts(r, m) ==
  \/ requests' = requests + 1 /\ approvals'[m] = approvals[m]
  \/ requests' = requests /\ approvals'[m] = approvals[m] /\ request'[r].step # "approve"
  \/ /\ requests' = requests /\ approvals'[m] = approvals[m] + 1
     /\ Mailing!At(r, m, "approve") /\ request'[r].step # "approve"

(* The other messages keep what they have, and the approvals are counted.  *)
LEMMA OutreachTouches ==
  ASSUME Mailing!OutreachBounds, OutreachInv, NEW r \in Request, NEW m \in Message,
         MailTouches(r, m), MailTyped(r, m), MailCounts(r, m), m \notin crossed' => MailAlone(m)'
  PROVE  OutreachInv'
<1>1. /\ \A o \in Request : o # r => request'[o] = request[o]
      /\ \A k \in Message : k # m => message'[k] = message[k] /\ mails'[k] = mails[k]
                                     /\ approvals'[k] = approvals[k]
      /\ requests \in Nat /\ requests' \in Nat /\ \A k \in Message : approvals[k] \in Nat
  BY DEF OutreachInv, Mailing!TypeOK, MailTouches, Mailing!OutreachBounds, MailTyped
<1>2. ASSUME NEW k \in Message \ crossed', k # m PROVE MailAlone(k)'
  <2>1. k \notin crossed /\ (k \in unnoted' <=> k \in unnoted)
    BY <1>2 DEF MailTouches
  <2>2. \A o \in Request : k \in request'[o].on <=> k \in request[o].on
    BY <1>1, <1>2 DEF MailTouches
  <2>3. \A o \in Request : k \in request'[o].on => request'[o] = request[o]
    BY <1>1, <1>2 DEF MailTouches
  <2>4. \A o \in Request : \A s : Mailing!At(o, k, s)' <=> Mailing!At(o, k, s)
    BY <2>2, <2>3 DEF Mailing!At
  <2>5. MailAlone(k)
    BY <2>1 DEF OutreachInv
  <2>6. QED
    BY <1>1, <1>2, <2>1, <2>2, <2>4, <2>5 DEF MailAlone
<1>3. ASSUME NEW k \in Message PROVE MailAsked(k)' /\ approvals'[k] \in 0..MaxRequests
  <2>1. MailAsked(k) /\ approvals[k] \in Nat /\ Cardinality(MailApproving(k)) \in Nat
    BY FS_CardinalityType, <1>1 DEF OutreachInv, MailAsked
  <2>2. MailApproving(k)' \subseteq MailApproving(k) \cup {r}
    BY <1>1 DEF MailApproving, Mailing!At
  <2>3. CASE k = m /\ approvals'[m] = approvals[m] + 1
    <3>1. MailApproving(m)' = MailApproving(m) \ {r} /\ r \in MailApproving(m) /\ requests' = requests
      BY <1>1, <2>3 DEF MailApproving, Mailing!At, MailCounts
    <3>2. /\ IsFiniteSet(MailApproving(m)') /\ Cardinality(MailApproving(m)') \in Nat
          /\ Cardinality(MailApproving(m)') + 1 <= Cardinality(MailApproving(m))
      BY <2>1, <2>3, <3>1, CountRemove DEF MailAsked
    <3>3. approvals'[m] + Cardinality(MailApproving(m)') <= requests'
      BY <1>1, <2>1, <2>3, <3>1, <3>2 DEF MailAsked
    <3>4. QED
      BY <1>1, <2>1, <2>3, <3>2, <3>3 DEF MailAsked, MailTyped, Mailing!OutreachBounds
  <2>4. CASE approvals'[k] = approvals[k] /\ requests' = requests + 1
    <3>1. IsFiniteSet(MailApproving(k)') /\ Cardinality(MailApproving(k)') <= Cardinality(MailApproving(k)) + 1
          /\ Cardinality(MailApproving(k)') \in Nat
      BY <2>1, <2>2, CountAdd DEF MailAsked
    <3>2. QED
      BY <1>1, <2>1, <2>4, <3>1 DEF MailTyped, Mailing!OutreachBounds, MailAsked
  <2>5. CASE approvals'[k] = approvals[k] /\ requests' = requests /\ (k = m => request'[r].step # "approve")
    <3>1. MailApproving(k)' \subseteq MailApproving(k)
      BY <1>1, <2>5 DEF MailApproving, Mailing!At, MailTouches
    <3>2. IsFiniteSet(MailApproving(k)') /\ Cardinality(MailApproving(k)') <= Cardinality(MailApproving(k))
          /\ Cardinality(MailApproving(k)') \in Nat
      BY <2>1, <3>1, CountSubset DEF MailAsked
    <3>3. QED
      BY <1>1, <2>1, <2>5, <3>2 DEF MailTyped, Mailing!OutreachBounds, MailAsked
  <2>6. QED
    BY <1>1, <2>3, <2>4, <2>5 DEF MailCounts, MailTyped
<1>4. Mailing!TypeOK'
  <2>1. request' \in [Request -> [step : {"off", "approve", "take", "mail", "sent", "failed"},
                                  on : SUBSET Message]]
        /\ message' \in [Message -> Mailing!Status] /\ mails' \in [Message -> 0..2]
    BY DEF OutreachInv, Mailing!TypeOK, MailTouches, MailTyped
  <2>2. approvals' \in [Message -> 0..MaxRequests]
    BY <1>3 DEF OutreachInv, Mailing!TypeOK, MailTouches
  <2>3. \A o \in Request : \A k \in request'[o].on : message'[k] # "none"
    BY <1>1 DEF OutreachInv, Mailing!TypeOK, MailTouches, MailTyped
  <2>4. requests' \in 0..MaxRequests /\ faults' \in 0..MaxFaults
        /\ crossed' \subseteq Message /\ unnoted' \subseteq Message
    BY DEF OutreachInv, Mailing!TypeOK, MailTouches, MailTyped
  <2>5. QED
    BY <2>1, <2>2, <2>3, <2>4 DEF Mailing!TypeOK
<1>5. \A o \in Request : IF request'[o].step = "off" THEN request'[o].on = {}
                         ELSE \E k \in Message : request'[o].on = {k}
  BY <1>1 DEF OutreachInv, MailTyped
<1>6. QED
  BY <1>2, <1>3, <1>4, <1>5 DEF OutreachInv

(* What is to be shown of a message when its only request is r.            *)
MailSettled(r, m) ==
  /\ request'[r].step = "approve" => message'[m] # "sent"
  /\ request'[r].step = "take" => message'[m] = "approved"
  /\ request'[r].step = "mail" => message'[m] = "sending" /\ mails'[m] < approvals'[m]
  /\ request'[r].step = "sent" => message'[m] = "sending" /\ mails'[m] > 0
  /\ request'[r].step = "failed" => message'[m] = "sending"
  /\ mails'[m] <= approvals'[m]
  /\ message'[m] = "approved" => mails'[m] < approvals'[m]
  /\ message'[m] = "sent" => mails'[m] > 0
  /\ mails'[m] > 1 => m \in unnoted'
  /\ m \notin unnoted' =>
       /\ mails'[m] > 0 => message'[m] = "sent" \/ request'[r].step = "sent"
       /\ message'[m] = "sending" => request'[r].step \in {"mail", "sent", "failed"}

(* It follows that the message is as Alone says.                           *)
LEMMA OutreachSettled ==
  ASSUME OutreachInv, NEW r \in Request, NEW m \in Message, MailTouches(r, m), MailTyped(r, m),
         \A o \in Request : o # r => m \notin request[o].on, MailSettled(r, m)
  PROVE  MailAlone(m)'
<1>1. \A o \in Request : o # r => m \notin request'[o].on
  BY DEF OutreachInv, Mailing!TypeOK, MailTouches
<1>2. request'[r].step # "off" => m \in request'[r].on
  BY DEF MailTyped
<1>3. \A o \in Request : \A s : Mailing!At(o, m, s)' => o = r /\ request'[r].step = s
  BY <1>1 DEF Mailing!At
<1>4. \A s : s # "off" /\ request'[r].step = s => Mailing!At(r, m, s)'
  BY <1>2 DEF Mailing!At
<1>5. message'[m] # "none"
  BY DEF MailTyped
<1>6. \A o, q \in Request : m \in request'[o].on \cap request'[q].on => o = q
  BY <1>1
<1>7. \A o \in Request :
       /\ Mailing!At(o, m, "approve")' => message'[m] \notin {"none", "sent"}
       /\ Mailing!At(o, m, "take")' => message'[m] = "approved"
       /\ Mailing!At(o, m, "mail")' => message'[m] = "sending" /\ mails'[m] < approvals'[m]
       /\ Mailing!At(o, m, "sent")' => message'[m] = "sending" /\ mails'[m] > 0
       /\ Mailing!At(o, m, "failed")' => message'[m] = "sending"
  BY <1>3, <1>5 DEF MailSettled
<1>8. m \notin unnoted' =>
       /\ mails'[m] > 0 => message'[m] = "sent" \/ \E o \in Request : Mailing!At(o, m, "sent")'
       /\ message'[m] = "sending"
            => \E o \in Request : Mailing!At(o, m, "mail")' \/ Mailing!At(o, m, "sent")' \/ Mailing!At(o, m, "failed")'
  BY <1>4 DEF MailSettled
<1>9. QED
  BY <1>6, <1>7, <1>8 DEF MailAlone, MailSettled

(* What a message owes to its only request before the step.                *)
LEMMA OutreachHad ==
  ASSUME OutreachInv, NEW r \in Request, NEW m \in Message, m \notin crossed,
         m \in request[r].on \/ \A o \in Request : m \notin request[o].on
  PROVE  /\ \A o \in Request : o # r => m \notin request[o].on
         /\ m \in request[r].on =>
              /\ request[r].step = "approve" => message[m] \notin {"none", "sent"}
              /\ request[r].step = "take" => message[m] = "approved"
              /\ request[r].step = "mail" => message[m] = "sending" /\ mails[m] < approvals[m]
              /\ request[r].step = "sent" => message[m] = "sending" /\ mails[m] > 0
              /\ request[r].step = "failed" => message[m] = "sending"
         /\ mails[m] <= approvals[m]
         /\ message[m] = "approved" => mails[m] < approvals[m]
         /\ message[m] = "sent" => mails[m] > 0
         /\ mails[m] > 1 => m \in unnoted
         /\ m \notin unnoted =>
              /\ mails[m] > 0 => message[m] = "sent" \/ request[r].step = "sent"
              /\ message[m] = "sending" => request[r].step \in {"mail", "sent", "failed"}
<1>1. MailAlone(m)
  BY DEF OutreachInv
<1>2. \A o \in Request : o # r => m \notin request[o].on
  BY <1>1 DEF MailAlone
<1>3. \A o \in Request : \A s : Mailing!At(o, m, s) => o = r /\ request[r].step = s
  BY <1>2 DEF Mailing!At
<1>4. \A s : m \in request[r].on /\ request[r].step = s => Mailing!At(r, m, s)
  BY DEF Mailing!At
<1>5. QED
  BY <1>1, <1>2, <1>3, <1>4 DEF MailAlone


(* Where a request goes.                                                   *)
LEMMA OutreachGoto ==
  ASSUME Mailing!TypeOK, NEW r \in Request, NEW m \in Message, NEW step, Mailing!Goto(r, step),
         step \in {"off", "approve", "take", "mail", "sent", "failed"}, request[r].on = {m}
  PROVE  /\ request' = [request EXCEPT ![r] = request'[r]]
         /\ request'[r] = [step |-> step, on |-> IF step = "off" THEN {} ELSE {m}]
BY DEF Mailing!TypeOK, Mailing!Goto, Mailing!NoRequest

(* A request under way steps.                                              *)
LEMMA OutreachWorks ==
  ASSUME Mailing!OutreachBounds, OutreachInv, NEW r \in Request, NEW m \in Message,
         Mailing!Approve(r, m) \/ Mailing!Take(r, m) \/ Mailing!Mail(r, m) \/ Mailing!NoteSent(r, m) \/ Mailing!NoteFailed(r, m)
  PROVE  OutreachInv'
<1> DEFINE old == request[r].step
<1>1. /\ request[r].on = {m} /\ m \in request[r].on /\ message[m] \in Mailing!Status /\ message[m] # "none"
      /\ mails[m] \in 0..2 /\ approvals[m] \in 0..MaxRequests /\ requests \in 0..MaxRequests
      /\ faults \in 0..MaxFaults /\ requests \in Nat /\ MaxFaults \in Nat /\ approvals[m] \in Nat
      /\ old # "off" /\ Mailing!TypeOK
  BY DEF OutreachInv, Mailing!TypeOK, Mailing!At, Mailing!Approve, Mailing!Take, Mailing!Mail,
     Mailing!NoteSent, Mailing!NoteFailed, Mailing!OutreachBounds
<1>2. ASSUME m \notin crossed
      PROVE  /\ \A o \in Request : o # r => m \notin request[o].on
             /\ old = "approve" => message[m] \notin {"none", "sent"}
             /\ old = "take" => message[m] = "approved"
             /\ old = "mail" => message[m] = "sending" /\ mails[m] < approvals[m]
             /\ old = "sent" => message[m] = "sending" /\ mails[m] > 0
             /\ old = "failed" => message[m] = "sending"
             /\ mails[m] <= approvals[m]
             /\ message[m] = "approved" => mails[m] < approvals[m]
             /\ message[m] = "sent" => mails[m] > 0
             /\ mails[m] > 1 => m \in unnoted
             /\ m \notin unnoted =>
                  /\ mails[m] > 0 => message[m] = "sent" \/ old = "sent"
                  /\ message[m] = "sending" => old \in {"mail", "sent", "failed"}
  BY <1>1, <1>2, OutreachHad
<1>3. \A s \in {"off", "approve", "take", "mail", "sent", "failed"} : Mailing!Goto(r, s) =>
        /\ request' = [request EXCEPT ![r] = request'[r]]
        /\ request'[r] = [step |-> s, on |-> IF s = "off" THEN {} ELSE {m}]
  BY <1>1, OutreachGoto
<1>4. \A s \in Mailing!Status : Mailing!Write(m, s) => message' = [message EXCEPT ![m] = message'[m]] /\ message'[m] = s
  BY <1>1 DEF Mailing!Write, Mailing!TypeOK
<1>5. message' = message => message' = [message EXCEPT ![m] = message'[m]] /\ message'[m] = message[m]
  BY <1>1 DEF Mailing!TypeOK
<1>6. mails' = mails => mails' = [mails EXCEPT ![m] = mails'[m]] /\ mails'[m] = mails[m]
  BY <1>1 DEF Mailing!TypeOK
<1>7. approvals' = approvals => approvals' = [approvals EXCEPT ![m] = approvals'[m]] /\ approvals'[m] = approvals[m]
  BY <1>1 DEF Mailing!TypeOK
<1>8. Mailing!Fine \/ Mailing!Fault => faults' \in {faults, faults + 1} \cap 0..MaxFaults
  BY <1>1 DEF Mailing!Fine, Mailing!Fault
<1>9. ASSUME MailTouches(r, m), MailTyped(r, m), MailCounts(r, m), m \notin crossed => MailSettled(r, m), crossed' = crossed
      PROVE  OutreachInv'
  <2>1. m \notin crossed' => MailAlone(m)'
    BY <1>2, <1>9, OutreachSettled
  <2>2. QED
    BY <1>9, <2>1, OutreachTouches
<1>10. CASE Mailing!Approve(r, m)
  <2>1. /\ Mailing!Goto(r, "off") /\ old = "approve" /\ Mailing!At(r, m, "approve")
        /\ UNCHANGED <<mails, requests, crossed, unnoted>>
        /\ \/ Mailing!Write(m, "approved") /\ approvals' = [approvals EXCEPT ![m] = @ + 1] /\ Mailing!Fine
           \/ UNCHANGED <<message, approvals>> /\ Mailing!Fault
    BY <1>10 DEF Mailing!Approve, Mailing!At
  <2>2. /\ request' = [request EXCEPT ![r] = request'[r]]
        /\ request'[r] = [step |-> "off", on |-> {}]
    BY <1>3, <2>1
  <2>3. /\ message' = [message EXCEPT ![m] = message'[m]]
        /\ approvals' = [approvals EXCEPT ![m] = approvals'[m]]
        /\ \/ message'[m] = "approved" /\ approvals'[m] = approvals[m] + 1
           \/ message'[m] = message[m] /\ approvals'[m] = approvals[m]
    BY <1>1, <1>4, <1>5, <1>7, <2>1 DEF Mailing!Status, Mailing!TypeOK
  <2>4. MailTouches(r, m)
    BY <1>1, <1>6, <2>1, <2>2, <2>3 DEF MailTouches
  <2>5. MailTyped(r, m)
    BY <1>1, <1>6, <1>8, <2>1, <2>2, <2>3 DEF MailTyped, Mailing!Status
  <2>6. MailCounts(r, m)
    BY <2>1, <2>2, <2>3 DEF MailCounts
  <2>7. m \notin crossed => MailSettled(r, m)
    BY <1>1, <1>2, <1>6, <2>1, <2>2, <2>3 DEF MailSettled
  <2>8. QED
    BY <1>9, <2>1, <2>4, <2>5, <2>6, <2>7
<1>11. CASE Mailing!Take(r, m)
  <2>1. /\ old = "take" /\ UNCHANGED <<mails, requests, approvals, crossed, unnoted>>
        /\ \/ Mailing!Write(m, "sending") /\ Mailing!Goto(r, "mail") /\ Mailing!Fine
           \/ Mailing!Goto(r, "off") /\ UNCHANGED message /\ Mailing!Fault
    BY <1>11 DEF Mailing!Take, Mailing!At
  <2>2. /\ request' = [request EXCEPT ![r] = request'[r]]
        /\ message' = [message EXCEPT ![m] = message'[m]]
        /\ \/ message'[m] = "sending" /\ request'[r] = [step |-> "mail", on |-> {m}]
           \/ message'[m] = message[m] /\ request'[r] = [step |-> "off", on |-> {}]
    BY <1>3, <1>4, <1>5, <2>1 DEF Mailing!Status
  <2>4. MailTouches(r, m)
    BY <1>1, <1>6, <1>7, <2>1, <2>2 DEF MailTouches
  <2>5. MailTyped(r, m)
    BY <1>1, <1>6, <1>8, <2>1, <2>2 DEF MailTyped, Mailing!Status
  <2>6. MailCounts(r, m)
    BY <1>7, <2>1, <2>2 DEF MailCounts
  <2>7. m \notin crossed => MailSettled(r, m)
    BY <1>1, <1>2, <1>6, <1>7, <2>1, <2>2 DEF MailSettled
  <2>8. QED
    BY <1>9, <2>1, <2>4, <2>5, <2>6, <2>7
<1>12. CASE Mailing!Mail(r, m)
  <2>1. /\ old = "mail" /\ UNCHANGED <<message, requests, approvals, crossed>>
        /\ \/ /\ mails' = [mails EXCEPT ![m] = IF @ < 2 THEN @ + 1 ELSE 2]
              /\ \/ Mailing!Goto(r, "sent") /\ Mailing!Fine /\ UNCHANGED unnoted
                 \/ Mailing!Goto(r, "failed") /\ Mailing!Fault /\ unnoted' = unnoted \cup {m}
           \/ Mailing!Goto(r, "failed") /\ Mailing!Fine /\ UNCHANGED <<mails, unnoted>>
    BY <1>12 DEF Mailing!Mail, Mailing!At
  <2>2. /\ request' = [request EXCEPT ![r] = request'[r]]
        /\ mails' = [mails EXCEPT ![m] = mails'[m]]
        /\ \/ /\ mails'[m] = IF mails[m] < 2 THEN mails[m] + 1 ELSE 2
              /\ \/ request'[r] = [step |-> "sent", on |-> {m}] /\ unnoted' = unnoted
                 \/ request'[r] = [step |-> "failed", on |-> {m}] /\ unnoted' = unnoted \cup {m}
           \/ mails'[m] = mails[m] /\ request'[r] = [step |-> "failed", on |-> {m}] /\ unnoted' = unnoted
    BY <1>1, <1>3, <1>6, <2>1 DEF Mailing!TypeOK
  <2>3. Mailing!Fine \/ Mailing!Fault
    BY <2>1
  <2>4. MailTouches(r, m)
    BY <1>1, <1>5, <1>7, <2>1, <2>2 DEF MailTouches
  <2>5. MailTyped(r, m)
    BY <1>1, <1>5, <1>8, <2>1, <2>2, <2>3 DEF MailTyped, Mailing!Status
  <2>6. MailCounts(r, m)
    BY <1>7, <2>1, <2>2 DEF MailCounts
  <2>7. m \notin crossed => MailSettled(r, m)
    BY <1>1, <1>2, <1>5, <1>7, <2>1, <2>2 DEF MailSettled
  <2>8. QED
    BY <1>9, <2>1, <2>4, <2>5, <2>6, <2>7
<1>13. CASE Mailing!NoteSent(r, m)
  <2>1. /\ old = "sent" /\ UNCHANGED <<mails, requests, approvals, crossed>>
        /\ \/ Mailing!Write(m, "sent") /\ Mailing!Goto(r, "off") /\ Mailing!Fine /\ UNCHANGED unnoted
           \/ Mailing!Goto(r, "failed") /\ Mailing!Fault /\ unnoted' = unnoted \cup {m} /\ UNCHANGED message
    BY <1>13 DEF Mailing!NoteSent, Mailing!At
  <2>2. /\ request' = [request EXCEPT ![r] = request'[r]]
        /\ message' = [message EXCEPT ![m] = message'[m]]
        /\ \/ message'[m] = "sent" /\ request'[r] = [step |-> "off", on |-> {}] /\ unnoted' = unnoted
           \/ /\ message'[m] = message[m] /\ request'[r] = [step |-> "failed", on |-> {m}]
              /\ unnoted' = unnoted \cup {m}
    BY <1>3, <1>4, <1>5, <2>1 DEF Mailing!Status
  <2>3. Mailing!Fine \/ Mailing!Fault
    BY <2>1
  <2>4. MailTouches(r, m)
    BY <1>1, <1>6, <1>7, <2>1, <2>2 DEF MailTouches
  <2>5. MailTyped(r, m)
    BY <1>1, <1>6, <1>8, <2>1, <2>2, <2>3 DEF MailTyped, Mailing!Status
  <2>6. MailCounts(r, m)
    BY <1>7, <2>1, <2>2 DEF MailCounts
  <2>7. m \notin crossed => MailSettled(r, m)
    BY <1>1, <1>2, <1>6, <1>7, <2>1, <2>2 DEF MailSettled
  <2>8. QED
    BY <1>9, <2>1, <2>4, <2>5, <2>6, <2>7
<1>14. CASE Mailing!NoteFailed(r, m)
  <2>1. /\ old = "failed" /\ Mailing!Goto(r, "off") /\ UNCHANGED <<mails, requests, approvals, crossed>>
        /\ \/ Mailing!Write(m, "failed") /\ Mailing!Fine /\ UNCHANGED unnoted
           \/ Mailing!Fault /\ unnoted' = unnoted \cup {m} /\ UNCHANGED message
    BY <1>14 DEF Mailing!NoteFailed, Mailing!At
  <2>2. /\ request' = [request EXCEPT ![r] = request'[r]]
        /\ message' = [message EXCEPT ![m] = message'[m]]
        /\ request'[r] = [step |-> "off", on |-> {}]
        /\ \/ message'[m] = "failed" /\ unnoted' = unnoted
           \/ message'[m] = message[m] /\ unnoted' = unnoted \cup {m}
    BY <1>3, <1>4, <1>5, <2>1 DEF Mailing!Status
  <2>3. Mailing!Fine \/ Mailing!Fault
    BY <2>1
  <2>4. MailTouches(r, m)
    BY <1>1, <1>6, <1>7, <2>1, <2>2 DEF MailTouches
  <2>5. MailTyped(r, m)
    BY <1>1, <1>6, <1>8, <2>1, <2>2, <2>3 DEF MailTyped, Mailing!Status
  <2>6. MailCounts(r, m)
    BY <1>7, <2>1, <2>2 DEF MailCounts
  <2>7. m \notin crossed => MailSettled(r, m)
    BY <1>1, <1>2, <1>6, <1>7, <2>1, <2>2 DEF MailSettled
  <2>8. QED
    BY <1>9, <2>1, <2>4, <2>5, <2>6, <2>7
<1>15. QED
  BY <1>10, <1>11, <1>12, <1>13, <1>14

(* A request reads a message.                                              *)
LEMMA OutreachReads ==
  ASSUME Mailing!OutreachBounds, OutreachInv, NEW r \in Request, NEW m \in Message,
         Mailing!ReadToApprove(r, m) \/ Mailing!ReadToSend(r, m)
  PROVE  OutreachInv'
<1>1. PICK s \in {"approve", "take"} :
        /\ Mailing!Reads(r, m, s) /\ message[m] # "none"
        /\ s = "approve" => message[m] # "sent"
        /\ s = "take" => message[m] = "approved"
  BY DEF Mailing!ReadToApprove, Mailing!ReadToSend
<1>2. /\ request[r].step = "off" /\ requests < MaxRequests /\ requests' = requests + 1
      /\ request' = [request EXCEPT ![r] = [step |-> s, on |-> {m}]]
      /\ crossed' = IF \E o \in Request : m \in request[o].on THEN crossed \cup {m} ELSE crossed
      /\ UNCHANGED <<message, mails, faults, approvals, unnoted>>
  BY <1>1 DEF Mailing!Reads
<1>3. /\ request[r].on = {} /\ request'[r] = [step |-> s, on |-> {m}]
      /\ request' = [request EXCEPT ![r] = request'[r]]
      /\ message = [message EXCEPT ![m] = message[m]] /\ mails = [mails EXCEPT ![m] = mails[m]]
      /\ approvals = [approvals EXCEPT ![m] = approvals[m]]
  BY <1>2 DEF OutreachInv, Mailing!TypeOK
<1>4. MailTouches(r, m)
  BY <1>2, <1>3 DEF MailTouches
<1>5. MailTyped(r, m)
  BY <1>1, <1>2, <1>3 DEF MailTyped, OutreachInv, Mailing!TypeOK, Mailing!OutreachBounds
<1>6. MailCounts(r, m)
  BY <1>2 DEF MailCounts
<1>7. ASSUME m \notin crossed' PROVE MailAlone(m)'
  <2>1. m \notin crossed /\ \A o \in Request : m \notin request[o].on
    BY <1>2, <1>7
  <2>2. MailSettled(r, m)
    BY <1>1, <1>2, <1>3, <2>1, OutreachHad DEF MailSettled
  <2>3. QED
    BY <1>4, <1>5, <2>1, <2>2, OutreachSettled
<1>8. QED
  BY <1>4, <1>5, <1>6, <1>7, OutreachTouches

(* A request is cut off.                                                   *)
LEMMA OutreachCuts ==
  ASSUME Mailing!OutreachBounds, OutreachInv, NEW r \in Request, Mailing!CutOff(r)
  PROVE  OutreachInv'
<1>1. PICK m \in Message : request[r].on = {m}
  BY DEF OutreachInv, Mailing!CutOff
<1>2. /\ request[r].step # "off" /\ Mailing!Goto(r, "off") /\ Mailing!Fault /\ Mailing!TypeOK
      /\ unnoted' = IF request[r].step \in {"mail", "sent", "failed"} THEN unnoted \cup {m} ELSE unnoted
      /\ UNCHANGED <<message, mails, requests, approvals, crossed>>
  BY <1>1 DEF Mailing!CutOff, OutreachInv
<1>3. /\ request'[r] = [step |-> "off", on |-> {}] /\ request' = [request EXCEPT ![r] = request'[r]]
      /\ faults' \in {faults, faults + 1} \cap 0..MaxFaults
      /\ message = [message EXCEPT ![m] = message[m]] /\ mails = [mails EXCEPT ![m] = mails[m]]
      /\ approvals = [approvals EXCEPT ![m] = approvals[m]]
      /\ message[m] \in Mailing!Status \ {"none"} /\ mails[m] \in 0..2 /\ requests \in 0..MaxRequests
  <2>1. /\ request'[r] = [step |-> "off", on |-> {}] /\ request' = [request EXCEPT ![r] = request'[r]]
    BY <1>1, <1>2, OutreachGoto
  <2>2. QED
    BY <1>1, <1>2, <2>1 DEF Mailing!TypeOK, Mailing!Fault, Mailing!OutreachBounds
<1>4. MailTouches(r, m)
  BY <1>1, <1>2, <1>3 DEF MailTouches
<1>5. MailTyped(r, m)
  BY <1>2, <1>3 DEF MailTyped
<1>6. MailCounts(r, m)
  BY <1>2, <1>3 DEF MailCounts
<1>7. ASSUME m \notin crossed PROVE MailAlone(m)'
  <2>1. m \in request[r].on
    BY <1>1
  <2>2. \A o \in Request : o # r => m \notin request[o].on
    BY <1>7, <2>1, OutreachHad
  <2>3. MailSettled(r, m)
    BY <1>2, <1>3, <1>7, <2>1, OutreachHad DEF MailSettled
  <2>4. QED
    BY <1>4, <1>5, <2>2, <2>3, OutreachSettled
<1>8. QED
  BY <1>2, <1>4, <1>5, <1>6, <1>7, OutreachTouches

(* Every step keeps it.                                                    *)
LEMMA OutreachStep ==
  ASSUME Mailing!OutreachBounds, OutreachInv, Mailing!Next
  PROVE  OutreachInv'
<1>1. ASSUME NEW m \in Message, Mailing!QueueMessage(m) PROVE OutreachInv'
  <2>1. /\ message[m] = "none" /\ message' = [message EXCEPT ![m] = "queued"]
        /\ UNCHANGED <<request, mails, requests, faults, approvals, crossed, unnoted>>
    BY <1>1 DEF Mailing!QueueMessage, Mailing!Write
  <2>2. /\ message'[m] = "queued" /\ \A k \in Message : k # m => message'[k] = message[k]
        /\ \A r \in Request : m \notin request[r].on
    BY <2>1 DEF OutreachInv, Mailing!TypeOK
  <2>3. \A k \in Message : MailAsked(k)'
    BY <2>1 DEF OutreachInv, MailAsked, MailApproving, Mailing!At
  <2>4. ASSUME NEW k \in Message \ crossed PROVE MailAlone(k)'
    BY <2>1, <2>2, <2>4 DEF OutreachInv, MailAlone, Mailing!At
  <2>5. Mailing!TypeOK'
    BY <2>1, <2>2 DEF OutreachInv, Mailing!TypeOK, Mailing!Status
  <2>6. QED
    BY <2>1, <2>3, <2>4, <2>5 DEF OutreachInv
<1>2. QED
  BY <1>1, OutreachCuts, OutreachReads, OutreachWorks DEF Mailing!Next

(* Every mail spends an approval, and a message is mailed once unless the  *)
(* outcome of a mail was not written; a message that was mailed is sent,   *)
(* and one that is sending has a request that says how it ended.  Only two *)
(* requests that had a message at once break it.                           *)
THEOREM OutreachKeeps ==
  ASSUME Mailing!OutreachBounds
  PROVE  Mailing!Init /\ [][Mailing!Next]_Mailing!vars =>
           [](Mailing!TypeOK /\ Mailing!EffectsOnce /\ Mailing!NothingLost)
<1>1. Mailing!Init => OutreachInv
  BY OutreachInit
<1>2. OutreachInv /\ [Mailing!Next]_Mailing!vars => OutreachInv'
  BY OutreachStep, OutreachRests
<1>3. OutreachInv => Mailing!TypeOK /\ Mailing!EffectsOnce /\ Mailing!NothingLost
  BY OutreachSays
<1>4. QED
  BY <1>1, <1>2, <1>3, PTL

-----------------------------------------------------------------------------
(* The checkout.                                                           *)

(* A session that is marked paid was granted, or a request will grant it,  *)
(* or one that would have was cut off.                                     *)
PayGranting(s) ==
  subscription[s] > 0 \/ s \in failed \/ \E h \in Handler : Pay!On(h, s, "look") \/ Pay!On(h, s, "grant")

(* A request is idle, or works on one session.                             *)
PayOneSession(h) ==
  IF handler[h].step = "off" THEN handler[h].on = {}
  ELSE handler[h].route # "none" /\ \E s \in Session : handler[h].on = {s}

(* What a request knows of the session it works on.                        *)
PayKnows(h, s) ==
  s \in handler[h].on =>
    /\ session[s] \in {"open", "paid"}
    /\ handler[h].paid => session[s] = "paid"
    /\ handler[h].route # "poll" => handler[h].paid

(* What only holds of the one request of a session.                        *)
PaySingle(h, s) ==
  s \in handler[h].on =>
    /\ \A g \in Handler : s \in handler[g].on => g = h
    /\ handler[h].step = "grant" => subscription[s] = 0
    /\ handler[h].step \in {"look", "grant"} => tx[s] \in {"none", "paid"}
    /\ handler[h].step = "update" /\ ~handler[h].paid => tx[s] \notin {"none", "paid"}

(* The records of a session agree.                                         *)
PayAgree(s) ==
  /\ stripeEvent[s] # "none" => session[s] = "paid"
  /\ subscription[s] > 0 => session[s] = "paid"
  /\ tx[s] = "paid" => PayGranting(s)
  /\ stripeEvent[s] = "acknowledged" => PayGranting(s) \/ tx[s] = "none"
  /\ s \notin handlersMet => subscription[s] <= 1 /\ (subscription[s] > 0 => tx[s] \in {"none", "paid"})

CheckoutInv ==
  /\ Pay!TypeOK
  /\ \A h \in Handler : PayOneSession(h)
  /\ \A h \in Handler, s \in Session : PayKnows(h, s) /\ (s \notin handlersMet => PaySingle(h, s))
  /\ \A s \in Session : PayAgree(s)

(* It holds at first.                                                      *)
LEMMA CheckoutInit == {MaxRequests, MaxFaults} \subseteq Nat /\ Pay!Init => CheckoutInv
<1> SUFFICES ASSUME {MaxRequests, MaxFaults} \subseteq Nat, Pay!Init PROVE CheckoutInv
  OBVIOUS
<1>1. \A h \in Handler : handler[h] = Pay!Free
  BY DEF Pay!Init
<1>2. \A h \in Handler : handler[h].on = {} /\ handler[h].step = "off" /\ handler[h].paid = FALSE
  BY <1>1 DEF Pay!Free
<1>3. Pay!Free \in [route : {"none", "poll", "backend", "front end"}, on : SUBSET Session,
                step : {"off", "ask", "find", "update", "look", "grant"}, paid : BOOLEAN]
  BY DEF Pay!Free
<1>4. Pay!TypeOK
  <2>1. handler \in [Handler -> [route : {"none", "poll", "backend", "front end"}, on : SUBSET Session,
                                 step : {"off", "ask", "find", "update", "look", "grant"},
                                 paid : BOOLEAN]]
    BY <1>3 DEF Pay!Init
  <2>2. \A h \in Handler : handler[h].step \notin {"look", "grant"}
    BY <1>2
  <2>3. requests \in 0..MaxRequests /\ faults \in 0..MaxFaults
    BY DEF Pay!Init
  <2>4. /\ session \in [Session -> {"none", "made", "open", "paid"}]
        /\ stripeEvent \in [Session -> {"none", "due", "acknowledged"}]
        /\ tx \in [Session -> {"none", "pending", "unpaid", "paid"}]
        /\ subscription \in [Session -> 0..2]
        /\ \A s \in Session : tx[s] = "none"
        /\ handlersMet \subseteq Session /\ failed \subseteq Session
    BY DEF Pay!Init
  <2>5. QED
    BY <2>1, <2>2, <2>3, <2>4 DEF Pay!TypeOK
<1>5. \A h \in Handler : PayOneSession(h) /\ \A s \in Session : PayKnows(h, s) /\ PaySingle(h, s)
  BY <1>2 DEF PayOneSession, PayKnows, PaySingle
<1>6. ASSUME NEW s \in Session PROVE PayAgree(s)
  <2>1. session[s] = "none" /\ stripeEvent[s] = "none" /\ tx[s] = "none" /\ subscription[s] = 0
    BY DEF Pay!Init
  <2>2. QED
    BY <2>1 DEF PayAgree
<1>7. QED
  BY <1>4, <1>5, <1>6 DEF CheckoutInv

(* It says what was asked.                                                 *)
LEMMA CheckoutSays == CheckoutInv => Pay!TypeOK /\ Pay!EffectsOnce /\ Pay!NothingLost
<1> SUFFICES ASSUME CheckoutInv PROVE Pay!TypeOK /\ Pay!EffectsOnce /\ Pay!NothingLost
  OBVIOUS
<1>1. Pay!TypeOK /\ \A s \in Session : PayAgree(s)
  BY DEF CheckoutInv
<1>2. ASSUME NEW s \in Session
      PROVE  /\ subscription[s] > 1 => s \in handlersMet
             /\ subscription[s] > 0 => session[s] = "paid"
             /\ subscription[s] > 0 /\ tx[s] # "none" => tx[s] = "paid" \/ s \in handlersMet
  <2>1. PayAgree(s) /\ subscription[s] \in 0..2
    BY <1>1 DEF Pay!TypeOK
  <2>2. QED
    BY <2>1 DEF PayAgree
<1>3. ASSUME NEW s \in Session, stripeEvent[s] = "acknowledged"
      PROVE  \/ subscription[s] > 0 \/ s \in failed \/ tx[s] = "none"
             \/ \E h \in Handler : s \in handler[h].on
  BY <1>1, <1>3 DEF PayAgree, PayGranting, Pay!On
<1>4. QED
  BY <1>1, <1>2, <1>3 DEF Pay!EffectsOnce, Pay!NothingLost

(* A step of another service leaves it.                                    *)
LEMMA CheckoutRests == CheckoutInv /\ UNCHANGED <<Pay!checkout, requests, faults>> => CheckoutInv'
<1> SUFFICES ASSUME CheckoutInv, UNCHANGED <<Pay!checkout, requests, faults>> PROVE CheckoutInv'
  OBVIOUS
<1>1. UNCHANGED <<session, stripeEvent, tx, subscription, handler, handlersMet, failed, requests, faults>>
  BY DEF Pay!checkout
<1>2. Pay!TypeOK'
  BY <1>1 DEF CheckoutInv, Pay!TypeOK
<1>3. \A h \in Handler : PayOneSession(h)' /\ \A s \in Session : PayKnows(h, s)' /\ (s \notin handlersMet' => PaySingle(h, s)')
  BY <1>1 DEF CheckoutInv, PayOneSession, PayKnows, PaySingle
<1>4. \A s \in Session : PayAgree(s)'
  BY <1>1 DEF CheckoutInv, PayAgree, PayGranting, Pay!On
<1>5. QED
  BY <1>2, <1>3, <1>4 DEF CheckoutInv

(* The types of the records and of the requests.                           *)
LEMMA CheckoutTyped ==
  ASSUME CheckoutInv
  PROVE  /\ session \in [Session -> {"none", "made", "open", "paid"}]
         /\ stripeEvent \in [Session -> {"none", "due", "acknowledged"}]
         /\ tx \in [Session -> {"none", "pending", "unpaid", "paid"}]
         /\ subscription \in [Session -> 0..2]
         /\ handler \in [Handler -> [route : {"none", "poll", "backend", "front end"}, on : SUBSET Session,
                                     step : {"off", "ask", "find", "update", "look", "grant"},
                                     paid : BOOLEAN]]
         /\ \A s \in Session : tx[s] # "none" => session[s] \in {"open", "paid"}
<1>1. Pay!TypeOK
  BY DEF CheckoutInv
<1>2. QED
  BY <1>1 DEF Pay!TypeOK

(* A step of a session, and of a request h when there is one, leaves the   *)
(* others.                                                                 *)
PayLeaves(h, s) ==
  /\ \A g \in Handler : g # h => handler'[g] = handler[g]
  /\ h \in Handler => handler[h].on \subseteq {s} /\ handler'[h].on \subseteq {s}
  /\ \A k \in Session : k # s =>
       /\ session'[k] = session[k] /\ stripeEvent'[k] = stripeEvent[k] /\ tx'[k] = tx[k]
       /\ subscription'[k] = subscription[k]
  /\ handlersMet' \in {handlersMet, handlersMet \cup {s}} /\ failed' \in {failed, failed \cup {s}}

(* What is then left to be shown.                                          *)
LEMMA CheckoutLeaves ==
  ASSUME CheckoutInv, Pay!TypeOK', NEW h, NEW s \in Session, PayLeaves(h, s),
         h \in Handler => PayOneSession(h)',
         \A g \in Handler : PayKnows(g, s)' /\ (s \notin handlersMet' => PaySingle(g, s)'),
         PayAgree(s)'
  PROVE  CheckoutInv'
<1>1. \A g \in Handler : PayOneSession(g)'
  BY DEF CheckoutInv, PayLeaves, PayOneSession
<1>2. ASSUME NEW k \in Session, k # s
      PROVE  PayAgree(k)' /\ \A g \in Handler : PayKnows(g, k)' /\ (k \notin handlersMet' => PaySingle(g, k)')
  <2>1. \A g \in Handler : k \in handler'[g].on <=> k \in handler[g].on
    BY <1>2 DEF PayLeaves
  <2>2. \A g \in Handler : k \in handler[g].on => handler'[g] = handler[g]
    BY <1>2 DEF PayLeaves
  <2>3. (k \in handlersMet' <=> k \in handlersMet) /\ (k \in failed' <=> k \in failed)
    BY <1>2 DEF PayLeaves
  <2>4. \A g \in Handler : \A t : Pay!On(g, k, t)' <=> Pay!On(g, k, t)
    BY <2>1, <2>2 DEF Pay!On
  <2>5. PayGranting(k)' <=> PayGranting(k)
    BY <1>2, <2>3, <2>4 DEF PayGranting, PayLeaves
  <2>6. PayAgree(k)'
    BY <1>2, <2>3, <2>5 DEF CheckoutInv, PayAgree, PayLeaves
  <2>7. \A g \in Handler : PayKnows(g, k)'
    BY <1>2, <2>1, <2>2 DEF CheckoutInv, PayKnows, PayLeaves
  <2>8. \A g \in Handler : k \notin handlersMet' => PaySingle(g, k)'
    BY <1>2, <2>1, <2>2, <2>3 DEF CheckoutInv, PaySingle, PayLeaves
  <2>9. QED
    BY <2>6, <2>7, <2>8
<1>3. QED
  BY <1>1, <1>2 DEF CheckoutInv

(* What the step of a request h does to its session s: its fields, the     *)
(* row, the event, and the subscriptions, of which there come more.        *)
PayWorks(h, s) ==
  /\ UNCHANGED <<session, requests, handlersMet>> /\ handler[h].on = {s}
  /\ handler' = [handler EXCEPT ![h] = handler'[h]]
  /\ handler'[h] \in [route : {"none", "poll", "backend", "front end"}, on : SUBSET Session,
                      step : {"off", "ask", "find", "update", "look", "grant"}, paid : BOOLEAN]
  /\ stripeEvent' = [stripeEvent EXCEPT ![s] = stripeEvent'[s]] /\ stripeEvent'[s] \in {stripeEvent[s], "acknowledged"}
  /\ tx' = [tx EXCEPT ![s] = tx'[s]] /\ tx'[s] \in {"none", "pending", "unpaid", "paid"}
  /\ tx'[s] # "none" <=> tx[s] # "none"
  /\ subscription' = [subscription EXCEPT ![s] = subscription'[s]]
  /\ subscription'[s] \in 0..2 /\ subscription'[s] >= subscription[s]
  /\ faults' \in {faults, faults + 1} \cap 0..MaxFaults
  /\ failed' \in {failed, failed \cup {s}}

(* What remains to be shown of the request after the step.                 *)
PayOnward(h, s) ==
  \/ handler'[h].step = "off" /\ handler'[h].on = {}
  \/ /\ handler'[h].step # "off" /\ handler'[h].on = {s} /\ handler'[h].route = handler[h].route
     /\ handler'[h].paid => session[s] = "paid"
     /\ handler'[h].step \in {"look", "grant"} => handler'[h].paid
     /\ handler[h].route # "poll" => handler'[h].paid
     /\ s \notin handlersMet =>
          /\ handler'[h].step = "grant" => subscription'[s] = 0
          /\ handler'[h].step \in {"look", "grant"} => tx'[s] \in {"none", "paid"}
          /\ handler'[h].step = "update" /\ ~handler'[h].paid => tx'[s] \notin {"none", "paid"}

(* A grant that was to come still is, or came, or is known to have failed. *)
LEMMA CheckoutGranting ==
  ASSUME CheckoutInv, NEW h \in Handler, NEW s \in Session, PayWorks(h, s), PayGranting(s),
         handler[h].step \in {"look", "grant"} =>
           Pay!On(h, s, "look")' \/ Pay!On(h, s, "grant")' \/ subscription'[s] > 0 \/ s \in failed'
  PROVE  PayGranting(s)'
<1>1. \A g \in Handler : g # h => handler'[g] = handler[g]
  <2>1. PICK r : handler' = [handler EXCEPT ![h] = r]
    BY DEF PayWorks
  <2>2. QED
    BY <2>1, CheckoutTyped
<1>2. \A g \in Handler : \A t : g # h => (Pay!On(g, s, t)' <=> Pay!On(g, s, t))
  BY <1>1 DEF Pay!On
<1>3. CASE subscription[s] > 0 \/ s \in failed
  <2>1. s \in failed => s \in failed'
    BY DEF PayWorks
  <2>2. subscription[s] \in 0..2 /\ subscription'[s] \in 0..2 /\ subscription'[s] >= subscription[s]
    BY DEF PayWorks, CheckoutInv, Pay!TypeOK
  <2>3. subscription[s] > 0 => subscription'[s] > 0
    BY <2>2
  <2>4. QED
    BY <1>3, <2>1, <2>3 DEF PayGranting
<1>4. CASE \E g \in Handler : Pay!On(g, s, "look") \/ Pay!On(g, s, "grant")
  <2>1. PICK g \in Handler : Pay!On(g, s, "look") \/ Pay!On(g, s, "grant")
    BY <1>4
  <2>2. CASE g = h
    BY <2>1, <2>2 DEF Pay!On, PayGranting
  <2>3. CASE g # h
    BY <1>2, <2>1, <2>3 DEF PayGranting
  <2>4. QED
    BY <2>2, <2>3
<1>5. QED
  BY <1>3, <1>4 DEF PayGranting

(* The invariant is kept when the records of the session agree.            *)
LEMMA CheckoutWorks ==
  ASSUME {MaxRequests, MaxFaults} \subseteq Nat, CheckoutInv, NEW h \in Handler, NEW s \in Session,
         PayWorks(h, s), PayOnward(h, s), PayAgree(s)'
  PROVE  CheckoutInv'
<1>1. /\ \A g \in Handler : g # h => handler'[g] = handler[g]
      /\ \A k \in Session : k # s =>
           session'[k] = session[k] /\ stripeEvent'[k] = stripeEvent[k] /\ tx'[k] = tx[k]
           /\ subscription'[k] = subscription[k]
      /\ session' = session /\ handlersMet' = handlersMet
  <2>1. /\ handler' = [handler EXCEPT ![h] = handler'[h]]
        /\ stripeEvent' = [stripeEvent EXCEPT ![s] = stripeEvent'[s]] /\ tx' = [tx EXCEPT ![s] = tx'[s]]
        /\ subscription' = [subscription EXCEPT ![s] = subscription'[s]]
        /\ session' = session /\ handlersMet' = handlersMet
    BY DEF PayWorks
  <2>2. PICK v, x, y, z : v = handler'[h] /\ x = stripeEvent'[s] /\ y = tx'[s] /\ z = subscription'[s]
    OBVIOUS
  <2>3. /\ handler' = [handler EXCEPT ![h] = v] /\ stripeEvent' = [stripeEvent EXCEPT ![s] = x]
        /\ tx' = [tx EXCEPT ![s] = y] /\ subscription' = [subscription EXCEPT ![s] = z]
    BY <2>1, <2>2
  <2>4. \A g \in Handler : g # h => handler'[g] = handler[g]
    BY <2>3, CheckoutTyped
  <2>5. \A k \in Session : k # s => stripeEvent'[k] = stripeEvent[k] /\ tx'[k] = tx[k]
    BY <2>3, CheckoutTyped
  <2>6. \A k \in Session : k # s => subscription'[k] = subscription[k]
    BY <2>3, CheckoutTyped
  <2>7. /\ session' = session /\ handlersMet' = handlersMet
    BY DEF PayWorks
  <2>8. QED
    BY <2>4, <2>5, <2>6, <2>7
<1>2. PayLeaves(h, s)
  BY <1>1 DEF PayLeaves, PayWorks, PayOnward
<1>3. Pay!TypeOK'
  <2>1. handler' \in [Handler -> [route : {"none", "poll", "backend", "front end"}, on : SUBSET Session,
                                  step : {"off", "ask", "find", "update", "look", "grant"},
                                  paid : BOOLEAN]]
    BY DEF CheckoutInv, Pay!TypeOK, PayWorks
  <2>7. stripeEvent' \in [Session -> {"none", "due", "acknowledged"}]
    <3>1. stripeEvent[s] \in {"none", "due", "acknowledged"}
      BY DEF CheckoutInv, Pay!TypeOK
    <3>2. stripeEvent'[s] \in {"none", "due", "acknowledged"} /\ stripeEvent' = [stripeEvent EXCEPT ![s] = stripeEvent'[s]]
      BY <3>1 DEF PayWorks
    <3>3. QED
      BY <3>2 DEF CheckoutInv, Pay!TypeOK
  <2>8. session' \in [Session -> {"none", "made", "open", "paid"}]
    BY DEF CheckoutInv, Pay!TypeOK, PayWorks
  <2>2. /\ tx' \in [Session -> {"none", "pending", "unpaid", "paid"}]
        /\ subscription' \in [Session -> 0..2]
    BY DEF CheckoutInv, Pay!TypeOK, PayWorks
  <2>3. \A k \in Session : tx'[k] # "none" => session'[k] \in {"open", "paid"}
    BY <1>1 DEF CheckoutInv, Pay!TypeOK, PayWorks
  <2>4. \A g \in Handler : handler'[g].step \in {"look", "grant"} => handler'[g].paid
    <3>1. handler'[h].step \in {"look", "grant"} => handler'[h].paid
      BY DEF PayOnward
    <3>2. \A g \in Handler : g # h => (handler'[g].step \in {"look", "grant"} => handler'[g].paid)
      BY <1>1 DEF CheckoutInv, Pay!TypeOK
    <3>3. QED
      BY <3>1, <3>2
  <2>5. requests' \in 0..MaxRequests /\ faults' \in 0..MaxFaults
        /\ handlersMet' \subseteq Session /\ failed' \subseteq Session
    BY DEF CheckoutInv, Pay!TypeOK, PayWorks
  <2>6. QED
    BY <2>1, <2>2, <2>3, <2>4, <2>5, <2>7, <2>8 DEF Pay!TypeOK
<1>4. PayOneSession(h) /\ handler[h].on = {s} /\ s \in handler[h].on /\ PayKnows(h, s)
      /\ (s \notin handlersMet => PaySingle(h, s))
  BY DEF CheckoutInv, PayWorks
<1>5. handler[h].route # "none" /\ session[s] \in {"open", "paid"}
  <2>1. handler[h].step # "off"
    BY <1>4 DEF PayOneSession
  <2>2. QED
    BY <1>4, <2>1 DEF PayOneSession, PayKnows
<1>6. PayOneSession(h)'
  BY <1>5 DEF PayOnward, PayOneSession
<1>7. PayKnows(h, s)'
  BY <1>1, <1>5 DEF PayOnward, PayKnows
<1>8. ASSUME NEW g \in Handler, g # h PROVE PayKnows(g, s)'
  <2>1. PayKnows(g, s) /\ handler'[g] = handler[g] /\ session' = session
    BY <1>1, <1>8 DEF CheckoutInv
  <2>2. QED
    BY <2>1 DEF PayKnows
<1>9. ASSUME s \notin handlersMet, NEW g \in Handler PROVE PaySingle(g, s)'
  <2>1. \A f \in Handler : f # h => s \notin handler'[f].on
    BY <1>1, <1>4, <1>9 DEF PaySingle
  <2>2. CASE g # h
    BY <2>1, <2>2 DEF PaySingle
  <2>3. CASE g = h
    BY <1>9, <2>1, <2>3 DEF PaySingle, PayOnward
  <2>4. QED
    BY <2>2, <2>3
<1>10. QED
  BY <1>1, <1>2, <1>3, <1>6, <1>7, <1>8, <1>9, CheckoutLeaves

(* What is known where a request h that works on s takes a step.           *)
LEMMA CheckoutKnown ==
  ASSUME CheckoutInv, NEW h \in Handler, NEW s \in Session, s \in handler[h].on
  PROVE  /\ handler[h].on = {s} /\ handler[h].step # "off" /\ handler[h].paid \in BOOLEAN
         /\ handler[h] \in [route : {"none", "poll", "backend", "front end"}, on : SUBSET Session,
                            step : {"off", "ask", "find", "update", "look", "grant"}, paid : BOOLEAN]
         /\ session[s] \in {"open", "paid"} /\ stripeEvent[s] \in {"none", "due", "acknowledged"}
         /\ tx[s] \in {"none", "pending", "unpaid", "paid"} /\ subscription[s] \in 0..2
         /\ PayKnows(h, s) /\ PayAgree(s) /\ (s \notin handlersMet => PaySingle(h, s))
         /\ stripeEvent' = stripeEvent => stripeEvent' = [stripeEvent EXCEPT ![s] = stripeEvent'[s]]
         /\ tx' = tx => tx' = [tx EXCEPT ![s] = tx'[s]]
         /\ subscription' = subscription => subscription' = [subscription EXCEPT ![s] = subscription'[s]]
<1>1. PayOneSession(h) /\ PayKnows(h, s) /\ PayAgree(s) /\ (s \notin handlersMet => PaySingle(h, s)) /\ Pay!TypeOK
  BY DEF CheckoutInv
<1>2. handler[h].on = {s} /\ handler[h].step # "off"
  BY <1>1 DEF PayOneSession
<1>3. /\ handler[h] \in [route : {"none", "poll", "backend", "front end"}, on : SUBSET Session,
                         step : {"off", "ask", "find", "update", "look", "grant"}, paid : BOOLEAN]
      /\ stripeEvent[s] \in {"none", "due", "acknowledged"}
      /\ tx[s] \in {"none", "pending", "unpaid", "paid"} /\ subscription[s] \in 0..2
  BY <1>1 DEF Pay!TypeOK
<1>4. session[s] \in {"open", "paid"}
  BY <1>1 DEF PayKnows
<1>5. /\ stripeEvent' = stripeEvent => stripeEvent' = [stripeEvent EXCEPT ![s] = stripeEvent'[s]]
      /\ tx' = tx => tx' = [tx EXCEPT ![s] = tx'[s]]
      /\ subscription' = subscription => subscription' = [subscription EXCEPT ![s] = subscription'[s]]
  BY <1>1 DEF Pay!TypeOK
<1>6. handler[h].paid \in BOOLEAN
  BY <1>3
<1>7. QED
  BY <1>1, <1>2, <1>3, <1>4, <1>5, <1>6

(* A request goes on to another step.                                      *)
LEMMA CheckoutGoto ==
  ASSUME CheckoutInv, NEW h \in Handler, NEW s \in Session, s \in handler[h].on,
         NEW t \in {"ask", "find", "update", "look", "grant"}, Pay!Goto(h, t)
  PROVE  /\ handler' = [handler EXCEPT ![h] = handler'[h]]
         /\ handler'[h] = [handler[h] EXCEPT !.step = t]
         /\ handler'[h].step = t /\ handler'[h].on = {s} /\ handler'[h].route = handler[h].route
         /\ handler'[h].paid = handler[h].paid
         /\ stripeEvent' = stripeEvent
<1>1. handler \in [Handler -> [route : {"none", "poll", "backend", "front end"}, on : SUBSET Session,
                               step : {"off", "ask", "find", "update", "look", "grant"},
                               paid : BOOLEAN]]
  BY CheckoutTyped
<1>2. handler' = [handler EXCEPT ![h].step = t] /\ stripeEvent' = stripeEvent
  BY DEF Pay!Goto
<1>3. PICK r : r = [handler[h] EXCEPT !.step = t]
  OBVIOUS
<1>4. handler'[h] = r /\ handler' = [handler EXCEPT ![h] = r]
  BY <1>1, <1>2, <1>3
<1>5. r.step = t /\ r.on = handler[h].on /\ r.route = handler[h].route /\ r.paid = handler[h].paid
  <2>1. handler[h] \in [route : {"none", "poll", "backend", "front end"}, on : SUBSET Session,
                        step : {"off", "ask", "find", "update", "look", "grant"}, paid : BOOLEAN]
    BY <1>1
  <2>2. QED
    BY <1>3, <2>1
<1>6. handler[h].on = {s}
  BY CheckoutKnown
<1>7. QED
  BY <1>2, <1>3, <1>4, <1>5, <1>6

(* A request ends.                                                         *)
LEMMA CheckoutEnds ==
  ASSUME CheckoutInv, NEW h \in Handler, handler' = [handler EXCEPT ![h] = Pay!Free]
  PROVE  /\ handler' = [handler EXCEPT ![h] = handler'[h]] /\ handler'[h] = Pay!Free
         /\ handler'[h].step = "off" /\ handler'[h].on = {}
         /\ handler'[h] \in [route : {"none", "poll", "backend", "front end"}, on : SUBSET Session,
                             step : {"off", "ask", "find", "update", "look", "grant"}, paid : BOOLEAN]
<1>1. handler'[h] = Pay!Free /\ handler' = [handler EXCEPT ![h] = handler'[h]]
  BY DEF CheckoutInv, Pay!TypeOK
<1>2. Pay!Free \in [route : {"none", "poll", "backend", "front end"}, on : SUBSET Session,
                step : {"off", "ask", "find", "update", "look", "grant"}, paid : BOOLEAN]
  BY DEF Pay!Free
<1>3. Pay!Free.step = "off" /\ Pay!Free.on = {}
  BY DEF Pay!Free
<1>4. QED
  BY <1>1, <1>2, <1>3

(* A request ends with its answer.                                         *)
LEMMA CheckoutAnswer ==
  ASSUME CheckoutInv, NEW h \in Handler, NEW s \in Session, s \in handler[h].on, Pay!Answer(h, s)
  PROVE  /\ handler' = [handler EXCEPT ![h] = Pay!Free]
         /\ stripeEvent' = [stripeEvent EXCEPT ![s] = stripeEvent'[s]]
         /\ stripeEvent'[s] \in {stripeEvent[s], "acknowledged"}
         /\ stripeEvent'[s] # stripeEvent[s] => session[s] = "paid"
<1>1. stripeEvent' = [stripeEvent EXCEPT ![s] = stripeEvent'[s]] /\ stripeEvent'[s] = IF handler[h].route = "poll" THEN stripeEvent[s] ELSE "acknowledged"
  BY DEF CheckoutInv, Pay!TypeOK, Pay!Answer
<1>2. PayKnows(h, s)
  BY DEF CheckoutInv
<1>3. QED
  BY <1>1, <1>2 DEF Pay!Answer, PayKnows

(* Every step of a request keeps the invariant, but for its first.         *)
LEMMA CheckoutOnward ==
  ASSUME {MaxRequests, MaxFaults} \subseteq Nat, CheckoutInv, NEW h \in Handler, NEW s \in Session,
         Pay!Ask(h, s) \/ Pay!Find(h, s) \/ Pay!Update(h, s) \/ Pay!Look(h, s) \/ Pay!Grant(h, s)
  PROVE  CheckoutInv'
<1>1. s \in handler[h].on /\ UNCHANGED <<session, requests, handlersMet, failed, faults>>
  BY DEF Pay!Ask, Pay!Find, Pay!Update, Pay!Look, Pay!Grant, Pay!On, Pay!HandlerOnly, Pay!Fine
<1>2. /\ handler[h].on = {s} /\ handler[h].step # "off" /\ handler[h].paid \in BOOLEAN
      /\ handler[h] \in [route : {"none", "poll", "backend", "front end"}, on : SUBSET Session,
                         step : {"off", "ask", "find", "update", "look", "grant"}, paid : BOOLEAN]
      /\ session[s] \in {"open", "paid"} /\ stripeEvent[s] \in {"none", "due", "acknowledged"}
      /\ tx[s] \in {"none", "pending", "unpaid", "paid"} /\ subscription[s] \in 0..2
      /\ PayKnows(h, s) /\ PayAgree(s) /\ (s \notin handlersMet => PaySingle(h, s))
      /\ stripeEvent' = stripeEvent => stripeEvent' = [stripeEvent EXCEPT ![s] = stripeEvent'[s]]
      /\ tx' = tx => tx' = [tx EXCEPT ![s] = tx'[s]]
      /\ subscription' = subscription => subscription' = [subscription EXCEPT ![s] = subscription'[s]]
  BY <1>1, CheckoutKnown
<1>3. faults' \in {faults, faults + 1} \cap 0..MaxFaults /\ failed' \in {failed, failed \cup {s}}
  BY <1>1 DEF CheckoutInv, Pay!TypeOK
<1>11. subscription[s] \in 0..2
  BY <1>2
<1>4. UNCHANGED subscription => subscription'[s] \in 0..2 /\ subscription'[s] >= subscription[s]
  BY <1>11
<1>5. CASE Pay!Ask(h, s)
  <2>1. /\ handler' = [handler EXCEPT ![h].step = "find", ![h].paid = (session[s] = "paid")]
        /\ handler[h].step = "ask" /\ UNCHANGED <<stripeEvent, tx, subscription>>
    BY <1>5 DEF Pay!Ask, Pay!On
  <2>2. handler'[h] = [handler[h] EXCEPT !.step = "find", !.paid = (session[s] = "paid")]
        /\ handler' = [handler EXCEPT ![h] = handler'[h]]
    BY <2>1 DEF CheckoutInv, Pay!TypeOK
  <2>3. /\ handler'[h].step = "find" /\ handler'[h].on = {s} /\ handler'[h].route = handler[h].route
        /\ handler'[h] \in [route : {"none", "poll", "backend", "front end"}, on : SUBSET Session,
                            step : {"off", "ask", "find", "update", "look", "grant"}, paid : BOOLEAN]
    BY <1>2, <2>2
  <2>4. handler'[h].paid = (session[s] = "paid")
    BY <1>2, <2>2
  <2>5. PayWorks(h, s)
    BY <1>1, <1>2, <1>3, <1>4, <2>1, <2>2, <2>3 DEF PayWorks
  <2>6. PayOnward(h, s)
    <3>1. handler'[h].paid => session[s] = "paid"
      BY <2>4
    <3>2. handler[h].route # "poll" => handler'[h].paid
      <4>1. handler[h].route # "poll" => session[s] = "paid"
        BY <1>2 DEF PayKnows
      <4>2. QED
        BY <2>4, <4>1
    <3>3. QED
      BY <2>3, <3>1, <3>2 DEF PayOnward
  <2>7. PayAgree(s)'
    <3>1. PayGranting(s) => PayGranting(s)'
      BY <2>1, <2>5, CheckoutGranting
    <3>2. QED
      BY <1>1, <1>2, <2>1, <3>1 DEF PayAgree
  <2>8. QED
    BY <2>5, <2>6, <2>7, CheckoutWorks
<1>6. CASE Pay!Find(h, s)
  <2>1. /\ handler[h].step = "find" /\ UNCHANGED <<tx, subscription>>
        /\ \/ tx[s] \in {"none", "paid"} /\ Pay!Answer(h, s)
           \/ tx[s] \notin {"none", "paid"} /\ Pay!Goto(h, "update")
    BY <1>6 DEF Pay!Find, Pay!On
  <2>2. CASE tx[s] \in {"none", "paid"} /\ Pay!Answer(h, s)
    <3>1. PayWorks(h, s)
      BY <1>1, <1>2, <1>3, <1>4, <2>1, <2>2, CheckoutAnswer, CheckoutEnds DEF PayWorks
    <3>2. PayOnward(h, s)
      BY <1>1, <2>2, CheckoutAnswer, CheckoutEnds DEF PayOnward
    <3>3. PayGranting(s) => PayGranting(s)'
      BY <2>1, <3>1, CheckoutGranting
    <3>4. stripeEvent'[s] \in {stripeEvent[s], "acknowledged"} /\ (stripeEvent'[s] # stripeEvent[s] => session[s] = "paid")
      BY <1>1, <2>2, CheckoutAnswer
    <3>5. PayAgree(s)'
      BY <1>1, <1>2, <2>1, <2>2, <3>3, <3>4 DEF PayAgree
    <3>6. QED
      BY <3>1, <3>2, <3>5, CheckoutWorks
  <2>3. CASE tx[s] \notin {"none", "paid"} /\ Pay!Goto(h, "update")
    <3>1. /\ handler' = [handler EXCEPT ![h] = handler'[h]]
          /\ handler'[h] = [handler[h] EXCEPT !.step = "update"]
          /\ handler'[h].step = "update" /\ handler'[h].on = {s} /\ handler'[h].route = handler[h].route
          /\ stripeEvent' = stripeEvent
      BY <1>1, <2>3, CheckoutGoto
    <3>2. handler'[h].paid = handler[h].paid
      BY <1>1, <2>3, CheckoutGoto
    <3>3. handler'[h] \in [route : {"none", "poll", "backend", "front end"}, on : SUBSET Session,
                           step : {"off", "ask", "find", "update", "look", "grant"}, paid : BOOLEAN]
      BY <1>2, <3>1
    <3>4. PayWorks(h, s)
      BY <1>1, <1>2, <1>3, <1>4, <2>1, <3>1, <3>3 DEF PayWorks
    <3>5. PayOnward(h, s)
      <4>1. handler[h].paid => session[s] = "paid"
        BY <1>1, <1>2 DEF PayKnows
      <4>2. handler[h].route # "poll" => handler[h].paid
        BY <1>1, <1>2 DEF PayKnows
      <4>3. QED
        BY <2>1, <2>3, <3>1, <3>2, <4>1, <4>2 DEF PayOnward
    <3>6. PayGranting(s) => PayGranting(s)'
      BY <2>1, <3>4, CheckoutGranting
    <3>7. PayAgree(s)'
      BY <1>1, <1>2, <2>1, <3>1, <3>6 DEF PayAgree
    <3>8. QED
      BY <3>4, <3>5, <3>7, CheckoutWorks
  <2>4. QED
    BY <2>1, <2>2, <2>3
<1>7. CASE Pay!Update(h, s)
  <2>1. /\ handler[h].step = "update" /\ UNCHANGED subscription
        /\ tx' = [tx EXCEPT ![s] = IF @ = "none" THEN @ ELSE IF handler[h].paid THEN "paid" ELSE "unpaid"]
        /\ IF handler[h].paid THEN Pay!Goto(h, "look") ELSE Pay!Answer(h, s)
    BY <1>7 DEF Pay!Update, Pay!On
  <2>2. /\ tx' = [tx EXCEPT ![s] = tx'[s]]
        /\ tx'[s] = IF tx[s] = "none" THEN "none" ELSE IF handler[h].paid THEN "paid" ELSE "unpaid"
    BY <1>2, <2>1 DEF CheckoutInv, Pay!TypeOK
  <2>3. /\ tx'[s] \in {"none", "pending", "unpaid", "paid"} /\ (tx'[s] # "none" <=> tx[s] # "none")
        /\ handler[h].paid => tx'[s] \in {"none", "paid"}
        /\ ~handler[h].paid => tx'[s] \in {"none", "unpaid"}
    BY <2>2
  <2>4. CASE handler[h].paid
    <3>1. Pay!Goto(h, "look")
      BY <2>1, <2>4
    <3>2. /\ handler' = [handler EXCEPT ![h] = handler'[h]]
          /\ handler'[h] = [handler[h] EXCEPT !.step = "look"]
          /\ handler'[h].step = "look" /\ handler'[h].on = {s} /\ handler'[h].route = handler[h].route
          /\ stripeEvent' = stripeEvent
      BY <1>1, <3>1, CheckoutGoto
    <3>3. handler'[h].paid
      BY <1>1, <2>4, <3>1, CheckoutGoto
    <3>4. handler'[h] \in [route : {"none", "poll", "backend", "front end"}, on : SUBSET Session,
                           step : {"off", "ask", "find", "update", "look", "grant"}, paid : BOOLEAN]
      BY <1>2, <3>2
    <3>5. PayWorks(h, s)
      BY <1>1, <1>2, <1>3, <1>4, <2>1, <2>2, <2>3, <3>2, <3>4 DEF PayWorks
    <3>6. session[s] = "paid"
      BY <1>1, <1>2, <2>4 DEF PayKnows
    <3>7. PayOnward(h, s)
      BY <2>3, <2>4, <3>2, <3>3, <3>6 DEF PayOnward
    <3>8. PayGranting(s)'
      BY <3>2 DEF PayGranting, Pay!On
    <3>9. PayAgree(s)'
      BY <1>1, <1>2, <2>1, <2>3, <2>4, <3>2, <3>8 DEF PayAgree
    <3>10. QED
      BY <3>5, <3>7, <3>9, CheckoutWorks
  <2>5. CASE ~handler[h].paid
    <3>1. Pay!Answer(h, s) /\ handler[h].route = "poll"
      BY <1>1, <1>2, <2>1, <2>5 DEF PayKnows
    <3>2. /\ handler' = [handler EXCEPT ![h] = Pay!Free] /\ stripeEvent' = stripeEvent
      BY <3>1 DEF Pay!Answer
    <3>3. PayWorks(h, s)
      BY <1>1, <1>2, <1>3, <1>4, <2>1, <2>2, <2>3, <3>2, CheckoutEnds DEF PayWorks
    <3>4. PayOnward(h, s)
      BY <3>2, CheckoutEnds DEF PayOnward
    <3>5. PayGranting(s) => PayGranting(s)'
      BY <2>1, <3>3, CheckoutGranting
    <3>6. s \notin handlersMet => tx[s] \notin {"none", "paid"} /\ subscription[s] <= 1
                          /\ (subscription[s] > 0 => tx[s] \in {"none", "paid"})
      BY <1>1, <1>2, <2>1, <2>5 DEF PaySingle, PayAgree
    <3>7. PayAgree(s)'
      BY <1>1, <1>2, <2>1, <2>3, <2>5, <3>2, <3>5, <3>6 DEF PayAgree
    <3>8. QED
      BY <3>3, <3>4, <3>7, CheckoutWorks
  <2>6. QED
    BY <2>4, <2>5
<1>8. CASE Pay!Look(h, s)
  <2>1. /\ handler[h].step = "look" /\ UNCHANGED <<tx, subscription>>
        /\ \/ subscription[s] > 0 /\ Pay!Answer(h, s)
           \/ ~(subscription[s] > 0) /\ Pay!Goto(h, "grant")
    BY <1>8 DEF Pay!Look, Pay!On
  <2>2. CASE subscription[s] > 0 /\ Pay!Answer(h, s)
    <3>1. PayWorks(h, s)
      BY <1>1, <1>2, <1>3, <1>4, <2>1, <2>2, CheckoutAnswer, CheckoutEnds DEF PayWorks
    <3>2. PayOnward(h, s)
      BY <1>1, <2>2, CheckoutAnswer, CheckoutEnds DEF PayOnward
    <3>3. PayGranting(s)'
      BY <2>1, <2>2 DEF PayGranting
    <3>4. stripeEvent'[s] \in {stripeEvent[s], "acknowledged"} /\ (stripeEvent'[s] # stripeEvent[s] => session[s] = "paid")
      BY <1>1, <2>2, CheckoutAnswer
    <3>5. PayAgree(s)'
      BY <1>1, <1>2, <2>1, <2>2, <3>3, <3>4 DEF PayAgree
    <3>6. QED
      BY <3>1, <3>2, <3>5, CheckoutWorks
  <2>3. CASE ~(subscription[s] > 0) /\ Pay!Goto(h, "grant")
    <3>1. /\ handler' = [handler EXCEPT ![h] = handler'[h]]
          /\ handler'[h] = [handler[h] EXCEPT !.step = "grant"]
          /\ handler'[h].step = "grant" /\ handler'[h].on = {s} /\ handler'[h].route = handler[h].route
          /\ stripeEvent' = stripeEvent
      BY <1>1, <2>3, CheckoutGoto
    <3>2. handler[h].paid
      BY <2>1 DEF CheckoutInv, Pay!TypeOK
    <3>3. handler'[h].paid
      BY <1>1, <2>3, <3>2, CheckoutGoto
    <3>4. handler'[h] \in [route : {"none", "poll", "backend", "front end"}, on : SUBSET Session,
                           step : {"off", "ask", "find", "update", "look", "grant"}, paid : BOOLEAN]
      BY <1>2, <3>1
    <3>5. PayWorks(h, s)
      BY <1>1, <1>2, <1>3, <1>4, <2>1, <3>1, <3>4 DEF PayWorks
    <3>6. session[s] = "paid"
      BY <1>1, <1>2, <3>2 DEF PayKnows
    <3>7. subscription'[s] = 0 /\ (s \notin handlersMet => tx'[s] \in {"none", "paid"})
      <4>1. subscription'[s] = 0
        BY <1>11, <2>1, <2>3
      <4>2. s \notin handlersMet => tx[s] \in {"none", "paid"}
        BY <1>1, <1>2, <2>1 DEF PaySingle
      <4>3. QED
        BY <2>1, <4>1, <4>2
    <3>8. PayOnward(h, s)
      BY <3>1, <3>3, <3>6, <3>7 DEF PayOnward
    <3>9. PayGranting(s)'
      BY <3>1 DEF PayGranting, Pay!On
    <3>10. PayAgree(s)'
      BY <1>1, <1>2, <2>1, <3>1, <3>9 DEF PayAgree
    <3>11. QED
      BY <3>5, <3>8, <3>10, CheckoutWorks
  <2>4. QED
    BY <2>1, <2>2, <2>3
<1>9. CASE Pay!Grant(h, s)
  <2>1. /\ handler[h].step = "grant" /\ UNCHANGED tx /\ Pay!Answer(h, s)
        /\ subscription' = [subscription EXCEPT ![s] = IF @ < 2 THEN @ + 1 ELSE 2]
    BY <1>9 DEF Pay!Grant, Pay!On
  <2>2. /\ subscription'[s] = (IF subscription[s] < 2 THEN subscription[s] + 1 ELSE 2)
        /\ subscription' = [subscription EXCEPT ![s] = subscription'[s]]
    BY <2>1 DEF CheckoutInv, Pay!TypeOK
  <2>3. subscription'[s] \in 0..2 /\ subscription'[s] >= subscription[s] /\ subscription'[s] > 0
        /\ (subscription[s] = 0 => subscription'[s] = 1)
    BY <1>11, <2>2
  <2>4. PayWorks(h, s)
    BY <1>1, <1>2, <1>3, <2>1, <2>2, <2>3, CheckoutAnswer, CheckoutEnds DEF PayWorks
  <2>5. PayOnward(h, s)
    BY <1>1, <2>1, CheckoutAnswer, CheckoutEnds DEF PayOnward
  <2>6. handler[h].paid
    BY <2>1 DEF CheckoutInv, Pay!TypeOK
  <2>7. session[s] = "paid"
    BY <1>1, <1>2, <2>6 DEF PayKnows
  <2>8. PayGranting(s)'
    BY <2>3 DEF PayGranting
  <2>9. s \notin handlersMet => subscription'[s] <= 1 /\ tx'[s] \in {"none", "paid"}
    <3>1. s \notin handlersMet => subscription[s] = 0 /\ tx[s] \in {"none", "paid"}
      BY <1>1, <1>2, <2>1 DEF PaySingle
    <3>2. QED
      BY <2>1, <2>3, <3>1
  <2>10. PayAgree(s)'
    BY <1>1, <2>7, <2>8, <2>9 DEF PayAgree
  <2>11. QED
    BY <2>4, <2>5, <2>10, CheckoutWorks
<1>10. QED
  BY <1>5, <1>6, <1>7, <1>8, <1>9

(* A request that is cut off, or that swallowed what was raised.           *)
LEMMA CheckoutFails ==
  ASSUME {MaxRequests, MaxFaults} \subseteq Nat, CheckoutInv, NEW h \in Handler, NEW s \in Session,
         Pay!Fail(h, s) \/ Pay!Swallow(h, s)
  PROVE  CheckoutInv'
<1>1. /\ s \in handler[h].on /\ UNCHANGED <<session, tx, subscription, requests, handlersMet>> /\ Pay!Fault
      /\ handler' = [handler EXCEPT ![h] = Pay!Free]
  BY DEF Pay!Fail, Pay!Swallow, Pay!Answer
<1>2. /\ failed' \in {failed, failed \cup {s}}
      /\ handler[h].step \in {"look", "grant"} => s \in failed'
      /\ stripeEvent' # stripeEvent => s \in failed' /\ Pay!Answer(h, s)
  BY DEF Pay!Fail, Pay!Swallow
<1>3. /\ handler[h].on = {s} /\ tx[s] \in {"none", "pending", "unpaid", "paid"} /\ PayAgree(s)
      /\ stripeEvent' = stripeEvent => stripeEvent' = [stripeEvent EXCEPT ![s] = stripeEvent'[s]]
      /\ tx' = [tx EXCEPT ![s] = tx'[s]]
      /\ subscription' = [subscription EXCEPT ![s] = subscription'[s]]
  BY <1>1, CheckoutKnown
<1>13. subscription[s] \in 0..2 /\ faults \in 0..MaxFaults
  BY DEF CheckoutInv, Pay!TypeOK
<1>4. subscription[s] \in 0..2 /\ faults' \in {faults, faults + 1} \cap 0..MaxFaults
  BY <1>1, <1>13 DEF Pay!Fault
<1>5. /\ stripeEvent' = [stripeEvent EXCEPT ![s] = stripeEvent'[s]] /\ stripeEvent'[s] \in {stripeEvent[s], "acknowledged"}
      /\ stripeEvent'[s] # stripeEvent[s] => session[s] = "paid" /\ s \in failed'
  BY <1>1, <1>2, <1>3, CheckoutAnswer
<1>6. subscription'[s] \in 0..2 /\ subscription'[s] >= subscription[s]
  BY <1>1, <1>4
<1>7. PayWorks(h, s)
  BY <1>1, <1>2, <1>3, <1>4, <1>5, <1>6, CheckoutEnds DEF PayWorks
<1>8. PayOnward(h, s)
  BY <1>1, CheckoutEnds DEF PayOnward
<1>9. PayGranting(s) => PayGranting(s)'
  BY <1>2, <1>7, CheckoutGranting
<1>10. s \in failed' => PayGranting(s)'
  BY DEF PayGranting
<1>11. PayAgree(s)'
  BY <1>1, <1>3, <1>5, <1>9, <1>10 DEF PayAgree
<1>12. QED
  BY <1>7, <1>8, <1>11, CheckoutWorks

(* A poll begins, or a delivery.                                           *)
LEMMA CheckoutBegins ==
  ASSUME {MaxRequests, MaxFaults} \subseteq Nat, CheckoutInv, NEW h \in Handler, NEW s \in Session,
         Pay!Poll(h, s) \/ Pay!Deliver(h, s)
  PROVE  CheckoutInv'
<1>1. PICK via \in {"poll", "backend", "front end"} :
        /\ Pay!Begin(h, s, via)
        /\ via = "poll" => session[s] \in {"open", "paid"}
        /\ via # "poll" => stripeEvent[s] \in {"due", "acknowledged"}
  BY DEF Pay!Poll, Pay!Deliver
<1>2. PICK first \in [route : {"none", "poll", "backend", "front end"}, on : SUBSET Session,
                   step : {"off", "ask", "find", "update", "look", "grant"}, paid : BOOLEAN] :
        /\ handler' = [handler EXCEPT ![h] = first]
        /\ first.route = via /\ first.on = {s} /\ first.step \in {"ask", "find", "update"}
        /\ first.step = "update" => first.paid
        /\ first.paid => via # "poll"
        /\ via # "poll" => first.paid
  <2>1. CASE via = "poll"
    <3> DEFINE first == [route |-> "poll", on |-> {s}, paid |-> FALSE, step |-> "ask"]
    <3>1. handler' = [handler EXCEPT ![h] = first]
      BY <1>1, <2>1 DEF Pay!Begin
    <3>2. /\ first \in [route : {"none", "poll", "backend", "front end"}, on : SUBSET Session,
                    step : {"off", "ask", "find", "update", "look", "grant"}, paid : BOOLEAN]
          /\ first.route = "poll" /\ first.on = {s} /\ first.step = "ask"
      OBVIOUS
    <3>3. first.paid = FALSE
      OBVIOUS
    <3>4. QED
      BY <2>1, <3>1, <3>2, <3>3
  <2>2. CASE via = "backend"
    <3> DEFINE first == [route |-> "backend", on |-> {s}, paid |-> TRUE, step |-> "find"]
    <3>1. handler' = [handler EXCEPT ![h] = first]
      BY <1>1, <2>2 DEF Pay!Begin
    <3>2. /\ first \in [route : {"none", "poll", "backend", "front end"}, on : SUBSET Session,
                    step : {"off", "ask", "find", "update", "look", "grant"}, paid : BOOLEAN]
          /\ first.route = "backend" /\ first.on = {s} /\ first.step = "find"
      OBVIOUS
    <3>3. first.paid = TRUE
      OBVIOUS
    <3>4. QED
      BY <2>2, <3>1, <3>2, <3>3
  <2>3. CASE via = "front end"
    <3> DEFINE first == [route |-> "front end", on |-> {s}, paid |-> TRUE, step |-> "update"]
    <3>1. handler' = [handler EXCEPT ![h] = first]
      BY <1>1, <2>3 DEF Pay!Begin
    <3>2. /\ first \in [route : {"none", "poll", "backend", "front end"}, on : SUBSET Session,
                    step : {"off", "ask", "find", "update", "look", "grant"}, paid : BOOLEAN]
          /\ first.route = "front end" /\ first.on = {s} /\ first.step = "update"
      OBVIOUS
    <3>3. first.paid = TRUE
      OBVIOUS
    <3>4. QED
      BY <2>3, <3>1, <3>2, <3>3
  <2>4. QED
    BY <2>1, <2>2, <2>3
<1>19. requests < MaxRequests /\ requests' = requests + 1 /\ (handlersMet' = handlersMet \/ handlersMet' = handlersMet \cup {s})
       /\ UNCHANGED failed
  BY <1>1 DEF Pay!Begin
<1>3. /\ handler[h].step = "off"
      /\ handlersMet' = IF \E g \in Handler : s \in handler[g].on THEN handlersMet \cup {s} ELSE handlersMet
      /\ UNCHANGED <<session, stripeEvent, tx, subscription, failed>>
  BY <1>1 DEF Pay!Begin
<1>4. faults' = faults \/ (faults < MaxFaults /\ faults' = faults + 1)
  BY DEF Pay!Poll, Pay!Deliver, Pay!Fine, Pay!Fault
<1>5. /\ handler'[h] = first
      /\ \A g \in Handler : g # h => handler'[g] = handler[g]
  BY <1>2 DEF CheckoutInv, Pay!TypeOK
<1>6. /\ handler'[h].step \in {"ask", "find", "update"} /\ handler'[h].on = {s}
      /\ handler'[h].route = via
  BY <1>2, <1>5
<1>7. /\ handler'[h].step = "update" => handler'[h].paid
      /\ handler'[h].paid => via # "poll"
      /\ via # "poll" => handler'[h].paid
  BY <1>2, <1>5
<1>8. session[s] \in {"open", "paid"} /\ (via # "poll" => session[s] = "paid")
  BY <1>1 DEF CheckoutInv, PayAgree
<1>9. Pay!TypeOK'
  <2>1. handler' \in [Handler -> [route : {"none", "poll", "backend", "front end"}, on : SUBSET Session,
                                  step : {"off", "ask", "find", "update", "look", "grant"},
                                  paid : BOOLEAN]]
    BY <1>2 DEF CheckoutInv, Pay!TypeOK
  <2>2. \A g \in Handler : handler'[g].step \in {"look", "grant"} => handler'[g].paid
    <3>1. \A g \in Handler : g # h => (handler'[g].step \in {"look", "grant"} => handler'[g].paid)
      BY <1>5 DEF CheckoutInv, Pay!TypeOK
    <3>2. handler'[h].step \notin {"look", "grant"}
      BY <1>6
    <3>3. QED
      BY <3>1, <3>2
  <2>3. requests' \in 0..MaxRequests /\ faults' \in 0..MaxFaults
        /\ handlersMet' \subseteq Session /\ failed' \subseteq Session
    <3>1. requests \in 0..MaxRequests /\ faults \in 0..MaxFaults
          /\ handlersMet \subseteq Session /\ failed \subseteq Session
      BY DEF CheckoutInv, Pay!TypeOK
    <3>4. MaxFaults \in Nat /\ MaxRequests \in Nat
      OBVIOUS
    <3>2. faults' \in 0..MaxFaults
      BY <1>4, <3>1, <3>4, CountUp
    <3>5. requests' \in 0..MaxRequests
      BY <1>19, <3>1, <3>4, CountUp
    <3>6. handlersMet' \subseteq Session /\ failed' \subseteq Session
      BY <1>19, <3>1
    <3>3. QED
      BY <3>2, <3>5, <3>6
  <2>4. QED
    BY <1>3, <2>1, <2>2, <2>3 DEF CheckoutInv, Pay!TypeOK
<1>10. handler[h].on = {}
  BY <1>3 DEF CheckoutInv, PayOneSession
<1>11. PayLeaves(h, s)
  BY <1>3, <1>5, <1>6, <1>10 DEF PayLeaves
<1>12. PayOneSession(h)'
  BY <1>6 DEF PayOneSession
<1>13. \A g \in Handler, t \in {"look", "grant"} : Pay!On(g, s, t)' <=> Pay!On(g, s, t)
  BY <1>3, <1>5, <1>6 DEF Pay!On
<1>14. PayAgree(s)'
  <2>1. PayGranting(s)' <=> PayGranting(s)
    BY <1>3, <1>13 DEF PayGranting
  <2>2. s \notin handlersMet' => s \notin handlersMet
    BY <1>3
  <2>3. QED
    BY <1>3, <2>1, <2>2 DEF CheckoutInv, PayAgree
<1>15. ASSUME NEW g \in Handler PROVE PayKnows(g, s)'
  <2>1. CASE g = h
    BY <1>2, <1>3, <1>6, <1>7, <1>8, <2>1 DEF PayKnows
  <2>2. CASE g # h
    BY <1>3, <1>5, <2>2 DEF CheckoutInv, PayKnows
  <2>3. QED
    BY <2>1, <2>2
<1>16. ASSUME NEW g \in Handler, s \notin handlersMet' PROVE PaySingle(g, s)'
  <2>1. \A f \in Handler : s \notin handler[f].on
    BY <1>3, <1>16
  <2>2. \A f \in Handler : s \in handler'[f].on => f = h
    BY <1>5, <2>1
  <2>3. handler'[h].step = "update" => handler'[h].paid
    BY <1>2, <1>6, <1>7
  <2>4. QED
    BY <1>6, <2>2, <2>3 DEF PaySingle
<1>17. QED
  BY <1>9, <1>11, <1>12, <1>14, <1>15, <1>16, CheckoutLeaves

(* The customer's steps.                                                   *)
LEMMA CheckoutCustomer ==
  ASSUME {MaxRequests, MaxFaults} \subseteq Nat, CheckoutInv, NEW s \in Session,
         Pay!Create(s) \/ Pay!InsertRow(s) \/ Pay!CreateForTool(s) \/ Pay!Pay(s)
  PROVE  CheckoutInv'
<1>1. UNCHANGED <<subscription, handler, requests, handlersMet, failed, faults>>
  BY DEF Pay!Create, Pay!InsertRow, Pay!CreateForTool, Pay!Pay, Pay!CustomerOnly, Pay!Fine
<1>2. /\ session' = [session EXCEPT ![s] = session'[s]] /\ stripeEvent' = [stripeEvent EXCEPT ![s] = stripeEvent'[s]]
      /\ tx' = [tx EXCEPT ![s] = tx'[s]]
      /\ \/ session[s] = "none" /\ session'[s] \in {"made", "open"} /\ tx'[s] = tx[s] /\ stripeEvent'[s] = stripeEvent[s]
         \/ session[s] = "made" /\ session'[s] = "open" /\ tx'[s] = "pending" /\ stripeEvent'[s] = stripeEvent[s]
         \/ session[s] = "open" /\ session'[s] = "paid" /\ tx'[s] = tx[s] /\ stripeEvent'[s] = "due"
  <2>1. /\ session \in [Session -> {"none", "made", "open", "paid"}]
        /\ stripeEvent \in [Session -> {"none", "due", "acknowledged"}]
        /\ tx \in [Session -> {"none", "pending", "unpaid", "paid"}]
    BY CheckoutTyped
  <2>2. CASE Pay!Create(s)
    BY <2>1, <2>2 DEF Pay!Create
  <2>3. CASE Pay!InsertRow(s)
    BY <2>1, <2>3 DEF Pay!InsertRow
  <2>4. CASE Pay!CreateForTool(s)
    BY <2>1, <2>4 DEF Pay!CreateForTool
  <2>5. CASE Pay!Pay(s)
    BY <2>1, <2>5 DEF Pay!Pay
  <2>6. QED
    BY <2>2, <2>3, <2>4, <2>5
<1>3. /\ session[s] # "paid" => stripeEvent[s] = "none" /\ ~(subscription[s] > 0)
      /\ PayAgree(s) /\ \A g \in Handler : PayKnows(g, s) /\ (s \notin handlersMet => PaySingle(g, s))
  BY DEF CheckoutInv, PayAgree
<1>4. session[s] \in {"none", "made", "open"}
  BY <1>2
<1>5. Pay!TypeOK'
  <2>1. session' \in [Session -> {"none", "made", "open", "paid"}]
        /\ stripeEvent' \in [Session -> {"none", "due", "acknowledged"}]
    <3>1. session'[s] \in {"none", "made", "open", "paid"} /\ stripeEvent'[s] \in {"none", "due", "acknowledged"}
      <4>1. /\ session[s] \in {"none", "made", "open", "paid"}
            /\ stripeEvent[s] \in {"none", "due", "acknowledged"}
        BY CheckoutTyped
      <4>2. QED
        BY <1>2, <4>1
    <3>2. session' \in [Session -> {"none", "made", "open", "paid"}]
      BY <1>2, <3>1, CheckoutTyped
    <3>3. stripeEvent' \in [Session -> {"none", "due", "acknowledged"}]
      BY <1>2, <3>1, CheckoutTyped
    <3>4. QED
      BY <3>2, <3>3
  <2>2. tx' \in [Session -> {"none", "pending", "unpaid", "paid"}]
    <3>1. tx'[s] \in {"none", "pending", "unpaid", "paid"}
      BY <1>2, CheckoutTyped
    <3>2. QED
      BY <1>2, <3>1, CheckoutTyped
  <2>3. \A k \in Session : tx'[k] # "none" => session'[k] \in {"open", "paid"}
    <3>1. tx'[s] # "none" => session'[s] \in {"open", "paid"}
      BY <1>2, CheckoutTyped
    <3>2. \A k \in Session : k # s => tx'[k] = tx[k] /\ session'[k] = session[k]
      BY <1>2, CheckoutTyped
    <3>3. QED
      BY <3>1, <3>2, CheckoutTyped
  <2>4. Pay!TypeOK
    BY DEF CheckoutInv
  <2>5. QED
    BY <1>1, <2>1, <2>2, <2>3, <2>4 DEF Pay!TypeOK
<1>7. \A k \in Session : k # s =>
        /\ session'[k] = session[k] /\ stripeEvent'[k] = stripeEvent[k] /\ tx'[k] = tx[k]
        /\ subscription'[k] = subscription[k]
  BY <1>1, <1>2, CheckoutTyped
<1>8. PayGranting(s)' <=> PayGranting(s)
  BY <1>1 DEF PayGranting, Pay!On
<1>9. PayAgree(s)'
  <2>1. CASE session[s] = "none" /\ tx'[s] = tx[s] /\ stripeEvent'[s] = stripeEvent[s]
    BY <1>1, <1>3, <1>8, <2>1 DEF PayAgree
  <2>2. CASE session[s] = "made" /\ tx'[s] = "pending" /\ stripeEvent'[s] = stripeEvent[s]
    BY <1>1, <1>3, <1>8, <2>2 DEF PayAgree
  <2>3. CASE session[s] = "open" /\ session'[s] = "paid" /\ tx'[s] = tx[s] /\ stripeEvent'[s] = "due"
    BY <1>1, <1>3, <1>8, <2>3 DEF PayAgree
  <2>4. QED
    BY <1>2, <2>1, <2>2, <2>3
<1>10. ASSUME NEW g \in Handler PROVE PayKnows(g, s)' /\ (s \notin handlersMet' => PaySingle(g, s)')
  <2>1. CASE s \in handler[g].on
    <3>1. session[s] = "open" /\ session'[s] = "paid" /\ tx'[s] = tx[s]
      BY <1>2, <1>3, <2>1 DEF PayKnows
    <3>2. QED
      BY <1>1, <1>3, <3>1 DEF PayKnows, PaySingle
  <2>2. CASE s \notin handler[g].on
    BY <1>1, <2>2 DEF PayKnows, PaySingle
  <2>3. QED
    BY <2>1, <2>2
<1>11. PICK h : h \notin Handler
  BY NoSetContainsEverything
<1>12. PayLeaves(h, s)
  BY <1>1, <1>7, <1>11 DEF PayLeaves
<1>13. QED
  BY <1>5, <1>9, <1>10, <1>11, <1>12, CheckoutLeaves

(* Every step keeps it.                                                    *)
LEMMA CheckoutStep ==
  ASSUME {MaxRequests, MaxFaults} \subseteq Nat, CheckoutInv, Pay!Next
  PROVE  CheckoutInv'
BY CheckoutCustomer, CheckoutBegins, CheckoutOnward, CheckoutFails DEF Pay!Next

(* Only a paid session grants a subscription, and one unless two requests  *)
(* about it were under way at once; an acknowledged payment is granted,    *)
(* or being granted, unless a request was cut off where nothing repeats    *)
(* it.                                                                     *)
THEOREM CheckoutKeeps ==
  ASSUME {MaxRequests, MaxFaults} \subseteq Nat
  PROVE  Pay!Init /\ [][Pay!Next]_<<Pay!checkout, requests, faults>> =>
           [](Pay!TypeOK /\ Pay!EffectsOnce /\ Pay!NothingLost)
<1>1. Pay!Init => CheckoutInv
  BY CheckoutInit
<1>2. CheckoutInv /\ [Pay!Next]_<<Pay!checkout, requests, faults>> => CheckoutInv'
  BY CheckoutStep, CheckoutRests
<1>3. CheckoutInv => Pay!TypeOK /\ Pay!EffectsOnce /\ Pay!NothingLost
  BY CheckoutSays
<1>4. QED
  BY <1>1, <1>2, <1>3, PTL

-----------------------------------------------------------------------------
(* The edge failover.                                                      *)

FailoverCommandType ==
  [step : {"off", "next", "dispatch", "save", "failed"}, todo : SUBSET EdgeEvent, on : SUBSET EdgeEvent,
   payload : Edge!Maybe, result : Edge!Result]
FailoverEventType ==
  [status : {"none", "staged", "processed", "dead"}, payload : Edge!Maybe, of : Edge!Maybe, live : BOOLEAN]

(* A command works on one event at a time, which it no more has to do.     *)
FailoverOneAtATime(c) ==
  /\ command[c].step = "off" => command[c].todo = {} /\ command[c].on = {}
  /\ command[c].step = "next" => command[c].on = {}
  /\ command[c].step \in {"dispatch", "save", "failed"} =>
       \E e \in EdgeEvent : command[c].on = {e} /\ e \notin command[c].todo

(* A row has a payload, and what a command has is a row.                   *)
FailoverRowed(e) ==
  /\ event[e].status # "none" => event[e].payload # NoPayload
  /\ \A c \in Command : Edge!Has(c, e) => event[e].status # "none"

(* An event that no two commands had: its command works on its present     *)
(* payload, and an outcome is one of that payload.                         *)
FailoverOwned(e) ==
  /\ \A c, d \in Command : Edge!Has(c, e) /\ Edge!Has(d, e) => c = d
  /\ \A c \in Command : e \in command[c].on => command[c].payload = event[e].payload
  /\ \A c \in Command : Edge!Working(c, e, "save") =>
       /\ dispatched[e][event[e].payload] > 0
       /\ command[c].result.live => command[c].result.of = event[e].payload
  /\ event[e].status \in {"processed", "dead"} =>
       /\ dispatched[e][event[e].payload] > 0
       /\ event[e].live => event[e].of = event[e].payload

(* An event that besides was not ingested twice with one payload, and of   *)
(* which every outcome was saved: what is staged was not dispatched, or it *)
(* is about to be saved.                                                   *)
FailoverFresh(e) ==
  /\ \A p \in EdgePayload : dispatched[e][p] <= 1
  /\ event[e].status = "staged" /\ (\A c \in Command : ~Edge!Working(c, e, "save")) =>
       dispatched[e][event[e].payload] = 0
  /\ \A c \in Command : Edge!Has(c, e) => event[e].status = "staged" /\ ~Edge!Working(c, e, "failed")

FailoverSound(e) ==
  /\ FailoverRowed(e)
  /\ e \notin shared => FailoverOwned(e)
  /\ e \notin repeated \cup unsaved \cup shared => FailoverFresh(e)

EdgeInv ==
  /\ Edge!TypeOK
  /\ \A c \in Command : FailoverOneAtATime(c)
  /\ \A e \in EdgeEvent : FailoverSound(e)

(* It holds at first.                                                      *)
LEMMA EdgeInit == Edge!PayloadAssumption /\ Edge!EdgeBounds /\ Edge!Init => EdgeInv
<1> SUFFICES ASSUME Edge!PayloadAssumption, Edge!EdgeBounds, Edge!Init PROVE EdgeInv
  OBVIOUS
<1>1. \A c \in Command : command[c] = Edge!NoCommand
  BY DEF Edge!Init
<1>2. Edge!NoCommand.step = "off" /\ Edge!NoCommand.todo = {} /\ Edge!NoCommand.on = {}
  BY DEF Edge!NoCommand
<1>3. \A c \in Command : command[c].step = "off" /\ command[c].todo = {} /\ command[c].on = {}
  BY <1>1, <1>2
<1>4. Edge!NoRow.status = "none" /\ \A e \in EdgeEvent : event[e] = Edge!NoRow
  BY DEF Edge!Init, Edge!NoRow
<1>5. \A e \in EdgeEvent : FailoverSound(e)
  <2>1. ASSUME NEW e \in EdgeEvent PROVE FailoverRowed(e)
    BY <1>3, <1>4 DEF FailoverRowed, Edge!Has
  <2>2. ASSUME NEW e \in EdgeEvent PROVE FailoverOwned(e)
    BY <1>3, <1>4 DEF FailoverOwned, Edge!Has, Edge!Working
  <2>3. ASSUME NEW e \in EdgeEvent PROVE FailoverFresh(e)
    BY <1>3, <1>4 DEF FailoverFresh, Edge!Has, Edge!Working, Edge!Init
  <2>4. QED
    BY <2>1, <2>2, <2>3 DEF FailoverSound
<1>6. Edge!TypeOK
  <2>1. Edge!Dead \in Edge!Result
    BY DEF Edge!Dead, Edge!Result, Edge!Maybe
  <2>2. Edge!NoCommand \in FailoverCommandType
    BY <2>1 DEF Edge!NoCommand, FailoverCommandType, Edge!Maybe
  <2>3. Edge!NoRow \in FailoverEventType
    BY DEF Edge!NoRow, FailoverEventType, Edge!Maybe
  <2>4. command \in [Command -> FailoverCommandType] /\ event \in [EdgeEvent -> FailoverEventType]
    BY <2>2, <2>3 DEF Edge!Init
  <2>5. ingests \in 0..MaxIngests /\ edgeFaults \in 0..EdgeFaults
    BY DEF Edge!Init, Edge!EdgeBounds
  <2>6. dispatched \in [EdgeEvent -> [EdgePayload -> 0..2]]
    BY DEF Edge!Init
  <2>7. snapshot \in Edge!Maybe /\ repeated \subseteq EdgeEvent /\ shared \subseteq EdgeEvent /\ unsaved \subseteq EdgeEvent
    BY DEF Edge!Init
  <2>8. QED
    BY <1>3, <2>4, <2>5, <2>6, <2>7 DEF Edge!TypeOK, FailoverCommandType, FailoverEventType
<1>7. \A c \in Command : FailoverOneAtATime(c)
  BY <1>3 DEF FailoverOneAtATime
<1>8. QED
  BY <1>5, <1>6, <1>7 DEF EdgeInv

(* It says what was asked.                                                 *)
LEMMA EdgeSays == EdgeInv => Edge!TypeOK /\ Edge!EffectsOnce /\ Edge!NothingLost
<1> SUFFICES ASSUME EdgeInv PROVE Edge!TypeOK /\ Edge!EffectsOnce /\ Edge!NothingLost
  OBVIOUS
<1>1. ASSUME NEW e \in EdgeEvent, NEW p \in EdgePayload, e \notin repeated \cup unsaved \cup shared
      PROVE  ~(dispatched[e][p] > 1)
  <2>1. dispatched[e][p] <= 1 /\ dispatched[e][p] \in 0..2
    BY <1>1 DEF EdgeInv, FailoverSound, FailoverFresh, Edge!TypeOK
  <2>2. QED
    BY <2>1
<1>2. \A e \in EdgeEvent : e \notin shared => FailoverOwned(e)
  BY DEF EdgeInv, FailoverSound
<1>3. QED
  BY <1>1, <1>2 DEF EdgeInv, Edge!EffectsOnce, Edge!NothingLost, FailoverOwned

(* A step of another service leaves it.                                    *)
LEMMA EdgeRests == EdgeInv /\ UNCHANGED Edge!vars => EdgeInv'
<1> SUFFICES ASSUME EdgeInv, UNCHANGED Edge!vars PROVE EdgeInv'
  OBVIOUS
<1>1. UNCHANGED <<event, snapshot, command, ingests, edgeFaults, dispatched, repeated, shared, unsaved>>
  BY DEF Edge!vars, Edge!edgeHistory
<1>2. Edge!TypeOK' /\ \A c \in Command : FailoverOneAtATime(c)'
  BY <1>1 DEF EdgeInv, Edge!TypeOK, FailoverOneAtATime
<1>3. ASSUME NEW e \in EdgeEvent PROVE FailoverSound(e)'
  <2>1. FailoverSound(e) /\ (FailoverRowed(e)' <=> FailoverRowed(e)) /\ (FailoverOwned(e)' <=> FailoverOwned(e)) /\ (FailoverFresh(e)' <=> FailoverFresh(e))
    BY <1>1 DEF EdgeInv, FailoverRowed, FailoverOwned, FailoverFresh, Edge!Has, Edge!Working
  <2>2. QED
    BY <1>1, <2>1 DEF FailoverSound
<1>4. QED
  BY <1>2, <1>3 DEF EdgeInv

(* The command c is the only one that steps, and what was noted stays so.  *)
FailoverAlone(c) ==
  /\ command' = [command EXCEPT ![c] = command'[c]]
  /\ shared \subseteq shared' /\ repeated \subseteq repeated' /\ unsaved \subseteq unsaved'

(* An event it does not work on, nor takes, nor changes is still sound.    *)
LEMMA EdgeOther ==
  ASSUME EdgeInv, NEW c \in Command, NEW e \in EdgeEvent, FailoverAlone(c),
         e \notin command[c].on, e \notin command'[c].on, Edge!Has(c, e)' => Edge!Has(c, e),
         event'[e] = event[e], dispatched'[e] = dispatched[e]
  PROVE  FailoverSound(e)'
<1>1. \A d \in Command : d # c => command'[d] = command[d]
  BY DEF EdgeInv, Edge!TypeOK, FailoverAlone
<1>2. \A d \in Command : \A t : Edge!Working(d, e, t)' <=> Edge!Working(d, e, t)
  BY <1>1 DEF Edge!Working
<1>3. \A d \in Command : Edge!Has(d, e)' => Edge!Has(d, e)
  BY <1>1 DEF Edge!Has
<1>4. \A d \in Command : e \in command'[d].on => e \in command[d].on /\ command'[d] = command[d]
  BY <1>1
<1>5. FailoverRowed(e) => FailoverRowed(e)'
  BY <1>3 DEF FailoverRowed
<1>6. FailoverOwned(e) => FailoverOwned(e)'
  <2>1. \A d \in Command : Edge!Working(d, e, "save")' => Edge!Working(d, e, "save") /\ command'[d] = command[d]
    BY <1>2, <1>4 DEF Edge!Working
  <2>2. QED
    BY <1>3, <1>4, <2>1 DEF FailoverOwned
<1>7. FailoverFresh(e) => FailoverFresh(e)'
  BY <1>2, <1>3 DEF FailoverFresh
<1>8. QED
  BY <1>5, <1>6, <1>7 DEF EdgeInv, FailoverSound, FailoverAlone

(* What remains to be shown of a step.                                     *)
LEMMA EdgeMoves ==
  ASSUME Edge!PayloadAssumption, Edge!EdgeBounds, EdgeInv, NEW c \in Command, FailoverAlone(c),
         command'[c] \in FailoverCommandType, FailoverOneAtATime(c)',
         command'[c].on # {} => command'[c].payload # NoPayload,
         event' \in [EdgeEvent -> FailoverEventType], snapshot' \in Edge!Maybe,
         ingests' \in 0..MaxIngests, edgeFaults' \in 0..EdgeFaults,
         dispatched' \in [EdgeEvent -> [EdgePayload -> 0..2]],
         repeated' \subseteq EdgeEvent, shared' \subseteq EdgeEvent, unsaved' \subseteq EdgeEvent,
         \A e \in EdgeEvent : FailoverSound(e)'
  PROVE  EdgeInv'
<1>1. command' \in [Command -> FailoverCommandType]
  BY DEF EdgeInv, Edge!TypeOK, FailoverAlone, FailoverCommandType
<1>2. \A d \in Command : d # c => command'[d] = command[d]
  BY DEF EdgeInv, Edge!TypeOK, FailoverAlone
<1>3. \A d \in Command : \A e \in command'[d].on : e \in EdgeEvent
  BY <1>1 DEF FailoverCommandType
<1>4. \A d \in Command : \A e \in command'[d].on : event'[e].status # "none"
  <2>1. \A e \in EdgeEvent : FailoverRowed(e)'
    BY DEF FailoverSound
  <2>2. \A d \in Command : \A e \in command'[d].on : Edge!Has(d, e)'
    BY DEF Edge!Has
  <2>3. QED
    BY <1>3, <2>1, <2>2 DEF FailoverRowed
<1>5. \A d \in Command : \A e \in command'[d].on : command'[d].payload # NoPayload
  <2>1. \A d \in Command : d # c => \A e \in command'[d].on : command'[d].payload # NoPayload
    BY <1>2 DEF EdgeInv, Edge!TypeOK
  <2>2. \A e \in command'[c].on : command'[c].payload # NoPayload
    OBVIOUS
  <2>3. QED
    BY <2>1, <2>2
<1>6. Edge!TypeOK'
  BY <1>1, <1>4, <1>5 DEF Edge!TypeOK, FailoverCommandType, FailoverEventType
<1>7. \A d \in Command : FailoverOneAtATime(d)'
  BY <1>2 DEF EdgeInv, FailoverOneAtATime
<1>8. QED
  BY <1>6, <1>7 DEF EdgeInv

(* The types, one by one.                                                  *)
LEMMA EdgeTypes ==
  ASSUME EdgeInv
  PROVE  /\ command \in [Command -> FailoverCommandType] /\ event \in [EdgeEvent -> FailoverEventType]
         /\ snapshot \in Edge!Maybe /\ ingests \in 0..MaxIngests /\ edgeFaults \in 0..EdgeFaults
         /\ dispatched \in [EdgeEvent -> [EdgePayload -> 0..2]]
         /\ repeated \subseteq EdgeEvent /\ shared \subseteq EdgeEvent /\ unsaved \subseteq EdgeEvent
BY DEF EdgeInv, Edge!TypeOK, FailoverCommandType, FailoverEventType

(* A command goes on to what it has left.                                  *)
LEMMA EdgeWorkOn ==
  ASSUME EdgeInv, NEW c \in Command, NEW events \in SUBSET EdgeEvent, Edge!WorkOn(c, events)
  PROVE  /\ command' = [command EXCEPT ![c] = command'[c]] /\ command'[c] \in FailoverCommandType
         /\ command'[c].todo = events /\ command'[c].on = {} /\ command'[c].step \in {"off", "next"}
         /\ FailoverOneAtATime(c)'
<1> DEFINE new == IF events = {} THEN Edge!NoCommand ELSE [Edge!NoCommand EXCEPT !.step = "next", !.todo = events]
<1>1. command'[c] = new /\ command' = [command EXCEPT ![c] = command'[c]]
  BY EdgeTypes DEF Edge!WorkOn
<1>2. Edge!Dead \in Edge!Result
  BY DEF Edge!Dead, Edge!Result, Edge!Maybe
<1>3. new \in FailoverCommandType /\ new.todo = events /\ new.on = {} /\ new.step = IF events = {} THEN "off" ELSE "next"
  <2>1. CASE events = {}
    BY <1>2, <2>1 DEF Edge!NoCommand, FailoverCommandType, Edge!Maybe
  <2>2. CASE events # {}
    BY <1>2, <2>2 DEF Edge!NoCommand, FailoverCommandType, Edge!Maybe
  <2>3. QED
    BY <2>1, <2>2
<1> HIDE DEF new
<1>4. FailoverOneAtATime(c)'
  BY <1>1, <1>3 DEF FailoverOneAtATime
<1>5. QED
  BY <1>1, <1>3, <1>4

(* Ingest, by a command that is free.                                      *)
LEMMA EdgeIngest ==
  ASSUME Edge!PayloadAssumption, Edge!EdgeBounds, EdgeInv, NEW c \in Command, NEW e \in EdgeEvent,
         NEW p \in EdgePayload, NEW online \in BOOLEAN, Edge!Ingest(c, e, p, online)
  PROVE  EdgeInv'
<1>1. /\ command[c].step = "off" /\ ingests < MaxIngests /\ ingests' = ingests + 1
      /\ event' = [event EXCEPT ![e].payload = p, ![e].status = "staged"]
      /\ IF online THEN Edge!WorkOn(c, {e}) ELSE UNCHANGED command
      /\ repeated' = IF dispatched[e][p] > 0 THEN repeated \cup {e} ELSE repeated
      /\ shared' = IF \E d \in Command : Edge!Has(d, e) THEN shared \cup {e} ELSE shared
      /\ UNCHANGED <<snapshot, edgeFaults, dispatched, unsaved>>
  BY DEF Edge!Ingest, Edge!FirstFree, Edge!Free
<1>2. command[c].todo = {} /\ command[c].on = {} /\ p # NoPayload /\ FailoverOneAtATime(c)
  BY <1>1 DEF EdgeInv, FailoverOneAtATime, Edge!PayloadAssumption
<1>3. /\ event'[e] = [event[e] EXCEPT !.payload = p, !.status = "staged"]
      /\ event' = [event EXCEPT ![e] = event'[e]]
  BY <1>1, EdgeTypes
<1>4. event'[e] \in FailoverEventType /\ event'[e].payload = p /\ event'[e].status = "staged"
  <2>1. event[e] \in FailoverEventType /\ p \in Edge!Maybe
    BY EdgeTypes DEF Edge!Maybe
  <2>2. QED
    BY <1>3, <2>1 DEF FailoverEventType
<1>5. /\ command' = [command EXCEPT ![c] = command'[c]] /\ command'[c] \in FailoverCommandType
      /\ command'[c].todo \in {{}, {e}} /\ command'[c].on = {} /\ FailoverOneAtATime(c)'
  <2>1. CASE online
    BY <1>1, <2>1, EdgeWorkOn
  <2>2. CASE ~online
    BY <1>1, <1>2, <2>2, EdgeTypes DEF FailoverOneAtATime
  <2>3. QED
    BY <2>1, <2>2
<1>6. FailoverAlone(c)
  BY <1>1, <1>5 DEF FailoverAlone
<1>7. ASSUME NEW k \in EdgeEvent, k # e PROVE FailoverSound(k)'
  <2>1. event'[k] = event[k] /\ dispatched'[k] = dispatched[k]
    BY <1>1, <1>3, <1>7, EdgeTypes
  <2>2. ~Edge!Has(c, k)'
    BY <1>5, <1>7 DEF Edge!Has
  <2>3. QED
    BY <1>2, <1>5, <1>6, <2>1, <2>2, EdgeOther
<1>8. FailoverSound(e)'
  <2>1. \A d \in Command : d # c => command'[d] = command[d]
    BY <1>5, EdgeTypes
  <2>2. FailoverRowed(e)'
    BY <1>2, <1>4 DEF FailoverRowed
  <2>3. ASSUME e \notin shared' PROVE \A d \in Command : ~Edge!Has(d, e)
    BY <1>1, <2>3
  <2>4. ASSUME e \notin shared', NEW d \in Command PROVE e \notin command'[d].on /\ (Edge!Has(d, e)' => d = c)
    BY <1>5, <2>1, <2>3, <2>4 DEF Edge!Has
  <2>5. e \notin shared' => FailoverOwned(e)'
    BY <1>4, <2>4 DEF FailoverOwned, Edge!Working
  <2>6. ASSUME e \notin repeated' \cup unsaved' \cup shared' PROVE FailoverFresh(e)'
    <3>1. e \notin repeated \cup unsaved \cup shared /\ ~(dispatched[e][p] > 0)
      BY <1>1, <2>6
    <3>2. dispatched'[e][p] = 0 /\ \A q \in EdgePayload : dispatched'[e][q] <= 1
      <4>1. dispatched[e][p] \in 0..2 /\ FailoverFresh(e)
        BY <3>1, EdgeTypes DEF EdgeInv, FailoverSound
      <4>2. dispatched[e][p] = 0
        BY <3>1, <4>1
      <4>3. QED
        BY <1>1, <4>1, <4>2 DEF FailoverFresh
    <3>3. \A d \in Command : ~Edge!Working(d, e, "save")' /\ ~Edge!Working(d, e, "failed")'
      BY <2>4, <2>6 DEF Edge!Working
    <3>4. QED
      BY <1>4, <3>2, <3>3 DEF FailoverFresh
  <2>7. QED
    BY <2>2, <2>5, <2>6 DEF FailoverSound
<1>9. event' \in [EdgeEvent -> FailoverEventType]
  BY <1>3, <1>4, EdgeTypes
<1>10. ingests' \in 0..MaxIngests
  BY <1>1, EdgeTypes, CountUp DEF Edge!EdgeBounds
<1>11. repeated' \subseteq EdgeEvent /\ shared' \subseteq EdgeEvent
  BY <1>1, EdgeTypes
<1>12. QED
  BY <1>1, <1>5, <1>6, <1>7, <1>8, <1>9, <1>10, <1>11, EdgeMoves, EdgeTypes

(* A replay takes what is staged.                                          *)
LEMMA EdgeReplay ==
  ASSUME Edge!PayloadAssumption, Edge!EdgeBounds, EdgeInv, NEW c \in Command, Edge!Replay(c)
  PROVE  EdgeInv'
<1> DEFINE staged == {e \in EdgeEvent : event[e].status = "staged"}
<1>1. /\ command[c].step = "off" /\ Edge!WorkOn(c, staged)
      /\ shared' = shared \cup {e \in staged : \E d \in Command : Edge!Has(d, e)}
      /\ UNCHANGED <<event, snapshot, ingests, edgeFaults, dispatched, repeated, unsaved>>
  BY DEF Edge!Replay, Edge!FirstFree, Edge!Free
<1>2. command[c].todo = {} /\ command[c].on = {} /\ FailoverOneAtATime(c)
  BY <1>1 DEF EdgeInv, FailoverOneAtATime
<1>3. /\ command' = [command EXCEPT ![c] = command'[c]] /\ command'[c] \in FailoverCommandType
      /\ command'[c].todo = staged /\ command'[c].on = {} /\ FailoverOneAtATime(c)'
  BY <1>1, EdgeWorkOn
<1>4. FailoverAlone(c)
  BY <1>1, <1>3 DEF FailoverAlone
<1>5. ASSUME NEW e \in EdgeEvent PROVE FailoverSound(e)'
  <2>1. CASE e \notin staged
    <3>1. ~Edge!Has(c, e)'
      BY <1>3, <2>1 DEF Edge!Has
    <3>2. QED
      BY <1>1, <1>2, <1>3, <1>4, <3>1, EdgeOther
  <2>2. CASE e \in staged
    <3>1. \A d \in Command : d # c => command'[d] = command[d]
      BY <1>3, EdgeTypes
    <3>2. FailoverSound(e) /\ event[e].status = "staged"
      BY <2>2 DEF EdgeInv
    <3>3. FailoverRowed(e)'
      BY <1>1, <3>2 DEF FailoverSound, FailoverRowed
    <3>4. ASSUME e \notin shared', NEW d \in Command
          PROVE  e \notin command'[d].on /\ e \notin command[d].on /\ (Edge!Has(d, e)' => d = c)
      BY <1>1, <1>3, <2>2, <3>1, <3>4 DEF Edge!Has
    <3>5. e \notin shared' => FailoverOwned(e)'
      BY <1>1, <3>2, <3>4 DEF FailoverOwned, Edge!Working
    <3>6. ASSUME e \notin repeated' \cup unsaved' \cup shared' PROVE FailoverFresh(e)'
      <4>1. FailoverFresh(e)
        BY <1>1, <3>2, <3>6 DEF FailoverSound
      <4>2. \A d \in Command : ~Edge!Working(d, e, "save") /\ ~Edge!Working(d, e, "save")' /\ ~Edge!Working(d, e, "failed")'
        BY <3>4, <3>6 DEF Edge!Working
      <4>3. QED
        BY <1>1, <3>2, <4>1, <4>2 DEF FailoverFresh
    <3>7. QED
      BY <3>3, <3>5, <3>6 DEF FailoverSound
  <2>3. QED
    BY <2>1, <2>2
<1>6. shared' \subseteq EdgeEvent
  BY <1>1, EdgeTypes
<1>7. QED
  BY <1>1, <1>3, <1>4, <1>5, <1>6, EdgeMoves, EdgeTypes

(* A command that works on e alone keeps the others sound.                 *)
LEMMA EdgeApart ==
  ASSUME EdgeInv, NEW c \in Command, NEW e \in EdgeEvent, FailoverAlone(c),
         command[c].on \subseteq {e}, command'[c].on \subseteq {e},
         command'[c].todo \subseteq command[c].todo,
         event' = [event EXCEPT ![e] = event'[e]],
         dispatched' = [dispatched EXCEPT ![e] = dispatched'[e]]
  PROVE  \A k \in EdgeEvent : k # e => FailoverSound(k)'
<1>1. ASSUME NEW k \in EdgeEvent, k # e PROVE FailoverSound(k)'
  <2>1. event'[k] = event[k] /\ dispatched'[k] = dispatched[k]
    BY <1>1, EdgeTypes
  <2>2. k \notin command[c].on /\ k \notin command'[c].on /\ (Edge!Has(c, k)' => Edge!Has(c, k))
    BY <1>1 DEF Edge!Has
  <2>3. QED
    BY <2>1, <2>2, EdgeOther
<1>2. QED
  BY <1>1

(* Read the row of the next.                                               *)
LEMMA EdgeRead ==
  ASSUME Edge!PayloadAssumption, Edge!EdgeBounds, EdgeInv, NEW c \in Command, NEW e \in EdgeEvent, Edge!Read(c, e)
  PROVE  EdgeInv'
<1>1. /\ command[c].step = "next" /\ e \in command[c].todo
      /\ command' = [command EXCEPT ![c].step = "dispatch", ![c].on = {e}, ![c].todo = @ \ {e},
                                    ![c].payload = event[e].payload]
      /\ UNCHANGED <<event, snapshot, ingests, edgeFaults, dispatched, repeated, shared, unsaved>>
  BY DEF Edge!Read, Edge!edgeHistory
<1>2. command[c].on = {} /\ Edge!Has(c, e) /\ FailoverSound(e)
  BY <1>1 DEF EdgeInv, FailoverOneAtATime, Edge!Has
<1>3. /\ command'[c] = [command[c] EXCEPT !.step = "dispatch", !.on = {e}, !.todo = @ \ {e},
                                          !.payload = event[e].payload]
      /\ command' = [command EXCEPT ![c] = command'[c]]
  BY <1>1, EdgeTypes
<1>4. /\ command'[c] \in FailoverCommandType /\ command'[c].step = "dispatch" /\ command'[c].on = {e}
      /\ command'[c].todo = command[c].todo \ {e} /\ command'[c].payload = event[e].payload
  <2>1. command[c] \in FailoverCommandType /\ event[e].payload \in Edge!Maybe
    BY EdgeTypes DEF FailoverEventType
  <2>2. /\ command'[c].step = "dispatch" /\ command'[c].on = {e}
        /\ command'[c].todo = command[c].todo \ {e} /\ command'[c].payload = event[e].payload
        /\ command'[c].result = command[c].result
        /\ command'[c] = [step |-> "dispatch", todo |-> command[c].todo \ {e}, on |-> {e},
                          payload |-> event[e].payload, result |-> command[c].result]
    BY <1>3, <2>1 DEF FailoverCommandType
  <2>3. command[c].todo \ {e} \in SUBSET EdgeEvent /\ {e} \in SUBSET EdgeEvent /\ command[c].result \in Edge!Result
    BY <2>1 DEF FailoverCommandType
  <2>4. QED
    BY <2>1, <2>2, <2>3 DEF FailoverCommandType
<1>5. event[e].payload # NoPayload
  BY <1>2 DEF FailoverSound, FailoverRowed
<1>6. FailoverOneAtATime(c)' /\ FailoverAlone(c)
  BY <1>1, <1>3, <1>4 DEF FailoverOneAtATime, FailoverAlone
<1>7. event' = [event EXCEPT ![e] = event'[e]] /\ dispatched' = [dispatched EXCEPT ![e] = dispatched'[e]]
  BY <1>1, EdgeTypes
<1>8. \A k \in EdgeEvent : k # e => FailoverSound(k)'
  BY <1>2, <1>4, <1>6, <1>7, EdgeApart
<1>9. FailoverSound(e)'
  <2>1. \A d \in Command : d # c => command'[d] = command[d]
    BY <1>3, EdgeTypes
  <2>2. \A d \in Command : Edge!Has(d, e)' => Edge!Has(d, e)
    BY <1>2, <2>1 DEF Edge!Has
  <2>3. FailoverRowed(e)'
    BY SMTT(30), <1>1, <1>2, <2>2 DEF FailoverSound, FailoverRowed
  <2>4. e \notin shared => FailoverOwned(e)'
    BY <1>1, <1>2, <1>4, <2>1, <2>2 DEF FailoverSound, FailoverOwned, Edge!Has, Edge!Working
  <2>5. ASSUME e \notin repeated \cup unsaved \cup shared PROVE FailoverFresh(e)'
    <3>1. FailoverFresh(e) /\ event[e].status = "staged" /\ FailoverOwned(e)
      BY <1>2, <2>5 DEF FailoverSound, FailoverFresh
    <3>2. \A d \in Command : d # c => ~Edge!Has(d, e)
      BY <1>2, <3>1 DEF FailoverOwned
    <3>3. \A d \in Command : ~Edge!Working(d, e, "save") /\ ~Edge!Working(d, e, "failed")'
      BY <1>1, <1>4, <2>1, <3>2 DEF Edge!Working, Edge!Has
    <3>4. QED
      BY <1>1, <3>1, <3>3 DEF FailoverFresh
  <2>6. QED
    BY <1>1, <2>3, <2>4, <2>5 DEF FailoverSound
<1>10. QED
  BY <1>1, <1>4, <1>5, <1>6, <1>8, <1>9, EdgeMoves, EdgeTypes

(* What is known of the event a command works on.                          *)
LEMMA EdgeWorking ==
  ASSUME EdgeInv, NEW c \in Command, NEW e \in EdgeEvent, e \in command[c].on
  PROVE  /\ command[c].on = {e} /\ e \notin command[c].todo /\ command[c].todo \subseteq EdgeEvent
         /\ command[c].step \in {"dispatch", "save", "failed"} /\ command[c] \in FailoverCommandType
         /\ event[e] \in FailoverEventType /\ event[e].status # "none" /\ event[e].payload \in EdgePayload
         /\ command[c].payload \in EdgePayload /\ FailoverSound(e) /\ dispatched[e] \in [EdgePayload -> 0..2]
         /\ e \notin shared => \A d \in Command : d # c => ~Edge!Has(d, e)
<1>1. command[c] \in FailoverCommandType /\ event[e] \in FailoverEventType /\ dispatched[e] \in [EdgePayload -> 0..2]
  BY EdgeTypes
<1>2. command[c].step \in {"off", "next", "dispatch", "save", "failed"} /\ command[c].todo \subseteq EdgeEvent
      /\ command[c].payload \in Edge!Maybe /\ event[e].payload \in Edge!Maybe
  BY <1>1 DEF FailoverCommandType, FailoverEventType
<1>3. /\ command[c].on = {e} /\ e \notin command[c].todo
      /\ command[c].step \in {"dispatch", "save", "failed"}
  BY <1>2 DEF EdgeInv, FailoverOneAtATime
<1>4. event[e].status # "none" /\ command[c].payload # NoPayload /\ FailoverSound(e)
  BY DEF EdgeInv, Edge!TypeOK
<1>5. event[e].payload # NoPayload
  BY <1>4 DEF FailoverSound, FailoverRowed
<1>6. e \notin shared => \A d \in Command : d # c => ~Edge!Has(d, e)
  BY <1>4 DEF FailoverSound, FailoverOwned, Edge!Has
<1>7. QED
  BY <1>1, <1>2, <1>3, <1>4, <1>5, <1>6 DEF Edge!Maybe

(* The dispatch.                                                           *)
LEMMA EdgeDispatch ==
  ASSUME Edge!PayloadAssumption, Edge!EdgeBounds, EdgeInv, NEW c \in Command, NEW e \in EdgeEvent, Edge!Dispatch(c, e)
  PROVE  EdgeInv'
<1> DEFINE p == command[c].payload
<1>1. /\ command[c].step = "dispatch" /\ e \in command[c].on
      /\ dispatched' = [dispatched EXCEPT ![e][p] = IF @ < 2 THEN @ + 1 ELSE 2]
      /\ UNCHANGED <<event, ingests, repeated, shared>>
      /\ \/ Edge!Returns(c, Edge!Live(p)) /\ Edge!Snapshots(p) /\ Edge!Fine /\ UNCHANGED unsaved
         \/ Edge!Returns(c, Edge!Cached) /\ Edge!Fine /\ UNCHANGED <<snapshot, unsaved>>
         \/ /\ command' = [command EXCEPT ![c].step = "failed"]
            /\ snapshot' \in {snapshot, p} /\ unsaved' = unsaved \cup {e} /\ Edge!Fault
  BY DEF Edge!Dispatch, Edge!Working
<1>2. /\ command[c].on = {e} /\ e \notin command[c].todo /\ command[c] \in FailoverCommandType
      /\ event[e].status # "none" /\ event[e].payload \in EdgePayload
      /\ p \in EdgePayload /\ FailoverSound(e) /\ dispatched[e] \in [EdgePayload -> 0..2]
      /\ e \notin shared => \A d \in Command : d # c => ~Edge!Has(d, e)
  BY <1>1, EdgeWorking
<1>3. \E reply \in Edge!Result :
        \/ /\ command' = [command EXCEPT ![c].step = "save", ![c].result = reply]
           /\ reply.live => reply.of = p
           /\ unsaved' = unsaved
        \/ command' = [command EXCEPT ![c].step = "failed"] /\ unsaved' = unsaved \cup {e}
  <2>1. CASE Edge!Returns(c, Edge!Live(p)) /\ UNCHANGED unsaved
    <3>1. Edge!Live(p) \in Edge!Result /\ Edge!Live(p).of = p
      BY <1>2 DEF Edge!Live, Edge!Result, Edge!Maybe
    <3>2. QED
      BY <2>1, <3>1 DEF Edge!Returns
  <2>2. CASE Edge!Returns(c, Edge!Cached) /\ UNCHANGED unsaved
    <3>1. Edge!Cached \in Edge!Result /\ ~Edge!Cached.live
      <4>1. CASE snapshot = NoPayload
        BY <4>1 DEF Edge!Cached, Edge!Dead, Edge!Result, Edge!Maybe
      <4>2. CASE snapshot # NoPayload
        BY <4>2, EdgeTypes DEF Edge!Cached, Edge!Result
      <4>3. QED
        BY <4>1, <4>2
    <3>2. QED
      BY <2>2, <3>1 DEF Edge!Returns
  <2>3. CASE command' = [command EXCEPT ![c].step = "failed"] /\ unsaved' = unsaved \cup {e}
    <3>1. Edge!Dead \in Edge!Result
      BY DEF Edge!Dead, Edge!Result, Edge!Maybe
    <3>2. QED
      BY <2>3, <3>1
  <2>4. QED
    BY <1>1, <2>1, <2>2, <2>3
<1>4. PICK reply \in Edge!Result :
        \/ /\ command' = [command EXCEPT ![c].step = "save", ![c].result = reply]
           /\ reply.live => reply.of = p
           /\ unsaved' = unsaved
        \/ command' = [command EXCEPT ![c].step = "failed"] /\ unsaved' = unsaved \cup {e}
  BY <1>3
<1>5. /\ command' = [command EXCEPT ![c] = command'[c]]
      /\ \/ /\ command'[c] = [command[c] EXCEPT !.step = "save", !.result = reply]
            /\ unsaved' = unsaved
         \/ command'[c] = [command[c] EXCEPT !.step = "failed"] /\ unsaved' = unsaved \cup {e}
  BY <1>4, EdgeTypes
<1>6. /\ command'[c] \in FailoverCommandType /\ command'[c].on = {e} /\ command'[c].todo = command[c].todo
      /\ command'[c].payload = p /\ command'[c].step \in {"save", "failed"}
      /\ command'[c].step = "failed" => e \in unsaved'
      /\ command'[c].step = "save" => command'[c].result = reply
  BY <1>2, <1>5 DEF FailoverCommandType
<1>7. command'[c].step = "save" => (command'[c].result.live => command'[c].result.of = p)
  <2>1. ASSUME command'[c].step = "save" PROVE reply.live => reply.of = p
    <3>1. CASE command' = [command EXCEPT ![c].step = "failed"]
      <4>1. command'[c].step = "failed"
        BY <3>1, EdgeTypes DEF FailoverCommandType
      <4>2. QED
        BY <2>1, <4>1
    <3>2. QED
      BY <1>4, <3>1
  <2>2. QED
    BY <1>6, <2>1
<1>8. /\ dispatched'[e] = [dispatched[e] EXCEPT ![p] = IF @ < 2 THEN @ + 1 ELSE 2]
      /\ dispatched' = [dispatched EXCEPT ![e] = dispatched'[e]]
  BY <1>1, EdgeTypes
<1>9. /\ \A q \in EdgePayload : q # p => dispatched'[e][q] = dispatched[e][q]
      /\ dispatched'[e][p] = IF dispatched[e][p] < 2 THEN dispatched[e][p] + 1 ELSE 2
      /\ dispatched[e][p] \in 0..2
  BY <1>2, <1>8
<1>10. dispatched'[e][p] \in 0..2 /\ dispatched'[e][p] > 0
       /\ (dispatched[e][p] = 0 => dispatched'[e][p] <= 1)
  BY <1>9
<1>11. dispatched' \in [EdgeEvent -> [EdgePayload -> 0..2]]
  BY SMTT(30), <1>2, <1>8, <1>9, <1>10, EdgeTypes
<1>12. FailoverOneAtATime(c)' /\ FailoverAlone(c)
  BY <1>1, <1>2, <1>5, <1>6 DEF FailoverOneAtATime, FailoverAlone
<1>13. event' = [event EXCEPT ![e] = event'[e]]
  BY <1>1, EdgeTypes
<1>14. \A k \in EdgeEvent : k # e => FailoverSound(k)'
  BY <1>2, <1>6, <1>8, <1>12, <1>13, EdgeApart
<1>15. FailoverSound(e)'
  <2>1. \A d \in Command : d # c => command'[d] = command[d]
    BY <1>5, EdgeTypes
  <2>2. \A d \in Command : Edge!Has(d, e)' <=> Edge!Has(d, e)
    BY <1>2, <1>6, <2>1 DEF Edge!Has
  <2>3. FailoverRowed(e)'
    BY <1>1, <1>2, <2>2 DEF FailoverSound, FailoverRowed
  <2>4. ASSUME e \notin shared PROVE FailoverOwned(e)'
    <3>1. FailoverOwned(e) /\ p = event[e].payload /\ event' = event
      BY <1>1, <1>2, <2>4 DEF FailoverSound, FailoverOwned
    <3>2. \A d \in Command : e \in command'[d].on => d = c
      BY <1>2, <2>1, <2>4 DEF Edge!Has
    <3>3. \A d \in Command : Edge!Working(d, e, "save")' =>
            /\ dispatched'[e][event'[e].payload] > 0
            /\ command'[d].result.live => command'[d].result.of = event'[e].payload
      BY <1>7, <1>10, <3>1, <3>2 DEF Edge!Working
    <3>4. QED
      BY <1>6, <1>10, <2>2, <3>1, <3>2, <3>3 DEF FailoverOwned
  <2>5. ASSUME e \notin repeated \cup unsaved' \cup shared PROVE FailoverFresh(e)'
    <3>1. FailoverFresh(e) /\ p = event[e].payload /\ event' = event
      BY <1>1, <1>2, <1>5, <2>5 DEF FailoverSound, FailoverOwned
    <3>2. \A d \in Command : d # c => ~Edge!Has(d, e)
      BY <1>2, <2>5
    <3>3. event[e].status = "staged" /\ \A d \in Command : ~Edge!Working(d, e, "save")
      BY <1>1, <1>2, <3>1, <3>2 DEF FailoverFresh, Edge!Working, Edge!Has
    <3>4. dispatched[e][p] = 0
      BY <3>1, <3>3 DEF FailoverFresh
    <3>5. command'[c].step = "save" /\ Edge!Working(c, e, "save")'
      BY <1>6, <2>5 DEF Edge!Working
    <3>6. \A q \in EdgePayload : dispatched'[e][q] <= 1
      BY <1>9, <1>10, <3>1, <3>4 DEF FailoverFresh
    <3>7. \A d \in Command : Edge!Has(d, e)' => ~Edge!Working(d, e, "failed")'
      BY <2>2, <3>2, <3>5 DEF Edge!Working
    <3>8. QED
      BY <3>1, <3>3, <3>5, <3>6, <3>7 DEF FailoverFresh
  <2>6. QED
    BY <1>1, <2>3, <2>4, <2>5 DEF FailoverSound
<1>16. snapshot' \in Edge!Maybe
  BY <1>1, <1>2, EdgeTypes DEF Edge!Snapshots, Edge!Maybe
<1>17. edgeFaults' \in 0..EdgeFaults
  BY <1>1, EdgeTypes, CountUp DEF Edge!EdgeBounds, Edge!Fine, Edge!Fault
<1>18. unsaved' \subseteq EdgeEvent
  BY <1>4, EdgeTypes
<1>19. p # NoPayload
  BY <1>2 DEF Edge!PayloadAssumption
<1>20. QED
  BY <1>1, <1>5, <1>6, <1>11, <1>12, <1>14, <1>15, <1>16, <1>17, <1>18, <1>19, EdgeMoves, EdgeTypes

(* The row holds what it held, or the outcome of the command.              *)
FailoverRightRow(c, e) ==
  event'[e].status \in {"processed", "dead"} =>
    \/ event'[e].status = event[e].status /\ event'[e].of = event[e].of
       /\ (event'[e].live => event[e].live)
    \/ command[c].step = "save" /\ event'[e].of = command[c].result.of
       /\ (event'[e].live => command[c].result.live)

(* A command gives its event up, and goes on or ends.                      *)
FailoverGivesUp(c, e) ==
  /\ e \in command[c].on /\ \E events \in SUBSET command[c].todo : Edge!WorkOn(c, events)
  /\ event' = [event EXCEPT ![e] = event'[e]] /\ FailoverRightRow(c, e)
  /\ event'[e].status # "none" /\ event'[e].payload = event[e].payload
  /\ dispatched' = dispatched /\ repeated' = repeated /\ shared' = shared
  /\ unsaved \subseteq unsaved'
  /\ \/ e \in repeated \cup unsaved' \cup shared \/ event'[e].status \in {"processed", "dead"}
     \/ command[c].step = "dispatch" /\ event'[e].status = event[e].status

(* Every event is then still sound.                                        *)
LEMMA EdgeGivesUp ==
  ASSUME EdgeInv, NEW c \in Command, NEW e \in EdgeEvent, FailoverGivesUp(c, e)
  PROVE  \A k \in EdgeEvent : FailoverSound(k)'
<1> USE DEF FailoverGivesUp
<1>11. PICK events \in SUBSET command[c].todo : Edge!WorkOn(c, events)
  OBVIOUS
<1>1. /\ command[c].on = {e} /\ e \notin command[c].todo /\ command[c].todo \subseteq EdgeEvent
      /\ event[e].status # "none" /\ event[e].payload \in EdgePayload /\ FailoverSound(e)
      /\ e \notin shared => \A d \in Command : d # c => ~Edge!Has(d, e)
  BY EdgeWorking
<1>2. /\ command' = [command EXCEPT ![c] = command'[c]] /\ command'[c].todo = events
      /\ command'[c].on = {}
  BY <1>1, <1>11, EdgeWorkOn
<1>3. FailoverAlone(c) /\ dispatched' = [dispatched EXCEPT ![e] = dispatched'[e]]
  BY <1>2, EdgeTypes DEF FailoverAlone
<1>4. \A k \in EdgeEvent : k # e => FailoverSound(k)'
  BY <1>1, <1>2, <1>3, EdgeApart
<1>5. \A d \in Command : d # c => command'[d] = command[d]
  BY <1>2, EdgeTypes
<1>6. ~Edge!Has(c, e)' /\ \A d \in Command : Edge!Has(d, e)' => Edge!Has(d, e)
  BY <1>1, <1>2, <1>5 DEF Edge!Has
<1>7. FailoverRowed(e)'
  BY <1>1, <1>6 DEF FailoverSound, FailoverRowed
<1>8. ASSUME e \notin shared PROVE FailoverOwned(e)'
  <2>1. FailoverOwned(e) /\ \A d \in Command : ~Edge!Has(d, e)'
    BY <1>1, <1>5, <1>6, <1>8 DEF FailoverSound, Edge!Has
  <2>2. \A d \in Command : \A t : e \notin command'[d].on /\ ~Edge!Working(d, e, t)'
    BY <2>1 DEF Edge!Has, Edge!Working
  <2>3. ASSUME event'[e].status \in {"processed", "dead"}
        PROVE  /\ dispatched'[e][event'[e].payload] > 0
               /\ event'[e].live => event'[e].of = event'[e].payload
    <3>1. CASE event'[e].status = event[e].status /\ event'[e].of = event[e].of
               /\ (event'[e].live => event[e].live)
      BY <2>1, <2>3, <3>1 DEF FailoverOwned
    <3>2. CASE command[c].step = "save" /\ event'[e].of = command[c].result.of
               /\ (event'[e].live => command[c].result.live)
      <4>1. Edge!Working(c, e, "save")
        BY <3>2 DEF Edge!Working
      <4>2. QED
        BY <2>1, <3>2, <4>1 DEF FailoverOwned
    <3>3. QED
      BY <2>3, <3>1, <3>2 DEF FailoverRightRow
  <2>4. QED
    BY <2>1, <2>2, <2>3 DEF FailoverOwned
<1>9. ASSUME e \notin repeated \cup unsaved' \cup shared PROVE FailoverFresh(e)'
  <2>1. FailoverFresh(e) /\ \A d \in Command : ~Edge!Has(d, e)'
    BY <1>1, <1>5, <1>6, <1>9 DEF FailoverSound, Edge!Has
  <2>2. ASSUME event'[e].status = "staged" PROVE dispatched[e][event[e].payload] = 0
    <3>1. command[c].step = "dispatch" /\ event'[e].status = event[e].status
      BY <1>9, <2>2
    <3>2. \A d \in Command : ~Edge!Working(d, e, "save")
      BY <1>1, <1>9, <3>1 DEF Edge!Working, Edge!Has
    <3>3. QED
      BY <2>1, <2>2, <3>1, <3>2 DEF FailoverFresh
  <2>3. QED
    BY <2>1, <2>2 DEF FailoverFresh
<1>10. QED
  BY <1>4, <1>7, <1>8, <1>9 DEF FailoverSound

(* A command saves an outcome.                                             *)
LEMMA EdgeSave ==
  ASSUME Edge!PayloadAssumption, Edge!EdgeBounds, EdgeInv, NEW c \in Command, NEW e \in EdgeEvent, Edge!Save(c, e)
  PROVE  EdgeInv'
<1> DEFINE reply == command[c].result
<1>1. /\ command[c].step = "save" /\ e \in command[c].on
      /\ UNCHANGED <<snapshot, ingests, dispatched, repeated, shared>>
      /\ \/ /\ event' = [event EXCEPT ![e].status = IF reply.ok THEN "processed" ELSE "dead",
                                      ![e].of = reply.of, ![e].live = reply.live]
            /\ Edge!WorkOn(c, command[c].todo) /\ Edge!Fine /\ UNCHANGED unsaved
         \/ /\ command' = [command EXCEPT ![c].step = "failed", ![c].result = Edge!Dead]
            /\ unsaved' = unsaved \cup {e} /\ Edge!Fault /\ UNCHANGED event
  BY DEF Edge!Save, Edge!Working
<1>2. /\ command[c].on = {e} /\ e \notin command[c].todo /\ command[c] \in FailoverCommandType
      /\ command[c].todo \subseteq EdgeEvent /\ command[c].payload \in EdgePayload
      /\ event[e] \in FailoverEventType /\ event[e].status # "none" /\ FailoverSound(e)
      /\ e \notin shared => \A d \in Command : d # c => ~Edge!Has(d, e)
  BY <1>1, EdgeWorking
<1>3. edgeFaults' \in 0..EdgeFaults
  BY <1>1, EdgeTypes, CountUp DEF Edge!EdgeBounds, Edge!Fine, Edge!Fault
<1>4. command[c].payload # NoPayload
  BY <1>2 DEF Edge!PayloadAssumption
<1>5. ASSUME event' = [event EXCEPT ![e].status = IF reply.ok THEN "processed" ELSE "dead",
                                    ![e].of = reply.of, ![e].live = reply.live],
             Edge!WorkOn(c, command[c].todo), UNCHANGED unsaved
      PROVE  EdgeInv'
  <2>1. PICK status \in {"processed", "dead"} :
          event' = [event EXCEPT ![e].status = status, ![e].of = reply.of, ![e].live = reply.live]
    BY <1>5
  <2>2. /\ event'[e] = [event[e] EXCEPT !.status = status, !.of = reply.of, !.live = reply.live]
        /\ event' = [event EXCEPT ![e] = event'[e]]
    BY <2>1, EdgeTypes
  <2>3. reply \in Edge!Result
    BY <1>2 DEF FailoverCommandType
  <2>4. /\ event'[e] \in FailoverEventType /\ event'[e].status = status /\ event'[e].of = reply.of
        /\ event'[e].payload = event[e].payload
    <3>1. /\ reply.of \in Edge!Maybe /\ reply.live \in BOOLEAN /\ event[e].payload \in Edge!Maybe
          /\ event'[e] = [status |-> status, payload |-> event[e].payload, of |-> reply.of,
                          live |-> reply.live]
      BY <1>2, <2>2, <2>3 DEF FailoverEventType, Edge!Result
    <3>2. event'[e] \in FailoverEventType
      BY <3>1 DEF FailoverEventType
    <3>3. /\ event'[e].status = status /\ event'[e].of = reply.of
          /\ event'[e].payload = event[e].payload
      BY <1>2, <2>2 DEF FailoverEventType
    <3>4. QED
      BY <3>2, <3>3
  <2>5. event'[e].live = reply.live
    BY <1>2, <2>2, <2>3 DEF FailoverEventType, Edge!Result
  <2>11. event'[e].live => reply.live
    BY <2>5
  <2>12. command[c].step = "save" /\ event'[e].of = reply.of /\ event'[e].status \in {"processed", "dead"}
    BY <1>1, <2>4
  <2>6. \A k \in EdgeEvent : FailoverSound(k)'
    <3> HIDE DEF reply
    <3>1. event'[e].status # "none" /\ unsaved \subseteq unsaved'
      BY <1>5, <2>12
    <3>2. UNCHANGED <<dispatched, repeated, shared>> /\ e \in command[c].on
      BY <1>1
    <3>3. FailoverRightRow(c, e)
      BY <2>11, <2>12 DEF FailoverRightRow, reply
    <3>4. Edge!WorkOn(c, command[c].todo) /\ event'[e].payload = event[e].payload
      BY <1>5, <2>4
    <3>5. QED
      BY <2>2, <2>12, <3>1, <3>2, <3>3, <3>4, EdgeGivesUp DEF FailoverGivesUp
  <2>7. /\ command' = [command EXCEPT ![c] = command'[c]] /\ command'[c] \in FailoverCommandType
        /\ command'[c].on = {} /\ FailoverOneAtATime(c)'
    BY <1>2, <1>5, EdgeWorkOn
  <2>8. FailoverAlone(c)
    BY <1>1, <1>5, <2>7 DEF FailoverAlone
  <2>9. event' \in [EdgeEvent -> FailoverEventType]
    BY <2>2, <2>4, EdgeTypes
  <2>10. QED
    BY <1>1, <1>3, <1>5, <2>6, <2>7, <2>8, <2>9, EdgeMoves, EdgeTypes
<1>6. ASSUME command' = [command EXCEPT ![c].step = "failed", ![c].result = Edge!Dead],
             unsaved' = unsaved \cup {e}, UNCHANGED event
      PROVE  EdgeInv'
  <2>1. /\ command'[c] = [command[c] EXCEPT !.step = "failed", !.result = Edge!Dead]
        /\ command' = [command EXCEPT ![c] = command'[c]]
    BY <1>6, EdgeTypes
  <2>2. Edge!Dead \in Edge!Result
    BY DEF Edge!Dead, Edge!Result, Edge!Maybe
  <2>3. /\ command'[c] \in FailoverCommandType /\ command'[c].on = {e} /\ command'[c].todo = command[c].todo
        /\ command'[c].payload = command[c].payload /\ command'[c].step = "failed"
    BY <1>2, <2>1, <2>2 DEF FailoverCommandType
  <2>4. FailoverOneAtATime(c)' /\ FailoverAlone(c)
    BY <1>1, <1>2, <1>6, <2>1, <2>3 DEF FailoverOneAtATime, FailoverAlone
  <2>5. event' = [event EXCEPT ![e] = event'[e]] /\ dispatched' = [dispatched EXCEPT ![e] = dispatched'[e]]
    BY <1>1, <1>6, EdgeTypes
  <2>6. \A k \in EdgeEvent : k # e => FailoverSound(k)'
    BY <1>2, <2>3, <2>4, <2>5, EdgeApart
  <2>7. FailoverSound(e)'
    <3>1. \A d \in Command : d # c => command'[d] = command[d]
      BY <2>1, EdgeTypes
    <3>2. \A d \in Command : Edge!Has(d, e)' <=> Edge!Has(d, e)
      BY <1>2, <2>3, <3>1 DEF Edge!Has
    <3>3. FailoverRowed(e)'
      BY <1>2, <1>6, <3>2 DEF FailoverSound, FailoverRowed
    <3>4. ASSUME e \notin shared PROVE FailoverOwned(e)'
      <4>1. FailoverOwned(e) /\ command'[c].payload = event'[e].payload
        BY <1>1, <1>2, <1>6, <2>3, <3>4 DEF FailoverSound, FailoverOwned
      <4>2. \A d \in Command : e \in command'[d].on => d = c
        BY <1>2, <3>1, <3>4 DEF Edge!Has
      <4>3. \A d \in Command : ~Edge!Working(d, e, "save")'
        BY <2>3, <4>2 DEF Edge!Working
      <4>4. QED
        BY <1>1, <1>6, <3>2, <4>1, <4>2, <4>3 DEF FailoverOwned
    <3>5. e \in unsaved'
      BY <1>6
    <3>6. QED
      BY <1>1, <3>3, <3>4, <3>5 DEF FailoverSound
  <2>8. unsaved' \subseteq EdgeEvent
    BY <1>6, EdgeTypes
  <2>9. QED
    BY <1>1, <1>3, <1>4, <1>6, <2>1, <2>3, <2>4, <2>6, <2>7, <2>8, EdgeMoves, EdgeTypes
<1>7. QED
  BY <1>1, <1>5, <1>6

(* A command gives up an event that failed.                                *)
LEMMA EdgeStageAgain ==
  ASSUME Edge!PayloadAssumption, Edge!EdgeBounds, EdgeInv, NEW c \in Command, NEW e \in EdgeEvent, Edge!StageAgain(c, e)
  PROVE  EdgeInv'
<1>1. /\ command[c].step = "failed" /\ e \in command[c].on
      /\ UNCHANGED <<snapshot, ingests, dispatched, repeated, shared, unsaved>>
      /\ \/ event' = [event EXCEPT ![e].status = "staged"] /\ Edge!WorkOn(c, command[c].todo) /\ Edge!Fine
         \/ Edge!WorkOn(c, {}) /\ Edge!Fault /\ UNCHANGED event
  BY DEF Edge!StageAgain, Edge!Working, Edge!edgeHistory
<1>2. /\ command[c].on = {e} /\ command[c].todo \subseteq EdgeEvent /\ event[e] \in FailoverEventType
      /\ event[e].status # "none" /\ FailoverSound(e)
  BY <1>1, EdgeWorking
<1>3. edgeFaults' \in 0..EdgeFaults
  BY <1>1, EdgeTypes, CountUp DEF Edge!EdgeBounds, Edge!Fine, Edge!Fault
<1>4. PICK events \in SUBSET command[c].todo : Edge!WorkOn(c, events)
  BY <1>1
<1>5. event' = [event EXCEPT ![e] = event'[e]]
      /\ (event'[e] = event[e] \/ event'[e] = [event[e] EXCEPT !.status = "staged"])
  BY <1>1, EdgeTypes
<1>6. /\ event'[e] \in FailoverEventType /\ event'[e].status \in {event[e].status, "staged"}
      /\ event'[e].payload = event[e].payload /\ event'[e].of = event[e].of
  BY <1>2, <1>5 DEF FailoverEventType
<1>7. event'[e].live = event[e].live
  BY <1>2, <1>5 DEF FailoverEventType
<1>8. /\ command' = [command EXCEPT ![c] = command'[c]] /\ command'[c] \in FailoverCommandType
      /\ command'[c].on = {} /\ FailoverOneAtATime(c)'
  BY <1>2, <1>4, EdgeWorkOn
<1>9. e \in repeated \cup unsaved' \cup shared
  <2>1. Edge!Has(c, e) /\ Edge!Working(c, e, "failed")
    BY <1>1 DEF Edge!Has, Edge!Working
  <2>2. QED
    BY <1>1, <1>2, <2>1 DEF FailoverSound, FailoverFresh
<1>10. \A k \in EdgeEvent : FailoverSound(k)'
  <2>1. event'[e].live => event[e].live
    BY <1>7
  <2>2. event'[e].status # "none" /\ unsaved \subseteq unsaved' /\ UNCHANGED <<dispatched, repeated, shared>>
    BY <1>1, <1>2, <1>6
  <2>3. event'[e].status \in {"processed", "dead"} => event'[e].status = event[e].status
    BY <1>6
  <2>4. e \in command[c].on
    BY <1>1
  <2>5. FailoverRightRow(c, e)
    BY <1>6, <2>1, <2>3 DEF FailoverRightRow
  <2>6. event' = [event EXCEPT ![e] = event'[e]] /\ event'[e].payload = event[e].payload
    BY <1>5, <1>6
  <2>7. QED
    BY <1>4, <1>9, <2>2, <2>4, <2>5, <2>6, EdgeGivesUp DEF FailoverGivesUp
<1>11. FailoverAlone(c)
  BY <1>1, <1>8 DEF FailoverAlone
<1>12. event' \in [EdgeEvent -> FailoverEventType]
  BY <1>5, <1>6, EdgeTypes
<1>13. QED
  BY <1>1, <1>3, <1>8, <1>10, <1>11, <1>12, EdgeMoves, EdgeTypes

(* A command is killed.                                                    *)
LEMMA EdgeKilled ==
  ASSUME Edge!PayloadAssumption, Edge!EdgeBounds, EdgeInv, NEW c \in Command, Edge!Killed(c)
  PROVE  EdgeInv'
<1>1. /\ Edge!WorkOn(c, {}) /\ UNCHANGED <<event, snapshot, ingests, dispatched, repeated, shared>> /\ Edge!Fault
      /\ unsaved' = IF command[c].step = "save" THEN unsaved \cup command[c].on ELSE unsaved
  BY DEF Edge!Killed
<1>2. edgeFaults' \in 0..EdgeFaults
  BY <1>1, EdgeTypes, CountUp DEF Edge!EdgeBounds, Edge!Fault
<1>3. /\ command' = [command EXCEPT ![c] = command'[c]] /\ command'[c] \in FailoverCommandType
      /\ command'[c].todo = {} /\ command'[c].on = {} /\ FailoverOneAtATime(c)'
  BY <1>1, EdgeWorkOn
<1>4. command[c].on \subseteq EdgeEvent
  BY EdgeTypes DEF FailoverCommandType
<1>5. unsaved \subseteq unsaved' /\ unsaved' \subseteq EdgeEvent
  BY <1>1, <1>4, EdgeTypes
<1>6. FailoverAlone(c)
  BY <1>1, <1>3, <1>5 DEF FailoverAlone
<1>7. ASSUME NEW e \in EdgeEvent, e \notin command[c].on PROVE FailoverSound(e)'
  <2>1. ~Edge!Has(c, e)'
    BY <1>3 DEF Edge!Has
  <2>2. QED
    BY <1>1, <1>3, <1>6, <1>7, <2>1, EdgeOther
<1>8. ASSUME NEW e \in EdgeEvent, e \in command[c].on PROVE FailoverSound(e)'
  <2>1. /\ event[e].status # "none" /\ FailoverSound(e) /\ command[c].step \in {"dispatch", "save", "failed"}
    BY <1>8, EdgeWorking
  <2>2. event' = [event EXCEPT ![e] = event'[e]] /\ FailoverRightRow(c, e)
    BY <1>1, EdgeTypes DEF FailoverRightRow
  <2>3. CASE command[c].step = "dispatch"
    BY <1>1, <1>5, <1>8, <2>1, <2>2, <2>3, EdgeGivesUp DEF FailoverGivesUp
  <2>4. CASE command[c].step # "dispatch"
    <3>1. e \in repeated \cup unsaved' \cup shared
      <4>1. CASE command[c].step = "save"
        BY <1>1, <1>8, <4>1
      <4>2. CASE command[c].step = "failed"
        <5>1. Edge!Has(c, e) /\ Edge!Working(c, e, "failed")
          BY <1>8, <4>2 DEF Edge!Has, Edge!Working
        <5>2. QED
          BY <1>5, <2>1, <5>1 DEF FailoverSound, FailoverFresh
      <4>3. QED
        BY <2>1, <2>4, <4>1, <4>2
    <3>2. QED
      BY <1>1, <1>5, <1>8, <2>1, <2>2, <3>1, EdgeGivesUp DEF FailoverGivesUp
  <2>5. QED
    BY <2>3, <2>4
<1>9. QED
  BY <1>1, <1>2, <1>3, <1>5, <1>6, <1>7, <1>8, EdgeMoves, EdgeTypes

(* Every step keeps it.                                                    *)
LEMMA EdgeStep ==
  ASSUME Edge!PayloadAssumption, Edge!EdgeBounds, EdgeInv, Edge!Next
  PROVE  EdgeInv'
BY EdgeIngest, EdgeReplay, EdgeKilled, EdgeRead, EdgeDispatch, EdgeSave,
   EdgeStageAgain DEF Edge!Next

(* A payload is dispatched once, unless it was ingested again, its result  *)
(* was not saved, or two commands had its event; an event that is          *)
(* processed or dead had its present payload dispatched, and its result is *)
(* that payload's.                                                         *)
THEOREM EdgeKeeps ==
  ASSUME Edge!PayloadAssumption /\ Edge!EdgeBounds
  PROVE  Edge!Init /\ [][Edge!Next]_Edge!vars =>
           [](Edge!TypeOK /\ Edge!EffectsOnce /\ Edge!NothingLost)
<1>1. Edge!Init => EdgeInv
  BY EdgeInit
<1>2. EdgeInv /\ [Edge!Next]_Edge!vars => EdgeInv'
  BY EdgeStep, EdgeRests
<1>3. EdgeInv => Edge!TypeOK /\ Edge!EffectsOnce /\ Edge!NothingLost
  BY EdgeSays
<1>4. QED
  BY <1>1, <1>2, <1>3, PTL

-----------------------------------------------------------------------------
(* The proof of publication.                                               *)

ProveStates == {"DRAFT", "READY", "QUEUED", "SENT", "ACCEPTED_BY_PLATFORM", "PUBLISHED"}
ProveSteps == {"off", "manifest", "new manifest", "job", "new job", "walk", "receipt", "answered",
          "refused", "cut"}
ProveCallerType ==
  [step : ProveSteps, of : Caller \cup {0}, scheduled : BOOLEAN, url : BOOLEAN, duplicate : BOOLEAN, at : 1..4]
ProveJobType == [status : ProveStates \cup {"none"}, of : Caller \cup {0}, scheduled : BOOLEAN]

(* The state a scheduled job is in before each step of the walk.           *)
ProveStood == <<"READY", "QUEUED", "SENT", "ACCEPTED_BY_PLATFORM">>

(* What the tables of states say.                                          *)
LEMMA ProofStates ==
  /\ ProveStood[1] = "READY" /\ ProveStood[2] = "QUEUED" /\ ProveStood[3] = "SENT"
  /\ ProveStood[4] = "ACCEPTED_BY_PLATFORM"
  /\ DOMAIN Proof!MayFollow = ProveStates /\ DOMAIN Proof!Walk = 1..4
  /\ Proof!MayFollow["DRAFT"] = {"READY", "CANCELED"} /\ Proof!MayFollow["READY"] = {"QUEUED", "CANCELED"}
  /\ Proof!MayFollow["QUEUED"] = {"SENT", "FAILED_ACTION_REQUIRED", "CANCELED"}
  /\ Proof!MayFollow["SENT"] = {"ACCEPTED_BY_PLATFORM", "FAILED_ACTION_REQUIRED", "FAILED_PERMANENT"}
  /\ Proof!MayFollow["ACCEPTED_BY_PLATFORM"] = {"PUBLISHED", "FAILED_ACTION_REQUIRED"}
  /\ Proof!Walk[1] = "QUEUED" /\ Proof!Walk[2] = "SENT" /\ Proof!Walk[3] = "ACCEPTED_BY_PLATFORM"
  /\ Proof!Walk[4] = "PUBLISHED"
BY DEF Proof!MayFollow, ProveStates, Proof!Walk, ProveStood

(* A caller, its job and its receipt agree on how far it is.               *)
ProveAgreed(c) ==
  /\ caller[c].step \in {"off", "manifest", "new manifest", "job", "new job"} => job[c].status = "none"
  /\ caller[c].step \in {"walk", "receipt"} => job[c].status # "none"
  /\ caller[c].step \in {"job", "new job", "walk", "receipt", "answered"} => caller[c].of \in manifest
  /\ caller[c].step \in {"manifest", "new manifest", "job", "new job"} => caller[c].at = 1
  /\ job[c].status = "none" => job[c] = Proof!NoJob
  /\ job[c].status # "none" => job[c].of \in manifest
  /\ caller[c].step = "walk" =>
       IF caller[c].scheduled
       THEN job[c].status = ProveStood[caller[c].at]
       ELSE job[c].status = "DRAFT"
  /\ c \in receipt => job[c].status = "PUBLISHED"
  /\ caller[c].step = "receipt" => job[c].status = "PUBLISHED"
  /\ job[c].status = "PUBLISHED" => c \in receipt \/ caller[c].step \in {"receipt", "cut"}
  /\ caller[c].step = "answered" /\ caller[c].url /\ ~caller[c].duplicate => c \in receipt
  /\ caller[c].step = "refused" => ~caller[c].scheduled

(* While no two were under way at once there is one manifest, and one job  *)
(* for each key.                                                           *)
ProveSingle ==
  /\ \A c, d \in Caller : Proof!UnderWay(c) /\ Proof!UnderWay(d) => c = d
  /\ \A m, n \in manifest : m = n
  /\ \A c \in Caller : caller[c].step = "new manifest" => manifest = {}
  /\ \A c \in Caller : caller[c].step = "new job" =>
       \A d \in Caller : job[d].status # "none" =>
         (caller[c].scheduled => ~job[d].scheduled) /\ (~caller[c].scheduled => job[d].scheduled)
  /\ \A c, d \in Caller : c # d /\ job[c].status # "none" /\ job[d].status # "none" =>
       (job[c].scheduled => ~job[d].scheduled) /\ (~job[c].scheduled => job[d].scheduled)

ProofInv ==
  /\ caller \in [Caller -> ProveCallerType] /\ job \in [Caller -> ProveJobType]
  /\ manifest \subseteq Caller /\ receipt \subseteq Caller /\ callersMet \in BOOLEAN /\ faults \in 0..MaxFaults
  /\ \A c \in Caller : ProveAgreed(c)
  /\ callersMet \/ ProveSingle

(* It holds at first.                                                      *)
LEMMA ProofInit == MaxFaults \in Nat /\ Proof!Init => ProofInv
<1> SUFFICES ASSUME MaxFaults \in Nat, Proof!Init PROVE ProofInv
  OBVIOUS
<1>1. Proof!Off \in ProveCallerType /\ Proof!Off.step = "off"
  BY DEF Proof!Off, ProveCallerType, ProveSteps
<1>2. Proof!NoJob \in ProveJobType /\ Proof!NoJob.status = "none"
  BY DEF Proof!NoJob, ProveJobType
<1>3. \A c \in Caller : caller[c].step = "off" /\ job[c].status = "none" /\ job[c] = Proof!NoJob
  BY <1>1, <1>2 DEF Proof!Init
<1>4. caller \in [Caller -> ProveCallerType] /\ job \in [Caller -> ProveJobType]
  BY <1>1, <1>2 DEF Proof!Init
<1>5. \A c \in Caller : ProveAgreed(c)
  BY <1>3 DEF ProveAgreed, Proof!Init
<1>6. ProveSingle
  BY <1>3 DEF ProveSingle, Proof!UnderWay, Proof!Init
<1>7. manifest \subseteq Caller /\ receipt \subseteq Caller /\ callersMet \in BOOLEAN
  BY DEF Proof!Init
<1>8. faults \in 0..MaxFaults
  BY DEF Proof!Init
<1>9. QED
  BY <1>4, <1>5, <1>6, <1>7, <1>8 DEF ProofInv

(* It says what was asked.                                                 *)
LEMMA ProofSays == Proof!CallerBounds /\ ProofInv => Proof!TypeOK /\ Proof!EffectsOnce /\ Proof!NothingLost
<1> SUFFICES ASSUME Proof!CallerBounds, ProofInv PROVE Proof!TypeOK /\ Proof!EffectsOnce /\ Proof!NothingLost
  OBVIOUS
<1>1. ASSUME NEW c \in Caller
      PROVE  /\ job[c].status \in DOMAIN Proof!MayFollow <=> job[c].of \in manifest
             /\ caller[c].step \in ProveSteps
             /\ caller[c].step \in {"job", "new job", "walk", "receipt", "answered"} =>
                  caller[c].of \in manifest
             /\ caller[c].step \in {"walk", "receipt"} => job[c] # Proof!NoJob /\ caller[c].at \in DOMAIN Proof!Walk
  <2>1. job[c] \in ProveJobType /\ caller[c] \in ProveCallerType /\ ProveAgreed(c) /\ manifest \subseteq Caller
    BY DEF ProofInv
  <2>2. Proof!NoJob.status = "none" /\ Proof!NoJob.of = 0
    BY DEF Proof!NoJob
  <2>3. caller[c].step \in ProveSteps /\ caller[c].at \in 1..4
    BY <2>1 DEF ProveCallerType
  <2>4. job[c].status \in ProveStates <=> job[c].of \in manifest
    <3>1. CASE job[c].status = "none"
      BY <2>1, <2>2, <3>1 DEF ProveAgreed, ProveStates, Proof!CallerBounds
    <3>2. CASE job[c].status # "none"
      BY <2>1, <3>2 DEF ProveAgreed, ProveJobType
    <3>3. QED
      BY <3>1, <3>2
  <2>5. QED
    BY <2>1, <2>2, <2>3, <2>4, ProofStates DEF ProveAgreed
<1>2. Proof!TypeOK
  BY <1>1 DEF ProofInv, Proof!TypeOK, ProveSteps
<1>3. ASSUME ~callersMet PROVE Cardinality(manifest) <= 1
  <2>1. \A m, n \in manifest : m = n
    BY <1>3 DEF ProofInv, ProveSingle
  <2>2. CASE manifest = {}
    BY <2>2, CountNone
  <2>3. CASE manifest # {}
    <3>1. PICK m \in manifest : TRUE
      BY <2>3
    <3>2. IsFiniteSet({}) /\ Cardinality({}) = 0
      BY CountNone
    <3>3. manifest \subseteq {} \cup {m}
      BY <2>1
    <3>4. Cardinality(manifest) <= Cardinality({}) + 1
      BY <3>2, <3>3, CountAdd
    <3>5. QED
      BY <3>2, <3>4
  <2>4. QED
    BY <2>2, <2>3
<1>4. ASSUME ~callersMet, NEW c \in Caller, NEW d \in Caller, c # d, job[c] # Proof!NoJob, job[d] # Proof!NoJob
      PROVE  job[c].scheduled # job[d].scheduled
  <2>1. job[c].status # "none" /\ job[d].status # "none"
    BY <1>4 DEF ProofInv, ProveAgreed
  <2>2. (job[c].scheduled => ~job[d].scheduled) /\ (~job[c].scheduled => job[d].scheduled)
    BY <1>4, <2>1 DEF ProofInv, ProveSingle
  <2>3. QED
    BY <2>2
<1>5. Proof!NothingLost
  BY DEF ProofInv, ProveAgreed, Proof!NothingLost
<1>6. Proof!EffectsOnce
  <2>1. SUFFICES ASSUME ~callersMet
        PROVE /\ Cardinality(manifest) <= 1
              /\ \A c, d \in Caller : c # d /\ job[c] # Proof!NoJob /\ job[d] # Proof!NoJob =>
                   job[c].scheduled # job[d].scheduled
    <3>1. Proof!Cardinality(manifest) = Cardinality(manifest)
      BY Zenon DEF Proof!Cardinality, Cardinality
    <3>2. QED
      BY <3>1 DEF Proof!EffectsOnce
  <2>2. Cardinality(manifest) <= 1
    BY <1>3, <2>1
  <2>3. QED
    BY <1>4, <2>1, <2>2
<1>7. QED
  BY <1>2, <1>5, <1>6

(* A step of another service leaves it.                                    *)
LEMMA ProofRests == ProofInv /\ UNCHANGED <<Proof!prove, faults>> => ProofInv'
<1> SUFFICES ASSUME ProofInv, UNCHANGED <<Proof!prove, faults>> PROVE ProofInv'
  OBVIOUS
<1>1. UNCHANGED <<manifest, job, receipt, caller, callersMet, faults>>
  BY DEF Proof!prove
<1>2. \A c \in Caller : ProveAgreed(c)'
  BY <1>1 DEF ProofInv, ProveAgreed
<1>3. ProveSingle => ProveSingle'
  BY <1>1 DEF ProveSingle, Proof!UnderWay
<1>4. QED
  BY <1>1, <1>2, <1>3 DEF ProofInv

(* A step of c leaves the others.                                          *)
ProveApart(c) ==
  /\ caller' = [caller EXCEPT ![c] = caller'[c]] /\ caller'[c] \in ProveCallerType
  /\ job' = [job EXCEPT ![c] = job'[c]] /\ job'[c] \in ProveJobType
  /\ manifest' \in {manifest, manifest \cup {c}} /\ receipt' \in {receipt, receipt \cup {c}}
  /\ callersMet' \in BOOLEAN /\ faults' \in 0..MaxFaults

(* What remains to be shown of it.                                         *)
LEMMA ProofApart ==
  ASSUME ProofInv, NEW c \in Caller, ProveApart(c), ProveAgreed(c)', callersMet' \/ ProveSingle'
  PROVE  ProofInv'
<1>1. \A d \in Caller : d # c => caller'[d] = caller[d] /\ job'[d] = job[d]
  BY DEF ProofInv, ProveApart
<1>2. ASSUME NEW d \in Caller, d # c PROVE ProveAgreed(d)'
  <2>1. ProveAgreed(d) /\ caller'[d] = caller[d] /\ job'[d] = job[d] /\ manifest \subseteq manifest'
        /\ (d \in receipt' <=> d \in receipt)
    BY <1>1, <1>2 DEF ProofInv, ProveApart
  <2>2. QED
    BY <2>1 DEF ProveAgreed
<1>3. /\ caller' \in [Caller -> ProveCallerType] /\ job' \in [Caller -> ProveJobType]
      /\ manifest' \subseteq Caller /\ receipt' \subseteq Caller
  BY DEF ProofInv, ProveApart
<1>4. QED
  BY <1>2, <1>3 DEF ProofInv, ProveApart

(* Where a caller goes.                                                    *)
LEMMA ProofGoto ==
  ASSUME ProofInv, NEW c \in Caller, NEW step \in ProveSteps, Proof!Goto(c, step)
  PROVE  /\ caller' = [caller EXCEPT ![c] = caller'[c]] /\ caller'[c] \in ProveCallerType
         /\ caller'[c] = [caller[c] EXCEPT !.step = step]
         /\ caller'[c].step = step /\ caller'[c].of = caller[c].of /\ caller'[c].at = caller[c].at
         /\ caller'[c].scheduled = caller[c].scheduled /\ caller'[c].url = caller[c].url
         /\ caller'[c].duplicate = caller[c].duplicate
<1>1. /\ caller' = [caller EXCEPT ![c] = caller'[c]]
      /\ caller'[c] = [caller[c] EXCEPT !.step = step] /\ caller[c] \in ProveCallerType
  BY DEF ProofInv, Proof!Goto
<1>2. caller'[c] \in ProveCallerType
  BY <1>1 DEF ProveCallerType
<1>3. /\ caller'[c].step = step /\ caller'[c].of = caller[c].of /\ caller'[c].at = caller[c].at
  BY <1>1 DEF ProveCallerType
<1>4. /\ caller'[c].scheduled = caller[c].scheduled /\ caller'[c].url = caller[c].url
      /\ caller'[c].duplicate = caller[c].duplicate
  BY <1>1 DEF ProveCallerType
<1>5. QED
  BY <1>1, <1>2, <1>3, <1>4

(* What is the same when it is not written.                                *)
LEMMA ProofSame ==
  ASSUME ProofInv, NEW c \in Caller
  PROVE  /\ caller[c] \in ProveCallerType /\ job[c] \in ProveJobType /\ ProveAgreed(c)
         /\ job' = job => job' = [job EXCEPT ![c] = job'[c]] /\ job'[c] \in ProveJobType
         /\ callersMet \in BOOLEAN /\ faults \in 0..MaxFaults
BY DEF ProofInv

(* A caller begins.                                                        *)
LEMMA ProofBegin ==
  ASSUME ProofInv, NEW c \in Caller, Proof!Begin(c)
  PROVE  ProofInv'
<1>1. PICK scheduled \in BOOLEAN, link \in BOOLEAN :
        caller' = [caller EXCEPT ![c] =
          [Proof!Off EXCEPT !.step = "manifest", !.scheduled = scheduled, !.url = link]]
  BY DEF Proof!Begin
<1> DEFINE first == [Proof!Off EXCEPT !.step = "manifest", !.scheduled = scheduled, !.url = link]
<1>2. first \in ProveCallerType /\ first.step = "manifest" /\ first.at = 1
  <2>1. Proof!Off \in ProveCallerType /\ Proof!Off.at = 1
    BY DEF Proof!Off, ProveCallerType, ProveSteps
  <2>2. "manifest" \in ProveSteps /\ scheduled \in BOOLEAN /\ link \in BOOLEAN
    BY <1>1 DEF ProveSteps
  <2>3. first \in ProveCallerType
    BY <2>1, <2>2 DEF ProveCallerType
  <2>4. first.step = "manifest" /\ first.at = 1
    BY <2>1 DEF ProveCallerType
  <2>5. QED
    BY <2>3, <2>4
<1> HIDE DEF first
<1>3. caller'[c] = first /\ caller' = [caller EXCEPT ![c] = caller'[c]]
  BY <1>1 DEF first, ProofInv
<1>4. /\ caller[c].step = "off" /\ UNCHANGED <<manifest, job, receipt, faults>>
      /\ callersMet' = (callersMet \/ \E d \in Caller : Proof!UnderWay(d))
  BY DEF Proof!Begin, Proof!Storing
<1>5. callersMet' \in BOOLEAN
  BY <1>4
<1>6. ProveApart(c)
  BY <1>2, <1>3, <1>4, <1>5, ProofSame DEF ProveApart
<1>7. ProveAgreed(c)'
  <2>1. ProveAgreed(c) /\ job' = job /\ receipt' = receipt /\ manifest' = manifest
    BY <1>4, ProofSame
  <2>2. job[c].status = "none" /\ caller'[c].step = "manifest" /\ caller'[c].at = 1
    BY <1>2, <1>3, <1>4, <2>1 DEF ProveAgreed
  <2>3. QED
    BY <2>1, <2>2 DEF ProveAgreed
<1>8. ASSUME ~callersMet' PROVE ProveSingle'
  <2>1. ~callersMet /\ \A d \in Caller : ~Proof!UnderWay(d)
    BY <1>4, <1>8
  <2>2. ProveSingle
    BY <2>1 DEF ProofInv
  <2>3. \A d \in Caller : d # c => caller'[d] = caller[d]
    BY <1>3 DEF ProofInv
  <2>4. \A d \in Caller : Proof!UnderWay(d)' => d = c
    BY <2>1, <2>3 DEF Proof!UnderWay
  <2>5. \A d \in Caller : caller'[d].step \notin {"new manifest", "new job"}
    BY <1>2, <1>3, <2>4 DEF Proof!UnderWay
  <2>6. QED
    BY <1>4, <2>2, <2>4, <2>5 DEF ProveSingle
<1>9. QED
  BY <1>6, <1>7, <1>8, ProofApart

(* A caller under way steps, and leaves met as it is: then it is the only  *)
(* one, or they met.                                                       *)
LEMMA ProofAlone ==
  ASSUME ProofInv, NEW c \in Caller, Proof!UnderWay(c), ProveApart(c), ~callersMet
  PROVE  /\ ProveSingle /\ \A d \in Caller : d # c => ~Proof!UnderWay(d)
         /\ \A d \in Caller : d # c => caller'[d] = caller[d] /\ job'[d] = job[d]
         /\ \A d \in Caller : Proof!UnderWay(d)' => d = c
<1>1. ProveSingle
  BY DEF ProofInv
<1>2. \A d \in Caller : d # c => ~Proof!UnderWay(d)
  BY <1>1 DEF ProveSingle
<1>3. \A d \in Caller : d # c => caller'[d] = caller[d] /\ job'[d] = job[d]
  BY DEF ProofInv, ProveApart
<1>4. \A d \in Caller : Proof!UnderWay(d)' => d = c
  BY <1>2, <1>3 DEF Proof!UnderWay
<1>5. QED
  BY <1>1, <1>2, <1>3, <1>4

(* The manifest is looked for.                                             *)
LEMMA ProofFindManifest ==
  ASSUME ProofInv, NEW c \in Caller, Proof!FindManifest(c)
  PROVE  ProofInv'
<1>1. /\ caller[c].step = "manifest" /\ UNCHANGED <<manifest, job, receipt, faults, callersMet>>
      /\ \/ \E m \in manifest : caller' = [caller EXCEPT ![c].step = "job", ![c].of = m]
         \/ manifest = {} /\ Proof!Goto(c, "new manifest")
  BY DEF Proof!FindManifest, Proof!Storing, Proof!Fine
<1>2. /\ caller' = [caller EXCEPT ![c] = caller'[c]] /\ caller'[c] \in ProveCallerType
      /\ caller'[c].at = caller[c].at
      /\ \/ caller'[c].step = "job" /\ caller'[c].of \in manifest
         \/ caller'[c].step = "new manifest" /\ manifest = {}
  <2>1. ASSUME NEW m \in manifest, caller' = [caller EXCEPT ![c].step = "job", ![c].of = m]
        PROVE  /\ caller' = [caller EXCEPT ![c] = caller'[c]] /\ caller'[c] \in ProveCallerType
               /\ caller'[c].step = "job" /\ caller'[c].of \in manifest
               /\ caller'[c].at = caller[c].at
    <3>1. /\ caller' = [caller EXCEPT ![c] = caller'[c]] /\ caller[c] \in ProveCallerType
          /\ caller'[c] = [caller[c] EXCEPT !.step = "job", !.of = m] /\ m \in Caller
      BY <2>1 DEF ProofInv
    <3>2. caller'[c] \in ProveCallerType
      BY <3>1 DEF ProveCallerType, ProveSteps
    <3>3. caller'[c].step = "job" /\ caller'[c].of = m /\ caller'[c].at = caller[c].at
      BY <3>1 DEF ProveCallerType
    <3>4. QED
      BY <3>1, <3>2, <3>3
  <2>2. ASSUME manifest = {}, Proof!Goto(c, "new manifest")
        PROVE  /\ caller' = [caller EXCEPT ![c] = caller'[c]] /\ caller'[c] \in ProveCallerType
               /\ caller'[c].step = "new manifest" /\ caller'[c].at = caller[c].at
    BY <2>2, ProofGoto DEF ProveSteps
  <2>3. QED
    BY <1>1, <2>1, <2>2
<1>3. ProveApart(c)
  BY <1>1, <1>2, ProofSame DEF ProveApart
<1>4. ProveAgreed(c)'
  <2>1. /\ ProveAgreed(c) /\ job[c].status = "none" /\ UNCHANGED <<manifest, job, receipt>>
        /\ caller'[c].at = 1
    BY <1>1, <1>2, ProofSame DEF ProveAgreed
  <2>2. caller'[c].step \in {"job", "new manifest"} /\ (caller'[c].step = "job" => caller'[c].of \in manifest)
    BY <1>2
  <2>3. QED
    BY <2>1, <2>2 DEF ProveAgreed
<1>5. ASSUME ~callersMet PROVE ProveSingle'
  <2>1. /\ ProveSingle /\ \A d \in Caller : Proof!UnderWay(d)' => d = c
    BY <1>1, <1>3, <1>5, ProofAlone DEF Proof!UnderWay
  <2>2. \A d \in Caller : caller'[d].step \in {"new manifest", "new job"} => d = c
    BY <2>1 DEF Proof!UnderWay
  <2>3. QED
    BY <1>1, <1>2, <2>1, <2>2 DEF ProveSingle
<1>6. QED
  BY <1>1, <1>3, <1>4, <1>5, ProofApart

(* A manifest is inserted.                                                 *)
LEMMA ProofInsertManifest ==
  ASSUME ProofInv, NEW c \in Caller, Proof!InsertManifest(c)
  PROVE  ProofInv'
<1>1. /\ caller[c].step = "new manifest" /\ manifest' = manifest \cup {c}
      /\ caller' = [caller EXCEPT ![c].step = "job", ![c].of = c]
      /\ UNCHANGED <<job, receipt, faults, callersMet>>
  BY DEF Proof!InsertManifest, Proof!Fine
<1>2. /\ caller' = [caller EXCEPT ![c] = caller'[c]] /\ caller'[c] \in ProveCallerType
      /\ caller'[c].step = "job" /\ caller'[c].of = c /\ caller'[c].at = caller[c].at
  <2>1. /\ caller' = [caller EXCEPT ![c] = caller'[c]] /\ caller[c] \in ProveCallerType
        /\ caller'[c] = [caller[c] EXCEPT !.step = "job", !.of = c]
    BY <1>1 DEF ProofInv
  <2>2. caller'[c] \in ProveCallerType
    BY <2>1 DEF ProveCallerType, ProveSteps
  <2>3. caller'[c].step = "job" /\ caller'[c].of = c /\ caller'[c].at = caller[c].at
    BY <2>1 DEF ProveCallerType
  <2>4. QED
    BY <2>1, <2>2, <2>3
<1>3. ProveApart(c)
  BY <1>1, <1>2, ProofSame DEF ProveApart
<1>4. ProveAgreed(c)'
  <2>1. /\ ProveAgreed(c) /\ job[c].status = "none" /\ UNCHANGED <<job, receipt>>
        /\ caller'[c].at = 1
    BY <1>1, <1>2, ProofSame DEF ProveAgreed
  <2>0. manifest' = manifest \cup {c} /\ caller'[c].of = c
    BY <1>1, <1>2
  <2>2. caller'[c].step = "job" /\ caller'[c].of \in manifest' /\ manifest \subseteq manifest'
    BY <1>2, <2>0
  <2>3. QED
    BY <2>1, <2>2 DEF ProveAgreed
<1>5. ASSUME ~callersMet PROVE ProveSingle'
  <2>1. /\ ProveSingle /\ \A d \in Caller : Proof!UnderWay(d)' => d = c
    BY <1>1, <1>3, <1>5, ProofAlone DEF Proof!UnderWay
  <2>2. manifest = {}
    BY <1>1, <2>1 DEF ProveSingle
  <2>3. \A d \in Caller : caller'[d].step \notin {"new manifest", "new job"}
    BY <1>2, <2>1 DEF Proof!UnderWay
  <2>4. QED
    BY <1>1, <2>1, <2>2, <2>3 DEF ProveSingle
<1>6. QED
  BY <1>1, <1>3, <1>4, <1>5, ProofApart

(* The job is looked for.                                                  *)
LEMMA ProofFindJob ==
  ASSUME ProofInv, NEW c \in Caller, Proof!FindJob(c)
  PROVE  ProofInv'
<1>1. /\ caller[c].step = "job" /\ UNCHANGED <<manifest, job, receipt, faults, callersMet>>
      /\ \/ caller' = [caller EXCEPT ![c].step = "answered", ![c].duplicate = TRUE]
         \/ Proof!SameKey(c) = {} /\ Proof!Goto(c, "new job")
  BY DEF Proof!FindJob, Proof!Storing, Proof!Fine
<1>2. caller[c] \in ProveCallerType /\ job[c] \in ProveJobType /\ ProveAgreed(c) /\ job[c].status = "none"
      /\ caller[c].of \in manifest
  BY <1>1, ProofSame DEF ProveAgreed
<1>3. CASE caller' = [caller EXCEPT ![c].step = "answered", ![c].duplicate = TRUE]
  <2>1. /\ caller' = [caller EXCEPT ![c] = caller'[c]]
        /\ caller'[c] = [caller[c] EXCEPT !.step = "answered", !.duplicate = TRUE]
    BY <1>3 DEF ProofInv
  <2>2. caller'[c] \in ProveCallerType
    BY <1>2, <2>1 DEF ProveCallerType, ProveSteps
  <2>3. caller'[c].step = "answered" /\ caller'[c].of = caller[c].of
    BY <1>2, <2>1 DEF ProveCallerType
  <2>4. caller'[c].duplicate
    BY <1>2, <2>1 DEF ProveCallerType
  <2>5. ProveApart(c)
    BY <1>1, <2>1, <2>2, ProofSame DEF ProveApart
  <2>6. ProveAgreed(c)'
    BY <1>1, <1>2, <2>3, <2>4 DEF ProveAgreed
  <2>7. ASSUME ~callersMet PROVE ProveSingle'
    <3>1. /\ ProveSingle /\ \A d \in Caller : Proof!UnderWay(d)' => d = c
      BY <1>1, <2>5, <2>7, ProofAlone DEF Proof!UnderWay
    <3>2. \A d \in Caller : caller'[d].step \notin {"new manifest", "new job"}
      BY <2>3, <3>1 DEF Proof!UnderWay
    <3>3. QED
      BY <1>1, <3>1, <3>2 DEF ProveSingle
  <2>8. QED
    BY <1>1, <2>5, <2>6, <2>7, ProofApart
<1>4. CASE Proof!SameKey(c) = {} /\ Proof!Goto(c, "new job")
  <2>1. /\ caller' = [caller EXCEPT ![c] = caller'[c]] /\ caller'[c] \in ProveCallerType
        /\ caller'[c].step = "new job" /\ caller'[c].of = caller[c].of
        /\ caller'[c].at = caller[c].at
    BY <1>4, ProofGoto DEF ProveSteps
  <2>2. caller'[c].scheduled = caller[c].scheduled
    BY <1>4, ProofGoto DEF ProveSteps
  <2>3. ProveApart(c)
    BY <1>1, <2>1, ProofSame DEF ProveApart
  <2>4. ProveAgreed(c)'
    <3>1. caller[c].at = 1
      BY <1>1, <1>2 DEF ProveAgreed
    <3>2. QED
      BY <1>1, <1>2, <2>1, <3>1 DEF ProveAgreed
  <2>5. ASSUME ~callersMet PROVE ProveSingle'
    <3>1. /\ ProveSingle /\ \A d \in Caller : Proof!UnderWay(d)' => d = c
      BY <1>1, <2>3, <2>5, ProofAlone DEF Proof!UnderWay
    <3>2. \A d \in Caller : job[d].status # "none" => job[d].of = caller[c].of
      <4>1. \A m, n \in manifest : m = n
        BY <3>1 DEF ProveSingle
      <4>2. \A d \in Caller : job[d].status # "none" => job[d].of \in manifest
        BY DEF ProofInv, ProveAgreed
      <4>3. QED
        BY <1>2, <4>1, <4>2
    <3>3. ASSUME NEW d \in Caller, job[d].status # "none"
          PROVE  (caller[c].scheduled => ~job[d].scheduled) /\ (~caller[c].scheduled => job[d].scheduled)
      <4>1. d \notin Proof!SameKey(c)
        BY <1>4
      <4>2. job[d].scheduled # caller[c].scheduled
        BY <3>2, <3>3, <4>1 DEF Proof!SameKey
      <4>3. job[d].scheduled \in BOOLEAN /\ caller[c].scheduled \in BOOLEAN
        BY <1>2 DEF ProofInv, ProveJobType, ProveCallerType
      <4>4. QED
        BY <4>2, <4>3
    <3>4. \A d \in Caller : caller'[d].step \in {"new manifest", "new job"} => d = c
      BY <3>1 DEF Proof!UnderWay
    <3>5. \A d \in Caller : caller'[d].step = "new manifest" => manifest' = {}
      BY <2>1, <3>4
    <3>6. \A d \in Caller : caller'[d].step = "new job" =>
            \A b \in Caller : job'[b].status # "none" =>
              (caller'[d].scheduled => ~job'[b].scheduled) /\ (~caller'[d].scheduled => job'[b].scheduled)
      BY <1>1, <2>2, <3>3, <3>4
    <3>7. QED
      BY <1>1, <3>1, <3>5, <3>6 DEF ProveSingle
  <2>6. QED
    BY <1>1, <2>3, <2>4, <2>5, ProofApart
<1>5. QED
  BY <1>1, <1>3, <1>4

(* A job is inserted.                                                      *)
LEMMA ProofInsertJob ==
  ASSUME ProofInv, NEW c \in Caller, Proof!InsertJob(c)
  PROVE  ProofInv'
<1>1. /\ caller[c].step = "new job" /\ UNCHANGED <<manifest, receipt, faults, callersMet>>
      /\ job' = [job EXCEPT ![c] = [status |-> IF caller[c].scheduled THEN "READY" ELSE "DRAFT",
                                    of |-> caller[c].of, scheduled |-> caller[c].scheduled]]
      /\ Proof!Goto(c, IF caller[c].url THEN "walk" ELSE "answered")
  BY DEF Proof!InsertJob, Proof!Fine
<1>2. caller[c] \in ProveCallerType /\ job[c] \in ProveJobType /\ ProveAgreed(c) /\ job[c].status = "none"
      /\ caller[c].of \in manifest
  BY <1>1, ProofSame DEF ProveAgreed
<1>3. caller[c].scheduled \in BOOLEAN /\ caller[c].of \in Caller
  BY <1>2 DEF ProveCallerType, ProofInv
<1> DEFINE status == IF caller[c].scheduled THEN "READY" ELSE "DRAFT"
<1> DEFINE step == IF caller[c].url THEN "walk" ELSE "answered"
<1>4. /\ status \in ProveStates /\ (caller[c].scheduled => status = "READY")
      /\ (~caller[c].scheduled => status = "DRAFT")
  BY DEF ProveStates
<1>5. step \in ProveSteps /\ step \in {"walk", "answered"} /\ (step = "answered" => ~caller[c].url)
  BY DEF ProveSteps
<1>6. job' = [job EXCEPT ![c] = [status |-> status, of |-> caller[c].of, scheduled |-> caller[c].scheduled]]
      /\ Proof!Goto(c, step)
  BY <1>1
<1> HIDE DEF status, step
<1>7. /\ job'[c] = [status |-> status, of |-> caller[c].of, scheduled |-> caller[c].scheduled]
      /\ job' = [job EXCEPT ![c] = job'[c]]
  BY <1>6 DEF ProofInv
<1>8. job'[c] \in ProveJobType
  BY <1>3, <1>4, <1>7 DEF ProveJobType
<1>9. job'[c].status = status /\ job'[c].of = caller[c].of
  BY <1>7
<1>10. job'[c].scheduled = caller[c].scheduled
  BY <1>7
<1>11. /\ caller' = [caller EXCEPT ![c] = caller'[c]] /\ caller'[c] \in ProveCallerType
       /\ caller'[c].step = step /\ caller'[c].of = caller[c].of /\ caller'[c].at = caller[c].at
  BY <1>5, <1>6, ProofGoto
<1>12. caller'[c].scheduled = caller[c].scheduled /\ caller'[c].url = caller[c].url
  BY <1>5, <1>6, ProofGoto
<1>13. ProveApart(c)
  BY <1>1, <1>7, <1>8, <1>11, ProofSame DEF ProveApart
<1>14. ProveAgreed(c)'
  <2>1. caller[c].at = 1 /\ c \notin receipt
    BY <1>1, <1>2 DEF ProveAgreed
  <2>2. /\ job'[c].status # "none" /\ job'[c].status # "PUBLISHED" /\ job'[c].of \in manifest'
        /\ UNCHANGED <<manifest, receipt>> /\ caller'[c].of \in manifest'
    <3>1. UNCHANGED <<manifest, receipt>>
      BY <1>1
    <3>2. status \notin {"none", "PUBLISHED"}
      BY <1>4 DEF ProveStates
    <3>3. QED
      BY <1>2, <1>9, <1>11, <3>1, <3>2
  <2>3. /\ caller'[c].step \in {"walk", "answered"}
        /\ caller'[c].step = "answered" => ~caller'[c].url
    BY <1>5, <1>11, <1>12
  <2>4. /\ caller'[c].scheduled => job'[c].status = ProveStood[caller'[c].at]
        /\ ~caller'[c].scheduled => job'[c].status = "DRAFT"
    BY <1>4, <1>9, <1>11, <1>12, <2>1, ProofStates
  <2>5. c \notin receipt'
    BY <1>1, <2>1
  <2>6. CASE caller'[c].step = "walk"
    BY <2>2, <2>4, <2>5, <2>6 DEF ProveAgreed
  <2>7. CASE caller'[c].step = "answered"
    BY <2>2, <2>3, <2>5, <2>7 DEF ProveAgreed
  <2>8. QED
    BY <2>3, <2>6, <2>7
<1>15. ASSUME ~callersMet PROVE ProveSingle'
  <2>1. /\ ProveSingle /\ \A d \in Caller : Proof!UnderWay(d)' => d = c
        /\ \A d \in Caller : d # c => job'[d] = job[d]
    BY <1>1, <1>13, <1>15, ProofAlone DEF Proof!UnderWay
  <2>2. \A d \in Caller : caller'[d].step \notin {"new manifest", "new job"}
    BY <1>5, <1>11, <2>1 DEF Proof!UnderWay
  <2>3. ASSUME NEW d \in Caller, d # c, job[d].status # "none"
        PROVE  (caller[c].scheduled => ~job[d].scheduled) /\ (~caller[c].scheduled => job[d].scheduled)
    BY <1>1, <2>1, <2>3 DEF ProveSingle
  <2>4. ASSUME NEW a \in Caller, NEW b \in Caller, a # b, job'[a].status # "none", job'[b].status # "none"
        PROVE  (job'[a].scheduled => ~job'[b].scheduled) /\ (~job'[a].scheduled => job'[b].scheduled)
    <3>1. CASE a = c
      BY <1>10, <2>1, <2>3, <2>4, <3>1
    <3>2. CASE b = c
      BY <1>10, <2>1, <2>3, <2>4, <3>2
    <3>3. CASE a # c /\ b # c
      BY <2>1, <2>4, <3>3 DEF ProveSingle
    <3>4. QED
      BY <3>1, <3>2, <3>3
  <2>5. QED
    BY <1>1, <2>1, <2>2, <2>4 DEF ProveSingle
<1>16. QED
  BY <1>1, <1>13, <1>14, <1>15, ProofApart

(* A caller under way that goes nowhere a manifest or a job is made keeps  *)
(* what was single, when the jobs there are keep their keys.               *)
LEMMA ProofSingle ==
  ASSUME ProofInv, NEW c \in Caller, Proof!UnderWay(c), ProveApart(c), ~callersMet, UNCHANGED manifest,
         caller'[c].step \notin {"new manifest", "new job"},
         job'[c].status # "none" => job[c].status # "none" /\ job'[c].scheduled = job[c].scheduled
  PROVE  ProveSingle'
<1>1. /\ ProveSingle /\ \A d \in Caller : Proof!UnderWay(d)' => d = c
      /\ \A d \in Caller : d # c => job'[d] = job[d]
  BY ProofAlone
<1>2. \A d \in Caller : caller'[d].step \notin {"new manifest", "new job"}
  BY <1>1 DEF Proof!UnderWay
<1>3. \A d \in Caller : job'[d].status # "none" => job[d].status # "none" /\ job'[d].scheduled = job[d].scheduled
  BY <1>1
<1>4. \A a, b \in Caller : a # b /\ job'[a].status # "none" /\ job'[b].status # "none" =>
        (job'[a].scheduled => ~job'[b].scheduled) /\ (~job'[a].scheduled => job'[b].scheduled)
  BY <1>1, <1>3 DEF ProveSingle
<1>5. QED
  BY <1>1, <1>2, <1>4 DEF ProveSingle

(* A job is walked one step on.                                            *)
LEMMA ProofTransition ==
  ASSUME ProofInv, NEW c \in Caller, Proof!Transition(c)
  PROVE  ProofInv'
<1> DEFINE next == Proof!Walk[caller[c].at]
<1>1. /\ caller[c].step = "walk" /\ UNCHANGED <<manifest, receipt, faults, callersMet>>
      /\ Proof!Move(c, next)
  BY DEF Proof!Transition, Proof!Fine
<1>2. /\ caller[c] \in ProveCallerType /\ job[c] \in ProveJobType /\ ProveAgreed(c)
      /\ caller[c].of \in manifest /\ job[c].status # "none" /\ job[c].of \in manifest
  BY <1>1, ProofSame DEF ProveAgreed
<1>3. caller[c].at \in 1..4
  BY <1>2 DEF ProveCallerType
<1>4. /\ caller[c].scheduled => job[c].status = ProveStood[caller[c].at]
      /\ ~caller[c].scheduled => job[c].status = "DRAFT"
  BY <1>1, <1>2 DEF ProveAgreed
<1>5. /\ caller[c].at \in {1, 2, 3, 4}
      /\ caller[c].scheduled => /\ next \in Proof!MayFollow[job[c].status]
                                /\ next = "PUBLISHED" <=> caller[c].at = 4
                                /\ caller[c].at # 4 => next = ProveStood[caller[c].at + 1]
  <2>1. caller[c].at \in {1, 2, 3, 4}
    BY <1>3
  <2>2. QED
    BY <1>4, <2>1, ProofStates
<1>6. ~caller[c].scheduled => next \notin Proof!MayFollow[job[c].status] /\ (next = "PUBLISHED" <=> caller[c].at = 4)
  BY <1>4, <1>5, ProofStates
<1>7. next \in ProveStates
  BY <1>5, ProofStates DEF ProveStates
<1>8. c \notin receipt
  <2>1. job[c].status # "PUBLISHED"
    BY <1>4, <1>5, ProofStates
  <2>2. QED
    BY <1>2, <2>1 DEF ProveAgreed
<1> HIDE DEF next
(* The job goes on, and the caller to the next step.                       *)
<1>9. CASE caller[c].scheduled
  <2>1. /\ job' = [job EXCEPT ![c].status = next]
        /\ IF next = "PUBLISHED" THEN Proof!Goto(c, "receipt") ELSE caller' = [caller EXCEPT ![c].at = @ + 1]
    BY <1>1, <1>5, <1>9 DEF Proof!Move
  <2>2. /\ job' = [job EXCEPT ![c] = job'[c]] /\ job'[c] = [job[c] EXCEPT !.status = next]
    BY <2>1 DEF ProofInv
  <2>3. job'[c] \in ProveJobType
    BY <1>2, <1>7, <2>2 DEF ProveJobType
  <2>4. job'[c].status = next /\ job'[c].of = job[c].of
    BY <1>2, <2>2 DEF ProveJobType
  <2>5. job'[c].scheduled = job[c].scheduled
    BY <1>2, <2>2 DEF ProveJobType
  <2>6. CASE next = "PUBLISHED"
    <3>1. /\ caller' = [caller EXCEPT ![c] = caller'[c]] /\ caller'[c] \in ProveCallerType
          /\ caller'[c].step = "receipt" /\ caller'[c].of = caller[c].of
      BY <2>1, <2>6, ProofGoto DEF ProveSteps
    <3>2. ProveApart(c)
      BY <1>1, <2>2, <2>3, <3>1, ProofSame DEF ProveApart
    <3>3. UNCHANGED <<manifest, receipt>>
      BY <1>1
    <3>4. ProveAgreed(c)'
      BY <1>2, <1>8, <2>4, <2>6, <3>1, <3>3 DEF ProveAgreed
    <3>5. ~callersMet => ProveSingle'
      BY <1>1, <1>2, <2>5, <3>1, <3>2, ProofSingle DEF Proof!UnderWay
    <3>6. QED
      BY <1>1, <3>2, <3>4, <3>5, ProofApart
  <2>7. CASE next # "PUBLISHED"
    <3>1. /\ caller' = [caller EXCEPT ![c] = caller'[c]]
          /\ caller'[c] = [caller[c] EXCEPT !.at = caller[c].at + 1]
      BY <2>1, <2>7 DEF ProofInv
    <3>2. caller[c].at + 1 \in 1..4
      BY <1>5, <1>9, <2>7
    <3>3. caller'[c] \in ProveCallerType
      BY <1>2, <3>1, <3>2 DEF ProveCallerType
    <3>4. /\ caller'[c].step = "walk" /\ caller'[c].of = caller[c].of
          /\ caller'[c].at = caller[c].at + 1
      BY <1>1, <1>2, <3>1 DEF ProveCallerType
    <3>5. caller'[c].scheduled = caller[c].scheduled
      BY <1>2, <3>1 DEF ProveCallerType
    <3>6. ProveApart(c)
      BY <1>1, <2>2, <2>3, <3>1, <3>3, ProofSame DEF ProveApart
    <3>7. UNCHANGED <<manifest, receipt>>
      BY <1>1
    <3>8. caller'[c].scheduled /\ job'[c].status = ProveStood[caller'[c].at]
      BY <1>5, <1>9, <2>4, <2>7, <3>4, <3>5
    <3>9. job'[c].status # "none"
      BY <1>7, <2>4 DEF ProveStates
    <3>10. c \notin receipt'
      BY <1>8, <3>7
    <3>11. ProveAgreed(c)'
      BY <1>2, <2>4, <2>7, <3>4, <3>7, <3>8, <3>9, <3>10 DEF ProveAgreed
    <3>12. ~callersMet => ProveSingle'
      BY <1>1, <1>2, <2>5, <3>4, <3>6, ProofSingle DEF Proof!UnderWay
    <3>13. QED
      BY <1>1, <3>6, <3>11, <3>12, ProofApart
  <2>8. QED
    BY <2>6, <2>7
(* The transition of a job that is not scheduled is refused.               *)
<1>10. CASE ~caller[c].scheduled
  <2>1. /\ UNCHANGED job
        /\ IF next = "PUBLISHED" THEN Proof!Goto(c, "refused") ELSE caller' = [caller EXCEPT ![c].at = @ + 1]
    BY <1>1, <1>6, <1>10 DEF Proof!Move
  <2>2. job[c].status = "DRAFT"
    BY <1>4, <1>10
  <2>3. UNCHANGED <<manifest, job, receipt>>
    BY <1>1, <2>1
  <2>4. CASE next = "PUBLISHED"
    <3>1. /\ caller' = [caller EXCEPT ![c] = caller'[c]] /\ caller'[c] \in ProveCallerType
          /\ caller'[c].step = "refused"
      BY <2>1, <2>4, ProofGoto DEF ProveSteps
    <3>2. caller'[c].scheduled = caller[c].scheduled
      BY <2>1, <2>4, ProofGoto DEF ProveSteps
    <3>3. ProveApart(c)
      BY <1>1, <2>3, <3>1, ProofSame DEF ProveApart
    <3>4. ProveAgreed(c)'
      BY <1>2, <1>8, <1>10, <2>2, <2>3, <3>1, <3>2 DEF ProveAgreed
    <3>5. ~callersMet => ProveSingle'
      BY <1>1, <2>3, <3>1, <3>3, ProofSingle DEF Proof!UnderWay
    <3>6. QED
      BY <1>1, <3>3, <3>4, <3>5, ProofApart
  <2>5. CASE next # "PUBLISHED"
    <3>1. /\ caller' = [caller EXCEPT ![c] = caller'[c]]
          /\ caller'[c] = [caller[c] EXCEPT !.at = caller[c].at + 1]
      BY <2>1, <2>5 DEF ProofInv
    <3>2. caller[c].at + 1 \in 1..4
      BY <1>5, <1>6, <1>10, <2>5
    <3>3. caller'[c] \in ProveCallerType
      BY <1>2, <3>1, <3>2 DEF ProveCallerType
    <3>4. /\ caller'[c].step = "walk" /\ caller'[c].of = caller[c].of
      BY <1>1, <1>2, <3>1 DEF ProveCallerType
    <3>5. caller'[c].scheduled = caller[c].scheduled
      BY <1>2, <3>1 DEF ProveCallerType
    <3>6. ProveApart(c)
      BY <1>1, <2>3, <3>1, <3>3, ProofSame DEF ProveApart
    <3>7. ProveAgreed(c)'
      BY <1>2, <1>8, <1>10, <2>2, <2>3, <3>4, <3>5 DEF ProveAgreed
    <3>8. ~callersMet => ProveSingle'
      BY <1>1, <2>3, <3>4, <3>6, ProofSingle DEF Proof!UnderWay
    <3>9. QED
      BY <1>1, <3>6, <3>7, <3>8, ProofApart
  <2>6. QED
    BY <2>4, <2>5
<1>11. QED
  BY <1>9, <1>10

(* A receipt is made.                                                      *)
LEMMA ProofCreateReceipt ==
  ASSUME ProofInv, NEW c \in Caller, Proof!CreateReceipt(c)
  PROVE  ProofInv'
<1>1. /\ caller[c].step = "receipt" /\ UNCHANGED <<manifest, job, faults, callersMet>>
      /\ receipt' = receipt \cup {c} /\ Proof!Goto(c, "answered")
  BY DEF Proof!CreateReceipt, Proof!Fine
<1>2. /\ caller' = [caller EXCEPT ![c] = caller'[c]] /\ caller'[c] \in ProveCallerType
      /\ caller'[c].step = "answered" /\ caller'[c].of = caller[c].of
  BY <1>1, ProofGoto DEF ProveSteps
<1>3. ProveAgreed(c) /\ caller[c].of \in manifest /\ job[c].status = "PUBLISHED" /\ job[c].of \in manifest
  BY <1>1, ProofSame DEF ProveAgreed
<1>4. ProveApart(c)
  BY <1>1, <1>2, ProofSame DEF ProveApart
<1>5. ProveAgreed(c)'
  <2>1. UNCHANGED <<manifest, job>> /\ c \in receipt'
    BY <1>1
  <2>2. QED
    BY <1>2, <1>3, <2>1 DEF ProveAgreed
<1>6. ~callersMet => ProveSingle'
  BY <1>1, <1>2, <1>4, ProofSingle DEF Proof!UnderWay
<1>7. QED
  BY <1>1, <1>4, <1>5, <1>6, ProofApart

(* A request ends in the middle.                                           *)
LEMMA ProofCut ==
  ASSUME MaxFaults \in Nat, ProofInv, NEW c \in Caller, Proof!Cut(c)
  PROVE  ProofInv'
<1>1. /\ Proof!UnderWay(c) /\ Proof!Goto(c, "cut") /\ UNCHANGED <<manifest, job, receipt, callersMet>>
      /\ faults < MaxFaults /\ faults' = faults + 1
  BY DEF Proof!Cut, Proof!Storing
<1>2. faults' \in 0..MaxFaults
  <2>1. faults \in 0..MaxFaults
    BY DEF ProofInv
  <2>2. QED
    BY <1>1, <2>1
<1>3. /\ caller' = [caller EXCEPT ![c] = caller'[c]] /\ caller'[c] \in ProveCallerType
      /\ caller'[c].step = "cut"
  BY <1>1, ProofGoto DEF ProveSteps
<1>4. ProveApart(c)
  BY <1>1, <1>2, <1>3, ProofSame DEF ProveApart
<1>5. ProveAgreed(c)'
  <2>1. ProveAgreed(c) /\ UNCHANGED <<manifest, job, receipt>>
    BY <1>1, ProofSame
  <2>2. QED
    BY <1>3, <2>1 DEF ProveAgreed
<1>6. ~callersMet => ProveSingle'
  BY <1>1, <1>3, <1>4, ProofSingle
<1>7. QED
  BY <1>1, <1>4, <1>5, <1>6, ProofApart

(* Every step keeps it.                                                    *)
LEMMA ProofStep == MaxFaults \in Nat /\ ProofInv /\ Proof!Next => ProofInv'
BY ProofBegin, ProofFindManifest, ProofInsertManifest, ProofFindJob, ProofInsertJob,
   ProofTransition,
   ProofCreateReceipt, ProofCut DEF Proof!Next

(* A text has one manifest and one job for each key, unless two callers    *)
(* were under way at once; a receipt is of a published job, and a          *)
(* published job has one unless its caller was cut off before it.          *)
THEOREM ProofKeeps ==
  ASSUME MaxFaults \in Nat /\ Proof!CallerBounds
  PROVE  Proof!Init /\ [][Proof!Next]_<<Proof!prove, faults>> =>
           [](Proof!TypeOK /\ Proof!EffectsOnce /\ Proof!NothingLost)
<1>1. Proof!Init => ProofInv
  BY ProofInit
<1>2. ProofInv /\ [Proof!Next]_<<Proof!prove, faults>> => ProofInv'
  BY ProofStep, ProofRests
<1>3. ProofInv => Proof!TypeOK /\ Proof!EffectsOnce /\ Proof!NothingLost
  BY ProofSays
<1>4. QED
  BY <1>1, <1>2, <1>3, PTL

-----------------------------------------------------------------------------
(* The cycles of an agent, and the distiller.                              *)

DistillSteps == {"off", "look", "delete", "call", "store", "account", "persist", "done"}
DistillRunType == [step : DistillSteps, tier : Cycles!Tier \cup {"cache", "error"}]

(* What a cycle has paid and accounted for, step by step.                  *)
DistillKept(r) ==
  /\ run[r].step = "off" <=> row[r] = "none"
  /\ run[r].step \in {"off", "look", "delete", "call"} => paid[r] = "none" /\ accounted[r] = "none"
  /\ run[r].step \in {"off", "look", "delete", "call", "store"} => run[r].tier \in Cycles!Tier
  /\ run[r].step = "store" => paid[r] = run[r].tier
  /\ run[r].step = "account" => run[r].tier = IF paid[r] = "none" THEN "cache" ELSE paid[r]
  /\ run[r].step = "persist" /\ run[r].tier # "error" =>
       accounted[r] = run[r].tier /\ run[r].tier = IF paid[r] = "none" THEN "cache" ELSE paid[r]
  /\ run[r].tier = "error" => r \in interrupted
  /\ run[r].step \in {"off", "done"} \/ row[r] = "queued"
  /\ run[r].step = "done" => r \in interrupted \/
       (row[r] = "completed" /\ accounted[r] = IF paid[r] = "none" THEN "cache" ELSE paid[r])
  /\ row[r] = "errored" => r \in interrupted
  /\ row[r] = "completed" => accounted[r] = IF paid[r] = "none" THEN "cache" ELSE paid[r]

(* While no two cycles were under way at once, and no entry expired or was *)
(* not stored: what a tier was paid for is in the cache, or about to be.   *)
DistillHeld ==
  /\ \A q, r \in Run : Cycles!UnderWay(q) /\ Cycles!UnderWay(r) => q = r
  /\ \A t \in Cycles!Tier : cache[t] # "expired" /\ answers[t] <= 1
  /\ \A t \in Cycles!Tier : answers[t] > 0 =>
       cache[t] = "fresh" \/ \E r \in Run : run[r].step = "store" /\ run[r].tier = t
  /\ \A r \in Run : run[r].step # "delete"
  /\ \A r \in Run : run[r].step = "call" => cache[run[r].tier] # "fresh"

DistillInv ==
  /\ cache \in [Cycles!Tier -> {"none", "fresh", "expired"}]
  /\ row \in [Run -> {"none", "queued", "completed", "errored"}]
  /\ accounted \in [Run -> Cycles!Tier \cup {"none", "cache"}]
  /\ run \in [Run -> DistillRunType]
  /\ faults \in 0..MaxFaults /\ answers \in [Cycles!Tier -> 0..2] /\ paid \in [Run -> Cycles!Tier \cup {"none"}]
  /\ runsMet \in BOOLEAN /\ interrupted \subseteq Run /\ stale \in BOOLEAN
  /\ \A r \in Run : DistillKept(r)
  /\ runsMet \/ stale \/ DistillHeld

(* It holds at first.                                                      *)
LEMMA DistillInit == MaxFaults \in Nat /\ Cycles!Init => DistillInv
<1> SUFFICES ASSUME MaxFaults \in Nat, Cycles!Init PROVE DistillInv
  OBVIOUS
<1>1. \A r \in Run : DistillKept(r)
  BY DEF Cycles!Init, DistillKept, Cycles!Tier
<1>2. DistillHeld
  BY DEF Cycles!Init, DistillHeld, Cycles!UnderWay, Cycles!Tier
<1>3. run \in [Run -> DistillRunType]
  BY DEF Cycles!Init, DistillRunType, DistillSteps, Cycles!Tier
<1>4. faults \in 0..MaxFaults /\ answers \in [Cycles!Tier -> 0..2]
  <2>1. faults = 0 /\ answers = [t \in Cycles!Tier |-> 0]
    BY DEF Cycles!Init
  <2>2. QED
    BY <2>1
<1>5. runsMet \in BOOLEAN /\ stale \in BOOLEAN /\ interrupted \subseteq Run
  BY DEF Cycles!Init
<1>6. /\ cache \in [Cycles!Tier -> {"none", "fresh", "expired"}]
      /\ row \in [Run -> {"none", "queued", "completed", "errored"}]
      /\ accounted \in [Run -> Cycles!Tier \cup {"none", "cache"}] /\ paid \in [Run -> Cycles!Tier \cup {"none"}]
  BY DEF Cycles!Init
<1>7. QED
  BY <1>1, <1>2, <1>3, <1>4, <1>5, <1>6 DEF DistillInv

(* It says what was asked.                                                 *)
LEMMA DistillSays == DistillInv => Cycles!TypeOK /\ Cycles!EffectsOnce /\ Cycles!NothingLost
<1> SUFFICES ASSUME DistillInv PROVE Cycles!TypeOK /\ Cycles!EffectsOnce /\ Cycles!NothingLost
  OBVIOUS
<1>1. Cycles!TypeOK
  BY DEF DistillInv, Cycles!TypeOK, DistillRunType, DistillSteps, DistillKept
<1>2. Cycles!EffectsOnce
  <2>1. \A t \in Cycles!Tier : answers[t] \in 0..2
    BY DEF DistillInv
  <2>2. DistillHeld => \A t \in Cycles!Tier : ~(answers[t] > 1)
    BY <2>1 DEF DistillHeld
  <2>3. QED
    BY <2>2 DEF DistillInv, Cycles!EffectsOnce
<1>3. Cycles!NothingLost
  BY DEF DistillInv, Cycles!NothingLost, DistillKept, Cycles!UnderWay, DistillRunType, DistillSteps
<1>4. QED
  BY <1>1, <1>2, <1>3

(* A step of another service leaves it.                                    *)
LEMMA DistillRests == DistillInv /\ UNCHANGED <<Cycles!distilling, faults>> => DistillInv'
<1> SUFFICES ASSUME DistillInv, UNCHANGED <<Cycles!distilling, faults>> PROVE DistillInv'
  OBVIOUS
<1>1. UNCHANGED <<cache, row, accounted, run, answers, paid, runsMet, interrupted, stale, faults>>
  BY DEF Cycles!distilling
<1>2. \A r \in Run : DistillKept(r)'
  BY <1>1 DEF DistillInv, DistillKept
<1>3. DistillHeld => DistillHeld'
  BY <1>1 DEF DistillHeld, Cycles!UnderWay
<1>4. QED
  BY <1>1, <1>2, <1>3 DEF DistillInv

(* A step of r leaves the other cycles.                                    *)
DistillAlone(r) ==
  /\ run' = [run EXCEPT ![r] = run'[r]] /\ run'[r] \in DistillRunType
  /\ row' = [row EXCEPT ![r] = row'[r]] /\ row'[r] \in {"none", "queued", "completed", "errored"}
  /\ accounted' = [accounted EXCEPT ![r] = accounted'[r]] /\ accounted'[r] \in Cycles!Tier \cup {"none", "cache"}
  /\ paid' = [paid EXCEPT ![r] = paid'[r]] /\ paid'[r] \in Cycles!Tier \cup {"none"}
  /\ interrupted' \in {interrupted, interrupted \cup {r}}
  /\ cache' \in [Cycles!Tier -> {"none", "fresh", "expired"}] /\ answers' \in [Cycles!Tier -> 0..2]
  /\ faults' \in 0..MaxFaults

(* What remains to be shown of it.                                         *)
LEMMA DistillApart ==
  ASSUME DistillInv, NEW r \in Run, DistillAlone(r), DistillKept(r)', runsMet' \in BOOLEAN, stale' \in BOOLEAN,
         runsMet' \/ stale' \/ DistillHeld'
  PROVE  DistillInv'
<1>1. \A q \in Run : q # r => /\ run'[q] = run[q] /\ row'[q] = row[q] /\ accounted'[q] = accounted[q]
                              /\ paid'[q] = paid[q]
  BY DEF DistillInv, DistillAlone
<1>2. ASSUME NEW q \in Run, q # r PROVE DistillKept(q)'
  <2>1. /\ DistillKept(q) /\ run'[q] = run[q] /\ row'[q] = row[q] /\ accounted'[q] = accounted[q]
        /\ paid'[q] = paid[q] /\ (q \in interrupted' <=> q \in interrupted)
    BY <1>1, <1>2 DEF DistillInv, DistillAlone
  <2>2. QED
    BY <2>1 DEF DistillKept
<1>3. /\ run' \in [Run -> DistillRunType] /\ row' \in [Run -> {"none", "queued", "completed", "errored"}]
      /\ accounted' \in [Run -> Cycles!Tier \cup {"none", "cache"}] /\ paid' \in [Run -> Cycles!Tier \cup {"none"}]
      /\ interrupted' \subseteq Run
  BY DEF DistillInv, DistillAlone
<1>4. QED
  BY <1>2, <1>3 DEF DistillInv, DistillAlone

(* Where a cycle goes, and what is the same when it is not written.        *)
LEMMA DistillGoto ==
  ASSUME DistillInv, NEW r \in Run, NEW step \in DistillSteps, NEW tier \in Cycles!Tier \cup {"cache", "error"},
         (Cycles!Goto(r, step) /\ tier = run[r].tier) \/ Cycles!Switch(r, step, tier)
  PROVE  /\ run' = [run EXCEPT ![r] = run'[r]] /\ run'[r] \in DistillRunType
         /\ run'[r].step = step /\ run'[r].tier = tier
<1>1. run[r] \in DistillRunType
  BY DEF DistillInv
<1>2. run' = [run EXCEPT ![r] = run'[r]] /\ run'[r] = [step |-> step, tier |-> tier]
  <2>1. CASE Cycles!Goto(r, step) /\ tier = run[r].tier
    BY <1>1, <2>1 DEF DistillInv, Cycles!Goto, DistillRunType
  <2>2. CASE Cycles!Switch(r, step, tier)
    BY <2>2 DEF DistillInv, Cycles!Switch
  <2>3. QED
    BY <2>1, <2>2
<1>3. QED
  BY <1>2 DEF DistillRunType

LEMMA DistillSame ==
  ASSUME DistillInv, NEW r \in Run
  PROVE  /\ run[r] \in DistillRunType /\ run[r].tier \in Cycles!Tier \cup {"cache", "error"} /\ run[r].step \in DistillSteps
         /\ DistillKept(r) /\ runsMet \in BOOLEAN /\ stale \in BOOLEAN /\ interrupted \subseteq Run
         /\ cache \in [Cycles!Tier -> {"none", "fresh", "expired"}] /\ answers \in [Cycles!Tier -> 0..2]
         /\ faults \in 0..MaxFaults
         /\ row' = row => row' = [row EXCEPT ![r] = row'[r]] /\ row'[r] \in {"none", "queued", "completed", "errored"}
         /\ accounted' = accounted => /\ accounted' = [accounted EXCEPT ![r] = accounted'[r]]
                                      /\ accounted'[r] \in Cycles!Tier \cup {"none", "cache"}
         /\ paid' = paid => paid' = [paid EXCEPT ![r] = paid'[r]] /\ paid'[r] \in Cycles!Tier \cup {"none"}
BY DEF DistillInv, DistillRunType

(* A cycle under way steps, and does not pay: what is cached stays so.     *)
LEMMA DistillCached ==
  ASSUME DistillInv, NEW r \in Run, Cycles!UnderWay(r), DistillAlone(r), ~runsMet, ~stale, UNCHANGED answers,
         run[r].step # "store",
         UNCHANGED cache, run'[r].step # "delete",
         run'[r].step = "call" => cache[run'[r].tier] # "fresh"
  PROVE  DistillHeld'
<1>1. DistillHeld /\ \A q \in Run : q # r => run'[q] = run[q] /\ ~Cycles!UnderWay(q)
  BY DEF DistillInv, DistillHeld, DistillAlone
<1>2. \A q \in Run : Cycles!UnderWay(q)' => q = r
  BY <1>1 DEF Cycles!UnderWay
<1>3. \A q \in Run : run'[q].step # "delete" /\ (run'[q].step = "call" => cache'[run'[q].tier] # "fresh")
  BY <1>2 DEF Cycles!UnderWay
<1>4. ASSUME NEW t \in Cycles!Tier
      PROVE  cache'[t] # "expired" /\ answers'[t] <= 1 /\ (answers'[t] > 0 => cache'[t] = "fresh")
  <2>1. cache[t] # "expired" /\ answers[t] <= 1
    BY <1>1 DEF DistillHeld
  <2>2. \A q \in Run : run[q].step # "store"
    BY <1>1 DEF Cycles!UnderWay
  <2>3. answers[t] > 0 => cache[t] = "fresh"
    BY <1>1, <2>2 DEF DistillHeld
  <2>4. QED
    BY <2>1, <2>3
<1>5. QED
  BY <1>2, <1>3, <1>4 DEF DistillHeld

(* A cycle begins.                                                         *)
LEMMA DistillExecute ==
  ASSUME DistillInv, NEW r \in Run, Cycles!Execute(r)
  PROVE  DistillInv'
<1>1. /\ run[r].step = "off" /\ Cycles!Goto(r, "look") /\ row' = [row EXCEPT ![r] = "queued"]
      /\ UNCHANGED <<cache, accounted, answers, paid, faults, interrupted, stale>>
      /\ runsMet' = (runsMet \/ \E q \in Run : Cycles!UnderWay(q))
  BY DEF Cycles!Execute, Cycles!Fine, Cycles!Paying
<1>2. run[r].tier \in Cycles!Tier /\ paid[r] = "none" /\ accounted[r] = "none"
  BY <1>1, DistillSame DEF DistillKept
<1>3. /\ run' = [run EXCEPT ![r] = run'[r]] /\ run'[r] \in DistillRunType
      /\ run'[r].step = "look" /\ run'[r].tier = run[r].tier
  <2>1. "look" \in DistillSteps /\ run[r].tier \in Cycles!Tier \cup {"cache", "error"} /\ Cycles!Goto(r, "look")
    BY <1>1, DistillSame DEF DistillSteps
  <2>2. QED
    BY <2>1, DistillGoto
<1>4. row' = [row EXCEPT ![r] = row'[r]] /\ row'[r] = "queued"
  BY <1>1 DEF DistillInv
<1>5. DistillAlone(r)
  BY <1>1, <1>3, <1>4, DistillSame DEF DistillAlone
<1>6. DistillKept(r)'
  <2>1. UNCHANGED <<accounted, paid, interrupted>> /\ "error" \notin Cycles!Tier
    BY <1>1 DEF Cycles!Tier
  <2>2. QED
    BY <1>2, <1>3, <1>4, <2>1 DEF DistillKept
<1>7. runsMet' \in BOOLEAN /\ stale' \in BOOLEAN
  BY <1>1, DistillSame
<1>8. ASSUME ~runsMet', ~stale' PROVE DistillHeld'
  <2>1. ~runsMet /\ ~stale /\ \A q \in Run : ~Cycles!UnderWay(q)
    BY <1>1, <1>8
  <2>2. DistillHeld /\ \A q \in Run : q # r => run'[q] = run[q]
    BY <1>5, <2>1 DEF DistillInv, DistillAlone
  <2>3. \A q \in Run : Cycles!UnderWay(q)' => q = r
    BY <2>1, <2>2 DEF Cycles!UnderWay
  <2>4. \A q \in Run : run'[q].step \notin {"delete", "call"} /\ run[q].step # "store"
    BY <1>3, <2>1, <2>2 DEF Cycles!UnderWay
  <2>5. UNCHANGED <<cache, answers>>
    BY <1>1
  <2>6. \A t \in Cycles!Tier : answers[t] > 0 => cache[t] = "fresh"
    BY <2>2, <2>4 DEF DistillHeld
  <2>7. QED
    BY <2>2, <2>3, <2>4, <2>5, <2>6 DEF DistillHeld
<1>9. QED
  BY <1>5, <1>6, <1>7, <1>8, DistillApart

(* The cache is looked at.                                                 *)
LEMMA DistillLook ==
  ASSUME DistillInv, NEW r \in Run, Cycles!Look(r)
  PROVE  DistillInv'
<1>1. /\ run[r].step = "look"
      /\ UNCHANGED <<cache, row, accounted, answers, paid, faults, interrupted, runsMet, stale>>
  BY DEF Cycles!Look, Cycles!Fine, Cycles!Paying
<1>2. run[r].tier \in Cycles!Tier /\ paid[r] = "none" /\ accounted[r] = "none" /\ row[r] = "queued"
  BY <1>1, DistillSame DEF DistillKept
<1>3. PICK step \in {"account", "delete", "call"}, tier \in Cycles!Tier \cup {"cache"} :
        /\ (Cycles!Goto(r, step) /\ tier = run[r].tier) \/ Cycles!Switch(r, step, tier)
        /\ step = "account" <=> tier = "cache"
        /\ step = "delete" => cache[tier] = "expired"
        /\ step = "call" => cache[tier] = "none"
  <2>1. CASE cache[run[r].tier] = "fresh"
    <3>1. Cycles!Switch(r, "account", "cache")
      BY <2>1 DEF Cycles!Look
    <3>2. QED
      BY <3>1
  <2>2. CASE cache[run[r].tier] = "expired"
    <3>1. Cycles!Goto(r, "delete")
      BY <2>2 DEF Cycles!Look
    <3>2. run[r].tier # "cache"
      BY <1>2 DEF Cycles!Tier
    <3>3. QED
      BY <1>2, <2>2, <3>1, <3>2
  <2>3. CASE cache[run[r].tier] = "none"
    <3>1. Cycles!Goto(r, "call")
      BY <2>3 DEF Cycles!Look
    <3>2. run[r].tier # "cache"
      BY <1>2 DEF Cycles!Tier
    <3>3. QED
      BY <1>2, <2>3, <3>1, <3>2
  <2>4. QED
    BY <1>2, <2>1, <2>2, <2>3 DEF DistillInv
<1>4. /\ run' = [run EXCEPT ![r] = run'[r]] /\ run'[r] \in DistillRunType
      /\ run'[r].step = step /\ run'[r].tier = tier
  BY <1>3, DistillGoto DEF DistillSteps
<1>5. DistillAlone(r)
  BY <1>1, <1>4, DistillSame DEF DistillAlone
<1>6. DistillKept(r)'
  <2>1. UNCHANGED <<row, accounted, paid, interrupted>> /\ "error" \notin Cycles!Tier \cup {"cache"}
    BY <1>1 DEF Cycles!Tier
  <2>2. QED
    BY <1>2, <1>3, <1>4, <2>1 DEF DistillKept
<1>7. ASSUME ~runsMet, ~stale PROVE DistillHeld'
  <2>1. step # "delete"
    BY <1>3, <1>7 DEF DistillInv, DistillHeld
  <2>2. QED
    BY <1>1, <1>3, <1>4, <1>5, <1>7, <2>1, DistillCached DEF Cycles!UnderWay
<1>8. QED
  BY <1>1, <1>5, <1>6, <1>7, DistillApart, DistillSame

(* A cycle under way takes a step that leaves the rows it has not reached. *)
(* An entry past its time is deleted.                                      *)
LEMMA DistillDelete ==
  ASSUME DistillInv, NEW r \in Run, Cycles!Delete(r)
  PROVE  DistillInv'
<1>1. /\ run[r].step = "delete" /\ Cycles!Goto(r, "call") /\ cache' = [cache EXCEPT ![run[r].tier] = "none"]
      /\ UNCHANGED <<row, accounted, answers, paid, faults, interrupted, runsMet, stale>>
  BY DEF Cycles!Delete, Cycles!Fine, Cycles!Paying
<1>2. run[r].tier \in Cycles!Tier /\ paid[r] = "none" /\ accounted[r] = "none" /\ row[r] = "queued"
  BY <1>1, DistillSame DEF DistillKept
<1>3. /\ run' = [run EXCEPT ![r] = run'[r]] /\ run'[r] \in DistillRunType
      /\ run'[r].step = "call" /\ run'[r].tier = run[r].tier
  <2>1. "call" \in DistillSteps /\ run[r].tier \in Cycles!Tier \cup {"cache", "error"} /\ Cycles!Goto(r, "call")
    BY <1>1, DistillSame DEF DistillSteps
  <2>2. QED
    BY <2>1, DistillGoto
<1>4. cache' \in [Cycles!Tier -> {"none", "fresh", "expired"}]
  BY <1>1, DistillSame
<1>5. DistillAlone(r)
  BY <1>1, <1>3, <1>4, DistillSame DEF DistillAlone
<1>6. DistillKept(r)'
  <2>1. UNCHANGED <<row, accounted, paid, interrupted>> /\ "error" \notin Cycles!Tier
    BY <1>1 DEF Cycles!Tier
  <2>2. QED
    BY <1>2, <1>3, <2>1 DEF DistillKept
<1>7. runsMet \/ stale
  BY <1>1 DEF DistillInv, DistillHeld
<1>8. QED
  BY <1>1, <1>5, <1>6, <1>7, DistillApart, DistillSame

(* A model answers, fails, or asks for the expensive one.                  *)
LEMMA DistillCall ==
  ASSUME DistillInv, NEW r \in Run, Cycles!Call(r)
  PROVE  DistillInv'
<1> DEFINE t == run[r].tier
<1>1. /\ run[r].step = "call"
      /\ UNCHANGED <<cache, row, accounted, faults, interrupted, runsMet, stale>>
  BY DEF Cycles!Call, Cycles!Fine
<1>2. t \in Cycles!Tier /\ paid[r] = "none" /\ accounted[r] = "none" /\ row[r] = "queued"
  BY <1>1, DistillSame DEF DistillKept
<1>3. runsMet' \in BOOLEAN /\ stale' \in BOOLEAN
  BY <1>1, DistillSame
<1>4. UNCHANGED <<row, accounted, interrupted>> /\ "error" \notin Cycles!Tier /\ "cache" \notin Cycles!Tier /\ "none" \notin Cycles!Tier
  BY <1>1 DEF Cycles!Tier
<1>5. CASE /\ Cycles!Goto(r, "store") /\ answers' = [answers EXCEPT ![t] = IF @ < 2 THEN @ + 1 ELSE 2]
           /\ paid' = [paid EXCEPT ![r] = t]
  <2>1. /\ run' = [run EXCEPT ![r] = run'[r]] /\ run'[r] \in DistillRunType
        /\ run'[r].step = "store" /\ run'[r].tier = t
    <3>1. "store" \in DistillSteps /\ t \in Cycles!Tier \cup {"cache", "error"} /\ Cycles!Goto(r, "store")
      BY <1>2, <1>5 DEF DistillSteps
    <3>2. QED
      BY <3>1, DistillGoto
  <2>2. paid' = [paid EXCEPT ![r] = paid'[r]] /\ paid'[r] = t
    BY <1>5 DEF DistillInv
  <2>3. answers' \in [Cycles!Tier -> 0..2] /\ answers'[t] = (IF answers[t] < 2 THEN answers[t] + 1 ELSE 2)
        /\ \A u \in Cycles!Tier : u # t => answers'[u] = answers[u]
    <3> HIDE DEF t
    <3>1. answers \in [Cycles!Tier -> 0..2]
      BY DistillSame
    <3>2. QED
      BY <1>2, <1>5, <3>1
  <2>4. DistillAlone(r)
    BY <1>1, <1>2, <2>1, <2>2, <2>3, DistillSame DEF DistillAlone
  <2>5. DistillKept(r)'
    BY <1>2, <1>4, <2>1, <2>2 DEF DistillKept
  <2>6. ASSUME ~runsMet, ~stale PROVE DistillHeld'
    <3>1. DistillHeld /\ \A q \in Run : q # r => run'[q] = run[q] /\ ~Cycles!UnderWay(q)
      BY <1>1, <2>4, <2>6 DEF DistillInv, DistillHeld, DistillAlone, Cycles!UnderWay
    <3>2. \A q \in Run : Cycles!UnderWay(q)' => q = r
      BY <3>1 DEF Cycles!UnderWay
    <3>3. \A q \in Run : run[q].step # "store"
      BY <1>1, <3>1 DEF Cycles!UnderWay
    <3>4. answers[t] = 0
      <4>1. ~(answers[t] > 0) /\ answers[t] \in 0..2
        BY <1>1, <1>2, <3>1, <3>3, DistillSame DEF DistillHeld
      <4>2. QED
        BY <4>1
    <3>5. \A q \in Run : run'[q].step \notin {"delete", "call"}
      BY <2>1, <3>1 DEF Cycles!UnderWay
    <3>6. ASSUME NEW u \in Cycles!Tier
          PROVE  /\ cache'[u] # "expired" /\ answers'[u] <= 1
                 /\ answers'[u] > 0 => \/ cache'[u] = "fresh"
                                       \/ \E q \in Run : run'[q].step = "store" /\ run'[q].tier = u
      <4>1. cache'[u] # "expired"
        BY <1>1, <3>1 DEF DistillHeld
      <4>2. CASE u = t
        <5>1. answers'[u] <= 1
          BY <2>3, <3>4, <4>2
        <5>2. QED
          BY <2>1, <4>1, <4>2, <5>1
      <4>3. CASE u # t
        <5>1. answers[u] <= 1 /\ (answers[u] > 0 => cache[u] = "fresh") /\ answers'[u] = answers[u]
          BY <2>3, <3>1, <3>3, <4>3 DEF DistillHeld
        <5>2. QED
          BY <1>1, <4>1, <5>1
      <4>4. QED
        BY <4>2, <4>3
    <3>7. QED
      BY <3>2, <3>5, <3>6 DEF DistillHeld
  <2>7. QED
    BY <1>1, <1>3, <2>4, <2>5, <2>6, DistillApart
<1>6. CASE t = "cheap" /\ Cycles!Switch(r, "look", "expensive") /\ UNCHANGED <<answers, paid>>
  <2>1. /\ run' = [run EXCEPT ![r] = run'[r]] /\ run'[r] \in DistillRunType
        /\ run'[r].step = "look" /\ run'[r].tier = "expensive"
    <3>1. "look" \in DistillSteps /\ "expensive" \in Cycles!Tier \cup {"cache", "error"} /\ Cycles!Switch(r, "look", "expensive")
      BY <1>6 DEF DistillSteps, Cycles!Tier
    <3>2. QED
      BY <3>1, DistillGoto
  <2>2. DistillAlone(r)
    BY <1>1, <1>6, <2>1, DistillSame DEF DistillAlone
  <2>3. DistillKept(r)'
    <3>1. "expensive" \in Cycles!Tier /\ UNCHANGED paid
      BY <1>6 DEF Cycles!Tier
    <3>2. QED
      BY <1>2, <1>4, <2>1, <3>1 DEF DistillKept
  <2>4. ASSUME ~runsMet, ~stale PROVE DistillHeld'
    BY <1>1, <1>6, <2>1, <2>2, <2>4, DistillCached DEF Cycles!UnderWay
  <2>5. QED
    BY <1>1, <1>3, <2>2, <2>3, <2>4, DistillApart
<1>7. CASE t = "expensive" /\ Cycles!Goto(r, "account") /\ paid' = [paid EXCEPT ![r] = t] /\ UNCHANGED answers
  <2>1. /\ run' = [run EXCEPT ![r] = run'[r]] /\ run'[r] \in DistillRunType
        /\ run'[r].step = "account" /\ run'[r].tier = t
    <3>1. "account" \in DistillSteps /\ t \in Cycles!Tier \cup {"cache", "error"} /\ Cycles!Goto(r, "account")
      BY <1>2, <1>7 DEF DistillSteps
    <3>2. QED
      BY <3>1, DistillGoto
  <2>2. paid' = [paid EXCEPT ![r] = paid'[r]] /\ paid'[r] = t
    BY <1>7 DEF DistillInv
  <2>3. DistillAlone(r)
    BY <1>1, <1>2, <1>7, <2>1, <2>2, DistillSame DEF DistillAlone
  <2>4. DistillKept(r)'
    BY <1>2, <1>4, <2>1, <2>2 DEF DistillKept
  <2>5. ASSUME ~runsMet, ~stale PROVE DistillHeld'
    BY <1>1, <1>7, <2>1, <2>3, <2>5, DistillCached DEF Cycles!UnderWay
  <2>6. QED
    BY <1>1, <1>3, <2>3, <2>4, <2>5, DistillApart
<1>8. QED
  BY <1>5, <1>6, <1>7 DEF Cycles!Call

(* An answer is stored.                                                    *)
LEMMA DistillStore ==
  ASSUME DistillInv, NEW r \in Run, Cycles!Store(r)
  PROVE  DistillInv'
<1> DEFINE t == run[r].tier
<1>1. /\ run[r].step = "store" /\ Cycles!Goto(r, "account") /\ cache' = [cache EXCEPT ![t] = "fresh"]
      /\ UNCHANGED <<row, accounted, answers, paid, faults, interrupted, runsMet, stale>>
  BY DEF Cycles!Store, Cycles!Fine, Cycles!Paying
<1>2. t \in Cycles!Tier /\ paid[r] = t /\ row[r] = "queued"
  BY <1>1, DistillSame DEF DistillKept
<1>3. /\ run' = [run EXCEPT ![r] = run'[r]] /\ run'[r] \in DistillRunType
      /\ run'[r].step = "account" /\ run'[r].tier = t
  <2>1. "account" \in DistillSteps /\ t \in Cycles!Tier \cup {"cache", "error"} /\ Cycles!Goto(r, "account")
    BY <1>1, <1>2 DEF DistillSteps
  <2>2. QED
    BY <2>1, DistillGoto
<1>4. cache' \in [Cycles!Tier -> {"none", "fresh", "expired"}] /\ cache'[t] = "fresh"
      /\ \A u \in Cycles!Tier : u # t => cache'[u] = cache[u]
  BY <1>1, <1>2, DistillSame
<1>5. DistillAlone(r)
  BY <1>1, <1>3, <1>4, DistillSame DEF DistillAlone
<1>6. DistillKept(r)'
  <2>1. /\ UNCHANGED <<row, accounted, paid, interrupted>>
        /\ "error" \notin Cycles!Tier /\ "cache" \notin Cycles!Tier /\ "none" \notin Cycles!Tier
    BY <1>1 DEF Cycles!Tier
  <2>2. DistillKept(r)
    BY DistillSame
  <2>3. QED
    BY <1>1, <1>2, <1>3, <2>1, <2>2 DEF DistillKept
<1>7. ASSUME ~runsMet, ~stale PROVE DistillHeld'
  <2>1. DistillHeld /\ \A q \in Run : q # r => run'[q] = run[q] /\ ~Cycles!UnderWay(q)
    BY <1>1, <1>5, <1>7 DEF DistillInv, DistillHeld, DistillAlone, Cycles!UnderWay
  <2>2. \A q \in Run : Cycles!UnderWay(q)' => q = r
    BY <2>1 DEF Cycles!UnderWay
  <2>3. \A q \in Run : run'[q].step \notin {"delete", "call"}
    BY <1>3, <2>1 DEF Cycles!UnderWay
  <2>4. ASSUME NEW u \in Cycles!Tier
        PROVE  cache'[u] # "expired" /\ answers'[u] <= 1 /\ (answers'[u] > 0 => cache'[u] = "fresh")
    <3>1. answers'[u] <= 1 /\ answers'[u] = answers[u]
      BY <1>1, <2>1 DEF DistillHeld
    <3>2. CASE u = t
      BY <1>4, <3>1, <3>2
    <3>3. CASE u # t
      <4>1. \A q \in Run : ~(run[q].step = "store" /\ run[q].tier = u)
        BY <2>1, <3>3 DEF Cycles!UnderWay
      <4>2. cache[u] # "expired" /\ (answers[u] > 0 => cache[u] = "fresh")
        BY <2>1, <4>1 DEF DistillHeld
      <4>3. QED
        BY <1>4, <3>1, <3>3, <4>2
    <3>4. QED
      BY <3>2, <3>3
  <2>5. QED
    BY <2>2, <2>3, <2>4 DEF DistillHeld
<1>8. QED
  BY <1>1, <1>5, <1>6, <1>7, DistillApart, DistillSame

(* The tier is accounted for.                                              *)
LEMMA DistillAccount ==
  ASSUME DistillInv, NEW r \in Run, Cycles!Account(r)
  PROVE  DistillInv'
<1> DEFINE t == run[r].tier
<1>1. /\ run[r].step = "account" /\ Cycles!Goto(r, "persist") /\ accounted' = [accounted EXCEPT ![r] = t]
      /\ UNCHANGED <<cache, row, answers, paid, faults, interrupted, runsMet, stale>>
  BY DEF Cycles!Account, Cycles!Fine, Cycles!Paying
<1>2. t = (IF paid[r] = "none" THEN "cache" ELSE paid[r]) /\ row[r] = "queued" /\ t \in Cycles!Tier \cup {"cache"}
  <2>1. t = (IF paid[r] = "none" THEN "cache" ELSE paid[r]) /\ row[r] = "queued"
    BY <1>1, DistillSame DEF DistillKept
  <2>2. paid[r] \in Cycles!Tier \cup {"none"}
    BY DEF DistillInv
  <2>3. QED
    BY <2>1, <2>2
<1>3. /\ run' = [run EXCEPT ![r] = run'[r]] /\ run'[r] \in DistillRunType
      /\ run'[r].step = "persist" /\ run'[r].tier = t
  <2>1. "persist" \in DistillSteps /\ t \in Cycles!Tier \cup {"cache", "error"} /\ Cycles!Goto(r, "persist")
    BY <1>1, <1>2 DEF DistillSteps
  <2>2. QED
    BY <2>1, DistillGoto
<1>4. accounted' = [accounted EXCEPT ![r] = accounted'[r]] /\ accounted'[r] = t
  BY <1>1 DEF DistillInv
<1>5. DistillAlone(r)
  BY <1>1, <1>2, <1>3, <1>4, DistillSame DEF DistillAlone
<1>6. DistillKept(r)'
  <2>1. UNCHANGED <<row, paid, interrupted>> /\ "error" \notin Cycles!Tier \cup {"cache"}
    BY <1>1 DEF Cycles!Tier
  <2>2. QED
    BY <1>2, <1>3, <1>4, <2>1 DEF DistillKept
<1>7. ASSUME ~runsMet, ~stale PROVE DistillHeld'
  BY <1>1, <1>3, <1>5, <1>7, DistillCached DEF Cycles!UnderWay
<1>8. QED
  BY <1>1, <1>5, <1>6, <1>7, DistillApart, DistillSame

(* A cycle ends.                                                           *)
LEMMA DistillPersist ==
  ASSUME DistillInv, NEW r \in Run, Cycles!Persist(r)
  PROVE  DistillInv'
<1> DEFINE t == run[r].tier
<1>1. /\ run[r].step = "persist" /\ Cycles!Goto(r, "done")
      /\ row' = [row EXCEPT ![r] = IF t = "error" THEN "errored" ELSE "completed"]
      /\ UNCHANGED <<cache, accounted, answers, paid, faults, interrupted, runsMet, stale>>
  BY DEF Cycles!Persist, Cycles!Fine, Cycles!Paying
<1>2. /\ t = "error" => r \in interrupted
      /\ t # "error" => accounted[r] = t /\ t = IF paid[r] = "none" THEN "cache" ELSE paid[r]
  BY <1>1, DistillSame DEF DistillKept
<1>3. /\ run' = [run EXCEPT ![r] = run'[r]] /\ run'[r] \in DistillRunType
      /\ run'[r].step = "done" /\ run'[r].tier = t
  <2>1. "done" \in DistillSteps /\ t \in Cycles!Tier \cup {"cache", "error"} /\ Cycles!Goto(r, "done")
    BY <1>1, DistillSame DEF DistillSteps
  <2>2. QED
    BY <2>1, DistillGoto
<1>4. row' = [row EXCEPT ![r] = row'[r]] /\ row'[r] = IF t = "error" THEN "errored" ELSE "completed"
  BY <1>1 DEF DistillInv
<1>5. DistillAlone(r)
  BY <1>1, <1>3, <1>4, DistillSame DEF DistillAlone
<1>6. DistillKept(r)'
  <2>1. UNCHANGED <<accounted, paid, interrupted>>
    BY <1>1
  <2>2. QED
    BY <1>2, <1>3, <1>4, <2>1 DEF DistillKept
<1>7. ASSUME ~runsMet, ~stale PROVE DistillHeld'
  BY <1>1, <1>3, <1>5, <1>7, DistillCached DEF Cycles!UnderWay
<1>8. QED
  BY <1>1, <1>5, <1>6, <1>7, DistillApart, DistillSame

(* A cycle is upset.                                                       *)
LEMMA DistillUpset ==
  ASSUME MaxFaults \in Nat, DistillInv, NEW r \in Run, Cycles!UnderWay(r), Cycles!Upset(r),
         stale' = (stale \/ run[r].step = "store"),
         NEW step \in {"persist", "done"}, NEW tier \in Cycles!Tier \cup {"cache", "error"},
         (Cycles!Goto(r, step) /\ tier = run[r].tier) \/ Cycles!Switch(r, step, tier),
         step = "persist" => tier = "error"
  PROVE  DistillInv'
<1>1. /\ faults < MaxFaults /\ faults' = faults + 1 /\ interrupted' = interrupted \cup {r}
      /\ UNCHANGED <<cache, row, accounted, answers, paid, runsMet>>
  BY DEF Cycles!Upset, Cycles!Fault
<1>2. row[r] = "queued"
  BY DistillSame DEF Cycles!UnderWay, DistillKept
<1>3. /\ run' = [run EXCEPT ![r] = run'[r]] /\ run'[r] \in DistillRunType
      /\ run'[r].step = step /\ run'[r].tier = tier
  BY DistillGoto DEF DistillSteps
<1>4. faults' \in 0..MaxFaults
  BY <1>1, DistillSame
<1>5. DistillAlone(r)
  BY <1>1, <1>3, <1>4, DistillSame DEF DistillAlone
<1>6. DistillKept(r)'
  <2>1. UNCHANGED <<row, accounted, paid>> /\ r \in interrupted'
    BY <1>1
  <2>2. run'[r].step = "persist" \/ run'[r].step = "done"
    BY <1>3
  <2>3. run'[r].step = "persist" => run'[r].tier = "error"
    BY <1>3
  <2>4. QED
    BY <1>2, <2>1, <2>2, <2>3 DEF DistillKept
<1>7. runsMet' \in BOOLEAN /\ stale' \in BOOLEAN
  BY <1>1, DistillSame
<1>8. ASSUME ~runsMet', ~stale' PROVE DistillHeld'
  <2>1. ~runsMet /\ ~stale /\ run[r].step # "store"
    BY <1>1, <1>8
  <2>2. QED
    BY <1>1, <1>3, <1>5, <2>1, DistillCached
<1>9. QED
  BY <1>5, <1>6, <1>7, <1>8, DistillApart

(* An entry expires.                                                       *)
LEMMA DistillExpire ==
  ASSUME MaxFaults \in Nat, DistillInv, NEW t \in Cycles!Tier, Cycles!Expire(t)
  PROVE  DistillInv'
<1>1. /\ faults < MaxFaults /\ faults' = faults + 1 /\ stale' = TRUE
      /\ cache' = [cache EXCEPT ![t] = "expired"]
      /\ UNCHANGED <<row, accounted, run, answers, paid, runsMet, interrupted>>
  BY DEF Cycles!Expire, Cycles!Fault
<1>2. faults' \in 0..MaxFaults
  BY <1>1 DEF DistillInv
<1>3. cache' \in [Cycles!Tier -> {"none", "fresh", "expired"}]
  BY <1>1 DEF DistillInv
<1>4. \A r \in Run : DistillKept(r)'
  BY <1>1 DEF DistillInv, DistillKept
<1>5. stale' = TRUE /\ UNCHANGED <<row, accounted, run, answers, paid, runsMet, interrupted>>
  BY <1>1
<1>6. QED
  BY <1>2, <1>3, <1>4, <1>5 DEF DistillInv

(* Every step keeps it.                                                    *)
LEMMA DistillStep ==
  ASSUME MaxFaults \in Nat, DistillInv, Cycles!Next
  PROVE  DistillInv'
<1>1. ASSUME NEW r \in Run, Cycles!Raise(r) PROVE DistillInv'
  <2>1. /\ Cycles!Switch(r, "persist", "error") /\ Cycles!UnderWay(r) /\ Cycles!Upset(r)
        /\ stale' = (stale \/ run[r].step = "store")
    BY <1>1 DEF Cycles!Raise, Cycles!UnderWay
  <2>2. "persist" \in {"persist", "done"} /\ "error" \in Cycles!Tier \cup {"cache", "error"}
    OBVIOUS
  <2>3. QED
    BY <2>1, <2>2, DistillUpset
<1>2. ASSUME NEW r \in Run, Cycles!Die(r) PROVE DistillInv'
  <2>1. /\ Cycles!Goto(r, "done") /\ Cycles!UnderWay(r) /\ Cycles!Upset(r)
        /\ stale' = (stale \/ run[r].step = "store") /\ run[r].tier \in Cycles!Tier \cup {"cache", "error"}
    BY <1>2, DistillSame DEF Cycles!Die
  <2>2. QED
    BY <2>1, DistillUpset
<1>3. ASSUME NEW r \in Run,
             Cycles!Execute(r) \/ Cycles!Look(r) \/ Cycles!Delete(r) \/ Cycles!Call(r) \/ Cycles!Store(r) \/ Cycles!Account(r) \/ Cycles!Persist(r)
      PROVE  DistillInv'
  BY <1>3, DistillExecute, DistillLook, DistillDelete, DistillCall, DistillStore, DistillAccount,
     DistillPersist
<1>4. QED
  BY <1>1, <1>2, <1>3, DistillExpire DEF Cycles!Next

(* A tier is paid once for an answer that can be cached, and a cycle ends  *)
(* completed, accounted for under the tier it paid, unless cycles were     *)
(* under way at once, an entry expired or was not stored, or the cycle was *)
(* interrupted.                                                            *)
THEOREM DistillKeeps ==
  ASSUME MaxFaults \in Nat
  PROVE  Cycles!Init /\ [][Cycles!Next]_<<Cycles!distilling, faults>> =>
           [](Cycles!TypeOK /\ Cycles!EffectsOnce /\ Cycles!NothingLost)
<1>1. Cycles!Init => DistillInv
  BY DistillInit
<1>2. DistillInv /\ [Cycles!Next]_<<Cycles!distilling, faults>> => DistillInv'
  BY DistillStep, DistillRests
<1>3. DistillInv => Cycles!TypeOK /\ Cycles!EffectsOnce /\ Cycles!NothingLost
  BY DistillSays
<1>4. QED
  BY <1>1, <1>2, <1>3, PTL

-----------------------------------------------------------------------------
(* The cluster master, and the journal of posts made offline.              *)

EaosPlace == {"no", "begun", "done", "failed", "letter"}
EaosTask == [status : {"none", "PENDING", "COMPLETED", "DLQ"}, retries : 0..TaskRetries]

EaosTypes ==
  /\ lane \in [Task -> {"SOCIAL", "MUTE", "WORK", "UNKNOWN"}]
  /\ task \in [Task -> EaosTask] /\ deadLetter \in [Task -> 0..1]
  /\ executing \in [Task -> EaosPlace] /\ effect \in [Task -> 0..2]
  /\ backlog \subseteq Cluster!Rows /\ doubtful \subseteq Task /\ unlettered \subseteq Task

(* The bounds and the switches.                                            *)
EaosSwitches == loop \in BOOLEAN /\ daemon \in BOOLEAN /\ faults \in 0..MaxFaults

(* The journal: one row for an id, and what is posted has its effect.      *)
EaosRows ==
  /\ journal \subseteq [id : Cluster!Rows, task : Task] /\ lastRow \in 0..LastRow
  /\ \A r \in journal : r.id <= lastRow
  /\ \A r, q \in journal : r.id = q.id => r = q
  /\ posted = {} \/ \E r \in journal : posted = {r.id}
  /\ \A r \in journal : r.id \in posted => effect[r.task] # 0

(* Where the row of a task, its execution and its effect agree; and, while *)
(* nothing about it is in doubt, that its work is still to be done, or is  *)
(* journalled once and not yet posted, or is done.                         *)
EaosAgreed(t) ==
  /\ executing[t] # "no" => loop /\ task[t].status = "PENDING"
  /\ executing[t] \in {"begun", "done", "failed"} \/ task[t].status = "none" => task[t].retries < TaskRetries
  /\ executing[t] = "done" \/ task[t].status = "COMPLETED" =>
       lane[t] = "MUTE" \/ effect[t] # 0 \/ \E r \in journal : r.task = t
  /\ deadLetter[t] = IF task[t].status = "DLQ" THEN 1 ELSE 0
  /\ task[t].status = "PENDING" /\ ~(task[t].retries < TaskRetries) =>
       executing[t] = "letter" \/ t \in unlettered
EaosSingle(t) ==
  /\ effect[t] \in {0, 1}
  /\ task[t].status \in {"none", "PENDING"} /\ executing[t] # "done" =>
       effect[t] = 0 /\ \A r \in journal : r.task # t
  /\ \A r, q \in journal : r.task = t /\ q.task = t => r = q
  /\ \A r \in journal : r.task = t /\ effect[t] # 0 => r.id \in posted

EaosInv ==
  /\ EaosTypes /\ EaosSwitches /\ EaosRows
  /\ \A t \in Task : EaosAgreed(t)
  /\ \A t \in Task \ doubtful : EaosSingle(t)

(* It holds at first.                                                      *)
LEMMA EaosInit == Cluster!TaskAssumption /\ Cluster!Init => EaosInv
<1> SUFFICES ASSUME Cluster!TaskAssumption, Cluster!Init PROVE EaosInv
  OBVIOUS
<1>1. /\ task = [t \in Task |-> [status |-> "none", retries |-> 0]]
      /\ TaskRetries \in Nat \ {0} /\ LastRow \in Nat /\ MaxFaults \in Nat
  BY DEF Cluster!Init, Cluster!TaskAssumption
<1>2. task \in [Task -> EaosTask] /\ \A t \in Task : task[t].status = "none" /\ task[t].retries < TaskRetries
  BY <1>1 DEF EaosTask
<1>3. EaosTypes
  <2>1. deadLetter = [t \in Task |-> 0] /\ effect = [t \in Task |-> 0]
    BY DEF Cluster!Init
  <2>2. deadLetter \in [Task -> 0..1] /\ effect \in [Task -> 0..2]
    BY <2>1
  <2>3. QED
    BY <1>2, <2>2 DEF EaosTypes, EaosPlace, Cluster!Init
<1>4. EaosSwitches
  <2>1. faults = 0
    BY DEF Cluster!Init
  <2>2. faults \in 0..MaxFaults
    BY <1>1, <2>1
  <2>3. QED
    BY <2>2 DEF EaosSwitches, Cluster!Init
<1>5. EaosRows
  <2>1. journal = {} /\ lastRow = 0 /\ posted = {}
    BY DEF Cluster!Init
  <2>2. QED
    BY <1>1, <2>1 DEF EaosRows
<1>6. \A t \in Task : EaosAgreed(t)
  BY <1>2 DEF Cluster!Init, EaosAgreed
<1>7. \A t \in Task : EaosSingle(t)
  BY DEF Cluster!Init, EaosSingle
<1>8. QED
  BY <1>3, <1>4, <1>5, <1>6, <1>7 DEF EaosInv

(* It says what was asked.                                                 *)
LEMMA EaosSays == Cluster!TaskAssumption /\ EaosInv => Cluster!TypeOK /\ Cluster!EffectsOnce /\ Cluster!NothingLost
<1> SUFFICES ASSUME Cluster!TaskAssumption, EaosInv PROVE Cluster!TypeOK /\ Cluster!EffectsOnce /\ Cluster!NothingLost
  OBVIOUS
<1>1. Cluster!TypeOK
  <2>1. posted \subseteq Cluster!Rows /\ Cardinality(posted) <= 1
    <3>1. CASE posted = {}
      BY <3>1, FS_EmptySet
    <3>2. ASSUME NEW r \in journal, posted = {r.id} PROVE posted \subseteq Cluster!Rows /\ Cardinality(posted) <= 1
      <4>1. r.id \in Cluster!Rows
        BY DEF EaosInv, EaosRows
      <4>2. Cardinality({r.id}) = 1
        BY FS_Singleton
      <4>3. QED
        BY <3>2, <4>1, <4>2
    <3>3. QED
      BY <3>1, <3>2 DEF EaosInv, EaosRows
  <2>2. ~loop => \A t \in Task : executing[t] = "no"
    BY DEF EaosInv, EaosAgreed
  <2>3. /\ journal \subseteq [id : Cluster!Rows, task : Task] /\ lastRow \in 0..LastRow
        /\ \A r, q \in journal : r.id <= lastRow /\ (r.id = q.id => r = q)
    BY DEF EaosInv, EaosRows
  <2>4. EaosTypes /\ EaosSwitches
    BY DEF EaosInv
  <2>5. Cluster!Cardinality(posted) = Cardinality(posted)
    BY Zenon DEF Cluster!Cardinality, Cardinality
  <2>6. QED
    BY <2>1, <2>2, <2>3, <2>4, <2>5 DEF Cluster!TypeOK, EaosTypes, EaosSwitches, EaosTask, EaosPlace
<1>2. Cluster!EffectsOnce
  BY DEF EaosInv, EaosSingle, Cluster!EffectsOnce
<1>3. Cluster!NothingLost
  <2> SUFFICES ASSUME NEW t \in Task
               PROVE  /\ task[t].status = "COMPLETED" /\ lane[t] # "MUTE"
                           => effect[t] > 0 \/ \E r \in journal : r.task = t
                      /\ deadLetter[t] = IF task[t].status = "DLQ" THEN 1 ELSE 0
                      /\ task[t].status = "PENDING" /\ task[t].retries >= TaskRetries
                           => executing[t] = "letter" \/ t \in unlettered
    BY DEF Cluster!NothingLost
  <2>1. EaosAgreed(t) /\ effect[t] \in 0..2 /\ task[t].retries \in 0..TaskRetries
    BY DEF EaosInv, EaosTypes, EaosTask
  <2>2. effect[t] # 0 => effect[t] > 0
    BY <2>1
  <2>3. task[t].retries >= TaskRetries => ~(task[t].retries < TaskRetries)
    BY <2>1 DEF Cluster!TaskAssumption
  <2>4. QED
    BY <2>1, <2>2, <2>3 DEF EaosAgreed
<1>4. QED
  BY <1>1, <1>2, <1>3

(* A step of another service leaves it.                                    *)
LEMMA EaosRests == EaosInv /\ UNCHANGED Cluster!vars => EaosInv'
<1> SUFFICES ASSUME EaosInv, UNCHANGED Cluster!vars PROVE EaosInv'
  OBVIOUS
<1>1. UNCHANGED <<lane, task, deadLetter, executing, loop, unlettered, effect, journal, lastRow,
                  daemon, backlog, posted, faults, doubtful>>
  BY DEF Cluster!vars, Cluster!queueVars, Cluster!journalVars, Cluster!drainVars
<1>2. EaosTypes' /\ EaosSwitches' /\ EaosRows'
  BY <1>1 DEF EaosInv, EaosTypes, EaosSwitches, EaosRows
<1>3. \A t \in Task : EaosAgreed(t)' /\ (t \notin doubtful => EaosSingle(t)')
  BY <1>1 DEF EaosInv, EaosAgreed, EaosSingle
<1>4. QED
  BY <1>1, <1>2, <1>3 DEF EaosInv

(* What a step about a task t leaves of another one u.                     *)
EaosSame(u) ==
  /\ lane'[u] = lane[u] /\ task'[u] = task[u] /\ deadLetter'[u] = deadLetter[u]
  /\ executing'[u] = executing[u] /\ effect'[u] = effect[u]
  /\ u \in doubtful' <=> u \in doubtful
  /\ u \in unlettered' <=> u \in unlettered
  /\ \A r : r.task = u => (r \in journal' <=> r \in journal)
  /\ \A r \in journal : r.task = u => (r.id \in posted' <=> r.id \in posted)
EaosApart(t) == loop' = loop /\ \A u \in Task : u # t => EaosSame(u)

(* Only the task itself remains to be shown.                               *)
LEMMA EaosOthers ==
  ASSUME EaosInv, NEW t \in Task, EaosApart(t), EaosTypes', EaosSwitches', EaosRows',
         EaosAgreed(t)', t \notin doubtful' => EaosSingle(t)'
  PROVE  EaosInv'
<1>1. ASSUME NEW u \in Task, u # t PROVE EaosAgreed(u)' /\ (u \notin doubtful' => EaosSingle(u)')
  <2>1. EaosSame(u) /\ loop' = loop /\ EaosAgreed(u) /\ (u \notin doubtful => EaosSingle(u))
    BY <1>1 DEF EaosInv, EaosApart
  <2>2. EaosAgreed(u)'
    BY <2>1 DEF EaosAgreed, EaosSame
  <2>3. u \notin doubtful' => EaosSingle(u)'
    BY <2>1 DEF EaosSingle, EaosSame
  <2>4. QED
    BY <2>2, <2>3
<1>2. QED
  BY <1>1 DEF EaosInv

(* What is known of a task before a step.                                  *)
LEMMA EaosKnown ==
  ASSUME EaosInv, NEW t \in Task
  PROVE  /\ EaosTypes /\ EaosSwitches /\ EaosRows /\ EaosAgreed(t) /\ (t \notin doubtful => EaosSingle(t))
         /\ task[t] \in EaosTask /\ executing[t] \in EaosPlace /\ effect[t] \in 0..2
BY DEF EaosInv, EaosTypes

(* The effect of one more try.                                             *)
LEMMA EaosDone ==
  ASSUME EaosInv, NEW t \in Task, Cluster!Done(t)
  PROVE  /\ effect' \in [Task -> 0..2] /\ effect'[t] # 0
         /\ effect[t] = 0 => effect'[t] = 1
         /\ \A u \in Task : u # t => effect'[u] = effect[u]
         /\ \A u \in Task : effect[u] # 0 => effect'[u] # 0
<1>1. effect \in [Task -> 0..2] /\ effect' = [effect EXCEPT ![t] = IF @ < 2 THEN @ + 1 ELSE 2]
  BY DEF EaosInv, EaosTypes, Cluster!Done
<1>2. QED
  BY <1>1

(* A new row of the journal.                                               *)
LEMMA EaosCached ==
  ASSUME EaosInv, Cluster!TaskAssumption, NEW t \in Task, Cluster!Cached(t), UNCHANGED posted,
         \A u \in Task : effect[u] # 0 => effect'[u] # 0
  PROVE  /\ EaosRows' /\ \E r \in journal' : r.task = t
         /\ \A r : r.task # t => (r \in journal' <=> r \in journal)
         /\ \A r \in journal' : r \in journal \/ (r.task = t /\ r.id \notin posted)
         /\ (\A r \in journal : r.task # t) => \A r, q \in journal' : r.task = t /\ q.task = t => r = q
<1> DEFINE new == [id |-> lastRow + 1, task |-> t]
<1>1. lastRow < LastRow /\ lastRow' = lastRow + 1 /\ journal' = journal \cup {new}
  BY DEF Cluster!Cached
<1>2. LastRow \in Nat /\ lastRow \in 0..LastRow /\ EaosRows
  BY DEF Cluster!TaskAssumption, EaosInv, EaosRows
<1>3. lastRow' \in 0..LastRow /\ new.id \in Cluster!Rows /\ new.task = t /\ new.id = lastRow + 1
  BY <1>1, <1>2 DEF Cluster!Rows
<1>4. new \in [id : Cluster!Rows, task : Task] /\ journal' \subseteq [id : Cluster!Rows, task : Task]
  BY <1>1, <1>2, <1>3 DEF EaosRows
<1>5. \A r \in journal : r.id \in Cluster!Rows /\ r.id <= lastRow
  BY <1>2 DEF EaosRows
<1>6. \A r \in journal : r.id # new.id /\ r.id <= lastRow + 1
  BY <1>2, <1>3, <1>5 DEF Cluster!Rows
<1>7. new.id \notin posted
  BY <1>2, <1>6 DEF EaosRows
<1>8. new \in journal' /\ journal \subseteq journal' /\ \A r \in journal' : r \in journal \/ r = new
  BY <1>1
<1>9. EaosRows'
  <2>1. \A r \in journal' : r.id <= lastRow'
    BY <1>1, <1>2, <1>3, <1>6, <1>8
  <2>2. \A r, q \in journal' : r.id = q.id => r = q
    BY <1>2, <1>6, <1>8 DEF EaosRows
  <2>3. posted' = {} \/ \E r \in journal' : posted' = {r.id}
    BY <1>2, <1>8 DEF EaosRows
  <2>4. \A r \in journal' : r.id \in posted' => effect'[r.task] # 0
    <3>1. \A r \in journal : r.task \in Task
      BY <1>2 DEF EaosRows
    <3>2. QED
      BY <1>2, <1>7, <1>8, <3>1 DEF EaosRows
  <2>5. QED
    BY <1>3, <1>4, <2>1, <2>2, <2>3, <2>4 DEF EaosRows
<1>10. \E r \in journal' : r.task = t
  BY <1>3, <1>8
<1>11. \A r : r.task # t => (r \in journal' <=> r \in journal)
  BY <1>3, <1>8
<1>12. \A r \in journal' : r \in journal \/ (r.task = t /\ r.id \notin posted)
  BY <1>3, <1>7, <1>8
<1>13. ASSUME \A r \in journal : r.task # t, NEW r \in journal', NEW q \in journal', r.task = t, q.task = t
       PROVE  r = q
  BY <1>8, <1>13
<1>14. QED
  BY <1>9, <1>10, <1>11, <1>12, <1>13

(* Where the execution of a task goes.                                     *)
LEMMA EaosMove ==
  ASSUME EaosInv, NEW t \in Task, NEW to \in EaosPlace, Cluster!Move(t, to)
  PROVE  /\ executing' \in [Task -> EaosPlace] /\ executing'[t] = to
         /\ \A u \in Task : u # t => executing'[u] = executing[u]
BY DEF EaosInv, EaosTypes, Cluster!Move

(* The bounds stay bounds.                                                 *)
LEMMA EaosFaults ==
  ASSUME EaosInv, Cluster!TaskAssumption, Cluster!Fine \/ Cluster!Fault, loop' \in BOOLEAN, UNCHANGED daemon
  PROVE  EaosSwitches'
<1>1. MaxFaults \in Nat /\ faults \in 0..MaxFaults
  BY DEF EaosInv, EaosSwitches, Cluster!TaskAssumption
<1>2. faults' = faults \/ (faults < MaxFaults /\ faults' = faults + 1)
  BY DEF Cluster!Fine, Cluster!Fault
<1>3. faults' \in 0..MaxFaults
  BY <1>1, <1>2
<1>4. QED
  BY <1>3 DEF EaosInv, EaosSwitches

(* A journal that is not written.                                          *)
LEMMA EaosUnwritten ==
  ASSUME EaosInv, UNCHANGED <<journal, lastRow, posted>>,
         \A u \in Task : effect[u] # 0 => effect'[u] # 0
  PROVE  EaosRows'
<1>1. EaosRows /\ \A r \in journal : r.task \in Task
  BY DEF EaosInv, EaosRows
<1>2. QED
  BY <1>1 DEF EaosRows

(* A handler returns, or fails: with its work done, or journalled, or      *)
(* neither, or nobody knows.                                               *)
EaosHandled(t, to) ==
  \/ Cluster!Done(t) /\ UNCHANGED Cluster!journalVars /\ to = "done" /\ doubtful' = doubtful
  \/ UNCHANGED <<effect, Cluster!journalVars>> /\ (to = "done" => lane[t] = "MUTE") /\ doubtful' = doubtful
  \/ Cluster!Cached(t) /\ UNCHANGED effect /\ to = "done" /\ doubtful' = doubtful
  \/ /\ doubtful' = doubtful \cup {t}
     /\ Cluster!Done(t) \/ UNCHANGED effect
     /\ UNCHANGED Cluster!journalVars \/ Cluster!Cached(t)
     /\ to = "done" => Cluster!Done(t) \/ Cluster!Cached(t)
LEMMA EaosHandle ==
  ASSUME EaosInv, Cluster!TaskAssumption, NEW t \in Task, Cluster!HandlerOnly(t), NEW to \in {"done", "failed"},
         Cluster!Move(t, to), Cluster!Fine \/ Cluster!Fault, EaosHandled(t, to)
  PROVE  EaosInv'
<1>1. /\ executing[t] = "begun"
      /\ UNCHANGED <<lane, task, deadLetter, loop, unlettered, daemon, backlog, posted>>
  BY DEF Cluster!HandlerOnly, Cluster!drainVars
<1>2. /\ executing' \in [Task -> EaosPlace] /\ executing'[t] = to
      /\ \A u \in Task : u # t => executing'[u] = executing[u]
  BY EaosMove DEF EaosPlace
<1>3. /\ effect' \in [Task -> 0..2] /\ \A u \in Task : u # t => effect'[u] = effect[u]
      /\ \A u \in Task : effect[u] # 0 => effect'[u] # 0
  BY EaosDone DEF EaosHandled, EaosInv, EaosTypes
<1>4. doubtful' \in {doubtful, doubtful \cup {t}}
  BY DEF EaosHandled
<1>5. UNCHANGED <<journal, lastRow>> \/ Cluster!Cached(t)
  BY DEF EaosHandled, Cluster!journalVars
<1>6. EaosSwitches'
  BY <1>1, EaosFaults, EaosKnown DEF EaosSwitches
<1>7. EaosRows'
  BY <1>1, <1>3, <1>5, EaosUnwritten, EaosCached
<1>8. EaosTypes'
  BY <1>1, <1>2, <1>3, <1>4, EaosKnown DEF EaosTypes
<1>9. \A r : r.task # t => (r \in journal' <=> r \in journal)
  BY <1>1, <1>3, <1>5, EaosCached
<1>10. EaosApart(t)
  BY <1>1, <1>2, <1>3, <1>4, <1>9 DEF EaosApart, EaosSame
<1>11. EaosAgreed(t)'
  <2>1. EaosAgreed(t) /\ task[t].status = "PENDING"
    BY <1>1, EaosKnown DEF EaosAgreed
  <2>2. to = "done" => lane[t] = "MUTE" \/ effect'[t] # 0 \/ \E r \in journal' : r.task = t
    BY <1>1, <1>3, EaosDone, EaosCached DEF EaosHandled
  <2>3. QED
    BY <1>1, <1>2, <2>1, <2>2 DEF EaosAgreed
<1>12. ASSUME t \notin doubtful' PROVE EaosSingle(t)'
  <2>1. EaosSingle(t) /\ task[t].status = "PENDING" /\ effect[t] = 0 /\ \A r \in journal : r.task # t
    BY <1>1, <1>4, <1>12, EaosKnown DEF EaosAgreed, EaosSingle
  <2>2. CASE Cluster!Done(t) /\ UNCHANGED Cluster!journalVars /\ to = "done"
    BY <1>2, <2>1, <2>2, EaosDone DEF EaosSingle, Cluster!journalVars
  <2>3. CASE UNCHANGED <<effect, Cluster!journalVars>>
    BY <2>1, <2>3 DEF EaosSingle, Cluster!journalVars
  <2>4. CASE Cluster!Cached(t) /\ UNCHANGED effect /\ to = "done"
    <3>1. /\ \A r \in journal' : r \in journal \/ (r.task = t /\ r.id \notin posted)
          /\ \A r, q \in journal' : r.task = t /\ q.task = t => r = q
      BY <1>1, <1>3, <2>1, <2>4, EaosCached
    <3>2. QED
      BY <1>2, <2>1, <2>4, <3>1 DEF EaosSingle
  <2>5. QED
    BY <1>12, <2>2, <2>3, <2>4 DEF EaosHandled
<1>13. QED
  BY <1>6, <1>7, <1>8, <1>10, <1>11, <1>12, EaosOthers

(* The three handlers.                                                     *)
LEMMA EaosWork ==
  ASSUME EaosInv, Cluster!TaskAssumption, NEW t \in Task, Cluster!Work(t) \/ Cluster!Publish(t) \/ Cluster!PublishNothing(t)
  PROVE  EaosInv'
<1>1. Cluster!HandlerOnly(t)
  BY DEF Cluster!Work, Cluster!Publish, Cluster!PublishNothing
<1>2. CASE Cluster!Work(t)
  <2>1. UNCHANGED Cluster!journalVars
    BY <1>2 DEF Cluster!Work
  <2>2. CASE Cluster!Done(t) /\ Cluster!Move(t, "done") /\ Cluster!Fine /\ UNCHANGED doubtful
    BY <1>1, <2>1, <2>2, EaosHandle DEF EaosHandled
  <2>3. CASE Cluster!Done(t) /\ Cluster!Move(t, "failed") /\ Cluster!Fault /\ doubtful' = doubtful \cup {t}
    BY <1>1, <2>1, <2>3, EaosHandle DEF EaosHandled
  <2>4. CASE Cluster!Move(t, "failed") /\ Cluster!Fine /\ UNCHANGED <<effect, doubtful>>
    <3>1. UNCHANGED <<effect, Cluster!journalVars>> /\ doubtful' = doubtful
      BY <2>1, <2>4
    <3>2. QED
      BY <1>1, <2>4, <3>1, EaosHandle DEF EaosHandled
  <2>5. QED
    BY <1>2, <2>2, <2>3, <2>4 DEF Cluster!Work
<1>3. CASE Cluster!Publish(t)
  <2>1. CASE Cluster!Done(t) /\ Cluster!Move(t, "done") /\ Cluster!Fine /\ UNCHANGED <<Cluster!journalVars, doubtful>>
    <3>1. UNCHANGED Cluster!journalVars /\ doubtful' = doubtful
      BY <2>1
    <3>2. QED
      BY <1>1, <2>1, <3>1, EaosHandle DEF EaosHandled
  <2>2. ASSUME \/ Cluster!Done(t) /\ doubtful' = doubtful \cup {t}
               \/ UNCHANGED <<effect, doubtful>>,
               Cluster!Cached(t) /\ Cluster!Move(t, "done"), Cluster!Fault
        PROVE  EaosInv'
    <3>1. EaosHandled(t, "done")
      BY <2>2 DEF EaosHandled
    <3>2. QED
      BY <1>1, <2>2, <3>1, EaosHandle
  <2>3. ASSUME \/ Cluster!Done(t) /\ doubtful' = doubtful \cup {t}
               \/ UNCHANGED <<effect, doubtful>>,
               Cluster!Move(t, "failed") /\ UNCHANGED Cluster!journalVars, Cluster!Fault
        PROVE  EaosInv'
    <3>1. EaosHandled(t, "failed")
      BY <2>3 DEF EaosHandled
    <3>2. QED
      BY <1>1, <2>3, <3>1, EaosHandle
  <2>4. QED
    BY <1>3, <2>1, <2>2, <2>3 DEF Cluster!Publish
<1>4. CASE Cluster!PublishNothing(t)
  <2>1. lane[t] = "MUTE" /\ Cluster!Move(t, "done") /\ UNCHANGED <<effect, doubtful>>
    BY <1>4 DEF Cluster!PublishNothing
  <2>2. CASE Cluster!Fine /\ UNCHANGED Cluster!journalVars
    <3>1. UNCHANGED <<effect, Cluster!journalVars>> /\ doubtful' = doubtful
      BY <2>1, <2>2
    <3>2. QED
      BY <1>1, <2>1, <2>2, <3>1, EaosHandle DEF EaosHandled
  <2>3. CASE Cluster!Fault /\ Cluster!Cached(t)
    <3>1. UNCHANGED effect /\ doubtful' = doubtful
      BY <2>1
    <3>2. QED
      BY <1>1, <2>1, <2>3, <3>1, EaosHandle DEF EaosHandled
  <2>4. QED
    BY <1>4, <2>2, <2>3 DEF Cluster!PublishNothing
<1>5. QED
  BY <1>2, <1>3, <1>4

(* A step of the queue: the row of a task and its execution move, and no   *)
(* work is done.                                                           *)
EaosQueued(t) ==
  /\ UNCHANGED <<lane, effect, journal, lastRow, daemon, backlog, posted, loop>>
  /\ task' \in [Task -> EaosTask] /\ \A u \in Task : u # t => task'[u] = task[u]
  /\ executing' \in [Task -> EaosPlace] /\ \A u \in Task : u # t => executing'[u] = executing[u]
  /\ deadLetter' \in [Task -> 0..1] /\ \A u \in Task : u # t => deadLetter'[u] = deadLetter[u]
  /\ doubtful' \in {doubtful, doubtful \cup {t}} /\ unlettered' = unlettered
LEMMA EaosQueue ==
  ASSUME EaosInv, Cluster!TaskAssumption, NEW t \in Task, EaosQueued(t), Cluster!Fine \/ Cluster!Fault,
         EaosAgreed(t)', t \notin doubtful' => EaosSingle(t)'
  PROVE  EaosInv'
<1>1. EaosSwitches'
  BY EaosFaults, EaosKnown DEF EaosQueued, EaosSwitches
<1>2. EaosRows'
  BY EaosUnwritten DEF EaosQueued
<1>3. EaosTypes'
  BY EaosKnown DEF EaosQueued, EaosTypes
<1>4. EaosApart(t)
  BY DEF EaosQueued, EaosApart, EaosSame
<1>5. QED
  BY <1>1, <1>2, <1>3, <1>4, EaosOthers

(* What is written to a row.                                               *)
LEMMA EaosStatus ==
  ASSUME EaosInv, NEW t \in Task, NEW status \in {"none", "PENDING", "COMPLETED", "DLQ"},
         task' = [task EXCEPT ![t].status = status]
  PROVE  /\ task' \in [Task -> EaosTask] /\ task'[t].status = status
         /\ task'[t].retries = task[t].retries /\ \A u \in Task : u # t => task'[u] = task[u]
<1>1. task \in [Task -> EaosTask]
  BY DEF EaosInv, EaosTypes
<1>2. \A u \in Task : u # t => task'[u] = task[u]
  BY <1>1
<1>3. task'[t] = [task[t] EXCEPT !.status = status] /\ task[t] \in EaosTask
  BY <1>1
<1>4. task'[t] \in EaosTask /\ task'[t].status = status /\ task'[t].retries = task[t].retries
  BY <1>3 DEF EaosTask
<1>5. task' \in [Task -> EaosTask]
  BY <1>1, <1>4
<1>6. QED
  BY <1>2, <1>4, <1>5

LEMMA EaosCount ==
  ASSUME EaosInv, NEW t \in Task, NEW k \in 0..TaskRetries,
         task' = [task EXCEPT ![t].retries = k]
  PROVE  /\ task' \in [Task -> EaosTask] /\ task'[t].status = task[t].status
         /\ task'[t].retries = k /\ \A u \in Task : u # t => task'[u] = task[u]
<1>1. task \in [Task -> EaosTask]
  BY DEF EaosInv, EaosTypes
<1>2. \A u \in Task : u # t => task'[u] = task[u]
  BY <1>1
<1>3. task'[t] = [task[t] EXCEPT !.retries = k] /\ task[t] \in EaosTask
  BY <1>1
<1>4. task'[t] \in EaosTask /\ task'[t].retries = k /\ task'[t].status = task[t].status
  BY <1>3 DEF EaosTask
<1>5. task' \in [Task -> EaosTask]
  BY <1>1, <1>4
<1>6. QED
  BY <1>2, <1>4, <1>5

(* A task is enqueued.                                                     *)
LEMMA EaosEnqueue ==
  ASSUME EaosInv, Cluster!TaskAssumption, NEW t \in Task, Cluster!Enqueue(t)
  PROVE  EaosInv'
<1>1. /\ task[t].status = "none" /\ task' = [task EXCEPT ![t].status = "PENDING"]
      /\ UNCHANGED <<lane, deadLetter, executing, loop, unlettered, effect, journal, lastRow,
                     daemon, backlog, posted, faults, doubtful>>
  BY DEF Cluster!Enqueue, Cluster!journalVars, Cluster!drainVars
<1>3. task' \in [Task -> EaosTask] /\ \A u \in Task : u # t => task'[u] = task[u]
  BY <1>1, EaosStatus
<1>4. task'[t].status = "PENDING" /\ task'[t].retries = task[t].retries
  BY <1>1, EaosStatus
<1>5. EaosQueued(t)
  BY <1>1, <1>3, EaosKnown DEF EaosQueued, EaosTypes
<1>6. EaosAgreed(t)'
  BY <1>1, <1>4, EaosKnown DEF EaosAgreed, EaosPlace
<1>7. ASSUME t \notin doubtful' PROVE EaosSingle(t)'
  <2>1. EaosSingle(t) /\ executing[t] = "no"
    BY <1>1, <1>7, EaosKnown DEF EaosAgreed
  <2>2. QED
    BY <1>1, <1>4, <2>1 DEF EaosSingle
<1>8. QED
  BY <1>1, <1>5, <1>6, <1>7, EaosQueue DEF Cluster!Fine

(* Its status is set, or that raises.                                      *)
LEMMA EaosComplete ==
  ASSUME EaosInv, Cluster!TaskAssumption, NEW t \in Task, Cluster!Complete(t)
  PROVE  EaosInv'
<1>1. /\ executing[t] = "done"
      /\ UNCHANGED <<lane, deadLetter, loop, unlettered, effect, journal, lastRow, daemon, backlog, posted>>
  BY DEF Cluster!Complete, Cluster!LoopOnly, Cluster!journalVars, Cluster!drainVars
<1>2. EaosAgreed(t) /\ task[t].status = "PENDING" /\ task[t].retries < TaskRetries
  BY <1>1, EaosKnown DEF EaosAgreed
<1>3. CASE /\ task' = [task EXCEPT ![t].status = "COMPLETED"]
           /\ Cluster!Move(t, "no") /\ Cluster!Fine /\ UNCHANGED doubtful
  <2>2. task' \in [Task -> EaosTask] /\ \A u \in Task : u # t => task'[u] = task[u]
    BY <1>3, EaosStatus
  <2>3. task'[t].status = "COMPLETED" /\ task'[t].retries = task[t].retries
    BY <1>3, EaosStatus
  <2>4. /\ executing' \in [Task -> EaosPlace] /\ executing'[t] = "no"
        /\ \A u \in Task : u # t => executing'[u] = executing[u]
    BY <1>3, EaosMove DEF EaosPlace
  <2>5. EaosQueued(t)
    BY <1>1, <1>3, <2>2, <2>4, EaosKnown DEF EaosQueued, EaosTypes
  <2>6. EaosAgreed(t)'
    BY <1>1, <1>2, <2>3, <2>4 DEF EaosAgreed
  <2>7. ASSUME t \notin doubtful' PROVE EaosSingle(t)'
    <3>1. EaosSingle(t)
      BY <1>3, <2>7, EaosKnown
    <3>2. QED
      BY <1>1, <2>3, <3>1 DEF EaosSingle
  <2>8. QED
    BY <1>3, <2>5, <2>6, <2>7, EaosQueue
<1>4. CASE UNCHANGED task /\ Cluster!Move(t, "failed") /\ Cluster!Fault /\ doubtful' = doubtful \cup {t}
  <2>1. /\ executing' \in [Task -> EaosPlace] /\ executing'[t] = "failed"
        /\ \A u \in Task : u # t => executing'[u] = executing[u]
    BY <1>4, EaosMove DEF EaosPlace
  <2>2. EaosQueued(t)
    BY <1>1, <1>4, <2>1, EaosKnown DEF EaosQueued, EaosTypes
  <2>3. EaosAgreed(t)'
    BY <1>1, <1>2, <1>4, <2>1 DEF EaosAgreed
  <2>4. t \in doubtful'
    BY <1>4
  <2>5. QED
    BY <1>4, <2>2, <2>3, <2>4, EaosQueue
<1>5. QED
  BY <1>3, <1>4 DEF Cluster!Complete

(* A retry is counted.                                                     *)
LEMMA EaosRetry ==
  ASSUME EaosInv, Cluster!TaskAssumption, NEW t \in Task, Cluster!Retry(t)
  PROVE  EaosInv'
<1> DEFINE to == IF task[t].retries + 1 >= TaskRetries THEN "letter" ELSE "no"
<1>1. /\ executing[t] = "failed" /\ task' = [task EXCEPT ![t].retries = @ + 1] /\ Cluster!Move(t, to) /\ Cluster!Fine
      /\ UNCHANGED <<lane, deadLetter, loop, unlettered, doubtful, effect, journal, lastRow, daemon,
                     backlog, posted>>
  BY DEF Cluster!Retry, Cluster!LoopOnly, Cluster!journalVars, Cluster!drainVars
<1>2. EaosAgreed(t) /\ task[t].status = "PENDING" /\ task[t].retries < TaskRetries /\ loop
  BY <1>1, EaosKnown DEF EaosAgreed
<1>3. /\ task[t] \in EaosTask /\ task[t].retries \in Nat /\ TaskRetries \in Nat
      /\ task[t].retries + 1 \in 0..TaskRetries
  BY <1>2, EaosKnown DEF EaosTask, Cluster!TaskAssumption
<1>5. task' = [task EXCEPT ![t].retries = task[t].retries + 1]
  BY <1>1, EaosKnown DEF EaosTypes
<1>6. task' \in [Task -> EaosTask] /\ \A u \in Task : u # t => task'[u] = task[u]
  BY <1>3, <1>5, EaosCount
<1>7. task'[t].status = "PENDING" /\ task'[t].retries = task[t].retries + 1
  BY <1>2, <1>3, <1>5, EaosCount
<1>8. to \in {"letter", "no"} /\ (~(task'[t].retries < TaskRetries) => to = "letter")
  BY <1>3, <1>7
<1> HIDE DEF to
<1>9. /\ executing' \in [Task -> EaosPlace] /\ executing'[t] = to
      /\ \A u \in Task : u # t => executing'[u] = executing[u]
  BY <1>1, <1>8, EaosMove DEF EaosPlace
<1>10. EaosQueued(t)
  BY <1>1, <1>6, <1>9, EaosKnown DEF EaosQueued, EaosTypes
<1>11. EaosAgreed(t)'
  BY <1>1, <1>2, <1>7, <1>8, <1>9 DEF EaosAgreed
<1>12. ASSUME t \notin doubtful' PROVE EaosSingle(t)'
  <2>1. EaosSingle(t)
    BY <1>1, <1>12, EaosKnown
  <2>2. QED
    BY <1>1, <1>2, <2>1 DEF EaosSingle
<1>13. QED
  BY <1>1, <1>10, <1>11, <1>12, EaosQueue

(* A task becomes a dead letter.                                           *)
LEMMA EaosBury ==
  ASSUME EaosInv, Cluster!TaskAssumption, NEW t \in Task, Cluster!Bury(t)
  PROVE  EaosInv'
<1>1. /\ executing[t] = "letter" /\ task' = [task EXCEPT ![t].status = "DLQ"] /\ Cluster!Move(t, "no") /\ Cluster!Fine
      /\ deadLetter' = [deadLetter EXCEPT ![t] = @ + 1]
      /\ UNCHANGED <<lane, loop, unlettered, doubtful, effect, journal, lastRow, daemon, backlog, posted>>
  BY DEF Cluster!Bury, Cluster!LoopOnly, Cluster!journalVars, Cluster!drainVars
<1>2. EaosAgreed(t) /\ task[t].status = "PENDING" /\ deadLetter[t] = 0
  BY <1>1, EaosKnown DEF EaosAgreed
<1>4. task' \in [Task -> EaosTask] /\ \A u \in Task : u # t => task'[u] = task[u]
  BY <1>1, EaosStatus
<1>5. task'[t].status = "DLQ" /\ task'[t].retries = task[t].retries
  BY <1>1, EaosStatus
<1>6. /\ deadLetter' \in [Task -> 0..1] /\ deadLetter'[t] = 1
      /\ \A u \in Task : u # t => deadLetter'[u] = deadLetter[u]
  <2>1. deadLetter \in [Task -> 0..1]
    BY EaosKnown DEF EaosTypes
  <2>2. deadLetter' = [deadLetter EXCEPT ![t] = 1]
    BY <1>1, <1>2, <2>1
  <2>3. QED
    BY <2>1, <2>2
<1>7. /\ executing' \in [Task -> EaosPlace] /\ executing'[t] = "no"
      /\ \A u \in Task : u # t => executing'[u] = executing[u]
  BY <1>1, EaosMove DEF EaosPlace
<1>8. EaosQueued(t)
  BY <1>1, <1>4, <1>6, <1>7 DEF EaosQueued
<1>9. EaosAgreed(t)'
  BY <1>1, <1>2, <1>5, <1>6, <1>7 DEF EaosAgreed
<1>10. ASSUME t \notin doubtful' PROVE EaosSingle(t)'
  <2>1. EaosSingle(t)
    BY <1>1, <1>10, EaosKnown
  <2>2. QED
    BY <1>1, <1>2, <1>5, <2>1 DEF EaosSingle
<1>11. QED
  BY <1>1, <1>8, <1>9, <1>10, EaosQueue

(* A batch is fetched.                                                     *)
LEMMA EaosFetch ==
  ASSUME EaosInv, Cluster!Fetch
  PROVE  EaosInv'
<1>1. /\ loop /\ \A t \in Task : executing[t] = "no"
      /\ executing' = [t \in Task |-> IF ~Cluster!Fetchable(t) THEN "no"
                                      ELSE IF lane[t] = "UNKNOWN" THEN "letter" ELSE "begun"]
      /\ UNCHANGED <<lane, task, deadLetter, loop, unlettered, effect, journal, lastRow, daemon, backlog,
                     posted, faults, doubtful>>
  BY DEF Cluster!Fetch, Cluster!journalVars, Cluster!drainVars
<1>2. \A t \in Task : /\ executing'[t] \in {"no", "letter", "begun"}
                      /\ executing'[t] # "no" => Cluster!Fetchable(t)
  BY <1>1
<1>3. executing' \in [Task -> EaosPlace]
  BY <1>1 DEF EaosPlace
<1>4. EaosTypes' /\ EaosSwitches' /\ EaosRows'
  BY <1>1, <1>3 DEF EaosInv, EaosTypes, EaosSwitches, EaosRows
<1>5. ASSUME NEW t \in Task PROVE EaosAgreed(t)' /\ (t \notin doubtful' => EaosSingle(t)')
  <2>1. EaosAgreed(t) /\ (t \notin doubtful => EaosSingle(t))
    BY EaosKnown
  <2>2. EaosAgreed(t)'
    BY <1>1, <1>2, <2>1 DEF EaosAgreed, Cluster!Fetchable
  <2>3. t \notin doubtful' => EaosSingle(t)'
    BY <1>1, <1>2, <2>1 DEF EaosSingle
  <2>4. QED
    BY <2>2, <2>3
<1>6. QED
  BY <1>4, <1>5 DEF EaosInv

(* The process ends.                                                       *)
LEMMA EaosDie ==
  ASSUME EaosInv, Cluster!TaskAssumption, Cluster!Die
  PROVE  EaosInv'
<1>1. /\ loop' = FALSE /\ executing' = [t \in Task |-> "no"] /\ Cluster!Fault
      /\ unlettered' = unlettered \cup {t \in Task : executing[t] = "letter"}
      /\ UNCHANGED <<lane, task, deadLetter, journal, lastRow, daemon, backlog, posted>>
  BY DEF Cluster!Die, Cluster!journalVars, Cluster!drainVars
<1>2. PICK cut \in SUBSET {t \in Task : executing[t] = "begun" /\ lane[t] \in {"SOCIAL", "WORK"}} :
        /\ effect' = [t \in Task |-> IF t \in cut /\ effect[t] < 2 THEN effect[t] + 1 ELSE effect[t]]
        /\ doubtful' = doubtful \cup cut \cup {t \in Task : executing[t] = "done"}
  BY DEF Cluster!Die
<1>3. effect' \in [Task -> 0..2] /\ \A t \in Task : effect[t] # 0 => effect'[t] # 0
  <2>1. \A t \in Task : effect[t] \in 0..2
    BY EaosKnown
  <2>2. QED
    BY <1>2, <2>1
<1>4. \A t \in Task : t \notin doubtful' => /\ effect'[t] = effect[t] /\ t \notin doubtful
                                            /\ executing[t] # "done"
  BY <1>2
<1>5. EaosTypes'
  <2>1. executing' \in [Task -> EaosPlace] /\ doubtful' \subseteq Task /\ unlettered' \subseteq Task
    BY <1>1, <1>2 DEF EaosInv, EaosTypes, EaosPlace
  <2>2. QED
    BY <1>1, <1>3, <2>1 DEF EaosInv, EaosTypes
<1>6. EaosSwitches'
  BY <1>1, EaosFaults
<1>7. EaosRows'
  BY <1>1, <1>3, EaosUnwritten
<1>8. ASSUME NEW t \in Task PROVE EaosAgreed(t)' /\ (t \notin doubtful' => EaosSingle(t)')
  <2>1. EaosAgreed(t) /\ (t \notin doubtful => EaosSingle(t)) /\ executing'[t] = "no"
    BY <1>1, EaosKnown
  <2>2. EaosAgreed(t)'
    BY <1>1, <1>3, <2>1 DEF EaosAgreed
  <2>3. t \notin doubtful' => EaosSingle(t)'
    BY <1>1, <1>4, <2>1 DEF EaosSingle
  <2>4. QED
    BY <2>2, <2>3
<1>9. QED
  BY <1>5, <1>6, <1>7, <1>8 DEF EaosInv

(* It starts again.                                                        *)
LEMMA EaosRestart ==
  ASSUME EaosInv, Cluster!Restart
  PROVE  EaosInv'
<1>1. /\ loop' = TRUE
      /\ UNCHANGED <<lane, task, deadLetter, executing, unlettered, effect, journal, lastRow, daemon, backlog,
                     posted, faults, doubtful>>
  BY DEF Cluster!Restart, Cluster!journalVars, Cluster!drainVars
<1>2. EaosTypes' /\ EaosSwitches' /\ EaosRows'
  BY <1>1 DEF EaosInv, EaosTypes, EaosSwitches, EaosRows
<1>3. ASSUME NEW t \in Task PROVE EaosAgreed(t)' /\ (t \notin doubtful' => EaosSingle(t)')
  BY <1>1, EaosKnown DEF EaosAgreed, EaosSingle
<1>4. QED
  BY <1>2, <1>3 DEF EaosInv

(* The daemon lists the journal.                                           *)
LEMMA EaosList ==
  ASSUME EaosInv, Cluster!FetchBacklog
  PROVE  EaosInv'
<1>1. /\ backlog' = {r.id : r \in journal}
      /\ UNCHANGED <<lane, task, deadLetter, executing, loop, unlettered, effect, journal, lastRow, daemon,
                     posted, faults, doubtful>>
  BY DEF Cluster!FetchBacklog, Cluster!DrainOnly, Cluster!queueVars, Cluster!journalVars
<1>2. backlog' \subseteq Cluster!Rows
  BY <1>1 DEF EaosInv, EaosRows
<1>3. EaosTypes' /\ EaosSwitches' /\ EaosRows'
  BY <1>1, <1>2 DEF EaosInv, EaosTypes, EaosSwitches, EaosRows
<1>4. ASSUME NEW t \in Task PROVE EaosAgreed(t)' /\ (t \notin doubtful' => EaosSingle(t)')
  BY <1>1, EaosKnown DEF EaosAgreed, EaosSingle
<1>5. QED
  BY <1>3, <1>4 DEF EaosInv

(* It publishes a row.                                                     *)
LEMMA EaosPublishRow ==
  ASSUME EaosInv, Cluster!TaskAssumption, NEW id \in Cluster!Rows, NEW t \in Task, Cluster!PublishRow(id, t)
  PROVE  EaosInv'
<1> DEFINE entry == [id |-> id, task |-> t]
<1>1. /\ posted = {} /\ entry \in journal /\ backlog' = backlog \ {id}
      /\ UNCHANGED <<lane, task, deadLetter, executing, loop, unlettered, daemon>>
  BY DEF Cluster!PublishRow, Cluster!DrainOnly, Cluster!queueVars
<1>2. entry.id = id /\ entry.task = t
  OBVIOUS
<1> HIDE DEF entry
<1>3. Cluster!Fine \/ Cluster!Fault
  BY DEF Cluster!PublishRow
<1>4. EaosSwitches'
  BY <1>1, <1>3, EaosFaults, EaosKnown DEF EaosSwitches
<1>5. EaosRows /\ EaosAgreed(t) /\ (t \notin doubtful => EaosSingle(t))
  BY EaosKnown
<1>6. \A r \in journal : r.id = id => r = entry
  BY <1>1, <1>2, <1>5 DEF EaosRows
<1>7. CASE /\ Cluster!Done(t) /\ posted' = {id} /\ UNCHANGED <<Cluster!journalVars, doubtful>>
  <2>1. UNCHANGED <<journal, lastRow, doubtful>>
    BY <1>7 DEF Cluster!journalVars
  <2>2. /\ effect' \in [Task -> 0..2] /\ effect'[t] # 0 /\ (effect[t] = 0 => effect'[t] = 1)
        /\ \A u \in Task : u # t => effect'[u] = effect[u]
    BY <1>7, EaosDone
  <2>3. EaosRows'
    <3>1. posted' = {entry.id} /\ \A r \in journal : r.id \in posted' => r = entry
      BY <1>2, <1>6, <1>7
    <3>2. QED
      BY <1>1, <1>2, <1>5, <2>1, <2>2, <3>1 DEF EaosRows
  <2>4. EaosTypes'
    BY <1>1, <2>1, <2>2, EaosKnown DEF EaosTypes
  <2>5. \A r \in journal : r.task # t => r.id \notin posted'
    BY <1>2, <1>6, <1>7
  <2>6. EaosApart(t)
    BY <1>1, <2>1, <2>2, <2>5 DEF EaosApart, EaosSame
  <2>7. EaosAgreed(t)'
    BY <1>1, <1>5, <2>1, <2>2 DEF EaosAgreed
  <2>8. ASSUME t \notin doubtful' PROVE EaosSingle(t)'
    <3>1. EaosSingle(t) /\ effect[t] = 0
      BY <1>1, <1>2, <1>5, <2>1, <2>8 DEF EaosSingle
    <3>2. ~(task[t].status \in {"none", "PENDING"} /\ executing[t] # "done")
      BY <1>1, <1>2, <3>1 DEF EaosSingle
    <3>3. \A r \in journal : r.task = t => r.id \in posted'
      BY <1>1, <1>2, <1>7, <3>1 DEF EaosSingle
    <3>4. QED
      BY <1>1, <2>1, <2>2, <3>1, <3>2, <3>3 DEF EaosSingle
  <2>9. QED
    BY <1>4, <2>3, <2>4, <2>6, <2>7, <2>8, EaosOthers
<1>8. CASE \/ Cluster!Done(t) /\ doubtful' = doubtful \cup {t} /\ UNCHANGED <<Cluster!journalVars, posted>>
           \/ Cluster!Cached(t) /\ doubtful' = doubtful \cup {t} /\ UNCHANGED <<effect, posted>>
           \/ UNCHANGED <<effect, Cluster!journalVars, posted, doubtful>>
  <2>1. /\ posted' = posted
        /\ UNCHANGED <<journal, lastRow>> \/ Cluster!Cached(t)
        /\ UNCHANGED effect \/ Cluster!Done(t)
        /\ doubtful' = doubtful \cup {t} \/ UNCHANGED <<journal, effect, doubtful>>
    BY <1>8 DEF Cluster!journalVars
  <2>2. /\ effect' \in [Task -> 0..2] /\ \A u \in Task : u # t => effect'[u] = effect[u]
        /\ \A u \in Task : effect[u] # 0 => effect'[u] # 0
    BY <2>1, EaosDone, EaosKnown DEF EaosTypes
  <2>3. EaosRows' /\ \A r : r.task # t => (r \in journal' <=> r \in journal)
    BY <2>1, <2>2, EaosUnwritten, EaosCached
  <2>4. doubtful' \in {doubtful, doubtful \cup {t}}
    BY <2>1
  <2>5. EaosTypes'
    BY <1>1, <2>2, <2>4, EaosKnown DEF EaosTypes
  <2>6. EaosApart(t)
    BY <1>1, <2>1, <2>2, <2>3, <2>4 DEF EaosApart, EaosSame
  <2>7. entry \in journal'
    <3>1. Cluster!Cached(t) => journal \subseteq journal'
      BY DEF Cluster!Cached
    <3>2. QED
      BY <1>1, <2>1, <3>1
  <2>8. EaosAgreed(t)'
    BY <1>1, <1>2, <1>5, <2>7 DEF EaosAgreed
  <2>9. t \notin doubtful' => EaosSingle(t)'
    BY <1>1, <1>5, <2>1 DEF EaosSingle
  <2>10. QED
    BY <1>4, <2>3, <2>5, <2>6, <2>8, <2>9, EaosOthers
<1>9. QED
  BY <1>7, <1>8 DEF Cluster!PublishRow

(* It deletes the row it posted.                                           *)
LEMMA EaosClear ==
  ASSUME EaosInv, Cluster!Clear
  PROVE  EaosInv'
<1>1. /\ posted' = {} /\ journal' = {r \in journal : r.id \notin posted}
      /\ UNCHANGED <<lane, task, deadLetter, executing, loop, unlettered, effect, lastRow, daemon, backlog,
                     faults, doubtful>>
  BY DEF Cluster!Clear, Cluster!DrainOnly, Cluster!queueVars
<1>2. EaosTypes' /\ EaosSwitches'
  BY <1>1 DEF EaosInv, EaosTypes, EaosSwitches
<1>3. EaosRows'
  BY <1>1 DEF EaosInv, EaosRows
<1>4. ASSUME NEW t \in Task PROVE EaosAgreed(t)' /\ (t \notin doubtful' => EaosSingle(t)')
  <2>1. EaosAgreed(t) /\ (t \notin doubtful => EaosSingle(t)) /\ EaosRows
    BY EaosKnown
  <2>2. effect[t] # 0 \/ \A r \in journal : r.task = t => r \in journal'
    BY <1>1, <2>1 DEF EaosRows
  <2>3. EaosAgreed(t)'
    BY <1>1, <2>1, <2>2 DEF EaosAgreed
  <2>4. t \notin doubtful' => EaosSingle(t)'
    BY <1>1, <2>1 DEF EaosSingle
  <2>5. QED
    BY <2>3, <2>4
<1>5. QED
  BY <1>2, <1>3, <1>4 DEF EaosInv

(* It ends, with a row it may have posted.                                 *)
LEMMA EaosDrainDies ==
  ASSUME EaosInv, Cluster!TaskAssumption, Cluster!DrainDies
  PROVE  EaosInv'
<1>1. /\ backlog' = {} /\ posted' = {} /\ Cluster!Fault
      /\ doubtful' = doubtful \cup {r.task : r \in {q \in journal : q.id \in posted}}
      /\ UNCHANGED <<lane, task, deadLetter, executing, loop, unlettered, effect, journal, lastRow, daemon>>
  BY DEF Cluster!DrainDies, Cluster!DrainOnly, Cluster!queueVars, Cluster!journalVars
<1>2. \A r \in journal : r.task \in Task /\ (r.id \in posted => r.task \in doubtful')
  BY <1>1 DEF EaosInv, EaosRows
<1>3. doubtful \subseteq doubtful' /\ doubtful' \subseteq Task
  BY <1>1, <1>2 DEF EaosInv, EaosTypes
<1>4. EaosTypes'
  BY <1>1, <1>3 DEF EaosInv, EaosTypes
<1>5. EaosRows'
  BY <1>1 DEF EaosInv, EaosRows
<1>6. EaosSwitches'
  BY <1>1, EaosFaults, EaosKnown DEF EaosSwitches, EaosInv
<1>7. ASSUME NEW t \in Task PROVE EaosAgreed(t)' /\ (t \notin doubtful' => EaosSingle(t)')
  <2>1. EaosAgreed(t) /\ (t \notin doubtful => EaosSingle(t))
    BY EaosKnown
  <2>2. EaosAgreed(t)'
    BY <1>1, <2>1 DEF EaosAgreed
  <2>3. t \notin doubtful' => EaosSingle(t)'
    BY <1>1, <1>2, <1>3, <2>1 DEF EaosSingle
  <2>4. QED
    BY <2>2, <2>3
<1>8. QED
  BY <1>4, <1>5, <1>6, <1>7 DEF EaosInv

(* Every step keeps it.                                                    *)
LEMMA EaosStep ==
  ASSUME Cluster!TaskAssumption, EaosInv, Cluster!Next
  PROVE  EaosInv'
<1>1. ASSUME NEW t \in Task, Cluster!Enqueue(t) \/ Cluster!Execute(t) PROVE EaosInv'
  BY <1>1, EaosEnqueue, EaosWork, EaosComplete, EaosRetry, EaosBury DEF Cluster!Execute
<1>2. CASE Cluster!Drain
  BY <1>2, EaosList, EaosPublishRow, EaosClear DEF Cluster!Drain
<1>3. QED
  BY <1>1, <1>2, EaosFetch, EaosDie, EaosRestart, EaosDrainDies DEF Cluster!Next

(* The work of a task is done once, unless an outcome went unrecorded or   *)
(* its post was journalled twice; a completed task did its work or is      *)
(* journalled, and one out of retries is a dead letter, once.              *)
THEOREM EaosKeeps ==
  ASSUME Cluster!TaskAssumption
  PROVE  Cluster!Init /\ [][Cluster!Next]_Cluster!vars =>
           [](Cluster!TypeOK /\ Cluster!EffectsOnce /\ Cluster!NothingLost)
<1>1. Cluster!Init => EaosInv
  BY EaosInit
<1>2. EaosInv /\ [Cluster!Next]_Cluster!vars => EaosInv'
  BY EaosStep, EaosRests
<1>3. EaosInv => Cluster!TypeOK /\ Cluster!EffectsOnce /\ Cluster!NothingLost
  BY EaosSays
<1>4. QED
  BY <1>1, <1>2, <1>3, PTL

-----------------------------------------------------------------------------
(* The hypervisor's pipeline.                                              *)

PipeSteps == {"off", "dispatch", "update", "returned"}
PipeAgent == [step : PipeSteps, result : BOOLEAN]
PipeRow == [state : {"none", "QUEUED", "INGESTION_COMPLETE", "INGESTION_FAILED"}, output : Process \cup {0}]
PipeStage == {"off", "ingestion", "growth", "ended", "killed"}

PipeTypes ==
  /\ feedLedger \in [Feed -> PipeRow] /\ pipeline \in [Process -> PipeStage]
  /\ agent \in [Process -> [Feed -> PipeAgent]]
  /\ answered \in [Process -> SUBSET Feed] /\ grown \in [Process -> SUBSET Feed]
PipeBounded == faults \in 0..FewFaults /\ overtaken \in BOOLEAN

(* What a run has answers for, and what its agents work on.                *)
PipeRun(p) ==
  /\ pipeline[p] = "off" => answered[p] = {}
  /\ \A f \in Feed : agent[p][f].step \in {"dispatch", "update"} => Piping!Running(p)
  /\ \A f \in Feed : agent[p][f].result => f \in answered[p]
  /\ pipeline[p] = "growth" => \A f \in Feed : agent[p][f].step # "off" => f \in answered[p]
  /\ grown[p] \subseteq answered[p]

(* The runs begin in their order, and what is complete has an output.      *)
PipeOrder ==
  /\ \A p, q \in Process : p < q /\ pipeline[q] # "off" => pipeline[p] # "off"
  /\ \A f \in Feed : feedLedger[f].output # 0 <=> feedLedger[f].state = "INGESTION_COMPLETE"

(* While no two overlapped, the last run alone is at work, and the journal *)
(* is its own.                                                             *)
PipeAlone ==
  /\ \A p \in Process : Piping!Running(p) => p \in Piping!Latest
  /\ \A f \in Feed : feedLedger[f].output # 0 => feedLedger[f].output \in Piping!Latest /\ f \in answered[feedLedger[f].output]

(* And while nothing failed, its journal is right about every agent that   *)
(* has returned.                                                           *)
PipeWritten(p, f) ==
  feedLedger[f].state = IF f \in answered[p] THEN "INGESTION_COMPLETE" ELSE "INGESTION_FAILED"
PipeRight(p, f) ==
  /\ pipeline[p] = "ingestion" =>
       /\ agent[p][f].step # "off"
       /\ agent[p][f].step = "dispatch" => f \notin answered[p]
       /\ agent[p][f].step \in {"update", "returned"} => (agent[p][f].result <=> f \in answered[p])
       /\ agent[p][f].step = "returned" => PipeWritten(p, f)
  /\ pipeline[p] \in {"growth", "ended"} => PipeWritten(p, f)

PipeInv ==
  /\ PipeTypes /\ PipeBounded /\ PipeOrder
  /\ \A p \in Process : PipeRun(p)
  /\ ~overtaken => PipeAlone
  /\ ~overtaken /\ faults = 0 => \A p \in Piping!Latest, f \in Feed : PipeRight(p, f)

(* It holds at first.                                                      *)
LEMMA PipeInit == Piping!PipelineBounds /\ Piping!Init => PipeInv
<1> SUFFICES ASSUME Piping!PipelineBounds, Piping!Init PROVE PipeInv
  OBVIOUS
<1>1. /\ feedLedger = [f \in Feed |-> [state |-> "none", output |-> 0]]
      /\ pipeline = [p \in Process |-> "off"]
      /\ agent = [p \in Process |-> [f \in Feed |-> [step |-> "off", result |-> FALSE]]]
      /\ answered = [p \in Process |-> {}] /\ grown = [p \in Process |-> {}] /\ overtaken = FALSE
  BY DEF Piping!Init, Piping!NoRow, Piping!Idle
<1>2. PipeTypes
  BY <1>1 DEF PipeTypes, PipeRow, PipeStage, PipeAgent, PipeSteps
<1>3. PipeBounded
  <2>1. faults = 0 /\ FewFaults \in Nat
    BY DEF Piping!Init, Piping!PipelineBounds
  <2>2. faults \in 0..FewFaults
    BY <2>1
  <2>3. QED
    BY <1>1, <2>2 DEF PipeBounded
<1>4. PipeOrder
  BY <1>1 DEF PipeOrder
<1>5. \A p \in Process : PipeRun(p)
  BY <1>1 DEF PipeRun
<1>6. PipeAlone
  BY <1>1 DEF PipeAlone, Piping!Running
<1>7. \A p \in Piping!Latest, f \in Feed : PipeRight(p, f)
  BY <1>1 DEF Piping!Latest
<1>8. QED
  BY <1>2, <1>3, <1>4, <1>5, <1>6, <1>7 DEF PipeInv

(* It says what was asked.                                                 *)
LEMMA PipeSays == Piping!PipelineBounds /\ PipeInv => Piping!TypeOK /\ Piping!EffectsOnce /\ Piping!NothingLost
<1> SUFFICES ASSUME Piping!PipelineBounds, PipeInv PROVE Piping!TypeOK /\ Piping!EffectsOnce /\ Piping!NothingLost
  OBVIOUS
<1>1. Piping!TypeOK
  <2>1. \A f \in Feed : /\ feedLedger[f].state \in {"none", "QUEUED", "INGESTION_COMPLETE", "INGESTION_FAILED"}
                        /\ feedLedger[f].output \in Process \cup {0}
    BY DEF PipeInv, PipeTypes, PipeRow
  <2>2. \A p \in Process, f \in Feed : agent[p][f].step \in {"off", "dispatch", "update", "returned"}
    BY DEF PipeInv, PipeTypes, PipeAgent, PipeSteps
  <2>3. \A p \in Process, f \in Feed :
          agent[p][f].step \in {"dispatch", "update"} => pipeline[p] \in {"ingestion", "growth"}
    BY DEF PipeInv, PipeRun, Piping!Running
  <2>4. faults \in 0..FewFaults /\ overtaken \in BOOLEAN
    BY DEF PipeInv, PipeBounded
  <2>5. QED
    BY <2>1, <2>2, <2>3, <2>4 DEF PipeInv, PipeTypes, PipeOrder, PipeStage, Piping!TypeOK
<1>2. Piping!EffectsOnce
  BY DEF PipeInv, PipeRun, PipeAlone, Piping!EffectsOnce
<1>3. Piping!NothingLost
  <2> SUFFICES ASSUME ~overtaken, NEW p \in Piping!Latest, NEW f \in Feed
               PROVE  /\ feedLedger[f].output = p => f \in answered[p]
                      /\ pipeline[p] = "ended" /\ faults = 0 => PipeWritten(p, f)
    BY DEF Piping!NothingLost, PipeWritten
  <2>1. feedLedger[f].output = p => f \in answered[p]
    <3>1. p # 0
      BY DEF Piping!Latest, Piping!PipelineBounds
    <3>2. QED
      BY <3>1 DEF PipeInv, PipeAlone
  <2>2. pipeline[p] = "ended" /\ faults = 0 => PipeWritten(p, f)
    BY DEF PipeInv, PipeRight
  <2>3. QED
    BY <2>1, <2>2
<1>4. QED
  BY <1>1, <1>2, <1>3

(* A step of another service leaves it.                                    *)
LEMMA PipeRests == PipeInv /\ UNCHANGED <<Piping!piping, faults>> => PipeInv'
<1> SUFFICES ASSUME PipeInv, UNCHANGED <<Piping!piping, faults>> PROVE PipeInv'
  OBVIOUS
<1>1. UNCHANGED <<feedLedger, pipeline, agent, answered, grown, overtaken, faults>>
  BY DEF Piping!piping
<1>2. PipeTypes' /\ PipeBounded' /\ PipeOrder'
  BY <1>1 DEF PipeInv, PipeTypes, PipeBounded, PipeOrder
<1>3. \A p \in Process : PipeRun(p)'
  BY <1>1 DEF PipeInv, PipeRun, Piping!Running
<1>4. Piping!Latest' = Piping!Latest
  BY <1>1 DEF Piping!Latest
<1>5. PipeAlone => PipeAlone'
  BY <1>1, <1>4 DEF PipeAlone, Piping!Running
<1>6. \A p, f : PipeRight(p, f) => PipeRight(p, f)'
  BY <1>1 DEF PipeRight, PipeWritten
<1>7. QED
  BY <1>1, <1>2, <1>3, <1>4, <1>5, <1>6 DEF PipeInv

(* There is one last run.                                                  *)
LEMMA PipeOnly ==
  ASSUME Piping!PipelineBounds, NEW p \in Piping!Latest, NEW q \in Piping!Latest
  PROVE  p = q
<1>1. p \in Nat /\ q \in Nat /\ p \in Process /\ q \in Process
  BY DEF Piping!Latest, Piping!PipelineBounds
<1>2. ~(p > q) /\ ~(q > p)
  BY <1>1 DEF Piping!Latest
<1>3. QED
  BY <1>1, <1>2

(* The bounds stay bounds.                                                 *)
LEMMA PipeFaults ==
  ASSUME PipeInv, Piping!PipelineBounds, Piping!Fine \/ Piping!Fault
  PROVE  faults' \in 0..FewFaults /\ (faults' = 0 => faults = 0 /\ ~Piping!Fault)
<1>1. FewFaults \in Nat /\ faults \in 0..FewFaults
  BY DEF PipeInv, PipeBounded, Piping!PipelineBounds
<1>2. faults' = faults \/ (faults < FewFaults /\ faults' = faults + 1)
  BY DEF Piping!Fine, Piping!Fault
<1>3. QED
  BY <1>1, <1>2 DEF Piping!Fault

(* What a step about the feed f of the run p leaves.                       *)
PipeElse(p, f) ==
  /\ UNCHANGED <<pipeline, overtaken>>
  /\ \A q \in Process, g \in Feed : q # p \/ g # f => agent'[q][g] = agent[q][g]
  /\ \A q \in Process : q # p => answered'[q] = answered[q] /\ grown'[q] = grown[q]
  /\ answered'[p] \in {answered[p], answered[p] \cup {f}}
  /\ \A g \in Feed : g # f => feedLedger'[g] = feedLedger[g]

(* What remains to be shown of it.                                         *)
LEMMA PipeWork ==
  ASSUME PipeInv, Piping!PipelineBounds, NEW p \in Process, NEW f \in Feed, Piping!Running(p), PipeElse(p, f),
         Piping!Fine \/ Piping!Fault, PipeTypes', PipeRun(p)',
         feedLedger'[f].output # 0 <=> feedLedger'[f].state = "INGESTION_COMPLETE",
         ~overtaken /\ p \in Piping!Latest =>
           (feedLedger'[f].output # 0 => (feedLedger'[f].output \in Piping!Latest /\ f \in answered'[feedLedger'[f].output])),
         ~overtaken /\ p \in Piping!Latest /\ faults' = 0 => PipeRight(p, f)'
  PROVE  PipeInv'
<1>1. UNCHANGED <<pipeline, overtaken>> /\ Piping!Latest' = Piping!Latest
  BY DEF PipeElse, Piping!Latest
<1>2. PipeBounded' /\ (faults' = 0 => faults = 0)
  BY <1>1, PipeFaults DEF PipeBounded, PipeInv
<1>3. PipeOrder'
  BY <1>1 DEF PipeInv, PipeOrder, PipeElse
<1>4. ASSUME NEW q \in Process, q # p PROVE PipeRun(q)'
  <2>1. /\ PipeRun(q) /\ \A g \in Feed : agent'[q][g] = agent[q][g]
        /\ answered'[q] = answered[q] /\ grown'[q] = grown[q] /\ pipeline'[q] = pipeline[q]
    BY <1>1, <1>4 DEF PipeInv, PipeElse
  <2>2. QED
    BY <2>1 DEF PipeRun, Piping!Running
<1>5. ASSUME ~overtaken' PROVE PipeAlone'
  <2>1. PipeAlone /\ ~overtaken /\ p \in Piping!Latest
    BY <1>1, <1>5 DEF PipeInv, PipeAlone
  <2>2. \A q \in Process : answered[q] \subseteq answered'[q]
    BY DEF PipeElse
  <2>3. ASSUME NEW g \in Feed, feedLedger'[g].output # 0
        PROVE  feedLedger'[g].output \in Piping!Latest' /\ g \in answered'[feedLedger'[g].output]
    <3>1. CASE g = f
      BY <1>1, <2>1, <2>3, <3>1
    <3>2. CASE g # f
      <4>1. feedLedger'[g] = feedLedger[g]
        BY <3>2 DEF PipeElse
      <4>2. feedLedger[g].output \in Piping!Latest /\ g \in answered[feedLedger[g].output] /\ feedLedger[g].output \in Process
        BY <2>1, <2>3, <4>1 DEF PipeAlone, Piping!Latest
      <4>3. QED
        BY <1>1, <2>2, <4>1, <4>2
    <3>3. QED
      BY <3>1, <3>2
  <2>4. QED
    BY <1>1, <2>1, <2>3 DEF PipeAlone, Piping!Running
<1>6. ASSUME ~overtaken', faults' = 0, NEW q \in Piping!Latest', NEW g \in Feed PROVE PipeRight(q, g)'
  <2>1. PipeAlone /\ ~overtaken /\ p \in Piping!Latest /\ q \in Piping!Latest /\ faults = 0
    BY <1>1, <1>2, <1>6 DEF PipeInv, PipeAlone
  <2>2. q = p
    BY <2>1, PipeOnly
  <2>3. CASE g = f
    BY <1>6, <2>1, <2>2, <2>3
  <2>4. CASE g # f
    <3>1. PipeRight(p, g)
      BY <2>1 DEF PipeInv
    <3>2. /\ agent'[p][g] = agent[p][g] /\ feedLedger'[g] = feedLedger[g] /\ pipeline'[p] = pipeline[p]
          /\ g \in answered'[p] <=> g \in answered[p]
      BY <1>1, <2>4 DEF PipeElse
    <3>3. QED
      BY <2>2, <3>1, <3>2 DEF PipeRight, PipeWritten
  <2>5. QED
    BY <2>3, <2>4
<1>7. QED
  BY <1>2, <1>3, <1>4, <1>5, <1>6 DEF PipeInv

(* Where an agent goes.                                                    *)
LEMMA PipeGo ==
  ASSUME PipeInv, NEW p \in Process, NEW f \in Feed, NEW step \in PipeSteps, NEW found \in BOOLEAN,
         \/ agent' = [agent EXCEPT ![p][f] = [step |-> step, result |-> found]]
         \/ agent' = [agent EXCEPT ![p][f].step = step] /\ found = agent[p][f].result
  PROVE  /\ agent' \in [Process -> [Feed -> PipeAgent]]
         /\ agent'[p][f].step = step /\ agent'[p][f].result = found
         /\ \A q \in Process, g \in Feed : q # p \/ g # f => agent'[q][g] = agent[q][g]
<1>1. agent \in [Process -> [Feed -> PipeAgent]] /\ agent[p][f] \in PipeAgent
  BY DEF PipeInv, PipeTypes
<1>2. CASE agent' = [agent EXCEPT ![p][f] = [step |-> step, result |-> found]]
  <2>1. [step |-> step, result |-> found] \in PipeAgent
    BY DEF PipeAgent
  <2>2. QED
    BY <1>1, <1>2, <2>1
<1>3. CASE agent' = [agent EXCEPT ![p][f].step = step] /\ found = agent[p][f].result
  <2>1. agent'[p][f] = [agent[p][f] EXCEPT !.step = step]
    BY <1>1, <1>3
  <2>2. agent'[p][f] \in PipeAgent /\ agent'[p][f].step = step /\ agent'[p][f].result = found
    BY <1>1, <1>3, <2>1 DEF PipeAgent
  <2>3. \A q \in Process, g \in Feed : q # p \/ g # f => agent'[q][g] = agent[q][g]
    BY <1>1, <1>3
  <2>4. agent' = [agent EXCEPT ![p] = [agent[p] EXCEPT ![f] = agent'[p][f]]]
    BY <1>1, <1>3
  <2>5. agent' \in [Process -> [Feed -> PipeAgent]]
    BY <1>1, <2>2, <2>4
  <2>6. QED
    BY <2>2, <2>3, <2>5
<1>4. QED
  BY <1>2, <1>3

(* What is known before a step.                                            *)
LEMMA PipeKnown ==
  ASSUME PipeInv, NEW p \in Process, NEW f \in Feed
  PROVE  /\ PipeTypes /\ PipeRun(p) /\ agent[p][f].step \in PipeSteps /\ agent[p][f].result \in BOOLEAN
         /\ feedLedger[f] \in PipeRow /\ (feedLedger[f].output # 0 <=> feedLedger[f].state = "INGESTION_COMPLETE")
         /\ ~overtaken /\ p \in Piping!Latest /\ feedLedger[f].output # 0 =>
              feedLedger[f].output \in Piping!Latest /\ f \in answered[feedLedger[f].output]
         /\ ~overtaken /\ faults = 0 /\ p \in Piping!Latest => PipeRight(p, f)
BY DEF PipeInv, PipeTypes, PipeOrder, PipeAlone, PipeAgent

(* An agent has an answer, or none.                                        *)
LEMMA PipeDispatch ==
  ASSUME PipeInv, Piping!PipelineBounds, NEW p \in Process, NEW f \in Feed, Piping!Dispatch(p, f)
  PROVE  PipeInv'
<1>1. /\ agent[p][f].step = "dispatch" /\ UNCHANGED <<pipeline, overtaken, feedLedger, faults>>
      /\ Piping!Answer(p, f) \/ (agent' = [agent EXCEPT ![p][f].step = "update"] /\ UNCHANGED <<answered, grown>>)
  BY DEF Piping!Dispatch, Piping!At, Piping!AgentOnly, Piping!Fine
<1>2. Piping!Running(p) /\ PipeRun(p)
  BY <1>1, PipeKnown DEF PipeRun
<1>3. PICK found \in BOOLEAN :
        /\ \/ agent' = [agent EXCEPT ![p][f] = [step |-> "update", result |-> found]]
           \/ agent' = [agent EXCEPT ![p][f].step = "update"] /\ found = agent[p][f].result
        /\ Piping!Answer(p, f) => found
        /\ ~Piping!Answer(p, f) => found = agent[p][f].result
  <2>1. CASE Piping!Answer(p, f)
    BY <2>1 DEF Piping!Answer
  <2>2. CASE ~Piping!Answer(p, f)
    BY <1>1, <2>2, PipeKnown
  <2>3. QED
    BY <2>1, <2>2
<1>4. /\ agent' \in [Process -> [Feed -> PipeAgent]]
      /\ agent'[p][f].step = "update" /\ agent'[p][f].result = found
      /\ \A q \in Process, g \in Feed : q # p \/ g # f => agent'[q][g] = agent[q][g]
  <2>1. "update" \in PipeSteps
    BY DEF PipeSteps
  <2>2. QED
    BY <1>3, <2>1, PipeGo
<1>5. /\ answered' \in [Process -> SUBSET Feed] /\ grown' \in [Process -> SUBSET Feed]
      /\ \A q \in Process : q # p => answered'[q] = answered[q] /\ grown'[q] = grown[q]
      /\ Piping!Answer(p, f) /\ pipeline[p] = "ingestion" =>
           answered'[p] = answered[p] \cup {f} /\ grown'[p] = grown[p]
      /\ Piping!Answer(p, f) /\ pipeline[p] # "ingestion" =>
           answered'[p] = answered[p] /\ grown'[p] = grown[p] \cup {f}
      /\ ~Piping!Answer(p, f) => UNCHANGED <<answered, grown>>
  BY SMTT(30), <1>1, PipeKnown DEF Piping!Answer, PipeTypes
<1>6. pipeline[p] \in {"ingestion", "growth"} /\ (pipeline[p] # "ingestion" => f \in answered[p])
  BY <1>1, <1>2 DEF PipeRun, Piping!Running
<1>7. answered'[p] \in {answered[p], answered[p] \cup {f}} /\ (found => f \in answered'[p])
      /\ answered[p] \subseteq answered'[p] /\ grown'[p] \subseteq answered'[p]
  BY <1>2, <1>3, <1>5, <1>6 DEF PipeRun
<1>8. PipeElse(p, f)
  BY <1>1, <1>4, <1>5, <1>7 DEF PipeElse
<1>9. PipeTypes'
  BY <1>1, <1>4, <1>5, PipeKnown DEF PipeTypes
<1>10. PipeRun(p)'
  <2>1. \A g \in Feed : g # f => agent'[p][g] = agent[p][g]
    BY <1>4
  <2>2. Piping!Running(p)' /\ pipeline'[p] # "off" /\ pipeline'[p] = pipeline[p]
    BY <1>1, <1>2 DEF Piping!Running
  <2>3. pipeline[p] = "growth" => f \in answered'[p]
    BY <1>6, <1>7
  <2>4. QED
    BY <1>2, <1>4, <1>7, <2>1, <2>2, <2>3 DEF PipeRun
<1>11. ASSUME ~overtaken, p \in Piping!Latest, faults' = 0 PROVE PipeRight(p, f)'
  <2>1. PipeRight(p, f)
    BY <1>1, <1>11, PipeKnown
  <2>2. CASE pipeline[p] = "ingestion"
    <3>1. f \notin answered[p] /\ ~agent[p][f].result
      BY <1>1, <1>2, <2>1, <2>2 DEF PipeRight, PipeRun
    <3>2. found <=> f \in answered'[p]
      BY <1>3, <1>5, <1>7, <2>2, <3>1
    <3>3. QED
      BY <1>1, <1>4, <2>2, <3>2 DEF PipeRight
  <2>3. CASE pipeline[p] = "growth"
    <3>1. answered'[p] = answered[p]
      BY <1>6, <1>7, <2>3
    <3>2. QED
      BY <1>1, <2>1, <2>3, <3>1 DEF PipeRight, PipeWritten
  <2>4. QED
    BY <1>6, <2>2, <2>3
<1>12. feedLedger'[f].output # 0 /\ ~overtaken /\ p \in Piping!Latest =>
         feedLedger'[f].output \in Piping!Latest /\ f \in answered'[feedLedger'[f].output]
  <2>1. feedLedger'[f].output # 0 /\ ~overtaken /\ p \in Piping!Latest =>
          /\ feedLedger[f].output \in Piping!Latest /\ f \in answered[feedLedger[f].output]
          /\ feedLedger[f].output \in Process
    BY <1>1, PipeKnown DEF Piping!Latest
  <2>2. \A q \in Process : answered[q] \subseteq answered'[q]
    BY <1>5, <1>7
  <2>3. QED
    BY <1>1, <2>1, <2>2
<1>13. Piping!Fine /\ (feedLedger'[f].output # 0 <=> feedLedger'[f].state = "INGESTION_COMPLETE")
  BY <1>1, PipeKnown DEF Piping!Fine
<1>14. QED
  BY <1>2, <1>8, <1>9, <1>10, <1>11, <1>12, <1>13, PipeWork

(* Its state is written, or that raises.                                   *)
LEMMA PipeUpdate ==
  ASSUME PipeInv, Piping!PipelineBounds, NEW p \in Process, NEW f \in Feed, Piping!Update(p, f)
  PROVE  PipeInv'
<1> DEFINE entry == IF agent[p][f].result THEN [state |-> "INGESTION_COMPLETE", output |-> p]
                  ELSE [state |-> "INGESTION_FAILED", output |-> 0]
<1>1. /\ agent[p][f].step = "update" /\ UNCHANGED <<pipeline, overtaken, faults, answered, grown>>
      /\ feedLedger' = IF pipeline[p] = "growth" THEN feedLedger ELSE [feedLedger EXCEPT ![f] = entry]
      /\ agent' = [agent EXCEPT ![p][f].step = "returned"]
  BY DEF Piping!Update, Piping!At, Piping!AgentOnly, Piping!Fine
<1>2. Piping!Running(p) /\ PipeRun(p) /\ pipeline[p] \in {"ingestion", "growth"}
  BY <1>1, PipeKnown DEF PipeRun, Piping!Running
<1>3. /\ agent' \in [Process -> [Feed -> PipeAgent]]
      /\ agent'[p][f].step = "returned" /\ agent'[p][f].result = agent[p][f].result
      /\ \A q \in Process, g \in Feed : q # p \/ g # f => agent'[q][g] = agent[q][g]
  <2>1. PICK found \in BOOLEAN : found = agent[p][f].result
    BY PipeKnown
  <2>2. "returned" \in PipeSteps
    BY DEF PipeSteps
  <2>3. \/ agent' = [agent EXCEPT ![p][f] = [step |-> "returned", result |-> found]]
        \/ agent' = [agent EXCEPT ![p][f].step = "returned"] /\ found = agent[p][f].result
    BY <1>1, <2>1
  <2>4. /\ agent' \in [Process -> [Feed -> PipeAgent]]
        /\ agent'[p][f].step = "returned" /\ agent'[p][f].result = found
        /\ \A q \in Process, g \in Feed : q # p \/ g # f => agent'[q][g] = agent[q][g]
    BY <2>2, <2>3, PipeGo
  <2>5. QED
    BY <2>1, <2>4
<1>4. /\ entry \in PipeRow /\ (entry.output # 0 <=> entry.state = "INGESTION_COMPLETE")
      /\ entry.output # 0 <=> agent[p][f].result
      /\ entry.output # 0 => entry.output = p
      /\ entry.state = IF agent[p][f].result THEN "INGESTION_COMPLETE" ELSE "INGESTION_FAILED"
  <2>1. p # 0
    BY DEF Piping!PipelineBounds
  <2>2. CASE agent[p][f].result
    <3>1. entry = [state |-> "INGESTION_COMPLETE", output |-> p]
      BY <2>2
    <3>2. QED
      BY <2>1, <2>2, <3>1 DEF PipeRow
  <2>3. CASE ~agent[p][f].result
    <3>1. entry = [state |-> "INGESTION_FAILED", output |-> 0]
      BY <2>3
    <3>2. QED
      BY <2>1, <2>3, <3>1 DEF PipeRow
  <2>4. QED
    BY <2>2, <2>3
<1> HIDE DEF entry
<1>5. /\ feedLedger' \in [Feed -> PipeRow] /\ \A g \in Feed : g # f => feedLedger'[g] = feedLedger[g]
      /\ pipeline[p] = "growth" => feedLedger'[f] = feedLedger[f]
      /\ pipeline[p] # "growth" => feedLedger'[f] = entry
  BY <1>1, <1>4, PipeKnown DEF PipeTypes
<1>6. PipeElse(p, f)
  BY <1>1, <1>3, <1>5 DEF PipeElse
<1>7. PipeTypes'
  BY <1>1, <1>3, <1>5, PipeKnown DEF PipeTypes
<1>8. PipeRun(p)'
  <2>1. \A g \in Feed : /\ g # f => agent'[p][g] = agent[p][g]
                        /\ agent'[p][g].result = agent[p][g].result
                        /\ agent'[p][g].step # "off" => agent[p][g].step # "off"
    BY <1>1, <1>3
  <2>2. Piping!Running(p)' /\ pipeline'[p] = pipeline[p]
    BY <1>1, <1>2 DEF Piping!Running
  <2>3. QED
    BY <1>1, <1>2, <2>1, <2>2 DEF PipeRun
<1>9. feedLedger'[f].output # 0 <=> feedLedger'[f].state = "INGESTION_COMPLETE"
  BY <1>4, <1>5, PipeKnown
<1>10. ASSUME ~overtaken, p \in Piping!Latest, feedLedger'[f].output # 0
       PROVE  feedLedger'[f].output \in Piping!Latest /\ f \in answered'[feedLedger'[f].output]
  <2>1. CASE pipeline[p] = "growth"
    BY <1>1, <1>5, <1>10, <2>1, PipeKnown
  <2>2. CASE pipeline[p] # "growth"
    <3>1. feedLedger'[f].output = p /\ agent[p][f].result
      BY <1>4, <1>5, <1>10, <2>2
    <3>2. QED
      BY <1>1, <1>2, <1>10, <3>1 DEF PipeRun
  <2>3. QED
    BY <2>1, <2>2
<1>11. ASSUME ~overtaken, p \in Piping!Latest, faults' = 0 PROVE PipeRight(p, f)'
  <2>1. PipeRight(p, f)
    BY <1>1, <1>11, PipeKnown
  <2>2. CASE pipeline[p] = "ingestion"
    <3>1. agent[p][f].result <=> f \in answered[p]
      BY <1>1, <2>1, <2>2 DEF PipeRight
    <3>2. PipeWritten(p, f)'
      BY <1>1, <1>4, <1>5, <2>2, <3>1 DEF PipeWritten
    <3>3. QED
      BY <1>1, <1>3, <2>2, <3>1, <3>2 DEF PipeRight
  <2>3. CASE pipeline[p] = "growth"
    BY <1>1, <1>5, <2>1, <2>3 DEF PipeRight, PipeWritten
  <2>4. QED
    BY <1>2, <2>2, <2>3
<1>12. Piping!Fine
  BY <1>1 DEF Piping!Fine
<1>13. QED
  BY <1>2, <1>6, <1>7, <1>8, <1>9, <1>10, <1>11, <1>12, PipeWork

LEMMA PipeRaises ==
  ASSUME PipeInv, Piping!PipelineBounds, NEW p \in Process, NEW f \in Feed, Piping!UpdateRaises(p, f)
  PROVE  PipeInv'
<1>1. /\ agent[p][f].step = "update" /\ UNCHANGED <<pipeline, overtaken, feedLedger, answered, grown>> /\ Piping!Fault
      /\ agent' = [agent EXCEPT ![p][f] = [step |-> "returned", result |-> FALSE]]
  BY DEF Piping!UpdateRaises, Piping!At, Piping!AgentOnly
<1>2. Piping!Running(p) /\ PipeRun(p)
  BY <1>1, PipeKnown DEF PipeRun, Piping!Running
<1>3. /\ agent' \in [Process -> [Feed -> PipeAgent]]
      /\ agent'[p][f].step = "returned" /\ agent'[p][f].result = FALSE
      /\ \A q \in Process, g \in Feed : q # p \/ g # f => agent'[q][g] = agent[q][g]
  <2>1. PICK found \in BOOLEAN : ~found /\ found = FALSE
    OBVIOUS
  <2>2. "returned" \in PipeSteps
    BY DEF PipeSteps
  <2>3. \/ agent' = [agent EXCEPT ![p][f] = [step |-> "returned", result |-> found]]
        \/ agent' = [agent EXCEPT ![p][f].step = "returned"] /\ found = agent[p][f].result
    BY <1>1, <2>1
  <2>4. /\ agent' \in [Process -> [Feed -> PipeAgent]]
        /\ agent'[p][f].step = "returned" /\ agent'[p][f].result = found
        /\ \A q \in Process, g \in Feed : q # p \/ g # f => agent'[q][g] = agent[q][g]
    BY <2>2, <2>3, PipeGo
  <2>5. QED
    BY <2>1, <2>4
<1>4. PipeElse(p, f)
  BY <1>1, <1>3 DEF PipeElse
<1>5. PipeTypes'
  BY <1>1, <1>3, PipeKnown DEF PipeTypes
<1>6. PipeRun(p)'
  <2>1. \A g \in Feed : /\ g # f => agent'[p][g] = agent[p][g]
                        /\ agent'[p][g].result => agent[p][g].result
                        /\ agent'[p][g].step # "off" => agent[p][g].step # "off"
    BY <1>1, <1>3
  <2>2. Piping!Running(p)' /\ pipeline'[p] = pipeline[p]
    BY <1>1, <1>2 DEF Piping!Running
  <2>3. QED
    BY <1>1, <1>2, <2>1, <2>2 DEF PipeRun
<1>7. faults' # 0
  BY <1>1, PipeFaults
<1>8. /\ feedLedger'[f].output # 0 <=> feedLedger'[f].state = "INGESTION_COMPLETE"
      /\ ~overtaken /\ p \in Piping!Latest =>
           (feedLedger'[f].output # 0 => feedLedger'[f].output \in Piping!Latest /\ f \in answered'[feedLedger'[f].output])
  BY <1>1, PipeKnown
<1>9. QED
  BY <1>1, <1>2, <1>4, <1>5, <1>6, <1>7, <1>8, PipeWork

(* A run begins.                                                           *)
LEMMA PipeStart ==
  ASSUME PipeInv, Piping!PipelineBounds, NEW p \in Process, Piping!Start(p)
  PROVE  PipeInv'
<1>1. /\ pipeline[p] = "off" /\ \A q \in Process : q < p => pipeline[q] # "off"
      /\ feedLedger' = [f \in Feed |-> [state |-> "QUEUED", output |-> 0]]
      /\ pipeline' = [pipeline EXCEPT ![p] = "ingestion"]
      /\ agent' = [agent EXCEPT ![p] = [f \in Feed |-> [step |-> "dispatch", result |-> FALSE]]]
      /\ overtaken' = (overtaken \/ \E q \in Process : Piping!Running(q))
      /\ UNCHANGED <<faults, answered, grown>>
  BY DEF Piping!Start, Piping!Fine
<1>2. /\ pipeline' \in [Process -> PipeStage] /\ pipeline'[p] = "ingestion"
      /\ \A q \in Process : q # p => pipeline'[q] = pipeline[q]
  BY <1>1 DEF PipeInv, PipeTypes, PipeStage
<1>3. /\ agent' \in [Process -> [Feed -> PipeAgent]]
      /\ \A q \in Process : q # p => agent'[q] = agent[q]
      /\ \A f \in Feed : agent'[p][f].step = "dispatch" /\ agent'[p][f].result = FALSE
  BY <1>1 DEF PipeInv, PipeTypes, PipeAgent, PipeSteps
<1>4. /\ feedLedger' \in [Feed -> PipeRow]
      /\ \A f \in Feed : feedLedger'[f].output = 0 /\ feedLedger'[f].state = "QUEUED"
  BY <1>1 DEF PipeRow
<1>5. PipeTypes'
  BY <1>1, <1>2, <1>3, <1>4 DEF PipeInv, PipeTypes
<1>6. PipeBounded'
  BY <1>1 DEF PipeInv, PipeBounded
<1>7. \A q \in Process : q > p => pipeline[q] = "off"
  <2>1. \A q \in Process : q > p <=> p < q
    BY DEF Piping!PipelineBounds
  <2>2. QED
    BY <1>1, <2>1 DEF PipeInv, PipeOrder
<1>8. p \in Piping!Latest' /\ \A q \in Piping!Latest' : q = p
  <2>1. \A q \in Process : q > p => q # p
    BY DEF Piping!PipelineBounds
  <2>2. p \in Piping!Latest'
    BY <1>2, <1>7, <2>1 DEF Piping!Latest
  <2>3. ASSUME NEW q \in Piping!Latest' PROVE q = p
    <3>1. q \in Nat /\ p \in Nat /\ ~(p > q) /\ ~(q > p)
      BY <1>2, <1>7, <2>1 DEF Piping!Latest, Piping!PipelineBounds
    <3>2. QED
      BY <3>1
  <2>4. QED
    BY <2>2, <2>3
<1>9. PipeOrder'
  <2>1. ASSUME NEW q \in Process, NEW u \in Process, q < u, pipeline'[u] # "off"
        PROVE  pipeline'[q] # "off"
    <3>1. CASE u = p \/ q = p
      BY <1>1, <1>2, <2>1, <3>1
    <3>2. CASE u # p /\ q # p
      BY <1>2, <2>1, <3>2 DEF PipeInv, PipeOrder
    <3>3. QED
      BY <3>1, <3>2
  <2>2. QED
    BY <1>4, <2>1 DEF PipeOrder
<1>10. ASSUME NEW q \in Process PROVE PipeRun(q)'
  <2>1. CASE q = p
    <3>1. answered'[p] = {} /\ grown'[p] \subseteq answered'[p]
      BY <1>1 DEF PipeInv, PipeRun
    <3>2. QED
      BY <1>2, <1>3, <2>1, <3>1 DEF PipeRun, Piping!Running
  <2>2. CASE q # p
    <3>1. PipeRun(q) /\ pipeline'[q] = pipeline[q] /\ agent'[q] = agent[q]
          /\ answered'[q] = answered[q] /\ grown'[q] = grown[q]
      BY <1>1, <1>2, <1>3, <2>2 DEF PipeInv
    <3>2. QED
      BY <3>1 DEF PipeRun, Piping!Running
  <2>3. QED
    BY <2>1, <2>2
<1>11. ASSUME ~overtaken' PROVE PipeAlone'
  <2>1. \A q \in Process : Piping!Running(q)' => q = p
    BY <1>1, <1>2, <1>11 DEF Piping!Running
  <2>2. QED
    BY <1>4, <1>8, <2>1 DEF PipeAlone
<1>12. ASSUME NEW q \in Piping!Latest', NEW f \in Feed PROVE PipeRight(q, f)'
  <2>1. q = p /\ answered'[p] = {}
    BY <1>1, <1>8 DEF PipeInv, PipeRun
  <2>2. QED
    BY <1>2, <1>3, <2>1 DEF PipeRight
<1>13. QED
  BY <1>5, <1>6, <1>9, <1>10, <1>11, <1>12 DEF PipeInv

(* A run that is under way goes on to its next stage, or ends.             *)
LEMMA PipeTurn ==
  ASSUME PipeInv, Piping!PipelineBounds, NEW p \in Process, Piping!Running(p), NEW stage \in {"growth", "ended", "killed"},
         pipeline' = [pipeline EXCEPT ![p] = stage],
         agent' \in [Process -> [Feed -> PipeAgent]], \A q \in Process : q # p => agent'[q] = agent[q],
         UNCHANGED <<feedLedger, answered, grown, overtaken>>, Piping!Fine \/ Piping!Fault, PipeRun(p)',
         ~overtaken /\ p \in Piping!Latest /\ faults' = 0 => \A f \in Feed : PipeRight(p, f)'
  PROVE  PipeInv'
<1>1. /\ pipeline' \in [Process -> PipeStage] /\ pipeline'[p] = stage
      /\ \A q \in Process : q # p => pipeline'[q] = pipeline[q]
  BY DEF PipeInv, PipeTypes, PipeStage
<1>2. \A q \in Process : /\ pipeline'[q] = "off" <=> pipeline[q] = "off"
                         /\ Piping!Running(q)' => Piping!Running(q)
  BY <1>1 DEF Piping!Running
<1>3. Piping!Latest' = Piping!Latest
  BY <1>2 DEF Piping!Latest
<1>4. PipeTypes'
  BY <1>1 DEF PipeInv, PipeTypes
<1>5. PipeBounded' /\ (faults' = 0 => faults = 0)
  BY PipeFaults DEF PipeInv, PipeBounded
<1>6. PipeOrder'
  BY <1>2 DEF PipeInv, PipeOrder
<1>7. ASSUME NEW q \in Process, q # p PROVE PipeRun(q)'
  <2>1. PipeRun(q) /\ pipeline'[q] = pipeline[q] /\ agent'[q] = agent[q]
        /\ answered'[q] = answered[q] /\ grown'[q] = grown[q]
    BY <1>1, <1>7 DEF PipeInv
  <2>2. QED
    BY <2>1 DEF PipeRun, Piping!Running
<1>8. ASSUME ~overtaken' PROVE PipeAlone'
  <2>1. PipeAlone
    BY <1>8 DEF PipeInv
  <2>2. QED
    BY <1>2, <1>3, <2>1 DEF PipeAlone
<1>9. ASSUME ~overtaken', faults' = 0, NEW q \in Piping!Latest', NEW f \in Feed PROVE PipeRight(q, f)'
  <2>1. p \in Piping!Latest /\ q \in Piping!Latest /\ ~overtaken
    BY <1>3, <1>9 DEF PipeInv, PipeAlone
  <2>2. q = p
    BY <2>1, PipeOnly
  <2>3. QED
    BY <1>9, <2>1, <2>2
<1>10. QED
  BY <1>4, <1>5, <1>6, <1>7, <1>8, <1>9 DEF PipeInv

(* What was ingested is handed to growth.                                  *)
LEMMA PipeGrow ==
  ASSUME PipeInv, Piping!PipelineBounds, NEW p \in Process, Piping!Grow(p)
  PROVE  PipeInv'
<1> DEFINE stage == IF Piping!Useful(p) = {} THEN "ended" ELSE "growth"
<1>1. /\ pipeline[p] = "ingestion" /\ Piping!Returned(p) /\ Piping!Fine
      /\ pipeline' = [pipeline EXCEPT ![p] = stage]
      /\ agent' = [agent EXCEPT ![p] =
           [f \in Feed |-> IF f \in Piping!Useful(p) THEN [step |-> "dispatch", result |-> FALSE]
                           ELSE [step |-> "off", result |-> FALSE]]]
      /\ UNCHANGED <<feedLedger, answered, grown, overtaken>>
  BY DEF Piping!Grow, Piping!Idle
<1>2. /\ stage \in {"growth", "ended"} /\ \A f \in Feed : f \in Piping!Useful(p) => stage = "growth"
  OBVIOUS
<1> HIDE DEF stage
<1>3. /\ agent' \in [Process -> [Feed -> PipeAgent]]
      /\ \A q \in Process : q # p => agent'[q] = agent[q]
      /\ \A f \in Feed : /\ agent'[p][f].step \in {"dispatch", "off"} /\ agent'[p][f].result = FALSE
                         /\ agent'[p][f].step # "off" => f \in Piping!Useful(p)
  BY <1>1 DEF PipeInv, PipeTypes, PipeAgent, PipeSteps
<1>4. pipeline'[p] = stage
  BY <1>1 DEF PipeInv, PipeTypes
<1>5. Piping!Running(p) /\ \A f \in Feed : f \in Piping!Useful(p) => f \in answered[p]
  BY <1>1 DEF Piping!Running, Piping!Useful, PipeInv, PipeRun
<1>6. PipeRun(p)'
  <2>1. grown'[p] \subseteq answered'[p] /\ answered'[p] = answered[p]
    BY <1>1 DEF PipeInv, PipeRun
  <2>2. QED
    BY <1>2, <1>3, <1>4, <1>5, <2>1 DEF PipeRun, Piping!Running
<1>7. ASSUME ~overtaken, p \in Piping!Latest, faults' = 0, NEW f \in Feed PROVE PipeRight(p, f)'
  <2>1. PipeRight(p, f) /\ faults = 0
    BY <1>1, <1>7, PipeKnown DEF Piping!Fine
  <2>2. PipeWritten(p, f)
    BY <1>1, <2>1 DEF PipeRight, Piping!Returned
  <2>3. QED
    BY <1>1, <1>2, <1>4, <2>2 DEF PipeRight, PipeWritten
<1>8. QED
  BY <1>1, <1>2, <1>3, <1>5, <1>6, <1>7, PipeTurn

(* The agents of growth have returned.                                     *)
LEMMA PipeEnd ==
  ASSUME PipeInv, Piping!PipelineBounds, NEW p \in Process, Piping!End(p)
  PROVE  PipeInv'
<1>1. /\ pipeline[p] = "growth" /\ Piping!Returned(p) /\ Piping!Fine
      /\ pipeline' = [pipeline EXCEPT ![p] = "ended"]
      /\ UNCHANGED <<feedLedger, agent, answered, grown, overtaken>>
  BY DEF Piping!End
<1>2. pipeline'[p] = "ended" /\ agent' \in [Process -> [Feed -> PipeAgent]] /\ Piping!Running(p)
  BY <1>1 DEF PipeInv, PipeTypes, Piping!Running
<1>3. PipeRun(p)'
  <2>1. PipeRun(p) /\ \A f \in Feed : agent[p][f].step \notin {"dispatch", "update"}
    BY <1>1 DEF PipeInv, Piping!Returned
  <2>2. QED
    BY <1>1, <1>2, <2>1 DEF PipeRun
<1>4. ASSUME ~overtaken, p \in Piping!Latest, faults' = 0, NEW f \in Feed PROVE PipeRight(p, f)'
  <2>1. PipeRight(p, f)
    BY <1>1, <1>4, PipeKnown DEF Piping!Fine
  <2>2. QED
    BY <1>1, <1>2, <2>1 DEF PipeRight, PipeWritten
<1>5. QED
  BY <1>1, <1>2, <1>3, <1>4, PipeTurn

(* The process ends.                                                       *)
LEMMA PipeKill ==
  ASSUME PipeInv, Piping!PipelineBounds, NEW p \in Process, Piping!Kill(p)
  PROVE  PipeInv'
<1>1. /\ Piping!Running(p) /\ Piping!Fault
      /\ pipeline' = [pipeline EXCEPT ![p] = "killed"]
      /\ agent' = [agent EXCEPT ![p] = [f \in Feed |-> [step |-> "off", result |-> FALSE]]]
      /\ UNCHANGED <<feedLedger, answered, grown, overtaken>>
  BY DEF Piping!Kill, Piping!Idle
<1>2. /\ agent' \in [Process -> [Feed -> PipeAgent]]
      /\ \A q \in Process : q # p => agent'[q] = agent[q]
      /\ \A f \in Feed : agent'[p][f].step = "off" /\ agent'[p][f].result = FALSE
  BY <1>1 DEF PipeInv, PipeTypes, PipeAgent, PipeSteps
<1>3. pipeline'[p] = "killed" /\ faults' # 0
  BY <1>1, PipeFaults DEF PipeInv, PipeTypes
<1>4. PipeRun(p)'
  <2>1. grown'[p] \subseteq answered'[p]
    BY <1>1 DEF PipeInv, PipeRun
  <2>2. QED
    BY <1>2, <1>3, <2>1 DEF PipeRun
<1>5. QED
  BY <1>1, <1>2, <1>3, <1>4, PipeTurn

(* Every step keeps it.                                                    *)
LEMMA PipeStep ==
  ASSUME Piping!PipelineBounds, PipeInv, Piping!Next
  PROVE  PipeInv'
BY PipeStart, PipeGrow, PipeEnd, PipeKill, PipeDispatch, PipeUpdate, PipeRaises DEF Piping!Next

(* A feed is handed to growth only by a run that has its ingestion; and    *)
(* unless runs overlapped, the journal is that of the last run, and says   *)
(* of every feed what became of it when no transaction raised.             *)
THEOREM PipeKeeps ==
  ASSUME Piping!PipelineBounds
  PROVE  Piping!Init /\ [][Piping!Next]_<<Piping!piping, faults>> =>
           [](Piping!TypeOK /\ Piping!EffectsOnce /\ Piping!NothingLost)
<1>1. Piping!Init => PipeInv
  BY PipeInit
<1>2. PipeInv /\ [Piping!Next]_<<Piping!piping, faults>> => PipeInv'
  BY PipeStep, PipeRests
<1>3. PipeInv => Piping!TypeOK /\ Piping!EffectsOnce /\ Piping!NothingLost
  BY PipeSays
<1>4. QED
  BY <1>1, <1>2, <1>3, PTL

-----------------------------------------------------------------------------
(* The payment mesh.                                                       *)

SaleAsset == [stage : {"QUEUED", "COMPILED", "FAILED"}, sync : {"UNSYNCED", "SYNCED", "DEAD"},
              retries : Nat, copy : Payments!Copy, sold : Payments!Copy]
SaleStripe == [key : Payments!Copy, sessions : Nat]
SaleMaking == [step : {"off", "read", "make"}, todo : SUBSET Node]
SaleSync == [step : Payments!SyncStep, todo : SUBSET Node, now : SUBSET Node, seen : [Node -> Payments!Seen]]

SaleTypes ==
  /\ asset \in [Node -> SaleAsset] /\ letters \in [Node -> Nat]
  /\ stripe \in [Node -> SaleStripe] /\ told \in [Node -> 0..2]
  /\ making \in [Cycle -> SaleMaking] /\ sync \in [Cycle -> SaleSync]
SaleSets ==
  /\ raised \subseteq Cycle /\ overlapped \in BOOLEAN
  /\ expired \subseteq Node /\ unrecorded \subseteq Node /\ stranded \subseteq Node

(* The breaker lets traffic through, and counts below its threshold, only  *)
(* together.                                                               *)
SaleBreaker ==
  [state : {"CLOSED", "OPEN", "HALF_OPEN"}, failures : 0..FailureThreshold,
   successes : 0..SuccessThreshold, cooled : BOOLEAN]
SaleCircuit == circuit \in SaleBreaker /\ (circuit.state = "CLOSED" <=> circuit.failures < FailureThreshold)

(* What a slot has before it, and at hand.                                 *)
SaleHas(c, n) == n \in sync[c].todo \/ n \in sync[c].now
SaleAtHand == {"tell", "mark", "count", "letter"}
SaleShape(c) ==
  /\ making[c].step # "make" => making[c].todo = {}
  /\ sync[c].step \in {"off", "read"} => sync[c].todo = {}
  /\ sync[c].step \notin SaleAtHand => sync[c].now = {}
  /\ sync[c].step \in SaleAtHand => \E n \in Node : sync[c].now = {n} /\ n \notin sync[c].todo
  /\ \A n \in Node : SaleHas(c, n) => sync[c].seen[n].copy # 0 /\ asset[n].stage # "QUEUED"

(* A row, its key, and its dead letters.                                   *)
SaleRow(n) ==
  /\ asset[n].stage = "QUEUED" => asset[n].retries = 0 /\ asset[n].sync = "UNSYNCED"
  /\ asset[n].stage = "COMPILED" => asset[n].copy # 0
  /\ letters[n] # 0 => asset[n].sync # "UNSYNCED"
SaleKey(n) ==
  n \notin expired => stripe[n].sessions \in {0, 1} /\ (stripe[n].key = 0 => stripe[n].sessions = 0)

(* A letter takes a slot that had the row.                                 *)
SaleHolders(n) == {c \in Cycle : SaleHas(c, n)}
SaleCount(n) == letters[n] + Cardinality(SaleHolders(n)) <= Cardinality(Cycle)

(* While no two cycles overlapped: one slot works, on rows that are as it  *)
(* read them, and what a row says came about.                              *)
SaleLone == \A c, d \in Cycle : ~Payments!Idle(c) /\ ~Payments!Idle(d) => c = d
SaleReads(c, n) ==
  /\ n \in making[c].todo => asset[n].stage = "QUEUED"
  /\ SaleHas(c, n) =>
       /\ asset[n].stage = "COMPILED" /\ asset[n].sync = "UNSYNCED"
       /\ sync[c].seen[n].copy = asset[n].copy
       /\ (sync[c].step = "letter" /\ n \in sync[c].now) \/ sync[c].seen[n].retries = asset[n].retries
       /\ sync[c].step = "mark" /\ n \in sync[c].now => told[n] # 0
SaleTrue(n) ==
  /\ asset[n].sync = "SYNCED" => told[n] # 0 /\ asset[n].sold = asset[n].copy /\ asset[n].stage = "COMPILED"
  /\ letters[n] = IF asset[n].sync = "DEAD" THEN 1 ELSE 0
  /\ asset[n].stage = "COMPILED" /\ asset[n].sync = "UNSYNCED" /\ ~(asset[n].retries < MaxRetries)
       => n \in stranded \/ \E c \in Cycle : sync[c].step = "letter" /\ Payments!Row(c, n)
  /\ n \notin unrecorded =>
       /\ told[n] \in {0, 1}
       /\ told[n] # 0 => asset[n].sync = "SYNCED" \/ \E c \in Cycle : sync[c].step = "mark" /\ Payments!Row(c, n)
SaleAlone == SaleLone /\ \A n \in Node : SaleTrue(n) /\ \A c \in Cycle : SaleReads(c, n)

SaleInv ==
  /\ SaleTypes /\ SaleSets /\ faults \in 0..MaxFaults /\ SaleCircuit
  /\ \A c \in Cycle : SaleShape(c)
  /\ \A n \in Node : SaleRow(n) /\ SaleKey(n) /\ SaleCount(n)
  /\ overlapped \/ SaleAlone

(* The cycles that may overlap are as many as one can count.               *)
LEMMA SaleFinite == Payments!CycleAssumption => IsFiniteSet(Cycle) /\ Cycle \subseteq Nat \ {0}
<1> SUFFICES ASSUME Payments!CycleAssumption PROVE IsFiniteSet(Cycle) /\ Cycle \subseteq Nat \ {0}
  OBVIOUS
<1>1. Payments!IsFiniteSet(Cycle) = IsFiniteSet(Cycle)
  BY Zenon DEF Payments!IsFiniteSet, IsFiniteSet
<1>2. QED
  BY <1>1 DEF Payments!CycleAssumption

(* It holds at first.                                                      *)
LEMMA SaleInit == Payments!CycleAssumption /\ Payments!LimitAssumption /\ Payments!Init => SaleInv
<1> SUFFICES ASSUME Payments!CycleAssumption, Payments!LimitAssumption, Payments!Init PROVE SaleInv
  OBVIOUS
<1>1. /\ MaxRetries \in Nat \ {0} /\ FailureThreshold \in Nat \ {0} /\ SuccessThreshold \in Nat \ {0}
      /\ MaxFaults \in Nat /\ IsFiniteSet(Cycle) /\ Cycle \subseteq Nat \ {0}
  BY SaleFinite DEF Payments!LimitAssumption
<1>2. /\ asset = [n \in Node |-> Payments!Seeded] /\ letters = [n \in Node |-> 0]
      /\ stripe = [n \in Node |-> [key |-> 0, sessions |-> 0]] /\ told = [n \in Node |-> 0]
      /\ making = [c \in Cycle |-> Payments!NotMaking] /\ sync = [c \in Cycle |-> Payments!NotSyncing]
      /\ raised = {} /\ faults = 0 /\ overlapped = FALSE /\ expired = {} /\ unrecorded = {} /\ stranded = {}
  BY DEF Payments!Init
<1>3. SaleTypes
  <2>1. Payments!Seeded \in SaleAsset /\ [key |-> 0, sessions |-> 0] \in SaleStripe
    BY DEF Payments!Seeded, SaleAsset, SaleStripe, Payments!Copy
  <2>2. Payments!NotMaking \in SaleMaking
    BY DEF Payments!NotMaking, SaleMaking
  <2>3. Payments!Nothing \in Payments!Seen
    BY <1>1 DEF Payments!Nothing, Payments!Seen, Payments!Copy
  <2>4. Payments!NotSyncing \in SaleSync
    BY <2>3 DEF Payments!NotSyncing, SaleSync, Payments!SyncStep
  <2>5. asset \in [Node -> SaleAsset] /\ stripe \in [Node -> SaleStripe]
    BY <1>2, <2>1
  <2>6. making \in [Cycle -> SaleMaking] /\ sync \in [Cycle -> SaleSync]
    BY <1>2, <2>2, <2>4
  <2>7. letters \in [Node -> Nat] /\ told \in [Node -> 0..2]
    BY <1>2
  <2>8. QED
    BY <2>5, <2>6, <2>7 DEF SaleTypes
<1>4. SaleCircuit
  <2>1. circuit = [state |-> "CLOSED", failures |-> 0, successes |-> 0, cooled |-> FALSE]
    BY DEF Payments!Init, Payments!Closed
  <2>2. 0 \in 0..FailureThreshold /\ 0 \in 0..SuccessThreshold /\ 0 < FailureThreshold
    BY <1>1
  <2>3. QED
    BY <2>1, <2>2 DEF SaleCircuit, SaleBreaker
<1>5. /\ \A c \in Cycle : making[c].todo = {} /\ sync[c].step = "off" /\ sync[c].todo = {} /\ sync[c].now = {}
      /\ \A c \in Cycle : making[c].step = "off"
  BY <1>2 DEF Payments!NotMaking, Payments!NotSyncing
<1>6. \A c \in Cycle : SaleShape(c)
  BY <1>5 DEF SaleShape, SaleHas, SaleAtHand
<1>7. \A n \in Node : /\ asset[n].stage = "QUEUED" /\ asset[n].retries = 0 /\ asset[n].sync = "UNSYNCED"
                      /\ letters[n] = 0 /\ told[n] = 0 /\ stripe[n].sessions = 0
  BY <1>2 DEF Payments!Seeded
<1>8. ASSUME NEW n \in Node PROVE SaleRow(n) /\ SaleKey(n) /\ SaleCount(n)
  <2>1. SaleHolders(n) = {}
    BY <1>5 DEF SaleHolders, SaleHas
  <2>2. Cardinality(SaleHolders(n)) = 0 /\ Cardinality(Cycle) \in Nat
    BY <1>1, <2>1, CountNone, FS_CardinalityType
  <2>3. SaleCount(n)
    BY <1>7, <2>2 DEF SaleCount
  <2>4. QED
    BY <1>7, <2>3 DEF SaleRow, SaleKey
<1>9. SaleAlone
  <2>1. SaleLone
    BY <1>5 DEF SaleLone, Payments!Idle
  <2>2. \A n \in Node, c \in Cycle : SaleReads(c, n)
    BY <1>5 DEF SaleReads, SaleHas
  <2>3. \A n \in Node : SaleTrue(n)
    BY <1>7 DEF SaleTrue
  <2>4. QED
    BY <2>1, <2>2, <2>3 DEF SaleAlone
<1>10. SaleSets
  BY <1>2 DEF SaleSets
<1>11. faults \in 0..MaxFaults
  BY <1>1, <1>2
<1>12. QED
  BY <1>3, <1>4, <1>6, <1>8, <1>9, <1>10, <1>11 DEF SaleInv

(* The circuit breaker keeps its range, and is closed below its threshold. *)
SaleGood(cb) == cb \in SaleBreaker /\ (cb.state = "CLOSED" <=> cb.failures < FailureThreshold)
LEMMA SaleBreaks ==
  ASSUME Payments!LimitAssumption, NEW cb, SaleGood(cb)
  PROVE  SaleGood(Payments!Viewed(cb)) /\ SaleGood(Payments!AfterSuccess(cb)) /\ SaleGood(Payments!AfterFailure(cb))
<1>1. FailureThreshold \in Nat \ {0} /\ SuccessThreshold \in Nat \ {0}
  BY DEF Payments!LimitAssumption
<1>2. SaleGood(Payments!Closed)
  <2>1. 0 \in 0..FailureThreshold /\ 0 \in 0..SuccessThreshold /\ 0 < FailureThreshold
    BY <1>1
  <2>2. QED
    BY <2>1 DEF SaleGood, SaleBreaker, Payments!Closed
<1> DEFINE v == Payments!Viewed(cb)
<1>3. SaleGood(v)
  <2>1. CASE cb.state = "OPEN" /\ cb.cooled
    <3>1. v = [state |-> "HALF_OPEN", failures |-> cb.failures, successes |-> 0, cooled |-> FALSE]
      BY <2>1 DEF Payments!Viewed, SaleGood, SaleBreaker
    <3>2. 0 \in 0..SuccessThreshold
      BY <1>1
    <3>3. cb.failures \in 0..FailureThreshold /\ ~(cb.failures < FailureThreshold)
      BY <2>1 DEF SaleGood, SaleBreaker
    <3>4. v \in SaleBreaker
      BY <3>1, <3>2, <3>3 DEF SaleBreaker
    <3>5. QED
      BY <3>1, <3>3, <3>4 DEF SaleGood
  <2>2. CASE ~(cb.state = "OPEN" /\ cb.cooled)
    BY <2>2 DEF Payments!Viewed
  <2>3. QED
    BY <2>1, <2>2
<1>4. /\ v = [state |-> v.state, failures |-> v.failures, successes |-> v.successes, cooled |-> v.cooled]
      /\ v.state \in {"CLOSED", "OPEN", "HALF_OPEN"} /\ v.cooled \in BOOLEAN
      /\ v.failures \in 0..FailureThreshold /\ v.successes \in 0..SuccessThreshold
      /\ v.state = "CLOSED" <=> v.failures < FailureThreshold
  BY <1>3 DEF SaleGood, SaleBreaker
<1> HIDE DEF v
<1>5. SaleGood(Payments!AfterSuccess(cb))
  <2>1. CASE v.state = "HALF_OPEN"
    <3>1. CASE v.successes + 1 >= SuccessThreshold
      BY <1>2, <2>1, <3>1 DEF Payments!AfterSuccess, v
    <3>2. CASE ~(v.successes + 1 >= SuccessThreshold)
      <4>1. Payments!AfterSuccess(cb) = [v EXCEPT !.successes = @ + 1]
        BY <2>1, <3>2 DEF Payments!AfterSuccess, v
      <4>2. Payments!AfterSuccess(cb) = [state |-> v.state, failures |-> v.failures,
                                successes |-> v.successes + 1, cooled |-> v.cooled]
        BY <1>4, <4>1
      <4>3. v.successes + 1 \in 0..SuccessThreshold
        BY <1>1, <1>4, <3>2
      <4>4. Payments!AfterSuccess(cb) \in SaleBreaker
        BY <1>4, <4>2, <4>3 DEF SaleBreaker
      <4>5. Payments!AfterSuccess(cb).state = v.state /\ Payments!AfterSuccess(cb).failures = v.failures
        BY <4>2
      <4>6. QED
        BY <1>4, <4>4, <4>5 DEF SaleGood
    <3>3. QED
      BY <3>1, <3>2
  <2>2. CASE v.state = "CLOSED" /\ v.failures > 0
    <3>1. Payments!AfterSuccess(cb) = [v EXCEPT !.failures = @ - 1]
      BY <2>2 DEF Payments!AfterSuccess, v
    <3>2. Payments!AfterSuccess(cb) = [state |-> v.state, failures |-> v.failures - 1,
                              successes |-> v.successes, cooled |-> v.cooled]
      BY <1>4, <3>1
    <3>3. v.failures - 1 \in 0..FailureThreshold /\ v.failures - 1 < FailureThreshold
      BY <1>1, <1>4, <2>2
    <3>4. Payments!AfterSuccess(cb) \in SaleBreaker
      BY <1>4, <3>2, <3>3 DEF SaleBreaker
    <3>5. Payments!AfterSuccess(cb).state = "CLOSED" /\ Payments!AfterSuccess(cb).failures < FailureThreshold
      BY <2>2, <3>2, <3>3
    <3>6. QED
      BY <3>4, <3>5 DEF SaleGood
  <2>3. CASE ~(v.state = "HALF_OPEN") /\ ~(v.state = "CLOSED" /\ v.failures > 0)
    <3>1. Payments!AfterSuccess(cb) = v
      BY <2>3 DEF Payments!AfterSuccess, v
    <3>2. QED
      BY <1>3, <3>1
  <2>4. QED
    BY <2>1, <2>2, <2>3
<1>6. SaleGood(Payments!AfterFailure(cb))
  <2> DEFINE f == IF v.failures < FailureThreshold THEN v.failures + 1 ELSE v.failures
  <2>1. f \in 0..FailureThreshold
    BY <1>1, <1>4
  <2>2. v.state # "CLOSED" => ~(f < FailureThreshold)
    BY <1>1, <1>4
  <2>3. Payments!AfterFailure(cb) = IF v.state # "OPEN" /\ f >= FailureThreshold
          THEN [state |-> "OPEN", failures |-> f, successes |-> 0, cooled |-> FALSE]
          ELSE [v EXCEPT !.failures = f]
    BY DEF Payments!AfterFailure, v
  <2> HIDE DEF f
  <2>4. CASE v.state # "OPEN" /\ f >= FailureThreshold
    <3>1. Payments!AfterFailure(cb) = [state |-> "OPEN", failures |-> f, successes |-> 0, cooled |-> FALSE]
      BY <2>3, <2>4
    <3>2. 0 \in 0..SuccessThreshold /\ ~(f < FailureThreshold)
      BY <1>1, <2>1, <2>4
    <3>3. Payments!AfterFailure(cb) \in SaleBreaker
      BY <2>1, <3>1, <3>2 DEF SaleBreaker
    <3>4. QED
      BY <3>1, <3>2, <3>3 DEF SaleGood
  <2>5. CASE ~(v.state # "OPEN" /\ f >= FailureThreshold)
    <3>1. Payments!AfterFailure(cb) = [v EXCEPT !.failures = f]
      BY <2>3, <2>5
    <3>2. Payments!AfterFailure(cb) = [state |-> v.state, failures |-> f,
                              successes |-> v.successes, cooled |-> v.cooled]
      BY <1>4, <3>1
    <3>3. Payments!AfterFailure(cb) \in SaleBreaker
      BY <1>4, <2>1, <3>2 DEF SaleBreaker
    <3>4. v.state = "CLOSED" <=> f < FailureThreshold
      <4>1. CASE v.state = "OPEN"
        BY <2>2, <4>1
      <4>2. CASE v.state # "OPEN"
        BY <1>1, <2>1, <2>2, <2>5, <4>2
      <4>3. QED
        BY <4>1, <4>2
    <3>5. Payments!AfterFailure(cb).state = v.state /\ Payments!AfterFailure(cb).failures = f
      BY <3>2
    <3>6. QED
      BY <3>3, <3>4, <3>5 DEF SaleGood
  <2>6. QED
    BY <2>4, <2>5
<1>7. QED
  BY <1>3, <1>5, <1>6 DEF v

(* What the invariant says of the pieces that carry values.                *)
LEMMA SaleKnows ==
  ASSUME SaleInv, NEW c \in Cycle, NEW n \in Node
  PROVE  /\ asset[n] \in SaleAsset /\ letters[n] \in Nat /\ stripe[n] \in SaleStripe /\ told[n] \in 0..2
         /\ making[c] \in SaleMaking /\ sync[c] \in SaleSync
         /\ sync[c].seen[n] \in Payments!Seen
         /\ SaleShape(c) /\ SaleRow(n) /\ SaleKey(n) /\ SaleCount(n)
<1>1. /\ asset[n] \in SaleAsset /\ letters[n] \in Nat /\ stripe[n] \in SaleStripe /\ told[n] \in 0..2
      /\ making[c] \in SaleMaking /\ sync[c] \in SaleSync
  BY DEF SaleInv, SaleTypes
<1>2. sync[c].seen[n] \in Payments!Seen
  BY <1>1 DEF SaleSync
<1>3. QED
  BY <1>1, <1>2 DEF SaleInv

(* A slot has no more of a row than before, and nobody else has.           *)
LEMMA SaleFewer ==
  ASSUME Payments!CycleAssumption, SaleInv, NEW c \in Cycle, NEW m \in Node, letters[m] \in Nat,
         \A d \in Cycle \ {c} : sync'[d] = sync[d],
         SaleHas(c, m)' => SaleHas(c, m),
         letters'[m] = letters[m] \/ (letters'[m] = letters[m] + 1 /\ SaleHas(c, m) /\ ~SaleHas(c, m)')
  PROVE  SaleCount(m)'
<1>1. IsFiniteSet(Cycle) /\ SaleHolders(m) \subseteq Cycle /\ SaleCount(m)
  BY SaleFinite DEF SaleHolders, SaleInv
<1>2. IsFiniteSet(SaleHolders(m)) /\ Cardinality(SaleHolders(m)) \in Nat /\ Cardinality(Cycle) \in Nat
  BY <1>1, CountSubset
<1>3. \A d \in Cycle : SaleHas(d, m)' => SaleHas(d, m)
  BY DEF SaleHas
<1>4. SaleHolders(m)' \subseteq SaleHolders(m)
  BY <1>3 DEF SaleHolders
<1>5. CASE letters'[m] = letters[m]
  <2>1. Cardinality(SaleHolders(m)') \in Nat /\ Cardinality(SaleHolders(m)') <= Cardinality(SaleHolders(m))
    BY <1>2, <1>4, CountSubset
  <2>2. letters[m] + Cardinality(SaleHolders(m)) <= Cardinality(Cycle)
    BY <1>1 DEF SaleCount
  <2>3. letters'[m] + Cardinality(SaleHolders(m)') <= Cardinality(Cycle)
    BY <1>2, <1>5, <2>1, <2>2
  <2>4. QED
    BY <2>3 DEF SaleCount
<1>6. CASE letters'[m] = letters[m] + 1 /\ SaleHas(c, m) /\ ~SaleHas(c, m)'
  <2>1. c \in SaleHolders(m) /\ SaleHolders(m)' \subseteq SaleHolders(m) \ {c}
    BY <1>4, <1>6 DEF SaleHolders
  <2>2. /\ IsFiniteSet(SaleHolders(m) \ {c})
        /\ Cardinality(SaleHolders(m) \ {c}) = Cardinality(SaleHolders(m)) - 1
    BY <1>2, <2>1, FS_RemoveElement
  <2>3. /\ Cardinality(SaleHolders(m)') \in Nat
        /\ Cardinality(SaleHolders(m)') <= Cardinality(SaleHolders(m) \ {c})
    BY <2>1, <2>2, CountSubset
  <2>4. letters[m] + Cardinality(SaleHolders(m)) <= Cardinality(Cycle)
    BY <1>1 DEF SaleCount
  <2>5. letters'[m] + Cardinality(SaleHolders(m)') <= Cardinality(Cycle)
    BY <1>2, <1>6, <2>2, <2>3, <2>4
  <2>6. QED
    BY <2>5 DEF SaleCount
<1>7. QED
  BY <1>5, <1>6

(* What is alike in the steps of a slot about one row.                     *)
SaleSlot(c, n) ==
  /\ sync[c].step \in {"row"} \cup SaleAtHand /\ SaleHas(c, n) /\ sync[c].now \subseteq {n}
  /\ making' = making /\ overlapped' = overlapped /\ expired' = expired
  /\ SaleTypes' /\ SaleSets' /\ (faults \in 0..MaxFaults)' /\ SaleCircuit'
  /\ \A d \in Cycle \ {c} : sync'[d] = sync[d]
  /\ sync'[c].todo \subseteq sync[c].todo \ {n} /\ sync'[c].now \subseteq {n}
  /\ sync'[c].seen = sync[c].seen \/ (sync'[c].todo = {} /\ sync'[c].now = {})
  /\ sync'[c].step # "read"
  /\ sync'[c].step = "off" => sync'[c].todo = {}
  /\ sync'[c].step \notin SaleAtHand => sync'[c].now = {}
  /\ sync'[c].step \in SaleAtHand => sync'[c].now = {n}
SaleElse(n) ==
  \A m \in Node \ {n} :
    /\ asset'[m] = asset[m] /\ letters'[m] = letters[m] /\ stripe'[m] = stripe[m] /\ told'[m] = told[m]
    /\ m \in unrecorded' <=> m \in unrecorded
    /\ m \in stranded' <=> m \in stranded
SaleHere(c, n) ==
  /\ asset'[n].stage = asset[n].stage /\ asset'[n].copy = asset[n].copy
  /\ SaleRow(n)' /\ SaleKey(n)'
  /\ letters'[n] = letters[n] \/ (letters'[n] = letters[n] + 1 /\ sync'[c].now = {})
  /\ overlapped \/ (SaleTrue(n)' /\ (n \in sync'[c].now => SaleReads(c, n)'))

(* A step of a slot about one row keeps the invariant, if the row does.    *)
LEMMA SaleAbout ==
  ASSUME Payments!CycleAssumption, SaleInv, NEW c \in Cycle, NEW n \in Node,
         SaleSlot(c, n), SaleElse(n), SaleHere(c, n)
  PROVE  SaleInv'
<1>1. SaleTypes' /\ SaleSets' /\ (faults \in 0..MaxFaults)' /\ SaleCircuit'
  BY DEF SaleSlot
<1>2. \A d \in Cycle \ {c} : sync'[d] = sync[d]
  BY DEF SaleSlot
<1>3. /\ sync'[c].todo \subseteq sync[c].todo \ {n} /\ sync'[c].now \subseteq {n}
      /\ sync[c].now \subseteq {n} /\ SaleHas(c, n)
      /\ making' = making /\ overlapped' = overlapped /\ expired' = expired
      /\ sync[c].step \in {"row"} \cup SaleAtHand
  BY DEF SaleSlot
<1>4. \A m \in Node : asset'[m].stage = asset[m].stage /\ asset'[m].copy = asset[m].copy
  BY DEF SaleElse, SaleHere
<1>5. \A d \in Cycle, m \in Node : SaleHas(d, m)' => SaleHas(d, m)
  BY <1>2, <1>3 DEF SaleHas
<1>6. ASSUME NEW d \in Cycle PROVE SaleShape(d)'
  <2>1. SaleShape(d)
    BY DEF SaleInv
  <2>2. CASE d # c
    <3>1. sync'[d] = sync[d] /\ making'[d] = making[d]
      BY <1>2, <1>3, <2>2
    <3>2. QED
      BY <1>4, <2>1, <3>1 DEF SaleShape, SaleHas, SaleAtHand
  <2>3. CASE d = c
    <3>1. (making[c].step # "make" => making[c].todo = {})'
      BY <1>3, <2>1, <2>3 DEF SaleShape
    <3>2. (sync[c].step \in {"off", "read"} => sync[c].todo = {})'
      BY DEF SaleSlot
    <3>3. (sync[c].step \notin SaleAtHand => sync[c].now = {})'
      BY DEF SaleSlot, SaleAtHand
    <3>4. (sync[c].step \in SaleAtHand => \E m \in Node : sync[c].now = {m} /\ m \notin sync[c].todo)'
      <4>1. n \notin sync'[c].todo
        BY <1>3
      <4>2. sync'[c].step \in SaleAtHand' => sync'[c].now = {n}
        BY DEF SaleSlot, SaleAtHand
      <4>3. QED
        BY <4>1, <4>2
    <3>5. ASSUME NEW m \in Node, SaleHas(c, m)'
          PROVE  sync'[c].seen[m].copy # 0 /\ asset'[m].stage # "QUEUED"
      <4>1. SaleHas(c, m)
        BY <1>5, <3>5
      <4>2. sync'[c].seen = sync[c].seen
        BY <3>5 DEF SaleSlot, SaleHas
      <4>3. QED
        BY <1>4, <2>1, <2>3, <4>1, <4>2 DEF SaleShape
    <3>6. QED
      BY <2>3, <3>1, <3>2, <3>3, <3>4, <3>5 DEF SaleShape
  <2>4. QED
    BY <2>2, <2>3
<1>7. ASSUME NEW m \in Node PROVE SaleRow(m)' /\ SaleKey(m)' /\ SaleCount(m)'
  <2>1. CASE m = n
    <3>1. SaleRow(m)' /\ SaleKey(m)'
      BY <2>1 DEF SaleHere
    <3>2. letters[m] \in Nat
      BY SaleKnows
    <3>3. letters'[m] = letters[m] \/ (letters'[m] = letters[m] + 1 /\ SaleHas(c, m) /\ ~SaleHas(c, m)')
      BY <1>3, <2>1 DEF SaleHere, SaleHas
    <3>4. SaleCount(m)'
      BY <1>2, <1>5, <3>2, <3>3, SaleFewer
    <3>5. QED
      BY <3>1, <3>4
  <2>2. CASE m # n
    <3>1. /\ asset'[m] = asset[m] /\ letters'[m] = letters[m] /\ stripe'[m] = stripe[m]
          /\ m \in expired' <=> m \in expired
      BY <1>3, <2>2 DEF SaleElse
    <3>2. SaleRow(m) /\ SaleKey(m) /\ letters[m] \in Nat
      BY SaleKnows
    <3>3. SaleRow(m)' /\ SaleKey(m)'
      BY <3>1, <3>2 DEF SaleRow, SaleKey
    <3>4. SaleCount(m)'
      BY <1>2, <1>5, <3>1, <3>2, SaleFewer
    <3>5. QED
      BY <3>3, <3>4
  <2>3. QED
    BY <2>1, <2>2
<1>8. ASSUME ~overlapped PROVE SaleAlone'
  <2>1. SaleLone /\ (\A m \in Node : SaleTrue(m)) /\ \A m \in Node, d \in Cycle : SaleReads(d, m)
    BY <1>8 DEF SaleInv, SaleAlone
  <2>2. ~Payments!Idle(c)
    BY <1>3 DEF Payments!Idle, SaleAtHand
  <2>3. \A d \in Cycle \ {c} : Payments!Idle(d) /\ Payments!Idle(d)'
    BY <1>2, <1>3, <2>1, <2>2 DEF SaleLone, Payments!Idle
  <2>4. SaleLone'
    BY <2>3 DEF SaleLone
  <2>5. ASSUME NEW m \in Node, NEW d \in Cycle PROVE SaleReads(d, m)'
    <3>1. SaleReads(d, m) /\ (m \in making'[d].todo => asset'[m].stage = "QUEUED")
      BY <1>3, <1>4, <2>1 DEF SaleReads
    <3>2. CASE ~SaleHas(d, m)'
      BY <3>1, <3>2 DEF SaleReads
    <3>3. CASE SaleHas(d, m)'
      <4>1. d = c
        <5>1. SUFFICES ASSUME d # c PROVE FALSE
          OBVIOUS
        <5>2. sync[d].step = "off" /\ SaleShape(d) /\ SaleHas(d, m)
          BY <1>5, <2>3, <3>3, <5>1 DEF Payments!Idle, SaleInv
        <5>3. QED
          BY <5>2 DEF SaleShape, SaleHas, SaleAtHand
      <4>2. CASE m \in sync'[c].now
        BY <1>3, <1>8, <4>1, <4>2 DEF SaleHere
      <4>3. CASE m \notin sync'[c].now
        <5>1. m \in sync'[c].todo /\ m \in sync[c].todo /\ m # n
          BY <1>3, <3>3, <4>1, <4>3 DEF SaleHas
        <5>2. asset'[m] = asset[m] /\ sync'[c].seen = sync[c].seen /\ m \notin sync[c].now
          BY <1>3, <5>1 DEF SaleElse, SaleSlot
        <5>3. SaleHas(c, m) /\ SaleReads(c, m)
          BY <2>1, <5>1 DEF SaleHas
        <5>4. /\ asset[m].stage = "COMPILED" /\ asset[m].sync = "UNSYNCED"
              /\ sync[c].seen[m].copy = asset[m].copy
              /\ sync[c].seen[m].retries = asset[m].retries
          BY <5>2, <5>3 DEF SaleReads
        <5>5. /\ asset'[m].stage = "COMPILED" /\ asset'[m].sync = "UNSYNCED"
              /\ sync'[c].seen[m].copy = asset'[m].copy
              /\ sync'[c].seen[m].retries = asset'[m].retries
          BY <5>2, <5>4
        <5>6. QED
          BY <3>1, <4>1, <4>3, <5>5 DEF SaleReads
      <4>4. QED
        BY <4>2, <4>3
    <3>4. QED
      BY <3>2, <3>3
  <2>6. ASSUME NEW m \in Node PROVE SaleTrue(m)'
    <3>1. CASE m = n
      BY <1>8, <3>1 DEF SaleHere
    <3>2. CASE m # n
      <4>1. /\ asset'[m] = asset[m] /\ letters'[m] = letters[m] /\ told'[m] = told[m]
            /\ m \in unrecorded' <=> m \in unrecorded
            /\ m \in stranded' <=> m \in stranded
        BY <3>2 DEF SaleElse
      <4>2. \A d \in Cycle : ~Payments!Row(d, m)
        <5>1. ~Payments!Row(c, m)
          BY <1>3, <3>2 DEF Payments!Row
        <5>2. \A d \in Cycle \ {c} : sync[d].step = "off" /\ SaleShape(d)
          BY <2>3 DEF Payments!Idle, SaleInv
        <5>3. \A d \in Cycle \ {c} : sync[d].now = {}
          BY <5>2 DEF SaleShape, SaleAtHand
        <5>4. QED
          BY <5>1, <5>3 DEF Payments!Row
      <4>3. SaleTrue(m)
        BY <2>1
      <4>4. QED
        BY <4>1, <4>2, <4>3 DEF SaleTrue
    <3>3. QED
      BY <3>1, <3>2
  <2>7. QED
    BY <2>4, <2>5, <2>6 DEF SaleAlone
<1>9. QED
  BY <1>1, <1>3, <1>6, <1>7, <1>8 DEF SaleInv

(* The slot goes on with the row, or leaves it.                            *)
SaleMove(c, n, s) ==
  /\ sync' \in [Cycle -> SaleSync] /\ \A d \in Cycle \ {c} : sync'[d] = sync[d]
  /\ sync'[c].step = s /\ sync'[c].now = {n} /\ sync'[c].seen = sync[c].seen
  /\ sync'[c].todo = sync[c].todo \ {n}
SaleLeave(c, n) ==
  /\ sync' \in [Cycle -> SaleSync] /\ \A d \in Cycle \ {c} : sync'[d] = sync[d]
  /\ sync'[c].step \in {"off", "row"} /\ sync'[c].now = {}
  /\ sync'[c].step = "off" => sync'[c].todo = {}
  /\ sync'[c].step = "row" => sync'[c].seen = sync[c].seen
  /\ sync'[c].todo \subseteq sync[c].todo \ {n}

(* An update of one slot.                                                  *)
LEMMA SaleUpdate ==
  ASSUME sync \in [Cycle -> SaleSync], NEW c \in Cycle, NEW e, e \in SaleSync,
         sync' = [sync EXCEPT ![c] = e]
  PROVE  sync' \in [Cycle -> SaleSync] /\ sync'[c] = e /\ \A d \in Cycle \ {c} : sync'[d] = sync[d]
OBVIOUS

(* A slot with fields replaced.                                            *)
LEMMA SaleField ==
  ASSUME NEW r, r \in SaleSync, NEW s
  PROVE  [r EXCEPT !.step = s] = [step |-> s, todo |-> r.todo, now |-> r.now, seen |-> r.seen]
BY DEF SaleSync

(* Nobody has a row in hand once the slot is off.                          *)
LEMMA SaleIdle ==
  ASSUME MaxRetries \in Nat
  PROVE  Payments!NotSyncing \in SaleSync
<1>1. Payments!Nothing \in Payments!Seen
  BY DEF Payments!Nothing, Payments!Seen, Payments!Copy
<1>2. QED
  BY <1>1 DEF Payments!NotSyncing, SaleSync, Payments!SyncStep

(* The slot has the row at hand.                                           *)
LEMMA SaleTakes ==
  ASSUME SaleInv, NEW c \in Cycle, NEW n \in Node, NEW s \in Payments!SyncStep,
         sync' = [sync EXCEPT ![c].step = s, ![c].now = {n}, ![c].todo = @ \ {n}]
  PROVE  SaleMove(c, n, s)
<1>1. sync \in [Cycle -> SaleSync] /\ sync[c] \in SaleSync
  BY SaleKnows DEF SaleInv, SaleTypes
<1> DEFINE e == [step |-> s, todo |-> sync[c].todo \ {n}, now |-> {n}, seen |-> sync[c].seen]
<1>2. sync' = [sync EXCEPT ![c] = e]
  <2> DEFINE f == [sync EXCEPT ![c].step = s]
             g == [f EXCEPT ![c].now = {n}]
             h == [g EXCEPT ![c].todo = @ \ {n}]
             r == [step |-> s, todo |-> sync[c].todo, now |-> sync[c].now, seen |-> sync[c].seen]
             q == [step |-> s, todo |-> sync[c].todo, now |-> {n}, seen |-> sync[c].seen]
  <2>1. sync' = h
    OBVIOUS
  <2>2. r \in SaleSync /\ q \in SaleSync
    BY <1>1 DEF SaleSync
  <2>3. f = [sync EXCEPT ![c] = r]
    BY <1>1, SaleField
  <2> DEFINE m == {n}
  <2>31. r = [step |-> s, todo |-> sync[c].todo, now |-> sync[c].now, seen |-> sync[c].seen]
    OBVIOUS
  <2>32. q = [step |-> s, todo |-> sync[c].todo, now |-> m, seen |-> sync[c].seen]
    OBVIOUS
  <2> HIDE DEF f, r, q, m
  <2>4. f[c] = r /\ f \in [Cycle -> SaleSync] /\ \A d \in Cycle \ {c} : f[d] = sync[d]
    BY <1>1, <2>2, <2>3
  <2>5. [r EXCEPT !.now = m] = q
    BY <2>31, <2>32
  <2>6. g = [f EXCEPT ![c] = q]
    BY <2>4, <2>5 DEF m
  <2> HIDE DEF g
  <2>7. g[c] = q /\ g \in [Cycle -> SaleSync] /\ \A d \in Cycle \ {c} : g[d] = sync[d]
    BY <2>2, <2>4, <2>6
  <2> DEFINE b == sync[c].todo \ {n}
  <2>81. e = [step |-> s, todo |-> b, now |-> m, seen |-> sync[c].seen]
    BY DEF m
  <2> HIDE DEF e, b
  <2>8. q.todo = sync[c].todo /\ [q EXCEPT !.todo = b] = e
    BY <2>32, <2>81
  <2>9. h = [g EXCEPT ![c] = e]
    BY <2>7, <2>8 DEF b
  <2>10. [g EXCEPT ![c] = e] = [sync EXCEPT ![c] = e]
    BY <1>1, <2>7
  <2>11. QED
    BY <2>1, <2>9, <2>10
<1>3. e \in SaleSync
  BY <1>1 DEF SaleSync
<1>4. sync' \in [Cycle -> SaleSync] /\ sync'[c] = e /\ \A d \in Cycle \ {c} : sync'[d] = sync[d]
  <2> HIDE DEF e
  <2>1. QED
    BY <1>1, <1>2, <1>3, SaleUpdate
<1>5. QED
  BY <1>4 DEF SaleMove

(* The slot keeps the row at hand.                                         *)
LEMMA SaleGoesOn ==
  ASSUME SaleInv, NEW c \in Cycle, NEW n \in Node, NEW s \in Payments!SyncStep,
         sync[c].step \in SaleAtHand, Payments!Row(c, n),
         sync' = [sync EXCEPT ![c].step = s]
  PROVE  SaleMove(c, n, s)
<1>1. sync \in [Cycle -> SaleSync] /\ sync[c] \in SaleSync /\ SaleShape(c)
  BY SaleKnows DEF SaleInv, SaleTypes
<1>2. sync[c].now = {n} /\ n \notin sync[c].todo
  BY <1>1 DEF Payments!Row, SaleShape
<1> DEFINE e == [step |-> s, todo |-> sync[c].todo, now |-> sync[c].now, seen |-> sync[c].seen]
<1>3. sync' = [sync EXCEPT ![c] = e]
  BY <1>1, SaleField
<1>4. e \in SaleSync
  BY <1>1 DEF SaleSync
<1>5. sync' \in [Cycle -> SaleSync] /\ sync'[c] = e /\ \A d \in Cycle \ {c} : sync'[d] = sync[d]
  <2> HIDE DEF e
  <2>1. QED
    BY <1>1, <1>3, <1>4, SaleUpdate
<1>6. QED
  BY <1>2, <1>5 DEF SaleMove

(* The slot is done with the row.                                          *)
LEMMA SaleGoesAway ==
  ASSUME Payments!LimitAssumption, SaleInv, NEW c \in Cycle, NEW n \in Node,
         sync[c].step \in SaleAtHand, Payments!Row(c, n),
         Payments!NextRow(c) \/ sync' = [sync EXCEPT ![c] = Payments!NotSyncing]
  PROVE  SaleLeave(c, n)
<1>1. sync \in [Cycle -> SaleSync] /\ sync[c] \in SaleSync /\ SaleShape(c)
  BY SaleKnows DEF SaleInv, SaleTypes
<1>2. sync[c].now = {n} /\ n \notin sync[c].todo
  BY <1>1 DEF Payments!Row, SaleShape
<1>3. Payments!NotSyncing \in SaleSync
  BY SaleIdle DEF Payments!LimitAssumption
<1>4. CASE sync' = [sync EXCEPT ![c] = Payments!NotSyncing]
  <2>1. sync' \in [Cycle -> SaleSync] /\ sync'[c] = Payments!NotSyncing /\ \A d \in Cycle \ {c} : sync'[d] = sync[d]
    BY <1>1, <1>3, <1>4, SaleUpdate
  <2>2. QED
    BY <2>1 DEF SaleLeave, Payments!NotSyncing
<1>5. CASE Payments!NextRow(c) /\ sync[c].todo = {}
  BY <1>4, <1>5 DEF Payments!NextRow
<1>6. CASE Payments!NextRow(c) /\ sync[c].todo # {}
  <2> DEFINE e == [step |-> "row", todo |-> sync[c].todo, now |-> {}, seen |-> sync[c].seen]
  <2>1. sync' = [sync EXCEPT ![c] = [sync[c] EXCEPT !.step = "row", !.now = {}]]
    BY <1>6 DEF Payments!NextRow
  <2>2. [sync[c] EXCEPT !.step = "row", !.now = {}] = e
    <3> DEFINE f == [sync[c] EXCEPT !.step = "row"]
               g == [f EXCEPT !.now = {}]
    <3>1. f = [step |-> "row", todo |-> sync[c].todo, now |-> sync[c].now, seen |-> sync[c].seen]
      BY <1>1, SaleField
    <3> HIDE DEF f
    <3>2. g = e
      BY <3>1
    <3>3. QED
      BY <3>2 DEF f, g
  <2>3. e \in SaleSync
    BY <1>1 DEF SaleSync, Payments!SyncStep
  <2>4. sync' \in [Cycle -> SaleSync] /\ sync'[c] = e /\ \A d \in Cycle \ {c} : sync'[d] = sync[d]
    <3>1. sync' = [sync EXCEPT ![c] = e]
      BY <2>1, <2>2
    <3> HIDE DEF e
    <3>2. QED
      BY <1>1, <2>3, <3>1, SaleUpdate
  <2>5. QED
    BY <1>2, <2>4 DEF SaleLeave
<1>7. QED
  BY <1>4, <1>5, <1>6

(* What a slot about a row is like, from how it moves.                     *)
LEMMA SaleSlots ==
  ASSUME Payments!LimitAssumption, SaleInv, NEW c \in Cycle, NEW n \in Node,
         \/ sync[c].step = "row" /\ n \in sync[c].todo
         \/ sync[c].step \in SaleAtHand /\ Payments!Row(c, n),
         (\E s \in SaleAtHand : SaleMove(c, n, s)) \/ SaleLeave(c, n),
         Payments!SyncOnly, unrecorded' \subseteq Node, stranded' \subseteq Node, raised' \subseteq Cycle,
         Payments!Fine \/ Payments!Fault, SaleGood(circuit'),
         asset' \in [Node -> SaleAsset], letters' \in [Node -> Nat],
         stripe' \in [Node -> SaleStripe], told' \in [Node -> 0..2]
  PROVE  SaleSlot(c, n)
<1>1. making' = making /\ overlapped' = overlapped /\ expired' = expired
  BY DEF Payments!SyncOnly
<1>2. SaleShape(c) /\ making \in [Cycle -> SaleMaking] /\ SaleSets /\ faults \in 0..MaxFaults
  BY DEF SaleInv, SaleTypes
<1>3. sync' \in [Cycle -> SaleSync] /\ \A d \in Cycle \ {c} : sync'[d] = sync[d]
  BY DEF SaleMove, SaleLeave
<1>4. SaleTypes'
  BY <1>1, <1>2, <1>3 DEF SaleTypes
<1>5. SaleSets'
  BY <1>1, <1>2 DEF SaleSets
<1>6. (faults \in 0..MaxFaults)'
  BY <1>2 DEF Payments!Fine, Payments!Fault, Payments!LimitAssumption
<1>7. SaleCircuit'
  BY DEF SaleGood, SaleCircuit
<1>8. SaleHas(c, n) /\ sync[c].now \subseteq {n} /\ sync[c].step \in {"row"} \cup SaleAtHand
  BY <1>2 DEF SaleShape, SaleHas, Payments!Row, SaleAtHand
<1>9. n \notin sync[c].todo \/ n \in sync[c].todo
  OBVIOUS
<1>10. CASE \E s \in SaleAtHand : SaleMove(c, n, s)
  <2>1. /\ sync'[c].todo \subseteq sync[c].todo \ {n} /\ sync'[c].now = {n}
        /\ sync'[c].seen = sync[c].seen
        /\ sync'[c].step \in SaleAtHand
    BY <1>10 DEF SaleMove
  <2>2. QED
    BY <1>1, <1>3, <1>4, <1>5, <1>6, <1>7, <1>8, <2>1 DEF SaleSlot, SaleAtHand
<1>11. CASE SaleLeave(c, n)
  BY <1>1, <1>3, <1>4, <1>5, <1>6, <1>7, <1>8, <1>11 DEF SaleSlot, SaleAtHand, SaleLeave
<1>12. QED
  BY <1>10, <1>11

(* Nothing but the row is written.                                         *)
SaleOnly(f, g, n) == g \in [Node -> SaleAsset] /\ \A m \in Node \ {n} : g[m] = f[m]

(* The one slot at work has a row that is as it read it.                   *)
LEMMA SaleOwns ==
  ASSUME SaleInv, ~overlapped, NEW c \in Cycle, NEW n \in Node, SaleHas(c, n),
         sync[c].step = "row" \/ (sync[c].step \in SaleAtHand /\ Payments!Row(c, n))
  PROVE  /\ n \notin making[c].todo
         /\ asset[n].stage = "COMPILED" /\ asset[n].sync = "UNSYNCED"
         /\ sync[c].seen[n].copy = asset[n].copy
         /\ sync[c].step # "letter" => sync[c].seen[n].retries = asset[n].retries
         /\ sync[c].step = "mark" => told[n] # 0
         /\ \A d \in Cycle \ {c} : ~Payments!Row(d, n)
         /\ letters[n] = 0
         /\ sync[c].step # "letter" => asset[n].retries < MaxRetries \/ n \in stranded
         /\ n \notin unrecorded => told[n] \in {0, 1} /\ (told[n] # 0 => sync[c].step = "mark")
<1>1. SaleLone /\ SaleTrue(n) /\ SaleReads(c, n)
  BY DEF SaleInv, SaleAlone
<1>2. ~Payments!Idle(c)
  BY DEF Payments!Idle, SaleAtHand
<1>3. \A d \in Cycle \ {c} : sync[d].step = "off" /\ SaleShape(d)
  BY <1>1, <1>2 DEF SaleLone, Payments!Idle, SaleInv
<1>4. \A d \in Cycle \ {c} : ~Payments!Row(d, n)
  BY <1>3 DEF SaleShape, SaleAtHand, Payments!Row
<1>5. /\ asset[n].stage = "COMPILED" /\ asset[n].sync = "UNSYNCED" /\ n \notin making[c].todo
      /\ sync[c].seen[n].copy = asset[n].copy
      /\ sync[c].step # "letter" => sync[c].seen[n].retries = asset[n].retries
  BY <1>1 DEF SaleReads
<1>6. sync[c].step = "mark" => told[n] # 0
  BY <1>1 DEF SaleReads, SaleAtHand, Payments!Row
<1>7. letters[n] = 0
  BY <1>1, <1>5 DEF SaleTrue
<1>8. sync[c].step # "letter" => asset[n].retries < MaxRetries \/ n \in stranded
  BY <1>1, <1>4, <1>5 DEF SaleTrue
<1>9. n \notin unrecorded => told[n] \in {0, 1} /\ (told[n] # 0 => sync[c].step = "mark")
  BY <1>1, <1>4, <1>5 DEF SaleTrue
<1>10. QED
  BY <1>4, <1>5, <1>6, <1>7, <1>8, <1>9

(* A session is made for the row, or not.                                  *)
LEMMA SaleSell ==
  ASSUME Payments!CycleAssumption, Payments!LimitAssumption, SaleInv, NEW c \in Cycle, NEW n \in Node, Payments!Sell(c, n)
  PROVE  SaleInv'
<1> DEFINE copy == sync[c].seen[n].copy
           made == [key |-> copy, sessions |-> IF stripe[n].key = 0 THEN stripe[n].sessions + 1
                                               ELSE stripe[n].sessions]
<1>1. /\ sync[c].step = "row" /\ n \in sync[c].todo /\ Payments!SyncOnly
      /\ UNCHANGED <<asset, letters, told, raised, unrecorded, stranded>>
      /\ Payments!Fine \/ Payments!Fault
  BY DEF Payments!Sell, Payments!store
<1>2. \/ stripe' = stripe
      \/ stripe[n].key \in {0, copy} /\ stripe' = [stripe EXCEPT ![n] = made]
  BY DEF Payments!Sell
<1>3. \/ /\ sync' = [sync EXCEPT ![c].step = "tell", ![c].now = {n}, ![c].todo = @ \ {n}]
         /\ UNCHANGED circuit
      \/ Payments!Fails(c, n)
  BY DEF Payments!Sell
<1>4. /\ asset[n] \in SaleAsset /\ stripe[n] \in SaleStripe /\ SaleShape(c) /\ SaleRow(n) /\ SaleKey(n)
      /\ sync[c].seen[n] \in Payments!Seen /\ SaleTypes /\ SaleSets /\ SaleCircuit
  BY SaleKnows DEF SaleInv
<1>5. SaleHas(c, n) /\ copy # 0 /\ copy \in Payments!Copy
  BY <1>1, <1>4 DEF SaleHas, SaleShape, Payments!Seen
<1>6. \E s \in {"tell", "count"} : SaleMove(c, n, s)
  <2>1. CASE sync' = [sync EXCEPT ![c].step = "tell", ![c].now = {n}, ![c].todo = @ \ {n}]
    <3>1. "tell" \in Payments!SyncStep
      BY DEF Payments!SyncStep
    <3>2. SaleMove(c, n, "tell")
      BY <2>1, <3>1, SaleTakes
    <3>3. QED
      BY <3>2
  <2>2. CASE Payments!Fails(c, n)
    <3>1. "count" \in Payments!SyncStep
      BY DEF Payments!SyncStep
    <3>2. SaleMove(c, n, "count")
      BY <2>2, <3>1, SaleTakes DEF Payments!Fails
    <3>3. QED
      BY <3>2
  <2>3. QED
    BY <1>3, <2>1, <2>2
<1>7. SaleGood(circuit')
  <2>1. SaleGood(circuit)
    BY <1>4 DEF SaleGood, SaleCircuit
  <2>2. SaleGood(Payments!AfterFailure(circuit))
    BY <2>1, SaleBreaks
  <2>3. QED
    BY <1>3, <2>1, <2>2 DEF Payments!Fails
<1>8. /\ stripe' \in [Node -> SaleStripe] /\ SaleKey(n)'
      /\ \A m \in Node \ {n} : stripe'[m] = stripe[m]
  <2>1. expired' = expired /\ stripe \in [Node -> SaleStripe]
    BY <1>1, <1>4 DEF Payments!SyncOnly, SaleTypes
  <2>2. CASE stripe' = stripe
    BY <1>4, <2>1, <2>2 DEF SaleKey
  <2>3. CASE stripe[n].key \in {0, copy} /\ stripe' = [stripe EXCEPT ![n] = made]
    <3>1. made.sessions \in Nat /\ made.key = copy
      BY <1>4 DEF SaleStripe
    <3>2. made \in SaleStripe
      BY <1>5, <3>1 DEF SaleStripe
    <3>3. n \notin expired => made.sessions \in {0, 1}
      BY <1>4 DEF SaleKey
    <3>4. made.key # 0
      BY <1>5, <3>1
    <3> HIDE DEF made
    <3>5. stripe'[n] = made /\ stripe' \in [Node -> SaleStripe] /\ \A m \in Node \ {n} : stripe'[m] = stripe[m]
      BY <2>1, <2>3, <3>2
    <3>6. QED
      BY <2>1, <3>3, <3>4, <3>5 DEF SaleKey
  <2>4. QED
    BY <1>2, <2>2, <2>3
<1> HIDE DEF copy, made
<1>9. SaleSlot(c, n)
  <2>1. \E s \in SaleAtHand : SaleMove(c, n, s)
    BY <1>6 DEF SaleAtHand
  <2>2. /\ asset' \in [Node -> SaleAsset] /\ letters' \in [Node -> Nat] /\ told' \in [Node -> 0..2]
        /\ unrecorded' \subseteq Node /\ stranded' \subseteq Node /\ raised' \subseteq Cycle
    BY <1>1, <1>4 DEF SaleTypes, SaleSets
  <2>3. QED
    BY <1>1, <1>7, <1>8, <2>1, <2>2, SaleSlots
<1>10. SaleElse(n)
  BY <1>1, <1>8 DEF SaleElse
<1>11. SaleHere(c, n)
  <2>1. SaleRow(n)'
    BY <1>1, <1>4 DEF SaleRow
  <2>2. ASSUME ~overlapped PROVE SaleTrue(n)' /\ SaleReads(c, n)'
    <3>1. /\ n \notin making[c].todo
          /\ asset[n].stage = "COMPILED" /\ asset[n].sync = "UNSYNCED"
          /\ sync[c].seen[n].copy = asset[n].copy
          /\ sync[c].seen[n].retries = asset[n].retries
          /\ letters[n] = 0
          /\ asset[n].retries < MaxRetries \/ n \in stranded
          /\ n \notin unrecorded => told[n] = 0
      BY <1>1, <1>5, <2>2, SaleOwns
    <3>2. sync'[c].step \in {"tell", "count"} /\ sync'[c].seen = sync[c].seen /\ making' = making
      BY <1>1, <1>6 DEF SaleMove, Payments!SyncOnly
    <3>3. SaleTrue(n)'
      BY <1>1, <3>1 DEF SaleTrue
    <3>4. SaleReads(c, n)'
      BY <1>1, <3>1, <3>2 DEF SaleReads
    <3>5. QED
      BY <3>3, <3>4
  <2>3. QED
    BY <1>1, <1>8, <2>1, <2>2 DEF SaleHere
<1>12. QED
  BY <1>9, <1>10, <1>11, SaleAbout

(* The webhook takes the packet, or not.                                   *)
LEMMA SaleTell ==
  ASSUME Payments!CycleAssumption, Payments!LimitAssumption, SaleInv, NEW c \in Cycle, NEW n \in Node, Payments!Tell(c, n)
  PROVE  SaleInv'
<1>1. /\ sync[c].step = "tell" /\ Payments!Row(c, n) /\ Payments!SyncOnly
      /\ UNCHANGED <<asset, letters, stripe, raised, stranded>>
      /\ Payments!Fine \/ Payments!Fault
  BY DEF Payments!Tell, Payments!store
<1>2. \/ /\ told' = [told EXCEPT ![n] = IF @ < 2 THEN @ + 1 ELSE 2]
         /\ sync' = [sync EXCEPT ![c].step = "mark"] /\ UNCHANGED <<circuit, unrecorded>>
      \/ /\ told' = [told EXCEPT ![n] = IF @ < 2 THEN @ + 1 ELSE 2]
         /\ Payments!Fails(c, n) /\ unrecorded' = unrecorded \cup {n}
      \/ Payments!Fails(c, n) /\ UNCHANGED <<told, unrecorded>>
  BY DEF Payments!Tell
<1>3. /\ asset[n] \in SaleAsset /\ told[n] \in 0..2 /\ SaleShape(c) /\ SaleRow(n) /\ SaleKey(n)
      /\ SaleTypes /\ SaleSets /\ SaleCircuit
  BY SaleKnows DEF SaleInv
<1>4. SaleHas(c, n) /\ sync[c].step \in SaleAtHand
  BY <1>1 DEF SaleHas, Payments!Row, SaleAtHand
<1>5. \/ SaleMove(c, n, "mark") /\ sync' = [sync EXCEPT ![c].step = "mark"]
      \/ SaleMove(c, n, "count") /\ Payments!Fails(c, n)
  <2>1. CASE sync' = [sync EXCEPT ![c].step = "mark"]
    <3>1. "mark" \in Payments!SyncStep
      BY DEF Payments!SyncStep
    <3>2. SaleMove(c, n, "mark")
      BY <1>1, <1>4, <2>1, <3>1, SaleGoesOn
    <3>3. QED
      BY <2>1, <3>2
  <2>2. CASE Payments!Fails(c, n)
    <3>1. "count" \in Payments!SyncStep
      BY DEF Payments!SyncStep
    <3>2. SaleMove(c, n, "count")
      BY <2>2, <3>1, SaleTakes DEF Payments!Fails
    <3>3. QED
      BY <2>2, <3>2
  <2>3. QED
    BY <1>2, <2>1, <2>2
<1>6. SaleGood(circuit')
  <2>1. SaleGood(circuit)
    BY <1>3 DEF SaleGood, SaleCircuit
  <2>2. SaleGood(Payments!AfterFailure(circuit))
    BY <2>1, SaleBreaks
  <2>3. QED
    BY <1>2, <2>1, <2>2 DEF Payments!Fails
<1>7. /\ told' \in [Node -> 0..2] /\ \A m \in Node \ {n} : told'[m] = told[m]
      /\ told'[n] = told[n] \/ (told'[n] = (IF told[n] < 2 THEN told[n] + 1 ELSE 2))
  <2> DEFINE k == IF told[n] < 2 THEN told[n] + 1 ELSE 2
  <2>1. k \in 0..2 /\ told \in [Node -> 0..2]
    BY <1>3 DEF SaleTypes
  <2>2. told' = told \/ told' = [told EXCEPT ![n] = k]
    BY <1>2
  <2> HIDE DEF k
  <2>3. /\ told' \in [Node -> 0..2] /\ \A m \in Node \ {n} : told'[m] = told[m]
        /\ told'[n] = told[n] \/ told'[n] = k
    BY <2>1, <2>2
  <2>4. QED
    BY <2>3 DEF k
<1>8. /\ unrecorded' \subseteq unrecorded \cup {n} /\ unrecorded \subseteq unrecorded'
      /\ unrecorded' \subseteq Node
  BY <1>2, <1>3 DEF SaleSets
<1>9. SaleSlot(c, n)
  <2>1. \E s \in SaleAtHand : SaleMove(c, n, s)
    BY <1>5 DEF SaleAtHand
  <2>2. /\ asset' \in [Node -> SaleAsset] /\ letters' \in [Node -> Nat] /\ stripe' \in [Node -> SaleStripe]
        /\ stranded' \subseteq Node /\ raised' \subseteq Cycle
    BY <1>1, <1>3 DEF SaleTypes, SaleSets
  <2>3. QED
    BY <1>1, <1>4, <1>6, <1>7, <1>8, <2>1, <2>2, SaleSlots
<1>10. SaleElse(n)
  BY <1>1, <1>7, <1>8 DEF SaleElse
<1>11. SaleHere(c, n)
  <2>1. SaleRow(n)' /\ SaleKey(n)'
    BY <1>1, <1>3 DEF SaleRow, SaleKey, Payments!SyncOnly
  <2>2. ASSUME ~overlapped PROVE SaleTrue(n)' /\ SaleReads(c, n)'
    <3>1. /\ n \notin making[c].todo
          /\ asset[n].stage = "COMPILED" /\ asset[n].sync = "UNSYNCED"
          /\ sync[c].seen[n].copy = asset[n].copy
          /\ sync[c].seen[n].retries = asset[n].retries
          /\ letters[n] = 0
          /\ asset[n].retries < MaxRetries \/ n \in stranded
          /\ n \notin unrecorded => told[n] = 0
      BY <1>1, <1>4, <2>2, SaleOwns
    <3>2. sync'[c].seen = sync[c].seen /\ making' = making
      BY <1>1, <1>5 DEF SaleMove, Payments!SyncOnly
    <3>3. CASE SaleMove(c, n, "mark") /\ sync' = [sync EXCEPT ![c].step = "mark"]
      <4>1. sync'[c].step = "mark" /\ Payments!Row(c, n)'
        BY <3>3 DEF SaleMove, Payments!Row
      <4>2. ~Payments!Fails(c, n)
        <5>1. SUFFICES ASSUME Payments!Fails(c, n) PROVE FALSE
          OBVIOUS
        <5>2. "count" \in Payments!SyncStep
          BY DEF Payments!SyncStep
        <5>3. SaleMove(c, n, "count")
          BY <5>1, <5>2, SaleTakes DEF Payments!Fails
        <5>4. QED
          BY <4>1, <5>3 DEF SaleMove
      <4>3. told'[n] = (IF told[n] < 2 THEN told[n] + 1 ELSE 2) /\ unrecorded' = unrecorded
        <5>1. told \in [Node -> 0..2]
          BY <1>3 DEF SaleTypes
        <5>2. QED
          BY <1>2, <4>2, <5>1
      <4>4. told'[n] # 0 /\ (n \notin unrecorded => told'[n] = 1)
        BY <1>3, <3>1, <4>3
      <4>5. SaleTrue(n)'
        <5>1. n \notin unrecorded' => told'[n] \in {0, 1}
          BY <4>3, <4>4
        <5>2. asset'[n] = asset[n] /\ letters'[n] = 0 /\ stranded' = stranded
          BY <1>1, <3>1
        <5>3. QED
          BY <3>1, <4>1, <5>1, <5>2 DEF SaleTrue
      <4>6. SaleReads(c, n)'
        BY <1>1, <3>1, <3>2, <4>4 DEF SaleReads
      <4>7. QED
        BY <4>5, <4>6
    <3>4. CASE SaleMove(c, n, "count") /\ Payments!Fails(c, n)
      <4>1. sync'[c].step = "count"
        BY <3>4 DEF SaleMove
      <4>2. ~(sync' = [sync EXCEPT ![c].step = "mark"])
        <5>1. SUFFICES ASSUME sync' = [sync EXCEPT ![c].step = "mark"] PROVE FALSE
          OBVIOUS
        <5>2. "mark" \in Payments!SyncStep
          BY DEF Payments!SyncStep
        <5>3. SaleMove(c, n, "mark")
          BY <1>1, <1>4, <5>1, <5>2, SaleGoesOn
        <5>4. QED
          BY <4>1, <5>3 DEF SaleMove
      <4>3. n \in unrecorded' \/ (told' = told /\ unrecorded' = unrecorded)
        BY <1>2, <4>2
      <4>4. n \notin unrecorded' => told'[n] = 0
        BY <3>1, <4>3
      <4>5. SaleTrue(n)'
        <5>1. asset'[n] = asset[n] /\ letters'[n] = 0 /\ stranded' = stranded
          BY <1>1, <3>1
        <5>2. QED
          BY <3>1, <4>4, <5>1 DEF SaleTrue
      <4>6. SaleReads(c, n)'
        BY <1>1, <3>1, <3>2, <4>1 DEF SaleReads
      <4>7. QED
        BY <4>5, <4>6
    <3>5. QED
      BY <1>5, <3>3, <3>4
  <2>3. QED
    BY <1>1, <2>1, <2>2 DEF SaleHere
<1>12. QED
  BY <1>9, <1>10, <1>11, SaleAbout

(* The row is marked as sold, or not.                                      *)
LEMMA SaleMark ==
  ASSUME Payments!CycleAssumption, Payments!LimitAssumption, SaleInv, NEW c \in Cycle, NEW n \in Node, Payments!Mark(c, n)
  PROVE  SaleInv'
<1>1. /\ sync[c].step = "mark" /\ Payments!Row(c, n) /\ Payments!SyncOnly
      /\ UNCHANGED <<letters, stripe, told, raised, stranded>>
      /\ Payments!Fine \/ Payments!Fault
  BY DEF Payments!Mark, Payments!services
<1>2. /\ asset[n] \in SaleAsset /\ SaleShape(c) /\ SaleRow(n) /\ SaleKey(n)
      /\ SaleTypes /\ SaleSets /\ SaleCircuit /\ sync[c].seen[n] \in Payments!Seen
  BY SaleKnows DEF SaleInv
<1>3. SaleHas(c, n) /\ sync[c].step \in SaleAtHand
  BY <1>1 DEF SaleHas, Payments!Row, SaleAtHand
<1>4. SaleGood(circuit)
  BY <1>2 DEF SaleGood, SaleCircuit
<1>5. SaleGood(Payments!AfterFailure(circuit)) /\ SaleGood(Payments!AfterSuccess(circuit))
  BY <1>4, SaleBreaks
<1>6. /\ letters' \in [Node -> Nat] /\ stripe' \in [Node -> SaleStripe] /\ told' \in [Node -> 0..2]
      /\ stranded' \subseteq Node /\ raised' \subseteq Cycle
  BY <1>1, <1>2 DEF SaleTypes, SaleSets
<1>7. SaleKey(n)'
  BY <1>1, <1>2 DEF SaleKey, Payments!SyncOnly
<1>8. ~overlapped =>
        /\ n \notin making[c].todo
        /\ asset[n].stage = "COMPILED" /\ asset[n].sync = "UNSYNCED"
        /\ sync[c].seen[n].copy = asset[n].copy
        /\ sync[c].seen[n].retries = asset[n].retries
        /\ told[n] # 0 /\ letters[n] = 0
        /\ asset[n].retries < MaxRetries \/ n \in stranded
        /\ n \notin unrecorded => told[n] \in {0, 1}
  BY <1>1, <1>3, SaleOwns
<1>9. CASE /\ asset' = [asset EXCEPT ![n].sync = "SYNCED", ![n].sold = sync[c].seen[n].copy]
           /\ circuit' = Payments!AfterSuccess(circuit) /\ Payments!NextRow(c) /\ UNCHANGED unrecorded
  <2> DEFINE f == [asset EXCEPT ![n].sync = "SYNCED"]
             x == sync[c].seen[n].copy
             g == [f EXCEPT ![n].sold = x]
  <2>1. asset' = g
    BY <1>9
  <2>2. asset \in [Node -> SaleAsset] /\ x \in Payments!Copy
    BY <1>2 DEF SaleTypes, Payments!Seen
  <2>30. f = [asset EXCEPT ![n].sync = "SYNCED"] /\ "SYNCED" \in {"UNSYNCED", "SYNCED", "DEAD"}
    OBVIOUS
  <2> HIDE DEF f, x
  <2>3. /\ SaleOnly(asset, f, n) /\ f[n].stage = asset[n].stage /\ f[n].sync = "SYNCED"
        /\ f[n].retries = asset[n].retries /\ f[n].copy = asset[n].copy
    BY <2>2, <2>30 DEF SaleAsset, SaleOnly
  <2>31. g = [f EXCEPT ![n].sold = x]
    OBVIOUS
  <2> HIDE DEF g
  <2>4. f \in [Node -> SaleAsset]
    BY <2>3 DEF SaleOnly
  <2>5. /\ SaleOnly(f, g, n) /\ g[n].stage = f[n].stage /\ g[n].sync = f[n].sync
        /\ g[n].retries = f[n].retries /\ g[n].copy = f[n].copy /\ g[n].sold = x
    BY <2>2, <2>31, <2>4 DEF SaleAsset, SaleOnly
  <2>6. /\ asset' \in [Node -> SaleAsset] /\ \A m \in Node \ {n} : asset'[m] = asset[m]
        /\ asset'[n].stage = asset[n].stage /\ asset'[n].sync = "SYNCED"
        /\ asset'[n].retries = asset[n].retries /\ asset'[n].copy = asset[n].copy
        /\ asset'[n].sold = sync[c].seen[n].copy
    BY <2>1, <2>3, <2>5 DEF SaleOnly, x
  <2>7. SaleLeave(c, n)
    BY <1>1, <1>3, <1>9, SaleGoesAway
  <2>8. SaleSlot(c, n)
    <3>1. unrecorded' \subseteq Node /\ SaleGood(circuit')
      BY <1>2, <1>5, <1>9 DEF SaleSets
    <3>2. QED
      BY <1>1, <1>3, <1>6, <2>6, <2>7, <3>1, SaleSlots
  <2>9. SaleElse(n)
    BY <1>1, <1>9, <2>6 DEF SaleElse
  <2>10. SaleHere(c, n)
    <3>1. SaleRow(n)'
      BY <1>1, <1>2, <1>3, <2>6 DEF SaleRow, SaleShape
    <3>2. ASSUME ~overlapped PROVE SaleTrue(n)'
      BY <1>1, <1>8, <1>9, <2>6, <3>2 DEF SaleTrue
    <3>3. n \notin sync'[c].now
      BY <2>7 DEF SaleLeave
    <3>4. QED
      BY <1>1, <1>7, <2>6, <3>1, <3>2, <3>3 DEF SaleHere
  <2>11. QED
    BY <2>8, <2>9, <2>10, SaleAbout
<1>10. CASE Payments!Fails(c, n) /\ unrecorded' = unrecorded \cup {n} /\ UNCHANGED asset
  <2>1. "count" \in Payments!SyncStep
    BY DEF Payments!SyncStep
  <2>2. SaleMove(c, n, "count")
    BY <1>10, <2>1, SaleTakes DEF Payments!Fails
  <2>3. SaleSlot(c, n)
    <3>1. unrecorded' \subseteq Node /\ SaleGood(circuit') /\ asset' \in [Node -> SaleAsset]
      BY <1>2, <1>5, <1>10 DEF SaleSets, SaleTypes, Payments!Fails
    <3>2. \E s \in SaleAtHand : SaleMove(c, n, s)
      BY <2>2 DEF SaleAtHand
    <3>3. QED
      BY <1>1, <1>3, <1>6, <3>1, <3>2, SaleSlots
  <2>4. SaleElse(n)
    BY <1>1, <1>10 DEF SaleElse
  <2>5. SaleHere(c, n)
    <3>1. SaleRow(n)'
      BY <1>1, <1>2, <1>10 DEF SaleRow
    <3>2. ASSUME ~overlapped PROVE SaleTrue(n)' /\ SaleReads(c, n)'
      <4>1. SaleTrue(n)'
        BY <1>1, <1>8, <1>10, <3>2 DEF SaleTrue
      <4>2. sync'[c].seen = sync[c].seen /\ sync'[c].step = "count" /\ making' = making
        BY <1>1, <2>2 DEF SaleMove, Payments!SyncOnly
      <4>3. SaleReads(c, n)'
        BY <1>8, <1>10, <3>2, <4>2 DEF SaleReads
      <4>4. QED
        BY <4>1, <4>3
    <3>3. QED
      BY <1>1, <1>7, <1>10, <3>1, <3>2 DEF SaleHere
  <2>6. QED
    BY <2>3, <2>4, <2>5, SaleAbout
<1>11. QED
  BY <1>9, <1>10 DEF Payments!Mark

(* A failed attempt is counted.                                            *)
LEMMA SaleCounts ==
  ASSUME Payments!CycleAssumption, Payments!LimitAssumption, SaleInv, NEW c \in Cycle, NEW n \in Node, Payments!Count(c, n)
  PROVE  SaleInv'
<1>1. /\ sync[c].step = "count" /\ Payments!Row(c, n) /\ Payments!SyncOnly
      /\ UNCHANGED <<letters, stripe, told, circuit, unrecorded, stranded>>
      /\ Payments!Fine \/ Payments!Fault
  BY DEF Payments!Count, Payments!SyncRaises, Payments!services
<1>2. /\ asset[n] \in SaleAsset /\ SaleShape(c) /\ SaleRow(n) /\ SaleKey(n)
      /\ SaleTypes /\ SaleSets /\ SaleCircuit /\ sync[c].seen[n] \in Payments!Seen
  BY SaleKnows DEF SaleInv
<1>3. SaleHas(c, n) /\ sync[c].step \in SaleAtHand
  BY <1>1 DEF SaleHas, Payments!Row, SaleAtHand
<1>4. SaleGood(circuit')
  BY <1>1, <1>2 DEF SaleGood, SaleCircuit
<1>5. /\ letters' \in [Node -> Nat] /\ stripe' \in [Node -> SaleStripe] /\ told' \in [Node -> 0..2]
      /\ unrecorded' \subseteq Node /\ stranded' \subseteq Node
  BY <1>1, <1>2 DEF SaleTypes, SaleSets
<1>6. SaleKey(n)' /\ making' = making
  BY <1>1, <1>2 DEF SaleKey, Payments!SyncOnly
<1>7. ~overlapped =>
        /\ n \notin making[c].todo
        /\ asset[n].stage = "COMPILED" /\ asset[n].sync = "UNSYNCED"
        /\ sync[c].seen[n].copy = asset[n].copy
        /\ sync[c].seen[n].retries = asset[n].retries
        /\ letters[n] = 0
        /\ asset[n].retries < MaxRetries \/ n \in stranded
        /\ n \notin unrecorded => told[n] = 0
  BY <1>1, <1>3, SaleOwns
<1>8. asset[n].stage # "QUEUED"
  BY <1>2, <1>3 DEF SaleShape
<1>9. CASE /\ asset' = [asset EXCEPT ![n].retries = @ + 1] /\ Payments!Fine /\ UNCHANGED raised
           /\ IF Payments!Exhausted(c, n) THEN sync' = [sync EXCEPT ![c].step = "letter"] ELSE Payments!NextRow(c)
  <2>1. /\ asset' \in [Node -> SaleAsset] /\ \A m \in Node \ {n} : asset'[m] = asset[m]
        /\ asset'[n].stage = asset[n].stage /\ asset'[n].sync = asset[n].sync
        /\ asset'[n].retries = asset[n].retries + 1 /\ asset'[n].copy = asset[n].copy
        /\ asset'[n].sold = asset[n].sold
    <3> DEFINE k == asset[n].retries + 1
    <3>1. k \in Nat /\ asset \in [Node -> SaleAsset]
      BY <1>2 DEF SaleAsset, SaleTypes
    <3>2. asset' = [asset EXCEPT ![n].retries = k]
      BY <1>9
    <3> HIDE DEF k
    <3>3. /\ asset' \in [Node -> SaleAsset] /\ \A m \in Node \ {n} : asset'[m] = asset[m]
          /\ asset'[n].stage = asset[n].stage /\ asset'[n].sync = asset[n].sync
          /\ asset'[n].retries = k /\ asset'[n].copy = asset[n].copy
          /\ asset'[n].sold = asset[n].sold
      BY <3>1, <3>2 DEF SaleAsset
    <3>4. QED
      BY <3>3 DEF k
  <2>2. CASE Payments!Exhausted(c, n)
    <3>1. "letter" \in Payments!SyncStep
      BY DEF Payments!SyncStep
    <3>2. SaleMove(c, n, "letter")
      <4>1. sync' = [sync EXCEPT ![c].step = "letter"]
        BY <1>9, <2>2
      <4>2. QED
        BY <1>1, <1>3, <3>1, <4>1, SaleGoesOn
    <3>3. SaleSlot(c, n)
      <4>1. (\E s \in SaleAtHand : SaleMove(c, n, s)) /\ raised' \subseteq Cycle
        BY <1>2, <1>9, <3>2 DEF SaleAtHand, SaleSets
      <4>2. QED
        BY <1>1, <1>3, <1>4, <1>5, <2>1, <4>1, SaleSlots
    <3>4. SaleElse(n)
      BY <1>1, <2>1 DEF SaleElse
    <3>5. SaleRow(n)'
      BY <1>1, <1>2, <1>8, <2>1 DEF SaleRow
    <3>6. ASSUME ~overlapped PROVE SaleTrue(n)' /\ SaleReads(c, n)'
      <4>1. sync'[c].seen = sync[c].seen /\ sync'[c].step = "letter" /\ Payments!Row(c, n)'
        BY <3>2 DEF SaleMove, Payments!Row
      <4>2. SaleTrue(n)'
        BY <1>1, <1>7, <2>1, <3>6, <4>1 DEF SaleTrue
      <4>3. n \in sync'[c].now
        BY <4>1 DEF Payments!Row
      <4>4. SaleReads(c, n)'
        BY <1>6, <1>7, <2>1, <3>6, <4>1, <4>3 DEF SaleReads
      <4>5. QED
        BY <4>2, <4>4
    <3>7. SaleHere(c, n)
      BY <1>1, <1>6, <2>1, <3>5, <3>6 DEF SaleHere
    <3>8. QED
      BY <3>3, <3>4, <3>7, SaleAbout
  <2>3. CASE ~Payments!Exhausted(c, n)
    <3>1. SaleLeave(c, n)
      <4>1. Payments!NextRow(c)
        BY <1>9, <2>3
      <4>2. QED
        BY <1>1, <1>3, <4>1, SaleGoesAway
    <3>2. SaleSlot(c, n)
      <4>1. raised' \subseteq Cycle
        BY <1>2, <1>9 DEF SaleSets
      <4>2. QED
        BY <1>1, <1>3, <1>4, <1>5, <2>1, <3>1, <4>1, SaleSlots
    <3>3. SaleElse(n)
      BY <1>1, <2>1 DEF SaleElse
    <3>4. SaleRow(n)'
      BY <1>1, <1>2, <1>8, <2>1 DEF SaleRow
    <3>5. ASSUME ~overlapped PROVE SaleTrue(n)'
      <4>1. asset'[n].retries < MaxRetries
        <5>1. MaxRetries \in Nat /\ sync[c].seen[n].retries \in Nat
          BY <1>2 DEF Payments!LimitAssumption, Payments!Seen
        <5>2. ~(sync[c].seen[n].retries + 1 >= MaxRetries)
          BY <2>3 DEF Payments!Exhausted
        <5>3. asset'[n].retries = sync[c].seen[n].retries + 1
          BY <1>7, <2>1, <3>5
        <5>4. QED
          BY <5>1, <5>2, <5>3
      <4>2. QED
        BY <1>1, <1>7, <2>1, <3>5, <4>1 DEF SaleTrue
    <3>6. n \notin sync'[c].now
      BY <3>1 DEF SaleLeave
    <3>7. SaleHere(c, n)
      BY <1>1, <1>6, <2>1, <3>4, <3>5, <3>6 DEF SaleHere
    <3>8. QED
      BY <3>2, <3>3, <3>7, SaleAbout
  <2>4. QED
    BY <2>2, <2>3
<1>10. CASE Payments!SyncRaises(c) /\ UNCHANGED asset
  <2>1. SaleLeave(c, n)
    <3>1. sync' = [sync EXCEPT ![c] = Payments!NotSyncing]
      BY <1>10 DEF Payments!SyncRaises
    <3>2. QED
      BY <1>1, <1>3, <3>1, SaleGoesAway
  <2>2. SaleSlot(c, n)
    <3>1. raised' \subseteq Cycle /\ asset' \in [Node -> SaleAsset]
      BY <1>2, <1>10 DEF SaleSets, SaleTypes, Payments!SyncRaises
    <3>2. QED
      BY <1>1, <1>3, <1>4, <1>5, <2>1, <3>1, SaleSlots
  <2>3. SaleElse(n)
    BY <1>1, <1>10 DEF SaleElse
  <2>4. SaleRow(n)'
    BY <1>1, <1>2, <1>10 DEF SaleRow
  <2>5. ASSUME ~overlapped PROVE SaleTrue(n)'
    BY <1>1, <1>7, <1>10, <2>5 DEF SaleTrue
  <2>6. n \notin sync'[c].now
    BY <2>1 DEF SaleLeave
  <2>7. SaleHere(c, n)
    BY <1>1, <1>6, <1>10, <2>4, <2>5, <2>6 DEF SaleHere
  <2>8. QED
    BY <2>2, <2>3, <2>7, SaleAbout
<1>11. QED
  BY <1>9, <1>10 DEF Payments!Count

(* A row is given up on, with a letter or without.                         *)
LEMMA SaleLetters ==
  ASSUME Payments!CycleAssumption, Payments!LimitAssumption, SaleInv, NEW c \in Cycle, NEW n \in Node, Payments!Letter(c, n)
  PROVE  SaleInv'
<1>1. /\ sync[c].step = "letter" /\ Payments!Row(c, n) /\ Payments!SyncOnly
      /\ UNCHANGED <<stripe, told, circuit, unrecorded>>
      /\ Payments!Fine \/ Payments!Fault
  BY DEF Payments!Letter, Payments!SyncRaises, Payments!services
<1>2. /\ asset[n] \in SaleAsset /\ SaleShape(c) /\ SaleRow(n) /\ SaleKey(n) /\ letters[n] \in Nat
      /\ SaleTypes /\ SaleSets /\ SaleCircuit
  BY SaleKnows DEF SaleInv
<1>3. SaleHas(c, n) /\ sync[c].step \in SaleAtHand
  BY <1>1 DEF SaleHas, Payments!Row, SaleAtHand
<1>4. SaleGood(circuit')
  BY <1>1, <1>2 DEF SaleGood, SaleCircuit
<1>5. /\ stripe' \in [Node -> SaleStripe] /\ told' \in [Node -> 0..2]
      /\ unrecorded' \subseteq Node
  BY <1>1, <1>2 DEF SaleTypes, SaleSets
<1>6. SaleKey(n)' /\ making' = making
  BY <1>1, <1>2 DEF SaleKey, Payments!SyncOnly
<1>7. ~overlapped =>
        /\ asset[n].stage = "COMPILED" /\ asset[n].sync = "UNSYNCED" /\ letters[n] = 0
        /\ n \notin unrecorded => told[n] = 0
  BY <1>1, <1>3, SaleOwns
<1>8. asset[n].stage # "QUEUED"
  BY <1>2, <1>3 DEF SaleShape
<1>9. SaleLeave(c, n)
  <2>1. Payments!NextRow(c) \/ sync' = [sync EXCEPT ![c] = Payments!NotSyncing]
    BY DEF Payments!Letter, Payments!SyncRaises
  <2>2. QED
    BY <1>1, <1>3, <2>1, SaleGoesAway
<1>10. n \notin sync'[c].now /\ sync'[c].now = {}
  BY <1>9 DEF SaleLeave
<1>11. CASE /\ asset' = [asset EXCEPT ![n].sync = "DEAD"] /\ letters' = [letters EXCEPT ![n] = @ + 1]
            /\ UNCHANGED <<raised, stranded>>
  <2>1. /\ asset' \in [Node -> SaleAsset] /\ \A m \in Node \ {n} : asset'[m] = asset[m]
        /\ asset'[n].stage = asset[n].stage /\ asset'[n].sync = "DEAD"
        /\ asset'[n].copy = asset[n].copy
    <3>1. asset \in [Node -> SaleAsset]
      BY <1>2 DEF SaleTypes
    <3>2. asset' = [asset EXCEPT ![n].sync = "DEAD"]
      BY <1>11
    <3>3. QED
      BY <3>1, <3>2 DEF SaleAsset
  <2>2. /\ letters' \in [Node -> Nat] /\ letters'[n] = letters[n] + 1
        /\ \A m \in Node \ {n} : letters'[m] = letters[m]
    BY <1>2, <1>11 DEF SaleTypes
  <2>3. SaleSlot(c, n)
    <3>1. raised' \subseteq Cycle /\ stranded' \subseteq Node
      BY <1>2, <1>11 DEF SaleSets
    <3>2. QED
      BY <1>1, <1>3, <1>4, <1>5, <1>9, <2>1, <2>2, <3>1, SaleSlots
  <2>4. SaleElse(n)
    BY <1>1, <1>11, <2>1, <2>2 DEF SaleElse
  <2>5. SaleRow(n)'
    BY <1>2, <1>8, <2>1 DEF SaleRow
  <2>6. ASSUME ~overlapped PROVE SaleTrue(n)'
    BY <1>1, <1>7, <2>1, <2>2, <2>6 DEF SaleTrue
  <2>7. SaleHere(c, n)
    BY <1>6, <1>10, <2>1, <2>2, <2>5, <2>6 DEF SaleHere
  <2>8. QED
    BY <2>3, <2>4, <2>7, SaleAbout
<1>12. CASE Payments!SyncRaises(c) /\ stranded' = stranded \cup {n} /\ UNCHANGED Payments!store
  <2>1. asset' = asset /\ letters' = letters
    BY <1>12 DEF Payments!store
  <2>2. SaleSlot(c, n)
    <3>1. /\ raised' \subseteq Cycle /\ stranded' \subseteq Node
          /\ asset' \in [Node -> SaleAsset] /\ letters' \in [Node -> Nat]
      BY <1>2, <1>12, <2>1 DEF SaleSets, SaleTypes, Payments!SyncRaises
    <3>2. QED
      BY <1>1, <1>3, <1>4, <1>5, <1>9, <3>1, SaleSlots
  <2>3. SaleElse(n)
    BY <1>1, <1>12, <2>1 DEF SaleElse
  <2>4. SaleRow(n)'
    BY <1>2, <2>1 DEF SaleRow
  <2>5. ASSUME ~overlapped PROVE SaleTrue(n)'
    BY <1>1, <1>7, <1>12, <2>1, <2>5 DEF SaleTrue
  <2>6. SaleHere(c, n)
    BY <1>6, <1>10, <2>1, <2>4, <2>5 DEF SaleHere
  <2>7. QED
    BY <2>2, <2>3, <2>6, SaleAbout
<1>13. QED
  BY <1>11, <1>12 DEF Payments!Letter

(* As many letters, and no slot has a row it did not have.                 *)
LEMMA SaleNoMore ==
  ASSUME Payments!CycleAssumption, SaleInv, NEW m \in Node, letters'[m] = letters[m],
         \A d \in Cycle : SaleHas(d, m)' => SaleHas(d, m)
  PROVE  SaleCount(m)'
<1>1. IsFiniteSet(Cycle) /\ SaleHolders(m) \subseteq Cycle /\ SaleCount(m) /\ letters[m] \in Nat
  BY SaleFinite DEF SaleHolders, SaleInv, SaleTypes
<1>2. IsFiniteSet(SaleHolders(m)) /\ Cardinality(SaleHolders(m)) \in Nat /\ Cardinality(Cycle) \in Nat
  BY <1>1, CountSubset
<1>3. SaleHolders(m)' \subseteq SaleHolders(m)
  BY DEF SaleHolders
<1>4. Cardinality(SaleHolders(m)') \in Nat /\ Cardinality(SaleHolders(m)') <= Cardinality(SaleHolders(m))
  BY <1>2, <1>3, CountSubset
<1>5. letters[m] + Cardinality(SaleHolders(m)) <= Cardinality(Cycle)
  BY <1>1 DEF SaleCount
<1>6. letters'[m] + Cardinality(SaleHolders(m)') <= Cardinality(Cycle)
  BY <1>1, <1>2, <1>4, <1>5
<1>7. QED
  BY <1>6 DEF SaleCount

(* A slot starts, stops before it has a row at hand, or finds the webhook  *)
(* up.                                                                     *)
SaleTame(d) ==
  \/ sync'[d] = sync[d]
  \/ /\ sync[d].step \in {"off", "read", "probe"} /\ sync'[d].now = {} /\ sync'[d].todo = {}
     /\ sync'[d].step \in {"off", "read"}
  \/ /\ sync[d].step = "probe" /\ sync'[d].step = "row" /\ sync'[d].now = {}
     /\ sync'[d].todo = sync[d].todo /\ sync'[d].seen = sync[d].seen
SalePool(d) ==
  /\ making'[d].step # "make" => making'[d].todo = {}
  /\ \A m \in making'[d].todo : m \in making[d].todo \/ asset[m].stage = "QUEUED"

(* Such steps keep the invariant.                                          *)
LEMMA SaleCalm ==
  ASSUME Payments!CycleAssumption, SaleInv, SaleTypes', SaleSets', (faults \in 0..MaxFaults)', SaleCircuit',
         UNCHANGED <<asset, letters, told, unrecorded, stranded>>,
         \A m \in Node : SaleKey(m)',
         \A d \in Cycle : SaleTame(d) /\ SalePool(d),
         overlapped' \/ (~overlapped /\ SaleLone')
  PROVE  SaleInv'
<1>1. \A d \in Cycle : SaleShape(d) /\ SaleTame(d) /\ SalePool(d)
  BY DEF SaleInv
<1>2. \A d \in Cycle, m \in Node : SaleHas(d, m)' => SaleHas(d, m) /\ sync'[d].seen = sync[d].seen
  BY <1>1 DEF SaleHas, SaleTame
<1>3. ASSUME NEW d \in Cycle PROVE SaleShape(d)'
  <2>1. (making[d].step # "make" => making[d].todo = {})'
    BY <1>1 DEF SalePool
  <2>2. \A m \in Node : (SaleHas(d, m) => sync[d].seen[m].copy # 0 /\ asset[m].stage # "QUEUED")'
    <3>1. \A m \in Node : SaleHas(d, m) => sync[d].seen[m].copy # 0 /\ asset[m].stage # "QUEUED"
      BY <1>1 DEF SaleShape
    <3>2. QED
      BY <1>2, <3>1
  <2>3. CASE sync'[d] = sync[d]
    <3>1. /\ sync'[d].step \in {"off", "read"} => sync'[d].todo = {}
          /\ sync'[d].step \notin SaleAtHand => sync'[d].now = {}
          /\ sync'[d].step \in SaleAtHand => \E n \in Node : sync'[d].now = {n} /\ n \notin sync'[d].todo
      BY <1>1, <2>3 DEF SaleShape
    <3>2. QED
      BY <2>1, <2>2, <3>1 DEF SaleShape, SaleAtHand
  <2>4. CASE sync'[d].step \in {"off", "read"} /\ sync'[d].todo = {} /\ sync'[d].now = {}
    BY <2>1, <2>2, <2>4 DEF SaleShape, SaleAtHand
  <2>5. CASE sync'[d].step = "row" /\ sync'[d].now = {}
    BY <2>1, <2>2, <2>5 DEF SaleShape, SaleAtHand
  <2>6. QED
    BY <1>1, <2>3, <2>4, <2>5 DEF SaleTame
<1>4. ASSUME NEW m \in Node PROVE SaleRow(m)' /\ SaleKey(m)' /\ SaleCount(m)'
  <2>1. SaleRow(m)
    BY DEF SaleInv
  <2>2. SaleRow(m)'
    BY <2>1 DEF SaleRow
  <2>3. SaleCount(m)'
    BY <1>2, SaleNoMore
  <2>4. QED
    BY <2>2, <2>3
<1>5. ASSUME ~overlapped' PROVE SaleAlone'
  <2>1. ~overlapped /\ SaleLone'
    BY <1>5
  <2>2. \A m \in Node : SaleTrue(m) /\ \A d \in Cycle : SaleReads(d, m)
    BY <2>1 DEF SaleInv, SaleAlone
  <2>3. ASSUME NEW m \in Node PROVE SaleTrue(m)'
    <3>1. \A d \in Cycle : sync[d].step \in {"letter", "mark"} => sync'[d] = sync[d]
      BY <1>1 DEF SaleTame
    <3>2. \A d \in Cycle : sync[d].step = "letter" /\ Payments!Row(d, m) => (sync[d].step = "letter" /\ Payments!Row(d, m))'
      BY <3>1 DEF Payments!Row
    <3>3. \A d \in Cycle : sync[d].step = "mark" /\ Payments!Row(d, m) => (sync[d].step = "mark" /\ Payments!Row(d, m))'
      BY <3>1 DEF Payments!Row
    <3>4. SaleTrue(m)
      BY <2>2
    <3>5. QED
      BY <3>2, <3>3, <3>4 DEF SaleTrue
  <2>4. ASSUME NEW m \in Node, NEW d \in Cycle PROVE SaleReads(d, m)'
    <3>1. SaleReads(d, m) /\ (m \in making'[d].todo => asset'[m].stage = "QUEUED")
      BY <1>1, <2>2 DEF SaleReads, SalePool
    <3>2. CASE ~SaleHas(d, m)'
      BY <3>1, <3>2 DEF SaleReads
    <3>3. CASE SaleHas(d, m)' /\ sync'[d] = sync[d]
      <4>1. SaleHas(d, m)
        BY <1>2, <3>3
      <4>2. QED
        BY <3>1, <3>3, <4>1 DEF SaleReads
    <3>4. CASE SaleHas(d, m)' /\ sync'[d] # sync[d]
      <4>1. SaleHas(d, m) /\ sync'[d].seen = sync[d].seen
        BY <1>2, <3>4
      <4>2. sync[d].step = "probe" /\ sync'[d].step = "row"
        BY <1>1, <3>4 DEF SaleTame, SaleHas
      <4>3. /\ asset[m].stage = "COMPILED" /\ asset[m].sync = "UNSYNCED"
            /\ sync[d].seen[m].copy = asset[m].copy /\ sync[d].seen[m].retries = asset[m].retries
        BY <3>1, <4>1, <4>2 DEF SaleReads
      <4>4. QED
        BY <3>1, <4>1, <4>2, <4>3 DEF SaleReads
    <3>5. QED
      BY <3>2, <3>3, <3>4
  <2>5. QED
    BY <2>1, <2>3, <2>4 DEF SaleAlone
<1>6. QED
  BY <1>3, <1>4, <1>5 DEF SaleInv

(* A cycle begins in a slot that is idle.                                  *)
LEMMA SaleBegin ==
  ASSUME Payments!CycleAssumption, Payments!LimitAssumption, SaleInv, NEW c \in Cycle, Payments!BeginCycle(c)
  PROVE  SaleInv'
<1>1. /\ making' = [making EXCEPT ![c].step = "read"] /\ sync' = [sync EXCEPT ![c].step = "read"]
      /\ raised' \subseteq raised /\ overlapped' = (overlapped \/ \E d \in Cycle : ~Payments!Idle(d))
      /\ Payments!Idle(c) /\ faults' = faults
      /\ UNCHANGED <<asset, letters, stripe, told, circuit, expired, unrecorded, stranded>>
  BY DEF Payments!BeginCycle, Payments!FirstIdle, Payments!Fine, Payments!store, Payments!services
<1>2. /\ SaleTypes /\ SaleSets /\ faults \in 0..MaxFaults /\ SaleCircuit /\ SaleShape(c)
      /\ making[c] \in SaleMaking /\ sync[c] \in SaleSync /\ making \in [Cycle -> SaleMaking]
      /\ sync \in [Cycle -> SaleSync]
  BY DEF SaleInv, SaleTypes
<1>3. /\ making' \in [Cycle -> SaleMaking] /\ making'[c].step = "read"
      /\ making'[c].todo = making[c].todo /\ \A d \in Cycle \ {c} : making'[d] = making[d]
  BY <1>1, <1>2 DEF SaleMaking
<1>4. /\ sync' \in [Cycle -> SaleSync] /\ sync'[c].step = "read"
      /\ sync'[c].todo = sync[c].todo /\ sync'[c].now = sync[c].now
      /\ \A d \in Cycle \ {c} : sync'[d] = sync[d]
  BY <1>1, <1>2 DEF SaleSync, Payments!SyncStep
<1>5. making[c].todo = {} /\ sync[c].todo = {} /\ sync[c].now = {} /\ sync[c].step = "off"
  BY <1>1, <1>2 DEF Payments!Idle, SaleShape, SaleAtHand
<1>6. SaleTypes'
  BY <1>1, <1>2, <1>3, <1>4 DEF SaleTypes
<1>7. SaleSets'
  <2>1. overlapped' \in BOOLEAN
    BY <1>1
  <2>2. QED
    BY <1>1, <1>2, <2>1 DEF SaleSets
<1>8. (faults \in 0..MaxFaults)' /\ SaleCircuit'
  BY <1>1, <1>2 DEF SaleCircuit
<1>9. \A m \in Node : SaleKey(m)'
  BY <1>1 DEF SaleInv, SaleKey
<1>10. ASSUME NEW d \in Cycle PROVE SaleTame(d) /\ SalePool(d)
  <2>1. SaleShape(d)
    BY DEF SaleInv
  <2>2. SaleTame(d)
    BY <1>4, <1>5 DEF SaleTame
  <2>3. SalePool(d)
    BY <1>3, <1>5, <2>1 DEF SalePool, SaleShape
  <2>4. QED
    BY <2>2, <2>3
<1>11. overlapped' \/ (~overlapped /\ SaleLone')
  <2>1. SUFFICES ASSUME ~overlapped' PROVE ~overlapped /\ SaleLone'
    OBVIOUS
  <2>2. ~overlapped /\ \A d \in Cycle : Payments!Idle(d)
    BY <1>1, <2>1
  <2>3. \A d \in Cycle \ {c} : Payments!Idle(d)'
    BY <1>3, <1>4, <2>2 DEF Payments!Idle
  <2>4. QED
    BY <2>2, <2>3 DEF SaleLone
<1>12. UNCHANGED <<asset, letters, told, unrecorded, stranded>>
  BY <1>1
<1>13. QED
  BY <1>6, <1>7, <1>8, <1>9, <1>10, <1>11, <1>12, SaleCalm

(* A step that begins nothing leaves one slot at work at most.             *)
LEMMA SaleStays ==
  ASSUME SaleInv, overlapped' = overlapped, \A d \in Cycle : Payments!Idle(d) => Payments!Idle(d)'
  PROVE  overlapped' \/ (~overlapped /\ SaleLone')
<1>1. ASSUME ~overlapped PROVE SaleLone'
  BY <1>1 DEF SaleInv, SaleAlone, SaleLone
<1>2. QED
  BY <1>1

(* A tick raises, the clock moves on, or Stripe drops a key.               *)
LEMMA SaleOutside ==
  ASSUME Payments!CycleAssumption, Payments!LimitAssumption, SaleInv,
         (\E c \in Cycle : Payments!TickRaises(c)) \/ Payments!Elapse \/ \E n \in Node : Payments!KeyExpires(n)
  PROVE  SaleInv'
<1>1. /\ UNCHANGED <<asset, letters, told, making, sync, overlapped, unrecorded, stranded>>
      /\ raised' \subseteq raised \cup Cycle /\ (Payments!Fault \/ Payments!Fine)
      /\ expired \subseteq expired' /\ expired' \subseteq expired \cup Node
  BY DEF Payments!TickRaises, Payments!Elapse, Payments!KeyExpires, Payments!Fine,
     Payments!Fault, Payments!store, Payments!services, Payments!history
<1>2. /\ SaleTypes /\ SaleSets /\ faults \in 0..MaxFaults /\ SaleCircuit
      /\ \A n \in Node : SaleKey(n)
  BY DEF SaleInv
<1>3. (faults \in 0..MaxFaults)'
  BY <1>1, <1>2 DEF Payments!Fine, Payments!Fault, Payments!LimitAssumption
<1>4. SaleCircuit'
  <2>1. CASE Payments!Elapse
    <3>1. /\ circuit' = [state |-> circuit.state, failures |-> circuit.failures,
                         successes |-> circuit.successes, cooled |-> TRUE]
          /\ circuit \in SaleBreaker
      BY <1>2, <2>1 DEF Payments!Elapse, SaleCircuit, SaleBreaker
    <3>2. circuit' \in SaleBreaker
      BY <3>1 DEF SaleBreaker
    <3>3. QED
      BY <1>2, <3>1, <3>2 DEF SaleCircuit
  <2>2. CASE ~Payments!Elapse
    <3>1. circuit' = circuit
      BY <2>2 DEF Payments!TickRaises, Payments!KeyExpires
    <3>2. QED
      BY <1>2, <3>1 DEF SaleCircuit
  <2>3. QED
    BY <2>1, <2>2
<1>5. SaleSets'
  BY <1>1, <1>2 DEF SaleSets
<1>6. stripe' \in [Node -> SaleStripe] /\ \A m \in Node : SaleKey(m)'
  <2>1. CASE stripe' = stripe
    BY <1>1, <1>2, <2>1 DEF SaleTypes, SaleKey
  <2>2. ASSUME NEW n \in Node, Payments!KeyExpires(n) PROVE stripe' \in [Node -> SaleStripe] /\ \A m \in Node : SaleKey(m)'
    <3>1. stripe' = [stripe EXCEPT ![n].key = 0] /\ n \in expired' /\ stripe \in [Node -> SaleStripe]
      BY <1>2, <2>2 DEF Payments!KeyExpires, SaleTypes
    <3>2. 0 \in Payments!Copy
      BY DEF Payments!Copy
    <3>3. stripe' \in [Node -> SaleStripe] /\ \A m \in Node \ {n} : stripe'[m] = stripe[m]
      BY <3>1, <3>2 DEF SaleStripe
    <3>4. QED
      BY <1>1, <1>2, <3>1, <3>3 DEF SaleKey
  <2>3. stripe' = stripe \/ \E n \in Node : Payments!KeyExpires(n)
    BY DEF Payments!TickRaises, Payments!Elapse, Payments!services
  <2>4. QED
    BY <2>1, <2>2, <2>3
<1>7. SaleTypes'
  BY <1>1, <1>2, <1>6 DEF SaleTypes
<1>8. \A d \in Cycle : SaleTame(d) /\ SalePool(d)
  BY <1>1 DEF SaleTame, SalePool, SaleInv, SaleShape
<1>9. overlapped' \/ (~overlapped /\ SaleLone')
  BY <1>1, SaleStays DEF Payments!Idle
<1>10. QED
  BY <1>1, <1>3, <1>4, <1>5, <1>6, <1>7, <1>8, <1>9, SaleCalm

(* The pool reads its queue, or fails to.                                  *)
LEMMA SaleGenRead ==
  ASSUME Payments!CycleAssumption, Payments!LimitAssumption, SaleInv, NEW c \in Cycle, Payments!GenRead(c)
  PROVE  SaleInv'
<1>1. /\ making[c].step = "read"
      /\ UNCHANGED <<asset, letters, stripe, told, circuit, sync, overlapped, expired, unrecorded, stranded>>
      /\ raised' \subseteq raised \cup {c} /\ (Payments!Fault \/ Payments!Fine)
      /\ \/ making' = [making EXCEPT ![c] = Payments!NotMaking]
         \/ making' = [making EXCEPT ![c] = [step |-> "make", todo |-> Payments!Pending]]
  <2>1. making[c].step = "read" /\ UNCHANGED asset /\ Payments!MakeOnly
    BY DEF Payments!GenRead
  <2>2. UNCHANGED <<letters, stripe, told, circuit, sync, overlapped, expired, unrecorded, stranded>>
    BY <2>1 DEF Payments!MakeOnly, Payments!services, Payments!history
  <2>3. raised' \subseteq raised \cup {c} /\ (Payments!Fault \/ Payments!Fine)
    BY DEF Payments!GenRead, Payments!MakeRaises
  <2>4. \/ making' = [making EXCEPT ![c] = Payments!NotMaking]
        \/ making' = [making EXCEPT ![c] = [step |-> "make", todo |-> Payments!Pending]]
    <3>1. CASE Payments!Pending = {}
      BY <3>1 DEF Payments!GenRead
    <3>2. CASE Payments!Pending # {}
      BY <3>2 DEF Payments!GenRead
    <3>3. QED
      BY <3>1, <3>2
  <2>5. QED
    BY <2>1, <2>2, <2>3, <2>4
<1>2. /\ SaleTypes /\ SaleSets /\ faults \in 0..MaxFaults /\ SaleCircuit
      /\ \A n \in Node : SaleKey(n)
  BY DEF SaleInv
<1>3. PICK e \in SaleMaking : /\ making' = [making EXCEPT ![c] = e]
                              /\ e.step # "make" => e.todo = {}
                              /\ \A m \in e.todo : asset[m].stage = "QUEUED"
  <2>1. Payments!NotMaking \in SaleMaking /\ [step |-> "make", todo |-> Payments!Pending] \in SaleMaking
    BY DEF Payments!NotMaking, SaleMaking, Payments!Pending
  <2>2. \A m \in Payments!Pending : asset[m].stage = "QUEUED"
    BY DEF Payments!Pending
  <2>3. Payments!NotMaking.todo = {}
    BY DEF Payments!NotMaking
  <2>4. CASE making' = [making EXCEPT ![c] = Payments!NotMaking]
    BY <2>1, <2>3, <2>4
  <2>5. CASE making' = [making EXCEPT ![c] = [step |-> "make", todo |-> Payments!Pending]]
    BY <2>1, <2>2, <2>5
  <2>6. QED
    BY <1>1, <2>4, <2>5
<1>4. making \in [Cycle -> SaleMaking]
  BY <1>2 DEF SaleTypes
<1>5. /\ making' \in [Cycle -> SaleMaking] /\ making'[c] = e
      /\ \A d \in Cycle \ {c} : making'[d] = making[d]
  BY <1>3, <1>4
<1>6. SaleTypes' /\ SaleSets'
  BY <1>1, <1>2, <1>5 DEF SaleTypes, SaleSets
<1>7. (faults \in 0..MaxFaults)'
  BY <1>1, <1>2 DEF Payments!Fine, Payments!Fault, Payments!LimitAssumption
<1>8. SaleCircuit' /\ \A m \in Node : SaleKey(m)'
  BY <1>1, <1>2 DEF SaleCircuit, SaleKey
<1>9. ASSUME NEW d \in Cycle PROVE SaleTame(d) /\ SalePool(d)
  <2>1. SaleTame(d) /\ SaleShape(d)
    BY <1>1 DEF SaleTame, SaleInv
  <2>2. SalePool(d)
    BY <1>3, <1>5, <2>1 DEF SalePool, SaleShape
  <2>3. QED
    BY <2>1, <2>2
<1>10. \A d \in Cycle : Payments!Idle(d) => Payments!Idle(d)'
  BY <1>1, <1>5 DEF Payments!Idle
<1>11. overlapped' \/ (~overlapped /\ SaleLone')
  BY <1>1, <1>10, SaleStays
<1>12. QED
  BY <1>1, <1>6, <1>7, <1>8, <1>9, <1>11, SaleCalm

(* A task of the pool ends.                                                *)
LEMMA SaleCompile ==
  ASSUME Payments!CycleAssumption, Payments!LimitAssumption, SaleInv, NEW c \in Cycle, NEW n \in Node, Payments!Compile(c, n)
  PROVE  SaleInv'
<1> DEFINE rest == making[c].todo \ {n}
<1>1. /\ n \in making[c].todo
      /\ making' = [making EXCEPT ![c] = IF rest = {} THEN Payments!NotMaking ELSE [@ EXCEPT !.todo = rest]]
      /\ UNCHANGED <<letters, stripe, told, circuit, sync, overlapped, expired, unrecorded, stranded>>
  BY DEF Payments!Compile, Payments!MakeOnly, Payments!services, Payments!history
<1>2. /\ raised' \subseteq raised \cup {c} /\ (Payments!Fault \/ Payments!Fine)
      /\ \/ Payments!SaveAsset(c, n)
         \/ Payments!MarkGenerationFailed(n)
         \/ UNCHANGED asset
  BY DEF Payments!Compile, Payments!MakeRaises
<1>3. /\ SaleTypes /\ SaleSets /\ faults \in 0..MaxFaults /\ SaleCircuit /\ SaleShape(c)
      /\ making[c] \in SaleMaking /\ making \in [Cycle -> SaleMaking]
      /\ \A m \in Node : SaleKey(m) /\ SaleRow(m) /\ SaleCount(m)
      /\ asset \in [Node -> SaleAsset] /\ asset[n] \in SaleAsset
  BY DEF SaleInv, SaleTypes
<1>4. making[c].step = "make"
  BY <1>1, <1>3 DEF SaleShape
<1>5. /\ making' \in [Cycle -> SaleMaking] /\ making'[c].todo \subseteq rest
      /\ making'[c].step # "make" => making'[c].todo = {}
      /\ \A d \in Cycle \ {c} : making'[d] = making[d]
  <2>1. CASE rest = {}
    <3>1. making' = [making EXCEPT ![c] = Payments!NotMaking]
      BY <1>1, <2>1
    <3>2. Payments!NotMaking \in SaleMaking /\ Payments!NotMaking.todo = {}
      BY DEF Payments!NotMaking, SaleMaking
    <3>3. making'[c] = Payments!NotMaking
      BY <1>3, <3>1
    <3>4. QED
      BY <1>3, <3>1, <3>2, <3>3
  <2>2. CASE rest # {}
    <3> DEFINE e == [step |-> "make", todo |-> rest]
    <3>1. making' = [making EXCEPT ![c] = [making[c] EXCEPT !.todo = rest]]
      BY <1>1, <2>2
    <3>3. e \in SaleMaking /\ e.step = "make" /\ e.todo = rest
      BY <1>3 DEF SaleMaking
    <3>2. making' = [making EXCEPT ![c] = e]
      <4> HIDE DEF rest
      <4>1. [making[c] EXCEPT !.todo = rest] = [step |-> "make", todo |-> rest]
        BY <1>3, <1>4 DEF SaleMaking
      <4>2. QED
        BY <3>1, <4>1
    <3> HIDE DEF e, rest
    <3>4. making'[c] = e /\ making' \in [Cycle -> SaleMaking] /\ \A d \in Cycle \ {c} : making'[d] = making[d]
      BY <1>3, <3>2, <3>3
    <3>5. QED
      BY <3>3, <3>4
  <2>3. QED
    BY <2>1, <2>2
<1>6. asset' \in [Node -> SaleAsset] /\ \A m \in Node \ {n} : asset'[m] = asset[m]
  <2>1. CASE Payments!SaveAsset(c, n)
    <3> DEFINE f == [asset EXCEPT ![n].stage = "COMPILED"]
               g == [f EXCEPT ![n].copy = c]
    <3>1. asset' = g /\ c \in Payments!Copy
      BY <2>1 DEF Payments!SaveAsset, Payments!Copy
    <3>2. f = [asset EXCEPT ![n].stage = "COMPILED"]
      OBVIOUS
    <3> HIDE DEF f
    <3>3. f \in [Node -> SaleAsset] /\ \A m \in Node \ {n} : f[m] = asset[m]
      BY <1>3, <3>2 DEF SaleAsset
    <3>4. g \in [Node -> SaleAsset] /\ \A m \in Node \ {n} : g[m] = f[m]
      BY <3>1, <3>3 DEF SaleAsset
    <3>5. QED
      BY <3>1, <3>3, <3>4
  <2>2. CASE Payments!MarkGenerationFailed(n)
    <3> DEFINE f == [asset EXCEPT ![n].stage = "FAILED"]
               k == f[n].retries + 1
               g == [f EXCEPT ![n].retries = k]
    <3>1. asset' = g
      BY <2>2 DEF Payments!MarkGenerationFailed
    <3>2. f = [asset EXCEPT ![n].stage = "FAILED"]
      OBVIOUS
    <3> HIDE DEF f
    <3>3. f \in [Node -> SaleAsset] /\ \A m \in Node \ {n} : f[m] = asset[m]
      BY <1>3, <3>2 DEF SaleAsset
    <3>4. k \in Nat
      BY <3>3 DEF SaleAsset
    <3> HIDE DEF k
    <3>5. g \in [Node -> SaleAsset] /\ \A m \in Node \ {n} : g[m] = f[m]
      BY <3>3, <3>4 DEF SaleAsset
    <3>6. QED
      BY <3>1, <3>3, <3>5
  <2>3. CASE asset' = asset
    BY <1>3, <2>3
  <2>4. QED
    BY <1>2, <2>1, <2>2, <2>3
<1>7. SaleTypes'
  BY <1>1, <1>3, <1>5, <1>6 DEF SaleTypes
<1>8. (faults \in 0..MaxFaults)'
  BY <1>2, <1>3 DEF Payments!Fine, Payments!Fault, Payments!LimitAssumption
<1>9. SaleSets' /\ SaleCircuit' /\ \A m \in Node : SaleKey(m)'
  BY <1>1, <1>2, <1>3 DEF SaleSets, SaleCircuit, SaleKey
<1>10. \A d \in Cycle : Payments!Idle(d) => Payments!Idle(d)'
  BY <1>1, <1>4, <1>5 DEF Payments!Idle
<1>11. overlapped' \/ (~overlapped /\ SaleLone')
  BY <1>1, <1>10, SaleStays
<1>12. CASE asset' = asset
  <2>1. ASSUME NEW d \in Cycle PROVE SaleTame(d) /\ SalePool(d)
    <3>1. SaleTame(d) /\ SaleShape(d)
      BY <1>1 DEF SaleTame, SaleInv
    <3>2. SalePool(d)
      BY <1>5, <3>1 DEF SalePool, SaleShape
    <3>3. QED
      BY <3>1, <3>2
  <2>2. QED
    BY <1>1, <1>7, <1>8, <1>9, <1>11, <1>12, <2>1, SaleCalm
<1>13. CASE Payments!SaveAsset(c, n) \/ Payments!MarkGenerationFailed(n)
  <2>1. /\ asset'[n].stage \in {"COMPILED", "FAILED"} /\ asset'[n].sync = asset[n].sync
        /\ asset'[n].stage = "COMPILED" => asset'[n].copy = c /\ asset'[n].retries = asset[n].retries
    <3>1. CASE Payments!SaveAsset(c, n)
      BY <1>3, <3>1 DEF Payments!SaveAsset, SaleAsset
    <3>2. CASE Payments!MarkGenerationFailed(n)
      <4>1. asset'[n].stage = "FAILED" /\ asset'[n].sync = asset[n].sync
        BY <1>3, <3>2 DEF Payments!MarkGenerationFailed, SaleAsset
      <4>2. QED
        BY <4>1
    <3>3. QED
      BY <1>13, <3>1, <3>2
  <2>2. ASSUME NEW d \in Cycle PROVE SaleShape(d)'
    <3>1. SaleShape(d)
      BY DEF SaleInv
    <3>2. (making[d].step # "make" => making[d].todo = {})'
      BY <1>5, <3>1 DEF SaleShape
    <3>3. \A m \in Node : asset[m].stage # "QUEUED" => asset'[m].stage # "QUEUED"
      BY <1>6, <2>1
    <3>4. \A m \in Node : (SaleHas(d, m) => sync[d].seen[m].copy # 0 /\ asset[m].stage # "QUEUED")'
      BY <1>1, <3>1, <3>3 DEF SaleShape, SaleHas
    <3>5. sync'[d] = sync[d]
      BY <1>1
    <3>6. /\ sync'[d].step \in {"off", "read"} => sync'[d].todo = {}
          /\ sync'[d].step \notin SaleAtHand => sync'[d].now = {}
          /\ sync'[d].step \in SaleAtHand => \E m \in Node : sync'[d].now = {m} /\ m \notin sync'[d].todo
      BY <3>1, <3>5 DEF SaleShape
    <3>7. QED
      BY <3>2, <3>4, <3>6 DEF SaleShape, SaleAtHand
  <2>3. ASSUME NEW m \in Node PROVE SaleRow(m)' /\ SaleKey(m)' /\ SaleCount(m)'
    <3>1. SaleRow(m) /\ c # 0
      BY <1>3, SaleFinite
    <3>2. SaleRow(m)'
      <4>1. CASE m = n
        BY <1>1, <2>1, <3>1, <4>1 DEF SaleRow
      <4>2. CASE m # n
        BY <1>1, <1>6, <3>1, <4>2 DEF SaleRow
      <4>3. QED
        BY <4>1, <4>2
    <3>3. SaleCount(m)'
      BY <1>1, SaleNoMore DEF SaleHas
    <3>4. QED
      BY <1>9, <3>2, <3>3
  <2>4. ASSUME ~overlapped PROVE SaleAlone'
    <3>1. SaleLone' /\ SaleLone
      BY <1>11, <1>1, <2>4 DEF SaleInv, SaleAlone
    <3>2. \A m \in Node : SaleTrue(m) /\ \A d \in Cycle : SaleReads(d, m)
      BY <2>4 DEF SaleInv, SaleAlone
    <3>3. /\ asset[n].stage = "QUEUED" /\ asset[n].sync = "UNSYNCED" /\ asset[n].retries = 0
      BY <1>1, <1>3, <3>2 DEF SaleReads, SaleRow
    <3>4. \A d \in Cycle : ~SaleHas(d, n)
      BY <3>3 DEF SaleInv, SaleShape
    <3>5. \A d \in Cycle : ~Payments!Row(d, n)
      BY <3>4 DEF Payments!Row, SaleHas
    <3>6. \A d \in Cycle \ {c} : making[d].todo = {}
      <4>1. ~Payments!Idle(c)
        BY <1>4 DEF Payments!Idle
      <4>2. \A d \in Cycle \ {c} : making[d].step = "off" /\ SaleShape(d)
        BY <3>1, <4>1 DEF SaleLone, Payments!Idle, SaleInv
      <4>3. QED
        BY <4>2 DEF SaleShape
    <3>7. SaleTrue(n)'
      <4>1. MaxRetries \in Nat \ {0}
        BY DEF Payments!LimitAssumption
      <4>2. SaleTrue(n)
        BY <3>2
      <4>3. asset'[n].sync = "UNSYNCED" /\ letters'[n] = 0 /\ (n \notin unrecorded => told[n] = 0)
        BY <1>1, <2>1, <3>3, <3>5, <4>2 DEF SaleTrue
      <4>4. asset'[n].stage = "COMPILED" => asset'[n].retries < MaxRetries
        BY <2>1, <3>3, <4>1
      <4>5. QED
        BY <1>1, <4>3, <4>4 DEF SaleTrue
    <3>8. ASSUME NEW m \in Node, m # n PROVE SaleTrue(m)'
      <4>1. SaleTrue(m) /\ asset'[m] = asset[m]
        BY <1>6, <3>2, <3>8
      <4>2. QED
        BY <1>1, <4>1 DEF SaleTrue, Payments!Row
    <3>9. ASSUME NEW d \in Cycle, NEW m \in Node PROVE SaleReads(d, m)'
      <4>1. making'[d].todo \subseteq making[d].todo /\ (d = c => n \notin making'[d].todo)
        BY <1>5
      <4>2. SaleReads(d, m)
        BY <3>2
      <4>3. CASE m = n
        BY <1>1, <3>4, <3>6, <4>1, <4>3 DEF SaleReads, SaleHas
      <4>4. CASE m # n
        <5>1. asset'[m] = asset[m] /\ sync' = sync /\ told' = told
          BY <1>1, <1>6, <4>4
        <5>2. QED
          BY <4>1, <4>2, <5>1 DEF SaleReads, SaleHas
      <4>5. QED
        BY <4>3, <4>4
    <3>10. QED
      BY <3>1, <3>7, <3>8, <3>9 DEF SaleAlone
  <2>5. QED
    BY <1>1, <1>7, <1>8, <1>9, <2>2, <2>3, <2>4 DEF SaleInv
<1>14. QED
  BY <1>2, <1>12, <1>13

(* The webhook is probed.                                                  *)
LEMMA SaleProbe ==
  ASSUME Payments!CycleAssumption, Payments!LimitAssumption, SaleInv, NEW c \in Cycle, Payments!Probe(c)
  PROVE  SaleInv'
<1>1. /\ sync[c].step = "probe"
      /\ UNCHANGED <<asset, letters, stripe, told, raised, unrecorded, stranded, making, overlapped, expired>>
      /\ \/ sync' = [sync EXCEPT ![c].step = "row"] /\ Payments!Fine /\ UNCHANGED circuit
         \/ sync' = [sync EXCEPT ![c] = Payments!NotSyncing] /\ circuit' = Payments!AfterFailure(circuit) /\ Payments!Fault
  BY DEF Payments!Probe, Payments!SyncOnly, Payments!store, Payments!services
<1>2. /\ SaleTypes /\ SaleSets /\ faults \in 0..MaxFaults /\ SaleCircuit /\ SaleShape(c)
      /\ sync \in [Cycle -> SaleSync] /\ \A m \in Node : SaleKey(m)
  BY DEF SaleInv, SaleTypes
<1>3. sync[c].now = {}
  BY <1>1, <1>2 DEF SaleShape, SaleAtHand
<1>4. /\ sync' \in [Cycle -> SaleSync] /\ SaleTame(c)
      /\ \A d \in Cycle \ {c} : sync'[d] = sync[d]
  <2>1. CASE sync' = [sync EXCEPT ![c].step = "row"]
    <3>1. /\ sync' \in [Cycle -> SaleSync] /\ \A d \in Cycle \ {c} : sync'[d] = sync[d]
          /\ sync'[c].step = "row" /\ sync'[c].now = sync[c].now
          /\ sync'[c].todo = sync[c].todo /\ sync'[c].seen = sync[c].seen
      BY <1>2, <2>1 DEF SaleSync, Payments!SyncStep
    <3>2. QED
      BY <1>1, <1>3, <3>1 DEF SaleTame
  <2>2. CASE sync' = [sync EXCEPT ![c] = Payments!NotSyncing]
    <3>1. Payments!NotSyncing \in SaleSync
      BY SaleIdle DEF Payments!LimitAssumption
    <3>2. sync' \in [Cycle -> SaleSync] /\ sync'[c] = Payments!NotSyncing /\ \A d \in Cycle \ {c} : sync'[d] = sync[d]
      BY <1>2, <2>2, <3>1, SaleUpdate
    <3>3. QED
      BY <1>1, <3>2 DEF SaleTame, Payments!NotSyncing
  <2>3. QED
    BY <1>1, <2>1, <2>2
<1>5. SaleCircuit'
  <2>1. SaleGood(circuit)
    BY <1>2 DEF SaleGood, SaleCircuit
  <2>2. SaleGood(Payments!AfterFailure(circuit))
    BY <2>1, SaleBreaks
  <2>3. QED
    BY <1>1, <2>1, <2>2 DEF SaleCircuit, SaleGood
<1>6. (faults \in 0..MaxFaults)'
  BY <1>1, <1>2 DEF Payments!Fine, Payments!Fault, Payments!LimitAssumption
<1>7. SaleTypes' /\ SaleSets' /\ \A m \in Node : SaleKey(m)'
  BY <1>1, <1>2, <1>4 DEF SaleTypes, SaleSets, SaleKey
<1>8. \A d \in Cycle : SaleTame(d) /\ SalePool(d)
  BY <1>1, <1>4 DEF SaleTame, SalePool, SaleInv, SaleShape
<1>9. \A d \in Cycle : Payments!Idle(d) => Payments!Idle(d)'
  BY <1>1, <1>4 DEF Payments!Idle
<1>10. overlapped' \/ (~overlapped /\ SaleLone')
  BY <1>1, <1>9, SaleStays
<1>11. QED
  BY <1>1, <1>5, <1>6, <1>7, <1>8, <1>10, SaleCalm

(* The pipeline reads the rows it is to sell, or stops.                    *)
LEMMA SaleSyncRead ==
  ASSUME Payments!CycleAssumption, Payments!LimitAssumption, SaleInv, NEW c \in Cycle, Payments!SyncRead(c)
  PROVE  SaleInv'
<1> DEFINE unsold == {n \in Node : /\ asset[n].stage = "COMPILED" /\ asset[n].sync = "UNSYNCED"
                                  /\ asset[n].retries < MaxRetries}
           seen == [n \in Node |-> IF n \in unsold
                                   THEN [copy |-> asset[n].copy, retries |-> asset[n].retries]
                                   ELSE Payments!Nothing]
           e == [step |-> "probe", todo |-> unsold, now |-> {}, seen |-> seen]
<1>1. /\ sync[c].step = "read"
      /\ UNCHANGED <<asset, letters, stripe, told, unrecorded, stranded, making, overlapped, expired>>
  BY DEF Payments!SyncRead, Payments!SyncOnly, Payments!store, Payments!services
<1>2. /\ raised' \subseteq raised \cup {c} /\ (Payments!Fault \/ Payments!Fine)
      /\ circuit' = circuit \/ circuit' = Payments!Viewed(circuit)
      /\ sync' = [sync EXCEPT ![c] = Payments!NotSyncing] \/ sync' = [sync EXCEPT ![c] = e]
  <2>1. CASE Payments!SyncRaises(c) /\ UNCHANGED circuit
    BY <2>1 DEF Payments!SyncRaises
  <2>2. CASE /\ circuit' = IF unsold = {} THEN circuit ELSE Payments!Viewed(circuit)
             /\ sync' = [sync EXCEPT ![c] = IF unsold = {} \/ ~Payments!AllowsTraffic(circuit) THEN Payments!NotSyncing ELSE e]
             /\ Payments!Fine /\ UNCHANGED raised
    <3>1. CASE unsold = {} \/ ~Payments!AllowsTraffic(circuit)
      BY <2>2, <3>1
    <3>2. CASE ~(unsold = {} \/ ~Payments!AllowsTraffic(circuit))
      BY <2>2, <3>2
    <3>3. QED
      BY <3>1, <3>2
  <2>3. QED
    BY <2>1, <2>2 DEF Payments!SyncRead
<1>3. /\ SaleTypes /\ SaleSets /\ faults \in 0..MaxFaults /\ SaleCircuit /\ SaleShape(c)
      /\ sync \in [Cycle -> SaleSync] /\ asset \in [Node -> SaleAsset]
      /\ \A m \in Node : SaleKey(m) /\ SaleRow(m) /\ SaleCount(m)
  BY DEF SaleInv, SaleTypes
<1>4. SaleCircuit'
  <2>1. SaleGood(circuit)
    BY <1>3 DEF SaleGood, SaleCircuit
  <2>2. SaleGood(Payments!Viewed(circuit))
    BY <2>1, SaleBreaks
  <2>3. QED
    BY <1>2, <2>1, <2>2 DEF SaleCircuit, SaleGood
<1>5. (faults \in 0..MaxFaults)'
  BY <1>2, <1>3 DEF Payments!Fine, Payments!Fault, Payments!LimitAssumption
<1>6. SaleSets' /\ \A m \in Node : SaleKey(m)'
  BY <1>1, <1>2, <1>3 DEF SaleSets, SaleKey
<1>7. Payments!NotSyncing \in SaleSync
  BY SaleIdle DEF Payments!LimitAssumption
<1>8. sync[c].todo = {} /\ sync[c].now = {}
  BY <1>1, <1>3 DEF SaleShape, SaleAtHand
<1>9. CASE sync' = [sync EXCEPT ![c] = Payments!NotSyncing]
  <2>1. sync' \in [Cycle -> SaleSync] /\ sync'[c] = Payments!NotSyncing /\ \A d \in Cycle \ {c} : sync'[d] = sync[d]
    BY <1>3, <1>7, <1>9, SaleUpdate
  <2>2. \A d \in Cycle : SaleTame(d)
    BY <1>1, <2>1 DEF SaleTame, Payments!NotSyncing
  <2>3. \A d \in Cycle : SalePool(d)
    BY <1>1 DEF SalePool, SaleInv, SaleShape
  <2>4. \A d \in Cycle : Payments!Idle(d) => Payments!Idle(d)'
    BY <1>1, <2>1 DEF Payments!Idle
  <2>5. overlapped' \/ (~overlapped /\ SaleLone')
    BY <1>1, <2>4, SaleStays
  <2>6. SaleTypes'
    BY <1>1, <1>3, <2>1 DEF SaleTypes
  <2>7. QED
    BY <1>1, <1>4, <1>5, <1>6, <2>2, <2>3, <2>5, <2>6, SaleCalm
<1>10. CASE sync' = [sync EXCEPT ![c] = e]
  <2>1. seen \in [Node -> Payments!Seen]
    <3>1. Payments!Nothing \in Payments!Seen /\ MaxRetries \in Nat
      BY DEF Payments!Nothing, Payments!Seen, Payments!Copy, Payments!LimitAssumption
    <3>2. ASSUME NEW n \in Node, n \in unsold
          PROVE  [copy |-> asset[n].copy, retries |-> asset[n].retries] \in Payments!Seen
      <4>1. asset[n].copy \in Payments!Copy /\ asset[n].retries \in Nat
        BY <1>3 DEF SaleAsset
      <4>2. asset[n].retries \in 0..MaxRetries
        BY <3>1, <3>2, <4>1
      <4>3. QED
        BY <4>1, <4>2 DEF Payments!Seen
    <3>3. QED
      BY <3>1, <3>2
  <2>2. e \in SaleSync
    BY <2>1 DEF SaleSync, Payments!SyncStep
  <2>3. /\ e.step = "probe" /\ e.todo = unsold /\ e.now = {}
        /\ \A n \in unsold : e.seen[n].copy = asset[n].copy /\ e.seen[n].retries = asset[n].retries
    OBVIOUS
  <2>4. \A n \in unsold : n \in Node /\ asset[n].stage = "COMPILED" /\ asset[n].sync = "UNSYNCED"
    OBVIOUS
  <2> HIDE DEF unsold, seen, e
  <2>5. sync' \in [Cycle -> SaleSync] /\ sync'[c] = e /\ \A d \in Cycle \ {c} : sync'[d] = sync[d]
    BY <1>3, <1>10, <2>2, SaleUpdate
  <2>6. ASSUME NEW d \in Cycle PROVE SaleShape(d)'
    <3>1. SaleShape(d)
      BY DEF SaleInv
    <3>2. CASE d # c
      <4>1. sync'[d] = sync[d] /\ making' = making /\ asset' = asset
        BY <1>1, <2>5, <3>2
      <4>2. QED
        BY <3>1, <4>1 DEF SaleShape, SaleHas, SaleAtHand
    <3>3. CASE d = c
      <4>1. (making[c].step # "make" => making[c].todo = {})'
        BY <1>1, <1>3 DEF SaleShape
      <4>2. \A n \in Node : SaleHas(c, n)' => n \in unsold
        BY <2>3, <2>5 DEF SaleHas
      <4>3. \A n \in unsold : asset[n].copy # 0 /\ asset[n].stage # "QUEUED"
        BY <1>3, <2>4 DEF SaleRow
      <4>4. \A n \in Node : (SaleHas(c, n) => sync[c].seen[n].copy # 0 /\ asset[n].stage # "QUEUED")'
        BY <1>1, <2>3, <2>5, <4>2, <4>3
      <4>5. sync'[c].step = "probe" /\ sync'[c].now = {}
        BY <2>3, <2>5
      <4>6. QED
        BY <3>3, <4>1, <4>4, <4>5 DEF SaleShape, SaleAtHand
    <3>4. QED
      BY <3>2, <3>3
  <2>7. ASSUME NEW m \in Node PROVE SaleRow(m)' /\ SaleKey(m)' /\ SaleCount(m)'
    <3>1. SaleRow(m)' /\ SaleKey(m)'
      BY <1>1, <1>3, <1>6 DEF SaleRow
    <3>2. CASE m \in unsold
      <4>1. letters[m] = 0
        BY <1>3, <2>4, <3>2 DEF SaleRow
      <4>2. IsFiniteSet(Cycle) /\ SaleHolders(m)' \subseteq Cycle
        BY SaleFinite DEF SaleHolders
      <4>3. /\ Cardinality(SaleHolders(m)') \in Nat /\ Cardinality(Cycle) \in Nat
            /\ Cardinality(SaleHolders(m)') <= Cardinality(Cycle)
        BY <4>2, CountSubset
      <4>4. letters'[m] + Cardinality(SaleHolders(m)') <= Cardinality(Cycle)
        BY <1>1, <4>1, <4>3
      <4>5. SaleCount(m)'
        BY <4>4 DEF SaleCount
      <4>6. QED
        BY <3>1, <4>5
    <3>3. CASE m \notin unsold
      <4>1. ~SaleHas(c, m)'
        BY <2>3, <2>5, <3>3 DEF SaleHas
      <4>2. \A d \in Cycle : SaleHas(d, m)' => SaleHas(d, m)
        BY <2>5, <4>1 DEF SaleHas
      <4>3. SaleCount(m)'
        BY <1>1, <4>2, SaleNoMore
      <4>4. QED
        BY <3>1, <4>3
    <3>4. QED
      BY <3>2, <3>3
  <2>8. ASSUME ~overlapped PROVE SaleAlone'
    <3>1. SaleLone /\ \A m \in Node : SaleTrue(m) /\ \A d \in Cycle : SaleReads(d, m)
      BY <2>8 DEF SaleInv, SaleAlone
    <3>2. SaleLone'
      <4>1. \A d \in Cycle : Payments!Idle(d) => Payments!Idle(d)'
        BY <1>1, <2>5 DEF Payments!Idle
      <4>2. QED
        BY <3>1, <4>1 DEF SaleLone
    <3>3. ASSUME NEW m \in Node PROVE SaleTrue(m)'
      <4>1. \A d \in Cycle : sync[d].step \in {"letter", "mark"} => sync'[d] = sync[d]
        BY <1>1, <2>5
      <4>2. \A d \in Cycle : sync[d].step = "letter" /\ Payments!Row(d, m) => (sync[d].step = "letter" /\ Payments!Row(d, m))'
        BY <4>1 DEF Payments!Row
      <4>3. \A d \in Cycle : sync[d].step = "mark" /\ Payments!Row(d, m) => (sync[d].step = "mark" /\ Payments!Row(d, m))'
        BY <4>1 DEF Payments!Row
      <4>4. SaleTrue(m)
        BY <3>1
      <4>5. QED
        BY <1>1, <4>2, <4>3, <4>4 DEF SaleTrue
    <3>4. ASSUME NEW m \in Node, NEW d \in Cycle PROVE SaleReads(d, m)'
      <4>1. SaleReads(d, m) /\ (m \in making'[d].todo => asset'[m].stage = "QUEUED")
        BY <1>1, <3>1 DEF SaleReads
      <4>2. CASE ~SaleHas(d, m)'
        BY <4>1, <4>2 DEF SaleReads
      <4>3. CASE SaleHas(d, m)' /\ d # c
        <5>1. sync'[d] = sync[d] /\ SaleHas(d, m)
          BY <2>5, <4>3 DEF SaleHas
        <5>2. QED
          BY <1>1, <4>1, <5>1 DEF SaleReads
      <4>4. CASE SaleHas(d, m)' /\ d = c
        <5>1. m \in unsold
          BY <2>3, <2>5, <4>4 DEF SaleHas
        <5>2. /\ asset'[m].stage = "COMPILED" /\ asset'[m].sync = "UNSYNCED"
              /\ sync'[c].seen[m].copy = asset'[m].copy
              /\ sync'[c].seen[m].retries = asset'[m].retries
              /\ sync'[c].step = "probe"
          BY <1>1, <2>3, <2>4, <2>5, <5>1
        <5>3. QED
          BY <4>1, <4>4, <5>2 DEF SaleReads
      <4>5. QED
        BY <4>2, <4>3, <4>4
    <3>5. QED
      BY <3>2, <3>3, <3>4 DEF SaleAlone
  <2>9. SaleTypes'
    BY <1>1, <1>3, <2>5 DEF SaleTypes
  <2>10. QED
    BY <1>1, <1>4, <1>5, <1>6, <2>6, <2>7, <2>8, <2>9 DEF SaleInv
<1>11. QED
  BY <1>2, <1>9, <1>10

(* The process ends and starts again.                                      *)
LEMMA SaleCrash ==
  ASSUME Payments!CycleAssumption, Payments!LimitAssumption, SaleInv, Payments!Crash
  PROVE  SaleInv'
<1>1. /\ circuit' = Payments!Closed /\ making' = [c \in Cycle |-> Payments!NotMaking]
      /\ sync' = [c \in Cycle |-> Payments!NotSyncing] /\ raised' = {} /\ Payments!Fault
      /\ UNCHANGED <<asset, letters, stripe, told, overlapped, expired>>
  BY DEF Payments!Crash, Payments!store, Payments!services
<1>2. /\ SaleTypes /\ SaleSets /\ faults \in 0..MaxFaults
      /\ \A m \in Node : SaleKey(m) /\ SaleRow(m)
  BY DEF SaleInv
<1>3. /\ unrecorded \subseteq unrecorded' /\ stranded \subseteq stranded'
      /\ \A d \in Cycle : sync[d].step = "mark" => sync[d].now \subseteq unrecorded'
      /\ \A d \in Cycle : sync[d].step = "letter" => sync[d].now \subseteq stranded'
  BY DEF Payments!Crash
<1>4. unrecorded' \subseteq Node /\ stranded' \subseteq Node
  <2>1. \A d \in Cycle : sync[d].now \subseteq Node
    BY <1>2 DEF SaleTypes, SaleSync
  <2>2. QED
    BY <1>2, <2>1 DEF Payments!Crash, SaleSets
<1>5. /\ Payments!NotSyncing \in SaleSync /\ Payments!NotMaking \in SaleMaking
      /\ Payments!NotSyncing.step = "off" /\ Payments!NotSyncing.todo = {} /\ Payments!NotSyncing.now = {}
      /\ Payments!NotMaking.step = "off" /\ Payments!NotMaking.todo = {}
  BY SaleIdle DEF Payments!LimitAssumption, Payments!NotSyncing, Payments!NotMaking, SaleMaking
<1>6. \A d \in Cycle : sync'[d] = Payments!NotSyncing /\ making'[d] = Payments!NotMaking
  BY <1>1
<1>7. sync' \in [Cycle -> SaleSync] /\ making' \in [Cycle -> SaleMaking]
  BY <1>1, <1>5
<1>8. SaleTypes' /\ SaleSets'
  BY <1>1, <1>2, <1>4, <1>7 DEF SaleTypes, SaleSets
<1>9. (faults \in 0..MaxFaults)'
  BY <1>1, <1>2 DEF Payments!Fault, Payments!LimitAssumption
<1>10. SaleCircuit'
  <2>1. 0 \in 0..FailureThreshold /\ 0 \in 0..SuccessThreshold /\ 0 < FailureThreshold
    BY DEF Payments!LimitAssumption
  <2>2. QED
    BY <1>1, <2>1 DEF SaleCircuit, SaleBreaker, Payments!Closed
<1>11. \A d \in Cycle, m \in Node : ~SaleHas(d, m)'
  BY <1>5, <1>6 DEF SaleHas
<1>12. \A d \in Cycle : SaleShape(d)'
  BY <1>5, <1>6, <1>11 DEF SaleShape, SaleAtHand
<1>13. ASSUME NEW m \in Node PROVE SaleRow(m)' /\ SaleKey(m)' /\ SaleCount(m)'
  <2>1. SaleRow(m)' /\ SaleKey(m)'
    BY <1>1, <1>2 DEF SaleRow, SaleKey
  <2>2. SaleCount(m)'
    BY <1>1, <1>11, SaleNoMore
  <2>3. QED
    BY <2>1, <2>2
<1>14. ASSUME ~overlapped PROVE SaleAlone'
  <2>1. SaleLone'
    BY <1>5, <1>6 DEF SaleLone, Payments!Idle
  <2>2. \A m \in Node, d \in Cycle : SaleReads(d, m)'
    BY <1>5, <1>6, <1>11 DEF SaleReads
  <2>3. ASSUME NEW m \in Node PROVE SaleTrue(m)'
    <3>1. SaleTrue(m)
      BY <1>14 DEF SaleInv, SaleAlone
    <3>2. \A d \in Cycle : sync[d].step = "letter" /\ Payments!Row(d, m) => m \in stranded'
      BY <1>3 DEF Payments!Row
    <3>3. \A d \in Cycle : sync[d].step = "mark" /\ Payments!Row(d, m) => m \in unrecorded'
      BY <1>3 DEF Payments!Row
    <3>4. QED
      BY <1>1, <1>3, <3>1, <3>2, <3>3 DEF SaleTrue
  <2>4. QED
    BY <2>1, <2>2, <2>3 DEF SaleAlone
<1>15. QED
  BY <1>1, <1>8, <1>9, <1>10, <1>12, <1>13, <1>14 DEF SaleInv

(* A daemon that does nothing keeps it.                                    *)
LEMMA SaleRests ==
  ASSUME Payments!CycleAssumption, SaleInv, UNCHANGED Payments!vars
  PROVE  SaleInv'
<1>1. /\ UNCHANGED <<asset, letters, stripe, told, circuit, making, sync, raised, faults,
                     overlapped, expired, unrecorded, stranded>>
  BY DEF Payments!vars, Payments!store, Payments!services, Payments!history
<1>2. /\ SaleTypes' /\ SaleSets' /\ SaleCircuit' /\ \A m \in Node : SaleKey(m)'
  BY <1>1 DEF SaleInv, SaleTypes, SaleSets, SaleCircuit, SaleKey
<1>3. (faults \in 0..MaxFaults)'
  BY <1>1 DEF SaleInv
<1>4. \A d \in Cycle : SaleTame(d) /\ SalePool(d)
  BY <1>1 DEF SaleTame, SalePool, SaleInv, SaleShape
<1>5. overlapped' \/ (~overlapped /\ SaleLone')
  BY <1>1, SaleStays DEF Payments!Idle
<1>6. QED
  BY <1>1, <1>2, <1>3, <1>4, <1>5, SaleCalm

(* Every step of the daemon keeps it.                                      *)
LEMMA SaleStep ==
  ASSUME Payments!CycleAssumption, Payments!LimitAssumption, SaleInv, Payments!Next
  PROVE  SaleInv'
<1>1. CASE \E c \in Cycle : Payments!BeginCycle(c)
  BY <1>1, SaleBegin
<1>2. CASE (\E c \in Cycle : Payments!TickRaises(c)) \/ Payments!Elapse \/ \E n \in Node : Payments!KeyExpires(n)
  BY <1>2, SaleOutside
<1>3. CASE \E c \in Cycle : Payments!Work(c)
  <2>1. PICK c \in Cycle : Payments!Work(c)
    BY <1>3
  <2>2. CASE Payments!GenRead(c) \/ Payments!SyncRead(c) \/ Payments!Probe(c)
    BY <2>2, SaleGenRead, SaleSyncRead, SaleProbe
  <2>3. ASSUME NEW n \in Node, Payments!Compile(c, n) PROVE SaleInv'
    BY <2>3, SaleCompile
  <2>4. ASSUME NEW n \in Node, Payments!Sell(c, n) \/ Payments!Tell(c, n) \/ Payments!Mark(c, n) \/ Payments!Count(c, n) \/ Payments!Letter(c, n)
        PROVE  SaleInv'
    BY <2>4, SaleSell, SaleTell, SaleMark, SaleCounts, SaleLetters
  <2>5. QED
    BY <2>1, <2>2, <2>3, <2>4 DEF Payments!Work
<1>4. CASE Payments!Crash
  BY <1>4, SaleCrash
<1>5. QED
  BY <1>1, <1>2, <1>3, <1>4 DEF Payments!Next

(* It says what is asked of the daemon.                                    *)
LEMMA SaleSays == Payments!CycleAssumption /\ Payments!LimitAssumption /\ SaleInv => Payments!TypeOK /\ Payments!EffectsOnce /\ Payments!NothingLost
<1> SUFFICES ASSUME Payments!CycleAssumption, Payments!LimitAssumption, SaleInv PROVE Payments!TypeOK /\ Payments!EffectsOnce /\ Payments!NothingLost
  OBVIOUS
<1>1. SaleTypes /\ SaleSets /\ faults \in 0..MaxFaults /\ SaleCircuit /\ (overlapped \/ SaleAlone)
  BY DEF SaleInv
<1>2. letters \in [Node -> 0..Cardinality(Cycle)]
  <2>1. ASSUME NEW n \in Node PROVE letters[n] \in 0..Cardinality(Cycle)
    <3>1. letters[n] \in Nat /\ SaleCount(n)
      BY DEF SaleInv, SaleTypes
    <3>2. IsFiniteSet(Cycle) /\ SaleHolders(n) \subseteq Cycle
      BY SaleFinite DEF SaleHolders
    <3>3. Cardinality(SaleHolders(n)) \in Nat /\ Cardinality(Cycle) \in Nat
      BY <3>2, CountSubset
    <3>4. letters[n] + Cardinality(SaleHolders(n)) <= Cardinality(Cycle)
      BY <3>1 DEF SaleCount
    <3>5. QED
      BY <3>1, <3>3, <3>4
  <2>2. letters \in [Node -> Nat]
    BY <1>1 DEF SaleTypes
  <2>3. QED
    BY <2>1, <2>2
<1>3. Payments!TypeOK
  <2>1. /\ circuit \in SaleBreaker
        /\ (circuit.state = "CLOSED") = (circuit.failures < FailureThreshold)
    BY <1>1 DEF SaleCircuit
  <2>2. Payments!Cardinality(Cycle) = Cardinality(Cycle)
    BY Zenon DEF Payments!Cardinality, Cardinality
  <2>3. QED
    BY <1>1, <1>2, <2>1, <2>2
       DEF Payments!TypeOK, SaleTypes, SaleSets, SaleBreaker, SaleAsset, SaleStripe, SaleMaking,
          SaleSync
<1>4. Payments!EffectsOnce
  <2>1. ASSUME NEW n \in Node PROVE stripe[n].sessions > 1 => n \in expired
    BY DEF SaleInv, SaleKey
  <2>2. ASSUME NEW n \in Node, told[n] > 1, n \notin unrecorded, ~overlapped PROVE FALSE
    <3>1. told[n] \in {0, 1}
      BY <1>1, <2>2 DEF SaleAlone, SaleTrue
    <3>2. QED
      BY <2>2, <3>1
  <2>3. QED
    BY <2>1, <2>2 DEF Payments!EffectsOnce
<1>5. Payments!NothingLost
  <2>1. ASSUME NEW n \in Node, ~overlapped
        PROVE  /\ asset[n].sync = "SYNCED" => told[n] > 0 /\ asset[n].sold = asset[n].copy
               /\ letters[n] = IF asset[n].sync = "DEAD" THEN 1 ELSE 0
               /\ asset[n].stage = "COMPILED" /\ asset[n].sync = "UNSYNCED" /\ asset[n].retries >= MaxRetries
                    => n \in stranded \/ \E c \in Cycle : sync[c].step = "letter" /\ Payments!Row(c, n)
    <3>1. SaleTrue(n)
      BY <1>1, <2>1 DEF SaleAlone
    <3>2. told[n] \in 0..2 /\ asset[n].retries \in Nat /\ MaxRetries \in Nat
      BY <1>1 DEF SaleTypes, SaleAsset, Payments!LimitAssumption
    <3>3. told[n] # 0 => told[n] > 0
      BY <3>2
    <3>4. asset[n].retries >= MaxRetries => ~(asset[n].retries < MaxRetries)
      BY <3>2
    <3>5. QED
      BY <3>1, <3>3, <3>4 DEF SaleTrue
  <2>2. QED
    BY <2>1 DEF Payments!NothingLost
<1>6. QED
  BY <1>3, <1>4, <1>5

(* Stripe makes one session for a node until it drops the key, and the     *)
(* webhook is told once unless a delivery went unrecorded; a row says what *)
(* is on sale, and one that is given up on leaves one letter, unless it    *)
(* could not be written.  Only cycles that overlap break it.               *)
THEOREM SaleKeeps ==
  ASSUME Payments!CycleAssumption /\ Payments!LimitAssumption
  PROVE  Payments!Init /\ [][Payments!Next]_Payments!vars =>
           [](Payments!TypeOK /\ Payments!EffectsOnce /\ Payments!NothingLost)
<1>1. Payments!Init => SaleInv
  BY SaleInit
<1>2. SaleInv /\ [Payments!Next]_Payments!vars => SaleInv'
  BY SaleStep, SaleRests
<1>3. SaleInv => Payments!TypeOK /\ Payments!EffectsOnce /\ Payments!NothingLost
  BY SaleSays
<1>4. QED
  BY <1>1, <1>2, <1>3, PTL

=============================================================================
