---------------------------- MODULE RevenueProofs ----------------------------
(***************************************************************************)
(* Safety of approved deliveries, for any calls, deliveries, approvals,    *)
(* failure threshold and bounds.                                           *)
(***************************************************************************)
EXTENDS RevenueDelivery, FiniteSetTheorems, TLAPS

(* Where a call goes, and what it keeps of the circuit, has its type.      *)
LEMMA GotoTypes ==
  ASSUME TypeOK, NEW c \in Call, NEW l \in PC, NEW state \in Circuit,
         NEW probes \in SUBSET Call, GotoWith(c, l, state, probes)
  PROVE  /\ pc' \in [Call -> PC] /\ pc' = [pc EXCEPT ![c] = l]
         /\ seen' \in [Call -> Circuit]
         /\ probe' \subseteq Call
         /\ token' \in [Call -> Approval]
  <1>1. Closed \in Circuit
    BY DEF Closed, Circuit
  <1> QED  BY <1>1 DEF GotoWith, TypeOK

(* The same for the steps that keep what they have.                        *)
LEMMA PlainGotoTypes ==
  ASSUME TypeOK, NEW c \in Call, NEW l \in PC, Goto(c, l)
  PROVE  /\ pc' \in [Call -> PC] /\ pc' = [pc EXCEPT ![c] = l]
         /\ seen' \in [Call -> Circuit]
         /\ probe' \subseteq Call
         /\ token' \in [Call -> Approval]
  <1>1. seen[c] \in Circuit /\ probe \in SUBSET Call
    BY DEF TypeOK
  <1> QED  BY <1>1, GotoTypes DEF Goto

(* The circuit documents that are written have their type.                 *)
LEMMA FailedTypes ==
  ASSUME NEW state \in Circuit  PROVE Failed(state) \in Circuit
  BY DEF Failed, Circuit

(* The lease methods keep the type of the leases.                          *)
LEMMA LeaseTypes ==
  ASSUME lease \in [LeaseKey -> Lease], NEW k \in LeaseKey
  PROVE  /\ \A c \in Call : AcquireLease(k, c) => lease' \in [LeaseKey -> Lease]
         /\ \A c : ReleaseLease(k, c) => lease' \in [LeaseKey -> Lease]
  <1>1. NoLease \in Lease /\ \A c \in Call : [owner |-> c, over |-> FALSE] \in Lease
    BY DEF NoLease, Lease
  <1> QED  BY <1>1 DEF AcquireLease, ReleaseLease

(* What a request does to the store keeps the store's type.                *)
LEMMA AppliedTypes ==
  ASSUME TypeOK, NEW c \in Call, Applied(c)
  PROVE  /\ lease' \in [LeaseKey -> Lease]
         /\ record' \in [Delivery -> Status]
         /\ nonces' \subseteq Approval
         /\ circuit' \in Circuit
  <1>1. For(c) \in Delivery /\ For(c) \in LeaseKey /\ Probe \in LeaseKey /\ token[c] \in Approval
    BY ScopeAssumption DEF TypeOK, For, LeaseKey
  <1>2. Closed \in Circuit /\ Failed(seen[c]) \in Circuit
    BY FailedTypes DEF TypeOK, Closed, Circuit
  <1>3. lease' \in [LeaseKey -> Lease]
    BY <1>1, LeaseTypes DEF Applied, TypeOK, StoreType
  <1>4. record' \in [Delivery -> Status]
    BY <1>1 DEF Applied, TypeOK, StoreType, PutRecord, Status
  <1>5. nonces' \subseteq Approval
    BY <1>1 DEF Applied, TypeOK, StoreType, ConsumeNonce
  <1>6. circuit' \in Circuit
    BY <1>2 DEF Applied, TypeOK, StoreType, PutCircuit
  <1> QED  BY <1>3, <1>4, <1>5, <1>6

(* The initial states have their types.                                    *)
LEMMA TypeInit == Init => TypeOK
  BY BoundAssumption, CarriedAssumption
  DEF Init, TypeOK, StoreInit, StoreType, NoLease, Lease, Closed, Circuit, Status, PC

(* Every step of a call has its type, by the part of the store it changes. *)
LEMMA CallStepTypes ==
  ASSUME TypeOK, NEW c \in Call, CallStep(c)  PROVE TypeOK'
  <1> DEFINE Moves == /\ pc' \in [Call -> PC] /\ seen' \in [Call -> Circuit]
                      /\ probe' \subseteq Call /\ token' \in [Call -> Approval]
  <1>1. For(c) \in Delivery /\ For(c) \in LeaseKey /\ Probe \in LeaseKey /\ token[c] \in Approval
    BY ScopeAssumption DEF TypeOK, For, LeaseKey
  <1>2. /\ Closed \in Circuit /\ circuit \in Circuit /\ seen[c] \in Circuit
        /\ probe \in SUBSET Call /\ probe \cup {c} \in SUBSET Call
    BY DEF TypeOK, StoreType, Closed, Circuit
  <1>3. \A l \in PC : Goto(c, l) => Moves
    BY PlainGotoTypes
  <1>4. \A l \in PC, state \in Circuit, probes \in SUBSET Call : GotoWith(c, l, state, probes) => Moves
    BY GotoTypes
  <1> HIDE DEF Moves
  <1>5. ASSUME ReadsOnly, Moves  PROVE TypeOK'
    BY <1>5 DEF ReadsOnly, Calm, Moves, TypeOK, StoreType, traces
  <1>6. ASSUME LeasesOnly, Moves, lease' \in [LeaseKey -> Lease]  PROVE TypeOK'
    BY <1>6 DEF LeasesOnly, Calm, Moves, TypeOK, StoreType, traces
  <1>7. ASSUME RecordsOnly, Moves, record' \in [Delivery -> Status]  PROVE TypeOK'
    BY <1>7 DEF RecordsOnly, Calm, Moves, TypeOK, StoreType, traces
  <1>8. ASSUME CircuitOnly, Moves, circuit' \in Circuit  PROVE TypeOK'
    BY <1>8 DEF CircuitOnly, Calm, Moves, TypeOK, StoreType, traces
  <1>9. CASE Start(c) \/ ReadRecord(c) \/ Recheck(c)
    BY <1>3, <1>5, <1>9 DEF Start, ReadRecord, Recheck, PC
  <1>10. CASE ReadCircuit(c) \/ CountFailure(c)
    <2>1. AfterCircuitRead(circuit) \in PC /\ "open" \in PC
      BY <1>2 DEF AfterCircuitRead, PC, Circuit
    <2> QED  BY <2>1, <1>2, <1>4, <1>5, <1>10 DEF ReadCircuit, CountFailure
  <1>11. CASE TakeLease(c) \/ TakeProbe(c) \/ DropStaleProbe(c) \/ FreeProbe(c) \/ Release(c)
    <2>1. lease' \in [LeaseKey -> Lease]
      BY <1>1, <1>11, LeaseTypes
      DEF TypeOK, StoreType, TakeLease, TakeProbe, DropStaleProbe, FreeProbe, Release
    <2>2. Moves
      BY <1>3, <1>11 DEF TakeLease, TakeProbe, DropStaleProbe, FreeProbe, Release, PC
    <2> QED  BY <2>1, <2>2, <1>6, <1>11 DEF TakeLease, TakeProbe, DropStaleProbe, FreeProbe, Release
  <1>12. CASE MarkRunning(c) \/ Complete(c) \/ Fail(c)
    <2>1. record' \in [Delivery -> Status]
      BY <1>1, <1>12 DEF TypeOK, StoreType, MarkRunning, Complete, Fail, PutRecord, Status
    <2>2. Moves
      BY <1>3, <1>12 DEF MarkRunning, Complete, Fail, PC
    <2> QED  BY <2>1, <2>2, <1>7, <1>12 DEF MarkRunning, Complete, Fail
  <1>13. CASE Reopen(c) \/ CloseCircuit(c) \/ PutFailure(c)
    <2>1. circuit' \in Circuit
      <3>1. [seen[c] EXCEPT !.mode = "OPEN", !.owner = None, !.over = TRUE] \in Circuit
        BY <1>2 DEF Circuit
      <3> QED  BY <3>1, <1>2, <1>13, FailedTypes DEF Reopen, CloseCircuit, PutFailure, PutCircuit
    <2>2. Moves
      BY <1>3, <1>13 DEF Reopen, CloseCircuit, PutFailure, ToOrPast, PC
    <2> QED  BY <2>1, <2>2, <1>8, <1>13 DEF Reopen, CloseCircuit, PutFailure
  <1>14. CASE HalfOpen(c)
    <2>1. circuit' \in Circuit
      <3>1. HoldsLive(Probe, c) \in BOOLEAN
        BY DEF HoldsLive
      <3>2. [seen[c] EXCEPT !.mode = "HALF_OPEN", !.owner = c, !.over = ~HoldsLive(Probe, c)] \in Circuit
        BY <1>2, <3>1 DEF Circuit
      <3> QED  BY <3>2, <1>2, <1>14 DEF HalfOpen, PutCircuit
    <2>2. Moves
      BY <1>2, <1>3, <1>4, <1>14 DEF HalfOpen, PC
    <2> QED  BY <2>1, <2>2, <1>8, <1>14 DEF HalfOpen
  <1>15. CASE SpendApproval(c)
    <2>1. Moves
      BY <1>3, <1>15 DEF SpendApproval, PC
    <2>2. nonces' \subseteq Approval /\ spent' \subseteq Call
      BY <1>1, <1>15 DEF SpendApproval, ConsumeNonce, TypeOK, StoreType
    <2> QED  BY <2>1, <2>2, <1>15 DEF SpendApproval, Calm, Moves, TypeOK, StoreType
  <1>16. CASE Post(c)
    <2>1. Moves
      BY <1>3, <1>16 DEF Post, PC
    <2>2. posted' \subseteq Call /\ hurt' \subseteq Call
      BY <1>16 DEF Post, TypeOK
    <2> QED  BY <2>1, <2>2, <1>16 DEF Post, Moves, TypeOK, StoreType, storeVars
  <1> QED
    BY <1>9, <1>10, <1>11, <1>12, <1>13, <1>14, <1>15, <1>16 DEF CallStep

(* Lost answers and the end of a process keep the types.                   *)
LEMMA FaultTypes ==
  ASSUME TypeOK, NEW c \in Call, StoreFails(c) \/ Die(c)  PROVE TypeOK'
  <1>1. Handler(pc[c]) \in PC \/ ~StoreFails(c)
    BY DEF TypeOK, StoreFails, Handler, PC
  <1>2. "done" \in PC
    BY DEF PC
  <1>3. /\ pc' \in [Call -> PC] /\ seen' \in [Call -> Circuit]
        /\ probe' \subseteq Call /\ token' \in [Call -> Approval]
    BY <1>1, <1>2, PlainGotoTypes DEF StoreFails, Die
  <1>4. /\ lease' \in [LeaseKey -> Lease] /\ record' \in [Delivery -> Status]
        /\ nonces' \subseteq Approval /\ circuit' \in Circuit
    BY AppliedTypes DEF StoreFails, Die, TypeOK, StoreType
  <1>5. hurt' \subseteq Call /\ faults' \in 0..MaxFaults
    BY BoundAssumption DEF StoreFails, Die, Fault, TypeOK
  <1> QED  BY <1>3, <1>4, <1>5 DEF StoreFails, Die, Fault, TypeOK, StoreType, traces

(* So does the passing of time.                                            *)
LEMMA TimeTypes ==
  ASSUME TypeOK,
         \/ \E d \in Delivery : LeaseEnds(d)
         \/ ProbeEnds \/ CircuitDeadline
         \/ \E a \in Approval : Expire(a) \/ NonceEnds(a)
  PROVE  TypeOK'
  <1>1. \A k \in LeaseKey : LeaseLapses(k) => lease' \in [LeaseKey -> Lease]
    BY DEF LeaseLapses, TypeOK, StoreType, Lease
  <1>2. Lapse => lapses' \in 0..MaxLapses
    BY BoundAssumption DEF Lapse, TypeOK
  <1>3. CASE \E d \in Delivery : LeaseEnds(d)
    BY <1>1, <1>2, <1>3 DEF LeaseEnds, LeaseKey, TypeOK, StoreType, locals
  <1>4. CASE ProbeEnds
    BY <1>1, <1>2, <1>4 DEF ProbeEnds, LeaseKey, TypeOK, StoreType, Circuit, locals
  <1>5. CASE CircuitDeadline
    BY <1>2, <1>5 DEF CircuitDeadline, TypeOK, StoreType, Circuit, locals, traces
  <1>6. CASE \E a \in Approval : Expire(a)
    BY <1>2, <1>6 DEF Expire, TypeOK, StoreType, locals, traces, storeVars
  <1>7. CASE \E a \in Approval : NonceEnds(a)
    BY <1>7 DEF NonceEnds, RemoveNonce, TypeOK, StoreType, locals, traces
  <1> QED  BY <1>3, <1>4, <1>5, <1>6, <1>7

(* Every variable of a delivery keeps its type.                            *)
THEOREM TypeCorrect == Spec => []TypeOK
  <1>1. TypeOK /\ [Next]_vars => TypeOK'
    <2> SUFFICES ASSUME TypeOK, [Next]_vars  PROVE TypeOK'
      OBVIOUS
    <2>1. CASE UNCHANGED vars
      BY <2>1 DEF vars, storeVars, locals, traces, TypeOK, StoreType
    <2> QED  BY <2>1, CallStepTypes, FaultTypes, TimeTypes DEF Next
  <1> QED  BY <1>1, TypeInit, PTL DEF Spec
-----------------------------------------------------------------------------
(* Completed records. *)

Reported == {"close", "freeClosed", "complete"}

(* A call that is to be recorded as completed has written, and so has a    *)
(* call of every completed record.                                         *)
WrittenInv ==
  /\ \A c \in Call : pc[c] \in Reported => c \in posted
  /\ \A c \in posted : pc[c] # "off"
  /\ \A d \in Delivery : record[d] = "completed" => \E c \in posted : For(c) = d

(* What a step of one call does to what WrittenInv speaks of.              *)
LEMMA CallWrites ==
  ASSUME TypeOK, NEW c \in Call, CallStep(c) \/ StoreFails(c) \/ Die(c)
  PROVE  /\ token' = token /\ posted \subseteq posted'
         /\ \E l \in PC \ {"off"} :
              /\ pc' = [pc EXCEPT ![c] = l]
              /\ l \in Reported => c \in posted' \/ pc[c] \in Reported
         /\ posted' \subseteq posted \cup {c}
         /\ \A d \in Delivery : record'[d] = "completed" =>
              record[d] = "completed" \/ (pc[c] = "complete" /\ For(c) = d)
  <1> USE DEF Goto, GotoWith, At, Reported, PC
  <1>1. CASE Start(c) \/ ReadRecord(c) \/ Recheck(c)
    BY <1>1 DEF Start, ReadRecord, Recheck, ReadsOnly, traces
  <1>2. CASE ReadCircuit(c)
    <2>1. circuit \in Circuit
      BY DEF TypeOK, StoreType
    <2>2. AfterCircuitRead(circuit) \in {"post", "fail", "drop", "probe"}
      BY <2>1 DEF AfterCircuitRead, Circuit
    <2> QED  BY <1>2, <2>2 DEF ReadCircuit, ReadsOnly, traces
  <1>3. CASE CountFailure(c)
    <2>1. pc' = [pc EXCEPT ![c] = "open"] /\ "open" \in PC \ {"off"} /\ "open" \notin Reported
      BY <1>3 DEF CountFailure
    <2>2. token' = token /\ posted' = posted /\ record' = record
      BY <1>3 DEF CountFailure, ReadsOnly, traces
    <2> QED  BY <2>1, <2>2
  <1>4. CASE TakeLease(c) \/ TakeProbe(c) \/ DropStaleProbe(c) \/ FreeProbe(c) \/ Release(c)
    BY <1>4 DEF TakeLease, TakeProbe, DropStaleProbe, FreeProbe, Release, LeasesOnly, traces
  <1>5. CASE MarkRunning(c) \/ Fail(c)
    BY <1>5 DEF MarkRunning, Fail, PutRecord, RecordsOnly, traces, TypeOK, StoreType
  <1>6. CASE Complete(c)
    BY <1>6 DEF Complete, PutRecord, RecordsOnly, traces, TypeOK, StoreType
  <1>7. CASE Reopen(c) \/ HalfOpen(c) \/ CloseCircuit(c) \/ PutFailure(c)
    BY <1>7 DEF Reopen, HalfOpen, CloseCircuit, PutFailure, ToOrPast, CircuitOnly, traces
  <1>8. CASE SpendApproval(c)
    BY <1>8 DEF SpendApproval
  <1>9. CASE Post(c)
    BY <1>9 DEF Post, storeVars
  <1>10. CASE StoreFails(c)
    <2>1. Handler(pc[c]) \in PC \ {"off"} /\ Handler(pc[c]) \notin Reported
      BY <1>10 DEF StoreFails, Handler, TypeOK
    <2>2. \A d \in Delivery : record'[d] = "completed" =>
            record[d] = "completed" \/ (pc[c] = "complete" /\ For(c) = d)
      BY <1>10 DEF StoreFails, Applied, PutRecord, TypeOK, StoreType
    <2>3. token' = token /\ posted' = posted /\ pc' = [pc EXCEPT ![c] = Handler(pc[c])]
      BY <1>10 DEF StoreFails, Fault, traces
    <2> QED  BY <2>1, <2>2, <2>3
  <1>11. CASE Die(c)
    <2>1. pc' = [pc EXCEPT ![c] = "done"] /\ "done" \in PC \ {"off"} /\ "done" \notin Reported
      BY <1>11 DEF Die
    <2>2. token' = token /\ posted' = posted /\ record' = record
      BY <1>11 DEF Die, Fault, traces
    <2> QED  BY <2>1, <2>2
  <1> QED
    BY <1>1, <1>2, <1>3, <1>4, <1>5, <1>6, <1>7, <1>8, <1>9, <1>10, <1>11 DEF CallStep

(* A record that is replayed as a success stands for a write.              *)
THEOREM CompletedStands == Spec => []CompletedWasPosted
  <1>1. Init => WrittenInv
    BY DEF Init, StoreInit, WrittenInv, Reported
  <1>2. TypeOK /\ WrittenInv /\ [Next]_vars => WrittenInv'
    <2> SUFFICES ASSUME TypeOK, WrittenInv, [Next]_vars  PROVE WrittenInv'
      OBVIOUS
    <2>1. ASSUME NEW c \in Call, CallStep(c) \/ StoreFails(c) \/ Die(c)  PROVE WrittenInv'
      <3>1. PICK l \in PC \ {"off"} :
              /\ pc' = [pc EXCEPT ![c] = l]
              /\ l \in Reported => c \in posted' \/ pc[c] \in Reported
        BY <2>1, CallWrites
      <3>2. /\ token' = token /\ posted \subseteq posted' /\ posted' \subseteq posted \cup {c}
            /\ \A d \in Delivery : record'[d] = "completed" =>
                 record[d] = "completed" \/ (pc[c] = "complete" /\ For(c) = d)
        BY <2>1, CallWrites
      <3>3. \A b : For(b)' = For(b)
        BY <3>2 DEF For
      <3>4. \A b \in Call : pc'[b] \in Reported => b \in posted'
        BY <3>1, <3>2 DEF WrittenInv, TypeOK
      <3>5. \A b \in posted' : pc'[b] # "off"
        BY <3>1, <3>2 DEF WrittenInv, TypeOK
      <3>6. \A d \in Delivery : record'[d] = "completed" => \E b \in posted' : For(b)' = d
        BY <3>2, <3>3 DEF WrittenInv, Reported
      <3> QED  BY <3>4, <3>5, <3>6 DEF WrittenInv
    <2>2. CASE UNCHANGED <<pc, token, posted, record>>
      BY <2>2 DEF WrittenInv, For
    <2>3. CASE \E d \in Delivery : LeaseEnds(d)
      BY <2>2, <2>3 DEF LeaseEnds, locals
    <2>4. CASE ProbeEnds \/ CircuitDeadline
      BY <2>2, <2>4 DEF ProbeEnds, CircuitDeadline, locals, traces
    <2>5. CASE \E a \in Approval : Expire(a) \/ NonceEnds(a)
      BY <2>2, <2>5 DEF Expire, NonceEnds, locals, traces, storeVars
    <2>6. CASE UNCHANGED vars
      BY <2>2, <2>6 DEF vars, locals, traces, storeVars
    <2> QED  BY <2>1, <2>3, <2>4, <2>5, <2>6 DEF Next
  <1>3. TypeOK /\ WrittenInv => CompletedWasPosted
    BY DEF TypeOK, WrittenInv, CompletedWasPosted, PostsOf, CallsOf
  <1> QED  BY <1>1, <1>2, <1>3, TypeCorrect, PTL DEF Spec
-----------------------------------------------------------------------------
(* Leases. *)

AfterProbe == Probing \cup {"complete", "fail", "release", "done"}

(* A probe owner that a circuit document still names, but whose lease has  *)
(* ended or was released.                                                  *)
Stale(o) == o # None => pc[o] \in AfterProbe /\ ~HoldsLive(Probe, o)

(* A call that is not late holds the lease it executes or probes under;    *)
(* what another call may release in its place is stale.                    *)
HolderInv ==
  /\ \A c \in Call : pc[c] \in Executing /\ c \notin lateRun => HoldsLive(For(c), c)
  /\ \A c \in Call : (c \in probe \/ pc[c] = "halfopen") /\ c \notin lateProbe
                         => HoldsLive(Probe, c)
  /\ \A c \in probe : pc[c] \in Probing
  /\ durable => probe = {}
  /\ circuit.owner # None => pc[circuit.owner] \in AfterProbe
  /\ circuit.mode = "HALF_OPEN" /\ circuit.over => Stale(circuit.owner)
  /\ \A c \in Call : pc[c] = "drop" => Stale(seen[c].owner)

(* Acquiring, releasing and the end of a lease, in terms of who holds what. *)
LEMMA AcquireHolds ==
  ASSUME lease \in [LeaseKey -> Lease], NEW k \in LeaseKey, NEW c \in Call, AcquireLease(k, c)
  PROVE  /\ HoldsLive(k, c)'
         /\ \A j \in LeaseKey, o \in Call : HoldsLive(j, o) => HoldsLive(j, o)'
         /\ \A j \in LeaseKey, o \in Call :
              HoldsLive(j, o)' => HoldsLive(j, o) \/ (j = k /\ o = c)
  <1>1. /\ lease'[k].owner = c /\ lease'[k].over = FALSE
        /\ \A j \in LeaseKey : j # k => lease'[j] = lease[j]
    BY DEF AcquireLease
  <1> QED  BY <1>1, KeyAssumption DEF AcquireLease, Free, HoldsLive

LEMMA ReleaseHolds ==
  ASSUME lease \in [LeaseKey -> Lease], NEW k \in LeaseKey, NEW c, ReleaseLease(k, c)
  PROVE  /\ \A j \in LeaseKey, o \in Call :
              HoldsLive(j, o) => HoldsLive(j, o)' \/ (j = k /\ o = c)
         /\ \A j \in LeaseKey, o \in Call : HoldsLive(j, o)' => HoldsLive(j, o)
  <1>1. /\ lease'[k] = IF lease[k].owner = c THEN NoLease ELSE lease[k]
        /\ \A j \in LeaseKey : j # k => lease'[j] = lease[j]
    BY DEF ReleaseLease
  <1> QED  BY <1>1 DEF HoldsLive, NoLease

LEMMA LapseHolds ==
  ASSUME lease \in [LeaseKey -> Lease], NEW k \in LeaseKey, LeaseLapses(k)
  PROVE  /\ \A j \in LeaseKey, o \in Call : HoldsLive(j, o) => HoldsLive(j, o)' \/ j = k
         /\ \A j \in LeaseKey, o \in Call : HoldsLive(j, o)' => HoldsLive(j, o) /\ j # k
  BY DEF LeaseLapses, HoldsLive, Lease

(* Who holds a lease after a step of a call: nobody new but the call, and  *)
(* nobody loses one but the call, or the stale owner it drops.             *)
LEMMA CallHolds ==
  ASSUME TypeOK, NEW c \in Call, CallStep(c) \/ StoreFails(c) \/ Die(c)
  PROVE  /\ \A k \in LeaseKey, o \in Call : HoldsLive(k, o)' =>
              \/ HoldsLive(k, o)
              \/ o = c /\ k = For(c) /\ pc[c] = "lease"
              \/ o = c /\ k = Probe /\ pc[c] = "probe"
         /\ \A k \in LeaseKey, o \in Call : HoldsLive(k, o) =>
              \/ HoldsLive(k, o)'
              \/ o = c /\ k = For(c) /\ pc[c] = "release"
              \/ o = c /\ k = Probe /\ pc[c] \in {"freeClosed", "freeOpen"}
                   /\ (durable \/ pc'[c] \in {"complete", "fail"})
              \/ o = seen[c].owner /\ k = Probe /\ pc[c] = "drop"
  <1>1. /\ For(c) \in LeaseKey /\ Probe \in LeaseKey
        /\ lease \in [LeaseKey -> Lease] /\ pc \in [Call -> PC]
    BY ScopeAssumption DEF TypeOK, StoreType, For, LeaseKey
  <1>2. ASSUME UNCHANGED lease  PROVE \A k, o : HoldsLive(k, o)' <=> HoldsLive(k, o)
    BY <1>2 DEF HoldsLive
  <1>3. CASE UNCHANGED lease
    BY <1>2, <1>3
  <1>4. CASE TakeLease(c)
    <2>1. CASE AcquireLease(For(c), c)
      BY <1>1, <1>4, <2>1, AcquireHolds DEF TakeLease, At
    <2> QED  BY <1>3, <1>4, <2>1 DEF TakeLease
  <1>5. CASE TakeProbe(c)
    <2>1. CASE AcquireLease(Probe, c)
      BY <1>1, <1>5, <2>1, AcquireHolds DEF TakeProbe, At
    <2> QED  BY <1>3, <1>5, <2>1 DEF TakeProbe
  <1>6. CASE DropStaleProbe(c)
    BY <1>1, <1>6, ReleaseHolds DEF DropStaleProbe, At
  <1>7. CASE FreeProbe(c)
    <2>1. pc[c] \in {"freeClosed", "freeOpen"} /\ pc'[c] \in {"complete", "fail"}
      BY <1>1, <1>7 DEF FreeProbe, At, Goto, GotoWith
    <2> QED  BY <1>1, <1>7, <2>1, ReleaseHolds DEF FreeProbe
  <1>8. CASE Release(c)
    BY <1>1, <1>8, ReleaseHolds DEF Release, At
  <1>9. CASE StoreFails(c)
    <2>1. CASE At(c, "lease") /\ AcquireLease(For(c), c)
      BY <1>1, <2>1, AcquireHolds DEF At
    <2>2. CASE At(c, "probe") /\ AcquireLease(Probe, c)
      BY <1>1, <2>2, AcquireHolds DEF At
    <2>3. CASE pc[c] \in {"freeClosed", "freeOpen"} /\ ReleaseLease(Probe, c)
      BY <1>1, <1>9, <2>3, ReleaseHolds DEF StoreFails, Fault
    <2>4. CASE At(c, "release") /\ ReleaseLease(For(c), c)
      BY <1>1, <2>4, ReleaseHolds DEF At
    <2> QED  BY <1>3, <1>9, <2>1, <2>2, <2>3, <2>4 DEF StoreFails, Applied
  <1>10. CASE Die(c) \/ Start(c) \/ ReadRecord(c) \/ Recheck(c) \/ MarkRunning(c) \/ SpendApproval(c)
              \/ ReadCircuit(c) \/ Reopen(c) \/ HalfOpen(c) \/ Post(c) \/ CloseCircuit(c)
              \/ CountFailure(c) \/ PutFailure(c) \/ Complete(c) \/ Fail(c)
    BY <1>3, <1>10
    DEF Die, Start, ReadRecord, Recheck, MarkRunning, SpendApproval, ReadCircuit, Reopen, HalfOpen,
        Post, CloseCircuit, CountFailure, PutFailure, Complete, Fail, ReadsOnly, RecordsOnly,
        CircuitOnly, storeVars
  <1> QED
    BY <1>4, <1>5, <1>6, <1>7, <1>8, <1>9, <1>10 DEF CallStep

(* Where a step of a call takes it, and what it then holds or has read.    *)
LEMMA CallMoves ==
  ASSUME TypeOK, NEW c \in Call, CallStep(c) \/ StoreFails(c) \/ Die(c)
  PROVE  /\ UNCHANGED <<durable, token, lateRun, lateProbe>>
         /\ pc' = [pc EXCEPT ![c] = pc'[c]]
         /\ \A o \in Call : o # c => seen'[o] = seen[o]
         /\ pc[c] \in AfterProbe => pc'[c] \in AfterProbe
         /\ pc'[c] \in Executing => pc[c] \in Executing \/ HoldsLive(For(c), c)'
         /\ pc'[c] = "halfopen" => HoldsLive(Probe, c)'
         /\ pc'[c] = "drop" =>
              seen'[c] = circuit /\ circuit' = circuit /\ circuit.mode = "HALF_OPEN" /\ circuit.over
         /\ probe' \subseteq probe \cup {c}
         /\ c \in probe' => /\ pc'[c] \in Probing
                            /\ c \in probe \/ (pc[c] = "halfopen" /\ ~durable)
  <1> USE DEF At, Goto, GotoWith, AfterProbe, Executing, Probing, UsesSeen, PC
  <1>1. /\ For(c) \in LeaseKey /\ Probe \in LeaseKey
        /\ lease \in [LeaseKey -> Lease] /\ pc \in [Call -> PC] /\ seen \in [Call -> Circuit]
        /\ circuit \in Circuit /\ probe \subseteq Call
    BY ScopeAssumption DEF TypeOK, StoreType, For, LeaseKey
  <1>2. CASE Start(c) \/ ReadRecord(c) \/ Recheck(c)
    BY <1>1, <1>2 DEF Start, ReadRecord, Recheck, ReadsOnly, Calm, traces
  <1>3. CASE ReadCircuit(c)
    <2>1. AfterCircuitRead(circuit) = "drop" => circuit.mode = "HALF_OPEN" /\ circuit.over
      BY <1>1 DEF AfterCircuitRead, Circuit
    <2>2. AfterCircuitRead(circuit) \in {"post", "fail", "drop", "probe"}
      BY <1>1 DEF AfterCircuitRead, Circuit
    <2> QED  BY <1>1, <1>3, <2>1, <2>2 DEF ReadCircuit, ReadsOnly, Calm, traces
  <1>4. CASE CountFailure(c)
    BY <1>1, <1>4 DEF CountFailure, ReadsOnly, Calm, traces
  <1>5. CASE TakeLease(c)
    <2>1. CASE AcquireLease(For(c), c)
      BY <1>1, <1>5, <2>1, AcquireHolds DEF TakeLease, LeasesOnly, Calm, traces, For
    <2> QED  BY <1>1, <1>5, <2>1 DEF TakeLease, LeasesOnly, Calm, traces
  <1>6. CASE TakeProbe(c)
    <2>1. CASE AcquireLease(Probe, c)
      BY <1>1, <1>6, <2>1, AcquireHolds DEF TakeProbe, LeasesOnly, Calm, traces
    <2> QED  BY <1>1, <1>6, <2>1 DEF TakeProbe, LeasesOnly, Calm, traces
  <1>7. CASE DropStaleProbe(c) \/ FreeProbe(c) \/ Release(c)
    BY <1>1, <1>7 DEF DropStaleProbe, FreeProbe, Release, LeasesOnly, Calm, traces
  <1>8. CASE MarkRunning(c) \/ Complete(c) \/ Fail(c)
    BY <1>1, <1>8 DEF MarkRunning, Complete, Fail, RecordsOnly, Calm, traces
  <1>9. CASE Reopen(c) \/ CloseCircuit(c) \/ PutFailure(c)
    BY <1>1, <1>9 DEF Reopen, CloseCircuit, PutFailure, ToOrPast, CircuitOnly, Calm, traces
  <1>10. CASE HalfOpen(c)
    BY <1>1, <1>10 DEF HalfOpen, PutsReadState, CircuitOnly, Calm, traces
  <1>11. CASE SpendApproval(c)
    BY <1>1, <1>11 DEF SpendApproval, Calm
  <1>12. CASE Post(c)
    BY <1>1, <1>12 DEF Post, storeVars
  <1>13. CASE StoreFails(c)
    <2>1. /\ Handler(pc[c]) \in {"done", "release", "count", "fail"}
          /\ pc[c] \in AfterProbe => Handler(pc[c]) \in AfterProbe
          /\ Handler(pc[c]) \in Executing => pc[c] \in Executing
      BY <1>1, <1>13 DEF StoreFails, Handler
    <2>2. UNCHANGED <<durable, lateRun, lateProbe>> /\ Goto(c, Handler(pc[c]))
      BY <1>13 DEF StoreFails, Fault, traces
    <2> QED  BY <1>1, <2>1, <2>2
  <1>14. CASE Die(c)
    BY <1>1, <1>14 DEF Die, Fault, traces
  <1> QED
    BY <1>2, <1>3, <1>4, <1>5, <1>6, <1>7, <1>8, <1>9, <1>10, <1>11, <1>12, <1>13, <1>14 DEF CallStep

(* What a step of a call makes of the circuit's owner.                     *)
LEMMA CallCircuits ==
  ASSUME TypeOK, NEW c \in Call, CallStep(c) \/ StoreFails(c) \/ Die(c)
  PROVE  \/ circuit' = circuit
         \/ circuit'.owner = None /\ circuit'.mode # "HALF_OPEN"
         \/ /\ pc[c] = "halfopen" /\ pc'[c] = "post"
            /\ circuit'.owner = c /\ circuit'.over = ~HoldsLive(Probe, c) /\ lease' = lease
  <1>1. seen[c] \in Circuit /\ pc \in [Call -> PC]
    BY DEF TypeOK
  <1>2. /\ Closed.owner = None /\ Closed.mode # "HALF_OPEN"
        /\ Failed(seen[c]).owner = None /\ Failed(seen[c]).mode # "HALF_OPEN"
    BY DEF Closed, Failed
  <1>3. CASE Reopen(c)
    BY <1>1, <1>3 DEF Reopen, PutCircuit, Circuit
  <1>4. CASE HalfOpen(c)
    BY <1>1, <1>4 DEF HalfOpen, PutCircuit, Circuit, CircuitOnly, At, Goto, GotoWith
  <1>5. CASE CloseCircuit(c) \/ PutFailure(c)
    BY <1>2, <1>5 DEF CloseCircuit, PutFailure, PutCircuit
  <1>6. CASE StoreFails(c)
    BY <1>2, <1>6 DEF StoreFails, Applied, PutCircuit
  <1>7. CASE Die(c) \/ Start(c) \/ ReadRecord(c) \/ Recheck(c) \/ MarkRunning(c) \/ SpendApproval(c)
             \/ ReadCircuit(c) \/ Post(c) \/ CountFailure(c) \/ Complete(c) \/ Fail(c)
             \/ TakeLease(c) \/ TakeProbe(c) \/ DropStaleProbe(c) \/ FreeProbe(c) \/ Release(c)
    BY <1>7
    DEF Die, Start, ReadRecord, Recheck, MarkRunning, SpendApproval, ReadCircuit, Post, CountFailure,
        Complete, Fail, TakeLease, TakeProbe, DropStaleProbe, FreeProbe, Release,
        ReadsOnly, RecordsOnly, LeasesOnly, storeVars
  <1> QED
    BY <1>3, <1>4, <1>5, <1>6, <1>7 DEF CallStep

(* A step of a call keeps HolderInv.                                       *)
LEMMA CallKeepsHolders ==
  ASSUME TypeOK, HolderInv, NEW c \in Call, CallStep(c) \/ StoreFails(c) \/ Die(c)
  PROVE  HolderInv'
  <1>1. /\ \A o \in Call : For(o) \in Delivery /\ For(o) \in LeaseKey /\ For(o) # Probe
        /\ Probe \in LeaseKey /\ pc \in [Call -> PC] /\ probe \subseteq Call /\ probe' \subseteq Call
        /\ circuit.owner \in Call \cup {None}
        /\ \A o \in Call : seen[o].owner \in Call \cup {None}
    BY ScopeAssumption, KeyAssumption, CallStepTypes, FaultTypes
    DEF TypeOK, StoreType, For, LeaseKey, Circuit
  <1>2. UNCHANGED <<durable, token, lateRun, lateProbe>> /\ \A o : For(o)' = For(o)
    BY CallMoves DEF For
  <1>3. /\ pc' = [pc EXCEPT ![c] = pc'[c]]
        /\ \A o \in Call : pc'[o] # pc[o] => o = c
        /\ \A o \in Call : pc[o] \in AfterProbe => pc'[o] \in AfterProbe
    BY <1>1, CallMoves DEF TypeOK
  <1>4. \A o \in Call : Stale(o) => Stale(o)'
    <2>1. SUFFICES ASSUME NEW o \in Call, Stale(o), HoldsLive(Probe, o)'  PROVE FALSE
      BY <1>3 DEF Stale
    <2>2. pc[o] \in AfterProbe /\ ~HoldsLive(Probe, o)
      BY <2>1, KeyAssumption DEF Stale
    <2> QED  BY <1>1, <2>1, <2>2, CallHolds DEF AfterProbe, Probing
  <1>5. \A o \in Call : pc'[o] \in Executing /\ o \notin lateRun' => HoldsLive(For(o), o)'
    <2>1. SUFFICES ASSUME NEW o \in Call, pc'[o] \in Executing, o \notin lateRun
                   PROVE  HoldsLive(For(o), o)'
      BY <1>2
    <2>2. CASE pc[o] \in Executing
      <3>1. HoldsLive(For(o), o)
        BY <2>1, <2>2 DEF HolderInv
      <3>2. \E k \in LeaseKey : k = For(o) /\ (HoldsLive(k, o)' \/ (o = c /\ pc[c] = "release"))
        BY <1>1, <3>1, CallHolds
      <3> QED  BY <1>2, <2>2, <3>2 DEF Executing
    <2> QED  BY <1>3, <2>1, <2>2, CallMoves
  <1>6. \A o \in probe' : pc'[o] \in Probing
    BY <1>1, <1>3, CallMoves DEF HolderInv
  <1>7. durable' => probe' = {}
    BY <1>2, CallMoves DEF HolderInv
  <1>8. \A o \in Call : (o \in probe' \/ pc'[o] = "halfopen") /\ o \notin lateProbe'
                         => HoldsLive(Probe, o)'
    <2>1. SUFFICES ASSUME NEW o \in Call, o \in probe' \/ pc'[o] = "halfopen", o \notin lateProbe
                   PROVE  HoldsLive(Probe, o)'
      BY <1>2
    <2>2. CASE o \in probe \/ pc[o] = "halfopen"
      <3>1. HoldsLive(Probe, o)
        BY <2>1, <2>2 DEF HolderInv
      <3>2. ~(o = c /\ pc[c] \in {"freeClosed", "freeOpen"}
                /\ (durable \/ pc'[c] \in {"complete", "fail"}))
        <4>1. CASE o \in probe /\ o = c
          BY <2>1, <4>1, CallMoves DEF HolderInv, Probing
        <4> QED  BY <2>2, <4>1
      <3>3. ~(o = seen[c].owner /\ pc[c] = "drop")
        BY <3>1, KeyAssumption DEF HolderInv, Stale
      <3> QED  BY <1>1, <3>1, <3>2, <3>3, CallHolds
    <2>3. CASE o \notin probe /\ pc[o] # "halfopen"
      BY <1>1, <1>3, <2>1, <2>3, CallMoves
    <2> QED  BY <2>2, <2>3
  <1>9. circuit'.owner # None => pc'[circuit'.owner] \in AfterProbe
    BY <1>1, <1>3, CallCircuits DEF HolderInv, AfterProbe, Probing
  <1>10. circuit'.mode = "HALF_OPEN" /\ circuit'.over => Stale(circuit.owner)'
    <2>1. CASE circuit' = circuit
      <3>1. Stale(None)'
        BY DEF Stale
      <3> QED  BY <1>1, <1>4, <2>1, <3>1 DEF HolderInv
    <2>2. CASE /\ pc[c] = "halfopen" /\ pc'[c] = "post"
               /\ circuit'.owner = c /\ circuit'.over = ~HoldsLive(Probe, c) /\ lease' = lease
      BY <2>2 DEF Stale, HoldsLive, AfterProbe, Probing
    <2> QED  BY <2>1, <2>2, CallCircuits
  <1>11. \A o \in Call : pc'[o] = "drop" => Stale(seen[o].owner)'
    <2>1. SUFFICES ASSUME NEW o \in Call, pc'[o] = "drop"  PROVE Stale(seen[o].owner)'
      OBVIOUS
    <2>2. Stale(None)'
      BY DEF Stale
    <2>3. CASE o = c
      <3>1. seen'[o] = circuit /\ circuit.mode = "HALF_OPEN" /\ circuit.over
        BY <2>1, <2>3, CallMoves
      <3>2. Stale(circuit.owner)
        BY <3>1 DEF HolderInv
      <3>3. \A b \in Call \cup {None} : Stale(b) => Stale(b)'
        BY <1>4, <2>2
      <3>4. PICK b \in Call \cup {None} : b = circuit.owner
        BY <1>1
      <3> QED  BY <3>1, <3>2, <3>3, <3>4 DEF Stale
    <2>4. CASE o # c
      <3>1. seen'[o] = seen[o] /\ Stale(seen[o].owner)
        BY <1>3, <2>1, <2>4, CallMoves DEF HolderInv
      <3>2. PICK b \in Call \cup {None} : b = seen[o].owner
        BY <1>1
      <3> QED  BY <1>4, <2>2, <3>1, <3>2 DEF Stale
    <2> QED  BY <2>3, <2>4
  <1> QED
    BY <1>5, <1>6, <1>7, <1>8, <1>9, <1>10, <1>11 DEF HolderInv

(* So does a deadline that passes: whoever loses a lease by it is late.    *)
LEMMA TimeKeepsHolders ==
  ASSUME TypeOK, HolderInv,
         \/ \E d \in Delivery : LeaseEnds(d)
         \/ ProbeEnds \/ CircuitDeadline
         \/ \E a \in Approval : Expire(a) \/ NonceEnds(a)
         \/ UNCHANGED vars
  PROVE  HolderInv'
  <1>1. /\ \A o \in Call : For(o) \in LeaseKey /\ For(o) # Probe
        /\ Probe \in LeaseKey /\ probe \subseteq Call /\ lease \in [LeaseKey -> Lease]
        /\ circuit \in Circuit /\ \A o \in Call : seen[o].owner \in Call \cup {None}
    BY ScopeAssumption, KeyAssumption DEF TypeOK, StoreType, For, LeaseKey, Circuit
  <1>2. UNCHANGED <<durable, locals>> /\ \A o : For(o)' = For(o)
    BY DEF LeaseEnds, ProbeEnds, CircuitDeadline, Expire, NonceEnds, vars, storeVars, locals, For
  <1>3. ASSUME UNCHANGED <<lease, lateRun, lateProbe>>, UNCHANGED circuit \/ CircuitDeadline
        PROVE  HolderInv'
    <2>1. \A k, o : HoldsLive(k, o)' <=> HoldsLive(k, o)
      BY <1>3 DEF HoldsLive
    <2>2. \A o : Stale(o)' <=> Stale(o)
      BY <1>2, <2>1 DEF Stale, locals
    <2>3. circuit'.owner = circuit.owner /\ circuit'.mode = circuit.mode
      BY <1>1, <1>3 DEF CircuitDeadline, Circuit
    <2>4. circuit'.mode = "HALF_OPEN" /\ circuit'.over => Stale(circuit.owner)'
      BY <1>1, <1>3, <2>1, <2>2, <2>3 DEF HolderInv, CircuitDeadline, Stale
    <2> QED  BY <1>2, <1>3, <2>1, <2>2, <2>3, <2>4 DEF HolderInv, locals, Stale
  <1>4. ASSUME NEW d \in Delivery, LeaseEnds(d)  PROVE HolderInv'
    <2>1. d \in LeaseKey /\ d # Probe /\ UNCHANGED <<circuit, lateProbe>>
      BY <1>4, KeyAssumption DEF LeaseEnds, LeaseKey
    <2>2. \A o \in Call : HoldsLive(Probe, o)' <=> HoldsLive(Probe, o)
      BY <1>1, <1>4, <2>1, LapseHolds DEF LeaseEnds
    <2>3. \A o \in Call \cup {None} : Stale(o)' <=> Stale(o)
      BY <1>2, <2>2 DEF Stale, locals
    <2>4. \A o \in Call : pc[o] \in Executing /\ o \notin lateRun' => HoldsLive(For(o), o)'
      <3>1. \A o \in Call : pc[o] \in Executing /\ o \notin lateRun' =>
              o \notin lateRun /\ ~HoldsLive(d, o)
        BY <1>4 DEF LeaseEnds
      <3>2. \A o \in Call, k \in LeaseKey : HoldsLive(k, o) => HoldsLive(k, o)' \/ k = d
        BY <1>1, <1>4, <2>1, LapseHolds DEF LeaseEnds
      <3>3. \A o \in Call : HoldsLive(For(o), o) => HoldsLive(For(o), o)' \/ For(o) = d
        <4> TAKE o \in Call
        <4>1. \E k \in LeaseKey : k = For(o) /\ (HoldsLive(k, o) => HoldsLive(k, o)' \/ k = d)
          BY <1>1, <3>2
        <4> QED  BY <1>2, <4>1
      <3> QED  BY <3>1, <3>3 DEF HolderInv
    <2>5. \A o \in Call : Stale(seen[o].owner) => Stale(seen[o].owner)'
      <3> TAKE o \in Call
      <3>1. PICK b \in Call \cup {None} : b = seen[o].owner
        BY <1>1
      <3> QED  BY <1>2, <2>3, <3>1 DEF Stale, locals
    <2>6. circuit.owner \in Call \cup {None} /\ (Stale(circuit.owner) => Stale(circuit.owner)')
      <3>1. PICK b \in Call \cup {None} : b = circuit.owner
        BY <1>1 DEF Circuit
      <3> QED  BY <2>1, <2>3, <3>1 DEF Stale
    <2> QED  BY <1>1, <1>2, <2>1, <2>2, <2>4, <2>5, <2>6 DEF HolderInv, locals
  <1>5. CASE ProbeEnds
    <2>1. UNCHANGED lateRun /\ circuit'.owner = circuit.owner /\ circuit'.mode = circuit.mode
          /\ (circuit'.over <=> circuit.over \/ circuit.owner = lease[Probe].owner)
      BY <1>1, <1>5 DEF ProbeEnds, Circuit
    <2>2. \A o \in Call : ~HoldsLive(Probe, o)'
      BY <1>1, <1>5, LapseHolds DEF ProbeEnds
    <2>3. \A o \in Call : HoldsLive(For(o), o) => HoldsLive(For(o), o)'
      <3>1. \A o \in Call, k \in LeaseKey : HoldsLive(k, o) => HoldsLive(k, o)' \/ k = Probe
        BY <1>1, <1>5, LapseHolds DEF ProbeEnds
      <3> TAKE o \in Call
      <3>2. \E k \in LeaseKey : k = For(o) /\ (HoldsLive(k, o) => HoldsLive(k, o)')
        BY <1>1, <3>1
      <3> QED  BY <1>2, <3>2
    <2>4. \A o \in Call \cup {None} : (o # None => pc[o] \in AfterProbe) => Stale(o)'
      BY <1>2, <2>2 DEF Stale, locals
    <2>5. \A o \in Call : pc[o] = "drop" => Stale(seen[o].owner)'
      <3> TAKE o \in Call
      <3>1. PICK b \in Call \cup {None} : b = seen[o].owner
        BY <1>1
      <3> QED  BY <1>2, <2>4, <3>1 DEF HolderInv, Stale, locals
    <2>6. circuit'.mode = "HALF_OPEN" /\ circuit'.over => Stale(circuit.owner)'
      <3>1. PICK b \in Call \cup {None} : b = circuit.owner
        BY <1>1 DEF Circuit
      <3> QED  BY <2>1, <2>4, <3>1 DEF HolderInv, Stale
    <2>7. \A o \in Call : (o \in probe \/ pc[o] = "halfopen") => o \in lateProbe'
      BY <1>5 DEF HolderInv, ProbeEnds
    <2> QED  BY <1>1, <1>2, <2>1, <2>3, <2>5, <2>6, <2>7 DEF HolderInv, locals
  <1> QED
    BY <1>3, <1>4, <1>5 DEF CircuitDeadline, Expire, NonceEnds, vars, storeVars, traces

(* At most one call executes a delivery, and at most one probes the        *)
(* circuit, on a lease that has not ended.                                 *)
THEOREM HoldersInTime == Spec => []OneHolderInTime
  <1>1. Init => HolderInv
    BY KeyAssumption DEF Init, StoreInit, HolderInv, Executing, Closed
  <1>2. TypeOK /\ HolderInv /\ [Next]_vars => HolderInv'
    BY CallKeepsHolders, TimeKeepsHolders DEF Next
  <1>3. TypeOK /\ HolderInv => OneHolderInTime
    <2> SUFFICES ASSUME TypeOK, HolderInv  PROVE OneHolderInTime
      OBVIOUS
    <2>1. ASSUME NEW S, \A a, b \in S : a = b  PROVE Cardinality(S) <= 1
      <3>1. CASE S = {}
        BY <3>1, FS_EmptySet
      <3>2. CASE S # {}
        <4>1. PICK a \in S : S = {a}
          BY <2>1, <3>2
        <4> QED  BY <4>1, FS_Singleton
      <3> QED  BY <3>1, <3>2
    <2>2. ASSUME NEW d \in Delivery
          PROVE  Cardinality({c \in CallsOf(d) : pc[c] \in Executing /\ c \notin lateRun}) <= 1
      <3>1. \A a, b \in {c \in CallsOf(d) : pc[c] \in Executing /\ c \notin lateRun} : a = b
        BY DEF HolderInv, HoldsLive, CallsOf
      <3> QED  BY <2>1, <3>1
    <2>3. Cardinality({c \in probe : pc[c] \in Probing /\ c \notin lateProbe}) <= 1
      <3>1. \A a, b \in {c \in probe : pc[c] \in Probing /\ c \notin lateProbe} : a = b
        BY DEF HolderInv, HoldsLive, TypeOK
      <3> QED  BY <2>1, <3>1
    <2> QED  BY <2>2, <2>3 DEF OneHolderInTime
  <1> QED  BY <1>1, <1>2, <1>3, TypeCorrect, PTL DEF Spec
-----------------------------------------------------------------------------
(* Completed records under overlapping calls, and second writes. *)

Mishap(d) == CallsOf(d) \cap (lateRun \cup hurt) # {}

(* Past the second read of the record, which let the call execute.         *)
Committed == Executing \ {"recheck"}

(* Without a mishap nobody executes a delivery whose record is completed,  *)
(* and a call that has written is on its way to that record, or there.     *)
OnceInv ==
  /\ \A c \in Call : pc[c] \in Committed /\ record[For(c)] = "completed" => Mishap(For(c))
  /\ \A c \in posted :
       pc[c] \in Reported \/ record[For(c)] = "completed" \/ Mishap(For(c))
  /\ \A a, b \in posted : For(a) = For(b) /\ a # b => Mishap(For(a))

(* What a step of a call writes on the record, and from where.             *)
LEMMA CallRecords ==
  ASSUME TypeOK, NEW c \in Call, CallStep(c) \/ StoreFails(c) \/ Die(c)
  PROVE  /\ hurt \subseteq hurt'
         /\ \A d \in Delivery :
              \/ record'[d] = record[d]
              \/ /\ d = For(c) /\ pc[c] = "complete" /\ record'[d] = "completed"
                 /\ c \in hurt' \/ pc'[c] = "release"
              \/ d = For(c) /\ pc[c] \in {"mark", "fail"} /\ record'[d] # "completed"
         /\ pc'[c] \in Committed =>
              \/ pc[c] \in Committed
              \/ record[For(c)] # "completed" /\ record' = record
         /\ pc[c] \in Reported =>
              \/ pc'[c] \in Reported \/ c \in hurt'
              \/ pc[c] = "complete" /\ record'[For(c)] = "completed"
         /\ c \in posted' /\ c \notin posted =>
              /\ pc[c] = "post" /\ record' = record
              /\ pc'[c] \in Reported \/ c \in hurt'
         /\ posted' \subseteq posted \cup {c}
  <1> USE DEF At, Goto, GotoWith, Reported, Committed, Executing, PC
  <1>1. /\ For(c) \in Delivery /\ record \in [Delivery -> Status] /\ pc \in [Call -> PC]
        /\ circuit \in Circuit
    BY ScopeAssumption DEF TypeOK, StoreType, For
  <1>2. CASE Start(c) \/ ReadRecord(c) \/ Recheck(c)
    BY <1>1, <1>2 DEF Start, ReadRecord, Recheck, ReadsOnly, Calm, traces
  <1>3. CASE ReadCircuit(c)
    <2>1. AfterCircuitRead(circuit) \in {"post", "fail", "drop", "probe"}
      BY <1>1 DEF AfterCircuitRead, Circuit
    <2> QED  BY <1>1, <1>3, <2>1 DEF ReadCircuit, ReadsOnly, Calm, traces
  <1>4. CASE CountFailure(c)
    BY <1>1, <1>4 DEF CountFailure, ReadsOnly, Calm, traces
  <1>5. CASE TakeLease(c) \/ TakeProbe(c) \/ DropStaleProbe(c) \/ FreeProbe(c) \/ Release(c)
    BY <1>1, <1>5 DEF TakeLease, TakeProbe, DropStaleProbe, FreeProbe, Release, LeasesOnly, Calm, traces
  <1>6. CASE MarkRunning(c) \/ Complete(c) \/ Fail(c)
    BY <1>1, <1>6 DEF MarkRunning, Complete, Fail, PutRecord, RecordsOnly, Calm, traces
  <1>7. CASE Reopen(c) \/ CloseCircuit(c) \/ PutFailure(c)
    BY <1>1, <1>7 DEF Reopen, CloseCircuit, PutFailure, ToOrPast, CircuitOnly, Calm, traces
  <1>8. CASE HalfOpen(c)
    BY <1>1, <1>8 DEF HalfOpen, CircuitOnly, Calm, traces
  <1>9. CASE SpendApproval(c)
    BY <1>1, <1>9 DEF SpendApproval, Calm
  <1>10. CASE Post(c)
    BY <1>1, <1>10 DEF Post, storeVars
  <1>11. CASE StoreFails(c)
    <2>1. hurt' = hurt \cup {c} /\ posted' = posted
      BY <1>11 DEF StoreFails, Fault, traces
    <2>2. \A d \in Delivery :
            \/ record'[d] = record[d]
            \/ d = For(c) /\ pc[c] = "complete" /\ record'[d] = "completed"
            \/ d = For(c) /\ pc[c] \in {"mark", "fail"} /\ record'[d] # "completed"
      BY <1>1, <1>11 DEF StoreFails, Applied, PutRecord
    <2>3. /\ Handler(pc[c]) \in {"done", "release", "count", "fail"}
          /\ Handler(pc[c]) \in {"count", "fail"} => pc[c] \in Committed
      BY <1>1, <1>11 DEF StoreFails, Handler
    <2>4. pc' = [pc EXCEPT ![c] = Handler(pc[c])]
      BY <1>11 DEF StoreFails
    <2> QED  BY <1>1, <2>1, <2>2, <2>3, <2>4
  <1>12. CASE Die(c)
    BY <1>1, <1>12 DEF Die, Fault, traces
  <1> QED
    BY <1>2, <1>3, <1>4, <1>5, <1>6, <1>7, <1>8, <1>9, <1>10, <1>11, <1>12 DEF CallStep

(* A mishap of a delivery is not undone.                                   *)
LEMMA MishapStays ==
  ASSUME TypeOK, [Next]_vars, NEW d \in Delivery, Mishap(d)  PROVE Mishap(d)'
  <1>1. /\ lateRun \subseteq lateRun' /\ hurt \subseteq hurt' /\ token' = token
        /\ \A c \in Call : pc[c] # "off" => pc'[c] # "off"
    <2>1. ASSUME NEW c \in Call, CallStep(c) \/ StoreFails(c) \/ Die(c)
          PROVE  /\ lateRun' = lateRun /\ hurt \subseteq hurt' /\ token' = token
                 /\ \A b \in Call : pc[b] # "off" => pc'[b] # "off"
      <3>1. lateRun' = lateRun /\ hurt \subseteq hurt' /\ token' = token
        BY <2>1, CallMoves, CallRecords
      <3>2. PICK l \in PC \ {"off"} : pc' = [pc EXCEPT ![c] = l]
        BY <2>1, CallWrites
      <3> QED  BY <3>1, <3>2 DEF TypeOK
    <2>2. CASE \E b \in Delivery : LeaseEnds(b)
      BY <2>2 DEF LeaseEnds, locals
    <2>3. CASE ProbeEnds \/ CircuitDeadline
      BY <2>3 DEF ProbeEnds, CircuitDeadline, locals, traces
    <2>4. CASE \E a \in Approval : Expire(a) \/ NonceEnds(a)
      BY <2>4 DEF Expire, NonceEnds, locals, traces
    <2>5. CASE UNCHANGED vars
      BY <2>5 DEF vars, locals, traces
    <2> QED  BY <2>1, <2>2, <2>3, <2>4, <2>5 DEF Next
  <1> QED  BY <1>1 DEF Mishap, CallsOf, For

(* Two calls that execute one delivery, neither of them late, are one.     *)
LEMMA OneExecutes ==
  ASSUME TypeOK, HolderInv, NEW a \in Call, NEW b \in Call,
         pc[a] \in Executing, pc[b] \in Executing, For(a) = For(b), ~Mishap(For(a))
  PROVE  a = b
  <1>1. a \in CallsOf(For(a)) /\ b \in CallsOf(For(a))
    BY DEF CallsOf, Executing
  <1>2. HoldsLive(For(a), a) /\ HoldsLive(For(b), b)
    BY <1>1 DEF Mishap, HolderInv
  <1> QED  BY <1>2 DEF HoldsLive

(* A step of a call keeps OnceInv.                                         *)
LEMMA CallKeepsOnce ==
  ASSUME TypeOK, HolderInv, OnceInv, [Next]_vars,
         NEW c \in Call, CallStep(c) \/ StoreFails(c) \/ Die(c)
  PROVE  OnceInv'
  <1>1. /\ \A b \in Call : For(b) \in Delivery /\ For(b)' = For(b)
        /\ pc \in [Call -> PC] /\ posted \subseteq Call
        /\ pc' = [pc EXCEPT ![c] = pc'[c]]
    BY ScopeAssumption, CallMoves DEF TypeOK, For
  <1>2. \A d \in Delivery : Mishap(d) => Mishap(d)'
    BY MishapStays
  <1>3. c \in hurt' => Mishap(For(c))'
    <2>1. pc'[c] # "off"
      BY <1>1, CallWrites
    <2> QED  BY <1>1, <2>1 DEF Mishap, CallsOf, TypeOK
  <1>4. ASSUME NEW b \in Call, record'[For(b)] # record[For(b)], ~Mishap(For(b))'
        PROVE  /\ For(b) = For(c)
               /\ \/ pc[c] = "complete" /\ record'[For(c)] = "completed" /\ pc'[c] = "release"
                  \/ pc[c] \in {"mark", "fail"} /\ "completed" \notin {record[For(c)], record'[For(c)]}
    <2>1. For(b) = For(c)
      BY <1>1, <1>4, CallRecords
    <2>2. ~Mishap(For(c))' /\ ~Mishap(For(c)) /\ c \notin hurt'
      BY <1>1, <1>2, <1>3, <1>4, <2>1
    <2>3. record[For(c)] = "completed" => pc[c] \notin Committed
      BY <2>2 DEF OnceInv
    <2> QED  BY <1>1, <1>4, <2>1, <2>2, <2>3, CallRecords DEF Committed, Executing, PC
  <1>5. \A b \in Call : pc'[b] \in Committed /\ record'[For(b)] = "completed" => Mishap(For(b))'
    <2> SUFFICES ASSUME NEW b \in Call, pc'[b] \in Committed, record'[For(b)] = "completed",
                        ~Mishap(For(b))'
                 PROVE  FALSE
      OBVIOUS
    <2>1. ~Mishap(For(b))
      BY <1>1, <1>2
    <2>2. CASE record[For(b)] = "completed"
      <3>1. pc[b] \notin Committed
        BY <2>1, <2>2 DEF OnceInv
      <3> QED  BY <1>1, <2>2, <3>1, CallRecords
    <2>3. CASE record[For(b)] # "completed"
      <3>1. For(b) = For(c) /\ pc[c] = "complete" /\ pc'[c] = "release"
        BY <1>4, <2>3
      <3>2. b # c /\ pc[b] \in Executing /\ pc[c] \in Executing
        BY <1>1, <3>1 DEF Committed, Executing, PC
      <3> QED  BY <2>1, <3>1, <3>2, OneExecutes
    <2> QED  BY <2>2, <2>3
  <1>6. \A b \in posted' :
          pc'[b] \in Reported \/ record'[For(b)] = "completed" \/ Mishap(For(b))'
    <2> SUFFICES ASSUME NEW b \in Call, b \in posted', ~Mishap(For(b))',
                        record'[For(b)] # "completed"
                 PROVE  pc'[b] \in Reported
      BY <1>1, CallRecords
    <2>1. b # c => pc'[b] = pc[b] /\ b \in posted
      BY <1>1, CallRecords
    <2>2. b \in posted => pc[b] \in Reported
      BY <1>1, <1>2, <1>4 DEF OnceInv
    <2>3. b = c => b \notin hurt'
      BY <1>1, <1>3
    <2> QED  BY <2>1, <2>2, <2>3, CallRecords
  <1>7. \A a, b \in posted' : For(a) = For(b) /\ a # b => Mishap(For(a))'
    <2>1. ASSUME NEW b \in posted, b # c, For(b) = For(c), c \in posted' \ posted
          PROVE  Mishap(For(c))
      <3> SUFFICES ASSUME ~Mishap(For(c))  PROVE FALSE
        OBVIOUS
      <3>1. pc[c] = "post" /\ pc[c] \in Committed /\ pc[c] \in Executing
        BY <2>1, CallRecords DEF Committed, Executing, PC
      <3>2. pc[b] \in Reported /\ pc[b] \in Executing
        BY <2>1, <3>1 DEF OnceInv, Reported, Executing, PC
      <3> QED  BY <1>1, <2>1, <3>1, <3>2, OneExecutes
    <2>2. \A a \in posted' : a \in posted \/ a = c
      BY CallRecords
    <2> QED  BY <1>1, <1>2, <2>1, <2>2 DEF OnceInv
  <1>8. posted' \subseteq Call
    BY <1>1, CallRecords
  <1> QED  BY <1>1, <1>5, <1>6, <1>7, <1>8 DEF OnceInv

(* So does everything else: records and writes stay.                       *)
LEMMA TimeKeepsOnce ==
  ASSUME TypeOK, OnceInv, [Next]_vars, UNCHANGED <<pc, token, posted, record>>
  PROVE  OnceInv'
  <1>1. \A c \in Call : For(c) \in Delivery /\ For(c)' = For(c)
    BY ScopeAssumption DEF TypeOK, For
  <1>2. \A d \in Delivery : Mishap(d) => Mishap(d)'
    BY MishapStays
  <1> QED  BY <1>1, <1>2 DEF OnceInv, TypeOK

(* What is no step of a call leaves these alone.                           *)
LEMMA TimeKeepsCalls ==
  ASSUME \/ \E d \in Delivery : LeaseEnds(d)
         \/ ProbeEnds \/ CircuitDeadline
         \/ \E a \in Approval : Expire(a) \/ NonceEnds(a)
         \/ UNCHANGED vars
  PROVE  UNCHANGED <<durable, pc, token, seen, probe, posted, spent, record, hurt>>
  <1>1. CASE \E d \in Delivery : LeaseEnds(d)
    BY <1>1 DEF LeaseEnds, locals
  <1>2. CASE ProbeEnds \/ CircuitDeadline
    BY <1>2 DEF ProbeEnds, CircuitDeadline, locals, traces
  <1>3. CASE \E a \in Approval : Expire(a) \/ NonceEnds(a)
    BY <1>3 DEF Expire, NonceEnds, locals, traces, storeVars
  <1>4. CASE UNCHANGED vars
    BY <1>4 DEF vars, locals, traces, storeVars
  <1> QED  BY <1>1, <1>2, <1>3, <1>4

(* The leases, the records and the writes, together.                       *)
LEMMA OnceInvariant == Spec => [](TypeOK /\ HolderInv /\ OnceInv)
  <1>1. Init => HolderInv /\ OnceInv
    BY KeyAssumption DEF Init, StoreInit, HolderInv, OnceInv, Executing, Committed, Closed
  <1>2. TypeOK /\ HolderInv /\ [Next]_vars => HolderInv'
    BY CallKeepsHolders, TimeKeepsHolders DEF Next
  <1>3. TypeOK /\ HolderInv /\ OnceInv /\ [Next]_vars => OnceInv'
    BY CallKeepsOnce, TimeKeepsOnce, TimeKeepsCalls DEF Next
  <1> QED  BY <1>1, <1>2, <1>3, TypeCorrect, PTL DEF Spec

(* A delivery is written twice only after a mishap of one of its calls.    *)
THEOREM SecondWriteNeedsMishap == Spec => []DuplicatePostNeedsMishap
  <1>1. TypeOK /\ OnceInv => DuplicatePostNeedsMishap
    <2> SUFFICES ASSUME TypeOK, OnceInv, NEW d \in Delivery, ~Mishap(d)
                 PROVE  ~(Cardinality(PostsOf(d)) > 1)
      BY DEF DuplicatePostNeedsMishap, Mishap
    <2>1. \A a, b \in PostsOf(d) : a = b
      BY DEF OnceInv, PostsOf, CallsOf, TypeOK
    <2>2. CASE PostsOf(d) = {}
      BY <2>2, FS_EmptySet
    <2>3. CASE PostsOf(d) # {}
      <3>1. PICK a \in PostsOf(d) : PostsOf(d) = {a}
        BY <2>1, <2>3
      <3> QED  BY <3>1, FS_Singleton
    <2> QED  BY <2>2, <2>3
  <1> QED  BY <1>1, OnceInvariant, PTL

(* A completed record gives way only after a mishap of one of its calls.   *)
THEOREM CompletedRecordsYield == Spec => CompletedYields
  <1> DEFINE Yields == \A d \in Delivery :
       record[d] = "completed" /\ record'[d] # "completed" =>
         CallsOf(d) \cap (lateRun \cup hurt) # {}
  <1>1. TypeOK /\ OnceInv /\ [Next]_vars => Yields
    <2> SUFFICES ASSUME TypeOK, OnceInv, [Next]_vars, NEW d \in Delivery,
                        record[d] = "completed", record'[d] # "completed"
                 PROVE  Mishap(d)
      BY DEF Mishap
    <2>1. PICK c \in Call : CallStep(c) \/ StoreFails(c) \/ Die(c)
      BY TimeKeepsCalls DEF Next
    <2>2. d = For(c) /\ pc[c] \in Committed
      BY <2>1, CallRecords DEF Committed, Executing, PC
    <2> QED  BY <2>2 DEF OnceInv
  <1>2. [][TypeOK /\ OnceInv /\ [Next]_vars => Yields]_vars
    BY <1>1, PTL
  <1>3. Spec => [][Yields]_vars
    BY <1>1, OnceInvariant, PTL DEF Spec
  <1> QED  BY <1>3 DEF CompletedYields
-----------------------------------------------------------------------------
(* The probe of the circuit. *)

(* What is left to a probe that has not reported yet.                      *)
Reporting == {"post", "close", "count", "open"}

(* HALF_OPEN, which the durable store never is, belongs to such a probe.   *)
ProbeInv ==
  circuit.mode = "HALF_OPEN" =>
    ~durable /\ circuit.owner \in probe /\ pc[circuit.owner] \in Reporting

(* What a step of a call makes of the probes and of HALF_OPEN.             *)
LEMMA CallProbes ==
  ASSUME TypeOK, NEW c \in Call, CallStep(c) \/ StoreFails(c) \/ Die(c)
  PROVE  /\ \A o \in probe : o # c => o \in probe' /\ pc'[o] = pc[o]
         /\ ~durable /\ c \in probe /\ pc[c] \in Reporting =>
              \/ circuit'.mode # "HALF_OPEN"
              \/ c \in probe' /\ pc'[c] \in Reporting
         /\ \/ circuit' = circuit
            \/ circuit'.mode # "HALF_OPEN"
            \/ ~durable /\ circuit'.owner = c /\ c \in probe' /\ pc'[c] \in Reporting
  <1> USE DEF At, Goto, GotoWith, Reporting, Probing
  <1>1. /\ pc \in [Call -> PC] /\ probe \subseteq Call /\ circuit \in Circuit
        /\ seen[c] \in Circuit
    BY DEF TypeOK, StoreType
  <1>2. Closed.mode # "HALF_OPEN" /\ Failed(seen[c]).mode # "HALF_OPEN"
    BY DEF Closed, Failed
  <1>3. CASE Start(c) \/ ReadRecord(c) \/ Recheck(c) \/ ReadCircuit(c)
    BY <1>1, <1>3 DEF Start, ReadRecord, Recheck, ReadCircuit, ReadsOnly
  <1>4. CASE TakeLease(c) \/ TakeProbe(c) \/ DropStaleProbe(c) \/ FreeProbe(c) \/ Release(c)
    BY <1>1, <1>4 DEF TakeLease, TakeProbe, DropStaleProbe, FreeProbe, Release, LeasesOnly
  <1>5. CASE MarkRunning(c) \/ Complete(c) \/ Fail(c)
    BY <1>1, <1>5 DEF MarkRunning, Complete, Fail, RecordsOnly
  <1>6. CASE CloseCircuit(c) \/ PutFailure(c)
    BY <1>1, <1>2, <1>6 DEF CloseCircuit, PutFailure, PutCircuit
  <1>7. CASE Reopen(c)
    <2>1. circuit' = circuit \/ circuit'.mode = "OPEN"
      BY <1>1, <1>7 DEF Reopen, PutCircuit, Circuit
    <2> QED  BY <1>1, <1>7, <2>1 DEF Reopen
  <1>8. CASE HalfOpen(c)
    <2>1. circuit' = circuit \/ (~durable /\ circuit'.owner = c /\ c \in probe' /\ pc'[c] = "post")
      BY <1>1, <1>8 DEF HalfOpen, PutCircuit, PutsReadState, Circuit
    <2> QED  BY <1>1, <1>8, <2>1 DEF HalfOpen
  <1>9. CASE SpendApproval(c)
    BY <1>1, <1>9 DEF SpendApproval
  <1>10. CASE Post(c)
    BY <1>1, <1>10 DEF Post, storeVars
  <1>11. CASE CountFailure(c)
    BY <1>1, <1>11 DEF CountFailure, ReadsOnly
  <1>12. CASE StoreFails(c)
    <2>1. circuit' = circuit \/ circuit'.mode # "HALF_OPEN"
      BY <1>2, <1>12 DEF StoreFails, Applied, PutCircuit
    <2> QED  BY <1>1, <1>12, <2>1 DEF StoreFails, Fault
  <1>13. CASE Die(c)
    BY <1>1, <1>13 DEF Die, Fault
  <1> QED
    BY <1>3, <1>4, <1>5, <1>6, <1>7, <1>8, <1>9, <1>10, <1>11, <1>12, <1>13 DEF CallStep

(* A circuit is HALF_OPEN only while a probe has not reported.             *)
THEOREM ProbesReport == Spec => []ProbeReports
  <1>1. Init => ProbeInv
    BY DEF Init, StoreInit, Closed, ProbeInv
  <1>2. TypeOK /\ ProbeInv /\ [Next]_vars => ProbeInv'
    <2> SUFFICES ASSUME TypeOK, ProbeInv, [Next]_vars  PROVE ProbeInv'
      OBVIOUS
    <2>1. ASSUME NEW c \in Call, CallStep(c) \/ StoreFails(c) \/ Die(c)  PROVE ProbeInv'
      <3>1. durable' = durable
        BY <2>1, CallMoves
      <3>2. CASE circuit' = circuit
        BY <2>1, <3>1, <3>2, CallProbes DEF ProbeInv
      <3> QED  BY <2>1, <3>1, <3>2, CallProbes DEF ProbeInv
    <2>2. CASE UNCHANGED <<durable, pc, probe>> /\ circuit'.mode = circuit.mode
               /\ circuit'.owner = circuit.owner
      BY <2>2 DEF ProbeInv
    <2>3. CASE ProbeEnds \/ CircuitDeadline
      <3>1. circuit'.mode = circuit.mode /\ circuit'.owner = circuit.owner
        BY <2>3 DEF ProbeEnds, CircuitDeadline, TypeOK, StoreType, Circuit
      <3> QED  BY <2>2, <2>3, <3>1, TimeKeepsCalls
    <2>4. CASE UNCHANGED <<durable, pc, probe, circuit>>
      BY <2>2, <2>4
    <2>5. CASE \/ \E d \in Delivery : LeaseEnds(d)
               \/ \E a \in Approval : Expire(a) \/ NonceEnds(a)
               \/ UNCHANGED vars
      BY <2>4, <2>5 DEF LeaseEnds, Expire, NonceEnds, vars, storeVars, locals
    <2> QED  BY <2>1, <2>3, <2>5 DEF Next
  <1>3. ProbeInv => ProbeReports
    BY DEF ProbeInv, ProbeReports, Reporting, Probing
  <1> QED  BY <1>1, <1>2, <1>3, TypeCorrect, PTL DEF Spec
-----------------------------------------------------------------------------
(* Approvals. *)

(* The nonce of a spent approval is on record until the approval expires.  *)
SpentInv ==
  /\ \A c \in spent : token[c] \in nonces \cup expired
  /\ ApprovalSpentOnce

(* A valid approval is spent once, whatever is lost or expires.            *)
THEOREM ApprovalsSpentOnce == Spec => []ApprovalSpentOnce
  <1>1. Init => SpentInv
    BY DEF Init, SpentInv, ApprovalSpentOnce
  <1>2. TypeOK /\ SpentInv /\ [Next]_vars => SpentInv'
    <2> SUFFICES ASSUME TypeOK, SpentInv, [Next]_vars  PROVE SpentInv'
      OBVIOUS
    <2>1. CASE UNCHANGED <<token, spent>> /\ nonces \cup expired \subseteq nonces' \cup expired'
               /\ expired \subseteq expired'
      BY <2>1 DEF SpentInv, ApprovalSpentOnce
    <2>2. ASSUME NEW c \in Call, SpendApproval(c)  PROVE SpentInv'
      <3>1. UNCHANGED <<token, expired>>
        BY <2>2 DEF SpendApproval, Calm, Goto, GotoWith
      <3>2. CASE NonceIsNew(token[c]) /\ ConsumeNonce(token[c]) /\ spent' = spent \cup {c}
        BY <3>1, <3>2 DEF SpentInv, ApprovalSpentOnce, NonceIsNew, ConsumeNonce
      <3> QED  BY <2>1, <2>2, <3>1, <3>2 DEF SpendApproval
    <2>3. ASSUME NEW c \in Call, StoreFails(c) \/ Die(c)  PROVE SpentInv'
      <3>1. UNCHANGED <<token, spent, expired>>
        BY <2>3 DEF StoreFails, Die, Fault, Goto, GotoWith, traces
      <3>2. nonces \subseteq nonces'
        BY <2>3 DEF StoreFails, Die, Applied, ConsumeNonce
      <3> QED  BY <2>1, <3>1, <3>2
    <2>4. ASSUME NEW c \in Call, CallStep(c), ~SpendApproval(c)  PROVE SpentInv'
      BY <2>1, <2>4
      DEF CallStep, Start, ReadRecord, TakeLease, Recheck, MarkRunning, ReadCircuit, DropStaleProbe,
          Reopen, TakeProbe, HalfOpen, Post, CloseCircuit, CountFailure, PutFailure, FreeProbe,
          Complete, Fail, Release, ReadsOnly, LeasesOnly, RecordsOnly, CircuitOnly, Calm,
          Goto, GotoWith, traces, storeVars
    <2>5. ASSUME NEW a \in Approval, Expire(a) \/ NonceEnds(a)  PROVE SpentInv'
      BY <2>1, <2>5 DEF Expire, NonceEnds, RemoveNonce, locals, traces, storeVars
    <2>6. CASE (\E d \in Delivery : LeaseEnds(d)) \/ ProbeEnds \/ CircuitDeadline
      BY <2>1, <2>6 DEF LeaseEnds, ProbeEnds, CircuitDeadline, locals, traces
    <2>7. CASE UNCHANGED vars
      BY <2>1, <2>7 DEF vars, storeVars, locals, traces
    <2> QED  BY <2>2, <2>3, <2>4, <2>5, <2>6, <2>7 DEF Next
  <1>3. SpentInv => ApprovalSpentOnce
    BY DEF SpentInv
  <1> QED  BY <1>1, <1>2, <1>3, TypeCorrect, PTL DEF Spec
=============================================================================
