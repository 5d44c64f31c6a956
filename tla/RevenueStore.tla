---------------------------- MODULE RevenueStore -----------------------------
(***************************************************************************)
(* The execution-control store of Revenue-OS                               *)
(* (lib/revenue-os/execution-control.mjs): leases, idempotency records,    *)
(* used approval nonces and the circuit of one delivery resource.          *)
(*                                                                         *)
(* MongoExecutionStore (durable) and InMemoryExecutionStore do the same in *)
(* every method but putCircuit.  One method call is one step.  The code    *)
(* compares deadlines with now, so a deadline is the flag "it has passed". *)
(***************************************************************************)
EXTENDS Naturals

CONSTANTS
  Call,        \* calls of executeControlledDelivery; the owner uuids they draw
  Delivery,    \* idempotency keys: lane, resource and payload digest
  Approval,    \* signed approval tokens, one nonce each
  Probe,       \* the key circuit-probe:<circuit>
  None,        \* null
  Threshold    \* circuitFailureThreshold

ASSUME KeyAssumption == Probe \notin Delivery /\ None \notin Call
ASSUME ThresholdAssumption == Threshold \in Nat \ {0}

VARIABLES
  durable,     \* store.durable: TRUE is the MongoDB store
  lease,       \* leases
  record,      \* idempotency: the status of each key
  nonces,      \* nonces
  circuit      \* circuits

storeVars == <<durable, lease, record, nonces, circuit>>

LeaseKey == Delivery \cup {Probe}
Lease == [owner : Call \cup {None}, over : BOOLEAN]
Status == {"none", "running", "completed", "failed"}
Circuit == [mode     : {"CLOSED", "OPEN", "HALF_OPEN"},
            failures : Nat,
            owner    : Call \cup {None},       \* probeOwner
            over     : BOOLEAN]                \* openUntil or probeUntil

NoLease == [owner |-> None, over |-> FALSE]
Closed == [mode |-> "CLOSED", failures |-> 0, owner |-> None, over |-> FALSE]

StoreType ==
  /\ durable \in BOOLEAN
  /\ lease \in [LeaseKey -> Lease]
  /\ record \in [Delivery -> Status]
  /\ nonces \subseteq Approval
  /\ circuit \in Circuit

StoreInit ==
  /\ durable \in BOOLEAN
  /\ lease = [k \in LeaseKey |-> NoLease]
  /\ record = [d \in Delivery |-> "none"]
  /\ nonces = {}
  /\ circuit = Closed

(* acquireLease, for an owner that holds no lease yet. *)
Free(k) == lease[k].owner = None \/ lease[k].over
AcquireLease(k, c) ==
  /\ Free(k)
  /\ lease' = [lease EXCEPT ![k] = [owner |-> c, over |-> FALSE]]

(* Mutant: a lease is released whoever holds it. *)
ReleaseAny(k, c) == lease' = [lease EXCEPT ![k] = NoLease]

(* releaseLease *)
ReleaseLease(k, c) ==
  lease' = [lease EXCEPT ![k] = IF @.owner = c THEN NoLease ELSE @]

HoldsLive(k, c) == c # None /\ lease[k].owner = c /\ ~lease[k].over

(* putIdempotency *)
PutRecord(d, status) == record' = [record EXCEPT ![d] = status]

(* Mutant: a nonce is accepted again. *)
NonceAlwaysNew(a) == TRUE

(* consumeNonce returns FALSE when the nonce is there. *)
NonceIsNew(a) == a \notin nonces
ConsumeNonce(a) == nonces' = nonces \cup {a}

PutCircuit(state) == circuit' = state

(* putCircuit of a state that was read: the document MongoDB returned has  *)
(* createdAt, the update then sets createdAt under $set and $setOnInsert,  *)
(* and MongoDB refuses two operators on one path.                          *)
PutsReadState == ~durable

-----------------------------------------------------------------------------
(* Time.  The TTL index removes a nonce once its approval has expired.     *)

LeaseLapses(k) ==
  /\ lease[k].owner # None /\ ~lease[k].over
  /\ lease' = [lease EXCEPT ![k].over = TRUE]

RemoveNonce(a) == a \in nonces /\ nonces' = nonces \ {a}
=============================================================================
