---------------------------- MODULE PaymentMesh ----------------------------
(***************************************************************************)
(* pipeline/mesh_engine.py: the daemon that compiles an asset for each     *)
(* keyword, opens a Stripe checkout session for it and tells a webhook.    *)
(*                                                                         *)
(* A cycle of the daemon runs the generation pool and the sync pipeline as *)
(* coroutines of one gather.  A coroutine that raises ends the gather but  *)
(* not the others: they go on while the next cycle begins.  So a slot of   *)
(* Cycle is a cycle of which coroutines are left, and a step is what one   *)
(* coroutine does between two awaits.                                      *)
(***************************************************************************)
EXTENDS Naturals, FiniteSets

CONSTANTS
  Node,              \* the rows of asset_pipeline, seeded by main()
  Cycle,             \* the cycles that may overlap, positive numbers
  MaxRetries,        \* _MAX_SYNC_RETRIES
  FailureThreshold, SuccessThreshold,   \* of the circuit breaker
  MaxFaults          \* bound on crashes, outages, lost answers, expired keys and
                     \* operations on the database that raise

(* Assumed of the constants, in Services.                                  *)
CycleAssumption == Cycle \subseteq Nat \ {0} /\ Cycle # {} /\ IsFiniteSet(Cycle)
LimitAssumption ==
  {MaxRetries, FailureThreshold, SuccessThreshold} \subseteq Nat \ {0} /\ MaxFaults \in Nat

VARIABLES
  asset,       \* the row of each node; copy is the cycle whose pool wrote its content,
               \* sold the copy on sale when it was recorded as SYNCED
  letters,     \* rows of dead_letter for each node
  stripe,      \* Stripe: the copy each idempotency key is bound to, and sessions created
  told,        \* packets the webhook accepted for each node: 0, 1, or more
  circuit,     \* the CircuitBreaker of the process
  making,      \* the generation pool of each slot
  sync,        \* the sync pipeline of each slot
  raised,      \* slots whose gather has raised
  faults,      \* what the bound counts
  overlapped,  \* auxiliary: a cycle began while coroutines of an earlier one ran
  expired,     \* auxiliary: nodes whose idempotency key Stripe has dropped
  unrecorded,  \* auxiliary: nodes that were told and not marked
  stranded     \* auxiliary: nodes whose dead letter was not written

store == <<asset, letters>>
services == <<stripe, told>>
history == <<overlapped, expired, unrecorded, stranded>>
vars == <<store, services, circuit, making, sync, raised, faults, history>>

Copy == Cycle \cup {0}
Seen == [copy : Copy, retries : 0..MaxRetries]
Nothing == [copy |-> 0, retries |-> 0]
SyncStep == {"off", "read", "probe", "row", "tell", "mark", "count", "letter"}

TypeOK ==
  /\ asset \in [Node -> [stage : {"QUEUED", "COMPILED", "FAILED"},
                         sync : {"UNSYNCED", "SYNCED", "DEAD"},
                         retries : Nat, copy : Copy, sold : Copy]]
  /\ letters \in [Node -> 0..Cardinality(Cycle)]
  /\ stripe \in [Node -> [key : Copy, sessions : Nat]]
  /\ told \in [Node -> 0..2]
  /\ circuit \in [state : {"CLOSED", "OPEN", "HALF_OPEN"}, failures : 0..FailureThreshold,
                  successes : 0..SuccessThreshold, cooled : BOOLEAN]
  /\ (circuit.state = "CLOSED") = (circuit.failures < FailureThreshold)
  /\ making \in [Cycle -> [step : {"off", "read", "make"}, todo : SUBSET Node]]
  /\ sync \in [Cycle -> [step : SyncStep, todo : SUBSET Node, now : SUBSET Node,
                         seen : [Node -> Seen]]]
  /\ raised \subseteq Cycle
  /\ faults \in 0..MaxFaults
  /\ overlapped \in BOOLEAN
  /\ expired \subseteq Node /\ unrecorded \subseteq Node /\ stranded \subseteq Node

Closed == [state |-> "CLOSED", failures |-> 0, successes |-> 0, cooled |-> FALSE]
NotMaking == [step |-> "off", todo |-> {}]
NotSyncing == [step |-> "off", todo |-> {}, now |-> {}, seen |-> [n \in Node |-> Nothing]]

(* seed *)
Seeded == [stage |-> "QUEUED", sync |-> "UNSYNCED", retries |-> 0, copy |-> 0, sold |-> 0]

Init ==
  /\ asset = [n \in Node |-> Seeded]
  /\ letters = [n \in Node |-> 0]
  /\ stripe = [n \in Node |-> [key |-> 0, sessions |-> 0]]
  /\ told = [n \in Node |-> 0]
  /\ circuit = Closed
  /\ making = [c \in Cycle |-> NotMaking] /\ sync = [c \in Cycle |-> NotSyncing]
  /\ raised = {} /\ faults = 0
  /\ overlapped = FALSE /\ expired = {} /\ unrecorded = {} /\ stranded = {}

Fine == UNCHANGED faults
Fault == faults < MaxFaults /\ faults' = faults + 1

-----------------------------------------------------------------------------
(* The circuit breaker.  Failures above the threshold count as many as the *)
(* threshold: an open circuit keeps them until it closes, which clears     *)
(* them.  The successes are read only in HALF_OPEN, which starts them at 0. *)

(* Mutant: an open circuit stays open whatever the clock says.             *)
ViewedAsWritten(cb) == cb

Viewed(cb) ==
  IF cb.state = "OPEN" /\ cb.cooled
  THEN [cb EXCEPT !.state = "HALF_OPEN", !.successes = 0, !.cooled = FALSE] ELSE cb

AllowsTraffic(cb) == Viewed(cb).state # "OPEN"

AfterSuccess(cb) ==
  LET v == Viewed(cb) IN
  CASE v.state = "HALF_OPEN" ->
         IF v.successes + 1 >= SuccessThreshold THEN Closed
         ELSE [v EXCEPT !.successes = @ + 1]
    [] v.state = "CLOSED" /\ v.failures > 0 -> [v EXCEPT !.failures = @ - 1]
    [] OTHER -> v

(* Mutant: a failure of the probe leaves the circuit half open.            *)
FailureHalfCounted(cb) ==
  LET v == Viewed(cb)
      f == IF v.failures < FailureThreshold THEN v.failures + 1 ELSE v.failures IN
  [v EXCEPT !.failures = f]

AfterFailure(cb) ==
  LET v == Viewed(cb)
      f == IF v.failures < FailureThreshold THEN v.failures + 1 ELSE v.failures IN
  IF v.state # "OPEN" /\ f >= FailureThreshold
  THEN [state |-> "OPEN", failures |-> f, successes |-> 0, cooled |-> FALSE]
  ELSE [v EXCEPT !.failures = f]

Elapse ==
  /\ circuit.state = "OPEN" /\ ~circuit.cooled
  /\ circuit' = [circuit EXCEPT !.cooled = TRUE]
  /\ UNCHANGED <<store, services, making, sync, raised, faults, history>>

-----------------------------------------------------------------------------
(* The daemon. *)

Idle(c) == making[c].step = "off" /\ sync[c].step = "off"

(* The slots are alike: a cycle takes the first that is idle.              *)
FirstIdle(c) == Idle(c) /\ \A d \in Cycle : Idle(d) => c <= d

BeginCycle(c) ==
  /\ FirstIdle(c) /\ \A d \in Cycle : Idle(d) \/ d \in raised
  /\ making' = [making EXCEPT ![c].step = "read"]
  /\ sync' = [sync EXCEPT ![c].step = "read"]
  /\ raised' = {d \in raised : ~Idle(d)}
  /\ overlapped' = (overlapped \/ \E d \in Cycle : ~Idle(d))
  /\ Fine /\ UNCHANGED <<store, services, circuit, expired, unrecorded, stranded>>

(* A tick of the revenue matrix raises: the coroutines of the cycle go on. *)
TickRaises(c) ==
  /\ ~Idle(c) /\ c \notin raised
  /\ raised' = raised \cup {c}
  /\ Fault /\ UNCHANGED <<store, services, circuit, making, sync, history>>

(* The process ends, by a crash or a signal, and is started again.         *)
Crash ==
  /\ circuit' = Closed
  /\ making' = [c \in Cycle |-> NotMaking] /\ sync' = [c \in Cycle |-> NotSyncing]
  /\ raised' = {}
  /\ unrecorded' = unrecorded \cup UNION {sync[c].now : c \in {d \in Cycle : sync[d].step = "mark"}}
  /\ stranded' = stranded \cup UNION {sync[c].now : c \in {d \in Cycle : sync[d].step = "letter"}}
  /\ Fault /\ UNCHANGED <<store, services, overlapped, expired>>

-----------------------------------------------------------------------------
(* run_generation_pool *)

MakeOnly == UNCHANGED <<letters, services, circuit, sync, history>>
MakeRaises(c) == raised' = raised \cup {c} /\ Fault

Pending == {n \in Node : asset[n].stage = "QUEUED"}

GenRead(c) ==
  /\ making[c].step = "read"
  /\ \/ /\ making' = [making EXCEPT ![c] = IF Pending = {} THEN NotMaking
                                           ELSE [step |-> "make", todo |-> Pending]]
        /\ Fine /\ UNCHANGED raised
     \/ making' = [making EXCEPT ![c] = NotMaking] /\ MakeRaises(c)
  /\ UNCHANGED asset /\ MakeOnly

SaveAsset(c, n) == asset' = [asset EXCEPT ![n].stage = "COMPILED", ![n].copy = c]
MarkGenerationFailed(n) ==
  asset' = [asset EXCEPT ![n].stage = "FAILED", ![n].retries = @ + 1]

(* One task of the pool: save_asset, or mark_generation_failed when the    *)
(* model failed or save_asset raised; when that raises too the row stays.  *)
Compile(c, n) ==
  /\ n \in making[c].todo
  /\ LET rest == making[c].todo \ {n} IN
     making' = [making EXCEPT ![c] = IF rest = {} THEN NotMaking ELSE [@ EXCEPT !.todo = rest]]
  /\ \/ SaveAsset(c, n) /\ Fine /\ UNCHANGED raised
     \/ MarkGenerationFailed(n) /\ Fine /\ UNCHANGED raised
     \/ UNCHANGED asset /\ MakeRaises(c)
  /\ MakeOnly

-----------------------------------------------------------------------------
(* run_sync_pipeline *)

SyncOnly == UNCHANGED <<making, overlapped, expired>>
Row(c, n) == sync[c].now = {n}

NextRow(c) ==
  sync' = [sync EXCEPT ![c] = IF @.todo = {} THEN NotSyncing
                              ELSE [@ EXCEPT !.step = "row", !.now = {}]]
SyncRaises(c) == sync' = [sync EXCEPT ![c] = NotSyncing] /\ raised' = raised \cup {c} /\ Fault

(* unsynced, then allows_traffic.                                          *)
SyncRead(c) ==
  /\ sync[c].step = "read"
  /\ LET batch == {n \in Node : /\ asset[n].stage = "COMPILED" /\ asset[n].sync = "UNSYNCED"
                                /\ asset[n].retries < MaxRetries} IN
     \/ /\ circuit' = IF batch = {} THEN circuit ELSE Viewed(circuit)
        /\ sync' = [sync EXCEPT ![c] =
             IF batch = {} \/ ~AllowsTraffic(circuit) THEN NotSyncing
             ELSE [step |-> "probe", todo |-> batch, now |-> {},
                   seen |-> [n \in Node |-> IF n \in batch
                               THEN [copy |-> asset[n].copy, retries |-> asset[n].retries]
                               ELSE Nothing]]]
        /\ Fine /\ UNCHANGED raised
     \/ SyncRaises(c) /\ UNCHANGED circuit
  /\ UNCHANGED <<store, services, unrecorded, stranded>> /\ SyncOnly

Probe(c) ==
  /\ sync[c].step = "probe"
  /\ \/ sync' = [sync EXCEPT ![c].step = "row"] /\ Fine /\ UNCHANGED circuit
     \/ /\ sync' = [sync EXCEPT ![c] = NotSyncing]
        /\ circuit' = AfterFailure(circuit) /\ Fault
  /\ UNCHANGED <<store, services, raised, unrecorded, stranded>> /\ SyncOnly

(* The except clause: record_failure, before the first await in it.        *)
Fails(c, n) ==
  /\ sync' = [sync EXCEPT ![c].step = "count", ![c].now = {n}, ![c].todo = @ \ {n}]
  /\ circuit' = AfterFailure(circuit)

(* Mutant: the key carries the number of the attempt.                      *)
SellAnew(c, n) ==
  /\ sync[c].step = "row" /\ n \in sync[c].todo
  /\ stripe' = [stripe EXCEPT ![n].sessions = @ + 1, ![n].key = sync[c].seen[n].copy]
  /\ \/ /\ sync' = [sync EXCEPT ![c].step = "tell", ![c].now = {n}, ![c].todo = @ \ {n}]
        /\ Fine /\ UNCHANGED circuit
     \/ Fails(c, n) /\ Fault
  /\ UNCHANGED <<store, told, raised, unrecorded, stranded>> /\ SyncOnly

(* _stripe_create_session with its retries.  Stripe answers a key it knows *)
(* with the session it made for it, and refuses one with other parameters. *)
Sell(c, n) ==
  /\ sync[c].step = "row" /\ n \in sync[c].todo
  /\ LET copy == sync[c].seen[n].copy
         made == [key |-> copy, sessions |-> IF stripe[n].key = 0 THEN stripe[n].sessions + 1
                                             ELSE stripe[n].sessions] IN
     \/ /\ stripe[n].key \in {0, copy}
        /\ stripe' = [stripe EXCEPT ![n] = made]
        /\ \/ /\ sync' = [sync EXCEPT ![c].step = "tell", ![c].now = {n}, ![c].todo = @ \ {n}]
              /\ Fine /\ UNCHANGED circuit
           \/ Fails(c, n) /\ Fault
     \/ Fails(c, n) /\ Fine /\ UNCHANGED stripe
  /\ UNCHANGED <<store, told, raised, unrecorded, stranded>> /\ SyncOnly

(* The webhook accepts, accepts with its answer lost, or refuses.          *)
Tell(c, n) ==
  /\ sync[c].step = "tell" /\ Row(c, n)
  /\ \/ /\ told' = [told EXCEPT ![n] = IF @ < 2 THEN @ + 1 ELSE 2]
        /\ \/ /\ sync' = [sync EXCEPT ![c].step = "mark"]
              /\ Fine /\ UNCHANGED <<circuit, unrecorded>>
           \/ Fails(c, n) /\ unrecorded' = unrecorded \cup {n} /\ Fault
     \/ Fails(c, n) /\ Fine /\ UNCHANGED <<told, unrecorded>>
  /\ UNCHANGED <<store, stripe, raised, stranded>> /\ SyncOnly

Mark(c, n) ==
  /\ sync[c].step = "mark" /\ Row(c, n)
  /\ \/ /\ asset' = [asset EXCEPT ![n].sync = "SYNCED", ![n].sold = sync[c].seen[n].copy]
        /\ circuit' = AfterSuccess(circuit)
        /\ NextRow(c) /\ Fine /\ UNCHANGED unrecorded
     \/ Fails(c, n) /\ unrecorded' = unrecorded \cup {n} /\ Fault /\ UNCHANGED asset
  /\ UNCHANGED <<letters, services, raised, stranded>> /\ SyncOnly

(* Whether the retries of the row, as it was read, are used up.            *)
Exhausted(c, n) == sync[c].seen[n].retries + 1 >= MaxRetries

Count(c, n) ==
  /\ sync[c].step = "count" /\ Row(c, n)
  /\ \/ /\ asset' = [asset EXCEPT ![n].retries = @ + 1]
        /\ IF Exhausted(c, n) THEN sync' = [sync EXCEPT ![c].step = "letter"] ELSE NextRow(c)
        /\ Fine /\ UNCHANGED raised
     \/ SyncRaises(c) /\ UNCHANGED asset
  /\ UNCHANGED <<letters, services, circuit, unrecorded, stranded>> /\ SyncOnly

Letter(c, n) ==
  /\ sync[c].step = "letter" /\ Row(c, n)
  /\ \/ /\ asset' = [asset EXCEPT ![n].sync = "DEAD"]
        /\ letters' = [letters EXCEPT ![n] = @ + 1]
        /\ NextRow(c) /\ Fine /\ UNCHANGED <<raised, stranded>>
     \/ SyncRaises(c) /\ stranded' = stranded \cup {n} /\ UNCHANGED store
  /\ UNCHANGED <<services, circuit, unrecorded>> /\ SyncOnly

(* Stripe drops a key, which it may after a day.                           *)
KeyExpires(n) ==
  /\ stripe[n].key # 0
  /\ stripe' = [stripe EXCEPT ![n].key = 0] /\ expired' = expired \cup {n}
  /\ Fault /\ UNCHANGED <<store, told, circuit, making, sync, raised, overlapped, unrecorded, stranded>>

-----------------------------------------------------------------------------
Work(c) ==
  \/ GenRead(c) \/ SyncRead(c) \/ Probe(c)
  \/ \E n \in Node : \/ Compile(c, n) \/ Sell(c, n) \/ Tell(c, n)
                     \/ Mark(c, n) \/ Count(c, n) \/ Letter(c, n)

Next ==
  \/ \E c \in Cycle : BeginCycle(c) \/ Work(c) \/ TickRaises(c)
  \/ \E n \in Node : KeyExpires(n)
  \/ Elapse \/ Crash

-----------------------------------------------------------------------------
(* Stripe makes one session for a node until it drops the key, and the     *)
(* webhook is told once unless a delivery went unrecorded or two cycles    *)
(* overlapped.                                                             *)
EffectsOnce ==
  \A n \in Node :
    /\ stripe[n].sessions > 1 => n \in expired
    /\ told[n] > 1 => n \in unrecorded \/ overlapped

(* What is on sale is what the row says, and an asset that gives up leaves *)
(* a dead letter, unless the letter was not written or two cycles counted  *)
(* from the same reading.                                                  *)
NothingLost ==
  \A n \in Node : overlapped \/
    /\ asset[n].sync = "SYNCED" => told[n] > 0 /\ asset[n].sold = asset[n].copy
    /\ letters[n] = IF asset[n].sync = "DEAD" THEN 1 ELSE 0
    /\ asset[n].stage = "COMPILED" /\ asset[n].sync = "UNSYNCED" /\ asset[n].retries >= MaxRetries
         => n \in stranded \/ \E c \in Cycle : sync[c].step = "letter" /\ Row(c, n)

(* No asset stays queued for good: it is failed, sold or given up on.      *)
Settled(n) == asset[n].stage = "FAILED" \/ asset[n].sync # "UNSYNCED" \/ asset[n].retries >= MaxRetries
EveryItemSettles == \A n \in Node : []<>Settled(n)
=============================================================================
