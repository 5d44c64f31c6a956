--------------------------- MODULE RevenueDelivery ---------------------------
(***************************************************************************)
(* Approved deliveries of Revenue-OS: executeControlledDelivery            *)
(* (lib/revenue-os/safe-delivery.mjs) on runOnce, the approvals and the    *)
(* circuit of lib/revenue-os/execution-control.mjs.                        *)
(*                                                                         *)
(* Every await on the store or on the adapter is a step of the call that   *)
(* makes it, and calls interleave between any two, in one process or in    *)
(* several.  The deliveries all go to one resource, hence one circuit.     *)
(* The adapter writes to a service outside the repository, once per call.  *)
(***************************************************************************)
EXTENDS RevenueStore, FiniteSets

CONSTANTS
  Of,          \* the delivery an approval is signed for
  Carried,     \* the ways the calls may carry approvals
  MaxFaults,   \* bound on lost answers of the store and calls that die
  MaxLapses    \* bound on deadlines that pass, of approvals, leases and the circuit

ASSUME ScopeAssumption == Of \in [Approval -> Delivery]
ASSUME CarriedAssumption == Carried \subseteq [Call -> Approval]
ASSUME BoundAssumption == {MaxFaults, MaxLapses} \subseteq Nat

VARIABLES
  expired,     \* approvals whose exp has passed
  pc,          \* the await each call is at
  token,       \* approvalToken
  seen,        \* the circuit state the call has read, while it needs it
  probe,       \* calls with a circuit.probeOwner, while they need it
  posted,      \* auxiliary: calls whose adapter did the external write
  spent,       \* auxiliary: calls that consumed their approval
  lateRun,     \* auxiliary: calls that execute on a lease that has ended
  lateProbe,   \* auxiliary: calls whose probe lease has ended
  hurt,        \* auxiliary: calls that lost an answer, or died
  faults, lapses   \* what the bounds count

locals == <<pc, token, seen, probe>>
traces == <<posted, spent, lateRun, lateProbe>>
vars == <<storeVars, expired, locals, traces, hurt, faults, lapses>>

PC == {"off", "read", "lease", "recheck", "mark", "spend", "circuit", "drop", "reopen",
       "probe", "halfopen", "post", "close", "freeClosed", "count", "open", "freeOpen",
       "complete", "fail", "release", "done"}

Executing == PC \ {"off", "read", "lease", "release", "done"}
UsesSeen == {"drop", "reopen", "probe", "halfopen", "open"}
Probing == {"post", "close", "freeClosed", "count", "open", "freeOpen"}

For(c) == Of[token[c]]
CallsOf(d) == {c \in Call : pc[c] # "off" /\ For(c) = d}

TypeOK ==
  /\ StoreType
  /\ expired \subseteq Approval
  /\ pc \in [Call -> PC]
  /\ token \in [Call -> Approval]
  /\ seen \in [Call -> Circuit]
  /\ probe \subseteq Call /\ posted \subseteq Call /\ spent \subseteq Call
  /\ lateRun \subseteq Call /\ lateProbe \subseteq Call /\ hurt \subseteq Call
  /\ faults \in 0..MaxFaults /\ lapses \in 0..MaxLapses

Init ==
  /\ StoreInit
  /\ expired = {}
  /\ pc = [c \in Call |-> "off"]
  /\ token \in Carried
  /\ seen = [c \in Call |-> Closed]
  /\ probe = {} /\ posted = {} /\ spent = {} /\ lateRun = {} /\ lateProbe = {} /\ hurt = {}
  /\ faults = 0 /\ lapses = 0

-----------------------------------------------------------------------------
(* Steps of a call. *)

At(c, l) == pc[c] = l
GotoWith(c, l, state, probes) ==
  /\ pc' = [pc EXCEPT ![c] = l]
  /\ seen' = [seen EXCEPT ![c] = IF l \in UsesSeen THEN state ELSE Closed]
  /\ probe' = IF l \in Probing THEN probes ELSE probe \ {c}
  /\ UNCHANGED token
Goto(c, l) == GotoWith(c, l, seen[c], probe)
Calm == UNCHANGED <<durable, expired, hurt, faults, lapses>>

(* A step that reads the store, or writes one part of it.                  *)
ReadsOnly == Calm /\ UNCHANGED <<lease, record, nonces, circuit, traces>>
LeasesOnly == Calm /\ UNCHANGED <<record, nonces, circuit, traces>>
RecordsOnly == Calm /\ UNCHANGED <<lease, nonces, circuit, traces>>
CircuitOnly == Calm /\ UNCHANGED <<lease, record, nonces, traces>>

(* executeControlledDelivery up to runOnce: the approval is verified.      *)
Start(c) ==
  /\ At(c, "off")
  /\ Goto(c, IF token[c] \in expired THEN "done" ELSE "read")
  /\ ReadsOnly

(* runOnce *)
ReadRecord(c) ==
  /\ At(c, "read")
  /\ Goto(c, IF record[For(c)] = "completed" THEN "done" ELSE "lease")
  /\ ReadsOnly

TakeLease(c) ==
  /\ At(c, "lease")
  /\ \/ AcquireLease(For(c), c) /\ Goto(c, "recheck")
     \/ ~Free(For(c)) /\ UNCHANGED lease /\ Goto(c, "done")
  /\ LeasesOnly

(* Mutant: the record is not read again under the lease. *)
RecheckNothing(c) == At(c, "recheck") /\ Goto(c, "mark") /\ ReadsOnly

Recheck(c) ==
  /\ At(c, "recheck")
  /\ Goto(c, IF record[For(c)] = "completed" THEN "release" ELSE "mark")
  /\ ReadsOnly

(* The approval is verified again before the next await.                   *)
MarkRunning(c) ==
  /\ At(c, "mark")
  /\ PutRecord(For(c), "running")
  /\ Goto(c, IF token[c] \in expired THEN "fail" ELSE "spend")
  /\ RecordsOnly

(* verifyAndConsumeApproval *)
SpendApproval(c) ==
  /\ At(c, "spend")
  /\ \/ /\ NonceIsNew(token[c])
        /\ ConsumeNonce(token[c]) /\ spent' = spent \cup {c}
        /\ Goto(c, "circuit")
     \/ /\ ~NonceIsNew(token[c])
        /\ UNCHANGED <<nonces, spent>>
        /\ Goto(c, "fail")
  /\ Calm /\ UNCHANGED <<lease, record, circuit, posted, lateRun, lateProbe>>

-----------------------------------------------------------------------------
(* beforeCircuitCall *)

AfterCircuitRead(state) ==
  CASE state.mode = "CLOSED"                  -> "post"
    [] state.mode # "CLOSED" /\ ~state.over   -> "fail"
    [] state.mode = "HALF_OPEN" /\ state.over -> "drop"
    [] state.mode = "OPEN" /\ state.over      -> "probe"

ReadCircuit(c) ==
  /\ At(c, "circuit")
  /\ GotoWith(c, AfterCircuitRead(circuit), circuit, probe)
  /\ ReadsOnly

DropStaleProbe(c) ==
  /\ At(c, "drop")
  /\ ReleaseLease(Probe, seen[c].owner)
  /\ Goto(c, "reopen")
  /\ LeasesOnly

Reopen(c) ==
  /\ At(c, "reopen")
  /\ \/ /\ PutsReadState
        /\ PutCircuit([seen[c] EXCEPT !.mode = "OPEN", !.owner = None, !.over = TRUE])
        /\ Goto(c, "probe")
     \/ ~PutsReadState /\ UNCHANGED circuit /\ Goto(c, "fail")
  /\ CircuitOnly

(* acquireHalfOpenProbe *)
TakeProbe(c) ==
  /\ At(c, "probe")
  /\ \/ AcquireLease(Probe, c) /\ Goto(c, "halfopen")
     \/ ~Free(Probe) /\ UNCHANGED lease /\ Goto(c, "fail")
  /\ LeasesOnly

(* probeUntil is the deadline of the probe lease.                          *)
HalfOpen(c) ==
  /\ At(c, "halfopen")
  /\ \/ /\ PutsReadState
        /\ PutCircuit([seen[c] EXCEPT !.mode = "HALF_OPEN", !.owner = c,
                                      !.over = ~HoldsLive(Probe, c)])
        /\ GotoWith(c, "post", Closed, probe \cup {c})
     \/ ~PutsReadState /\ UNCHANGED circuit /\ Goto(c, "fail")
  /\ CircuitOnly
-----------------------------------------------------------------------------
(* The adapter, and what is recorded of its answer.                        *)

(* An answer that is not ok, an exception or the abort of the timeout      *)
(* tells nothing of whether the write was done.                            *)
Post(c) ==
  /\ At(c, "post")
  /\ \/ posted' = posted \cup {c} /\ Goto(c, "close") /\ UNCHANGED hurt
     \/ posted' = posted \cup {c} /\ Goto(c, "count") /\ hurt' = hurt \cup {c}
     \/ UNCHANGED posted /\ Goto(c, "count") /\ UNCHANGED hurt
  /\ UNCHANGED <<storeVars, expired, spent, lateRun, lateProbe, faults, lapses>>

ToOrPast(c, free, next) == IF c \in probe THEN free ELSE next

(* recordCircuitSuccess *)
CloseCircuit(c) ==
  /\ At(c, "close")
  /\ PutCircuit(Closed)
  /\ Goto(c, ToOrPast(c, "freeClosed", "complete"))
  /\ CircuitOnly

FreeProbe(c) ==
  /\ \/ At(c, "freeClosed") /\ Goto(c, "complete")
     \/ At(c, "freeOpen") /\ Goto(c, "fail")
  /\ ReleaseLease(Probe, c)
  /\ LeasesOnly

(* recordCircuitFailure *)
CountFailure(c) ==
  /\ At(c, "count")
  /\ GotoWith(c, "open", circuit, probe)
  /\ ReadsOnly

(* Mutant: only a closed circuit is opened, a failed probe leaves it HALF_OPEN. *)
OpensClosed(state) ==
  IF state.mode = "CLOSED" /\ state.failures + 1 >= Threshold
  THEN [Closed EXCEPT !.mode = "OPEN", !.failures = state.failures + 1]
  ELSE [state EXCEPT !.failures = @ + 1]

(* Mutant: without the default for a missing document the count is NaN. *)
CountsFromNothing(state) ==
  [mode |-> "CLOSED", failures |-> IF state = Closed THEN None ELSE state.failures + 1,
   owner |-> None, over |-> FALSE]

Failed(state) ==
  LET failures == state.failures + 1
      shouldOpen == state.mode = "HALF_OPEN" \/ failures >= Threshold
  IN  [mode |-> IF shouldOpen THEN "OPEN" ELSE "CLOSED",
       failures |-> failures, owner |-> None, over |-> FALSE]

PutFailure(c) ==
  /\ At(c, "open")
  /\ PutCircuit(Failed(seen[c]))
  /\ Goto(c, ToOrPast(c, "freeOpen", "fail"))
  /\ CircuitOnly

(* Mutant: a failed execution is recorded as completed. *)
FailAsCompleted(c) ==
  /\ At(c, "fail")
  /\ PutRecord(For(c), "completed") /\ Goto(c, "release") /\ RecordsOnly

(* The end of runOnce. *)
Complete(c) ==
  /\ At(c, "complete")
  /\ PutRecord(For(c), "completed") /\ Goto(c, "release") /\ RecordsOnly

Fail(c) ==
  /\ At(c, "fail")
  /\ PutRecord(For(c), "failed") /\ Goto(c, "release") /\ RecordsOnly

Release(c) ==
  /\ At(c, "release")
  /\ ReleaseLease(For(c), c) /\ Goto(c, "done") /\ LeasesOnly

-----------------------------------------------------------------------------
(* Faults and time. *)

(* What the request of a call does when it reaches the store.              *)
Applied(c) ==
  \/ At(c, "lease") /\ AcquireLease(For(c), c) /\ UNCHANGED <<record, nonces, circuit>>
  \/ At(c, "probe") /\ AcquireLease(Probe, c) /\ UNCHANGED <<record, nonces, circuit>>
  \/ /\ pc[c] \in {"freeClosed", "freeOpen"}
     /\ ReleaseLease(Probe, c) /\ UNCHANGED <<record, nonces, circuit>>
  \/ At(c, "release") /\ ReleaseLease(For(c), c) /\ UNCHANGED <<record, nonces, circuit>>
  \/ At(c, "mark") /\ PutRecord(For(c), "running") /\ UNCHANGED <<lease, nonces, circuit>>
  \/ At(c, "complete") /\ PutRecord(For(c), "completed") /\ UNCHANGED <<lease, nonces, circuit>>
  \/ At(c, "fail") /\ PutRecord(For(c), "failed") /\ UNCHANGED <<lease, nonces, circuit>>
  \/ At(c, "spend") /\ ConsumeNonce(token[c]) /\ UNCHANGED <<lease, record, circuit>>
  \/ At(c, "close") /\ PutCircuit(Closed) /\ UNCHANGED <<lease, record, nonces>>
  \/ At(c, "open") /\ PutCircuit(Failed(seen[c])) /\ UNCHANGED <<lease, record, nonces>>

(* Where the exception of a failed await takes the call: the catch of the  *)
(* delivery, the catch of runOnce, its finally, or out.                    *)
Handler(l) ==
  CASE l \in {"read", "lease", "release"}                     -> "done"
    [] l \in {"recheck", "mark", "fail"}                      -> "release"
    [] l \in {"close", "freeClosed"}                          -> "count"
    [] l \in {"spend", "circuit", "probe", "count", "open",
              "freeOpen", "complete"}                         -> "fail"

Fault(c) ==
  /\ durable /\ faults < MaxFaults
  /\ faults' = faults + 1 /\ hurt' = hurt \cup {c}
  /\ UNCHANGED <<durable, expired, traces, lapses>>

(* The store does not answer: the request was lost, or the answer was.     *)
StoreFails(c) ==
  /\ pc[c] \notin {"off", "done", "post", "drop", "reopen", "halfopen"}
  /\ Fault(c)
  /\ UNCHANGED <<lease, record, nonces, circuit>> \/ Applied(c)
  /\ Goto(c, Handler(pc[c]))

(* The process ends.  After the adapter's write nothing is recorded.       *)
Die(c) ==
  /\ pc[c] \notin {"off", "done"}
  /\ Fault(c)
  /\ Goto(c, "done")
  /\ UNCHANGED <<lease, record, nonces, circuit>>

Lapse == lapses < MaxLapses /\ lapses' = lapses + 1

(* ttlMs, timeoutMs + 5 s for a delivery, ends before the call does.       *)
LeaseEnds(d) ==
  /\ LeaseLapses(d) /\ Lapse
  /\ lateRun' = lateRun \cup {c \in Call : HoldsLive(d, c) /\ pc[c] \in Executing}
  /\ UNCHANGED <<durable, record, nonces, circuit, expired, locals, posted, spent,
                 lateProbe, hurt, faults>>

(* probeTtlMs ends: of the lease and, for the same call, of HALF_OPEN.      *)
ProbeEnds ==
  /\ LeaseLapses(Probe) /\ Lapse
  /\ lateProbe' = lateProbe \cup
       {c \in Call : HoldsLive(Probe, c) /\ pc[c] \in Probing \cup {"halfopen"}}
  /\ circuit' = [circuit EXCEPT !.over = @ \/ circuit.owner = lease[Probe].owner]
  /\ UNCHANGED <<durable, record, nonces, expired, locals, posted, spent, lateRun,
                 hurt, faults>>

(* circuitResetMs ends, or a probe deadline whose lease is gone.            *)
CircuitDeadline ==
  /\ circuit.mode # "CLOSED" /\ ~circuit.over /\ Lapse
  /\ ~HoldsLive(Probe, circuit.owner)
  /\ circuit' = [circuit EXCEPT !.over = TRUE]
  /\ UNCHANGED <<durable, lease, record, nonces, expired, locals, traces, hurt, faults>>

Expire(a) ==
  /\ a \notin expired /\ Lapse
  /\ expired' = expired \cup {a}
  /\ UNCHANGED <<storeVars, locals, traces, hurt, faults>>

NonceEnds(a) ==
  /\ durable /\ a \in expired
  /\ RemoveNonce(a)
  /\ UNCHANGED <<durable, lease, record, circuit, expired, locals, traces, hurt, faults, lapses>>

-----------------------------------------------------------------------------
CallStep(c) ==
  \/ Start(c) \/ ReadRecord(c) \/ TakeLease(c) \/ Recheck(c) \/ MarkRunning(c)
  \/ SpendApproval(c)
  \/ ReadCircuit(c) \/ DropStaleProbe(c) \/ Reopen(c) \/ TakeProbe(c) \/ HalfOpen(c)
  \/ Post(c) \/ CloseCircuit(c) \/ CountFailure(c) \/ PutFailure(c) \/ FreeProbe(c)
  \/ Complete(c) \/ Fail(c) \/ Release(c)

Next ==
  \/ \E c \in Call : CallStep(c) \/ StoreFails(c) \/ Die(c)
  \/ \E d \in Delivery : LeaseEnds(d)
  \/ ProbeEnds \/ CircuitDeadline
  \/ \E a \in Approval : Expire(a) \/ NonceEnds(a)

Spec == Init /\ [][Next]_vars

-----------------------------------------------------------------------------
PostsOf(d) == posted \cap CallsOf(d)

(* A delivery is written twice only when something went wrong: a call      *)
(* outlived its lease, lost an answer or died.  Concurrent calls with      *)
(* different approvals, and calls that follow a completed one, never       *)
(* write again.                                                            *)
DuplicatePostNeedsMishap ==
  \A d \in Delivery :
    Cardinality(PostsOf(d)) > 1 => CallsOf(d) \cap (lateRun \cup hurt) # {}

(* A record that later calls replay as a success stands for a write that   *)
(* was done, whichever calls overtook or outlived which.                   *)
CompletedWasPosted ==
  \A d \in Delivery : record[d] = "completed" => PostsOf(d) # {}

(* A completed record is overwritten only for a delivery a call of which   *)
(* has outlived its lease or lost an answer; otherwise it is replayed for  *)
(* ever.                                                                   *)
CompletedYields ==
  [][\A d \in Delivery :
       record[d] = "completed" /\ record'[d] # "completed" =>
         CallsOf(d) \cap (lateRun \cup hurt) # {}]_vars

(* At most one call executes a delivery on a lease that has not ended, and *)
(* at most one probes the circuit before its deadline: a late call never   *)
(* takes down the lease of its successor.                                  *)
OneHolderInTime ==
  /\ \A d \in Delivery :
       Cardinality({c \in CallsOf(d) : pc[c] \in Executing /\ c \notin lateRun}) <= 1
  /\ Cardinality({c \in probe : pc[c] \in Probing /\ c \notin lateProbe}) <= 1

(* A circuit is never left HALF_OPEN by a probe that has reported: it then *)
(* is CLOSED or OPEN, or belongs to another probe under way.               *)
ProbeReports ==
  circuit.mode = "HALF_OPEN" => circuit.owner \in probe /\ pc[circuit.owner] \in Probing

(* While an approval is valid, one call at most has spent it.              *)
ApprovalSpentOnce ==
  \A c1, c2 \in spent : c1 # c2 /\ token[c1] = token[c2] => token[c1] \in expired

(* The circuit's promise, as its tests state it: once the reset time is    *)
(* over a call that gets the probe lease is let through.                   *)
ProbeHolderIsLetThrough ==
  \A c \in Call : At(c, "fail") /\ HoldsLive(Probe, c) => c \in probe \cup hurt
=============================================================================
