--------------------------- MODULE MonetizeStore ---------------------------
(***************************************************************************)
(* The durable task store of MonetizeOS (runtime/monetizeos/store.py) for  *)
(* one project.  Every mutation of the program is one BEGIN IMMEDIATE      *)
(* transaction, so every mutation is one action here; a transaction that   *)
(* raises is rolled back and is therefore a step that is not enabled.      *)
(*                                                                         *)
(* The callers are as free as the API lets them be: any Director object    *)
(* may present the token it last received, any worker may submit for a     *)
(* task leased under its name.  MonetizeDirector restricts them to what    *)
(* director.py does.                                                       *)
(*                                                                         *)
(* Time is abstracted: the code only ever compares a stored deadline with  *)
(* now, so a deadline is the flag "it has passed", set by an action of the *)
(* environment (DirectorLeaseEnds, WorkerLeaseEnds, BackoffEnds).          *)
(***************************************************************************)
EXTENDS Naturals, FiniteSets, Sequences

CONSTANTS
  Director,     \* Director objects, each with its own holder identity
  Worker,       \* worker names; the CLI gives every process the same default
  Task,         \* task contracts of the project, by task_id
  Deps,         \* contract.dependencies
  RetryLimit,   \* contract.retry_limit
  Priority,     \* priority given to create_task, a smaller number goes first
  Key,          \* contract.idempotency_key, scoped to the project
  NoOne,        \* no holder, no lease owner (NULL)
  MaxFencing    \* bound of the exploration on the fencing counter

ASSUME DepsAssumption == Deps \in [Task -> SUBSET Task]
ASSUME RetryAssumption == RetryLimit \in [Task -> Nat]
ASSUME PriorityAssumption == Priority \in [Task -> Nat]
ASSUME NoOneAssumption == NoOne \notin Director \cup Worker
ASSUME FencingAssumption == MaxFencing \in Nat \ {0}

(* The lifecycle of a task (runtime/monetizeos/states.py): the states, the *)
(* terminal ones, and the legal graph that _transition consults.  "absent" *)
(* is not a state of the program: it stands for a contract whose row has   *)
(* not been inserted yet.                                                  *)
TaskStates == {"pending", "ready", "running", "verifying", "completed",
               "blocked", "retry_wait", "failed", "cancelled"}

TerminalStates == {"completed", "failed", "cancelled"}

Transitions ==
  [s \in TaskStates |->
     CASE s = "pending"    -> {"ready", "cancelled"}
       [] s = "ready"      -> {"running", "blocked", "cancelled"}
       [] s = "running"    -> {"verifying", "retry_wait", "failed", "blocked", "cancelled"}
       [] s = "verifying"  -> {"completed", "retry_wait", "failed", "cancelled"}
       [] s = "retry_wait" -> {"ready", "failed", "cancelled"}
       [] s = "blocked"    -> {"ready", "cancelled"}
       [] OTHER            -> {}]

(* states.check: the move raises IllegalTransition unless the graph has it. *)
Legal(src, dst) == dst \in Transitions[src]

VARIABLES
  holder, fencing, dirLive,   \* the directors row; holder = NoOne: no row
  token,        \* Director.fencing, the token each Director object carries
  orphaned,     \* auxiliary: Directors whose row was deleted under them
  state,        \* tasks.state, "absent" before the row exists
  owner,        \* tasks.lease_owner
  leaseOver,    \* tasks.lease_expires_at has passed
  cancelReq,    \* tasks.cancel_requested
  due,          \* tasks.next_attempt_at has passed
  attempts,     \* rows of the attempts table, by attempt_no: their status
  deadLetters,  \* number of dead_letter incidents of the task
  costs,        \* number of task_completed cost events of the task
  unseen        \* auxiliary: dependencies of a task that had no row when it was released

dirVars == <<holder, fencing, dirLive, token, orphaned>>
taskVars == <<state, owner, leaseOver, cancelReq, due, attempts, deadLetters, costs, unseen>>
vars == <<holder, fencing, dirLive, token, orphaned,
          state, owner, leaseOver, cancelReq, due, attempts, deadLetters, costs, unseen>>

(* CompletionReport.status: "blocked" also stands for a report of status   *)
(* "failed", nothing tells them apart.  A row "failed" was closed by fail  *)
(* or reject and carries no report.                                        *)
ReportStatus == {"completed", "blocked"}
RowStatus == ReportStatus \cup {"open", "failed", "cancelled"}

Leased(s) == s \in {"running", "verifying"}

(* The attempt column: claim is the only writer of it and of attempt rows. *)
Attempt(t) == Len(attempts[t])
Retryable(t) == Attempt(t) <= RetryLimit[t]

Init ==
  /\ holder = NoOne /\ fencing = 0 /\ dirLive = FALSE
  /\ token = [d \in Director |-> 0]
  /\ orphaned = {}
  /\ state = [t \in Task |-> "absent"]
  /\ owner = [t \in Task |-> NoOne]
  /\ leaseOver = [t \in Task |-> FALSE]
  /\ cancelReq = [t \in Task |-> FALSE]
  /\ due = [t \in Task |-> FALSE]
  /\ attempts = [t \in Task |-> <<>>]
  /\ deadLetters = [t \in Task |-> 0]
  /\ costs = [t \in Task |-> 0]
  /\ unseen = [t \in Task |-> {}]
-----------------------------------------------------------------------------
(* The Director lease and its fencing token.                               *)

HeldByAnother(d) == holder \notin {d, NoOne} /\ dirLive

(* Mutant: the takeover keeps the token of the lease it replaces. *)
SameToken == IF holder = NoOne THEN 1 ELSE fencing

NextToken == IF holder = NoOne THEN 1 ELSE fencing + 1

(* acquire_director, as Director.acquire and Director.renew call it. *)
Acquire(d) ==
  /\ ~HeldByAnother(d)
  /\ NextToken <= MaxFencing
  /\ holder' = d
  /\ fencing' = NextToken
  /\ dirLive' = TRUE
  /\ token' = [token EXCEPT ![d] = NextToken]
  /\ orphaned' = orphaned \ {d}
  /\ UNCHANGED taskVars

(* Director.release and release_director: the row goes only if it is d's.  *)
Release(d) ==
  /\ token[d] # 0
  /\ token' = [token EXCEPT ![d] = 0]
  /\ \/ /\ holder = d
        /\ holder' = NoOne /\ fencing' = 0 /\ dirLive' = FALSE
        /\ orphaned' = {e \in Director \ {d} : token[e] # 0}
     \/ /\ holder # d
        /\ orphaned' = orphaned \ {d}
        /\ UNCHANGED <<holder, fencing, dirLive>>
  /\ UNCHANGED taskVars

(* Director._mutate_guard and Store._check_fencing. *)
Authorised(d) == token[d] # 0 /\ holder # NoOne /\ fencing = token[d] /\ dirLive

DirectorLeaseEnds ==
  /\ dirLive
  /\ dirLive' = FALSE
  /\ UNCHANGED <<holder, fencing, token, orphaned, taskVars>>
-----------------------------------------------------------------------------
(* Tasks.                                                                  *)

Exists(t) == state[t] # "absent"

(* create_task's initial state: unknown dependencies count as incomplete.  *)
AllDepsCompleted(t) == \A u \in Deps[t] : state[u] = "completed"

CreateTask(d, t) ==
  /\ Authorised(d)
  /\ \A u \in Task : Exists(u) => Key[u] # Key[t]
  /\ state' = [state EXCEPT ![t] = IF AllDepsCompleted(t) THEN "ready" ELSE "pending"]
  /\ UNCHANGED <<dirVars, owner, leaseOver, cancelReq, due, attempts, deadLetters, costs, unseen>>

(* Mutant: the UPDATE of the dependents does not look at their state. *)
HeldBackInAnyState(u, dead) == Deps[u] \cap dead # {}

(* Dependents that can still be held back when the tasks in dead fail.     *)
HeldBack(u, dead) ==
  state[u] \in {"pending", "ready", "blocked"} /\ Deps[u] \cap dead # {}

(* Mutant: the sweep looks for running tasks only. *)
ExpiredRunning(t) == state[t] = "running" /\ leaseOver[t]

(* _sweep: the tasks whose worker lease has ended, by what becomes of them *)
Expired(t) == Leased(state[t]) /\ leaseOver[t]

(* Mutants: the retry budget is not looked at when a lease has ended; the  *)
(* sweep dead-letters a task whose cancellation was requested.             *)
SweptRetryAlways(t) == Expired(t) /\ ~cancelReq[t]
SweptDeadEvenCancelled(t) == Expired(t) /\ ~Retryable(t)

SweptCancelled(t) == Expired(t) /\ cancelReq[t]
SweptRetry(t) == Expired(t) /\ ~cancelReq[t] /\ Retryable(t)
SweptDead(t) == Expired(t) /\ ~cancelReq[t] /\ ~Retryable(t)

(* A retried task is due at once: the last statement makes it ready.       *)
SweptState(t) ==
  IF SweptCancelled(t) THEN "cancelled"
  ELSE IF SweptRetry(t) THEN "ready"
  ELSE IF SweptDead(t) THEN "failed"
  ELSE IF HeldBack(t, {u \in Task : SweptDead(u)}) THEN "blocked"
  ELSE IF state[t] = "retry_wait" /\ due[t] THEN "ready"
  ELSE state[t]

(* claim's SELECT over the swept rows; ties on created_at are left open.   *)
Claimable(t) == SweptState(t) = "ready" /\ ~cancelReq[t]
First(t) == Claimable(t) /\ \A u \in Task : Claimable(u) => Priority[t] <= Priority[u]

(* The transaction of claim: the sweep, then the lease of the tasks picked *)
ClaimTx(picked, w) ==
  /\ state' = [u \in Task |-> IF u \in picked THEN "running" ELSE SweptState(u)]
  /\ owner' = [u \in Task |-> IF u \in picked THEN w
                              ELSE IF Expired(u) THEN NoOne ELSE owner[u]]
  /\ leaseOver' = [u \in Task |-> leaseOver[u] /\ ~Expired(u)]
  /\ due' = [u \in Task |-> due[u] /\ SweptState(u) = "retry_wait"]
  /\ attempts' = [u \in Task |-> IF u \in picked THEN Append(attempts[u], "open")
                                 ELSE attempts[u]]
  /\ deadLetters' = [u \in Task |-> deadLetters[u] + IF SweptDead(u) THEN 1 ELSE 0]
  /\ UNCHANGED <<dirVars, cancelReq, costs, unseen>>

(* claim: needs no token; the sweep is kept when there is nothing to lease *)
Claim(w) == \E t \in Task : First(t) /\ ClaimTx({t}, w)
ClaimNothing == (\A t \in Task : ~Claimable(t)) /\ ClaimTx({}, NoOne)

(* Mutant: only the oldest open row is closed. *)
ClosedFirst(t, status) ==
  [i \in DOMAIN attempts[t] |->
     IF attempts[t][i] = "open" /\ \A j \in 1..(i - 1) : attempts[t][j] # "open"
     THEN status ELSE attempts[t][i]]

(* UPDATE attempts ... WHERE ended_at IS NULL, every row that is open.     *)
Closed(t, status) ==
  [i \in DOMAIN attempts[t] |-> IF attempts[t][i] = "open" THEN status ELSE attempts[t][i]]

(* submit_report by the lease owner; a requested cancellation wins.        *)
SubmitReport(w, t, status) ==
  /\ owner[t] = w
  /\ \/ /\ cancelReq[t]
        /\ Legal(state[t], "cancelled")
        /\ state' = [state EXCEPT ![t] = "cancelled"]
        /\ attempts' = [attempts EXCEPT ![t] = Closed(t, "cancelled")]
        /\ owner' = [owner EXCEPT ![t] = NoOne]
        /\ leaseOver' = [leaseOver EXCEPT ![t] = FALSE]
     \/ /\ ~cancelReq[t]
        /\ state[t] = "running"
        /\ state' = [state EXCEPT ![t] = "verifying"]
        /\ attempts' = [attempts EXCEPT ![t] = Closed(t, status)]
        /\ UNCHANGED <<owner, leaseOver>>
  /\ UNCHANGED <<dirVars, cancelReq, due, deadLetters, costs, unseen>>

(* Mutant: any completed dependency releases its dependents. *)
UnblockedByAny(u, t) == t \in Deps[u] /\ state[u] \in {"pending", "blocked"}

(* _unblock_dependents once t is completed: the JOIN of edges and tasks    *)
(* does not see a dependency that has no row.                              *)
Unblocked(u, t) ==
  /\ t \in Deps[u]
  /\ state[u] \in {"pending", "blocked"}
  /\ \A v \in Deps[u] \ {t} : Exists(v) => state[v] = "completed"

(* What the tasks that t releases do not wait for. *)
Overlook(t) ==
  unseen' = [u \in Task |-> IF Unblocked(u, t) THEN {v \in Deps[u] : ~Exists(v)} ELSE unseen[u]]

(* Mutants: the lease columns are left behind; an empty string, not NULL.  *)
KeepLease(t) == UNCHANGED <<owner, leaseOver>>
EmptyLease(t) == owner' = [owner EXCEPT ![t] = ""] /\ leaseOver' = [leaseOver EXCEPT ![t] = FALSE]

Unlease(t) ==
  /\ owner' = [owner EXCEPT ![t] = NoOne]
  /\ leaseOver' = [leaseOver EXCEPT ![t] = FALSE]

HasPassingReport(t) == \E i \in DOMAIN attempts[t] : attempts[t][i] = "completed"

(* Mutant: accept does not insist on the state verifying. *)
AcceptFromAnyState(d, t) ==
  /\ Authorised(d)
  /\ state' = [u \in Task |-> IF u = t THEN "completed"
                              ELSE IF Unblocked(u, t) THEN "ready" ELSE state[u]]
  /\ Overlook(t)
  /\ costs' = [costs EXCEPT ![t] = @ + IF HasPassingReport(t) THEN 1 ELSE 0]
  /\ Unlease(t)
  /\ UNCHANGED <<dirVars, cancelReq, due, attempts, deadLetters>>

Accept(d, t) ==
  /\ Authorised(d)
  /\ state[t] = "verifying"
  /\ state' = [u \in Task |-> IF u = t THEN "completed"
                              ELSE IF Unblocked(u, t) THEN "ready" ELSE state[u]]
  /\ Overlook(t)
  /\ costs' = [costs EXCEPT ![t] = @ + IF HasPassingReport(t) THEN 1 ELSE 0]
  /\ Unlease(t)
  /\ UNCHANGED <<dirVars, cancelReq, due, attempts, deadLetters>>

(* _fail_common; the states from which the failure of a task is expected.  *)
FailTx(d, t, retryFrom, deadFrom) ==
  /\ Authorised(d)
  /\ attempts' = [attempts EXCEPT ![t] = Closed(t, "failed")]
  /\ \/ /\ Retryable(t)
        /\ state[t] \in retryFrom
        /\ state' = [state EXCEPT ![t] = "retry_wait"]
        /\ due' = [due EXCEPT ![t] = FALSE]
        /\ UNCHANGED deadLetters
     \/ /\ ~Retryable(t)
        /\ state[t] \in deadFrom
        /\ state' = [u \in Task |-> IF u = t THEN "failed"
                                    ELSE IF HeldBack(u, {t}) THEN "blocked" ELSE state[u]]
        /\ deadLetters' = [deadLetters EXCEPT ![t] = @ + 1]
        /\ UNCHANGED due
  /\ Unlease(t)
  /\ UNCHANGED <<dirVars, cancelReq, costs, unseen>>

Reject(d, t) == FailTx(d, t, {"verifying"}, {"verifying"})
Fail(d, t) == FailTx(d, t, {"running", "verifying"}, {"running", "verifying", "retry_wait"})

(* cancel: a leased task only gets the flag.                               *)
Cancel(d, t) ==
  /\ Authorised(d)
  /\ Exists(t)
  /\ cancelReq' = [cancelReq EXCEPT ![t] = TRUE]
  /\ \/ Leased(state[t]) /\ UNCHANGED state
     \/ /\ ~Leased(state[t])
        /\ Legal(state[t], "cancelled")
        /\ state' = [state EXCEPT ![t] = "cancelled"]
  /\ due' = [due EXCEPT ![t] = @ /\ Leased(state[t])]
  /\ UNCHANGED <<dirVars, owner, leaseOver, attempts, deadLetters, costs, unseen>>

(* Time passes. *)
WorkerLeaseEnds(t) ==
  /\ Leased(state[t]) /\ ~leaseOver[t]
  /\ leaseOver' = [leaseOver EXCEPT ![t] = TRUE]
  /\ UNCHANGED <<dirVars, state, owner, cancelReq, due, attempts, deadLetters, costs, unseen>>

BackoffEnds(t) ==
  /\ state[t] = "retry_wait" /\ ~due[t]
  /\ due' = [due EXCEPT ![t] = TRUE]
  /\ UNCHANGED <<dirVars, state, owner, leaseOver, cancelReq, attempts, deadLetters, costs, unseen>>
-----------------------------------------------------------------------------
DirectorStep(d) ==
  \/ Acquire(d)
  \/ Release(d)
  \/ \E t \in Task : \/ CreateTask(d, t)
                     \/ Accept(d, t)
                     \/ Reject(d, t)
                     \/ Fail(d, t)
                     \/ Cancel(d, t)

WorkerStep(w) ==
  \/ Claim(w)
  \/ \E t \in Task, status \in ReportStatus : SubmitReport(w, t, status)

TimePasses ==
  \/ DirectorLeaseEnds
  \/ \E t \in Task : WorkerLeaseEnds(t) \/ BackoffEnds(t)

Next ==
  \/ \E d \in Director : DirectorStep(d)
  \/ \E w \in Worker : WorkerStep(w)
  \/ ClaimNothing
  \/ TimePasses

Spec == Init /\ [][Next]_vars

-----------------------------------------------------------------------------
(* Properties.                                                             *)

(* Every column of the tables and every token has its type.                *)
TypeOK ==
  /\ holder \in Director \cup {NoOne}
  /\ fencing \in Nat
  /\ dirLive \in BOOLEAN
  /\ token \in [Director -> Nat]
  /\ orphaned \subseteq Director
  /\ state \in [Task -> TaskStates \cup {"absent"}]
  /\ owner \in [Task -> Worker \cup {NoOne}]
  /\ leaseOver \in [Task -> BOOLEAN]
  /\ cancelReq \in [Task -> BOOLEAN]
  /\ due \in [Task -> BOOLEAN]
  /\ attempts \in [Task -> Seq(RowStatus)]
  /\ deadLetters \in [Task -> Nat]
  /\ costs \in [Task -> Nat]
  /\ unseen \in [Task -> SUBSET Task]

(* Fencing: as long as the lease row was never deleted under a Director,   *)
(* its token opens the gate of _check_fencing only while it is the holder, *)
(* whatever takeovers, renewals and expiries happened since it read it.    *)
TokenOfHolderOnly ==
  \A d \in Director : d \notin orphaned /\ Authorised(d) => holder = d

(* A task has a lease owner exactly while it runs or awaits verification:  *)
(* every one of the six ways out of these states clears the lease, so no   *)
(* late submit_report finds its name on a task that was taken away.        *)
LeaseMatchesState ==
  \A t \in Task : (owner[t] # NoOne) <=> Leased(state[t])

(* The retry budget: however a task comes back (failure, rejection, ended  *)
(* lease, unblocking), it is never started more than retry_limit + 1 times *)
AttemptBudget == \A t \in Task : Attempt(t) <= RetryLimit[t] + 1

(* The attempts table keeps up with the task: a running task's newest row  *)
(* is the open one, a verifying task has no open row left and its newest   *)
(* row carries the report Director.verify is about to read.                *)
NewestRowMatchesState ==
  \A t \in Task :
    /\ state[t] = "running" => Attempt(t) > 0 /\ attempts[t][Attempt(t)] = "open"
    /\ state[t] = "verifying" =>
         /\ Attempt(t) > 0 /\ attempts[t][Attempt(t)] \in ReportStatus
         /\ \A i \in 1..Attempt(t) : attempts[t][i] # "open"

(* A dead-lettered task has exactly one dead_letter incident, whichever of *)
(* sweep, fail or reject gave up on it, and no other task has any.         *)
OneDeadLetterPerFailure ==
  \A t \in Task : deadLetters[t] = IF state[t] = "failed" THEN 1 ELSE 0

(* A task that was started has only completed dependencies, whatever the   *)
(* order its plan was enqueued in and whatever failed, was retried or came *)
(* back meanwhile; but for those that had no row when it was released,     *)
(* which the JOIN of _unblock_dependents does not count.                   *)
DependenciesCompleted ==
  \A t \in Task : Leased(state[t]) \/ state[t] = "completed" =>
    \A u \in Deps[t] : state[u] = "completed" \/ u \in unseen[t]

(* No step, not even the UPDATEs of the sweep and of the dependents that   *)
(* bypass the transition check, moves a task out of a terminal state.      *)
TerminalIsFinal ==
  [][\A t \in Task : state[t] \in TerminalStates => state'[t] = state[t]]_vars

-----------------------------------------------------------------------------
(* What the documentation says and the code does not do.                   *)

(* AGENT_ARCHITECTURE.md: every mutation re-validates the token, "a stale  *)
(* or crashed supervisor cannot issue work after failover".  A release     *)
(* deletes the counter, so the tokens of an earlier lease come back.       *)
StaleDirectorShutOut == \A d \in Director : Authorised(d) => holder = d
=============================================================================
