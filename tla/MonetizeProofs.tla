--------------------------- MODULE MonetizeProofs ---------------------------
(***************************************************************************)
(* Safety of the task store and of the processes that use it.  First       *)
(* MonetizeStore, for every set of Directors, workers and tasks, every     *)
(* dependency graph, every retry limit and every bound on tokens; then     *)
(* MonetizeDirector, whose processes implement the store: whatever they    *)
(* do, in whatever order, is a behaviour of MonetizeStore, so what is      *)
(* proved of the store holds of every run of the command line.             *)
(***************************************************************************)
EXTENDS MonetizeDirector, SequenceTheorems, WellFoundedInduction, TLAPS

(* What a claim does to the state of a task that it does not lease.        *)
LEMMA SweptStateType ==
  ASSUME TypeOK, NEW t \in Task
  PROVE  /\ SweptState(t) \in TaskStates \cup {"absent"}
         /\ Leased(SweptState(t)) <=> Leased(state[t]) /\ ~Expired(t)
         /\ SweptState(t) = "failed" <=> state[t] = "failed" \/ SweptDead(t)
         /\ SweptState(t) = "absent" <=> state[t] = "absent"
         /\ SweptState(t) = "completed" <=> state[t] = "completed"
         /\ state[t] \in TerminalStates => SweptState(t) = state[t]
BY SMT DEF TypeOK, SweptState, SweptCancelled, SweptRetry, SweptDead, Expired, Leased,
       HeldBack, TaskStates, TerminalStates

(* Closing the open rows of a task keeps their number and their type.      *)
LEMMA ClosedType ==
  ASSUME TypeOK, NEW t \in Task, NEW status \in RowStatus
  PROVE  /\ Closed(t, status) \in Seq(RowStatus)
         /\ Len(Closed(t, status)) = Len(attempts[t])
<1>1. attempts[t] \in Seq(RowStatus)
  BY DEF TypeOK
<1>2. DOMAIN attempts[t] = 1..Len(attempts[t]) /\ Len(attempts[t]) \in Nat
  BY <1>1
<1>3. \A i \in 1..Len(attempts[t]) : attempts[t][i] \in RowStatus
  BY <1>1
<1>4. Closed(t, status) = [i \in 1..Len(attempts[t]) |->
         IF attempts[t][i] = "open" THEN status ELSE attempts[t][i]]
  BY <1>2 DEF Closed
<1>5. QED
  BY <1>2, <1>3, <1>4

(* Every column keeps its type: initially. *)
LEMMA InitTypeOK == Init => TypeOK
<1>1. <<>> \in Seq(RowStatus)
  OBVIOUS
<1>2. Init => attempts \in [Task -> Seq(RowStatus)]
  BY <1>1 DEF Init
<1>3. Init => /\ dirLive \in BOOLEAN
              /\ leaseOver \in [Task -> BOOLEAN]
              /\ cancelReq \in [Task -> BOOLEAN]
              /\ due \in [Task -> BOOLEAN]
  BY DEF Init
<1>4. QED
  BY <1>2, <1>3 DEF Init, TypeOK

(* claim, with its sweep, keeps the type of every column.                  *)
LEMMA ClaimTxType ==
  ASSUME TypeOK, NEW picked \in SUBSET Task, NEW w \in Worker \cup {NoOne}, ClaimTx(picked, w)
  PROVE  TypeOK'
<1>1. state' \in [Task -> TaskStates \cup {"absent"}]
  BY SweptStateType DEF ClaimTx, TaskStates
<1>2. attempts' \in [Task -> Seq(RowStatus)]
  <2>1. \A u \in Task : attempts[u] \in Seq(RowStatus) /\ Append(attempts[u], "open") \in Seq(RowStatus)
    BY DEF TypeOK, RowStatus
  <2>2. QED
    BY <2>1 DEF ClaimTx
<1>3. deadLetters' \in [Task -> Nat]
  BY DEF ClaimTx, TypeOK
<1>4. owner' \in [Task -> Worker \cup {NoOne}]
  BY DEF ClaimTx, TypeOK
<1>5. leaseOver' \in [Task -> BOOLEAN] /\ due' \in [Task -> BOOLEAN]
  <2>1. leaseOver' \in [Task -> BOOLEAN]
    BY DEF ClaimTx, TypeOK
  <2>2. due' \in [Task -> BOOLEAN]
    BY DEF ClaimTx, TypeOK
  <2>3. QED
    BY <2>1, <2>2
<1>6. QED
  BY <1>1, <1>2, <1>3, <1>4, <1>5 DEF ClaimTx, TypeOK, dirVars

(* So does _fail_common,                                                   *)
LEMMA FailTxType ==
  ASSUME TypeOK, NEW d \in Director, NEW t \in Task, NEW R, NEW D, FailTx(d, t, R, D)
  PROVE  TypeOK'
<1>1. "failed" \in RowStatus
  BY DEF RowStatus
<1>2. attempts' \in [Task -> Seq(RowStatus)]
  BY <1>1, ClosedType DEF FailTx, TypeOK
<1>3. state' \in [Task -> TaskStates \cup {"absent"}]
  BY DEF FailTx, TypeOK, TaskStates
<1>4. deadLetters' \in [Task -> Nat]
  <2>1. deadLetters' = deadLetters \/ deadLetters' = [deadLetters EXCEPT ![t] = @ + 1]
    BY DEF FailTx
  <2>2. deadLetters \in [Task -> Nat]
    BY DEF TypeOK
  <2>3. QED
    BY <2>1, <2>2
<1>5. due' \in [Task -> BOOLEAN]
  BY DEF FailTx, TypeOK
<1>6. owner' \in [Task -> Worker \cup {NoOne}]
  BY DEF FailTx, TypeOK, Unlease
<1>7. leaseOver' \in [Task -> BOOLEAN]
  BY DEF FailTx, TypeOK, Unlease
<1>8. QED
  BY <1>2, <1>3, <1>4, <1>5, <1>6, <1>7 DEF FailTx, TypeOK, dirVars

(* and so does submit_report.                                              *)
LEMMA SubmitType ==
  ASSUME TypeOK, NEW w \in Worker, NEW t \in Task, NEW status \in ReportStatus,
         SubmitReport(w, t, status)
  PROVE  TypeOK'
<1>1. status \in RowStatus /\ "cancelled" \in RowStatus
  BY DEF RowStatus
<1>2. attempts' \in [Task -> Seq(RowStatus)]
  <2>1. Closed(t, "cancelled") \in Seq(RowStatus) /\ Closed(t, status) \in Seq(RowStatus)
    BY <1>1, ClosedType
  <2>2. \/ attempts' = [attempts EXCEPT ![t] = Closed(t, "cancelled")]
        \/ attempts' = [attempts EXCEPT ![t] = Closed(t, status)]
    BY DEF SubmitReport
  <2>3. QED
    BY <2>1, <2>2 DEF TypeOK
<1>3. state' \in [Task -> TaskStates \cup {"absent"}]
  BY DEF SubmitReport, TypeOK, TaskStates
<1>4. owner' \in [Task -> Worker \cup {NoOne}]
  BY DEF SubmitReport, TypeOK
<1>5. leaseOver' \in [Task -> BOOLEAN]
  BY DEF SubmitReport, TypeOK
<1>6. QED
  BY <1>2, <1>3, <1>4, <1>5 DEF SubmitReport, TypeOK, dirVars

(* Every column keeps its type: in every step. *)
LEMMA NextTypeOK == TypeOK /\ [Next]_vars => TypeOK'
<1> SUFFICES ASSUME TypeOK, [Next]_vars PROVE TypeOK'
  OBVIOUS
<1>1. ASSUME NEW d \in Director, Acquire(d) PROVE TypeOK'
  BY <1>1 DEF Acquire, NextToken, TypeOK, taskVars
<1>2. ASSUME NEW d \in Director, Release(d) PROVE TypeOK'
  <2>1. CASE holder = d
    <3>1. dirLive' = FALSE /\ fencing' = 0 /\ holder' = NoOne /\ orphaned' \subseteq Director
      BY <1>2, <2>1 DEF Release
    <3>2. token' \in [Director -> Nat]
      BY <1>2 DEF Release, TypeOK
    <3>3. dirLive' \in BOOLEAN
      BY <3>1
    <3>4. UNCHANGED taskVars
      BY <1>2 DEF Release
    <3>5. QED
      BY <3>1, <3>2, <3>3, <3>4 DEF TypeOK, taskVars
  <2>2. CASE holder # d
    BY <1>2, <2>2 DEF Release, TypeOK, taskVars
  <2>3. QED
    BY <2>1, <2>2
<1>3. ASSUME NEW d \in Director, NEW t \in Task, CreateTask(d, t) PROVE TypeOK'
  BY <1>3 DEF CreateTask, TypeOK, dirVars, TaskStates
<1>4. ASSUME NEW d \in Director, NEW t \in Task, Accept(d, t) PROVE TypeOK'
  <2>1. state' \in [Task -> TaskStates \cup {"absent"}]
    BY <1>4 DEF Accept, TypeOK, TaskStates
  <2>2. costs' \in [Task -> Nat]
    BY <1>4 DEF Accept, TypeOK
  <2>3. owner' \in [Task -> Worker \cup {NoOne}]
    BY <1>4 DEF Accept, TypeOK, Unlease
  <2>4. leaseOver' \in [Task -> BOOLEAN]
    BY <1>4 DEF Accept, TypeOK, Unlease
  <2>5. unseen' \in [Task -> SUBSET Task]
    BY <1>4, DepsAssumption DEF Accept, Overlook, TypeOK
  <2>6. QED
    BY <1>4, <2>1, <2>2, <2>3, <2>4, <2>5 DEF Accept, TypeOK, dirVars
<1>5. ASSUME NEW d \in Director, NEW t \in Task, Reject(d, t) \/ Fail(d, t) PROVE TypeOK'
  BY <1>5, FailTxType DEF Reject, Fail
<1>6. ASSUME NEW d \in Director, NEW t \in Task, Cancel(d, t) PROVE TypeOK'
  BY <1>6 DEF Cancel, TypeOK, dirVars, TaskStates, Leased
<1>7. ASSUME NEW w \in Worker, Claim(w) PROVE TypeOK'
  BY <1>7, ClaimTxType DEF Claim
<1>8. ASSUME NEW w \in Worker, NEW t \in Task, NEW status \in ReportStatus,
             SubmitReport(w, t, status)
      PROVE  TypeOK'
  BY <1>8, SubmitType
<1>9. ASSUME ClaimNothing PROVE TypeOK'
  BY <1>9, ClaimTxType DEF ClaimNothing
<1>10. ASSUME TimePasses PROVE TypeOK'
  BY <1>10 DEF TimePasses, DirectorLeaseEnds, WorkerLeaseEnds, BackoffEnds, TypeOK,
        dirVars, taskVars
<1>11. ASSUME UNCHANGED vars PROVE TypeOK'
  BY <1>11 DEF vars, TypeOK
<1>12. QED
  BY <1>1, <1>2, <1>3, <1>4, <1>5, <1>6, <1>7, <1>8, <1>9, <1>10, <1>11
     DEF Next, DirectorStep, WorkerStep

(* Type correctness of the store. *)
THEOREM TypeCorrect == Spec => []TypeOK
<1>1. QED
  BY InitTypeOK, NextTypeOK, PTL DEF Spec
-----------------------------------------------------------------------------
(* Fencing.  A token outlives the lease it was given for, so the invariant *)
(* compares every token that is still out with the counter of the row.     *)
FenceInv ==
  /\ holder # NoOne => fencing > 0
  /\ \A d \in Director \ orphaned :
       IF holder = NoOne THEN token[d] = 0
       ELSE token[d] <= fencing /\ (token[d] = fencing => holder = d)

(* Before the first lease no Director has a token.                         *)
LEMMA InitFenceInv == Init => FenceInv
BY DEF Init, FenceInv

(* Acquiring, renewing and releasing the lease keep the tokens in order.   *)
LEMMA NextFenceInv == TypeOK /\ FenceInv /\ [Next]_vars => FenceInv'
<1> SUFFICES ASSUME TypeOK, FenceInv, [Next]_vars PROVE FenceInv'
  OBVIOUS
<1>1. ASSUME NEW d \in Director, Acquire(d) PROVE FenceInv'
  <2>1. holder' = d /\ d # NoOne /\ fencing' = NextToken /\ NextToken \in Nat \ {0}
    BY <1>1, NoOneAssumption DEF Acquire, NextToken, TypeOK
  <2>2. \A e \in Director \ {d} : e \notin orphaned' => token'[e] = token[e] /\ token[e] < NextToken
    BY <1>1 DEF Acquire, NextToken, TypeOK, FenceInv
  <2>3. token'[d] = NextToken
    BY <1>1 DEF Acquire, TypeOK
  <2>4. ASSUME NEW e \in Director \ orphaned'
        PROVE  token'[e] <= fencing' /\ (token'[e] = fencing' => holder' = e)
    <3>1. CASE e = d
      BY <2>1, <2>3, <3>1
    <3>2. CASE e # d
      <4>1. token'[e] = token[e] /\ token[e] < fencing' /\ token[e] \in Nat
        BY <2>1, <2>2, <3>2 DEF TypeOK
      <4>2. QED
        BY <2>1, <4>1
    <3>3. QED
      BY <3>1, <3>2
  <2>5. QED
    BY <2>1, <2>4 DEF FenceInv
<1>2. ASSUME NEW d \in Director, Release(d) PROVE FenceInv'
  <2>1. CASE holder = d
    <3>1. holder' = NoOne /\ token' = [token EXCEPT ![d] = 0]
          /\ orphaned' = {e \in Director \ {d} : token[e] # 0}
      BY <1>2, <2>1 DEF Release
    <3>2. \A e \in Director \ orphaned' : token'[e] = 0
      BY <3>1 DEF TypeOK
    <3>3. QED
      BY <3>1, <3>2 DEF FenceInv
  <2>2. CASE holder # d
    BY <1>2, <2>2 DEF Release, FenceInv, TypeOK
  <2>3. QED
    BY <2>1, <2>2
<1>3. ASSUME DirectorLeaseEnds PROVE FenceInv'
  BY <1>3 DEF DirectorLeaseEnds, FenceInv
<1>4. ASSUME UNCHANGED dirVars PROVE FenceInv'
  BY <1>4 DEF dirVars, FenceInv
<1>5. ASSUME NEW d \in Director, NEW t \in Task,
             \/ CreateTask(d, t) \/ Accept(d, t) \/ Reject(d, t) \/ Fail(d, t) \/ Cancel(d, t)
      PROVE  UNCHANGED dirVars
  BY <1>5 DEF CreateTask, Accept, Reject, Fail, FailTx, Cancel
<1>6. ASSUME NEW w \in Worker, WorkerStep(w) PROVE UNCHANGED dirVars
  BY <1>6 DEF WorkerStep, Claim, ClaimTx, SubmitReport
<1>7. ASSUME ClaimNothing PROVE UNCHANGED dirVars
  BY <1>7 DEF ClaimNothing, ClaimTx
<1>8. ASSUME NEW t \in Task, WorkerLeaseEnds(t) \/ BackoffEnds(t) PROVE UNCHANGED dirVars
  BY <1>8 DEF WorkerLeaseEnds, BackoffEnds
<1>9. ASSUME UNCHANGED vars PROVE UNCHANGED dirVars
  BY <1>9 DEF vars, dirVars
<1>10. QED
  BY <1>1, <1>2, <1>3, <1>4, <1>5, <1>6, <1>7, <1>8, <1>9
     DEF Next, DirectorStep, TimePasses

(* Fencing: between the insertion and the deletion of a lease row, only    *)
(* the holder's token passes _check_fencing, for any number of Directors,  *)
(* takeovers, renewals and expiries.                                       *)
THEOREM Fencing == Spec => []TokenOfHolderOnly
<1>1. FenceInv => TokenOfHolderOnly
  BY DEF FenceInv, TokenOfHolderOnly, Authorised
<1>2. QED
  BY <1>1, InitTypeOK, NextTypeOK, InitFenceInv, NextFenceInv, PTL DEF Spec
-----------------------------------------------------------------------------
(* Terminal states.                                                        *)
LEMMA TerminalStep ==
  ASSUME TypeOK, [Next]_vars, NEW t \in Task, state[t] \in TerminalStates
  PROVE  state'[t] = state[t]
<1>1. state[t] \in {"completed", "failed", "cancelled"} /\ ~Leased(state[t])
  BY DEF TerminalStates, Leased
<1>2. Transitions[state[t]] = {}
  BY <1>1 DEF Transitions, TaskStates
<1>3. ASSUME NEW d \in Director, NEW u \in Task, CreateTask(d, u) PROVE state'[t] = state[t]
  <2>1. u # t
    BY <1>1, <1>3 DEF CreateTask, Exists
  <2>2. QED
    BY <1>3, <2>1 DEF CreateTask, TypeOK
<1>4. ASSUME NEW d \in Director, NEW u \in Task, Accept(d, u) PROVE state'[t] = state[t]
  BY <1>1, <1>4 DEF Accept, Unblocked
<1>5. ASSUME NEW d \in Director, NEW u \in Task, Reject(d, u) \/ Fail(d, u)
      PROVE  state'[t] = state[t]
  BY <1>1, <1>5 DEF Reject, Fail, FailTx, HeldBack, TypeOK
<1>6. ASSUME NEW d \in Director, NEW u \in Task, Cancel(d, u) PROVE state'[t] = state[t]
  BY <1>1, <1>2, <1>6 DEF Cancel, Legal, TypeOK
<1>7. SweptState(t) = state[t]
  BY SweptStateType
<1>8. ASSUME NEW w \in Worker, Claim(w) PROVE state'[t] = state[t]
  BY <1>1, <1>7, <1>8 DEF Claim, ClaimTx, First, Claimable
<1>9. ASSUME ClaimNothing PROVE state'[t] = state[t]
  BY <1>7, <1>9 DEF ClaimNothing, ClaimTx
<1>10. ASSUME NEW w \in Worker, NEW u \in Task, NEW status \in ReportStatus,
              SubmitReport(w, u, status)
       PROVE  state'[t] = state[t]
  BY <1>1, <1>2, <1>10 DEF SubmitReport, Legal, TypeOK
<1>11. ASSUME NEW d \in Director, Acquire(d) \/ Release(d) PROVE state'[t] = state[t]
  BY <1>11 DEF Acquire, Release, taskVars
<1>12. ASSUME TimePasses PROVE state'[t] = state[t]
  BY <1>12 DEF TimePasses, DirectorLeaseEnds, WorkerLeaseEnds, BackoffEnds, taskVars
<1>13. QED
  BY <1>3, <1>4, <1>5, <1>6, <1>8, <1>9, <1>10, <1>11, <1>12
     DEF Next, DirectorStep, WorkerStep, vars

(* No call, whoever makes it and however late, revives a task that ended.  *)
THEOREM Finality == Spec => TerminalIsFinal
<1>1. TypeOK /\ [Next]_vars
        => [\A t \in Task : state[t] \in TerminalStates => state'[t] = state[t]]_vars
  BY TerminalStep
<1>2. QED
  BY <1>1, TypeCorrect, PTL DEF Spec, TerminalIsFinal
-----------------------------------------------------------------------------
(* The tasks: the lease columns, the retry budget, the dead letters and    *)
(* the order of dependencies.                                              *)

(* Before it is leased again a task has used no more than its retry limit: *)
(* the strengthening that makes the retry budget inductive.                *)
Waiting(s) == s \in {"absent", "pending", "ready", "blocked", "retry_wait"}

BudgetInv ==
  \A t \in Task : /\ Attempt(t) <= RetryLimit[t] + 1
                  /\ Waiting(state[t]) => Attempt(t) <= RetryLimit[t]

TaskInv == LeaseMatchesState /\ BudgetInv /\ OneDeadLetterPerFailure

(* A claim keeps leases, budgets and dead letters in step with the states. *)
LEMMA ClaimTxTaskInv ==
  ASSUME TypeOK, TaskInv,
         NEW picked \in SUBSET Task, NEW w \in Worker \cup {NoOne}, ClaimTx(picked, w),
         picked = {} \/ w \in Worker,
         \A t \in picked : Claimable(t)
  PROVE  TaskInv'
<1>1. ASSUME NEW t \in Task PROVE (owner'[t] # NoOne) <=> Leased(state'[t])
  <2>1. CASE t \in picked
    BY <2>1, NoOneAssumption DEF ClaimTx, Leased
  <2>2. CASE t \notin picked
    <3>1. state'[t] = SweptState(t) /\ owner'[t] = IF Expired(t) THEN NoOne ELSE owner[t]
      BY <2>2 DEF ClaimTx
    <3>2. QED
      BY <3>1, SweptStateType DEF TaskInv, LeaseMatchesState
  <2>3. QED
    BY <2>1, <2>2
<1>2. ASSUME NEW t \in Task
      PROVE  /\ Attempt(t)' <= RetryLimit[t] + 1
             /\ Waiting(state'[t]) => Attempt(t)' <= RetryLimit[t]
  <2>1. Attempt(t) \in Nat /\ RetryLimit[t] \in Nat /\ attempts[t] \in Seq(RowStatus)
    BY RetryAssumption DEF TypeOK, Attempt
  <2>2. Waiting(SweptState(t)) => Attempt(t) <= RetryLimit[t]
    <3>1. CASE SweptRetry(t)
      BY <3>1 DEF SweptRetry, Retryable
    <3>2. CASE ~SweptRetry(t)
      <4>1. Waiting(SweptState(t)) => Waiting(state[t])
        BY <3>2 DEF SweptState, SweptCancelled, SweptRetry, SweptDead, HeldBack, Expired, Leased, Waiting
      <4>2. QED
        BY <4>1 DEF TaskInv, BudgetInv
    <3>3. QED
      BY <3>1, <3>2
  <2>3. CASE t \in picked
    <3>1. Attempt(t) <= RetryLimit[t]
      BY <2>2, <2>3 DEF Claimable, Waiting
    <3>2. state'[t] = "running" /\ attempts'[t] = Append(attempts[t], "open")
      BY <2>3 DEF ClaimTx
    <3>3. Len(attempts'[t]) = Len(attempts[t]) + 1
      BY <2>1, <3>2
    <3>4. QED
      BY <2>1, <3>1, <3>2, <3>3 DEF Attempt, Waiting
  <2>4. CASE t \notin picked
    <3>1. state'[t] = SweptState(t) /\ attempts'[t] = attempts[t]
      BY <2>4 DEF ClaimTx
    <3>2. QED
      BY <2>1, <2>2, <3>1 DEF Attempt, TaskInv, BudgetInv
  <2>5. QED
    BY <2>3, <2>4
<1>3. ASSUME NEW t \in Task PROVE deadLetters'[t] = IF state'[t] = "failed" THEN 1 ELSE 0
  <2>1. SweptDead(t) => state[t] # "failed" /\ SweptState(t) # "ready"
    BY DEF SweptDead, Expired, Leased, SweptState, SweptCancelled, SweptRetry
  <2>2. deadLetters'[t] = deadLetters[t] + IF SweptDead(t) THEN 1 ELSE 0
    BY DEF ClaimTx
  <2>3. deadLetters[t] = IF state[t] = "failed" THEN 1 ELSE 0
    BY DEF TaskInv, OneDeadLetterPerFailure
  <2>4. CASE t \in picked
    <3>1. SweptState(t) = "ready" /\ state'[t] = "running"
      BY <2>4 DEF Claimable, ClaimTx
    <3>2. state[t] # "failed" /\ ~SweptDead(t)
      BY <2>1, <3>1, SweptStateType
    <3>3. QED
      BY <2>2, <2>3, <3>1, <3>2
  <2>5. CASE t \notin picked
    <3>1. state'[t] = SweptState(t)
      BY <2>5 DEF ClaimTx
    <3>2. QED
      BY <2>1, <2>2, <2>3, <3>1, SweptStateType
  <2>6. QED
    BY <2>4, <2>5
<1>4. QED
  BY <1>1, <1>2, <1>3 DEF TaskInv, LeaseMatchesState, BudgetInv, OneDeadLetterPerFailure

(* So does the end of an attempt that failed or was rejected.              *)
LEMMA FailTxTaskInv ==
  ASSUME TypeOK, TaskInv, NEW d \in Director, NEW t \in Task, NEW R, NEW D, FailTx(d, t, R, D),
         "failed" \notin R \cup D
  PROVE  TaskInv'
<1>1. Len(Closed(t, "failed")) = Attempt(t)
  BY ClosedType DEF Attempt, RowStatus
<1>2. \A u \in Task : Attempt(u)' = Attempt(u)
  <2>1. attempts' = [attempts EXCEPT ![t] = Closed(t, "failed")]
    BY DEF FailTx
  <2>2. QED
    BY <1>1, <2>1 DEF Attempt, TypeOK
<1>3. ASSUME NEW u \in Task PROVE (owner'[u] # NoOne) <=> Leased(state'[u])
  BY DEF FailTx, Unlease, TaskInv, LeaseMatchesState, TypeOK, Leased, HeldBack
<1>4. ASSUME NEW u \in Task
      PROVE  /\ Attempt(u)' <= RetryLimit[u] + 1
             /\ Waiting(state'[u]) => Attempt(u)' <= RetryLimit[u]
  <2>1. Attempt(u)' = Attempt(u)
    BY <1>2
  <2>2. Attempt(u) \in Nat /\ RetryLimit[u] \in Nat
    BY RetryAssumption DEF TypeOK, Attempt
  <2>3. Waiting(state'[u]) => Waiting(state[u]) \/ Attempt(u) <= RetryLimit[u]
    BY DEF FailTx, Waiting, Retryable, HeldBack, TypeOK
  <2>4. QED
    BY <2>1, <2>2, <2>3 DEF TaskInv, BudgetInv
<1>5. ASSUME NEW u \in Task PROVE deadLetters'[u] = IF state'[u] = "failed" THEN 1 ELSE 0
  <2>1. deadLetters[u] = IF state[u] = "failed" THEN 1 ELSE 0
    BY DEF TaskInv, OneDeadLetterPerFailure
  <2>2. CASE Retryable(t) /\ state[t] \in R /\ state' = [state EXCEPT ![t] = "retry_wait"]
             /\ UNCHANGED deadLetters
    BY <2>1, <2>2 DEF TypeOK
  <2>3. CASE /\ ~Retryable(t) /\ state[t] \in D
             /\ state' = [v \in Task |-> IF v = t THEN "failed"
                                         ELSE IF HeldBack(v, {t}) THEN "blocked" ELSE state[v]]
             /\ deadLetters' = [deadLetters EXCEPT ![t] = @ + 1]
    BY <2>1, <2>3 DEF TypeOK, HeldBack
  <2>4. QED
    BY <2>2, <2>3 DEF FailTx
<1>6. QED
  BY <1>3, <1>4, <1>5 DEF TaskInv, LeaseMatchesState, BudgetInv, OneDeadLetterPerFailure

(* And a report: it changes neither the number of attempts nor the budget. *)
LEMMA SubmitTaskInv ==
  ASSUME TypeOK, TaskInv, NEW w \in Worker, NEW t \in Task, NEW status \in ReportStatus,
         SubmitReport(w, t, status)
  PROVE  TaskInv'
<1>1. Leased(state[t])
  BY NoOneAssumption DEF SubmitReport, TaskInv, LeaseMatchesState
<1>2. \A u \in Task : Attempt(u)' = Attempt(u)
  <2>1. PICK s \in RowStatus : attempts' = [attempts EXCEPT ![t] = Closed(t, s)]
    BY DEF SubmitReport, RowStatus
  <2>2. Len(Closed(t, s)) = Attempt(t)
    BY ClosedType DEF Attempt
  <2>3. QED
    BY <2>1, <2>2 DEF Attempt, TypeOK
<1>3. ASSUME NEW u \in Task PROVE (owner'[u] # NoOne) <=> Leased(state'[u])
  BY <1>1 DEF SubmitReport, TaskInv, LeaseMatchesState, TypeOK, Leased
<1>4. ASSUME NEW u \in Task PROVE Waiting(state'[u]) => Waiting(state[u])
  BY DEF SubmitReport, Waiting, TypeOK
<1>5. ASSUME NEW u \in Task PROVE state'[u] = "failed" <=> state[u] = "failed"
  BY <1>1 DEF SubmitReport, TypeOK, Leased
<1>6. deadLetters' = deadLetters
  BY DEF SubmitReport
<1>7. QED
  BY <1>2, <1>3, <1>4, <1>5, <1>6 DEF TaskInv, LeaseMatchesState, BudgetInv, OneDeadLetterPerFailure

(* A step that leases nothing, starts no attempt and dead-letters nothing. *)
LEMMA QuietTaskInv ==
  ASSUME TaskInv, UNCHANGED <<attempts, deadLetters>>,
         \A t \in Task : /\ (owner'[t] # NoOne) <=> Leased(state'[t])
                         /\ Waiting(state'[t]) => Waiting(state[t])
                         /\ state'[t] = "failed" <=> state[t] = "failed"
  PROVE  TaskInv'
BY DEF TaskInv, LeaseMatchesState, BudgetInv, OneDeadLetterPerFailure, Attempt

(* There are no tasks at first.                                            *)
LEMMA InitTaskInv == Init => TaskInv
<1> SUFFICES ASSUME Init PROVE TaskInv
  OBVIOUS
<1>1. \A t \in Task : Attempt(t) = 0 /\ RetryLimit[t] \in Nat
  BY RetryAssumption DEF Init, Attempt
<1>2. QED
  BY <1>1 DEF Init, TaskInv, LeaseMatchesState, BudgetInv, OneDeadLetterPerFailure, Leased

(* Every operation of the store keeps the three parts together.            *)
LEMMA NextTaskInv == TypeOK /\ TaskInv /\ [Next]_vars => TaskInv'
<1> SUFFICES ASSUME TypeOK, TaskInv, [Next]_vars PROVE TaskInv'
  OBVIOUS
<1>1. ASSUME UNCHANGED taskVars PROVE TaskInv'
  BY <1>1, QuietTaskInv DEF taskVars, TaskInv, LeaseMatchesState
<1>2. ASSUME NEW d \in Director, Acquire(d) \/ Release(d) PROVE UNCHANGED taskVars
  BY <1>2 DEF Acquire, Release
<1>3. ASSUME NEW d \in Director, NEW t \in Task, CreateTask(d, t) PROVE TaskInv'
  <2>1. state[t] = "absent"
    BY <1>3 DEF CreateTask, Exists
  <2>2. QED
    BY <1>3, <2>1, QuietTaskInv DEF CreateTask, TypeOK, TaskInv, LeaseMatchesState, Leased, Waiting
<1>4. ASSUME NEW d \in Director, NEW t \in Task, Accept(d, t) PROVE TaskInv'
  BY <1>4, QuietTaskInv DEF Accept, Unlease, Unblocked, TypeOK, TaskInv, LeaseMatchesState,
     Leased, Waiting
<1>5. ASSUME NEW d \in Director, NEW t \in Task, Reject(d, t) \/ Fail(d, t) PROVE TaskInv'
  BY <1>5, FailTxTaskInv DEF Reject, Fail
<1>6. ASSUME NEW d \in Director, NEW t \in Task, Cancel(d, t) PROVE TaskInv'
  <2>1. Legal(state[t], "cancelled") => state[t] # "failed"
    BY DEF Legal, Transitions, TaskStates
  <2>2. QED
    BY <1>6, <2>1, QuietTaskInv DEF Cancel, TypeOK, TaskInv, LeaseMatchesState, Leased, Waiting
<1>7. ASSUME NEW w \in Worker, Claim(w) PROVE TaskInv'
  BY <1>7, ClaimTxTaskInv DEF Claim, First
<1>8. ASSUME ClaimNothing PROVE TaskInv'
  BY <1>8, ClaimTxTaskInv DEF ClaimNothing
<1>9. ASSUME NEW w \in Worker, NEW t \in Task, NEW status \in ReportStatus,
             SubmitReport(w, t, status)
      PROVE  TaskInv'
  BY <1>9, SubmitTaskInv
<1>10. ASSUME NEW t \in Task, WorkerLeaseEnds(t) \/ BackoffEnds(t) PROVE TaskInv'
  BY <1>10, QuietTaskInv DEF WorkerLeaseEnds, BackoffEnds, TaskInv, LeaseMatchesState
<1>11. ASSUME DirectorLeaseEnds \/ UNCHANGED vars PROVE UNCHANGED taskVars
  BY <1>11 DEF DirectorLeaseEnds, vars, taskVars
<1>12. QED
  BY <1>1, <1>2, <1>3, <1>4, <1>5, <1>6, <1>7, <1>8, <1>9, <1>10, <1>11
     DEF Next, DirectorStep, WorkerStep, TimePasses

(* Leases, budgets and dead letters agree with the states at all times.    *)
LEMMA TaskInvariant == Spec => []TaskInv
<1>1. QED
  BY InitTypeOK, NextTypeOK, InitTaskInv, NextTaskInv, PTL DEF Spec

(* Whatever ends an attempt also ends its lease, in the same transaction.  *)
THEOREM LeasesMatchStates == Spec => []LeaseMatchesState
<1>1. TaskInv => LeaseMatchesState
  BY DEF TaskInv
<1>2. QED
  BY <1>1, TaskInvariant, PTL

(* No mixture of failures, rejections, ended leases and unblocking starts  *)
(* a task more than retry_limit + 1 times, for any retry limit.            *)
THEOREM RetriesBounded == Spec => []AttemptBudget
<1>1. TaskInv => AttemptBudget
  BY DEF TaskInv, BudgetInv, AttemptBudget
<1>2. QED
  BY <1>1, TaskInvariant, PTL

(* A dead-lettered task has one incident, and only such a task has one.    *)
THEOREM DeadLetteredOnce == Spec => []OneDeadLetterPerFailure
<1>1. TaskInv => OneDeadLetterPerFailure
  BY DEF TaskInv
<1>2. QED
  BY <1>1, TaskInvariant, PTL
-----------------------------------------------------------------------------
(* The attempts table.                                                     *)

(* A task whose state and rows stay as they are, or that is not leased     *)
(* after the step, keeps its part of the invariant.                        *)
LEMMA QuietRows ==
  ASSUME NewestRowMatchesState,
         \A t \in Task : \/ ~Leased(state'[t])
                         \/ state'[t] = state[t] /\ attempts'[t] = attempts[t]
  PROVE  NewestRowMatchesState'
BY DEF NewestRowMatchesState, Leased, Attempt

(* The newest attempt row follows the state of its task in every operation. *)
LEMMA NextNewestRow ==
  TypeOK /\ LeaseMatchesState /\ NewestRowMatchesState /\ [Next]_vars => NewestRowMatchesState'
<1> SUFFICES ASSUME TypeOK, LeaseMatchesState, NewestRowMatchesState, [Next]_vars
             PROVE  NewestRowMatchesState'
  OBVIOUS
<1>1. ASSUME UNCHANGED <<state, attempts>> PROVE NewestRowMatchesState'
  BY <1>1, QuietRows
<1>2. ASSUME NEW picked \in SUBSET Task, NEW w, ClaimTx(picked, w) PROVE NewestRowMatchesState'
  <2>1. ASSUME NEW t \in picked
        PROVE  state'[t] = "running" /\ Attempt(t)' > 0 /\ attempts'[t][Attempt(t)'] = "open"
    <3>1. state'[t] = "running" /\ attempts'[t] = Append(attempts[t], "open")
      BY <1>2 DEF ClaimTx
    <3>2. attempts[t] \in Seq(RowStatus)
      BY DEF TypeOK
    <3>3. QED
      BY <3>1, <3>2 DEF Attempt
  <2>2. ASSUME NEW t \in Task, t \notin picked
        PROVE  \/ ~Leased(state'[t])
               \/ state'[t] = state[t] /\ attempts'[t] = attempts[t]
    <3>1. state'[t] = SweptState(t) /\ attempts'[t] = attempts[t]
      BY <1>2, <2>2 DEF ClaimTx
    <3>2. Leased(SweptState(t)) => SweptState(t) = state[t]
      BY DEF SweptState, Leased
    <3>3. QED
      BY <3>1, <3>2
  <2>3. ASSUME NEW t \in Task, t \notin picked
        PROVE  /\ state'[t] = "running" =>
                    Attempt(t)' > 0 /\ attempts'[t][Attempt(t)'] = "open"
               /\ state'[t] = "verifying" =>
                    /\ Attempt(t)' > 0 /\ attempts'[t][Attempt(t)'] \in ReportStatus
                    /\ \A i \in 1..Attempt(t)' : attempts'[t][i] # "open"
    BY <2>2, <2>3 DEF NewestRowMatchesState, Leased, Attempt
  <2>4. QED
    BY <2>1, <2>3 DEF NewestRowMatchesState
<1>3. ASSUME NEW w \in Worker, NEW t \in Task, NEW status \in ReportStatus,
             SubmitReport(w, t, status)
      PROVE  NewestRowMatchesState'
  <2>1. CASE cancelReq[t]
    BY <1>3, <2>1, QuietRows DEF SubmitReport, TypeOK, Leased
  <2>2. CASE ~cancelReq[t]
    <3>1. /\ state[t] = "running"
          /\ state' = [state EXCEPT ![t] = "verifying"]
          /\ attempts' = [attempts EXCEPT ![t] = Closed(t, status)]
      BY <1>3, <2>2 DEF SubmitReport
    <3>2. attempts'[t] = Closed(t, status) /\ Len(Closed(t, status)) = Len(attempts[t])
      BY <3>1, ClosedType DEF TypeOK, RowStatus
    <3>3. attempts[t] \in Seq(RowStatus) /\ Attempt(t) > 0 /\ attempts[t][Attempt(t)] = "open"
      BY <3>1 DEF TypeOK, NewestRowMatchesState
    <3>4. \A i \in 1..Len(attempts[t]) :
             Closed(t, status)[i] = IF attempts[t][i] = "open" THEN status ELSE attempts[t][i]
      BY <3>3 DEF Closed
    <3>5. status # "open"
      BY DEF ReportStatus
    <3>6. Attempt(t)' = Attempt(t) /\ Attempt(t) \in 1..Len(attempts[t])
      BY <3>2, <3>3 DEF Attempt
    <3>7. /\ attempts'[t][Attempt(t)'] = status
          /\ \A i \in 1..Attempt(t)' : attempts'[t][i] # "open"
      BY <3>2, <3>3, <3>4, <3>5, <3>6 DEF Attempt
    <3>8. \A u \in Task \ {t} : state'[u] = state[u] /\ attempts'[u] = attempts[u]
      BY <3>1 DEF TypeOK
    <3>9. \A u \in Task \ {t} :
            /\ state'[u] = "running" =>
                 Attempt(u)' > 0 /\ attempts'[u][Attempt(u)'] = "open"
            /\ state'[u] = "verifying" =>
                 /\ Attempt(u)' > 0 /\ attempts'[u][Attempt(u)'] \in ReportStatus
                 /\ \A i \in 1..Attempt(u)' : attempts'[u][i] # "open"
      BY <3>8 DEF NewestRowMatchesState, Attempt
    <3>10. state'[t] = "verifying"
      BY <3>1 DEF TypeOK
    <3>11. QED
      BY <3>3, <3>6, <3>7, <3>9, <3>10 DEF NewestRowMatchesState
  <2>3. QED
    BY <2>1, <2>2
<1>4. ASSUME NEW d \in Director, NEW t \in Task,
             CreateTask(d, t) \/ Accept(d, t) \/ Cancel(d, t)
      PROVE  NewestRowMatchesState'
  BY <1>4, QuietRows DEF CreateTask, Accept, Unblocked, Cancel, TypeOK, Leased
<1>5. ASSUME NEW d \in Director, NEW t \in Task, Reject(d, t) \/ Fail(d, t)
      PROVE  NewestRowMatchesState'
  BY <1>5, QuietRows DEF Reject, Fail, FailTx, HeldBack, TypeOK, Leased
<1>6. ASSUME NEW d \in Director, Acquire(d) \/ Release(d) PROVE UNCHANGED <<state, attempts>>
  BY <1>6 DEF Acquire, Release, taskVars
<1>7. ASSUME NEW w \in Worker, Claim(w) PROVE NewestRowMatchesState'
  BY <1>2, <1>7 DEF Claim
<1>8. ASSUME ClaimNothing PROVE NewestRowMatchesState'
  BY <1>2, <1>8 DEF ClaimNothing
<1>9. ASSUME TimePasses \/ UNCHANGED vars PROVE UNCHANGED <<state, attempts>>
  BY <1>9 DEF TimePasses, DirectorLeaseEnds, WorkerLeaseEnds, BackoffEnds, vars, taskVars
<1>10. QED
  BY <1>1, <1>3, <1>4, <1>5, <1>6, <1>7, <1>8, <1>9 DEF Next, DirectorStep, WorkerStep

(* What Director.verify reads, the newest row that has ended, is the       *)
(* report of the attempt that brought the task to verifying.               *)
THEOREM NewestRowIsCurrent == Spec => []NewestRowMatchesState
<1>1. Init => NewestRowMatchesState
  BY DEF Init, NewestRowMatchesState
<1>2. QED
  BY <1>1, TypeCorrect, LeasesMatchStates, NextNewestRow, PTL DEF Spec
-----------------------------------------------------------------------------
(* Dependencies, in whatever order the contracts are enqueued.  A task that *)
(* is ready, or was, needs each dependency completed already or overlooked *)
(* by the UPDATE that released it; a completed task stays completed.       *)
Released(s) == s \in {"ready", "running", "verifying", "retry_wait", "completed"}

DepInv ==
  \A t \in Task : Released(state[t]) =>
    \A u \in Deps[t] : state[u] = "completed" \/ u \in unseen[t]

(* A step that releases no task and loses none.                            *)
LEMMA QuietDepInv ==
  ASSUME DepInv, TypeOK, UNCHANGED unseen,
         \A t \in Task : /\ state[t] = "completed" => state'[t] = "completed"
                         /\ Released(state'[t]) => Released(state[t])
  PROVE  DepInv'
BY DepsAssumption DEF DepInv

(* No task exists, so none was released.                                   *)
LEMMA InitDepInv == Init => DepInv
BY DEF Init, DepInv, Released

(* Every operation releases a task only after what it depends on, or notes *)
(* what it did not see.                                                    *)
LEMMA NextDepInv == TypeOK /\ LeaseMatchesState /\ DepInv /\ [Next]_vars => DepInv'
<1> SUFFICES ASSUME TypeOK, LeaseMatchesState, DepInv, [Next]_vars PROVE DepInv'
  OBVIOUS
<1>1. ASSUME UNCHANGED <<state, unseen>> PROVE DepInv'
  BY <1>1, QuietDepInv
<1>2. ASSUME NEW d \in Director, Acquire(d) \/ Release(d) PROVE UNCHANGED <<state, unseen>>
  BY <1>2 DEF Acquire, Release, taskVars
<1>3. ASSUME NEW d \in Director, NEW t \in Task, CreateTask(d, t) PROVE DepInv'
  <2>1. state[t] = "absent" /\ unseen' = unseen
    BY <1>3 DEF CreateTask, Exists
  <2>2. state' = [state EXCEPT ![t] = IF AllDepsCompleted(t) THEN "ready" ELSE "pending"]
    BY <1>3 DEF CreateTask
  <2>3. \A u \in Task : state[u] = "completed" => state'[u] = "completed"
    BY <2>1, <2>2 DEF TypeOK
  <2>4. ASSUME NEW u \in Task, Released(state'[u]), NEW v \in Deps[u]
        PROVE  state'[v] = "completed" \/ v \in unseen'[u]
    <3>1. CASE u = t
      <4>1. AllDepsCompleted(u)
        BY <2>2, <2>4, <3>1 DEF Released, TypeOK
      <4>2. QED
        BY <2>3, <2>4, <4>1, DepsAssumption DEF AllDepsCompleted
    <3>2. CASE u # t
      <4>1. state'[u] = state[u]
        BY <2>2, <3>2 DEF TypeOK
      <4>2. QED
        BY <2>1, <2>3, <2>4, <4>1, DepsAssumption DEF DepInv
    <3>3. QED
      BY <3>1, <3>2
  <2>5. QED
    BY <2>4 DEF DepInv
<1>4. ASSUME NEW d \in Director, NEW t \in Task, Accept(d, t) PROVE DepInv'
  <2>1. /\ state[t] = "verifying"
        /\ \A u \in Task : state'[u] = IF u = t THEN "completed"
                                       ELSE IF Unblocked(u, t) THEN "ready" ELSE state[u]
        /\ \A u \in Task : unseen'[u] = IF Unblocked(u, t) THEN {v \in Deps[u] : ~Exists(v)}
                                                            ELSE unseen[u]
    BY <1>4 DEF Accept, Overlook
  <2>2. ~Unblocked(t, t)
    BY <2>1 DEF Unblocked
  <2>3. \A u \in Task : state[u] = "completed" => state'[u] = "completed"
    BY <2>1 DEF Unblocked
  <2>4. ASSUME NEW u \in Task, Released(state'[u]), NEW v \in Deps[u]
        PROVE  state'[v] = "completed" \/ v \in unseen'[u]
    <3>1. v \in Task
      BY DepsAssumption
    <3>2. CASE Unblocked(u, t)
      <4>1. v = t \/ ~Exists(v) \/ state[v] = "completed"
        BY <3>2 DEF Unblocked
      <4>2. QED
        BY <2>1, <2>3, <3>1, <3>2, <4>1
    <3>3. CASE ~Unblocked(u, t)
      <4>1. Released(state[u]) /\ unseen'[u] = unseen[u]
        BY <2>1, <2>4, <3>3 DEF Released
      <4>2. QED
        BY <2>3, <3>1, <4>1 DEF DepInv
    <3>4. QED
      BY <3>2, <3>3
  <2>5. QED
    BY <2>4 DEF DepInv
<1>5. ASSUME NEW d \in Director, NEW t \in Task, Reject(d, t) \/ Fail(d, t) PROVE DepInv'
  <2>1. state[t] \in {"running", "verifying", "retry_wait"}
    BY <1>5 DEF Reject, Fail, FailTx
  <2>2. \A u \in Task : \/ state'[u] = state[u]
                        \/ u = t /\ state'[u] \in {"retry_wait", "failed"}
                        \/ state[u] \in {"pending", "ready", "blocked"} /\ state'[u] = "blocked"
    <3>1. CASE state' = [state EXCEPT ![t] = "retry_wait"]
      BY <3>1 DEF TypeOK
    <3>2. CASE state' = [u \in Task |-> IF u = t THEN "failed"
                                       ELSE IF HeldBack(u, {t}) THEN "blocked" ELSE state[u]]
      BY <3>2 DEF HeldBack
    <3>3. QED
      BY <1>5, <3>1, <3>2 DEF Reject, Fail, FailTx
  <2>3. \A u \in Task : /\ state[u] = "completed" => state'[u] = "completed"
                        /\ Released(state'[u]) => Released(state[u])
    BY <2>1, <2>2 DEF Released
  <2>4. unseen' = unseen
    BY <1>5 DEF Reject, Fail, FailTx
  <2>5. QED
    BY <2>3, <2>4, QuietDepInv
<1>6. ASSUME NEW d \in Director, NEW t \in Task, Cancel(d, t) PROVE DepInv'
  <2>1. Legal(state[t], "cancelled") => state[t] # "completed"
    BY DEF Legal, Transitions, TaskStates
  <2>2. \A u \in Task : /\ state[u] = "completed" => state'[u] = "completed"
                        /\ Released(state'[u]) => Released(state[u])
    BY <1>6, <2>1 DEF Cancel, Released, TypeOK, Leased
  <2>3. unseen' = unseen
    BY <1>6 DEF Cancel
  <2>4. QED
    BY <2>2, <2>3, QuietDepInv
<1>7. ASSUME NEW picked \in SUBSET Task, NEW w \in Worker \cup {NoOne}, ClaimTx(picked, w),
             \A t \in picked : Claimable(t)
      PROVE  DepInv'
  <2>1. ASSUME NEW u \in Task
        PROVE  /\ SweptState(u) = "completed" <=> state[u] = "completed"
               /\ Released(SweptState(u)) => Released(state[u])
    <3>1. Released(SweptState(u)) => Released(state[u])
      BY DEF SweptState, SweptCancelled, SweptRetry, SweptDead, HeldBack, Expired, Leased, Released
    <3>2. QED
      BY <3>1, SweptStateType
  <2>2. ASSUME NEW u \in Task
        PROVE  /\ state[u] = "completed" => state'[u] = "completed"
               /\ Released(state'[u]) => Released(state[u])
    <3>1. CASE u \in picked
      <4>1. SweptState(u) = "ready" /\ state'[u] = "running"
        BY <1>7, <3>1 DEF Claimable, ClaimTx
      <4>2. QED
        BY <2>1, <4>1 DEF Released
    <3>2. CASE u \notin picked
      <4>1. state'[u] = SweptState(u)
        BY <1>7, <3>2 DEF ClaimTx
      <4>2. QED
        BY <2>1, <4>1
    <3>3. QED
      BY <3>1, <3>2
  <2>3. unseen' = unseen
    BY <1>7 DEF ClaimTx
  <2>4. QED
    BY <2>2, <2>3, QuietDepInv
<1>8. ASSUME NEW w \in Worker, Claim(w) PROVE DepInv'
  BY <1>7, <1>8 DEF Claim, First
<1>9. ASSUME ClaimNothing PROVE DepInv'
  BY <1>7, <1>9 DEF ClaimNothing
<1>10. ASSUME NEW w \in Worker, NEW t \in Task, NEW status \in ReportStatus,
              SubmitReport(w, t, status)
       PROVE  DepInv'
  <2>1. Leased(state[t])
    BY <1>10, NoOneAssumption DEF SubmitReport, LeaseMatchesState
  <2>2. \A u \in Task : /\ state[u] = "completed" => state'[u] = "completed"
                        /\ Released(state'[u]) => Released(state[u])
    BY <1>10, <2>1 DEF SubmitReport, Released, TypeOK, Leased
  <2>3. unseen' = unseen
    BY <1>10 DEF SubmitReport
  <2>4. QED
    BY <2>2, <2>3, QuietDepInv
<1>11. ASSUME TimePasses \/ UNCHANGED vars PROVE UNCHANGED <<state, unseen>>
  BY <1>11 DEF TimePasses, DirectorLeaseEnds, WorkerLeaseEnds, BackoffEnds, vars, taskVars
<1>12. QED
  BY <1>1, <1>2, <1>3, <1>4, <1>5, <1>6, <1>8, <1>9, <1>10, <1>11
     DEF Next, DirectorStep, WorkerStep

(* Whatever the order of the plan, a task never runs and never completes   *)
(* before each of its dependencies that had a row when it was released has *)
(* completed, for every dependency graph.                                  *)
THEOREM DependenciesFirst == Spec => []DependenciesCompleted
<1>1. DepInv => DependenciesCompleted
  BY DEF DepInv, DependenciesCompleted, Released, Leased
<1>2. QED
  BY <1>1, NextDepInv, InitDepInv, TypeCorrect, LeasesMatchStates, PTL DEF Spec
-----------------------------------------------------------------------------
(* Rows of the attempts table are added, and closed once: what an attempt  *)
(* ended with stays on record.                                             *)
LEMMA RowsStep ==
  ASSUME TypeOK, [Next]_vars, NEW t \in Task
  PROVE  \/ attempts'[t] = attempts[t]
         \/ /\ attempts'[t] = Append(attempts[t], "open")
            /\ SweptState(t) = "ready" /\ state'[t] = "running"
         \/ /\ \E status \in RowStatus : attempts'[t] = Closed(t, status)
            /\ state'[t] # "completed"
<1>1. ASSUME NEW picked \in SUBSET Task, NEW w, ClaimTx(picked, w),
             \A u \in picked : Claimable(u)
      PROVE  \/ attempts'[t] = attempts[t]
             \/ /\ attempts'[t] = Append(attempts[t], "open")
                /\ SweptState(t) = "ready" /\ state'[t] = "running"
  BY <1>1 DEF ClaimTx, Claimable
<1>2. ASSUME NEW w \in Worker, Claim(w)
      PROVE  \/ attempts'[t] = attempts[t]
             \/ /\ attempts'[t] = Append(attempts[t], "open")
                /\ SweptState(t) = "ready" /\ state'[t] = "running"
  <2>1. PICK u \in Task : Claimable(u) /\ ClaimTx({u}, w)
    BY <1>2 DEF Claim, First
  <2>2. QED
    BY <1>1, <2>1
<1>3. ASSUME ClaimNothing PROVE attempts'[t] = attempts[t]
  BY <1>3 DEF ClaimNothing, ClaimTx
<1>4. ASSUME NEW w \in Worker, NEW u \in Task, NEW status \in ReportStatus,
             SubmitReport(w, u, status)
      PROVE  \/ attempts'[t] = attempts[t]
             \/ (\E s \in RowStatus : attempts'[t] = Closed(t, s)) /\ state'[t] # "completed"
  <2>1. PICK s \in RowStatus : /\ attempts' = [attempts EXCEPT ![u] = Closed(u, s)]
                               /\ state'[u] # "completed"
    BY <1>4 DEF SubmitReport, RowStatus, TypeOK
  <2>2. QED
    BY <2>1 DEF TypeOK
<1>5. ASSUME NEW d \in Director, NEW u \in Task, Reject(d, u) \/ Fail(d, u)
      PROVE  \/ attempts'[t] = attempts[t]
             \/ (\E s \in RowStatus : attempts'[t] = Closed(t, s)) /\ state'[t] # "completed"
  <2>1. attempts' = [attempts EXCEPT ![u] = Closed(u, "failed")] /\ state'[u] # "completed"
    BY <1>5 DEF Reject, Fail, FailTx, TypeOK
  <2>2. "failed" \in RowStatus
    BY DEF RowStatus
  <2>3. QED
    BY <2>1, <2>2 DEF TypeOK
<1>6. ASSUME NEW d \in Director, NEW u \in Task, CreateTask(d, u) \/ Accept(d, u) \/ Cancel(d, u)
      PROVE  attempts'[t] = attempts[t]
  BY <1>6 DEF CreateTask, Accept, Cancel
<1>7. ASSUME NEW d \in Director, Acquire(d) \/ Release(d) PROVE attempts'[t] = attempts[t]
  BY <1>7 DEF Acquire, Release, taskVars
<1>8. ASSUME TimePasses \/ UNCHANGED vars PROVE attempts'[t] = attempts[t]
  BY <1>8 DEF TimePasses, DirectorLeaseEnds, WorkerLeaseEnds, BackoffEnds, vars, taskVars
<1>9. QED
  BY <1>2, <1>3, <1>4, <1>5, <1>6, <1>7, <1>8 DEF Next, DirectorStep, WorkerStep

(* A report that says completed is on record from then on.                 *)
LEMMA PassingReportStays ==
  ASSUME TypeOK, [Next]_vars, NEW t \in Task, HasPassingReport(t)
  PROVE  HasPassingReport(t)'
<1>1. attempts[t] \in Seq(RowStatus)
  BY DEF TypeOK
<1>2. PICK i \in 1..Len(attempts[t]) : attempts[t][i] = "completed"
  BY <1>1 DEF HasPassingReport
<1>3. CASE attempts'[t] = attempts[t]
  BY <1>1, <1>2, <1>3 DEF HasPassingReport
<1>4. CASE attempts'[t] = Append(attempts[t], "open")
  <2>1. i \in DOMAIN Append(attempts[t], "open") /\ Append(attempts[t], "open")[i] = "completed"
    BY <1>1, <1>2, "open" \in RowStatus DEF RowStatus
  <2>2. QED
    BY <1>4, <2>1 DEF HasPassingReport
<1>5. CASE \E status \in RowStatus : attempts'[t] = Closed(t, status)
  <2>1. PICK status \in RowStatus : attempts'[t] = Closed(t, status)
    BY <1>5
  <2>2. i \in DOMAIN Closed(t, status) /\ Closed(t, status)[i] = "completed"
    BY <1>1, <1>2 DEF Closed
  <2>3. QED
    BY <2>1, <2>2 DEF HasPassingReport
<1>6. QED
  BY <1>3, <1>4, <1>5, RowsStep

(* Only accept books a cost, of the task that it completes.                *)
UnbookedInv == \A t \in Task : state[t] # "completed" => costs[t] = 0

(* No other operation touches the cost events, and completed is final.     *)
LEMMA NextUnbooked == TypeOK /\ UnbookedInv /\ [Next]_vars => UnbookedInv'
<1> SUFFICES ASSUME TypeOK, UnbookedInv, [Next]_vars, NEW t \in Task, state'[t] # "completed"
             PROVE  costs'[t] = 0
  BY DEF UnbookedInv
<1>1. state[t] # "completed"
  BY TerminalStep DEF TerminalStates
<1>2. ASSUME NEW d \in Director, NEW u \in Task, Accept(d, u) PROVE costs'[t] = costs[t]
  <2>1. state'[u] = "completed"
    BY <1>2 DEF Accept
  <2>2. QED
    BY <1>2, <2>1 DEF Accept, TypeOK
<1>3. ASSUME NEW d \in Director, NEW u \in Task,
             CreateTask(d, u) \/ Cancel(d, u) \/ Reject(d, u) \/ Fail(d, u)
      PROVE  costs' = costs
  BY <1>3 DEF CreateTask, Cancel, Reject, Fail, FailTx
<1>4. ASSUME NEW d \in Director, Acquire(d) \/ Release(d) PROVE costs' = costs
  BY <1>4 DEF Acquire, Release, taskVars
<1>5. ASSUME NEW w \in Worker, WorkerStep(w) PROVE costs' = costs
  BY <1>5 DEF WorkerStep, Claim, ClaimTx, SubmitReport
<1>6. ASSUME ClaimNothing \/ TimePasses \/ UNCHANGED vars PROVE costs' = costs
  BY <1>6 DEF ClaimNothing, ClaimTx, TimePasses, DirectorLeaseEnds, WorkerLeaseEnds, BackoffEnds,
              vars, taskVars
<1>7. QED
  BY <1>1, <1>2, <1>3, <1>4, <1>5, <1>6 DEF Next, DirectorStep, UnbookedInv

(* A task that is not completed has no cost event.                         *)
LEMMA CostsOfCompleted == Spec => []UnbookedInv
<1>1. Init => UnbookedInv
  BY DEF Init, UnbookedInv
<1>2. QED
  BY <1>1, TypeCorrect, NextUnbooked, PTL DEF Spec

-----------------------------------------------------------------------------
(* The processes.                                                          *)

(* A process has a job from the step that gives it one to the end of the   *)
(* cycle, and a report when it submits one: the facts a step needs to be   *)
(* a step of the store, whose operations take a task and a status.         *)
WithoutJob == {"off", "cycle", "claim", "exit"}

ProcInv ==
  /\ pc \in [Director -> PC]
  /\ job \in [Director -> Task \cup {NoOne}]
  /\ rep \in [Director -> Report \cup {NoOne}]
  /\ \A d \in Director : /\ pc[d] \notin WithoutJob => job[d] \in Task
                         /\ pc[d] \in {"renew", "submit"} => rep[d] \in Report

(* Goto keeps the locals of the process that moves and every other one.    *)
LEMMA GotoProcInv ==
  ASSUME ProcInv, NEW d \in Director, NEW l \in PC, Goto(d, l),
         l \in WithoutJob \/ job[d] \in Task,
         l \in {"renew", "submit"} => rep[d] \in Report
  PROVE  ProcInv'
BY DEF ProcInv, Goto

(* Leave forgets them, and the labels it goes to need none.                *)
LEMMA LeaveProcInv ==
  ASSUME ProcInv, NEW d \in Director, NEW l \in WithoutJob, NEW n, Leave(d, l, n)
  PROVE  ProcInv'
<1>1. l \in PC /\ l \notin {"renew", "submit"}
  BY DEF WithoutJob, PC
<1>2. QED
  BY <1>1 DEF ProcInv, Leave

(* store.fail on the job of a process, with its three outcomes.            *)
LEMMA FailJobStep ==
  ASSUME NEW d \in Director, job[d] \in Task, NEW done, NEW raised, FailJob(d, done, raised)
  PROVE  /\ Next \/ UNCHANGED vars
         /\ done \/ Die(d) \/ raised
<1>1. Fail(d, job[d]) => Next
  BY DEF Next, DirectorStep
<1>2. Die(d) => UNCHANGED vars
  BY DEF Die
<1>3. QED
  BY <1>1, <1>2 DEF FailJob

(* No process has a job when it starts.                                    *)
LEMMA InitProcInv == DirectorInit => ProcInv
BY DEF DirectorInit, ProcInv, PC, WithoutJob

(* Die and NextCycle lead to labels without a job.                         *)
LEMMA EndProcInv ==
  ASSUME ProcInv, NEW d \in Director, Die(d) \/ NextCycle(d)
  PROVE  ProcInv'
<1>1. "off" \in WithoutJob /\ "cycle" \in WithoutJob
  BY DEF WithoutJob
<1>2. CASE Die(d)
  BY <1>1, <1>2, LeaveProcInv DEF Die
<1>3. CASE NextCycle(d)
  BY <1>1, <1>3, LeaveProcInv DEF NextCycle
<1>4. QED
  BY <1>2, <1>3

(* The steps of a process keep the invariant.                              *)
LEMMA ProceedProcInv ==
  ASSUME ProcInv, NEW d \in Director, Proceed(d)
  PROVE  ProcInv'
<1> USE DEF WithoutJob, PC
<1>1. CASE Enqueue(d)
  BY <1>1, GotoProcInv, EndProcInv DEF Enqueue, ProcInv
<1>2. CASE CancelTask(d)
  BY <1>2, GotoProcInv, EndProcInv DEF CancelTask
<1>3. CASE Exit(d)
  BY <1>3, LeaveProcInv DEF Exit
<1>4. CASE BeginCycle(d)
  BY <1>4, GotoProcInv, EndProcInv DEF BeginCycle
<1>5. CASE ClaimTask(d)
  <2>1. CASE \E t \in Task : /\ pc' = [pc EXCEPT ![d] = "start"]
                             /\ job' = [job EXCEPT ![d] = t]
                             /\ UNCHANGED rep
    BY <2>1 DEF ProcInv
  <2>2. CASE Goto(d, "exit")
    BY <2>2, GotoProcInv
  <2>3. QED
    BY <1>5, <2>1, <2>2 DEF ClaimTask
<1>6. CASE NoHandler(d)
  <2>1. job[d] \in Task
    BY <1>6 DEF NoHandler, ProcInv
  <2>2. Leave(d, "exit", cycles[d]) \/ Die(d) \/ Leave(d, "off", 0)
    BY <1>6, <2>1, FailJobStep DEF NoHandler
  <2>3. QED
    BY <2>2, LeaveProcInv, EndProcInv
<1>7. CASE CheckCancel(d)
  BY <1>7, GotoProcInv DEF CheckCancel, ProcInv
<1>8. CASE AckCancel(d)
  BY <1>8, GotoProcInv, EndProcInv DEF AckCancel, ProcInv
<1>9. CASE HandlerEnds(d)
  <2>1. CASE \E r \in Report : /\ rep' = [rep EXCEPT ![d] = r]
                               /\ pc' = [pc EXCEPT ![d] = "renew"]
                               /\ UNCHANGED job
    BY <1>9, <2>1 DEF HandlerEnds, ProcInv
  <2>2. CASE Goto(d, "except")
    BY <1>9, <2>2, GotoProcInv DEF HandlerEnds, ProcInv
  <2>3. QED
    BY <1>9, <2>1, <2>2 DEF HandlerEnds
<1>10. CASE RenewAfterHandler(d)
  BY <1>10, GotoProcInv DEF RenewAfterHandler, ProcInv
<1>11. CASE Submit(d)
  BY <1>11, GotoProcInv DEF Submit, ProcInv
<1>12. CASE AfterSubmit(d)
  BY <1>12, GotoProcInv, EndProcInv DEF AfterSubmit, ProcInv
<1>13. CASE FailReport(d)
  <2>1. job[d] \in Task
    BY <1>13 DEF FailReport, ProcInv
  <2>2. NextCycle(d) \/ Die(d) \/ Goto(d, "except")
    BY <1>13, <2>1, FailJobStep DEF FailReport
  <2>3. QED
    BY <2>1, <2>2, GotoProcInv, EndProcInv
<1>14. CASE ReadVerdict(d)
  <2>1. job[d] \in Task /\ \E l \in {"accept", "except", "reject"} : Goto(d, l)
    BY <1>14 DEF ReadVerdict, ProcInv
  <2>2. QED
    BY <2>1, GotoProcInv
<1>15. CASE AcceptJob(d) \/ RejectJob(d)
  <2>1. job[d] \in Task /\ (Die(d) \/ \E l \in {"verified", "except"} : Goto(d, l))
    BY <1>15 DEF AcceptJob, RejectJob, Verified, ProcInv
  <2>2. QED
    BY <2>1, GotoProcInv, EndProcInv
<1>16. CASE RecordDecision(d)
  BY <1>16, GotoProcInv, EndProcInv DEF RecordDecision
<1>17. CASE HandleException(d)
  <2>1. job[d] \in Task
    BY <1>17 DEF HandleException, ProcInv
  <2>2. NextCycle(d) \/ Die(d) \/ Leave(d, "off", 0)
    BY <1>17, <2>1, FailJobStep DEF HandleException
  <2>3. QED
    BY <2>2, LeaveProcInv, EndProcInv
<1>18. QED
  BY <1>1, <1>2, <1>3, <1>4, <1>5, <1>6, <1>7, <1>8, <1>9, <1>10, <1>11, <1>12, <1>13,
     <1>14, <1>15, <1>16, <1>17 DEF Proceed

(* Whatever a process does, those with a job keep it and know their report. *)
LEMMA NextProcInv == ProcInv /\ [DirectorNext]_dvars => ProcInv'
<1> SUFFICES ASSUME ProcInv, [DirectorNext]_dvars PROVE ProcInv'
  OBVIOUS
<1>1. ASSUME NEW d \in Director, StartRun(d) \/ StartEnqueue(d) \/ StartCancel(d) PROVE ProcInv'
  <2>1. \/ \E c \in {"enqueue", "cancel"}, t \in Task : Start(d, c, t)
        \/ Start(d, "cycle", NoOne)
    BY <1>1 DEF StartRun, StartEnqueue, StartCancel
  <2>2. QED
    BY <2>1 DEF Start, ProcInv, PC, WithoutJob
<1>2. ASSUME NEW d \in Director, Crash(d) PROVE ProcInv'
  BY <1>2 DEF Crash, ProcInv, PC, WithoutJob
<1>3. ASSUME UNCHANGED procVars PROVE ProcInv'
  BY <1>3 DEF procVars, ProcInv
<1>4. QED
  BY <1>1, <1>2, <1>3, ProceedProcInv
     DEF DirectorNext, DeadLeaseEnds, LiveLeaseEnds, WorkLeaseEnds, RetryComesDue, dvars, procVars
-----------------------------------------------------------------------------
(* Every step of a process is one operation of the store or none.          *)
LEMMA ProceedStep ==
  ASSUME ProcInv, NEW d \in Director, Proceed(d)
  PROVE  Next \/ UNCHANGED vars
<1> USE DEF WithoutJob
<1> WorkerOf[d] \in Worker
  BY WorkerAssumption
<1>1. DirectorStep(d) \/ ClaimNothing \/ WorkerStep(WorkerOf[d]) => Next
  BY DEF Next
<1>2. Die(d) => UNCHANGED vars
  BY DEF Die
<1>3. CASE Enqueue(d)
  <2>1. job[d] \in Task
    BY <1>3 DEF Enqueue, ProcInv
  <2>2. QED
    BY <1>1, <1>2, <1>3, <2>1 DEF Enqueue, DirectorStep
<1>4. CASE CancelTask(d)
  <2>1. job[d] \in Task
    BY <1>4 DEF CancelTask, ProcInv
  <2>2. QED
    BY <1>1, <1>2, <1>4, <2>1 DEF CancelTask, DirectorStep
<1>5. CASE Exit(d)
  BY <1>1, <1>5 DEF Exit, DirectorStep
<1>6. CASE BeginCycle(d)
  BY <1>1, <1>2, <1>6 DEF BeginCycle, DirectorStep
<1>7. CASE ClaimTask(d)
  BY <1>1, <1>7 DEF ClaimTask, WorkerStep, Claim
<1>8. CASE NoHandler(d)
  <2>1. job[d] \in Task
    BY <1>8 DEF NoHandler, ProcInv
  <2>2. QED
    BY <1>8, <2>1, FailJobStep DEF NoHandler
<1>9. CASE CheckCancel(d) \/ HandlerEnds(d) \/ AfterSubmit(d) \/ ReadVerdict(d)
  BY <1>9 DEF CheckCancel, HandlerEnds, AfterSubmit, ReadVerdict
<1>10. CASE AckCancel(d)
  <2>1. job[d] \in Task /\ "blocked" \in ReportStatus
    BY <1>10 DEF AckCancel, ProcInv, ReportStatus
  <2>2. SubmitReport(WorkerOf[d], job[d], "blocked") \/ UNCHANGED vars
    BY <1>10 DEF AckCancel
  <2>3. QED
    BY <1>1, <2>1, <2>2 DEF WorkerStep
<1>11. CASE RenewAfterHandler(d)
  BY <1>1, <1>11 DEF RenewAfterHandler, DirectorStep
<1>12. CASE Submit(d)
  <2>1. job[d] \in Task /\ rep[d] \in Report
    BY <1>12 DEF Submit, ProcInv
  <2>2. rep[d] # "invalid" => StatusOf(rep[d]) \subseteq ReportStatus
    BY <2>1 DEF StatusOf, Report, ReportStatus
  <2>3. (\E s \in ReportStatus : SubmitReport(WorkerOf[d], job[d], s)) \/ UNCHANGED vars
    BY <1>12, <2>2 DEF Submit
  <2>4. QED
    BY <1>1, <2>1, <2>3 DEF WorkerStep
<1>13. CASE FailReport(d)
  <2>1. job[d] \in Task
    BY <1>13 DEF FailReport, ProcInv
  <2>2. QED
    BY <1>13, <2>1, FailJobStep DEF FailReport
<1>14. CASE AcceptJob(d) \/ RejectJob(d)
  <2>1. job[d] \in Task
    BY <1>14 DEF AcceptJob, RejectJob, ProcInv
  <2>2. Accept(d, job[d]) \/ Reject(d, job[d]) \/ UNCHANGED vars
    BY <1>2, <1>14 DEF AcceptJob, RejectJob, Verified
  <2>3. QED
    BY <1>1, <2>1, <2>2 DEF DirectorStep
<1>15. CASE RecordDecision(d)
  BY <1>2, <1>15 DEF RecordDecision
<1>16. CASE HandleException(d)
  <2>1. job[d] \in Task
    BY <1>16 DEF HandleException, ProcInv
  <2>2. QED
    BY <1>16, <2>1, FailJobStep DEF HandleException
<1>17. QED
  BY <1>3, <1>4, <1>5, <1>6, <1>7, <1>8, <1>9, <1>10, <1>11, <1>12, <1>13, <1>14, <1>15, <1>16
     DEF Proceed

(* So is every other step of the composition.                              *)
LEMMA DirectorStepImplementsStore ==
  ProcInv /\ [DirectorNext]_dvars => [Next]_vars
<1> SUFFICES ASSUME ProcInv, [DirectorNext]_dvars PROVE Next \/ UNCHANGED vars
  OBVIOUS
<1>1. ASSUME NEW d \in Director, StartRun(d) \/ StartEnqueue(d) \/ StartCancel(d) PROVE Next
  BY <1>1 DEF StartRun, StartEnqueue, StartCancel, Start, Next, DirectorStep
<1>2. ASSUME NEW d \in Director, Crash(d) PROVE UNCHANGED vars
  BY <1>2 DEF Crash
<1>3. ASSUME DeadLeaseEnds \/ LiveLeaseEnds PROVE Next
  BY <1>3 DEF DeadLeaseEnds, LiveLeaseEnds, Next, TimePasses
<1>4. ASSUME NEW t \in Task, WorkLeaseEnds(t) \/ RetryComesDue(t) PROVE Next
  BY <1>4 DEF WorkLeaseEnds, RetryComesDue, Next, TimePasses
<1>5. ASSUME UNCHANGED dvars PROVE UNCHANGED vars
  BY <1>5 DEF dvars
<1>6. QED
  BY <1>1, <1>2, <1>3, <1>4, <1>5, ProceedStep DEF DirectorNext

(* Any number of processes, started, crashed and overtaken at any point,   *)
(* only ever move the store the way its own operations do.                 *)
THEOREM DirectorImplementsStore == DirectorSpec => Spec
<1>1. DirectorInit => Init
  BY DEF DirectorInit
<1>2. QED
  BY <1>1, InitProcInv, NextProcInv, DirectorStepImplementsStore, PTL DEF DirectorSpec, Spec

(* What that buys: the guarantees of the store hold of the command line.   *)
THEOREM DirectorInherits ==
  DirectorSpec => /\ []TokenOfHolderOnly
                  /\ []LeaseMatchesState
                  /\ []AttemptBudget
                  /\ []OneDeadLetterPerFailure
                  /\ TerminalIsFinal
<1>1. QED
  BY DirectorImplementsStore, Fencing, LeasesMatchStates, RetriesBounded, DeadLetteredOnce,
     Finality, PTL
-----------------------------------------------------------------------------
(* Counters and locals.  A cycle is counted when it ends, so inside one    *)
(* the counter is below --max-cycles.                                      *)
OutsideCycle == {"off", "cycle", "exit", "enqueue", "cancel", "delegated"}

CycleInv ==
  /\ faults \in 0..MaxFaults
  /\ cycles \in [Director -> 0..MaxCycles]
  /\ \A d \in Director : pc[d] \notin OutsideCycle => cycles[d] < MaxCycles

LEMMA InitCycleInv == DirectorInit => CycleInv
BY BoundAssumption DEF DirectorInit, CycleInv, OutsideCycle

(* What the step of a process does to its counter.                         *)
LEMMA ProceedCycles ==
  ASSUME ProcInv, NEW d \in Director, Proceed(d)
  PROVE  /\ UNCHANGED faults
         /\ \/ /\ UNCHANGED cycles
               /\ \E l \in PC : pc' = [pc EXCEPT ![d] = l] /\ l \in OutsideCycle
            \/ /\ UNCHANGED cycles
               /\ \E l \in PC : pc' = [pc EXCEPT ![d] = l] /\ pc[d] \notin OutsideCycle
            \/ /\ UNCHANGED cycles /\ pc[d] = "cycle" /\ cycles[d] < MaxCycles
               /\ pc' = [pc EXCEPT ![d] = "claim"]
            \/ Leave(d, "exit", cycles[d])
            \/ Die(d) \/ Leave(d, "off", 0)
            \/ NextCycle(d) /\ pc[d] \notin OutsideCycle
<1> USE DEF OutsideCycle, PC
<1>1. CASE Enqueue(d) \/ CancelTask(d) \/ Exit(d) \/ BeginCycle(d)
  BY <1>1 DEF Enqueue, CancelTask, Exit, BeginCycle, Goto, Die, Leave
<1>2. CASE ClaimTask(d) \/ CheckCancel(d) \/ AckCancel(d) \/ HandlerEnds(d)
  BY <1>2 DEF ClaimTask, CheckCancel, AckCancel, HandlerEnds, Goto, NextCycle, Leave
<1>3. CASE RenewAfterHandler(d) \/ Submit(d) \/ AfterSubmit(d)
  BY <1>3 DEF RenewAfterHandler, Submit, AfterSubmit, Goto, NextCycle, Leave
<1>4. CASE NoHandler(d) \/ FailReport(d) \/ HandleException(d)
  <2>1. job[d] \in Task /\ pc[d] \notin OutsideCycle
    BY <1>4 DEF NoHandler, FailReport, HandleException, ProcInv, WithoutJob
  <2>2. \/ Leave(d, "exit", cycles[d]) \/ Die(d) \/ Leave(d, "off", 0)
        \/ NextCycle(d) \/ Goto(d, "except")
    BY <1>4, <2>1, FailJobStep DEF NoHandler, FailReport, HandleException
  <2>3. QED
    BY <2>1, <2>2 DEF Goto, Die, NextCycle, Leave
<1>5. CASE ReadVerdict(d) \/ AcceptJob(d) \/ RejectJob(d)
  <2>1. pc[d] \notin OutsideCycle /\ UNCHANGED faults
    BY <1>5 DEF ReadVerdict, AcceptJob, RejectJob, Verified, Goto, Die, Leave
  <2>2. Die(d) \/ \E l \in PC : Goto(d, l)
    BY <1>5 DEF ReadVerdict, AcceptJob, RejectJob, Verified
  <2>3. QED
    BY <2>1, <2>2 DEF Goto
<1>6. CASE RecordDecision(d)
  BY <1>6 DEF RecordDecision, Goto, Die, NextCycle, Leave
<1>7. QED
  BY <1>1, <1>2, <1>3, <1>4, <1>5, <1>6 DEF Proceed

(* No step takes a counter past its limit.                                 *)
LEMMA NextCycleInv == ProcInv /\ CycleInv /\ [DirectorNext]_dvars => CycleInv'
<1> SUFFICES ASSUME ProcInv, CycleInv, [DirectorNext]_dvars PROVE CycleInv'
  OBVIOUS
<1> USE BoundAssumption DEF OutsideCycle
<1>1. ASSUME NEW d \in Director, StartRun(d) \/ StartEnqueue(d) \/ StartCancel(d) PROVE CycleInv'
  BY <1>1 DEF StartRun, StartEnqueue, StartCancel, Start, CycleInv, ProcInv
<1>2. ASSUME NEW d \in Director, Crash(d) PROVE CycleInv'
  BY <1>2 DEF Crash, CycleInv, ProcInv
<1>3. ASSUME NEW d \in Director, Proceed(d) PROVE CycleInv'
  <2>1. CASE UNCHANGED <<cycles, faults>> /\ \E l \in PC :
               /\ pc' = [pc EXCEPT ![d] = l]
               /\ l \in OutsideCycle \/ pc[d] \notin OutsideCycle
                  \/ (l = "claim" /\ cycles[d] < MaxCycles)
    BY <2>1 DEF CycleInv, ProcInv
  <2>2. CASE Leave(d, "exit", cycles[d]) \/ Leave(d, "off", 0) \/ Die(d)
    BY <2>2 DEF Leave, Die, CycleInv, ProcInv
  <2>3. CASE NextCycle(d) /\ pc[d] \notin OutsideCycle
    BY <2>3 DEF NextCycle, Leave, CycleInv, ProcInv
  <2>4. "claim" \in PC
    BY DEF PC
  <2>5. QED
    BY <1>3, <2>1, <2>2, <2>3, <2>4, ProceedCycles
<1>4. ASSUME UNCHANGED procVars, UNCHANGED faults \/ (faults < MaxFaults /\ faults' = faults + 1)
      PROVE  CycleInv'
  BY <1>4 DEF procVars, CycleInv
<1>5. QED
  BY <1>1, <1>2, <1>3, <1>4
     DEF DirectorNext, DeadLeaseEnds, LiveLeaseEnds, WorkLeaseEnds, RetryComesDue, dvars, procVars

(* Locals and counters of any number of processes keep their types; that   *)
(* the bound on tokens is out of reach depends on it, and stays with TLC.  *)
THEOREM ProcTypes == DirectorSpec => [](fencing < MaxFencing => ProcTypeOK)
<1>1. ProcInv /\ CycleInv => (fencing < MaxFencing => ProcTypeOK)
  BY DEF ProcInv, CycleInv, ProcTypeOK
<1>2. QED
  BY <1>1, InitProcInv, NextProcInv, InitCycleInv, NextCycleInv, PTL DEF DirectorSpec
-----------------------------------------------------------------------------
(* Evidence.  A process that is about to accept has read a passing report, *)
(* and reports are never taken off the record.                             *)
ReadReportInv == \A d \in Director : pc[d] = "accept" => HasPassingReport(job[d])

(* The step of a process leaves the locals of the others alone.            *)
LEMMA OthersStay ==
  ASSUME ProcInv, NEW d \in Director, NEW e \in Director, Proceed(e), e # d
  PROVE  pc'[d] = pc[d] /\ job'[d] = job[d]
<1>1. CASE ClaimTask(e) \/ HandlerEnds(e)
  BY <1>1 DEF ClaimTask, HandlerEnds, Goto, ProcInv
<1>2. CASE (\E l : Goto(e, l)) \/ Die(e) \/ NextCycle(e) \/ \E l, n : Leave(e, l, n)
  BY <1>2 DEF Goto, Die, NextCycle, Leave, ProcInv
<1>3. job[e] \in Task /\ (NoHandler(e) \/ FailReport(e) \/ HandleException(e))
        => (\E l : Goto(e, l)) \/ Die(e) \/ NextCycle(e) \/ \E l, n : Leave(e, l, n)
  BY FailJobStep DEF NoHandler, FailReport, HandleException
<1>4. NoHandler(e) \/ FailReport(e) \/ HandleException(e) => job[e] \in Task
  BY DEF NoHandler, FailReport, HandleException, ProcInv, WithoutJob
<1>5. QED
  BY <1>1, <1>2, <1>3, <1>4
     DEF Proceed, Enqueue, CancelTask, Exit, BeginCycle, CheckCancel, AckCancel,
         RenewAfterHandler, Submit, AfterSubmit, ReadVerdict, AcceptJob, RejectJob, Verified,
         RecordDecision

(* A process comes to accept only from verify, where it reads the report.  *)
LEMMA ComesToAccept ==
  ASSUME ProcInv, [DirectorNext]_dvars, NEW d \in Director, pc'[d] = "accept"
  PROVE  \/ pc[d] = "accept" /\ job'[d] = job[d]
         \/ /\ ReadVerdict(d)
            /\ pc[d] = "verify" /\ job'[d] = job[d]
            /\ LastVerdict(job[d]) = "completed"
<1>1. ASSUME NEW e \in Director, StartRun(e) \/ StartEnqueue(e) \/ StartCancel(e) \/ Crash(e)
      PROVE  pc[d] = "accept" /\ job'[d] = job[d]
  BY <1>1 DEF StartRun, StartEnqueue, StartCancel, Start, Crash, ProcInv
<1>2. ASSUME NEW e \in Director, Proceed(e), e # d PROVE pc'[d] = pc[d] /\ job'[d] = job[d]
  BY <1>2, OthersStay
<1>3. ASSUME Proceed(d) PROVE ReadVerdict(d) /\ job'[d] = job[d] /\ LastVerdict(job[d]) = "completed"
  <2>1. CASE ReadVerdict(d)
    BY <2>1 DEF ReadVerdict, Goto, ProcInv
  <2>2. CASE Enqueue(d) \/ CancelTask(d) \/ Exit(d) \/ BeginCycle(d) \/ ClaimTask(d)
    BY <2>2 DEF Enqueue, CancelTask, Exit, BeginCycle, ClaimTask, Goto, Die, Leave, ProcInv
  <2>3. CASE CheckCancel(d) \/ AckCancel(d) \/ HandlerEnds(d) \/ RenewAfterHandler(d)
             \/ Submit(d) \/ AfterSubmit(d)
    BY <2>3 DEF CheckCancel, AckCancel, HandlerEnds, RenewAfterHandler, Submit, AfterSubmit,
                Goto, NextCycle, Leave, ProcInv
  <2>4. CASE NoHandler(d) \/ FailReport(d) \/ HandleException(d)
    <3>1. job[d] \in Task
      BY <2>4 DEF NoHandler, FailReport, HandleException, ProcInv, WithoutJob
    <3>2. \/ Leave(d, "exit", cycles[d]) \/ Die(d) \/ Leave(d, "off", 0)
          \/ NextCycle(d) \/ Goto(d, "except")
      BY <2>4, <3>1, FailJobStep DEF NoHandler, FailReport, HandleException
    <3>3. QED
      BY <3>2 DEF Goto, Die, NextCycle, Leave, ProcInv
  <2>5. CASE AcceptJob(d) \/ RejectJob(d)
    <3>1. Die(d) \/ Goto(d, "verified") \/ Goto(d, "except")
      BY <2>5 DEF AcceptJob, RejectJob, Verified
    <3>2. QED
      BY <3>1 DEF Goto, Die, Leave, ProcInv
  <2>6. CASE RecordDecision(d)
    BY <2>6 DEF RecordDecision, Goto, Die, NextCycle, Leave, ProcInv
  <2>7. QED
    BY <1>3, <2>1, <2>2, <2>3, <2>4, <2>5, <2>6 DEF Proceed
<1>4. ReadVerdict(d) => pc[d] = "verify"
  BY DEF ReadVerdict
<1>5. QED
  BY <1>1, <1>2, <1>3, <1>4
     DEF DirectorNext, DeadLeaseEnds, LiveLeaseEnds, WorkLeaseEnds, RetryComesDue, dvars, procVars

(* It leaves for verified only by accepting.                               *)
LEMMA LeavesAccept ==
  ASSUME ProcInv, [DirectorNext]_dvars, NEW d \in Director, pc[d] = "accept", pc'[d] = "verified"
  PROVE  AcceptJob(d) /\ Accept(d, job[d])
<1>1. ASSUME NEW e \in Director, StartRun(e) \/ StartEnqueue(e) \/ StartCancel(e) \/ Crash(e)
      PROVE  pc'[d] # "verified"
  BY <1>1 DEF StartRun, StartEnqueue, StartCancel, Start, Crash, ProcInv
<1>2. ASSUME NEW e \in Director, Proceed(e) PROVE e = d
  BY <1>2, OthersStay
<1>3. ASSUME Proceed(d) PROVE AcceptJob(d)
  BY <1>3 DEF Proceed, Enqueue, CancelTask, Exit, BeginCycle, ClaimTask, NoHandler, CheckCancel,
              AckCancel, HandlerEnds, RenewAfterHandler, Submit, AfterSubmit, FailReport,
              ReadVerdict, RejectJob, RecordDecision, HandleException
<1>4. AcceptJob(d) => Accept(d, job[d])
  BY DEF AcceptJob, Verified, Goto, Die, Leave, ProcInv
<1>5. QED
  BY <1>1, <1>2, <1>3, <1>4
     DEF DirectorNext, DeadLeaseEnds, LiveLeaseEnds, WorkLeaseEnds, RetryComesDue, dvars, procVars

(* Numbers: a set of them has a least one, a bounded one a greatest.       *)
LEMMA LeastOf ==
  ASSUME NEW S \in SUBSET Nat, S # {}
  PROVE  \E m \in S : \A j \in S : m <= j
<1> DEFINE Less == {ss \in Nat \X Nat : ss[1] < ss[2]}
<1>1. IsWellFoundedOn(Less, Nat)
  BY NatLessThanWellFounded DEF OpToRel
<1>2. PICK x \in S : \A y \in S : <<y, x>> \notin Less
  <2> HIDE DEF Less
  <2>1. QED
    BY <1>1, WFMin
<1>3. \A y \in S : ~(y < x)
  BY <1>2
<1>4. QED
  BY <1>3

(* The greatest of the numbers up to n is n less the least distance to n.  *)
LEMMA GreatestOf ==
  ASSUME NEW n \in Nat, NEW S \in SUBSET (1..n), S # {}
  PROVE  \E m \in S : \A j \in S : j <= m
<1> DEFINE T == {n - i : i \in S}
<1>1. T \in SUBSET Nat
  OBVIOUS
<1>2. \A j \in S : n - j \in T
  OBVIOUS
<1>3. T # {}
  BY <1>2
<1>4. PICK k \in T : \A j \in T : k <= j
  <2> HIDE DEF T
  <2>1. QED
    BY <1>1, <1>3, LeastOf
<1>5. PICK m \in S : k = n - m
  OBVIOUS
<1>6. \A j \in S : n - m <= n - j
  BY <1>2, <1>4, <1>5
<1>7. QED
  BY <1>6

(* What verify reads as completed is on record.                            *)
LEMMA VerdictOnRecord ==
  ASSUME TypeOK, NEW t \in Task, LastVerdict(t) = "completed"
  PROVE  HasPassingReport(t)
<1> DEFINE ended == {i \in 1..Attempt(t) : attempts[t][i] # "open"}
<1>1. attempts[t] \in Seq(RowStatus)
  BY DEF TypeOK
<1>2. ended # {}
  BY DEF LastVerdict
<1>3. ended \subseteq 1..Attempt(t) /\ Attempt(t) \in Nat
  BY <1>1 DEF Attempt
<1>4. PICK m \in ended : \A j \in ended : j <= m
  BY <1>2, <1>3, GreatestOf
<1>5. (CHOOSE i \in ended : \A j \in ended : j <= i) \in ended
  BY <1>4
<1> DEFINE last == CHOOSE i \in ended : \A j \in ended : j <= i
<1>6. attempts[t][last] = "completed"
  BY <1>2 DEF LastVerdict
<1>7. last \in DOMAIN attempts[t]
  BY <1>1, <1>3, <1>5 DEF Attempt
<1> HIDE DEF last
<1>8. QED
  BY <1>6, <1>7 DEF HasPassingReport

(* Any step of any process keeps it so.                                    *)
LEMMA NextReadReport == TypeOK /\ ProcInv /\ ReadReportInv /\ [DirectorNext]_dvars => ReadReportInv'
<1> SUFFICES ASSUME TypeOK, ProcInv, ReadReportInv, [DirectorNext]_dvars,
                    NEW d \in Director, pc'[d] = "accept"
             PROVE  HasPassingReport(job[d])'
  BY DEF ReadReportInv
<1>1. job[d] \in Task /\ job'[d] = job[d]
  BY ComesToAccept DEF ProcInv, WithoutJob
<1>2. HasPassingReport(job[d])
  BY <1>1, ComesToAccept, VerdictOnRecord DEF ReadReportInv
<1>3. PICK t \in Task : t = job[d]
  BY <1>1
<1>4. [Next]_vars
  BY DirectorStepImplementsStore
<1>5. HasPassingReport(t)'
  BY <1>2, <1>3, <1>4, PassingReportStays
<1>6. QED
  BY <1>1, <1>3, <1>5 DEF HasPassingReport

(* A task is accepted on a passing report of an attempt of it, and its     *)
(* cost is booked in that step and never again.                            *)
THEOREM AcceptsOnEvidence == DirectorSpec => AcceptedOnEvidence
<1>1. DirectorInit => ReadReportInv
  BY DEF DirectorInit, ReadReportInv
<1>2. TypeOK /\ UnbookedInv /\ ProcInv /\ ReadReportInv /\ [DirectorNext]_dvars
        => [\A d \in Director :
              LET t == job[d] IN
              pc[d] = "accept" /\ pc'[d] = "verified"
                => HasPassingReport(t) /\ costs[t] = 0 /\ costs'[t] = 1]_dvars
  <2> SUFFICES ASSUME TypeOK, UnbookedInv, ProcInv, ReadReportInv, [DirectorNext]_dvars,
                      NEW d \in Director, pc[d] = "accept", pc'[d] = "verified"
               PROVE  HasPassingReport(job[d]) /\ costs[job[d]] = 0 /\ costs'[job[d]] = 1
    OBVIOUS
  <2>1. job[d] \in Task /\ HasPassingReport(job[d])
    BY DEF ProcInv, WithoutJob, ReadReportInv
  <2>2. AcceptJob(d) /\ Accept(d, job[d])
    BY LeavesAccept
  <2>3. costs[job[d]] = 0
    BY <2>1, <2>2 DEF Accept, UnbookedInv
  <2>4. QED
    BY <2>1, <2>2, <2>3 DEF Accept, TypeOK
<1>3. DirectorSpec => []TypeOK /\ []UnbookedInv
  BY DirectorImplementsStore, TypeCorrect, CostsOfCompleted, PTL
<1>4. QED
  BY <1>1, <1>2, <1>3, NextReadReport, InitProcInv, NextProcInv, PTL
     DEF DirectorSpec, AcceptedOnEvidence
-----------------------------------------------------------------------------
(* Which report.  With a --worker name of its own for each process, which  *)
(* the default does not give them, nobody submits for a task that another  *)
(* leased, and the attempt that is accepted is the newest.                 *)
AcceptedOnNewest ==
  [][\A d \in Director \ orphaned :
       LET t == job[d] IN
       pc[d] = "accept" /\ pc'[d] = "verified" => attempts[t][Attempt(t)] = "completed"]_dvars

Fresh(d) == d \notin orphaned /\ Authorised(d)
Reporting == {"reported", "verify", "accept"}

NewestInv ==
  /\ \A d, e \in Director :
       Fresh(d) /\ pc[d] \in Reporting /\ e # d /\ pc[e] = "submit" /\ job[e] = job[d]
         => owner[job[d]] # WorkerOf[e]
  /\ \A d \in Director :
       Fresh(d) /\ pc[d] = "accept" /\ state[job[d]] = "verifying"
         => attempts[job[d]][Attempt(job[d])] = "completed"
  /\ \A d \in Director : pc[d] = "ack" => cancelReq[job[d]]

(* What the other operations of the store may do to a task.                *)
Quiet(t) ==
  /\ owner'[t] \in {owner[t], NoOne}
  /\ cancelReq[t] => cancelReq'[t]
  /\ state'[t] = "verifying" => state[t] = "verifying" /\ attempts'[t] = attempts[t]

(* A failed, rejected, accepted or cancelled task gets no new report.      *)
LEMMA QuietOperations ==
  ASSUME TypeOK, NEW d \in Director, NEW u \in Task, NEW t \in Task,
         CreateTask(d, u) \/ Cancel(d, u) \/ Fail(d, u) \/ Reject(d, u) \/ Accept(d, u)
  PROVE  Quiet(t)
<1>1. CASE CreateTask(d, u) \/ Cancel(d, u)
  BY <1>1 DEF CreateTask, Cancel, TypeOK, Quiet
<1>2. CASE Fail(d, u) \/ Reject(d, u)
  BY <1>2 DEF Fail, Reject, FailTx, Unlease, HeldBack, TypeOK, Quiet
<1>3. CASE Accept(d, u)
  BY <1>3 DEF Accept, Unlease, Unblocked, TypeOK, Quiet
<1>4. QED
  BY <1>1, <1>2, <1>3

(* Neither does a task that a claim passes by or sweeps.                   *)
LEMMA QuietClaim ==
  ASSUME TypeOK, NEW picked \in SUBSET Task, NEW w, ClaimTx(picked, w), NEW t \in Task \ picked
  PROVE  Quiet(t)
<1>1. SweptState(t) = "verifying" => state[t] = "verifying"
  BY DEF SweptState
<1>2. QED
  BY <1>1 DEF ClaimTx, Quiet

(* Only a claim of its own gives a process the lease of a task, and only a *)
(* process at submit or ack brings one to verifying.                       *)
LEMMA ProceedOnTask ==
  ASSUME TypeOK, ProcInv, NEW d \in Director, NEW t \in Task, Proceed(d)
  PROVE  \/ Quiet(t)
         \/ /\ owner'[t] = WorkerOf[d] /\ state'[t] = "running" /\ pc'[d] = "start"
            /\ UNCHANGED cancelReq
         \/ /\ pc[d] \in {"submit", "ack"} /\ job[d] = t
            /\ \E s \in ReportStatus : SubmitReport(WorkerOf[d], t, s)
<1>1. UNCHANGED vars => Quiet(t)
  BY DEF vars, Quiet
<1>2. Acquire(d) \/ Release(d) => Quiet(t)
  BY DEF Acquire, Release, taskVars, Quiet
<1>3. Die(d) => UNCHANGED vars
  BY DEF Die
<1>4. pc[d] \notin WithoutJob => job[d] \in Task
  BY DEF ProcInv
<1>5. CASE Enqueue(d)
  BY <1>1, <1>3, <1>4, <1>5, QuietOperations DEF Enqueue, WithoutJob
<1>6. CASE CancelTask(d)
  BY <1>1, <1>3, <1>4, <1>6, QuietOperations DEF CancelTask, WithoutJob
<1>7. CASE Exit(d) \/ BeginCycle(d) \/ RenewAfterHandler(d)
  BY <1>1, <1>2, <1>3, <1>7 DEF Exit, BeginCycle, RenewAfterHandler
<1>8. CASE ClaimTask(d)
  <2>1. CASE ClaimNothing
    BY <2>1, QuietClaim DEF ClaimNothing
  <2>2. CASE \E u \in Task : ClaimTx({u}, WorkerOf[d]) /\ pc' = [pc EXCEPT ![d] = "start"]
    <3>1. PICK u \in Task : ClaimTx({u}, WorkerOf[d]) /\ pc' = [pc EXCEPT ![d] = "start"]
      BY <2>2
    <3>2. CASE t = u
      BY <3>1, <3>2 DEF ClaimTx, ProcInv
    <3>3. CASE t # u
      BY <3>1, <3>3, QuietClaim
    <3>4. QED
      BY <3>2, <3>3
  <2>3. QED
    BY <1>8, <2>1, <2>2 DEF ClaimTask
<1>9. CASE NoHandler(d) \/ FailReport(d) \/ HandleException(d)
  <2>1. job[d] \in Task
    BY <1>4, <1>9 DEF NoHandler, FailReport, HandleException, WithoutJob
  <2>2. Fail(d, job[d]) \/ UNCHANGED vars
    BY <1>3, <1>9 DEF NoHandler, FailReport, HandleException, FailJob
  <2>3. QED
    BY <1>1, <2>1, <2>2, QuietOperations
<1>10. CASE CheckCancel(d) \/ HandlerEnds(d) \/ AfterSubmit(d) \/ ReadVerdict(d)
  BY <1>1, <1>10 DEF CheckCancel, HandlerEnds, AfterSubmit, ReadVerdict
<1>11. CASE Submit(d) \/ AckCancel(d)
  <2>1. /\ pc[d] \in {"submit", "ack"}
        /\ UNCHANGED vars \/ \E s \in ReportStatus : SubmitReport(WorkerOf[d], job[d], s)
    <3>1. CASE AckCancel(d)
      BY <3>1 DEF AckCancel, ReportStatus
    <3>2. CASE Submit(d)
      <4>1. rep[d] \in Report
        BY <3>2 DEF Submit, ProcInv
      <4>2. rep[d] # "invalid" => StatusOf(rep[d]) \subseteq ReportStatus
        BY <4>1 DEF StatusOf, Report, ReportStatus
      <4>3. QED
        BY <3>2, <4>2 DEF Submit
    <3>3. QED
      BY <1>11, <3>1, <3>2
  <2>2. CASE \E s \in ReportStatus : SubmitReport(WorkerOf[d], job[d], s) /\ job[d] # t
    BY <1>4, <2>1, <2>2 DEF SubmitReport, TypeOK, Quiet, WithoutJob
  <2>3. QED
    BY <1>1, <2>1, <2>2
<1>12. CASE AcceptJob(d) \/ RejectJob(d)
  <2>1. job[d] \in Task
    BY <1>4, <1>12 DEF AcceptJob, RejectJob, WithoutJob
  <2>2. Accept(d, job[d]) \/ Reject(d, job[d]) \/ UNCHANGED vars
    BY <1>3, <1>12 DEF AcceptJob, RejectJob, Verified
  <2>3. QED
    BY <1>1, <2>1, <2>2, QuietOperations
<1>13. CASE RecordDecision(d)
  BY <1>1, <1>3, <1>13 DEF RecordDecision
<1>14. QED
  BY <1>5, <1>6, <1>7, <1>8, <1>9, <1>10, <1>11, <1>12, <1>13 DEF Proceed

(* The lease row changes only by a process that then neither reports nor   *)
(* waits to accept, and by time.                                           *)
LEMMA LeaseStep ==
  ASSUME ProcInv, [DirectorNext]_dvars
  PROVE  \/ UNCHANGED dirVars
         \/ \E d \in Director : Acquire(d) /\ pc'[d] \notin Reporting
         \/ \E d \in Director : Release(d) /\ pc'[d] \notin Reporting
         \/ DirectorLeaseEnds
<1> USE DEF Reporting
<1>1. ASSUME NEW d \in Director, Proceed(d)
      PROVE  \/ UNCHANGED dirVars
             \/ Acquire(d) /\ pc'[d] \notin Reporting
             \/ Release(d) /\ pc'[d] \notin Reporting
  <2>1. UNCHANGED vars => UNCHANGED dirVars
    BY DEF vars, dirVars
  <2>2. Die(d) => UNCHANGED dirVars
    BY <2>1 DEF Die
  <2>3. CASE Enqueue(d) \/ CancelTask(d) \/ ClaimTask(d)
    BY <2>1, <2>2, <2>3
       DEF Enqueue, CreateTask, CancelTask, Cancel, ClaimTask, ClaimTx, ClaimNothing
  <2>4. CASE Exit(d) \/ BeginCycle(d) \/ RenewAfterHandler(d)
    BY <2>1, <2>2, <2>4 DEF Exit, BeginCycle, RenewAfterHandler, Goto, Leave, ProcInv
  <2>5. CASE CheckCancel(d) \/ HandlerEnds(d) \/ AfterSubmit(d) \/ ReadVerdict(d)
             \/ RecordDecision(d)
    BY <2>1, <2>2, <2>5 DEF CheckCancel, HandlerEnds, AfterSubmit, ReadVerdict, RecordDecision
  <2>6. CASE Submit(d) \/ AckCancel(d)
    BY <2>1, <2>6 DEF Submit, AckCancel, SubmitReport
  <2>7. CASE NoHandler(d) \/ FailReport(d) \/ HandleException(d)
    BY <2>1, <2>2, <2>7 DEF NoHandler, FailReport, HandleException, FailJob, Fail, FailTx
  <2>8. CASE AcceptJob(d) \/ RejectJob(d)
    BY <2>1, <2>2, <2>8 DEF AcceptJob, RejectJob, Verified, Accept, Reject, FailTx
  <2>9. QED
    BY <1>1, <2>3, <2>4, <2>5, <2>6, <2>7, <2>8 DEF Proceed
<1>2. ASSUME NEW d \in Director, StartRun(d) \/ StartEnqueue(d) \/ StartCancel(d)
      PROVE  Acquire(d) /\ pc'[d] \notin Reporting
  BY <1>2 DEF StartRun, StartEnqueue, StartCancel, Start, ProcInv
<1>3. ASSUME NEW d \in Director, Crash(d) PROVE UNCHANGED dirVars
  BY <1>3 DEF Crash, vars, dirVars
<1>4. ASSUME DeadLeaseEnds \/ LiveLeaseEnds PROVE DirectorLeaseEnds
  BY <1>4 DEF DeadLeaseEnds, LiveLeaseEnds
<1>5. ASSUME NEW t \in Task, WorkLeaseEnds(t) \/ RetryComesDue(t) PROVE UNCHANGED dirVars
  BY <1>5 DEF WorkLeaseEnds, RetryComesDue, WorkerLeaseEnds, BackoffEnds
<1>6. ASSUME UNCHANGED dvars PROVE UNCHANGED dirVars
  BY <1>6 DEF dvars, vars, dirVars
<1>7. QED
  BY <1>1, <1>2, <1>3, <1>4, <1>5, <1>6 DEF DirectorNext

(* So a process that waits to accept does not come by its authority again. *)
LEMMA FreshBefore ==
  ASSUME ProcInv, TokenOfHolderOnly', [DirectorNext]_dvars,
         NEW d \in Director, pc'[d] \in Reporting, Fresh(d)'
  PROVE  /\ Fresh(d)
         /\ \A e \in Director \ {d} : ~Acquire(e)
<1>1. d \notin orphaned' /\ token'[d] # 0 /\ holder' # NoOne /\ fencing' = token'[d] /\ dirLive'
  BY DEF Fresh, Authorised
<1>2. holder' = d
  BY DEF Fresh, TokenOfHolderOnly
<1>3. \A e \in Director \ {d} : ~Acquire(e)
  BY <1>2 DEF Acquire
<1>4. CASE UNCHANGED dirVars
  <2>1. /\ holder' = holder /\ fencing' = fencing /\ token' = token /\ orphaned' = orphaned
        /\ dirLive' = dirLive
    BY <1>4 DEF dirVars
  <2>2. QED
    BY <1>1, <1>3, <2>1 DEF Fresh, Authorised
<1>5. CASE \E e \in Director : Acquire(e) /\ pc'[e] \notin Reporting
  BY <1>3, <1>5
<1>6. CASE \E e \in Director : Release(e) /\ pc'[e] \notin Reporting
  <2>1. PICK e \in Director : Release(e) /\ e # d
    BY <1>6
  <2>2. holder # e
    BY <1>1, <2>1 DEF Release
  <2>3. /\ UNCHANGED <<holder, fencing, dirLive>> /\ orphaned' = orphaned \ {e}
        /\ token' = [token EXCEPT ![e] = 0]
    BY <2>1, <2>2 DEF Release
  <2>4. token'[d] = token[d]
    BY <2>1, <2>3
  <2>5. QED
    BY <1>1, <1>3, <2>1, <2>3, <2>4 DEF Fresh, Authorised
<1>7. CASE DirectorLeaseEnds
  BY <1>1, <1>7 DEF DirectorLeaseEnds
<1>8. QED
  BY <1>3, <1>4, <1>5, <1>6, <1>7, LeaseStep

(* Into submit only by renewing the lease, into reported only by a report. *)
LEMMA LocalSteps ==
  ASSUME ProcInv, [DirectorNext]_dvars, NEW d \in Director
  PROVE  /\ pc'[d] = "submit" => \/ pc[d] = "submit" /\ job'[d] = job[d]
                                 \/ Acquire(d)
         /\ pc'[d] = "ack" => \/ pc[d] = "ack" /\ job'[d] = job[d]
                              \/ CheckCancel(d) /\ cancelReq[job[d]] /\ job'[d] = job[d]
         /\ pc'[d] \in Reporting =>
              /\ job'[d] = job[d]
              /\ \/ pc'[d] = pc[d]
                 \/ /\ pc'[d] = "reported"
                    /\ \E s \in ReportStatus : SubmitReport(WorkerOf[d], job[d], s)
                 \/ pc'[d] = "verify" /\ AfterSubmit(d)
                 \/ pc'[d] = "accept" /\ ReadVerdict(d) /\ LastVerdict(job[d]) = "completed"
<1> USE DEF Reporting
<1>1. ASSUME NEW e \in Director, StartRun(e) \/ StartEnqueue(e) \/ StartCancel(e) \/ Crash(e)
      PROVE  pc'[d] \in Reporting \cup {"submit", "ack"} => pc'[d] = pc[d] /\ job'[d] = job[d]
  BY <1>1 DEF StartRun, StartEnqueue, StartCancel, Start, Crash, ProcInv
<1>2. ASSUME NEW e \in Director, Proceed(e), e # d PROVE pc'[d] = pc[d] /\ job'[d] = job[d]
  BY <1>2, OthersStay
<1>3. CASE Submit(d)
  <2>1. rep[d] \in Report
    BY <1>3 DEF Submit, ProcInv
  <2>2. rep[d] # "invalid" => StatusOf(rep[d]) \subseteq ReportStatus
    BY <2>1 DEF StatusOf, Report, ReportStatus
  <2>3. \/ Goto(d, "failing") \/ Goto(d, "except")
        \/ Goto(d, "reported") /\ \E s \in ReportStatus : SubmitReport(WorkerOf[d], job[d], s)
    BY <1>3, <2>2 DEF Submit
  <2>4. QED
    BY <2>3 DEF Goto, ProcInv
<1>4. CASE RenewAfterHandler(d) \/ CheckCancel(d) \/ AfterSubmit(d) \/ ReadVerdict(d)
  BY <1>4 DEF RenewAfterHandler, CheckCancel, AfterSubmit, ReadVerdict, Goto, NextCycle, Leave,
              ProcInv
<1>5. CASE NoHandler(d) \/ FailReport(d) \/ HandleException(d)
  <2>1. job[d] \in Task
    BY <1>5 DEF NoHandler, FailReport, HandleException, ProcInv, WithoutJob
  <2>2. \/ Leave(d, "exit", cycles[d]) \/ Die(d) \/ Leave(d, "off", 0)
        \/ NextCycle(d) \/ Goto(d, "except")
    BY <1>5, <2>1, FailJobStep DEF NoHandler, FailReport, HandleException
  <2>3. QED
    BY <2>2 DEF Goto, Die, NextCycle, Leave, ProcInv
<1>6. CASE Enqueue(d) \/ CancelTask(d) \/ Exit(d) \/ BeginCycle(d) \/ ClaimTask(d)
           \/ AckCancel(d) \/ HandlerEnds(d) \/ RecordDecision(d)
  BY <1>6 DEF Enqueue, CancelTask, Exit, BeginCycle, ClaimTask, AckCancel, HandlerEnds,
              RecordDecision, Goto, Die, NextCycle, Leave, ProcInv
<1>7. CASE AcceptJob(d) \/ RejectJob(d)
  <2>1. Die(d) \/ Goto(d, "verified") \/ Goto(d, "except")
    BY <1>7 DEF AcceptJob, RejectJob, Verified
  <2>2. QED
    BY <2>1 DEF Goto, Die, Leave, ProcInv
<1>8. ASSUME UNCHANGED procVars PROVE pc'[d] = pc[d] /\ job'[d] = job[d]
  BY <1>8 DEF procVars
<1>9. QED
  BY <1>1, <1>2, <1>3, <1>4, <1>5, <1>6, <1>7, <1>8
     DEF DirectorNext, Proceed, DeadLeaseEnds, LiveLeaseEnds, WorkLeaseEnds, RetryComesDue, dvars,
         procVars

(* What any step of the composition does to a task.                        *)
LEMMA StepOnTask ==
  ASSUME TypeOK, ProcInv, [DirectorNext]_dvars, NEW t \in Task
  PROVE  \/ Quiet(t)
         \/ \E e \in Director : /\ owner'[t] = WorkerOf[e] /\ state'[t] = "running"
                                /\ pc'[e] = "start" /\ UNCHANGED cancelReq
         \/ \E e \in Director : /\ pc[e] \in {"submit", "ack"} /\ job[e] = t
                                /\ \E s \in ReportStatus : SubmitReport(WorkerOf[e], t, s)
<1>1. ASSUME NEW d \in Director, StartRun(d) \/ StartEnqueue(d) \/ StartCancel(d) PROVE Quiet(t)
  BY <1>1 DEF StartRun, StartEnqueue, StartCancel, Start, Acquire, taskVars, Quiet
<1>2. ASSUME NEW d \in Director, Crash(d) PROVE Quiet(t)
  BY <1>2 DEF Crash, vars, Quiet
<1>3. ASSUME DeadLeaseEnds \/ LiveLeaseEnds PROVE Quiet(t)
  BY <1>3 DEF DeadLeaseEnds, LiveLeaseEnds, DirectorLeaseEnds, taskVars, Quiet
<1>4. ASSUME NEW u \in Task, WorkLeaseEnds(u) \/ RetryComesDue(u) PROVE Quiet(t)
  BY <1>4 DEF WorkLeaseEnds, RetryComesDue, WorkerLeaseEnds, BackoffEnds, Quiet
<1>5. ASSUME UNCHANGED dvars PROVE Quiet(t)
  BY <1>5 DEF dvars, vars, Quiet
<1>6. QED
  BY <1>1, <1>2, <1>3, <1>4, <1>5, ProceedOnTask DEF DirectorNext

(* While a task awaits verification, the row verify reads is the newest.   *)
LEMMA VerdictIsNewest ==
  ASSUME TypeOK, NewestRowMatchesState, NEW t \in Task,
         state[t] = "verifying", LastVerdict(t) = "completed"
  PROVE  attempts[t][Attempt(t)] = "completed"
<1> DEFINE ended == {i \in 1..Attempt(t) : attempts[t][i] # "open"}
<1> DEFINE last == CHOOSE i \in ended : \A j \in ended : j <= i
<1>1. attempts[t] \in Seq(RowStatus)
  BY DEF TypeOK
<1>2. Attempt(t) \in Nat /\ Attempt(t) \in ended
  BY <1>1 DEF NewestRowMatchesState, Attempt
<1>3. \A j \in ended : j <= Attempt(t)
  BY <1>2
<1>4. last \in ended /\ \A j \in ended : j <= last
  BY <1>2, <1>3
<1>5. last = Attempt(t)
  <2> HIDE DEF last
  <2>1. QED
    BY <1>2, <1>3, <1>4
<1>6. attempts[t][last] = "completed"
  BY <1>2 DEF LastVerdict
<1>7. QED
  BY <1>5, <1>6

(* With names of their own, nobody reports on a task that another is about *)
(* to accept with a token that still holds.                                *)
LEMMA NextNewestInv ==
  ASSUME \A d, e \in Director : WorkerOf[d] = WorkerOf[e] => d = e,
         TypeOK, NewestRowMatchesState, TokenOfHolderOnly', ProcInv, NewestInv,
         [DirectorNext]_dvars
  PROVE  NewestInv'
<1> USE DEF Reporting
<1> WorkerOf \in [Director -> Worker] /\ NoOne \notin Worker
  BY WorkerAssumption, NoOneAssumption
<1>1. ASSUME NEW d \in Director, NEW e \in Director, Fresh(d)', pc'[d] \in Reporting, e # d,
             pc'[e] = "submit", job'[e] = job'[d]
      PROVE  owner'[job'[d]] # WorkerOf[e]
  <2>1. Fresh(d) /\ ~Acquire(e)
    BY <1>1, FreshBefore
  <2>2. pc[e] = "submit" /\ job'[e] = job[e] /\ job'[d] = job[d]
    BY <1>1, <2>1, LocalSteps
  <2>3. PICK t \in Task : t = job[e]
    BY <2>2 DEF ProcInv, WithoutJob
  <2>4. CASE \E s \in ReportStatus : SubmitReport(WorkerOf[d], job[d], s)
    <3>1. WorkerOf[d] # WorkerOf[e] /\ WorkerOf[e] # NoOne
      BY <1>1
    <3>2. job[d] = t
      BY <1>1, <2>2, <2>3
    <3>3. owner[t] = WorkerOf[d] /\ owner'[t] \in {owner[t], NoOne}
      BY <2>4, <3>2 DEF SubmitReport, TypeOK
    <3>4. QED
      BY <2>2, <3>1, <3>2, <3>3
  <2>5. ASSUME pc[d] \in Reporting PROVE owner[t] # WorkerOf[e]
    BY <1>1, <2>1, <2>2, <2>3, <2>5 DEF NewestInv
  <2>6. CASE AfterSubmit(d) \/ ReadVerdict(d)
    BY <1>1, <2>2, <2>3, <2>5, <2>6 DEF AfterSubmit, ReadVerdict, vars
  <2>7. CASE pc'[d] = pc[d]
    <3>1. owner[t] # WorkerOf[e]
      BY <1>1, <2>5, <2>7
    <3>2. CASE Quiet(t)
      BY <1>1, <2>2, <2>3, <3>1, <3>2 DEF Quiet
    <3>3. CASE \E x \in Director : owner'[t] = WorkerOf[x] /\ pc'[x] = "start"
      BY <1>1, <2>2, <2>3, <3>3
    <3>4. CASE \E x \in Director : \E s \in ReportStatus : SubmitReport(WorkerOf[x], t, s)
      BY <1>1, <2>2, <2>3, <3>1, <3>4 DEF SubmitReport, TypeOK
    <3>5. QED
      BY <3>2, <3>3, <3>4, StepOnTask
  <2>8. QED
    BY <1>1, <2>4, <2>6, <2>7, LocalSteps
<1>2. ASSUME NEW d \in Director, Fresh(d)', pc'[d] = "accept", state'[job'[d]] = "verifying"
      PROVE  attempts'[job'[d]][Len(attempts'[job'[d]])] = "completed"
  <2>1. Fresh(d) /\ job'[d] = job[d]
    BY <1>2, FreshBefore, LocalSteps
  <2>2. PICK t \in Task : t = job[d] /\ t = job'[d]
    BY <1>2, <2>1, ComesToAccept DEF ProcInv, WithoutJob
  <2>3. CASE ReadVerdict(d) /\ LastVerdict(job[d]) = "completed"
    <3>1. state'[t] = state[t] /\ attempts'[t] = attempts[t]
      BY <2>3 DEF ReadVerdict, vars
    <3>2. QED
      BY <1>2, <2>2, <2>3, <3>1, VerdictIsNewest DEF Attempt
  <2>4. CASE pc[d] = "accept"
    <3>1. CASE Quiet(t)
      BY <1>2, <2>1, <2>2, <2>4, <3>1 DEF Quiet, NewestInv, Attempt
    <3>2. CASE \E x \in Director : state'[t] = "running"
      BY <1>2, <2>2, <3>2
    <3>3. ASSUME NEW x \in Director, NEW s \in ReportStatus, pc[x] \in {"submit", "ack"},
                 job[x] = t, SubmitReport(WorkerOf[x], t, s)
          PROVE  FALSE
      <4>1. x # d
        BY <2>4, <3>3
      <4>2. CASE pc[x] = "submit"
        BY <2>1, <2>2, <2>4, <3>3, <4>1, <4>2 DEF NewestInv, SubmitReport
      <4>3. CASE pc[x] = "ack"
        <5>1. cancelReq[t]
          BY <3>3, <4>3 DEF NewestInv
        <5>2. QED
          BY <1>2, <2>2, <3>3, <5>1 DEF SubmitReport, TypeOK
      <4>4. QED
        BY <3>3, <4>2, <4>3
    <3>4. QED
      BY <3>1, <3>2, <3>3, StepOnTask
  <2>5. QED
    BY <1>2, <2>3, <2>4, ComesToAccept
<1>3. ASSUME NEW d \in Director, pc'[d] = "ack" PROVE cancelReq'[job'[d]]
  <2>1. job'[d] = job[d] /\ cancelReq[job[d]]
    BY <1>3, LocalSteps DEF NewestInv
  <2>2. pc[d] = "ack" \/ CheckCancel(d)
    BY <1>3, LocalSteps
  <2>3. PICK t \in Task : t = job[d]
    BY <2>2 DEF ProcInv, WithoutJob, CheckCancel
  <2>4. cancelReq[t] => cancelReq'[t]
    BY StepOnTask DEF Quiet, SubmitReport
  <2>5. QED
    BY <2>1, <2>3, <2>4
<1>4. QED
  BY <1>1, <1>2, <1>3 DEF NewestInv, Attempt

(* So an accepted task is completed on its newest attempt, which a common  *)
(* --worker name does not guarantee.                                       *)
THEOREM AcceptsNewest ==
  ASSUME \A d, e \in Director : WorkerOf[d] = WorkerOf[e] => d = e
  PROVE  DirectorSpec => AcceptedOnNewest
<1>1. DirectorInit => NewestInv
  BY DEF DirectorInit, NewestInv, Reporting
<1>2. TypeOK /\ NewestRowMatchesState /\ TokenOfHolderOnly' /\ ProcInv /\ NewestInv
        /\ [DirectorNext]_dvars => NewestInv'
  BY NextNewestInv
<1>3. ProcInv /\ NewestInv /\ [DirectorNext]_dvars
        => [\A d \in Director \ orphaned :
              LET t == job[d] IN
              pc[d] = "accept" /\ pc'[d] = "verified"
                => attempts[t][Attempt(t)] = "completed"]_dvars
  <2> SUFFICES ASSUME ProcInv, NewestInv, [DirectorNext]_dvars,
                      NEW d \in Director \ orphaned, pc[d] = "accept", pc'[d] = "verified"
               PROVE  attempts[job[d]][Attempt(job[d])] = "completed"
    OBVIOUS
  <2>1. Accept(d, job[d])
    BY LeavesAccept
  <2>2. QED
    BY <2>1 DEF Accept, NewestInv, Fresh
<1>4. DirectorSpec => []TypeOK /\ []NewestRowMatchesState /\ []TokenOfHolderOnly
  BY DirectorImplementsStore, TypeCorrect, NewestRowIsCurrent, Fencing, PTL
<1>5. QED
  BY <1>1, <1>2, <1>3, <1>4, InitProcInv, NextProcInv, PTL DEF DirectorSpec, AcceptedOnNewest
=============================================================================
