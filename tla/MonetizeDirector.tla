-------------------------- MODULE MonetizeDirector --------------------------
(***************************************************************************)
(* Processes of the MonetizeOS command line (scripts/monetizeos.py) that   *)
(* share one store: each acquires the Director lease, runs one command     *)
(* (run, enqueue or cancel) and releases the lease.  The run command loops *)
(* over Director.run_once (runtime/monetizeos/director.py), which is not   *)
(* atomic: every transaction and every read of it is a step here, and      *)
(* other processes, crashes and ended leases come in between.              *)
(*                                                                         *)
(* A holder identity is fresh per process; an identity d is used again     *)
(* only when no trace of its former process is left in the directors row.  *)
(***************************************************************************)
EXTENDS MonetizeStore

CONSTANTS
  WorkerOf,     \* the --worker name each process runs under
  MaxCycles,    \* --max-cycles
  MaxFaults     \* bound on crashes and on Director leases that end at work

ASSUME WorkerAssumption == WorkerOf \in [Director -> Worker]
ASSUME BoundAssumption == MaxCycles \in Nat \ {0} /\ MaxFaults \in Nat

VARIABLES
  pc,       \* where each process is
  job,      \* the task it claimed; NoOne: none
  rep,      \* the report of its handler
  cycles,   \* cmd_run's counter
  faults    \* faults so far, see MaxFaults

procVars == <<pc, job, rep, cycles>>
dvars == <<vars, procVars, faults>>

PC == {"off", "cycle", "enqueue", "cancel", "claim", "start", "ack", "handler", "renew",
       "submit", "reported", "failing", "verify", "accept", "reject", "delegated", "verified",
       "except", "exit"}

(* What a handler's report can be: it completed, it did not, validate      *)
(* refuses it, or it changed files outside the contract's scope.           *)
Report == {"completed", "blocked", "invalid", "outOfScope"}

DirectorInit ==
  /\ Init
  /\ pc = [d \in Director |-> "off"]
  /\ job = [d \in Director |-> NoOne]
  /\ rep = [d \in Director |-> NoOne]
  /\ cycles = [d \in Director |-> 0]
  /\ faults = 0

Goto(d, l) == pc' = [pc EXCEPT ![d] = l] /\ UNCHANGED <<job, rep, cycles, faults>>

(* A process forgets its locals when it ends and when run_once returns.    *)
Leave(d, l, n) ==
  /\ pc' = [pc EXCEPT ![d] = l]
  /\ job' = [job EXCEPT ![d] = NoOne]
  /\ rep' = [rep EXCEPT ![d] = NoOne]
  /\ cycles' = [cycles EXCEPT ![d] = n]
  /\ UNCHANGED faults

(* An exception that nothing catches: the lease is not released.           *)
Die(d) == Leave(d, "off", 0) /\ UNCHANGED vars
NextCycle(d) == Leave(d, "cycle", cycles[d] + 1)
-----------------------------------------------------------------------------
(* The command line.                                                       *)

(* _director; when the lease is held by another, the process ends at once. *)
(* Contracts are enqueued and tasks cancelled once, which bounds commands. *)
Start(d, command, t) ==
  /\ pc[d] = "off" /\ holder # d
  /\ Acquire(d)
  /\ pc' = [pc EXCEPT ![d] = command]
  /\ job' = [job EXCEPT ![d] = t]
  /\ UNCHANGED <<rep, cycles, faults>>

StartRun(d) == Start(d, "cycle", NoOne)
StartEnqueue(d) == \E t \in Task : ~Exists(t) /\ Start(d, "enqueue", t)
StartCancel(d) ==
  \E t \in Task : Exists(t) /\ ~cancelReq[t] /\ state[t] \notin TerminalStates
                    /\ Start(d, "cancel", t)

(* delegate; a contract that was enqueued meanwhile is returned as it is.  *)
Enqueue(d) ==
  /\ pc[d] = "enqueue"
  /\ \/ CreateTask(d, job[d]) /\ Goto(d, "delegated")
     \/ Authorised(d) /\ Exists(job[d]) /\ Goto(d, "delegated") /\ UNCHANGED vars
     \/ ~Authorised(d) /\ Die(d)

(* cmd_cancel; a task that has ended meanwhile raises.                     *)
CancelTask(d) ==
  /\ pc[d] = "cancel"
  /\ \/ Cancel(d, job[d]) /\ Goto(d, "exit")
     \/ (~Authorised(d) \/ state[job[d]] \in TerminalStates) /\ Die(d)

(* release, then the process ends. *)
Exit(d) ==
  /\ pc[d] = "exit"
  /\ Release(d)
  /\ Leave(d, "off", 0)
-----------------------------------------------------------------------------
(* run_once.                                                               *)

(* Mutant: one cycle too many. *)
BeginExtraCycle(d) ==
  /\ pc[d] = "cycle"
  /\ \/ cycles[d] > MaxCycles /\ Goto(d, "exit") /\ UNCHANGED vars
     \/ cycles[d] <= MaxCycles /\ Acquire(d) /\ Goto(d, "claim")
     \/ cycles[d] <= MaxCycles /\ HeldByAnother(d) /\ Die(d)

BeginCycle(d) ==
  /\ pc[d] = "cycle"
  /\ \/ cycles[d] = MaxCycles /\ Goto(d, "exit") /\ UNCHANGED vars
     \/ cycles[d] < MaxCycles /\ Acquire(d) /\ Goto(d, "claim")
     \/ cycles[d] < MaxCycles /\ HeldByAnother(d) /\ Die(d)

(* Mutant: the SELECT does not filter on cancel_requested. *)
ClaimEvenCancelled(d) ==
  /\ pc[d] = "claim"
  /\ \/ \E t \in Task :
          /\ SweptState(t) = "ready" /\ ClaimTx({t}, WorkerOf[d])
          /\ pc' = [pc EXCEPT ![d] = "start"]
          /\ job' = [job EXCEPT ![d] = t]
          /\ UNCHANGED <<rep, cycles, faults>>
     \/ ClaimNothing /\ Goto(d, "exit")

ClaimTask(d) ==
  /\ pc[d] = "claim"
  /\ \/ \E t \in Task :
          /\ First(t) /\ ClaimTx({t}, WorkerOf[d])
          /\ pc' = [pc EXCEPT ![d] = "start"]
          /\ job' = [job EXCEPT ![d] = t]
          /\ UNCHANGED <<rep, cycles, faults>>
     \/ ClaimNothing /\ Goto(d, "exit")

(* store.fail by d on its job, and the label the process goes to: `done`   *)
(* when it returns (also for a task that already ended), `raised` when a   *)
(* transition is refused; a stale token raises through every handler.      *)
FailJob(d, done, raised) ==
  LET t == job[d] IN
  \/ Fail(d, t) /\ done
  \/ state[t] \in TerminalStates /\ UNCHANGED vars /\ done
  \/ state[t] \notin TerminalStates /\ ~Authorised(d) /\ Die(d)
  \/ /\ state[t] \notin TerminalStates /\ Authorised(d)
     /\ ~Leased(state[t])
     /\ UNCHANGED vars /\ raised

(* No handler registered for the role: fail, and the loop of cmd_run ends. *)
NoHandler(d) ==
  /\ pc[d] = "start"
  /\ FailJob(d, Leave(d, "exit", cycles[d]), Leave(d, "off", 0))

CheckCancel(d) ==
  /\ pc[d] = "start"
  /\ Goto(d, IF cancelReq[job[d]] THEN "ack" ELSE "handler")
  /\ UNCHANGED vars

(* submit_report raises LeaseConflict or IllegalTransition. *)
SubmitRefused(d) ==
  \/ owner[job[d]] # WorkerOf[d]
  \/ ~cancelReq[job[d]] /\ state[job[d]] # "running"

AckCancel(d) ==
  /\ pc[d] = "ack"
  /\ \/ SubmitReport(WorkerOf[d], job[d], "blocked") /\ NextCycle(d)
     \/ SubmitRefused(d) /\ Goto(d, "except") /\ UNCHANGED vars

(* run_with_deadline returns a report, or raises when the handler crashed, *)
(* died silently or was killed at its deadline.                            *)
HandlerEnds(d) ==
  /\ pc[d] = "handler"
  /\ UNCHANGED vars
  /\ \/ \E r \in Report :
          /\ rep' = [rep EXCEPT ![d] = r]
          /\ pc' = [pc EXCEPT ![d] = "renew"]
          /\ UNCHANGED <<job, cycles, faults>>
     \/ Goto(d, "except")

RenewAfterHandler(d) ==
  /\ pc[d] = "renew"
  /\ \/ Acquire(d) /\ Goto(d, "submit")
     \/ HeldByAnother(d) /\ Goto(d, "except") /\ UNCHANGED vars

(* A report out of scope is submitted under whatever status it carries.    *)
StatusOf(r) == IF r = "outOfScope" THEN ReportStatus ELSE {r}

Submit(d) ==
  /\ pc[d] = "submit"
  /\ \/ /\ rep[d] # "invalid"
        /\ \E s \in StatusOf(rep[d]) : SubmitReport(WorkerOf[d], job[d], s)
        /\ Goto(d, IF rep[d] = "outOfScope" THEN "failing" ELSE "reported")
     \/ /\ (rep[d] = "invalid" \/ SubmitRefused(d))
        /\ Goto(d, "except") /\ UNCHANGED vars

AfterSubmit(d) ==
  /\ pc[d] = "reported"
  /\ UNCHANGED vars
  /\ IF state[job[d]] = "cancelled" THEN NextCycle(d)
     ELSE Goto(d, IF rep[d] = "completed" THEN "verify" ELSE "failing")

FailReport(d) ==
  /\ pc[d] = "failing"
  /\ FailJob(d, NextCycle(d), Goto(d, "except"))

(* verify reads the newest row that has ended.  A row closed without a     *)
(* report makes json.loads raise, which run_once treats as a crash.        *)
LastVerdict(t) ==
  LET ended == {i \in 1..Attempt(t) : attempts[t][i] # "open"}
  IN IF ended = {} THEN "none"
     ELSE attempts[t][CHOOSE i \in ended : \A j \in ended : j <= i]

ReadVerdict(d) ==
  /\ pc[d] = "verify"
  /\ UNCHANGED vars
  /\ Goto(d, CASE LastVerdict(job[d]) = "completed" -> "accept"
               [] LastVerdict(job[d]) \in {"failed", "cancelled"} -> "except"
               [] OTHER -> "reject")

(* accept or reject; a task that has already ended is not rejected again.  *)
Verified(d, done) ==
  \/ done /\ Goto(d, "verified")
  \/ ~Authorised(d) /\ Die(d)
  \/ Authorised(d) /\ state[job[d]] # "verifying" /\ Goto(d, "except") /\ UNCHANGED vars

AcceptJob(d) == pc[d] = "accept" /\ Verified(d, Accept(d, job[d]))

RejectJob(d) ==
  /\ pc[d] = "reject"
  /\ \/ Verified(d, Reject(d, job[d]))
     \/ state[job[d]] \in TerminalStates /\ Goto(d, "verified") /\ UNCHANGED vars

(* record_decision, a transaction of its own after delegate's and verify's *)
(* mutation, under the same token: it may be refused after the mutation    *)
(* was not.                                                                *)
RecordDecision(d) ==
  \/ pc[d] = "delegated" /\ Authorised(d) /\ Goto(d, "exit") /\ UNCHANGED vars
  \/ pc[d] = "verified" /\ Authorised(d) /\ NextCycle(d) /\ UNCHANGED vars
  \/ pc[d] \in {"delegated", "verified"} /\ ~Authorised(d) /\ Die(d)

(* run_once's `except Exception`: the task is failed whoever runs it now.  *)
HandleException(d) ==
  /\ pc[d] = "except"
  /\ FailJob(d, NextCycle(d), Leave(d, "off", 0))
-----------------------------------------------------------------------------
(* Faults. *)

Crash(d) ==
  /\ pc[d] # "off" /\ faults < MaxFaults
  /\ pc' = [pc EXCEPT ![d] = "off"]
  /\ job' = [job EXCEPT ![d] = NoOne]
  /\ rep' = [rep EXCEPT ![d] = NoOne]
  /\ cycles' = [cycles EXCEPT ![d] = 0]
  /\ faults' = faults + 1
  /\ UNCHANGED vars

(* The lease of a process that is gone ends; one that ends at work is a    *)
(* fault.                                                                  *)
DeadLeaseEnds ==
  DirectorLeaseEnds /\ pc[holder] = "off" /\ UNCHANGED <<procVars, faults>>

LiveLeaseEnds ==
  /\ DirectorLeaseEnds /\ pc[holder] # "off"
  /\ faults < MaxFaults /\ faults' = faults + 1
  /\ UNCHANGED procVars

WorkLeaseEnds(t) == WorkerLeaseEnds(t) /\ UNCHANGED <<procVars, faults>>
RetryComesDue(t) == BackoffEnds(t) /\ UNCHANGED <<procVars, faults>>
-----------------------------------------------------------------------------
(* A process that was started goes on by itself. *)
Proceed(d) ==
  \/ Enqueue(d) \/ CancelTask(d) \/ Exit(d) \/ BeginCycle(d) \/ ClaimTask(d)
  \/ NoHandler(d) \/ CheckCancel(d) \/ AckCancel(d) \/ HandlerEnds(d)
  \/ RenewAfterHandler(d) \/ Submit(d) \/ AfterSubmit(d) \/ FailReport(d)
  \/ ReadVerdict(d) \/ AcceptJob(d) \/ RejectJob(d) \/ RecordDecision(d)
  \/ HandleException(d)

DirectorNext ==
  \/ \E d \in Director :
       StartRun(d) \/ StartEnqueue(d) \/ StartCancel(d) \/ Proceed(d) \/ Crash(d)
  \/ DeadLeaseEnds \/ LiveLeaseEnds
  \/ \E t \in Task : WorkLeaseEnds(t) \/ RetryComesDue(t)

DirectorSpec == DirectorInit /\ [][DirectorNext]_dvars

(* The run command is scheduled again and again (cron, as the header of    *)
(* monetizeos.py asks), a process runs on, and deadlines pass.             *)
DirectorFairness ==
  /\ \A d \in Director : WF_dvars(Proceed(d)) /\ WF_dvars(StartRun(d))
  /\ WF_dvars(DeadLeaseEnds)
  /\ \A t \in Task : WF_dvars(WorkLeaseEnds(t)) /\ WF_dvars(RetryComesDue(t))

FairDirectorSpec == DirectorSpec /\ DirectorFairness
-----------------------------------------------------------------------------
(* Properties.                                                             *)

(* Locals and counters have their types, and the bound on tokens is never  *)
(* what keeps a process from going on.                                     *)
ProcTypeOK ==
  /\ pc \in [Director -> PC]
  /\ job \in [Director -> Task \cup {NoOne}]
  /\ rep \in [Director -> Report \cup {NoOne}]
  /\ cycles \in [Director -> 0..MaxCycles]
  /\ faults \in 0..MaxFaults
  /\ fencing < MaxFencing

(* Evidence: a process that accepts a task, though it reads the report in  *)
(* one transaction and accepts in another and anything may have happened   *)
(* to the task or to its token in between, accepts one that an attempt     *)
(* ended with a passing report, and books its cost in that step, once.     *)
AcceptedOnEvidence ==
  [][\A d \in Director :
       LET t == job[d] IN
       pc[d] = "accept" /\ pc'[d] = "verified"
         => HasPassingReport(t) /\ costs[t] = 0 /\ costs'[t] = 1]_dvars

(* Whatever interleaving, crash or ended lease: a task that was enqueued   *)
(* and not cancelled ends, unless a dependency of it did not complete.     *)
EveryTaskEnds ==
  \A t \in Task :
    Exists(t) ~> \/ state[t] \in TerminalStates
                 \/ cancelReq[t]
                 \/ state[t] \in {"pending", "blocked"} /\ ~AllDepsCompleted(t)
=============================================================================
