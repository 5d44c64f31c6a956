----------------------------- MODULE FyeControl -----------------------------
(***************************************************************************)
(* The processes around one FYE job: the operator's commands               *)
(* (scripts/fye_dispatch.py), workers that render it (fye_worker.py) and   *)
(* publishers (fye_publish.py with runtime/fye/dispatch.py, publish.py).   *)
(*                                                                         *)
(* A local worker works on the control plane's own job file, a runner      *)
(* (the Actions workflow) on a fresh one, and what it did reaches the      *)
(* control plane only through the event ledger of Command OS, which may    *)
(* lose or drop what it is sent.  Every locked store method, every read    *)
(* and every call to the outside is a step, and a process can die between  *)
(* any two.                                                                *)
(*                                                                         *)
(* Command OS and the publishing channel are not in the repository: their  *)
(* answers are choices here.                                               *)
(***************************************************************************)
EXTENDS FyeJobs, Integers, Sequences, TLC

CONSTANTS
  Control,       \* the control plane's root
  Runner,        \* the workers started by the workflow; each is its own root
  Publisher,     \* processes of fye_publish.py publish
  MaxAttempts,   \* cfg.max_attempts
  ReportsPost,   \* TRUE: a channel that takes a post returns its id or raises
  MaxStarts,     \* bound on process starts
  MaxEvents,     \* bound on the ledger, later events are lost
  MaxRequeues,   \* bound on the operator's re-queues of a failed job
  MaxFaults      \* bound on processes that die and deadlines that pass

ASSUME RootAssumption == Runner \subseteq Worker /\ Root = Runner \cup {Control}
ASSUME ControlAssumption == Control \notin Worker
ASSUME ProcessAssumption == Worker \cap Publisher = {}
ASSUME ChannelAssumption == ReportsPost \in BOOLEAN
ASSUME FyeBounds == {MaxAttempts, MaxStarts, MaxEvents, MaxRequeues, MaxFaults} \subseteq Nat

VARIABLES
  ledger,    \* fye.job_event records of the job, oldest first
  posts,     \* posts the channel has made for the job; the id of the n-th is n
  oper,      \* fye_dispatch.py approve: between approve and enqueue or not
  pc,        \* where each worker and publisher is
  first,     \* of a publisher: the status of `job` in fye_publish.main
  todo,      \* the calls left of the event reconcile_job works on
  left,      \* the events reconcile_job has not come to
  result,    \* the post id it was told
  starts, requeues, faults,  \* what the bounds count
  lapsed     \* auxiliary: roots where a lease has ended

procVars == <<pc, first, todo, left, result>>
envVars == <<starts, requeues, faults, lapsed>>
vars == <<job, ledger, posts, oper, procVars, envVars>>

Process == Worker \cup Publisher
RootOf(w) == IF w \in Runner THEN w ELSE Control

WorkerPC == {"off", "open", "branch", "approve", "enqueue", "claim", "start", "announce", "render",
             "record", "ready", "report", "except", "fail"}
PublisherPC == {"off", "sync", "walk", "reread", "decide", "open", "expire", "begin",
                "call", "refused", "record"}

(* _STATE_ORDER *)
Order == <<"DRAFT", "APPROVED", "QUEUED", "CLAIMED", "RENDERING", "QA",
           "READY", "PUBLISH_APPROVED", "PUBLISHING", "PUBLISHED">>
Finished == {"READY", "PUBLISH_APPROVED", "PUBLISHING", "PUBLISHED"}
Ended == {"FAILED", "REJECTED", "EXPIRED", "CANCELLED"}     \* dispatch._TERMINAL

Event == [state: State, artifact: Worker \cup {None}]

Init ==
  /\ JobInit
  /\ ledger = <<>> /\ posts = 0 /\ oper = "idle"
  /\ pc = [p \in Process |-> "off"]
  /\ first = [p \in Publisher |-> "none"]
  /\ todo = [p \in Publisher |-> <<>>]
  /\ left = [p \in Publisher |-> <<>>]
  /\ result = [p \in Publisher |-> 0]
  /\ starts = 0 /\ requeues = 0 /\ faults = 0 /\ lapsed = {}

(* emit: fail-soft, and an event under a key already used is dropped.      *)
Emit(e) ==
  \/ UNCHANGED ledger
  \/ Len(ledger) < MaxEvents /\ ledger' = Append(ledger, e)

(* A process dies or a deadline passes.                                    *)
Fault == faults < MaxFaults /\ faults' = faults + 1 /\ UNCHANGED <<starts, requeues>>

Announcement(r) == [state |-> job[r].status, artifact |-> job[r].artifact]
-----------------------------------------------------------------------------
(* The operator: create, approve, dispatch, and the store's explicit       *)
(* re-queue.                                                               *)

CreateJob == Create(Control) /\ UNCHANGED <<ledger, posts, oper, procVars, envVars>>

(* approve, once Command OS holds the approval. *)
OperatorApprove ==
  /\ oper = "idle"
  /\ \/ ApproveExpired(Control) /\ UNCHANGED oper
     \/ Approve(Control) /\ oper' = "enqueue"
  /\ UNCHANGED <<ledger, posts, procVars, envVars>>

OperatorEnqueue ==
  /\ oper = "enqueue"
  /\ oper' = "idle"
  /\ Enqueue(Control) \/ (~CanMove(Control, "QUEUED") /\ UNCHANGED job)
  /\ UNCHANGED <<ledger, posts, procVars, envVars>>

OperatorDies ==
  /\ oper = "enqueue" /\ oper' = "idle"
  /\ Fault /\ UNCHANGED <<job, ledger, posts, procVars, lapsed>>

(* dispatch_job: the event binds the job to its payload hash. *)
Dispatch ==
  /\ Status(Control) \in {"APPROVED", "QUEUED"}
  /\ Emit(Announcement(Control))
  /\ UNCHANGED <<job, posts, oper, procVars, envVars>>

Requeue ==
  /\ Status(Control) = "FAILED" /\ requeues < MaxRequeues
  /\ Enqueue(Control)
  /\ requeues' = requeues + 1
  /\ UNCHANGED <<ledger, posts, oper, procVars, starts, faults, lapsed>>

-----------------------------------------------------------------------------
(* Steps of a process. *)

Goto(p, l) == pc' = [pc EXCEPT ![p] = l] /\ UNCHANGED <<first, todo, left, result>>

Calm == UNCHANGED <<posts, oper, envVars>>

(* A locked transition of a worker, or the JobError it raises.             *)
Attempt(w, to, next) ==
  \/ Transition(RootOf(w), to) /\ Goto(w, next)
  \/ ~CanMove(RootOf(w), to) /\ UNCHANGED job /\ Goto(w, "except")
-----------------------------------------------------------------------------
(* fye_worker.main *)

(* A worker on the host works on the control plane's root.  A request for  *)
(* the workflow starts a runner on an empty root, one at a time per job    *)
(* (the workflow's concurrency group), which refuses to work for a job the *)
(* ledger has no event of.                                                 *)
HostStart(w) == w \notin Runner /\ Exists(Control) /\ UNCHANGED job
DispatchFyeGha(w) ==
  /\ w \in Runner /\ ledger # <<>>
  /\ \A v \in Runner : pc[v] = "off"
  /\ job' = [job EXCEPT ![w] = None]
WorkerStart(w) ==
  /\ pc[w] = "off" /\ starts < MaxStarts
  /\ HostStart(w) \/ DispatchFyeGha(w)
  /\ starts' = starts + 1
  /\ Goto(w, "open")
  /\ UNCHANGED <<ledger, posts, oper, requeues, faults, lapsed>>

(* verify_worker_inputs.  Any of its checks may refuse: Command OS is not  *)
(* reachable, the approval is not there, the job has ended or expired, its *)
(* attempts are used up.                                                   *)
LiveRecord(r) ==
  Exists(r) => /\ job[r].status \notin Ended \cup {"PUBLISHED"}
               /\ ~job[r].over
               /\ job[r].attempts < MaxAttempts

MarkExpired(r) ==
  /\ Exists(r) /\ job[r].over /\ job[r].status \notin Ended \cup {"PUBLISHED"}
  /\ Transition(r, "EXPIRED")

Verify(w) ==
  LET r == RootOf(w) IN
  /\ pc[w] = "open"
  /\ \/ LiveRecord(r) /\ UNCHANGED job /\ Goto(w, "branch")
     \/ UNCHANGED job /\ Goto(w, "except")
     \/ MarkExpired(r) /\ Goto(w, "except")
  /\ UNCHANGED ledger /\ Calm

(* POST /fye/run puts a request through the same gate on the control       *)
(* plane.  One that passes starts a worker (WorkerStart, at any time); one *)
(* that does not leaves a mark at most.                                    *)
RunRefused ==
  /\ MarkExpired(Control)
  /\ UNCHANGED <<ledger, posts, oper, procVars, envVars>>

(* A render that the ledger or the record knows to be finished is not done *)
(* again; a ledger that cannot be read knows nothing.                      *)
FinishedInLedger == \E i \in DOMAIN ledger : ledger[i].state \in Finished
Replayed == {"READY", "PUBLISH_APPROVED", "PUBLISHED"}

BranchOn(s) ==
  CASE s \in Replayed  -> "off"
    [] s = "DRAFT"     -> "approve"
    [] s = "APPROVED"  -> "enqueue"
    [] OTHER           -> "claim"

Branch(w) ==
  LET r == RootOf(w) IN
  /\ pc[w] = "branch"
  /\ \/ FinishedInLedger /\ UNCHANGED job /\ Goto(w, "off")
     \/ Exists(r) /\ UNCHANGED job /\ Goto(w, BranchOn(Status(r)))
     \/ Create(r) /\ Goto(w, "approve")
  /\ UNCHANGED ledger /\ Calm

WorkerApprove(w) ==
  LET r == RootOf(w) IN
  /\ pc[w] = "approve"
  /\ \/ Approve(r) /\ Goto(w, "enqueue")
     \/ ApproveExpired(r) /\ Goto(w, "except")
     \/ /\ ~CanMove(r, IF job[r].over THEN "EXPIRED" ELSE "APPROVED")
        /\ UNCHANGED job /\ Goto(w, "except")
  /\ UNCHANGED ledger /\ Calm

WorkerEnqueue(w) ==
  /\ pc[w] = "enqueue"
  /\ Attempt(w, "QUEUED", "claim")
  /\ UNCHANGED ledger /\ Calm

(* claim, which returns False or raises when the job is not claimable. *)
ClaimJob(w) ==
  LET r == RootOf(w) IN
  /\ pc[w] = "claim"
  /\ \/ Claim(r, w) /\ Goto(w, "start")
     \/ ClaimTorn(r, w) /\ Goto(w, "off")
     \/ ClaimExpired(r) /\ Goto(w, "except")
     \/ ~Claimable(r, w) /\ ~Expirable(r) /\ UNCHANGED job /\ Goto(w, "except")
  /\ UNCHANGED ledger /\ Calm

StartRendering(w) ==
  /\ pc[w] = "start"
  /\ Attempt(w, "RENDERING", "announce")
  /\ UNCHANGED ledger /\ Calm

(* _emit_state of the record as it is by now. *)
Announce(w) ==
  /\ \/ pc[w] = "announce" /\ Goto(w, "render")
     \/ pc[w] = "report" /\ Goto(w, "off")
  /\ Emit(Announcement(RootOf(w)))
  /\ UNCHANGED job /\ Calm

(* _render_killable: done, or failed or killed at its deadline. *)
Render(w) ==
  /\ pc[w] = "render"
  /\ \/ Attempt(w, "QA", "record")
     \/ UNCHANGED job /\ Goto(w, "except")
  /\ UNCHANGED ledger /\ Calm

(* record_artifact refuses a file that is missing, empty or too large. *)
RecordMaster(w) ==
  /\ pc[w] = "record"
  /\ \/ RecordArtifact(RootOf(w), w) /\ Goto(w, "ready")
     \/ UNCHANGED job /\ Goto(w, "except")
  /\ UNCHANGED ledger /\ Calm

BecomeReady(w) ==
  /\ pc[w] = "ready"
  /\ Attempt(w, "READY", "report")
  /\ UNCHANGED ledger /\ Calm

(* The JobError handler: it reads the status, then moves the job to FAILED.*)
Spared == {"FAILED", "EXPIRED", "REJECTED", "CANCELLED", "READY", "PUBLISHED"}

HandleError(w) ==
  LET r == RootOf(w) IN
  /\ pc[w] = "except"
  /\ Goto(w, IF Exists(r) /\ Status(r) \notin Spared THEN "fail" ELSE "off")
  /\ UNCHANGED <<job, ledger>> /\ Calm

FailJob(w) ==
  LET r == RootOf(w) IN
  /\ pc[w] = "fail"
  /\ \/ Transition(r, "FAILED") /\ Goto(w, "report")
     \/ ~CanMove(r, "FAILED") /\ UNCHANGED job /\ Goto(w, "off")
  /\ UNCHANGED ledger /\ Calm

(* A crash, a killed runner, or an exception that is no JobError. *)
WorkerDies(w) ==
  /\ pc[w] # "off"
  /\ Goto(w, "off")
  /\ Fault /\ UNCHANGED <<job, ledger, posts, oper, lapsed>>
-----------------------------------------------------------------------------
(* fye_publish.main, the publish command, and dispatch.reconcile_job *)

EndPublisher(p) ==
  /\ pc' = [pc EXCEPT ![p] = "off"]
  /\ first' = [first EXCEPT ![p] = "none"]
  /\ todo' = [todo EXCEPT ![p] = <<>>]
  /\ left' = [left EXCEPT ![p] = <<>>]
  /\ result' = [result EXCEPT ![p] = 0]

EndReconcile(p, l) ==
  /\ pc' = [pc EXCEPT ![p] = l]
  /\ first' = [first EXCEPT ![p] = "none"]
  /\ UNCHANGED <<todo, left, result>>

PublishStart(p) ==
  /\ pc[p] = "off" /\ starts < MaxStarts
  /\ Exists(Control)
  /\ starts' = starts + 1
  /\ pc' = [pc EXCEPT ![p] = "sync"]
  /\ first' = [first EXCEPT ![p] = Status(Control)]
  /\ UNCHANGED <<job, ledger, posts, oper, todo, left, result, requeues, faults, lapsed>>

Rank(s) == IF \E i \in DOMAIN Order : Order[i] = s
           THEN CHOOSE i \in DOMAIN Order : Order[i] = s ELSE 0

(* The store calls for one event, for a job that was read in status s: the *)
(* transition to a terminal state, or the artifact and every state after s *)
(* up to the reported one, short of PUBLISHING.  An s that is not in       *)
(* _STATE_ORDER raises instead ("error"), after the artifact.              *)
Path(s, to) ==
  IF Rank(s) = 0 THEN <<[op |-> "error"]>>
  ELSE LET upto == IF Rank(to) < Rank("PUBLISHING") THEN Rank(to) ELSE Rank("PUBLISHING") - 1
           from == IF Rank(s) > upto THEN upto ELSE Rank(s)
       IN [i \in 1 .. upto - from |-> [op |-> "move", to |-> Order[from + i]]]

(* Mutant: the artifact of an event is not taken over. *)
PathOnly(s, e) == IF e.state \in Ended THEN <<[op |-> "move", to |-> e.state]>>
                  ELSE Path(s, e.state)

Calls(s, e) ==
  IF e.state \in Ended THEN <<[op |-> "move", to |-> e.state]>>
  ELSE (IF e.artifact = None THEN <<>> ELSE <<[op |-> "artifact", of |-> e.artifact]>>)
       \o Path(s, e.state)

(* The loop over the events up to its next store call: an event that is    *)
(* where the job is already is passed over.                                *)
ToDo(s, events) == {i \in DOMAIN events : events[i].state # s}

Proceed(p, s, events) ==
  LET next == ToDo(s, events) IN
  IF next = {}
  THEN /\ pc' = [pc EXCEPT ![p] = "decide"]
       /\ first' = [first EXCEPT ![p] = s]
       /\ todo' = [todo EXCEPT ![p] = <<>>]
       /\ left' = [left EXCEPT ![p] = <<>>]
  ELSE LET i == CHOOSE k \in next : \A j \in next : k <= j
           calls == Calls(s, events[i]) IN
       /\ pc' = [pc EXCEPT ![p] = IF calls = <<>> THEN "reread" ELSE "walk"]
       /\ todo' = [todo EXCEPT ![p] = calls]
       /\ left' = [left EXCEPT ![p] = SubSeq(events, i + 1, Len(events))]
       /\ UNCHANGED first

(* reconcile_job reads the job and the events; no answer is no events. *)
Sync(p) ==
  /\ pc[p] = "sync"
  /\ \E known \in {ledger, <<>>} : Proceed(p, Status(Control), known)
  /\ UNCHANGED <<job, ledger, result>> /\ Calm

Raises(c) ==
  \/ c.op = "error"
  \/ c.op = "move" /\ ~CanMove(Control, c.to)
  \/ c.op = "artifact" /\ ~Mergeable(Control, c.of)

(* One call of reconcile_job.  When it raises, main goes on with the job   *)
(* it had read before.                                                     *)
Apply(p) ==
  /\ pc[p] = "walk" /\ todo[p] # <<>>
  /\ LET c == Head(todo[p]) IN
     \/ /\ ~Raises(c)
        /\ \/ c.op = "move" /\ Transition(Control, c.to)
           \/ c.op = "artifact" /\ RecordReported(Control, c.of)
        /\ todo' = [todo EXCEPT ![p] = Tail(@)]
        /\ pc' = [pc EXCEPT ![p] = IF Len(todo[p]) = 1 THEN "reread" ELSE "walk"]
        /\ UNCHANGED left
     \/ /\ Raises(c) /\ UNCHANGED job
        /\ todo' = [todo EXCEPT ![p] = <<>>]
        /\ left' = [left EXCEPT ![p] = <<>>]
        /\ pc' = [pc EXCEPT ![p] = "decide"]
  /\ UNCHANGED <<ledger, first, result>> /\ Calm

Reread(p) ==
  /\ pc[p] = "reread"
  /\ Proceed(p, Status(Control), left[p])
  /\ UNCHANGED <<job, ledger, result>> /\ Calm

(* verify_approval may refuse.  A job that was read as READY becomes       *)
(* PUBLISH_APPROVED if its transition is legal by now.                     *)
Decide(p) ==
  /\ pc[p] = "decide"
  /\ \/ UNCHANGED job /\ EndPublisher(p)
     \/ /\ first[p] # "READY" /\ UNCHANGED job
        /\ EndReconcile(p, "open")
     \/ /\ first[p] = "READY" /\ Transition(Control, "PUBLISH_APPROVED")
        /\ EndReconcile(p, "open")
     \/ /\ first[p] = "READY" /\ ~CanMove(Control, "PUBLISH_APPROVED")
        /\ UNCHANGED job /\ EndPublisher(p)
  /\ UNCHANGED ledger /\ Calm
-----------------------------------------------------------------------------
(* publish.publish_job, and the event of its result: a published job is    *)
(* never reconciled again, so the event's other contents do not matter.    *)
EmitPublished == Emit([state |-> "PUBLISHED", artifact |-> None])

(* The unlocked read at its start.  Without a publisher it refuses; lookup *)
(* finds a post that was made, or says it does not know.                   *)
OpenPublish(p) ==
  /\ pc[p] = "open"
  /\ \/ Status(Control) = "PUBLISHED" /\ EmitPublished /\ EndPublisher(p)
     \/ /\ Status(Control) # "PUBLISHED" /\ PublishExpired(Control)
        /\ UNCHANGED ledger /\ Goto(p, "expire")
     \/ /\ Status(Control) # "PUBLISHED" /\ ~PublishExpired(Control)
        /\ UNCHANGED ledger
        /\ \/ EndPublisher(p)
           \/ Status(Control) = "PUBLISH_APPROVED" /\ Goto(p, "begin")
           \/ /\ Status(Control) = "PUBLISHING"
              /\ \E n \in 1 .. posts : result' = [result EXCEPT ![p] = n]
              /\ pc' = [pc EXCEPT ![p] = "record"]
              /\ UNCHANGED <<first, todo, left>>
  /\ UNCHANGED job /\ Calm

ExpirePublish(p) ==
  /\ pc[p] = "expire"
  /\ Transition(Control, "EXPIRED") \/ (~CanMove(Control, "EXPIRED") /\ UNCHANGED job)
  /\ EndPublisher(p)
  /\ UNCHANGED ledger /\ Calm

Begin(p) ==
  /\ pc[p] = "begin"
  /\ \/ BeginPublish(Control) /\ Goto(p, "call")
     \/ ~CanMove(Control, "PUBLISHING") /\ UNCHANGED job /\ EndPublisher(p)
  /\ IF Status(Control) = "PUBLISHED" THEN EmitPublished ELSE UNCHANGED ledger
  /\ Calm

(* pub.publish: refused before the channel was asked, or failed with the   *)
(* job left as it is; posted with its id told, with the answer lost, or    *)
(* with an answer that has no id, which is taken for a refusal.            *)
CallChannel(p) ==
  /\ pc[p] = "call"
  /\ \/ posts' = posts /\ (Goto(p, "refused") \/ EndPublisher(p))
     \/ /\ posts' = posts + 1
        /\ \/ /\ pc' = [pc EXCEPT ![p] = "record"]
              /\ result' = [result EXCEPT ![p] = posts + 1]
              /\ UNCHANGED <<first, todo, left>>
           \/ EndPublisher(p)
           \/ ~ReportsPost /\ Goto(p, "refused")
  /\ UNCHANGED <<job, ledger, oper, envVars>>

Refused(p) ==
  /\ pc[p] = "refused"
  /\ EndPublishFailure(Control) \/ (~CanMove(Control, "PUBLISH_APPROVED") /\ UNCHANGED job)
  /\ EndPublisher(p)
  /\ UNCHANGED ledger /\ Calm

(* record_publish, then the event of a published job. *)
Record(p) ==
  /\ pc[p] = "record"
  /\ \/ RecordPublish(Control, result[p]) /\ EmitPublished
     \/ RecordPublishLate(Control, result[p]) /\ UNCHANGED ledger
     \/ RecordPublishTorn(Control, result[p]) /\ UNCHANGED ledger
     \/ Status(Control) = "PUBLISHED" /\ EmitPublished /\ UNCHANGED job
     \/ /\ Status(Control) \notin {"PUBLISHING", "PUBLISH_APPROVED", "PUBLISHED"}
        /\ UNCHANGED <<job, ledger>>
  /\ EndPublisher(p)
  /\ Calm

PublisherDies(p) ==
  /\ pc[p] # "off"
  /\ EndPublisher(p)
  /\ Fault /\ UNCHANGED <<job, ledger, posts, oper, lapsed>>
-----------------------------------------------------------------------------
(* Deadlines. *)

Expires(r) ==
  /\ JobExpires(r) \/ PublishExpires(r)
  /\ Fault /\ UNCHANGED <<ledger, posts, oper, procVars, lapsed>>

LeaseRunsOut(r) ==
  /\ LeaseEnds(r)
  /\ lapsed' = lapsed \cup {r}
  /\ Fault /\ UNCHANGED <<ledger, posts, oper, procVars>>

OperatorStep == CreateJob \/ OperatorApprove \/ OperatorEnqueue \/ OperatorDies
                \/ Dispatch \/ RunRefused \/ Requeue

WorkerStep(w) ==
  WorkerStart(w) \/ Verify(w) \/ Branch(w) \/ WorkerApprove(w) \/ WorkerEnqueue(w)
  \/ ClaimJob(w) \/ StartRendering(w) \/ Announce(w) \/ Render(w)
  \/ RecordMaster(w) \/ BecomeReady(w) \/ HandleError(w) \/ FailJob(w) \/ WorkerDies(w)

PublisherStep(p) ==
  PublishStart(p) \/ Sync(p) \/ Apply(p) \/ Reread(p)
  \/ Decide(p) \/ OpenPublish(p) \/ ExpirePublish(p) \/ Begin(p) \/ CallChannel(p)
  \/ Refused(p) \/ Record(p) \/ PublisherDies(p)

Next ==
  \/ OperatorStep
  \/ \E w \in Worker : WorkerStep(w)
  \/ \E p \in Publisher : PublisherStep(p)
  \/ \E r \in Root : Expires(r) \/ LeaseRunsOut(r)

Spec == Init /\ [][Next]_vars
-----------------------------------------------------------------------------
TypeOK ==
  /\ JobTypeOK
  /\ ledger \in Seq(Event) /\ posts \in Nat /\ oper \in {"idle", "enqueue"}
  /\ \A w \in Worker : pc[w] \in WorkerPC
  /\ \A p \in Publisher : pc[p] \in PublisherPC
  /\ first \in [Publisher -> State \cup {"none"}]
  /\ result \in [Publisher -> 0 .. posts]
  /\ \A r \in Root : Exists(r) => job[r].attempts <= starts
  /\ starts \in 0 .. MaxStarts /\ requeues \in 0 .. MaxRequeues /\ faults \in 0 .. MaxFaults
  /\ lapsed \subseteq Root

(* READY and everything after it has an artifact on record, whether the    *)
(* job was rendered on the control plane's root or reconciled from what a  *)
(* runner reported (BecomeReady, Apply).                                   *)
ReadyHasArtifact ==
  \A r \in Root : Status(r) \in Finished => job[r].artifact # None

(* Duplicate posts are accounted for: the channel has at most one post of  *)
(* the job, and one more for each time the job left PUBLISHING without     *)
(* being published.  Publishers, retries, lost answers, crashes and late   *)
(* results in any order add none (begin_publish, publish_job).             *)
ExtraPostNeedsRelease ==
  Exists(Control) => posts <= 1 + job[Control].released

(* A published job names a post the channel has made (record_publish).     *)
PublishedHasPost ==
  Status(Control) = "PUBLISHED" => job[Control].post \in 1 .. posts

(* While no lease has ended on a root, at most one worker is at work on    *)
(* it: refused, late and failing workers and re-queues do not let a second *)
(* one in (claim).                                                         *)
AtWork(w) == pc[w] \in {"render", "record", "ready"}
OneWorkerPerLease ==
  \A v, w \in Worker :
    AtWork(v) /\ AtWork(w) /\ RootOf(v) = RootOf(w) /\ RootOf(v) \notin lapsed => v = w

(* What has ended stays as it is: a rejected, expired, cancelled or        *)
(* published job never moves, a published one keeps its post, and a failed *)
(* one comes back only by the operator's re-queue or by an enqueue that    *)
(* was late (_transition_locked, enqueue).                                 *)
EndsStay ==
  [][/\ Status(Control) \in {"REJECTED", "EXPIRED", "CANCELLED"} => UNCHANGED Status(Control)
     /\ Status(Control) = "PUBLISHED" => UNCHANGED <<Status(Control), job[Control].post>>
     /\ Status(Control) = "FAILED" => Status(Control)' \in {"FAILED", "QUEUED"}]_vars

(* One channel post per job: "two concurrent publishers cannot both reach  *)
(* the adapter" (jobs.py:48-50, publish.py:120-122).                       *)
OneChannelPost == posts <= 1

(* For the checks: sound while every worker is local.                      *)
Symmetric == Permutations(Worker) \cup Permutations(Publisher)
=============================================================================
