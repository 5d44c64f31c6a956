------------------------------ MODULE FyeJobs -------------------------------
(***************************************************************************)
(* The job store of the Faceless YouTube Engine (runtime/fye/jobs.py) for  *)
(* one job id.  FyeJobStore keeps one JSON file per job under a root       *)
(* directory and changes it under an exclusive file lock, so every locked  *)
(* method is one step on job[r], the file under root r.  A method that     *)
(* raises leaves the file as it is, unless its definition says otherwise.  *)
(*                                                                         *)
(* Several roots hold a record of the same job: the control plane's, and   *)
(* the throw-away one of each Actions runner.                              *)
(*                                                                         *)
(* The code compares deadlines with now, so a deadline is the flag "it has *)
(* passed".                                                                *)
(***************************************************************************)
EXTENDS Naturals

CONSTANTS
  Root,      \* FYE_ROOT directories that hold a record of the job
  Worker,    \* worker names: GITHUB_RUN_ID, or the process id
  None       \* null

ASSUME NoneAssumption == None \notin Worker

VARIABLE job      \* the file jobs/<job_id>.json under each root

State == {"DRAFT", "APPROVED", "QUEUED", "CLAIMED", "RENDERING", "QA", "READY",
          "PUBLISH_APPROVED", "PUBLISHING", "PUBLISHED",
          "FAILED", "REJECTED", "EXPIRED", "CANCELLED"}

(* _TRANSITIONS *)
Transitions(s) ==
  CASE s = "DRAFT"            -> {"APPROVED", "REJECTED", "EXPIRED", "CANCELLED"}
    [] s = "APPROVED"         -> {"QUEUED", "EXPIRED", "CANCELLED"}
    [] s = "QUEUED"           -> {"CLAIMED", "EXPIRED", "CANCELLED"}
    [] s = "CLAIMED"          -> {"RENDERING", "QUEUED", "FAILED", "EXPIRED", "CANCELLED"}
    [] s = "RENDERING"        -> {"QA", "CLAIMED", "FAILED", "EXPIRED", "CANCELLED"}
    [] s = "QA"               -> {"READY", "FAILED"}
    [] s = "READY"            -> {"PUBLISH_APPROVED", "FAILED", "EXPIRED", "CANCELLED"}
    [] s = "PUBLISH_APPROVED" -> {"PUBLISHING", "FAILED", "EXPIRED", "CANCELLED"}
    [] s = "PUBLISHING"       -> {"PUBLISHED", "PUBLISH_APPROVED", "FAILED", "CANCELLED"}
    [] s = "FAILED"           -> {"QUEUED"}
    [] OTHER                  -> {}

TERMINAL == {"FAILED", "REJECTED", "EXPIRED", "CANCELLED", "PUBLISHED"}

(* The record.  artifact is the recorded sha256, one per rendering worker; *)
(* publishBy says whether publish_expires_at is set and has passed;        *)
(* released counts the history's moves out of PUBLISHING that are not to   *)
(* PUBLISHED.                                                              *)
Job == [status    : State,
        owner     : Worker \cup {None},                 \* lease
        leaseOver : BOOLEAN,
        attempts  : Nat,
        artifact  : Worker \cup {None},
        post      : Nat,                                \* publish.post_id, 0: null
        over      : BOOLEAN,                            \* expires_at
        publishBy : {"unset", "ahead", "over"},
        released  : Nat]

(* FyeJobStore.create *)
Created == [status |-> "DRAFT", owner |-> None, leaseOver |-> FALSE, attempts |-> 0,
            artifact |-> None, post |-> 0, over |-> FALSE, publishBy |-> "unset",
            released |-> 0]

ASSUME NoJobAssumption == None \notin Job

Exists(r) == job[r] # None
Status(r) == IF Exists(r) THEN job[r].status ELSE "none"

(* Mutant: a job that fails gives up its lease. *)
MovedUnleased(j, to) ==
  [j EXCEPT !.status = to,
            !.owner = IF to = "FAILED" THEN None ELSE @,
            !.publishBy = IF to = "PUBLISH_APPROVED" THEN "ahead" ELSE @,
            !.released = IF j.status = "PUBLISHING" /\ to # "PUBLISHED" THEN @ + 1 ELSE @]

(* The record after _transition_locked. *)
Moved(j, to) ==
  [j EXCEPT !.status = to,
            !.publishBy = IF to = "PUBLISH_APPROVED" THEN "ahead" ELSE @,
            !.released = IF j.status = "PUBLISHING" /\ to # "PUBLISHED" THEN @ + 1 ELSE @]

Write(r, j) == job' = [job EXCEPT ![r] = j]

CanMove(r, to) == Exists(r) /\ to \in Transitions(job[r].status)

(* transition: IllegalTransition is raised when CanMove is false. *)
Transition(r, to) == CanMove(r, to) /\ Write(r, Moved(job[r], to))

JobInit == job = [r \in Root |-> None]

Create(r) == ~Exists(r) /\ Write(r, Created)

(* approve.  It raises after the first disjunct too. *)
ApproveExpired(r) == Exists(r) /\ job[r].over /\ Transition(r, "EXPIRED")
Approve(r) == Exists(r) /\ ~job[r].over /\ Transition(r, "APPROVED")

(* Mutant: the move to QUEUED is not checked. *)
EnqueueAny(r) == Exists(r) /\ Write(r, Moved(job[r], "QUEUED"))

(* enqueue: both of its branches are this transition. *)
Enqueue(r) == Transition(r, "QUEUED")

(* claim.  The lease of another owner that has not ended refuses. *)
LeasedByOther(r, w) == job[r].owner \notin {None, w} /\ ~job[r].leaseOver
Claimable(r, w) ==
  /\ Exists(r) /\ ~job[r].over
  /\ ~LeasedByOther(r, w)
  /\ job[r].status \in {"QUEUED", "CLAIMED", "RENDERING"}

(* Mutant: both writes of claim count the attempt. *)
LeasedTwice(j, w) == [j EXCEPT !.owner = w, !.leaseOver = FALSE, !.attempts = @ + 2]

ClaimedStatus(s) == IF s = "QUEUED" THEN "CLAIMED" ELSE s
Leased(j, w) == [j EXCEPT !.owner = w, !.leaseOver = FALSE, !.attempts = @ + 1]

Claim(r, w) ==
  /\ Claimable(r, w)
  /\ Write(r, Leased(Moved(job[r], ClaimedStatus(job[r].status)), w))

(* claim of an expired job: EXPIRED first unless terminal, then it raises. *)
Expirable(r) ==
  Exists(r) /\ job[r].over /\ job[r].status \notin TERMINAL /\ CanMove(r, "EXPIRED")
ClaimExpired(r) == Expirable(r) /\ Transition(r, "EXPIRED")

(* A crash between the two writes of claim: CLAIMED without the lease. *)
ClaimTorn(r, w) ==
  Claimable(r, w) /\ job[r].status = "QUEUED" /\ Transition(r, "CLAIMED")

(* record_artifact: the file of worker w replaces what was recorded. *)
RecordArtifact(r, w) == Exists(r) /\ Write(r, [job[r] EXCEPT !.artifact = w])

(* record_reported_artifacts: another hash under the same name raises. *)
Mergeable(r, a) == job[r].artifact \in {None, a}
RecordReported(r, a) ==
  Exists(r) /\ Mergeable(r, a) /\ Write(r, [job[r] EXCEPT !.artifact = a])

(* Mutant: a publish lease that is held is granted again. *)
BeginAgain(r) ==
  /\ Exists(r) /\ job[r].status \in {"PUBLISH_APPROVED", "PUBLISHING"}
  /\ Write(r, [job[r] EXCEPT !.status = "PUBLISHING"])

(* begin_publish of a job that is not PUBLISHED yet. *)
BeginPublish(r) == Transition(r, "PUBLISHING")

(* end_publish_failure *)
EndPublishFailure(r) == Transition(r, "PUBLISH_APPROVED")

(* Mutant: the status is written, the post id is not. *)
StatusOnly(j, n) == j

(* record_publish.  From PUBLISH_APPROVED the post id is written, and then *)
(* the transition raises.                                                  *)
WithPost(j, n) == [j EXCEPT !.post = n]

RecordPublish(r, n) ==
  Exists(r) /\ job[r].status = "PUBLISHING" /\ Write(r, Moved(WithPost(job[r], n), "PUBLISHED"))
RecordPublishLate(r, n) ==
  Exists(r) /\ job[r].status = "PUBLISH_APPROVED" /\ Write(r, WithPost(job[r], n))

(* A crash between the two writes of record_publish. *)
RecordPublishTorn(r, n) ==
  Exists(r) /\ job[r].status = "PUBLISHING" /\ Write(r, WithPost(job[r], n))

(* publish_expired *)
PublishExpired(r) ==
  IF job[r].publishBy = "unset" THEN job[r].over ELSE job[r].publishBy = "over"

(* Deadlines pass. *)
JobExpires(r) == Exists(r) /\ ~job[r].over /\ Write(r, [job[r] EXCEPT !.over = TRUE])
PublishExpires(r) ==
  Exists(r) /\ job[r].publishBy = "ahead" /\ Write(r, [job[r] EXCEPT !.publishBy = "over"])
LeaseEnds(r) ==
  /\ Exists(r) /\ job[r].owner # None /\ ~job[r].leaseOver
  /\ Write(r, [job[r] EXCEPT !.leaseOver = TRUE])

JobTypeOK == job \in [Root -> Job \cup {None}]
=============================================================================
