---------------------------- MODULE ProofPublish ----------------------------
(***************************************************************************)
(* The proof of publication: manifests, publish jobs and receipts          *)
(* (backend/services/proof_publisher.py), as the two requests of the       *)
(* backend (backend/server.py) and their client (lib/proofPublish.ts) use  *)
(* them.  A caller asks for a manifest of one text and then for a job, at  *)
(* once or scheduled; a step is one operation of the database, and no two  *)
(* callers move the same job.                                              *)
(***************************************************************************)
EXTENDS Naturals, FiniteSets

CONSTANTS
  Caller,       \* the callers, numbers
  MaxFaults     \* bound on processes that end under a request

CallerBounds == Caller \subseteq Nat \ {0}

VARIABLES
  manifest,     \* proof_manifests: who inserted each
  job,          \* proof_jobs, by who inserted each
  receipt,      \* proof_receipts: the jobs that have one
  caller,       \* the requests
  faults,       \* what the bound counts
  met           \* auxiliary: two callers were under way at once

prove == <<manifest, job, receipt, caller, met>>

(* JOB_STATES, for the states a request can bring a job to.                *)
MayFollow ==
  [DRAFT |-> {"READY", "CANCELED"}, READY |-> {"QUEUED", "CANCELED"},
   QUEUED |-> {"SENT", "FAILED_ACTION_REQUIRED", "CANCELED"},
   SENT |-> {"ACCEPTED_BY_PLATFORM", "FAILED_ACTION_REQUIRED", "FAILED_PERMANENT"},
   ACCEPTED_BY_PLATFORM |-> {"PUBLISHED", "FAILED_ACTION_REQUIRED"}, PUBLISHED |-> {}]
Walk == <<"QUEUED", "SENT", "ACCEPTED_BY_PLATFORM", "PUBLISHED">>

NoJob == [status |-> "none", of |-> 0, scheduled |-> FALSE]
Off == [step |-> "off", of |-> 0, scheduled |-> FALSE, url |-> FALSE, duplicate |-> FALSE, at |-> 1]

TypeOK ==
  /\ manifest \subseteq Caller /\ receipt \subseteq Caller /\ met \in BOOLEAN
  /\ \A c \in Caller :
       /\ job[c].status \in DOMAIN MayFollow <=> job[c].of \in manifest
       /\ caller[c].step \in {"off", "manifest", "new manifest", "job", "new job", "walk", "receipt",
                              "answered", "refused", "cut"}
       /\ caller[c].step \in {"job", "new job", "walk", "receipt", "answered"} =>
            caller[c].of \in manifest
       /\ caller[c].step \in {"walk", "receipt"} => job[c] # NoJob /\ caller[c].at \in DOMAIN Walk
  /\ faults \in 0..MaxFaults

Init ==
  /\ manifest = {} /\ job = [c \in Caller |-> NoJob] /\ receipt = {}
  /\ caller = [c \in Caller |-> Off] /\ met = FALSE /\ faults = 0

UnderWay(c) == caller[c].step \notin {"off", "answered", "refused", "cut"}
Goto(c, step) == caller' = [caller EXCEPT ![c].step = step]
Fine == UNCHANGED <<faults, met>>
Storing == UNCHANGED <<manifest, job, receipt>>

-----------------------------------------------------------------------------
(* The callers are alike: one begins after those before it did.            *)
Begin(c) ==
  /\ caller[c].step = "off" /\ \A d \in Caller : d < c => caller[d].step # "off"
  /\ \E scheduled, url \in BOOLEAN :
       caller' = [caller EXCEPT ![c] =
         [Off EXCEPT !.step = "manifest", !.scheduled = scheduled, !.url = url]]
  /\ met' = (met \/ \E d \in Caller : UnderWay(d))
  /\ Storing /\ UNCHANGED faults

(* create_manifest: the manifest with the hash, or a new one.              *)
FindManifest(c) ==
  /\ caller[c].step = "manifest"
  /\ \/ \E m \in manifest : caller' = [caller EXCEPT ![c].step = "job", ![c].of = m]
     \/ manifest = {} /\ Goto(c, "new manifest")
  /\ Storing /\ Fine
InsertManifest(c) ==
  /\ caller[c].step = "new manifest"
  /\ manifest' = manifest \cup {c}
  /\ caller' = [caller EXCEPT ![c].step = "job", ![c].of = c]
  /\ Fine /\ UNCHANGED <<job, receipt>>

(* create_job: the job with the key, which is then left as it is, or a new *)
(* one, which a caller with a platform_url goes on to walk to PUBLISHED.   *)
SameKey(c) ==
  {j \in Caller : job[j].status # "none" /\ job[j].of = caller[c].of
                  /\ job[j].scheduled = caller[c].scheduled}
FindJob(c) ==
  /\ caller[c].step = "job"
  /\ IF SameKey(c) # {} THEN caller' = [caller EXCEPT ![c].step = "answered", ![c].duplicate = TRUE]
     ELSE Goto(c, "new job")
  /\ Storing /\ Fine
InsertJob(c) ==
  /\ caller[c].step = "new job"
  /\ job' = [job EXCEPT ![c] = [status |-> IF caller[c].scheduled THEN "READY" ELSE "DRAFT",
                                of |-> caller[c].of, scheduled |-> caller[c].scheduled]]
  /\ Goto(c, IF caller[c].url THEN "walk" ELSE "answered")
  /\ Fine /\ UNCHANGED <<manifest, receipt>>

(* transition_job: the loop of proof_publish passes over a transition that *)
(* is refused, but for the last.                                           *)
Move(c, next) ==
  IF next \in MayFollow[job[c].status]
  THEN /\ job' = [job EXCEPT ![c].status = next]
       /\ IF next = "PUBLISHED" THEN Goto(c, "receipt") ELSE caller' = [caller EXCEPT ![c].at = @ + 1]
  ELSE /\ UNCHANGED job
       /\ IF next = "PUBLISHED" THEN Goto(c, "refused") ELSE caller' = [caller EXCEPT ![c].at = @ + 1]
Transition(c) ==
  /\ caller[c].step = "walk" /\ Move(c, Walk[caller[c].at])
  /\ Fine /\ UNCHANGED <<manifest, receipt>>
CreateReceipt(c) ==
  /\ caller[c].step = "receipt"
  /\ receipt' = receipt \cup {c} /\ Goto(c, "answered")
  /\ Fine /\ UNCHANGED <<manifest, job>>

(* The backend ends, or an operation of the database raises.               *)
Cut(c) ==
  /\ UnderWay(c) /\ Goto(c, "cut")
  /\ faults < MaxFaults /\ faults' = faults + 1
  /\ Storing /\ UNCHANGED met

Next ==
  \E c \in Caller :
    \/ Begin(c) \/ FindManifest(c) \/ InsertManifest(c) \/ FindJob(c) \/ InsertJob(c)
    \/ Transition(c) \/ CreateReceipt(c) \/ Cut(c)

-----------------------------------------------------------------------------
(* The text is published under one manifest, with one job for each key,    *)
(* unless two callers were under way at once.                              *)
EffectsOnce ==
  ~met => /\ Cardinality(manifest) <= 1
          /\ \A c, d \in Caller : c # d /\ job[c] # NoJob /\ job[d] # NoJob =>
               job[c].scheduled # job[d].scheduled

(* A receipt is of a published job, a published job has one unless its     *)
(* caller was cut off before it, and a caller with a URL that was answered *)
(* has it unless the job was there before.                                 *)
NothingLost ==
  \A c \in Caller :
    /\ c \in receipt => job[c].status = "PUBLISHED"
    /\ job[c].status = "PUBLISHED" => c \in receipt \/ caller[c].step \in {"receipt", "cut"}
    /\ caller[c].step = "answered" /\ caller[c].url /\ ~caller[c].duplicate => c \in receipt
    /\ caller[c].step = "refused" => ~caller[c].scheduled
=============================================================================
