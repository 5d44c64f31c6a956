------------------------------- MODULE Eaos -------------------------------
(***************************************************************************)
(* The task queue and the loop of runtime/eaos/cluster_master.py, with the *)
(* lane that posts through runtime/eaos/social_engine.py: its publish, its *)
(* journal of posts made offline, and the sync daemon that drains it.      *)
(*                                                                         *)
(* The executions of a batch are coroutines of one gather.  publish blocks *)
(* the loop (urllib), so the call of a platform and the journal entry that *)
(* may follow it are one step of the loop, but the process may end between *)
(* them.  The daemon drains in a process of its own; nothing in the        *)
(* repository starts it, so whether it runs is a choice of the first state. *)
(***************************************************************************)
EXTENDS Naturals, FiniteSets

CONSTANTS
  Task,          \* the tasks clients enqueue, each once
  TaskRetries,   \* MAX_RETRIES
  LastRow,       \* bound on rows of the journal, over all times
  MaxFaults      \* bound on crashes, lost answers, refusals of a platform, lost
                 \* connections and operations on the databases that raise

(* Assumed of the constants, in Services.                                  *)
TaskAssumption == TaskRetries \in Nat \ {0} /\ LastRow \in Nat /\ MaxFaults \in Nat

VARIABLES
  lane,        \* of each task: SOCIAL posts, MUTE is a social task of a platform without
               \* credentials, WORK is another known lane, UNKNOWN is none
  task,        \* rows of cluster_tasks
  deadLetter,  \* rows of dead_letter for each task
  executing,   \* where the execution of each task is
  loop,        \* whether the process with run_loop is up
  effect,      \* how often the work of each task was done: 0, 1, or more
  journal,     \* rows of pending_queue
  lastRow,     \* AUTOINCREMENT of the journal
  daemon,      \* whether run_sync_daemon runs
  backlog,     \* ids the daemon has fetched and not come to
  posted,      \* the row the daemon has posted and not cleared
  faults,      \* what the bound counts
  doubtful,    \* auxiliary: tasks whose effect was not recorded, or whose row was doubled
  unlettered   \* auxiliary: tasks whose last retry was counted and not dead-lettered

queueVars == <<lane, task, deadLetter, executing, loop, unlettered>>
journalVars == <<journal, lastRow>>
drainVars == <<daemon, backlog, posted>>
vars == <<queueVars, effect, journalVars, drainVars, faults, doubtful>>

Rows == 1..LastRow

TypeOK ==
  /\ lane \in [Task -> {"SOCIAL", "MUTE", "WORK", "UNKNOWN"}]
  /\ task \in [Task -> [status : {"none", "PENDING", "COMPLETED", "DLQ"},
                        retries : 0..TaskRetries]]
  /\ deadLetter \in [Task -> 0..1]
  /\ executing \in [Task -> {"no", "begun", "done", "failed", "letter"}]
  /\ loop \in BOOLEAN /\ daemon \in BOOLEAN
  /\ ~loop => \A t \in Task : executing[t] = "no"
  /\ effect \in [Task -> 0..2]
  /\ journal \subseteq [id : Rows, task : Task] /\ lastRow \in 0..LastRow
  /\ \A r, q \in journal : r.id <= lastRow /\ (r.id = q.id => r = q)
  /\ backlog \subseteq Rows /\ posted \subseteq Rows /\ Cardinality(posted) <= 1
  /\ faults \in 0..MaxFaults
  /\ doubtful \subseteq Task /\ unlettered \subseteq Task

Init ==
  /\ lane \in [Task -> {"SOCIAL", "MUTE", "WORK", "UNKNOWN"}]
  /\ task = [t \in Task |-> [status |-> "none", retries |-> 0]]
  /\ deadLetter = [t \in Task |-> 0]
  /\ executing = [t \in Task |-> "no"] /\ loop = TRUE
  /\ effect = [t \in Task |-> 0]
  /\ journal = {} /\ lastRow = 0
  /\ daemon \in BOOLEAN /\ backlog = {} /\ posted = {}
  /\ faults = 0 /\ doubtful = {} /\ unlettered = {}

Fine == UNCHANGED faults
Fault == faults < MaxFaults /\ faults' = faults + 1

Done(t) == effect' = [effect EXCEPT ![t] = IF @ < 2 THEN @ + 1 ELSE 2]
Move(t, to) == executing' = [executing EXCEPT ![t] = to]

Cached(t) ==
  /\ lastRow < LastRow
  /\ lastRow' = lastRow + 1
  /\ journal' = journal \cup {[id |-> lastRow + 1, task |-> t]}

-----------------------------------------------------------------------------
(* The queue and the loop. *)

Enqueue(t) ==
  /\ task[t].status = "none"
  /\ task' = [task EXCEPT ![t].status = "PENDING"]
  /\ UNCHANGED <<lane, deadLetter, executing, loop, unlettered, effect, journalVars, drainVars,
                 faults, doubtful>>

Fetchable(t) == task[t].status = "PENDING" /\ task[t].retries < TaskRetries

(* fetch_pending, when the batch before is over.  An unknown lane goes     *)
(* straight to the dead letters.                                           *)
Fetch ==
  /\ loop /\ \A t \in Task : executing[t] = "no"
  /\ \E t \in Task : Fetchable(t)
  /\ executing' = [t \in Task |-> IF ~Fetchable(t) THEN "no"
                                  ELSE IF lane[t] = "UNKNOWN" THEN "letter" ELSE "begun"]
  /\ UNCHANGED <<lane, task, deadLetter, loop, unlettered, effect, journalVars, drainVars, faults,
                 doubtful>>

HandlerOnly(t) ==
  executing[t] = "begun"
  /\ UNCHANGED <<lane, task, deadLetter, loop, unlettered, drainVars>>

(* A handler of another lane: its work done, or failed before or after it. *)
Work(t) ==
  /\ lane[t] = "WORK" /\ HandlerOnly(t)
  /\ \/ Done(t) /\ Move(t, "done") /\ Fine /\ UNCHANGED doubtful
     \/ Done(t) /\ Move(t, "failed") /\ Fault /\ doubtful' = doubtful \cup {t}
     \/ Move(t, "failed") /\ Fine /\ UNCHANGED <<effect, doubtful>>
  /\ UNCHANGED journalVars

(* Mutant: a post that failed is not journalled.                           *)
PublishUnjournalled(t) ==
  /\ lane[t] = "SOCIAL" /\ HandlerOnly(t)
  /\ \/ Done(t) /\ Move(t, "done") /\ Fine /\ UNCHANGED <<journalVars, doubtful>>
     \/ /\ UNCHANGED <<effect, journalVars, doubtful>> /\ Move(t, "done") /\ Fault

(* publish.  Offline, and when the platform did not confirm, the post goes *)
(* to the journal; the handler raises when that raises.                    *)
Publish(t) ==
  /\ lane[t] = "SOCIAL" /\ HandlerOnly(t)
  /\ \/ Done(t) /\ Move(t, "done") /\ Fine /\ UNCHANGED <<journalVars, doubtful>>
     \/ /\ \/ Done(t) /\ doubtful' = doubtful \cup {t}
           \/ UNCHANGED <<effect, doubtful>>
        /\ \/ Cached(t) /\ Move(t, "done")
           \/ Move(t, "failed") /\ UNCHANGED journalVars
        /\ Fault

(* Without credentials: cached offline, and otherwise nothing at all.      *)
PublishNothing(t) ==
  /\ lane[t] = "MUTE" /\ HandlerOnly(t)
  /\ Move(t, "done")
  /\ \/ Fine /\ UNCHANGED journalVars
     \/ Fault /\ Cached(t)
  /\ UNCHANGED <<effect, doubtful>>

LoopOnly == UNCHANGED <<lane, effect, journalVars, drainVars>>

(* set_status.  When it raises, the handler counts as failed.              *)
Complete(t) ==
  /\ executing[t] = "done"
  /\ \/ /\ task' = [task EXCEPT ![t].status = "COMPLETED"]
        /\ Move(t, "no") /\ Fine /\ UNCHANGED doubtful
     \/ /\ UNCHANGED task /\ Move(t, "failed") /\ Fault
        /\ doubtful' = doubtful \cup {t}
  /\ UNCHANGED <<deadLetter, loop, unlettered>> /\ LoopOnly

(* increment_retry returns the count it wrote.                             *)
Retry(t) ==
  /\ executing[t] = "failed"
  /\ task' = [task EXCEPT ![t].retries = @ + 1]
  /\ Move(t, IF task[t].retries + 1 >= TaskRetries THEN "letter" ELSE "no")
  /\ Fine /\ UNCHANGED <<deadLetter, loop, unlettered, doubtful>> /\ LoopOnly

Bury(t) ==
  /\ executing[t] = "letter"
  /\ task' = [task EXCEPT ![t].status = "DLQ"]
  /\ deadLetter' = [deadLetter EXCEPT ![t] = @ + 1]
  /\ Move(t, "no")
  /\ Fine /\ UNCHANGED <<loop, unlettered, doubtful>> /\ LoopOnly

(* The process ends: a crash, a signal between two batches, or an exception *)
(* of increment_retry or move_to_dlq, which nothing catches.  It may end   *)
(* after the platform was called, too.                                     *)
Die ==
  /\ loop
  /\ loop' = FALSE /\ executing' = [t \in Task |-> "no"]
  /\ \E cut \in SUBSET {t \in Task : executing[t] = "begun" /\ lane[t] \in {"SOCIAL", "WORK"}} :
       /\ effect' = [t \in Task |-> IF t \in cut /\ effect[t] < 2 THEN effect[t] + 1 ELSE effect[t]]
       /\ doubtful' = doubtful \cup cut \cup {t \in Task : executing[t] = "done"}
  /\ unlettered' = unlettered \cup {t \in Task : executing[t] = "letter"}
  /\ Fault /\ UNCHANGED <<lane, task, deadLetter, journalVars, drainVars>>

Restart ==
  /\ ~loop /\ loop' = TRUE
  /\ UNCHANGED <<lane, task, deadLetter, executing, unlettered, effect, journalVars, drainVars,
                 faults, doubtful>>

-----------------------------------------------------------------------------
(* run_sync_daemon *)

DrainOnly == UNCHANGED queueVars

FetchBacklog ==
  /\ daemon /\ backlog = {} /\ posted = {} /\ journal # {}
  /\ backlog' = {r.id : r \in journal}
  /\ DrainOnly /\ UNCHANGED <<effect, journalVars, daemon, posted, faults, doubtful>>

Oldest(id) == id \in backlog /\ \A other \in backlog : id <= other

(* publish of a row: posted, or offline again and then cached as a new row, *)
(* or not confirmed, or without credentials, and then left in the journal. *)
PublishRow(id, t) ==
  /\ posted = {} /\ Oldest(id) /\ [id |-> id, task |-> t] \in journal
  /\ backlog' = backlog \ {id}
  /\ \/ /\ lane[t] = "SOCIAL" /\ Done(t) /\ posted' = {id}
        /\ Fine /\ UNCHANGED <<journalVars, doubtful>>
     \/ /\ lane[t] = "SOCIAL" /\ Done(t) /\ doubtful' = doubtful \cup {t}
        /\ Fault /\ UNCHANGED <<journalVars, posted>>
     \/ /\ Cached(t) /\ doubtful' = doubtful \cup {t}
        /\ Fault /\ UNCHANGED <<effect, posted>>
     \/ /\ IF lane[t] = "SOCIAL" THEN Fault ELSE Fine
        /\ UNCHANGED <<effect, journalVars, posted, doubtful>>
  /\ DrainOnly /\ UNCHANGED daemon

Clear ==
  /\ posted # {}
  /\ posted' = {} /\ journal' = {r \in journal : r.id \notin posted}
  /\ DrainOnly /\ UNCHANGED <<effect, lastRow, daemon, backlog, faults, doubtful>>

(* The daemon ends, with a row it may have posted, and is started again.   *)
DrainDies ==
  /\ backlog \cup posted # {}
  /\ backlog' = {} /\ posted' = {}
  /\ doubtful' = doubtful \cup {r.task : r \in {q \in journal : q.id \in posted}}
  /\ Fault /\ DrainOnly /\ UNCHANGED <<effect, journalVars, daemon>>

-----------------------------------------------------------------------------
Execute(t) ==
  Work(t) \/ Publish(t) \/ PublishNothing(t) \/ Complete(t) \/ Retry(t) \/ Bury(t)
Drain == FetchBacklog \/ (\E id \in Rows, t \in Task : PublishRow(id, t)) \/ Clear

Next ==
  \/ \E t \in Task : Enqueue(t) \/ Execute(t)
  \/ Fetch \/ Die \/ Restart
  \/ Drain \/ DrainDies

-----------------------------------------------------------------------------
(* The work of a task is done once, unless its outcome went unrecorded or  *)
(* its post, found offline again, was cached twice.                        *)
EffectsOnce == \A t \in Task : effect[t] > 1 => t \in doubtful

(* A task that is completed did its work, or its post is in the journal,   *)
(* unless it had nowhere to post; and one that used up its retries is a    *)
(* dead letter, once, unless the process ended before the letter.          *)
NothingLost ==
  \A t \in Task :
    /\ task[t].status = "COMPLETED" /\ lane[t] # "MUTE"
         => effect[t] > 0 \/ \E r \in journal : r.task = t
    /\ deadLetter[t] = IF task[t].status = "DLQ" THEN 1 ELSE 0
    /\ task[t].status = "PENDING" /\ task[t].retries >= TaskRetries
         => executing[t] = "letter" \/ t \in unlettered

(* No task stays pending for good, but one that has used up its retries;   *)
(* and no journalled post stays unmade where the daemon runs.              *)
Settled(t) == task[t].status # "PENDING" \/ task[t].retries >= TaskRetries
Posted(t) == effect[t] > 0 \/ ~daemon \/ lane[t] # "SOCIAL" \/ \A r \in journal : r.task # t
EveryItemSettles == \A t \in Task : []<>Settled(t) /\ []<>Posted(t)
=============================================================================
