-------------------------------- MODULE Mesh --------------------------------
(***************************************************************************)
(* G-MAOS: the mesh of runtime/gmaos/core.py with its pool of workers, the *)
(* executor (executor.py), the circuit breaker of one agent (MeshBreaker), *)
(* the task table of store.py, and the watchdog thread with its drain of   *)
(* the dead letters (watchdog.py).                                         *)
(*                                                                         *)
(* The event loop runs one coroutine between two awaits, so a step of an   *)
(* execution is what it does from one await to the next.  The watchdog is  *)
(* a thread: each of its calls on the store, the breaker or the queue is a *)
(* step.  All tasks have the same priority and call the same agent.        *)
(***************************************************************************)
EXTENDS MeshBreaker, FiniteSets, Sequences

CONSTANTS
  Task,          \* the tasks clients submit, each once
  None,          \* no task
  Workers,       \* size of the pool
  MaxRetries,    \* min(task.max_retries, _MAX_RETRIES)
  QueueBound,    \* bound on the entries in the queue
  MaxDrains,     \* bound on drains of the dead letters
  MaxEnds        \* bound on restarts and stops

ASSUME PoolAssumption == Workers \in Nat \ {0} /\ MaxRetries \in Nat
ASSUME NoneAssumption == None \notin Task
(* In a heap of three entries or fewer the root is the parent of all.      *)
ASSUME QueueAssumption == QueueBound \in 0..3 /\ {MaxDrains, MaxEnds} \subseteq Nat

VARIABLES
  running,     \* Mesh._running
  breaker,     \* the circuit of the agent
  snapshot,    \* whether the store holds a snapshot of the agent
  row,         \* status of each task in the table
  at,          \* where the execution of each task is
  retries,     \* retries its execution has made
  pooled,      \* tasks that were put on the queue; run() executes the others
  queue,       \* the heap: entries [task, bare], bare when not wrapped
  unfinished,  \* asyncio.Queue._unfinished_tasks
  idle,        \* workers that wait for an entry
  ended,       \* workers that ended with an exception
  drain,       \* the watchdog's drain: dead letters to put, and the one to save
  late,        \* dead letters whose put is scheduled but given up on
  probe,       \* auxiliary: the task whose call spent the half-open probe
  unsaved,     \* auxiliary: tasks whose submit raised, with an entry on the queue
  drained,     \* auxiliary: a dead letter was put on the queue
  drains, ends \* what the bounds count

calls == <<at, retries>>
pool == <<pooled, queue, unfinished, idle, ended>>
watch == <<drain, late, drained, drains>>
aux == <<probe, unsaved>>
vars == <<running, breaker, snapshot, row, calls, pool, watch, aux, ends>>

UnderWay == {"ready", "limited", "invoked", "saving", "backoff"}
Admitted == {"limited", "invoked"}
Finished == {"answered", "local", "dead", "raised"}
Place == {"new", "queued", "gone"} \cup UnderWay \cup Finished
Status == {"none", "QUEUED", "RETRYING", "FAILED", "COMPLETED", "DLQ"}
Entry == [task : Task, bare : BOOLEAN]
Executing == {t \in pooled : at[t] \in UnderWay}
Raised == {t \in pooled : at[t] = "raised"}

TypeOK ==
  /\ running \in BOOLEAN /\ snapshot \in BOOLEAN
  /\ breaker \in Breaker
  /\ row \in [Task -> Status]
  /\ at \in [Task -> Place]
  /\ retries \in [Task -> 0..MaxRetries]
  /\ pooled \subseteq Task
  /\ queue \in Seq(Entry) /\ Len(queue) <= QueueBound
  /\ unfinished \in Nat
  /\ idle \in 0..Workers /\ ended \in 0..Workers
  /\ drain \in [todo : SUBSET Task, save : Task \cup {None}]
  /\ late \subseteq Task
  /\ probe \in Task \cup {None} /\ unsaved \subseteq Task
  /\ drained \in BOOLEAN
  /\ drains \in 0..MaxDrains /\ ends \in 0..MaxEnds

NoDrain == [todo |-> {}, save |-> None]

Init ==
  /\ running = TRUE
  /\ breaker = FreshBreaker
  /\ snapshot \in BOOLEAN
  /\ row = [t \in Task |-> "none"]
  /\ at = [t \in Task |-> "new"] /\ retries = [t \in Task |-> 0]
  /\ pooled = {} /\ queue = <<>> /\ unfinished = 0 /\ idle = Workers /\ ended = 0
  /\ drain = NoDrain /\ late = {} /\ drained = FALSE
  /\ probe = None /\ unsaved = {}
  /\ drains = 0 /\ ends = 0

-----------------------------------------------------------------------------
(* asyncio.PriorityQueue.  Two wrapped entries compare by their numbers, so *)
(* the order is that of arrival; an entry that is not wrapped compares with *)
(* nothing.  A put that raises leaves the entry in the heap, uncounted; a   *)
(* get that raises has dropped the root.                                    *)

PutRaises(bare) == queue # <<>> /\ (bare \/ Head(queue).bare)

Put(t, bare) ==
  /\ Len(queue) < QueueBound
  /\ queue' = Append(queue, [task |-> t, bare |-> bare])
  /\ unfinished' = IF PutRaises(bare) THEN unfinished ELSE unfinished + 1

GetRaises == Len(queue) = 3 /\ (queue[2].bare \/ queue[3].bare)

(* Mutant: the worker does not report task_done.                           *)
FreeUncounted(t) ==
  /\ UNCHANGED <<pooled, queue, unfinished, ended>>
  /\ idle' = IF t \in pooled /\ running THEN idle + 1 ELSE idle

(* The end of an execution: its worker reports task_done, which raises when *)
(* the count is zero, and goes on unless the mesh was stopped.              *)
Free(t) ==
  /\ UNCHANGED <<pooled, queue>>
  /\ IF t \in pooled
     THEN IF unfinished > 0
          THEN /\ unfinished' = unfinished - 1
               /\ idle' = IF running THEN idle + 1 ELSE idle
               /\ UNCHANGED ended
          ELSE ended' = ended + 1 /\ UNCHANGED <<unfinished, idle>>
     ELSE UNCHANGED <<unfinished, idle, ended>>

-----------------------------------------------------------------------------
(* Clients. *)

(* submit, fire: put, then save.  When the one or the other raises, the    *)
(* entry is on the queue and the row is not written.                       *)
Fire(t) ==
  /\ running /\ at[t] = "new"
  /\ Put(t, FALSE)
  /\ at' = [at EXCEPT ![t] = "queued"]
  /\ \/ ~PutRaises(FALSE) /\ row' = [row EXCEPT ![t] = "QUEUED"] /\ UNCHANGED unsaved
     \/ UNCHANGED row /\ unsaved' = unsaved \cup {t}
  /\ pooled' = pooled \cup {t}
  /\ UNCHANGED <<running, breaker, snapshot, retries, idle, ended, watch, probe, ends>>

(* run: executed by the caller, without a worker and without a row.        *)
Run(t) ==
  /\ running /\ at[t] = "new"
  /\ at' = [at EXCEPT ![t] = "ready"]
  /\ UNCHANGED <<running, breaker, snapshot, row, retries, pool, watch, aux, ends>>

(* Mutant: the worker unwraps a dead letter that was put bare.             *)
TakeAnything ==
  /\ idle > 0 /\ queue # <<>> /\ ~GetRaises
  /\ queue' = Tail(queue) /\ idle' = idle - 1
  /\ at' = [at EXCEPT ![Head(queue).task] = "ready"]
  /\ UNCHANGED <<running, breaker, snapshot, row, retries, pooled, unfinished, ended, watch,
                 aux, ends>>

(* A worker's get.  A get that raises, and an entry that is not wrapped,   *)
(* end the worker: both are outside of its handlers.                       *)
Take ==
  /\ idle > 0 /\ queue # <<>>
  /\ queue' = Tail(queue)
  /\ idle' = idle - 1
  /\ IF GetRaises \/ Head(queue).bare
     THEN ended' = ended + 1 /\ UNCHANGED at
     ELSE at' = [at EXCEPT ![Head(queue).task] = "ready"] /\ UNCHANGED ended
  /\ UNCHANGED <<running, breaker, snapshot, row, retries, pooled, unfinished, watch,
                 aux, ends>>

-----------------------------------------------------------------------------
(* An execution: execute_task inside _execute_with_retry. *)

(* A report to the breaker, or a look at it.                               *)
Settle(b) == breaker' = b /\ probe' = IF b.state = "HALF_OPEN" THEN probe ELSE None

(* allow: a half-open circuit that admits the call has spent its probe.    *)
Ask(t) ==
  /\ breaker' = Asked(breaker)
  /\ probe' = IF Asked(breaker).state # "HALF_OPEN" THEN None
              ELSE IF Allows(breaker) THEN t ELSE probe

Steady == UNCHANGED <<running, watch, unsaved, ends>>

Moves(t, place) ==
  /\ at' = [at EXCEPT ![t] = place]
  /\ UNCHANGED <<retries, pool>>

Ends(t, place) ==
  /\ at' = [at EXCEPT ![t] = place]
  /\ Free(t)
  /\ UNCHANGED retries

(* Mutant: retries are not counted.                                        *)
FailsForEver(t, status) ==
  /\ at' = [at EXCEPT ![t] = "backoff"]
  /\ row' = [row EXCEPT ![t] = status]
  /\ UNCHANGED <<retries, pool>>

(* Mutant: one retry too many.                                             *)
FailsOnceMore(t, status) ==
  /\ retries' = [retries EXCEPT ![t] = @ + 1]
  /\ IF retries[t] <= MaxRetries
     THEN /\ at' = [at EXCEPT ![t] = "backoff"] /\ UNCHANGED pool
          /\ row' = [row EXCEPT ![t] = status]
     ELSE /\ at' = [at EXCEPT ![t] = "dead"] /\ Free(t)
          /\ row' = [row EXCEPT ![t] = "DLQ"]

(* A failed attempt: retried after a delay, or moved to the dead letters.  *)
Fails(t, status) ==
  \/ /\ retries[t] < MaxRetries
     /\ retries' = [retries EXCEPT ![t] = @ + 1]
     /\ at' = [at EXCEPT ![t] = "backoff"]
     /\ row' = [row EXCEPT ![t] = status]
     /\ UNCHANGED pool
  \/ /\ retries[t] = MaxRetries
     /\ Ends(t, "dead")
     /\ row' = [row EXCEPT ![t] = "DLQ"]

(* The breaker refuses: answered from the snapshot, or failed.             *)
Refused(t) ==
  /\ at[t] = "ready" /\ ~Allows(breaker)
  /\ Ask(t)
  /\ \/ snapshot /\ Ends(t, "local") /\ UNCHANGED row
     \/ ~snapshot /\ Fails(t, row[t])
  /\ Steady /\ UNCHANGED snapshot

(* The breaker admits the call; the limiter lets it pass, or makes it wait. *)
Begin(t) ==
  /\ at[t] = "ready" /\ Allows(breaker)
  /\ Ask(t)
  /\ \E place \in Admitted : Moves(t, place)
  /\ Steady /\ UNCHANGED <<snapshot, row>>

(* The wait would be too long: answered from the snapshot, and the breaker *)
(* that admitted the call is told nothing.                                 *)
Swallow(t) ==
  /\ at[t] = "ready" /\ Allows(breaker) /\ snapshot
  /\ Ask(t)
  /\ Ends(t, "local")
  /\ Steady /\ UNCHANGED <<snapshot, row>>

WaitOver(t) ==
  /\ at[t] = "limited"
  /\ Moves(t, "invoked")
  /\ Steady /\ UNCHANGED <<breaker, probe, snapshot, row>>

Answer(t) ==
  /\ at[t] = "invoked"
  /\ Settle(AfterSuccess(breaker))
  /\ Moves(t, "saving")
  /\ Steady /\ UNCHANGED <<snapshot, row>>

(* Mutant: the error is not reported to the breaker.                       *)
ErrorUnreported(t) ==
  /\ at[t] = "invoked"
  /\ UNCHANGED <<breaker, probe>>
  /\ \/ snapshot /\ Ends(t, "local") /\ UNCHANGED row
     \/ ~snapshot /\ Fails(t, "FAILED")
  /\ Steady /\ UNCHANGED snapshot

Error(t) ==
  /\ at[t] = "invoked"
  /\ Settle(AfterFailure(breaker))
  /\ \/ snapshot /\ Ends(t, "local") /\ UNCHANGED row
     \/ ~snapshot /\ Fails(t, "FAILED")
  /\ Steady /\ UNCHANGED snapshot

(* Mutant: the row of an answered task is not written.                     *)
SaveForgettingRow(t) ==
  /\ at[t] = "saving"
  /\ snapshot' = TRUE
  /\ Ends(t, "answered")
  /\ Steady /\ UNCHANGED <<breaker, probe, row>>

Save(t) ==
  /\ at[t] = "saving"
  /\ snapshot' = TRUE
  /\ row' = [row EXCEPT ![t] = "COMPLETED"]
  /\ Ends(t, "answered")
  /\ Steady /\ UNCHANGED <<breaker, probe>>

(* asyncio.wait_for cancels the attempt at the await it is at; after the   *)
(* answer that is a failure on top of a success.                           *)
TimeOut(t) ==
  /\ at[t] \in Admitted \cup {"saving"}
  /\ Settle(AfterFailure(breaker))
  /\ Fails(t, row[t])
  /\ Steady /\ UNCHANGED snapshot

Again(t) ==
  /\ at[t] = "backoff"
  /\ row' = [row EXCEPT ![t] = "RETRYING"]
  /\ Moves(t, "ready")
  /\ Steady /\ UNCHANGED <<breaker, probe, snapshot>>

(* An exception leaves execute_task and the retry loop, which catches      *)
(* nothing but the timeout: the caller of run gets it, and the worker ends *)
(* once its finally has called task_done.                                  *)
Falls(t) ==
  /\ at' = [at EXCEPT ![t] = "raised"]
  /\ IF t \in pooled
     THEN /\ ended' = ended + 1
          /\ unfinished' = IF unfinished > 0 THEN unfinished - 1 ELSE unfinished
     ELSE UNCHANGED <<ended, unfinished>>
  /\ UNCHANGED <<retries, pooled, queue, idle>>

(* What may raise: the store or the distillation, of a call the breaker    *)
(* has admitted or refused; the agent's output when it is no text; writing *)
(* the snapshot, which may have been written, or a row, which was not; and *)
(* after a failure was reported, reading the snapshot, writing FAILED, or, *)
(* out of retries, writing DLQ.                                            *)
Raise(t) ==
  /\ Falls(t) /\ Steady
  /\ \/ at[t] = "ready" /\ Ask(t) /\ UNCHANGED <<snapshot, row>>
     \/ at[t] \in Admitted \cup {"backoff"} /\ UNCHANGED <<breaker, probe, snapshot, row>>
     \/ at[t] = "saving" /\ snapshot' \in {snapshot, TRUE} /\ UNCHANGED <<breaker, probe, row>>
     \/ /\ at[t] = "invoked" /\ Settle(AfterFailure(breaker)) /\ UNCHANGED snapshot
        /\ \/ UNCHANGED row
           \/ ~snapshot /\ retries[t] = MaxRetries /\ row' = [row EXCEPT ![t] = "FAILED"]
     \/ /\ at[t] \in Admitted \cup {"saving"} /\ retries[t] = MaxRetries
        /\ Settle(AfterFailure(breaker)) /\ UNCHANGED <<snapshot, row>>

-----------------------------------------------------------------------------
(* The watchdog. *)

WatchOnly == UNCHANGED <<running, snapshot, calls, pooled, idle, ended, unsaved, ends>>

(* health_map evaluates every breaker; time passes for an open one.        *)
Elapse ==
  /\ breaker.state = "OPEN" /\ ~breaker.over
  /\ breaker' = [breaker EXCEPT !.over = TRUE]
  /\ UNCHANGED <<running, snapshot, row, calls, pool, watch, aux, ends>>

Look ==
  /\ Evaluated(breaker) # breaker
  /\ Settle(Evaluated(breaker))
  /\ UNCHANGED <<running, snapshot, row, calls, pool, watch, unsaved, ends>>

DeadLetters == {t \in Task : row[t] = "DLQ"}

DrainRead ==
  /\ running /\ drain = NoDrain /\ DeadLetters # {}
  /\ drains < MaxDrains /\ drains' = drains + 1
  /\ drain' = [drain EXCEPT !.todo = DeadLetters]
  /\ WatchOnly /\ UNCHANGED <<breaker, probe, row, queue, unfinished, late, drained>>

(* The put runs on the loop; when it raises the row stays DLQ.             *)
DrainPut(t) ==
  /\ t \in drain.todo /\ drain.save = None
  /\ Put(t, TRUE)
  /\ drain' = [todo |-> drain.todo \ {t}, save |-> IF PutRaises(TRUE) THEN None ELSE t]
  /\ drained' = TRUE
  /\ WatchOnly /\ UNCHANGED <<breaker, probe, row, late, drains>>

(* The loop is busy for longer than future.result waits.                   *)
DrainGivesUp(t) ==
  /\ t \in drain.todo /\ drain.save = None
  /\ drain' = [drain EXCEPT !.todo = @ \ {t}]
  /\ late' = late \cup {t}
  /\ WatchOnly /\ UNCHANGED <<breaker, probe, row, queue, unfinished, drained, drains>>

(* The row is saved, unless that raises: the next row is then drained.     *)
DrainSave ==
  /\ drain.save # None
  /\ row' \in {row, [row EXCEPT ![drain.save] = "QUEUED"]}
  /\ drain' = [drain EXCEPT !.save = None]
  /\ WatchOnly /\ UNCHANGED <<breaker, probe, queue, unfinished, late, drained, drains>>

LatePut(t) ==
  /\ t \in late
  /\ Put(t, TRUE)
  /\ late' = late \ {t}
  /\ drained' = TRUE
  /\ WatchOnly /\ UNCHANGED <<breaker, probe, row, drain, drains>>

(* POST /dlq/drain blocks the loop it waits for.                           *)
DrainByRequest ==
  /\ running /\ DeadLetters # {}
  /\ drains < MaxDrains /\ drains' = drains + 1
  /\ late' = late \cup DeadLetters
  /\ WatchOnly /\ UNCHANGED <<breaker, probe, row, queue, unfinished, drain, drained>>

(* prune_old removes old rows that are neither queued nor running.         *)
Prune ==
  /\ drain = NoDrain
  /\ \E old \in SUBSET {t \in Task : at[t] \in Finished \cup {"gone"}
                                     /\ row[t] \notin {"none", "QUEUED"}} \ {{}} :
       row' = [t \in Task |-> IF t \in old THEN "none" ELSE row[t]]
  /\ WatchOnly /\ UNCHANGED <<breaker, probe, queue, unfinished, watch>>

-----------------------------------------------------------------------------
(* The process. *)

(* stop: the workers finish what they execute, and take nothing more.      *)
Stop ==
  /\ running /\ ends < MaxEnds
  /\ running' = FALSE /\ ends' = ends + 1
  /\ UNCHANGED <<breaker, snapshot, row, calls, pool, watch, aux>>

Leave ==
  /\ ~running /\ idle > 0
  /\ idle' = idle - 1
  /\ UNCHANGED <<running, breaker, snapshot, row, calls, pooled, queue, unfinished, ended,
                 watch, aux, ends>>

(* The process dies and another starts on the same table.                  *)
Restart ==
  /\ ends < MaxEnds /\ ends' = ends + 1
  /\ running' = TRUE
  /\ breaker' = FreshBreaker /\ probe' = None
  /\ at' = [t \in Task |-> IF at[t] \in UnderWay \cup {"queued"} THEN "gone" ELSE at[t]]
  /\ queue' = <<>> /\ unfinished' = 0 /\ idle' = Workers /\ ended' = 0
  /\ drain' = NoDrain /\ late' = {} /\ drained' = FALSE
  /\ UNCHANGED <<snapshot, row, retries, pooled, unsaved, drains>>

Step(t) ==
  \/ Refused(t) \/ Begin(t) \/ Swallow(t) \/ WaitOver(t) \/ Answer(t) \/ Error(t)
  \/ Save(t) \/ TimeOut(t) \/ Again(t) \/ Raise(t)

Next ==
  \/ \E t \in Task : Fire(t) \/ Run(t) \/ Step(t) \/ DrainPut(t) \/ DrainGivesUp(t) \/ LatePut(t)
  \/ Take \/ Elapse \/ Look
  \/ DrainRead \/ DrainSave \/ DrainByRequest \/ Prune
  \/ Stop \/ Leave \/ Restart

(* The loop runs what is ready: attempts end at the latest by their        *)
(* timeout, delays pass, and a waiting worker gets what is on the queue.   *)
Fairness == WF_vars(Take) /\ \A t \in Task : WF_vars(Step(t))

Spec == Init /\ [][Next]_vars /\ Fairness

-----------------------------------------------------------------------------
(* Properties. *)

(* While the mesh runs, a worker waits, executes, or has ended.  As long   *)
(* as no dead letter was put back, no more workers have ended than         *)
(* executions raised, the count that stop waits for is that of the tasks   *)
(* queued and under way, and such a task has a row unless its submit       *)
(* raised; after a first dead letter all of it may fail (_worker, core.py). *)
Staffed == running => idle + ended + Cardinality(Executing) = Workers

Calm ==
  /\ ended <= Cardinality(Raised)
  /\ unfinished = Len(queue) + Cardinality(Executing)
  /\ \A t \in pooled \ unsaved : at[t] \in UnderWay \cup {"queued"} => row[t] # "none"

PoolStandsUntilDrained == Staffed /\ (~drained => Calm)

(* The call that spent the probe of a half-open circuit is under way, has  *)
(* reported a success, or was told to nobody: answered from the snapshot   *)
(* by the limiter, or ended by an exception.  In the last two cases only a *)
(* report of a call admitted earlier moves the circuit again.              *)
ProbeUnderWay ==
  breaker.state = "HALF_OPEN" /\ breaker.probeSent =>
    /\ probe # None
    /\ \/ at[probe] \in Admitted \cup {"local", "raised"}
       \/ at[probe] \in {"saving", "answered"} /\ breaker.succStreak > 0

(* The row tells how an execution ended: COMPLETED is written for an       *)
(* answer of the agent and nothing else, and a task that ran out of        *)
(* retries is a dead letter until it is put back or pruned.  The row of an *)
(* execution that raised claims no outcome: it is what it was before.      *)
RowTellsOutcome ==
  \A t \in Task :
    /\ row[t] = "COMPLETED" => at[t] = "answered"
    /\ at[t] = "answered" => row[t] \in {"COMPLETED", "none"}
    /\ at[t] = "dead" => row[t] \in {"DLQ", "QUEUED", "none"}
    /\ row[t] = "DLQ" => at[t] \in {"dead", "gone"}
    /\ at[t] = "raised" => row[t] \in {"none", "QUEUED", "RETRYING", "FAILED"}

(* Clients see a service that accepts a task once and ends it once: no     *)
(* retry, late answer or drain of the dead letters changes an outcome.  A  *)
(* task is lost with its process, or by an exception nobody answers for.   *)
OutcomeOf(t) ==
  CASE at[t] = "new" -> "none"
    [] at[t] \in UnderWay \cup {"queued"} -> "accepted"
    [] at[t] \in {"answered", "local"} -> "answered"
    [] at[t] = "dead" -> "refused"
    [] at[t] \in {"gone", "raised"} -> "lost"

Service == INSTANCE TaskService WITH outcome <- [t \in Task |-> OutcomeOf(t)]
ImplementsService == Service!Spec

(* Every task that was fired is taken, as long as a worker is left, no     *)
(* dead letter was put back, the mesh is not stopped and the process       *)
(* lives; every execution ends, with its outcome or by an exception.       *)
EveryTaskEnds ==
  /\ \A t \in Task : at[t] = "queued" ~>
         at[t] # "queued" \/ ended = Workers \/ drained \/ ~running
  /\ \A t \in Task : at[t] = "ready" ~> at[t] \in Finished \cup {"gone"}

(* The watchdog's promise: a dead letter it has put back, and that left    *)
(* the queue, gets one more chance.                                        *)
OneMoreChance ==
  \A t \in Task :
    at[t] = "dead" /\ row[t] = "QUEUED" => \E i \in DOMAIN queue : queue[i].task = t
=============================================================================
