----------------------------- MODULE MeshProofs -----------------------------
(***************************************************************************)
(* Safety of the mesh, for any tasks, workers, retries, thresholds and     *)
(* bounds: its types, what rows and circuit tell, what holds of the pool   *)
(* until a dead letter is put back, and that clients see TaskService.      *)
(***************************************************************************)
EXTENDS Mesh, FiniteSetTheorems, SequenceTheorems, TLAPS

-----------------------------------------------------------------------------
(* The circuit breaker. *)

(* The methods of the breaker keep its type.                               *)
LEMMA BreakerTypes ==
  ASSUME NEW b \in Breaker
  PROVE  /\ Evaluated(b) \in Breaker /\ Asked(b) \in Breaker
         /\ AfterSuccess(b) \in Breaker /\ AfterFailure(b) \in Breaker
  <1>1. \A c \in Breaker, s \in BreakerState : Transition(c, s) \in Breaker
    <2> SUFFICES ASSUME NEW c \in Breaker, NEW s \in BreakerState
                 PROVE  Transition(c, s) \in Breaker
      OBVIOUS
    <2> DEFINE other == [c EXCEPT !.state = s]
               half == [other EXCEPT !.succStreak = 0]
    <2>1. half \in Breaker
      <3>1. other \in Breaker
        BY DEF Breaker
      <3> HIDE DEF other
      <3> QED  BY <3>1, ThresholdAssumption DEF Breaker
    <2>2. [half EXCEPT !.probeSent = FALSE, !.over = FALSE] \in Breaker
      <3> HIDE DEF half
      <3> QED  BY <2>1 DEF Breaker
    <2>3. Transition(c, s) = [half EXCEPT !.probeSent = FALSE, !.over = FALSE]
      BY DEF Transition
    <2> QED  BY <2>2, <2>3
  <1>2. Evaluated(b) \in Breaker
    BY <1>1 DEF Evaluated, BreakerState
  <1>3. Asked(b) \in Breaker
    BY <1>2 DEF Asked, Breaker
  <1>4. [b EXCEPT !.failStreak = 0] \in Breaker
    BY ThresholdAssumption DEF Breaker
  <1>5. AfterSuccess(b) \in Breaker
    <2>1. CASE b.state # "HALF_OPEN"
      BY <1>4, <2>1 DEF AfterSuccess
    <2>2. CASE b.state = "HALF_OPEN" /\ b.succStreak + 1 >= SuccessThreshold
      BY <1>1, <1>4, <2>2 DEF AfterSuccess, BreakerState
    <2>3. CASE b.state = "HALF_OPEN" /\ ~(b.succStreak + 1 >= SuccessThreshold)
      <3>1. AfterSuccess(b) = [[b EXCEPT !.failStreak = 0] EXCEPT !.succStreak = @ + 1]
        BY <2>3 DEF AfterSuccess
      <3>2. b.succStreak + 1 \in 0..SuccessThreshold
        BY <2>3, ThresholdAssumption DEF Breaker
      <3>3. AfterSuccess(b) = [state |-> b.state, failStreak |-> 0, succStreak |-> b.succStreak + 1,
                               probeSent |-> b.probeSent, over |-> b.over]
        BY <3>1 DEF Breaker
      <3> QED  BY <3>2, <3>3, ThresholdAssumption DEF Breaker
    <2> QED  BY <2>1, <2>2, <2>3
  <1>6. [b EXCEPT !.succStreak = 0, !.failStreak = OneMore(@, FailureThreshold)] \in Breaker
    <2>1. OneMore(b.failStreak, FailureThreshold) \in 0..FailureThreshold
      BY ThresholdAssumption DEF OneMore, Breaker
    <2> DEFINE calm == [b EXCEPT !.succStreak = 0]
    <2>2. calm \in Breaker /\ calm.failStreak = b.failStreak
      BY ThresholdAssumption DEF Breaker
    <2>3. [calm EXCEPT !.failStreak = OneMore(@, FailureThreshold)] \in Breaker
      <3> HIDE DEF calm
      <3> QED  BY <2>1, <2>2 DEF Breaker
    <2> QED  BY <2>2, <2>3
  <1>7. AfterFailure(b) \in Breaker
    BY <1>1, <1>6 DEF AfterFailure, BreakerState
  <1> QED  BY <1>2, <1>3, <1>5, <1>7

(* A circuit is left half-open by no failure, and keeps its successes      *)
(* apart from those that close it.                                         *)
LEMMA BreakerHalfOpen ==
  ASSUME NEW b \in Breaker
  PROVE  /\ AfterFailure(b).state # "HALF_OPEN"
         /\ AfterSuccess(b).state = "HALF_OPEN" =>
              /\ AfterSuccess(b).succStreak > 0 /\ b.state = "HALF_OPEN"
              /\ AfterSuccess(b).probeSent = b.probeSent
         /\ ~Evaluated(b).probeSent \/ Evaluated(b) = b
         /\ ~Allows(b) /\ Asked(b).state = "HALF_OPEN" => Asked(b) = b
  <1>1. \A c \in Breaker, s \in BreakerState : Transition(c, s).state = s
    BY DEF Transition, Breaker
  <1>2. [b EXCEPT !.failStreak = 0] \in Breaker
    BY ThresholdAssumption DEF Breaker
  <1>3. AfterFailure(b).state # "HALF_OPEN"
    <2> DEFINE worse == [b EXCEPT !.succStreak = 0, !.failStreak = OneMore(@, FailureThreshold)]
    <2>1. worse.state = b.state
      BY DEF Breaker
    <2>2. Transition(worse, "OPEN").state = "OPEN"
      BY DEF Transition, Breaker
    <2> QED  BY <2>1, <2>2 DEF AfterFailure
  <1>4. AfterSuccess(b).state = "HALF_OPEN" =>
          /\ AfterSuccess(b).succStreak > 0 /\ b.state = "HALF_OPEN"
          /\ AfterSuccess(b).probeSent = b.probeSent
    <2>1. CASE b.state # "HALF_OPEN"
      BY <2>1 DEF AfterSuccess, Breaker
    <2>2. CASE b.state = "HALF_OPEN" /\ b.succStreak + 1 >= SuccessThreshold
      BY <1>1, <1>2, <2>2 DEF AfterSuccess, BreakerState
    <2>3. CASE b.state = "HALF_OPEN" /\ ~(b.succStreak + 1 >= SuccessThreshold)
      <3>1. AfterSuccess(b) = [[b EXCEPT !.failStreak = 0] EXCEPT !.succStreak = @ + 1]
        BY <2>3 DEF AfterSuccess
      <3> QED  BY <3>1, ThresholdAssumption DEF Breaker
    <2> QED  BY <2>1, <2>2, <2>3
  <1>5. ~Evaluated(b).probeSent \/ Evaluated(b) = b
    BY DEF Evaluated, Transition, Breaker
  <1>6. ~Allows(b) /\ Asked(b).state = "HALF_OPEN" => Asked(b) = b
    <2> SUFFICES ASSUME ~Allows(b), Asked(b).state = "HALF_OPEN"  PROVE Asked(b) = b
      OBVIOUS
    <2>1. Evaluated(b) \in Breaker
      BY BreakerTypes
    <2>2. Evaluated(b).state = "HALF_OPEN" /\ Evaluated(b).probeSent
      BY <2>1 DEF Asked, Allows, Breaker
    <2> QED  BY <1>5, <2>1, <2>2 DEF Asked, Breaker
  <1> QED  BY <1>3, <1>4, <1>5, <1>6

-----------------------------------------------------------------------------
(* The inductive invariant. *)

(* A wrapped entry is of a task that is queued, and of no other entry.     *)
QueueInv ==
  /\ \A i \in 1..Len(queue) :
       ~queue[i].bare => at[queue[i].task] = "queued" /\ queue[i].task \in pooled
  /\ \A i, j \in 1..Len(queue) :
       ~queue[i].bare /\ ~queue[j].bare /\ queue[i].task = queue[j].task => i = j
  /\ \A t \in Task : at[t] = "new" => t \notin pooled

(* A worker waits, or has ended, or has a task, or has left.               *)
PoolInv ==
  /\ IsFiniteSet(pooled) /\ IsFiniteSet(Executing)
  /\ idle + ended + Cardinality(Executing) <= Workers
  /\ Staffed

(* What the watchdog is about to put back are dead letters of executions   *)
(* that are over.                                                          *)
RowInv ==
  /\ RowTellsOutcome
  /\ \A t \in drain.todo \cup late : at[t] \in {"dead", "gone"}
  /\ drain.save # None => at[drain.save] \in {"dead", "gone"}

(* No entry is bare before the first dead letter is put back.              *)
CalmInv ==
  ~drained => Calm /\ \A i \in 1..Len(queue) : ~queue[i].bare

IInv == TypeOK /\ QueueInv /\ PoolInv /\ RowInv /\ CalmInv /\ ProbeUnderWay

-----------------------------------------------------------------------------
(* What a step of an execution does. *)

(* The execution of a task goes on in its place, or ends.                  *)
GoesOn(t, p) == p \in UnderWay /\ at' = [at EXCEPT ![t] = p] /\ UNCHANGED pool
Over(t, p) ==
  /\ p \in Finished /\ at' = [at EXCEPT ![t] = p]
  /\ IF p = "raised" THEN Falls(t) ELSE Free(t)

RowFollows(t, p) ==
  \/ p \in UnderWay \cup {"local", "raised"} /\ row' = row
  \/ p \in UnderWay \cup {"raised"} /\ \E s \in {"FAILED", "RETRYING"} : row' = [row EXCEPT ![t] = s]
  \/ p = "answered" /\ row' = [row EXCEPT ![t] = "COMPLETED"]
  \/ p = "dead" /\ row' = [row EXCEPT ![t] = "DLQ"]

(* A failed attempt.                                                       *)
LEMMA FailsShape ==
  ASSUME TypeOK, NEW t \in Task, NEW s \in {row[t], "FAILED"}, Fails(t, s)
  PROVE  /\ retries' \in [Task -> 0..MaxRetries]
         /\ \E p \in {"backoff", "dead"} : (GoesOn(t, p) \/ Over(t, p)) /\ RowFollows(t, p)
  <1>1. retries \in [Task -> 0..MaxRetries] /\ row \in [Task -> Status]
    BY DEF TypeOK
  <1>2. CASE retries[t] < MaxRetries
    <2>1. /\ retries' = [retries EXCEPT ![t] = @ + 1]
          /\ at' = [at EXCEPT ![t] = "backoff"]
          /\ row' = [row EXCEPT ![t] = s]
          /\ UNCHANGED pool
      BY <1>1, <1>2 DEF Fails
    <2>2. retries[t] + 1 \in 0..MaxRetries
      BY <1>1, <1>2, PoolAssumption
    <2>3. GoesOn(t, "backoff")
      BY <2>1 DEF GoesOn, UnderWay
    <2>4. row' = row \/ row' = [row EXCEPT ![t] = "FAILED"]
      BY <1>1, <2>1
    <2> QED  BY <1>1, <2>1, <2>2, <2>3, <2>4 DEF RowFollows, UnderWay
  <1>3. CASE ~(retries[t] < MaxRetries)
    BY <1>1, <1>3 DEF Fails, Ends, Over, RowFollows, Finished
  <1> QED  BY <1>2, <1>3

(* Any step of an execution.                                               *)
LEMMA StepShape ==
  ASSUME TypeOK, NEW t \in Task, Step(t)
  PROVE  /\ at[t] \in UnderWay
         /\ UNCHANGED <<running, watch, unsaved, ends>>
         /\ snapshot' \in BOOLEAN /\ breaker' \in Breaker /\ probe' \in Task \cup {None}
         /\ retries' \in [Task -> 0..MaxRetries]
         /\ \E p \in UnderWay \cup Finished : (GoesOn(t, p) \/ Over(t, p)) /\ RowFollows(t, p)
  <1>1. /\ breaker \in Breaker /\ Asked(breaker) \in Breaker
        /\ AfterSuccess(breaker) \in Breaker /\ AfterFailure(breaker) \in Breaker
    BY BreakerTypes DEF TypeOK
  <1>2. /\ retries \in [Task -> 0..MaxRetries] /\ row \in [Task -> Status]
        /\ snapshot \in BOOLEAN /\ probe \in Task \cup {None}
    BY DEF TypeOK
  <1>3. /\ \A b : Settle(b) => breaker' = b /\ probe' \in Task \cup {None}
        /\ Ask(t) => breaker' = Asked(breaker) /\ probe' \in Task \cup {None}
    BY <1>2 DEF Settle, Ask
  <1>4. \A s \in {row[t], "FAILED"} : Fails(t, s) =>
          /\ retries' \in [Task -> 0..MaxRetries]
          /\ \E p \in UnderWay \cup Finished : (GoesOn(t, p) \/ Over(t, p)) /\ RowFollows(t, p)
    BY FailsShape DEF UnderWay, Finished
  <1>5. \A p \in Finished \ {"raised"} : Ends(t, p) => Over(t, p) /\ retries' = retries
    BY DEF Ends, Over
  <1>6. \A p \in UnderWay : Moves(t, p) => GoesOn(t, p) /\ retries' = retries
    BY DEF Moves, GoesOn
  <1>7. CASE Refused(t)
    BY <1>1, <1>2, <1>3, <1>4, <1>5, <1>7
    DEF Refused, RowFollows, UnderWay, Finished, Steady
  <1>8. CASE Begin(t)
    BY <1>1, <1>2, <1>3, <1>6, <1>8 DEF Begin, RowFollows, UnderWay, Admitted, Steady
  <1>9. CASE Swallow(t)
    BY <1>1, <1>2, <1>3, <1>5, <1>9 DEF Swallow, RowFollows, UnderWay, Finished, Steady
  <1>10. CASE WaitOver(t) \/ Answer(t) \/ Again(t)
    BY <1>1, <1>2, <1>3, <1>6, <1>10 DEF WaitOver, Answer, Again, RowFollows, UnderWay, Steady
  <1>11. CASE Error(t)
    BY <1>1, <1>2, <1>3, <1>4, <1>5, <1>11 DEF Error, RowFollows, UnderWay, Finished, Steady
  <1>12. CASE Save(t)
    BY <1>1, <1>2, <1>5, <1>12 DEF Save, RowFollows, UnderWay, Finished, Steady
  <1>13. CASE TimeOut(t)
    BY <1>1, <1>2, <1>3, <1>4, <1>13 DEF TimeOut, UnderWay, Admitted, Steady
  <1>14. CASE Raise(t)
    <2>1. Falls(t) /\ UNCHANGED <<running, watch, unsaved, ends>>
      BY <1>14 DEF Raise, Steady
    <2>2. Over(t, "raised") /\ retries' = retries
      BY <2>1 DEF Falls, Over, Finished
    <2>3. at[t] \in UnderWay
      BY <1>14 DEF Raise, UnderWay, Admitted
    <2>4. snapshot' \in BOOLEAN /\ breaker' \in Breaker /\ probe' \in Task \cup {None}
      <3>1. snapshot' = snapshot \/ snapshot' = TRUE
        BY <1>14 DEF Raise
      <3>2. UNCHANGED <<breaker, probe>> \/ Ask(t) \/ Settle(AfterFailure(breaker))
        BY <1>14 DEF Raise
      <3>3. snapshot' \in BOOLEAN
        BY <1>2, <3>1, Zenon
      <3> QED  BY <1>1, <1>2, <1>3, <3>2, <3>3
    <2>5. RowFollows(t, "raised")
      BY <1>14 DEF Raise, RowFollows
    <2> QED  BY <1>2, <2>1, <2>2, <2>3, <2>4, <2>5 DEF Finished
  <1> QED
    BY <1>7, <1>8, <1>9, <1>10, <1>11, <1>12, <1>13, <1>14 DEF Step

-----------------------------------------------------------------------------
(* The queue and the pool. *)

(* A put appends its entry.                                                *)
LEMMA PutShape ==
  ASSUME TypeOK, NEW t \in Task, NEW b \in BOOLEAN, Put(t, b)
  PROVE  /\ queue' \in Seq(Entry) /\ Len(queue) \in Nat
         /\ Len(queue') = Len(queue) + 1 /\ Len(queue') <= QueueBound
         /\ \A i \in 1..Len(queue) : queue'[i] = queue[i]
         /\ queue'[Len(queue) + 1] = [task |-> t, bare |-> b]
         /\ unfinished' \in Nat
         /\ ~PutRaises(b) => unfinished' = unfinished + 1
  <1>1. queue \in Seq(Entry) /\ unfinished \in Nat /\ [task |-> t, bare |-> b] \in Entry
    BY DEF TypeOK, Entry
  <1>2. Len(queue) \in Nat /\ QueueBound \in Nat
    BY <1>1, LenProperties, QueueAssumption
  <1>3. queue' = Append(queue, [task |-> t, bare |-> b]) /\ Len(queue) < QueueBound
    BY DEF Put
  <1>4. unfinished' = IF PutRaises(b) THEN unfinished ELSE unfinished + 1
    BY DEF Put
  <1>5. /\ queue' \in Seq(Entry)
        /\ Len(queue') = Len(queue) + 1
        /\ \A i \in 1..Len(queue) : queue'[i] = queue[i]
        /\ queue'[Len(queue) + 1] = [task |-> t, bare |-> b]
    BY <1>1, <1>3, AppendProperties
  <1> QED  BY <1>1, <1>2, <1>3, <1>4, <1>5

(* A get drops the first entry.                                            *)
LEMMA TakeShape ==
  ASSUME TypeOK, queue # <<>>, queue' = Tail(queue)
  PROVE  /\ queue' \in Seq(Entry) /\ Len(queue) \in Nat \ {0}
         /\ Len(queue') = Len(queue) - 1 /\ Len(queue') <= QueueBound
         /\ \A i \in 1..Len(queue') : queue'[i] = queue[i + 1]
         /\ Head(queue) = queue[1] /\ Head(queue) \in Entry
  <1>1. queue \in Seq(Entry) /\ Len(queue) <= QueueBound /\ QueueBound \in Nat
    BY QueueAssumption DEF TypeOK
  <1>2. Len(queue) \in Nat \ {0}
    BY <1>1, EmptySeq
  <1>3. /\ Tail(queue) \in Seq(Entry) /\ Len(Tail(queue)) = Len(queue) - 1
        /\ \A i \in 1..Len(Tail(queue)) : Tail(queue)[i] = queue[i + 1]
        /\ Head(queue) \in Entry
    BY <1>1, HeadTailProperties
  <1>4. Head(queue) = queue[1]
    BY <1>1
  <1> QED  BY <1>1, <1>2, <1>3, <1>4

(* An execution that goes on keeps the pool.                               *)
LEMMA GoesOnShape ==
  ASSUME TypeOK, PoolInv, NEW t \in Task, at[t] \in UnderWay, NEW p \in UnderWay, GoesOn(t, p)
  PROVE  Executing' = Executing /\ Raised' = Raised /\ UNCHANGED pool
  <1>1. at' = [at EXCEPT ![t] = p] /\ pooled' = pooled /\ at \in [Task -> Place]
    BY DEF GoesOn, pool, TypeOK
  <1>2. \A o \in pooled : /\ at'[o] \in UnderWay <=> at[o] \in UnderWay
                          /\ at'[o] = "raised" <=> at[o] = "raised"
    BY <1>1 DEF TypeOK, UnderWay
  <1> QED  BY <1>1, <1>2 DEF Executing, Raised, GoesOn

(* Of idle, ended and busy workers, one fewer is busy.                     *)
LEMMA OneLess ==
  ASSUME NEW i \in Nat, NEW e \in Nat, NEW c \in Nat, NEW j \in Nat, NEW f \in Nat, NEW d \in Nat,
         NEW w \in Nat, d = c - 1, i + e + c <= w
  PROVE  /\ j + f = i + e + 1 => j + f + d = i + e + c
         /\ j + f = i + e => j + f + d <= w
  <1>1. ASSUME j + f = i + e + 1  PROVE j + f + d = i + e + c
    BY <1>1
  <1>2. ASSUME j + f = i + e  PROVE j + f + d <= w
    BY <1>2
  <1> QED  BY <1>1, <1>2

(* The end of an execution frees its worker, or ends it.                   *)
LEMMA OverShape ==
  ASSUME TypeOK, PoolInv, NEW t \in Task, at[t] \in UnderWay, NEW p \in Finished, Over(t, p)
  PROVE  /\ UNCHANGED <<pooled, queue>>
         /\ unfinished' \in Nat /\ idle' \in 0..Workers /\ ended' \in 0..Workers
         /\ t \in pooled => Cardinality(Executing') = Cardinality(Executing) - 1
         /\ t \in pooled /\ unfinished > 0 =>
              /\ unfinished' = unfinished - 1
              /\ ended' = IF p = "raised" THEN ended + 1 ELSE ended
         /\ t \in pooled => Cardinality(Executing) \in Nat \ {0}
         /\ t \notin pooled => UNCHANGED <<unfinished, idle, ended>> /\ Executing' = Executing
         /\ IsFiniteSet(Executing') /\ idle' + ended' + Cardinality(Executing') <= Workers
         /\ running /\ idle + ended + Cardinality(Executing) = Workers =>
              idle' + ended' + Cardinality(Executing') = Workers
  <1>1. /\ at' = [at EXCEPT ![t] = p] /\ at \in [Task -> Place] /\ pooled \subseteq Task
        /\ unfinished \in Nat /\ idle \in Nat /\ ended \in Nat /\ Workers \in Nat
        /\ running \in BOOLEAN
    BY PoolAssumption DEF Over, TypeOK
  <1>2. UNCHANGED <<pooled, queue>>
    BY DEF Over, Free, Falls
  <1>3. p \notin UnderWay
    BY DEF UnderWay, Finished
  <1>4. Executing' = Executing \ {t}
    BY <1>1, <1>2, <1>3 DEF Executing
  <1>5. /\ IsFiniteSet(Executing') /\ Cardinality(Executing) \in Nat /\ Cardinality(Executing') \in Nat
        /\ Cardinality(Executing')
             = IF t \in Executing THEN Cardinality(Executing) - 1 ELSE Cardinality(Executing)
    BY <1>4, FS_RemoveElement, FS_CardinalityType DEF PoolInv
  <1>6. idle + ended + Cardinality(Executing) <= Workers
    BY DEF PoolInv
  <1>7. CASE t \in pooled
    <2>1. t \in Executing
      BY <1>7 DEF Executing
    <2>2. \/ /\ unfinished > 0 /\ unfinished' = unfinished - 1 /\ ended' = ended /\ p # "raised"
             /\ idle' = IF running THEN idle + 1 ELSE idle
          \/ /\ p # "raised" /\ ~(unfinished > 0)
             /\ ended' = ended + 1 /\ unfinished' = unfinished /\ idle' = idle
          \/ /\ p = "raised" /\ ended' = ended + 1 /\ idle' = idle
             /\ unfinished' = IF unfinished > 0 THEN unfinished - 1 ELSE unfinished
      BY <1>7 DEF Over, Free, Falls
    <2>3. /\ unfinished' \in Nat /\ idle' \in Nat /\ ended' \in Nat
          /\ unfinished > 0 =>
              /\ unfinished' = unfinished - 1
              /\ ended' = IF p = "raised" THEN ended + 1 ELSE ended
      BY <1>1, <2>2
    <2> DEFINE count == idle + ended
               sum == idle + ended + Cardinality(Executing)
    <2>4. \/ idle' + ended' = count + 1
          \/ ~running /\ idle' + ended' = count
      BY <1>1, <2>2
    <2>5. /\ Cardinality(Executing') = Cardinality(Executing) - 1
          /\ Cardinality(Executing) \in Nat \ {0}
      BY <1>5, <2>1
    <2>6. /\ idle' + ended' = count + 1 => idle' + ended' + Cardinality(Executing') = sum
          /\ idle' + ended' = count => idle' + ended' + Cardinality(Executing') <= Workers
          /\ sum <= Workers
      <3>1. idle \in Nat /\ ended \in Nat /\ idle' \in Nat /\ ended' \in Nat /\ Workers \in Nat
        BY <1>1, <2>3
      <3>2. /\ Cardinality(Executing) \in Nat /\ Cardinality(Executing') \in Nat
            /\ Cardinality(Executing') = Cardinality(Executing) - 1
        BY <1>5, <2>5
      <3> DEFINE c == Cardinality(Executing)
                 d == Cardinality(Executing')
                 i == idle
                 e == ended
                 j == idle'
                 f == ended'
      <3>3. /\ i \in Nat /\ e \in Nat /\ j \in Nat /\ f \in Nat /\ Workers \in Nat
            /\ c \in Nat /\ d \in Nat /\ d = c - 1 /\ i + e + c <= Workers
        BY <1>6, <3>1, <3>2
      <3> HIDE DEF c, d, i, e, j, f
      <3>4. /\ j + f = i + e + 1 => j + f + d = i + e + c
            /\ j + f = i + e => j + f + d <= Workers
        BY <3>3, OneLess
      <3> QED  BY <1>6, <3>4, Zenon DEF c, d, i, e, j, f
    <2> HIDE DEF sum, count
    <2>7. /\ idle' + ended' + Cardinality(Executing') <= Workers
          /\ running /\ sum = Workers => idle' + ended' + Cardinality(Executing') = Workers
      BY <2>4, <2>6, Zenon
    <2>8. /\ idle' + ended' + Cardinality(Executing') <= Workers
          /\ running /\ idle + ended + Cardinality(Executing) = Workers =>
               idle' + ended' + Cardinality(Executing') = Workers
      BY <2>7, Zenon DEF sum
    <2>9. idle' \in 0..Workers /\ ended' \in 0..Workers
      BY <1>1, <1>5, <2>3, <2>8
    <2> QED  BY <1>2, <1>5, <1>7, <2>3, <2>5, <2>8, <2>9
  <1>8. CASE t \notin pooled
    <2>1. UNCHANGED <<unfinished, idle, ended>>
      BY <1>8 DEF Over, Free, Falls
    <2>2. Executing' = Executing
      BY <1>4, <1>8 DEF Executing
    <2> QED  BY <1>1, <1>2, <1>5, <1>6, <1>8, <2>1, <2>2 DEF TypeOK
  <1> QED  BY <1>7, <1>8

(* The executions that raised, of those the pool had.                      *)
LEMMA OverRaises ==
  ASSUME TypeOK, PoolInv, NEW t \in Task, at[t] \in UnderWay, NEW p \in Finished, Over(t, p)
  PROVE  /\ Cardinality(Raised) \in Nat /\ Cardinality(Raised') \in Nat
         /\ Cardinality(Raised')
              = IF t \in pooled /\ p = "raised" THEN Cardinality(Raised) + 1 ELSE Cardinality(Raised)
  <1>1. at' = [at EXCEPT ![t] = p] /\ at \in [Task -> Place] /\ pooled \subseteq Task /\ pooled' = pooled
    BY DEF Over, Free, Falls, TypeOK
  <1>2. IsFiniteSet(Raised)
    <2>1. Raised \subseteq pooled
      BY DEF Raised
    <2> QED  BY <2>1, FS_Subset DEF PoolInv
  <1>3. t \notin Raised
    BY DEF Raised, UnderWay
  <1>4. Raised' = IF t \in pooled /\ p = "raised" THEN Raised \cup {t} ELSE Raised
    BY <1>1, <1>3 DEF Raised
  <1> QED  BY <1>2, <1>3, <1>4, FS_AddElement, FS_CardinalityType

-----------------------------------------------------------------------------
(* Type correctness, with the bound on the workers it needs. *)

(* The initial states.                                                     *)
LEMMA InitHolds == Init => IInv
  <1> SUFFICES ASSUME Init  PROVE IInv
    OBVIOUS
  <1>1. FreshBreaker \in Breaker /\ FreshBreaker.state = "CLOSED"
    BY ThresholdAssumption DEF FreshBreaker, Breaker, BreakerState
  <1>2. queue = <<>> /\ queue \in Seq(Entry) /\ Len(queue) = 0
    BY EmptySeq DEF Init
  <1>3. Executing = {}
    BY DEF Init, Executing
  <1>4. IsFiniteSet(Executing) /\ Cardinality(Executing) = 0
    BY <1>3, FS_EmptySet
  <1>5. TypeOK
    <2>1. MaxDrains \in Nat /\ MaxEnds \in Nat /\ QueueBound \in Nat /\ MaxRetries \in Nat /\ Workers \in Nat
      BY PoolAssumption, QueueAssumption
    <2>2. NoDrain \in [todo : SUBSET Task, save : Task \cup {None}]
      BY DEF NoDrain
    <2>3. /\ row \in [Task -> Status] /\ at \in [Task -> Place]
          /\ retries \in [Task -> 0..MaxRetries]
      BY <2>1 DEF Init, Place, Status
    <2>4. /\ running \in BOOLEAN /\ snapshot \in BOOLEAN /\ probe \in Task \cup {None} /\ drained \in BOOLEAN
          /\ breaker \in Breaker /\ drain \in [todo : SUBSET Task, save : Task \cup {None}]
      BY <1>1, <2>2 DEF Init
    <2>5. /\ pooled \subseteq Task /\ late \subseteq Task /\ unsaved \subseteq Task
          /\ queue \in Seq(Entry) /\ Len(queue) <= QueueBound
      BY <1>2, <2>1 DEF Init
    <2>6. /\ unfinished \in Nat /\ idle \in 0..Workers /\ ended \in 0..Workers
          /\ drains \in 0..MaxDrains /\ ends \in 0..MaxEnds
      BY <2>1 DEF Init
    <2> QED  BY <2>3, <2>4, <2>5, <2>6 DEF TypeOK
  <1>6. QueueInv
    BY <1>2 DEF Init, QueueInv
  <1>7. PoolInv
    <2>1. IsFiniteSet(pooled)
      BY FS_EmptySet DEF Init
    <2> QED  BY <1>4, <2>1, PoolAssumption DEF Init, PoolInv, Staffed
  <1>8. RowInv
    BY DEF Init, RowInv, RowTellsOutcome, NoDrain
  <1>9. CalmInv
    <2>1. Raised = {}
      BY DEF Init, Raised
    <2>2. Cardinality(Raised) = 0
      BY <2>1, FS_EmptySet
    <2> QED  BY <1>2, <1>4, <2>2 DEF Init, CalmInv, Calm
  <1>10. ProbeUnderWay
    BY <1>1 DEF Init, ProbeUnderWay
  <1> QED  BY <1>5, <1>6, <1>7, <1>8, <1>9, <1>10 DEF IInv

-----------------------------------------------------------------------------
(* Each step keeps the invariant. *)

(* The circuit's invariant, for the steps of an execution.                 *)
LEMMA StepKeepsProbe ==
  ASSUME TypeOK, ProbeUnderWay, NEW t \in Task, Step(t)
  PROVE  ProbeUnderWay'
  <1> SUFFICES ASSUME breaker'.state = "HALF_OPEN", breaker'.probeSent
               PROVE  /\ probe' # None
                      /\ \/ at'[probe'] \in Admitted \cup {"local", "raised"}
                         \/ at'[probe'] \in {"saving", "answered"} /\ breaker'.succStreak > 0
    BY DEF ProbeUnderWay
  <1>1. breaker \in Breaker /\ at \in [Task -> Place] /\ probe \in Task \cup {None} /\ t # None
    BY NoneAssumption DEF TypeOK
  <1>2. /\ AfterFailure(breaker).state # "HALF_OPEN"
        /\ AfterSuccess(breaker).state = "HALF_OPEN" =>
             /\ AfterSuccess(breaker).succStreak > 0 /\ breaker.state = "HALF_OPEN"
             /\ AfterSuccess(breaker).probeSent = breaker.probeSent
        /\ ~Allows(breaker) /\ Asked(breaker).state = "HALF_OPEN" => Asked(breaker) = breaker
    BY <1>1, BreakerHalfOpen
  <1>3. \A p \in Place : at' = [at EXCEPT ![t] = p] =>
          /\ at'[t] = p
          /\ \A o \in Task \ {t} : at'[o] = at[o]
    BY <1>1
  <1>4. breaker.state = "HALF_OPEN" /\ breaker.probeSent =>
          /\ probe # None /\ probe \in Task
          /\ \/ at[probe] \in Admitted \cup {"local", "raised"}
             \/ at[probe] \in {"saving", "answered"} /\ breaker.succStreak > 0
    BY <1>1 DEF ProbeUnderWay
  (* The breaker is as it was, and so is the probe, of another call.       *)
  <1>5. ASSUME breaker' = breaker, probe' = probe, \E p \in Place : at' = [at EXCEPT ![t] = p],
               at[t] \in {"ready", "backoff"}
        PROVE  /\ probe' # None
               /\ \/ at'[probe'] \in Admitted \cup {"local", "raised"}
                  \/ at'[probe'] \in {"saving", "answered"} /\ breaker'.succStreak > 0
    <2>1. probe # t
      BY <1>4, <1>5 DEF Admitted
    <2>2. at'[probe] = at[probe]
      BY <1>3, <1>4, <1>5, <2>1
    <2> QED  BY <1>4, <1>5, <2>2
  <1>6. CASE Refused(t)
    <2>1. breaker' = breaker /\ probe' = probe
      BY <1>2, <1>6 DEF Refused, Ask
    <2>2. \E p \in Place : at' = [at EXCEPT ![t] = p]
      BY <1>6 DEF Refused, Ends, Fails, Place, UnderWay, Finished
    <2> QED  BY <1>5, <1>6, <2>1, <2>2 DEF Refused
  <1>7. CASE Begin(t)
    <2>1. PICK p \in Admitted : at' = [at EXCEPT ![t] = p]
      BY <1>7 DEF Begin, Moves
    <2>2. p \in Place
      BY DEF Admitted, Place, UnderWay
    <2>3. probe' = t
      BY <1>7 DEF Begin, Ask
    <2> QED  BY <1>1, <1>3, <2>1, <2>2, <2>3
  <1>8. CASE Swallow(t)
    <2>1. at' = [at EXCEPT ![t] = "local"] /\ probe' = t
      BY <1>8 DEF Swallow, Ask, Ends
    <2>2. "local" \in Place
      BY DEF Place, Finished
    <2> QED  BY <1>1, <1>3, <2>1, <2>2
  <1>9. CASE WaitOver(t)
    <2>1. at' = [at EXCEPT ![t] = "invoked"] /\ UNCHANGED <<breaker, probe>>
      BY <1>9 DEF WaitOver, Moves
    <2>2. at'[t] \in Admitted /\ \A o \in Task \ {t} : at'[o] = at[o]
      BY <1>3, <2>1 DEF Place, UnderWay, Admitted
    <2> QED  BY <1>4, <2>1, <2>2
  <1>10. CASE Answer(t)
    <2>1. at' = [at EXCEPT ![t] = "saving"] /\ breaker' = AfterSuccess(breaker)
          /\ at[t] = "invoked"
      BY <1>10 DEF Answer, Settle, Moves
    <2>2. probe' = probe
      BY <1>10, <2>1 DEF Answer, Settle
    <2>3. at'[t] = "saving" /\ \A o \in Task \ {t} : at'[o] = at[o]
      BY <1>3, <2>1 DEF Place, UnderWay
    <2> QED  BY <1>2, <1>4, <2>1, <2>2, <2>3
  <1>11. CASE Error(t) \/ TimeOut(t)
    BY <1>2, <1>11 DEF Error, TimeOut, Settle
  <1>12. CASE Save(t)
    <2>1. at' = [at EXCEPT ![t] = "answered"] /\ UNCHANGED <<breaker, probe>> /\ at[t] = "saving"
      BY <1>12 DEF Save, Ends
    <2>2. at'[t] = "answered" /\ \A o \in Task \ {t} : at'[o] = at[o]
      BY <1>3, <2>1 DEF Place, Finished
    <2> QED  BY <1>4, <2>1, <2>2 DEF Admitted
  <1>13. CASE Again(t)
    <2>1. at' = [at EXCEPT ![t] = "ready"] /\ UNCHANGED <<breaker, probe>> /\ at[t] = "backoff"
      BY <1>13 DEF Again, Moves
    <2> QED  BY <1>5, <2>1 DEF Place, UnderWay
  <1>14. CASE Raise(t)
    <2>1. at' = [at EXCEPT ![t] = "raised"] /\ "raised" \in Place
      BY <1>14 DEF Raise, Falls, Place, Finished
    <2>2. at'[t] = "raised" /\ \A o \in Task \ {t} : at'[o] = at[o]
      BY <1>3, <2>1
    <2>3. CASE at[t] = "ready" /\ Ask(t)
      <3>1. CASE Allows(breaker)
        <4>1. probe' = t
          BY <2>3, <3>1 DEF Ask
        <4> QED  BY <1>1, <2>2, <4>1
      <3>2. CASE ~Allows(breaker)
        <4>1. breaker' = breaker /\ probe' = probe
          BY <1>2, <2>3, <3>2 DEF Ask
        <4> QED  BY <1>5, <2>1, <2>3, <4>1
      <3> QED  BY <3>1, <3>2
    <2>4. CASE UNCHANGED <<breaker, probe>>
      BY <1>4, <2>2, <2>4
    <2>5. CASE Settle(AfterFailure(breaker))
      BY <1>2, <2>5 DEF Settle
    <2> QED  BY <1>14, <2>3, <2>4, <2>5 DEF Raise
  <1> QED  BY <1>6, <1>7, <1>8, <1>9, <1>10, <1>11, <1>12, <1>13, <1>14 DEF Step

(* The rest of it, for the same steps.                                     *)
LEMMA StepKeeps ==
  ASSUME IInv, NEW t \in Task, Step(t)
  PROVE  IInv'
  <1>1. /\ TypeOK /\ QueueInv /\ PoolInv /\ RowInv /\ CalmInv /\ ProbeUnderWay
        /\ at \in [Task -> Place] /\ row \in [Task -> Status]
    BY DEF IInv, TypeOK
  <1>2. /\ at[t] \in UnderWay
        /\ UNCHANGED <<running, watch, unsaved, ends>>
        /\ snapshot' \in BOOLEAN /\ breaker' \in Breaker /\ probe' \in Task \cup {None}
        /\ retries' \in [Task -> 0..MaxRetries]
    BY <1>1, StepShape
  <1>3. PICK p \in UnderWay \cup Finished : (GoesOn(t, p) \/ Over(t, p)) /\ RowFollows(t, p)
    BY <1>1, StepShape
  <1>4. /\ at' = [at EXCEPT ![t] = p] /\ at' \in [Task -> Place]
        /\ at[t] \notin Finished \cup {"new", "queued", "gone"} /\ p \notin {"new", "queued", "gone"}
    BY <1>1, <1>2, <1>3 DEF GoesOn, Over, Place, UnderWay, Finished
  <1>5. /\ UNCHANGED <<pooled, queue>> /\ PoolInv'
        /\ unfinished' \in Nat /\ idle' \in 0..Workers /\ ended' \in 0..Workers
    <2>1. CASE GoesOn(t, p)
      <3>1. Executing' = Executing /\ UNCHANGED pool
        BY <1>1, <1>2, <2>1, GoesOnShape DEF GoesOn
      <3> QED  BY <1>1, <1>2, <3>1 DEF pool, PoolInv, Staffed, TypeOK
    <2>2. CASE Over(t, p)
      <3>1. /\ UNCHANGED <<pooled, queue>>
            /\ unfinished' \in Nat /\ idle' \in 0..Workers /\ ended' \in 0..Workers
            /\ IsFiniteSet(Executing') /\ idle' + ended' + Cardinality(Executing') <= Workers
            /\ running /\ idle + ended + Cardinality(Executing) = Workers =>
                 idle' + ended' + Cardinality(Executing') = Workers
        BY <1>1, <1>2, <2>2, OverShape DEF Over
      <3> QED  BY <1>1, <1>2, <3>1 DEF PoolInv, Staffed
    <2> QED  BY <1>3, <2>1, <2>2
  <1>6. row' \in [Task -> Status] /\ \A o \in Task \ {t} : row'[o] = row[o]
    BY <1>1, <1>3 DEF RowFollows, Status
  <1>7. /\ drain' = drain /\ late' = late /\ drained' = drained /\ drains' = drains
    BY <1>2 DEF watch
  <1>8. TypeOK'
    BY <1>1, <1>2, <1>4, <1>5, <1>6, <1>7 DEF TypeOK
  <1>9. QueueInv'
    <2>1. \A o \in Task : at[o] \in {"queued", "new"} => at'[o] = at[o]
      BY <1>1, <1>4
    <2>2. \A o \in Task : at'[o] = "new" => at[o] = "new"
      BY <1>1, <1>4
    <2>3. queue \in Seq(Entry)
      BY <1>1 DEF TypeOK
    <2>4. \A i \in 1..Len(queue) : queue[i].task \in Task
      <3>1. \A i \in 1..Len(queue) : queue[i] \in Entry
        BY <2>3, ElementOfSeq
      <3> QED  BY <3>1 DEF Entry
    <2> QED  BY <1>1, <1>5, <2>1, <2>2, <2>4 DEF QueueInv
  <1>10. RowInv'
    <2>1. row[t] \notin {"COMPLETED", "DLQ"}
      BY <1>1, <1>4 DEF RowInv, RowTellsOutcome, Finished
    <2>2. \A o \in Task \ {t} : at'[o] = at[o] /\ row'[o] = row[o]
      BY <1>1, <1>4, <1>6
    <2>3. /\ row'[t] = "COMPLETED" => at'[t] = "answered"
          /\ at'[t] = "answered" => row'[t] \in {"COMPLETED", "none"}
          /\ at'[t] = "dead" => row'[t] \in {"DLQ", "QUEUED", "none"}
          /\ row'[t] = "DLQ" => at'[t] \in {"dead", "gone"}
          /\ at'[t] = "raised" => row'[t] \in {"none", "QUEUED", "RETRYING", "FAILED"}
      BY <1>1, <1>3, <1>4, <2>1 DEF RowFollows, UnderWay, Status
    <2>4. RowTellsOutcome'
      BY <1>1, <2>2, <2>3 DEF RowInv, RowTellsOutcome
    <2>5. \A o \in Task : at[o] \in {"dead", "gone"} => at'[o] = at[o]
      BY <1>1, <1>4, <2>2 DEF Finished
    <2>6. drain.todo \cup late \subseteq Task /\ (drain.save # None => drain.save \in Task)
      BY <1>1 DEF TypeOK
    <2> QED  BY <1>1, <1>7, <2>4, <2>5, <2>6 DEF RowInv
  <1>11. CalmInv'
    <2> SUFFICES ASSUME ~drained  PROVE Calm' /\ \A i \in 1..Len(queue) : ~queue[i].bare
      BY <1>5, <1>7 DEF CalmInv
    <2>1. /\ ended <= Cardinality(Raised) /\ unfinished = Len(queue) + Cardinality(Executing)
          /\ \A o \in pooled \ unsaved : at[o] \in UnderWay \cup {"queued"} => row[o] # "none"
          /\ \A i \in 1..Len(queue) : ~queue[i].bare
      BY <1>1 DEF CalmInv, Calm
    <2>2. Len(queue) \in Nat /\ unfinished \in Nat /\ pooled \subseteq Task /\ ended \in Nat
      BY <1>1, LenProperties DEF TypeOK
    <2>3. \A o \in pooled \ unsaved : at'[o] \in UnderWay \cup {"queued"} => row'[o] # "none"
      <3>1. \A o \in (pooled \ unsaved) \ {t} :
              at'[o] \in UnderWay \cup {"queued"} => row'[o] # "none"
        BY <1>1, <1>4, <1>6, <2>1, <2>2
      <3>2. t \in pooled \ unsaved => row'[t] # "none"
        BY <1>1, <1>2, <1>3, <2>1 DEF RowFollows
      <3> QED  BY <3>1, <3>2
    <2>4. ended' <= Cardinality(Raised') /\ unfinished' = Len(queue) + Cardinality(Executing')
      <3>1. CASE GoesOn(t, p)
        BY <1>1, <1>2, <2>1, <3>1, GoesOnShape DEF GoesOn, pool
      <3>2. CASE Over(t, p)
        <4>1. /\ t \in pooled => Cardinality(Executing') = Cardinality(Executing) - 1
              /\ t \in pooled /\ unfinished > 0 =>
                   /\ unfinished' = unfinished - 1
                   /\ ended' = IF p = "raised" THEN ended + 1 ELSE ended
              /\ t \in pooled => Cardinality(Executing) \in Nat \ {0}
              /\ t \notin pooled => UNCHANGED <<unfinished, idle, ended>> /\ Executing' = Executing
          BY <1>1, <1>2, <3>2, OverShape DEF Over
        <4>2. /\ Cardinality(Raised) \in Nat
              /\ Cardinality(Raised') = IF t \in pooled /\ p = "raised"
                                        THEN Cardinality(Raised) + 1 ELSE Cardinality(Raised)
          BY <1>1, <1>2, <3>2, OverRaises DEF Over
        <4>3. CASE t \in pooled
          <5>1. unfinished > 0
            BY <2>1, <2>2, <4>1, <4>3
          <5> QED  BY <2>1, <2>2, <4>1, <4>2, <4>3, <5>1
        <4>4. CASE t \notin pooled
          BY <2>1, <4>1, <4>2, <4>4
        <4> QED  BY <4>3, <4>4
      <3> QED  BY <1>3, <3>1, <3>2
    <2> QED  BY <1>2, <1>5, <2>1, <2>3, <2>4 DEF Calm
  <1> QED  BY <1>1, <1>5, <1>8, <1>9, <1>10, <1>11, StepKeepsProbe DEF IInv

(* Entries are of tasks.                                                   *)
LEMMA EntriesTyped ==
  ASSUME TypeOK
  PROVE  /\ Len(queue) \in Nat
         /\ \A i \in 1..Len(queue) : queue[i].task \in Task /\ queue[i].bare \in BOOLEAN
  <1>1. queue \in Seq(Entry)
    BY DEF TypeOK
  <1>2. \A i \in 1..Len(queue) : queue[i] \in Entry
    BY <1>1, ElementOfSeq
  <1> QED  BY <1>1, <1>2, LenProperties DEF Entry

(* A submission.                                                           *)
LEMMA FireKeeps ==
  ASSUME IInv, NEW t \in Task, Fire(t)
  PROVE  IInv'
  <1>1. /\ TypeOK /\ QueueInv /\ PoolInv /\ RowInv /\ CalmInv /\ ProbeUnderWay
        /\ at \in [Task -> Place] /\ row \in [Task -> Status] /\ pooled \subseteq Task
    BY DEF IInv, TypeOK
  <1>2. /\ at[t] = "new" /\ at' = [at EXCEPT ![t] = "queued"]
        /\ \/ row' = [row EXCEPT ![t] = "QUEUED"] /\ UNCHANGED unsaved
           \/ row' = row /\ unsaved' = unsaved \cup {t}
        /\ pooled' = pooled \cup {t}
        /\ UNCHANGED <<running, breaker, snapshot, retries, idle, ended, drain, late, drained, drains,
                       probe, ends>>
    BY DEF Fire, watch
  <1>3. /\ queue' \in Seq(Entry) /\ Len(queue) \in Nat
        /\ Len(queue') = Len(queue) + 1 /\ Len(queue') <= QueueBound
        /\ \A i \in 1..Len(queue) : queue'[i] = queue[i]
        /\ queue'[Len(queue) + 1] = [task |-> t, bare |-> FALSE]
        /\ unfinished' \in Nat
        /\ ~PutRaises(FALSE) => unfinished' = unfinished + 1
    BY <1>1, PutShape DEF Fire
  <1>4. \A o \in Task \ {t} : at'[o] = at[o] /\ row'[o] = row[o]
    BY <1>1, <1>2
  <1>5. at'[t] = "queued" /\ row'[t] \in {row[t], "QUEUED"} /\ row' \in [Task -> Status]
        /\ at' \in [Task -> Place]
    BY <1>1, <1>2 DEF Status, Place
  <1>6. Executing' = Executing /\ Raised' = Raised
    BY <1>1, <1>2, <1>4, <1>5 DEF Executing, Raised, UnderWay
  <1>7. TypeOK'
    BY <1>1, <1>2, <1>3, <1>5 DEF TypeOK
  <1>8. \A i \in 1..Len(queue) : queue[i].task \in Task /\ queue[i].bare \in BOOLEAN
    BY <1>1, EntriesTyped
  <1>9. \A i \in 1..Len(queue') : i \in 1..Len(queue) \/ i = Len(queue) + 1
    BY <1>3
  <1>10. QueueInv'
    <2>1. \A i \in 1..Len(queue) : ~queue[i].bare => queue[i].task # t
      BY <1>1, <1>2 DEF QueueInv
    <2>2. \A i \in 1..Len(queue') :
            ~queue'[i].bare => at'[queue'[i].task] = "queued" /\ queue'[i].task \in pooled'
      BY <1>1, <1>2, <1>3, <1>4, <1>5, <1>8, <1>9, <2>1 DEF QueueInv
    <2>3. \A i, j \in 1..Len(queue') :
            ~queue'[i].bare /\ ~queue'[j].bare /\ queue'[i].task = queue'[j].task => i = j
      BY <1>1, <1>3, <1>9, <2>1 DEF QueueInv
    <2>4. \A o \in Task : at'[o] = "new" => o \notin pooled'
      BY <1>1, <1>2, <1>4, <1>5 DEF QueueInv
    <2> QED  BY <2>2, <2>3, <2>4 DEF QueueInv
  <1>11. PoolInv'
    <2>1. IsFiniteSet(pooled')
      BY <1>1, <1>2, FS_AddElement DEF PoolInv
    <2> QED  BY <1>1, <1>2, <1>6, <2>1 DEF PoolInv, Staffed
  <1>12. RowInv'
    <2>1. row[t] \notin {"COMPLETED", "DLQ"}
      BY <1>1, <1>2 DEF RowInv, RowTellsOutcome
    <2>2. RowTellsOutcome'
      BY <1>1, <1>4, <1>5, <2>1 DEF RowInv, RowTellsOutcome
    <2>3. \A o \in Task : at[o] \in {"dead", "gone"} => at'[o] = at[o]
      BY <1>2, <1>4
    <2> QED  BY <1>1, <1>2, <2>2, <2>3 DEF RowInv, TypeOK
  <1>13. CalmInv'
    <2> SUFFICES ASSUME ~drained
                 PROVE  Calm' /\ \A i \in 1..Len(queue') : ~queue'[i].bare
      BY <1>2 DEF CalmInv
    <2>1. /\ ended <= Cardinality(Raised) /\ unfinished = Len(queue) + Cardinality(Executing)
          /\ \A o \in pooled \ unsaved : at[o] \in UnderWay \cup {"queued"} => row[o] # "none"
          /\ \A i \in 1..Len(queue) : ~queue[i].bare
      BY <1>1 DEF CalmInv, Calm
    <2>2. ~PutRaises(FALSE)
      <3>1. queue # <<>> => Head(queue) = queue[1] /\ 1 \in 1..Len(queue)
        BY <1>1 DEF TypeOK
      <3> QED  BY <2>1, <3>1 DEF PutRaises
    <2>3. \A i \in 1..Len(queue') : ~queue'[i].bare
      BY <1>3, <1>9, <2>1
    <2>4. unfinished' = Len(queue') + Cardinality(Executing')
      <3>1. Cardinality(Executing) \in Nat
        BY <1>1, FS_CardinalityType DEF PoolInv
      <3> QED  BY <1>3, <1>6, <2>1, <2>2, <3>1
    <2>5. \A o \in pooled' \ unsaved' : at'[o] \in UnderWay \cup {"queued"} => row'[o] # "none"
      <3>1. t \notin unsaved' => row'[t] # "none"
        BY <1>1, <1>2
      <3>2. \A o \in (pooled' \ unsaved') \ {t} : o \in pooled \ unsaved
        BY <1>2
      <3> QED  BY <1>1, <1>4, <2>1, <3>1, <3>2
    <2> QED  BY <1>2, <1>6, <2>1, <2>3, <2>4, <2>5 DEF Calm
  <1>14. ProbeUnderWay'
    <2>1. \A o \in Task \ {t} : at'[o] = at[o]
      BY <1>4
    <2>2. breaker.state = "HALF_OPEN" /\ breaker.probeSent => probe \in Task \ {t}
      BY <1>1, <1>2 DEF ProbeUnderWay, Admitted, TypeOK
    <2> QED  BY <1>1, <1>2, <2>1, <2>2 DEF ProbeUnderWay
  <1> QED  BY <1>7, <1>10, <1>11, <1>12, <1>13, <1>14 DEF IInv

(* A call of run, which needs no worker.                                   *)
LEMMA RunKeeps ==
  ASSUME IInv, NEW t \in Task, Run(t)
  PROVE  IInv'
  <1>1. /\ TypeOK /\ QueueInv /\ PoolInv /\ RowInv /\ CalmInv /\ ProbeUnderWay
        /\ at \in [Task -> Place] /\ pooled \subseteq Task
    BY DEF IInv, TypeOK
  <1>2. /\ at[t] = "new" /\ at' = [at EXCEPT ![t] = "ready"]
        /\ UNCHANGED <<running, breaker, snapshot, row, retries, pooled, queue, unfinished, idle,
                       ended, drain, late, drained, drains, probe, unsaved, ends>>
    BY DEF Run, pool, watch, aux
  <1>3. /\ at'[t] = "ready" /\ t \notin pooled /\ at' \in [Task -> Place]
        /\ \A o \in Task \ {t} : at'[o] = at[o]
    BY <1>1, <1>2 DEF QueueInv, Place, UnderWay
  <1>4. Executing' = Executing /\ Raised' = Raised
    BY <1>1, <1>2, <1>3 DEF Executing, Raised
  <1>5. TypeOK'
    BY <1>1, <1>2, <1>3 DEF TypeOK
  <1>6. QueueInv'
    <2>1. \A i \in 1..Len(queue) : ~queue[i].bare => queue[i].task # t /\ queue[i].task \in Task
      BY <1>1, <1>3, EntriesTyped DEF QueueInv
    <2> QED  BY <1>1, <1>2, <1>3, <2>1 DEF QueueInv
  <1>7. PoolInv'
    BY <1>1, <1>2, <1>4 DEF PoolInv, Staffed
  <1>8. RowInv'
    <2>1. RowTellsOutcome'
      BY <1>1, <1>2, <1>3 DEF RowInv, RowTellsOutcome
    <2>2. \A o \in Task : at[o] \in {"dead", "gone"} => at'[o] = at[o]
      BY <1>2, <1>3
    <2> QED  BY <1>1, <1>2, <2>1, <2>2 DEF RowInv, TypeOK
  <1>9. CalmInv'
    <2>1. \A o \in pooled : at'[o] = at[o]
      BY <1>1, <1>3
    <2> QED  BY <1>1, <1>2, <1>4, <2>1 DEF CalmInv, Calm
  <1>10. ProbeUnderWay'
    <2>1. \A o \in Task \ {t} : at'[o] = at[o]
      BY <1>3
    <2>2. breaker.state = "HALF_OPEN" /\ breaker.probeSent => probe \in Task \ {t}
      BY <1>1, <1>2 DEF ProbeUnderWay, Admitted, TypeOK
    <2> QED  BY <1>1, <1>2, <2>1, <2>2 DEF ProbeUnderWay
  <1> QED  BY <1>5, <1>6, <1>7, <1>8, <1>9, <1>10 DEF IInv

(* A worker's get.                                                         *)
LEMMA TakeKeeps ==
  ASSUME IInv, Take
  PROVE  IInv'
  <1>1. /\ TypeOK /\ QueueInv /\ PoolInv /\ RowInv /\ CalmInv /\ ProbeUnderWay
        /\ at \in [Task -> Place] /\ pooled \subseteq Task /\ idle \in Nat /\ ended \in Nat
        /\ Workers \in Nat
    BY PoolAssumption DEF IInv, TypeOK
  <1>2. /\ idle > 0 /\ queue # <<>> /\ queue' = Tail(queue) /\ idle' = idle - 1
        /\ UNCHANGED <<running, breaker, snapshot, row, retries, pooled, unfinished, drain, late,
                       drained, drains, probe, unsaved, ends>>
    BY DEF Take, watch, aux
  <1>3. /\ queue' \in Seq(Entry) /\ Len(queue) \in Nat \ {0}
        /\ Len(queue') = Len(queue) - 1 /\ Len(queue') <= QueueBound
        /\ \A i \in 1..Len(queue') : queue'[i] = queue[i + 1]
        /\ Head(queue) = queue[1] /\ Head(queue) \in Entry
    BY <1>1, <1>2, TakeShape
  <1>4. \A i \in 1..Len(queue) : queue[i].task \in Task /\ queue[i].bare \in BOOLEAN
    BY <1>1, EntriesTyped
  <1>5. \A i \in 1..Len(queue') : i + 1 \in 1..Len(queue) /\ i + 1 # 1
    BY <1>3
  <1>6. IsFiniteSet(Executing) /\ Cardinality(Executing) \in Nat
        /\ idle + ended + Cardinality(Executing) <= Workers
    BY <1>1, FS_CardinalityType DEF PoolInv
  <1>7. CASE GetRaises \/ Head(queue).bare
    <2>1. ended' = ended + 1 /\ at' = at
      BY <1>7 DEF Take
    <2>2. Executing' = Executing
      BY <1>2, <2>1 DEF Executing
    <2>3. PoolInv' /\ idle' \in 0..Workers /\ ended' \in 0..Workers
      <3>1. /\ idle' + ended' + Cardinality(Executing') = idle + ended + Cardinality(Executing)
            /\ idle' \in 0..Workers /\ ended' \in 0..Workers
        BY <1>1, <1>2, <1>6, <2>1, <2>2
      <3>2. Staffed' /\ IsFiniteSet(pooled')
        BY <1>1, <1>2, <3>1, Zenon DEF PoolInv, Staffed
      <3> QED  BY <1>6, <2>2, <3>1, <3>2 DEF PoolInv
    <2>4. TypeOK'
      BY <1>1, <1>2, <1>3, <2>1, <2>3 DEF TypeOK
    <2>5. QueueInv'
      <3>1. \A i \in 1..Len(queue') :
              ~queue'[i].bare => at[queue'[i].task] = "queued" /\ queue'[i].task \in pooled
        BY <1>1, <1>3, <1>5 DEF QueueInv
      <3>2. \A i, j \in 1..Len(queue') :
              ~queue'[i].bare /\ ~queue'[j].bare /\ queue'[i].task = queue'[j].task => i = j
        <4> SUFFICES ASSUME NEW i \in 1..Len(queue'), NEW j \in 1..Len(queue'), ~queue'[i].bare,
                            ~queue'[j].bare, queue'[i].task = queue'[j].task
                     PROVE  i = j
          OBVIOUS
        <4>1. i + 1 = j + 1
          BY <1>1, <1>3, <1>5 DEF QueueInv
        <4> QED  BY <4>1
      <3> QED  BY <1>1, <1>2, <2>1, <3>1, <3>2 DEF QueueInv
    <2>6. RowInv' /\ ProbeUnderWay'
      BY <1>1, <1>2, <2>1 DEF RowInv, RowTellsOutcome, ProbeUnderWay
    <2>7. CalmInv'
      <3>1. drained
        <4>1. Len(queue) = 3 => 2 \in 1..Len(queue) /\ 3 \in 1..Len(queue)
          OBVIOUS
        <4>2. 1 \in 1..Len(queue)
          BY <1>3
        <4> QED  BY <1>1, <1>3, <1>7, <4>1, <4>2 DEF CalmInv, GetRaises
      <3> QED  BY <1>2, <3>1 DEF CalmInv
    <2> QED  BY <2>3, <2>4, <2>5, <2>6, <2>7 DEF IInv
  <1>8. CASE ~(GetRaises \/ Head(queue).bare)
    <2> DEFINE t == Head(queue).task
    <2>1. t \in Task /\ at' = [at EXCEPT ![t] = "ready"] /\ ended' = ended
      BY <1>3, <1>8 DEF Take, Entry
    <2>2. at[t] = "queued" /\ t \in pooled
      BY <1>1, <1>3, <1>8 DEF QueueInv
    <2> HIDE DEF t
    <2>3. /\ at'[t] = "ready" /\ at' \in [Task -> Place] /\ \A o \in Task \ {t} : at'[o] = at[o]
      BY <1>1, <2>1 DEF Place, UnderWay
    <2>4. Executing' = Executing \cup {t} /\ t \notin Executing
      BY <1>1, <1>2, <2>2, <2>3 DEF Executing, UnderWay
    <2>5. IsFiniteSet(Executing') /\ Cardinality(Executing') = Cardinality(Executing) + 1
      BY <1>6, <2>4, FS_AddElement
    <2>6. PoolInv' /\ idle' \in 0..Workers /\ ended' \in 0..Workers
      <3>1. /\ idle' + ended' + Cardinality(Executing') = idle + ended + Cardinality(Executing)
            /\ idle' \in 0..Workers /\ ended' \in 0..Workers
        BY <1>1, <1>2, <1>6, <2>1, <2>5
      <3>2. Staffed' /\ IsFiniteSet(pooled')
        BY <1>1, <1>2, <3>1, Zenon DEF PoolInv, Staffed
      <3> QED  BY <1>6, <2>5, <3>1, <3>2 DEF PoolInv
    <2>7. TypeOK'
      BY <1>1, <1>2, <1>3, <2>3, <2>6 DEF TypeOK
    <2>8. QueueInv'
      <3>1. \A i \in 1..Len(queue') : ~queue'[i].bare => queue'[i].task # t
        <4>1. 1 \in 1..Len(queue) /\ ~queue[1].bare /\ queue[1].task = t
          BY <1>3, <1>8 DEF t
        <4> SUFFICES ASSUME NEW i \in 1..Len(queue'), ~queue'[i].bare, queue'[i].task = t  PROVE FALSE
          OBVIOUS
        <4>2. i + 1 = 1
          BY <1>1, <1>3, <1>5, <4>1 DEF QueueInv
        <4> QED  BY <1>5, <4>2
      <3>2. \A i \in 1..Len(queue') :
              ~queue'[i].bare => at'[queue'[i].task] = "queued" /\ queue'[i].task \in pooled
        <4> SUFFICES ASSUME NEW i \in 1..Len(queue'), ~queue'[i].bare
                     PROVE  at'[queue'[i].task] = "queued" /\ queue'[i].task \in pooled
          OBVIOUS
        <4>1. queue'[i] = queue[i + 1] /\ i + 1 \in 1..Len(queue) /\ queue[i + 1].task \in Task
          BY <1>3, <1>4, <1>5
        <4>2. at[queue'[i].task] = "queued" /\ queue'[i].task \in pooled
          BY <1>1, <4>1 DEF QueueInv
        <4> QED  BY <2>3, <3>1, <4>1, <4>2
      <3>3. \A i, j \in 1..Len(queue') :
              ~queue'[i].bare /\ ~queue'[j].bare /\ queue'[i].task = queue'[j].task => i = j
        <4> SUFFICES ASSUME NEW i \in 1..Len(queue'), NEW j \in 1..Len(queue'), ~queue'[i].bare,
                            ~queue'[j].bare, queue'[i].task = queue'[j].task
                     PROVE  i = j
          OBVIOUS
        <4>1. i + 1 = j + 1
          BY <1>1, <1>3, <1>5 DEF QueueInv
        <4> QED  BY <4>1
      <3>4. \A o \in Task : at'[o] = "new" => o \notin pooled'
        BY <1>1, <1>2, <2>3 DEF QueueInv
      <3> QED  BY <1>2, <3>2, <3>3, <3>4 DEF QueueInv
    <2>9. RowInv'
      <3>1. RowTellsOutcome'
        BY <1>1, <1>2, <2>2, <2>3 DEF RowInv, RowTellsOutcome
      <3>2. \A o \in Task : at[o] \in {"dead", "gone"} => at'[o] = at[o]
        BY <2>2, <2>3
      <3> QED  BY <1>1, <1>2, <3>1, <3>2 DEF RowInv, TypeOK
    <2>10. CalmInv'
      <3> SUFFICES ASSUME ~drained
                   PROVE  Calm' /\ \A i \in 1..Len(queue') : ~queue'[i].bare
        BY <1>2 DEF CalmInv
      <3>1. /\ ended <= Cardinality(Raised) /\ unfinished = Len(queue) + Cardinality(Executing)
            /\ \A o \in pooled \ unsaved : at[o] \in UnderWay \cup {"queued"} => row[o] # "none"
            /\ \A i \in 1..Len(queue) : ~queue[i].bare
        BY <1>1 DEF CalmInv, Calm
      <3>2. \A i \in 1..Len(queue') : ~queue'[i].bare
        BY <1>3, <1>5, <3>1
      <3>3. unfinished' = Len(queue') + Cardinality(Executing')
        BY <1>2, <1>3, <1>6, <2>5, <3>1
      <3>4. \A o \in pooled \ unsaved : at'[o] \in UnderWay \cup {"queued"} => row[o] # "none"
        BY <1>1, <2>2, <2>3, <3>1
      <3>5. Raised' = Raised
        BY <1>1, <1>2, <2>2, <2>3 DEF Raised
      <3> QED  BY <1>2, <2>1, <3>1, <3>2, <3>3, <3>4, <3>5 DEF Calm
    <2>11. ProbeUnderWay'
      <3>1. breaker.state = "HALF_OPEN" /\ breaker.probeSent => probe \in Task \ {t}
        BY <1>1, <2>2 DEF ProbeUnderWay, Admitted, TypeOK
      <3> QED  BY <1>1, <1>2, <2>3, <3>1 DEF ProbeUnderWay
    <2> QED  BY <2>6, <2>7, <2>8, <2>9, <2>10, <2>11 DEF IInv
  <1> QED  BY <1>7, <1>8

(* What the steps that leave the executions alone do: those of the         *)
(* watchdog, and time.                                                     *)
RowMoves ==
  /\ row' \in [Task -> Status]
  /\ \A t \in Task : \/ row'[t] = row[t]
                     \/ at[t] \in {"dead", "gone"} /\ row'[t] = "QUEUED"
                     \/ at[t] \in Finished \cup {"gone"} /\ row'[t] = "none"

DrainMoves ==
  /\ drained' \in BOOLEAN /\ drains' \in 0..MaxDrains
  /\ drain' \in [todo : SUBSET Task, save : Task \cup {None}] /\ late' \subseteq Task
  /\ \A t \in drain'.todo \cup late' : at[t] \in {"dead", "gone"}
  /\ drain'.save # None => at[drain'.save] \in {"dead", "gone"}

QueueMoves ==
  \/ UNCHANGED <<queue, unfinished, drained>>
  \/ drained' = TRUE /\ \E t \in Task : Put(t, TRUE)

(* They keep the invariant.                                                *)
LEMMA QuietKeeps ==
  ASSUME IInv, UNCHANGED <<at, retries, pooled, idle, ended, unsaved>>, RowMoves, DrainMoves, QueueMoves,
         running' \in BOOLEAN, running' => running, snapshot' \in BOOLEAN, breaker' \in Breaker,
         probe' \in Task \cup {None},
         ends' \in 0..MaxEnds, ProbeUnderWay'
  PROVE  IInv'
  <1>1. /\ TypeOK /\ QueueInv /\ PoolInv /\ RowInv /\ CalmInv
        /\ at \in [Task -> Place] /\ pooled \subseteq Task
    BY DEF IInv, TypeOK
  <1>2. /\ queue' \in Seq(Entry) /\ Len(queue') <= QueueBound /\ unfinished' \in Nat
        /\ \A i \in 1..Len(queue') :
             (i \in 1..Len(queue) /\ queue'[i] = queue[i]) \/ (drained' /\ queue'[i].bare)
    <2>1. CASE UNCHANGED <<queue, unfinished, drained>>
      BY <1>1, <2>1 DEF TypeOK
    <2>2. CASE drained' = TRUE /\ \E t \in Task : Put(t, TRUE)
      <3>1. PICK t \in Task : Put(t, TRUE)
        BY <2>2
      <3>2. /\ queue' \in Seq(Entry) /\ Len(queue) \in Nat
            /\ Len(queue') = Len(queue) + 1 /\ Len(queue') <= QueueBound
            /\ \A i \in 1..Len(queue) : queue'[i] = queue[i]
            /\ queue'[Len(queue) + 1] = [task |-> t, bare |-> TRUE]
            /\ unfinished' \in Nat
        BY <1>1, <3>1, PutShape
      <3> QED  BY <2>2, <3>2
    <2> QED  BY <2>1, <2>2 DEF QueueMoves
  <1>3. Executing' = Executing /\ Raised' = Raised
    BY DEF Executing, Raised
  <1>4. TypeOK'
    BY <1>1, <1>2 DEF TypeOK, RowMoves, DrainMoves
  <1>5. QueueInv'
    BY <1>1, <1>2 DEF QueueInv
  <1>6. PoolInv'
    BY <1>1, <1>3 DEF PoolInv, Staffed
  <1>7. RowInv'
    BY <1>1 DEF RowInv, RowTellsOutcome, Finished, RowMoves, DrainMoves
  <1>8. CalmInv'
    <2> SUFFICES ASSUME ~drained'  PROVE CalmInv'
      BY DEF CalmInv
    <2>1. UNCHANGED <<queue, unfinished, drained>>
      BY DEF QueueMoves
    <2>2. \A o \in pooled : at[o] \in UnderWay \cup {"queued"} => row'[o] = row[o]
      BY <1>1 DEF UnderWay, Finished, RowMoves
    <2> QED  BY <1>1, <1>3, <2>1, <2>2 DEF CalmInv, Calm
  <1> QED  BY <1>4, <1>5, <1>6, <1>7, <1>8 DEF IInv

(* The watchdog and the requests to drain.                                 *)
LEMMA WatchKeeps ==
  ASSUME IInv,
         \/ DrainRead \/ DrainSave \/ DrainByRequest \/ Prune
         \/ \E t \in Task : DrainPut(t) \/ DrainGivesUp(t) \/ LatePut(t)
  PROVE  IInv'
  <1>1. /\ TypeOK /\ RowInv /\ ProbeUnderWay
        /\ running \in BOOLEAN /\ snapshot \in BOOLEAN /\ breaker \in Breaker
        /\ probe \in Task \cup {None} /\ drained \in BOOLEAN
        /\ drains \in 0..MaxDrains /\ ends \in 0..MaxEnds /\ MaxDrains \in Nat
        /\ drain \in [todo : SUBSET Task, save : Task \cup {None}] /\ late \subseteq Task
        /\ row \in [Task -> Status] /\ at \in [Task -> Place]
    BY QueueAssumption DEF IInv, TypeOK
  <1>2. /\ \A t \in drain.todo \cup late \cup DeadLetters : at[t] \in {"dead", "gone"} /\ t \in Task
        /\ drain.save # None => at[drain.save] \in {"dead", "gone"} /\ drain.save \in Task
    BY <1>1 DEF RowInv, RowTellsOutcome, DeadLetters
  <1>3. /\ UNCHANGED <<running, snapshot, at, retries, pooled, idle, ended, ends, breaker, probe,
                       unsaved>>
        /\ ProbeUnderWay'
    <2>1. /\ UNCHANGED <<running, snapshot, at, retries, pooled, idle, ended, ends>>
          /\ UNCHANGED <<breaker, probe, unsaved>>
      BY DEF DrainRead, DrainSave, DrainByRequest, Prune, DrainPut, DrainGivesUp, LatePut, WatchOnly, calls
    <2> QED  BY <1>1, <2>1 DEF ProbeUnderWay
  <1>4. CASE DrainRead
    <2>1. /\ drain' = [drain EXCEPT !.todo = DeadLetters] /\ DeadLetters \subseteq Task
          /\ drains' = drains + 1 /\ drains < MaxDrains
          /\ UNCHANGED <<row, queue, unfinished, late, drained>>
      BY <1>4 DEF DrainRead, DeadLetters
    <2>2. /\ drain' \in [todo : SUBSET Task, save : Task \cup {None}]
          /\ drain'.todo = DeadLetters /\ drain'.save = drain.save
      BY <1>1, <2>1
    <2>3. drains' \in 0..MaxDrains
      BY <1>1, <2>1
    <2>4. DrainMoves
      BY <1>1, <1>2, <2>1, <2>2, <2>3 DEF DrainMoves
    <2>5. RowMoves /\ QueueMoves
      BY <1>1, <2>1 DEF RowMoves, QueueMoves
    <2> QED  BY <1>1, <1>3, <2>4, <2>5, QuietKeeps
  <1>5. CASE DrainByRequest
    <2>1. /\ late' = late \cup DeadLetters /\ DeadLetters \subseteq Task
          /\ drains' = drains + 1 /\ drains < MaxDrains
          /\ UNCHANGED <<row, queue, unfinished, drain, drained>>
      BY <1>5 DEF DrainByRequest, DeadLetters
    <2>2. drains' \in 0..MaxDrains
      BY <1>1, <2>1
    <2>3. DrainMoves
      BY <1>1, <1>2, <2>1, <2>2 DEF DrainMoves
    <2>4. RowMoves /\ QueueMoves
      BY <1>1, <2>1 DEF RowMoves, QueueMoves
    <2> QED  BY <1>1, <1>3, <2>3, <2>4, QuietKeeps
  <1>6. CASE DrainSave
    <2>1. /\ drain.save # None /\ row' \in {row, [row EXCEPT ![drain.save] = "QUEUED"]}
          /\ drain' = [drain EXCEPT !.save = None]
          /\ UNCHANGED <<queue, unfinished, late, drained, drains>>
      BY <1>6 DEF DrainSave
    <2>2. /\ drain' \in [todo : SUBSET Task, save : Task \cup {None}]
          /\ drain'.todo = drain.todo /\ drain'.save = None
      BY <1>1, <2>1
    <2>3. row' \in [Task -> Status]
      BY <1>1, <2>1 DEF Status
    <2>4. \A t \in Task : row'[t] = row[t] \/ (at[t] \in {"dead", "gone"} /\ row'[t] = "QUEUED")
      BY <1>1, <1>2, <2>1
    <2>5. DrainMoves
      BY <1>1, <1>2, <2>1, <2>2 DEF DrainMoves
    <2>6. RowMoves /\ QueueMoves
      BY <2>1, <2>3, <2>4 DEF RowMoves, QueueMoves
    <2> QED  BY <1>1, <1>3, <2>5, <2>6, QuietKeeps
  <1>7. CASE Prune
    <2>1. /\ row' \in [Task -> Status]
          /\ \A t \in Task : row'[t] = row[t] \/ (at[t] \in Finished \cup {"gone"} /\ row'[t] = "none")
      BY <1>1, <1>7 DEF Prune, Status
    <2>2. UNCHANGED <<queue, unfinished, drain, late, drained, drains>>
      BY <1>7 DEF Prune, watch
    <2>3. DrainMoves
      BY <1>1, <1>2, <2>2 DEF DrainMoves
    <2>4. RowMoves /\ QueueMoves
      BY <2>1, <2>2 DEF RowMoves, QueueMoves
    <2> QED  BY <1>1, <1>3, <2>3, <2>4, QuietKeeps
  <1>8. ASSUME NEW t \in Task, DrainPut(t)  PROVE IInv'
    <2>1. /\ Put(t, TRUE) /\ drained' = TRUE /\ t \in drain.todo
          /\ drain' = [todo |-> drain.todo \ {t}, save |-> IF PutRaises(TRUE) THEN None ELSE t]
          /\ UNCHANGED <<row, late, drains>>
      BY <1>8 DEF DrainPut
    <2>2. /\ drain' \in [todo : SUBSET Task, save : Task \cup {None}]
          /\ drain'.todo \subseteq drain.todo /\ drain'.save \in {None, t}
      BY <1>1, <2>1
    <2>3. DrainMoves
      BY <1>1, <1>2, <2>1, <2>2 DEF DrainMoves
    <2>4. RowMoves /\ QueueMoves
      BY <1>1, <2>1 DEF RowMoves, QueueMoves
    <2> QED  BY <1>1, <1>3, <2>3, <2>4, QuietKeeps
  <1>9. ASSUME NEW t \in Task, DrainGivesUp(t)  PROVE IInv'
    <2>1. /\ drain' = [drain EXCEPT !.todo = @ \ {t}] /\ late' = late \cup {t} /\ t \in drain.todo
          /\ UNCHANGED <<row, queue, unfinished, drained, drains>>
      BY <1>9 DEF DrainGivesUp
    <2>2. /\ drain' \in [todo : SUBSET Task, save : Task \cup {None}]
          /\ drain'.todo \subseteq drain.todo /\ drain'.save = drain.save
      BY <1>1, <2>1
    <2>3. DrainMoves
      BY <1>1, <1>2, <2>1, <2>2 DEF DrainMoves
    <2>4. RowMoves /\ QueueMoves
      BY <1>1, <2>1 DEF RowMoves, QueueMoves
    <2> QED  BY <1>1, <1>3, <2>3, <2>4, QuietKeeps
  <1>10. ASSUME NEW t \in Task, LatePut(t)  PROVE IInv'
    <2>1. /\ Put(t, TRUE) /\ drained' = TRUE /\ late' = late \ {t}
          /\ UNCHANGED <<row, drain, drains>>
      BY <1>10 DEF LatePut
    <2>2. DrainMoves
      BY <1>1, <1>2, <2>1 DEF DrainMoves
    <2>3. RowMoves /\ QueueMoves
      BY <1>1, <2>1 DEF RowMoves, QueueMoves
    <2> QED  BY <1>1, <1>3, <2>2, <2>3, QuietKeeps
  <1> QED  BY <1>4, <1>5, <1>6, <1>7, <1>8, <1>9, <1>10

(* Time, looks at the circuit, and the end of the mesh.                    *)
LEMMA TimeKeeps ==
  ASSUME IInv, Elapse \/ Look \/ Stop
  PROVE  IInv'
  <1>1. /\ TypeOK /\ RowInv /\ ProbeUnderWay
        /\ running \in BOOLEAN /\ snapshot \in BOOLEAN /\ breaker \in Breaker
        /\ probe \in Task \cup {None} /\ drained \in BOOLEAN
        /\ drains \in 0..MaxDrains /\ ends \in 0..MaxEnds /\ MaxEnds \in Nat
        /\ drain \in [todo : SUBSET Task, save : Task \cup {None}] /\ late \subseteq Task
        /\ row \in [Task -> Status] /\ at \in [Task -> Place]
    BY QueueAssumption DEF IInv, TypeOK
  <1>2. /\ \A t \in drain.todo \cup late : at[t] \in {"dead", "gone"}
        /\ drain.save # None => at[drain.save] \in {"dead", "gone"}
    BY <1>1 DEF RowInv
  <1>3. UNCHANGED <<snapshot, row, at, retries, pooled, queue, unfinished, idle, ended, drain, late,
                    drained, drains, unsaved>>
    BY DEF Elapse, Look, Stop, calls, pool, watch, aux
  <1>4. running' \in BOOLEAN /\ (running' => running) /\ ends' \in 0..MaxEnds
    <2>1. running' = running \/ running' = FALSE
      BY DEF Elapse, Look, Stop
    <2>2. ends' = ends \/ (ends < MaxEnds /\ ends' = ends + 1)
      BY DEF Elapse, Look, Stop
    <2>3. ends' \in 0..MaxEnds
      BY <1>1, <2>2
    <2>4. running' \in BOOLEAN
      BY <1>1, <2>1, Zenon
    <2>5. running' => running
      BY <2>1, Zenon
    <2> QED  BY <2>3, <2>4, <2>5
  <1>5. breaker' \in Breaker /\ probe' \in Task \cup {None} /\ ProbeUnderWay'
    <2>1. CASE Elapse
      <3>1. /\ breaker' = [breaker EXCEPT !.over = TRUE] /\ breaker.state = "OPEN"
            /\ UNCHANGED probe
        BY <2>1 DEF Elapse, aux
      <3>2. breaker' \in Breaker /\ breaker'.state = "OPEN"
        BY <1>1, <3>1 DEF Breaker
      <3> QED  BY <1>1, <3>1, <3>2 DEF ProbeUnderWay
    <2>2. CASE Look
      <3>1. breaker' = Evaluated(breaker) /\ Evaluated(breaker) # breaker
            /\ probe' \in Task \cup {None}
        BY <1>1, <2>2 DEF Look, Settle
      <3> QED  BY <1>1, <3>1, BreakerTypes, BreakerHalfOpen DEF ProbeUnderWay
    <2>3. CASE Stop
      BY <1>1, <1>3, <2>3 DEF Stop, ProbeUnderWay, aux
    <2> QED  BY <2>1, <2>2, <2>3
  <1>6. DrainMoves
    BY <1>1, <1>2, <1>3 DEF DrainMoves
  <1>7. RowMoves /\ QueueMoves
    BY <1>1, <1>3 DEF RowMoves, QueueMoves
  <1> QED  BY <1>1, <1>3, <1>4, <1>5, <1>6, <1>7, QuietKeeps

(* A worker that leaves a mesh that was stopped.                           *)
LEMMA LeaveKeeps ==
  ASSUME IInv, Leave
  PROVE  IInv'
  <1>1. /\ TypeOK /\ QueueInv /\ PoolInv /\ RowInv /\ CalmInv /\ ProbeUnderWay
        /\ idle \in 0..Workers /\ ended \in Nat /\ Workers \in Nat
    BY PoolAssumption DEF IInv, TypeOK
  <1>2. /\ ~running /\ idle > 0 /\ idle' = idle - 1
        /\ UNCHANGED <<running, breaker, snapshot, row, at, retries, pooled, queue, unfinished, ended,
                       drain, late, drained, drains, probe, unsaved, ends>>
    BY DEF Leave, calls, watch, aux
  <1>3. Executing' = Executing /\ Raised' = Raised
    BY <1>2 DEF Executing, Raised
  <1>4. PoolInv' /\ idle' \in 0..Workers
    <2>1. Cardinality(Executing) \in Nat
      BY <1>1, FS_CardinalityType DEF PoolInv
    <2> QED  BY <1>1, <1>2, <1>3, <2>1 DEF PoolInv, Staffed
  <1>5. TypeOK'
    BY <1>1, <1>2, <1>4 DEF TypeOK
  <1>6. QueueInv' /\ RowInv' /\ ProbeUnderWay'
    BY <1>1, <1>2 DEF QueueInv, RowInv, RowTellsOutcome, ProbeUnderWay
  <1>7. CalmInv'
    BY <1>1, <1>2, <1>3 DEF CalmInv, Calm
  <1> QED  BY <1>4, <1>5, <1>6, <1>7 DEF IInv

(* A process that starts again.                                            *)
LEMMA RestartKeeps ==
  ASSUME IInv, Restart
  PROVE  IInv'
  <1>1. /\ TypeOK /\ QueueInv /\ PoolInv /\ RowInv
        /\ at \in [Task -> Place] /\ pooled \subseteq Task /\ ends \in 0..MaxEnds /\ MaxEnds \in Nat
        /\ QueueBound \in Nat /\ Workers \in Nat
    BY PoolAssumption, QueueAssumption DEF IInv, TypeOK
  <1>2. /\ ends < MaxEnds /\ ends' = ends + 1 /\ running' = TRUE
        /\ breaker' = FreshBreaker /\ probe' = None
        /\ at' = [t \in Task |-> IF at[t] \in UnderWay \cup {"queued"} THEN "gone" ELSE at[t]]
        /\ queue' = <<>> /\ unfinished' = 0 /\ idle' = Workers /\ ended' = 0
        /\ drain' = NoDrain /\ late' = {} /\ drained' = FALSE
        /\ UNCHANGED <<snapshot, row, retries, pooled, unsaved, drains>>
    BY DEF Restart
  <1>3. /\ \A t \in Task : at'[t] = "gone" \/ at'[t] = at[t]
        /\ \A t \in Task : at'[t] \notin UnderWay \cup {"queued"}
        /\ \A t \in Task : at[t] \in Finished \cup {"new", "gone"} => at'[t] = at[t]
        /\ at' \in [Task -> Place]
    <2>1. "gone" \in Place /\ "gone" \notin UnderWay \cup {"queued"}
          /\ \A p \in Finished \cup {"new", "gone"} : p \notin UnderWay \cup {"queued"}
      BY DEF Place, UnderWay, Finished
    <2> QED  BY <1>1, <1>2, <2>1
  <1>4. Executing' = {} /\ IsFiniteSet(Executing') /\ Cardinality(Executing') = 0
    <2>1. Executing' = {}
      BY <1>1, <1>2, <1>3 DEF Executing
    <2> QED  BY <2>1, FS_EmptySet
  <1>5. queue' \in Seq(Entry) /\ Len(queue') = 0
    BY <1>2, EmptySeq
  <1>6. FreshBreaker \in Breaker /\ FreshBreaker.state = "CLOSED"
    BY ThresholdAssumption DEF FreshBreaker, Breaker, BreakerState
  <1>7. TypeOK'
    <2>1. NoDrain \in [todo : SUBSET Task, save : Task \cup {None}]
      BY DEF NoDrain
    <2>2. /\ running' \in BOOLEAN /\ snapshot' \in BOOLEAN /\ probe' \in Task \cup {None}
          /\ drained' \in BOOLEAN /\ breaker' \in Breaker /\ row' \in [Task -> Status]
          /\ retries' \in [Task -> 0..MaxRetries] /\ pooled' \subseteq Task
          /\ unsaved' \subseteq Task
          /\ drain' \in [todo : SUBSET Task, save : Task \cup {None}] /\ late' \subseteq Task
      BY <1>1, <1>2, <1>6, <2>1 DEF TypeOK
    <2>3. /\ unfinished' \in Nat /\ idle' \in 0..Workers /\ ended' \in 0..Workers
          /\ drains' \in 0..MaxDrains /\ ends' \in 0..MaxEnds /\ Len(queue') <= QueueBound
      BY <1>1, <1>2, <1>5 DEF TypeOK
    <2> QED  BY <1>3, <1>5, <2>2, <2>3 DEF TypeOK
  <1>8. QueueInv'
    BY <1>1, <1>2, <1>3, <1>5 DEF QueueInv
  <1>9. PoolInv'
    BY <1>1, <1>2, <1>4 DEF PoolInv, Staffed
  <1>10. RowInv'
    <2>1. RowTellsOutcome'
      BY <1>1, <1>2, <1>3 DEF RowInv, RowTellsOutcome, Finished
    <2> QED  BY <1>2, <2>1 DEF RowInv, NoDrain
  <1>11. CalmInv'
    <2>1. Raised' \subseteq pooled
      BY <1>2 DEF Raised
    <2>2. Cardinality(Raised') \in Nat
      BY <1>1, <2>1, FS_Subset, FS_CardinalityType DEF PoolInv
    <2> QED  BY <1>1, <1>2, <1>3, <1>4, <1>5, <2>2 DEF CalmInv, Calm
  <1>12. ProbeUnderWay'
    BY <1>2, <1>6 DEF ProbeUnderWay
  <1> QED  BY <1>7, <1>8, <1>9, <1>10, <1>11, <1>12 DEF IInv

-----------------------------------------------------------------------------
(* The theorems. *)

(* Every step keeps the invariant.                                         *)
LEMMA NextKeeps == IInv /\ [Next]_vars => IInv'
  <1> SUFFICES ASSUME IInv, [Next]_vars  PROVE IInv'
    OBVIOUS
  <1>1. CASE UNCHANGED vars
    <2>1. UNCHANGED <<running, breaker, snapshot, row, at, retries, pooled, queue, unfinished, idle,
                      ended, drain, late, drained, drains, probe, unsaved, ends>>
      BY <1>1 DEF vars, calls, pool, watch, aux
    <2> QED
      BY <2>1 DEF IInv, TypeOK, QueueInv, PoolInv, Staffed, Executing, RowInv, RowTellsOutcome,
                  CalmInv, Calm, Raised, ProbeUnderWay
  <1>2. CASE Next
    BY <1>2, StepKeeps, FireKeeps, RunKeeps, TakeKeeps, WatchKeeps, TimeKeeps, LeaveKeeps, RestartKeeps
    DEF Next
  <1> QED  BY <1>1, <1>2

LEMMA InvariantHolds == Spec => []IInv
  <1> QED  BY InitHolds, NextKeeps, PTL DEF Spec

(* The mesh stays in its states, and never frees more workers than it has. *)
THEOREM TypeCorrect == Spec => []TypeOK
  <1>1. IInv => TypeOK
    BY DEF IInv
  <1> QED  BY <1>1, InvariantHolds, PTL

(* A worker of a running mesh waits, executes, or has ended.  Until a dead *)
(* letter is put back, no more have ended than executions raised, the      *)
(* count that stop waits for is right, and a fired task has a row unless   *)
(* its submit raised.                                                      *)
THEOREM PoolStands == Spec => []PoolStandsUntilDrained
  <1>1. IInv => PoolStandsUntilDrained
    BY DEF IInv, PoolInv, CalmInv, PoolStandsUntilDrained
  <1> QED  BY <1>1, InvariantHolds, PTL

(* The call that spent the probe is under way, or has succeeded, or ended  *)
(* in one of the two ways the breaker is not told of: by the limiter's     *)
(* answer from the snapshot, or by an exception.                           *)
THEOREM ProbesAccounted == Spec => []ProbeUnderWay
  <1>1. IInv => ProbeUnderWay
    BY DEF IInv
  <1> QED  BY <1>1, InvariantHolds, PTL

(* The row of a task tells how its execution ended.                        *)
THEOREM RowsTell == Spec => []RowTellsOutcome
  <1>1. IInv => RowTellsOutcome
    BY DEF IInv, RowInv
  <1> QED  BY <1>1, InvariantHolds, PTL

-----------------------------------------------------------------------------
(* The mesh implements TaskService. *)

View == [t \in Task |-> OutcomeOf(t)]

(* A step of the executions that moves one of them.                        *)
LEMMA OneMoves ==
  ASSUME TypeOK, NEW t \in Task, NEW p \in Place, at' = [at EXCEPT ![t] = p],
         \/ at[t] = "new" /\ p \in {"queued", "ready"}
         \/ at[t] \in UnderWay \cup {"queued"} /\ p \in UnderWay \cup Finished
  PROVE  Service!Next \/ View' = View
  <1>1. at \in [Task -> Place]
    BY DEF TypeOK
  <1>2. at'[t] = p /\ \A o \in Task \ {t} : at'[o] = at[o]
    BY <1>1
  <1>3. \A o \in Task \ {t} : OutcomeOf(o)' = OutcomeOf(o)
    BY <1>2 DEF OutcomeOf
  <1>4. CASE at[t] = "new"
    <2>1. OutcomeOf(t) = "none" /\ OutcomeOf(t)' = "accepted"
      BY <1>2, <1>4 DEF OutcomeOf, UnderWay
    <2>2. View' = [View EXCEPT ![t] = "accepted"] /\ View[t] = "none"
      BY <1>3, <2>1 DEF View
    <2>3. Service!Accept(t)
      BY <2>2 DEF Service!Accept, View
    <2> QED  BY <2>3 DEF Service!Next
  <1>5. CASE at[t] \in UnderWay \cup {"queued"} /\ p \in UnderWay
    <2>1. OutcomeOf(t) = "accepted" /\ OutcomeOf(t)' = "accepted"
      BY <1>2, <1>5 DEF OutcomeOf, UnderWay
    <2> QED  BY <1>3, <2>1 DEF View
  <1>6. CASE at[t] \in UnderWay \cup {"queued"} /\ p \in Finished \ {"raised"}
    <2>1. OutcomeOf(t) = "accepted" /\ OutcomeOf(t)' \in {"answered", "refused"}
      BY <1>2, <1>6 DEF OutcomeOf, UnderWay, Finished
    <2>2. View' = [View EXCEPT ![t] = OutcomeOf(t)'] /\ View[t] = "accepted"
      BY <1>3, <2>1 DEF View
    <2>3. Service!Finish(t)
      BY <2>1, <2>2 DEF Service!Finish, View
    <2> QED  BY <2>3 DEF Service!Next
  <1>7. CASE at[t] \in UnderWay \cup {"queued"} /\ p = "raised"
    <2>1. OutcomeOf(t) = "accepted" /\ OutcomeOf(t)' = "lost"
      BY <1>2, <1>7 DEF OutcomeOf, UnderWay
    <2>2. View' = [o \in Task |-> IF o \in {t} THEN "lost" ELSE View[o]]
      BY <1>3, <2>1 DEF View
    <2>3. View[t] = "accepted" /\ {t} \in SUBSET Task
      BY <2>1 DEF View
    <2>4. Service!Lose
      BY <2>2, <2>3 DEF Service!Lose, View
    <2> QED  BY <2>4 DEF Service!Next
  <1> QED  BY <1>4, <1>5, <1>6, <1>7

(* A restart loses what was accepted and has no outcome.                   *)
LEMMA RestartLoses ==
  ASSUME TypeOK, Restart
  PROVE  Service!Next
  <1>1. PICK lost \in SUBSET Task : lost = {t \in Task : at[t] \in UnderWay \cup {"queued"}}
    OBVIOUS
  <1>2. \A t \in lost : OutcomeOf(t) = "accepted" /\ OutcomeOf(t)' = "lost"
    <2> SUFFICES ASSUME NEW t \in Task, at[t] \in UnderWay \cup {"queued"}
                 PROVE  OutcomeOf(t) = "accepted" /\ OutcomeOf(t)' = "lost"
      BY <1>1
    <2>1. at'[t] = "gone"
      BY DEF Restart
    <2> QED  BY <2>1 DEF OutcomeOf, UnderWay
  <1>3. \A t \in Task \ lost : OutcomeOf(t)' = OutcomeOf(t)
    <2> SUFFICES ASSUME NEW t \in Task, at[t] \notin UnderWay \cup {"queued"}
                 PROVE  OutcomeOf(t)' = OutcomeOf(t)
      BY <1>1
    <2>1. at'[t] = at[t]
      BY DEF Restart
    <2> QED  BY <2>1 DEF OutcomeOf
  <1>4. \A t \in lost : View[t] = "accepted"
    BY <1>2 DEF View
  <1>5. \A t \in Task : OutcomeOf(t)' = IF t \in lost THEN "lost" ELSE View[t]
    BY <1>2, <1>3 DEF View
  <1>6. View' = [t \in Task |-> IF t \in lost THEN "lost" ELSE View[t]]
    BY <1>5 DEF View
  <1>7. Service!Lose
    BY <1>4, <1>6 DEF Service!Lose, View
  <1> QED  BY <1>7 DEF Service!Next

(* Clients see a service that accepts a task once and ends it once.        *)
THEOREM Refinement == Spec => ImplementsService
  <1>1. Init => Service!Init
    <2> SUFFICES ASSUME Init  PROVE Service!Init
      OBVIOUS
    <2>1. \A t \in Task : OutcomeOf(t) = "none"
      <3> SUFFICES ASSUME NEW t \in Task  PROVE OutcomeOf(t) = "none"
        OBVIOUS
      <3>1. at[t] = "new"
        BY DEF Init
      <3> QED  BY <3>1 DEF OutcomeOf, UnderWay
    <2> QED  BY <2>1 DEF Service!Init
  <1>2. IInv /\ [Next]_vars => Service!Next \/ View' = View
    <2> SUFFICES ASSUME IInv, [Next]_vars  PROVE Service!Next \/ View' = View
      OBVIOUS
    <2>1. TypeOK /\ QueueInv /\ at \in [Task -> Place]
      BY DEF IInv, TypeOK
    <2>2. ASSUME at' = at  PROVE View' = View
      BY <2>2 DEF View, OutcomeOf
    <2>3. ASSUME NEW t \in Task, Step(t)  PROVE Service!Next \/ View' = View
      <3>1. at[t] \in UnderWay
            /\ \E p \in UnderWay \cup Finished : at' = [at EXCEPT ![t] = p]
        BY <2>1, <2>3, StepShape DEF GoesOn, Over
      <3> QED  BY <2>1, <3>1, OneMoves DEF Place
    <2>4. ASSUME NEW t \in Task, Fire(t) \/ Run(t)  PROVE Service!Next \/ View' = View
      <3>1. at[t] = "new" /\ \E p \in {"queued", "ready"} : at' = [at EXCEPT ![t] = p]
        BY <2>4 DEF Fire, Run
      <3>2. {"queued", "ready"} \subseteq Place
        BY DEF Place, UnderWay
      <3> QED  BY <2>1, <3>1, <3>2, OneMoves
    <2>5. CASE Take
      <3>1. CASE at' = at
        BY <2>2, <3>1
      <3>2. CASE at' # at
        <4>1. ~Head(queue).bare /\ at' = [at EXCEPT ![Head(queue).task] = "ready"]
              /\ queue # <<>> /\ queue' = Tail(queue)
          BY <2>5, <3>2 DEF Take
        <4>2. Head(queue) = queue[1] /\ Head(queue) \in Entry /\ 1 \in 1..Len(queue)
          BY <2>1, <4>1, TakeShape
        <4>3. Head(queue).task \in Task /\ at[Head(queue).task] = "queued"
          BY <2>1, <4>1, <4>2 DEF QueueInv, Entry
        <4>4. "ready" \in UnderWay /\ "ready" \in Place
          BY DEF UnderWay, Place
        <4> QED  BY <2>1, <4>1, <4>3, <4>4, OneMoves
      <3> QED  BY <3>1, <3>2
    <2>6. CASE Restart
      BY <2>1, <2>6, RestartLoses
    <2>7. CASE \/ Elapse \/ Look \/ DrainRead \/ DrainSave \/ DrainByRequest \/ Prune \/ Stop \/ Leave
               \/ \E t \in Task : DrainPut(t) \/ DrainGivesUp(t) \/ LatePut(t)
      <3>1. at' = at
        BY <2>7 DEF Elapse, Look, DrainRead, DrainSave, DrainByRequest, Prune, Stop, Leave, DrainPut,
                    DrainGivesUp, LatePut, WatchOnly, calls
      <3> QED  BY <2>2, <3>1
    <2>8. CASE UNCHANGED vars
      BY <2>2, <2>8 DEF vars, calls
    <2> QED  BY <2>3, <2>4, <2>5, <2>6, <2>7, <2>8 DEF Next
  <1>3. IInv /\ [Next]_vars => [Service!Next]_([t \in Task |-> OutcomeOf(t)])
    BY <1>2 DEF View
  <1> QED  BY <1>1, <1>3, InvariantHolds, PTL DEF Spec, ImplementsService, Service!Spec
=============================================================================
