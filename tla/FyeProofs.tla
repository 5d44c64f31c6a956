----------------------------- MODULE FyeProofs ------------------------------
(***************************************************************************)
(* Safety of FyeControl for any number of workers, runners and publishers, *)
(* any ledger and any number of starts, faults and re-queues.              *)
(***************************************************************************)
EXTENDS FyeControl, FiniteSetTheorems, SequenceTheorems, WellFoundedInduction, TLAPS

(* The store calls that reconcile_job makes: Path stops short of           *)
(* PUBLISHING, so that no event moves a job into the channel's hands.      *)
Reported == State \ {"PUBLISHING", "PUBLISHED"}
Call == {[op |-> "error"]} \cup [op : {"move"}, to : Reported] \cup [op : {"artifact"}, of : Worker]

(* _STATE_ORDER, place by place.                                           *)
LEMMA OrderFacts ==
  /\ DOMAIN Order = 1..10
  /\ \A k \in 1..8 : Order[k] \in Reported
  /\ \A k \in 1..10 : Order[k] \in State /\ (Order[k] \in Finished <=> k >= 7)
  /\ \A k \in 1..10 : Order[k] = "PUBLISHING" <=> k = 9
<1>1. DOMAIN Order = 1..10
  BY DEF Order
<1>2. /\ Order[1] = "DRAFT" /\ Order[2] = "APPROVED" /\ Order[3] = "QUEUED"
      /\ Order[4] = "CLAIMED" /\ Order[5] = "RENDERING" /\ Order[6] = "QA"
      /\ Order[7] = "READY" /\ Order[8] = "PUBLISH_APPROVED"
      /\ Order[9] = "PUBLISHING" /\ Order[10] = "PUBLISHED"
  BY DEF Order
<1>3. \A k \in 1..10 : k = 1 \/ k = 2 \/ k = 3 \/ k = 4 \/ k = 5 \/ k = 6 \/ k = 7
                       \/ k = 8 \/ k = 9 \/ k = 10
  OBVIOUS
<1>4. QED
  BY <1>1, <1>2, <1>3 DEF Reported, State, Finished

(* _STATE_ORDER.index, with 0 for a state that is not in the order.        *)
LEMMA RankFacts ==
  /\ \A s : Rank(s) \in 0..10 /\ (Rank(s) # 0 => Order[Rank(s)] = s)
  /\ Rank("PUBLISHING") = 9
<1>1. ASSUME NEW s PROVE Rank(s) \in 0..10 /\ (Rank(s) # 0 => Order[Rank(s)] = s)
  <2>1. CASE \E i \in DOMAIN Order : Order[i] = s
    <3> DEFINE c == CHOOSE i \in DOMAIN Order : Order[i] = s
    <3>1. c \in DOMAIN Order /\ Order[c] = s
      BY <2>1
    <3>2. Rank(s) = c
      BY <2>1 DEF Rank
    <3> HIDE DEF c
    <3>3. QED
      BY <3>1, <3>2, OrderFacts
  <2>2. CASE ~ \E i \in DOMAIN Order : Order[i] = s
    BY <2>2 DEF Rank
  <2>3. QED
    BY <2>1, <2>2
<1>2. Rank("PUBLISHING") = 9
  <2>1. 9 \in DOMAIN Order /\ Order[9] = "PUBLISHING"
    BY OrderFacts
  <2>2. Rank("PUBLISHING") = CHOOSE i \in DOMAIN Order : Order[i] = "PUBLISHING"
    BY <2>1 DEF Rank
  <2>3. \A i \in DOMAIN Order : Order[i] = "PUBLISHING" => i = 9
    BY OrderFacts
  <2>4. QED
    BY <2>1, <2>2, <2>3
<1>3. QED
  BY <1>1, <1>2

(* The walk from one state to another: legal moves at most, and into       *)
(* READY or beyond only for an event that says so.                         *)
LEMMA PathType ==
  ASSUME NEW s, NEW to
  PROVE  /\ Path(s, to) \in Seq(Call)
         /\ \A i \in 1..Len(Path(s, to)) :
              LET c == Path(s, to)[i] IN
              /\ c.op # "artifact"
              /\ c.op = "move" /\ c.to \in Finished => to \in Finished
<1>1. CASE Rank(s) = 0
  <2>1. Path(s, to) = <<[op |-> "error"]>>
    BY <1>1 DEF Path
  <2>2. QED
    BY <2>1 DEF Call
<1>2. CASE Rank(s) # 0
  <2> DEFINE upto == IF Rank(to) < 9 THEN Rank(to) ELSE 8
  <2> DEFINE from == IF Rank(s) > upto THEN upto ELSE Rank(s)
  <2>1. Path(s, to) = [i \in 1 .. upto - from |-> [op |-> "move", to |-> Order[from + i]]]
    BY <1>2, RankFacts DEF Path
  <2>2. upto \in 0..8 /\ from \in 0..8 /\ from <= upto /\ upto <= Rank(to) /\ Rank(to) \in 0..10
    BY RankFacts
  <2> HIDE DEF upto, from
  <2>3. \A i \in 1 .. upto - from : from + i \in 1..8 /\ from + i <= Rank(to)
    BY <2>2
  <2>4. \A i \in 1 .. upto - from : [op |-> "move", to |-> Order[from + i]] \in Call
    BY <2>3, OrderFacts DEF Call
  <2>5. Path(s, to) \in Seq(Call) /\ Len(Path(s, to)) = upto - from
    BY <2>1, <2>2, <2>4
  <2>6. ASSUME NEW i \in 1 .. upto - from, Order[from + i] \in Finished
        PROVE  to \in Finished
    <3>1. from + i >= 7
      BY <2>3, <2>6, OrderFacts
    <3>2. Rank(to) >= 7 /\ Order[Rank(to)] = to
      BY <2>2, <2>3, <3>1, RankFacts
    <3>3. QED
      BY <2>2, <3>2, OrderFacts
  <2>7. ASSUME NEW i \in 1..Len(Path(s, to))
        PROVE  /\ Path(s, to)[i].op # "artifact"
               /\ Path(s, to)[i].op = "move" /\ Path(s, to)[i].to \in Finished => to \in Finished
    <3>1. i \in 1 .. upto - from
      BY <2>5
    <3>2. Path(s, to)[i].op = "move" /\ Path(s, to)[i].to = Order[from + i]
      BY <2>1, <3>1
    <3>3. QED
      BY <2>6, <3>1, <3>2
  <2>8. QED
    BY <2>5, <2>7
<1>3. QED
  BY <1>1, <1>2

(* The calls of an event: its artifact goes first, if it has one.          *)
LEMMA CallsType ==
  ASSUME NEW s, NEW e \in Event
  PROVE  /\ Calls(s, e) \in Seq(Call)
         /\ \A i \in 1..Len(Calls(s, e)) :
              Calls(s, e)[i].op = "move" /\ Calls(s, e)[i].to \in Finished
                => /\ e.state \in Finished
                   /\ e.artifact # None => Calls(s, e)[1].op = "artifact"
<1>1. CASE e.state \in Ended
  <2>1. Calls(s, e) = <<[op |-> "move", to |-> e.state]>>
    BY <1>1 DEF Calls
  <2>2. e.state \in Reported /\ e.state \notin Finished
    BY <1>1 DEF Ended, Reported, State, Finished
  <2>3. QED
    BY <2>1, <2>2 DEF Call
<1>2. CASE e.state \notin Ended /\ e.artifact = None
  <2>1. Calls(s, e) = <<>> \o Path(s, e.state)
    BY <1>2 DEF Calls
  <2>2. Calls(s, e) = Path(s, e.state)
    BY <2>1, PathType, ConcatEmptySeq
  <2>3. QED
    BY <1>2, <2>2, PathType
<1>3. CASE e.state \notin Ended /\ e.artifact # None
  <2> DEFINE c == [op |-> "artifact", of |-> e.artifact]
  <2>1. Calls(s, e) = <<c>> \o Path(s, e.state)
    BY <1>3 DEF Calls
  <2>2. c \in Call
    BY <1>3 DEF Event, Call
  <2>3. <<c>> \in Seq(Call) /\ Len(<<c>>) = 1 /\ <<c>>[1] = c
    BY <2>2
  <2>4. /\ Calls(s, e) \in Seq(Call)
        /\ Len(Calls(s, e)) = 1 + Len(Path(s, e.state))
        /\ \A i \in 1 .. 1 + Len(Path(s, e.state)) :
             Calls(s, e)[i] = IF i <= 1 THEN c ELSE Path(s, e.state)[i - 1]
    <3> HIDE DEF c
    <3>1. <<c>>[1] = c
      OBVIOUS
    <3>2. \A i \in 1 .. 1 + Len(Path(s, e.state)) : i <= 1 => i = 1
      BY PathType, LenProperties
    <3>3. QED
      BY <2>1, <2>3, <3>1, <3>2, PathType, ConcatProperties
  <2>5. Len(Path(s, e.state)) \in Nat
    BY PathType, LenProperties
  <2>6. Calls(s, e)[1].op = "artifact"
    BY <2>4, <2>5
  <2>7. ASSUME NEW i \in 1..Len(Calls(s, e)),
               Calls(s, e)[i].op = "move", Calls(s, e)[i].to \in Finished
        PROVE  e.state \in Finished
    <3>1. i # 1
      BY <2>6, <2>7
    <3>2. i - 1 \in 1..Len(Path(s, e.state)) /\ Calls(s, e)[i] = Path(s, e.state)[i - 1]
      BY <2>4, <2>5, <2>7, <3>1
    <3>3. QED
      BY <2>7, <3>2, PathType
  <2>8. QED
    BY <2>4, <2>6, <2>7
<1>4. QED
  BY <1>1, <1>2, <1>3

(* A set of numbers has a least one.                                       *)
LEMMA LeastOf ==
  ASSUME NEW S \in SUBSET Nat, S # {}
  PROVE  \E m \in S : \A j \in S : m <= j
<1> DEFINE Less == {ss \in Nat \X Nat : ss[1] < ss[2]}
<1>1. IsWellFoundedOn(Less, Nat)
  BY NatLessThanWellFounded DEF OpToRel
<1>2. PICK x \in S : \A y \in S : <<y, x>> \notin Less
  <2> HIDE DEF Less
  <2>1. QED
    BY <1>1, WFMin
<1>3. \A y \in S : ~(y < x)
  BY <1>2
<1>4. QED
  BY <1>3

(* What an event list is made of. *)
Among(part, events) == \A j \in 1..Len(part) : \E k \in 1..Len(events) : part[j] = events[k]

(* The loop either ends or takes up one event and keeps those after it.    *)
LEMMA ProceedStep ==
  ASSUME NEW p \in Publisher, NEW s, NEW events \in Seq(Event), Proceed(p, s, events)
  PROVE  \/ /\ pc' = [pc EXCEPT ![p] = "decide"] /\ first' = [first EXCEPT ![p] = s]
            /\ todo' = [todo EXCEPT ![p] = <<>>] /\ left' = [left EXCEPT ![p] = <<>>]
         \/ \E k \in 1..Len(events), rest \in Seq(Event), l \in {"reread", "walk"} :
              /\ pc' = [pc EXCEPT ![p] = l] /\ UNCHANGED first
              /\ todo' = [todo EXCEPT ![p] = Calls(s, events[k])]
              /\ left' = [left EXCEPT ![p] = rest] /\ Among(rest, events)
<1> DEFINE next == ToDo(s, events)
<1>1. DOMAIN events = 1..Len(events) /\ Len(events) \in Nat
  BY LenProperties
<1>2. next \subseteq 1..Len(events)
  BY <1>1 DEF ToDo
<1>3. CASE next = {}
  BY <1>3 DEF Proceed
<1>4. CASE next # {}
  <2> DEFINE i == CHOOSE k \in next : \A j \in next : k <= j
  <2> DEFINE rest == SubSeq(events, i + 1, Len(events))
  <2>1. \E k \in next : \A j \in next : k <= j
    <3>1. next \in SUBSET Nat
      BY <1>1, <1>2
    <3> HIDE DEF next
    <3>2. QED
      BY <1>4, <3>1, LeastOf
  <2>2. i \in 1..Len(events)
    BY <1>2, <2>1
  <2>3. /\ pc' = [pc EXCEPT ![p] = IF Calls(s, events[i]) = <<>> THEN "reread" ELSE "walk"]
        /\ todo' = [todo EXCEPT ![p] = Calls(s, events[i])]
        /\ left' = [left EXCEPT ![p] = rest]
        /\ UNCHANGED first
    BY <1>4 DEF Proceed
  <2> HIDE DEF i
  <2>4. \A j \in i + 1 .. Len(events) : events[j] \in Event
    BY <1>1, <2>2, ElementOfSeq
  <2>5. /\ rest \in Seq(Event)
        /\ Len(rest) = IF i + 1 <= Len(events) THEN Len(events) - (i + 1) + 1 ELSE 0
        /\ \A j \in 1 .. Len(events) - (i + 1) + 1 : rest[j] = events[(i + 1) + j - 1]
    BY <1>1, <2>2, <2>4, SubSeqProperties
  <2> HIDE DEF rest
  <2>6. Among(rest, events)
    <3>1. SUFFICES ASSUME NEW j \in 1..Len(rest)
                   PROVE  \E k \in 1..Len(events) : rest[j] = events[k]
      BY DEF Among
    <3>2. j \in 1 .. Len(events) - (i + 1) + 1 /\ (i + 1) + j - 1 \in 1..Len(events)
      <4>1. CASE i + 1 <= Len(events)
        <5>1. Len(rest) = Len(events) - (i + 1) + 1
          BY <2>5, <4>1
        <5>2. j \in 1 .. Len(events) - (i + 1) + 1
          BY <5>1
        <5>3. QED
          BY <1>1, <2>2, <5>2
      <4>2. CASE ~(i + 1 <= Len(events))
        <5>1. Len(rest) = 0
          BY <2>5, <4>2
        <5>2. QED
          BY <5>1
      <4>3. QED
        BY <4>1, <4>2
    <3>3. rest[j] = events[(i + 1) + j - 1]
      BY <2>5, <3>2
    <3>4. QED
      BY <3>2, <3>3
  <2>7. QED
    BY <2>2, <2>3, <2>5, <2>6
<1>5. QED
  BY <1>3, <1>4
-----------------------------------------------------------------------------
(* Types, with what makes them inductive: the locals of publishers, and a  *)
(* record on the root of every worker from its claim to its last report.   *)
Engaged == {"start", "announce", "render", "record", "ready", "report"}
Queueing == {"open", "branch", "approve", "enqueue", "claim"}

EnvType == starts \in 0..MaxStarts /\ requeues \in 0..MaxRequeues /\ faults \in 0..MaxFaults

LocalType ==
  /\ pc \in [Process -> WorkerPC \cup PublisherPC]
  /\ \A w \in Worker : pc[w] \in WorkerPC
  /\ \A p \in Publisher : pc[p] \in PublisherPC
  /\ first \in [Publisher -> State \cup {"none"}]
  /\ todo \in [Publisher -> Seq(Call)]
  /\ left \in [Publisher -> Seq(Event)]
  /\ result \in [Publisher -> 0..posts]

TypeInv ==
  /\ JobTypeOK /\ LocalType /\ EnvType
  /\ ledger \in Seq(Event) /\ posts \in Nat /\ oper \in {"idle", "enqueue"}
  /\ lapsed \subseteq Root
  /\ \A w \in Worker : pc[w] \in Engaged => Exists(RootOf(w))

(* A root holds a record or nothing.                                       *)
LEMMA RootFacts ==
  /\ Control \in Root /\ Control \notin Worker /\ Control \notin Runner
  /\ \A w \in Worker : RootOf(w) \in Root /\ (w \in Runner => RootOf(w) = w)
                       /\ (w \notin Runner => RootOf(w) = Control)
BY RootAssumption, ControlAssumption DEF RootOf

(* What a step of a worker does to its own place and to the job file.      *)
WorkerDoes(w, l) ==
  LET r == RootOf(w) IN
  \/ UNCHANGED job /\ (l \in Engaged => pc[w] = "announce" /\ l = "render")
  \/ /\ w \in Runner /\ pc[w] = "off" /\ l = "open"
     /\ job' = [job EXCEPT ![w] = None]
  \/ Create(r) /\ l \notin Engaged
  \/ /\ \E to \in {"EXPIRED", "APPROVED", "QUEUED", "CLAIMED"} : Transition(r, to)
     /\ l \notin Engaged
  \/ Transition(r, "FAILED") /\ l = "report"
  \/ Claim(r, w) /\ pc[w] = "claim" /\ l = "start"
  \/ Transition(r, "RENDERING") /\ pc[w] = "start" /\ l = "announce"
  \/ Transition(r, "QA") /\ pc[w] = "render" /\ l = "record"
  \/ Transition(r, "READY") /\ pc[w] = "ready" /\ l = "report"
  \/ RecordArtifact(r, w) /\ pc[w] = "record" /\ l = "ready"

LEMMA WorkerEffect ==
  ASSUME TypeInv, NEW w \in Worker, WorkerStep(w)
  PROVE  /\ UNCHANGED <<posts, oper, first, todo, left, result, requeues, lapsed>>
         /\ EnvType'
         /\ \/ UNCHANGED ledger
            \/ /\ pc[w] \in {"announce", "report"} /\ UNCHANGED job
               /\ ledger' = Append(ledger, Announcement(RootOf(w)))
         /\ \E l \in WorkerPC :
              /\ pc' = [pc EXCEPT ![w] = l] /\ WorkerDoes(w, l)
              /\ \/ starts' = starts /\ (l \in Queueing => pc[w] \in Queueing)
                 \/ starts' = starts + 1 /\ pc[w] = "off" /\ l = "open"
<1> USE DEF Calm, envVars, Goto, Engaged, Queueing, WorkerPC, WorkerDoes
<1>1. CASE WorkerStart(w)
  BY <1>1, FyeBounds DEF WorkerStart, HostStart, DispatchFyeGha, TypeInv, EnvType
<1>2. EnvType => (UNCHANGED <<starts, requeues, faults>> => EnvType')
  BY DEF EnvType
<1>3. CASE Verify(w)
  BY <1>2, <1>3 DEF Verify, MarkExpired, TypeInv
<1>4. CASE Branch(w)
  BY <1>2, <1>4 DEF Branch, BranchOn, TypeInv
<1>5. CASE WorkerApprove(w) \/ WorkerEnqueue(w)
  BY <1>2, <1>5 DEF WorkerApprove, Approve, ApproveExpired, WorkerEnqueue, Attempt, TypeInv
<1>6. CASE ClaimJob(w)
  BY <1>2, <1>6 DEF ClaimJob, ClaimTorn, ClaimExpired, TypeInv
<1>7. CASE StartRendering(w) \/ Render(w) \/ BecomeReady(w)
  BY <1>2, <1>7 DEF StartRendering, Render, BecomeReady, Attempt, TypeInv
<1>8. CASE Announce(w) \/ RecordMaster(w)
  BY <1>2, <1>8 DEF Announce, Emit, RecordMaster, TypeInv
<1>9. CASE HandleError(w) \/ FailJob(w)
  BY <1>2, <1>9 DEF HandleError, FailJob, TypeInv
<1>10. CASE WorkerDies(w)
  BY <1>10, FyeBounds DEF WorkerDies, Fault, TypeInv, EnvType
<1>11. QED
  BY <1>1, <1>3, <1>4, <1>5, <1>6, <1>7, <1>8, <1>9, <1>10 DEF WorkerStep

(* What a step of a publisher does to the job, the channel's posts and its *)
(* own place.                                                              *)
PublisherDoes(p, l) ==
  \/ UNCHANGED <<job, posts>> /\ l # "call"
  \/ UNCHANGED job /\ posts' = posts + 1 /\ pc[p] = "call" /\ l # "call"
  \/ UNCHANGED posts /\ Transition(Control, "PUBLISHING") /\ pc[p] = "begin" /\ l = "call"
  \/ /\ UNCHANGED posts /\ l # "call"
     /\ \E to \in Reported :
          /\ Transition(Control, to)
          /\ to = "READY" => todo[p] # <<>> /\ Head(todo[p]) = [op |-> "move", to |-> to]
  \/ /\ UNCHANGED posts /\ pc[p] = "walk" /\ l # "call"
     /\ \E a \in Worker : RecordReported(Control, a)
  \/ /\ UNCHANGED posts /\ pc[p] = "record" /\ l = "off"
     /\ \/ RecordPublish(Control, result[p]) \/ RecordPublishLate(Control, result[p])
        \/ RecordPublishTorn(Control, result[p])

PublishedEvent == [state |-> "PUBLISHED", artifact |-> None]

LEMMA PublisherEffect ==
  ASSUME TypeInv, NEW p \in Publisher, PublisherStep(p)
  PROVE  /\ UNCHANGED <<oper, requeues, lapsed>> /\ EnvType' /\ starts' \in {starts, starts + 1}
         /\ \/ UNCHANGED ledger
            \/ ledger' = Append(ledger, PublishedEvent) /\ Status(Control) \in Finished
         /\ \E l \in PublisherPC :
              /\ pc' = [pc EXCEPT ![p] = l] /\ PublisherDoes(p, l)
              /\ \/ result' = result /\ l # "record"
                 \/ result' = [result EXCEPT ![p] = 0] /\ l = "off"
                 \/ /\ l = "record" /\ \E n \in 1..posts' : result' = [result EXCEPT ![p] = n]
<1> USE DEF Calm, envVars, Goto, PublisherPC, PublisherDoes
<1>1. EnvType => (UNCHANGED <<starts, requeues, faults>> => EnvType')
  BY DEF EnvType
<1>2. posts \in Nat
  BY DEF TypeInv
<1>3. CASE PublishStart(p)
  BY <1>3, FyeBounds DEF PublishStart, TypeInv, EnvType
<1>4. CASE Sync(p) \/ Reread(p)
  BY <1>1, <1>4 DEF Sync, Reread, Proceed, TypeInv
<1>5. CASE Apply(p)
  <2>1. todo[p] \in Seq(Call) /\ todo[p] # <<>>
    BY <1>5 DEF Apply, TypeInv, LocalType
  <2>2. Head(todo[p]) \in Call
    BY <2>1, HeadTailProperties
  <2>3. QED
    BY <1>1, <1>5, <2>2 DEF Apply, TypeInv, Call
<1>6. CASE Decide(p)
  BY <1>1, <1>6 DEF Decide, EndPublisher, EndReconcile, TypeInv, Reported, State
<1>7. CASE OpenPublish(p)
  BY <1>1, <1>7 DEF OpenPublish, EndPublisher, EmitPublished, PublishedEvent, Emit,
                    Finished, TypeInv
<1>8. CASE ExpirePublish(p) \/ Refused(p)
  BY <1>1, <1>8 DEF ExpirePublish, Refused, EndPublishFailure, EndPublisher, TypeInv, Reported,
                    State
<1>9. CASE Begin(p)
  BY <1>1, <1>9 DEF Begin, BeginPublish, EndPublisher, EmitPublished, PublishedEvent, Emit,
                    Finished, TypeInv
<1>10. CASE CallChannel(p)
  BY <1>1, <1>2, <1>10 DEF CallChannel, EndPublisher, TypeInv
<1>11. CASE Record(p)
  <2>1. RecordPublish(Control, result[p]) => Status(Control) = "PUBLISHING"
    BY DEF RecordPublish, Status
  <2>2. QED
    BY <1>1, <1>11, <2>1 DEF Record, EndPublisher, EmitPublished, PublishedEvent, Emit,
                               Finished, TypeInv
<1>12. CASE PublisherDies(p)
  BY <1>12, FyeBounds DEF PublisherDies, Fault, EndPublisher, TypeInv, EnvType
<1>13. QED
  BY <1>3, <1>4, <1>5, <1>6, <1>7, <1>8, <1>9, <1>10, <1>11, <1>12 DEF PublisherStep

(* The calls and the events a publisher has left after a step: fewer of    *)
(* the same after a call that was made, none when it ends or gives up, or  *)
(* those of an event of the ledger or of its own list.                     *)
TodoDoes(p) ==
  \/ UNCHANGED <<todo, left>>
  \/ todo' = [todo EXCEPT ![p] = <<>>] /\ left' = [left EXCEPT ![p] = <<>>]
  \/ /\ pc[p] = "walk" /\ todo[p] # <<>> /\ UNCHANGED <<left, ledger>>
     /\ todo' = [todo EXCEPT ![p] = Tail(@)]
     /\ LET c == Head(todo[p]) IN
        \/ c.op = "move" /\ Transition(Control, c.to)
        \/ c.op = "artifact" /\ c.of \in Worker /\ RecordReported(Control, c.of)
  \/ /\ UNCHANGED <<job, ledger>>
     /\ \E events \in {ledger, <<>>, left[p]} : \E k \in 1..Len(events), rest \in Seq(Event) :
          /\ todo' = [todo EXCEPT ![p] = Calls(Status(Control), events[k])]
          /\ left' = [left EXCEPT ![p] = rest] /\ Among(rest, events)

LEMMA TodoEffect ==
  ASSUME TypeInv, NEW p \in Publisher, PublisherStep(p)
  PROVE  /\ TodoDoes(p)
         /\ \E s \in {first[p], Status(Control), "none"} : first' = [first EXCEPT ![p] = s]
<1> USE DEF Goto, TodoDoes
<1>1. /\ ledger \in Seq(Event) /\ <<>> \in Seq(Event) /\ left[p] \in Seq(Event)
      /\ first = [first EXCEPT ![p] = first[p]]
  BY DEF TypeInv, LocalType
<1>2. CASE Sync(p) \/ Reread(p)
  <2>1. PICK events \in {ledger, <<>>, left[p]} :
          Proceed(p, Status(Control), events) /\ UNCHANGED <<job, ledger>>
    BY <1>2 DEF Sync, Reread
  <2>2. events \in Seq(Event)
    BY <1>1
  <2> DEFINE Out == /\ first' = [first EXCEPT ![p] = Status(Control)]
                    /\ todo' = [todo EXCEPT ![p] = <<>>] /\ left' = [left EXCEPT ![p] = <<>>]
  <2> DEFINE On == \E k \in 1..Len(events), rest \in Seq(Event) :
                     /\ UNCHANGED first
                     /\ todo' = [todo EXCEPT ![p] = Calls(Status(Control), events[k])]
                     /\ left' = [left EXCEPT ![p] = rest] /\ Among(rest, events)
  <2>3. Out \/ On
    BY <2>1, <2>2, ProceedStep
  <2>4. CASE Out
    BY <2>4
  <2>5. CASE On
    BY <1>1, <2>1, <2>5
  <2> HIDE DEF Out, On
  <2>6. QED
    BY <2>3, <2>4, <2>5
<1>3. CASE Apply(p)
  <2>1. todo[p] \in Seq(Call) /\ todo[p] # <<>>
    BY <1>3 DEF Apply, TypeInv, LocalType
  <2>2. Head(todo[p]) \in Call
    BY <2>1, HeadTailProperties
  <2>3. QED
    BY <1>1, <1>3, <2>2 DEF Apply, Call
<1>4. CASE PublishStart(p) \/ CallChannel(p) \/ PublisherDies(p)
  BY <1>1, <1>4 DEF PublishStart, CallChannel, PublisherDies, EndPublisher
<1>5. CASE Decide(p) \/ OpenPublish(p) \/ ExpirePublish(p)
  BY <1>1, <1>5 DEF Decide, OpenPublish, ExpirePublish, EndPublisher, EndReconcile
<1>6. CASE Begin(p) \/ Refused(p) \/ Record(p)
  BY <1>1, <1>6 DEF Begin, Refused, Record, EndPublisher
<1>7. QED
  BY <1>2, <1>3, <1>4, <1>5, <1>6 DEF PublisherStep

(* The operator creates, approves, queues and expires the job.             *)
LEMMA OperatorEffect ==
  ASSUME TypeInv, OperatorStep
  PROVE  /\ UNCHANGED <<posts, procVars, starts, lapsed>> /\ EnvType'
         /\ oper' \in {"idle", "enqueue"}
         /\ \/ UNCHANGED ledger
            \/ /\ UNCHANGED job /\ Status(Control) \in {"APPROVED", "QUEUED"}
               /\ ledger' = Append(ledger, Announcement(Control))
         /\ \/ UNCHANGED job \/ Create(Control)
            \/ \E to \in {"EXPIRED", "APPROVED", "QUEUED"} : Transition(Control, to)
<1> USE DEF envVars, procVars
<1>1. EnvType => (UNCHANGED <<starts, requeues, faults>> => EnvType')
  BY DEF EnvType
<1>2. CASE CreateJob \/ RunRefused \/ OperatorApprove \/ OperatorEnqueue
  BY <1>1, <1>2 DEF CreateJob, RunRefused, MarkExpired, OperatorApprove, ApproveExpired, Approve,
                    OperatorEnqueue, Enqueue, TypeInv
<1>3. CASE OperatorDies
  BY <1>3, FyeBounds DEF OperatorDies, Fault, TypeInv, EnvType
<1>4. CASE Dispatch
  BY <1>1, <1>4 DEF Dispatch, Emit, TypeInv
<1>5. CASE Requeue
  BY <1>5, FyeBounds DEF Requeue, Enqueue, TypeInv, EnvType
<1>6. QED
  BY <1>2, <1>3, <1>4, <1>5 DEF OperatorStep

(* Deadlines change flags of the record only.                              *)
LEMMA TimeEffect ==
  ASSUME TypeInv, NEW r \in Root, Expires(r) \/ LeaseRunsOut(r)
  PROVE  /\ UNCHANGED <<ledger, posts, oper, procVars, starts>> /\ EnvType'
         /\ \/ (JobExpires(r) \/ PublishExpires(r)) /\ UNCHANGED lapsed
            \/ LeaseEnds(r) /\ lapsed' = lapsed \cup {r}
BY FyeBounds DEF Expires, LeaseRunsOut, Fault, procVars, TypeInv, EnvType

(* Every write of the store keeps the type of the record.                  *)
LEMMA WriteType ==
  ASSUME JobTypeOK, NEW r \in Root
  PROVE  /\ \A j \in Job \cup {None} : Write(r, j) => JobTypeOK' /\ job'[r] = j
         /\ \A j : Write(r, j) => \A x \in Root : x # r => job'[x] = job[x]
BY DEF Write, JobTypeOK

LEMMA RecordType ==
  /\ Created \in Job
  /\ \A s, to : to \in Transitions(s) => to \in State
  /\ \A j \in Job, to \in State : Moved(j, to) \in Job
  /\ \A j \in Job, w \in Worker : Leased(j, w) \in Job /\ [j EXCEPT !.artifact = w] \in Job
  /\ \A j \in Job, n \in Nat : WithPost(j, n) \in Job
  /\ \A j \in Job : [j EXCEPT !.over = TRUE] \in Job /\ [j EXCEPT !.publishBy = "over"] \in Job
                    /\ [j EXCEPT !.leaseOver = TRUE] \in Job
<1>1. Created \in Job
  BY DEF Created, Job, State
<1>2. \A s, to : to \in Transitions(s) => to \in State
  BY DEF Transitions, State
<1>3. \A j \in Job, to \in State : Moved(j, to) \in Job
  <2>1. SUFFICES ASSUME NEW j \in Job, NEW to \in State PROVE Moved(j, to) \in Job
    OBVIOUS
  <2> DEFINE b == IF to = "PUBLISH_APPROVED" THEN "ahead" ELSE j.publishBy
  <2> DEFINE c == IF j.status = "PUBLISHING" /\ to # "PUBLISHED" THEN j.released + 1 ELSE j.released
  <2>2. b \in {"unset", "ahead", "over"} /\ c \in Nat
    BY DEF Job
  <2>3. Moved(j, to) = [j EXCEPT !.status = to, !.publishBy = b, !.released = c]
    BY DEF Moved
  <2> HIDE DEF b, c
  <2>4. [j EXCEPT !.status = to, !.publishBy = b, !.released = c] \in Job
    BY <2>2 DEF Job
  <2>5. QED
    BY <2>3, <2>4
<1>4. \A j \in Job, w \in Worker : Leased(j, w) \in Job /\ [j EXCEPT !.artifact = w] \in Job
  <2>1. \A j \in Job, w \in Worker, n \in Nat :
          [j EXCEPT !.owner = w, !.leaseOver = FALSE, !.attempts = n] \in Job
    BY DEF Job
  <2>2. \A j \in Job : j.attempts + 1 \in Nat
    BY DEF Job
  <2>3. \A j \in Job, w \in Worker : [j EXCEPT !.artifact = w] \in Job
    BY DEF Job
  <2>4. QED
    BY <2>1, <2>2, <2>3 DEF Leased
<1>5. \A j \in Job, n \in Nat : WithPost(j, n) \in Job
  BY DEF WithPost, Job
<1>6. \A j \in Job : [j EXCEPT !.over = TRUE] \in Job /\ [j EXCEPT !.publishBy = "over"] \in Job
                     /\ [j EXCEPT !.leaseOver = TRUE] \in Job
  BY DEF Job
<1>7. QED
  BY <1>1, <1>2, <1>3, <1>4, <1>5, <1>6

(* What the locked operations write, field by field.  Here j is the record *)
(* before an operation and k the record after it.                          *)
SameLease(j, k) == k.owner = j.owner /\ k.leaseOver = j.leaseOver /\ k.attempts = j.attempts
SameWork(j, k) == k.artifact = j.artifact /\ k.post = j.post
SamePlace(j, k) == k.status = j.status /\ k.released = j.released
Released(j, to) ==
  IF j.status = "PUBLISHING" /\ to # "PUBLISHED" THEN j.released + 1 ELSE j.released
Into(j, k, to) == k.status = to /\ k.released = Released(j, to)

LEMMA MovedFields ==
  ASSUME NEW j \in Job, NEW to \in State
  PROVE  /\ Moved(j, to) \in Job /\ Into(j, Moved(j, to), to)
         /\ SameLease(j, Moved(j, to)) /\ SameWork(j, Moved(j, to))
<1>1. Into(j, Moved(j, to), to) /\ SameLease(j, Moved(j, to)) /\ SameWork(j, Moved(j, to))
  BY DEF Moved, Job, Into, Released, SameLease, SameWork
<1>2. QED
  BY <1>1, RecordType

(* A move.                                                                 *)
LEMMA MoveFacts ==
  ASSUME JobTypeOK, NEW r \in Root, NEW to, Transition(r, to)
  PROVE  /\ Exists(r) /\ Exists(r)' /\ to \in Transitions(job[r].status) /\ to \in State
         /\ Into(job[r], job'[r], to) /\ SameLease(job[r], job'[r]) /\ SameWork(job[r], job'[r])
         /\ JobTypeOK' /\ \A x \in Root : x # r => job'[x] = job[x]
<1>1. /\ Exists(r) /\ to \in Transitions(job[r].status) /\ job[r] \in Job
      /\ Write(r, Moved(job[r], to))
  BY DEF Transition, CanMove, Exists, JobTypeOK
<1>2. to \in State /\ Moved(job[r], to) \in Job
  BY <1>1, RecordType
<1>3. /\ job'[r] = Moved(job[r], to) /\ JobTypeOK'
      /\ \A x \in Root : x # r => job'[x] = job[x]
  BY <1>1, <1>2, WriteType
<1>4. /\ Into(job[r], Moved(job[r], to), to) /\ SameLease(job[r], Moved(job[r], to))
      /\ SameWork(job[r], Moved(job[r], to))
  BY <1>1, <1>2, MovedFields
<1>5. Exists(r)'
  BY <1>2, <1>3, NoJobAssumption DEF Exists
<1>6. QED
  BY <1>1, <1>2, <1>3, <1>4, <1>5

(* A claim.                                                                *)
LEMMA ClaimFacts ==
  ASSUME JobTypeOK, NEW r \in Root, NEW w \in Worker, Claim(r, w)
  PROVE  /\ Exists(r) /\ Exists(r)'
         /\ job[r].status \in {"QUEUED", "CLAIMED", "RENDERING"}
         /\ job[r].owner \in {None, w} \/ job[r].leaseOver
         /\ job'[r].status = ClaimedStatus(job[r].status) /\ job'[r].released = job[r].released
         /\ job'[r].owner = w /\ job'[r].leaseOver = FALSE
         /\ job'[r].attempts = job[r].attempts + 1
         /\ SameWork(job[r], job'[r])
         /\ JobTypeOK' /\ \A x \in Root : x # r => job'[x] = job[x]
<1> DEFINE s == ClaimedStatus(job[r].status)
<1> DEFINE m == Moved(job[r], s)
<1>1. /\ Exists(r) /\ job[r] \in Job /\ job[r].status \in {"QUEUED", "CLAIMED", "RENDERING"}
      /\ job[r].owner \in {None, w} \/ job[r].leaseOver
      /\ Write(r, Leased(m, w))
  BY DEF Claim, Claimable, LeasedByOther, Exists, JobTypeOK
<1>2. s \in State
  BY <1>1 DEF ClaimedStatus, State
<1>3. /\ m \in Job /\ m.status = s /\ m.released = job[r].released
      /\ m.attempts = job[r].attempts /\ SameWork(job[r], m)
  BY <1>1, <1>2, MovedFields DEF Into, Released, SameLease
<1> HIDE DEF m
<1>4. /\ Leased(m, w) \in Job /\ Leased(m, w).status = m.status
      /\ Leased(m, w).released = m.released /\ Leased(m, w).owner = w
      /\ Leased(m, w).leaseOver = FALSE /\ Leased(m, w).attempts = m.attempts + 1
      /\ SameWork(m, Leased(m, w))
  BY <1>3, RecordType DEF Leased, Job, SameWork
<1>5. /\ job'[r] = Leased(m, w) /\ JobTypeOK'
      /\ \A x \in Root : x # r => job'[x] = job[x]
  BY <1>1, <1>4, WriteType
<1>6. Exists(r)'
  BY <1>4, <1>5, NoJobAssumption DEF Exists
<1>7. QED
  BY <1>1, <1>3, <1>4, <1>5, <1>6 DEF SameWork

(* An artifact, recorded or reported.                                      *)
LEMMA ArtifactFacts ==
  ASSUME JobTypeOK, NEW r \in Root, NEW w \in Worker, RecordArtifact(r, w) \/ RecordReported(r, w)
  PROVE  /\ Exists(r) /\ Exists(r)' /\ job'[r].artifact = w /\ job'[r].post = job[r].post
         /\ SamePlace(job[r], job'[r]) /\ SameLease(job[r], job'[r])
         /\ JobTypeOK' /\ \A x \in Root : x # r => job'[x] = job[x]
<1> DEFINE k == [job[r] EXCEPT !.artifact = w]
<1>1. Exists(r) /\ job[r] \in Job /\ Write(r, k)
  BY DEF RecordArtifact, RecordReported, Exists, JobTypeOK
<1>2. /\ k \in Job /\ k.artifact = w /\ k.post = job[r].post
      /\ SamePlace(job[r], k) /\ SameLease(job[r], k)
  BY <1>1, RecordType DEF Job, SamePlace, SameLease
<1> HIDE DEF k
<1>3. job'[r] = k /\ JobTypeOK' /\ \A x \in Root : x # r => job'[x] = job[x]
  BY <1>1, <1>2, WriteType
<1>4. QED
  BY <1>1, <1>2, <1>3, NoJobAssumption DEF Exists

(* A post id, with the move to PUBLISHED or without it.                    *)
LEMMA PostFacts ==
  ASSUME JobTypeOK, NEW r \in Root, NEW n \in Nat,
         RecordPublish(r, n) \/ RecordPublishLate(r, n) \/ RecordPublishTorn(r, n)
  PROVE  /\ Exists(r) /\ Exists(r)' /\ job'[r].post = n /\ job'[r].artifact = job[r].artifact
         /\ job[r].status \in {"PUBLISHING", "PUBLISH_APPROVED"}
         /\ \/ job'[r].status = job[r].status
            \/ job[r].status = "PUBLISHING" /\ job'[r].status = "PUBLISHED"
         /\ job'[r].released = job[r].released /\ SameLease(job[r], job'[r])
         /\ JobTypeOK' /\ \A x \in Root : x # r => job'[x] = job[x]
<1> DEFINE k == WithPost(job[r], n)
<1>1. Exists(r) /\ job[r] \in Job /\ job[r].status \in {"PUBLISHING", "PUBLISH_APPROVED"}
  BY DEF RecordPublish, RecordPublishLate, RecordPublishTorn, Exists, JobTypeOK
<1>2. /\ k \in Job /\ k.post = n /\ k.artifact = job[r].artifact
      /\ k.status = job[r].status /\ k.released = job[r].released /\ SameLease(job[r], k)
  BY <1>1, RecordType DEF WithPost, Job, SameLease
<1>3. CASE RecordPublishLate(r, n) \/ RecordPublishTorn(r, n)
  <2>1. Write(r, k)
    BY <1>3 DEF RecordPublishLate, RecordPublishTorn
  <2> HIDE DEF k
  <2>2. job'[r] = k /\ JobTypeOK' /\ \A x \in Root : x # r => job'[x] = job[x]
    BY <1>2, <2>1, WriteType
  <2>3. QED
    BY <1>1, <1>2, <2>2, NoJobAssumption DEF Exists
<1>4. CASE RecordPublish(r, n)
  <2> DEFINE m == Moved(k, "PUBLISHED")
  <2>1. Write(r, m) /\ job[r].status = "PUBLISHING"
    BY <1>4 DEF RecordPublish
  <2> HIDE DEF k
  <2>2. "PUBLISHED" \in State
    BY DEF State
  <2>3. /\ m \in Job /\ m.post = k.post /\ m.artifact = k.artifact /\ m.status = "PUBLISHED"
        /\ m.released = k.released /\ SameLease(k, m)
    BY <1>2, <2>2, MovedFields DEF Into, Released, SameWork
  <2> HIDE DEF m
  <2>4. job'[r] = m /\ JobTypeOK' /\ \A x \in Root : x # r => job'[x] = job[x]
    BY <2>1, <2>3, WriteType
  <2>5. QED
    BY <1>1, <1>2, <2>1, <2>3, <2>4, NoJobAssumption DEF Exists, SameLease
<1>5. QED
  BY <1>3, <1>4

(* A deadline.                                                             *)
LEMMA DeadlineFacts ==
  ASSUME JobTypeOK, NEW r \in Root, JobExpires(r) \/ PublishExpires(r) \/ LeaseEnds(r)
  PROVE  /\ Exists(r) /\ Exists(r)' /\ SamePlace(job[r], job'[r]) /\ SameWork(job[r], job'[r])
         /\ job'[r].owner = job[r].owner /\ job'[r].attempts = job[r].attempts
         /\ job'[r].leaseOver = job[r].leaseOver \/ LeaseEnds(r)
         /\ JobTypeOK' /\ \A x \in Root : x # r => job'[x] = job[x]
<1>1. Exists(r) /\ job[r] \in Job
  BY DEF JobExpires, PublishExpires, LeaseEnds, Exists, JobTypeOK
<1>2. CASE JobExpires(r) \/ PublishExpires(r)
  <2> DEFINE j1 == [job[r] EXCEPT !.over = TRUE]
  <2> DEFINE j2 == [job[r] EXCEPT !.publishBy = "over"]
  <2>1. j1 \in Job /\ SamePlace(job[r], j1) /\ SameWork(job[r], j1) /\ SameLease(job[r], j1)
    BY <1>1, RecordType DEF Job, SamePlace, SameWork, SameLease
  <2>2. j2 \in Job /\ SamePlace(job[r], j2) /\ SameWork(job[r], j2) /\ SameLease(job[r], j2)
    BY <1>1, RecordType DEF Job, SamePlace, SameWork, SameLease
  <2>3. Write(r, j1) \/ Write(r, j2)
    BY <1>2 DEF JobExpires, PublishExpires
  <2> HIDE DEF j1, j2
  <2>4. PICK k \in {j1, j2} : Write(r, k)
    BY <2>3
  <2>5. k \in Job /\ SamePlace(job[r], k) /\ SameWork(job[r], k) /\ SameLease(job[r], k)
    BY <2>1, <2>2
  <2>6. job'[r] = k /\ JobTypeOK' /\ \A x \in Root : x # r => job'[x] = job[x]
    BY <2>4, <2>5, WriteType
  <2>7. QED
    BY <1>1, <2>5, <2>6, NoJobAssumption DEF Exists, SameLease
<1>3. CASE LeaseEnds(r)
  <2> DEFINE k == [job[r] EXCEPT !.leaseOver = TRUE]
  <2>1. Write(r, k)
    BY <1>3 DEF LeaseEnds
  <2>2. /\ k \in Job /\ SamePlace(job[r], k) /\ SameWork(job[r], k)
        /\ k.owner = job[r].owner /\ k.attempts = job[r].attempts
    BY <1>1, RecordType DEF Job, SamePlace, SameWork
  <2> HIDE DEF k
  <2>3. job'[r] = k /\ JobTypeOK' /\ \A x \in Root : x # r => job'[x] = job[x]
    BY <2>1, <2>2, WriteType
  <2>4. QED
    BY <1>1, <1>3, <2>2, <2>3, NoJobAssumption DEF Exists
<1>4. QED
  BY <1>2, <1>3

(* A new record.                                                           *)
LEMMA CreateFacts ==
  ASSUME JobTypeOK, NEW r \in Root, Create(r)
  PROVE  /\ ~Exists(r) /\ Exists(r)' /\ job'[r] = Created
         /\ JobTypeOK' /\ \A x \in Root : x # r => job'[x] = job[x]
<1>1. Write(r, Created) /\ ~Exists(r)
  BY DEF Create
<1>2. job'[r] = Created /\ JobTypeOK' /\ \A x \in Root : x # r => job'[x] = job[x]
  BY <1>1, RecordType, WriteType
<1>3. QED
  BY <1>1, <1>2, RecordType, NoJobAssumption DEF Exists

(* A worker leaves a record on its root, unless it is a runner that starts *)
(* on an empty one.                                                        *)
LEMMA WorkerJob ==
  ASSUME JobTypeOK, NEW w \in Worker, NEW l, WorkerDoes(w, l)
  PROVE  /\ JobTypeOK' /\ \A x \in Root : x # RootOf(w) => job'[x] = job[x]
         /\ \/ Exists(RootOf(w)) => Exists(RootOf(w))'
            \/ w \in Runner /\ pc[w] = "off" /\ l = "open"
         /\ l \in Engaged => \/ Exists(RootOf(w))'
                             \/ UNCHANGED job /\ pc[w] = "announce"
<1> DEFINE r == RootOf(w)
<1>1. r \in Root
  BY RootFacts
<1>2. CASE UNCHANGED job /\ (l \in Engaged => pc[w] = "announce" /\ l = "render")
  BY <1>2 DEF JobTypeOK, Exists
<1>3. CASE w \in Runner /\ pc[w] = "off" /\ l = "open" /\ job' = [job EXCEPT ![w] = None]
  <2>1. r = w
    BY <1>3, RootFacts
  <2>2. Write(r, None)
    BY <1>3, <2>1 DEF Write
  <2>3. JobTypeOK' /\ \A x \in Root : x # r => job'[x] = job[x]
    BY <1>1, <2>2, WriteType
  <2>4. l \notin Engaged
    BY <1>3 DEF Engaged
  <2>5. QED
    BY <1>3, <2>3, <2>4
<1>4. CASE Create(r) /\ l \notin Engaged
  BY <1>1, <1>4, CreateFacts
<1>5. CASE \E to : Transition(r, to)
  BY <1>1, <1>5, MoveFacts
<1>6. CASE Claim(r, w)
  BY <1>1, <1>6, ClaimFacts
<1>7. CASE RecordArtifact(r, w)
  BY <1>1, <1>7, ArtifactFacts
<1> HIDE DEF r
<1>8. QED
  BY <1>2, <1>3, <1>4, <1>5, <1>6, <1>7 DEF WorkerDoes, r

(* A publisher leaves a record as well, on the control plane's root.       *)
LEMMA PublisherJob ==
  ASSUME JobTypeOK, posts \in Nat, NEW p \in Publisher, result[p] \in Nat, NEW l,
         PublisherDoes(p, l)
  PROVE  /\ JobTypeOK' /\ posts' \in {posts, posts + 1}
         /\ \A x \in Root : x # Control => job'[x] = job[x]
         /\ \A x \in Root : Exists(x) => Exists(x)'
<1>1. CASE UNCHANGED job /\ posts' \in {posts, posts + 1}
  BY <1>1 DEF JobTypeOK, Exists
<1>2. CASE UNCHANGED posts /\ \E to : Transition(Control, to)
  BY <1>2, MoveFacts, RootFacts DEF Exists
<1>3. CASE UNCHANGED posts /\ \E a \in Worker : RecordReported(Control, a)
  BY <1>3, ArtifactFacts, RootFacts DEF Exists
<1>4. CASE /\ UNCHANGED posts
           /\ \/ RecordPublish(Control, result[p]) \/ RecordPublishLate(Control, result[p])
              \/ RecordPublishTorn(Control, result[p])
  BY <1>4, PostFacts, RootFacts DEF Exists
<1>5. QED
  BY <1>1, <1>2, <1>3, <1>4 DEF PublisherDoes

LEMMA AppendEvent ==
  ASSUME ledger \in Seq(Event), NEW e \in Event, ledger' = Append(ledger, e)
  PROVE  /\ ledger' \in Seq(Event)
         /\ \A i \in 1..Len(ledger') : \/ ledger'[i] = e
                                       \/ i \in 1..Len(ledger) /\ ledger'[i] = ledger[i]
BY AppendProperties, LenProperties

(* An event of a record that is there.                                     *)
LEMMA AnnouncementType ==
  ASSUME JobTypeOK, NEW r \in Root, Exists(r)
  PROVE  Announcement(r) \in Event
<1>1. job[r] \in Job
  BY DEF JobTypeOK, Exists
<1>2. QED
  BY <1>1 DEF Announcement, Event, Job

(* A worker's step.                                                        *)
LEMMA WorkerTypeInv ==
  ASSUME TypeInv, NEW w \in Worker, WorkerStep(w)
  PROVE  TypeInv'
<1>1. /\ UNCHANGED <<posts, oper, first, todo, left, result, requeues, lapsed>>
      /\ EnvType'
      /\ \/ UNCHANGED ledger
         \/ /\ pc[w] \in {"announce", "report"} /\ UNCHANGED job
            /\ ledger' = Append(ledger, Announcement(RootOf(w)))
  BY WorkerEffect
<1>2. PICK l \in WorkerPC : pc' = [pc EXCEPT ![w] = l] /\ WorkerDoes(w, l)
  BY WorkerEffect
<1>3. JobTypeOK /\ RootOf(w) \in Root /\ w \notin Publisher /\ w \in Process
  BY RootFacts, ProcessAssumption DEF TypeInv, Process
<1>4. /\ JobTypeOK' /\ \A x \in Root : x # RootOf(w) => job'[x] = job[x]
      /\ \/ Exists(RootOf(w)) => Exists(RootOf(w))'
         \/ w \in Runner /\ pc[w] = "off" /\ l = "open"
      /\ l \in Engaged => \/ Exists(RootOf(w))'
                          \/ UNCHANGED job /\ pc[w] = "announce"
  BY <1>2, <1>3, WorkerJob
<1>5. ledger' \in Seq(Event)
  <2>1. CASE UNCHANGED ledger
    BY <2>1 DEF TypeInv
  <2>2. CASE ledger' = Append(ledger, Announcement(RootOf(w))) /\ pc[w] \in {"announce", "report"}
    <3>1. Exists(RootOf(w))
      BY <2>2 DEF TypeInv, Engaged
    <3>2. QED
      BY <1>3, <2>2, <3>1, AnnouncementType, AppendEvent DEF TypeInv
  <2>3. QED
    BY <1>1, <2>1, <2>2
<1>6. LocalType'
  <2>1. pc' \in [Process -> WorkerPC \cup PublisherPC]
    BY <1>2, <1>3 DEF TypeInv, LocalType
  <2>2. \A v \in Worker : pc'[v] \in WorkerPC
    BY <1>2, <1>3 DEF TypeInv, LocalType, Process
  <2>3. \A p \in Publisher : pc'[p] \in PublisherPC
    BY <1>2, <1>3 DEF TypeInv, LocalType, Process
  <2>4. QED
    BY <1>1, <2>1, <2>2, <2>3 DEF TypeInv, LocalType
<1>7. ASSUME NEW v \in Worker, pc'[v] \in Engaged PROVE Exists(RootOf(v))'
  <2>1. CASE v = w
    <3>1. l \in Engaged
      BY <1>2, <1>3, <1>7, <2>1 DEF TypeInv, LocalType
    <3>2. UNCHANGED job /\ pc[w] = "announce" => Exists(RootOf(w))'
      BY DEF TypeInv, Engaged, Exists
    <3>3. QED
      BY <1>4, <2>1, <3>1, <3>2
  <2>2. CASE v # w
    <3>1. pc[v] \in Engaged
      BY <1>2, <1>7, <2>2 DEF TypeInv, LocalType, Process
    <3>2. Exists(RootOf(v)) /\ RootOf(v) \in Root
      BY <3>1, RootFacts DEF TypeInv
    <3>3. CASE RootOf(v) # RootOf(w)
      BY <1>4, <3>2, <3>3 DEF Exists
    <3>4. CASE RootOf(v) = RootOf(w)
      <4>1. w \notin Runner
        BY <2>2, <3>4, RootFacts
      <4>2. QED
        BY <1>4, <3>2, <3>4, <4>1
    <3>5. QED
      BY <3>3, <3>4
  <2>3. QED
    BY <2>1, <2>2
<1>8. QED
  BY <1>1, <1>4, <1>5, <1>6, <1>7 DEF TypeInv

(* The calls and the events that are left stay well typed.                 *)
LEMMA TodoType ==
  ASSUME TypeInv, NEW p \in Publisher, TodoDoes(p)
  PROVE  todo' \in [Publisher -> Seq(Call)] /\ left' \in [Publisher -> Seq(Event)]
<1>1. /\ todo \in [Publisher -> Seq(Call)] /\ left \in [Publisher -> Seq(Event)]
      /\ ledger \in Seq(Event) /\ <<>> \in Seq(Event) /\ <<>> \in Seq(Call)
  BY DEF TypeInv, LocalType
<1>2. CASE UNCHANGED <<todo, left>>
  BY <1>1, <1>2
<1>3. CASE todo' = [todo EXCEPT ![p] = <<>>] /\ left' = [left EXCEPT ![p] = <<>>]
  BY <1>1, <1>3
<1>4. CASE todo[p] # <<>> /\ UNCHANGED left /\ todo' = [todo EXCEPT ![p] = Tail(@)]
  <2>1. Tail(todo[p]) \in Seq(Call)
    BY <1>1, <1>4, HeadTailProperties
  <2>2. QED
    BY <1>1, <1>4, <2>1
<1>5. ASSUME NEW events \in {ledger, <<>>, left[p]}, NEW k \in 1..Len(events),
             NEW rest \in Seq(Event),
             todo' = [todo EXCEPT ![p] = Calls(Status(Control), events[k])],
             left' = [left EXCEPT ![p] = rest]
      PROVE  todo' \in [Publisher -> Seq(Call)] /\ left' \in [Publisher -> Seq(Event)]
  <2>1. events \in Seq(Event)
    BY <1>1
  <2>2. events[k] \in Event
    BY <2>1, ElementOfSeq
  <2>3. Calls(Status(Control), events[k]) \in Seq(Call)
    BY <2>2, CallsType
  <2>4. QED
    BY <1>1, <1>5, <2>3
<1>6. QED
  BY <1>2, <1>3, <1>4, <1>5 DEF TodoDoes

(* A publisher's step.                                                     *)
LEMMA PublisherTypeInv ==
  ASSUME TypeInv, NEW p \in Publisher, PublisherStep(p)
  PROVE  TypeInv'
<1>1. /\ UNCHANGED <<oper, requeues, lapsed>> /\ EnvType'
      /\ UNCHANGED ledger \/ ledger' = Append(ledger, PublishedEvent)
  BY PublisherEffect
<1>2. PICK l \in PublisherPC :
        /\ pc' = [pc EXCEPT ![p] = l] /\ PublisherDoes(p, l)
        /\ \/ result' = result
           \/ result' = [result EXCEPT ![p] = 0]
           \/ \E n \in 1..posts' : result' = [result EXCEPT ![p] = n]
  BY PublisherEffect
<1>3. JobTypeOK /\ p \notin Worker /\ p \in Process /\ result[p] \in Nat /\ posts \in Nat
  BY ProcessAssumption DEF TypeInv, LocalType, Process
<1>4. /\ JobTypeOK' /\ posts' \in {posts, posts + 1} /\ \A x \in Root : Exists(x) => Exists(x)'
  BY <1>2, <1>3, PublisherJob
<1>5. ledger' \in Seq(Event)
  <2>1. PublishedEvent \in Event
    BY DEF PublishedEvent, Event, State
  <2>2. QED
    BY <1>1, <2>1, AppendEvent DEF TypeInv
<1>6. LocalType'
  <2>1. pc' \in [Process -> WorkerPC \cup PublisherPC]
    BY <1>2, <1>3 DEF TypeInv, LocalType
  <2>2. \A v \in Worker : pc'[v] \in WorkerPC
    BY <1>2, <1>3 DEF TypeInv, LocalType, Process
  <2>3. \A q \in Publisher : pc'[q] \in PublisherPC
    BY <1>2, <1>3 DEF TypeInv, LocalType, Process
  <2>4. todo' \in [Publisher -> Seq(Call)] /\ left' \in [Publisher -> Seq(Event)]
    BY TodoEffect, TodoType
  <2>5. first' \in [Publisher -> State \cup {"none"}]
    <3>1. PICK s \in {first[p], Status(Control), "none"} : first' = [first EXCEPT ![p] = s]
      BY TodoEffect
    <3>2. Status(Control) \in State \cup {"none"}
      BY <1>3, RootFacts DEF Status, Exists, JobTypeOK, Job
    <3>3. first \in [Publisher -> State \cup {"none"}]
      BY DEF TypeInv, LocalType
    <3>4. QED
      BY <3>1, <3>2, <3>3
  <2>6. result' \in [Publisher -> 0..posts']
    <3>1. result \in [Publisher -> 0..posts']
      BY <1>3, <1>4 DEF TypeInv, LocalType
    <3>2. \A n \in 0..posts' : [result EXCEPT ![p] = n] \in [Publisher -> 0..posts']
      BY <3>1
    <3>3. 0 \in 0..posts' /\ \A n \in 1..posts' : n \in 0..posts'
      BY <1>3, <1>4
    <3>4. QED
      BY <1>2, <3>1, <3>2, <3>3
  <2>7. QED
    BY <2>1, <2>2, <2>3, <2>4, <2>5, <2>6 DEF LocalType
<1>7. ASSUME NEW v \in Worker, pc'[v] \in Engaged PROVE Exists(RootOf(v))'
  <2>1. pc[v] \in Engaged
    BY <1>2, <1>3, <1>7 DEF TypeInv, LocalType, Process
  <2>2. Exists(RootOf(v)) /\ RootOf(v) \in Root
    BY <2>1, RootFacts DEF TypeInv
  <2>3. QED
    BY <1>4, <2>2
<1>8. QED
  BY <1>1, <1>3, <1>4, <1>5, <1>6, <1>7 DEF TypeInv

(* The initial states and the steps of everybody.                          *)
LEMMA NextTypeInv ==
  /\ Init => TypeInv
  /\ TypeInv /\ [Next]_vars => TypeInv'
<1>1. ASSUME Init PROVE TypeInv
  <2>1. /\ pc \in [Process -> WorkerPC \cup PublisherPC]
        /\ \A w \in Worker : pc[w] = "off" 
        /\ \A p \in Publisher : pc[p] = "off"
    BY <1>1 DEF Init, Process, WorkerPC
  <2>2. /\ first \in [Publisher -> State \cup {"none"}]
        /\ todo \in [Publisher -> Seq(Call)] /\ left \in [Publisher -> Seq(Event)]
        /\ ledger \in Seq(Event) /\ posts \in Nat /\ oper \in {"idle", "enqueue"}
        /\ lapsed \subseteq Root
    BY <1>1 DEF Init
  <2>3. result \in [Publisher -> 0..posts]
    BY <1>1 DEF Init
  <2>4. JobTypeOK
    BY <1>1 DEF Init, JobInit, JobTypeOK
  <2>5. EnvType
    BY <1>1, FyeBounds DEF Init, EnvType
  <2>6. QED
    BY <2>1, <2>2, <2>3, <2>4, <2>5 DEF TypeInv, LocalType, WorkerPC, PublisherPC, Engaged
<1>2. ASSUME TypeInv, [Next]_vars PROVE TypeInv'
  <2>1. CASE UNCHANGED vars
    <3>1. UNCHANGED <<job, ledger, posts, oper, pc, first, todo, left, result, starts, requeues,
                      faults, lapsed>>
      BY <2>1 DEF vars, procVars, envVars
    <3>2. QED
      BY <1>2, <3>1 DEF TypeInv, LocalType, EnvType, JobTypeOK, Exists
  <2>2. ASSUME NEW w \in Worker, WorkerStep(w) PROVE TypeInv'
    BY <1>2, <2>2, WorkerTypeInv
  <2>3. ASSUME NEW p \in Publisher, PublisherStep(p) PROVE TypeInv'
    BY <1>2, <2>3, PublisherTypeInv
  <2>4. ASSUME UNCHANGED <<posts, procVars>>, EnvType', oper' \in {"idle", "enqueue"}, JobTypeOK',
               \A x \in Root : Exists(x) => Exists(x)', lapsed' \subseteq Root,
               ledger' \in Seq(Event)
        PROVE  TypeInv'
    <3>1. UNCHANGED <<posts, pc, first, todo, left, result>>
      BY <2>4 DEF procVars
    <3>2. LocalType'
      BY <1>2, <3>1 DEF TypeInv, LocalType
    <3>3. ASSUME NEW w \in Worker, pc'[w] \in Engaged PROVE Exists(RootOf(w))'
      BY <1>2, <2>4, <3>1, <3>3, RootFacts DEF TypeInv
    <3>4. QED
      BY <1>2, <2>4, <3>1, <3>2, <3>3 DEF TypeInv
  <2>5. CASE OperatorStep
    <3>1. /\ UNCHANGED <<posts, procVars, lapsed>> /\ EnvType' /\ oper' \in {"idle", "enqueue"}
          /\ \/ UNCHANGED ledger
             \/ /\ UNCHANGED job /\ Status(Control) \in {"APPROVED", "QUEUED"}
                /\ ledger' = Append(ledger, Announcement(Control))
          /\ \/ UNCHANGED job \/ Create(Control)
             \/ \E to : Transition(Control, to)
      BY <1>2, <2>5, OperatorEffect
    <3>2. JobTypeOK /\ lapsed \subseteq Root /\ ledger \in Seq(Event)
      BY <1>2 DEF TypeInv
    <3>3. JobTypeOK' /\ \A x \in Root : Exists(x) => Exists(x)'
      <4>1. CASE UNCHANGED job
        BY <3>2, <4>1 DEF JobTypeOK, Exists
      <4>2. CASE Create(Control)
        BY <3>2, <4>2, CreateFacts, RootFacts DEF Exists
      <4>3. CASE \E to : Transition(Control, to)
        BY <3>2, <4>3, MoveFacts, RootFacts DEF Exists
      <4>4. QED
        BY <3>1, <4>1, <4>2, <4>3
    <3>4. ledger' \in Seq(Event)
      <4>1. CASE /\ Status(Control) \in {"APPROVED", "QUEUED"}
                 /\ ledger' = Append(ledger, Announcement(Control))
        <5>1. Exists(Control)
          BY <4>1 DEF Status
        <5>2. QED
          BY <3>2, <4>1, <5>1, RootFacts, AnnouncementType, AppendEvent
      <4>2. QED
        BY <3>1, <3>2, <4>1
    <3>5. QED
      BY <2>4, <3>1, <3>2, <3>3, <3>4
  <2>6. ASSUME NEW r \in Root, Expires(r) \/ LeaseRunsOut(r) PROVE TypeInv'
    <3>1. /\ UNCHANGED <<ledger, posts, oper, procVars>> /\ EnvType' /\ lapsed' \subseteq Root
          /\ JobExpires(r) \/ PublishExpires(r) \/ LeaseEnds(r)
      BY <1>2, <2>6, TimeEffect DEF TypeInv
    <3>2. JobTypeOK /\ ledger \in Seq(Event) /\ oper \in {"idle", "enqueue"}
      BY <1>2 DEF TypeInv
    <3>3. JobTypeOK' /\ \A x \in Root : Exists(x) => Exists(x)'
      BY <3>1, <3>2, DeadlineFacts DEF Exists
    <3>4. QED
      BY <2>4, <3>1, <3>2, <3>3
  <2>7. QED
    BY <1>2, <2>1, <2>2, <2>3, <2>5, <2>6 DEF Next
<1>3. QED
  BY <1>1, <1>2
-----------------------------------------------------------------------------
(* The types of TypeOK.  That no record counts more attempts than workers  *)
(* were started needs the workers on their way to a claim counted too.     *)
Waiting == {w \in Worker : pc[w] \in Queueing}

StartsInv ==
  /\ IsFiniteSet(Waiting) /\ Cardinality(Waiting) <= starts
  /\ \A r \in Root : Exists(r) => job[r].attempts + Cardinality(Waiting) <= starts

(* A worker that starts joins them, one that goes on stays or leaves.      *)
LEMMA WaitingStep ==
  ASSUME TypeInv, NEW w \in Worker, NEW l \in WorkerPC, pc' = [pc EXCEPT ![w] = l],
         IsFiniteSet(Waiting)
  PROVE  /\ IsFiniteSet(Waiting') /\ Cardinality(Waiting) \in Nat /\ Cardinality(Waiting') \in Nat
         /\ Cardinality(Waiting') <= Cardinality(Waiting) + 1
         /\ (l \in Queueing => pc[w] \in Queueing) => Cardinality(Waiting') <= Cardinality(Waiting)
         /\ pc[w] \in Queueing /\ l \notin Queueing
              => Cardinality(Waiting') + 1 = Cardinality(Waiting)
<1>1. \A v \in Worker : pc'[v] = IF v = w THEN l ELSE pc[v]
  BY DEF TypeInv, LocalType, Process
<1>2. CASE l \in Queueing
  <2>1. Waiting' = Waiting \cup {w}
    BY <1>1, <1>2 DEF Waiting
  <2>2. /\ IsFiniteSet(Waiting')
        /\ Cardinality(Waiting') = IF w \in Waiting THEN Cardinality(Waiting)
                                   ELSE Cardinality(Waiting) + 1
    BY <2>1, FS_AddElement
  <2>3. Cardinality(Waiting) \in Nat
    BY FS_CardinalityType
  <2>4. w \in Waiting <=> pc[w] \in Queueing
    BY DEF Waiting
  <2>5. QED
    BY <1>2, <2>2, <2>3, <2>4
<1>3. CASE l \notin Queueing
  <2>1. Waiting' = Waiting \ {w}
    BY <1>1, <1>3 DEF Waiting
  <2>2. /\ IsFiniteSet(Waiting')
        /\ Cardinality(Waiting') = IF w \in Waiting THEN Cardinality(Waiting) - 1
                                   ELSE Cardinality(Waiting)
    BY <2>1, FS_RemoveElement
  <2>3. Cardinality(Waiting) \in Nat /\ Cardinality(Waiting') \in Nat
    BY <2>2, FS_CardinalityType
  <2>4. w \in Waiting <=> pc[w] \in Queueing
    BY DEF Waiting
  <2>5. QED
    BY <1>3, <2>2, <2>3, <2>4
<1>4. QED
  BY <1>2, <1>3

(* Only a claim counts an attempt.                                         *)
LEMMA AttemptsStep ==
  ASSUME TypeInv, NEW r \in Root, [Next]_vars, Exists(r)'
  PROVE  \/ job'[r] = Created /\ ~Exists(r)
         \/ Exists(r) /\ job'[r].attempts = job[r].attempts
         \/ \E w \in Worker :
              /\ Exists(r) /\ job'[r].attempts = job[r].attempts + 1
              /\ pc[w] = "claim" /\ pc' = [pc EXCEPT ![w] = "start"]
<1>1. JobTypeOK
  BY DEF TypeInv
<1>2. ASSUME UNCHANGED job PROVE Exists(r) /\ job'[r].attempts = job[r].attempts
  BY <1>2 DEF Exists
<1>3. ASSUME NEW x \in Root, Create(x)
      PROVE  \/ job'[r] = Created /\ ~Exists(r)
             \/ Exists(r) /\ job'[r].attempts = job[r].attempts
  BY <1>1, <1>3, CreateFacts DEF Exists
<1>4. ASSUME NEW x \in Root, NEW to, Transition(x, to)
      PROVE  Exists(r) /\ job'[r].attempts = job[r].attempts
  BY <1>1, <1>4, MoveFacts DEF Exists, SameLease
<1>5. ASSUME NEW x \in Root, NEW a \in Worker, RecordArtifact(x, a) \/ RecordReported(x, a)
      PROVE  Exists(r) /\ job'[r].attempts = job[r].attempts
  BY <1>1, <1>5, ArtifactFacts DEF Exists, SameLease
<1>6. CASE UNCHANGED vars
  BY <1>2, <1>6 DEF vars
<1>7. ASSUME NEW w \in Worker, WorkerStep(w)
      PROVE  \/ job'[r] = Created /\ ~Exists(r)
             \/ Exists(r) /\ job'[r].attempts = job[r].attempts
             \/ /\ Exists(r) /\ job'[r].attempts = job[r].attempts + 1
                /\ pc[w] = "claim" /\ pc' = [pc EXCEPT ![w] = "start"]
  <2>1. PICK l \in WorkerPC : pc' = [pc EXCEPT ![w] = l] /\ WorkerDoes(w, l)
    BY <1>7, WorkerEffect
  <2>2. RootOf(w) \in Root
    BY RootFacts
  <2>3. CASE Claim(RootOf(w), w) /\ pc[w] = "claim" /\ l = "start"
    BY <1>1, <2>1, <2>2, <2>3, ClaimFacts DEF Exists
  <2>4. CASE w \in Runner /\ job' = [job EXCEPT ![w] = None]
    BY <1>1, <2>4 DEF Exists, JobTypeOK
  <2>5. QED
    BY <1>2, <1>3, <1>4, <1>5, <2>1, <2>2, <2>3, <2>4 DEF WorkerDoes
<1>8. ASSUME NEW p \in Publisher, PublisherStep(p)
      PROVE  Exists(r) /\ job'[r].attempts = job[r].attempts
  <2>1. PICK l \in PublisherPC : PublisherDoes(p, l)
    BY <1>8, PublisherEffect
  <2>2. Control \in Root /\ result[p] \in Nat
    BY RootFacts DEF TypeInv, LocalType
  <2>3. CASE \/ RecordPublish(Control, result[p]) \/ RecordPublishLate(Control, result[p])
             \/ RecordPublishTorn(Control, result[p])
    BY <1>1, <2>2, <2>3, PostFacts DEF Exists, SameLease
  <2>4. QED
    BY <1>2, <1>4, <1>5, <2>1, <2>2, <2>3 DEF PublisherDoes
<1>9. CASE OperatorStep
  BY <1>2, <1>3, <1>4, <1>9, OperatorEffect, RootFacts
<1>10. ASSUME NEW x \in Root, Expires(x) \/ LeaseRunsOut(x)
       PROVE  Exists(r) /\ job'[r].attempts = job[r].attempts
  BY <1>1, <1>10, TimeEffect, DeadlineFacts DEF Exists
<1>11. QED
  BY <1>6, <1>7, <1>8, <1>9, <1>10 DEF Next

LEMMA NextStartsInv ==
  /\ Init => StartsInv
  /\ TypeInv /\ StartsInv /\ [Next]_vars => StartsInv'
<1>1. ASSUME Init PROVE StartsInv
  <2>1. Waiting = {}
    BY <1>1 DEF Init, Waiting, Queueing, Process
  <2>2. \A r \in Root : ~Exists(r)
    BY <1>1 DEF Init, JobInit, Exists
  <2>3. starts = 0
    BY <1>1 DEF Init
  <2>4. QED
    BY <2>1, <2>2, <2>3, FS_EmptySet DEF StartsInv
<1>2. ASSUME TypeInv, StartsInv, [Next]_vars PROVE StartsInv'
  <2> DEFINE c == Cardinality(Waiting)
  <2>1. IsFiniteSet(Waiting) /\ c \in Nat /\ c <= starts /\ starts \in Nat
    BY <1>2, FS_CardinalityType DEF StartsInv, TypeInv, EnvType
  <2>2. \A r \in Root : Exists(r) => job[r].attempts \in Nat /\ job[r].attempts + c <= starts
    BY <1>2 DEF StartsInv, TypeInv, JobTypeOK, Exists, Job
  <2>3. ASSUME IsFiniteSet(Waiting'), c' \in Nat, starts' \in Nat, c' <= starts',
               \/ c' <= c /\ starts' >= starts
               \/ c' <= c + 1 /\ starts' = starts + 1,
               \A w \in Worker : pc[w] = "claim" /\ pc' = [pc EXCEPT ![w] = "start"]
                                   => c' + 1 = c /\ starts' = starts
        PROVE  StartsInv'
    <3>1. ASSUME NEW r \in Root, Exists(r)' PROVE job'[r].attempts + c' <= starts'
      <4>1. CASE job'[r] = Created
        <5>1. job'[r].attempts = 0
          BY <4>1 DEF Created
        <5>2. c' \in Nat /\ c' <= starts'
          BY <2>3
        <5> HIDE DEF c
        <5>3. 0 + c' <= starts'
          BY <5>2
        <5>4. QED
          BY <5>1, <5>3 DEF c
      <4>2. CASE Exists(r) /\ job'[r].attempts = job[r].attempts
        <5>1. job[r].attempts \in Nat /\ job[r].attempts + c <= starts
          BY <2>2, <4>2
        <5>2. /\ c' \in Nat /\ starts' \in Nat
              /\ \/ c' <= c /\ starts' >= starts
                 \/ c' <= c + 1 /\ starts' = starts + 1
          BY <2>3
        <5> HIDE DEF c
        <5>3. job[r].attempts + c' <= starts'
          BY <2>1, <5>1, <5>2
        <5>4. QED
          BY <4>2, <5>3 DEF c
      <4>3. CASE \E w \in Worker :
                   /\ Exists(r) /\ job'[r].attempts = job[r].attempts + 1
                   /\ pc[w] = "claim" /\ pc' = [pc EXCEPT ![w] = "start"]
        <5>1. /\ job[r].attempts \in Nat /\ job[r].attempts + c <= starts
              /\ job'[r].attempts = job[r].attempts + 1
          BY <2>2, <4>3
        <5>2. c' + 1 = c /\ starts' = starts
          BY <2>3, <4>3
        <5>3. c' \in Nat
          BY <2>3
        <5> HIDE DEF c
        <5>4. job[r].attempts + 1 + c' <= starts'
          BY <2>1, <5>1, <5>2, <5>3
        <5>5. QED
          BY <5>1, <5>4 DEF c
      <4>4. QED
        BY <1>2, <3>1, <4>1, <4>2, <4>3, AttemptsStep
    <3>2. QED
      BY <2>3, <3>1 DEF StartsInv
  <2>4. ASSUME UNCHANGED <<pc, starts>> PROVE StartsInv'
    <3>1. Waiting' = Waiting
      BY <2>4 DEF Waiting
    <3>2. \A w \in Worker : pc[w] = "claim" => pc' # [pc EXCEPT ![w] = "start"]
      BY <1>2, <2>4 DEF TypeInv, LocalType, Process
    <3>3. c' = c
      BY <3>1
    <3> HIDE DEF c
    <3>4. c' \in Nat /\ starts' \in Nat /\ c' <= c /\ starts' >= starts /\ c' <= starts'
      BY <2>1, <2>4, <3>3
    <3>5. QED
      BY <2>1, <2>3, <3>1, <3>2, <3>4
  <2>5. ASSUME NEW p \in Publisher, PublisherStep(p) PROVE StartsInv'
    <3>1. /\ starts' \in {starts, starts + 1}
          /\ \E l : pc' = [pc EXCEPT ![p] = l]
      BY <1>2, <2>5, PublisherEffect
    <3>2. \A w \in Worker : pc'[w] = pc[w]
      BY <1>2, <3>1, ProcessAssumption DEF TypeInv, LocalType, Process
    <3>3. Waiting' = Waiting
      BY <3>2 DEF Waiting
    <3>4. \A w \in Worker : pc[w] = "claim" => pc' # [pc EXCEPT ![w] = "start"]
      BY <1>2, <3>2 DEF TypeInv, LocalType, Process
    <3>5. c' = c
      BY <3>3
    <3> HIDE DEF c
    <3>6. c' \in Nat /\ starts' \in Nat /\ c' <= c /\ starts' >= starts /\ c' <= starts'
      BY <2>1, <3>1, <3>5
    <3>7. QED
      BY <2>1, <2>3, <3>3, <3>4, <3>6
  <2>6. ASSUME NEW w \in Worker, WorkerStep(w) PROVE StartsInv'
    <3>1. PICK l \in WorkerPC :
            /\ pc' = [pc EXCEPT ![w] = l]
            /\ starts' \in Nat
            /\ \/ starts' = starts /\ (l \in Queueing => pc[w] \in Queueing)
               \/ starts' = starts + 1 /\ pc[w] = "off" /\ l = "open"
      BY <1>2, <2>6, WorkerEffect DEF EnvType
    <3>2. /\ IsFiniteSet(Waiting') /\ c' \in Nat /\ c' <= c + 1
          /\ (l \in Queueing => pc[w] \in Queueing) => c' <= c
          /\ pc[w] \in Queueing /\ l \notin Queueing => c' + 1 = c
      BY <1>2, <2>1, <3>1, WaitingStep
    <3>3. ASSUME NEW v \in Worker, pc[v] = "claim", pc' = [pc EXCEPT ![v] = "start"]
          PROVE  v = w /\ pc[w] \in Queueing /\ l \notin Queueing /\ starts' = starts
      <4>1. pc'[v] = "start" /\ pc[v] # pc'[v]
        BY <1>2, <3>3 DEF TypeInv, LocalType, Process
      <4>2. v = w
        BY <1>2, <3>1, <4>1 DEF TypeInv, LocalType, Process
      <4>3. l = "start"
        BY <1>2, <3>1, <4>1, <4>2 DEF TypeInv, LocalType, Process
      <4>4. QED
        BY <3>1, <3>3, <4>2, <4>3 DEF Queueing
    <3> HIDE DEF c
    <3>4. \/ c' <= c /\ starts' >= starts
          \/ c' <= c + 1 /\ starts' = starts + 1
      BY <2>1, <3>1, <3>2
    <3>5. starts' \in Nat /\ c' <= starts'
      <4>1. starts \in Nat /\ starts' \in Nat /\ c \in Nat /\ c' \in Nat /\ c <= starts
        BY <2>1, <3>1, <3>2 DEF c
      <4>2. QED
        BY <3>4, <4>1
    <3>6. \A v \in Worker : pc[v] = "claim" /\ pc' = [pc EXCEPT ![v] = "start"]
                              => c' + 1 = c /\ starts' = starts
      BY <3>2, <3>3
    <3>7. QED
      BY <2>3, <3>2, <3>4, <3>5, <3>6
  <2>7. CASE OperatorStep
    BY <1>2, <2>4, <2>7, OperatorEffect DEF procVars
  <2>8. ASSUME NEW r \in Root, Expires(r) \/ LeaseRunsOut(r) PROVE StartsInv'
    BY <1>2, <2>4, <2>8, TimeEffect DEF procVars
  <2>9. CASE UNCHANGED vars
    BY <2>4, <2>9 DEF vars, procVars, envVars
  <2>10. QED
    BY <1>2, <2>5, <2>6, <2>7, <2>8, <2>9 DEF Next
<1>3. QED
  BY <1>1, <1>2

(* Every variable keeps its type, and no record under any root counts more *)
(* attempts than workers were started (TypeOK): the attempts that          *)
(* verify_worker_inputs and claim count are those of processes.            *)
THEOREM Types == Spec => []TypeOK
<1>1. TypeInv /\ StartsInv => TypeOK
  <2>1. ASSUME TypeInv, StartsInv, NEW r \in Root, Exists(r) PROVE job[r].attempts <= starts
    <3>1. /\ Cardinality(Waiting) \in Nat /\ job[r].attempts \in Nat /\ starts \in Nat
          /\ job[r].attempts + Cardinality(Waiting) <= starts
      BY <2>1, FS_CardinalityType DEF StartsInv, TypeInv, EnvType, JobTypeOK, Exists, Job
    <3>2. QED
      BY <3>1
  <2>2. QED
    BY <2>1 DEF TypeInv, TypeOK, LocalType, EnvType
<1>2. QED
  BY <1>1, NextTypeInv, NextStartsInv, PTL DEF Spec

LEMMA AlwaysTyped == Spec => []TypeInv
BY NextTypeInv, PTL DEF Spec
-----------------------------------------------------------------------------
(* One worker per lease.  A worker between its claim and READY holds the   *)
(* lease of its root until one of its leases ends; a lease that has ended  *)
(* has its root in lapsed.                                                 *)
Holding == {"start", "announce", "render", "record", "ready"}

LeaseInv ==
  /\ \A r \in Root : Exists(r) /\ job[r].leaseOver => r \in lapsed
  /\ \A w \in Worker : pc[w] \in Holding /\ RootOf(w) \notin lapsed
                         => /\ Exists(RootOf(w)) /\ job[RootOf(w)].owner = w

(* Leases change with a claim, with a deadline, and with an empty root.    *)
LEMMA LeaseChanges ==
  ASSUME TypeInv, NEW r \in Root, [Next]_vars
  PROVE  /\ lapsed \subseteq lapsed'
         /\ Exists(r)' =>
              \/ ~Exists(r) /\ job'[r] = Created
              \/ Exists(r) /\ SameLease(job[r], job'[r])
              \/ /\ Exists(r) /\ job'[r].owner = job[r].owner /\ r \in lapsed'
              \/ \E w \in Worker :
                   /\ RootOf(w) = r /\ Claim(r, w) /\ pc[w] = "claim"
                   /\ pc' = [pc EXCEPT ![w] = "start"] /\ UNCHANGED lapsed
         /\ Exists(r) => \/ Exists(r)'
                         \/ r \in Runner /\ pc[r] = "off" /\ pc' = [pc EXCEPT ![r] = "open"]
<1>1. JobTypeOK
  BY DEF TypeInv
<1> DEFINE Same == Exists(r)' => \/ ~Exists(r) /\ job'[r] = Created
                                 \/ Exists(r) /\ SameLease(job[r], job'[r])
<1> DEFINE Stays == Exists(r) => Exists(r)'
<1>2. ASSUME UNCHANGED job PROVE Same /\ Stays
  BY <1>2 DEF Exists, SameLease
<1>3. ASSUME NEW x \in Root, Create(x) PROVE Same /\ Stays
  BY <1>1, <1>3, CreateFacts DEF Exists, SameLease
<1>4. ASSUME NEW x \in Root, NEW to, Transition(x, to) PROVE Same /\ Stays
  BY <1>1, <1>4, MoveFacts DEF Exists, SameLease
<1>5. ASSUME NEW x \in Root, NEW a \in Worker, RecordArtifact(x, a) \/ RecordReported(x, a)
      PROVE  Same /\ Stays
  BY <1>1, <1>5, ArtifactFacts DEF Exists, SameLease
<1> HIDE DEF Same, Stays
<1>6. CASE UNCHANGED vars
  BY <1>2, <1>6 DEF vars, envVars, Same, Stays
<1>7. ASSUME NEW w \in Worker, WorkerStep(w)
      PROVE  /\ UNCHANGED lapsed
             /\ \/ Same /\ Stays
                \/ Same /\ w = r /\ r \in Runner /\ pc[r] = "off" /\ pc' = [pc EXCEPT ![r] = "open"]
                \/ /\ RootOf(w) = r /\ Claim(r, w) /\ Exists(r) /\ Exists(r)' /\ pc[w] = "claim"
                   /\ pc' = [pc EXCEPT ![w] = "start"]
  <2>1. PICK l \in WorkerPC : pc' = [pc EXCEPT ![w] = l] /\ WorkerDoes(w, l)
    BY <1>7, WorkerEffect
  <2>2. RootOf(w) \in Root /\ UNCHANGED lapsed
    BY <1>7, RootFacts, WorkerEffect
  <2>3. CASE Claim(RootOf(w), w) /\ pc[w] = "claim" /\ l = "start"
    <3>1. CASE RootOf(w) = r
      BY <1>1, <2>1, <2>2, <2>3, <3>1, ClaimFacts
    <3>2. CASE RootOf(w) # r
      <4>1. job'[r] = job[r]
        BY <1>1, <2>2, <2>3, <3>2, ClaimFacts
      <4>2. QED
        BY <2>2, <4>1 DEF Same, Stays, Exists, SameLease
    <3>3. QED
      BY <3>1, <3>2
  <2>4. CASE w \in Runner /\ pc[w] = "off" /\ l = "open" /\ job' = [job EXCEPT ![w] = None]
    <3>1. CASE w = r
      <4>1. ~Exists(r)'
        BY <1>1, <2>4, <3>1 DEF Exists, JobTypeOK
      <4>2. QED
        BY <2>1, <2>2, <2>4, <3>1, <4>1 DEF Same
    <3>2. CASE w # r
      <4>1. job'[r] = job[r]
        BY <1>1, <2>4, <3>2 DEF JobTypeOK
      <4>2. QED
        BY <2>2, <4>1 DEF Same, Stays, Exists, SameLease
    <3>3. QED
      BY <3>1, <3>2
  <2>5. QED
    BY <1>2, <1>3, <1>4, <1>5, <2>1, <2>2, <2>3, <2>4 DEF WorkerDoes
<1>8. ASSUME NEW p \in Publisher, PublisherStep(p) PROVE UNCHANGED lapsed /\ Same /\ Stays
  <2>1. PICK l \in PublisherPC : PublisherDoes(p, l)
    BY <1>8, PublisherEffect
  <2>2. Control \in Root /\ result[p] \in Nat /\ UNCHANGED lapsed
    BY <1>8, PublisherEffect, RootFacts DEF TypeInv, LocalType
  <2>3. CASE \/ RecordPublish(Control, result[p]) \/ RecordPublishLate(Control, result[p])
             \/ RecordPublishTorn(Control, result[p])
    BY <1>1, <2>2, <2>3, PostFacts DEF Exists, SameLease, Same, Stays
  <2>4. QED
    BY <1>2, <1>4, <1>5, <2>1, <2>2, <2>3 DEF PublisherDoes
<1>9. CASE OperatorStep
  BY <1>2, <1>3, <1>4, <1>9, OperatorEffect, RootFacts DEF Same, Stays
<1>10. ASSUME NEW x \in Root, Expires(x) \/ LeaseRunsOut(x)
       PROVE  /\ lapsed \subseteq lapsed'
              /\ Stays
              /\ Exists(r)' => \/ Exists(r) /\ SameLease(job[r], job'[r])
                               \/ Exists(r) /\ job'[r].owner = job[r].owner /\ r \in lapsed'
  <2>1. /\ Exists(x) /\ Exists(x)' /\ job'[x].owner = job[x].owner
        /\ job'[x].attempts = job[x].attempts
        /\ job'[x].leaseOver = job[x].leaseOver \/ LeaseEnds(x)
        /\ \A y \in Root : y # x => job'[y] = job[y]
    BY <1>1, <1>10, TimeEffect, DeadlineFacts
  <2>2. /\ lapsed \subseteq lapsed'
        /\ ~LeaseEnds(x) => UNCHANGED lapsed
        /\ job'[x].leaseOver = job[x].leaseOver \/ x \in lapsed'
    <3>1. CASE JobExpires(x) \/ PublishExpires(x)
      <4>1. job'[x].leaseOver = job[x].leaseOver
        <5>1. job[x] \in Job
          BY <1>1, <2>1 DEF JobTypeOK, Exists
        <5>2. QED
          BY <1>1, <3>1, <5>1 DEF JobExpires, PublishExpires, Write, JobTypeOK, Job
      <4>2. QED
        BY <1>10, <4>1, TimeEffect
    <3>2. CASE LeaseEnds(x) /\ lapsed' = lapsed \cup {x}
      BY <3>2
    <3>3. QED
      BY <1>10, <3>1, <3>2, TimeEffect
  <2>3. QED
    BY <2>1, <2>2 DEF Exists, SameLease, Stays
<1>11. QED
  BY <1>6, <1>7, <1>8, <1>9, <1>10 DEF Next, Same, Stays

LEMMA NextLeaseInv ==
  /\ Init => LeaseInv
  /\ TypeInv /\ LeaseInv /\ [Next]_vars => LeaseInv'
<1>1. ASSUME Init PROVE LeaseInv
  <2>1. /\ \A r \in Root : ~Exists(r)
        /\ \A w \in Worker : pc[w] = "off"
    BY <1>1 DEF Init, JobInit, Exists, Process
  <2>2. QED
    BY <2>1 DEF LeaseInv, Holding
<1>2. ASSUME TypeInv, LeaseInv, [Next]_vars PROVE LeaseInv'
  <2>1. ASSUME NEW r \in Root, Exists(r)', job'[r].leaseOver PROVE r \in lapsed'
    <3>1. CASE ~Exists(r) /\ job'[r] = Created
      BY <2>1, <3>1 DEF Created
    <3>2. CASE Exists(r) /\ SameLease(job[r], job'[r])
      BY <1>2, <2>1, <3>2, LeaseChanges DEF LeaseInv, SameLease
    <3>3. ASSUME NEW w \in Worker, Claim(r, w) PROVE FALSE
      BY <1>2, <2>1, <3>3, ClaimFacts DEF TypeInv
    <3>4. QED
      BY <1>2, <2>1, <3>1, <3>2, <3>3, LeaseChanges
  <2>2. ASSUME NEW w \in Worker, pc'[w] \in Holding, RootOf(w) \notin lapsed'
        PROVE  Exists(RootOf(w))' /\ job'[RootOf(w)].owner = w
    <3> DEFINE r == RootOf(w)
    <3>1. r \in Root /\ r \notin lapsed
      BY <1>2, <2>2, RootFacts, LeaseChanges
    <3>2. (w \in Runner => r = w) /\ w \in Process
      BY RootFacts DEF Process
    <3> HIDE DEF r
    <3>3. CASE pc[w] \in Holding
      <4>1. Exists(r) /\ job[r].owner = w /\ ~job[r].leaseOver
        BY <1>2, <3>1, <3>3 DEF LeaseInv, r
      <4>2. Exists(r)'
        <5>1. ASSUME r \in Runner, pc[r] = "off", pc' = [pc EXCEPT ![r] = "open"] PROVE FALSE
          <6>1. r = w
            BY <5>1, RootAssumption, ControlAssumption DEF r, RootOf
          <6>2. QED
            BY <3>3, <5>1, <6>1 DEF Holding
        <5>2. QED
          BY <1>2, <3>1, <4>1, <5>1, LeaseChanges
      <4>3. ASSUME NEW v \in Worker, Claim(r, v) PROVE job'[r].owner = w
        <5>1. job[r].owner \in {None, v} /\ job'[r].owner = v
          BY <1>2, <3>1, <4>1, <4>3, ClaimFacts DEF TypeInv
        <5>2. QED
          BY <4>1, <5>1, NoneAssumption
      <4>4. QED
        BY <1>2, <3>1, <4>1, <4>2, <4>3, LeaseChanges DEF SameLease, r
    <3>4. CASE pc[w] \notin Holding
      <4>1. /\ pc'[w] = "start" /\ Claim(r, w)
        <5>1. PICK l \in WorkerPC : pc' = [pc EXCEPT ![w] = l] /\ WorkerDoes(w, l)
          <6>1. ASSUME NEW v \in Worker, v # w, WorkerStep(v) PROVE FALSE
            <7>1. \E l : pc' = [pc EXCEPT ![v] = l]
              BY <1>2, <6>1, WorkerEffect
            <7>2. pc'[w] = pc[w]
              BY <1>2, <6>1, <7>1 DEF TypeInv, LocalType
            <7>3. QED
              BY <2>2, <3>4, <7>2
          <6>2. ASSUME NEW p \in Publisher, PublisherStep(p) PROVE FALSE
            <7>1. \E l : pc' = [pc EXCEPT ![p] = l]
              BY <1>2, <6>2, PublisherEffect
            <7>2. pc'[w] = pc[w]
              BY <1>2, <7>1, ProcessAssumption DEF TypeInv, LocalType
            <7>3. QED
              BY <2>2, <3>4, <7>2
          <6>3. UNCHANGED procVars => FALSE
            BY <2>2, <3>4 DEF procVars
          <6>4. OperatorStep => FALSE
            BY <1>2, <6>3, OperatorEffect
          <6>5. ASSUME NEW x \in Root, Expires(x) \/ LeaseRunsOut(x) PROVE FALSE
            BY <1>2, <6>3, <6>5, TimeEffect
          <6>6. UNCHANGED vars => FALSE
            BY <6>3 DEF vars
          <6>7. WorkerStep(w)
            BY <1>2, <6>1, <6>2, <6>4, <6>5, <6>6 DEF Next
          <6>8. QED
            BY <1>2, <6>7, WorkerEffect
        <5>2. l \in Holding /\ pc'[w] = l
          BY <1>2, <2>2, <3>2, <5>1 DEF TypeInv, LocalType
        <5>3. CASE Claim(r, w) /\ l = "start"
          BY <5>2, <5>3
        <5>4. CASE ~(Claim(r, w) /\ l = "start")
          <6>1. pc[w] \in Holding
            BY <5>1, <5>2, <5>4 DEF WorkerDoes, r, Engaged, Holding
          <6>2. QED
            BY <3>4, <6>1
        <5>5. QED
          BY <5>3, <5>4
      <4>2. QED
        BY <1>2, <3>1, <4>1, ClaimFacts DEF TypeInv, r
    <3>5. QED
      BY <3>3, <3>4
  <2>3. QED
    BY <2>1, <2>2 DEF LeaseInv
<1>3. QED
  BY <1>1, <1>2

(* While no lease has ended on a root, at most one worker is at work on it *)
(* (OneWorkerPerLease): whatever claims are refused, whoever is late, and  *)
(* however often the job is queued again, claim lets no second one in.     *)
THEOREM OneWorker == Spec => []OneWorkerPerLease
<1>1. LeaseInv => OneWorkerPerLease
  <2>1. ASSUME LeaseInv, NEW v \in Worker, NEW w \in Worker, AtWork(v), AtWork(w),
               RootOf(v) = RootOf(w), RootOf(v) \notin lapsed
        PROVE  v = w
    <3>1. pc[v] \in Holding /\ pc[w] \in Holding
      BY <2>1 DEF AtWork, Holding
    <3>2. job[RootOf(v)].owner = v /\ job[RootOf(w)].owner = w
      BY <2>1, <3>1 DEF LeaseInv
    <3>3. QED
      BY <2>1, <3>2
  <2>2. QED
    BY <2>1 DEF OneWorkerPerLease
<1>2. QED
  BY <1>1, NextLeaseInv, AlwaysTyped, PTL DEF Spec
-----------------------------------------------------------------------------
(* READY has an artifact.  What reaches the control plane through the      *)
(* ledger is an event that carries one, or one written when the control    *)
(* plane's record had one already, and reconcile_job records it before the *)
(* moves it leads to.                                                      *)
Rendered(r) == Exists(r) /\ job[r].artifact # None
HasIt == Rendered(Control)
Shown(e) == e.state \in Finished => e.artifact # None \/ HasIt
IntoFinished(c) == c.op = "move" /\ c.to \in Finished
Covered(calls) ==
  \A i \in 1..Len(calls) : IntoFinished(calls[i]) => HasIt \/ calls[1].op = "artifact"

RenderedInv ==
  /\ ReadyHasArtifact
  /\ \A w \in Worker : pc[w] = "ready" => job[RootOf(w)].artifact # None

ShownInv ==
  /\ \A i \in 1..Len(ledger) : Shown(ledger[i])
  /\ \A p \in Publisher : /\ \A i \in 1..Len(left[p]) : Shown(left[p][i])
                          /\ Covered(todo[p])

(* The moves into READY or a later state come from READY or later, but for *)
(* the one into READY.                                                     *)
LEMMA IntoFinishedFacts ==
  /\ \A s, to : to \in Transitions(s) /\ to \in Finished /\ to # "READY" => s \in Finished
  /\ \A to \in {"EXPIRED", "APPROVED", "QUEUED", "CLAIMED", "FAILED", "RENDERING", "QA"} :
       to \notin Finished
  /\ Created.status \notin Finished
  /\ \A s \in {"QUEUED", "CLAIMED", "RENDERING"} : ClaimedStatus(s) \notin Finished
  /\ "PUBLISHED" \in Finished
BY DEF Transitions, Finished, Created, ClaimedStatus

(* A move keeps the artifact, so it keeps ReadyHasArtifact of its root     *)
(* unless it is the one into READY.                                        *)
LEMMA EvidenceStays ==
  ASSUME JobTypeOK, NEW r \in Root, NEW to, Transition(r, to),
         Status(r) \in Finished => job[r].artifact # None,
         to = "READY" => job[r].artifact # None
  PROVE  /\ job'[r].artifact = job[r].artifact
         /\ Status(r)' \in Finished => job'[r].artifact # None
<1>1. /\ Exists(r) /\ Exists(r)' /\ to \in Transitions(job[r].status)
      /\ job'[r].status = to /\ job'[r].artifact = job[r].artifact
  BY MoveFacts DEF Into, SameWork
<1>2. QED
  BY <1>1, IntoFinishedFacts DEF Status

(* A record keeps an artifact that it has, the same or another, until a    *)
(* runner starts on an empty root.                                         *)
LEMMA RenderedStays ==
  ASSUME TypeInv, NEW r \in Root, [Next]_vars, Rendered(r)
  PROVE  Rendered(r)' \/ (r \in Runner /\ pc[r] = "off" /\ pc' = [pc EXCEPT ![r] = "open"])
<1>1. JobTypeOK /\ Control \in Root
  BY RootFacts DEF TypeInv
<1>2. ASSUME UNCHANGED job PROVE Rendered(r)'
  BY <1>2 DEF Rendered, Exists
<1>3. ASSUME NEW x \in Root, Create(x) PROVE Rendered(r)'
  BY <1>1, <1>3, CreateFacts DEF Rendered, Exists
<1>4. ASSUME NEW x \in Root, NEW to, Transition(x, to) PROVE Rendered(r)'
  BY <1>1, <1>4, MoveFacts DEF Rendered, Exists, SameWork
<1>5. ASSUME NEW x \in Root, NEW a \in Worker, RecordArtifact(x, a) \/ RecordReported(x, a)
      PROVE  Rendered(r)'
  BY <1>1, <1>5, ArtifactFacts, NoneAssumption DEF Rendered, Exists
<1>6. ASSUME NEW w \in Worker, WorkerStep(w)
      PROVE  Rendered(r)' \/ (r \in Runner /\ pc[r] = "off" /\ pc' = [pc EXCEPT ![r] = "open"])
  <2>1. PICK l \in WorkerPC : pc' = [pc EXCEPT ![w] = l] /\ WorkerDoes(w, l)
    BY <1>6, WorkerEffect
  <2>2. RootOf(w) \in Root
    BY RootFacts
  <2>3. CASE Claim(RootOf(w), w)
    BY <1>1, <2>2, <2>3, ClaimFacts DEF Rendered, Exists, SameWork
  <2>4. CASE w \in Runner /\ pc[w] = "off" /\ l = "open" /\ job' = [job EXCEPT ![w] = None]
    BY <1>1, <2>1, <2>4 DEF Rendered, Exists, JobTypeOK
  <2>5. QED
    BY <1>2, <1>3, <1>4, <1>5, <2>1, <2>2, <2>3, <2>4 DEF WorkerDoes
<1>7. ASSUME NEW p \in Publisher, PublisherStep(p) PROVE Rendered(r)'
  <2>1. PICK l \in PublisherPC : PublisherDoes(p, l)
    BY <1>7, PublisherEffect
  <2>2. result[p] \in Nat
    BY DEF TypeInv, LocalType
  <2>3. CASE \/ RecordPublish(Control, result[p]) \/ RecordPublishLate(Control, result[p])
             \/ RecordPublishTorn(Control, result[p])
    BY <1>1, <2>2, <2>3, PostFacts DEF Rendered, Exists
  <2>4. QED
    BY <1>1, <1>2, <1>4, <1>5, <2>1, <2>3 DEF PublisherDoes
<1>8. CASE OperatorStep
  BY <1>1, <1>2, <1>3, <1>4, <1>8, OperatorEffect
<1>9. ASSUME NEW x \in Root, Expires(x) \/ LeaseRunsOut(x) PROVE Rendered(r)'
  BY <1>1, <1>9, TimeEffect, DeadlineFacts DEF Rendered, Exists, SameWork
<1>10. QED
  BY <1>2, <1>6, <1>7, <1>8, <1>9 DEF Next, vars

LEMMA HasItStays == TypeInv /\ [Next]_vars /\ HasIt => HasIt'
<1>1. ASSUME TypeInv, [Next]_vars, Rendered(Control) PROVE Rendered(Control)'
  BY <1>1, RenderedStays, RootFacts
<1>2. QED
  BY <1>1 DEF HasIt

(* The records: a step into READY, on either root, finds the artifact.     *)
LEMMA NextRenderedInv ==
  ASSUME TypeInv, RenderedInv, ShownInv, [Next]_vars
  PROVE  RenderedInv'
<1> DEFINE Evid(r) == Status(r) \in Finished => job[r].artifact # None
<1>1. JobTypeOK /\ Control \in Root /\ \A r \in Root : Evid(r)
  BY RootFacts DEF TypeInv, RenderedInv, ReadyHasArtifact
<1>2. ASSUME UNCHANGED job, NEW r \in Root PROVE Evid(r)'
  BY <1>1, <1>2 DEF Status, Exists
<1>3. ASSUME NEW x \in Root, NEW r \in Root, Create(x) PROVE Evid(r)'
  BY <1>1, <1>3, CreateFacts, IntoFinishedFacts DEF Status, Exists
<1>4. ASSUME NEW x \in Root, NEW r \in Root, NEW to, Transition(x, to),
             to = "READY" => job[x].artifact # None
      PROVE  Evid(r)'
  <2>1. Evid(x)'
    BY <1>1, <1>4, EvidenceStays
  <2>2. CASE r # x
    BY <1>1, <1>4, <2>2, MoveFacts DEF Status, Exists
  <2>3. QED
    BY <2>1, <2>2
<1>5. ASSUME NEW x \in Root, NEW r \in Root, NEW a \in Worker,
             RecordArtifact(x, a) \/ RecordReported(x, a)
      PROVE  Evid(r)'
  BY <1>1, <1>5, ArtifactFacts, NoneAssumption DEF Status, Exists
<1>6. ASSUME NEW w \in Worker, WorkerStep(w), NEW r \in Root PROVE Evid(r)'
  <2>1. PICK l \in WorkerPC : WorkerDoes(w, l)
    BY <1>6, WorkerEffect
  <2>2. RootOf(w) \in Root
    BY RootFacts
  <2>3. CASE Claim(RootOf(w), w)
    <3>1. /\ job'[RootOf(w)].status \notin Finished /\ Exists(RootOf(w))'
          /\ \A x \in Root : x # RootOf(w) => job'[x] = job[x]
      <4>1. /\ job[RootOf(w)].status \in {"QUEUED", "CLAIMED", "RENDERING"}
            /\ job'[RootOf(w)].status = ClaimedStatus(job[RootOf(w)].status)
            /\ Exists(RootOf(w))' /\ \A x \in Root : x # RootOf(w) => job'[x] = job[x]
        BY <1>1, <2>2, <2>3, ClaimFacts
      <4>2. QED
        BY <4>1, IntoFinishedFacts
    <3>2. CASE r = RootOf(w)
      BY <3>1, <3>2 DEF Status
    <3>3. CASE r # RootOf(w)
      BY <1>1, <3>1, <3>3 DEF Status, Exists
    <3>4. QED
      BY <3>2, <3>3
  <2>4. CASE w \in Runner /\ job' = [job EXCEPT ![w] = None]
    BY <1>1, <2>4 DEF Status, Exists, JobTypeOK, Finished
  <2>5. CASE Transition(RootOf(w), "READY") /\ pc[w] = "ready"
    BY <1>4, <2>2, <2>5 DEF RenderedInv
  <2> HIDE DEF Evid
  <2>6. QED
    BY <1>2, <1>3, <1>4, <1>5, <2>1, <2>2, <2>3, <2>4, <2>5 DEF WorkerDoes
<1>7. ASSUME NEW p \in Publisher, PublisherStep(p), NEW r \in Root PROVE Evid(r)'
  <2>1. PICK l \in PublisherPC : PublisherDoes(p, l)
    BY <1>7, PublisherEffect
  <2>2. result[p] \in Nat /\ todo[p] \in Seq(Call)
    BY DEF TypeInv, LocalType
  <2>3. CASE \/ RecordPublish(Control, result[p]) \/ RecordPublishLate(Control, result[p])
             \/ RecordPublishTorn(Control, result[p])
    <3>1. job[Control].artifact # None
      BY <1>1, <2>2, <2>3, PostFacts DEF Status, Exists, Finished
    <3>2. QED
      BY <1>1, <2>2, <2>3, <3>1, PostFacts DEF Status, Exists
  <2>4. ASSUME NEW to \in Reported, Transition(Control, to),
               to = "READY" => todo[p] # <<>> /\ Head(todo[p]) = [op |-> "move", to |-> to]
        PROVE  Evid(r)'
    <3>1. ASSUME to = "READY" PROVE job[Control].artifact # None
      <4>1. /\ 1 \in 1..Len(todo[p]) /\ todo[p][1] = Head(todo[p])
            /\ Head(todo[p]) = [op |-> "move", to |-> "READY"]
        BY <2>2, <2>4, <3>1, HeadTailProperties, LenProperties, EmptySeq
      <4>2. IntoFinished(todo[p][1]) /\ todo[p][1].op # "artifact"
        BY <4>1 DEF IntoFinished, Finished
      <4>3. HasIt
        BY <4>1, <4>2 DEF ShownInv, Covered
      <4>4. QED
        BY <4>3 DEF HasIt, Rendered
    <3>2. QED
      BY <1>1, <1>4, <2>4, <3>1
  <2> HIDE DEF Evid
  <2>5. QED
    BY <1>1, <1>2, <1>4, <1>5, <2>1, <2>3, <2>4 DEF PublisherDoes
<1>8. ASSUME OperatorStep, NEW r \in Root PROVE Evid(r)'
  <2>1. \/ UNCHANGED job \/ Create(Control)
        \/ \E to \in {"EXPIRED", "APPROVED", "QUEUED"} : Transition(Control, to)
    BY <1>8, OperatorEffect
  <2> HIDE DEF Evid
  <2>2. ASSUME NEW to \in {"EXPIRED", "APPROVED", "QUEUED"}, Transition(Control, to)
        PROVE  Evid(r)'
    BY <1>1, <1>4, <2>2
  <2>3. QED
    BY <1>1, <1>2, <1>3, <2>1, <2>2
<1>9. ASSUME NEW x \in Root, Expires(x) \/ LeaseRunsOut(x), NEW r \in Root PROVE Evid(r)'
  <2>1. /\ Exists(x) /\ Exists(x)' /\ SamePlace(job[x], job'[x]) /\ SameWork(job[x], job'[x])
        /\ \A y \in Root : y # x => job'[y] = job[y]
    BY <1>1, <1>9, TimeEffect, DeadlineFacts
  <2>2. CASE r = x
    BY <1>1, <2>1, <2>2 DEF Status, SamePlace, SameWork
  <2>3. CASE r # x
    BY <1>1, <2>1, <2>3 DEF Status, Exists
  <2>4. QED
    BY <2>2, <2>3
<1> HIDE DEF Evid
<1>10. \A r \in Root : Evid(r)'
  BY <1>2, <1>6, <1>7, <1>8, <1>9 DEF Next, vars
<1>11. ASSUME NEW w \in Worker, pc'[w] = "ready" PROVE job'[RootOf(w)].artifact # None
  <2> DEFINE r == RootOf(w)
  <2>1. r \in Root /\ w \in Process /\ (r \in Runner => r = w)
    BY RootFacts, RootAssumption, ControlAssumption DEF Process, RootOf
  <2>2. CASE pc[w] = "ready"
    <3>1. Rendered(r)
      BY <2>2 DEF RenderedInv, TypeInv, Engaged, Rendered
    <3>2. ~(r \in Runner /\ pc[r] = "off")
      BY <2>1, <2>2
    <3>3. QED
      BY <2>1, <3>1, <3>2, RenderedStays DEF Rendered
  <2>3. CASE pc[w] # "ready"
    <3>1. RecordArtifact(r, w)
      <4>1. ASSUME NEW v \in Worker, v # w, WorkerStep(v) PROVE FALSE
        <5>1. \E l : pc' = [pc EXCEPT ![v] = l]
          BY <4>1, WorkerEffect
        <5>2. QED
          BY <1>11, <2>1, <2>3, <4>1, <5>1 DEF TypeInv, LocalType
      <4>2. ASSUME NEW p \in Publisher, PublisherStep(p) PROVE FALSE
        <5>1. \E l : pc' = [pc EXCEPT ![p] = l]
          BY <4>2, PublisherEffect
        <5>2. QED
          BY <1>11, <2>1, <2>3, <5>1, ProcessAssumption DEF TypeInv, LocalType
      <4>3. UNCHANGED procVars => FALSE
        BY <1>11, <2>3 DEF procVars
      <4>4. WorkerStep(w)
        BY <4>1, <4>2, <4>3, OperatorEffect, TimeEffect DEF Next, vars
      <4>5. PICK l \in WorkerPC : pc' = [pc EXCEPT ![w] = l] /\ WorkerDoes(w, l)
        BY <4>4, WorkerEffect
      <4>6. l = "ready"
        BY <1>11, <2>1, <4>5 DEF TypeInv, LocalType
      <4>7. QED
        BY <4>5, <4>6 DEF WorkerDoes, Engaged
    <3>2. QED
      BY <1>1, <2>1, <3>1, ArtifactFacts, NoneAssumption
  <2>4. QED
    BY <2>2, <2>3
<1>12. QED
  BY <1>10, <1>11 DEF RenderedInv, ReadyHasArtifact, Evid

(* The ledger and the publishers' lists.                                   *)
LEMMA NextShownInv ==
  ASSUME TypeInv, RenderedInv, ShownInv, [Next]_vars
  PROVE  ShownInv'
<1>1. HasIt => HasIt'
  BY HasItStays
<1>2. ledger \in Seq(Event) /\ JobTypeOK /\ Control \in Root
  BY RootFacts DEF TypeInv
<1> DEFINE LedgerShown == \A i \in 1..Len(ledger) : Shown(ledger[i])
<1> DEFINE ListsShown(p) == (\A i \in 1..Len(left[p]) : Shown(left[p][i])) /\ Covered(todo[p])
<1>3. LedgerShown /\ \A p \in Publisher : ListsShown(p)
  BY DEF ShownInv
<1>4. ASSUME UNCHANGED ledger PROVE LedgerShown'
  BY <1>1, <1>3, <1>4 DEF Shown
<1>5. ASSUME NEW e \in Event, ledger' = Append(ledger, e), Shown(e) PROVE LedgerShown'
  <2>1. \A i \in 1..Len(ledger') : ledger'[i] = e \/ (i \in 1..Len(ledger) /\ ledger'[i] = ledger[i])
    BY <1>2, <1>5, AppendEvent
  <2>2. QED
    BY <1>1, <1>3, <1>5, <2>1 DEF Shown
<1>6. ASSUME NEW r \in Root, Exists(r), UNCHANGED job, ledger' = Append(ledger, Announcement(r))
      PROVE  LedgerShown'
  <2> DEFINE e == Announcement(r)
  <2>1. e \in Event
    BY <1>2, <1>6, AnnouncementType
  <2>2. Shown(e)
    BY <1>6 DEF Shown, Announcement, RenderedInv, ReadyHasArtifact, Status
  <2>3. \A i \in 1..Len(ledger') : ledger'[i] = e \/ (i \in 1..Len(ledger) /\ ledger'[i] = ledger[i])
    BY <1>2, <1>6, <2>1, AppendEvent
  <2> HIDE DEF e
  <2>4. QED
    BY <1>1, <1>3, <2>2, <2>3 DEF Shown
<1>7. ASSUME NEW p \in Publisher, UNCHANGED <<todo, left>> PROVE ListsShown(p)'
  BY <1>1, <1>3, <1>7 DEF Shown, Covered
<1>8. ASSUME UNCHANGED <<todo, left>>, LedgerShown' PROVE ShownInv'
  BY <1>7, <1>8 DEF ShownInv
<1>9. ASSUME NEW w \in Worker, WorkerStep(w) PROVE ShownInv'
  <2>1. /\ UNCHANGED <<todo, left>>
        /\ \/ UNCHANGED ledger
           \/ /\ pc[w] \in {"announce", "report"} /\ UNCHANGED job
              /\ ledger' = Append(ledger, Announcement(RootOf(w)))
    BY <1>9, WorkerEffect
  <2>2. pc[w] \in {"announce", "report"} => Exists(RootOf(w)) /\ RootOf(w) \in Root
    BY RootFacts DEF TypeInv, Engaged
  <2> HIDE DEF LedgerShown, ListsShown
  <2>3. QED
    BY <1>4, <1>6, <1>8, <2>1, <2>2
<1>10. CASE OperatorStep
  <2>1. /\ UNCHANGED <<todo, left>>
        /\ \/ UNCHANGED ledger
           \/ /\ UNCHANGED job /\ Status(Control) \in {"APPROVED", "QUEUED"}
              /\ ledger' = Append(ledger, Announcement(Control))
    BY <1>10, OperatorEffect DEF procVars
  <2>2. Status(Control) \in {"APPROVED", "QUEUED"} => Exists(Control)
    BY DEF Status
  <2> HIDE DEF LedgerShown, ListsShown
  <2>3. QED
    BY <1>2, <1>4, <1>6, <1>8, <2>1, <2>2
<1>11. ASSUME UNCHANGED <<ledger, procVars>> PROVE ShownInv'
  <2> HIDE DEF LedgerShown, ListsShown
  <2>1. QED
    BY <1>4, <1>8, <1>11 DEF procVars
<1>12. ASSUME NEW p \in Publisher, PublisherStep(p) PROVE LedgerShown'
  <2>1. \/ UNCHANGED ledger
        \/ ledger' = Append(ledger, PublishedEvent) /\ Status(Control) \in Finished
    BY <1>12, PublisherEffect
  <2>2. CASE ledger' = Append(ledger, PublishedEvent) /\ Status(Control) \in Finished
    <3>1. PublishedEvent \in Event
      BY DEF PublishedEvent, Event, State
    <3>2. HasIt
      BY <1>2, <2>2 DEF RenderedInv, ReadyHasArtifact, HasIt, Rendered, Status, Finished
    <3>3. Shown(PublishedEvent)
      BY <3>2 DEF Shown
    <3> HIDE DEF LedgerShown
    <3>4. QED
      BY <1>5, <2>2, <3>1, <3>3
  <2> HIDE DEF LedgerShown
  <2>3. QED
    BY <1>4, <2>1, <2>2
<1>13. ASSUME NEW p \in Publisher, TodoDoes(p) PROVE ListsShown(p)'
  <2>1. /\ todo \in [Publisher -> Seq(Call)] /\ left \in [Publisher -> Seq(Event)]
    BY DEF TypeInv, LocalType
  <2>2. CASE UNCHANGED <<todo, left>>
    BY <1>7, <2>2
  <2>3. CASE todo' = [todo EXCEPT ![p] = <<>>] /\ left' = [left EXCEPT ![p] = <<>>]
    <3>1. todo'[p] = <<>> /\ left'[p] = <<>> /\ Len(<<>>) = 0
      BY <2>1, <2>3
    <3>2. \A i : i \notin 1..0
      OBVIOUS
    <3>3. QED
      BY <3>1, <3>2 DEF Covered
  <2>4. CASE /\ pc[p] = "walk" /\ todo[p] # <<>> /\ UNCHANGED <<left, ledger>>
             /\ todo' = [todo EXCEPT ![p] = Tail(@)]
             /\ LET c == Head(todo[p]) IN
                \/ c.op = "move" /\ Transition(Control, c.to)
                \/ c.op = "artifact" /\ c.of \in Worker /\ RecordReported(Control, c.of)
    <3> DEFINE calls == todo[p]
    <3>1. calls \in Seq(Call) /\ calls # <<>> /\ todo'[p] = Tail(calls) /\ left'[p] = left[p]
      BY <2>1, <2>4
    <3>2. /\ 1 \in 1..Len(calls) /\ Head(calls) = calls[1]
          /\ \A i \in 1..Len(Tail(calls)) : i + 1 \in 1..Len(calls) /\ Tail(calls)[i] = calls[i + 1]
      BY <3>1, HeadTailProperties, LenProperties, EmptySeq
    <3>3. calls[1].op = "artifact" => HasIt'
      <4>1. ASSUME calls[1].op = "artifact" PROVE RecordReported(Control, calls[1].of) /\ calls[1].of \in Worker
        BY <2>4, <3>2, <4>1
      <4>2. QED
        BY <1>2, <4>1, ArtifactFacts, NoneAssumption DEF HasIt, Rendered
    <3>4. \A i \in 1..Len(calls) : IntoFinished(calls[i]) => HasIt'
      BY <1>1, <1>3, <3>3 DEF Covered
    <3>5. Covered(todo[p])'
      BY <3>1, <3>2, <3>4 DEF Covered
    <3>6. (\A i \in 1..Len(left[p]) : Shown(left[p][i]))'
      BY <1>1, <1>3, <3>1 DEF Shown
    <3>7. QED
      BY <3>5, <3>6
  <2>5. ASSUME NEW events \in {ledger, <<>>, left[p]}, NEW k \in 1..Len(events),
               NEW rest \in Seq(Event), Among(rest, events),
               todo' = [todo EXCEPT ![p] = Calls(Status(Control), events[k])],
               left' = [left EXCEPT ![p] = rest]
        PROVE  ListsShown(p)'
    <3> DEFINE calls == Calls(Status(Control), events[k])
    <3>1. events \in Seq(Event) /\ \A i \in 1..Len(events) : Shown(events[i])
      <4>1. \A i : i \notin 1..Len(<<>>)
        OBVIOUS
      <4>2. QED
        BY <1>2, <1>3, <2>1, <4>1
    <3>2. events[k] \in Event /\ Shown(events[k])
      BY <3>1, ElementOfSeq
    <3>3. \A i \in 1..Len(calls) :
            IntoFinished(calls[i]) => /\ events[k].state \in Finished
                                      /\ events[k].artifact # None => calls[1].op = "artifact"
      BY <3>2, CallsType DEF IntoFinished
    <3>4. todo'[p] = calls /\ left'[p] = rest
      BY <2>1, <2>5
    <3> HIDE DEF calls
    <3>5. Covered(todo[p])'
      BY <1>1, <3>2, <3>3, <3>4 DEF Covered, Shown
    <3>6. (\A i \in 1..Len(left[p]) : Shown(left[p][i]))'
      BY <1>1, <2>5, <3>1, <3>4 DEF Shown, Among
    <3>7. QED
      BY <3>5, <3>6
  <2> HIDE DEF ListsShown
  <2>6. QED
    BY <2>2, <2>3, <2>4, <2>5, <1>13 DEF TodoDoes
<1>14. ASSUME NEW p \in Publisher, PublisherStep(p) PROVE ShownInv'
  <2>1. TodoDoes(p)
    BY <1>14, TodoEffect
  <2>2. ASSUME NEW q \in Publisher, q # p PROVE ListsShown(q)'
    <3>1. todo'[q] = todo[q] /\ left'[q] = left[q]
      BY <2>1, <2>2 DEF TodoDoes, TypeInv, LocalType
    <3>2. QED
      BY <1>1, <1>3, <3>1 DEF Shown, Covered
  <2>3. LedgerShown' /\ \A q \in Publisher : ListsShown(q)'
    BY <1>12, <1>13, <1>14, <2>1, <2>2
  <2>4. QED
    BY <2>3 DEF ShownInv
<1>15. ASSUME NEW r \in Root, Expires(r) \/ LeaseRunsOut(r) PROVE ShownInv'
  BY <1>11, <1>15, TimeEffect
<1>16. CASE UNCHANGED vars
  BY <1>11, <1>16 DEF vars
<1>17. QED
  BY <1>9, <1>10, <1>14, <1>15, <1>16 DEF Next

(* READY, and every state after it, has an artifact on record under every  *)
(* root (ReadyHasArtifact): whether the worker recorded it (BecomeReady)   *)
(* or reconcile_job took it over from the ledger (Apply), whatever events  *)
(* were lost and however many workers, runners and publishers interleave.  *)
THEOREM ReadyIsRendered == Spec => []ReadyHasArtifact
<1>1. Init => RenderedInv /\ ShownInv
  <2>1. ASSUME Init PROVE RenderedInv /\ ShownInv
    <3>1. /\ \A r \in Root : ~Exists(r)
          /\ \A w \in Worker : pc[w] = "off"
          /\ \A p \in Publisher : todo[p] = <<>> /\ left[p] = <<>>
          /\ ledger = <<>>
      BY <2>1 DEF Init, JobInit, Exists, Process
    <3>2. \A i : i \notin 1..Len(<<>>)
      OBVIOUS
    <3>3. RenderedInv
      BY <3>1 DEF RenderedInv, ReadyHasArtifact, Status, Finished
    <3>4. ShownInv
      BY <3>1, <3>2 DEF ShownInv, Covered
    <3>5. QED
      BY <3>3, <3>4
  <2>2. QED
    BY <2>1
<1>2. TypeInv /\ (RenderedInv /\ ShownInv) /\ [Next]_vars => (RenderedInv /\ ShownInv)'
  BY NextRenderedInv, NextShownInv
<1>3. RenderedInv => ReadyHasArtifact
  BY DEF RenderedInv
<1>4. QED
  BY <1>1, <1>2, <1>3, AlwaysTyped, PTL DEF Spec
-----------------------------------------------------------------------------
(* Posts.  What a step may do to the control plane's record: everybody but *)
(* a publisher that begins or records leaves PUBLISHING and PUBLISHED      *)
(* unentered.                                                              *)
Kept(j, k) == k.status = j.status /\ k.released = j.released /\ k.post = j.post

ControlDoes(j, k) ==
  \/ Kept(j, k)
  \/ /\ j.status \in {"QUEUED", "CLAIMED", "RENDERING"} /\ k.status = ClaimedStatus(j.status)
     /\ k.released = j.released /\ k.post = j.post
  \/ \E to \in Transitions(j.status) \cap Reported : Into(j, k, to) /\ k.post = j.post
  \/ /\ "PUBLISHING" \in Transitions(j.status) /\ Into(j, k, "PUBLISHING") /\ k.post = j.post
     /\ \E p \in Publisher : pc[p] = "begin" /\ pc' = [pc EXCEPT ![p] = "call"]
  \/ /\ j.status \in {"PUBLISHING", "PUBLISH_APPROVED"} /\ k.released = j.released
     /\ k.status = j.status \/ (j.status = "PUBLISHING" /\ k.status = "PUBLISHED")
     /\ \E p \in Publisher : pc[p] = "record" /\ k.post = result[p]

LEMMA ControlChanges ==
  ASSUME TypeInv, [Next]_vars
  PROVE  \/ ~Exists(Control) /\ ~Exists(Control)'
         \/ ~Exists(Control) /\ Exists(Control)' /\ job'[Control] = Created
         \/ Exists(Control) /\ Exists(Control)' /\ ControlDoes(job[Control], job'[Control])
<1> DEFINE j == job[Control]
<1> DEFINE k == job'[Control]
<1> DEFINE Goal == \/ ~Exists(Control) /\ ~Exists(Control)'
                   \/ ~Exists(Control) /\ Exists(Control)' /\ k = Created
                   \/ Exists(Control) /\ Exists(Control)' /\ ControlDoes(j, k)
<1>1. JobTypeOK /\ Control \in Root
  BY RootFacts DEF TypeInv
<1>2. ASSUME k = j PROVE Goal
  BY <1>2 DEF Exists, ControlDoes, Kept
<1>3. ASSUME NEW x \in Root, Create(x) PROVE Goal
  <2>1. CASE x = Control
    BY <1>1, <1>3, <2>1, CreateFacts
  <2>2. CASE x # Control
    BY <1>1, <1>2, <1>3, <2>2, CreateFacts
  <2>3. QED
    BY <2>1, <2>2
<1>4. ASSUME NEW x \in Root, NEW to \in Reported, Transition(x, to) PROVE Goal
  <2>1. CASE x = Control
    <3>1. /\ Exists(Control) /\ Exists(Control)' /\ to \in Transitions(j.status)
          /\ Into(j, k, to) /\ k.post = j.post
      BY <1>1, <1>4, <2>1, MoveFacts DEF SameWork
    <3>2. QED
      BY <1>4, <3>1 DEF ControlDoes
  <2>2. CASE x # Control
    BY <1>1, <1>2, <1>4, <2>2, MoveFacts
  <2>3. QED
    BY <2>1, <2>2
<1>5. ASSUME NEW x \in Root, NEW a \in Worker, RecordArtifact(x, a) \/ RecordReported(x, a)
      PROVE  Goal
  <2>1. CASE x = Control
    BY <1>1, <1>5, <2>1, ArtifactFacts DEF SamePlace, ControlDoes, Kept
  <2>2. CASE x # Control
    BY <1>1, <1>2, <1>5, <2>2, ArtifactFacts
  <2>3. QED
    BY <2>1, <2>2
<1>6. \A to \in {"EXPIRED", "APPROVED", "QUEUED", "CLAIMED", "FAILED", "RENDERING", "QA", "READY"} :
        to \in Reported
  BY DEF Reported, State
<1>7. ASSUME NEW w \in Worker, WorkerStep(w) PROVE Goal
  <2>1. PICK l \in WorkerPC : WorkerDoes(w, l)
    BY <1>7, WorkerEffect
  <2>2. RootOf(w) \in Root
    BY RootFacts
  <2>3. CASE Claim(RootOf(w), w)
    <3>1. CASE RootOf(w) = Control
      BY <1>1, <2>3, <3>1, ClaimFacts DEF ControlDoes, SameWork
    <3>2. CASE RootOf(w) # Control
      BY <1>1, <1>2, <2>2, <2>3, <3>2, ClaimFacts
    <3>3. QED
      BY <3>1, <3>2
  <2>4. CASE w \in Runner /\ job' = [job EXCEPT ![w] = None]
    BY <1>1, <1>2, <2>4, RootFacts DEF JobTypeOK
  <2>5. CASE UNCHANGED job
    BY <1>2, <2>5
  <2> HIDE DEF Goal
  <2>6. QED
    BY <1>3, <1>4, <1>5, <1>6, <2>1, <2>2, <2>3, <2>4, <2>5 DEF WorkerDoes
<1>8. ASSUME NEW p \in Publisher, PublisherStep(p) PROVE Goal
  <2>1. PICK l \in PublisherPC : pc' = [pc EXCEPT ![p] = l] /\ PublisherDoes(p, l)
    BY <1>8, PublisherEffect
  <2>2. result[p] \in Nat
    BY DEF TypeInv, LocalType
  <2>3. CASE /\ pc[p] = "record"
             /\ \/ RecordPublish(Control, result[p]) \/ RecordPublishLate(Control, result[p])
                \/ RecordPublishTorn(Control, result[p])
    BY <1>1, <2>2, <2>3, PostFacts DEF ControlDoes
  <2>4. CASE Transition(Control, "PUBLISHING") /\ pc[p] = "begin" /\ l = "call"
    <3>1. /\ Exists(Control) /\ Exists(Control)' /\ "PUBLISHING" \in Transitions(j.status)
          /\ Into(j, k, "PUBLISHING") /\ k.post = j.post
      BY <1>1, <2>4, MoveFacts DEF SameWork
    <3>2. QED
      BY <2>1, <2>4, <3>1 DEF ControlDoes
  <2>5. CASE UNCHANGED job
    BY <1>2, <2>5
  <2> HIDE DEF Goal
  <2>6. QED
    BY <1>1, <1>4, <1>5, <2>1, <2>3, <2>4, <2>5 DEF PublisherDoes
<1>9. ASSUME OperatorStep PROVE Goal
  <2>1. \/ UNCHANGED job \/ Create(Control)
        \/ \E to \in {"EXPIRED", "APPROVED", "QUEUED"} : Transition(Control, to)
    BY <1>9, OperatorEffect
  <2>2. CASE UNCHANGED job
    BY <1>2, <2>2
  <2> HIDE DEF Goal
  <2>3. QED
    BY <1>1, <1>3, <1>4, <1>6, <2>1, <2>2
<1>10. ASSUME NEW x \in Root, Expires(x) \/ LeaseRunsOut(x) PROVE Goal
  <2>1. /\ Exists(x) /\ Exists(x)' /\ SamePlace(job[x], job'[x]) /\ SameWork(job[x], job'[x])
        /\ \A y \in Root : y # x => job'[y] = job[y]
    BY <1>1, <1>10, TimeEffect, DeadlineFacts
  <2>2. CASE x = Control
    BY <2>1, <2>2 DEF SamePlace, SameWork, ControlDoes, Kept
  <2>3. CASE x # Control
    BY <1>1, <1>2, <2>1, <2>3
  <2>4. QED
    BY <2>2, <2>3
<1>11. ASSUME UNCHANGED vars PROVE Goal
  BY <1>2, <1>11 DEF vars
<1> HIDE DEF Goal
<1>12. Goal
  BY <1>7, <1>8, <1>9, <1>10, <1>11 DEF Next
<1>13. QED
  BY <1>12 DEF Goal

(* What has ended stays as it is (EndsStay): no interleaving moves a       *)
(* rejected, expired, cancelled or published job, or takes the post of a   *)
(* published one away, and a failed one is at most queued again.           *)
THEOREM EndsAreFinal == Spec => EndsStay
<1> DEFINE Stays ==
      /\ Status(Control) \in {"REJECTED", "EXPIRED", "CANCELLED"} => UNCHANGED Status(Control)
      /\ Status(Control) = "PUBLISHED" => UNCHANGED <<Status(Control), job[Control].post>>
      /\ Status(Control) = "FAILED" => Status(Control)' \in {"FAILED", "QUEUED"}
<1>1. ASSUME TypeInv, [Next]_vars PROVE Stays
  <2>1. CASE ~Exists(Control)
    BY <2>1 DEF Status
  <2>2. CASE /\ Exists(Control) /\ Exists(Control)'
             /\ ControlDoes(job[Control], job'[Control])
    <3>1. Status(Control) = job[Control].status /\ Status(Control)' = job'[Control].status
      BY <2>2 DEF Status
    <3>2. CASE Kept(job[Control], job'[Control])
      BY <3>1, <3>2 DEF Kept
    <3>3. CASE ~Kept(job[Control], job'[Control])
      <4>1. \/ job[Control].status \notin {"REJECTED", "EXPIRED", "CANCELLED", "PUBLISHED", "FAILED"}
            \/ job[Control].status = "FAILED" /\ job'[Control].status = "QUEUED"
        BY <2>2, <3>3 DEF ControlDoes, Transitions, Into
      <4>2. QED
        BY <3>1, <4>1
    <3>4. QED
      BY <3>2, <3>3
  <2>3. QED
    BY <1>1, <2>1, <2>2, ControlChanges
<1>2. TypeInv /\ [Next]_vars => [Stays]_vars
  BY <1>1
<1> HIDE DEF Stays
<1>3. Spec => [][Stays]_vars
  BY <1>2, AlwaysTyped, PTL DEF Spec
<1>4. QED
  BY <1>3 DEF EndsStay, Stays

(* Where a step leaves the publishers, and what the channel has made.      *)
LEMMA PublishersMove ==
  ASSUME TypeInv, [Next]_vars
  PROVE  \/ /\ UNCHANGED <<posts, result>> /\ \A p \in Publisher : pc'[p] = pc[p]
         \/ \E p \in Publisher, l \in PublisherPC :
              /\ \A q \in Publisher : pc'[q] = IF q = p THEN l ELSE pc[q]
              /\ PublisherDoes(p, l)
              /\ \A q \in Publisher : q # p => result'[q] = result[q]
              /\ l = "record" => result'[p] \in 1..posts'
<1>1. ASSUME NEW w \in Worker, WorkerStep(w)
      PROVE  UNCHANGED <<posts, result>> /\ \A p \in Publisher : pc'[p] = pc[p]
  <2>1. \E l : pc' = [pc EXCEPT ![w] = l]
    BY <1>1, WorkerEffect
  <2>2. UNCHANGED <<posts, result>>
    BY <1>1, WorkerEffect
  <2>3. QED
    BY <2>1, <2>2, ProcessAssumption DEF TypeInv, LocalType, Process
<1>2. ASSUME NEW p \in Publisher, PublisherStep(p)
      PROVE  \E l \in PublisherPC :
               /\ \A q \in Publisher : pc'[q] = IF q = p THEN l ELSE pc[q]
               /\ PublisherDoes(p, l)
               /\ \A q \in Publisher : q # p => result'[q] = result[q]
               /\ l = "record" => result'[p] \in 1..posts'
  <2>1. PICK l \in PublisherPC :
          /\ pc' = [pc EXCEPT ![p] = l] /\ PublisherDoes(p, l)
          /\ \/ result' = result /\ l # "record"
             \/ result' = [result EXCEPT ![p] = 0] /\ l = "off"
             \/ l = "record" /\ \E n \in 1..posts' : result' = [result EXCEPT ![p] = n]
    BY <1>2, PublisherEffect
  <2>2. \A q \in Publisher : pc'[q] = IF q = p THEN l ELSE pc[q]
    BY <2>1 DEF TypeInv, LocalType, Process
  <2>3. result \in [Publisher -> 0..posts]
    BY DEF TypeInv, LocalType
  <2>4. /\ \A q \in Publisher : q # p => result'[q] = result[q]
        /\ l = "record" => result'[p] \in 1..posts'
    BY <2>1, <2>3
  <2>5. QED
    BY <2>1, <2>2, <2>4
<1>3. UNCHANGED <<posts, procVars>> => UNCHANGED <<posts, result, pc>>
  BY DEF procVars
<1>4. OperatorStep => UNCHANGED <<posts, procVars>>
  BY OperatorEffect
<1>5. \A r \in Root : Expires(r) \/ LeaseRunsOut(r) => UNCHANGED <<posts, procVars>>
  BY TimeEffect
<1>6. UNCHANGED vars => UNCHANGED <<posts, procVars>>
  BY DEF vars
<1>7. QED
  BY <1>1, <1>2, <1>3, <1>4, <1>5, <1>6 DEF Next

(* A published job names a post that was made, and so does every publisher *)
(* that is about to record one.                                            *)
NamedInv ==
  /\ PublishedHasPost
  /\ \A p \in Publisher : pc[p] = "record" => result[p] \in 1..posts

(* A published job names a post the channel has made (PublishedHasPost):   *)
(* record_publish is the only way into PUBLISHED, with an id that publish  *)
(* or lookup answered, and nothing overwrites it.                          *)
THEOREM PublishedNamesPost == Spec => []PublishedHasPost
<1>1. Init => NamedInv
  <2>1. ASSUME Init PROVE NamedInv
    <3>1. ~Exists(Control) /\ \A p \in Publisher : pc[p] = "off"
      BY <2>1, RootFacts DEF Init, JobInit, Exists, Process
    <3>2. QED
      BY <3>1 DEF NamedInv, PublishedHasPost, Status
  <2>2. QED
    BY <2>1
<1>2. ASSUME TypeInv, NamedInv, [Next]_vars PROVE NamedInv'
  <2>1. posts \in Nat /\ JobTypeOK /\ \A p \in Publisher : result[p] \in Nat
    BY <1>2 DEF TypeInv, LocalType
  <2>2. posts' \in {posts, posts + 1}
    BY <1>2, <2>1, PublishersMove, PublisherJob
  <2>3. 1..posts \subseteq 1..posts'
    BY <2>1, <2>2
  <2>4. ASSUME NEW q \in Publisher, pc'[q] = "record" PROVE result'[q] \in 1..posts'
    BY <1>2, <2>3, <2>4, PublishersMove DEF NamedInv
  <2>5. PublishedHasPost'
    <3>1. CASE ~Exists(Control)' \/ job'[Control] = Created
      BY <3>1 DEF PublishedHasPost, Status, Created
    <3>2. CASE /\ Exists(Control) /\ Exists(Control)'
               /\ ControlDoes(job[Control], job'[Control])
      <4>1. Status(Control) = job[Control].status /\ Status(Control)' = job'[Control].status
        BY <3>2 DEF Status
      <4>2. CASE job[Control].status = "PUBLISHED" /\ Kept(job[Control], job'[Control])
        BY <1>2, <2>3, <4>1, <4>2 DEF NamedInv, PublishedHasPost, Kept
      <4>3. CASE \E p \in Publisher : pc[p] = "record" /\ job'[Control].post = result[p]
        BY <1>2, <2>3, <4>3 DEF NamedInv, PublishedHasPost
      <4>4. CASE job'[Control].status # "PUBLISHED"
        BY <4>1, <4>4 DEF PublishedHasPost
      <4>5. QED
        BY <3>2, <4>2, <4>3, <4>4 DEF ControlDoes, Kept, ClaimedStatus, Into, Reported
    <3>3. QED
      BY <1>2, <3>1, <3>2, ControlChanges
  <2>6. QED
    BY <2>4, <2>5 DEF NamedInv
<1>3. NamedInv => PublishedHasPost
  BY DEF NamedInv
<1>4. QED
  BY <1>1, <1>2, <1>3, AlwaysTyped, PTL DEF Spec

(* The posts, with those that publishers may be making, against what the   *)
(* record accounts for.                                                    *)
Calling == {p \in Publisher : pc[p] = "call"}
Budget(j) == j.released + (IF j.status \in {"PUBLISHING", "PUBLISHED"} THEN 1 ELSE 0)

CallInv ==
  /\ IsFiniteSet(Calling)
  /\ IF Exists(Control) THEN posts + Cardinality(Calling) <= Budget(job[Control])
     ELSE posts = 0 /\ Calling = {}

(* Leaving PUBLISHING is counted, so no step but a publisher's begin       *)
(* changes what is accounted for to less than it was, and that adds one.   *)
LEMMA BudgetStep ==
  ASSUME NEW j \in Job, NEW k \in Job, ControlDoes(j, k)
  PROVE  /\ Budget(j) \in Nat /\ Budget(k) \in Nat /\ Budget(k) >= Budget(j)
         /\ Into(j, k, "PUBLISHING") /\ "PUBLISHING" \in Transitions(j.status)
              => Budget(k) = Budget(j) + 1
<1>1. j.released \in Nat /\ k.released \in Nat
  BY DEF Job
<1>2. "PUBLISHING" \in Transitions(j.status) => j.status = "PUBLISH_APPROVED"
  BY DEF Transitions
<1>3. Transitions("PUBLISHED") = {}
  BY DEF Transitions
<1>4. CASE Kept(j, k)
  BY <1>1, <1>2, <1>4 DEF Kept, Budget, Into
<1>5. CASE /\ j.status \in {"QUEUED", "CLAIMED", "RENDERING"} /\ k.released = j.released
           /\ k.status = ClaimedStatus(j.status)
  BY <1>1, <1>2, <1>5 DEF ClaimedStatus, Budget
<1>6. ASSUME NEW to \in Transitions(j.status) \cap Reported, Into(j, k, to)
      PROVE  Budget(k) >= Budget(j) /\ ~Into(j, k, "PUBLISHING")
  BY <1>1, <1>3, <1>6 DEF Into, Released, Budget, Reported
<1>7. CASE "PUBLISHING" \in Transitions(j.status) /\ Into(j, k, "PUBLISHING")
  BY <1>1, <1>2, <1>7 DEF Into, Released, Budget
<1>8. CASE /\ j.status \in {"PUBLISHING", "PUBLISH_APPROVED"} /\ k.released = j.released
           /\ k.status = j.status \/ (j.status = "PUBLISHING" /\ k.status = "PUBLISHED")
  BY <1>1, <1>2, <1>8 DEF Into, Budget
<1>9. Budget(j) \in Nat /\ Budget(k) \in Nat
  BY <1>1 DEF Budget
<1>10. QED
  BY <1>4, <1>5, <1>6, <1>7, <1>8, <1>9 DEF ControlDoes

LEMMA NextCallInv ==
  /\ Init => CallInv
  /\ TypeInv /\ CallInv /\ [Next]_vars => CallInv'
<1>1. ASSUME Init PROVE CallInv
  <2>1. ~Exists(Control) /\ posts = 0 /\ Calling = {}
    BY <1>1, RootFacts DEF Init, JobInit, Exists, Process, Calling
  <2>2. QED
    BY <2>1, FS_EmptySet DEF CallInv
<1>2. ASSUME TypeInv, CallInv, [Next]_vars PROVE CallInv'
  <2> DEFINE c == Cardinality(Calling)
  <2> DEFINE B == Budget(job[Control])
  <2>1. JobTypeOK /\ Control \in Root /\ posts \in Nat /\ IsFiniteSet(Calling) /\ c \in Nat
    BY <1>2, RootFacts, FS_CardinalityType DEF TypeInv, CallInv
  <2>2. TypeInv'
    BY <1>2, NextTypeInv
  <2>3. JobTypeOK' /\ posts' \in Nat
    BY <2>2 DEF TypeInv
  <2>4. Exists(Control) => posts + c <= B /\ B \in Nat
    BY <1>2, <2>1 DEF CallInv, Budget, JobTypeOK, Exists, Job
  <2>5. ~Exists(Control) => posts = 0 /\ Calling = {}
    BY <1>2 DEF CallInv
  <2>6. Exists(Control) => /\ Exists(Control)' /\ ControlDoes(job[Control], job'[Control])
                           /\ job[Control] \in Job /\ job'[Control] \in Job
    BY <1>2, <2>1, <2>3, ControlChanges DEF JobTypeOK, Exists
  <2>7. Exists(Control) => B' \in Nat /\ B' >= B
    BY <2>6, BudgetStep
  <2>8. ~Exists(Control) /\ Exists(Control)' => B' = 0
    <3>1. Budget(Created) = 0
      BY DEF Budget, Created
    <3>2. QED
      BY <1>2, <3>1, ControlChanges
  <2>9. ASSUME IsFiniteSet(Calling'), c' \in Nat,
               Exists(Control) => posts' + c' <= B',
               ~Exists(Control) => posts' = 0 /\ Calling' = {}
        PROVE  CallInv'
    <3>1. CASE Exists(Control)
      BY <2>6, <2>9, <3>1 DEF CallInv
    <3>2. CASE ~Exists(Control)
      BY <2>8, <2>9, <3>2, FS_EmptySet DEF CallInv
    <3>3. QED
      BY <3>1, <3>2
  <2>10. CASE UNCHANGED posts /\ \A p \in Publisher : pc'[p] = pc[p]
    <3>1. Calling' = Calling
      BY <2>10 DEF Calling
    <3>2. c' = c
      BY <3>1
    <3>3. Exists(Control) => posts' + c' <= B'
      <4> HIDE DEF c, B
      <4>1. QED
        BY <2>1, <2>4, <2>7, <2>10, <3>2 DEF c, B
    <3>4. QED
      BY <2>1, <2>5, <2>9, <2>10, <3>1, <3>3
  <2>11. ASSUME NEW p \in Publisher, NEW l \in PublisherPC, PublisherDoes(p, l),
                \A q \in Publisher : pc'[q] = IF q = p THEN l ELSE pc[q]
         PROVE  CallInv'
    <3>1. p \in Calling <=> pc[p] = "call"
      BY DEF Calling
    <3>2. CASE l = "call"
      <4>1. Transition(Control, "PUBLISHING") /\ posts' = posts
        BY <2>11, <3>2 DEF PublisherDoes
      <4>2. /\ Exists(Control) /\ "PUBLISHING" \in Transitions(job[Control].status)
            /\ Into(job[Control], job'[Control], "PUBLISHING")
        BY <2>1, <4>1, MoveFacts
      <4>3. B' = B + 1
        BY <2>6, <4>2, BudgetStep
      <4>4. Calling' = Calling \cup {p}
        BY <2>11, <3>2 DEF Calling
      <4>5. IsFiniteSet(Calling') /\ c' \in Nat /\ c' <= c + 1
        <5>1. /\ IsFiniteSet(Calling \cup {p})
              /\ Cardinality(Calling \cup {p}) = IF p \in Calling THEN c ELSE c + 1
          BY <2>1, FS_AddElement
        <5>2. QED
          BY <2>1, <4>4, <5>1
      <4>6. posts' + c' <= B'
        <5>1. posts \in Nat /\ c \in Nat /\ c' \in Nat /\ posts + c <= B /\ B \in Nat
          BY <2>1, <2>4, <4>2, <4>5
        <5> HIDE DEF c, B
        <5>2. QED
          BY <4>1, <4>3, <4>5, <5>1 DEF c, B
      <4>7. QED
        BY <2>9, <4>2, <4>5, <4>6
    <3>3. CASE l # "call"
      <4>1. Calling' = Calling \ {p}
        BY <2>11, <3>3 DEF Calling
      <4>2. /\ IsFiniteSet(Calling') /\ c' \in Nat /\ c' <= c
            /\ p \in Calling => c' = c - 1
        <5>1. /\ IsFiniteSet(Calling \ {p})
              /\ Cardinality(Calling \ {p}) = IF p \in Calling THEN c - 1 ELSE c
          BY <2>1, FS_RemoveElement
        <5>2. Cardinality(Calling \ {p}) \in Nat
          BY <5>1, FS_CardinalityType
        <5>3. QED
          BY <2>1, <4>1, <5>1, <5>2
      <4>3. \/ posts' = posts
            \/ posts' = posts + 1 /\ pc[p] = "call"
        BY <2>11 DEF PublisherDoes
      <4>4. posts' + c' <= posts + c
        <5> HIDE DEF c, B
        <5>1. QED
          BY <2>1, <3>1, <4>2, <4>3 DEF c
      <4>5. Exists(Control) => posts' + c' <= B'
        <5>1. ASSUME Exists(Control)
              PROVE  /\ posts \in Nat /\ c \in Nat /\ posts' \in Nat /\ c' \in Nat
                     /\ posts + c <= B /\ B \in Nat /\ B' \in Nat /\ B' >= B
          BY <2>1, <2>3, <2>4, <2>7, <4>2, <5>1
        <5> HIDE DEF c, B
        <5>2. QED
          BY <4>4, <5>1 DEF c, B
      <4>6. ~Exists(Control) => posts' = 0 /\ Calling' = {}
        BY <2>5, <3>1, <4>1, <4>3
      <4>7. QED
        BY <2>9, <4>2, <4>5, <4>6
    <3>4. QED
      BY <3>2, <3>3
  <2>12. QED
    BY <1>2, <2>10, <2>11, PublishersMove
<1>3. QED
  BY <1>1, <1>2

(* The channel has at most one post of a job, and one more for each time   *)
(* the job left PUBLISHING without being published (ExtraPostNeedsRelease):*)
(* concurrent publishers, retries, lost answers, crashes and late results  *)
(* add none, for any number of publishers.                                 *)
THEOREM ExtraPostsReleased == Spec => []ExtraPostNeedsRelease
<1>1. TypeInv /\ CallInv => ExtraPostNeedsRelease
  <2>1. ASSUME TypeInv, CallInv, Exists(Control) PROVE posts <= 1 + job[Control].released
    <3>1. /\ posts \in Nat /\ Cardinality(Calling) \in Nat /\ job[Control].released \in Nat
          /\ posts + Cardinality(Calling) <= Budget(job[Control])
      BY <2>1, RootFacts, FS_CardinalityType DEF CallInv, TypeInv, JobTypeOK, Exists, Job
    <3>2. Budget(job[Control]) <= 1 + job[Control].released /\ Budget(job[Control]) \in Nat
      BY <3>1 DEF Budget
    <3>3. QED
      BY <3>1, <3>2
  <2>2. QED
    BY <2>1 DEF ExtraPostNeedsRelease
<1>2. QED
  BY <1>1, NextCallInv, AlwaysTyped, PTL DEF Spec
=============================================================================
