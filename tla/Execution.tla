----------------------------- MODULE Execution -----------------------------
(***************************************************************************)
(* The execution core (runtime/sovereign_core.py) behind the runtime API   *)
(* (runtime/api.py) and the Telegram webhook, with its memory of answers   *)
(* (memory_commit.py, vector_cache.py) and its approval file               *)
(* (approval_gate.py).  API requests run in threads of a pool; a webhook   *)
(* calls the core on the event loop, so that one is worked on at a time.   *)
(***************************************************************************)
EXTENDS Naturals, FiniteSets

CONSTANTS
  Call,        \* the calls, numbers, in the order they arrive
  Objective,   \* what may be asked for
  Risky,       \* those that are scored for the review queue
  Unserved,    \* those routed to a tier that execute has no branch for
  MaxFaults    \* bound on crashes, locked tables and lapses of memory

(* Assumed of the constants, in Services.                                  *)
ExecutionBounds ==
  /\ Call \subseteq Nat /\ Risky \cup Unserved \subseteq Objective /\ Risky \cap Unserved = {}
  /\ Objective # {} /\ MaxFaults \in Nat

VARIABLES
  call,        \* each call: where it stands and what came of it
  memory,      \* the verified rows of the vector cache
  file,        \* the file of approvals, as the calls that entered one
  spoilt,      \* auxiliary: two calls were at the gate, or one died there
  lapsed,      \* auxiliary: the answers whose time to live has passed
  faults

execution == <<call, memory, file, spoilt, lapsed, faults>>

Channel == {"api", "telegram"}

(* An answer names the objective it was written for and the call that had  *)
(* it written; the text for an unserved tier is the same for all of them.  *)
Deferred == <<>>
Answer == (Objective \X Call) \cup {Deferred}

(* An API request has the default embedding, a Telegram command that of    *)
(* its own text; the channel is also the namespace of the memory.          *)
Vector(c, o) == IF c = "api" THEN "default" ELSE o
Vectors == {Vector(c, o) : c \in Channel, o \in Objective}
Row == [channel : Channel, vector : Vectors, answer : Answer]

Stage == {"idle", "search", "gate", "save", "write", "work", "commit", "store", "done"}
Status == {"none", "ok", "approval_required", "blocked", "failed", "refused", "gone"}
Idle == [at |-> "idle", channel |-> "api", objective |-> CHOOSE o \in Objective : TRUE, copy |-> {},
         answer |-> Deferred, status |-> "none", cached |-> FALSE, stored |-> FALSE]

TypeOK ==
  /\ call \in [Call -> [at : Stage, channel : Channel, objective : Objective, copy : SUBSET Call,
                        answer : Answer, status : Status, cached : BOOLEAN, stored : BOOLEAN]]
  /\ memory \subseteq Row /\ file \subseteq Call
  /\ \A c \in Call : (call[c].at = "done") = (call[c].status # "none")
  /\ \A m \in memory : \A n \in memory : m.answer = n.answer => m = n
  /\ spoilt \in BOOLEAN /\ lapsed \subseteq Answer /\ faults \in 0..MaxFaults

Init ==
  /\ call = [c \in Call |-> Idle] /\ memory = {} /\ file = {}
  /\ spoilt = FALSE /\ lapsed = {} /\ faults = 0

UnderWay(c) == call[c].at \notin {"idle", "done"}
(* A call ends with an answer, or without: then only its status is kept.   *)
Reply(c, cached, stored, answer) ==
  call' = [call EXCEPT ![c].at = "done", ![c].status = "ok", ![c].cached = cached,
                       ![c].stored = stored, ![c].answer = answer]
Ended(status) == [Idle EXCEPT !.at = "done", !.status = status]
End(c, status) == call' = [call EXCEPT ![c] = Ended(status)]
Goto(c, stage) == call' = [call EXCEPT ![c].at = stage]
Fault == faults < MaxFaults /\ faults' = faults + 1

-----------------------------------------------------------------------------
(* A request, or an update of Telegram, which sends one again when it was  *)
(* not answered in time or was answered with an error.  The rows of the    *)
(* namespace whose time has passed are dropped first.                      *)
Receive(c, channel, o) ==
  /\ call[c].at = "idle" /\ \A d \in Call : d < c => call[d].at # "idle"
  /\ channel = "telegram" => \A d \in Call : ~(call[d].channel = "telegram" /\ UnderWay(d))
  /\ call' = [call EXCEPT ![c] = [Idle EXCEPT !.at = "search", !.channel = channel, !.objective = o]]
  /\ memory' = {m \in memory : m.channel = channel => m.answer \notin lapsed}
  /\ UNCHANGED <<file, spoilt, lapsed, faults>>

(* The agent is not registered.                                            *)
Refuse(c) ==
  /\ call[c].at = "idle" /\ \A d \in Call : d < c => call[d].at # "idle"
  /\ End(c, "refused")
  /\ UNCHANGED <<memory, file, spoilt, lapsed, faults>>

Hits(c) ==
  {m \in memory : /\ m.channel = call[c].channel /\ m.answer \notin lapsed
                  /\ m.vector = Vector(call[c].channel, call[c].objective)}

(* An answer from memory is given without a look at the agent's policy,    *)
(* the gate or the verifier.                                               *)
Recall(c) ==
  /\ call[c].at = "search"
  /\ \E m \in Hits(c) : Reply(c, TRUE, FALSE, m.answer)
  /\ UNCHANGED <<memory, file, spoilt, lapsed, faults>>

(* What an objective is scored, and where its tier sends it; every tier    *)
(* has cost 0, so the cost guard lets each of them pass.                   *)
Scored(o) == IF o \in Risky THEN "high" ELSE IF o \in Unserved THEN "middle" ELSE "low"
Tier(o) == [low |-> "work", middle |-> "commit", high |-> "gate"][Scored(o)]

(* The complexity decides the tier, and the tier what is done, unless the  *)
(* agent's policy does not have the connector.                             *)
Route(c) ==
  /\ call[c].at = "search" /\ Hits(c) = {}
  /\ \/ Goto(c, Tier(call[c].objective))
     \/ End(c, "refused")
  /\ UNCHANGED <<memory, file, spoilt, lapsed, faults>>

(* require: the file is read, opened, which empties it, and written; an    *)
(* empty file reads as no approvals.                                       *)
AtGate(c) == call[c].at \in {"save", "write"}
Load(c) ==
  /\ call[c].at = "gate"
  /\ call' = [call EXCEPT ![c].at = "save", ![c].copy = file]
  /\ spoilt' = (spoilt \/ \E d \in Call \ {c} : AtGate(d))
  /\ UNCHANGED <<memory, file, lapsed, faults>>
Open(c) ==
  /\ call[c].at = "save" /\ Goto(c, "write") /\ file' = {}
  /\ UNCHANGED <<memory, spoilt, lapsed, faults>>
Save(c) ==
  /\ call[c].at = "write"
  /\ file' = call[c].copy \cup {c}
  /\ End(c, "approval_required")
  /\ UNCHANGED <<memory, spoilt, lapsed, faults>>

(* The agent works, through the cascade of models or by rule; what it      *)
(* wrote passes the verifier, is blocked, or is refused by the memory, or  *)
(* the agent raises.                                                       *)
Work(c) ==
  /\ call[c].at = "work"
  /\ \/ call' = [call EXCEPT ![c].at = "commit", ![c].answer = <<call[c].objective, c>>]
     \/ End(c, "blocked")
     \/ End(c, "failed")
  /\ UNCHANGED <<memory, file, spoilt, lapsed, faults>>

(* A text like one of the namespace, whether its time has passed or not,   *)
(* is not stored; one that is stored takes the row of the same text.       *)
Compare(c) ==
  LET rows == {m \in memory : m.channel = call[c].channel}
  IN /\ call[c].at = "commit"
     /\ \/ rows # {} /\ Reply(c, FALSE, FALSE, call[c].answer)
        \/ (\A m \in rows : m.answer # call[c].answer) /\ Goto(c, "store")
     /\ UNCHANGED <<memory, file, spoilt, lapsed, faults>>
Store(c) ==
  /\ call[c].at = "store"
  /\ memory' = {m \in memory : m.answer # call[c].answer}
               \cup {[channel |-> call[c].channel, answer |-> call[c].answer,
                      vector |-> Vector(call[c].channel, call[c].objective)]}
  /\ lapsed' = lapsed \ {call[c].answer}
  /\ Reply(c, FALSE, TRUE, call[c].answer)
  /\ UNCHANGED <<file, spoilt, faults>>

(* The table is locked for too long.                                       *)
Locked(c) ==
  /\ call[c].at \in {"commit", "store"} /\ End(c, "failed")
  /\ Fault /\ UNCHANGED <<memory, file, spoilt, lapsed>>

(* A week passes for a row.                                                *)
Lapse ==
  /\ \E m \in memory : m.answer \notin lapsed /\ lapsed' = lapsed \cup {m.answer}
  /\ Fault /\ UNCHANGED <<call, memory, file, spoilt>>

(* The service ends, and what was under way with it.                       *)
Crash ==
  /\ \E c \in Call : UnderWay(c)
  /\ spoilt' = (spoilt \/ \E c \in Call : call[c].at = "write")
  /\ call' = [c \in Call |-> IF UnderWay(c) THEN Ended("gone") ELSE call[c]]
  /\ Fault /\ UNCHANGED <<memory, file, lapsed>>

Step(c) ==
  \/ Refuse(c) \/ Recall(c) \/ Route(c) \/ Load(c) \/ Open(c) \/ Save(c)
  \/ Work(c) \/ Compare(c) \/ Store(c) \/ Locked(c)
Next ==
  \/ \E c \in Call :
       Step(c) \/ \E channel \in Channel, o \in Objective : Receive(c, channel, o)
  \/ Lapse \/ Crash

-----------------------------------------------------------------------------
Worked(c) == call[c].answer # Deferred /\ call[c].answer[2] = c
Alike(c, d) ==
  call[c].channel = "telegram" /\ call[d].channel = "telegram" /\ call[c].objective = call[d].objective

(* The agents work on a Telegram command again, sent twice by a person or  *)
(* by Telegram, only when its first answer was not stored or its time has  *)
(* passed; and what memory gives back was written for that very command,   *)
(* or is the text of the unserved tiers.  On the API every objective has   *)
(* the same embedding, so there it may be the answer to any other, but not *)
(* to a Telegram command.                                                  *)
EffectsOnce ==
  /\ \A c, d \in Call :
       c < d /\ Alike(c, d) /\ call[c].stored /\ Worked(c) /\ Worked(d) => call[c].answer \in lapsed
  /\ \A c \in Call :
       call[c].cached /\ call[c].answer # Deferred =>
         LET d == call[c].answer[2]
         IN call[d].stored /\ call[d].channel = call[c].channel
            /\ (call[c].channel = "telegram" => Alike(c, d))

(* An approval that a caller was told of is in the file, unless two calls  *)
(* met at the gate or one died while it wrote; and what needs one is not   *)
(* answered from memory instead, where embeddings tell objectives apart.   *)
NothingLost ==
  /\ ~spoilt => \A c \in Call : call[c].status = "approval_required" => c \in file \/ \E d \in Call : call[d].at = "write" /\ c \in call[d].copy
  /\ \A c \in Call :
       call[c].channel = "telegram" /\ call[c].objective \in Risky => call[c].status # "ok"
=============================================================================
