----------------------------- MODULE Dashboard -----------------------------
(***************************************************************************)
(* The backend behind the dashboard (backend/server.py) and the hub that   *)
(* tells open dashboards what happens (backend/services/ws_hub.py).  A     *)
(* request reads and writes the database in steps of its own and waits for *)
(* every dashboard in turn, so requests overlap at each of these.          *)
(***************************************************************************)
EXTENDS Naturals, FiniteSets, Sequences

CONSTANTS
  Visit,       \* the requests, numbers, in the order they come in
  Screen,      \* the dashboards that are opened, each once
  MaxFaults    \* bound on writes that fail and on restarts

(* Assumed of the constants, in Services.                                  *)
DashboardBounds == Visit \subseteq Nat /\ IsFiniteSet(Visit) /\ IsFiniteSet(Screen) /\ MaxFaults \in Nat

VARIABLES
  visit,       \* each request: where it stands and what it has read
  waitlist,    \* the rows of the waitlist, for one address
  runRow,      \* the row of each run of an agent
  decisions,   \* the rows of decisions on one approval
  cycles,      \* the cycle events
  screen,      \* each dashboard: not opened yet, open, or closed
  hub,         \* the connections the hub knows of
  heard,       \* what each dashboard was told, in order
  met,         \* auxiliary: the pairs of requests that overlapped
  faults

dashboard == <<visit, waitlist, runRow, decisions, cycles, screen, hub, heard, met, faults>>

Kind == {"join", "run", "decide", "trigger"}
Verdict == {"approve", "veto"}
Over == {"answered", "failed", "gone"}
Stage == {"idle", "find", "count", "insert", "cast", "send", "work"} \cup Over
Event == Visit \X {"queued", "completed", "decided", "triggered"}
LastEvent(kind) == [run |-> "completed", decide |-> "decided", trigger |-> "triggered"][kind]

Idle == [at |-> "idle", kind |-> "join", verdict |-> "approve", position |-> 0, event |-> "queued",
         todo |-> {}, dead |-> {}, present |-> {}]

TypeOK ==
  /\ visit \in [Visit -> [at : Stage, kind : Kind, verdict : Verdict, position : 0..Cardinality(Visit),
                          event : {"queued", "completed", "decided", "triggered"}, todo : SUBSET Screen,
                          dead : SUBSET Screen, present : SUBSET Screen]]
  /\ \A r \in Visit : visit[r].at # "send" => visit[r].todo = {} /\ visit[r].dead = {}
  /\ waitlist \subseteq Visit \X (1..Cardinality(Visit))
  /\ runRow \in [Visit -> {"none", "queued", "completed", "errored"}]
  /\ decisions \subseteq Visit /\ cycles \subseteq Visit
  /\ screen \in [Screen -> {"new", "open", "closed"}]
  /\ hub \subseteq Screen /\ \A c \in hub : screen[c] # "new"
  /\ \A c \in Screen : \A i \in DOMAIN heard[c] : heard[c][i] \in Event
  /\ met \subseteq {p \in SUBSET Visit : Cardinality(p) = 2}
  /\ faults \in 0..MaxFaults

Init ==
  /\ visit = [r \in Visit |-> Idle] /\ waitlist = {} /\ runRow = [r \in Visit |-> "none"]
  /\ decisions = {} /\ cycles = {}
  /\ screen = [c \in Screen |-> "new"] /\ hub = {} /\ heard = [c \in Screen |-> <<>>]
  /\ met = {} /\ faults = 0

UnderWay(r) == visit[r].at \notin {"idle"} \cup Over
Goto(r, stage) == visit' = [visit EXCEPT ![r].at = stage]
(* A request that is over keeps only what it was.                          *)
Ended(r, how) ==
  [Idle EXCEPT !.at = how, !.kind = visit[r].kind, !.verdict = visit[r].verdict, !.present = visit[r].present]
End(r, how) == visit' = [visit EXCEPT ![r] = Ended(r, how)]
Fault == faults < MaxFaults /\ faults' = faults + 1
Rows == <<waitlist, runRow, decisions, cycles>>
Screens == <<screen, hub, heard>>

-----------------------------------------------------------------------------
(* A request.  A decision takes its time stamp here.                       *)
Begin(r, kind, verdict) ==
  /\ visit[r].at = "idle" /\ \A d \in Visit : d < r => visit[d].at # "idle"
  /\ visit' = [visit EXCEPT ![r] = [Idle EXCEPT !.at = IF kind = "join" THEN "find" ELSE "insert",
                                                !.kind = kind, !.verdict = verdict, !.present = hub]]
  /\ met' = met \cup {{r, d} : d \in {d \in Visit : UnderWay(d) /\ visit[d].kind = kind}}
  /\ UNCHANGED <<Rows, Screens, faults>>

(* The waitlist: the address is looked up, the rows are counted, and the   *)
(* row is written with the next position.                                  *)
Find(r) ==
  /\ visit[r].at = "find"
  /\ \/ /\ waitlist = {} /\ Goto(r, "count")
     \/ waitlist # {} /\ End(r, "answered")
  /\ UNCHANGED <<Rows, Screens, met, faults>>
Count(r) ==
  /\ visit[r].at = "count"
  /\ visit' = [visit EXCEPT ![r].at = "insert", ![r].position = Cardinality(waitlist) + 1]
  /\ UNCHANGED <<Rows, Screens, met, faults>>
Join(r) ==
  /\ visit[r].at = "insert" /\ visit[r].kind = "join"
  /\ waitlist' = waitlist \cup {<<r, visit[r].position>>} /\ End(r, "answered")
  /\ UNCHANGED <<runRow, decisions, cycles, Screens, met, faults>>

(* The row of a run, a decision or a cycle is written before anyone is     *)
(* told of it.  Nothing keeps a second decision out.                       *)
Insert(r) ==
  LET kind == visit[r].kind
      event == IF kind = "run" THEN "queued" ELSE LastEvent(kind)
  IN /\ visit[r].at = "insert" /\ kind # "join"
     /\ visit' = [visit EXCEPT ![r].at = "cast", ![r].event = event]
     /\ runRow' = IF kind = "run" THEN [runRow EXCEPT ![r] = "queued"] ELSE runRow
     /\ decisions' = IF kind = "decide" THEN decisions \cup {r} ELSE decisions
     /\ cycles' = IF kind = "trigger" THEN cycles \cup {r} ELSE cycles
     /\ UNCHANGED <<waitlist, Screens, met, faults>>

(* The model cascade answers, or its failure is the answer; then the row   *)
(* takes the outcome.                                                      *)
Work(r) ==
  /\ visit[r].at = "work"
  /\ visit' = [visit EXCEPT ![r].at = "cast", ![r].event = "completed"]
  /\ \E outcome \in {"completed", "errored"} : runRow' = [runRow EXCEPT ![r] = outcome]
  /\ UNCHANGED <<waitlist, decisions, cycles, Screens, met, faults>>

(* broadcast: the connections of this moment are told one after another;   *)
(* those that fail are forgotten at the end.                               *)
Snapshot(r) ==
  /\ visit[r].at = "cast"
  /\ visit' = [visit EXCEPT ![r].at = "send", ![r].todo = hub]
  /\ UNCHANGED <<Rows, Screens, met, faults>>
Send(r) ==
  /\ visit[r].at = "send"
  /\ \E c \in visit[r].todo :
       \/ /\ screen[c] = "open"
          /\ visit' = [visit EXCEPT ![r].todo = @ \ {c}]
          /\ heard' = [heard EXCEPT ![c] = Append(@, <<r, visit[r].event>>)]
       \/ /\ screen[c] = "closed"
          /\ visit' = [visit EXCEPT ![r].todo = @ \ {c}, ![r].dead = @ \cup {c}]
          /\ UNCHANGED heard
  /\ UNCHANGED <<Rows, screen, hub, met, faults>>
Sent(r) ==
  /\ visit[r].at = "send" /\ visit[r].todo = {}
  /\ hub' = hub \ visit[r].dead
  /\ IF visit[r].event = "queued" THEN visit' = [visit EXCEPT ![r].dead = {}, ![r].at = "work"]
     ELSE End(r, "answered")
  /\ UNCHANGED <<Rows, screen, heard, met, faults>>

(* The database refuses: the request ends with an error, and a run keeps   *)
(* the row it has.                                                         *)
Refused(r) ==
  /\ visit[r].at \in {"find", "count", "insert", "work"} /\ End(r, "failed")
  /\ Fault /\ UNCHANGED <<Rows, Screens, met>>

(* A dashboard is opened; it is closed, and its handler takes it out of    *)
(* the hub a little later.                                                 *)
Open(c) ==
  /\ screen[c] = "new"
  /\ screen' = [screen EXCEPT ![c] = "open"] /\ hub' = hub \cup {c}
  /\ UNCHANGED <<visit, Rows, heard, met, faults>>
Close(c) ==
  /\ screen[c] = "open" /\ screen' = [screen EXCEPT ![c] = "closed"]
  /\ UNCHANGED <<visit, Rows, hub, heard, met, faults>>
Discard(c) ==
  /\ c \in hub /\ screen[c] = "closed" /\ hub' = hub \ {c}
  /\ UNCHANGED <<visit, Rows, screen, heard, met, faults>>

(* The one process of the backend ends, with its connections.              *)
Crash ==
  /\ \E r \in Visit : UnderWay(r)
  /\ visit' = [r \in Visit |-> IF UnderWay(r) THEN Ended(r, "gone") ELSE visit[r]]
  /\ screen' = [c \in Screen |-> IF screen[c] = "open" THEN "closed" ELSE screen[c]]
  /\ hub' = {} /\ Fault
  /\ UNCHANGED <<Rows, heard, met>>

Step(r) ==
  \/ Find(r) \/ Count(r) \/ Join(r) \/ Insert(r) \/ Work(r)
  \/ Snapshot(r) \/ Send(r) \/ Sent(r) \/ Refused(r)
Next ==
  \/ \E r \in Visit : Step(r) \/ \E kind \in Kind, verdict \in Verdict :
                                   (kind # "decide" => verdict = "approve") /\ Begin(r, kind, verdict)
  \/ \E c \in Screen : Open(c) \/ Close(c) \/ Discard(c)
  \/ Crash

-----------------------------------------------------------------------------
(* What the views of the backend show: the runs of the agents with their   *)
(* outcomes, the decision with the latest time stamp, the decisions in the *)
(* audit trail, and the cycle that was triggered last.                     *)
RunStats ==
  [runs |-> Cardinality({r \in Visit : runRow[r] # "none"}),
   successes |-> Cardinality({r \in Visit : runRow[r] = "completed"}),
   failures |-> Cardinality({r \in Visit : runRow[r] = "errored"})]
Unfinished == RunStats.runs - RunStats.successes - RunStats.failures
LatestOf(rows) == CHOOSE r \in rows : \A d \in rows : d <= r
LastDecision == visit[LatestOf(decisions)].verdict
CycleState == IF cycles = {} THEN "idle" ELSE "running"

Apart(r, d) == {r, d} \notin met
Places(c, event) == {i \in DOMAIN heard[c] : heard[c][i][2] = event}
LastHeard(c) == heard[c][LatestOf(Places(c, "decided"))][1]

(* An address has one row, and two rows have different positions, unless   *)
(* their requests overlapped.  And what a dashboard heard last of an       *)
(* approval is the decision that the backend shows, unless decisions       *)
(* overlapped, or one was stored that the dashboard was not there for.     *)
EffectsOnce ==
  /\ \A a, b \in waitlist : a # b => ~Apart(a[1], b[1])
  /\ \A c \in Screen :
       Places(c, "decided") # {} /\ LastHeard(c) # LatestOf(decisions) =>
         LET r == LatestOf(decisions)
         IN \/ ~Apart(r, LastHeard(c)) \/ visit[r].at # "answered"
            \/ screen[c] = "closed" \/ visit[LastHeard(c)].verdict = LastDecision

(* A run that was answered has its outcome, one that has none is under way *)
(* or was cut off, and the statistics miss exactly these; a dashboard that *)
(* was open all along was told of every request that was answered, and     *)
(* none was told of what is not stored.                                    *)
NothingLost ==
  /\ \A r \in Visit :
       /\ visit[r].at = "answered" /\ visit[r].kind = "run" => runRow[r] \in {"completed", "errored"}
       /\ runRow[r] = "queued" => UnderWay(r) \/ visit[r].at \in {"failed", "gone"}
       /\ visit[r].at = "answered" /\ visit[r].kind # "join" =>
            \A c \in visit[r].present :
              screen[c] = "open" => \E i \in DOMAIN heard[c] : heard[c][i] = <<r, LastEvent(visit[r].kind)>>
  /\ Unfinished <= Cardinality({r \in Visit : visit[r].kind = "run" /\ visit[r].at # "answered"})
  /\ \A c \in Screen : \A i \in DOMAIN heard[c] :
       LET r == heard[c][i][1]
       IN CASE heard[c][i][2] = "queued" -> runRow[r] # "none"
            [] heard[c][i][2] = "completed" -> runRow[r] \in {"completed", "errored"}
            [] heard[c][i][2] = "decided" -> r \in decisions
            [] OTHER -> r \in cycles /\ CycleState = "running"
=============================================================================
