---------------------------- MODULE EdgeFailover ----------------------------
(***************************************************************************)
(* runtime/edge_failover.py: signed payloads are staged in a table, worked *)
(* on at once when the server is online and by a replay otherwise, through *)
(* the dispatch of runtime/enterprise_mesh.py, which answers for an agent  *)
(* that fails with the last output it kept of that agent.                  *)
(*                                                                         *)
(* An ingest and a replay are commands, each in a process of its own: a    *)
(* step is one transaction, or the dispatch.  The agents of a dispatch are *)
(* one, which is live, or answered for by its snapshot, or failed.         *)
(***************************************************************************)
EXTENDS Naturals

CONSTANTS
  Event,         \* tracking ids, numbers: they are alike, and first ingested in this order
  Payload,       \* what may be ingested under them, with a good signature
  NoPayload,     \* no payload, no output
  Command,       \* the processes that may run at once, numbers
  MaxIngests,    \* bound on ingests
  EdgeFaults     \* bound on crashes and operations on the databases that raise

(* Assumed of the constants, in Services.                                  *)
PayloadAssumption == NoPayload \notin Payload
EdgeBounds == {MaxIngests, EdgeFaults} \subseteq Nat /\ Command \cup Event \subseteq Nat

VARIABLES
  event,       \* rows of edge_events; of is the payload whose output is in result_json
  snapshot,    \* the payload whose output agent_snapshots holds
  command,     \* the commands under way
  ingests, edgeFaults, \* what the bounds count
  dispatched,  \* auxiliary: dispatches of each payload of each event: 0, 1, or more
  repeated,    \* auxiliary: events ingested with a payload that was already dispatched
  shared,      \* auxiliary: events that a command took on, or that were ingested, while
               \* another command had them
  unsaved      \* auxiliary: events dispatched with the result not saved

edgeHistory == <<dispatched, repeated, shared, unsaved>>
vars == <<event, snapshot, command, ingests, edgeFaults, edgeHistory>>

Maybe == Payload \cup {NoPayload}
Result == [ok : BOOLEAN, of : Maybe, live : BOOLEAN]

TypeOK ==
  /\ event \in [Event -> [status : {"none", "staged", "processed", "dead"},
                          payload : Maybe, of : Maybe, live : BOOLEAN]]
  /\ snapshot \in Maybe
  /\ command \in [Command -> [step : {"off", "next", "dispatch", "save", "failed"},
                              todo : SUBSET Event, on : SUBSET Event,
                              payload : Maybe, result : Result]]
  /\ \A c \in Command : \A e \in command[c].on :
       event[e].status # "none" /\ command[c].payload # NoPayload
  /\ ingests \in 0..MaxIngests /\ edgeFaults \in 0..EdgeFaults
  /\ dispatched \in [Event -> [Payload -> 0..2]]
  /\ repeated \subseteq Event /\ shared \subseteq Event /\ unsaved \subseteq Event

NoRow == [status |-> "none", payload |-> NoPayload, of |-> NoPayload, live |-> FALSE]
Dead == [ok |-> FALSE, of |-> NoPayload, live |-> FALSE]
NoCommand == [step |-> "off", todo |-> {}, on |-> {}, payload |-> NoPayload, result |-> Dead]

Init ==
  /\ event = [e \in Event |-> NoRow]
  /\ snapshot \in Maybe
  /\ command = [c \in Command |-> NoCommand]
  /\ ingests = 0 /\ edgeFaults = 0
  /\ dispatched = [e \in Event |-> [p \in Payload |-> 0]]
  /\ repeated = {} /\ shared = {} /\ unsaved = {}

Fine == UNCHANGED edgeFaults
Fault == edgeFaults < EdgeFaults /\ edgeFaults' = edgeFaults + 1

Free(c) == command[c].step = "off"
(* The processes are alike: a command takes the first that is free.        *)
FirstFree(c) == Free(c) /\ \A d \in Command : Free(d) => c <= d
Has(c, e) == e \in command[c].todo \cup command[c].on
Working(c, e, step) == command[c].step = step /\ e \in command[c].on

(* The events a command has still to work on, or the end of it.            *)
WorkOn(c, events) ==
  command' = [command EXCEPT ![c] =
    IF events = {} THEN NoCommand ELSE [NoCommand EXCEPT !.step = "next", !.todo = events]]

-----------------------------------------------------------------------------
(* ingest: the row is staged, whatever it was; the old result stays in it. *)
Ingest(c, e, p, online) ==
  /\ FirstFree(c) /\ ingests < MaxIngests /\ ingests' = ingests + 1
  /\ \A f \in Event : f < e => event[f].status # "none"
  /\ event' = [event EXCEPT ![e].payload = p, ![e].status = "staged"]
  /\ IF online THEN WorkOn(c, {e}) ELSE UNCHANGED command
  /\ repeated' = IF dispatched[e][p] > 0 THEN repeated \cup {e} ELSE repeated
  /\ shared' = IF \E d \in Command : Has(d, e) THEN shared \cup {e} ELSE shared
  /\ UNCHANGED <<snapshot, edgeFaults, dispatched, unsaved>>

Replay(c) ==
  /\ FirstFree(c)
  /\ LET staged == {e \in Event : event[e].status = "staged"} IN
     /\ staged # {} /\ WorkOn(c, staged)
     /\ shared' = shared \cup {e \in staged : \E d \in Command : Has(d, e)}
  /\ UNCHANGED <<event, snapshot, ingests, edgeFaults, dispatched, repeated, unsaved>>

(* process_one reads the row and does not look at its status.              *)
Read(c, e) ==
  /\ command[c].step = "next" /\ e \in command[c].todo
  /\ command' = [command EXCEPT ![c].step = "dispatch", ![c].on = {e}, ![c].todo = @ \ {e},
                                ![c].payload = event[e].payload]
  /\ UNCHANGED <<event, snapshot, ingests, edgeFaults, edgeHistory>>

(* run_agent: live, or what its snapshot answers.                          *)
Live(p) == [ok |-> TRUE, of |-> p, live |-> TRUE]
Cached == IF snapshot = NoPayload THEN Dead ELSE [ok |-> TRUE, of |-> snapshot, live |-> FALSE]

Snapshots(p) == snapshot' = p
Returns(c, result) == command' = [command EXCEPT ![c].step = "save", ![c].result = result]

(* dispatch: a snapshot that cannot be saved counts as an agent that       *)
(* failed; when the run cannot be recorded the dispatch raises.            *)
Dispatch(c, e) ==
  /\ Working(c, e, "dispatch")
  /\ LET p == command[c].payload IN
     /\ dispatched' = [dispatched EXCEPT ![e][p] = IF @ < 2 THEN @ + 1 ELSE 2]
     /\ \/ Returns(c, Live(p)) /\ Snapshots(p) /\ Fine /\ UNCHANGED unsaved
        \/ Returns(c, Cached) /\ Fine /\ UNCHANGED <<snapshot, unsaved>>
        \/ /\ command' = [command EXCEPT ![c].step = "failed"]
           /\ snapshot' \in {snapshot, p} /\ unsaved' = unsaved \cup {e} /\ Fault
  /\ UNCHANGED <<event, ingests, repeated, shared>>

Save(c, e) ==
  /\ Working(c, e, "save")
  /\ LET result == command[c].result IN
     \/ /\ event' = [event EXCEPT ![e].status = IF result.ok THEN "processed" ELSE "dead",
                                  ![e].of = result.of, ![e].live = result.live]
        /\ WorkOn(c, command[c].todo) /\ Fine /\ UNCHANGED unsaved
     \/ /\ command' = [command EXCEPT ![c].step = "failed", ![c].result = Dead]
        /\ unsaved' = unsaved \cup {e} /\ Fault /\ UNCHANGED event
  /\ UNCHANGED <<snapshot, ingests, dispatched, repeated, shared>>

(* The except clause stages the event again; when it raises the command    *)
(* ends, with the rest of its events.                                      *)
StageAgain(c, e) ==
  /\ Working(c, e, "failed")
  /\ \/ event' = [event EXCEPT ![e].status = "staged"] /\ WorkOn(c, command[c].todo) /\ Fine
     \/ WorkOn(c, {}) /\ Fault /\ UNCHANGED event
  /\ UNCHANGED <<snapshot, ingests, edgeHistory>>

Killed(c) ==
  /\ ~Free(c)
  /\ WorkOn(c, {})
  /\ unsaved' = IF command[c].step = "save" THEN unsaved \cup command[c].on ELSE unsaved
  /\ Fault /\ UNCHANGED <<event, snapshot, ingests, dispatched, repeated, shared>>

-----------------------------------------------------------------------------
Next ==
  \E c \in Command :
    \/ \E e \in Event, p \in Payload, online \in BOOLEAN : Ingest(c, e, p, online)
    \/ Replay(c) \/ Killed(c)
    \/ \E e \in Event : Read(c, e) \/ Dispatch(c, e) \/ Save(c, e) \/ StageAgain(c, e)

(* A payload is dispatched once, unless it was ingested again, its result  *)
(* was not saved, or two commands had the event.                           *)
EffectsOnce ==
  \A e \in Event, p \in Payload :
    dispatched[e][p] > 1 => e \in repeated \cup unsaved \cup shared

(* An event that is processed or dead had its present payload dispatched,  *)
(* and a live result is that of this payload, unless it was ingested while *)
(* a command had it.                                                       *)
NothingLost ==
  \A e \in Event : event[e].status \in {"processed", "dead"} /\ e \notin shared =>
    /\ dispatched[e][event[e].payload] > 0
    /\ event[e].live => event[e].of = event[e].payload
=============================================================================
