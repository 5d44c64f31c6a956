---------------------------- MODULE Distillation ----------------------------
(***************************************************************************)
(* The cycles of an agent of the backend (execute_agent of                 *)
(* backend/server.py) and the distiller they run through                   *)
(* (backend/services/distillation.py): a cheap model, an expensive one     *)
(* behind it, and a cache for each.  All cycles of an agent ask the same   *)
(* prompt.  A step is one operation of the database or one call of a       *)
(* model.                                                                  *)
(***************************************************************************)
EXTENDS Naturals

CONSTANTS
  Run,          \* the cycles, numbers
  MaxFaults     \* bound on operations that raise, processes that end and entries that expire

VARIABLES
  cache,        \* distillation_cache: the entry of each tier
  row,          \* agent_runs: the status of each cycle
  accounted,    \* distillation_runs: the tier each cycle was accounted under
  run,          \* the cycles: the step, and the tier that answered
  faults,       \* what the bound counts
  answers,      \* auxiliary: how many answers fit for the cache each tier was paid for, up to 2
  paid,         \* auxiliary: the tier a cycle paid for its result
  met,          \* auxiliary: two cycles were under way at once
  interrupted,  \* auxiliary: cycles in which an operation raised or the process ended
  stale         \* auxiliary: an entry expired, or could not be stored

distilling == <<cache, row, accounted, run, answers, paid, met, interrupted, stale>>

(* The prompt being one, the tier is what tells two keys of the cache apart. *)
Tier == {"cheap", "expensive"}

TypeOK ==
  /\ cache \in [Tier -> {"none", "fresh", "expired"}]
  /\ row \in [Run -> {"none", "queued", "completed", "errored"}]
  /\ accounted \in [Run -> Tier \cup {"none", "cache"}]
  /\ \A r \in Run :
       /\ run[r].step \in {"off", "look", "delete", "call", "store", "account", "persist", "done"}
       /\ run[r].tier \in Tier \cup {"cache", "error"}
       /\ run[r].step \in {"look", "delete", "call", "store"} => run[r].tier \in Tier
       /\ run[r].step \in {"off", "done"} \/ row[r] = "queued"
  /\ faults \in 0..MaxFaults /\ answers \in [Tier -> 0..2] /\ paid \in [Run -> Tier \cup {"none"}]
  /\ met \in BOOLEAN /\ interrupted \subseteq Run /\ stale \in BOOLEAN

Init ==
  /\ cache = [t \in Tier |-> "none"] /\ row = [r \in Run |-> "none"]
  /\ accounted = [r \in Run |-> "none"]
  /\ run = [r \in Run |-> [step |-> "off", tier |-> "cheap"]]
  /\ faults = 0 /\ answers = [t \in Tier |-> 0] /\ paid = [r \in Run |-> "none"]
  /\ met = FALSE /\ interrupted = {} /\ stale = FALSE

UnderWay(r) == run[r].step \notin {"off", "done"}
Goto(r, step) == run' = [run EXCEPT ![r].step = step]
Switch(r, step, tier) == run' = [run EXCEPT ![r] = [step |-> step, tier |-> tier]]
Fine == UNCHANGED <<faults, interrupted>>
Paying == UNCHANGED <<answers, paid, stale>>

-----------------------------------------------------------------------------
(* The row is inserted first.  The cycles are alike.                       *)
Execute(r) ==
  /\ run[r].step = "off" /\ \A q \in Run : q < r => run[q].step # "off"
  /\ Goto(r, "look") /\ row' = [row EXCEPT ![r] = "queued"]
  /\ met' = (met \/ \E q \in Run : UnderWay(q))
  /\ Fine /\ Paying /\ UNCHANGED <<cache, accounted>>

(* _cache_get: an entry past its time is deleted, in a second operation.   *)
Look(r) ==
  /\ run[r].step = "look"
  /\ CASE cache[run[r].tier] = "fresh" -> Switch(r, "account", "cache")
       [] cache[run[r].tier] = "expired" -> Goto(r, "delete")
       [] cache[run[r].tier] = "none" -> Goto(r, "call")
  /\ Fine /\ Paying /\ UNCHANGED <<cache, row, accounted, met>>
Delete(r) ==
  /\ run[r].step = "delete" /\ Goto(r, "call")
  /\ cache' = [cache EXCEPT ![run[r].tier] = "none"]
  /\ Fine /\ Paying /\ UNCHANGED <<row, accounted, met>>

(* _try_cheap and _run_expensive: an answer that is JSON, and in which the *)
(* cheap model does not ask for an expert, is stored.  Without one the     *)
(* cheap tier is left for the expensive one, which answers whatever it     *)
(* has, an error included.                                                 *)
Call(r) ==
  /\ run[r].step = "call"
  /\ LET t == run[r].tier IN
     \/ /\ Goto(r, "store")
        /\ answers' = [answers EXCEPT ![t] = IF @ < 2 THEN @ + 1 ELSE 2]
        /\ paid' = [paid EXCEPT ![r] = t]
     \/ t = "cheap" /\ Switch(r, "look", "expensive") /\ UNCHANGED <<answers, paid>>
     \/ t = "expensive" /\ Goto(r, "account") /\ paid' = [paid EXCEPT ![r] = t] /\ UNCHANGED answers
  /\ Fine /\ UNCHANGED <<cache, row, accounted, met, stale>>

(* _cache_put *)
Store(r) ==
  /\ run[r].step = "store" /\ Goto(r, "account")
  /\ cache' = [cache EXCEPT ![run[r].tier] = "fresh"]
  /\ Fine /\ Paying /\ UNCHANGED <<row, accounted, met>>
(* _record_run *)
Account(r) ==
  /\ run[r].step = "account" /\ Goto(r, "persist")
  /\ accounted' = [accounted EXCEPT ![r] = run[r].tier]
  /\ Fine /\ Paying /\ UNCHANGED <<cache, row, met>>
Persist(r) ==
  /\ run[r].step = "persist" /\ Goto(r, "done")
  /\ row' = [row EXCEPT ![r] = IF run[r].tier = "error" THEN "errored" ELSE "completed"]
  /\ Fine /\ Paying /\ UNCHANGED <<cache, accounted, met>>

-----------------------------------------------------------------------------
Fault == faults < MaxFaults /\ faults' = faults + 1
Upset(r) ==
  Fault /\ interrupted' = interrupted \cup {r} /\ UNCHANGED <<cache, row, accounted, answers, paid, met>>

(* An operation of the distiller raises: the cycle is stored as errored.   *)
Raise(r) ==
  /\ run[r].step \in {"look", "delete", "store", "account"}
  /\ Switch(r, "persist", "error") /\ stale' = (stale \/ run[r].step = "store") /\ Upset(r)
(* The process ends, or the last update raises: the row stays queued.      *)
Die(r) ==
  /\ UnderWay(r)
  /\ Goto(r, "done") /\ stale' = (stale \/ run[r].step = "store") /\ Upset(r)
Expire(t) ==
  /\ cache[t] = "fresh" /\ cache' = [cache EXCEPT ![t] = "expired"] /\ stale' = TRUE
  /\ Fault /\ UNCHANGED <<row, accounted, run, answers, paid, met, interrupted>>

Next ==
  \/ \E r \in Run :
       \/ Execute(r) \/ Look(r) \/ Delete(r) \/ Call(r) \/ Store(r) \/ Account(r) \/ Persist(r)
       \/ Raise(r) \/ Die(r)
  \/ \E t \in Tier : Expire(t)

-----------------------------------------------------------------------------
(* A tier is paid once for an answer that can be cached, unless cycles     *)
(* were under way at once, or an entry expired or was not stored.          *)
EffectsOnce == \A t \in Tier : answers[t] > 1 => met \/ stale

(* A cycle stays queued, is errored, or is not accounted under the tier it *)
(* paid for, only when it was interrupted.                                 *)
NothingLost ==
  \A r \in Run :
    /\ row[r] = "queued" => UnderWay(r) \/ r \in interrupted
    /\ row[r] = "errored" => r \in interrupted
    /\ row[r] = "completed" => accounted[r] = IF paid[r] = "none" THEN "cache" ELSE paid[r]
    /\ row[r] # "none" /\ ~UnderWay(r) /\ paid[r] # "none" =>
         accounted[r] = paid[r] \/ r \in interrupted
=============================================================================
