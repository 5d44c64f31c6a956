----------------------------- MODULE Rendering -----------------------------
(***************************************************************************)
(* The renders of FYE packages: FyeOrchestrator.run (runtime/fye/          *)
(* orchestrator.py) with its agents (agents.py), the hash-chained          *)
(* DecisionJournal they share (journal.py), the video engine they fall     *)
(* back to (runtime/eaos/video_engine.py), and the worker that ends a      *)
(* render that takes too long (scripts/fye_worker.py).  A step is what an  *)
(* agent does before its journal entry, an operation on the journal's      *)
(* lock, or one ffmpeg.                                                    *)
(***************************************************************************)
EXTENDS Naturals, Sequences, FiniteSets, SequencesExt

CONSTANTS
  Render,       \* the renders, numbers in the order they begin
  Package,      \* the packages they are of, numbers in the order they are begun
  HeadStart,    \* bound on overlaps: the agent that a render has reached when the next one begins
  MaxFaults     \* bound on agents that raise and renders that are ended

(* Assumed of the constants, in Services.                                  *)
RenderBounds ==
  Render \subseteq Nat \ {0} /\ Package \subseteq Nat \ {0} /\ {HeadStart, MaxFaults} \subseteq Nat

VARIABLES
  render,       \* the renders: what the run keeps
  hand,         \* the threads of each render: the agent it runs, the entry it appends
  lock,         \* the thread that has the lock of the journal
  entries,      \* the journal: the entries of each render, none of which it makes twice
  chained,      \* verify_chain
  film,         \* the masters of each package: the render whose scenes they show, or 0
  clips,        \* the scenes of the video engine, one file for each number: whose they are
  orphan,       \* the ffmpeg processes of renders that were ended: the file and what they show
  approval,     \* Command OS: the render whose request made the package's approval, or 0
  faults,       \* what the bound counts
  fellBack      \* auxiliary: the renders that fell back to the video engine

rendering == <<render, hand, lock, entries, chained, film, clips, orphan, approval, fellBack>>

(* FyeOrchestrator.agents; the stills and the voiceover run at once.       *)
Agents == <<{"research"}, {"script"}, {"shots"}, {"stills", "voiceover"}, {"assembly"},
            {"compliance"}, {"publish_gate"}>>
Thread == {"main", "stills", "voiceover"}
Kind == {"composed", "engine"}
Supervisor == "orchestrator"

Idle == [step |-> "idle", entry |-> <<Supervisor, "none">>, seen |-> 0]
Off == [step |-> "off", package |-> CHOOSE p \in Package : TRUE, at |-> 0, master |-> "composed",
        exists |-> FALSE, shows |-> 0, status |-> "none"]
Over == {"ok", "blocked", "failed", "ended"}

TypeOK ==
  /\ \A r \in Render :
       /\ render[r].step \in {"off", "agents"} \cup Over /\ render[r].package \in Package
       /\ render[r].at \in 0..Len(Agents) /\ render[r].master \in Kind
       /\ render[r].status \in {"none", "pending_human_decision", "unsubmitted"}
       /\ render[r].shows \in Render \cup {0}
       /\ render[r].step = "agents" <=> \E t \in Thread : hand[r][t].step # "idle"
       /\ \A t \in Thread :
            /\ hand[r][t].step \in {"idle", "run", "clips", "compose", "compile", "append", "write", "done"}
            /\ hand[r][t].step = "write" <=> lock = <<r, t>>
  /\ \A p \in Package : approval[p] \in Render \cup {0} /\ \A k \in Kind : film[p][k] \in Render \cup {0}
  /\ clips \in Render \cup {0} /\ orphan \subseteq (Package \X Kind \X Render) /\ fellBack \subseteq Render
  /\ faults \in 0..MaxFaults

NoLock == <<0, "main">>
Init ==
  /\ render = [r \in Render |-> Off] /\ hand = [r \in Render |-> [t \in Thread |-> Idle]]
  /\ lock = NoLock /\ entries = [r \in Render |-> {}] /\ chained = TRUE
  /\ film = [p \in Package |-> [k \in Kind |-> 0]] /\ clips = 0 /\ orphan = {}
  /\ approval = [p \in Package |-> 0] /\ faults = 0 /\ fellBack = {}

Fine == UNCHANGED faults
Fault == faults < MaxFaults /\ faults' = faults + 1
At(r, t, step) == render[r].step = "agents" /\ hand[r][t].step = step
PackageOf(r) == render[r].package
Files == UNCHANGED <<film, clips, orphan, approval, fellBack>>
Journal == UNCHANGED <<lock, entries, chained>>

Appends(who, what) == [Idle EXCEPT !.step = "append", !.entry = <<who, what>>]
Runs == [Idle EXCEPT !.step = "run"]
(* The agent a thread runs.                                                *)
Agent(r, t) == IF t = "main" THEN CHOOSE a \in Agents[render[r].at] : TRUE ELSE t

-----------------------------------------------------------------------------
(* A render begins: the worker's job has one at a time, a topic's package  *)
(* is its own.                                                             *)
Begin(r) ==
  /\ render[r].step = "off"
  /\ \A s \in Render : s < r => render[s].step \in Over \/ render[s].at >= HeadStart
  /\ \E p \in Package :
       /\ \A q \in Package : q < p => \E s \in Render : render[s].step # "off" /\ PackageOf(s) = q
       /\ \A s \in Render : render[s].step = "agents" => PackageOf(s) # p
       /\ render' = [render EXCEPT ![r] = [Off EXCEPT !.step = "agents", !.package = p]]
  /\ hand' = [hand EXCEPT ![r]["main"] = Appends(Supervisor, "package.started")]
  /\ Fine /\ Journal /\ Files

(* An agent returns or raises; those with steps of their own are below.    *)
(* The others keep nothing but their result, and have run when the lock of *)
(* the journal is theirs.                                                  *)
Length == FoldLeft(LAMBDA n, r : n + Cardinality(entries[r]), 0, SetToSeq(Render))
Take(r, t, entry) ==
  /\ lock = NoLock /\ lock' = <<r, t>>
  /\ hand' = [hand EXCEPT ![r][t] = [step |-> "write", entry |-> entry, seen |-> Length]]
Written == {"research", "script", "shots"}
(* For each shot a clip of stock, a still, or a card, which always works.  *)
Pictured == {"stills"}
(* A voice, another voice, or silence.                                     *)
Voiced == {"voiceover"}
Simple(r, t) == Agent(r, t) \in Written \cup Pictured \cup Voiced
RunAgent(r, t) ==
  /\ At(r, t, "run") /\ Simple(r, t) /\ Take(r, t, <<Agent(r, t), "agent.completed">>)
  /\ Fine /\ Files /\ UNCHANGED <<render, entries, chained>>
Completes(r, t) == hand' = [hand EXCEPT ![r][t] = Appends(Agent(r, t), "agent.completed")]
AgentRaises(r, t) ==
  /\ At(r, t, "run") \/ At(r, t, "clips") \/ At(r, t, "compose") \/ At(r, t, "compile")
  /\ hand' = [hand EXCEPT ![r][t] = Appends(Agent(r, t), "agent.failed")]
  /\ Fault /\ Journal /\ Files /\ UNCHANGED render

(* AssemblyAgent: the scenes are stitched and composed, or the video       *)
(* engine renders the scenes and compiles them, whose success is that the  *)
(* file is there.                                                          *)
Goto(r, step) == hand' = [hand EXCEPT ![r]["main"] = [Idle EXCEPT !.step = step]]
FallBack(r) == Goto(r, "clips") /\ fellBack' = fellBack \cup {r}
\* The scenes of a package are files of its own; what is left of them is stitched.
Stitched == {"stitched", "failed"}
Stitch(r) ==
  /\ At(r, "main", "run") /\ Agent(r, "main") = "assembly"
  /\ \E outcome \in Stitched :
       IF outcome = "stitched" THEN Goto(r, "compose") /\ UNCHANGED fellBack ELSE FallBack(r)
  /\ Fine /\ Journal /\ UNCHANGED <<render, film, clips, orphan, approval>>
Compose(r) ==
  /\ At(r, "main", "compose")
  /\ \/ /\ film' = [film EXCEPT ![PackageOf(r)]["composed"] = r]
        /\ render' = [render EXCEPT ![r].master = "composed", ![r].exists = TRUE]
        /\ Completes(r, "main") /\ UNCHANGED fellBack
     \/ FallBack(r) /\ UNCHANGED <<render, film>>
  /\ Fine /\ Journal /\ UNCHANGED <<clips, orphan, approval>>
\* A scene is rendered by the GPU's service or as slides, or its old file is left.
SceneFiles(r) == {r, clips}
RenderScenes(r) ==
  /\ At(r, "main", "clips") /\ Goto(r, "compile") /\ clips' \in SceneFiles(r)
  /\ Fine /\ Journal /\ UNCHANGED <<render, film, orphan, approval, fellBack>>
CompileMaster(r) ==
  /\ At(r, "main", "compile")
  /\ \/ clips # 0 /\ film' = [film EXCEPT ![PackageOf(r)]["engine"] = clips]
     \/ UNCHANGED film
  /\ render' = [render EXCEPT ![r].master = "engine", ![r].exists = film'[PackageOf(r)]["engine"] # 0]
  /\ Completes(r, "main")
  /\ Fine /\ Journal /\ UNCHANGED <<clips, orphan, approval, fellBack>>

(* ComplianceAgent: the description always has its disclosure.             *)
Comply(r) ==
  /\ At(r, "main", "run") /\ Agent(r, "main") = "compliance" /\ Completes(r, "main")
  /\ render' = [render EXCEPT ![r].shows = film[PackageOf(r)][render[r].master]]
  /\ Fine /\ Journal /\ Files
(* PublishGateAgent: the manifest, and request_publish_approval under the  *)
(* package's key, which Command OS takes once.  The package is completed   *)
(* whatever the answer.                                                    *)
Gate(r) ==
  /\ At(r, "main", "run") /\ Agent(r, "main") = "publish_gate" /\ Completes(r, "main")
  /\ \E heard \in BOOLEAN, taken \in BOOLEAN :
       /\ heard => taken
       /\ render' = [render EXCEPT ![r].status = IF heard THEN "pending_human_decision" ELSE "unsubmitted"]
       /\ approval' = [approval EXCEPT ![PackageOf(r)] = IF taken /\ @ = 0 THEN r ELSE @]
  /\ Fine /\ Journal /\ UNCHANGED <<film, clips, orphan, fellBack>>

-----------------------------------------------------------------------------
(* DecisionJournal.append: the last hash is read and the entry written     *)
(* under the lock of the file.                                             *)
Acquire(r, t) ==
  /\ At(r, t, "append") /\ Take(r, t, hand[r][t].entry)
  /\ Fine /\ Files /\ UNCHANGED <<render, entries, chained>>

(* What the run does after an entry.                                       *)
Ends(r, step) ==
  /\ render' = [render EXCEPT ![r].step = step]
  /\ hand' = [hand EXCEPT ![r] = [t \in Thread |-> Idle]]
Starts(r, at) ==
  /\ render' = [render EXCEPT ![r].at = at]
  /\ hand' = [hand EXCEPT ![r] = [t \in Thread |->
       IF t \in Agents[at] \/ (t = "main" /\ Agents[at] \cap Thread = {}) THEN Runs ELSE Idle]]
AfterCompletion(r) ==
  LET agent == Agent(r, "main") IN
  \/ /\ agent = "compliance" /\ ~render[r].exists /\ UNCHANGED render
     /\ hand' = [hand EXCEPT ![r]["main"] = Appends(Supervisor, "package.blocked")]
  \/ /\ agent = "publish_gate" /\ UNCHANGED render
     /\ hand' = [hand EXCEPT ![r]["main"] = Appends(Supervisor, "package.completed")]
  \/ agent # "publish_gate" /\ (agent = "compliance" => render[r].exists) /\ Starts(r, render[r].at + 1)
Continue(r, t, what) ==
  \/ t # "main" /\ hand' = [hand EXCEPT ![r][t].step = "done"] /\ UNCHANGED render
  \/ what = "package.started" /\ Starts(r, 1)
  \/ what = "package.completed" /\ Ends(r, "ok")
  \/ what = "package.blocked" /\ Ends(r, "blocked")
  \/ t = "main" /\ what = "agent.failed" /\ Ends(r, "failed")
  \/ t = "main" /\ what = "agent.completed" /\ AfterCompletion(r)
Write(r, t) ==
  /\ At(r, t, "write") /\ lock' = NoLock
  /\ entries' = [entries EXCEPT ![r] = @ \cup {hand[r][t].entry}]
  /\ chained' = (chained /\ hand[r][t].seen = Length)
  /\ Continue(r, t, hand[r][t].entry[2])
  /\ Fine /\ Files

(* Both threads of the pool are done.                                      *)
Failed(r, t) == hand[r][t].entry[2] = "agent.failed"
Join(r) ==
  /\ At(r, "stills", "done") /\ At(r, "voiceover", "done")
  /\ IF Failed(r, "stills") \/ Failed(r, "voiceover") THEN Ends(r, "failed")
     ELSE Starts(r, render[r].at + 1)
  /\ Fine /\ Journal /\ Files

-----------------------------------------------------------------------------
(* _render_killable: the process is terminated, and what it waited for     *)
(* goes on: an ffmpeg writes its file when it is done.                     *)
Writing(r) ==
  IF At(r, "main", "compose") THEN {<<PackageOf(r), "composed", r>>}
  ELSE IF At(r, "main", "compile") /\ clips # 0 THEN {<<PackageOf(r), "engine", clips>>} ELSE {}
Terminate(r) ==
  /\ render[r].step = "agents" /\ Fault /\ Ends(r, "ended")
  /\ lock' = IF lock[1] = r THEN NoLock ELSE lock
  /\ orphan' = orphan \cup Writing(r)
  /\ UNCHANGED <<entries, chained, film, clips, approval, fellBack>>
OrphanWrites(o) ==
  /\ o \in orphan /\ orphan' = orphan \ {o}
  /\ film' = [film EXCEPT ![o[1]][o[2]] = o[3]]
  /\ Fine /\ Journal /\ UNCHANGED <<render, hand, clips, approval, fellBack>>

Next ==
  \/ \E r \in Render :
       \/ Begin(r) \/ Stitch(r) \/ Compose(r) \/ RenderScenes(r) \/ CompileMaster(r) \/ Comply(r)
       \/ Gate(r) \/ Join(r) \/ Terminate(r)
       \/ \E t \in Thread : RunAgent(r, t) \/ AgentRaises(r, t) \/ Acquire(r, t) \/ Write(r, t)
  \/ \E o \in orphan : OrphanWrites(o)

-----------------------------------------------------------------------------
(* Whatever the renders and threads that append, the journal is one chain; *)
(* a film that passes shows its own scenes, unless it fell back to the     *)
(* video engine or an ffmpeg outlived its render; and an approval is asked *)
(* for only after every agent before the gate has completed.               *)
Logged(r, who, what) == <<who, what>> \in entries[r]
EffectsOnce ==
  /\ chained
  /\ \A r \in Render :
       render[r].shows \notin {0, r} => r \in fellBack \/ \E s \in Render : render[s].step = "ended"
  /\ \A p \in Package : approval[p] # 0 =>
       /\ render[approval[p]].exists
       /\ \A i \in 1..(Len(Agents) - 1) : \A a \in Agents[i] : Logged(approval[p], a, "agent.completed")

(* A run that returned left its outcome in the journal, and one that is *)
(* completed left one of each agent; a request that was taken is told as   *)
(* pending to at most those that heard it.                                 *)
NothingLost ==
  \A r \in Render :
    /\ render[r].step = "ok" =>
         /\ Logged(r, Supervisor, "package.completed") /\ render[r].shows # 0
         /\ \A i \in DOMAIN Agents : \A a \in Agents[i] : Logged(r, a, "agent.completed")
         /\ render[r].status = "pending_human_decision" => approval[PackageOf(r)] # 0
    /\ render[r].step = "blocked" =>
         Logged(r, Supervisor, "package.blocked") /\ approval[PackageOf(r)] # r
    /\ render[r].step = "failed" => \E e \in entries[r] : e[2] = "agent.failed"
=============================================================================
