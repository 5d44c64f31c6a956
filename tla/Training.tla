------------------------------ MODULE Training ------------------------------
(***************************************************************************)
(* The training of the small model (master_distillation): the caches of    *)
(* the teacher's answers (build_cache.py, dataset.py), and the runs that   *)
(* train on them (main.py, distill_ddp.py).  Two desks, one of which a     *)
(* behaviour follows: a directory for each split, built once and opened by *)
(* a run; and the output directory, which has a lock, a journal of         *)
(* metrics, the best and the last state, and the student that is           *)
(* published.  A run is its first rank: the others wait for it and raise   *)
(* with it.                                                                *)
(***************************************************************************)
EXTENDS Naturals, FiniteSets, FiniteSetsExt, Sequences

CONSTANTS
  Split,       \* the two directories of caches
  Line,        \* what the rows of the inputs say, numbers
  Builder,     \* the builds of a cache, numbers
  Trainee,     \* the runs on the output directory, numbers
  Epochs,      \* how many epochs a run trains
  Grade,       \* the accuracies, numbers
  PassMark,    \* the accuracy that the gate asks for
  MaxFaults    \* bound on failures and processes that are killed

(* Assumed of the constants, in Services.                                  *)
TrainingBounds ==
  /\ Cardinality(Split) = 2 /\ Line \subseteq Nat /\ 0 \notin Trainee
  /\ Epochs \in Nat \ {0} /\ Grade # {} /\ Grade \subseteq Nat \ {0}
  /\ PassMark \in Nat /\ MaxFaults \in Nat

VARIABLES
  bench,       \* the desk that is followed
  cache,       \* each directory: how far it is written, its rows, its input, its damage
  builder,     \* each build: its step, its directory, whether the other one is its reference
  opened,      \* the caches that a run took: the rows of each, whether it left out the check
  trainee,     \* each run: its step and what it holds
  lock,        \* the lock file: who made it, whether the process is written in it
  journal,     \* the rows of metrics
  best,        \* the best state: its epoch and accuracy
  checkpoint,  \* the last state: how many epochs it has behind it
  staging,     \* the accuracy of the student that is staged
  student,     \* what is at the student's path: nothing, a directory, a link to a version
  versions,    \* the versions that are there, by the runs that made them
  contested,   \* auxiliary: a run lost its lock to another
  faults

training == <<bench, cache, builder, opened, trainee, lock, journal, best, checkpoint, staging,
              student, versions, contested, faults>>

BuildStep == {"idle", "rows", "index", "manifest", "compare", "done", "failed", "gone"}
RunStep == {"idle", "lock", "write", "look", "unlink", "enter", "train", "row", "best",
            "checkpoint", "export", "publish", "link", "sweep", "done", "failed", "gone"}
Nobody == 0
Nothing == 0
TypeOK ==
  /\ bench \in {"cache", "run"}
  /\ cache \in [Split -> [at : {"none", "rows", "index", "sealed"}, rows : SUBSET Line,
                          input : SUBSET Line, damaged : BOOLEAN]]
  /\ builder \in [Builder -> [at : BuildStep, split : Split, reference : BOOLEAN]]
  /\ opened \subseteq [rows : [Split -> SUBSET Line], unchecked : BOOLEAN]
  /\ trainee \in [Trainee -> [at : RunStep, resume : BOOLEAN, force : BOOLEAN, tries : 0..2,
                              epoch : 0..Epochs, grade : Grade \cup {Nothing},
                              top : Grade \cup {Nothing}]]
  /\ lock \in [by : Trainee \cup {Nobody}, written : BOOLEAN]
  /\ journal \in Seq([epoch : 0..Epochs, grade : Grade])
  /\ best \in [epoch : 0..Epochs, grade : Grade \cup {Nothing}]
  /\ checkpoint \in 0..Epochs /\ staging \in Grade \cup {Nothing}
  /\ student \in [is : {"none", "plain", "link"}, by : Trainee \cup {Nobody},
                  grade : Grade \cup {Nothing}]
  /\ versions \subseteq Trainee /\ contested \in BOOLEAN /\ faults \in 0..MaxFaults

Path(is) == [is |-> is, by |-> Nobody, grade |-> Nothing]
Free == [by |-> Nobody, written |-> FALSE]
Init ==
  /\ bench \in {"cache", "run"}
  /\ cache = [s \in Split |-> [at |-> "none", rows |-> {}, input |-> {}, damaged |-> FALSE]]
  /\ builder = [b \in Builder |->
                 [at |-> "idle", split |-> CHOOSE s \in Split : TRUE, reference |-> FALSE]]
  /\ opened = {}
  /\ trainee = [r \in Trainee |-> [at |-> "idle", resume |-> FALSE, force |-> FALSE, tries |-> 0,
                                   epoch |-> 0, grade |-> Nothing, top |-> Nothing]]
  /\ lock = Free /\ journal = <<>> /\ best = [epoch |-> 0, grade |-> Nothing]
  /\ checkpoint = 0 /\ staging = Nothing /\ student \in {Path("none"), Path("plain")} /\ versions = {}
  /\ contested = FALSE /\ faults = 0

Fault == faults < MaxFaults /\ faults' = faults + 1
Caches == <<cache, builder, opened>>
Files == <<lock, journal, best, checkpoint, staging, student, versions, contested>>

-----------------------------------------------------------------------------
(* The caches.  A build makes its directory, which must not exist; then it *)
(* writes the rows, the index of what they say, and at the very end the    *)
(* manifest.                                                               *)
Other(s) == CHOOSE t \in Split : t # s
Building(b, step) == bench = "cache" /\ builder[b].at = step
Into(b) == builder[b].split
Build(b) ==
  /\ Building(b, "idle") /\ \A c \in Builder : c < b => builder[c].at # "idle"
  /\ \E s \in Split : \E input \in SUBSET Line : \E reference \in BOOLEAN :
       IF cache[s].at = "none"
       THEN /\ cache' = [cache EXCEPT ![s].at = "rows", ![s].input = input]
            /\ builder' = [builder EXCEPT
                 ![b] = [at |-> "rows", split |-> s, reference |-> reference]]
       ELSE builder' = [builder EXCEPT ![b].at = "failed"] /\ UNCHANGED cache
  /\ UNCHANGED <<bench, opened, trainee, Files, faults>>

(* The next row, or one that is not valid, which ends the build.           *)
AppendRow(b) ==
  /\ Building(b, "rows") /\ cache[Into(b)].rows # cache[Into(b)].input
  /\ \/ /\ cache' = [cache EXCEPT
             ![Into(b)].rows = @ \cup {Min(cache[Into(b)].input \ cache[Into(b)].rows)}]
        /\ UNCHANGED <<builder, faults>>
     \/ builder' = [builder EXCEPT ![b].at = "failed"] /\ Fault /\ UNCHANGED cache
  /\ UNCHANGED <<bench, opened, trainee, Files>>
Close(b) ==
  /\ Building(b, "rows") /\ cache[Into(b)].rows = cache[Into(b)].input
  /\ builder' = [builder EXCEPT ![b].at = IF cache[Into(b)].rows = {} THEN "failed" ELSE "index"]
  /\ UNCHANGED <<bench, cache, opened, trainee, Files, faults>>
Sidecar(b) ==
  /\ Building(b, "index")
  /\ cache' = [cache EXCEPT ![Into(b)].at = "index"]
  /\ builder' = [builder EXCEPT ![b].at = "manifest"]
  /\ UNCHANGED <<bench, opened, trainee, Files, faults>>
Manifest(b) ==
  /\ Building(b, "manifest")
  /\ cache' = [cache EXCEPT ![Into(b)].at = "sealed"]
  /\ builder' = [builder EXCEPT ![b].at = IF builder[b].reference THEN "compare" ELSE "done"]
  /\ UNCHANGED <<bench, opened, trainee, Files, faults>>

(* A reference is compared when the cache is sealed, which it stays.       *)
Readable(s) == cache[s].at = "sealed" /\ ~cache[s].damaged
Overlap == \E s \in Split : cache[s].rows \cap cache[Other(s)].rows # {}
Compare(b) ==
  /\ Building(b, "compare")
  /\ builder' = [builder EXCEPT
       ![b].at = IF Readable(Other(Into(b))) /\ ~Overlap THEN "done" ELSE "failed"]
  /\ UNCHANGED <<bench, cache, opened, trainee, Files, faults>>
BuildKilled(b) ==
  /\ bench = "cache" /\ builder[b].at \in {"rows", "index", "manifest", "compare"} /\ Fault
  /\ builder' = [builder EXCEPT ![b].at = "gone"]
  /\ UNCHANGED <<bench, cache, opened, trainee, Files>>

(* The bytes of a cache change after it was sealed.                        *)
Damage(s) ==
  /\ bench = "cache" /\ cache[s].at = "sealed" /\ ~cache[s].damaged /\ Fault
  /\ cache' = [cache EXCEPT ![s].damaged = TRUE]
  /\ UNCHANGED <<bench, builder, opened, trainee, Files>>

(* A run opens both: each has its manifest and the bytes that it tells of, *)
(* the two are not of one source, and unless told otherwise it looks for   *)
(* rows that are in both.                                                  *)
Open ==
  /\ bench = "cache" /\ opened = {}
  /\ \A s \in Split : Readable(s) /\ cache[s].input # cache[Other(s)].input
  /\ \E unchecked \in BOOLEAN :
       /\ unchecked \/ ~Overlap
       /\ opened' = {[rows |-> [s \in Split |-> cache[s].rows], unchecked |-> unchecked]}
  /\ UNCHANGED <<bench, cache, builder, trainee, Files, faults>>

-----------------------------------------------------------------------------
(* The lock.  The file is made and then written; who finds it looks who    *)
(* made it, and removes it when that process is gone, when the file says   *)
(* nothing, or when told to.                                               *)
At(r, step) == bench = "run" /\ trainee[r].at = step
Goto(r, step) == trainee' = [trainee EXCEPT ![r].at = step]
Alive(r) == trainee[r].at \notin {"idle", "done", "failed", "gone"}
Holds(r) == Alive(r) /\ trainee[r].at \notin {"lock", "look", "unlink"}

(* What a run makes of its caches before the lock: the model must have the *)
(* tokenizer, the classes, the positions and the layers that they tell of. *)
Prepared(fits) == IF fits THEN "lock" ELSE "failed"
Begin(r) ==
  /\ At(r, "idle") /\ \A q \in Trainee : q < r => trainee[q].at # "idle"
  /\ \E resume, force, fits \in BOOLEAN :
       trainee' = [trainee EXCEPT ![r].at = Prepared(fits), ![r].resume = resume,
                                  ![r].force = force]
  /\ UNCHANGED <<bench, Caches, Files, faults>>
Create(r) ==
  /\ At(r, "lock")
  /\ IF lock = Free
     THEN lock' = [by |-> r, written |-> FALSE] /\ Goto(r, "write")
     ELSE Goto(r, "look") /\ UNCHANGED lock
  /\ UNCHANGED <<bench, Caches, journal, best, checkpoint, staging, student, versions, contested,
                 faults>>
Sign(r) ==
  /\ At(r, "write") /\ Goto(r, "enter")
  /\ lock' = IF lock.by = r THEN [lock EXCEPT !.written = TRUE] ELSE lock
  /\ UNCHANGED <<bench, Caches, journal, best, checkpoint, staging, student, versions, contested,
                 faults>>
Held(r) == lock.written /\ Alive(lock.by) /\ ~trainee[r].force
Look(r) ==
  /\ At(r, "look")
  /\ Goto(r, IF Held(r) THEN "failed" ELSE "unlink")
  /\ UNCHANGED <<bench, Caches, Files, faults>>

(* It is the path that is removed, whoever's file is there by now; two     *)
(* removals without a lock are the end of the run.                         *)
Unlink(r) ==
  /\ At(r, "unlink") /\ lock' = Free
  /\ contested' = (contested \/ (lock.by # Nobody /\ Holds(lock.by)))
  /\ trainee' = [trainee EXCEPT ![r].tries = @ + 1,
                                ![r].at = IF trainee[r].tries = 1 THEN "failed" ELSE "lock"]
  /\ UNCHANGED <<bench, Caches, journal, best, checkpoint, staging, student, versions, faults>>

-----------------------------------------------------------------------------
(* The run.  A journal that is there stops one that does not resume, which *)
(* leaves its lock; one that resumes goes on after the last state, drops   *)
(* the rows of later epochs, and keeps the best state as it is.            *)
Release == lock' = Free

(* The last state is of use to a run with the same data, model and         *)
(* arguments only.                                                         *)
Restores(same) == same /\ checkpoint > 0
Enter(r) ==
  /\ At(r, "enter")
  /\ \/ /\ journal # <<>> /\ ~trainee[r].resume
        /\ Goto(r, "failed") /\ UNCHANGED <<lock, journal>>
     \/ /\ trainee[r].resume /\ \E same \in BOOLEAN : ~Restores(same)
        /\ Goto(r, "failed") /\ Release /\ UNCHANGED journal
     \/ /\ trainee[r].resume \/ journal = <<>>
        /\ trainee[r].resume => Restores(TRUE)
        /\ LET start == IF trainee[r].resume THEN checkpoint ELSE 0
           IN /\ trainee' = [trainee EXCEPT
                   ![r].at = IF start < Epochs THEN "train" ELSE "export",
                   ![r].epoch = start, ![r].top = best.grade]
              /\ journal' = IF trainee[r].resume
                            THEN SelectSeq(journal, LAMBDA row : row.epoch <= start)
                            ELSE journal
        /\ UNCHANGED lock
  /\ UNCHANGED <<bench, Caches, best, checkpoint, staging, student, versions, contested, faults>>

(* An epoch: the training and its evaluation, where a gradient that is not *)
(* finite ends all ranks; the row of the journal; the best state, if this  *)
(* one is better than the run has known; the last state.                   *)
Evaluate(r) ==
  \E grade \in Grade : trainee' = [trainee EXCEPT ![r].at = "row", ![r].grade = grade]
Train(r) ==
  /\ At(r, "train")
  /\ \/ /\ Evaluate(r)
        /\ UNCHANGED <<lock, faults>>
     \/ Goto(r, "failed") /\ Release /\ Fault
  /\ UNCHANGED <<bench, Caches, journal, best, checkpoint, staging, student, versions, contested>>
Row(r) ==
  /\ At(r, "row") /\ Goto(r, "best")
  /\ journal' = Append(journal, [epoch |-> trainee[r].epoch + 1, grade |-> trainee[r].grade])
  /\ UNCHANGED <<bench, Caches, lock, best, checkpoint, staging, student, versions, contested,
                 faults>>
Better(r) == trainee[r].grade > trainee[r].top
Best(r) ==
  /\ At(r, "best")
  /\ trainee' = [trainee EXCEPT ![r].at = "checkpoint",
                                ![r].top = IF Better(r) THEN trainee[r].grade ELSE @]
  /\ best' = IF Better(r) THEN [epoch |-> trainee[r].epoch + 1, grade |-> trainee[r].grade]
             ELSE best
  /\ UNCHANGED <<bench, Caches, lock, journal, checkpoint, staging, student, versions, contested,
                 faults>>
Checkpoint(r) ==
  /\ At(r, "checkpoint") /\ checkpoint' = trainee[r].epoch + 1
  /\ trainee' = [trainee EXCEPT ![r].epoch = @ + 1,
                                ![r].at = IF trainee[r].epoch + 1 < Epochs THEN "train"
                                          ELSE "export"]
  /\ UNCHANGED <<bench, Caches, lock, journal, best, staging, student, versions, contested, faults>>

(* The best state is exported if it passes the gate.                       *)
Passes(grade) == grade >= PassMark
Export(r) ==
  /\ At(r, "export")
  /\ IF best.grade # Nothing /\ Passes(best.grade)
     THEN Goto(r, "publish") /\ staging' = best.grade /\ UNCHANGED lock
     ELSE Goto(r, "failed") /\ Release /\ UNCHANGED staging
  /\ UNCHANGED <<bench, Caches, journal, best, checkpoint, student, versions, contested, faults>>

(* It is published as a version of its own, to which the link is turned; a *)
(* plain directory at the path is first put aside, and other versions are  *)
(* removed at the end.                                                     *)
Publish(r) ==
  /\ At(r, "publish")
  /\ IF staging = Nothing
     THEN Goto(r, "failed") /\ Release /\ UNCHANGED <<student, versions, staging>>
     ELSE /\ trainee' = [trainee EXCEPT ![r].at = "link", ![r].grade = staging]
          /\ student' = IF student.is = "plain" THEN Path("none") ELSE student
          /\ versions' = versions \cup {r} /\ staging' = Nothing /\ UNCHANGED lock
  /\ UNCHANGED <<bench, Caches, journal, best, checkpoint, contested, faults>>
Link(r) ==
  /\ At(r, "link") /\ Goto(r, "sweep")
  /\ student' = [is |-> "link", by |-> r, grade |-> trainee[r].grade]
  /\ UNCHANGED <<bench, Caches, lock, journal, best, checkpoint, staging, versions, contested,
                 faults>>
SweepVersions(r) ==
  /\ At(r, "sweep") /\ Goto(r, "done") /\ Release
  /\ versions' = versions \cap {r} /\ staging' = Nothing
  /\ UNCHANGED <<bench, Caches, journal, best, checkpoint, student, contested, faults>>
Killed(r) ==
  /\ bench = "run" /\ Alive(r) /\ Fault /\ Goto(r, "gone")
  /\ UNCHANGED <<bench, Caches, Files>>

Next ==
  \/ \E b \in Builder : Build(b) \/ AppendRow(b) \/ Close(b) \/ Sidecar(b) \/ Manifest(b)
                        \/ Compare(b) \/ BuildKilled(b)
  \/ \E s \in Split : Damage(s)
  \/ Open
  \/ \E r \in Trainee : ~contested /\
       \/ Begin(r) \/ Create(r) \/ Sign(r) \/ Look(r) \/ Unlink(r) \/ Enter(r) \/ Train(r)
       \/ Row(r) \/ Best(r) \/ Checkpoint(r) \/ Export(r) \/ Publish(r) \/ Link(r) \/ SweepVersions(r)
       \/ Killed(r)

-----------------------------------------------------------------------------
(* Two runs work in the output only when one was told to take the lock,    *)
(* found it before it was written, or removed the file that took the place *)
(* of the one it had looked at; and unless that happened the journal has   *)
(* one row of each epoch, in order, up to the last state and the epoch     *)
(* that follows it.                                                        *)
EffectsOnce ==
  contested \/
    /\ Cardinality({r \in Trainee : Holds(r)}) <= 1
    /\ \A i \in 1..Len(journal) : journal[i].epoch = i
    /\ Len(journal) \in checkpoint..(checkpoint + 1)

(* A sealed cache has every row of its input; and what a run took were two *)
(* such caches, which no row is in both of unless it was told not to look. *)
(* While no lock was lost: the best state is as good as every row that the *)
(* last state covers, and the student's path leads to a version that       *)
(* passed the gate, or, before the first of them, to what was there.       *)
NothingLost ==
  /\ \A s \in Split : cache[s].at = "sealed" => cache[s].rows = cache[s].input
  /\ \A o \in opened : \A s \in Split :
       o.rows[s] # {} /\ (o.rows[s] \cap o.rows[Other(s)] = {} \/ o.unchecked)
  /\ contested \/
       /\ \A i \in 1..checkpoint : best.grade >= journal[i].grade
       /\ student.is = "link" => (student.by \in versions /\ Passes(student.grade))
       /\ student.is = "none" /\ versions # {} =>
            \E r \in Trainee : trainee[r].at \in {"link", "gone"}
=============================================================================
