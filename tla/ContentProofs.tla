---------------------------- MODULE ContentProofs ----------------------------
(* Proofs about Content: the daily run, the weekly runs beside it, and what *)
(* they leave in the content repository and in the channels.                *)
EXTENDS Content, TLAPS

-----------------------------------------------------------------------------
(* Types.                                                                  *)

RunType ==
  [step : RunStep, force : BOOLEAN, healing : BOOLEAN, scheduled : BOOLEAN, date : Day,
   slug : Slug \cup {NoSlug}, canonical : BOOLEAN, todo : SUBSET Channel]
WeekType ==
  [step : WeekStep, nth : 1..(Len(Syndicated) + 1), out : SUBSET Slug, todo : SUBSET Slug,
   have : SUBSET Slug, map : SUBSET (Channel \X Slug)]

(* From the draft on, a run works on an article.                           *)
Working == {"gate", "duplicates", "publish", "drain", "announce", "channels"}
HasArticle == run.step \in Working => run.slug \in Slug

(* A weekly run posts to one of its channels.                              *)
HasChannel == \A w \in Weekly : weekly[w].step = "posting" => weekly[w].nth <= Len(Syndicated)

TypeInv == TypeOK /\ HasArticle /\ HasChannel

(* What each variable of the daily run may hold, apart from its record.    *)
RestTypes ==
  /\ day \in Day /\ plan \in Plans /\ posts \subseteq Post
  /\ copies \in [Channel -> [Slug -> 0..2]]
  /\ queued \in Seq(Topic)
  /\ pending \subseteq Slug /\ announced \subseteq Slug
  /\ postmap \subseteq Channel \X Slug
  /\ runs \in 0..MaxRuns /\ requests \in 0..MaxRequests /\ faults \in 0..MaxFaults
  /\ forced \subseteq Slug /\ blind \subseteq Day /\ stopped \subseteq Slug
  /\ unread \in BOOLEAN /\ met \in BOOLEAN /\ again \subseteq Topic

(* The type invariant, one variable after the other.                       *)
LEMMA TypeParts ==
  TypeOK <=> RestTypes /\ run \in RunType /\ weekly \in [Weekly -> WeekType]
BY DEF TypeOK, RestTypes, RunType, WeekType

(* The first day is a day.                                                 *)
LEMMA FirstDay == 1 \in Day
BY DayAssumption DEF Day

(* A daily run that has not begun.                                         *)
LEMMA NoRunTyped == NoRun \in RunType
BY FirstDay DEF NoRun, RunType, RunStep, Ends

(* A daily run that has ended, and one that has just been dispatched.      *)
LEMMA EndedRun ==
  ASSUME NEW step \in RunStep
  PROVE  /\ [NoRun EXCEPT !.step = step] \in RunType
         /\ [NoRun EXCEPT !.step = step].step = step
         /\ [NoRun EXCEPT !.step = step].force = FALSE
         /\ [NoRun EXCEPT !.step = step].scheduled = FALSE
         /\ [NoRun EXCEPT !.step = step].canonical = FALSE
         /\ [NoRun EXCEPT !.step = step].slug = NoSlug
         /\ [NoRun EXCEPT !.step = step].todo = {}
<1>1. [NoRun EXCEPT !.step = step] \in RunType
  BY NoRunTyped DEF RunType
<1>2. QED
  BY <1>1 DEF NoRun

(* A run that goes to its next step keeps everything else; one that ends   *)
(* forgets it.                                                             *)
LEMMA Going ==
  ASSUME run \in RunType, NEW step \in RunStep, Goto(step)
  PROVE  /\ run' \in RunType
         /\ run'.step = step
         /\ step \notin Ends =>
              /\ run'.force = run.force
              /\ run'.healing = run.healing
              /\ run'.scheduled = run.scheduled
              /\ run'.date = run.date
              /\ run'.slug = run.slug
              /\ run'.canonical = run.canonical
              /\ run'.todo = run.todo
         /\ step \in Ends => run'.slug = NoSlug /\ run'.todo = {}
<1>1. CASE step \in Ends
  <2>1. run' = [NoRun EXCEPT !.step = step]
    BY <1>1 DEF Goto
  <2>2. QED
    BY <1>1, <2>1, EndedRun
<1>2. CASE step \notin Ends
  <2>1. run' = [run EXCEPT !.step = step]
    BY <1>2 DEF Goto
  <2>2. run' \in RunType
    BY <2>1 DEF RunType
  <2>3. QED
    BY <1>2, <2>1, <2>2 DEF RunType
<1>3. QED
  BY <1>1, <1>2

(* What a step of the daily run leaves of its record when it goes on, and  *)
(* when it ends.                                                           *)
Moves(step) ==
  /\ run'.step = step
  /\ run'.force = run.force /\ run'.scheduled = run.scheduled /\ run'.date = run.date
  /\ run'.slug = run.slug /\ run'.canonical = run.canonical /\ run'.todo = run.todo
Over(step) == run'.step = step /\ run'.slug = NoSlug /\ run'.todo = {}
Begun(step) ==
  /\ run'.step = step
  /\ run'.slug = NoSlug /\ run'.todo = {} /\ run'.scheduled = FALSE

(* The two forms of a goto.                                                *)
LEMMA Gone ==
  ASSUME run \in RunType, NEW step \in RunStep, Goto(step)
  PROVE  /\ run' \in RunType
         /\ step \notin Ends => Moves(step)
         /\ step \in Ends => Over(step)
BY Going DEF Moves, Over

(* What each step does to the record of the run.                           *)
DoesDispatch == ~Under /\ Begun("preflight")
DoesPreflight == At("preflight") /\ ((\E to \in {"script", "check"} : Moves(to)) \/ Over("red"))
DoesCheck == At("check") /\ (Over("verified") \/ Over("red"))
DoesPick ==
  /\ At("script")
  /\ \/ /\ run'.step = "drain" /\ run'.scheduled = TRUE
        /\ run'.slug \in Slug /\ [date |-> run'.date, slug |-> run'.slug] \in plan
     \/ run'.step = "guard" /\ run'.scheduled = run.scheduled /\ run'.slug = run.slug
  /\ run'.force = run.force /\ run'.todo = run.todo
DoesGuard ==
  /\ At("guard")
  /\ \/ Moves("generate") /\ (run.force \/ ~PostDated(run.date) \/ run.date \in blind')
     \/ Moves("final")
     \/ Moves("verify")
DoesGenerate ==
  /\ At("generate")
  /\ \/ /\ run'.step = "gate" /\ run'.slug \in Slug
        /\ run'.force = run.force /\ run'.scheduled = run.scheduled /\ run'.date = run.date
        /\ run'.todo = run.todo
     \/ Over("red")
DoesGate ==
  /\ At("gate")
  /\ \/ /\ run'.step = "duplicates" /\ run'.slug \in Slug
        /\ run'.force = run.force /\ run'.scheduled = run.scheduled /\ run'.date = run.date
        /\ run'.todo = run.todo
     \/ Over("red")
DoesDuplicates ==
  /\ At("duplicates")
  /\ \/ /\ Moves("publish")
        /\ run.force \/ ~TopicPosted(TopicOf[run.slug], IF run.scheduled THEN {File} ELSE {})
     \/ Over("red")
DoesPublish ==
  /\ At("publish")
  /\ \/ /\ posts' = posts \cup {File} /\ (File \in posts => ~run.scheduled)
        /\ run'.step = IF run.scheduled THEN "announce" ELSE "drain"
        /\ run'.canonical = TRUE /\ run'.todo = Channel
        /\ run'.slug = run.slug /\ run'.scheduled = run.scheduled /\ run'.date = run.date
        /\ stopped' = stopped
     \/ /\ posts' \in {posts, posts \cup {File}} /\ (File \in posts => posts' = posts)
        /\ run.scheduled /\ Over("red") /\ stopped' = stopped \cup {run.slug}
     \/ /\ posts' \in {posts, posts \cup {File}}
        /\ ~run.scheduled /\ run'.step = "channels" /\ run'.todo = Channel
        /\ run'.slug = run.slug /\ run'.scheduled = run.scheduled /\ run'.date = run.date
        /\ stopped' = stopped \cup {run.slug}
     \/ posts' = posts /\ run.scheduled /\ Over("red") /\ stopped' = stopped
DoesDrain ==
  /\ At("drain")
  /\ \/ ~run.scheduled /\ Moves("announce") /\ stopped' = stopped
     \/ ~run.scheduled /\ Moves("channels") /\ stopped' = stopped \cup {run.slug}
     \/ run.scheduled /\ (\E to \in {"duplicates", "final", "verify"} : Moves(to))
     \/ run.scheduled /\ Over("red")
DoesAnnounce == At("announce") /\ Moves("channels")
DoesPost(ch) ==
  /\ At("channels") /\ ch \in run.todo
  /\ run'.step = "channels" /\ run'.todo = run.todo \ {ch} /\ run'.slug = run.slug
  /\ run'.scheduled = run.scheduled /\ run'.date = run.date /\ run'.canonical = run.canonical
DoesLog ==
  /\ At("channels") /\ run.todo = {}
  /\ \E to \in {"final", "verify"} : Moves(to)
DoesVerify == At("verify") /\ (Moves("final") \/ Begun("script"))
DoesFinal == At("final") /\ (Over("red") \/ (Over("green") /\ PostDated(day)))
DoesKill == Under /\ Over("red")

(* The dispatch begins a run.                                              *)
LEMMA DispatchDoes ==
  ASSUME TypeInv, Dispatch
  PROVE  run' \in RunType /\ DoesDispatch
<1>1. PICK force \in BOOLEAN : run' = [NoRun EXCEPT !.step = "preflight", !.force = force]
  BY DEF Dispatch
<1>2. "preflight" \in RunStep
  BY DEF RunStep
<1>3. run' \in RunType
  BY <1>1, <1>2, NoRunTyped DEF RunType
<1>4. Begun("preflight")
  BY <1>1 DEF Begun, NoRun
<1>5. QED
  BY <1>3, <1>4 DEF Dispatch, DoesDispatch

(* The preflight goes on, or ends the run.                                 *)
LEMMA PreflightDoes ==
  ASSUME TypeInv, Preflight
  PROVE  run' \in RunType /\ DoesPreflight
<1>1. {"script", "check", "red"} \subseteq RunStep
  BY DEF RunStep, Ends
<1>2. {"script", "check"} \cap Ends = {} /\ "red" \in Ends
  BY DEF Ends
<1>3. run \in RunType
  BY TypeParts DEF TypeInv
<1>4. CASE \E to \in {"script", "check"} : Goto(to)
  <2>1. PICK to \in {"script", "check"} : Goto(to)
    BY <1>4
  <2>2. run' \in RunType /\ Moves(to)
    BY <1>1, <1>2, <1>3, <2>1, Gone
  <2>3. QED
    BY <2>2 DEF Preflight, DoesPreflight
<1>5. CASE Goto("red")
  <2>1. run' \in RunType /\ Over("red")
    BY <1>1, <1>2, <1>3, <1>5, Gone
  <2>2. QED
    BY <2>1 DEF Preflight, DoesPreflight
<1>6. QED
  BY <1>4, <1>5 DEF Preflight

(* The check of the credentials ends it.                                   *)
LEMMA CheckDoes ==
  ASSUME TypeInv, VerifyConfiguration
  PROVE  run' \in RunType /\ DoesCheck
<1>1. PICK to \in {"verified", "red"} : Goto(to)
  BY DEF VerifyConfiguration
<1>2. to \in Ends /\ to \in RunStep
  BY DEF RunStep, Ends
<1>3. run \in RunType
  BY TypeParts DEF TypeInv
<1>4. run' \in RunType /\ Over(to)
  BY <1>1, <1>2, <1>3, Gone
<1>5. QED
  BY <1>4 DEF VerifyConfiguration, DoesCheck

(* The publisher is picked by the plan of the day.                         *)
LEMMA PickDoes ==
  ASSUME TypeInv, PickScript
  PROVE  run' \in RunType /\ DoesPick
<1>1. run \in RunType /\ plan \in Plans /\ day \in Day
  BY TypeParts DEF TypeInv, RestTypes
<1>2. CASE \E p \in plan : p.date = Today
  <2> DEFINE p == CHOOSE p \in plan : p.date = Today
  <2>1. p \in plan /\ p.date = day
    BY <1>2 DEF Today
  <2>2. p \in Post /\ p = [date |-> day, slug |-> p.slug] /\ p.slug \in Slug
    BY <1>1, <2>1, PlanAssumption DEF Post
  <2>3. run' = [run EXCEPT !.step = "drain", !.scheduled = TRUE, !.date = day, !.slug = p.slug]
    BY <1>2 DEF PickScript, Today
  <2> HIDE DEF p
  <2>4. run' \in RunType
    BY <1>1, <2>2, <2>3 DEF RunType, RunStep
  <2>5. /\ run'.step = "drain" /\ run'.scheduled = TRUE /\ run'.slug = p.slug /\ run'.date = day
        /\ run'.force = run.force /\ run'.todo = run.todo
    BY <1>1, <2>3 DEF RunType
  <2>6. QED
    BY <2>1, <2>2, <2>4, <2>5 DEF PickScript, DoesPick
<1>3. CASE ~\E p \in plan : p.date = Today
  <2>1. run' = [run EXCEPT !.step = "guard", !.date = day]
    BY <1>3 DEF PickScript, Today
  <2>2. run' \in RunType
    BY <1>1, <2>1 DEF RunType, RunStep
  <2>3. /\ run'.step = "guard" /\ run'.scheduled = run.scheduled /\ run'.slug = run.slug
        /\ run'.force = run.force /\ run'.todo = run.todo
    BY <1>1, <2>1 DEF RunType
  <2>4. QED
    BY <2>2, <2>3 DEF PickScript, DoesPick
<1>4. QED
  BY <1>2, <1>3

(* The guard lets the run go on under force, without a post of its day, or *)
(* without having read.                                                    *)
LEMMA GuardDoes ==
  ASSUME TypeInv, SameDayGuard
  PROVE  run' \in RunType /\ DoesGuard
<1>1. {"generate", "final", "verify"} \subseteq RunStep
  BY DEF RunStep
<1>2. {"generate", "final", "verify"} \cap Ends = {}
  BY DEF Ends
<1>3. run \in RunType
  BY TypeParts DEF TypeInv
<1>4. AfterScript \in {"final", "verify"}
  BY DEF AfterScript
<1>5. CASE run.force /\ Goto("generate")
  BY <1>1, <1>2, <1>3, <1>5, Gone DEF SameDayGuard, DoesGuard
<1>6. CASE Goto(IF PostDated(run.date) THEN AfterScript ELSE "generate")
  <2>1. CASE PostDated(run.date)
    <3>1. Goto(AfterScript)
      BY <1>6, <2>1
    <3>2. run' \in RunType /\ Moves(AfterScript)
      BY <1>1, <1>2, <1>3, <1>4, <3>1, Gone
    <3>3. QED
      BY <1>4, <3>2 DEF SameDayGuard, DoesGuard
  <2>2. CASE ~PostDated(run.date)
    <3>1. Goto("generate")
      BY <1>6, <2>2
    <3>2. run' \in RunType /\ Moves("generate")
      BY <1>1, <1>2, <1>3, <3>1, Gone
    <3>3. QED
      BY <2>2, <3>2 DEF SameDayGuard, DoesGuard
  <2>3. QED
    BY <2>1, <2>2
<1>7. CASE Goto("generate") /\ blind' = blind \cup {run.date}
  BY <1>1, <1>2, <1>3, <1>7, Gone DEF SameDayGuard, DoesGuard
<1>8. QED
  BY <1>5, <1>6, <1>7 DEF SameDayGuard

(* A draft is of its topic, or there is none.                              *)
LEMMA GenerateDoes ==
  ASSUME TypeInv, Generate
  PROVE  run' \in RunType /\ DoesGenerate
<1>1. run \in RunType
  BY TypeParts DEF TypeInv
<1>2. PICK answer \in Slug \cup {NoSlug} :
        IF answer = NoSlug THEN Goto("red")
        ELSE run' = [run EXCEPT !.step = "gate", !.slug = answer]
  BY DEF Generate, Answers, Drafts
<1>3. CASE answer = NoSlug
  <2>1. Goto("red") /\ "red" \in Ends /\ "red" \in RunStep
    BY <1>2, <1>3 DEF RunStep, Ends
  <2>2. QED
    BY <1>1, <2>1, Gone DEF Generate, DoesGenerate
<1>4. CASE answer # NoSlug
  <2>1. run' = [run EXCEPT !.step = "gate", !.slug = answer] /\ answer \in Slug
    BY <1>2, <1>4
  <2>2. run' \in RunType
    BY <1>1, <2>1 DEF RunType, RunStep
  <2>3. /\ run'.step = "gate" /\ run'.slug = answer /\ run'.force = run.force
        /\ run'.scheduled = run.scheduled /\ run'.date = run.date /\ run'.todo = run.todo
    BY <1>1, <2>1 DEF RunType
  <2>4. QED
    BY <2>1, <2>2, <2>3 DEF Generate, DoesGenerate
<1>5. QED
  BY <1>3, <1>4

(* The gate passes the draft, or has another.                              *)
LEMMA GateDoes ==
  ASSUME TypeInv, Gate
  PROVE  run' \in RunType /\ DoesGate
<1>1. run \in RunType
  BY TypeParts DEF TypeInv
<1>2. At("gate") /\ run.slug \in Slug
  BY DEF Gate, At, TypeInv, HasArticle, Working
<1>3. "red" \in Ends /\ "red" \in RunStep /\ "duplicates" \in RunStep /\ "duplicates" \notin Ends
  BY DEF RunStep, Ends
<1>4. CASE Goto("duplicates")
  <2>1. run' \in RunType /\ Moves("duplicates")
    BY <1>1, <1>3, <1>4, Gone
  <2>2. QED
    BY <1>2, <2>1 DEF DoesGate, Moves
<1>5. CASE Goto("red")
  BY <1>1, <1>2, <1>3, <1>5, Gone DEF DoesGate
<1>6. CASE \E answer \in Slug : run' = [run EXCEPT !.step = "duplicates", !.slug = answer]
  <2>1. PICK answer \in Slug : run' = [run EXCEPT !.step = "duplicates", !.slug = answer]
    BY <1>6
  <2>2. run' \in RunType
    BY <1>1, <1>3, <2>1 DEF RunType
  <2>3. /\ run'.step = "duplicates" /\ run'.slug = answer /\ run'.force = run.force
        /\ run'.scheduled = run.scheduled /\ run'.date = run.date /\ run'.todo = run.todo
    BY <1>1, <2>1 DEF RunType
  <2>4. QED
    BY <1>2, <2>1, <2>2, <2>3 DEF DoesGate
<1>7. QED
  BY <1>4, <1>5, <1>6 DEF Gate, Quality, Answers, Drafts

(* An article goes on without a duplicate, or under force.                 *)
LEMMA DuplicatesDoes ==
  ASSUME TypeInv, Duplicates
  PROVE  run' \in RunType /\ DoesDuplicates
<1> DEFINE found == TopicPosted(TopicOf[run.slug], IF run.scheduled THEN {File} ELSE {})
<1>1. run \in RunType /\ run.force \in BOOLEAN
  BY TypeParts DEF TypeInv, RunType
<1>2. "red" \in Ends /\ "red" \in RunStep /\ "publish" \in RunStep /\ "publish" \notin Ends
  BY DEF RunStep, Ends
<1>3. At("duplicates") /\ (Goto(IF found /\ ~run.force THEN "red" ELSE "publish") \/ Goto("red"))
  BY DEF Duplicates
<1>4. Goto("red") \/ (Goto("publish") /\ (run.force \/ ~found))
  <2>1. CASE found /\ ~run.force
    BY <1>3, <2>1 DEF Goto, Ends
  <2>2. CASE ~(found /\ ~run.force)
    <3>1. Goto("publish") \/ Goto("red")
      BY <1>3, <2>2 DEF Goto, Ends
    <3>2. QED
      BY <1>1, <2>2, <3>1
  <2>3. QED
    BY <2>1, <2>2
<1>5. CASE Goto("red")
  BY <1>1, <1>2, <1>3, <1>5, Gone DEF DoesDuplicates
<1>6. CASE Goto("publish") /\ (run.force \/ ~found)
  BY <1>1, <1>2, <1>3, <1>6, Gone DEF DoesDuplicates
<1>7. QED
  BY <1>4, <1>5, <1>6

(* The file is written, or the answer is lost, or it was there.            *)
LEMMA PublishDoes ==
  ASSUME TypeInv, Publish
  PROVE  run' \in RunType /\ DoesPublish
<1> DEFINE written == posts' = posts \cup {File} /\ (File \in posts => ~run.scheduled)
           cut == run' = IF run.scheduled THEN [NoRun EXCEPT !.step = "red"]
                         ELSE [run EXCEPT !.step = "channels", !.todo = Channel]
<1>1. run \in RunType /\ run.scheduled \in BOOLEAN
  BY TypeParts DEF TypeInv, RunType
<1>2. At("publish")
  BY DEF Publish
<1>3. {"announce", "drain", "channels", "red"} \subseteq RunStep /\ "red" \in Ends
  BY DEF RunStep, Ends
<1>4. \/ /\ written
         /\ run' = [run EXCEPT !.step = IF run.scheduled THEN "announce" ELSE "drain",
                               !.canonical = TRUE, !.todo = Channel]
         /\ stopped' = stopped
      \/ (written \/ posts' = posts) /\ cut /\ stopped' = stopped \cup {run.slug}
      \/ File \in posts /\ run.scheduled /\ cut /\ posts' = posts /\ stopped' = stopped
  BY DEF Publish
<1>5. ASSUME cut
      PROVE  /\ run' \in RunType
             /\ run.scheduled => Over("red")
             /\ ~run.scheduled =>
                  /\ run'.step = "channels" /\ run'.todo = Channel
                  /\ run'.slug = run.slug /\ run'.scheduled = run.scheduled
                  /\ run'.date = run.date
  <2>1. CASE run.scheduled
    <3>1. run' = [NoRun EXCEPT !.step = "red"]
      BY <1>5, <2>1
    <3>2. QED
      BY <1>3, <2>1, <3>1, EndedRun DEF Over
  <2>2. CASE ~run.scheduled
    <3>1. run' = [run EXCEPT !.step = "channels", !.todo = Channel]
      BY <1>5, <2>2
    <3>2. run' \in RunType
      BY <1>1, <1>3, <3>1 DEF RunType
    <3>3. QED
      BY <1>1, <2>2, <3>1, <3>2 DEF RunType
  <2>3. QED
    BY <1>1, <2>1, <2>2
<1>6. CASE /\ written
           /\ run' = [run EXCEPT !.step = IF run.scheduled THEN "announce" ELSE "drain",
                                 !.canonical = TRUE, !.todo = Channel]
           /\ stopped' = stopped
  <2>1. run' \in RunType
    BY <1>1, <1>3, <1>6 DEF RunType
  <2>2. /\ run'.step = IF run.scheduled THEN "announce" ELSE "drain"
        /\ run'.canonical = TRUE /\ run'.todo = Channel
        /\ run'.slug = run.slug /\ run'.scheduled = run.scheduled /\ run'.date = run.date
    BY <1>1, <1>6 DEF RunType
  <2>3. QED
    BY <1>2, <1>6, <2>1, <2>2 DEF DoesPublish
<1>7. CASE (written \/ posts' = posts) /\ cut /\ stopped' = stopped \cup {run.slug}
  <2>1. posts' \in {posts, posts \cup {File}}
    BY <1>7
  <2>2. run.scheduled /\ File \in posts => posts' = posts
    BY <1>7
  <2> HIDE DEF cut
  <2>3. QED
    BY <1>1, <1>2, <1>5, <1>7, <2>1, <2>2 DEF DoesPublish
<1>8. CASE File \in posts /\ run.scheduled /\ cut /\ posts' = posts /\ stopped' = stopped
  <2> HIDE DEF cut
  <2>1. QED
    BY <1>1, <1>2, <1>5, <1>8 DEF DoesPublish
<1>9. QED
  BY <1>4, <1>6, <1>7, <1>8

(* The publisher of the day goes on to its announcement, the scheduled one *)
(* to its article.                                                         *)
LEMMA DrainDoes ==
  ASSUME TypeInv, Drain
  PROVE  run' \in RunType /\ DoesDrain
<1>1. run \in RunType
  BY TypeParts DEF TypeInv
<1>2. At("drain")
  BY DEF Drain
<1>3. /\ {"announce", "channels", "final", "verify", "duplicates", "red"} \subseteq RunStep
      /\ {"announce", "channels", "final", "verify", "duplicates"} \cap Ends = {}
      /\ "red" \in Ends
  BY DEF RunStep, Ends
<1>4. AfterScript \in {"final", "verify"}
  BY DEF AfterScript
<1>5. \/ ~run.scheduled /\ Goto("announce") /\ stopped' = stopped
      \/ run.scheduled /\ (\E to \in {"duplicates", "final", "verify"} : Goto(to))
      \/ run.scheduled /\ Goto("red")
      \/ ~run.scheduled /\ Goto("channels") /\ stopped' = stopped \cup {run.slug}
  <2>1. CASE /\ Goto(CASE ~run.scheduled                  -> "announce"
                       [] run.scheduled /\ File \in posts -> AfterScript
                       [] OTHER                           -> "duplicates")
             /\ UNCHANGED stopped
    <3>1. CASE ~run.scheduled
      BY <2>1, <3>1
    <3>2. CASE run.scheduled /\ File \in posts
      BY <1>4, <2>1, <3>2
    <3>3. CASE run.scheduled /\ File \notin posts
      BY <2>1, <3>3
    <3>4. QED
      BY <3>1, <3>2, <3>3
  <2>2. CASE run.scheduled /\ Goto("duplicates")
    BY <2>2
  <2>3. CASE run.scheduled /\ Goto("red")
    BY <2>3
  <2>4. CASE ~run.scheduled /\ Goto("channels") /\ stopped' = stopped \cup {run.slug}
    BY <2>4
  <2>5. QED
    BY <2>1, <2>2, <2>3, <2>4 DEF Drain
<1>6. CASE ~run.scheduled /\ Goto("announce") /\ stopped' = stopped
  BY <1>1, <1>2, <1>3, <1>6, Gone DEF DoesDrain
<1>7. CASE run.scheduled /\ (\E to \in {"duplicates", "final", "verify"} : Goto(to))
  <2>1. PICK to \in {"duplicates", "final", "verify"} : Goto(to)
    BY <1>7
  <2>2. run' \in RunType /\ Moves(to)
    BY <1>1, <1>3, <2>1, Gone
  <2>3. QED
    BY <1>2, <1>7, <2>2 DEF DoesDrain
<1>8. CASE run.scheduled /\ Goto("red")
  BY <1>1, <1>2, <1>3, <1>8, Gone DEF DoesDrain
<1>9. CASE ~run.scheduled /\ Goto("channels") /\ stopped' = stopped \cup {run.slug}
  BY <1>1, <1>2, <1>3, <1>9, Gone DEF DoesDrain
<1>10. QED
  BY <1>5, <1>6, <1>7, <1>8, <1>9

(* After the announcement come the channels.                               *)
LEMMA AnnounceDoes ==
  ASSUME TypeInv, Announce
  PROVE  run' \in RunType /\ DoesAnnounce
<1>1. run \in RunType
  BY TypeParts DEF TypeInv
<1>2. At("announce") /\ Goto("channels") /\ "channels" \in RunStep /\ "channels" \notin Ends
  BY DEF Announce, RunStep, Ends
<1>3. QED
  BY <1>1, <1>2, Gone DEF DoesAnnounce

(* One channel after the other.                                            *)
LEMMA PostDoes ==
  ASSUME TypeInv, NEW ch \in Channel, PostTo(ch)
  PROVE  run' \in RunType /\ DoesPost(ch)
<1>1. run \in RunType /\ run' = [run EXCEPT !.todo = @ \ {ch}] /\ At("channels") /\ ch \in run.todo
  BY TypeParts DEF TypeInv, PostTo
<1>2. run' \in RunType
  BY <1>1 DEF RunType
<1>3. QED
  BY <1>1, <1>2 DEF RunType, DoesPost, At

(* The log is the last of the script.                                      *)
LEMMA LogDoes ==
  ASSUME TypeInv, Log
  PROVE  run' \in RunType /\ DoesLog
<1>1. run \in RunType
  BY TypeParts DEF TypeInv
<1>2. AfterScript \in {"final", "verify"}
  BY DEF AfterScript
<1>3. AfterScript \in RunStep /\ AfterScript \notin Ends
  BY <1>2 DEF RunStep, Ends
<1>4. At("channels") /\ run.todo = {} /\ Goto(AfterScript)
  BY DEF Log
<1>5. run' \in RunType /\ Moves(AfterScript)
  BY <1>1, <1>3, <1>4, Gone
<1>6. QED
  BY <1>2, <1>4, <1>5 DEF DoesLog

(* The verification goes on, or the publisher begins again.                *)
LEMMA VerifyDoes ==
  ASSUME TypeInv, Verify
  PROVE  run' \in RunType /\ DoesVerify
<1>1. run \in RunType
  BY TypeParts DEF TypeInv
<1>2. At("verify") /\ "final" \in RunStep /\ "final" \notin Ends /\ "script" \in RunStep
  BY DEF Verify, RunStep, Ends
<1>3. CASE Goto("final")
  BY <1>1, <1>2, <1>3, Gone DEF DoesVerify
<1>4. CASE run' = [NoRun EXCEPT !.step = "script", !.force = TRUE, !.healing = TRUE]
  <2>1. run' \in RunType
    BY <1>2, <1>4, NoRunTyped DEF RunType
  <2>2. Begun("script")
    BY <1>4 DEF Begun, NoRun
  <2>3. QED
    BY <1>2, <2>1, <2>2 DEF DoesVerify
<1>5. QED
  BY <1>3, <1>4 DEF Verify

(* The last step is green for a post of the day.                           *)
LEMMA FinalDoes ==
  ASSUME TypeInv, Final
  PROVE  run' \in RunType /\ DoesFinal
<1>1. run \in RunType
  BY TypeParts DEF TypeInv
<1>2. At("final") /\ {"green", "red"} \subseteq RunStep /\ {"green", "red"} \subseteq Ends
  BY DEF Final, RunStep, Ends
<1>3. Goto("red") \/ (Goto("green") /\ PostDated(day))
  <2>1. CASE PostDated(day)
    BY <2>1 DEF Final, Goto, Ends
  <2>2. CASE ~PostDated(day)
    BY <2>2 DEF Final, Goto, Ends
  <2>3. QED
    BY <2>1, <2>2
<1>4. CASE Goto("red")
  <2>1. run' \in RunType /\ Over("red")
    BY <1>1, <1>2, <1>4, Gone, Going
  <2>2. QED
    BY <1>2, <2>1 DEF DoesFinal
<1>5. CASE Goto("green") /\ PostDated(day)
  BY <1>1, <1>2, <1>5, Gone DEF DoesFinal
<1>6. QED
  BY <1>3, <1>4, <1>5

(* A killed run is red.                                                    *)
LEMMA KillDoes ==
  ASSUME TypeInv, Kill
  PROVE  run' \in RunType /\ DoesKill
<1>1. run \in RunType
  BY TypeParts DEF TypeInv
<1>2. Under /\ Goto("red") /\ "red" \in RunStep /\ "red" \in Ends
  BY DEF Kill, RunStep, Ends
<1>3. QED
  BY <1>1, <1>2, Gone, Going DEF DoesKill

(* The other weekly runs stay as they are.                                 *)
OthersStay(w) == \A o \in Weekly \ {w} : weekly'[o] = weekly[o]

(* What each step does to the record of a weekly run.                      *)
DoesCheckout(w) ==
  /\ weekly[w].step = "off" /\ weekly'[w].step = "list"
  /\ weekly'[w].out = OutSlugs /\ weekly'[w].todo = {}
DoesList(w) ==
  /\ weekly[w].step = "list" /\ weekly'[w].out = weekly[w].out
  /\ \/ /\ weekly'[w].step = "posting" /\ weekly'[w].nth = weekly[w].nth
        /\ weekly[w].nth <= Len(Syndicated)
        /\ weekly'[w].todo = weekly[w].out
        /\ weekly'[w].have = {s \in Slug : copies[ChannelOf(w)][s] > 0}
     \/ weekly'[w].step = "list"
DoesSyndicate(w, s) ==
  /\ weekly[w].step = "posting" /\ weekly'[w].step = "posting" /\ s \in weekly[w].todo
  /\ weekly'[w].nth = weekly[w].nth /\ weekly'[w].out = weekly[w].out
  /\ weekly'[w].have = weekly[w].have /\ weekly[w].map \subseteq weekly'[w].map
  /\ weekly'[w].todo = weekly[w].todo \ {s}
DoesNext(w) ==
  /\ weekly[w].step = "posting" /\ weekly'[w].step = "list" /\ weekly'[w].out = weekly[w].out
DoesCommit(w) == weekly[w].step \in {"list", "posting"} /\ weekly'[w].step = "over"

(* The records of a weekly run that has not begun, and of one that ended.  *)
LEMMA NoWeeklyTyped ==
  /\ NoWeekly \in WeekType /\ NoWeekly.step = "off"
  /\ Finished \in WeekType /\ Finished.step = "over"
<1>1. 1 \in 1..(Len(Syndicated) + 1)
  BY InputAssumption
<1>2. QED
  BY <1>1 DEF NoWeekly, Finished, WeekType, WeekStep

(* Both checkouts.                                                         *)
LEMMA CheckoutDoes ==
  ASSUME TypeInv, NEW w \in Weekly, Checkout(w)
  PROVE  weekly' \in [Weekly -> WeekType] /\ OthersStay(w) /\ DoesCheckout(w)
<1> DEFINE fresh == [NoWeekly EXCEPT !.step = "list", !.map = postmap, !.out = OutSlugs]
<1>1. weekly \in [Weekly -> WeekType] /\ postmap \subseteq Channel \X Slug /\ posts \subseteq Post
  BY TypeParts DEF TypeInv, RestTypes
<1>2. OutSlugs \subseteq Slug
  BY <1>1 DEF OutSlugs, Post
<1>3. fresh \in WeekType
  BY <1>1, <1>2, NoWeeklyTyped DEF WeekType, WeekStep
<1>4. fresh.step = "list" /\ fresh.out = OutSlugs /\ fresh.todo = {}
  BY DEF NoWeekly
<1>5. weekly[w].step = "off" /\ weekly' = [weekly EXCEPT ![w] = fresh]
  BY DEF Checkout
<1> HIDE DEF fresh
<1>6. QED
  BY <1>1, <1>3, <1>4, <1>5 DEF OthersStay, DoesCheckout

(* The listing of a channel, or the next channel without it.               *)
LEMMA ListDoes ==
  ASSUME TypeInv, NEW w \in Weekly, List(w)
  PROVE  weekly' \in [Weekly -> WeekType] /\ OthersStay(w) /\ DoesList(w)
<1> DEFINE have == {s \in Slug : copies[ChannelOf(w)][s] > 0}
           posting == [weekly[w] EXCEPT !.step = "posting", !.todo = weekly[w].out, !.have = have]
           without == [weekly[w] EXCEPT !.nth = weekly[w].nth + 1]
<1>1. weekly \in [Weekly -> WeekType] /\ weekly[w] \in WeekType
  BY TypeParts DEF TypeInv
<1>2. weekly[w].step = "list" /\ weekly[w].nth <= Len(Syndicated) /\ Len(Syndicated) \in Nat
  BY InputAssumption DEF List
<1>3. CASE weekly' = [weekly EXCEPT ![w] = posting]
  <2>1. posting \in WeekType
    BY <1>1 DEF WeekType, WeekStep
  <2>2. /\ posting.step = "posting" /\ posting.nth = weekly[w].nth
        /\ posting.out = weekly[w].out /\ posting.todo = weekly[w].out /\ posting.have = have
    BY <1>1 DEF WeekType
  <2> HIDE DEF posting, have
  <2>3. QED
    BY <1>1, <1>2, <1>3, <2>1, <2>2 DEF OthersStay, DoesList, have
<1>4. CASE weekly' = [weekly EXCEPT ![w] = without]
  <2>1. without \in WeekType
    BY <1>1, <1>2 DEF WeekType
  <2>2. without.step = "list" /\ without.out = weekly[w].out
    BY <1>1, <1>2 DEF WeekType
  <2> HIDE DEF without
  <2>3. QED
    BY <1>1, <1>2, <1>4, <2>1, <2>2 DEF OthersStay, DoesList
<1>5. QED
  BY <1>3, <1>4 DEF List

(* One article after the other.                                            *)
LEMMA SyndicateDoes ==
  ASSUME TypeInv, NEW w \in Weekly, NEW s \in Slug, Syndicate(w, s)
  PROVE  weekly' \in [Weekly -> WeekType] /\ OthersStay(w) /\ DoesSyndicate(w, s)
<1> DEFINE kept == [weekly[w] EXCEPT !.todo = weekly[w].todo \ {s}]
           noted == [weekly[w] EXCEPT !.todo = weekly[w].todo \ {s},
                                      !.map = weekly[w].map \cup {<<ChannelOf(w), s>>}]
<1>1. weekly \in [Weekly -> WeekType] /\ weekly[w] \in WeekType
  BY TypeParts DEF TypeInv
<1>2. weekly[w].step = "posting" /\ s \in weekly[w].todo
  BY DEF Syndicate
<1>3. ChannelOf(w) \in Channel
  <2>1. weekly[w].nth \in 1..Len(Syndicated)
    BY <1>1, <1>2, InputAssumption DEF TypeInv, HasChannel, WeekType
  <2>2. QED
    BY <2>1, InputAssumption DEF ChannelOf
<1>4. CASE weekly' = [weekly EXCEPT ![w] = kept]
  <2>1. kept \in WeekType
    BY <1>1 DEF WeekType
  <2>2. /\ kept.step = "posting" /\ kept.nth = weekly[w].nth /\ kept.out = weekly[w].out
        /\ kept.have = weekly[w].have /\ kept.map = weekly[w].map
        /\ kept.todo = weekly[w].todo \ {s}
    BY <1>1, <1>2 DEF WeekType
  <2> HIDE DEF kept
  <2>3. QED
    BY <1>1, <1>2, <1>4, <2>1, <2>2 DEF OthersStay, DoesSyndicate
<1>5. CASE weekly' = [weekly EXCEPT ![w] = noted]
  <2>1. weekly[w].map \cup {<<ChannelOf(w), s>>} \subseteq Channel \X Slug
    BY <1>1, <1>3 DEF WeekType
  <2>2. noted \in WeekType
    BY <1>1, <2>1 DEF WeekType
  <2>3. /\ noted.step = "posting" /\ noted.nth = weekly[w].nth /\ noted.out = weekly[w].out
        /\ noted.have = weekly[w].have /\ weekly[w].map \subseteq noted.map
        /\ noted.todo = weekly[w].todo \ {s}
    BY <1>1, <1>2 DEF WeekType
  <2> HIDE DEF noted
  <2>4. QED
    BY <1>1, <1>2, <1>5, <2>2, <2>3 DEF OthersStay, DoesSyndicate
<1>6. QED
  BY <1>4, <1>5 DEF Syndicate

(* The next channel.                                                       *)
LEMMA NextChannelDoes ==
  ASSUME TypeInv, NEW w \in Weekly, NextChannel(w)
  PROVE  weekly' \in [Weekly -> WeekType] /\ OthersStay(w) /\ DoesNext(w)
<1> DEFINE on == [weekly[w] EXCEPT !.step = "list", !.nth = weekly[w].nth + 1, !.have = {}]
<1>1. weekly \in [Weekly -> WeekType] /\ weekly[w] \in WeekType
  BY TypeParts DEF TypeInv
<1>2. weekly[w].step = "posting" /\ weekly' = [weekly EXCEPT ![w] = on]
  BY DEF NextChannel
<1>3. weekly[w].nth + 1 \in 1..(Len(Syndicated) + 1)
  BY <1>1, <1>2, InputAssumption DEF TypeInv, HasChannel, WeekType
<1>4. on \in WeekType
  BY <1>1, <1>3 DEF WeekType, WeekStep
<1>5. on.step = "list" /\ on.out = weekly[w].out
  BY <1>1 DEF WeekType
<1> HIDE DEF on
<1>6. QED
  BY <1>1, <1>2, <1>4, <1>5 DEF OthersStay, DoesNext

(* The end of a weekly run, with its postmap or without it.                *)
LEMMA CommitDoes ==
  ASSUME TypeInv, NEW w \in Weekly, Commit(w) \/ KillWeekly(w)
  PROVE  weekly' \in [Weekly -> WeekType] /\ OthersStay(w) /\ DoesCommit(w)
<1>1. weekly \in [Weekly -> WeekType]
  BY TypeParts DEF TypeInv
<1>2. weekly[w].step \in {"list", "posting"} /\ weekly' = [weekly EXCEPT ![w] = Finished]
  BY DEF Commit, KillWeekly
<1>3. QED
  BY <1>1, <1>2, NoWeeklyTyped DEF OthersStay, DoesCommit

-----------------------------------------------------------------------------
(* The topic queue.                                                        *)

(* No topic waits twice, but for those of a set.                           *)
OnceBut(q, set) == \A i, j \in DOMAIN q : q[i] = q[j] => i = j \/ q[i] \in set

(* A queue without the first of a topic is a queue, and holds nothing new. *)
LEMMA WithoutFirstTyped ==
  ASSUME NEW q \in Seq(Topic), NEW topic
  PROVE  /\ WithoutFirst(q, topic) \in Seq(Topic)
         /\ \A i \in DOMAIN WithoutFirst(q, topic) :
              \E j \in DOMAIN q : WithoutFirst(q, topic)[i] = q[j]
<1> DEFINE is(i) == q[i] = topic /\ \A j \in 1..(i - 1) : q[j] # topic
<1>1. CASE \E i \in DOMAIN q : is(i)
  <2> DEFINE first == CHOOSE i \in DOMAIN q : is(i)
             rest == [i \in 1..(Len(q) - 1) |-> IF i < first THEN q[i] ELSE q[i + 1]]
  <2>1. WithoutFirst(q, topic) = rest
    BY <1>1 DEF WithoutFirst
  <2>2. first \in DOMAIN q
    BY <1>1
  <2> HIDE DEF is, first
  <2>3. Len(q) \in Nat \ {0} /\ DOMAIN q = 1..Len(q)
    BY <2>2
  <2>4. \A i \in 1..(Len(q) - 1) : i \in DOMAIN q /\ i + 1 \in DOMAIN q
    BY <2>3
  <2>5. rest \in Seq(Topic)
    BY <2>3, <2>4
  <2>6. \A i \in DOMAIN rest : \E j \in DOMAIN q : rest[i] = q[j]
    BY <2>3, <2>4
  <2>7. QED
    BY <2>1, <2>5, <2>6
<1>2. CASE ~\E i \in DOMAIN q : is(i)
  BY <1>2 DEF WithoutFirst
<1>3. QED
  BY <1>1, <1>2

(* A topic that is taken out waits no more, unless it may wait twice; a    *)
(* queue gets no new repeats by it.                                        *)
LEMMA WithoutFirstTakes ==
  ASSUME NEW q \in Seq(Topic), NEW topic, NEW set, OnceBut(q, set)
  PROVE  /\ OnceBut(WithoutFirst(q, topic), set)
         /\ topic \notin set =>
              \A i \in DOMAIN WithoutFirst(q, topic) : WithoutFirst(q, topic)[i] # topic
<1> DEFINE is(i) == q[i] = topic /\ \A j \in 1..(i - 1) : q[j] # topic
<1>1. DOMAIN q = 1..Len(q) /\ Len(q) \in Nat
  OBVIOUS
<1>2. CASE \E i \in DOMAIN q : is(i)
  <2> DEFINE first == CHOOSE i \in DOMAIN q : is(i)
             rest == [i \in 1..(Len(q) - 1) |-> IF i < first THEN q[i] ELSE q[i + 1]]
  <2>1. WithoutFirst(q, topic) = rest
    BY <1>2 DEF WithoutFirst
  <2>2. first \in DOMAIN q /\ q[first] = topic
    BY <1>2
  <2> HIDE DEF is, first
  <2>3. \A i \in 1..(Len(q) - 1) : i \in DOMAIN q /\ i + 1 \in DOMAIN q
    BY <1>1, <2>2
  <2>4. \A i \in DOMAIN q : q[i] = topic => i = first \/ topic \in set
    BY <2>2 DEF OnceBut
  <2>5. topic \notin set => \A i \in DOMAIN rest : rest[i] # topic
    BY <1>1, <2>2, <2>3, <2>4
  <2>6. ASSUME NEW i \in 1..(Len(q) - 1), NEW j \in 1..(Len(q) - 1), rest[i] = rest[j]
        PROVE  i = j \/ rest[i] \in set
    <3>1. CASE i < first /\ j < first
      BY <2>3, <2>6, <3>1 DEF OnceBut
    <3>2. CASE i < first /\ ~(j < first)
      <4>1. q[i] = q[j + 1]
        BY <2>6, <3>2
      <4>2. i = j + 1 \/ q[i] \in set
        BY <2>3, <4>1 DEF OnceBut
      <4>3. QED
        BY <1>1, <2>2, <2>6, <3>2, <4>2
    <3>3. CASE ~(i < first) /\ j < first
      <4>1. q[i + 1] = q[j]
        BY <2>6, <3>3
      <4>2. i + 1 = j \/ q[i + 1] \in set
        BY <2>3, <4>1 DEF OnceBut
      <4>3. QED
        BY <1>1, <2>2, <2>6, <3>3, <4>2
    <3>4. CASE ~(i < first) /\ ~(j < first)
      <4>1. q[i + 1] = q[j + 1]
        BY <2>6, <3>4
      <4>2. i + 1 = j + 1 \/ q[i + 1] \in set
        BY <2>3, <4>1 DEF OnceBut
      <4>3. QED
        BY <2>6, <3>4, <4>2
    <3>5. QED
      BY <3>1, <3>2, <3>3, <3>4
  <2>7. OnceBut(rest, set)
    BY <2>6 DEF OnceBut
  <2>8. QED
    BY <2>1, <2>5, <2>7
<1>3. CASE ~\E i \in DOMAIN q : is(i)
  <2>1. WithoutFirst(q, topic) = q
    BY <1>3 DEF WithoutFirst
  <2>2. ASSUME NEW i \in DOMAIN q, q[i] = topic, topic \notin set
        PROVE  FALSE
    <3>1. \A j \in 1..(i - 1) : q[j] # topic
      BY <1>1, <2>2 DEF OnceBut
    <3>2. QED
      BY <1>3, <2>2, <3>1
  <2>3. QED
    BY <2>1, <2>2
<1>4. QED
  BY <1>2, <1>3

-----------------------------------------------------------------------------
(* The type invariant.                                                     *)

(* The record of a run after a step of the daily run.                      *)
LEMMA DailyRun ==
  ASSUME TypeInv, Daily
  PROVE  run' \in RunType /\ HasArticle'
<1>1. run \in RunType /\ (run.step \in Working => run.slug \in Slug)
  BY TypeParts DEF TypeInv, HasArticle
<1>2. SUFFICES run' \in RunType /\ (run'.step \in Working => run'.slug \in Slug)
  BY DEF HasArticle
<1>3. CASE Dispatch
  BY <1>3, DispatchDoes DEF DoesDispatch, Begun, Working
<1>4. CASE Preflight
  BY <1>4, PreflightDoes DEF DoesPreflight, Moves, Over, Working, Ends
<1>5. CASE VerifyConfiguration
  BY <1>5, CheckDoes DEF DoesCheck, Over, Working, Ends
<1>6. CASE PickScript
  BY <1>6, PickDoes DEF DoesPick, Working
<1>7. CASE SameDayGuard
  BY <1>7, GuardDoes DEF DoesGuard, Moves, Working
<1>8. CASE Generate
  BY <1>8, GenerateDoes DEF DoesGenerate, Over, Working, Ends
<1>9. CASE Gate
  BY <1>9, GateDoes DEF DoesGate, Over, Working, Ends
<1>10. CASE Duplicates
  BY <1>1, <1>10, DuplicatesDoes DEF DoesDuplicates, Moves, Over, At, Working, Ends
<1>11. CASE Publish
  BY <1>1, <1>11, PublishDoes DEF DoesPublish, Over, At, Working, Ends
<1>12. CASE Drain
  BY <1>1, <1>12, DrainDoes DEF DoesDrain, Moves, Over, At, Working, Ends
<1>13. CASE Announce
  BY <1>1, <1>13, AnnounceDoes DEF DoesAnnounce, Moves, At, Working
<1>14. CASE \E ch \in Channel : PostTo(ch)
  BY <1>1, <1>14, PostDoes DEF DoesPost, At, Working
<1>15. CASE Log
  BY <1>15, LogDoes DEF DoesLog, Moves, Working
<1>16. CASE Verify
  BY <1>16, VerifyDoes DEF DoesVerify, Moves, Begun, Working
<1>17. CASE Final
  BY <1>17, FinalDoes DEF DoesFinal, Over, Working, Ends
<1>18. CASE Kill
  BY <1>18, KillDoes DEF DoesKill, Over, Working, Ends
<1>19. QED
  BY <1>3, <1>4, <1>5, <1>6, <1>7, <1>8, <1>9, <1>10, <1>11, <1>12, <1>13, <1>14, <1>15, <1>16,
     <1>17, <1>18 DEF Daily

(* The record of a weekly run after one of its steps.                      *)
LEMMA WeeklyRun ==
  ASSUME TypeInv, NEW w \in Weekly, Syndication(w)
  PROVE  weekly' \in [Weekly -> WeekType] /\ HasChannel'
<1>1. weekly \in [Weekly -> WeekType]
  BY TypeParts DEF TypeInv
<1>2. \A o \in Weekly : weekly[o].step = "posting" => weekly[o].nth <= Len(Syndicated)
  BY DEF TypeInv, HasChannel
<1>3. /\ weekly' \in [Weekly -> WeekType] /\ OthersStay(w)
      /\ weekly'[w].step = "posting" => weekly'[w].nth <= Len(Syndicated)
  <2>1. CASE Checkout(w)
    BY <2>1, CheckoutDoes DEF DoesCheckout
  <2>2. CASE List(w)
    BY <2>2, ListDoes DEF DoesList
  <2>3. CASE NextChannel(w)
    BY <2>3, NextChannelDoes DEF DoesNext
  <2>4. CASE Commit(w) \/ KillWeekly(w)
    BY <2>4, CommitDoes DEF DoesCommit
  <2>5. ASSUME NEW s \in Slug, Syndicate(w, s)
        PROVE  <1>3!1 /\ <1>3!2
    BY <1>2, <2>5, SyndicateDoes DEF DoesSyndicate
  <2>6. QED
    BY <2>1, <2>2, <2>3, <2>4, <2>5 DEF Syndication
<1>4. QED
  BY <1>2, <1>3 DEF OthersStay, HasChannel

(* The bounds count.                                                       *)
LEMMA FaultsTyped ==
  ASSUME RestTypes, Fine \/ Fault
  PROVE  faults' \in 0..MaxFaults
BY InputAssumption DEF RestTypes, Fine, Fault

(* A step of the daily run that writes at most what the last steps wrote.  *)
LEMMA DailyRest ==
  ASSUME TypeInv, Daily
  PROVE  RestTypes'
<1>1. RestTypes /\ run \in RunType
  BY TypeParts DEF TypeInv
<1>2. run.step \in Working => run.slug \in Slug
  BY DEF TypeInv, HasArticle
<1>3. CASE Dispatch
  <2>1. runs' \in 0..MaxRuns /\ met' \in BOOLEAN
    BY <1>1, <1>3, InputAssumption DEF Dispatch, RestTypes
  <2>2. QED
    BY <1>1, <1>3, <2>1 DEF Dispatch, Fine, RestTypes, site
<1>4. CASE Preflight \/ VerifyConfiguration \/ PickScript \/ Generate \/ Gate \/ Duplicates
           \/ Verify \/ Final
  <2>1. UNCHANGED <<day, plan, weekly, postmap, runs, site, history>> /\ (Fine \/ Fault)
    BY <1>4 DEF Preflight, VerifyConfiguration, PickScript, Generate, Gate, Duplicates, Verify,
                Final, RestOf
  <2>2. faults' \in 0..MaxFaults
    BY <1>1, <2>1, FaultsTyped
  <2>3. QED
    BY <1>1, <2>1, <2>2 DEF RestTypes, site, history
<1>5. CASE SameDayGuard
  <2>1. blind' \subseteq Day /\ (Fine \/ Fault)
    BY <1>1, <1>5 DEF SameDayGuard, RestTypes, RunType
  <2>2. faults' \in 0..MaxFaults
    BY <1>1, <2>1, FaultsTyped
  <2>3. QED
    BY <1>1, <1>5, <2>1, <2>2 DEF SameDayGuard, RestTypes, RestOf, site
<1>6. CASE Publish
  <2>1. At("publish") /\ run.slug \in Slug /\ run.date \in Day
    BY <1>1, <1>2, <1>6 DEF Publish, At, Working, RunType
  <2>2. File \in Post
    BY <2>1 DEF File, Post
  <2>3. posts' \subseteq Post /\ stopped' \subseteq Slug /\ forced' \subseteq Slug
    BY <1>1, <1>6, <2>1, <2>2 DEF Publish, RestTypes
  <2>4. Fine \/ Fault
    BY <1>6 DEF Publish
  <2>5. faults' \in 0..MaxFaults
    BY <1>1, <2>4, FaultsTyped
  <2>6. QED
    BY <1>1, <1>6, <2>3, <2>5 DEF Publish, RestTypes, RestOf
<1>7. CASE Drain
  <2>1. At("drain") /\ run.slug \in Slug
    BY <1>2, <1>7 DEF Drain, At, Working
  <2>2. pending' \subseteq Slug /\ announced' \subseteq Slug /\ stopped' \subseteq Slug
    BY <1>1, <1>7, <2>1 DEF Drain, RestTypes
  <2>3. Fine \/ Fault
    BY <1>7 DEF Drain
  <2>4. faults' \in 0..MaxFaults
    BY <1>1, <2>3, FaultsTyped
  <2>5. QED
    BY <1>1, <1>7, <2>2, <2>4 DEF Drain, RestTypes, RestOf
<1>8. CASE Announce
  <2>1. At("announce") /\ run.slug \in Slug
    BY <1>2, <1>8 DEF Announce, At, Working
  <2>2. /\ pending' \subseteq Slug /\ announced' \subseteq Slug /\ stopped' \subseteq Slug
        /\ unread' \in BOOLEAN
    BY <1>1, <1>8, <2>1 DEF Announce, RestTypes
  <2>3. Fine \/ Fault
    BY <1>8 DEF Announce
  <2>4. faults' \in 0..MaxFaults
    BY <1>1, <2>3, FaultsTyped
  <2>5. QED
    BY <1>1, <1>8, <2>2, <2>4 DEF Announce, RestTypes, RestOf
<1>9. ASSUME NEW ch \in Channel, PostTo(ch)
      PROVE  RestTypes'
  <2>1. run.slug \in Slug
    BY <1>2, <1>9 DEF PostTo, At, Working
  <2>2. copies' \in [Channel -> [Slug -> 0..2]]
    BY SMTT(30), <1>1, <1>9, <2>1 DEF PostTo, CopyTo, OneMore, RestTypes
  <2>3. Fine \/ Fault
    BY <1>9 DEF PostTo
  <2>4. faults' \in 0..MaxFaults
    BY <1>1, <2>3, FaultsTyped
  <2>5. QED
    BY <1>1, <1>9, <2>2, <2>4 DEF PostTo, RestTypes, RestOf, history
<1>10. CASE Log
  <2>1. run.slug \in Slug
    BY <1>2, <1>10 DEF Log, At, Working
  <2>2. queued' \in Seq(Topic)
    BY <1>1, <1>10, WithoutFirstTyped DEF Log, RestTypes
  <2>3. stopped' \subseteq Slug /\ (Fine \/ Fault)
    BY <1>1, <1>10, <2>1 DEF Log, RestTypes
  <2>4. faults' \in 0..MaxFaults
    BY <1>1, <2>3, FaultsTyped
  <2>5. again' \subseteq Topic
    BY <1>1, <1>10 DEF Log, RestTypes
  <2>6. QED
    BY <1>1, <1>10, <2>2, <2>3, <2>4, <2>5 DEF Log, RestTypes, RestOf
<1>11. CASE Kill
  <2>1. stopped' \subseteq Slug /\ (Fine \/ Fault)
    BY <1>1, <1>11 DEF Kill, RestTypes
  <2>2. faults' \in 0..MaxFaults
    BY <1>1, <2>1, FaultsTyped
  <2>3. QED
    BY <1>1, <1>11, <2>1, <2>2 DEF Kill, RestTypes, RestOf, site
<1>12. QED
  BY <1>3, <1>4, <1>5, <1>6, <1>7, <1>8, <1>9, <1>10, <1>11 DEF Daily

(* A step of a weekly run writes copies and the postmap.                   *)
LEMMA WeeklyRest ==
  ASSUME TypeInv, NEW w \in Weekly, Syndication(w)
  PROVE  RestTypes'
<1>1. RestTypes /\ weekly[w] \in WeekType
  BY TypeParts DEF TypeInv
<1>2. Fine \/ Fault
  BY DEF Syndication, Checkout, List, NextChannel, Commit, KillWeekly, Syndicate
<1>3. faults' \in 0..MaxFaults
  BY <1>1, <1>2, FaultsTyped
<1>4. WeekOnly
  BY DEF Syndication, Checkout, List, NextChannel, Commit, KillWeekly, Syndicate
<1>5. postmap' \subseteq Channel \X Slug
  BY <1>1 DEF Syndication, Checkout, List, NextChannel, Commit, KillWeekly, Syndicate, RestTypes,
              WeekType
<1>6. met' \in BOOLEAN
  BY <1>1 DEF Syndication, Checkout, List, NextChannel, Commit, KillWeekly, Syndicate, RestTypes,
              WeekOnly
<1>7. copies' \in [Channel -> [Slug -> 0..2]]
  <2>1. ASSUME NEW s \in Slug, Syndicate(w, s)
        PROVE  copies' \in [Channel -> [Slug -> 0..2]]
    BY <1>1, <2>1 DEF Syndicate, OneMore, RestTypes
  <2>2. CASE UNCHANGED copies
    BY <1>1, <2>2 DEF RestTypes
  <2>3. QED
    BY <2>1, <2>2 DEF Syndication, Checkout, List, NextChannel, Commit, KillWeekly
<1>8. QED
  BY <1>1, <1>3, <1>4, <1>5, <1>6, <1>7 DEF RestTypes, WeekOnly

(* The type invariant is inductive.                                        *)
LEMMA TypeStep ==
  ASSUME TypeInv, [Next]_vars
  PROVE  TypeInv'
<1>1. RestTypes /\ run \in RunType /\ weekly \in [Weekly -> WeekType]
  BY TypeParts DEF TypeInv
<1> DEFINE Kept == /\ RestTypes' /\ run' \in RunType /\ weekly' \in [Weekly -> WeekType]
                   /\ HasArticle' /\ HasChannel'
<1>2. SUFFICES Kept
  BY DEF TypeInv, TypeOK, RestTypes, RunType, WeekType
<1>3. CASE Daily
  <2>1. weekly' = weekly
    BY <1>3 DEF Daily, Dispatch, Preflight, VerifyConfiguration, PickScript, SameDayGuard, Generate,
                Gate, Duplicates, Publish, Drain, Announce, PostTo, Log, Verify, Final, Kill, RestOf
  <2>2. HasChannel'
    BY <2>1 DEF TypeInv, HasChannel
  <2>3. QED
    BY <1>1, <1>3, <2>1, <2>2, DailyRun, DailyRest
<1>4. CASE Midnight
  <2>1. run' \in {run, NoRun}
    BY <1>4 DEF Midnight
  <2>2. run' \in RunType /\ HasArticle'
    <3>1. NoRun.step \notin Working
      BY DEF NoRun, Working
    <3>2. QED
      BY <1>1, <2>1, <3>1, NoRunTyped DEF TypeInv, HasArticle
  <2>3. RestTypes'
    BY <1>1, <1>4 DEF Midnight, RestTypes, site, history
  <2>4. QED
    BY <1>1, <1>4, <2>2, <2>3 DEF Midnight, TypeInv, HasChannel
<1>5. ASSUME NEW topic \in Topic, Queue(topic)
      PROVE  Kept
  <2>1. queued' \in Seq(Topic)
    BY <1>1, <1>5 DEF Queue, RestTypes
  <2>2. requests' \in 0..MaxRequests
    BY <1>1, <1>5, InputAssumption DEF Queue, RestTypes
  <2>3. RestTypes'
    BY <1>1, <1>5, <2>1, <2>2 DEF Queue, RestTypes
  <2>4. QED
    BY <1>1, <1>5, <2>3 DEF Queue, TypeInv, HasArticle, HasChannel
<1>6. ASSUME NEW w \in Weekly, Syndication(w)
      PROVE  Kept
  <2>1. run' = run
    BY <1>6 DEF Syndication, Checkout, List, NextChannel, Commit, KillWeekly, Syndicate, WeekOnly
  <2>2. HasArticle'
    BY <2>1 DEF TypeInv, HasArticle
  <2>3. QED
    BY <1>1, <1>6, <2>1, <2>2, WeeklyRun, WeeklyRest
<1>7. CASE UNCHANGED vars
  BY <1>1, <1>7 DEF vars, site, history, RestTypes, TypeInv, HasArticle, HasChannel
<1>8. QED
  BY <1>3, <1>4, <1>5, <1>6, <1>7 DEF Next

(* The first state has its types.                                          *)
LEMMA TypeInit == Init => TypeInv
<1> SUFFICES ASSUME Init
             PROVE  TypeInv
  OBVIOUS
<1>1. run = NoRun /\ NoRun.step = "idle"
  BY DEF Init, NoRun
<1>2. run \in RunType /\ HasArticle
  BY <1>1, NoRunTyped DEF HasArticle, Working
<1>3. weekly \in [Weekly -> WeekType] /\ HasChannel
  BY NoWeeklyTyped DEF Init, HasChannel
<1>4. /\ queued \in Seq(Topic) /\ runs \in 0..MaxRuns
      /\ requests \in 0..MaxRequests /\ faults \in 0..MaxFaults
  BY InputAssumption DEF Init
<1>5. copies \in [Channel -> [Slug -> 0..2]]
  BY DEF Init
<1>6. RestTypes
  BY <1>4, <1>5, FirstDay DEF Init, RestTypes, Repeated
<1>7. QED
  BY <1>2, <1>3, <1>6, TypeParts DEF TypeInv

(* Every variable keeps its type, and a run that writes or announces has   *)
(* an article to write or announce.                                        *)
THEOREM Types == Spec => [](TypeOK /\ TypeInv)
<1>1. TypeInv => TypeOK
  BY DEF TypeInv
<1>2. QED
  BY TypeInit, TypeStep, <1>1, PTL DEF Spec

-----------------------------------------------------------------------------
(* What a step never takes back.                                           *)

(* The plan stays, the posts, the forced and stopped slugs and the blind   *)
(* days only grow; posts and forced slugs are written by Publish alone.    *)
LEMMA Grows ==
  ASSUME [Next]_vars
  PROVE  /\ plan' = plan /\ posts \subseteq posts' /\ forced \subseteq forced'
         /\ blind \subseteq blind' /\ stopped \subseteq stopped' /\ (met => met')
         /\ unread => unread'
         /\ Publish \/ (posts' = posts /\ forced' = forced)
<1>1. CASE Daily
  <2>1. CASE Publish
    BY <2>1 DEF Publish, RestOf
  <2>2. CASE Drain \/ Announce \/ Log
    <3>1. UNCHANGED <<plan, posts, forced, blind, met>>
      BY <2>2 DEF Drain, Announce, Log, RestOf
    <3>2. stopped \subseteq stopped'
      BY <2>2 DEF Drain, Announce, Log
    <3>3. unread => unread'
      BY <2>2 DEF Drain, Announce, Log
    <3>4. QED
      BY <3>1, <3>2, <3>3
  <2>3. CASE Dispatch \/ Preflight \/ VerifyConfiguration \/ PickScript \/ Generate \/ Gate
             \/ Duplicates
    <3>1. UNCHANGED <<plan, posts, forced, blind, stopped, unread>>
      BY <2>3 DEF Dispatch, Preflight, VerifyConfiguration, PickScript, Generate, Gate, Duplicates,
                  RestOf, site, history
    <3>2. met => met'
      BY <2>3 DEF Dispatch, Preflight, VerifyConfiguration, PickScript, Generate, Gate, Duplicates,
                  history
    <3>3. QED
      BY <3>1, <3>2
  <2>4. CASE SameDayGuard \/ Verify \/ Final \/ Kill \/ \E ch \in Channel : PostTo(ch)
    BY <2>4 DEF SameDayGuard, Verify, Final, Kill, PostTo, RestOf, site, history
  <2>5. QED
    BY <1>1, <2>1, <2>2, <2>3, <2>4 DEF Daily
<1>2. CASE Midnight
  BY <1>2 DEF Midnight, site, history
<1>3. CASE \E topic \in Topic : Queue(topic)
  BY <1>3 DEF Queue
<1>4. ASSUME NEW w \in Weekly, Syndication(w)
      PROVE  UNCHANGED <<plan, posts, forced, blind, stopped, unread>> /\ (met => met')
  <2>1. WeekOnly
    BY <1>4 DEF Syndication, Checkout, List, NextChannel, Commit, KillWeekly, Syndicate
  <2>2. met => met'
    BY <1>4 DEF Syndication, Checkout, List, NextChannel, Commit, KillWeekly, Syndicate
  <2>3. QED
    BY <2>1, <2>2 DEF WeekOnly
<1>5. CASE UNCHANGED vars
  BY <1>5 DEF vars, site, history
<1>6. QED
  BY <1>1, <1>2, <1>3, <1>4, <1>5 DEF Next

(* A step that is not the daily run's leaves its record, or forgets one    *)
(* that ended.                                                             *)
LEMMA RunStays ==
  ASSUME [Next]_vars, ~Daily
  PROVE  /\ run' = run \/ (~Under /\ run' = NoRun)
         /\ blind' = blind /\ stopped' = stopped
<1>1. CASE Midnight
  BY <1>1 DEF Midnight, history
<1>2. CASE \E topic \in Topic : Queue(topic)
  BY <1>2 DEF Queue
<1>3. CASE \E w \in Weekly : Syndication(w)
  BY <1>3 DEF Syndication, Checkout, List, NextChannel, Commit, KillWeekly, Syndicate, WeekOnly
<1>4. CASE UNCHANGED vars
  BY <1>4 DEF vars, history
<1>5. QED
  BY <1>1, <1>2, <1>3, <1>4 DEF Next

-----------------------------------------------------------------------------
(* A green workflow.                                                       *)

(* Only the final step makes a run green.                                  *)
LEMMA GreenStep ==
  ASSUME TypeInv, GreenMeansPost, [Next]_vars
  PROVE  GreenMeansPost'
<1>1. SUFFICES ASSUME run'.step = "green"
               PROVE  PostDated(day)'
  BY DEF GreenMeansPost
<1>2. posts \subseteq posts'
  BY Grows
<1>3. CASE Daily
  <2>1. Final
    BY <1>1, <1>3, DispatchDoes, PreflightDoes, CheckDoes, PickDoes, GuardDoes, GenerateDoes,
       GateDoes, DuplicatesDoes, PublishDoes, DrainDoes, AnnounceDoes, PostDoes, LogDoes,
       VerifyDoes, KillDoes
       DEF Daily, DoesDispatch, DoesPreflight, DoesCheck, DoesPick, DoesGuard, DoesGenerate,
           DoesGate, DoesDuplicates, DoesPublish, DoesDrain, DoesAnnounce, DoesPost, DoesLog,
           DoesVerify, DoesKill, Moves, Over, Begun
  <2>2. PostDated(day)
    BY <1>1, <2>1, FinalDoes DEF DoesFinal, Over
  <2>3. day' = day
    BY <2>1 DEF Final, RestOf
  <2>4. QED
    BY <1>2, <2>2, <2>3 DEF PostDated
<1>4. CASE ~Daily
  <2>1. run' # NoRun
    BY <1>1 DEF NoRun
  <2>2. run' = run /\ run.step = "green" /\ ~Under
    BY <1>1, <1>4, <2>1, RunStays DEF Under, Ends
  <2>3. ~Midnight
    BY SMTT(30), <2>1, <2>2 DEF Midnight
  <2>4. day' = day
    BY <1>4, <2>3 DEF Next, Queue, Syndication, Checkout, List, NextChannel, Commit, KillWeekly,
                      Syndicate, WeekOnly, vars
  <2>5. QED
    BY <1>2, <2>2, <2>4 DEF GreenMeansPost, PostDated
<1>5. QED
  BY <1>3, <1>4

(* A workflow is green for a post of its day, whatever failed before.      *)
THEOREM GreenOnPost == Spec => []GreenMeansPost
<1>1. Init => GreenMeansPost
  BY DEF Init, NoRun, GreenMeansPost
<1>2. TypeInv /\ GreenMeansPost /\ [Next]_vars => GreenMeansPost'
  BY GreenStep
<1>3. QED
  BY Types, <1>1, <1>2, PTL DEF Spec

-----------------------------------------------------------------------------
(* One post of a day, one post of a topic.                                 *)

(* A run takes on a scheduled article only from the plan, and only there.  *)
Unplanned ==
  run.step \in {"preflight", "check", "script", "guard", "generate", "gate"} => ~run.scheduled
Planned == run.step \in Working /\ run.scheduled => File \in plan

(* Past its guard, the run of a day has no post of that day, unless the    *)
(* guard read nothing: no other run writes posts.                          *)
DayFree ==
  run.step \in {"generate", "gate", "duplicates", "publish"} /\ ~run.force /\ ~run.scheduled
    /\ PostDated(run.date) => run.date \in blind

(* Past the search for duplicates, its topic has no other post.            *)
TopicFree ==
  run.step = "publish" /\ ~run.force =>
    ~TopicPosted(TopicOf[run.slug], IF run.scheduled THEN {File} ELSE {})

PostsInv == PostsAreDistinct /\ Unplanned /\ Planned /\ DayFree /\ TopicFree

(* What is known of the article of a run does not change but in publish.   *)
LEMMA RunKnown ==
  ASSUME TypeInv, PostsInv, [Next]_vars
  PROVE  Unplanned' /\ Planned' /\ DayFree' /\ TopicFree'
<1>1. /\ plan' = plan /\ blind \subseteq blind'
      /\ Publish \/ posts' = posts
  BY Grows
<1>2. Unplanned /\ Planned /\ DayFree /\ TopicFree
  BY DEF PostsInv
<1> DEFINE Kept == Unplanned' /\ Planned' /\ DayFree' /\ TopicFree'
<1>3. ASSUME posts' = posts, \E step \in RunStep : Moves(step)
      PROVE  /\ File' = File
             /\ \A d : PostDated(d)' = PostDated(d)
             /\ \A topic, but : TopicPosted(topic, but)' = TopicPosted(topic, but)
  BY <1>3 DEF Moves, File, PostDated, TopicPosted
<1>4. ASSUME run'.step \in Ends \cup {"idle", "final", "verify"}
      PROVE  Kept
  BY <1>4 DEF Unplanned, Planned, DayFree, TopicFree, Working, Ends
<1>5. CASE Daily
  <2>1. CASE Dispatch
    BY <2>1, DispatchDoes DEF DoesDispatch, Begun, Unplanned, Planned, DayFree, TopicFree, Working
  <2>2. CASE Preflight
    BY <1>2, <1>4, <2>2, PreflightDoes
       DEF DoesPreflight, Moves, Over, At, Ends, Unplanned, Planned, DayFree, TopicFree, Working
  <2>3. CASE VerifyConfiguration \/ Final \/ Kill
    BY <1>4, <2>3, CheckDoes, FinalDoes, KillDoes DEF DoesCheck, DoesFinal, DoesKill, Over, Ends
  <2>4. CASE PickScript
    BY <1>1, <1>2, <2>4, PickDoes
       DEF DoesPick, At, File, Unplanned, Planned, DayFree, TopicFree, Working
  <2>5. CASE SameDayGuard
    <3>1. posts' = posts
      BY <1>1, <2>5 DEF SameDayGuard, RestOf, site
    <3>2. CASE Moves("generate") /\ (run.force \/ ~PostDated(run.date) \/ run.date \in blind')
      <4>1. PostDated(run.date)' = PostDated(run.date)'
        OBVIOUS
      <4>2. run'.date = run.date /\ run'.force = run.force /\ run'.step = "generate"
        BY <3>2 DEF Moves
      <4>3. PostDated(run.date)' => PostDated(run.date)
        BY <3>1, <4>2 DEF PostDated
      <4>4. ~run.scheduled /\ ~run'.scheduled
        BY <1>2, <2>5, <3>2, GuardDoes DEF DoesGuard, Moves, At, Unplanned
      <4>5. DayFree'
        BY <3>2, <4>2, <4>3, <4>4 DEF DayFree
      <4>6. QED
        BY <4>2, <4>4, <4>5 DEF Unplanned, Planned, TopicFree, Working
    <3>3. CASE Moves("final") \/ Moves("verify")
      BY <1>4, <3>3 DEF Moves
    <3>4. QED
      BY <2>5, <3>2, <3>3, GuardDoes DEF DoesGuard
  <2>6. CASE Generate \/ Gate
    <3>1. posts' = posts
      BY <1>1, <2>6 DEF Generate, Gate, RestOf, site
    <3>2. CASE Over("red")
      BY <1>4, <3>2 DEF Over, Ends
    <3>3. CASE /\ At("generate") \/ At("gate")
               /\ run'.step \in {"gate", "duplicates"}
               /\ run'.force = run.force /\ run'.scheduled = run.scheduled /\ run'.date = run.date
      <4>1. ~run.scheduled /\ ~run'.scheduled
        BY <1>2, <3>3 DEF At, Unplanned
      <4>2. PostDated(run.date)' => PostDated(run.date)
        BY <3>1, <3>3 DEF PostDated
      <4>3. DayFree'
        BY <1>1, <1>2, <3>3, <4>2 DEF At, DayFree
      <4>4. QED
        BY <3>3, <4>1, <4>3 DEF Unplanned, Planned, TopicFree
    <3>4. QED
      BY <2>6, <3>2, <3>3, GenerateDoes, GateDoes DEF DoesGenerate, DoesGate
  <2>7. CASE Duplicates
    <3>1. posts' = posts
      BY <1>1, <2>7 DEF Duplicates, RestOf, site
    <3>2. CASE Over("red")
      BY <1>4, <3>2 DEF Over, Ends
    <3>3. CASE /\ Moves("publish")
               /\ run.force \/ ~TopicPosted(TopicOf[run.slug],
                                            IF run.scheduled THEN {File} ELSE {})
      <4>1. File' = File
        BY <3>3 DEF Moves, File
      <4>2. PostDated(run.date)' => PostDated(run.date)
        BY <3>1, <3>3 DEF PostDated, Moves
      <4>3. At("duplicates")
        BY <2>7 DEF Duplicates
      <4>4. DayFree' /\ Planned' /\ Unplanned'
        BY <1>1, <1>2, <3>3, <4>1, <4>2, <4>3
           DEF At, Moves, DayFree, Planned, Unplanned, Working
      <4>5. TopicFree'
        BY <3>1, <3>3, <4>1 DEF Moves, TopicFree, TopicPosted
      <4>6. QED
        BY <4>4, <4>5
    <3>4. QED
      BY <2>7, <3>2, <3>3, DuplicatesDoes DEF DoesDuplicates
  <2>8. CASE Publish
    <3>1. CASE Over("red")
      BY <1>4, <3>1 DEF Over, Ends
    <3>2. CASE /\ run'.step \in {"announce", "drain", "channels"}
               /\ run'.slug = run.slug /\ run'.scheduled = run.scheduled /\ run'.date = run.date
      <4>1. File' = File /\ At("publish")
        BY <2>8, <3>2 DEF File, Publish
      <4>2. Planned'
        BY <1>1, <1>2, <3>2, <4>1 DEF Planned, Working, At
      <4>3. QED
        BY <3>2, <4>2 DEF Unplanned, DayFree, TopicFree
    <3>3. QED
      BY <2>8, <3>1, <3>2, PublishDoes DEF DoesPublish
  <2>9. CASE Drain
    <3>1. posts' = posts
      BY <1>1, <2>9 DEF Drain, RestOf
    <3>2. CASE Over("red")
      BY <1>4, <3>2 DEF Over, Ends
    <3>3. CASE /\ At("drain")
               /\ \E to \in {"announce", "channels", "duplicates", "final", "verify"} :
                    Moves(to) /\ (to = "duplicates" => run.scheduled)
      <4>1. File' = File
        BY <3>3 DEF Moves, File
      <4>2. Planned'
        BY <1>1, <1>2, <3>3, <4>1 DEF Planned, Working, At, Moves
      <4>3. QED
        BY <3>3, <4>2 DEF Unplanned, DayFree, TopicFree, Moves
    <3>4. QED
      BY <2>9, <3>2, <3>3, DrainDoes DEF DoesDrain
  <2>10. CASE Announce \/ \E ch \in Channel : PostTo(ch)
    <3>1. /\ run.step \in Working /\ run'.step = "channels"
          /\ run'.slug = run.slug /\ run'.scheduled = run.scheduled /\ run'.date = run.date
      BY <2>10, AnnounceDoes, PostDoes DEF DoesAnnounce, DoesPost, Moves, At, Working
    <3>2. File' = File
      BY <3>1 DEF File
    <3>3. Planned'
      BY <1>1, <1>2, <3>1, <3>2 DEF Planned
    <3>4. QED
      BY <3>1, <3>3 DEF Unplanned, DayFree, TopicFree
  <2>11. CASE Log
    BY <1>4, <2>11, LogDoes DEF DoesLog, Moves
  <2>12. CASE Verify
    BY <1>4, <2>12, VerifyDoes
       DEF DoesVerify, Moves, Begun, Unplanned, Planned, DayFree, TopicFree, Working
  <2>13. QED
    BY <1>5, <2>1, <2>2, <2>3, <2>4, <2>5, <2>6, <2>7, <2>8, <2>9, <2>10, <2>11, <2>12 DEF Daily
<1>6. CASE ~Daily
  <2>1. posts' = posts
    BY <1>1, <1>6 DEF Daily
  <2>2. CASE run' = run
    <3>1. File' = File
      BY <2>2 DEF File
    <3>2. Unplanned' /\ Planned'
      BY <1>1, <1>2, <2>2, <3>1 DEF Unplanned, Planned
    <3>3. DayFree' /\ TopicFree'
      BY <1>1, <1>2, <2>1, <2>2, <3>1 DEF DayFree, TopicFree, PostDated, TopicPosted
    <3>4. QED
      BY <3>2, <3>3
  <2>3. CASE run' = NoRun
    BY <1>4, <2>3 DEF NoRun
  <2>4. QED
    BY <1>6, <2>2, <2>3, RunStays
<1>7. QED
  BY <1>5, <1>6

(* What publish may write is the file of the run.                          *)
LEMMA PublishWrites ==
  ASSUME TypeInv, Publish
  PROVE  /\ posts' \subseteq posts \cup {File}
         /\ forced \subseteq forced' /\ (run.force => run.slug \in forced')
         /\ File.slug = run.slug /\ File.date = run.date
         /\ run.scheduled /\ File \in posts => posts' = posts
<1>1. posts' \subseteq posts \cup {File}
  BY DEF Publish
<1>2. forced \subseteq forced' /\ (run.force => run.slug \in forced')
  BY DEF Publish
<1>3. File.slug = run.slug /\ File.date = run.date
  BY DEF File
<1>4. QED
  BY <1>1, <1>2, <1>3 DEF Publish

(* A second post of a day has its reason.                                  *)
LEMMA DayStep ==
  ASSUME TypeInv, PostsInv, [Next]_vars
  PROVE  OnePostADay'
<1>1. /\ plan' = plan /\ forced \subseteq forced' /\ blind \subseteq blind'
      /\ Publish \/ posts' = posts
  BY Grows
<1>2. SUFFICES ASSUME NEW p \in posts', NEW q \in posts', p.date = q.date, p # q
               PROVE  {p.slug, q.slug} \cap forced' # {} \/ {p, q} \cap plan # {}
                        \/ p.date \in blind'
  BY <1>1 DEF OnePostADay
<1>3. CASE p \in posts /\ q \in posts
  BY <1>1, <1>2, <1>3 DEF PostsInv, PostsAreDistinct, OnePostADay
<1>4. ASSUME Publish, NEW o \in posts, o.date = File.date
      PROVE  run.slug \in forced' \/ File \in plan \/ run.date \in blind'
  <2>1. At("publish") /\ run.force \in BOOLEAN /\ run.scheduled \in BOOLEAN
    BY <1>4, TypeParts DEF Publish, TypeInv, RunType
  <2>2. PostDated(run.date)
    BY <1>4, PublishWrites DEF PostDated
  <2>3. QED
    BY <1>1, <1>4, <2>1, <2>2, PublishWrites DEF PostsInv, DayFree, Planned, Working, At
<1>5. CASE p \notin posts
  <2>1. Publish /\ p = File /\ q \in posts
    BY <1>1, <1>2, <1>5, PublishWrites
  <2>2. q.date = File.date /\ p.slug = run.slug /\ p.date = run.date
    BY <1>2, <2>1, PublishWrites
  <2>3. run.slug \in forced' \/ File \in plan \/ run.date \in blind'
    BY <1>4, <2>1, <2>2
  <2>4. QED
    BY <2>1, <2>2, <2>3
<1>6. CASE q \notin posts
  <2>1. Publish /\ q = File /\ p \in posts
    BY <1>1, <1>2, <1>6, PublishWrites
  <2>2. p.date = File.date /\ q.slug = run.slug /\ p.date = run.date
    BY <1>2, <2>1, PublishWrites
  <2>3. run.slug \in forced' \/ File \in plan \/ run.date \in blind'
    BY <1>4, <2>1, <2>2
  <2>4. QED
    BY <2>1, <2>2, <2>3
<1>7. QED
  BY <1>3, <1>5, <1>6

(* A second post of a topic was forced.                                    *)
LEMMA TopicStep ==
  ASSUME TypeInv, PostsInv, [Next]_vars
  PROVE  OnePostATopic'
<1>1. /\ plan' = plan /\ forced \subseteq forced'
      /\ Publish \/ posts' = posts
  BY Grows
<1>2. SUFFICES ASSUME NEW p \in posts', NEW q \in posts', TopicOf[p.slug] = TopicOf[q.slug], p # q
               PROVE  {p.slug, q.slug} \cap forced' # {}
  BY <1>1 DEF OnePostATopic
<1>3. CASE p \in posts /\ q \in posts
  BY <1>1, <1>2, <1>3 DEF PostsInv, PostsAreDistinct, OnePostATopic
<1>4. ASSUME Publish, File \in posts', File \notin posts,
             NEW o \in posts, TopicOf[o.slug] = TopicOf[run.slug]
      PROVE  run.slug \in forced'
  <2>1. At("publish") /\ run.force \in BOOLEAN
    BY <1>4, TypeParts DEF Publish, TypeInv, RunType
  <2>2. o # File
    BY <1>4
  <2>3. TopicPosted(TopicOf[run.slug], {}) /\ TopicPosted(TopicOf[run.slug], {File})
    BY <1>4, <2>2 DEF TopicPosted
  <2>4. run.force
    BY <2>1, <2>3 DEF PostsInv, TopicFree, At
  <2>5. QED
    BY <1>4, <2>4, PublishWrites
<1>5. CASE p \notin posts
  <2>1. Publish /\ p = File /\ q \in posts
    BY <1>1, <1>2, <1>5, PublishWrites
  <2>2. TopicOf[q.slug] = TopicOf[run.slug] /\ p.slug = run.slug
    BY <1>2, <2>1, PublishWrites
  <2>3. QED
    BY <1>4, <1>5, <2>1, <2>2
<1>6. CASE q \notin posts
  <2>1. Publish /\ q = File /\ p \in posts
    BY <1>1, <1>2, <1>6, PublishWrites
  <2>2. TopicOf[p.slug] = TopicOf[run.slug] /\ q.slug = run.slug
    BY <1>2, <2>1, PublishWrites
  <2>3. QED
    BY <1>4, <1>6, <2>1, <2>2
<1>7. QED
  BY <1>3, <1>5, <1>6

(* Two posts of a day, or about one topic, have the reasons that the       *)
(* guards of the pipeline leave.                                           *)
THEOREM PostsDistinct == Spec => [](PostsAreDistinct /\ PostsInv)
<1>1. Init => PostsInv
  BY DEF Init, NoRun, PostsInv, PostsAreDistinct, OnePostADay, OnePostATopic, Unplanned, Planned,
         DayFree, TopicFree, Working
<1>2. TypeInv /\ PostsInv /\ [Next]_vars => PostsInv'
  BY RunKnown, DayStep, TopicStep DEF PostsInv, PostsAreDistinct
<1>3. PostsInv => PostsAreDistinct
  BY DEF PostsInv
<1>4. QED
  BY Types, <1>1, <1>2, <1>3, PTL DEF Spec

-----------------------------------------------------------------------------
(* Copies of an article.                                                   *)

Mishap(s) == met \/ s \in forced \cup stopped
Active(w) == weekly[w].step \in {"list", "posting"}

(* From the publication of its article on, up to the log.                  *)
Following == {"announce", "channels"} \cup (IF run.scheduled THEN {} ELSE {"drain"})

(* A weekly run that is not alone has met another run.                     *)
Meets ==
  /\ \A w \in Weekly : Under /\ Active(w) => met
  /\ \A w, o \in Weekly : Active(w) /\ Active(o) /\ w # o => met

(* A run has channels to post to only after its article, which is there    *)
(* unless a call failed, and which none of these channels has yet.         *)
NothingToDo == run.step \notin Following => run.todo = {}
Written == run.step \in Following => Posted(run.slug) \/ run.slug \in stopped
NotYet == \A ch \in run.todo : copies[ch][run.slug] = 0 \/ Mishap(run.slug)

(* What a channel holds was published; what a weekly run has still to post *)
(* to its channel, and did not find there, is not there.                   *)
CopiesPosted ==
  \A ch \in Channel, s \in Slug : copies[ch][s] > 0 => Posted(s) \/ Mishap(s)
OutPosted ==
  \A w \in Weekly :
    /\ Active(w) => weekly[w].out \subseteq OutSlugs
    /\ weekly[w].step = "posting" => weekly[w].todo \subseteq weekly[w].out
Listed ==
  \A w \in Weekly : weekly[w].step = "posting" =>
    \A s \in weekly[w].todo \ weekly[w].have : copies[ChannelOf(w)][s] = 0 \/ Mishap(s)

CopiesInv ==
  /\ CopiesNeedMishap /\ CopiesPosted
  /\ Meets /\ NothingToDo /\ Written /\ NotYet /\ OutPosted /\ Listed

(* A weekly run is left by all but its own steps.                          *)
LEMMA WeeklyStays ==
  ASSUME [Next]_vars, \A w \in Weekly : ~Syndication(w)
  PROVE  weekly' = weekly
<1>1. CASE Daily
  BY <1>1 DEF Daily, Dispatch, Preflight, VerifyConfiguration, PickScript, SameDayGuard, Generate,
              Gate, Duplicates, Publish, Drain, Announce, PostTo, Log, Verify, Final, Kill, RestOf
<1>2. CASE Midnight \/ \E topic \in Topic : Queue(topic)
  BY <1>2 DEF Midnight, Queue
<1>3. CASE UNCHANGED vars
  BY <1>3 DEF vars
<1>4. QED
  BY SMTT(30), <1>1, <1>2, <1>3 DEF Next

(* A weekly run leaves the daily run, and what it wrote.                   *)
LEMMA DailyStays ==
  ASSUME NEW w \in Weekly, Syndication(w)
  PROVE  UNCHANGED <<run, posts, forced, stopped, plan, queued, pending, announced, unread, day>>
<1>1. WeekOnly
  BY DEF Syndication, Checkout, List, NextChannel, Commit, KillWeekly, Syndicate
<1>2. QED
  BY <1>1 DEF WeekOnly

(* Only the two publishers' calls copy.                                    *)
LEMMA CopiesStay ==
  ASSUME [Next]_vars, \A ch \in Channel : ~PostTo(ch),
         \A w \in Weekly, s \in Slug : ~Syndicate(w, s)
  PROVE  copies' = copies
<1>1. CASE Daily
  BY <1>1 DEF Daily, Dispatch, Preflight, VerifyConfiguration, PickScript, SameDayGuard, Generate,
              Gate, Duplicates, Publish, Drain, Announce, Log, Verify, Final, Kill, RestOf, site
<1>2. CASE Midnight \/ \E topic \in Topic : Queue(topic)
  BY <1>2 DEF Midnight, Queue, site
<1>3. CASE \E w \in Weekly : Syndication(w)
  BY <1>3 DEF Syndication, Checkout, List, NextChannel, Commit, KillWeekly
<1>4. CASE UNCHANGED vars
  BY <1>4 DEF vars, site
<1>5. QED
  BY <1>1, <1>2, <1>3, <1>4 DEF Next

(* A daily run is begun by its dispatch.                                   *)
LEMMA UnderBegins ==
  ASSUME TypeInv, [Next]_vars, Under'
  PROVE  Under \/ Dispatch
<1>1. CASE Daily
  BY <1>1, PreflightDoes, CheckDoes, PickDoes, GuardDoes, GenerateDoes, GateDoes, DuplicatesDoes,
     PublishDoes, DrainDoes, AnnounceDoes, PostDoes, LogDoes, VerifyDoes, FinalDoes, KillDoes
     DEF Daily, DoesPreflight, DoesCheck, DoesPick, DoesGuard, DoesGenerate, DoesGate,
         DoesDuplicates, DoesPublish, DoesDrain, DoesAnnounce, DoesPost, DoesLog, DoesVerify,
         DoesFinal, DoesKill, Under, At, Ends
<1>2. CASE ~Daily
  <2>1. run' # NoRun
    BY DEF Under, NoRun
  <2>2. run' = run
    BY <1>2, <2>1, RunStays
  <2>3. QED
    BY <2>2 DEF Under
<1>3. QED
  BY <1>1, <1>2

(* A weekly run is begun by its checkout.                                  *)
LEMMA ActiveBegins ==
  ASSUME TypeInv, [Next]_vars, NEW w \in Weekly, Active(w)'
  PROVE  Active(w) \/ Checkout(w)
<1>1. ASSUME NEW o \in Weekly, Syndication(o), ~Checkout(w)
      PROVE  Active(w)
  <2>1. CASE Checkout(o)
    BY <1>1, <2>1, CheckoutDoes DEF OthersStay, Active
  <2>2. CASE List(o)
    BY <1>1, <2>2, ListDoes DEF OthersStay, Active, DoesList
  <2>3. CASE NextChannel(o)
    BY <1>1, <2>3, NextChannelDoes DEF OthersStay, Active, DoesNext
  <2>4. CASE Commit(o) \/ KillWeekly(o)
    BY <1>1, <2>4, CommitDoes DEF OthersStay, Active, DoesCommit
  <2>5. ASSUME NEW s \in Slug, Syndicate(o, s)
        PROVE  Active(w)
    BY <1>1, <2>5, SyndicateDoes DEF OthersStay, Active, DoesSyndicate
  <2>6. QED
    BY <1>1, <2>1, <2>2, <2>3, <2>4, <2>5 DEF Syndication
<1>2. CASE \A o \in Weekly : ~Syndication(o)
  BY <1>2, WeeklyStays DEF Active
<1>3. QED
  BY <1>1, <1>2

(* Runs that are under way together have met.                              *)
LEMMA MeetsStep ==
  ASSUME TypeInv, Meets, [Next]_vars
  PROVE  Meets'
<1>1. met => met'
  BY Grows
<1>2. ASSUME NEW w \in Weekly, Under', Active(w)'
      PROVE  met'
  <2>1. CASE Dispatch
    <3>1. \A o \in Weekly : ~Syndication(o)
      BY <2>1, DailyStays, DispatchDoes DEF DoesDispatch, Begun, Under, Ends
    <3>2. Active(w)
      BY <1>2, <3>1, WeeklyStays DEF Active
    <3>3. QED
      BY <2>1, <3>2 DEF Dispatch, Active
  <2>2. CASE Checkout(w)
    <3>1. run' = run
      BY <2>2, DailyStays DEF Syndication
    <3>2. Under
      BY <1>2, <3>1 DEF Under
    <3>3. QED
      BY <2>2, <3>2 DEF Checkout
  <2>3. QED
    BY <1>1, <1>2, <2>1, <2>2, UnderBegins, ActiveBegins DEF Meets
<1>3. ASSUME NEW w \in Weekly, NEW o \in Weekly, w # o, Active(w)', Active(o)'
      PROVE  met'
  <2>1. ASSUME NEW c \in Weekly, Checkout(c), NEW d \in Weekly, d # c, Active(d)'
        PROVE  met'
    <3>1. Active(d)
      BY <2>1, CheckoutDoes DEF OthersStay, Active
    <3>2. QED
      BY <2>1, <3>1 DEF Checkout, Active
  <2>2. CASE Active(w) /\ Active(o)
    BY <1>1, <1>3, <2>2 DEF Meets
  <2>3. QED
    BY <1>3, <2>1, <2>2, ActiveBegins
<1>4. QED
  BY <1>2, <1>3 DEF Meets

(* A step of the daily run other than publish follows its article up, or   *)
(* leaves no channel to post to.                                           *)
Follows ==
  /\ run.step \in Following /\ run'.step \in Following'
  /\ run'.slug = run.slug /\ run'.scheduled = run.scheduled /\ run'.canonical = run.canonical
  /\ run'.todo \subseteq run.todo
Quiet == run'.step \notin Following' /\ run'.todo = {}

(* The two kinds of steps.                                                 *)
LEMMA DailySorts ==
  ASSUME TypeInv, NothingToDo, Daily, ~Publish
  PROVE  Follows \/ Quiet
<1>1. run \in RunType /\ run.scheduled \in BOOLEAN
  BY TypeParts DEF TypeInv, RunType
<1>2. ASSUME NEW step \in RunStep, Over(step), step \in Ends
      PROVE  Quiet
  BY <1>2 DEF Over, Ends, Quiet, Following
<1>3. ASSUME NEW step, Moves(step), step \notin {"announce", "channels", "drain"}, run.todo = {}
      PROVE  Quiet
  BY <1>3 DEF Moves, Quiet, Following
<1>4. {"red", "green", "verified"} \subseteq RunStep \cap Ends
  BY DEF RunStep, Ends
<1>5. run.step \notin {"announce", "channels", "drain"} => run.todo = {}
  BY DEF NothingToDo, Following
<1>6. CASE Dispatch
  BY <1>6, DispatchDoes DEF DoesDispatch, Begun, Quiet, Following
<1>7. CASE Preflight
  BY <1>2, <1>3, <1>4, <1>5, <1>7, PreflightDoes DEF DoesPreflight, At
<1>8. CASE VerifyConfiguration
  BY <1>2, <1>4, <1>8, CheckDoes DEF DoesCheck
<1>9. CASE PickScript
  BY <1>5, <1>9, PickDoes DEF DoesPick, At, Quiet, Following
<1>10. CASE SameDayGuard
  BY <1>3, <1>5, <1>10, GuardDoes DEF DoesGuard, At
<1>11. CASE Generate
  BY <1>2, <1>4, <1>5, <1>11, GenerateDoes DEF DoesGenerate, At, Quiet, Following
<1>12. CASE Gate
  BY <1>2, <1>4, <1>5, <1>12, GateDoes DEF DoesGate, At, Quiet, Following
<1>13. CASE Duplicates
  BY <1>2, <1>3, <1>4, <1>5, <1>13, DuplicatesDoes DEF DoesDuplicates, At
<1>14. CASE Drain
  <2>1. CASE run.scheduled
    <3>1. run.todo = {}
      BY <1>14, <2>1, DrainDoes DEF DoesDrain, At, NothingToDo, Following
    <3>2. QED
      BY <1>2, <1>3, <1>4, <1>14, <2>1, <3>1, DrainDoes DEF DoesDrain
  <2>2. CASE ~run.scheduled
    BY <1>14, <2>2, DrainDoes DEF DoesDrain, At, Moves, Follows, Following
  <2>3. QED
    BY <1>1, <2>1, <2>2
<1>15. CASE Announce
  BY <1>15, AnnounceDoes DEF DoesAnnounce, At, Moves, Follows, Following
<1>16. CASE \E ch \in Channel : PostTo(ch)
  BY <1>16, PostDoes DEF DoesPost, At, Follows, Following
<1>17. CASE Log
  BY <1>3, <1>17, LogDoes DEF DoesLog
<1>18. CASE Verify
  BY <1>3, <1>5, <1>18, VerifyDoes DEF DoesVerify, At, Begun, Quiet, Following
<1>19. CASE Final \/ Kill
  BY <1>2, <1>4, <1>19, FinalDoes, KillDoes DEF DoesFinal, DoesKill
<1>20. QED
  BY <1>6, <1>7, <1>8, <1>9, <1>10, <1>11, <1>12, <1>13, <1>14, <1>15, <1>16, <1>17, <1>18, <1>19
     DEF Daily

(* A step of another actor leaves it as it was.                            *)
LEMMA OthersSort ==
  ASSUME TypeInv, [Next]_vars, ~Daily
  PROVE  run' = run \/ Quiet
<1>1. Under \/ ~Under
  OBVIOUS
<1>2. ASSUME run' = NoRun
      PROVE  Quiet
  BY <1>2 DEF NoRun, Quiet, Following
<1>3. QED
  BY <1>2, RunStays

(* What publish leaves for the announcement and the channels.              *)
LEMMA PublishSorts ==
  ASSUME TypeInv, Publish
  PROVE  \/ Quiet
         \/ /\ run'.step \in Following' /\ run'.slug = run.slug /\ run'.todo = Channel
            /\ run'.scheduled = run.scheduled /\ ~(run.scheduled /\ File \in posts)
            /\ \/ run'.canonical = TRUE /\ File \in posts' /\ run'.step # "channels"
               \/ run.slug \in stopped'
<1>1. run.scheduled \in BOOLEAN
  BY TypeParts DEF TypeInv, RunType
<1>2. CASE Over("red")
  BY <1>2 DEF Over, Quiet, Following
<1>3. CASE ~Over("red")
  BY <1>1, <1>3, PublishDoes DEF DoesPublish, Following
<1>4. QED
  BY <1>2, <1>3

(* Only a published article, or one whose call failed, is followed up.     *)
LEMMA FollowingStep ==
  ASSUME TypeInv, NothingToDo, Written, [Next]_vars
  PROVE  NothingToDo' /\ Written'
<1>1. stopped \subseteq stopped'
  BY Grows
<1>2. CASE Quiet
  BY <1>2 DEF Quiet, NothingToDo, Written
<1>3. CASE Follows
  <2>1. Posted(run.slug) \/ run.slug \in stopped
    BY <1>3 DEF Follows, Written
  <2>2. Posted(run.slug) => \E p \in posts' : p.slug = run'.slug
    BY <1>3, Grows DEF Posted, Follows
  <2>3. Written'
    BY <1>1, <1>3, <2>1, <2>2 DEF Follows, Written, Posted
  <2>4. QED
    BY <1>3, <2>3 DEF Follows, NothingToDo
<1>4. CASE Publish
  BY <1>2, <1>4, PublishSorts, PublishWrites DEF NothingToDo, Written, Posted
<1>5. CASE run' = run
  <2>1. run'.step \in Following' => run.step \in Following
    BY <1>5 DEF Following
  <2>2. run'.step \notin Following' => run.step \notin Following
    BY <1>5 DEF Following
  <2>3. Posted(run.slug) => \E p \in posts' : p.slug = run'.slug
    BY <1>5, Grows DEF Posted
  <2>4. Written'
    BY <1>1, <1>5, <2>1, <2>3 DEF Written, Posted
  <2>5. QED
    BY <1>5, <2>2, <2>4 DEF NothingToDo
<1>6. QED
  BY <1>2, <1>3, <1>4, <1>5, DailySorts, OthersSort

(* One copy more, and none less.                                           *)
LEMMA OneMoreCopy ==
  ASSUME TypeInv, NEW ch \in Channel, NEW s \in Slug,
         copies' = [copies EXCEPT ![ch][s] = OneMore(copies[ch][s])]
  PROVE  /\ \A c \in Channel, o \in Slug : c # ch \/ o # s => copies'[c][o] = copies[c][o]
         /\ copies'[ch][s] > 0
         /\ copies'[ch][s] > 1 => copies[ch][s] > 0
<1>1. copies \in [Channel -> [Slug -> 0..2]]
  BY TypeParts DEF TypeInv, RestTypes
<1>2. copies[ch][s] \in 0..2
  BY <1>1
<1>3. copies'[ch][s] = OneMore(copies[ch][s])
  BY <1>1
<1>4. \A c \in Channel, o \in Slug : c # ch \/ o # s => copies'[c][o] = copies[c][o]
  BY <1>1
<1>5. QED
  BY <1>2, <1>3, <1>4 DEF OneMore

(* A publisher's call to a channel.                                        *)
LEMMA PostCopies ==
  ASSUME TypeInv, NEW ch \in Channel, PostTo(ch)
  PROVE  /\ ch \in run.todo /\ run.slug \in Slug /\ run.step \in Following
         /\ \A c \in Channel, o \in Slug :
              c # ch \/ o # run.slug => copies'[c][o] = copies[c][o]
         /\ copies' # copies => (copies'[ch][run.slug] > 1 => copies[ch][run.slug] > 0)
<1>1. At("channels") /\ ch \in run.todo
  BY DEF PostTo
<1>2. run.slug \in Slug /\ run.step \in Following
  BY <1>1 DEF TypeInv, HasArticle, Working, At, Following
<1>3. CASE copies' = copies
  BY <1>1, <1>2, <1>3
<1>4. CASE copies' = [copies EXCEPT ![ch][run.slug] = OneMore(copies[ch][run.slug])]
  BY <1>1, <1>2, <1>4, OneMoreCopy
<1>5. QED
  BY <1>3, <1>4 DEF PostTo, CopyTo

(* A weekly run's call to a channel.                                       *)
LEMMA SyndicateCopies ==
  ASSUME TypeInv, NEW w \in Weekly, NEW s \in Slug, Syndicate(w, s)
  PROVE  /\ ChannelOf(w) \in Channel /\ s \in weekly[w].todo /\ weekly[w].step = "posting"
         /\ \A c \in Channel, o \in Slug :
              c # ChannelOf(w) \/ o # s => copies'[c][o] = copies[c][o]
         /\ copies' # copies =>
              /\ s \notin weekly[w].have
              /\ copies'[ChannelOf(w)][s] > 1 => copies[ChannelOf(w)][s] > 0
<1>1. weekly[w].step = "posting" /\ s \in weekly[w].todo
  BY DEF Syndicate
<1>2. ChannelOf(w) \in Channel
  <2>1. weekly[w] \in WeekType /\ weekly[w].nth <= Len(Syndicated)
    BY <1>1, TypeParts DEF TypeInv, HasChannel
  <2>2. weekly[w].nth \in 1..Len(Syndicated)
    BY <2>1, InputAssumption DEF WeekType
  <2>3. QED
    BY <2>2, InputAssumption DEF ChannelOf
<1>3. CASE copies' = copies
  BY <1>1, <1>2, <1>3
<1>4. CASE /\ copies' = [copies EXCEPT ![ChannelOf(w)][s] = OneMore(copies[ChannelOf(w)][s])]
           /\ ~Known(w, s)
  BY <1>1, <1>2, <1>4, OneMoreCopy DEF Known
<1>5. QED
  BY <1>3, <1>4 DEF Syndicate

(* A second copy has its mishap, and a copy its article.                   *)
LEMMA CopiesStep ==
  ASSUME TypeInv, CopiesInv, [Next]_vars
  PROVE  CopiesNeedMishap' /\ CopiesPosted'
<1>1. \A s : Mishap(s) => Mishap(s)'
  BY Grows DEF Mishap
<1>2. \A s : Posted(s) => Posted(s)'
  BY Grows DEF Posted
<1>3. ASSUME NEW ch \in Channel, PostTo(ch)
      PROVE  /\ copies'[ch][run.slug] > 1 => Mishap(run.slug)
             /\ Posted(run.slug) \/ Mishap(run.slug)
             /\ run.slug \in Slug
             /\ \A c \in Channel, o \in Slug :
                  c # ch \/ o # run.slug => copies'[c][o] = copies[c][o]
  <2>1. copies[ch][run.slug] = 0 \/ Mishap(run.slug)
    BY <1>3, PostCopies DEF CopiesInv, NotYet
  <2>2. Posted(run.slug) \/ Mishap(run.slug)
    BY <1>3, PostCopies DEF CopiesInv, Written, Mishap
  <2>3. copies' = copies /\ copies[ch][run.slug] > 1 => Mishap(run.slug)
    BY <1>3, PostCopies DEF CopiesInv, CopiesNeedMishap, Mishap
  <2>4. QED
    BY <1>3, <2>1, <2>2, <2>3, PostCopies
<1>4. ASSUME NEW w \in Weekly, NEW s \in Slug, Syndicate(w, s)
      PROVE  /\ ChannelOf(w) \in Channel
             /\ copies'[ChannelOf(w)][s] > 1 => Mishap(s)
             /\ Posted(s)
             /\ \A c \in Channel, o \in Slug :
                  c # ChannelOf(w) \/ o # s => copies'[c][o] = copies[c][o]
  <2>1. s \in OutSlugs
    BY <1>4, SyndicateCopies DEF CopiesInv, OutPosted, Active
  <2>2. s \notin weekly[w].have => copies[ChannelOf(w)][s] = 0 \/ Mishap(s)
    BY <1>4, SyndicateCopies DEF CopiesInv, Listed
  <2>3. copies' = copies /\ copies[ChannelOf(w)][s] > 1 => Mishap(s)
    BY <1>4, SyndicateCopies DEF CopiesInv, CopiesNeedMishap, Mishap
  <2>4. Posted(s)
    BY <2>1 DEF OutSlugs, Posted
  <2>5. QED
    BY <1>4, <2>2, <2>3, <2>4, SyndicateCopies
<1>5. ASSUME NEW ch \in Channel, NEW s \in Slug
      PROVE  /\ copies'[ch][s] > 1 => Mishap(s)
             /\ copies'[ch][s] > 0 => Posted(s) \/ Mishap(s)
  <2>1. CASE copies'[ch][s] = copies[ch][s]
    BY <2>1 DEF CopiesInv, CopiesNeedMishap, CopiesPosted, Mishap
  <2>2. CASE \E c \in Channel : PostTo(c)
    BY <1>3, <2>1, <2>2
  <2>3. CASE \E w \in Weekly, o \in Slug : Syndicate(w, o)
    BY <1>4, <2>1, <2>3
  <2>4. QED
    BY <2>1, <2>2, <2>3, CopiesStay
<1>6. CopiesPosted'
  BY <1>1, <1>2, <1>5 DEF CopiesPosted
<1>7. CopiesNeedMishap'
  BY <1>1, <1>5 DEF CopiesNeedMishap, Mishap
<1>8. QED
  BY <1>6, <1>7

(* A channel a run has still to post to has no copy of its article.        *)
LEMMA NotYetStep ==
  ASSUME TypeInv, PostsInv, CopiesInv, [Next]_vars
  PROVE  NotYet'
<1>1. (met => met') /\ forced \subseteq forced' /\ stopped \subseteq stopped'
  BY Grows
<1>2. copies \in [Channel -> [Slug -> 0..2]] /\ run' \in RunType
  BY TypeStep DEF TypeInv, TypeOK, RunType
<1>3. SUFFICES ASSUME NEW ch \in Channel, ch \in run'.todo,
                      ~met', run'.slug \notin forced', run'.slug \notin stopped'
               PROVE  copies'[ch][run'.slug] = 0
  BY <1>2 DEF NotYet, RunType, Mishap
<1>4. ASSUME NEW w \in Weekly, NEW s \in Slug, Syndicate(w, s)
      PROVE  FALSE
  <2>1. run' = run
    BY <1>4, DailyStays DEF Syndication
  <2>2. run.step \in Following
    BY <1>3, <2>1 DEF CopiesInv, NothingToDo
  <2>3. Under /\ Active(w)
    BY <1>4, <2>2 DEF Syndicate, Active, Under, Following, Ends
  <2>4. met'
    BY <1>1, <2>3 DEF CopiesInv, Meets
  <2>5. QED
    BY <1>3, <2>4
<1>5. CASE Quiet
  BY <1>3, <1>5 DEF Quiet
<1>6. CASE Daily /\ ~Publish
  <2>1. Follows
    BY <1>3, <1>6, DailySorts DEF CopiesInv, Quiet
  <2>2. ch \in run.todo /\ run'.slug = run.slug
    BY <1>3, <2>1 DEF Follows
  <2>3. ~Mishap(run.slug)
    BY <1>1, <1>3, <2>2 DEF Mishap
  <2>4. copies[ch][run.slug] = 0
    BY <2>2, <2>3 DEF CopiesInv, NotYet
  <2>5. ASSUME NEW c \in Channel, PostTo(c)
        PROVE  copies'[ch][run.slug] = copies[ch][run.slug]
    <3>1. ch # c
      BY <1>3, <2>5, PostDoes DEF DoesPost
    <3>2. QED
      BY <2>5, <3>1, PostCopies
  <2>6. copies'[ch][run.slug] = copies[ch][run.slug]
    BY <1>4, <2>5, CopiesStay
  <2>7. QED
    BY <2>2, <2>4, <2>6
<1>7. CASE Publish /\ ~Quiet
  <2>1. copies' = copies
    BY <1>7 DEF Publish
  <2>2. run'.slug = run.slug /\ ~(run.scheduled /\ File \in posts)
    BY <1>7, PublishSorts
  <2>3. run.slug \in Slug /\ At("publish")
    BY <1>7 DEF Publish, TypeInv, HasArticle, Working, At
  <2>4. ~run.force /\ ~Mishap(run.slug)
    BY <1>1, <1>3, <1>7, <2>2, PublishWrites DEF Mishap
  <2>5. ~TopicPosted(TopicOf[run.slug], IF run.scheduled THEN {File} ELSE {})
    BY <2>3, <2>4 DEF PostsInv, TopicFree, At
  <2>6. ~Posted(run.slug)
    BY <2>2, <2>5 DEF TopicPosted, Posted
  <2>7. ~(copies[ch][run.slug] > 0)
    BY <2>3, <2>4, <2>6 DEF CopiesInv, CopiesPosted
  <2>8. copies[ch][run.slug] \in 0..2
    BY <1>2, <2>3
  <2>9. QED
    BY <2>1, <2>2, <2>7, <2>8
<1>8. CASE ~Daily /\ run' = run
  <2>1. \A c \in Channel : ~PostTo(c)
    BY <1>8 DEF Daily
  <2>2. copies' = copies
    BY <1>4, <2>1, CopiesStay
  <2>3. ~Mishap(run.slug)
    BY <1>1, <1>3, <1>8 DEF Mishap
  <2>4. QED
    BY <1>3, <1>8, <2>2, <2>3 DEF CopiesInv, NotYet
<1>9. QED
  BY <1>5, <1>6, <1>7, <1>8, OthersSort DEF Daily

(* A weekly run posts what is published.                                   *)
LEMMA OutStep ==
  ASSUME TypeInv, OutPosted, [Next]_vars
  PROVE  OutPosted'
<1>1. OutSlugs \subseteq OutSlugs'
  BY Grows DEF OutSlugs
<1>2. SUFFICES ASSUME NEW w \in Weekly
               PROVE  /\ Active(w)' => weekly'[w].out \subseteq OutSlugs'
                      /\ weekly'[w].step = "posting" => weekly'[w].todo \subseteq weekly'[w].out
  BY DEF OutPosted
<1>3. CASE weekly'[w] = weekly[w]
  BY <1>1, <1>3 DEF OutPosted, Active
<1>4. ASSUME NEW o \in Weekly, Syndication(o), weekly'[w] # weekly[w]
      PROVE  Syndication(w)
  <2>1. OthersStay(o)
    BY <1>4, CheckoutDoes, ListDoes, NextChannelDoes, CommitDoes, SyndicateDoes DEF Syndication
  <2>2. QED
    BY <1>4, <2>1 DEF OthersStay
<1>5. CASE Checkout(w)
  BY <1>1, <1>5, CheckoutDoes DEF DoesCheckout
<1>6. CASE List(w)
  BY <1>1, <1>6, ListDoes DEF DoesList, OutPosted, Active
<1>7. CASE NextChannel(w)
  BY <1>1, <1>7, NextChannelDoes DEF DoesNext, OutPosted, Active
<1>8. CASE Commit(w) \/ KillWeekly(w)
  BY <1>8, CommitDoes DEF DoesCommit, Active
<1>9. ASSUME NEW s \in Slug, Syndicate(w, s)
      PROVE  /\ Active(w)' => weekly'[w].out \subseteq OutSlugs'
             /\ weekly'[w].step = "posting" => weekly'[w].todo \subseteq weekly'[w].out
  BY <1>1, <1>9, SyndicateDoes DEF DoesSyndicate, OutPosted, Active
<1>10. QED
  BY <1>3, <1>4, <1>5, <1>6, <1>7, <1>8, <1>9, WeeklyStays DEF Syndication

(* What a weekly run did not find in the listing of its channel is not     *)
(* there before it posts it, unless another run was under way.             *)
LEMMA ListedStep ==
  ASSUME TypeInv, CopiesInv, [Next]_vars
  PROVE  Listed'
<1>1. (met => met') /\ forced \subseteq forced' /\ stopped \subseteq stopped'
  BY Grows
<1>2. copies \in [Channel -> [Slug -> 0..2]] /\ weekly \in [Weekly -> WeekType]
  BY TypeParts DEF TypeInv, RestTypes
<1>3. weekly' \in [Weekly -> WeekType]
  BY TypeStep DEF TypeInv, TypeOK, WeekType
<1>4. SUFFICES ASSUME NEW w \in Weekly, weekly'[w].step = "posting",
                      NEW s \in Slug, s \in weekly'[w].todo \ weekly'[w].have, ~Mishap(s)'
               PROVE  copies'[ChannelOf(w)'][s] = 0
  BY <1>3 DEF Listed, WeekType, Mishap
<1>5. ~met /\ ~met' /\ ~Mishap(s)
  BY <1>1, <1>4 DEF Mishap
<1>6. ~\E ch \in Channel : PostTo(ch)
  <2>1. SUFFICES ASSUME NEW ch \in Channel, PostTo(ch)
                 PROVE  FALSE
    OBVIOUS
  <2>2. Under /\ weekly' = weekly
    BY <2>1 DEF PostTo, RestOf, At, Under, Ends
  <2>3. QED
    BY <1>4, <1>5, <2>2 DEF CopiesInv, Meets, Active
<1>7. CASE List(w)
  <2>1. copies' = copies
    BY <1>7 DEF List
  <2>2. weekly'[w].nth = weekly[w].nth /\ weekly'[w].have = {o \in Slug : copies[ChannelOf(w)][o] > 0}
    BY <1>4, <1>7, ListDoes DEF DoesList
  <2>3. ChannelOf(w)' = ChannelOf(w) /\ ChannelOf(w) \in Channel
    <3>1. weekly[w].nth \in 1..Len(Syndicated)
      BY <1>2, <1>7, InputAssumption DEF List, WeekType
    <3>2. QED
      BY <2>2, <3>1, InputAssumption DEF ChannelOf
  <2>4. ~(copies[ChannelOf(w)][s] > 0) /\ copies[ChannelOf(w)][s] \in 0..2
    BY <1>2, <1>4, <2>2, <2>3
  <2>5. QED
    BY <2>1, <2>3, <2>4
<1>8. ASSUME NEW o \in Slug, Syndicate(w, o)
      PROVE  copies'[ChannelOf(w)'][s] = 0
  <2>1. /\ weekly[w].step = "posting" /\ weekly'[w].nth = weekly[w].nth
        /\ weekly'[w].have = weekly[w].have /\ weekly'[w].todo = weekly[w].todo \ {o}
    BY <1>8, SyndicateDoes DEF DoesSyndicate
  <2>2. ChannelOf(w)' = ChannelOf(w) /\ ChannelOf(w) \in Channel
    BY <1>8, <2>1, SyndicateCopies DEF ChannelOf
  <2>3. copies'[ChannelOf(w)][s] = copies[ChannelOf(w)][s]
    BY <1>4, <1>8, <2>1, SyndicateCopies
  <2>4. copies[ChannelOf(w)][s] = 0
    BY <1>4, <1>5, <2>1 DEF CopiesInv, Listed
  <2>5. QED
    BY <2>2, <2>3, <2>4
<1>9. CASE weekly'[w] = weekly[w]
  <2>1. ASSUME NEW v \in Weekly, NEW o \in Slug, Syndicate(v, o)
        PROVE  FALSE
    <3>1. v # w
      BY <1>9, <2>1, SyndicateDoes DEF DoesSyndicate
    <3>2. Active(v) /\ Active(w)
      BY <1>4, <1>9, <2>1 DEF Syndicate, Active
    <3>3. QED
      BY <1>5, <3>1, <3>2 DEF CopiesInv, Meets
  <2>2. copies' = copies
    BY <1>6, <2>1, CopiesStay
  <2>3. ChannelOf(w)' = ChannelOf(w)
    BY <1>9 DEF ChannelOf
  <2>4. QED
    BY <1>4, <1>5, <1>9, <2>2, <2>3 DEF CopiesInv, Listed
<1>10. ASSUME NEW v \in Weekly, Syndication(v), weekly'[w] # weekly[w]
       PROVE  Syndication(w)
  <2>1. OthersStay(v)
    BY <1>10, CheckoutDoes, ListDoes, NextChannelDoes, CommitDoes, SyndicateDoes DEF Syndication
  <2>2. QED
    BY <1>10, <2>1 DEF OthersStay
<1>11. CASE Checkout(w) \/ NextChannel(w) \/ Commit(w) \/ KillWeekly(w)
  BY <1>4, <1>11, CheckoutDoes, NextChannelDoes, CommitDoes DEF DoesCheckout, DoesNext, DoesCommit
<1>12. QED
  BY <1>7, <1>8, <1>9, <1>10, <1>11, WeeklyStays DEF Syndication

(* No run yet, and no copy.                                                *)
LEMMA CopiesInit == Init => CopiesInv
<1> SUFFICES ASSUME Init
             PROVE  CopiesInv
  OBVIOUS
<1>1. \A ch \in Channel, s \in Slug : copies[ch][s] = 0
  BY DEF Init
<1>2. run.step = "idle" /\ run.todo = {}
  BY DEF Init, NoRun
<1>3. \A w \in Weekly : weekly[w].step = "off"
  BY DEF Init, NoWeekly
<1>4. CopiesNeedMishap /\ CopiesPosted
  BY <1>1 DEF CopiesNeedMishap, CopiesPosted
<1>5. NothingToDo /\ Written /\ NotYet
  BY <1>2 DEF NothingToDo, Written, NotYet, Following
<1>6. Meets /\ OutPosted /\ Listed
  BY <1>3 DEF Meets, OutPosted, Listed, Active
<1>7. QED
  BY <1>4, <1>5, <1>6 DEF CopiesInv

(* A channel holds one copy of an article, unless runs met, it was forced, *)
(* or something of its run failed.                                         *)
THEOREM CopiesAlone == Spec => [](CopiesNeedMishap /\ CopiesInv)
<1>1. TypeInv /\ PostsInv /\ CopiesInv /\ [Next]_vars => CopiesInv'
  BY CopiesStep, MeetsStep, FollowingStep, NotYetStep, OutStep, ListedStep DEF CopiesInv
<1>2. CopiesInv => CopiesNeedMishap
  BY DEF CopiesInv
<1>3. QED
  BY Types, PostsDistinct, CopiesInit, <1>1, <1>2, PTL DEF Spec

-----------------------------------------------------------------------------
(* What follows a publication.                                             *)

(* A published article is with the search engine or on its way there.      *)
Found ==
  \A s \in Slug : Posted(s) /\ s \notin stopped =>
    \/ s \in announced \cup pending \/ unread
    \/ run.slug = s /\ run.step \in Following \ {"channels"}

(* Its topic is out of the queue, or was queued again, unless its run is   *)
(* still about to say so; for a scheduled article no run ever does.        *)
Consumed ==
  \A s \in Slug : Posted(s) /\ s \notin stopped /\ Waits(TopicOf[s]) =>
    \/ TopicOf[s] \in again
    \/ \E p \in plan : p.slug = s
    \/ run.slug = s /\ run.step \in Following /\ ~run.scheduled

(* What the log reports on is in the content repository.                   *)
Canonical == run.step \in Following => run.canonical \/ run.slug \in stopped

FollowInv == OnceBut(queued, again) /\ Found /\ Consumed /\ Canonical

(* The topic queue is written by the operator and the log.                 *)
LEMMA QueueStays ==
  ASSUME [Next]_vars, ~Log, \A topic \in Topic : ~Queue(topic)
  PROVE  queued' = queued /\ again' = again
<1>1. CASE Daily
  BY <1>1 DEF Daily, Dispatch, Preflight, VerifyConfiguration, PickScript, SameDayGuard, Generate,
              Gate, Duplicates, Publish, Drain, Announce, PostTo, Verify, Final, Kill, RestOf, site,
              history
<1>2. CASE Midnight
  BY <1>2 DEF Midnight, site, history
<1>3. CASE \E w \in Weekly : Syndication(w)
  BY <1>3 DEF Syndication, Checkout, List, NextChannel, Commit, KillWeekly, Syndicate, WeekOnly
<1>4. CASE UNCHANGED vars
  BY <1>4 DEF vars, site, history
<1>5. QED
  BY SMTT(30), <1>1, <1>2, <1>3, <1>4 DEF Next

(* A topic with a post comes to wait only by being queued again, and what  *)
(* was queued again stays known as such while it waits.                    *)
QueueKept(s) ==
  Waits(TopicOf[s])' /\ Posted(s) /\ TopicOf[s] \notin again' =>
    Waits(TopicOf[s]) /\ TopicOf[s] \notin again

(* Nothing but what was queued again waits twice.                          *)
LEMMA QueueStep ==
  ASSUME TypeInv, OnceBut(queued, again), [Next]_vars
  PROVE  OnceBut(queued, again)' /\ \A s \in Slug : QueueKept(s)
<1>1. queued \in Seq(Topic)
  BY TypeParts DEF TypeInv, RestTypes
<1>2. ASSUME NEW topic \in Topic, Queue(topic)
      PROVE  OnceBut(queued, again)' /\ \A s \in Slug : QueueKept(s)
  <2>1. /\ queued' = Append(queued, topic) /\ again \subseteq again'
        /\ Waits(topic) \/ TopicPosted(topic, {}) => topic \in again'
    BY <1>2 DEF Queue
  <2>2. /\ DOMAIN queued = 1..Len(queued) /\ Len(queued) \in Nat
        /\ DOMAIN queued' = 1..(Len(queued) + 1)
        /\ \A i \in DOMAIN queued : queued'[i] = queued[i]
        /\ queued'[Len(queued) + 1] = topic
    BY <1>1, <2>1
  <2>3. ASSUME NEW i \in DOMAIN queued', NEW j \in DOMAIN queued', queued'[i] = queued'[j]
        PROVE  i = j \/ queued'[i] \in again'
    <3>1. CASE i \in DOMAIN queued /\ j \in DOMAIN queued
      BY <2>1, <2>2, <2>3, <3>1 DEF OnceBut
    <3>2. CASE i \in DOMAIN queued /\ j \notin DOMAIN queued
      <4>1. queued'[j] = topic /\ queued[i] = topic
        BY <2>2, <2>3, <3>2
      <4>2. QED
        BY <2>1, <2>3, <3>2, <4>1 DEF Waits
    <3>3. CASE i \notin DOMAIN queued /\ j \in DOMAIN queued
      <4>1. queued'[i] = topic /\ queued[j] = topic
        BY <2>2, <2>3, <3>3
      <4>2. QED
        BY <2>1, <3>3, <4>1 DEF Waits
    <3>4. CASE i \notin DOMAIN queued /\ j \notin DOMAIN queued
      BY <2>2, <3>4
    <3>5. QED
      BY <3>1, <3>2, <3>3, <3>4
  <2>4. ASSUME NEW s \in Slug, Waits(TopicOf[s])', Posted(s), TopicOf[s] \notin again'
        PROVE  Waits(TopicOf[s]) /\ TopicOf[s] \notin again
    <3>1. TopicOf[s] # topic
      BY <2>1, <2>4 DEF TopicPosted, Posted
    <3>2. PICK i \in DOMAIN queued' : queued'[i] = TopicOf[s]
      BY <2>4 DEF Waits
    <3>3. i \in DOMAIN queued /\ queued[i] = TopicOf[s]
      BY <2>2, <3>1, <3>2
    <3>4. QED
      BY <2>1, <2>4, <3>3 DEF Waits
  <2>5. QED
    BY <2>3, <2>4 DEF OnceBut, QueueKept
<1>3. CASE Log
  <2>1. again' = again \cap {queued'[i] : i \in DOMAIN queued'}
    BY <1>3 DEF Log
  <2>2. /\ OnceBut(queued', again)
        /\ \A i \in DOMAIN queued' : \E j \in DOMAIN queued : queued'[i] = queued[j]
    <3>1. CASE queued' = queued
      BY <3>1
    <3>2. ASSUME NEW topic, queued' = WithoutFirst(queued, topic)
          PROVE  /\ OnceBut(queued', again)
                 /\ \A i \in DOMAIN queued' : \E j \in DOMAIN queued : queued'[i] = queued[j]
      BY <1>1, <3>2, WithoutFirstTakes, WithoutFirstTyped
    <3>3. QED
      BY <1>3, <3>1, <3>2 DEF Log
  <2>3. OnceBut(queued, again)'
    BY <2>1, <2>2 DEF OnceBut
  <2>4. ASSUME NEW s \in Slug, Waits(TopicOf[s])', TopicOf[s] \notin again'
        PROVE  Waits(TopicOf[s]) /\ TopicOf[s] \notin again
    <3>1. PICK i \in DOMAIN queued' : queued'[i] = TopicOf[s]
      BY <2>4 DEF Waits
    <3>2. QED
      BY <2>1, <2>2, <2>4, <3>1 DEF Waits
  <2>5. QED
    BY <2>3, <2>4 DEF QueueKept
<1>4. CASE queued' = queued /\ again' = again
  BY <1>4 DEF OnceBut, Waits, QueueKept
<1>5. QED
  BY <1>2, <1>3, <1>4, QueueStays

(* What was announced or waits for it stays so, or a read failed.          *)
LEMMA PingsStay ==
  ASSUME [Next]_vars
  PROVE  announced \cup pending \subseteq announced' \cup pending' \/ unread'
<1>1. CASE Announce
  <2>1. CASE pending' = {run.slug} /\ unread' = (unread \/ pending \ {run.slug} # {})
    <3>1. CASE pending \ {run.slug} # {}
      BY <2>1, <3>1
    <3>2. CASE pending \ {run.slug} = {}
      <4>1. pending \subseteq pending'
        BY <2>1, <3>2
      <4>2. announced' = announced \/ announced' = announced \cup {run.slug}
        BY <1>1 DEF Announce
      <4>3. QED
        BY <4>1, <4>2
    <3>3. QED
      BY <3>1, <3>2
  <2>2. CASE ~(pending' = {run.slug} /\ unread' = (unread \/ pending \ {run.slug} # {}))
    BY <1>1, <2>2 DEF Announce
  <2>3. QED
    BY <2>1, <2>2
<1>2. CASE Drain
  BY <1>2 DEF Drain
<1>3. CASE Daily /\ ~Announce /\ ~Drain
  BY <1>3 DEF Daily, Dispatch, Preflight, VerifyConfiguration, PickScript, SameDayGuard, Generate,
              Gate, Duplicates, Publish, PostTo, Log, Verify, Final, Kill, RestOf, site
<1>4. CASE Midnight \/ \E topic \in Topic : Queue(topic)
  BY <1>4 DEF Midnight, Queue, site
<1>5. CASE \E w \in Weekly : Syndication(w)
  BY <1>5, DailyStays
<1>6. CASE UNCHANGED vars
  BY <1>6 DEF vars, site
<1>7. QED
  BY <1>1, <1>2, <1>3, <1>4, <1>5, <1>6 DEF Next

(* An article that publish adds is taken to the announcement, unless a     *)
(* call failed.                                                            *)
LEMMA NewlyPosted ==
  ASSUME TypeInv, Publish, NEW s \in Slug, ~Posted(s), Posted(s)', s \notin stopped'
  PROVE  /\ s = run.slug /\ run'.slug = s /\ run'.step \in Following' \ {"channels"}
         /\ run'.scheduled = run.scheduled /\ File \in posts'
<1>1. PICK p \in posts' : p.slug = s
  BY DEF Posted
<1>2. p \notin posts
  BY <1>1 DEF Posted
<1>3. p = File /\ s = run.slug
  BY <1>1, <1>2, PublishWrites
<1>4. posts' # posts /\ run.slug \notin stopped'
  BY <1>1, <1>2, <1>3
<1>5. run.scheduled \in BOOLEAN
  BY TypeParts DEF TypeInv, RunType
<1>6. QED
  BY <1>1, <1>3, <1>4, <1>5, PublishDoes DEF DoesPublish, Following

(* The steps that a run may take while it announces.                       *)
LEMMA AnnouncingDoes ==
  ASSUME TypeInv, Daily, run.step \in Following \ {"channels"}
  PROVE  /\ Announce \/ Drain \/ Kill
         /\ run.slug \in Slug
<1>1. /\ run.step \in {"announce", "drain"} /\ run.slug \in Slug
  BY DEF TypeInv, HasArticle, Working, Following
<1>2. QED
  BY <1>1, DispatchDoes
     DEF Daily, DoesDispatch, Under, Ends, At, Preflight, VerifyConfiguration, PickScript,
         SameDayGuard, Generate, Gate, Duplicates, Publish, PostTo, Log, Verify, Final

(* An article that was published does not get lost on its way.             *)
LEMMA FoundStep ==
  ASSUME TypeInv, Found, [Next]_vars
  PROVE  Found'
<1>1. /\ stopped \subseteq stopped' /\ (unread => unread')
      /\ announced \cup pending \subseteq announced' \cup pending' \/ unread'
  BY Grows, PingsStay
<1>2. SUFFICES ASSUME NEW s \in Slug, Posted(s)', s \notin stopped'
               PROVE  \/ s \in announced' \cup pending' \/ unread'
                      \/ run'.slug = s /\ run'.step \in Following' \ {"channels"}
  BY DEF Found
<1>3. CASE ~Posted(s)
  <2>1. Publish
    BY <1>2, <1>3, Grows DEF Posted
  <2>2. QED
    BY <1>2, <1>3, <2>1, NewlyPosted
<1>4. CASE Posted(s) /\ (s \in announced \cup pending \/ unread)
  BY <1>1, <1>4
<1>5. CASE run.slug = s /\ run.step \in Following \ {"channels"}
  <2>1. CASE Daily
    <3>1. CASE Announce
      BY <1>2, <1>5, <3>1 DEF Announce
    <3>2. CASE Drain
      <4>1. ~run.scheduled
        BY <1>5, <3>2 DEF Drain, At, Following
      <4>2. Moves("announce")
        BY <1>2, <1>5, <3>2, <4>1, DrainDoes DEF DoesDrain
      <4>3. QED
        BY <1>5, <4>2 DEF Moves, Following
    <3>3. CASE Kill
      BY <1>2, <1>5, <3>3 DEF Kill
    <3>4. QED
      BY <1>5, <2>1, <3>1, <3>2, <3>3, AnnouncingDoes
  <2>2. CASE ~Daily
    <3>1. Under
      BY <1>5 DEF Under, Following, Ends
    <3>2. run' = run
      BY <2>2, <3>1, RunStays
    <3>3. QED
      BY <1>5, <3>2 DEF Following
  <2>3. QED
    BY <2>1, <2>2
<1>6. QED
  BY <1>1, <1>2, <1>3, <1>4, <1>5 DEF Found

(* The log of a run whose article is in the repository consumes its topic, *)
(* it was queued again, or its call failed.                                *)
LEMMA LogConsumes ==
  ASSUME TypeInv, OnceBut(queued, again), Canonical, Log, ~run.scheduled,
         run.slug \notin stopped', TopicOf[run.slug] \notin again
  PROVE  \A i \in DOMAIN queued' : queued'[i] # TopicOf[run.slug]
<1>1. At("channels") /\ stopped \subseteq stopped' /\ queued \in Seq(Topic)
  BY TypeParts DEF Log, TypeInv, RestTypes
<1>2. run.canonical
  BY <1>1 DEF Canonical, At, Following
<1>3. NotifiedOf = {TopicOf[run.slug]}
  BY DEF NotifiedOf
<1>4. queued' = WithoutFirst(queued, CHOOSE topic \in NotifiedOf : TRUE)
  BY <1>2, <1>3 DEF Log
<1>5. (CHOOSE topic \in NotifiedOf : TRUE) = TopicOf[run.slug]
  BY <1>3
<1>6. queued' = WithoutFirst(queued, TopicOf[run.slug])
  BY <1>4, <1>5
<1>7. QED
  BY <1>1, <1>6, WithoutFirstTakes

(* A published topic is not served again but from the plan.                *)
LEMMA ConsumedStep ==
  ASSUME TypeInv, PostsInv, FollowInv, [Next]_vars
  PROVE  Consumed'
<1>1. /\ stopped \subseteq stopped' /\ plan' = plan /\ posts \subseteq posts'
      /\ run \in RunType /\ run.scheduled \in BOOLEAN
  BY Grows, TypeParts DEF TypeInv, RunType
<1>2. SUFFICES ASSUME NEW s \in Slug, Posted(s)', s \notin stopped', Waits(TopicOf[s])',
                      TopicOf[s] \notin again', ~\E p \in plan : p.slug = s
               PROVE  run'.slug = s /\ run'.step \in Following' /\ ~run'.scheduled
  BY <1>1 DEF Consumed
<1>3. CASE ~Posted(s)
  <2>1. Publish
    BY <1>2, <1>3, Grows DEF Posted
  <2>2. ~run.scheduled
    <3>1. run.scheduled => File \in plan /\ File.slug = s
      BY <1>2, <1>3, <2>1, NewlyPosted, PublishWrites DEF PostsInv, Planned, Publish, At, Working
    <3>2. QED
      BY <1>2, <3>1
  <2>3. QED
    BY <1>2, <1>3, <2>1, <2>2, NewlyPosted
<1>4. CASE Posted(s)
  <2>1. Waits(TopicOf[s]) /\ TopicOf[s] \notin again
    BY <1>2, <1>4, QueueStep DEF FollowInv, QueueKept
  <2>2. run.slug = s /\ run.step \in Following /\ ~run.scheduled
    BY <1>1, <1>2, <1>4, <2>1 DEF FollowInv, Consumed
  <2>3. CASE ~Daily
    <3>1. Under
      BY <2>2 DEF Under, Following, Ends
    <3>2. run' = run
      BY <2>3, <3>1, RunStays
    <3>3. QED
      BY <2>2, <3>2 DEF Following
  <2>5. CASE Drain
    <3>1. Moves("announce") \/ Moves("channels")
      BY <2>2, <2>5, DrainDoes DEF DoesDrain
    <3>2. QED
      BY <2>2, <3>1 DEF Moves, Following
  <2>6. CASE Announce
    BY <2>2, <2>6, AnnounceDoes DEF DoesAnnounce, Moves, Following
  <2>7. ASSUME NEW ch \in Channel, PostTo(ch)
        PROVE  run'.slug = s /\ run'.step \in Following' /\ ~run'.scheduled
    BY <2>2, <2>7, PostDoes DEF DoesPost, Following
  <2>8. CASE Log
    <3>1. \A i \in DOMAIN queued' : queued'[i] # TopicOf[s]
      BY <1>2, <2>1, <2>2, <2>8, LogConsumes DEF FollowInv
    <3>2. QED
      BY <1>2, <3>1 DEF Waits
  <2>9. CASE Kill
    BY <1>2, <2>2, <2>9 DEF Kill
  <2>10. run.step \in {"announce", "channels", "drain"}
    BY <2>2 DEF Following
  <2>11. CASE Daily
    BY <2>5, <2>6, <2>7, <2>8, <2>9, <2>10, <2>11, DispatchDoes
       DEF Daily, DoesDispatch, Under, Ends, At, Preflight, VerifyConfiguration, PickScript,
           SameDayGuard, Generate, Gate, Duplicates, Publish, Verify, Final
  <2>12. QED
    BY <2>3, <2>11
<1>5. QED
  BY <1>3, <1>4

(* A run follows up an article that it wrote, or whose call failed.        *)
LEMMA CanonicalStep ==
  ASSUME TypeInv, NothingToDo, Canonical, [Next]_vars
  PROVE  Canonical'
<1>1. stopped \subseteq stopped'
  BY Grows
<1>2. CASE Quiet
  BY <1>2 DEF Quiet, Canonical
<1>3. CASE Follows
  BY <1>1, <1>3 DEF Follows, Canonical
<1>4. CASE Publish
  BY <1>2, <1>4, PublishSorts DEF Canonical
<1>5. CASE run' = run
  <2>1. run'.step \in Following' => run.step \in Following
    BY <1>5 DEF Following
  <2>2. QED
    BY <1>1, <1>5, <2>1 DEF Canonical
<1>6. QED
  BY <1>2, <1>3, <1>4, <1>5, DailySorts, OthersSort

(* The articles that a run is done with are followed up.                   *)
LEMMA FollowedUp ==
  ASSUME FollowInv
  PROVE  PublicationFollowedUp
<1>1. SUFFICES ASSUME NEW s \in Slug, Posted(s), ~(Under /\ run.slug = s), s \notin stopped
               PROVE  /\ s \in announced \cup pending \/ unread
                      /\ Waits(TopicOf[s]) => TopicOf[s] \in again \/ \E p \in plan : p.slug = s
  BY DEF PublicationFollowedUp, Settled
<1>2. run.slug = s => run.step \notin Following
  BY <1>1 DEF Under, Following, Ends
<1>3. QED
  BY <1>1, <1>2 DEF FollowInv, Found, Consumed

(* What is published is found, and its topic is not served again unless it *)
(* was queued again, or a call of its run failed: for every topic queue to *)
(* begin with, and whatever the operator adds to it and when.              *)
THEOREM PublicationsFollowedUp == Spec => []PublicationFollowedUp
<1>1. Init => FollowInv
  <2>1. Init => OnceBut(queued, again)
    <3> SUFFICES ASSUME Init, NEW i \in DOMAIN queued, NEW j \in DOMAIN queued,
                        queued[i] = queued[j], i # j
                 PROVE  queued[i] \in again
      BY DEF OnceBut
    <3>1. queued \in Seq(Topic) /\ again = Repeated(queued)
      BY InputAssumption DEF Init
    <3>2. QED
      BY <3>1 DEF Repeated
  <2>2. Init => Found /\ Consumed /\ Canonical
    BY DEF Init, NoRun, Found, Consumed, Canonical, Posted, Following
  <2>3. QED
    BY <2>1, <2>2 DEF FollowInv
<1>2. TypeInv /\ PostsInv /\ CopiesInv /\ FollowInv /\ [Next]_vars => FollowInv'
  BY QueueStep, FoundStep, ConsumedStep, CanonicalStep DEF FollowInv, CopiesInv
<1>3. FollowInv => PublicationFollowedUp
  BY FollowedUp
<1>4. QED
  BY Types, PostsDistinct, CopiesAlone, <1>1, <1>2, <1>3, PTL DEF Spec

=============================================================================
