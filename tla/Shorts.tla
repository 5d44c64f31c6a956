------------------------------- MODULE Shorts -------------------------------
(***************************************************************************)
(* The daily production of videos: the steps of the workflow               *)
(* autonomous-video-production.yml, and the scripts they call              *)
(* (find_trending, trending_to_programs, generate_shorts, compile_daily,   *)
(* post_social, repost_top, youtube_publication).  A run mines topics,     *)
(* renders a video of each program, stitches them into one more, uploads   *)
(* all of them, posts them to the social platforms, posts an old reel      *)
(* again, and then asks the public site whether the uploads can be seen.   *)
(* One run goes at a time; each begins from nothing.                       *)
(***************************************************************************)
EXTENDS Naturals, FiniteSets, FiniteSetsExt

CONSTANTS
  Fixed,       \* the programs of the script, numbers
  Topic,       \* those that the topics of the day make, numbers
  Namesake,    \* the topics whose name is that of a program of the script
  Compilation, \* the number of the stitched video, above all of these
  Production,  \* the runs, numbers
  Reel,        \* the reels of the account that are old enough, numbers: the likes
  MaxFaults    \* bound on failures, lost answers and runs that are cut off

(* Assumed of the constants, in Services.                                  *)
ShortBounds ==
  /\ Fixed \cap Topic = {} /\ Namesake \subseteq Topic
  /\ \A p \in Fixed \cup Topic : p < Compilation
  /\ Production = 1..Cardinality(Production) /\ Reel # {} /\ MaxFaults \in Nat

VARIABLES
  production,  \* each run: its step, the programs to render, the manifest, the record
               \* of uploads and what is left to do in the step
  channel,     \* the videos that the channel has
  feeds,       \* the posts that the social platforms have
  encores,     \* which run posted which reel again
  unfilmed,    \* auxiliary: the programs that a failure kept out
  mislaid,     \* auxiliary: the uploads that no record tells of
  faults

shorts == <<production, channel, feeds, encores, unfilmed, mislaid, faults>>

Entry == Fixed \cup Topic \cup {Compilation}
Platform == {"facebook", "instagram", "threads"}
Tool == {"model", "edge-tts", "gtts", "espeak-ng", "stock", "ffmpeg"}
Step == {"idle", "generate", "compile", "auth", "upload", "release", "social", "repost", "verify",
         "done", "preview", "failed", "gone"}
Over == {"done", "preview", "failed", "gone"}
Status == {"none", "uploaded", "failed", "success", "unverified"}
Video == Production \X Entry

TypeOK ==
  /\ production \in [Production -> [at : Step, programs : SUBSET Entry, manifest : SUBSET Entry,
                                    uploads : [Entry -> Status], todo : SUBSET Entry,
                                    platform : Platform]]
  /\ channel \subseteq Video
  /\ feeds \subseteq [video : Video, platform : Platform, link : {"asset", "video", "none"}]
  /\ encores \subseteq Production \X Reel
  /\ unfilmed \subseteq Video /\ mislaid \subseteq channel
  /\ faults \in 0..MaxFaults

New == [at |-> "idle", programs |-> {}, manifest |-> {}, uploads |-> [p \in Entry |-> "none"],
        todo |-> {}, platform |-> "facebook"]
Init ==
  /\ production = [r \in Production |-> New]
  /\ channel = {} /\ feeds = {} /\ encores = {} /\ unfilmed = {} /\ mislaid = {} /\ faults = 0

At(r, step) == production[r].at = step
Goto(r, step) == production' = [production EXCEPT ![r].at = step]
Begin(r, step, todo) == production' = [production EXCEPT ![r].at = step, ![r].todo = todo]
Fault == faults < MaxFaults /\ faults' = faults + 1
Outside == <<channel, feeds, encores>>
Auxiliary == <<unfilmed, mislaid>>
First(S) == Min(S)

-----------------------------------------------------------------------------
(* A run starts when no other is under way.  Its topics are those that     *)
(* could be found and made into programs; a name that the script has       *)
(* already is passed over.                                                 *)
Idle(r) == At(r, "idle") \/ production[r].at \in Over
Extra(topics) == topics \ Namesake
Mine(r) ==
  /\ At(r, "idle") /\ \A q \in Production : Idle(q) /\ (q < r => ~At(q, "idle"))
  /\ \E topics \in SUBSET Topic :
       /\ \/ topics = Topic /\ UNCHANGED faults
          \/ topics # Topic /\ Fault
       /\ LET programs == Fixed \cup Extra(topics)
          IN production' = [production EXCEPT ![r].at = "generate", ![r].programs = programs,
                                              ![r].todo = programs]
  /\ UNCHANGED <<Outside, Auxiliary>>

(* The next program.  The script is a model's or else a template; the      *)
(* voice is that of the first engine that works; the scenes are stock      *)
(* films or else a gradient; and without a voice or a film there is no     *)
(* video.                                                                  *)
Script(up) == IF "model" \in up THEN "written" ELSE "template"
Voice(up) ==
  IF "edge-tts" \in up THEN "edge-tts"
  ELSE IF "gtts" \in up THEN "gtts"
  ELSE IF "espeak-ng" \in up /\ "ffmpeg" \in up THEN "espeak-ng" ELSE "none"
Scenes(up) ==
  IF "ffmpeg" \notin up THEN "none"
  ELSE IF "stock" \in up THEN "broll" ELSE "gradient"
Filmed(up) == Script(up) # "none" /\ Voice(up) # "none" /\ Scenes(up) # "none"
MakeOne(r) ==
  /\ At(r, "generate") /\ production[r].todo # {}
  /\ LET p == First(production[r].todo)
     IN \E up \in SUBSET Tool :
          /\ \/ up = Tool /\ UNCHANGED faults
             \/ up # Tool /\ Fault
          /\ production' = [production EXCEPT ![r].todo = @ \ {p},
                                              ![r].manifest = IF Filmed(up) THEN @ \cup {p} ELSE @]
          /\ unfilmed' = IF Filmed(up) THEN unfilmed ELSE unfilmed \cup {<<r, p>>}
  /\ UNCHANGED <<Outside, mislaid>>
Generated(r) ==
  /\ At(r, "generate") /\ production[r].todo = {}
  /\ Goto(r, IF production[r].manifest = {} THEN "failed" ELSE "compile")
  /\ UNCHANGED <<Outside, Auxiliary, faults>>

(* Two videos or more are stitched into one that joins the manifest, if    *)
(* all goes well; a preview ends here.                                     *)
Compile(r) ==
  /\ At(r, "compile")
  /\ \/ Cardinality(production[r].manifest) < 2 /\ Goto(r, "auth") /\ UNCHANGED faults
     \/ /\ Cardinality(production[r].manifest) >= 2
        /\ production' = [production EXCEPT ![r].at = "auth", ![r].manifest = @ \cup {Compilation}]
        /\ UNCHANGED faults
     \/ Cardinality(production[r].manifest) >= 2 /\ Goto(r, "auth") /\ Fault
  /\ UNCHANGED <<Outside, Auxiliary>>
Preview(r) ==
  /\ At(r, "auth") /\ Goto(r, "preview")
  /\ UNCHANGED <<Outside, Auxiliary, faults>>
Auth(r) ==
  /\ At(r, "auth")
  /\ \/ Begin(r, "upload", production[r].manifest) /\ UNCHANGED faults
     \/ Goto(r, "failed") /\ Fault
  /\ UNCHANGED <<Outside, Auxiliary>>

(* The next upload: accepted, refused, or accepted with the answer lost,   *)
(* which is recorded as a failure.  The record is written when all have    *)
(* been tried.                                                             *)
Upload(r) ==
  /\ At(r, "upload") /\ production[r].todo # {}
  /\ LET p == First(production[r].todo)
         Recorded(status) == production' = [production EXCEPT ![r].todo = @ \ {p},
                                                              ![r].uploads[p] = status]
     IN \/ /\ Recorded("uploaded") /\ channel' = channel \cup {<<r, p>>}
           /\ UNCHANGED <<mislaid, faults>>
        \/ Recorded("failed") /\ Fault /\ UNCHANGED <<channel, mislaid>>
        \/ /\ Recorded("failed") /\ Fault /\ channel' = channel \cup {<<r, p>>}
           /\ mislaid' = mislaid \cup {<<r, p>>}
  /\ UNCHANGED <<feeds, encores, unfilmed>>
Uploaded(r) ==
  /\ At(r, "upload") /\ production[r].todo = {} /\ Goto(r, "release")
  /\ UNCHANGED <<Outside, Auxiliary, faults>>

(* The films are put where the platforms can fetch them; without that      *)
(* nothing is posted.                                                      *)
Release(r) ==
  /\ At(r, "release")
  /\ \/ Begin(r, "social", production[r].manifest) /\ UNCHANGED faults
     \/ Goto(r, "repost") /\ Fault
  /\ UNCHANGED <<Outside, Auxiliary>>

(* The next post: each video to each platform, once.  Threads is given the *)
(* address of the upload, or that of the film; the others take the film.   *)
Link(r, p, platform) ==
  IF platform # "threads" THEN "asset"
  ELSE IF production[r].uploads[p] = "uploaded" THEN "video" ELSE "asset"
After(r) ==
  LET p == First(production[r].todo)
      following == [facebook |-> "instagram", instagram |-> "threads", threads |-> "facebook"]
  IN production' = [production EXCEPT
       ![r].platform = following[@],
       ![r].todo = IF production[r].platform = "threads" THEN @ \ {p} ELSE @]
Post(r) ==
  /\ At(r, "social") /\ production[r].todo # {} /\ After(r)
  /\ LET p == First(production[r].todo)
         platform == production[r].platform
         made == [video |-> <<r, p>>, platform |-> platform, link |-> Link(r, p, platform)]
     IN \/ feeds' = feeds \cup {made} /\ UNCHANGED faults
        \/ feeds' = feeds \cup {made} /\ Fault
        \/ feeds' = feeds /\ Fault
  /\ UNCHANGED <<channel, encores, Auxiliary>>
Posted(r) ==
  /\ At(r, "social") /\ production[r].todo = {} /\ Goto(r, "repost")
  /\ UNCHANGED <<Outside, Auxiliary, faults>>

(* The reel that did best is posted again; the copies carry a mark and are *)
(* passed over, the original carries none.                                 *)
Top == Max(Reel)
Repost(r) ==
  /\ At(r, "repost") /\ Goto(r, "verify")
  /\ \/ encores' = encores \cup {<<r, Top>>} /\ UNCHANGED faults
     \/ encores' = encores \cup {<<r, Top>>} /\ Fault
     \/ encores' = encores /\ Fault
  /\ UNCHANGED <<channel, feeds, Auxiliary>>

(* What was accepted is looked up until the deadline; the run is a success *)
(* when each entry of its record is.                                       *)
Accepted(r) == {p \in Entry : production[r].uploads[p] = "uploaded"}
Verified(r) == {p \in Entry : production[r].uploads[p] = "success"}
Verify(r) ==
  /\ At(r, "verify")
  /\ \E seen \in SUBSET Accepted(r) :
       /\ \/ seen = Accepted(r) /\ UNCHANGED faults
          \/ seen # Accepted(r) /\ Fault
       /\ production' = [production EXCEPT
            ![r].at = IF seen = production[r].manifest THEN "done" ELSE "failed",
            ![r].uploads = [p \in Entry |-> IF p \in seen THEN "success"
                                            ELSE IF p \in Accepted(r) THEN "unverified" ELSE @[p]]]
  /\ UNCHANGED <<Outside, Auxiliary>>

(* The runner ends, by its time limit or otherwise; during the uploads     *)
(* their record is not written yet.                                        *)
CutOff(r) ==
  /\ ~Idle(r) /\ Fault
  /\ IF At(r, "upload")
     THEN /\ production' = [production EXCEPT ![r] = [New EXCEPT !.at = "gone"]]
          /\ mislaid' = mislaid \cup {v \in channel : v[1] = r}
     ELSE Goto(r, "gone") /\ UNCHANGED mislaid
  /\ UNCHANGED <<Outside, unfilmed>>

Next == \E r \in Production :
  \/ Mine(r) \/ MakeOne(r) \/ Generated(r) \/ Compile(r) \/ Preview(r) \/ Auth(r)
  \/ Upload(r) \/ Uploaded(r) \/ Release(r) \/ Post(r) \/ Posted(r) \/ Repost(r)
  \/ Verify(r) \/ CutOff(r)

-----------------------------------------------------------------------------
(* What is in public is what the record says, up to lost answers and runs  *)
(* that were cut off: a verified video is on the channel, and one that the *)
(* record does not call accepted is there only if it was mislaid.  A link  *)
(* to a video is to one that is there; nothing is posted of an upload that *)
(* was never tried; and it is one reel that is posted again, whatever the  *)
(* day.                                                                    *)
EffectsOnce ==
  /\ \A v \in channel :
       production[v[1]].uploads[v[2]] \in {"none", "failed"} => v \in mislaid
  /\ \A r \in Production : \A p \in Verified(r) : <<r, p>> \in channel
  /\ \A f \in feeds :
       /\ f.link = "video" => f.video \in channel
       /\ production[f.video[1]].uploads[f.video[2]] # "none"
  /\ \A a \in encores : \A b \in encores : a[2] = b[2]

(* A run that is done has a verified video of each program, except those   *)
(* that could not be filmed; and a run that ends in failure or is cut off  *)
(* met one of the faults.                                                  *)
NothingLost ==
  /\ \A r \in Production :
       At(r, "done") =>
         /\ Verified(r) = production[r].manifest
         /\ \A p \in production[r].programs : p \in Verified(r) \/ <<r, p>> \in unfilmed
         /\ \A p \in Verified(r) : <<r, p>> \in channel
  /\ Cardinality({r \in Production : production[r].at \in {"failed", "gone"}}) <= faults
=============================================================================
