------------------------------ MODULE Content ------------------------------
(***************************************************************************)
(* The content pipeline: the daily workflow (.github/workflows/            *)
(* daily-content.yml) with the publishers it runs (scripts/publish_        *)
(* article.py, scripts/publish_scheduled_article.py) and their queue of    *)
(* search engine notifications (scripts/indexnow_pending.py), the weekly   *)
(* syndication (scripts/syndicate_blog.py) and the topic queue of          *)
(* app/api/content-sync.                                                   *)
(*                                                                         *)
(* One daily run is under way at a time, which is what its concurrency     *)
(* group grants; the weekly runs have none and interleave with it and with *)
(* each other at every call of a service.  A call may fail, or take effect *)
(* with its answer lost.  A slug stands for one draft that the language    *)
(* model makes of a topic.                                                 *)
(***************************************************************************)
EXTENDS Naturals, Sequences, FiniteSets

CONSTANTS
  Topic, Slug,
  TopicOf,       \* the topic of each slug: its drafts overlap, two topics do not
  NoSlug,        \* no slug
  LastDay,
  Channel,       \* the channels a publisher posts to: Dev.to, Hashnode, Medium
  Syndicated,    \* those of the weekly runs, in their order
  Weekly,        \* the weekly runs
  Plans,         \* what data/scheduled_articles may hold: sets of [date, slug]
  Queues,        \* what the topic queue may hold
  MaxRuns,       \* bound on daily runs
  MaxRequests,   \* bound on topics the operator queues before the last run
  MaxFaults      \* bound on calls that fail, lost answers and jobs that are killed

Day == 1..LastDay
Post == [date : Day, slug : Slug]

ASSUME SlugAssumption == TopicOf \in [Slug -> Topic] /\ NoSlug \notin Slug
ASSUME DayAssumption == LastDay \in Nat \ {0}
ASSUME PlanAssumption ==
  \A plan \in Plans : plan \subseteq Post /\ \A p, q \in plan : p.date = q.date => p = q
ASSUME InputAssumption ==
  Queues \subseteq Seq(Topic) /\ Syndicated \in Seq(Channel)
    /\ {MaxRuns, MaxRequests, MaxFaults} \subseteq Nat

VARIABLES
  day,         \* today, UTC
  plan,        \* the scheduled articles
  posts,       \* the files of _posts in the content repository
  copies,      \* how many articles each channel holds of each slug: 0, 1, or more
  queued,      \* contentsync_topics that are not consumed, oldest first
  pending,     \* _data/indexnow_pending.json
  announced,   \* slugs whose URL was accepted by IndexNow
  run,         \* the daily run
  weekly,      \* the weekly runs
  postmap,     \* data/syndication_postmap.json on main
  runs, requests, faults, \* what the bounds count
  forced,      \* auxiliary: slugs that a run with FORCE_PUBLISH took on
  blind,       \* auxiliary: days on which the same-day guard read nothing
  unread,      \* auxiliary: the queue was overwritten after a failed read
  stopped,     \* auxiliary: slugs whose run was killed or had a call fail
  met,         \* auxiliary: a weekly run met another run
  again        \* auxiliary: waiting topics queued while they waited, or after a post

site == <<posts, copies, queued, pending, announced>>
history == <<forced, blind, unread, stopped, met, again, requests>>
vars == <<day, plan, site, run, weekly, postmap, runs, faults, history>>

Ends == {"green", "red", "verified"}
RunStep == {"idle", "preflight", "check", "script", "guard", "generate", "gate", "duplicates",
            "publish", "drain", "announce", "channels", "verify", "final"} \cup Ends
WeekStep == {"off", "list", "posting", "over"}

TypeOK ==
  /\ day \in Day /\ plan \in Plans /\ posts \subseteq Post
  /\ copies \in [Channel -> [Slug -> 0..2]]
  /\ queued \in Seq(Topic)
  /\ pending \subseteq Slug /\ announced \subseteq Slug
  /\ run \in [step : RunStep, force : BOOLEAN, healing : BOOLEAN, scheduled : BOOLEAN,
              date : Day, slug : Slug \cup {NoSlug}, canonical : BOOLEAN,
              todo : SUBSET Channel]
  /\ weekly \in [Weekly -> [step : WeekStep, nth : 1..(Len(Syndicated) + 1), out : SUBSET Slug,
                            todo : SUBSET Slug, have : SUBSET Slug,
                            map : SUBSET (Channel \X Slug)]]
  /\ postmap \subseteq Channel \X Slug
  /\ runs \in 0..MaxRuns /\ requests \in 0..MaxRequests /\ faults \in 0..MaxFaults
  /\ forced \subseteq Slug /\ blind \subseteq Day /\ stopped \subseteq Slug
  /\ unread \in BOOLEAN /\ met \in BOOLEAN /\ again \subseteq Topic

(* The topics that stand in a queue more than once.                        *)
Repeated(q) == {topic \in Topic : \E i, j \in DOMAIN q : i # j /\ q[i] = topic /\ q[j] = topic}

NoRun ==
  [step |-> "idle", force |-> FALSE, healing |-> FALSE, scheduled |-> FALSE, date |-> 1,
   slug |-> NoSlug, canonical |-> FALSE, todo |-> {}]
NoWeekly == [step |-> "off", nth |-> 1, out |-> {}, todo |-> {}, have |-> {}, map |-> {}]
Finished == [NoWeekly EXCEPT !.step = "over"]

Init ==
  /\ day = 1 /\ plan \in Plans
  /\ posts = {} /\ copies = [ch \in Channel |-> [s \in Slug |-> 0]]
  /\ queued \in Queues
  /\ pending = {} /\ announced = {}
  /\ run = NoRun /\ weekly = [w \in Weekly |-> NoWeekly] /\ postmap = {}
  /\ runs = 0 /\ requests = 0 /\ faults = 0
  /\ forced = {} /\ blind = {} /\ unread = FALSE /\ stopped = {} /\ met = FALSE
  /\ again = Repeated(queued)

-----------------------------------------------------------------------------
(* The daily run. *)

Fine == UNCHANGED faults
Fault == faults < MaxFaults /\ faults' = faults + 1

Under == run.step \notin {"idle"} \cup Ends
At(step) == run.step = step
Goto(step) ==
  run' = IF step \in Ends THEN [NoRun EXCEPT !.step = step]
         ELSE [run EXCEPT !.step = step]
Posted(slug) == \E p \in posts : p.slug = slug
TopicPosted(topic, but) == \E p \in posts \ but : TopicOf[p.slug] = topic
PostDated(d) == \E p \in posts : p.date = d
AfterScript == IF run.healing THEN "final" ELSE "verify"
OneMore(n) == IF n < 2 THEN n + 1 ELSE n
RestOf == UNCHANGED <<day, plan, weekly, postmap, runs>>

Dispatch ==
  /\ ~Under /\ runs < MaxRuns
  /\ runs' = runs + 1
  /\ \E force \in BOOLEAN : run' = [NoRun EXCEPT !.step = "preflight", !.force = force]
  /\ met' = (met \/ \E w \in Weekly : weekly[w].step \in {"list", "posting"})
  /\ Fine /\ UNCHANGED <<day, plan, site, weekly, postmap, forced, blind, unread, stopped,
                       again, requests>>

(* The preflight: the token reads the content repository, and there is a   *)
(* provider or a scheduled article.  A run that only verifies then asks    *)
(* each service whether its credentials hold, and is done.                 *)
Preflight ==
  /\ At("preflight")
  /\ \/ (\E to \in {"script", "check"} : Goto(to)) /\ Fine
     \/ Goto("red") /\ Fault
  /\ RestOf /\ UNCHANGED <<site, history>>
CredentialsHold == BOOLEAN
VerifyConfiguration ==
  /\ At("check")
  /\ \E holds \in CredentialsHold : Goto(IF holds THEN "verified" ELSE "red")
  /\ Fine /\ RestOf /\ UNCHANGED <<site, history>>

(* Mutant: the date of a clock ahead of UTC.                               *)
Tomorrow == day + 1

Today == day

(* The shell picks the publisher; the publisher takes the date.            *)
PickScript ==
  /\ At("script")
  /\ run' = IF \E p \in plan : p.date = Today
            THEN [run EXCEPT !.step = "drain", !.scheduled = TRUE, !.date = Today,
                             !.slug = (CHOOSE p \in plan : p.date = Today).slug]
            ELSE [run EXCEPT !.step = "guard", !.date = Today]
  /\ Fine /\ RestOf /\ UNCHANGED <<site, history>>

(* _todays_post_exists: a listing that cannot be read counts as no post.   *)
SameDayGuard ==
  /\ At("guard")
  /\ \/ run.force /\ Goto("generate") /\ Fine /\ UNCHANGED blind
     \/ /\ ~run.force
        /\ Goto(IF PostDated(run.date) THEN AfterScript ELSE "generate")
        /\ Fine /\ UNCHANGED blind
     \/ ~run.force /\ Goto("generate") /\ Fault /\ blind' = blind \cup {run.date}
  /\ RestOf /\ UNCHANGED <<site, forced, unread, stopped, met, again, requests>>

(* _default_topic: the input, the head of the queue, or the rotation.      *)
Asked == Topic

(* Whatever slug the provider gives it, the article is about its topic;    *)
(* neither the table it normalises nor the headings it adds change that.   *)
Drafts(topic) == {slug \in Slug : TopicOf[slug] = topic}
Answers(topic) == Drafts(topic) \cup {NoSlug}

(* generate_article: the first answer of a provider, which goes through    *)
(* the gate; one that is rejected is answered for again, under a new slug. *)
Generate ==
  /\ At("generate")
  /\ \E topic \in Asked : \E answer \in Answers(topic) :
       IF answer = NoSlug THEN Goto("red")
       ELSE run' = [run EXCEPT !.step = "gate", !.slug = answer]
  /\ Fine /\ RestOf /\ UNCHANGED <<site, history>>
Quality == {"passes", "rejected"}
Gate ==
  /\ At("gate")
  /\ \E quality \in Quality :
       IF quality = "passes" THEN Goto("duplicates")
       ELSE \E answer \in Answers(TopicOf[run.slug]) :
              IF answer = NoSlug THEN Goto("red")
              ELSE run' = [run EXCEPT !.step = "duplicates", !.slug = answer]
  /\ Fine /\ RestOf /\ UNCHANGED <<site, history>>

(* Mutant: a listing that cannot be read counts as no duplicate.           *)
DuplicatesUnread ==
  /\ At("duplicates")
  /\ \/ Goto("publish")
     \/ TopicPosted(TopicOf[run.slug], {}) /\ ~run.force /\ Goto("red")
  /\ Fine /\ RestOf /\ UNCHANGED <<site, history>>

(* find_duplicate_post on a listing; a listing that fails ends the script. *)
(* A scheduled article does not count its own file.                        *)
File == [date |-> run.date, slug |-> run.slug]
Duplicates ==
  LET found == TopicPosted(TopicOf[run.slug], IF run.scheduled THEN {File} ELSE {}) IN
  /\ At("duplicates")
  /\ \/ Goto(IF found /\ ~run.force THEN "red" ELSE "publish") /\ Fine
     \/ Goto("red") /\ Fault
  /\ RestOf /\ UNCHANGED <<site, history>>

(* publish_github replaces a file it finds, publish_canonical does not.    *)
(* Without an answer the first goes on with the channels; the second ends. *)
Publish ==
  LET written == posts' = posts \cup {File} /\ (File \in posts => ~run.scheduled)
      cut == run' = IF run.scheduled THEN [NoRun EXCEPT !.step = "red"]
                     ELSE [run EXCEPT !.step = "channels", !.todo = Channel]
  IN
  /\ At("publish")
  /\ \/ /\ written /\ Fine
        /\ run' = [run EXCEPT !.step = IF run.scheduled THEN "announce" ELSE "drain",
                              !.canonical = TRUE, !.todo = Channel]
        /\ UNCHANGED stopped
     \/ (written \/ UNCHANGED posts) /\ Fault /\ cut /\ stopped' = stopped \cup {run.slug}
     \/ File \in posts /\ run.scheduled /\ Fine /\ cut /\ UNCHANGED <<posts, stopped>>
  /\ forced' = IF run.force THEN forced \cup {run.slug} ELSE forced
  /\ RestOf /\ UNCHANGED <<copies, queued, pending, announced, blind, unread, met, again, requests>>

(* drain: pings the queued URLs that are live, and saves the rest.  The    *)
(* scheduled publisher drains first, and goes on with its article and      *)
(* canonical_exists; a lookup that fails counts as absent.  In the other   *)
(* publisher a read that raises takes the announcement with it.            *)
Drain ==
  /\ At("drain")
  /\ \/ /\ \E done \in SUBSET pending :
             announced' = announced \cup done /\ pending' = pending \ done
        /\ Goto(CASE ~run.scheduled                  -> "announce"
                  [] run.scheduled /\ File \in posts -> AfterScript
                  [] OTHER                           -> "duplicates")
        /\ Fine /\ UNCHANGED stopped
     \/ /\ run.scheduled /\ Goto("duplicates")
        /\ Fault /\ UNCHANGED <<announced, pending, stopped>>
     \/ /\ run.scheduled /\ Goto("red")
        /\ Fine /\ UNCHANGED <<announced, pending, stopped>>
     \/ /\ ~run.scheduled /\ Goto("channels") /\ stopped' = stopped \cup {run.slug}
        /\ Fault /\ UNCHANGED <<announced, pending>>
  /\ RestOf /\ UNCHANGED <<posts, copies, queued, forced, blind, unread, met, again, requests>>

(* Mutant: a URL that was not accepted is not queued.                      *)
AnnounceOnce ==
  /\ At("announce")
  /\ announced' \in {announced, announced \cup {run.slug}}
  /\ Goto("channels")
  /\ Fine /\ RestOf /\ UNCHANGED <<posts, copies, queued, pending, history>>

(* announce: pings, or enqueues.  load_pending takes a failed read for an  *)
(* empty queue, which save_pending then writes; a save that fails is       *)
(* followed by another ping.                                               *)
Announce ==
  /\ At("announce")
  /\ \/ /\ announced' = announced \cup {run.slug}
        /\ Fine /\ UNCHANGED <<pending, unread, stopped>>
     \/ /\ pending' = pending \cup {run.slug}
        /\ Fine /\ UNCHANGED <<announced, unread, stopped>>
     \/ /\ pending' = {run.slug} /\ unread' = (unread \/ pending \ {run.slug} # {})
        /\ Fault /\ UNCHANGED <<announced, stopped>>
     \/ /\ stopped' = stopped \cup {run.slug}
        /\ Fault /\ UNCHANGED <<pending, announced, unread>>
  /\ Goto("channels")
  /\ RestOf /\ UNCHANGED <<posts, copies, queued, forced, blind, met, again, requests>>

(* publish_devto, publish_hashnode, publish_medium, which either publisher *)
(* has of its own: one call each, whose failure is recorded and nothing    *)
(* more.                                                                   *)
CopyTo(ch) == copies' = [copies EXCEPT ![ch][run.slug] = OneMore(@)]
PostTo(ch) ==
  /\ At("channels") /\ ch \in run.todo
  /\ run' = [run EXCEPT !.todo = @ \ {ch}]
  /\ \/ CopyTo(ch) /\ Fine
     \/ UNCHANGED copies /\ Fault
  /\ RestOf /\ UNCHANGED <<posts, queued, pending, announced, history>>

(* The first queued topic with that name is consumed.                      *)
WithoutFirst(q, topic) ==
  LET is(i) == q[i] = topic /\ \A j \in 1..(i - 1) : q[j] # topic IN
  IF \E i \in DOMAIN q : is(i)
  THEN LET first == CHOOSE i \in DOMAIN q : is(i)
       IN [i \in 1..(Len(q) - 1) |-> IF i < first THEN q[i] ELSE q[i + 1]]
  ELSE q

(* POST /api/content-sync/published, for a canonical post only; a          *)
(* scheduled article is logged by its title, which is no topic.            *)
NotifiedOf == IF run.scheduled THEN {} ELSE {TopicOf[run.slug]}
Log ==
  /\ At("channels") /\ run.todo = {}
  /\ Goto(AfterScript)
  /\ \/ /\ IF run.canonical /\ NotifiedOf # {}
           THEN queued' = WithoutFirst(queued, CHOOSE topic \in NotifiedOf : TRUE)
           ELSE UNCHANGED queued
        /\ Fine /\ UNCHANGED stopped
     \/ /\ run.canonical /\ stopped' = stopped \cup {run.slug}
        /\ Fault /\ UNCHANGED queued
  /\ again' = again \cap {queued'[i] : i \in DOMAIN queued'}
  /\ RestOf /\ UNCHANGED <<posts, copies, pending, announced, forced, blind, unread, met, requests>>

(* Verify canonical post exists: a listing that fails three times, or that *)
(* has no post of today, leads to the publisher again, forced.             *)
Verify ==
  LET heal == run' = [NoRun EXCEPT !.step = "script", !.force = TRUE, !.healing = TRUE] IN
  /\ At("verify")
  /\ \/ PostDated(day) /\ Goto("final") /\ Fine
     \/ ~PostDated(day) /\ heal /\ Fine
     \/ PostDated(day) /\ heal /\ Fault
  /\ RestOf /\ UNCHANGED <<site, history>>

(* Mutant: the publisher's word is taken for the post.                     *)
FinalOnTrust == At("final") /\ Goto("green") /\ Fine /\ RestOf /\ UNCHANGED <<site, history>>

Final ==
  /\ At("final")
  /\ \/ Goto(IF PostDated(day) THEN "green" ELSE "red") /\ Fine
     \/ Goto("red") /\ Fault
  /\ RestOf /\ UNCHANGED <<site, history>>

(* The job is cancelled, or runs out of its fifteen minutes.               *)
Kill ==
  /\ Under /\ Fault
  /\ Goto("red")
  /\ stopped' = IF run.slug \in Slug THEN stopped \cup {run.slug} ELSE stopped
  /\ RestOf /\ UNCHANGED <<site, forced, blind, unread, met, again, requests>>

(* A run that ended is forgotten with its day.                             *)
Midnight ==
  /\ day + 1 \in Day /\ day' = day + 1
  /\ run' = IF Under THEN run ELSE NoRun
  /\ UNCHANGED <<plan, site, weekly, postmap, runs, faults, history>>

-----------------------------------------------------------------------------
(* The operator queues a topic: POST /api/content-sync/topics inserts it,  *)
(* whether it waits already and whatever was posted about it.  MaxRequests *)
(* and MaxRuns bound it: what is queued once the last run is under way     *)
(* finds no run to serve it.                                               *)
Waits(topic) == \E i \in DOMAIN queued : queued[i] = topic
Queue(topic) ==
  /\ runs < MaxRuns /\ requests < MaxRequests /\ requests' = requests + 1
  /\ queued' = Append(queued, topic)
  /\ again' = IF Waits(topic) \/ TopicPosted(topic, {}) THEN again \cup {topic} ELSE again
  /\ UNCHANGED <<day, plan, posts, copies, pending, announced, run, weekly, postmap, runs,
                 faults, forced, blind, unread, stopped, met>>

-----------------------------------------------------------------------------
(* A weekly run. *)

WeekOnly == UNCHANGED <<day, plan, posts, queued, pending, announced, run, runs, forced, blind,
                        unread, stopped, again, requests>>
ChannelOf(w) == Syndicated[weekly[w].nth]

(* Both checkouts: the posts with their front matter, and the postmap.     *)
OutSlugs == {p.slug : p \in posts}
Checkout(w) ==
  /\ weekly[w].step = "off"
  /\ weekly' = [weekly EXCEPT ![w] = [NoWeekly EXCEPT !.step = "list", !.map = postmap,
                                                      !.out = OutSlugs]]
  /\ met' = (met \/ Under \/ \E o \in Weekly \ {w} : weekly[o].step \in {"list", "posting"})
  /\ Fine /\ WeekOnly /\ UNCHANGED <<copies, postmap>>

(* The listing of the next channel; without it that channel is left out.   *)
List(w) ==
  /\ weekly[w].step = "list" /\ weekly[w].nth <= Len(Syndicated)
  /\ \/ /\ weekly' = [weekly EXCEPT ![w].step = "posting", ![w].todo = weekly[w].out,
                         ![w].have = {s \in Slug : copies[ChannelOf(w)][s] > 0}]
        /\ Fine
     \/ weekly' = [weekly EXCEPT ![w].nth = @ + 1] /\ Fault
  /\ WeekOnly /\ UNCHANGED <<copies, postmap, met>>

(* Mutant: only the postmap says what was posted.                          *)
KnownByMap(w, s) == <<ChannelOf(w), s>> \in weekly[w].map

Known(w, s) == <<ChannelOf(w), s>> \in weekly[w].map \/ s \in weekly[w].have

(* devto_publish, hashnode_publish: a post in the map is updated at most;  *)
(* one in the listing is skipped; another is posted, unless the channel    *)
(* refuses it, and the answer may be lost.                                 *)
Syndicate(w, s) ==
  /\ weekly[w].step = "posting" /\ s \in weekly[w].todo
  /\ \/ /\ ~Known(w, s)
        /\ copies' = [copies EXCEPT ![ChannelOf(w)][s] = OneMore(@)]
        /\ \/ /\ weekly' = [weekly EXCEPT ![w].todo = @ \ {s},
                                           ![w].map = @ \cup {<<ChannelOf(w), s>>}]
              /\ Fine
           \/ weekly' = [weekly EXCEPT ![w].todo = @ \ {s}] /\ Fault
     \/ /\ weekly' = [weekly EXCEPT ![w].todo = @ \ {s}] /\ UNCHANGED copies
        /\ IF Known(w, s) THEN Fine ELSE Fault
  /\ WeekOnly /\ UNCHANGED <<postmap, met>>

NextChannel(w) ==
  /\ weekly[w].step = "posting" /\ weekly[w].todo = {}
  /\ weekly' = [weekly EXCEPT ![w].step = "list", ![w].nth = @ + 1, ![w].have = {}]
  /\ Fine /\ WeekOnly /\ UNCHANGED <<copies, postmap, met>>

(* The postmap is committed and pushed, or the push is refused.            *)
Commit(w) ==
  /\ weekly[w].step = "list" /\ weekly[w].nth > Len(Syndicated)
  /\ weekly' = [weekly EXCEPT ![w] = Finished]
  /\ \/ postmap' = postmap \cup weekly[w].map /\ Fine
     \/ UNCHANGED postmap /\ Fault
  /\ WeekOnly /\ UNCHANGED <<copies, met>>

KillWeekly(w) ==
  /\ weekly[w].step \in {"list", "posting"} /\ Fault
  /\ weekly' = [weekly EXCEPT ![w] = Finished]
  /\ WeekOnly /\ UNCHANGED <<copies, postmap, met>>

Daily ==
  \/ Dispatch \/ Preflight \/ VerifyConfiguration \/ PickScript \/ SameDayGuard \/ Generate
  \/ Gate \/ Duplicates \/ Publish \/ Drain \/ Announce \/ (\E ch \in Channel : PostTo(ch))
  \/ Log \/ Verify \/ Final \/ Kill

Syndication(w) ==
  \/ Checkout(w) \/ List(w) \/ NextChannel(w) \/ Commit(w) \/ KillWeekly(w)
  \/ \E s \in Slug : Syndicate(w, s)

Next ==
  \/ Daily \/ Midnight
  \/ \E topic \in Topic : Queue(topic)
  \/ \E w \in Weekly : Syndication(w)

Spec == Init /\ [][Next]_vars

-----------------------------------------------------------------------------
(* Properties. *)

(* A green workflow that was not asked to verify only means that a post of *)
(* that day exists in the content repository, whatever the publishers      *)
(* reported and whenever they ran.                                         *)
GreenMeansPost == run.step = "green" => PostDated(day)

(* Two posts of a day: one was forced, by the operator or by the self-heal, *)
(* or its article was scheduled, or the guard could not read the listing.  *)
OnePostADay ==
  \A p, q \in posts : p.date = q.date /\ p # q =>
    {p.slug, q.slug} \cap forced # {} \/ {p, q} \cap plan # {} \/ p.date \in blind

(* Two posts about one topic: one of them was forced.  No failure of a     *)
(* service lets the duplicate guard pass.                                  *)
OnePostATopic ==
  \A p, q \in posts : TopicOf[p.slug] = TopicOf[q.slug] /\ p # q =>
    {p.slug, q.slug} \cap forced # {}

PostsAreDistinct == OnePostADay /\ OnePostATopic

(* A channel holds a second copy of an article only if runs overlapped, if *)
(* it was posted under force, or if a call of its run failed or the run    *)
(* was killed.                                                             *)
CopiesNeedMishap ==
  \A ch \in Channel, s \in Slug :
    copies[ch][s] > 1 => met \/ s \in forced \cup stopped

Settled(s) == Posted(s) /\ ~(Under /\ run.slug = s) /\ s \notin stopped

(* A published URL was accepted by the search engine, or waits in the      *)
(* queue, unless a failed read of the queue emptied it; and the topic it   *)
(* was written from is not served again, unless it was queued again too:   *)
(* while it waited already, or when it had a post.  The title of a         *)
(* scheduled article consumes no topic.                                    *)
PublicationFollowedUp ==
  \A s \in Slug : Settled(s) =>
    /\ s \in announced \cup pending \/ unread
    /\ Waits(TopicOf[s]) => TopicOf[s] \in again \/ \E p \in plan : p.slug = s
=============================================================================
