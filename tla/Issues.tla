------------------------------- MODULE Issues -------------------------------
(***************************************************************************)
(* The scheduled letters: the daily issue with its ledger                  *)
(* (make_daily_digest.py and the workflow income-streams.yml), the weekly  *)
(* issue with its index of products (make_newsletter.py), the audience at  *)
(* Resend that both are sent to (runtime/resend_newsletter.py), and what   *)
(* the owner's morning brings: the digest (agent_impls/daily_digest.py)    *)
(* and the buyers who are signed up (gumroad_buyers_to_beehiiv.py).  These *)
(* four desks share nothing, and each behaviour follows one of them.       *)
(***************************************************************************)
EXTENDS Naturals, FiniteSets, FiniteSetsExt

CONSTANTS
  Story,       \* what the sources offer, numbers, in their order
  Akin,       \* the pairs of stories with similar titles
  PerIssue,    \* how many of them an issue takes
  Daily,       \* the runs of the daily issue
  Reader, Sender,  \* those who subscribe, and those who send, to the audience
  Weekly,      \* the runs of the weekly issue
  Guide,       \* the products, numbers: the order of their names
  Days, Window,  \* the days that are followed, and those a buyer is looked for
  MaxFaults    \* bound on failures, lost answers and runs that are cut off

(* Assumed of the constants, in Services.                                  *)
IssueBounds ==
  /\ Story = 1..Cardinality(Story) /\ Akin \subseteq SUBSET Story
  /\ PerIssue \in Nat \ {0} /\ Guide # {} /\ Guide \subseteq Nat
  /\ Reader \cap Sender = {} /\ Days \in Nat /\ Window \in Nat /\ MaxFaults \in Nat

VARIABLES
  desk,        \* the desk that is followed
  featured,    \* the daily ledger, as it is in the repository
  daily,       \* each daily run: its step, the ledger it began from, its stories
  broadcasts,  \* the daily issues that were sent
  audiences,   \* how many audiences of the name there are
  visitor,     \* each who subscribes or sends: the step, the audience
  contacts,    \* who is in which audience
  mailed,      \* the letters to the audience: to which of them
  index,       \* the products that the weekly index lists, and its version
  weekly,      \* each weekly run: its step and what it holds
  shown,       \* which weekly issue showed which product
  day, owner,  \* the day, and what the owner was sent of each
  buyer,       \* the buyer: the day of the sale, and the subscription
  left,        \* the day on which the buyer last left
  crossing,    \* auxiliary: visitors, or weekly runs, that went at the same time
  faults

issues == <<desk, featured, daily, broadcasts, audiences, visitor, contacts, mailed, index, weekly,
            shown, day, owner, buyer, left, crossing, faults>>

DailyStep ==
  {"idle", "queued", "publish", "commit", "done", "skipped", "failed", "gone", "cancelled"}
WeeklyStep == {"idle", "email", "collect", "probe", "put", "done", "gone"}
Nobody == 0
TypeOK ==
  /\ desk \in {"daily", "audience", "weekly", "owner"}
  /\ featured \subseteq Story
  /\ daily \in [Daily -> [at : DailyStep, base : SUBSET Story, picked : SUBSET Story]]
  /\ broadcasts \subseteq Daily \X SUBSET Story
  /\ audiences \in 0..Cardinality(Reader \cup Sender)
  /\ visitor \in [Reader \cup Sender -> [at : {"idle", "create", "use", "done", "failed"},
                                         audience : 0..Cardinality(Reader \cup Sender)]]
  /\ contacts \subseteq Reader \X (1..audiences)
  /\ mailed \subseteq Sender \X (1..audiences)
  /\ index \in [slugs : SUBSET Guide, version : 0..Cardinality(Weekly)]
  /\ weekly \in [Weekly -> [at : WeeklyStep, pick : Guide \cup {Nobody}, slug : Guide \cup {Nobody},
                            prior : SUBSET Guide, version : 0..Cardinality(Weekly)]]
  /\ shown \subseteq Weekly \X Guide
  /\ day \in 1..Days /\ owner \subseteq (1..Days) \X {"telegram", "email", "tried"}
  /\ buyer \in {"none", "active", "left"} /\ left \in 0..Days
  /\ crossing \in BOOLEAN /\ faults \in 0..MaxFaults

Init ==
  /\ desk \in {"daily", "audience", "weekly", "owner"}
  /\ featured = {} /\ daily = [r \in Daily |-> [at |-> "idle", base |-> {}, picked |-> {}]]
  /\ broadcasts = {} /\ audiences = 0
  /\ visitor = [v \in Reader \cup Sender |-> [at |-> "idle", audience |-> 0]]
  /\ contacts = {} /\ mailed = {}
  /\ index = [slugs |-> {}, version |-> 0]
  /\ weekly = [w \in Weekly |-> [at |-> "idle", pick |-> Nobody, slug |-> Nobody, prior |-> {},
                                 version |-> 0]]
  /\ shown = {} /\ day = 1 /\ owner = {} /\ buyer = "none" /\ left = 0
  /\ crossing = FALSE /\ faults = 0

Fault == faults < MaxFaults /\ faults' = faults + 1
DailyState == <<featured, daily, broadcasts>>
AudienceState == <<audiences, visitor, contacts, mailed>>
WeeklyState == <<index, weekly, shown>>
OwnerState == <<day, owner, buyer, left>>

-----------------------------------------------------------------------------
(* The daily issue.  The runs are of one group: one goes and one waits, a  *)
(* later one takes the place of the one that waits, and each has the       *)
(* ledger of the commit that it was started for.                           *)
At(r, step) == daily[r].at = step
Goto(r, step) == daily' = [daily EXCEPT ![r].at = step]
Trigger(r) ==
  /\ At(r, "idle")
  /\ daily' = [d \in Daily |->
       IF d = r THEN [daily[r] EXCEPT !.at = "queued", !.base = featured]
       ELSE IF At(d, "queued") THEN [daily[d] EXCEPT !.at = "cancelled"] ELSE daily[d]]
  /\ UNCHANGED <<featured, broadcasts, faults>>

(* What is known by its key or resembles a known title is passed over, of  *)
(* this issue's own stories too.  Nothing new means no issue.              *)
Resembles(s, t) == s = t \/ {s, t} \in Akin
Seen(s, known) == \E t \in known : Resembles(s, t)
Pick(known, offered) ==
  LET picked[n \in 0..Cardinality(Story)] ==
        IF n = 0 THEN {}
        ELSE LET before == picked[n - 1]
             IN IF n \in offered /\ ~Seen(n, known \cup before) /\ Cardinality(before) < PerIssue
                THEN before \cup {n} ELSE before
  IN picked[Cardinality(Story)]
Compose(r) ==
  /\ At(r, "queued") /\ \A d \in Daily : daily[d].at \notin {"publish", "commit"}
  /\ \E offered \in SUBSET Story :
       LET picked == Pick(daily[r].base, offered)
       IN daily' = [daily EXCEPT ![r].at = IF picked = {} THEN "skipped" ELSE "publish",
                                 ![r].picked = picked]
  /\ UNCHANGED <<featured, broadcasts, faults>>

(* The runtime is asked to send: it does, or refuses, or its answer is     *)
(* lost.  Only after its answer is the ledger written and pushed, which    *)
(* cannot be merged with one that was pushed since this run was started.   *)
Publish(r) ==
  /\ At(r, "publish") /\ UNCHANGED featured
  /\ LET sent == broadcasts \cup {<<r, daily[r].picked>>}
     IN \/ Goto(r, "commit") /\ broadcasts' = sent /\ UNCHANGED faults
        \/ Goto(r, "failed") /\ broadcasts' \in {sent, broadcasts} /\ Fault
Commit(r) ==
  /\ At(r, "commit") /\ UNCHANGED broadcasts
  /\ \/ /\ featured = daily[r].base /\ featured' = featured \cup daily[r].picked
        /\ Goto(r, "done") /\ UNCHANGED faults
     \/ featured # daily[r].base /\ Goto(r, "failed") /\ UNCHANGED <<featured, faults>>
     \/ Goto(r, "failed") /\ Fault /\ UNCHANGED featured
CutOff(r) ==
  /\ daily[r].at \in {"publish", "commit"} /\ Goto(r, "gone")
  /\ Fault /\ UNCHANGED <<featured, broadcasts>>
DailyNext ==
  \E r \in Daily : Trigger(r) \/ Compose(r) \/ Publish(r) \/ Commit(r) \/ CutOff(r)

-----------------------------------------------------------------------------
(* The audience.  It is looked up by its name, and made when there is none.*)
Look(v) ==
  /\ visitor[v].at = "idle"
  /\ visitor' = [visitor EXCEPT ![v] = IF audiences = 0 THEN [at |-> "create", audience |-> 0]
                                       ELSE [at |-> "use", audience |-> 1]]
  /\ crossing' = (crossing \/ \E u \in Reader \cup Sender : visitor[u].at = "create")
  /\ UNCHANGED <<audiences, contacts, mailed, faults>>
Create(v) ==
  /\ visitor[v].at = "create"
  /\ audiences' = audiences + 1
  /\ visitor' = [visitor EXCEPT ![v] = [at |-> "use", audience |-> audiences + 1]]
  /\ UNCHANGED <<contacts, mailed, crossing, faults>>
Subscribe(v) ==
  /\ v \in Reader /\ visitor[v].at = "use"
  /\ \/ /\ contacts' = contacts \cup {<<v, visitor[v].audience>>}
        /\ visitor' = [visitor EXCEPT ![v].at = "done"] /\ UNCHANGED faults
     \/ visitor' = [visitor EXCEPT ![v].at = "failed"] /\ Fault /\ UNCHANGED contacts
  /\ UNCHANGED <<audiences, mailed, crossing>>
Broadcast(v) ==
  /\ v \in Sender /\ visitor[v].at = "use"
  /\ \/ /\ mailed' = mailed \cup {<<v, visitor[v].audience>>}
        /\ visitor' = [visitor EXCEPT ![v].at = "done"] /\ UNCHANGED faults
     \/ visitor' = [visitor EXCEPT ![v].at = "failed"] /\ Fault /\ UNCHANGED mailed
  /\ UNCHANGED <<audiences, contacts, crossing>>
AudienceNext ==
  \E v \in Reader \cup Sender : Look(v) \/ Create(v) \/ Subscribe(v) \/ Broadcast(v)

-----------------------------------------------------------------------------
(* The weekly issue.  An index that cannot be read counts as empty.        *)
NewGuide(slugs) == IF Guide \subseteq slugs THEN Nobody ELSE Max(Guide \ slugs)
Read(slugs) ==
  \/ slugs = index.slugs /\ UNCHANGED faults
  \/ slugs = {} /\ Fault
Readings == {index.slugs, {}}
ComposeWeekly(w) ==
  /\ weekly[w].at = "idle"
  /\ \E slugs \in Readings :
       Read(slugs) /\ weekly' = [weekly EXCEPT ![w].at = "email", ![w].pick = NewGuide(slugs)]
  /\ crossing' = (crossing \/ \E v \in Weekly \ {w} :
                                 weekly[v].at \in {"email", "collect", "probe", "put"})
  /\ UNCHANGED <<index, shown>>

(* The issue goes out as a mail, and as a page whatever became of the mail.*)
SendWeekly(w) ==
  /\ weekly[w].at = "email"
  /\ weekly' = [weekly EXCEPT ![w].at = "collect"]
  /\ shown' = IF weekly[w].pick = Nobody THEN shown ELSE shown \cup {<<w, weekly[w].pick>>}
  /\ UNCHANGED <<index, crossing, faults>>

(* What is recorded is collected anew, with the index as it is by now; it  *)
(* is merged into what the index holds, by a write that is refused when    *)
(* the index has changed in between.                                       *)
Collect(w) ==
  /\ weekly[w].at = "collect" /\ UNCHANGED <<index, shown, crossing>>
  /\ \E slugs \in Readings :
       /\ Read(slugs)
       /\ weekly' = [weekly EXCEPT
            ![w].slug = NewGuide(slugs),
            ![w].at = IF NewGuide(slugs) = Nobody THEN "done" ELSE "probe"]
Probe(w) ==
  /\ weekly[w].at = "probe" /\ UNCHANGED <<index, shown, crossing>>
  /\ \E slugs \in Readings :
       /\ Read(slugs)
       /\ weekly' = [weekly EXCEPT ![w].at = "put", ![w].prior = slugs,
                                   ![w].version = index.version]
Put(w) ==
  /\ weekly[w].at = "put"
  /\ weekly' = [weekly EXCEPT ![w].at = "done"]
  /\ \/ /\ weekly[w].version = index.version
        /\ index' = [slugs |-> weekly[w].prior \cup {weekly[w].slug}, version |-> index.version + 1]
        /\ UNCHANGED faults
     \/ weekly[w].version # index.version /\ UNCHANGED <<index, faults>>
     \/ Fault /\ UNCHANGED index
  /\ UNCHANGED <<shown, crossing>>
CutOffWeekly(w) ==
  /\ weekly[w].at \in {"collect", "probe", "put"}
  /\ weekly' = [weekly EXCEPT ![w].at = "gone"]
  /\ Fault /\ UNCHANGED <<index, shown, crossing>>
WeeklyNext ==
  \E w \in Weekly : ComposeWeekly(w) \/ SendWeekly(w) \/ Collect(w) \/ Probe(w) \/ Put(w)
                    \/ CutOffWeekly(w)

-----------------------------------------------------------------------------
(* The owner's morning: a message, and a mail if the message seems not to  *)
(* have arrived.                                                           *)
Brought(ways) == owner' = owner \cup ({day} \X (ways \cup {"tried"}))
SendDigest ==
  /\ <<day, "tried">> \notin owner
  /\ \/ Brought({"telegram"}) /\ UNCHANGED faults
     \/ Brought({"telegram", "email"}) /\ Fault
     \/ Brought({"email"}) /\ Fault
     \/ Brought({}) /\ Fault
  /\ UNCHANGED <<day, buyer, left>>
(* The buyers of the window are signed up, those who have left as well.    *)
SyncBuyers ==
  /\ day <= Window /\ UNCHANGED <<day, owner, left>>
  /\ \/ buyer' = "active" /\ UNCHANGED faults
     \/ buyer' = buyer /\ Fault
Leave ==
  /\ buyer = "active" /\ buyer' = "left" /\ left' = day
  /\ UNCHANGED <<day, owner, faults>>
NextDay ==
  /\ day < Days /\ day' = day + 1
  /\ UNCHANGED <<owner, buyer, left, faults>>
OwnerNext == SendDigest \/ SyncBuyers \/ Leave \/ NextDay

Next ==
  /\ UNCHANGED desk
  /\ \/ desk = "daily" /\ DailyNext
        /\ UNCHANGED <<AudienceState, WeeklyState, OwnerState, crossing>>
     \/ desk = "audience" /\ AudienceNext /\ UNCHANGED <<DailyState, WeeklyState, OwnerState>>
     \/ desk = "weekly" /\ WeeklyNext /\ UNCHANGED <<DailyState, AudienceState, OwnerState>>
     \/ desk = "owner" /\ OwnerNext
        /\ UNCHANGED <<DailyState, AudienceState, WeeklyState, crossing>>

-----------------------------------------------------------------------------
(* No story goes out twice, in either of its versions, unless something    *)
(* failed or a run had waited while another went; no product is shown      *)
(* twice unless something failed or two weekly runs met; and the owner has *)
(* a message and a mail of the same day only after a fault.                *)
Stale == \E r \in Daily : daily[r].at \in {"publish", "commit", "done", "failed", "gone"}
                            /\ \E d \in Daily \ {r} : daily[d].base = daily[r].base
                                                       /\ daily[d].at \in {"done", "failed", "gone"}
Mishap == faults > 0 \/ crossing
EffectsOnce ==
  /\ \A a \in broadcasts : \A b \in broadcasts :
       a[1] # b[1] /\ (\E s \in a[2] : Seen(s, b[2])) => faults > 0 \/ Stale
  /\ \A a \in broadcasts : \A s \in a[2] : \A t \in a[2] : s # t => ~Resembles(s, t)
  /\ \A a \in shown : \A b \in shown : a[2] = b[2] /\ a # b => Mishap
  /\ \A d \in 1..Days : <<d, "telegram">> \in owner /\ <<d, "email">> \in owner => faults > 0

(* What the ledger has was sent, and what was sent it has, except for runs *)
(* that failed; so with the index of products.  Who subscribed is reached  *)
(* by every letter unless two made an audience at once.  A buyer who left  *)
(* after the window is left alone.                                         *)
NothingLost ==
  /\ featured = UNION {a[2] : a \in {b \in broadcasts : At(b[1], "done")}}
  /\ \A g \in index.slugs : (\E w \in Weekly : <<w, g>> \in shown) \/ Mishap
  /\ \A c \in contacts : \A m \in mailed : c[2] = m[2] \/ crossing
  /\ left > Window => buyer = "left"
  /\ \A d \in 1..Days : <<d, "tried">> \in owner =>
       <<d, "telegram">> \in owner \/ <<d, "email">> \in owner \/ faults > 0
=============================================================================
