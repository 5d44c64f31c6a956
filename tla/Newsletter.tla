----------------------------- MODULE Newsletter -----------------------------
(***************************************************************************)
(* The newsletter: people who sign up, confirm and unsubscribe             *)
(* (lib/newsletter-business/repository.mjs with its routes), and the       *)
(* publication of one issue (app/api/newsletter/publish/route.ts) through  *)
(* the batches of Resend (lib/newsletter-business/email.mjs).              *)
(*                                                                         *)
(* Every request runs by itself; a step is one operation of the database   *)
(* or one call of Resend.  A batch holds one message, where the code's     *)
(* hold a hundred.                                                         *)
(***************************************************************************)
EXTENDS Naturals, FiniteSets

CONSTANTS
  People,        \* how many people there may be, numbered by createdAt
  Signup,        \* the requests to subscribe that may be under way at once
  Publisher,     \* the requests to publish that may be under way at once, numbers
  Text,          \* what the issue may say
  MaxRequests,   \* bound on requests other than a confirmation
  MaxFaults      \* bound on batches that fail, lost answers, operations that raise and
                 \* keys Resend drops

(* Assumed of the constants, in Services.                                  *)
NewsletterBounds == {People, MaxRequests, MaxFaults} \subseteq Nat /\ Publisher \subseteq Nat

Person == 1..People

VARIABLES
  subscriber,  \* the documents of newsletter_subscribers; token when a confirmation is open
  signup,      \* requests to subscribe between their read and their write
  issue,       \* the document of the issue
  publisher,   \* requests to publish
  resend,      \* Resend: the message each idempotency key is bound to
  inbox,       \* how many copies of the issue each person was sent: 0, 1, or more
  requests, faults, \* what the bounds count
  confirmed,   \* auxiliary: people who confirmed and did not unsubscribe after it
  left,        \* auxiliary: people who unsubscribed and did not sign up after it
  raced,       \* auxiliary: people whose document changed between the read and the write
               \* of a request to subscribe
  listings,    \* auxiliary: the audiences of the issue so far
  reached,     \* auxiliary: the audience of the request that marked it published
  dropped      \* auxiliary: Resend dropped a key

people == <<subscriber, signup, confirmed, left, raced>>
delivery == <<issue, publisher, resend, inbox, listings, reached, dropped>>
vars == <<people, delivery, requests, faults>>

Batch == 1..People
NoMail == [to |-> 0, text |-> "none"]

TypeOK ==
  /\ subscriber \in [Person -> [status : {"none", "pending", "active", "unsubscribed"},
                                token : BOOLEAN]]
  /\ signup \in [Signup -> [on : SUBSET Person, active : BOOLEAN]]
  /\ issue \in [status : {"draft", "ready", "published"}, text : Text]
  /\ publisher \in [Publisher -> [step : {"off", "list", "send", "mark"}, audience : SUBSET Person,
                                  next : 1..(People + 1), failed : BOOLEAN, text : Text]]
  /\ resend \in [Batch -> [to : Person, text : Text] \cup {NoMail}]
  /\ inbox \in [Person -> 0..2]
  /\ requests \in 0..MaxRequests /\ faults \in 0..MaxFaults
  /\ confirmed \subseteq Person /\ left \subseteq Person /\ raced \subseteq Person
  /\ listings \subseteq SUBSET Person /\ reached \subseteq Person /\ dropped \in BOOLEAN

NotSigning == [on |-> {}, active |-> FALSE]
NotPublishing(text) ==
  [step |-> "off", audience |-> {}, next |-> 1, failed |-> FALSE, text |-> text]

Init ==
  /\ subscriber = [p \in Person |-> [status |-> "none", token |-> FALSE]]
  /\ signup = [s \in Signup |-> NotSigning]
  /\ issue \in [status : {"draft", "ready"}, text : Text]
  /\ publisher = [q \in Publisher |-> NotPublishing(issue.text)]
  /\ resend = [b \in Batch |-> NoMail] /\ inbox = [p \in Person |-> 0]
  /\ requests = 0 /\ faults = 0
  /\ confirmed = {} /\ left = {} /\ raced = {}
  /\ listings = {} /\ reached = {} /\ dropped = FALSE

Fine == UNCHANGED faults
Fault == faults < MaxFaults /\ faults' = faults + 1
Asked == requests < MaxRequests /\ requests' = requests + 1

Races(p) == IF \E s \in Signup : p \in signup[s].on THEN raced \cup {p} ELSE raced

-----------------------------------------------------------------------------
(* upsertSubscriber: findOne, then findOneAndUpdate with the status that   *)
(* follows from what was read.                                             *)

SignUp(s, p) ==
  /\ signup[s].on = {} /\ Asked
  /\ \A earlier \in 1..(p - 1) : subscriber[earlier].status # "none"
  /\ signup' = [signup EXCEPT ![s] = [on |-> {p}, active |-> subscriber[p].status = "active"]]
  /\ left' = left \ {p}
  /\ Fine /\ UNCHANGED <<subscriber, confirmed, raced, delivery>>

Upsert(s, p) ==
  /\ p \in signup[s].on
  /\ signup' = [signup EXCEPT ![s] = NotSigning]
  /\ subscriber' = [subscriber EXCEPT ![p] =
       IF signup[s].active THEN [status |-> "active", token |-> FALSE]
       ELSE [status |-> "pending", token |-> TRUE]]
  /\ raced' = IF \E o \in Signup \ {s} : p \in signup[o].on THEN raced \cup {p} ELSE raced
  /\ Fine /\ UNCHANGED <<confirmed, left, requests, delivery>>

(* confirmSubscriber, with the link of the last mail.                      *)
Confirm(p) ==
  /\ subscriber[p].token /\ subscriber[p].status # "unsubscribed"
  /\ subscriber' = [subscriber EXCEPT ![p] = [status |-> "active", token |-> FALSE]]
  /\ confirmed' = confirmed \cup {p} /\ raced' = Races(p)
  /\ Fine /\ UNCHANGED <<signup, left, requests, delivery>>

(* unsubscribeSubscriber, with the link of an issue.                       *)
Unsubscribe(p) ==
  /\ subscriber[p].status \notin {"none", "unsubscribed"} /\ Asked
  /\ subscriber' = [subscriber EXCEPT ![p].status = "unsubscribed"]
  /\ left' = left \cup {p} /\ confirmed' = confirmed \ {p} /\ raced' = Races(p)
  /\ Fine /\ UNCHANGED <<signup, delivery>>

-----------------------------------------------------------------------------
(* The issue. *)

IssueOnly == UNCHANGED <<people, inbox, resend, dropped>>

(* upsertIssue, which takes the status from its request, also published.   *)
Edit ==
  /\ Asked
  /\ issue' \in [status : {"draft", "ready", "published"}, text : Text]
  /\ reached' = {}
  /\ Fine /\ IssueOnly /\ UNCHANGED <<publisher, listings>>

Active == {p \in Person : subscriber[p].status = "active"}
Nth(audience, n) == CHOOSE p \in audience : Cardinality({a \in audience : a < p}) = n - 1
Stop(q) == publisher' = [publisher EXCEPT ![q] = NotPublishing(issue.text)]

(* The requests are alike: one takes the first place that is free.         *)
FirstFree(q) == \A r \in Publisher : publisher[r].step = "off" => q <= r

Publish(q) ==
  /\ publisher[q].step = "off" /\ FirstFree(q) /\ issue.status = "ready" /\ Asked
  /\ publisher' = [publisher EXCEPT ![q].step = "list", ![q].text = issue.text]
  /\ Fine /\ IssueOnly /\ UNCHANGED <<issue, listings, reached>>

List(q) ==
  /\ publisher[q].step = "list"
  /\ IF Active = {} THEN Stop(q) /\ UNCHANGED listings
     ELSE /\ publisher' = [publisher EXCEPT ![q].step = "send", ![q].audience = Active]
          /\ listings' = listings \cup {Active}
  /\ Fine /\ IssueOnly /\ UNCHANGED <<issue, reached, requests>>

SendOnly(q) ==
  publisher[q].step = "send" /\ UNCHANGED <<people, issue, listings, reached, dropped, requests>>

(* On to the next batch, and after the last one to the end.                *)
NextBatch(q, failed) ==
  LET now == publisher[q]
      bad == now.failed \/ failed IN
  IF now.next < Cardinality(now.audience)
  THEN publisher' = [publisher EXCEPT ![q].next = @ + 1, ![q].failed = bad]
  ELSE IF bad THEN Stop(q)
  ELSE publisher' = [publisher EXCEPT ![q].step = "mark"]

(* sendNewsletterBatch.  Resend answers a key it knows as before, and      *)
(* refuses one with another message; a refusal fails the batch, and an     *)
(* answer that is lost, or an event that cannot be written, the request.   *)
Send(q) ==
  /\ SendOnly(q)
  /\ LET p == Nth(publisher[q].audience, publisher[q].next)
         b == publisher[q].next
         mail == [to |-> p, text |-> publisher[q].text] IN
     \/ /\ resend[b] \in {NoMail, mail}
        /\ resend' = [resend EXCEPT ![b] = mail]
        /\ inbox' = IF resend[b] = mail THEN inbox
                    ELSE [inbox EXCEPT ![p] = IF @ < 2 THEN @ + 1 ELSE 2]
        /\ \/ NextBatch(q, FALSE) /\ Fine
           \/ Stop(q) /\ Fault
     \/ /\ resend[b] \notin {NoMail, mail}
        /\ NextBatch(q, TRUE) /\ Fine /\ UNCHANGED <<resend, inbox>>
     \/ (NextBatch(q, TRUE) \/ Stop(q)) /\ Fault /\ UNCHANGED <<resend, inbox>>

(* markIssuePublished *)
MarkPublished(q) ==
  /\ publisher[q].step = "mark" /\ Stop(q)
  /\ \/ /\ issue' = [issue EXCEPT !.status = "published"]
        /\ reached' = publisher[q].audience /\ Fine
     \/ Fault /\ UNCHANGED <<issue, reached>>
  /\ IssueOnly /\ UNCHANGED <<listings, requests>>

(* Resend drops a key, which it does after a day.                          *)
KeyDropped(b) ==
  /\ resend[b] # NoMail
  /\ resend' = [resend EXCEPT ![b] = NoMail] /\ dropped' = TRUE
  /\ Fault /\ UNCHANGED <<people, issue, publisher, inbox, listings, reached, requests>>

-----------------------------------------------------------------------------
Next ==
  \/ \E p \in Person :
       Confirm(p) \/ Unsubscribe(p) \/ \E s \in Signup : SignUp(s, p) \/ Upsert(s, p)
  \/ \E q \in Publisher : Publish(q) \/ List(q) \/ Send(q) \/ MarkPublished(q)
  \/ \E b \in Batch : KeyDropped(b)
  \/ Edit

(* Nobody is sent the issue twice, unless the audience changed between two *)
(* attempts, which moves people from one batch key to another, or Resend   *)
(* dropped a key.                                                          *)
EffectsOnce ==
  \A p \in Person : inbox[p] > 1 => dropped \/ Cardinality(listings) > 1

(* Who is active has confirmed and not unsubscribed since, and the other   *)
(* way round, and who unsubscribed stays so until the next sign-up, unless *)
(* a request to subscribe read before another change and wrote after it; a *)
(* published issue went to everyone in the audience of its publication.    *)
NothingLost ==
  /\ \A p \in Person \ raced :
       /\ p \in Active <=> p \in confirmed
       /\ p \in left => subscriber[p].status = "unsubscribed"
  /\ issue.status = "published" => \A p \in reached : inbox[p] > 0
=============================================================================
