----------------------------- MODULE FrontDesk ------------------------------
(***************************************************************************)
(* Those who speak to customers: the voice agent and its table             *)
(* (agents/taylor/server.py, storage.py), the choice of its carrier        *)
(* (failover.py), the numbers of the digests (runtime/beehiiv_client.py),  *)
(* the batches of mail (pipeline/smtp_dispatch.py) and what a post to a    *)
(* platform consists of (runtime/eaos/social_engine.py, whose queue is in  *)
(* Eaos).  They share no state; a behaviour follows one of them.           *)
(***************************************************************************)
EXTENDS Naturals, FiniteSets

CONSTANTS
  Ring,        \* the calls
  Tries,       \* bound on how often a call asks for its appointment or link
  Recovery,    \* probes from the last failure to the carrier's recovery (120 s)
  Edition,     \* the digests, each of which is composed once
  Every,       \* a sponsor is put into each Every-th (5)
  Missive,     \* the mails of a batch
  Address,     \* who each of them is for: its to and its cc
  AtOnce,      \* how many are under way at once (5)
  Replies,      \* how many posts a thread has
  MaxFaults    \* bound on failures, lost answers and processes that are killed

(* Assumed of the constants, in Services.                                  *)
FrontBounds ==
  /\ Tries \in Nat \ {0} /\ Recovery \in Nat \ {0} /\ Every \in Nat \ {0} /\ AtOnce \in Nat \ {0}
  /\ Replies \in Nat \ {0, 1} /\ IsFiniteSet(Edition) /\ Address # {} /\ MaxFaults \in Nat

VARIABLES
  counter,     \* who is followed: "voice", "carrier", "digest", "mail" or "social"
  talk,        \* each call: the step, the tool, its tries and answers
  book,        \* per call, its rows, the sessions at Stripe and the texts it received
  route,       \* the carrier in use, failures in a row, probes since the last failure
  bad,         \* auxiliary: failures since the primary carrier was last in use
  number,      \* what the digests' file says; an empty one reads as 0
  edition,     \* each digest: the step, its number, what became of it
  muddled,     \* auxiliary: a number was read before another was written
  relay,       \* what the mails are sent by, or none
  missive,     \* each mail: the step, who received it, what is counted
  site,        \* the platform: linkedin takes a post in one request, mastodon too and knows
               \* it again, x in one for each post of the thread, instagram in two
  blast,       \* the post: the step, whether it comes from the journal, the next request
  public,      \* how often each part of it is on the platform
  shelf,       \* how many rows the journal has for it
  mislost,     \* auxiliary: an answer was lost, or a process killed
  faults

frontdesk == <<counter, talk, book, route, bad, number, edition, muddled, relay, missive,
               site, blast, public, shelf, mislost, faults>>

TypeOK ==
  /\ counter \in {"voice", "carrier", "digest", "mail", "social"}
  /\ talk \in [Ring -> [at : {"idle", "tool", "texting", "answered", "gone"},
                        tool : {"none", "book", "pay"}, tries : 0..Tries,
                        answer : {"none", "confirmed", "transfer"}]]
  /\ book \in [Ring -> [rows : 0..Tries, sessions : 0..Tries, texts : 0..Tries]]
  /\ route \in [to : {"primary", "secondary", "local"}, fails : 0..3, since : 0..Recovery]
  /\ bad \in 0..3
  /\ number \in 0..Cardinality(Edition)
  /\ edition \in [Edition -> [at : {"idle", "write", "save", "post", "ok", "failed", "gone"},
                              n : 0..Cardinality(Edition), posted : BOOLEAN]]
  /\ muddled \in BOOLEAN
  /\ relay \in {"none", "resend", "smtp"}
  /\ missive \in [Missive -> [at : {"waiting", "sending", "pause", "done"},
                            got : SUBSET Address,
                            counted : {"none", "sent", "failed", "skipped"}]]
  /\ site \in {"linkedin", "mastodon", "x", "instagram"}
  /\ blast \in [at : {"new", "idle", "asking"}, row : BOOLEAN, next : 1..Replies]
  /\ public \in [1..Replies -> 0..MaxFaults + 1] /\ shelf \in 0..MaxFaults /\ mislost \in BOOLEAN
  /\ faults \in 0..MaxFaults

Init ==
  /\ counter \in {"voice", "carrier", "digest", "mail", "social"}
  /\ talk = [r \in Ring |-> [at |-> "idle", tool |-> "none", tries |-> 0, answer |-> "none"]]
  /\ book = [r \in Ring |-> [rows |-> 0, sessions |-> 0, texts |-> 0]]
  /\ route = [to |-> "primary", fails |-> 0, since |-> 0] /\ bad = 0
  /\ number = 0 /\ edition = [e \in Edition |-> [at |-> "idle", n |-> 0, posted |-> FALSE]]
  /\ muddled = FALSE
  /\ relay \in IF counter = "mail" THEN {"none", "resend", "smtp"} ELSE {"none"}
  /\ missive = [l \in Missive |-> [at |-> "waiting", got |-> {}, counted |-> "none"]]
  /\ site \in IF counter = "social" THEN {"linkedin", "mastodon", "x", "instagram"}
              ELSE {"linkedin"}
  /\ blast = [at |-> "new", row |-> FALSE, next |-> 1]
  /\ public = [k \in 1..Replies |-> 0] /\ shelf = 0 /\ mislost = FALSE
  /\ faults = 0

Fault == faults < MaxFaults /\ faults' = faults + 1
Voice == <<talk, book>>
Carrier == <<route, bad>>
Digest == <<number, edition, muddled>>
Mail == <<relay, missive>>
Social == <<site, blast, public, shelf, mislost>>

-----------------------------------------------------------------------------
(* The voice agent.  A tool has 0.95 s; whatever goes wrong in it, the     *)
(* caller is put through to a person, and may ask the agent once more.     *)
Talking(r, step) == counter = "voice" /\ talk[r].at = step
Answer(r, answer) == talk' = [talk EXCEPT ![r].at = "answered", ![r].answer = answer]
Ask(r) ==
  /\ counter = "voice" /\ talk[r].tries < Tries
  /\ talk[r].at = "idle" \/ (talk[r].at = "answered" /\ talk[r].answer = "transfer")
  /\ \E tool \in IF talk[r].tool = "none" THEN {"book", "pay"} ELSE {talk[r].tool} :
       talk' = [talk EXCEPT ![r].at = "tool", ![r].tool = tool, ![r].tries = @ + 1]
  /\ UNCHANGED <<counter, Social, book, Carrier, Digest, Mail, faults>>

(* The row of the appointment, before the text.                            *)
BookAppointment(r) ==
  /\ Talking(r, "tool") /\ talk[r].tool = "book"
  /\ \/ talk' = [talk EXCEPT ![r].at = "texting"] /\ book' = [book EXCEPT ![r].rows = @ + 1]
        /\ UNCHANGED faults
     \/ Answer(r, "transfer") /\ Fault /\ UNCHANGED book
  /\ UNCHANGED <<counter, Social, Carrier, Digest, Mail>>

(* The session at Stripe, and its row as soon as it is known.              *)
AddPaymentLink(b) == [b EXCEPT !.rows = @ + 1]
CreatePaymentLink(r) ==
  LET session == [book[r] EXCEPT !.sessions = @ + 1]
  IN /\ Talking(r, "tool") /\ talk[r].tool = "pay"
     /\ \/ talk' = [talk EXCEPT ![r].at = "texting"]
           /\ book' = [book EXCEPT ![r] = AddPaymentLink(session)] /\ UNCHANGED faults
        \/ Answer(r, "transfer") /\ Fault
           /\ \/ book' = [book EXCEPT ![r] = session] \/ UNCHANGED book
     /\ UNCHANGED <<counter, Social, Carrier, Digest, Mail>>

(* The text.  One that is refused is still spoken of as sent.              *)
SendSms(r) ==
  /\ Talking(r, "texting")
  /\ \/ Answer(r, "confirmed") /\ book' = [book EXCEPT ![r].texts = @ + 1] /\ UNCHANGED faults
     \/ Answer(r, "confirmed") /\ Fault /\ UNCHANGED book
     \/ Answer(r, "transfer") /\ Fault
        /\ \/ book' = [book EXCEPT ![r].texts = @ + 1] \/ UNCHANGED book
  /\ UNCHANGED <<counter, Social, Carrier, Digest, Mail>>
HungUp(r) ==
  /\ Talking(r, "tool") \/ Talking(r, "texting")
  /\ talk' = [talk EXCEPT ![r].at = "gone"] /\ Fault
  /\ UNCHANGED <<counter, Social, book, Carrier, Digest, Mail>>

-----------------------------------------------------------------------------
(* The carrier.  Both probes are of the primary one, whichever is in use.  *)
Least(a, b) == IF a < b THEN a ELSE b
RecordFailure ==
  LET fails == Least(route.fails + 1, 3)
      to == CASE fails < 2 -> route.to
              [] fails >= 2 /\ route.to = "primary" -> "secondary"
              [] OTHER -> "local"
  IN /\ counter = "carrier"
     /\ route' = [to |-> to, fails |-> fails, since |-> 0] /\ bad' = Least(bad + 1, 3)
     /\ UNCHANGED <<counter, Social, Voice, Digest, Mail, faults>>
RecordSuccess ==
  LET since == Least(route.since + 1, Recovery)
      to == IF since >= Recovery THEN "primary" ELSE route.to
  IN /\ counter = "carrier"
     /\ route' = [to |-> to, fails |-> 0, since |-> since]
     /\ bad' = IF to = "primary" THEN 0 ELSE bad
     /\ UNCHANGED <<counter, Social, Voice, Digest, Mail, faults>>

-----------------------------------------------------------------------------
(* The digests.  The number is read, the file is emptied, and written; the *)
(* digest then has its number, whether it goes out or not.                 *)
Editing(e, step) == counter = "digest" /\ edition[e].at = step
LoadCounter(e) ==
  /\ Editing(e, "idle")
  /\ edition' = [edition EXCEPT ![e].at = "write", ![e].n = number + 1]
  /\ muddled' = (muddled \/ \E o \in Edition : edition[o].at \in {"write", "save"})
  /\ UNCHANGED <<counter, Social, Voice, Carrier, Mail, number, faults>>
OpenCounter(e) ==
  /\ Editing(e, "write") /\ number' = 0 /\ edition' = [edition EXCEPT ![e].at = "save"]
  /\ UNCHANGED <<counter, Social, Voice, Carrier, Mail, muddled, faults>>
SaveCounter(e) ==
  /\ Editing(e, "save") /\ number' = edition[e].n
  /\ edition' = [edition EXCEPT ![e].at = "post"]
  /\ UNCHANGED <<counter, Social, Voice, Carrier, Mail, muddled, faults>>
PublishPost(e) ==
  /\ Editing(e, "post")
  /\ \/ edition' = [edition EXCEPT ![e].at = "ok", ![e].posted = TRUE] /\ UNCHANGED faults
     \/ \E out \in BOOLEAN :
          edition' = [edition EXCEPT ![e].at = "failed", ![e].posted = out] /\ Fault
  /\ UNCHANGED <<counter, Social, Voice, Carrier, Mail, number, muddled>>
ApiKilled(e) ==
  /\ Editing(e, "write") \/ Editing(e, "save")
  /\ edition' = [edition EXCEPT ![e].at = "gone"] /\ Fault
  /\ UNCHANGED <<counter, Social, Voice, Carrier, Mail, number, muddled>>
Sponsored(e) == edition[e].n % Every = 0

-----------------------------------------------------------------------------
(* The mails of a batch.  A mail keeps its place during the pause that     *)
(* follows it.  By SMTP it is sent if one of those it is for is accepted.  *)
UnderWay == {l \in Missive : missive[l].at \in {"sending", "pause"}}
CheckConfig ==
  /\ counter = "mail" /\ relay = "none" /\ \E l \in Missive : missive[l].at = "waiting"
  /\ missive' = [l \in Missive |-> [at |-> "done", got |-> {}, counted |-> "skipped"]]
  /\ UNCHANGED <<counter, Social, Voice, Carrier, Digest, relay, faults>>
Acquire(l) ==
  /\ counter = "mail" /\ relay # "none" /\ missive[l].at = "waiting"
  /\ Cardinality(UnderWay) < AtOnce
  /\ missive' = [missive EXCEPT ![l].at = "sending"]
  /\ UNCHANGED <<counter, Social, Voice, Carrier, Digest, relay, faults>>
Sent(l, got, counted) ==
  missive' = [missive EXCEPT ![l] = [at |-> "pause", got |-> got, counted |-> counted]]
SendEmail(l) ==
  /\ counter = "mail" /\ missive[l].at = "sending"
  /\ \/ Sent(l, Address, "sent") /\ UNCHANGED faults
     \/ relay = "smtp" /\ Fault
        /\ \E some \in SUBSET Address \ {{}, Address} : Sent(l, some, "sent")
     \/ Fault /\ \E got \in SUBSET Address :
                   (relay = "resend" => got \in {{}, Address}) /\ Sent(l, got, "failed")
  /\ UNCHANGED <<counter, Social, Voice, Carrier, Digest, relay>>
Paused(l) ==
  /\ counter = "mail" /\ missive[l].at = "pause" /\ missive' = [missive EXCEPT ![l].at = "done"]
  /\ UNCHANGED <<counter, Social, Voice, Carrier, Digest, relay, faults>>

-----------------------------------------------------------------------------
(* A post to a platform, of itself or from the journal, one request after  *)
(* the other.  Offline it is shelved, once more even if it was there.      *)
Requests == CASE site = "x" -> Replies [] site = "instagram" -> 2 [] OTHER -> 1
SocialOnly == UNCHANGED <<counter, Voice, Carrier, Digest, Mail, site>>
Cached == shelf + 1
Cleared == shelf - 1
Publish(row) ==
  /\ \/ blast' = [at |-> "asking", row |-> row, next |-> 1] /\ UNCHANGED <<shelf, mislost, faults>>
     \/ /\ blast' = [blast EXCEPT !.at = "idle"] /\ shelf' = Cached /\ Fault
        /\ mislost' = (mislost \/ row)
  /\ SocialOnly /\ UNCHANGED public
PublishAllPlatforms == counter = "social" /\ blast.at = "new" /\ Publish(FALSE)
RunSyncDaemon == counter = "social" /\ blast.at = "idle" /\ shelf > 0 /\ Publish(TRUE)

(* The parts a request puts on the platform.  Instagram shows nothing      *)
(* before its second one; Mastodon knows a post by its key.                *)
Shown(k) ==
  CASE site = "x" -> [public EXCEPT ![k] = @ + 1]
    [] site = "mastodon" -> [public EXCEPT ![1] = 1]
    [] OTHER -> IF k = Requests THEN [public EXCEPT ![1] = @ + 1] ELSE public

(* A post that failed is shelved, unless it is on the shelf.               *)
Ended(ok) ==
  /\ blast' = [blast EXCEPT !.at = "idle"]
  /\ shelf' = CASE ok /\ blast.row -> Cleared [] ~ok /\ ~blast.row -> Cached [] OTHER -> shelf
Post ==
  /\ counter = "social" /\ blast.at = "asking"
  /\ \/ /\ public' = Shown(blast.next)
        /\ IF blast.next < Requests
           THEN blast' = [blast EXCEPT !.next = @ + 1] /\ UNCHANGED shelf
           ELSE Ended(TRUE)
        /\ UNCHANGED <<mislost, faults>>
     \/ Ended(FALSE) /\ Fault /\ UNCHANGED <<public, mislost>>
     \/ public' = Shown(blast.next) /\ Ended(FALSE) /\ Fault /\ mislost' = TRUE
  /\ SocialOnly
SocialKilled ==
  /\ counter = "social" /\ blast.at = "asking" /\ blast' = [blast EXCEPT !.at = "idle"]
  /\ public' \in {public, Shown(blast.next)} /\ mislost' = TRUE /\ Fault
  /\ SocialOnly /\ UNCHANGED shelf

Next ==
  \/ \E r \in Ring : Ask(r) \/ BookAppointment(r) \/ CreatePaymentLink(r) \/ SendSms(r) \/ HungUp(r)
  \/ RecordFailure \/ RecordSuccess
  \/ \E e \in Edition : LoadCounter(e) \/ OpenCounter(e) \/ SaveCounter(e) \/ PublishPost(e)
                        \/ ApiKilled(e)
  \/ CheckConfig
  \/ \E l \in Missive : Acquire(l) \/ SendEmail(l) \/ Paused(l)
  \/ PublishAllPlatforms \/ RunSyncDaemon \/ Post \/ SocialKilled

-----------------------------------------------------------------------------
(* A call has a second appointment or link only if it was put through      *)
(* before, and no text is about nothing; the primary carrier is given up   *)
(* after two failures and the second one after three; two digests have the *)
(* same number only if their numbers crossed, or one was killed between;   *)
(* the places of a batch are enough for the mails under way; and a post    *)
(* that Mastodon has is never there twice, one of another platform only    *)
(* after an answer was lost, a thread broke off or it was shelved twice,   *)
(* and no part of a thread more often than the part it replies to.         *)
EffectsOnce ==
  /\ \A r \in Ring : /\ book[r].rows > 1 => faults > 0
                     /\ book[r].texts <= book[r].rows
                     /\ talk[r].tool = "pay" => book[r].rows <= book[r].sessions
  /\ route.to # "primary" => bad >= 2
  /\ route.to = "local" => bad >= 3
  /\ ~muddled /\ (\A g \in Edition : edition[g].at # "gone") =>
       \A e, o \in Edition : e # o /\ edition[e].n > 0 => edition[e].n # edition[o].n
  /\ Cardinality(UnderWay) <= AtOnce
  /\ site = "mastodon" => public[1] <= 1
  /\ public[1] > 1 => mislost \/ (site = "x" /\ faults > 0)
  /\ \A k \in 2..Replies : public[k] <= public[k - 1]

(* A call that is told so has its appointment or link, and without a fault *)
(* its text and no session that nobody knows; the primary carrier is taken *)
(* up again with the first good probe after the recovery time; without a   *)
(* fault or a crossing each Every-th digest that goes out has the sponsor; *)
(* and every mail of a batch that is over is counted, the sent ones having *)
(* reached someone, and without a fault everyone; and a post that is over  *)
(* is whole on the platform or in the journal, unless a process was killed.*)
NothingLost ==
  /\ \A r \in Ring :
       /\ talk[r].answer = "confirmed" =>
            book[r].rows >= 1 /\ (faults = 0 => book[r].texts = book[r].rows)
       /\ talk[r].tool = "pay" /\ faults = 0 => book[r].sessions = book[r].rows
  /\ route.fails = 0 => route.to = "primary" \/ route.since < Recovery
  /\ LET out == {e \in Edition : edition[e].posted}
     IN ~muddled /\ faults = 0 /\ (\A e \in Edition : edition[e].at \in {"idle", "ok"})
        => Cardinality({e \in out : Sponsored(e)}) = Cardinality(out) \div Every
  /\ \A l \in Missive :
       /\ missive[l].at = "done" => missive[l].counted # "none"
       /\ missive[l].counted = "sent" =>
            missive[l].got # {} /\ (faults = 0 => missive[l].got = Address)
  /\ blast.at = "idle" /\ ~mislost =>
       shelf > 0 \/ \A k \in 1..Replies : public[k] > 0 \/ (k > 1 /\ site # "x")
=============================================================================
