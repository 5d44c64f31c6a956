------------------------------ MODULE Services ------------------------------
(***************************************************************************)
(* The services that keep a table of work of their own: the payment mesh,  *)
(* the cluster master with its social journal, the edge failover, the      *)
(* outreach, the newsletter, the proof of publication, the checkout, the   *)
(* cycles of the backend's agents, the leads, the scoring of offers, the   *)
(* experiments, the hypervisor, the swarm, the process mesh, the cycles of *)
(* passive income, the renders, the execution core, the dashboard's        *)
(* backend, the contracting tools, the daily videos, the scheduled         *)
(* letters, the training of the small model, the shops, and those who      *)
(* speak to customers.  They share no state, so each is followed by        *)
(* itself, and together they are asked the four questions that such a      *)
(* table is kept for.                                                      *)
(***************************************************************************)
EXTENDS Naturals, FiniteSets

CONSTANTS
  Node, Cycle, MaxRetries, FailureThreshold, SuccessThreshold,
  Task, TaskRetries, LastRow,
  EdgeEvent, EdgePayload, NoPayload, Command, MaxIngests,
  Message, Request,
  People, Signup, Publisher, Text,
  Caller, Session, Handler, Run,
  Company, MaxLeads, Amount, Goal,
  Keywords, Floor, FirstWeight, Ceiling, Cutoff, Registrar, Wired, OfferRequests, FewFaults,
  Commander, Variants, Measured, MinSamples, ExperimentRequests,
  Process, Feed, Query,
  Selected, Threshold, IncomeCycle, Briefing, Render, Package, HeadStart,
  CoreCall, Objective, Risky, Unserved,
  Visit, Screen,
  Contract, Broken, Notice, Nameless, Timeline, Import, Scrape,
  Fixed, Topic, Namesake, Compilation, Production, Reel,
  Story, Akin, PerIssue, Daily, Reader, Sender, Weekly, Guide, Days, Window,
  Split, Line, Builder, Trainee, Epochs, Grade, PassMark,
  Item, WithFile, Deploy, Listing, Sweep, Shirt, Pusher, OnPage,
  Ring, Tries, Recovery, Edition, Every, Missive, Address, AtOnce, Replies,
  MaxRequests,
  MaxFaults, EdgeFaults

VARIABLES
  service,     \* the service that is followed
  asset, letters, stripe, told, circuit, making, sync, raised,
  overlapped, expired, unrecorded, stranded,
  lane, task, deadLetter, executing, loop, effect, journal, lastRow, daemon, backlog, posted,
  doubtful, unlettered,
  event, snapshot, command, ingests, edgeFaults, dispatched, repeated, shared, unsaved,
  message, request, mails, approvals, crossed, unnoted,
  subscriber, signup, issue, publisher, resend, inbox, confirmed, left, raced, listings,
  reached, dropped,
  manifest, job, receipt, caller, callersMet,
  session, stripeEvent, tx, subscription, handler, handlersMet, failed,
  cache, row, accounted, run, answers, paid, runsMet, interrupted, stale,
  lead, phase, sender, packets, batches, wins, printed,
  weight, stored, outcomes, evaluation, registrar, emitting, card, evaluated, overlap, cut,
  ledger, commander, contended,
  feedLedger, pipeline, agent, answered, grown, overtaken,
  batch, cloud, node, result, ran, unheard, severed,
  stage, worker, output, aiCircuit, asked, envelopes, failing,
  writes, income, prepared, lapsed, signed, executed, approved, posts, unanswered,
  render, hand, lock, entries, chained, film, clips, orphan, approval, fellBack,
  call, memory, file, spoilt, lapsedAnswers,
  visit, waitlist, runRow, decisions, cycles, screen, hub, heard, visitsMet,
  contracts, agency, solicitation, rates, bidJob, drafts, clashed,
  production, channel, feeds, encores, unfilmed, mislaid,
  desk, featured, daily, broadcasts, audiences, visitor, contacts, mailed, index, weekly, shown, day,
  owner, buyer, departed, crossing,
  bench, teacherCache, builder, opened, trainee, runLock, metrics, best, checkpoint, staging, student,
  versions, contested,
  shop, vendor, goods, url, pusher, artwork, apparel, blind,
  counter, talk, book, route, bad, number, edition, muddled, relay, missive, site, blast, public,
  shelf, mislost,
  requests, faults

Payments == INSTANCE PaymentMesh
Cluster == INSTANCE Eaos
Edge == INSTANCE EdgeFailover WITH Event <- EdgeEvent, Payload <- EdgePayload
Mailing == INSTANCE Outreach
News == INSTANCE Newsletter
Proof == INSTANCE ProofPublish WITH met <- callersMet
Pay == INSTANCE Checkout WITH event <- stripeEvent, met <- handlersMet
Cycles == INSTANCE Distillation WITH met <- runsMet
Selling == INSTANCE Leads WITH posted <- packets, runs <- batches
Scoring == INSTANCE Opportunities WITH Start <- FirstWeight, MaxRequests <- OfferRequests, MaxFaults <- FewFaults
Trying == INSTANCE Experiments WITH MaxRequests <- ExperimentRequests
Piping == INSTANCE Hypervisor WITH ledger <- feedLedger, MaxFaults <- FewFaults
Swarming == INSTANCE Swarm
Meshing == INSTANCE ProcessMesh WITH answers <- envelopes, MaxFaults <- FewFaults
Earning == INSTANCE PassiveIncome WITH MaxFaults <- FewFaults
Filming == INSTANCE Rendering WITH MaxFaults <- FewFaults
Executing == INSTANCE Execution WITH Call <- CoreCall, lapsed <- lapsedAnswers, MaxFaults <- FewFaults
Showing == INSTANCE Dashboard WITH met <- visitsMet, MaxFaults <- FewFaults
Bidding == INSTANCE Bids WITH job <- bidJob, MaxFaults <- FewFaults
Producing == INSTANCE Shorts WITH MaxFaults <- FewFaults
Mailshots == INSTANCE Issues WITH left <- departed, MaxFaults <- FewFaults
Teaching == INSTANCE Training WITH cache <- teacherCache, lock <- runLock, journal <- metrics, MaxFaults <- FewFaults
Vending == INSTANCE Storefront WITH MaxFaults <- FewFaults
Attending == INSTANCE FrontDesk WITH MaxFaults <- FewFaults

(* What the modules above ask of their constants.                          *)
ASSUME ServicesAssumption ==
  /\ Payments!CycleAssumption /\ Payments!LimitAssumption
  /\ Cluster!TaskAssumption
  /\ Edge!PayloadAssumption /\ Edge!EdgeBounds
  /\ Mailing!OutreachBounds
  /\ Proof!CallerBounds /\ Piping!PipelineBounds
  /\ News!NewsletterBounds
  /\ Selling!LeadsBounds /\ Scoring!OpportunityBounds /\ Trying!ExperimentBounds
  /\ Meshing!ProcessBounds /\ Earning!IncomeBounds /\ Filming!RenderBounds
  /\ Executing!ExecutionBounds /\ Showing!DashboardBounds /\ Bidding!BidBounds
  /\ Producing!ShortBounds /\ Mailshots!IssueBounds /\ Teaching!TrainingBounds
  /\ Vending!ShopBounds /\ Attending!FrontBounds

paymentVars == <<asset, letters, stripe, told, circuit, making, sync, raised, overlapped, expired,
                 unrecorded, stranded>>
clusterVars == <<lane, task, deadLetter, executing, loop, effect, journal, lastRow, daemon, backlog,
                 posted, doubtful, unlettered>>
edgeVars == <<event, snapshot, command, ingests, edgeFaults, dispatched, repeated, shared, unsaved>>
mailingVars == <<message, request, mails, approvals, crossed, unnoted>>
newsVars == <<subscriber, signup, issue, publisher, resend, inbox, confirmed, left, raced, listings,
              reached, dropped>>
proofVars == <<manifest, job, receipt, caller, callersMet>>
payVars == <<session, stripeEvent, tx, subscription, handler, handlersMet, failed>>
cycleVars == <<cache, row, accounted, run, answers, paid, runsMet, interrupted, stale>>
sellingVars == <<lead, phase, sender, packets, batches, wins, printed>>
scoringVars == <<weight, stored, outcomes, evaluation, registrar, emitting, card, evaluated,
                 overlap, cut>>
tryingVars == <<ledger, commander, contended>>
pipingVars == <<feedLedger, pipeline, agent, answered, grown, overtaken>>
swarmVars == <<batch, cloud, node, result, ran, unheard, severed>>
processVars == <<stage, worker, output, aiCircuit, asked, envelopes, failing>>
incomeVars == <<writes, income, prepared, lapsed, signed, executed, approved, posts, unanswered>>
renderVars == <<render, hand, lock, entries, chained, film, clips, orphan, approval, fellBack>>
executionVars == <<call, memory, file, spoilt, lapsedAnswers>>
dashboardVars == <<visit, waitlist, runRow, decisions, cycles, screen, hub, heard, visitsMet>>
bidsVars == <<contracts, agency, solicitation, rates, bidJob, drafts, clashed>>
shortsVars == <<production, channel, feeds, encores, unfilmed, mislaid>>
issuesVars == <<desk, featured, daily, broadcasts, audiences, visitor, contacts, mailed, index,
                weekly, shown, day, owner, buyer, departed, crossing>>
trainingVars == <<bench, teacherCache, builder, opened, trainee, runLock, metrics, best, checkpoint,
                  staging, student, versions, contested>>
shopsVars == <<shop, vendor, goods, url, pusher, artwork, apparel, blind>>
frontdeskVars == <<counter, talk, book, route, bad, number, edition, muddled, relay, missive, site,
                   blast, public, shelf, mislost>>
vars == <<service, paymentVars, clusterVars, edgeVars, mailingVars, newsVars, proofVars, payVars,
          cycleVars, sellingVars, scoringVars, tryingVars, pipingVars, swarmVars, processVars,
          incomeVars, renderVars, executionVars, dashboardVars, bidsVars, shortsVars, issuesVars,
          trainingVars, shopsVars, frontdeskVars, requests, faults>>

Followed == {"payments", "cluster", "edge", "outreach", "newsletter", "proof", "checkout", "cycles",
             "leads", "scoring", "experiments", "hypervisor", "swarm", "process", "income",
             "renders", "execution", "dashboard", "bids", "shorts", "issues", "training", "shops",
             "frontdesk"}

(* A service that is not followed stays in one of its first states.        *)
Init ==
  /\ service \in Followed
  /\ Payments!Init
  /\ Cluster!Init /\ (service # "cluster" => lane = [t \in Task |-> "WORK"] /\ ~daemon)
  /\ Edge!Init /\ (service # "edge" => snapshot = NoPayload)
  /\ Mailing!Init
  /\ News!Init
  /\ service # "newsletter" => issue = [status |-> "draft", text |-> CHOOSE t \in Text : TRUE]
  /\ Proof!Init /\ Pay!Init /\ Cycles!Init /\ Selling!Init /\ Scoring!Init /\ Trying!Init
  /\ Piping!Init /\ Meshing!Init
  /\ Swarming!Init /\ (service # "swarm" => cloud)
  /\ Earning!Init /\ (service # "income" => writes)
  /\ Filming!Init /\ Executing!Init /\ Showing!Init /\ Bidding!Init /\ Producing!Init
  /\ Mailshots!Init /\ (service # "issues" => desk = "daily")
  /\ Teaching!Init
  /\ service # "training" => bench = "run" /\ student = Teaching!Path("none")
  /\ Vending!Init /\ (service # "shops" => shop = "gumroad")
  /\ Attending!Init /\ (service # "frontdesk" => counter = "voice")

(* A step is one of the service that is followed.                          *)
Follow(s) ==
  /\ service = s /\ UNCHANGED service
  /\ s # "payments" => UNCHANGED paymentVars
  /\ s # "cluster" => UNCHANGED clusterVars
  /\ s # "edge" => UNCHANGED edgeVars
  /\ s # "outreach" => UNCHANGED mailingVars
  /\ s # "newsletter" => UNCHANGED newsVars
  /\ s # "proof" => UNCHANGED proofVars
  /\ s # "checkout" => UNCHANGED payVars
  /\ s # "cycles" => UNCHANGED cycleVars
  /\ s # "leads" => UNCHANGED sellingVars
  /\ s # "scoring" => UNCHANGED scoringVars
  /\ s # "experiments" => UNCHANGED tryingVars
  /\ s # "hypervisor" => UNCHANGED pipingVars
  /\ s # "swarm" => UNCHANGED swarmVars
  /\ s # "process" => UNCHANGED processVars
  /\ s # "income" => UNCHANGED incomeVars
  /\ s # "renders" => UNCHANGED renderVars
  /\ s # "execution" => UNCHANGED executionVars
  /\ s # "dashboard" => UNCHANGED dashboardVars
  /\ s # "bids" => UNCHANGED bidsVars
  /\ s # "shorts" => UNCHANGED shortsVars
  /\ s # "issues" => UNCHANGED issuesVars
  /\ s # "training" => UNCHANGED trainingVars
  /\ s # "shops" => UNCHANGED shopsVars
  /\ s # "frontdesk" => UNCHANGED frontdeskVars

Next ==
  \/ Follow("payments") /\ Payments!Next /\ UNCHANGED requests
  \/ Follow("cluster") /\ Cluster!Next /\ UNCHANGED requests
  \/ Follow("edge") /\ Edge!Next /\ UNCHANGED <<requests, faults>>
  \/ Follow("outreach") /\ Mailing!Next
  \/ Follow("newsletter") /\ News!Next
  \/ Follow("proof") /\ Proof!Next /\ UNCHANGED requests
  \/ Follow("checkout") /\ Pay!Next
  \/ Follow("cycles") /\ Cycles!Next /\ UNCHANGED requests
  \/ Follow("leads") /\ Selling!Next
  \/ Follow("scoring") /\ Scoring!Next
  \/ Follow("experiments") /\ Trying!Next /\ UNCHANGED faults
  \/ Follow("hypervisor") /\ Piping!Next /\ UNCHANGED requests
  \/ Follow("swarm") /\ Swarming!Next /\ UNCHANGED requests
  \/ Follow("process") /\ Meshing!Next /\ UNCHANGED requests
  \/ Follow("income") /\ Earning!Next /\ UNCHANGED requests
  \/ Follow("renders") /\ Filming!Next /\ UNCHANGED requests
  \/ Follow("execution") /\ Executing!Next /\ UNCHANGED requests
  \/ Follow("dashboard") /\ Showing!Next /\ UNCHANGED requests
  \/ Follow("bids") /\ Bidding!Next /\ UNCHANGED requests
  \/ Follow("shorts") /\ Producing!Next /\ UNCHANGED requests
  \/ Follow("issues") /\ Mailshots!Next /\ UNCHANGED requests
  \/ Follow("training") /\ Teaching!Next /\ UNCHANGED requests
  \/ Follow("shops") /\ Vending!Next /\ UNCHANGED requests
  \/ Follow("frontdesk") /\ Attending!Next /\ UNCHANGED requests

(* Only the daemons run by themselves; the others wait for requests.  The  *)
(* payment mesh begins cycle after cycle, its coroutines run and time      *)
(* passes; the cluster master fetches while it is up, its coroutines run,  *)
(* the process is started again, and the sync daemon, when there is one,   *)
(* drains every half minute.                                               *)
PaymentFairness ==
  /\ WF_<<paymentVars, faults>>(service = "payments" /\ \E c \in Cycle : Payments!BeginCycle(c))
  /\ \A c \in Cycle : WF_<<paymentVars, faults>>(service = "payments" /\ Payments!Work(c))
  /\ WF_<<paymentVars, faults>>(service = "payments" /\ Payments!Elapse)
ClusterFairness ==
  /\ \A t \in Task : WF_<<clusterVars, faults>>(service = "cluster" /\ Cluster!Execute(t))
  /\ WF_<<clusterVars, faults>>(service = "cluster" /\ Cluster!Fetch)
  /\ WF_<<clusterVars, faults>>(service = "cluster" /\ Cluster!Restart)
  /\ WF_<<clusterVars, faults>>(service = "cluster" /\ Cluster!Drain)

Spec == Init /\ [][Next]_vars /\ PaymentFairness /\ ClusterFairness

-----------------------------------------------------------------------------
(* The tables hold what their code may write, and the bookkeeping between  *)
(* a table and its workers is consistent.                                  *)
TypeOK ==
  /\ service \in Followed
  /\ service = "payments" => Payments!TypeOK
  /\ service = "cluster" => Cluster!TypeOK
  /\ service = "edge" => Edge!TypeOK
  /\ service = "outreach" => Mailing!TypeOK
  /\ service = "newsletter" => News!TypeOK
  /\ service = "proof" => Proof!TypeOK
  /\ service = "checkout" => Pay!TypeOK
  /\ service = "cycles" => Cycles!TypeOK
  /\ service = "leads" => Selling!TypeOK
  /\ service = "scoring" => Scoring!TypeOK
  /\ service = "experiments" => Trying!TypeOK
  /\ service = "hypervisor" => Piping!TypeOK
  /\ service = "swarm" => Swarming!TypeOK
  /\ service = "process" => Meshing!TypeOK
  /\ service = "income" => Earning!TypeOK
  /\ service = "renders" => Filming!TypeOK
  /\ service = "execution" => Executing!TypeOK
  /\ service = "dashboard" => Showing!TypeOK
  /\ service = "bids" => Bidding!TypeOK
  /\ service = "shorts" => Producing!TypeOK
  /\ service = "issues" => Mailshots!TypeOK
  /\ service = "training" => Teaching!TypeOK
  /\ service = "shops" => Vending!TypeOK
  /\ service = "frontdesk" => Attending!TypeOK

(* No effect on the outside is repeated, but for the reasons each service  *)
(* names: an outcome that was not recorded, or workers that crossed.       *)
EffectsOnce ==
  /\ service = "payments" => Payments!EffectsOnce
  /\ service = "cluster" => Cluster!EffectsOnce
  /\ service = "edge" => Edge!EffectsOnce
  /\ service = "outreach" => Mailing!EffectsOnce
  /\ service = "newsletter" => News!EffectsOnce
  /\ service = "proof" => Proof!EffectsOnce
  /\ service = "checkout" => Pay!EffectsOnce
  /\ service = "cycles" => Cycles!EffectsOnce
  /\ service = "leads" => Selling!EffectsOnce
  /\ service = "scoring" => Scoring!EffectsOnce
  /\ service = "experiments" => Trying!EffectsOnce
  /\ service = "hypervisor" => Piping!EffectsOnce
  /\ service = "swarm" => Swarming!EffectsOnce
  /\ service = "process" => Meshing!EffectsOnce
  /\ service = "income" => Earning!EffectsOnce
  /\ service = "renders" => Filming!EffectsOnce
  /\ service = "execution" => Executing!EffectsOnce
  /\ service = "dashboard" => Showing!EffectsOnce
  /\ service = "bids" => Bidding!EffectsOnce
  /\ service = "shorts" => Producing!EffectsOnce
  /\ service = "issues" => Mailshots!EffectsOnce
  /\ service = "training" => Teaching!EffectsOnce
  /\ service = "shops" => Vending!EffectsOnce
  /\ service = "frontdesk" => Attending!EffectsOnce

(* What was accepted is pending, or done as recorded, or kept as a dead    *)
(* letter, but for the reasons each service names.                         *)
NothingLost ==
  /\ service = "payments" => Payments!NothingLost
  /\ service = "cluster" => Cluster!NothingLost
  /\ service = "edge" => Edge!NothingLost
  /\ service = "outreach" => Mailing!NothingLost
  /\ service = "newsletter" => News!NothingLost
  /\ service = "proof" => Proof!NothingLost
  /\ service = "checkout" => Pay!NothingLost
  /\ service = "cycles" => Cycles!NothingLost
  /\ service = "leads" => Selling!NothingLost
  /\ service = "scoring" => Scoring!NothingLost
  /\ service = "experiments" => Trying!NothingLost
  /\ service = "hypervisor" => Piping!NothingLost
  /\ service = "swarm" => Swarming!NothingLost
  /\ service = "process" => Meshing!NothingLost
  /\ service = "income" => Earning!NothingLost
  /\ service = "renders" => Filming!NothingLost
  /\ service = "execution" => Executing!NothingLost
  /\ service = "dashboard" => Showing!NothingLost
  /\ service = "bids" => Bidding!NothingLost
  /\ service = "shorts" => Producing!NothingLost
  /\ service = "issues" => Mailshots!NothingLost
  /\ service = "training" => Teaching!NothingLost
  /\ service = "shops" => Vending!NothingLost
  /\ service = "frontdesk" => Attending!NothingLost

(* The daemons settle what is queued.                                      *)
EveryItemSettles ==
  /\ service = "payments" => Payments!EveryItemSettles
  /\ service = "cluster" => Cluster!EveryItemSettles
=============================================================================
