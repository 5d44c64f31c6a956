---------------------------- MODULE TradeProofs -----------------------------
(***************************************************************************)
(* The promises of more of the services, each proved of the machine that   *)
(* Services follows: the contracting tools, the shops, the cycles of       *)
(* passive income, the process mesh, the newsletter, the execution core    *)
(* and the backend of the dashboard, under the names and with the renamed  *)
(* variables they have there.  Each has an inductive invariant, one lemma  *)
(* per action, and at the end a theorem for every value of its constants.  *)
(***************************************************************************)
EXTENDS Naturals, Sequences, FiniteSets, FiniteSetTheorems, NaturalsInduction, WellFoundedInduction, TLAPS

CONSTANTS
  Contract, Broken, Notice, Nameless, Timeline, Import, Scrape,
  Item, WithFile, Deploy, Listing, Sweep, Shirt, Pusher, OnPage,
  IncomeCycle, Briefing, Selected, Threshold,
  People, Signup, Publisher, Text,
  CoreCall, Objective, Risky, Unserved, Visit, Screen, FewFaults, MaxRequests, MaxFaults

VARIABLES
  contracts, agency, solicitation, rates, bidJob, drafts, clashed,
  shop, vendor, goods, url, pusher, artwork, apparel, blind,
  writes, income, prepared, lapsed, signed, executed, approved, posts, unanswered,
  stage, worker, output, aiCircuit, asked, envelopes, failing,
  subscriber, signup, issue, publisher, resend, inbox, confirmed, left, raced, listings,
  reached, dropped,
  call, memory, file, spoilt, lapsedAnswers,
  visit, waitlist, runRow, decisions, cycles, screen, hub, heard, visitsMet,
  requests, faults

Bidding == INSTANCE Bids WITH job <- bidJob, MaxFaults <- FewFaults
Vending == INSTANCE Storefront WITH MaxFaults <- FewFaults
Earning == INSTANCE PassiveIncome WITH MaxFaults <- FewFaults
Meshing == INSTANCE ProcessMesh WITH answers <- envelopes, MaxFaults <- FewFaults
News == INSTANCE Newsletter
Executing == INSTANCE Execution WITH
  Call <- CoreCall, lapsed <- lapsedAnswers, MaxFaults <- FewFaults
Showing == INSTANCE Dashboard WITH met <- visitsMet, MaxFaults <- FewFaults

-----------------------------------------------------------------------------
(* What the steps of the machines do to the size of a set.                 *)
LEMMA CountNone ==
  ASSUME NEW S, S = {}
  PROVE  IsFiniteSet(S) /\ Cardinality(S) = 0
BY FS_EmptySet

(* No more elements than before.                                           *)
LEMMA CountSubset ==
  ASSUME NEW S, NEW T, IsFiniteSet(S), T \subseteq S
  PROVE  /\ IsFiniteSet(T) /\ Cardinality(T) \in Nat /\ Cardinality(S) \in Nat
         /\ Cardinality(T) <= Cardinality(S)
BY FS_Subset, FS_CardinalityType

(* One more at most.                                                       *)
LEMMA CountAdd ==
  ASSUME NEW S, NEW T, NEW x, IsFiniteSet(S), T \subseteq S \cup {x}
  PROVE  /\ IsFiniteSet(T) /\ Cardinality(T) \in Nat /\ Cardinality(S) \in Nat
         /\ Cardinality(T) <= Cardinality(S) + 1
<1>1. /\ IsFiniteSet(S \cup {x})
      /\ Cardinality(S \cup {x}) = IF x \in S THEN Cardinality(S) ELSE Cardinality(S) + 1
  BY FS_AddElement
<1>2. Cardinality(S) \in Nat
  BY FS_CardinalityType
<1>3. Cardinality(S \cup {x}) <= Cardinality(S) + 1 /\ Cardinality(S \cup {x}) \in Nat
  BY <1>1, <1>2
<1>4. IsFiniteSet(T) /\ Cardinality(T) <= Cardinality(S \cup {x}) /\ Cardinality(T) \in Nat
  BY <1>1, CountSubset
<1>5. QED
  BY <1>2, <1>3, <1>4

(* One less at least.                                                      *)
LEMMA CountRemove ==
  ASSUME NEW S, NEW T, NEW x \in S, IsFiniteSet(S), T \subseteq S \ {x}
  PROVE  /\ IsFiniteSet(T) /\ Cardinality(T) \in Nat /\ Cardinality(S) \in Nat
         /\ Cardinality(T) + 1 <= Cardinality(S)
<1>1. IsFiniteSet(S \ {x}) /\ Cardinality(S \ {x}) = Cardinality(S) - 1
  <2>1. /\ IsFiniteSet(S \ {x})
        /\ Cardinality(S \ {x}) = IF x \in S THEN Cardinality(S) - 1 ELSE Cardinality(S)
    BY FS_RemoveElement
  <2>2. QED
    BY <2>1
<1>2. Cardinality(S) \in Nat
  BY FS_CardinalityType
<1>3. IsFiniteSet(T) /\ Cardinality(T) <= Cardinality(S \ {x}) /\ Cardinality(T) \in Nat
  BY <1>1, CountSubset
<1>4. QED
  BY <1>1, <1>2, <1>3

(* A bounded count that goes up, or stays.                                 *)
LEMMA CountUp ==
  ASSUME NEW m \in Nat, NEW n \in 0..m, NEW k, k = n \/ (n < m /\ k = n + 1)
  PROVE  k \in 0..m
OBVIOUS

(* A set of numbers has a least one.                                       *)
LEMMA CountLeast ==
  ASSUME NEW S \in SUBSET Nat, S # {}
  PROVE  \E m \in S : \A j \in S : m <= j
<1> DEFINE Less == {ss \in Nat \X Nat : ss[1] < ss[2]}
<1>1. IsWellFoundedOn(Less, Nat)
  BY NatLessThanWellFounded DEF OpToRel
<1>2. PICK x \in S : \A y \in S : <<y, x>> \notin Less
  <2> HIDE DEF Less
  <2>1. QED
    BY <1>1, WFMin
<1>3. \A y \in S : ~(y < x)
  BY <1>2
<1>4. QED
  BY <1>3

-----------------------------------------------------------------------------
(* The contracting tools.                                                  *)

(* What a run and its transaction hold.                                    *)
BidRun == [at : Bidding!Stage, next : Nat, feed : SUBSET Notice, agency : BOOLEAN,
           rows : SUBSET Contract, notices : SUBSET Bidding!Row, hot : BOOLEAN]
BidBusy == {"look", "agency", "insert"}

BidTypes ==
  /\ contracts \subseteq Contract /\ agency \in BOOLEAN /\ rates \in BOOLEAN
  /\ solicitation \subseteq Bidding!Row /\ bidJob \in [Bidding!Runs -> BidRun] /\ clashed \subseteq Bidding!Runs
  /\ drafts \subseteq [id : {Bidding!Id(n) : n \in Notice}, contracts : 0..Cardinality(Contract), priced : BOOLEAN]

(* A transaction holds rows past the last broken one, or solicitations of  *)
(* low priority with ids of their own.                                     *)
BidShape(j, r) ==
  /\ j.next >= 1 /\ (j.at = "idle" => j.next = 1)
  /\ j.rows # {} => r \in Import /\ j.at \in BidBusy
  /\ j.notices # {} => r \in Scrape /\ j.at \in BidBusy
  /\ j.at \in {"agency", "insert"} =>
       /\ j.next <= Bidding!Last(r)
       /\ r \in Import => j.next \notin Broken
       /\ \A s \in j.notices : s.id # Bidding!Id(j.next)
  /\ \A c \in j.rows : \A b \in Broken : b < j.next => b < c
  /\ \A s, t \in j.notices : s.id = t.id => s = t
  /\ \A s \in j.notices : ~Bidding!HighPriority(s.score)

(* What it holds has its agency, and its ids are nobody else's.            *)
BidHeld(r) ==
  /\ bidJob[r].rows # {} \/ bidJob[r].notices # {} \/ bidJob[r].at = "insert" => agency \/ bidJob[r].agency
  /\ \A s \in bidJob[r].notices, t \in solicitation : s.id # t.id
BidApart == \A r, d \in Bidding!Runs : r # d =>
  \A s \in bidJob[r].notices, t \in bidJob[d].notices : s.id # t.id

(* How far a run has come, and how it ended.                               *)
BidSeenId(r, k) == (\E s \in solicitation : s.id = k) \/ \E s \in bidJob[r].notices : s.id = k
BidCame(r) ==
  /\ r \in Import /\ r \notin clashed /\ bidJob[r].at \in BidBusy =>
       \A c \in Contract : c < bidJob[r].next /\ (\A b \in Broken : b < bidJob[r].next => b < c)
                             => c \in contracts \cup bidJob[r].rows
  /\ r \in Import /\ r \notin clashed /\ bidJob[r].at = "done" => Bidding!Importable \subseteq contracts
  /\ r \in Scrape /\ bidJob[r].at \in BidBusy =>
       \A n \in bidJob[r].feed : n < bidJob[r].next => BidSeenId(r, Bidding!Id(n))
  /\ r \in Scrape /\ bidJob[r].at = "done" => \A n \in bidJob[r].feed : BidSeenId(r, Bidding!Id(n))
  /\ r \in Scrape /\ bidJob[r].at = "failed" => bidJob[r].hot \/ r \in clashed
  /\ r \in Import => bidJob[r].at # "failed"

BidStored ==
  /\ contracts \subseteq Bidding!Importable
  /\ \A s, t \in solicitation : s.id = t.id => s = t
  /\ \A s \in solicitation : ~Bidding!HighPriority(s.score)
  /\ contracts # {} \/ solicitation # {} => agency
BidDrafted == \A d \in drafts : ~d.priced /\ \E s \in solicitation : s.id = d.id

BidRuns == \A r \in Bidding!Runs : BidShape(bidJob[r], r) /\ BidHeld(r) /\ BidCame(r)
BidKeeps == BidTypes /\ BidRuns /\ BidApart /\ BidStored /\ BidDrafted
BidCounts == faults \in 0..FewFaults
BidInv == BidKeeps /\ BidCounts

(* The module's count and the library's.                                   *)
LEMMA BidCount == /\ \A S : Bidding!Cardinality(S) = Cardinality(S)
                  /\ \A S : Bidding!IsFiniteSet(S) = IsFiniteSet(S)
BY Zenon DEF Bidding!Cardinality, Cardinality, Bidding!IsFiniteSet, IsFiniteSet

(* The rows and the solicitations are numbered.                            *)
LEMMA BidNumbers ==
  ASSUME Bidding!BidBounds
  PROVE  /\ \A r \in Bidding!Runs : Bidding!Last(r) \in Nat
         /\ \A r \in Import, k \in Nat \ {0} : k <= Bidding!Last(r) <=> k \in Contract
         /\ \A r \in Scrape, k \in Nat \ {0} : k <= Bidding!Last(r) <=> k \in Notice
         /\ Contract \subseteq Nat \ {0} /\ Notice \subseteq Nat \ {0}
         /\ \A r \in Import, c \in Contract : c <= Bidding!Last(r)
         /\ \A r \in Scrape, n \in Notice : n <= Bidding!Last(r)
<1>1. Cardinality(Contract) \in Nat /\ Cardinality(Notice) \in Nat
  BY FS_CardinalityType, BidCount DEF Bidding!BidBounds
<1>2. DEFINE m == Cardinality(Contract)
             k == Cardinality(Notice)
<1>3. /\ \A r \in Import : Bidding!Last(r) = m
      /\ \A r \in Scrape : Bidding!Last(r) = k
  BY BidCount DEF Bidding!Last, Bidding!BidBounds
<1>4. Contract = 1..m /\ Notice = 1..k
  BY BidCount DEF Bidding!BidBounds
<1>5. m \in Nat /\ k \in Nat
  BY <1>1
<1> HIDE DEF m, k
<1>6. QED
  BY <1>3, <1>4, <1>5 DEF Bidding!Runs

(* A run that has not started, whatever else.                              *)
LEMMA BidIdle ==
  /\ Bidding!Idle \in BidRun /\ Bidding!Idle.at = "idle" /\ Bidding!Idle.next = 1 /\ Bidding!Idle.feed = {} /\ Bidding!Idle.agency = FALSE
  /\ Bidding!Idle.rows = {} /\ Bidding!Idle.notices = {} /\ Bidding!Idle.hot = FALSE
BY DEF Bidding!Idle, BidRun, Bidding!Stage

(* It holds at first.                                                      *)
LEMMA BidInit == Bidding!BidBounds /\ Bidding!Init => BidInv
<1> SUFFICES ASSUME Bidding!BidBounds, Bidding!Init PROVE BidInv
  OBVIOUS
<1>1. \A r \in Bidding!Runs : bidJob[r] = Bidding!Idle
  BY DEF Bidding!Init
<1>2. BidTypes
  BY BidIdle DEF Bidding!Init, BidTypes
<1>3. ASSUME NEW r \in Bidding!Runs PROVE BidShape(bidJob[r], r) /\ BidHeld(r) /\ BidCame(r)
  BY <1>1, BidIdle DEF BidShape, BidHeld, BidCame, BidBusy
<1>4. BidApart
  BY <1>1, BidIdle DEF BidApart
<1>5. BidStored /\ BidDrafted /\ BidCounts
  BY DEF Bidding!Init, BidStored, BidDrafted, BidCounts, Bidding!BidBounds
<1>6. QED
  BY <1>2, <1>3, <1>4, <1>5 DEF BidInv, BidKeeps, BidRuns

(* It says what was asked.                                                 *)
LEMMA BidSays == Bidding!BidBounds /\ BidInv => Bidding!TypeOK /\ Bidding!EffectsOnce /\ Bidding!NothingLost
<1> SUFFICES ASSUME Bidding!BidBounds, BidInv PROVE Bidding!TypeOK /\ Bidding!EffectsOnce /\ Bidding!NothingLost
  OBVIOUS
<1>1. \A r \in Bidding!Runs : BidShape(bidJob[r], r) /\ BidHeld(r) /\ BidCame(r)
  BY DEF BidInv, BidKeeps, BidRuns
<1>2. Bidding!TypeOK
  <2>1. \A r \in Bidding!Runs : bidJob[r].at \in {"done", "failed", "gone"} => bidJob[r].rows = {} /\ bidJob[r].notices = {}
    BY <1>1 DEF BidShape, BidBusy
  <2>2. bidJob \in [Bidding!Runs -> [at : Bidding!Stage, next : Nat, feed : SUBSET Notice, agency : BOOLEAN,
                       rows : SUBSET Contract, notices : SUBSET Bidding!Row, hot : BOOLEAN]]
    BY DEF BidInv, BidKeeps, BidTypes, BidRun
  <2>3. /\ contracts \subseteq Contract /\ agency \in BOOLEAN /\ rates \in BOOLEAN
        /\ solicitation \subseteq Bidding!Row /\ clashed \subseteq Bidding!Runs /\ faults \in 0..FewFaults
    BY DEF BidInv, BidKeeps, BidTypes, BidCounts
  <2>4. /\ \A s \in solicitation : \A t \in solicitation : s.id = t.id => s = t
        /\ contracts # {} \/ solicitation # {} => agency
    BY DEF BidInv, BidKeeps, BidStored
  <2>5. drafts \subseteq [id : {Bidding!Id(n) : n \in Notice}, contracts : 0..Cardinality(Contract), priced : BOOLEAN]
    BY DEF BidInv, BidKeeps, BidTypes
  <2>6. QED
    BY <2>1, <2>2, <2>3, <2>4, <2>5, BidCount DEF Bidding!TypeOK
<1>3. Bidding!EffectsOnce
  <2>1. \A r \in Import : bidJob[r].at = "done" /\ r \notin clashed => contracts = Bidding!Importable
    BY <1>1 DEF BidCame, BidInv, BidKeeps, BidStored, Bidding!Runs
  <2>2. QED
    BY <2>1 DEF Bidding!EffectsOnce, BidInv, BidKeeps, BidStored
<1>4. Bidding!NothingLost
  <2>1. ASSUME NEW r \in Scrape, bidJob[r].at = "done", NEW n \in bidJob[r].feed
        PROVE  Bidding!Id(n) \in Bidding!SeenIds(r)
    <3>1. BidSeenId(r, Bidding!Id(n))
      BY <1>1, <2>1 DEF BidCame, Bidding!Runs
    <3>2. QED
      BY <3>1 DEF BidSeenId, Bidding!SeenIds
  <2>2. \A r \in Scrape : bidJob[r].at = "failed" => bidJob[r].hot \/ r \in clashed
    BY <1>1 DEF BidCame, Bidding!Runs
  <2>3. \A r \in Scrape : bidJob[r].at = "done" => {Bidding!Id(n) : n \in bidJob[r].feed} \subseteq Bidding!SeenIds(r)
    BY <2>1
  <2>4. QED
    BY <2>2, <2>3 DEF Bidding!NothingLost, BidInv, BidKeeps, BidDrafted
<1>5. QED
  BY <1>2, <1>3, <1>4

(* A step that changes nothing of it, and one that only adds a rate.       *)
LEMMA BidRemains ==
  ASSUME BidKeeps, UNCHANGED <<contracts, agency, solicitation, bidJob, drafts, clashed>>, rates' \in BOOLEAN
  PROVE  BidKeeps'
<1>1. BidTypes'
  BY DEF BidKeeps, BidTypes
<1>2. BidRuns'
  BY DEF BidKeeps, BidRuns, BidShape, BidHeld, BidCame, BidSeenId
<1>3. BidApart' /\ BidStored' /\ BidDrafted'
  BY DEF BidKeeps, BidApart, BidStored, BidDrafted
<1>4. QED
  BY <1>1, <1>2, <1>3 DEF BidKeeps

(* A step of another service leaves it.                                    *)
LEMMA BidRests == BidInv /\ UNCHANGED Bidding!bids => BidInv'
<1> SUFFICES ASSUME BidInv, UNCHANGED Bidding!bids PROVE BidInv'
  OBVIOUS
<1>1. UNCHANGED <<contracts, agency, solicitation, bidJob, drafts, clashed, rates, faults>>
  BY DEF Bidding!bids
<1>2. BidKeeps'
  BY <1>1, BidRemains DEF BidInv, BidKeeps, BidTypes
<1>3. QED
  BY <1>1, <1>2 DEF BidInv, BidCounts

-----------------------------------------------------------------------------
(* A step of one run, which stores nothing.                                *)
LEMMA BidAlone ==
  ASSUME BidKeeps, NEW r \in Bidding!Runs, NEW x \in BidRun, bidJob' = [bidJob EXCEPT ![r] = x],
         UNCHANGED <<Bidding!Table, drafts>>, clashed' = clashed \/ clashed' = clashed \cup {r},
         BidShape(x, r), BidHeld(r)', BidCame(r)',
         \A d \in Bidding!Runs \ {r} : \A s \in x.notices, t \in bidJob[d].notices : s.id # t.id
  PROVE  BidKeeps'
<1>1. /\ bidJob' \in [Bidding!Runs -> BidRun] /\ bidJob'[r] = x
      /\ \A d \in Bidding!Runs : d # r => bidJob'[d] = bidJob[d]
  BY DEF BidKeeps, BidTypes
<1>2. UNCHANGED <<contracts, agency, solicitation, rates, drafts>>
  BY DEF Bidding!Table
<1>3. BidTypes'
  BY <1>1, <1>2 DEF BidKeeps, BidTypes
<1>4. ASSUME NEW d \in Bidding!Runs PROVE BidShape(bidJob'[d], d) /\ BidHeld(d)' /\ BidCame(d)'
  <2>1. CASE d = r
    BY <1>1, <2>1
  <2>2. CASE d # r
    <3>1. bidJob'[d] = bidJob[d] /\ BidShape(bidJob[d], d) /\ BidHeld(d) /\ BidCame(d)
      BY <1>1, <2>2 DEF BidKeeps, BidRuns
    <3>2. d \in clashed' <=> d \in clashed
      BY <2>2
    <3>3. BidCame(d)'
      BY <1>2, <3>1, <3>2 DEF BidCame, BidSeenId
    <3>4. BidHeld(d)'
      BY <1>2, <3>1 DEF BidHeld
    <3>5. QED
      BY <3>1, <3>3, <3>4
  <2>3. QED
    BY <2>1, <2>2
<1>5. BidRuns'
  BY <1>4 DEF BidRuns, BidShape, Bidding!Last
<1>6. BidApart'
  <2>1. SUFFICES ASSUME NEW c \in Bidding!Runs, NEW d \in Bidding!Runs, c # d,
                        NEW s \in bidJob'[c].notices, NEW t \in bidJob'[d].notices
                 PROVE  s.id # t.id
    BY DEF BidApart
  <2>2. CASE c = r
    BY <1>1, <2>1, <2>2
  <2>3. CASE d = r
    BY <1>1, <2>1, <2>3
  <2>4. CASE c # r /\ d # r
    BY <1>1, <2>1, <2>4 DEF BidKeeps, BidApart
  <2>5. QED
    BY <2>2, <2>3, <2>4
<1>7. BidStored' /\ BidDrafted'
  BY <1>2 DEF BidKeeps, BidStored, BidDrafted
<1>8. QED
  BY <1>3, <1>5, <1>6, <1>7 DEF BidKeeps

(* A run starts.                                                           *)
LEMMA BidStarts ==
  ASSUME Bidding!BidBounds, BidKeeps, NEW r \in Bidding!Runs, Bidding!Start(r)
  PROVE  BidKeeps'
<1>1. Bidding!At(r, "idle") /\ UNCHANGED <<Bidding!Table, drafts, clashed>>
  BY DEF Bidding!Start
<1>2. PICK feed \in SUBSET Notice : bidJob' = [bidJob EXCEPT ![r].at = "look", ![r].feed = feed]
  <2>1. CASE r \in Import /\ Bidding!Goto(r, "look")
    <3>1. bidJob' = [bidJob EXCEPT ![r].at = "look", ![r].feed = bidJob[r].feed]
      BY <2>1 DEF Bidding!Goto, BidKeeps, BidTypes, BidRun
    <3>2. bidJob[r].feed \in SUBSET Notice
      BY DEF BidKeeps, BidTypes, BidRun
    <3>3. QED
      BY <3>1, <3>2
  <2>2. CASE bidJob' = [bidJob EXCEPT ![r].at = "look", ![r].feed = Notice]
    BY <2>2
  <2>3. CASE \E feed \in SUBSET Notice :
               feed # Notice /\ bidJob' = [bidJob EXCEPT ![r].at = "look", ![r].feed = feed]
    BY <2>3
  <2>4. QED
    BY <2>1, <2>2, <2>3 DEF Bidding!Start
<1> DEFINE x == [bidJob[r] EXCEPT !.at = "look", !.feed = feed]
<1>3. bidJob' = [bidJob EXCEPT ![r] = x]
  BY <1>2
<1>4. bidJob[r] \in BidRun /\ BidShape(bidJob[r], r) /\ BidHeld(r) /\ BidCame(r) /\ bidJob[r].at = "idle"
  BY <1>1 DEF Bidding!At, BidKeeps, BidTypes, BidRuns
<1>5. /\ x \in BidRun /\ x.at = "look" /\ x.rows = {} /\ x.notices = {} /\ x.next = bidJob[r].next
      /\ x.feed = feed
  BY <1>4 DEF BidRun, BidShape, BidBusy, Bidding!Stage
<1>6. bidJob'[r] = x
  BY <1>3 DEF BidKeeps, BidTypes
<1> HIDE DEF x
<1>7. BidShape(x, r)
  BY <1>4, <1>5 DEF BidShape
<1>8. x.next = 1
  BY <1>4, <1>5 DEF BidShape
<1>9. BidHeld(r)' /\ BidCame(r)'
  <2>1. BidHeld(r)'
    BY <1>5, <1>6 DEF BidHeld
  <2>2. \A c \in Contract : ~(c < 1)
    BY BidNumbers
  <2>3. \A n \in feed : ~(n < 1)
    BY BidNumbers
  <2>4. QED
    BY <1>5, <1>6, <1>8, <2>1, <2>2, <2>3 DEF BidCame, BidBusy
<1>10. QED
  BY <1>1, <1>3, <1>5, <1>7, <1>9, BidAlone

(* The next row is looked at: passed over, or on its way into the table.   *)
LEMMA BidLooks ==
  ASSUME Bidding!BidBounds, BidKeeps, NEW r \in Bidding!Runs, Bidding!Look(r)
  PROVE  BidKeeps'
<1>1. /\ bidJob[r].at = "look" /\ bidJob[r].next <= Bidding!Last(r) /\ ~(r \in Import /\ bidJob[r].next \in Broken)
      /\ bidJob' = IF Bidding!Known(r) THEN [bidJob EXCEPT ![r].next = @ + 1]
                ELSE [bidJob EXCEPT ![r].at = IF Bidding!SeesAgency(r) THEN "insert" ELSE "agency"]
      /\ UNCHANGED <<Bidding!Table, drafts, clashed>>
  BY DEF Bidding!Look, Bidding!At
<1>2. bidJob[r] \in BidRun /\ BidShape(bidJob[r], r) /\ BidHeld(r) /\ BidCame(r)
  BY DEF BidKeeps, BidTypes, BidRuns
<1>3. bidJob[r].next \in Nat \ {0} /\ bidJob[r].next + 1 \in Nat
  BY <1>2 DEF BidRun, BidShape
<1>4. UNCHANGED <<contracts, agency, solicitation>>
  BY <1>1 DEF Bidding!Table
<1>5. \A d \in Bidding!Runs \ {r} : \A s \in bidJob[r].notices, t \in bidJob[d].notices : s.id # t.id
  BY DEF BidKeeps, BidApart
<1>6. CASE Bidding!Known(r)
  <2> DEFINE x == [bidJob[r] EXCEPT !.next = @ + 1]
  <2>1. bidJob' = [bidJob EXCEPT ![r] = x]
    BY <1>1, <1>6
  <2>2. /\ x \in BidRun /\ x.at = "look" /\ x.rows = bidJob[r].rows /\ x.notices = bidJob[r].notices
        /\ x.next = bidJob[r].next + 1 /\ x.feed = bidJob[r].feed /\ x.agency = bidJob[r].agency
    BY <1>1, <1>2, <1>3 DEF BidRun
  <2>3. bidJob'[r] = x
    BY <2>1 DEF BidKeeps, BidTypes
  <2> HIDE DEF x
  <2>4. BidHeld(r)'
    BY <1>1, <1>2, <1>4, <2>2, <2>3 DEF BidHeld
  <2>5. CASE r \in Import
    <3>1. r \notin Scrape /\ bidJob[r].next \in contracts \cup bidJob[r].rows
      BY <1>6, <2>5 DEF Bidding!BidBounds, Bidding!Known, Bidding!Seen
    <3>2. bidJob[r].notices = {} /\ bidJob[r].next \notin Broken
      BY <1>1, <1>2, <2>5, <3>1 DEF BidShape
    <3>3. \A b \in Broken : b \in Nat /\ (b < bidJob[r].next + 1 => b < bidJob[r].next)
      BY <1>3, <3>2, BidNumbers DEF Bidding!BidBounds
    <3>4. BidShape(x, r)
      BY <1>1, <1>2, <1>3, <2>2, <2>5, <3>1, <3>2, <3>3 DEF BidShape, BidBusy
    <3>5. \A c \in Contract : c < bidJob[r].next + 1 => c = bidJob[r].next \/ c < bidJob[r].next
      BY <1>3, BidNumbers
    <3>6. ASSUME r \notin clashed, NEW c \in Contract, c < x.next, \A b \in Broken : b < x.next => b < c
          PROVE  c \in contracts \cup x.rows
      <4>1. CASE c = bidJob[r].next
        BY <2>2, <3>1, <4>1
      <4>2. CASE c < bidJob[r].next
        <5>1. \A b \in Broken : b < bidJob[r].next => b < x.next
          BY <1>3, <2>2, BidNumbers DEF Bidding!BidBounds
        <5>2. QED
          BY <1>1, <1>2, <2>2, <2>5, <3>6, <4>2, <5>1 DEF BidCame, BidBusy
      <4>3. QED
        BY <2>2, <3>5, <3>6, <4>1, <4>2
    <3>7. BidCame(r)'
      BY <1>1, <1>4, <2>2, <2>3, <3>1, <3>6 DEF BidCame, BidBusy
    <3>8. QED
      BY <1>1, <1>5, <2>1, <2>2, <2>4, <3>4, <3>7, BidAlone
  <2>6. CASE r \notin Import
    <3>1. r \in Scrape /\ (bidJob[r].next \notin bidJob[r].feed \/ BidSeenId(r, Bidding!Id(bidJob[r].next)))
      BY <1>6, <2>6 DEF Bidding!Runs, Bidding!Known, Bidding!SeenIds, BidSeenId
    <3>2. bidJob[r].rows = {}
      BY <1>2, <2>6 DEF BidShape
    <3>3. BidShape(x, r)
      BY <1>1, <1>2, <1>3, <2>2, <3>1, <3>2 DEF BidShape, BidBusy
    <3>4. \A n \in bidJob[r].feed : n < bidJob[r].next + 1 => n = bidJob[r].next \/ n < bidJob[r].next
      <4>1. bidJob[r].feed \subseteq Notice
        BY <1>2 DEF BidRun
      <4>2. QED
        BY <1>3, <4>1, BidNumbers
    <3>5. ASSUME NEW n \in bidJob[r].feed, n < x.next PROVE BidSeenId(r, Bidding!Id(n))
      BY <1>1, <1>2, <2>2, <3>1, <3>4, <3>5 DEF BidCame, BidBusy
    <3>6. BidCame(r)'
      BY <1>1, <1>4, <2>2, <2>3, <2>6, <3>5 DEF BidCame, BidBusy, BidSeenId
    <3>7. QED
      BY <1>1, <1>5, <2>1, <2>2, <2>4, <3>3, <3>6, BidAlone
  <2>7. QED
    BY <2>5, <2>6
<1>7. CASE ~Bidding!Known(r)
  <2> DEFINE x == [bidJob[r] EXCEPT !.at = IF Bidding!SeesAgency(r) THEN "insert" ELSE "agency"]
  <2>1. bidJob' = [bidJob EXCEPT ![r] = x]
    BY <1>1, <1>7
  <2>2. /\ x \in BidRun /\ x.at \in {"insert", "agency"} /\ (x.at = "insert" => Bidding!SeesAgency(r))
        /\ x.rows = bidJob[r].rows /\ x.notices = bidJob[r].notices
        /\ x.next = bidJob[r].next /\ x.feed = bidJob[r].feed /\ x.agency = bidJob[r].agency
    BY <1>1, <1>2 DEF BidRun, Bidding!Stage
  <2>3. bidJob'[r] = x
    BY <2>1 DEF BidKeeps, BidTypes
  <2> HIDE DEF x
  <2>4. BidHeld(r)'
    BY <1>1, <1>2, <1>4, <2>2, <2>3 DEF BidHeld, Bidding!SeesAgency
  <2>5. \A s \in bidJob[r].notices : s.id # Bidding!Id(bidJob[r].next)
    <3>1. CASE r \in Import
      BY <1>2, <3>1 DEF BidShape, Bidding!BidBounds
    <3>2. CASE r \notin Import
      BY <1>7, <3>2 DEF Bidding!Known, Bidding!SeenIds
    <3>3. QED
      BY <3>1, <3>2
  <2>6. BidShape(x, r)
    BY <1>1, <1>2, <1>3, <2>2, <2>5 DEF BidShape, BidBusy
  <2>7. BidCame(r)'
    BY <1>1, <1>2, <1>4, <2>2, <2>3 DEF BidCame, BidBusy, BidSeenId
  <2>8. QED
    BY <1>1, <1>5, <2>1, <2>2, <2>4, <2>6, <2>7, BidAlone
<1>8. QED
  BY <1>6, <1>7

(* A row fails: the transaction is dropped, and an import goes on.         *)
LEMMA BidRaises ==
  ASSUME Bidding!BidBounds, BidKeeps, NEW r \in Bidding!Runs, bidJob[r].at \in BidBusy,
         NEW x \in BidRun, bidJob' = [bidJob EXCEPT ![r] = x], x.rows = {}, x.notices = {},
         r \in Import => x.at = "look" /\ x.next = bidJob[r].next + 1,
         r \notin Import => x.at = "failed" /\ x.next = 1 /\ (x.hot \/ r \in clashed'),
         r \in Import => bidJob[r].next \in Broken \/ r \in clashed',
         UNCHANGED <<Bidding!Table, drafts>>, clashed' = clashed \/ clashed' = clashed \cup {r}
  PROVE  BidKeeps'
<1>1. bidJob'[r] = x /\ bidJob[r] \in BidRun /\ BidShape(bidJob[r], r)
  BY DEF BidKeeps, BidTypes, BidRuns
<1>2. bidJob[r].next \in Nat \ {0}
  BY <1>1 DEF BidRun, BidShape
<1>3. BidShape(x, r)
  BY <1>2 DEF BidShape
<1>4. BidHeld(r)'
  BY <1>1 DEF BidHeld
<1>5. CASE r \in Import
  <2>1. ASSUME r \notin clashed', NEW c \in Contract, c < x.next, \A b \in Broken : b < x.next => b < c
        PROVE  FALSE
    <3>1. bidJob[r].next \in Broken /\ bidJob[r].next < x.next
      BY <1>2, <1>5, <2>1
    <3>2. bidJob[r].next < c
      BY <2>1, <3>1
    <3>3. QED
      BY <1>2, <1>5, <2>1, <3>2, BidNumbers
  <2>2. r \notin Scrape
    BY <1>5 DEF Bidding!BidBounds
  <2>3. BidCame(r)'
    BY <1>1, <1>5, <2>1, <2>2 DEF BidCame
  <2>4. QED
    BY <1>3, <1>4, <2>3, BidAlone
<1>6. CASE r \notin Import
  <2>1. BidCame(r)'
    BY <1>1, <1>6 DEF BidCame, BidBusy
  <2>2. QED
    BY <1>3, <1>4, <2>1, BidAlone
<1>7. QED
  BY <1>5, <1>6

(* What it is then.                                                        *)
LEMMA BidDropped ==
  ASSUME BidKeeps, NEW r \in Bidding!Runs
  PROVE  /\ Bidding!Raised(r) \in BidRun /\ Bidding!Raised(r).rows = {} /\ Bidding!Raised(r).notices = {}
         /\ r \in Import => Bidding!Raised(r).at = "look" /\ Bidding!Raised(r).next = bidJob[r].next + 1
         /\ r \notin Import => Bidding!Raised(r).at = "failed" /\ Bidding!Raised(r).next = 1
<1>1. bidJob[r].next + 1 \in Nat /\ bidJob[r].hot \in BOOLEAN
  BY DEF BidKeeps, BidTypes, BidRun
<1> DEFINE m == bidJob[r].next + 1
           h == bidJob[r].hot
<1>2. /\ r \in Import => Bidding!Raised(r) = [at |-> "look", next |-> m, feed |-> {}, agency |-> FALSE, rows |-> {},
                                     notices |-> {}, hot |-> FALSE]
      /\ r \notin Import => Bidding!Raised(r) = [at |-> "failed", next |-> 1, feed |-> {}, agency |-> FALSE, rows |-> {},
                                        notices |-> {}, hot |-> h]
  BY DEF Bidding!Raised, Bidding!Idle
<1>3. m \in Nat /\ h \in BOOLEAN
  BY <1>1
<1> HIDE DEF m, h
<1> DEFINE x == [at |-> "look", next |-> m, feed |-> {}, agency |-> FALSE, rows |-> {},
                 notices |-> {}, hot |-> FALSE]
           y == [at |-> "failed", next |-> 1, feed |-> {}, agency |-> FALSE, rows |-> {},
                 notices |-> {}, hot |-> h]
<1>4. /\ x \in BidRun /\ x.rows = {} /\ x.notices = {} /\ x.at = "look" /\ x.next = m
      /\ y \in BidRun /\ y.rows = {} /\ y.notices = {} /\ y.at = "failed" /\ y.next = 1
  BY <1>3 DEF BidRun, Bidding!Stage
<1>5. (r \in Import => Bidding!Raised(r) = x) /\ (r \notin Import => Bidding!Raised(r) = y)
  BY <1>2
<1> HIDE DEF x, y
<1>6. CASE r \in Import
  BY <1>4, <1>5, <1>6 DEF m
<1>7. CASE r \notin Import
  BY <1>4, <1>5, <1>7
<1>8. QED
  BY <1>6, <1>7

(* A row that cannot be imported.                                          *)
LEMMA BidBreaks ==
  ASSUME Bidding!BidBounds, BidKeeps, NEW r \in Bidding!Runs, Bidding!BrokenRow(r)
  PROVE  BidKeeps'
<1>1. /\ r \in Import /\ bidJob[r].at = "look" /\ bidJob[r].next \in Broken
      /\ bidJob' = [bidJob EXCEPT ![r] = Bidding!Raised(r)] /\ UNCHANGED <<Bidding!Table, drafts, clashed>>
  BY DEF Bidding!BrokenRow, Bidding!At
<1> DEFINE x == Bidding!Raised(r)
<1>2. x \in BidRun /\ x.rows = {} /\ x.notices = {} /\ x.at = "look" /\ x.next = bidJob[r].next + 1
  BY <1>1, BidDropped
<1>3. bidJob' = [bidJob EXCEPT ![r] = x]
  BY <1>1
<1> HIDE DEF x
<1>4. QED
  BY <1>1, <1>2, <1>3, BidRaises DEF BidBusy

(* A key that another run has written.                                     *)
LEMMA BidClashes ==
  ASSUME Bidding!BidBounds, BidKeeps, NEW r \in Bidding!Runs, bidJob[r].at \in BidBusy,
         bidJob' = [bidJob EXCEPT ![r] = Bidding!Raised(r)], clashed' = clashed \cup {r}, UNCHANGED <<Bidding!Table, drafts>>
  PROVE  BidKeeps'
<1> DEFINE x == Bidding!Raised(r)
<1>1. /\ x \in BidRun /\ x.rows = {} /\ x.notices = {}
      /\ r \in Import => x.at = "look" /\ x.next = bidJob[r].next + 1
      /\ r \notin Import => x.at = "failed" /\ x.next = 1
  BY BidDropped
<1>2. bidJob' = [bidJob EXCEPT ![r] = x]
  OBVIOUS
<1> HIDE DEF x
<1>3. r \in clashed'
  OBVIOUS
<1>4. QED
  BY <1>1, <1>2, <1>3, BidRaises

(* The row of the agency is written.                                       *)
LEMMA BidAgency ==
  ASSUME Bidding!BidBounds, BidKeeps, NEW r \in Bidding!Runs, Bidding!AddAgency(r)
  PROVE  BidKeeps'
<1>1. bidJob[r].at = "agency" /\ UNCHANGED <<Bidding!Table, drafts>>
  BY DEF Bidding!AddAgency, Bidding!At
<1>2. CASE bidJob' = [bidJob EXCEPT ![r] = Bidding!Raised(r)] /\ clashed' = clashed \cup {r}
  BY <1>1, <1>2, BidClashes DEF BidBusy
<1>3. CASE bidJob' = [bidJob EXCEPT ![r].at = "insert", ![r].agency = TRUE] /\ UNCHANGED clashed
  <2> DEFINE x == [bidJob[r] EXCEPT !.at = "insert", !.agency = TRUE]
  <2>1. bidJob[r] \in BidRun /\ BidShape(bidJob[r], r) /\ BidHeld(r) /\ BidCame(r)
    BY DEF BidKeeps, BidTypes, BidRuns
  <2>2. bidJob' = [bidJob EXCEPT ![r] = x]
    BY <1>3
  <2>3. /\ x \in BidRun /\ x.at = "insert" /\ x.agency = TRUE
        /\ x.rows = bidJob[r].rows /\ x.notices = bidJob[r].notices
        /\ x.next = bidJob[r].next /\ x.feed = bidJob[r].feed
    BY <2>1 DEF BidRun, Bidding!Stage
  <2>4. bidJob'[r] = x
    BY <2>2 DEF BidKeeps, BidTypes
  <2> HIDE DEF x
  <2>5. UNCHANGED <<contracts, agency, solicitation>>
    BY <1>1 DEF Bidding!Table
  <2>6. BidHeld(r)'
    BY <2>1, <2>3, <2>4, <2>5 DEF BidHeld
  <2>7. BidShape(x, r)
    BY <1>1, <2>1, <2>3 DEF BidShape, BidBusy
  <2>8. BidCame(r)'
    BY <1>1, <1>3, <2>1, <2>3, <2>4, <2>5 DEF BidCame, BidBusy, BidSeenId
  <2>9. \A d \in Bidding!Runs \ {r} : \A s \in bidJob[r].notices, t \in bidJob[d].notices : s.id # t.id
    BY DEF BidKeeps, BidApart
  <2>10. QED
    BY <1>1, <1>3, <2>2, <2>3, <2>6, <2>7, <2>8, <2>9, BidAlone
<1>4. QED
  BY <1>2, <1>3 DEF Bidding!AddAgency

(* A contract is written.                                                  *)
LEMMA BidContract ==
  ASSUME Bidding!BidBounds, BidKeeps, NEW r \in Bidding!Runs, Bidding!AddContract(r)
  PROVE  BidKeeps'
<1>1. /\ r \in Import /\ bidJob[r].at = "insert"
      /\ bidJob' = [bidJob EXCEPT ![r].at = "look", ![r].next = @ + 1, ![r].rows = @ \cup {bidJob[r].next}]
      /\ UNCHANGED <<Bidding!Table, drafts, clashed>>
  BY DEF Bidding!AddContract, Bidding!At
<1>2. bidJob[r] \in BidRun /\ BidShape(bidJob[r], r) /\ BidHeld(r) /\ BidCame(r)
  BY DEF BidKeeps, BidTypes, BidRuns
<1> DEFINE m == bidJob[r].next + 1
<1>3. bidJob[r].next \in Nat \ {0} /\ m \in Nat /\ m >= 1
  BY <1>2 DEF BidRun, BidShape
<1>4. bidJob[r].next \in Contract /\ bidJob[r].next \notin Broken
  BY <1>1, <1>2, <1>3, BidNumbers DEF BidShape
<1>5. \A k \in Nat : k < m => k = bidJob[r].next \/ k < bidJob[r].next
  BY <1>3
<1>6. bidJob[r].next < m
  BY <1>3
<1> HIDE DEF m
<1> DEFINE x == [bidJob[r] EXCEPT !.at = "look", !.next = m, !.rows = @ \cup {bidJob[r].next}]
<1>7. bidJob' = [bidJob EXCEPT ![r] = x]
  BY <1>1 DEF m
<1>8. /\ x \in BidRun /\ x.at = "look" /\ x.agency = bidJob[r].agency /\ x.next = m
      /\ x.rows = bidJob[r].rows \cup {bidJob[r].next} /\ x.notices = bidJob[r].notices
  BY <1>2, <1>3, <1>4 DEF BidRun, Bidding!Stage
<1>9. bidJob'[r] = x
  BY <1>7 DEF BidKeeps, BidTypes
<1> HIDE DEF x
<1>10. r \notin Scrape /\ bidJob[r].notices = {}
  BY <1>1, <1>2 DEF Bidding!BidBounds, BidShape
<1>11. UNCHANGED <<contracts, agency, solicitation>>
  BY <1>1 DEF Bidding!Table
<1>12. BidHeld(r)'
  BY <1>1, <1>2, <1>8, <1>9, <1>10, <1>11 DEF BidHeld
<1>13. \A b \in Broken : b < m => b < bidJob[r].next
  BY <1>4, <1>5, BidNumbers DEF Bidding!BidBounds
<1>14. BidShape(x, r)
  BY <1>1, <1>2, <1>3, <1>4, <1>8, <1>10, <1>13 DEF BidShape, BidBusy
<1>15. ASSUME r \notin clashed, NEW c \in Contract, c < m, \A b \in Broken : b < m => b < c
       PROVE  c \in contracts \cup x.rows
  <2>1. CASE c = bidJob[r].next
    BY <1>8, <2>1
  <2>2. CASE c < bidJob[r].next
    <3>1. \A b \in Broken : b < bidJob[r].next => b < m
      BY <1>3, <1>6, BidNumbers DEF Bidding!BidBounds
    <3>2. c \in contracts \cup bidJob[r].rows
      BY <1>1, <1>2, <1>15, <2>2, <3>1 DEF BidCame, BidBusy
    <3>3. QED
      BY <1>8, <3>2
  <2>3. QED
    BY <1>5, <1>15, <2>1, <2>2, BidNumbers
<1>16. BidCame(r)'
  BY <1>1, <1>8, <1>9, <1>10, <1>11, <1>15 DEF BidCame, BidBusy
<1>17. QED
  BY <1>1, <1>7, <1>8, <1>10, <1>12, <1>14, <1>16, BidAlone

(* A score is of a hundred.                                                *)
LEMMA BidScore ==
  ASSUME Bidding!BidBounds, NEW n \in Nat, NEW timeline \in Timeline
  PROVE  Bidding!Score(n, timeline) \in 0..100
<1>1. timeline \in 0..100
  BY DEF Bidding!BidBounds
<1>2. Bidding!Relevance(n) \in 0..100 /\ Bidding!Fit(n) \in 0..100
  BY DEF Bidding!Relevance, Bidding!Fit, Bidding!AtMost
<1> DEFINE a == Bidding!Relevance(n)
           f == Bidding!Fit(n)
<1>3. a \in 0..100 /\ f \in 0..100
  BY <1>2
<1>4. Bidding!Score(n, timeline) = IF n = 0 THEN 0 ELSE (35 * a + 30 * timeline + 25 * f + 10 * (100 - Bidding!IncumbentRisk)) \div 100
  BY DEF Bidding!Score
<1> HIDE DEF a, f
<1>5. QED
  BY <1>1, <1>3, <1>4 DEF Bidding!IncumbentRisk

(* A solicitation is written, or raises the alert that ends its scrape.    *)
LEMMA BidSolicitation ==
  ASSUME Bidding!BidBounds, BidKeeps, NEW r \in Bidding!Runs, Bidding!AddSolicitation(r)
  PROVE  BidKeeps'
<1>1. /\ r \in Scrape /\ bidJob[r].at = "insert" /\ ~Bidding!Waits(r) /\ ~Bidding!Taken(r)
      /\ UNCHANGED <<Bidding!Table, drafts, clashed>>
  BY DEF Bidding!AddSolicitation, Bidding!At
<1>2. PICK timeline \in Timeline :
       LET score == Bidding!Score(Bidding!Cardinality(contracts), timeline)
       IN bidJob' = IF Bidding!HighPriority(score)
                 THEN [bidJob EXCEPT ![r] = [Bidding!Raised(r) EXCEPT !.hot = TRUE]]
                 ELSE [bidJob EXCEPT ![r].at = "look", ![r].next = @ + 1,
                                  ![r].notices = @ \cup {[id |-> Bidding!Id(bidJob[r].next), score |-> score]}]
  BY DEF Bidding!AddSolicitation
<1> DEFINE score == Bidding!Score(Bidding!Cardinality(contracts), timeline)
<1>3. score \in 0..100
  <2>1. IsFiniteSet(contracts)
    BY FS_Subset, BidCount DEF Bidding!BidBounds, BidKeeps, BidTypes
  <2>2. Bidding!Cardinality(contracts) \in Nat
    BY <2>1, FS_CardinalityType, BidCount
  <2>3. QED
    BY <2>2, BidScore
<1>4. bidJob' = IF Bidding!HighPriority(score)
             THEN [bidJob EXCEPT ![r] = [Bidding!Raised(r) EXCEPT !.hot = TRUE]]
             ELSE [bidJob EXCEPT ![r].at = "look", ![r].next = @ + 1,
                              ![r].notices = @ \cup {[id |-> Bidding!Id(bidJob[r].next), score |-> score]}]
  BY <1>2
<1> HIDE DEF score
<1>5. bidJob[r] \in BidRun /\ BidShape(bidJob[r], r) /\ BidHeld(r) /\ BidCame(r) /\ r \notin Import
  BY <1>1 DEF BidKeeps, BidTypes, BidRuns, Bidding!BidBounds
<1>6. CASE Bidding!HighPriority(score)
  <2> DEFINE x == [Bidding!Raised(r) EXCEPT !.hot = TRUE]
  <2>1. bidJob' = [bidJob EXCEPT ![r] = x]
    BY <1>4, <1>6
  <2>2. x \in BidRun /\ x.rows = {} /\ x.notices = {} /\ x.at = "failed" /\ x.next = 1 /\ x.hot
    BY <1>5, BidDropped DEF BidRun
  <2> HIDE DEF x
  <2>3. QED
    BY <1>1, <1>5, <2>1, <2>2, BidRaises DEF BidBusy
<1>7. CASE ~Bidding!HighPriority(score)
  <2> DEFINE m == bidJob[r].next + 1
             new == [id |-> Bidding!Id(bidJob[r].next), score |-> score]
  <2>1. bidJob[r].next \in Nat \ {0} /\ m \in Nat /\ m >= 1 /\ (\A k \in Nat : k < m => k = bidJob[r].next \/ k < bidJob[r].next)
    BY <1>5 DEF BidRun, BidShape
  <2>2. bidJob[r].next \in Notice
    BY <1>1, <1>5, <2>1, BidNumbers DEF BidShape
  <2>3. new \in Bidding!Row /\ new.id = Bidding!Id(bidJob[r].next) /\ new.score = score
    BY <1>3, <2>2 DEF Bidding!Row
  <2>4. bidJob' = [bidJob EXCEPT ![r].at = "look", ![r].next = m, ![r].notices = @ \cup {new}]
    BY <1>4, <1>7
  <2> HIDE DEF m, new
  <2> DEFINE x == [bidJob[r] EXCEPT !.at = "look", !.next = m, !.notices = @ \cup {new}]
  <2>5. bidJob' = [bidJob EXCEPT ![r] = x]
    BY <2>4
  <2>6. /\ x \in BidRun /\ x.at = "look" /\ x.agency = bidJob[r].agency /\ x.next = m /\ x.feed = bidJob[r].feed
        /\ x.rows = bidJob[r].rows /\ x.notices = bidJob[r].notices \cup {new}
    BY <1>5, <2>1, <2>3 DEF BidRun, Bidding!Stage
  <2>7. bidJob'[r] = x
    BY <2>5 DEF BidKeeps, BidTypes
  <2> HIDE DEF x
  <2>8. UNCHANGED <<contracts, agency, solicitation>>
    BY <1>1 DEF Bidding!Table
  <2>9. \A t \in solicitation : t.id # new.id
    BY <1>1, <2>3 DEF Bidding!Taken
  <2>10. BidHeld(r)'
    BY <1>1, <1>5, <2>6, <2>7, <2>8, <2>9 DEF BidHeld
  <2>11. bidJob[r].rows = {} /\ \A s \in bidJob[r].notices : s.id # new.id
    BY <1>1, <1>5, <2>3 DEF BidShape
  <2>12. BidShape(x, r)
    BY <1>1, <1>5, <1>7, <2>1, <2>3, <2>6, <2>11 DEF BidShape, BidBusy
  <2>13. ASSUME NEW n \in bidJob[r].feed, n < m PROVE BidSeenId(r, Bidding!Id(n))'
    <3>1. n \in Nat /\ (n = bidJob[r].next \/ n < bidJob[r].next)
      BY <1>5, <2>1, <2>13, BidNumbers DEF BidRun
    <3>2. CASE n = bidJob[r].next
      BY <2>3, <2>6, <2>7, <3>2 DEF BidSeenId
    <3>3. CASE n < bidJob[r].next
      <4>1. BidSeenId(r, Bidding!Id(n))
        BY <1>1, <1>5, <3>3 DEF BidCame, BidBusy
      <4>2. QED
        BY <2>6, <2>7, <2>8, <4>1 DEF BidSeenId
    <3>4. QED
      BY <3>1, <3>2, <3>3
  <2>14. BidCame(r)'
    BY <1>5, <2>6, <2>7, <2>13 DEF BidCame, BidBusy
  <2>15. ASSUME NEW d \in Bidding!Runs \ {r}, NEW s \in x.notices, NEW t \in bidJob[d].notices PROVE s.id # t.id
    <3>1. t.id # new.id
      BY <1>1, <2>3, <2>15 DEF Bidding!Waits
    <3>2. \A k \in bidJob[r].notices : k.id # t.id
      BY <2>15 DEF BidKeeps, BidApart
    <3>3. QED
      BY <2>6, <2>15, <3>1, <3>2
  <2>16. QED
    BY <1>1, <2>5, <2>6, <2>10, <2>12, <2>14, <2>15, BidAlone
<1>8. QED
  BY <1>6, <1>7

(* A transaction is committed.                                             *)
LEMMA BidCommits ==
  ASSUME Bidding!BidBounds, BidKeeps, NEW r \in Bidding!Runs, Bidding!Commit(r)
  PROVE  BidKeeps'
<1>1. /\ bidJob[r].at = "look" /\ bidJob[r].next > Bidding!Last(r)
      /\ contracts' = contracts \cup bidJob[r].rows /\ solicitation' = solicitation \cup bidJob[r].notices
      /\ agency' = (agency \/ bidJob[r].agency)
      /\ bidJob' = [bidJob EXCEPT ![r] = [Bidding!Idle EXCEPT !.at = "done", !.feed = bidJob[r].feed]]
      /\ UNCHANGED <<rates, drafts, clashed>>
  BY DEF Bidding!Commit, Bidding!At, Bidding!SeesAgency
<1> DEFINE x == [Bidding!Idle EXCEPT !.at = "done", !.feed = bidJob[r].feed]
<1>2. bidJob[r] \in BidRun /\ BidShape(bidJob[r], r) /\ BidHeld(r) /\ BidCame(r)
  BY DEF BidKeeps, BidTypes, BidRuns
<1>3. x \in BidRun /\ x.at = "done" /\ x.feed = bidJob[r].feed /\ x.rows = {} /\ x.notices = {} /\ x.next = 1
  BY <1>2, BidIdle DEF BidRun, Bidding!Stage
<1>4. bidJob' = [bidJob EXCEPT ![r] = x]
  BY <1>1
<1> HIDE DEF x
<1>5. /\ bidJob' \in [Bidding!Runs -> BidRun] /\ bidJob'[r] = x
      /\ \A d \in Bidding!Runs : d # r => bidJob'[d] = bidJob[d]
  BY <1>3, <1>4 DEF BidKeeps, BidTypes
<1>6. BidTypes'
  <2>1. agency' \in BOOLEAN
    BY <1>1, <1>2 DEF BidKeeps, BidTypes, BidRun
  <2>2. contracts' \subseteq Contract /\ solicitation' \subseteq Bidding!Row
    BY <1>1, <1>2 DEF BidKeeps, BidTypes, BidRun
  <2>3. QED
    BY <1>1, <1>5, <2>1, <2>2 DEF BidKeeps, BidTypes
<1>7. BidStored'
  <2>1. bidJob[r].rows \subseteq Bidding!Importable
    <3>1. CASE r \in Import
      <4>1. \A b \in Broken : b < bidJob[r].next
        <5>1. \A b \in Broken : b <= Bidding!Last(r) /\ b \in Nat
          BY <3>1, BidNumbers DEF Bidding!BidBounds
        <5>2. Bidding!Last(r) \in Nat /\ bidJob[r].next \in Nat
          BY <1>2, BidNumbers DEF BidRun
        <5>3. QED
          BY <1>1, <5>1, <5>2
      <4>2. QED
        BY <1>2, <4>1 DEF BidShape, Bidding!Importable, BidRun
    <3>2. CASE r \notin Import
      BY <1>2, <3>2 DEF BidShape
    <3>3. QED
      BY <3>1, <3>2
  <2>2. contracts' \subseteq Bidding!Importable
    BY <1>1, <2>1 DEF BidKeeps, BidStored
  <2>3. \A s, t \in solicitation' : s.id = t.id => s = t
    <3>1. \A s, t \in solicitation : s.id = t.id => s = t
      BY DEF BidKeeps, BidStored
    <3>2. \A s, t \in bidJob[r].notices : s.id = t.id => s = t
      BY <1>2 DEF BidShape
    <3>3. \A s \in bidJob[r].notices, t \in solicitation : s.id # t.id
      BY <1>2 DEF BidHeld
    <3>4. QED
      BY <1>1, <3>1, <3>2, <3>3
  <2>4. \A s \in solicitation' : ~Bidding!HighPriority(s.score)
    BY <1>1, <1>2 DEF BidShape, BidKeeps, BidStored
  <2>5. contracts' # {} \/ solicitation' # {} => agency'
    BY <1>1, <1>2 DEF BidHeld, BidKeeps, BidStored
  <2>6. QED
    BY <2>2, <2>3, <2>4, <2>5 DEF BidStored, Bidding!Importable
<1>8. BidDrafted'
  BY <1>1 DEF BidKeeps, BidDrafted
<1>9. BidApart'
  <2>1. SUFFICES ASSUME NEW c \in Bidding!Runs, NEW d \in Bidding!Runs, c # d,
                        NEW s \in bidJob'[c].notices, NEW t \in bidJob'[d].notices
                 PROVE  s.id # t.id
    BY DEF BidApart
  <2>2. c # r /\ d # r
    BY <1>3, <1>5, <2>1
  <2>3. QED
    BY <1>5, <2>1, <2>2 DEF BidKeeps, BidApart
<1>10. ASSUME NEW d \in Bidding!Runs, d # r PROVE BidShape(bidJob'[d], d) /\ BidHeld(d)' /\ BidCame(d)'
  <2>1. bidJob'[d] = bidJob[d] /\ BidShape(bidJob[d], d) /\ BidHeld(d) /\ BidCame(d)
    BY <1>5, <1>10 DEF BidKeeps, BidRuns
  <2>2. BidHeld(d)'
    <3>1. \A s \in bidJob[d].notices, t \in bidJob[r].notices : s.id # t.id
      BY <1>10 DEF BidKeeps, BidApart
    <3>2. QED
      BY <1>1, <2>1, <3>1 DEF BidHeld
  <2>3. \A k : BidSeenId(d, k) => BidSeenId(d, k)'
    BY <1>1, <2>1 DEF BidSeenId
  <2>4. BidCame(d)'
    BY <1>1, <2>1, <2>3 DEF BidCame, Bidding!Importable
  <2>5. QED
    BY <2>1, <2>2, <2>4
<1>11. BidShape(bidJob'[r], r) /\ BidHeld(r)'
  BY <1>3, <1>5 DEF BidShape, BidHeld
<1>12. BidCame(r)'
  <2>1. CASE r \in Import
    <3>1. r \notin Scrape
      BY <2>1 DEF Bidding!BidBounds
    <3>2. ASSUME r \notin clashed, NEW c \in Bidding!Importable PROVE c \in contracts'
      <4>1. c \in Contract /\ c < bidJob[r].next
        <5>1. c \in Contract
          BY <3>2 DEF Bidding!Importable
        <5>2. c <= Bidding!Last(r) /\ c \in Nat /\ Bidding!Last(r) \in Nat /\ bidJob[r].next \in Nat
          BY <1>2, <2>1, <5>1, BidNumbers DEF BidRun
        <5>3. QED
          BY <1>1, <5>1, <5>2
      <4>2. c \in contracts \cup bidJob[r].rows
        BY <1>1, <1>2, <2>1, <3>2, <4>1 DEF BidCame, BidBusy, Bidding!Importable
      <4>3. QED
        BY <1>1, <4>2
    <3>3. QED
      BY <1>1, <1>3, <1>5, <3>1, <3>2 DEF BidCame, BidBusy, Bidding!Importable
  <2>2. CASE r \notin Import
    <3>1. ASSUME NEW n \in bidJob[r].feed PROVE BidSeenId(r, Bidding!Id(n))'
      <4>1. r \in Scrape /\ n \in Notice
        BY <1>2, <2>2, <3>1 DEF Bidding!Runs, BidRun
      <4>2. n <= Bidding!Last(r) /\ n \in Nat /\ Bidding!Last(r) \in Nat /\ bidJob[r].next \in Nat
        BY <1>2, <4>1, BidNumbers DEF BidRun
      <4>3. n < bidJob[r].next
        BY <1>1, <4>2
      <4>4. BidSeenId(r, Bidding!Id(n))
        BY <1>1, <1>2, <3>1, <4>1, <4>3 DEF BidCame, BidBusy
      <4>5. QED
        BY <1>1, <4>4 DEF BidSeenId
    <3>2. QED
      BY <1>3, <1>5, <2>2, <3>1 DEF BidCame, BidBusy
  <2>3. QED
    BY <2>1, <2>2
<1>13. BidRuns'
  BY <1>10, <1>11, <1>12 DEF BidRuns, BidShape, Bidding!Last
<1>14. QED
  BY <1>6, <1>7, <1>8, <1>9, <1>13 DEF BidKeeps

(* A run is cut off.                                                       *)
LEMMA BidGone ==
  ASSUME Bidding!BidBounds, BidKeeps, NEW r \in Bidding!Runs, Bidding!CutOff(r)
  PROVE  BidKeeps'
<1> DEFINE x == [Bidding!Idle EXCEPT !.at = "gone"]
<1>1. x \in BidRun /\ x.at = "gone" /\ x.rows = {} /\ x.notices = {} /\ x.next = 1
  BY BidIdle DEF BidRun, Bidding!Stage
<1>2. bidJob' = [bidJob EXCEPT ![r] = x] /\ UNCHANGED <<Bidding!Table, drafts, clashed>>
  BY DEF Bidding!CutOff
<1> HIDE DEF x
<1>3. bidJob'[r] = x
  BY <1>2 DEF BidKeeps, BidTypes
<1>4. BidShape(x, r) /\ BidHeld(r)' /\ BidCame(r)'
  BY <1>1, <1>3 DEF BidShape, BidHeld, BidCame, BidBusy
<1>5. QED
  BY <1>1, <1>2, <1>4, BidAlone

(* A draft.                                                                *)
LEMMA BidDrafts ==
  ASSUME Bidding!BidBounds, BidKeeps, NEW s \in solicitation, Bidding!Draft(s)
  PROVE  BidKeeps'
<1> DEFINE d == [id |-> s.id, contracts |-> Bidding!Matching, priced |-> Bidding!RatesTaken > 0]
<1>1. ~(Bidding!RatesTaken > 0) /\ drafts' = drafts \cup {d} /\ UNCHANGED <<Bidding!Table, bidJob, clashed>>
  BY DEF Bidding!Draft, Bidding!CostRaises
<1>2. s \in Bidding!Row
  BY DEF BidKeeps, BidTypes
<1>3. Bidding!Matching \in 0..Cardinality(Contract)
  <2>1. IsFiniteSet(Contract) /\ contracts \subseteq Contract
    BY BidCount DEF Bidding!BidBounds, BidKeeps, BidTypes
  <2>2. /\ Cardinality(contracts) \in Nat /\ Cardinality(Contract) \in Nat
        /\ Cardinality(contracts) <= Cardinality(Contract)
    BY <2>1, CountSubset, BidCount
  <2>3. QED
    BY <2>2, BidCount DEF Bidding!Matching, Bidding!AtMost
<1>4. (Bidding!RatesTaken > 0) = FALSE
  BY <1>1
<1>5. d \in [id : {Bidding!Id(n) : n \in Notice}, contracts : 0..Cardinality(Contract), priced : BOOLEAN]
  <2>1. s.id \in {Bidding!Id(n) : n \in Notice}
    BY <1>2 DEF Bidding!Row
  <2>2. QED
    BY <1>3, <1>4, <2>1
<1>6. ~d.priced /\ d.id = s.id
  BY <1>4
<1> HIDE DEF d
<1>7. UNCHANGED <<contracts, agency, solicitation, rates>>
  BY <1>1 DEF Bidding!Table
<1>8. BidTypes'
  BY <1>1, <1>5, <1>7 DEF BidKeeps, BidTypes
<1>9. BidRuns' /\ BidApart' /\ BidStored'
  BY <1>1, <1>7 DEF BidKeeps, BidRuns, BidShape, BidHeld, BidCame, BidSeenId, BidApart, BidStored
<1>10. BidDrafted'
  BY <1>1, <1>6, <1>7 DEF BidKeeps, BidDrafted
<1>11. QED
  BY <1>8, <1>9, <1>10 DEF BidKeeps

(* Every step keeps it.                                                    *)
LEMMA BidStep == Bidding!BidBounds /\ BidInv /\ Bidding!Next => BidInv'
<1> SUFFICES ASSUME Bidding!BidBounds, BidInv, Bidding!Next PROVE BidInv'
  OBVIOUS
<1>1. BidKeeps
  BY DEF BidInv
<1>2. faults' = faults \/ Bidding!Fault
  <2>1. ASSUME NEW r \in Bidding!Runs, Bidding!Start(r) \/ Bidding!Look(r) \/ Bidding!BrokenRow(r)
        PROVE  faults' = faults \/ Bidding!Fault
    BY <2>1 DEF Bidding!Start, Bidding!Look, Bidding!BrokenRow
  <2>2. ASSUME NEW r \in Bidding!Runs, Bidding!AddAgency(r) \/ Bidding!Clash(r) \/ Bidding!AddContract(r)
        PROVE  faults' = faults \/ Bidding!Fault
    BY <2>2 DEF Bidding!AddAgency, Bidding!Clash, Bidding!AddContract
  <2>3. ASSUME NEW r \in Bidding!Runs, Bidding!AddSolicitation(r) \/ Bidding!Commit(r) \/ Bidding!CutOff(r)
        PROVE  faults' = faults \/ Bidding!Fault
    BY <2>3 DEF Bidding!AddSolicitation, Bidding!Commit, Bidding!CutOff
  <2>4. ASSUME NEW s \in solicitation, Bidding!Draft(s) PROVE faults' = faults \/ Bidding!Fault
    BY <2>4 DEF Bidding!Draft
  <2>5. Bidding!EnterRates => faults' = faults \/ Bidding!Fault
    BY DEF Bidding!EnterRates
  <2>6. QED
    BY <2>1, <2>2, <2>3, <2>4, <2>5 DEF Bidding!Next
<1>3. BidCounts'
  BY <1>2 DEF BidInv, BidCounts, Bidding!Fault, Bidding!BidBounds
<1>4. ASSUME NEW r \in Bidding!Runs,
             Bidding!Start(r) \/ Bidding!Look(r) \/ Bidding!BrokenRow(r) \/ Bidding!AddAgency(r) \/ Bidding!Clash(r)
               \/ Bidding!AddContract(r) \/ Bidding!AddSolicitation(r) \/ Bidding!Commit(r) \/ Bidding!CutOff(r)
      PROVE  BidKeeps'
  <2>1. CASE Bidding!Clash(r)
    BY <1>1, <2>1, BidClashes DEF Bidding!Clash, Bidding!At, BidBusy
  <2>2. QED
    BY <1>1, <1>4, <2>1, BidStarts, BidLooks, BidBreaks, BidAgency, BidContract, BidSolicitation,
       BidCommits, BidGone
<1>5. ASSUME NEW s \in solicitation, Bidding!Draft(s) PROVE BidKeeps'
  BY <1>1, <1>5, BidDrafts
<1>6. ASSUME Bidding!EnterRates PROVE BidKeeps'
  <2>1. UNCHANGED <<contracts, agency, solicitation, bidJob, drafts, clashed>> /\ rates' \in BOOLEAN
    BY <1>6 DEF Bidding!EnterRates
  <2>2. QED
    BY <1>1, <2>1, BidRemains
<1>7. BidKeeps'
  <2>1. CASE \E r \in Bidding!Runs : Bidding!Start(r) \/ Bidding!Look(r) \/ Bidding!BrokenRow(r) \/ Bidding!AddAgency(r) \/ Bidding!Clash(r)
                     \/ Bidding!AddContract(r) \/ Bidding!AddSolicitation(r) \/ Bidding!Commit(r) \/ Bidding!CutOff(r)
    BY <1>4, <2>1
  <2>2. CASE \E s \in solicitation : Bidding!Draft(s)
    BY <1>5, <2>2
  <2>3. QED
    BY <1>6, <2>1, <2>2 DEF Bidding!Next
<1>8. QED
  BY <1>3, <1>7 DEF BidInv

(* What is stored is what follows the last broken row of the import, and   *)
(* exactly that after a run that met no other; a solicitation that is      *)
(* stored is below high priority.  A scrape that ended well has its feed   *)
(* on record, a run fails only for a high priority or a key another run    *)
(* had written, and no draft has a price.                                  *)
THEOREM BidsKeep ==
  ASSUME Bidding!BidBounds
  PROVE  Bidding!Init /\ [][Bidding!Next]_Bidding!bids =>
           [](Bidding!TypeOK /\ Bidding!EffectsOnce /\ Bidding!NothingLost)
<1>1. Bidding!Init => BidInv
  BY BidInit
<1>2. BidInv /\ [Bidding!Next]_Bidding!bids => BidInv'
  BY BidStep, BidRests
<1>3. BidInv => Bidding!TypeOK /\ Bidding!EffectsOnce /\ Bidding!NothingLost
  BY BidSays
<1>4. QED
  BY <1>1, <1>2, <1>3, PTL

-----------------------------------------------------------------------------
(* The shops.                                                              *)

(* What those who go through the products and the pushes keep.             *)
ShopVendor == [at : {"idle", "find", "create", "publish", "done", "gone"},
               todo : SUBSET Item, report : [Item -> Vending!Report]]
ShopPusher == [at : {"idle", "push", "publish", "ok", "failed", "gone"},
               todo : SUBSET Shirt, seen : SUBSET Shirt, counted : SUBSET Shirt]
ShopGood == [item : Item, by : Vending!Vendor, live : BOOLEAN]
ShopPiece == [item : Shirt, by : Pusher, published : BOOLEAN]

ShopTypes ==
  /\ shop \in {"gumroad", "printify"}
  /\ vendor \in [Vending!Vendor -> ShopVendor] /\ goods \subseteq ShopGood /\ url \subseteq Item
  /\ pusher \in [Pusher -> ShopPusher] /\ artwork \subseteq Shirt /\ apparel \subseteq ShopPiece
  /\ blind \subseteq Item \cup Shirt /\ faults \in 0..FewFaults

(* Where the reports come from.                                            *)
ShopHas(i) == \E p \in goods : p.item = i
ShopLive(i) == \E p \in goods : p.item = i /\ p.live
ShopReports(v) ==
  /\ vendor[v].at = "create" => vendor[v].todo # {}
  /\ \A i \in Item : vendor[v].report[i] = "live" => ShopLive(i)
  /\ \A i \in WithFile : vendor[v].report[i] = "draft" => faults > 0
ShopGoods ==
  /\ \A p, q \in goods : p.item = q.item => p = q \/ p.item \in blind
  /\ \A i \in url : ShopHas(i)

(* A push counts what is in the shop, and adds what it did not see there.  *)
ShopSells(s) == \E a \in apparel : a.item = s
ShopPushes(p) ==
  /\ pusher[p].at = "publish" =>
       pusher[p].todo # {} /\ Vending!Design(p) \notin pusher[p].seen /\ Vending!Made(p) \in apparel
  /\ pusher[p].at = "idle" => \A a \in apparel : a.by # p
  /\ \A s \in pusher[p].seen \cup pusher[p].counted : ShopSells(s)
  /\ pusher[p].at = "ok" => pusher[p].counted = Shirt
  /\ \A a \in apparel : a.by = p => a.item \notin pusher[p].seen
ShopPieces ==
  /\ \A a, b \in apparel : a.item = b.item => a = b \/ a.item \in blind
  /\ faults = 0 => \A a \in apparel :
       a.published \/ (pusher[a.by].at = "publish" /\ Vending!Design(a.by) = a.item)

ShopGumroad == ShopGoods /\ \A v \in Vending!Vendor : ShopReports(v)
ShopPrintify == ShopPieces /\ \A p \in Pusher : ShopPushes(p)
ShopInv == ShopTypes /\ ShopGumroad /\ ShopPrintify

(* The module's count is the library's.                                    *)
LEMMA ShopCount == \A S : Vending!Cardinality(S) = Cardinality(S)
BY Zenon DEF Vending!Cardinality, Cardinality

(* The first of what is left is one of it.                                 *)
LEMMA ShopFirst ==
  ASSUME NEW S \in SUBSET Nat, S # {}
  PROVE  Vending!Min(S) \in S
BY CountLeast DEF Vending!Min

(* Things of which all are the same are one at most.                       *)
LEMMA ShopOne ==
  ASSUME NEW S, \A p, q \in S : p = q
  PROVE  Cardinality(S) <= 1
<1>1. CASE S = {}
  BY <1>1, CountNone, ShopCount
<1>2. CASE S # {}
  <2>1. PICK p : p \in S
    BY <1>2
  <2>2. S = {p}
    BY <2>1
  <2>3. Cardinality(S) = 1
    BY <2>2, FS_Singleton, ShopCount
  <2>4. QED
    BY <2>3
<1>3. QED
  BY <1>1, <1>2

(* It holds at first.                                                      *)
LEMMA ShopInit == Vending!ShopBounds /\ Vending!Init => ShopInv
<1> SUFFICES ASSUME Vending!ShopBounds, Vending!Init PROVE ShopInv
  OBVIOUS
<1>1. [i \in Item |-> "none"] \in [Item -> Vending!Report]
  BY DEF Vending!Report
<1>2. \A v \in Vending!Vendor : /\ vendor[v].at = "idle" /\ vendor[v].todo = {}
                        /\ vendor[v].report = [i \in Item |-> "none"]
  BY DEF Vending!Init
<1>3. \A p \in Pusher : /\ pusher[p].at = "idle" /\ pusher[p].todo = {}
                        /\ pusher[p].seen = {} /\ pusher[p].counted = {}
  BY DEF Vending!Init
<1>4. ShopTypes
  <2>1. vendor \in [Vending!Vendor -> ShopVendor]
    BY <1>1 DEF Vending!Init, ShopVendor
  <2>2. pusher \in [Pusher -> ShopPusher]
    BY DEF Vending!Init, ShopPusher
  <2>3. faults \in 0..FewFaults
    BY DEF Vending!Init, Vending!ShopBounds
  <2>4. QED
    BY <2>1, <2>2, <2>3 DEF Vending!Init, ShopTypes
<1>5. \A v \in Vending!Vendor : ShopReports(v)
  BY <1>2 DEF ShopReports, Vending!ShopBounds
<1>6. \A p \in Pusher : ShopPushes(p)
  BY <1>3 DEF Vending!Init, ShopPushes
<1>7. ShopGoods /\ ShopPieces
  BY DEF Vending!Init, ShopGoods, ShopPieces
<1>8. QED
  BY <1>4, <1>5, <1>6, <1>7 DEF ShopInv, ShopGumroad, ShopPrintify

(* It says what was asked.                                                 *)
LEMMA ShopSays == Vending!ShopBounds /\ ShopInv => Vending!TypeOK /\ Vending!EffectsOnce /\ Vending!NothingLost
<1> SUFFICES ASSUME Vending!ShopBounds, ShopInv PROVE Vending!TypeOK /\ Vending!EffectsOnce /\ Vending!NothingLost
  OBVIOUS
<1>1. Vending!TypeOK
  BY DEF ShopInv, ShopTypes, ShopVendor, ShopPusher, ShopGood, ShopPiece, Vending!TypeOK
<1>2. ASSUME NEW i \in Item \ blind PROVE Cardinality(Vending!OfItem(i)) <= 1
  <2>1. \A p, q \in Vending!OfItem(i) : p = q
    BY <1>2 DEF Vending!OfItem, ShopInv, ShopGumroad, ShopGoods
  <2>2. QED
    BY <2>1, ShopOne
<1>3. ASSUME NEW s \in Shirt \ blind PROVE Cardinality({a \in apparel : a.item = s}) <= 1
  <2> DEFINE S == {a \in apparel : a.item = s}
  <2>1. \A a, b \in S : a = b
    BY <1>3 DEF ShopInv, ShopPrintify, ShopPieces
  <2> HIDE DEF S
  <2>2. Cardinality(S) <= 1
    BY <2>1, ShopOne
  <2>3. QED
    BY <2>2 DEF S
<1>4. \A p \in Pusher : \A a \in apparel : a.by = p => a.item \notin pusher[p].seen
  BY DEF ShopInv, ShopPrintify, ShopPushes
<1>5. Vending!EffectsOnce
  BY <1>2, <1>3, <1>4, ShopCount DEF Vending!EffectsOnce
<1>6. ASSUME NEW v \in Vending!Vendor, NEW i \in Item
      PROVE  /\ vendor[v].report[i] = "live" => \E p \in Vending!OfItem(i) : p.live
             /\ vendor[v].report[i] = "draft" /\ i \in WithFile => faults > 0
  <2>1. ShopReports(v)
    BY DEF ShopInv, ShopGumroad
  <2>2. QED
    BY <2>1 DEF ShopReports, ShopLive, Vending!OfItem
<1>7. \A i \in url : Vending!OfItem(i) # {}
  BY DEF ShopInv, ShopGumroad, ShopGoods, ShopHas, Vending!OfItem
<1>8. ASSUME NEW p \in Pusher, pusher[p].at = "ok", NEW s \in Shirt
      PROVE  /\ s \in Vending!InShop
             /\ faults = 0 => \E a \in apparel : a.item = s
                            /\ (a.published \/ pusher[a.by].at = "publish")
  <2>1. ShopSells(s)
    BY <1>8 DEF ShopInv, ShopPrintify, ShopPushes
  <2>2. PICK a \in apparel : a.item = s
    BY <2>1 DEF ShopSells
  <2>3. QED
    BY <2>2 DEF Vending!InShop, ShopInv, ShopPrintify, ShopPieces
<1>9. QED
  BY <1>1, <1>5, <1>6, <1>7, <1>8 DEF Vending!NothingLost

(* A step of another service leaves it.                                    *)
LEMMA ShopRests == ShopInv /\ UNCHANGED Vending!storefront => ShopInv'
<1> SUFFICES ASSUME ShopInv, UNCHANGED Vending!storefront PROVE ShopInv'
  OBVIOUS
<1>1. UNCHANGED <<shop, vendor, goods, url, pusher, artwork, apparel, blind, faults>>
  BY DEF Vending!storefront
<1>2. ShopTypes'
  BY <1>1 DEF ShopInv, ShopTypes
<1>3. ShopGumroad'
  BY <1>1 DEF ShopInv, ShopGumroad, ShopGoods, ShopReports, ShopHas, ShopLive
<1>4. ShopPrintify'
  BY <1>1 DEF ShopInv, ShopPrintify, ShopPieces, ShopPushes, ShopSells, Vending!Design, Vending!Made
<1>5. QED
  BY <1>2, <1>3, <1>4 DEF ShopInv

-----------------------------------------------------------------------------
(* What is at Gumroad stays there, and what is live stays live.            *)
ShopGrows ==
  /\ goods' \subseteq ShopGood
  /\ \A p, q \in goods' : p.item = q.item => p = q \/ p.item \in blind'
  /\ \A i \in Item : (ShopHas(i) => ShopHas(i)') /\ (ShopLive(i) => ShopLive(i)')
  /\ blind \subseteq blind' /\ blind' \subseteq Item \cup Shirt
  /\ faults <= faults' /\ faults' \in 0..FewFaults
  /\ UNCHANGED <<shop, Vending!Printify>>

(* A step of one who goes through the products.                            *)
LEMMA ShopVisit ==
  ASSUME Vending!ShopBounds, ShopInv, ShopGrows, NEW v \in Vending!Vendor, NEW x \in ShopVendor,
         vendor' = [vendor EXCEPT ![v] = x], ShopReports(v)',
         url' \subseteq Item, \A i \in url' : ShopHas(i)'
  PROVE  ShopInv'
<1>1. UNCHANGED <<pusher, artwork, apparel, shop>>
  BY DEF ShopGrows, Vending!Printify
<1>2. vendor' \in [Vending!Vendor -> ShopVendor] /\ \A d \in Vending!Vendor : d # v => vendor'[d] = vendor[d]
  BY DEF ShopInv, ShopTypes
<1>3. ShopTypes'
  BY <1>1, <1>2 DEF ShopInv, ShopTypes, ShopGrows
<1>4. ASSUME NEW d \in Vending!Vendor, d # v PROVE ShopReports(d)'
  <2>1. vendor'[d] = vendor[d] /\ ShopReports(d)
    BY <1>2, <1>4 DEF ShopInv, ShopGumroad
  <2>2. \A i \in Item : ShopLive(i) => ShopLive(i)'
    BY DEF ShopGrows
  <2>3. faults > 0 => faults' > 0
    BY DEF ShopGrows, ShopInv, ShopTypes, Vending!ShopBounds
  <2>4. QED
    BY <2>1, <2>2, <2>3 DEF ShopReports
<1>5. ShopGumroad'
  BY <1>4 DEF ShopGumroad, ShopGoods, ShopGrows
<1>6. faults' = 0 => faults = 0
  BY DEF ShopGrows, ShopInv, ShopTypes, Vending!ShopBounds
<1>7. blind \subseteq blind'
  BY DEF ShopGrows
<1>8. ShopPieces'
  BY <1>1, <1>6, <1>7 DEF ShopInv, ShopPrintify, ShopPieces, Vending!Design
<1>9. \A p \in Pusher : ShopPushes(p)'
  BY <1>1 DEF ShopInv, ShopPrintify, ShopPushes, ShopSells, Vending!Design, Vending!Made
<1>10. QED
  BY <1>3, <1>5, <1>8, <1>9 DEF ShopInv, ShopPrintify

(* A count of faults.                                                      *)
LEMMA ShopFault ==
  ASSUME Vending!ShopBounds, ShopInv, UNCHANGED faults \/ Vending!Fault
  PROVE  /\ faults <= faults' /\ faults' \in 0..FewFaults /\ faults \in Nat
         /\ Vending!Fault => faults' > 0
BY DEF Vending!ShopBounds, ShopInv, ShopTypes, Vending!Fault

(* Nothing new at Gumroad.                                                 *)
LEMMA ShopSame ==
  ASSUME Vending!ShopBounds, ShopInv, UNCHANGED <<shop, goods, Vending!Printify>>, UNCHANGED faults \/ Vending!Fault,
         blind \subseteq blind', blind' \subseteq Item \cup Shirt
  PROVE  ShopGrows
<1>1. faults <= faults' /\ faults' \in 0..FewFaults
  BY ShopFault
<1>2. \A p, q \in goods' : p.item = q.item => p = q \/ p.item \in blind'
  BY DEF ShopInv, ShopGumroad, ShopGoods
<1>3. QED
  BY <1>1, <1>2 DEF ShopGrows, ShopHas, ShopLive, ShopInv, ShopTypes

(* A draft more.                                                           *)
LEMMA ShopDraft ==
  ASSUME Vending!ShopBounds, ShopInv, NEW v \in Vending!Vendor, NEW i \in Item, i = Vending!Current(v),
         goods' = goods \cup {[item |-> Vending!Current(v), by |-> v, live |-> FALSE]},
         blind' = blind \cup Vending!Meanwhile(v), UNCHANGED <<shop, Vending!Printify>>, UNCHANGED faults \/ Vending!Fault
  PROVE  ShopGrows /\ ShopHas(i)'
<1> DEFINE new == [item |-> Vending!Current(v), by |-> v, live |-> FALSE]
<1>1. new \in ShopGood /\ new.item = i
  BY DEF ShopGood
<1>2. goods' = goods \cup {new}
  OBVIOUS
<1> HIDE DEF new
<1>3. faults <= faults' /\ faults' \in 0..FewFaults
  BY ShopFault
<1>4. blind \subseteq blind' /\ blind' \subseteq Item \cup Shirt
  BY DEF Vending!Meanwhile, ShopInv, ShopTypes
<1>5. \A p \in goods : p.item = new.item => p.item \in blind'
  BY <1>1 DEF Vending!Meanwhile, Vending!OfItem
<1>6. \A p, q \in goods' : p.item = q.item => p = q \/ p.item \in blind'
  BY <1>2, <1>4, <1>5 DEF ShopInv, ShopGumroad, ShopGoods
<1>7. goods \subseteq goods' /\ goods' \subseteq ShopGood
  BY <1>1, <1>2 DEF ShopInv, ShopTypes
<1>8. \A j \in Item : (ShopHas(j) => ShopHas(j)') /\ (ShopLive(j) => ShopLive(j)')
  BY <1>7 DEF ShopHas, ShopLive
<1>9. ShopHas(i)'
  BY <1>1, <1>2 DEF ShopHas
<1>10. QED
  BY <1>3, <1>4, <1>6, <1>7, <1>8, <1>9 DEF ShopGrows

(* A product goes live.                                                    *)
LEMMA ShopLives ==
  ASSUME Vending!ShopBounds, ShopInv, NEW p \in goods, goods' = (goods \ {p}) \cup {[p EXCEPT !.live = TRUE]},
         UNCHANGED <<shop, blind, Vending!Printify>>, UNCHANGED faults \/ Vending!Fault
  PROVE  ShopGrows /\ ShopLive(p.item)'
<1> DEFINE new == [p EXCEPT !.live = TRUE]
<1>1. p \in ShopGood
  BY DEF ShopInv, ShopTypes
<1>2. new \in ShopGood /\ new.item = p.item /\ new.live = TRUE
  BY <1>1 DEF ShopGood
<1>3. goods' = (goods \ {p}) \cup {new}
  OBVIOUS
<1> HIDE DEF new
<1>4. faults <= faults' /\ faults' \in 0..FewFaults
  BY ShopFault
<1>5. \A a, b \in goods : a.item = b.item => a = b \/ a.item \in blind
  BY DEF ShopInv, ShopGumroad, ShopGoods
<1>6. \A a, b \in goods' : a.item = b.item => a = b \/ a.item \in blind'
  BY <1>2, <1>3, <1>5
<1>7. ASSUME NEW i \in Item PROVE (ShopHas(i) => ShopHas(i)') /\ (ShopLive(i) => ShopLive(i)')
  <2>1. ASSUME NEW q \in goods, q.item = i PROVE \E k \in goods' : k.item = i /\ (q.live => k.live)
    <3>1. CASE q = p
      BY <1>2, <1>3, <2>1, <3>1
    <3>2. CASE q # p
      BY <1>3, <2>1, <3>2
    <3>3. QED
      BY <3>1, <3>2
  <2>2. QED
    BY <2>1 DEF ShopHas, ShopLive
<1>8. ShopLive(p.item)'
  BY <1>2, <1>3 DEF ShopLive
<1>9. goods' \subseteq ShopGood
  BY <1>2, <1>3 DEF ShopInv, ShopTypes
<1>10. blind \subseteq Item \cup Shirt
  BY DEF ShopInv, ShopTypes
<1>11. QED
  BY <1>4, <1>6, <1>7, <1>8, <1>9, <1>10 DEF ShopGrows

(* An item is over.                                                        *)
LEMMA ShopTold ==
  ASSUME Vending!ShopBounds, ShopInv, ShopGrows, NEW v \in Vending!Vendor, NEW i \in Item, i = Vending!Current(v),
         NEW report \in {"live", "draft", "failed"}, Vending!Tell(v, report),
         report = "live" => ShopLive(i)',
         report = "draft" /\ i \in WithFile => faults' > 0,
         report # "failed" => ShopHas(i)'
  PROVE  ShopInv'
<1> DEFINE place == IF v \in Sweep THEN "publish" ELSE "find"
           rest == vendor[v].todo \ {i}
           said == [vendor[v].report EXCEPT ![i] = report]
           x == [vendor[v] EXCEPT !.todo = rest, !.report = said, !.at = place]
<1>1. vendor[v] \in ShopVendor
  BY DEF ShopInv, ShopTypes
<1>2. rest \subseteq Item /\ said \in [Item -> Vending!Report] /\ place \in {"publish", "find"}
  BY <1>1 DEF ShopVendor, Vending!Report
<1>3. \A j \in Item : said[j] = IF j = i THEN report ELSE vendor[v].report[j]
  BY <1>1 DEF ShopVendor
<1>4. vendor' = [vendor EXCEPT ![v] = x]
  <2>1. vendor' = [vendor EXCEPT ![v].todo = rest, ![v].report = said, ![v].at = place]
    BY DEF Vending!Tell
  <2> HIDE DEF rest, said, place
  <2>2. QED
    BY <2>1
<1>5. url' = IF v \in Listing /\ report # "failed" THEN url \cup {i} ELSE url
  BY DEF Vending!Tell
<1> HIDE DEF rest, said, place
<1>6. x \in ShopVendor /\ x.at = place /\ x.report = said
  BY <1>1, <1>2 DEF ShopVendor
<1>7. vendor'[v] = x
  BY <1>4 DEF ShopInv, ShopTypes
<1> HIDE DEF x
<1>8. ShopReports(v) /\ faults \in Nat /\ faults' \in Nat /\ faults <= faults'
  BY DEF ShopInv, ShopGumroad, ShopGrows, ShopTypes, Vending!ShopBounds
<1>9. ShopReports(v)'
  <2>1. ASSUME NEW j \in Item, said[j] = "live" PROVE ShopLive(j)'
    <3>1. CASE j = i
      BY <1>3, <2>1, <3>1
    <3>2. CASE j # i
      <4>1. ShopLive(j)
        BY <1>3, <1>8, <2>1, <3>2 DEF ShopReports
      <4>2. QED
        BY <4>1 DEF ShopGrows
    <3>3. QED
      BY <3>1, <3>2
  <2>2. ASSUME NEW j \in WithFile, said[j] = "draft" PROVE faults' > 0
    <3>1. j \in Item
      BY DEF Vending!ShopBounds
    <3>2. CASE j = i
      BY <1>3, <2>2, <3>1, <3>2
    <3>3. CASE j # i
      <4>1. faults > 0
        BY <1>3, <1>8, <2>2, <3>1, <3>3 DEF ShopReports
      <4>2. QED
        BY <1>8, <4>1
    <3>4. QED
      BY <3>2, <3>3
  <2>3. vendor'[v].at # "create" /\ vendor'[v].report = said
    BY <1>2, <1>6, <1>7
  <2>4. QED
    BY <2>1, <2>2, <2>3 DEF ShopReports
<1>10. url' \subseteq Item
  BY <1>5 DEF ShopInv, ShopTypes
<1>11. \A j \in url' : ShopHas(j)'
  <2>1. \A j \in url : ShopHas(j) /\ j \in Item
    BY DEF ShopInv, ShopTypes, ShopGumroad, ShopGoods
  <2>2. \A j \in url : ShopHas(j)'
    BY <2>1 DEF ShopGrows
  <2>3. QED
    BY <1>5, <2>2
<1>12. QED
  BY <1>4, <1>6, <1>9, <1>10, <1>11, ShopVisit

(* A step that reports nothing.                                            *)
LEMMA ShopGoes ==
  ASSUME Vending!ShopBounds, ShopInv, ShopGrows, NEW v \in Vending!Vendor, UNCHANGED url,
         NEW place \in {"idle", "find", "create", "publish", "done", "gone"}, NEW rest \in SUBSET Item,
         vendor' = [vendor EXCEPT ![v].at = place, ![v].todo = rest],
         place = "create" => rest # {}
  PROVE  ShopInv'
<1> DEFINE x == [vendor[v] EXCEPT !.at = place, !.todo = rest]
<1>1. vendor[v] \in ShopVendor
  BY DEF ShopInv, ShopTypes
<1>2. x \in ShopVendor /\ x.at = place /\ x.report = vendor[v].report /\ x.todo = rest
  BY <1>1 DEF ShopVendor
<1>3. vendor' = [vendor EXCEPT ![v] = x]
  OBVIOUS
<1>4. vendor'[v] = x
  BY <1>3 DEF ShopInv, ShopTypes
<1> HIDE DEF x
<1>5. ShopReports(v) /\ faults \in Nat /\ faults' \in Nat /\ faults <= faults'
  BY DEF ShopInv, ShopGumroad, ShopGrows, ShopTypes, Vending!ShopBounds
<1>6. faults > 0 => faults' > 0
  BY <1>5
<1>7. ShopReports(v)'
  BY <1>2, <1>4, <1>5, <1>6 DEF ShopReports, ShopGrows
<1>8. url' \subseteq Item /\ \A j \in url' : ShopHas(j)'
  <2>1. \A j \in url : ShopHas(j) /\ j \in Item
    BY DEF ShopInv, ShopTypes, ShopGumroad, ShopGoods
  <2>2. QED
    BY <2>1 DEF ShopGrows
<1>9. QED
  BY <1>2, <1>3, <1>7, <1>8, ShopVisit

(* And leaves what is left.                                                *)
LEMMA ShopGoesOn ==
  ASSUME Vending!ShopBounds, ShopInv, ShopGrows, NEW v \in Vending!Vendor, UNCHANGED url,
         NEW place \in {"idle", "find", "create", "publish", "done", "gone"},
         vendor' = [vendor EXCEPT ![v].at = place], place = "create" => vendor[v].todo # {}
  PROVE  ShopInv'
<1> DEFINE rest == vendor[v].todo
<1>1. rest \in SUBSET Item /\ vendor' = [vendor EXCEPT ![v].at = place, ![v].todo = rest]
  BY DEF ShopInv, ShopTypes, ShopVendor
<1>2. place = "create" => rest # {}
  OBVIOUS
<1> HIDE DEF rest
<1>3. QED
  BY <1>1, <1>2, ShopGoes

(* One starts, or is done.                                                 *)
LEMMA ShopStarts ==
  ASSUME Vending!ShopBounds, ShopInv, NEW v \in Vending!Vendor, Vending!Start(v)
  PROVE  ShopInv'
<1>1. /\ UNCHANGED <<shop, goods, url, Vending!Printify, blind, faults>>
      /\ \/ v \in Deploy /\ vendor' = [vendor EXCEPT ![v].at = "find", ![v].todo = Item]
         \/ v \in Listing /\ vendor' = [vendor EXCEPT ![v].at = "find", ![v].todo = Item \ url]
         \/ v \in Sweep /\ vendor' = [vendor EXCEPT ![v].at = "publish", ![v].todo = Vending!Drafts]
  BY DEF Vending!Start
<1>2. ShopGrows
  BY <1>1, ShopSame DEF ShopInv, ShopTypes
<1>3. Vending!Drafts \subseteq Item
  BY DEF Vending!Drafts, ShopInv, ShopTypes, ShopGood
<1>4. PICK rest \in SUBSET Item, place \in {"find", "publish"} :
         vendor' = [vendor EXCEPT ![v].at = place, ![v].todo = rest]
  BY <1>1, <1>3
<1>5. place \in {"idle", "find", "create", "publish", "done", "gone"} /\ place # "create"
  BY <1>4
<1>6. QED
  BY <1>1, <1>2, <1>4, <1>5, ShopGoes

(* A product is looked for.                                                *)
LEMMA ShopFinds ==
  ASSUME Vending!ShopBounds, ShopInv, NEW v \in Vending!Vendor, Vending!Find(v)
  PROVE  ShopInv'
<1> DEFINE i == Vending!Current(v)
<1>1. vendor[v].todo # {} /\ UNCHANGED <<shop, goods, Vending!Printify>>
  BY DEF Vending!Find
<1>2. i \in Item
  BY <1>1, ShopFirst DEF Vending!Current, ShopInv, ShopTypes, ShopVendor, Vending!ShopBounds
<1> DEFINE here == Vending!OfItem(i)
<1>3. \/ Vending!Step(v, "create") /\ UNCHANGED <<url, blind, faults>>
      \/ \E p \in here : p.live /\ Vending!Tell(v, "live") /\ UNCHANGED <<blind, faults>>
      \/ Vending!Step(v, "publish") /\ UNCHANGED <<url, blind, faults>>
      \/ Vending!Step(v, "create") /\ blind' = blind \cup {i} /\ Vending!Fault /\ UNCHANGED url
  BY DEF Vending!Find
<1>4. blind \subseteq Item \cup Shirt
  BY DEF ShopInv, ShopTypes
<1>5. CASE \E p \in here : p.live /\ Vending!Tell(v, "live") /\ UNCHANGED <<blind, faults>>
  <2>1. ShopGrows
    BY <1>1, <1>4, <1>5, ShopSame
  <2>2. ShopLive(i) /\ ShopHas(i) /\ Vending!Tell(v, "live")
    BY <1>5 DEF Vending!OfItem, ShopLive, ShopHas
  <2>3. PICK j \in Item : j = i
    BY <1>2
  <2>4. ShopLive(j)' /\ ShopHas(j)'
    BY <2>1, <2>2, <2>3 DEF ShopGrows
  <2>5. QED
    BY <2>1, <2>2, <2>3, <2>4, ShopTold
<1>6. CASE Vending!Step(v, "create") /\ UNCHANGED <<url, blind, faults>>
  <2>1. ShopGrows
    BY <1>1, <1>4, <1>6, ShopSame
  <2>2. QED
    BY <1>1, <1>6, <2>1, ShopGoesOn DEF Vending!Step
<1>7. CASE Vending!Step(v, "publish") /\ UNCHANGED <<url, blind, faults>>
  <2>1. ShopGrows
    BY <1>1, <1>4, <1>7, ShopSame
  <2>2. QED
    BY <1>1, <1>7, <2>1, ShopGoesOn DEF Vending!Step
<1>8. CASE Vending!Step(v, "create") /\ blind' = blind \cup {i} /\ Vending!Fault /\ UNCHANGED url
  <2>1. ShopGrows
    BY <1>1, <1>2, <1>4, <1>8, ShopSame
  <2>2. QED
    BY <1>1, <1>8, <2>1, ShopGoesOn DEF Vending!Step
<1>9. QED
  BY <1>3, <1>5, <1>6, <1>7, <1>8

(* One is created.                                                         *)
LEMMA ShopCreates ==
  ASSUME Vending!ShopBounds, ShopInv, NEW v \in Vending!Vendor, Vending!Create(v)
  PROVE  ShopInv'
<1>1. vendor[v].at = "create" /\ UNCHANGED <<shop, Vending!Printify>>
  BY DEF Vending!Create, Vending!At
<1>2. vendor[v].todo # {}
  BY <1>1 DEF ShopInv, ShopGumroad, ShopReports
<1>3. Vending!Current(v) \in Item
  BY <1>2, ShopFirst DEF Vending!Current, ShopInv, ShopTypes, ShopVendor, Vending!ShopBounds
<1>4. PICK i \in Item : i = Vending!Current(v)
  BY <1>3
<1> DEFINE more == goods' = goods \cup {[item |-> Vending!Current(v), by |-> v, live |-> FALSE]}
<1>5. \/ more /\ Vending!Step(v, "publish") /\ blind' = blind \cup Vending!Meanwhile(v) /\ UNCHANGED <<url, faults>>
      \/ more /\ Vending!Tell(v, "failed") /\ Vending!Fault /\ blind' = blind \cup Vending!Meanwhile(v)
      \/ Vending!Tell(v, "failed") /\ Vending!Fault /\ UNCHANGED <<goods, blind>>
  BY DEF Vending!Create
<1>6. CASE more /\ Vending!Step(v, "publish") /\ blind' = blind \cup Vending!Meanwhile(v) /\ UNCHANGED <<url, faults>>
  <2>1. ShopGrows
    BY <1>1, <1>4, <1>6, ShopDraft
  <2>2. QED
    BY <1>6, <2>1, ShopGoesOn DEF Vending!Step
<1>7. CASE more /\ Vending!Tell(v, "failed") /\ Vending!Fault /\ blind' = blind \cup Vending!Meanwhile(v)
  <2>1. ShopGrows
    BY <1>1, <1>4, <1>7, ShopDraft
  <2>2. QED
    BY <1>4, <1>7, <2>1, ShopTold
<1>8. CASE Vending!Tell(v, "failed") /\ Vending!Fault /\ UNCHANGED <<goods, blind>>
  <2>1. ShopGrows
    BY <1>1, <1>8, ShopSame DEF ShopInv, ShopTypes
  <2>2. QED
    BY <1>4, <1>8, <2>1, ShopTold
<1>9. QED
  BY <1>5, <1>6, <1>7, <1>8

(* One is published.                                                       *)
LEMMA ShopPublishes ==
  ASSUME Vending!ShopBounds, ShopInv, NEW v \in Vending!Vendor, Vending!Publish(v)
  PROVE  ShopInv'
<1>1. vendor[v].todo # {} /\ UNCHANGED <<shop, Vending!Printify, blind>>
  BY DEF Vending!Publish
<1>2. Vending!Current(v) \in Item
  BY <1>1, ShopFirst DEF Vending!Current, ShopInv, ShopTypes, ShopVendor, Vending!ShopBounds
<1>3. PICK i \in Item : i = Vending!Current(v)
  BY <1>2
<1>4. PICK p \in Vending!OfItem(Vending!Current(v)) :
       LET live == (goods \ {p}) \cup {[p EXCEPT !.live = TRUE]}
       IN \/ /\ ~p.live /\ p.item \in WithFile /\ goods' = live /\ Vending!Tell(v, "live")
             /\ UNCHANGED faults
          \/ ~p.live /\ p.item \notin WithFile /\ Vending!Tell(v, "draft") /\ UNCHANGED <<goods, faults>>
          \/ p.live /\ Vending!Tell(v, "live") /\ UNCHANGED <<goods, faults>>
          \/ Vending!Tell(v, "draft") /\ Vending!Fault /\ UNCHANGED goods
          \/ p.item \in WithFile /\ goods' = live /\ Vending!Tell(v, "draft") /\ Vending!Fault
  BY DEF Vending!Publish
<1>5. p \in goods /\ p.item = i
  BY <1>3, <1>4 DEF Vending!OfItem
<1>6. UNCHANGED faults \/ Vending!Fault
  BY <1>4
<1>7. blind \subseteq blind' /\ blind' \subseteq Item \cup Shirt
  BY <1>1 DEF ShopInv, ShopTypes
<1>8. CASE goods' = (goods \ {p}) \cup {[p EXCEPT !.live = TRUE]}
           /\ (Vending!Tell(v, "live") \/ (Vending!Tell(v, "draft") /\ Vending!Fault))
  <2>1. ShopGrows /\ ShopLive(p.item)'
    BY <1>1, <1>5, <1>6, <1>8, ShopLives
  <2>2. ShopLive(i)'
    BY <1>5, <2>1
  <2>3. ShopHas(i)'
    BY <2>2 DEF ShopLive, ShopHas
  <2>4. Vending!Fault => faults' > 0
    BY ShopFault, <1>6
  <2>5. CASE Vending!Tell(v, "live")
    BY <1>3, <2>1, <2>2, <2>3, <2>5, ShopTold
  <2>6. CASE Vending!Tell(v, "draft") /\ Vending!Fault
    BY <1>3, <2>1, <2>3, <2>4, <2>6, ShopTold
  <2>7. QED
    BY <1>8, <2>5, <2>6
<1>9. CASE UNCHANGED goods
  <2>1. ShopGrows
    BY <1>1, <1>6, <1>7, <1>9, ShopSame
  <2>2. ShopHas(i) /\ (p.live => ShopLive(i))
    BY <1>5 DEF ShopHas, ShopLive
  <2>3. ShopHas(i)' /\ (p.live => ShopLive(i)')
    BY <2>1, <2>2 DEF ShopGrows
  <2>4. Vending!Fault => faults' > 0
    BY ShopFault, <1>6
  <2>5. CASE p.live /\ Vending!Tell(v, "live")
    BY <1>3, <2>1, <2>3, <2>5, ShopTold
  <2>6. CASE Vending!Tell(v, "draft") /\ (p.item \notin WithFile \/ Vending!Fault)
    BY <1>3, <1>5, <2>1, <2>3, <2>4, <2>6, ShopTold
  <2>7. p.live \/ ~p.live
    OBVIOUS
  <2>8. CASE ~p.live /\ Vending!Tell(v, "live") /\ goods' = (goods \ {p}) \cup {[p EXCEPT !.live = TRUE]}
    BY <1>8, <2>8
  <2>9. QED
    BY <1>4, <1>8, <2>5, <2>6, <2>8
<1>10. QED
  BY <1>4, <1>8, <1>9

(* Done, or killed.                                                        *)
LEMMA ShopLeaves ==
  ASSUME Vending!ShopBounds, ShopInv, NEW v \in Vending!Vendor, Vending!Finish(v) \/ Vending!VendorKilled(v)
  PROVE  ShopInv'
<1>1. PICK place \in {"done", "gone"} : vendor' = [vendor EXCEPT ![v].at = place]
  BY DEF Vending!Finish, Vending!VendorKilled, Vending!Step
<1>2. UNCHANGED <<shop, goods, url, Vending!Printify, blind>> /\ (UNCHANGED faults \/ Vending!Fault)
  BY DEF Vending!Finish, Vending!VendorKilled
<1>3. ShopGrows
  BY <1>2, ShopSame DEF ShopInv, ShopTypes
<1>4. place \in {"idle", "find", "create", "publish", "done", "gone"} /\ place # "create"
  BY <1>1
<1>5. QED
  BY <1>1, <1>2, <1>3, <1>4, ShopGoesOn

-----------------------------------------------------------------------------
(* What is at Printify stays there, and what was not published is being    *)
(* published, when there was no fault.                                     *)
ShopAdds ==
  /\ apparel' \subseteq ShopPiece
  /\ \A a, b \in apparel' : a.item = b.item => a = b \/ a.item \in blind'
  /\ \A s \in Shirt : ShopSells(s) => ShopSells(s)'
  /\ blind \subseteq blind' /\ blind' \subseteq Item \cup Shirt
  /\ faults <= faults' /\ faults' \in 0..FewFaults
  /\ artwork' \subseteq Shirt /\ UNCHANGED <<shop, Vending!Gumroad>>

(* A step of a push.                                                       *)
LEMMA ShopPush ==
  ASSUME Vending!ShopBounds, ShopInv, ShopAdds, NEW p \in Pusher, NEW x \in ShopPusher,
         pusher' = [pusher EXCEPT ![p] = x], ShopPushes(p)',
         \A a \in apparel' : a \in apparel \/ a.by = p, \A a \in apparel : a \in apparel' \/ a.by = p,
         faults' = 0 => \A a \in apparel' : a.by = p =>
           a.published \/ (x.at = "publish" /\ Vending!Min(x.todo) = a.item)
  PROVE  ShopInv'
<1>1. UNCHANGED <<vendor, goods, url, shop>>
  BY DEF ShopAdds, Vending!Gumroad
<1>2. /\ pusher' \in [Pusher -> ShopPusher] /\ pusher'[p] = x
      /\ \A d \in Pusher : d # p => pusher'[d] = pusher[d]
  BY DEF ShopInv, ShopTypes
<1>3. ShopTypes'
  BY <1>1, <1>2 DEF ShopInv, ShopTypes, ShopAdds
<1>4. faults \in Nat /\ faults' \in Nat /\ (faults' = 0 => faults = 0) /\ (faults > 0 => faults' > 0)
  BY DEF ShopAdds, ShopInv, ShopTypes, Vending!ShopBounds
<1>5. blind \subseteq blind'
  BY DEF ShopAdds
<1>6. ShopGoods'
  BY <1>1, <1>5 DEF ShopInv, ShopGumroad, ShopGoods, ShopHas
<1>7. \A v \in Vending!Vendor : ShopReports(v)'
  BY <1>1, <1>4 DEF ShopInv, ShopGumroad, ShopReports, ShopLive
<1>8. ASSUME NEW d \in Pusher, d # p PROVE ShopPushes(d)'
  <2>1. pusher'[d] = pusher[d] /\ ShopPushes(d) /\ pusher[d] \in ShopPusher
    BY <1>2, <1>8 DEF ShopInv, ShopPrintify, ShopTypes
  <2>2. \A a \in apparel' : a.by = d => a \in apparel
    BY <1>8
  <2>3. \A s \in pusher[d].seen \cup pusher[d].counted : ShopSells(s)'
    BY <2>1 DEF ShopPushes, ShopPusher, ShopAdds
  <2>4. Vending!Made(d)' = Vending!Made(d) /\ Vending!Made(d).by = d
    BY <2>1 DEF Vending!Made, Vending!Design
  <2>5. pusher[d].at = "publish" => Vending!Made(d)' \in apparel'
    BY <1>8, <2>1, <2>4 DEF ShopPushes
  <2>6. QED
    BY <2>1, <2>2, <2>3, <2>5 DEF ShopPushes, Vending!Design
<1>9. ASSUME faults' = 0, NEW a \in apparel'
      PROVE  a.published \/ (pusher'[a.by].at = "publish" /\ Vending!Design(a.by)' = a.item)
  <2>1. a.by \in Pusher
    BY DEF ShopAdds, ShopPiece
  <2>2. CASE a.by = p
    BY <1>2, <1>9, <2>2 DEF Vending!Design
  <2>3. CASE a.by # p
    <3>1. a \in apparel /\ pusher'[a.by] = pusher[a.by]
      BY <1>2, <2>1, <2>3
    <3>2. a.published \/ (pusher[a.by].at = "publish" /\ Vending!Design(a.by) = a.item)
      BY <1>4, <1>9, <3>1 DEF ShopInv, ShopPrintify, ShopPieces
    <3>3. QED
      BY <3>1, <3>2 DEF Vending!Design
  <2>4. QED
    BY <2>2, <2>3
<1>10. \A a, b \in apparel' : a.item = b.item => a = b \/ a.item \in blind'
  BY DEF ShopAdds
<1>11. ShopPieces'
  BY <1>9, <1>10 DEF ShopPieces, Vending!Design
<1>12. \A d \in Pusher : ShopPushes(d)'
  BY <1>8
<1>13. QED
  BY <1>3, <1>6, <1>7, <1>11, <1>12 DEF ShopInv, ShopGumroad, ShopPrintify

(* Nothing new at Printify.                                                *)
LEMMA ShopNothing ==
  ASSUME Vending!ShopBounds, ShopInv, UNCHANGED <<shop, artwork, apparel, Vending!Gumroad>>, UNCHANGED faults \/ Vending!Fault,
         UNCHANGED blind
  PROVE  ShopAdds
<1>1. faults <= faults' /\ faults' \in 0..FewFaults
  BY ShopFault
<1>2. \A a, b \in apparel' : a.item = b.item => a = b \/ a.item \in blind'
  BY DEF ShopInv, ShopPrintify, ShopPieces
<1>3. QED
  BY <1>1, <1>2 DEF ShopAdds, ShopSells, ShopInv, ShopTypes

(* One piece, in the place of another or not.                              *)
LEMMA ShopPiecePut ==
  ASSUME Vending!ShopBounds, ShopInv, NEW a \in ShopPiece, NEW gone \in SUBSET apparel,
         \A b \in gone : b.item = a.item, apparel' = (apparel \ gone) \cup {a},
         \A b \in apparel \ gone : b.item = a.item => b.item \in blind',
         blind \subseteq blind', blind' \subseteq Item \cup Shirt,
         UNCHANGED <<shop, artwork, Vending!Gumroad>>, UNCHANGED faults \/ Vending!Fault
  PROVE  ShopAdds /\ ShopSells(a.item)'
<1>1. faults <= faults' /\ faults' \in 0..FewFaults
  BY ShopFault
<1>2. \A b, c \in apparel' : b.item = c.item => b = c \/ b.item \in blind'
  BY DEF ShopInv, ShopPrintify, ShopPieces
<1>3. \A s \in Shirt : ShopSells(s) => ShopSells(s)'
  BY DEF ShopSells
<1>4. ShopSells(a.item)'
  BY DEF ShopSells
<1>5. apparel' \subseteq ShopPiece /\ artwork \subseteq Shirt
  BY DEF ShopInv, ShopTypes
<1>6. QED
  BY <1>1, <1>2, <1>3, <1>4, <1>5 DEF ShopAdds

(* What a push has done with the one that was next.                        *)
LEMMA ShopPast ==
  ASSUME Vending!ShopBounds, ShopInv, NEW p \in Pusher, NEW counted \in SUBSET Shirt, Vending!Past(p, counted)
  PROVE  \E x \in ShopPusher :
           /\ pusher' = [pusher EXCEPT ![p] = x] /\ pusher'[p] = x /\ x.at = "push"
           /\ x.seen = pusher[p].seen /\ x.counted = pusher[p].counted \cup counted
<1> DEFINE rest == pusher[p].todo \ {Vending!Design(p)}
           sum == pusher[p].counted \cup counted
           x == [pusher[p] EXCEPT !.at = "push", !.todo = rest, !.counted = sum]
<1>1. pusher[p] \in ShopPusher
  BY DEF ShopInv, ShopTypes
<1>2. rest \subseteq Shirt /\ sum \subseteq Shirt
  BY <1>1 DEF ShopPusher
<1>3. pusher' = [pusher EXCEPT ![p].at = "push", ![p].todo = rest, ![p].counted = sum]
  BY DEF Vending!Past
<1> HIDE DEF rest, sum
<1>4. pusher' = [pusher EXCEPT ![p] = x]
  BY <1>3
<1>5. x \in ShopPusher /\ x.at = "push" /\ x.seen = pusher[p].seen /\ x.counted = sum
  BY <1>1, <1>2 DEF ShopPusher
<1> HIDE DEF x
<1>6. pusher'[p] = x
  BY <1>4 DEF ShopInv, ShopTypes
<1>7. QED
  BY <1>4, <1>5, <1>6 DEF sum

(* The next design is over: what is counted is in the shop.                *)
LEMMA ShopPassed ==
  ASSUME Vending!ShopBounds, ShopInv, ShopAdds, NEW p \in Pusher, NEW counted \in SUBSET Shirt, Vending!Past(p, counted),
         \A s \in counted : ShopSells(s)',
         \A a \in apparel' : a \in apparel \/ a.by = p, \A a \in apparel : a \in apparel' \/ a.by = p,
         \A a \in apparel' : a.by = p => a.item \notin pusher[p].seen,
         faults' = 0 => \A a \in apparel' : a.by = p => a.published
  PROVE  ShopInv'
<1>1. PICK x \in ShopPusher :
        /\ pusher' = [pusher EXCEPT ![p] = x] /\ pusher'[p] = x /\ x.at = "push"
        /\ x.seen = pusher[p].seen /\ x.counted = pusher[p].counted \cup counted
  BY ShopPast
<1>2. ShopPushes(p) /\ pusher[p] \in ShopPusher
  BY DEF ShopInv, ShopPrintify, ShopTypes
<1>3. \A s \in x.seen \cup x.counted : ShopSells(s)'
  BY <1>1, <1>2 DEF ShopPushes, ShopPusher, ShopAdds
<1>4. ShopPushes(p)'
  BY <1>1, <1>3 DEF ShopPushes
<1>5. QED
  BY <1>1, <1>4, ShopPush

(* A push that is not publishing has published what it made, when there    *)
(* was no fault.                                                           *)
LEMMA ShopMade ==
  ASSUME ShopInv, NEW p \in Pusher, faults = 0, NEW a \in apparel, a.by = p,
         pusher[p].at # "publish" \/ a.item # Vending!Design(p)
  PROVE  a.published
BY DEF ShopInv, ShopPrintify, ShopPieces

(* Artwork of a design.                                                    *)
LEMMA ShopDraws ==
  ASSUME Vending!ShopBounds, ShopInv, NEW s \in Shirt, Vending!DrawDesign(s)
  PROVE  ShopInv'
<1>1. artwork' = artwork \cup {s} /\ UNCHANGED <<shop, vendor, goods, url, pusher, apparel, blind, faults>>
  BY DEF Vending!DrawDesign, Vending!Gumroad
<1>2. ShopTypes'
  BY <1>1 DEF ShopInv, ShopTypes
<1>3. ShopGumroad'
  BY <1>1 DEF ShopInv, ShopGumroad, ShopGoods, ShopReports, ShopHas, ShopLive
<1>4. ShopPrintify'
  BY <1>1 DEF ShopInv, ShopPrintify, ShopPieces, ShopPushes, ShopSells, Vending!Design, Vending!Made
<1>5. QED
  BY <1>2, <1>3, <1>4 DEF ShopInv

(* A page is read, or none.                                                *)
LEMMA ShopLists ==
  ASSUME Vending!ShopBounds, ShopInv, NEW p \in Pusher, Vending!List(p)
  PROVE  ShopInv'
<1>1. /\ pusher[p].at = "idle" /\ UNCHANGED <<shop, Vending!Gumroad, artwork, apparel, blind>>
      /\ UNCHANGED faults \/ Vending!Fault
  BY DEF Vending!List, Vending!Doing
<1>2. PICK seen \in SUBSET Shirt : Vending!Begin(p, seen) /\ \A s \in seen : ShopSells(s)
  <2>1. CASE Vending!Begin(p, {})
    BY <2>1
  <2>2. CASE \E page \in Vending!Pages : Vending!Begin(p, {a.item : a \in page})
    <3>1. PICK page \in Vending!Pages : Vending!Begin(p, {a.item : a \in page})
      BY <2>2
    <3>2. page \subseteq apparel
      BY <3>1 DEF Vending!Pages
    <3> DEFINE S == {a.item : a \in page}
    <3>3. S \subseteq Shirt /\ \A s \in S : ShopSells(s)
      BY <3>2 DEF ShopInv, ShopTypes, ShopPiece, ShopSells
    <3>4. Vending!Begin(p, S)
      BY <3>1
    <3> HIDE DEF S
    <3>5. QED
      BY <3>3, <3>4
  <2>3. QED
    BY <2>1, <2>2 DEF Vending!List
<1>3. ShopAdds
  BY <1>1, ShopNothing
<1> DEFINE x == [pusher[p] EXCEPT !.at = "push", !.todo = Shirt, !.seen = seen]
<1>4. pusher[p] \in ShopPusher /\ ShopPushes(p)
  BY DEF ShopInv, ShopTypes, ShopPrintify
<1>5. x \in ShopPusher /\ x.at = "push" /\ x.seen = seen /\ x.counted = pusher[p].counted
  BY <1>4 DEF ShopPusher
<1>6. pusher' = [pusher EXCEPT ![p] = x]
  BY <1>2 DEF Vending!Begin
<1> HIDE DEF x
<1>7. pusher'[p] = x
  BY <1>6 DEF ShopInv, ShopTypes
<1>8. \A a \in apparel' : a \in apparel /\ a.by # p
  BY <1>1, <1>4 DEF ShopPushes
<1>9. \A s \in x.seen \cup x.counted : ShopSells(s)'
  BY <1>1, <1>2, <1>4, <1>5 DEF ShopPushes, ShopSells
<1>10. ShopPushes(p)'
  BY <1>5, <1>7, <1>8, <1>9 DEF ShopPushes
<1>11. QED
  BY <1>1, <1>3, <1>5, <1>6, <1>8, <1>10, ShopPush

(* The next design.                                                        *)
LEMMA ShopDesign ==
  ASSUME Vending!ShopBounds, ShopInv, NEW p \in Pusher, pusher[p].todo # {}
  PROVE  Vending!Design(p) \in Shirt
BY ShopFirst DEF Vending!Design, ShopInv, ShopTypes, ShopPusher, Vending!ShopBounds

(* One that is passed over.                                                *)
LEMMA ShopPasses ==
  ASSUME Vending!ShopBounds, ShopInv, NEW p \in Pusher, Vending!Pass(p)
  PROVE  ShopInv'
<1>1. /\ pusher[p].at = "push" /\ pusher[p].todo # {}
      /\ UNCHANGED <<shop, Vending!Gumroad, artwork, apparel, blind, faults>>
  BY DEF Vending!Pass, Vending!Doing
<1>2. ShopAdds
  BY <1>1, ShopNothing
<1>3. Vending!Design(p) \in Shirt /\ ShopPushes(p) /\ faults \in Nat
  <2>1. Vending!Design(p) \in Shirt
    BY <1>1, ShopDesign
  <2>2. QED
    BY <2>1 DEF ShopInv, ShopPrintify, ShopTypes, Vending!ShopBounds
<1>4. PICK counted \in SUBSET Shirt : Vending!Past(p, counted) /\ counted \subseteq pusher[p].seen
  BY <1>3 DEF Vending!Pass
<1>5. \A s \in counted : ShopSells(s)'
  BY <1>1, <1>3, <1>4 DEF ShopPushes, ShopSells
<1>6. faults' = 0 => \A a \in apparel' : a.by = p => a.published
  BY <1>1, ShopMade
<1>7. \A a \in apparel' : a.by = p => a.item \notin pusher[p].seen
  BY <1>1, <1>3 DEF ShopPushes
<1>8. QED
  BY <1>1, <1>2, <1>4, <1>5, <1>6, <1>7, ShopPassed

(* One that is uploaded and created.                                       *)
LEMMA ShopAdded ==
  ASSUME Vending!ShopBounds, ShopInv, NEW p \in Pusher, Vending!PushProduct(p)
  PROVE  ShopInv'
<1>1. /\ pusher[p].at = "push" /\ pusher[p].todo # {} /\ Vending!Design(p) \notin pusher[p].seen
      /\ UNCHANGED <<shop, Vending!Gumroad, artwork>>
  BY DEF Vending!PushProduct, Vending!Doing
<1>2. Vending!Design(p) \in Shirt /\ ShopPushes(p) /\ faults \in Nat /\ pusher[p] \in ShopPusher
  <2>1. Vending!Design(p) \in Shirt
    BY <1>1, ShopDesign
  <2>2. QED
    BY <2>1 DEF ShopInv, ShopPrintify, ShopTypes, Vending!ShopBounds
<1> DEFINE new == Vending!Made(p)
<1>3. new \in ShopPiece /\ new.item = Vending!Design(p) /\ new.by = p
  BY <1>2 DEF Vending!Made, ShopPiece
<1>4. PICK i \in Shirt, a \in ShopPiece : i = Vending!Design(p) /\ a = new
  BY <1>2, <1>3
<1> DEFINE adds == apparel' = apparel \cup {a} /\ blind' = blind \cup Vending!Already(p)
<1>5. \/ adds /\ pusher' = [pusher EXCEPT ![p].at = "publish"] /\ UNCHANGED faults
      \/ adds /\ Vending!Past(p, {}) /\ Vending!Fault
      \/ Vending!Past(p, {}) /\ Vending!Fault /\ UNCHANGED <<apparel, blind>>
  BY <1>4 DEF Vending!PushProduct
<1>6. a.item = i /\ a.by = p
  BY <1>3, <1>4
<1> HIDE DEF new
<1>7. UNCHANGED faults \/ Vending!Fault
  BY <1>5
<1>8. ASSUME adds PROVE ShopAdds
  <2> DEFINE gone == {}
  <2>1. gone \in SUBSET apparel /\ apparel' = (apparel \ gone) \cup {a}
    BY <1>8
  <2>2. \A b \in apparel \ gone : b.item = a.item => b.item \in blind'
    BY <1>4, <1>6, <1>8 DEF Vending!Already, Vending!InShop
  <2>3. blind \subseteq blind' /\ blind' \subseteq Item \cup Shirt
    BY <1>2, <1>8 DEF Vending!Already, ShopInv, ShopTypes
  <2> HIDE DEF gone
  <2>4. \A b \in gone : b.item = a.item
    BY DEF gone
  <2>5. QED
    BY <1>1, <1>7, <2>1, <2>2, <2>3, <2>4, ShopPiecePut
<1>9. \A b \in apparel : b.by = p => b.item \notin pusher[p].seen
  BY <1>2 DEF ShopPushes
<1>10. Vending!Fault => faults' # 0
  BY <1>2 DEF Vending!Fault
<1>11. CASE adds /\ pusher' = [pusher EXCEPT ![p].at = "publish"] /\ UNCHANGED faults
  <2>1. ShopAdds
    BY <1>8, <1>11
  <2> DEFINE x == [pusher[p] EXCEPT !.at = "publish"]
  <2>2. x \in ShopPusher /\ x.at = "publish" /\ x.todo = pusher[p].todo /\ x.seen = pusher[p].seen
        /\ x.counted = pusher[p].counted
    BY <1>2 DEF ShopPusher
  <2>3. pusher' = [pusher EXCEPT ![p] = x]
    BY <1>11
  <2> HIDE DEF x
  <2>4. pusher'[p] = x
    BY <2>3 DEF ShopInv, ShopTypes
  <2>5. \A s \in x.seen \cup x.counted : ShopSells(s)'
    BY <1>2, <2>1, <2>2 DEF ShopPushes, ShopPusher, ShopAdds
  <2>6. Vending!Design(p)' = Vending!Design(p) /\ Vending!Made(p)' = Vending!Made(p)
    BY <2>2, <2>4 DEF Vending!Design, Vending!Made
  <2>7. \A b \in apparel' : b.by = p => b.item \notin x.seen
    BY <1>1, <1>4, <1>6, <1>9, <1>11, <2>2
  <2>8. ShopPushes(p)'
    <3>1. Vending!Made(p)' \in apparel'
      BY <1>4, <1>11, <2>6 DEF new
    <3>2. QED
      BY <1>1, <2>2, <2>4, <2>5, <2>6, <2>7, <3>1 DEF ShopPushes
  <2>9. \A b \in apparel' : b \in apparel \/ b.by = p
    BY <1>6, <1>11
  <2>10. faults' = 0 => \A b \in apparel' : b.by = p => b.published \/ b.item = Vending!Min(x.todo)
    <3>1. Vending!Min(x.todo) = i
      BY <1>4, <2>2 DEF Vending!Design
    <3>2. faults = 0 => \A b \in apparel : b.by = p => b.published
      BY <1>1, ShopMade
    <3>3. QED
      BY <1>6, <1>11, <3>1, <3>2
  <2>11. QED
    BY <1>11, <2>1, <2>2, <2>3, <2>8, <2>9, <2>10, ShopPush
<1>12. CASE adds /\ Vending!Past(p, {}) /\ Vending!Fault
  <2>1. ShopAdds
    BY <1>8, <1>12
  <2>2. \A b \in apparel' : b.by = p => b.item \notin pusher[p].seen
    BY <1>1, <1>4, <1>6, <1>9, <1>12
  <2>3. \A b \in apparel' : b \in apparel \/ b.by = p
    BY <1>6, <1>12
  <2>4. QED
    BY <1>10, <1>12, <2>1, <2>2, <2>3, ShopPassed
<1>13. CASE Vending!Past(p, {}) /\ Vending!Fault /\ UNCHANGED <<apparel, blind>>
  <2>1. ShopAdds
    BY <1>1, <1>13, ShopNothing
  <2>2. QED
    BY <1>9, <1>10, <1>13, <2>1, ShopPassed
<1>14. QED
  BY <1>5, <1>11, <1>12, <1>13

(* One that is published.                                                  *)
LEMMA ShopShows ==
  ASSUME Vending!ShopBounds, ShopInv, NEW p \in Pusher, Vending!PublishProduct(p)
  PROVE  ShopInv'
<1>1. pusher[p].at = "publish" /\ UNCHANGED <<shop, Vending!Gumroad, artwork, blind>>
  BY DEF Vending!PublishProduct, Vending!Doing
<1>2. /\ pusher[p].todo # {} /\ Vending!Design(p) \notin pusher[p].seen /\ ShopPushes(p)
      /\ faults \in Nat /\ pusher[p] \in ShopPusher
  <2>1. ShopPushes(p)
    BY DEF ShopInv, ShopPrintify
  <2>2. pusher[p].todo # {} /\ Vending!Design(p) \notin pusher[p].seen
    BY <1>1, <2>1 DEF ShopPushes
  <2>3. faults \in Nat /\ pusher[p] \in ShopPusher
    BY DEF ShopInv, ShopTypes, Vending!ShopBounds
  <2>4. QED
    BY <2>1, <2>2, <2>3
<1>3. Vending!Design(p) \in Shirt
  BY <1>2, ShopDesign
<1> DEFINE made == Vending!Made(p)
           shown == [made EXCEPT !.published = TRUE]
<1>4. /\ made \in ShopPiece /\ made.item = Vending!Design(p) /\ made.by = p /\ ~made.published
      /\ shown \in ShopPiece /\ shown.item = Vending!Design(p) /\ shown.by = p /\ shown.published
  BY <1>3 DEF Vending!Made, ShopPiece
<1>5. PICK i \in Shirt, a \in ShopPiece, m \in ShopPiece : i = Vending!Design(p) /\ a = shown /\ m = made
  BY <1>3, <1>4
<1>6. a.item = i /\ a.by = p /\ a.published /\ m.item = i /\ m.by = p
  BY <1>4, <1>5
<1>7. \/ apparel' = (apparel \ {m}) \cup {a} /\ Vending!Past(p, {i}) /\ UNCHANGED faults
      \/ apparel' = (apparel \ {m}) \cup {a} /\ Vending!Past(p, {}) /\ Vending!Fault
      \/ apparel' = apparel /\ Vending!Past(p, {}) /\ Vending!Fault
  <2>1. \/ apparel' = (apparel \ {made}) \cup {shown} /\ Vending!Past(p, {Vending!Design(p)}) /\ UNCHANGED faults
        \/ (apparel' \in {apparel, (apparel \ {made}) \cup {shown}} /\ Vending!Past(p, {}) /\ Vending!Fault)
    BY DEF Vending!PublishProduct
  <2> HIDE DEF made, shown
  <2>2. QED
    BY <1>5, <2>1
<1> HIDE DEF made, shown
<1>8. UNCHANGED faults \/ Vending!Fault
  BY <1>7
<1>9. Vending!Fault => faults' # 0
  BY <1>2 DEF Vending!Fault
<1>10. \A b \in apparel : b.by = p => b.item \notin pusher[p].seen
  BY <1>2 DEF ShopPushes
<1>11. blind \subseteq Item \cup Shirt /\ apparel \subseteq ShopPiece
  BY DEF ShopInv, ShopTypes
<1>12. \A b, c \in apparel : b.item = c.item => b = c \/ b.item \in blind
  BY DEF ShopInv, ShopPrintify, ShopPieces
<1>13. ASSUME apparel' = (apparel \ {m}) \cup {a} PROVE ShopAdds /\ ShopSells(i)'
  <2> DEFINE gone == apparel \cap {m}
  <2>1. gone \in SUBSET apparel /\ apparel' = (apparel \ gone) \cup {a} /\ \A b \in gone : b.item = a.item
    BY <1>6, <1>13
  <2>2. \A b \in apparel \ gone : b.item = a.item => b.item \in blind'
    BY <1>2, <1>5, <1>6, <1>12, <1>1 DEF ShopPushes, made
  <2> HIDE DEF gone
  <2>3. ShopAdds /\ ShopSells(a.item)'
    BY <1>1, <1>8, <1>11, <2>1, <2>2, ShopPiecePut
  <2>4. QED
    BY <1>6, <2>3
<1>14. \A b \in apparel' : b \in apparel \/ b.by = p
  BY <1>6, <1>7
<1>15. \A b \in apparel : b \in apparel' \/ b.by = p
  BY <1>6, <1>7
<1>16. \A b \in apparel' : b.by = p => b.item \notin pusher[p].seen
  BY <1>2, <1>5, <1>6, <1>7, <1>10
<1>17. CASE apparel' = (apparel \ {m}) \cup {a} /\ Vending!Past(p, {i}) /\ UNCHANGED faults
  <2>1. ShopAdds /\ ShopSells(i)'
    BY <1>13, <1>17
  <2>2. ASSUME faults' = 0, NEW b \in apparel', b.by = p PROVE b.published
    <3>1. CASE b = a
      BY <1>6, <3>1
    <3>2. CASE b # a
      <4>1. b \in apparel /\ b # m /\ faults = 0
        BY <1>17, <2>2, <3>2
      <4>2. CASE b.item # i
        BY <1>5, <2>2, <4>1, <4>2, ShopMade
      <4>3. CASE b.item = i
        <5>1. CASE b.published
          BY <5>1
        <5>2. CASE ~b.published
          <6>1. b \in ShopPiece /\ b.published = FALSE
            BY <1>11, <4>1, <5>2 DEF ShopPiece
          <6>2. b = [item |-> b.item, by |-> b.by, published |-> b.published]
            BY <6>1 DEF ShopPiece
          <6>3. m = [item |-> i, by |-> p, published |-> FALSE]
            BY <1>5 DEF made, Vending!Made
          <6>4. b = m
            BY <2>2, <4>3, <6>1, <6>2, <6>3
          <6>5. QED
            BY <4>1, <6>4
        <5>3. QED
          BY <5>1, <5>2
      <4>4. QED
        BY <4>2, <4>3
    <3>3. QED
      BY <3>1, <3>2
  <2>3. QED
    BY <1>14, <1>15, <1>16, <1>17, <2>1, <2>2, ShopPassed
<1>18. CASE apparel' = (apparel \ {m}) \cup {a} /\ Vending!Past(p, {}) /\ Vending!Fault
  BY <1>9, <1>13, <1>14, <1>15, <1>16, <1>18, ShopPassed
<1>19. CASE apparel' = apparel /\ Vending!Past(p, {}) /\ Vending!Fault
  <2>1. ShopAdds
    BY <1>1, <1>19, ShopNothing
  <2>2. QED
    BY <1>9, <1>14, <1>15, <1>16, <1>19, <2>1, ShopPassed
<1>20. QED
  BY <1>7, <1>17, <1>18, <1>19

(* A push ends, well or not, or is killed.                                 *)
LEMMA ShopEnds ==
  ASSUME Vending!ShopBounds, ShopInv, NEW p \in Pusher, Vending!Pushed(p) \/ Vending!PushKilled(p)
  PROVE  ShopInv'
<1>1. /\ UNCHANGED <<shop, Vending!Gumroad, artwork, apparel, blind>> /\ (UNCHANGED faults \/ Vending!Fault)
      /\ Vending!Pushed(p) => pusher[p].at = "push" /\ UNCHANGED faults
      /\ Vending!PushKilled(p) => Vending!Fault
  BY DEF Vending!Pushed, Vending!PushKilled, Vending!Doing
<1>2. PICK place \in {"ok", "failed", "gone"} :
        /\ pusher' = [pusher EXCEPT ![p].at = place]
        /\ place = "ok" => pusher[p].counted = Shirt
        /\ place = "gone" \/ Vending!Pushed(p)
  BY DEF Vending!Pushed, Vending!PushKilled
<1>3. ShopAdds
  BY <1>1, ShopNothing
<1>4. pusher[p] \in ShopPusher /\ ShopPushes(p) /\ faults \in Nat
  BY DEF ShopInv, ShopTypes, ShopPrintify, Vending!ShopBounds
<1> DEFINE x == [pusher[p] EXCEPT !.at = place]
<1>5. x \in ShopPusher /\ x.at = place /\ x.seen = pusher[p].seen /\ x.counted = pusher[p].counted
  BY <1>4 DEF ShopPusher
<1>6. pusher' = [pusher EXCEPT ![p] = x]
  BY <1>2
<1> HIDE DEF x
<1>7. pusher'[p] = x
  BY <1>6 DEF ShopInv, ShopTypes
<1>8. \A s \in x.seen \cup x.counted : ShopSells(s)'
  BY <1>1, <1>4, <1>5 DEF ShopPushes, ShopSells
<1>9. ShopPushes(p)'
  BY <1>1, <1>2, <1>4, <1>5, <1>7, <1>8 DEF ShopPushes
<1>10. faults' = 0 => \A a \in apparel' : a.by = p => a.published
  <2>1. faults' = 0 => pusher[p].at = "push" /\ faults = 0
    <3>1. CASE Vending!Pushed(p)
      BY <1>1, <3>1
    <3>2. CASE Vending!PushKilled(p)
      BY <1>1, <1>4, <3>2 DEF Vending!Fault
    <3>3. QED
      BY <3>1, <3>2
  <2>2. QED
    BY <1>1, <2>1, ShopMade
<1>11. QED
  BY <1>1, <1>3, <1>5, <1>6, <1>9, <1>10, ShopPush

(* Every step keeps it.                                                    *)
LEMMA ShopStep == Vending!ShopBounds /\ ShopInv /\ Vending!Next => ShopInv'
BY ShopStarts, ShopFinds, ShopCreates, ShopPublishes, ShopLeaves, ShopDraws, ShopLists, ShopPasses,
   ShopAdded, ShopShows, ShopEnds DEF Vending!Next

(* A shop has two products of a thing only if someone could not see the    *)
(* first, or did not look again; what is reported live is live, an address *)
(* leads to a product, and a push that succeeds has each design in the     *)
(* shop, and only after a fault one that was never published.              *)
THEOREM StorefrontKeeps ==
  ASSUME Vending!ShopBounds
  PROVE  Vending!Init /\ [][Vending!Next]_Vending!storefront =>
           [](Vending!TypeOK /\ Vending!EffectsOnce /\ Vending!NothingLost)
<1>1. Vending!Init => ShopInv
  BY ShopInit
<1>2. ShopInv /\ [Vending!Next]_Vending!storefront => ShopInv'
  BY ShopStep, ShopRests
<1>3. ShopInv => Vending!TypeOK /\ Vending!EffectsOnce /\ Vending!NothingLost
  BY ShopSays
<1>4. QED
  BY <1>1, <1>2, <1>3, PTL

-----------------------------------------------------------------------------
(* The cycles of passive income.                                           *)

(* What a cycle keeps, and which of its steps are behind it.               *)
EarnCycle == [kind : {"direct", "supervised"},
              step : {"off", "generate", "post", "mesh", "prepare", "execute", "ended", "raised", "past"},
              publish : BOOLEAN, lane : 1..2, packet : Earning!Payload \cup {Earning!Nothing},
              made : SUBSET Earning!Payload, reported : SUBSET Earning!Payload]
EarnOver == {"ended", "raised", "past"}

EarnTypes ==
  /\ writes \in BOOLEAN /\ income \in [IncomeCycle -> EarnCycle]
  /\ prepared \subseteq Earning!Payload /\ lapsed \subseteq prepared
  /\ signed \subseteq approved /\ approved \subseteq prepared /\ executed \subseteq approved
  /\ posts \subseteq (IncomeCycle \X Earning!Payload) /\ unanswered \subseteq posts
  /\ faults \in 0..FewFaults

(* A direct cycle posts by itself, a supervised one goes through the mesh; *)
(* neither posts while writes are off.                                     *)
EarnShape(x) ==
  /\ x.step = "post" => x.kind = "direct" /\ writes /\ x.packet \in Earning!Payload
  /\ x.step \in {"mesh", "prepare", "execute"} => x.kind = "supervised"
  /\ x.step = "execute" => writes /\ x.packet \in Earning!Payload
  /\ x.step = "raised" => faults > 0

(* What is reported was posted.                                            *)
EarnTold(c) == \A p \in income[c].reported : \E x \in posts : x[2] = p /\ (Earning!Direct(c) => x[1] = c)

(* What was posted is reported, unless its answer was lost.                *)
EarnPost(x) ==
  /\ income[x[1]].step # "off" /\ writes
  /\ Earning!Supervised(x) => x[2] \in approved /\ (x \in unanswered \/ x[2] \in executed)
  /\ income[x[1]].step # "past" => x[2] \in income[x[1]].reported \/ x \in unanswered
EarnOnce ==
  \A x, y \in posts : Earning!Supervised(x) /\ Earning!Supervised(y) /\ x[2] = y[2] /\ x # y =>
    x \in unanswered \/ y \in unanswered

EarnCycles == \A c \in IncomeCycle : EarnShape(income[c]) /\ EarnTold(c)
EarnTurns == \A c, d \in IncomeCycle : d < c /\ income[c].step # "off" => income[d].step \in EarnOver
EarnPosts == (\A x \in posts : EarnPost(x)) /\ EarnOnce
EarnDone == \A p \in executed : \E x \in posts : x[2] = p

EarnInv == EarnTypes /\ EarnCycles /\ EarnTurns /\ EarnPosts /\ EarnDone

(* There are two lanes.                                                    *)
LEMMA EarnLanes == Len(Earning!Lane) = 2 /\ DOMAIN Earning!Lane = 1..2
BY DEF Earning!Lane

(* The blank cycle is one.                                                 *)
LEMMA EarnOff == Earning!Off \in EarnCycle /\ Earning!Off.step = "off" /\ Earning!Off.reported = {} /\ Earning!Off.kind = "direct"
BY DEF Earning!Off, EarnCycle

(* A cycle at its start, and one that is past.                             *)
LEMMA EarnBlank ==
  ASSUME NEW o \in EarnCycle, NEW k \in {"direct", "supervised"}, NEW s \in {"generate", "past"},
         NEW b \in BOOLEAN, NEW y, y = [o EXCEPT !.kind = k, !.step = s, !.publish = b]
  PROVE  y \in EarnCycle /\ y.kind = k /\ y.step = s /\ y.reported = o.reported
BY DEF EarnCycle

(* A cycle that is over keeps its kind and its report.                     *)
LEMMA EarnLast ==
  ASSUME NEW x \in EarnCycle, NEW s \in {"ended", "raised"}
  PROVE  /\ Earning!Over(x, s) \in EarnCycle /\ Earning!Over(x, s).kind = x.kind /\ Earning!Over(x, s).step = s
         /\ Earning!Over(x, s).reported = x.reported
<1>1. PICK o : o = Earning!Off
  OBVIOUS
<1>2. PICK k \in {"direct", "supervised"} : k = x.kind
  BY DEF EarnCycle
<1>3. PICK r \in SUBSET Earning!Payload : r = x.reported
  BY DEF EarnCycle
<1>4. o \in EarnCycle
  BY <1>1, EarnOff
<1>5. PICK y : y = [o EXCEPT !.kind = k, !.step = s, !.reported = r]
  OBVIOUS
<1>6. y \in EarnCycle /\ y.kind = k /\ y.step = s /\ y.reported = r
  BY <1>4, <1>5 DEF EarnCycle
<1>7. Earning!Over(x, s) = y
  BY <1>1, <1>2, <1>3, <1>5 DEF Earning!Over
<1>8. QED
  BY <1>2, <1>3, <1>6, <1>7

(* What the next lane is.                                                  *)
LEMMA EarnAdvance ==
  ASSUME NEW x \in EarnCycle, x.step \in {"generate", "prepare"},
         x.step = "prepare" => x.kind = "supervised"
  PROVE  /\ Earning!Advance(x) \in EarnCycle /\ Earning!Advance(x).kind = x.kind
         /\ Earning!Advance(x).reported = x.reported
         /\ Earning!Advance(x).step \in {"generate", "prepare", "mesh", "ended"}
         /\ Earning!Advance(x).step \in {"prepare", "mesh"} => x.kind = "supervised"
<1>1. CASE x.lane < Len(Earning!Lane)
  <2> DEFINE m == x.lane + 1
  <2>1. m \in 1..2
    BY <1>1, EarnLanes DEF EarnCycle
  <2>2. Earning!Advance(x) = [x EXCEPT !.lane = m, !.packet = Earning!Nothing]
    BY <1>1 DEF Earning!Advance
  <2> HIDE DEF m
  <2>3. QED
    BY <2>1, <2>2 DEF EarnCycle
<1>2. CASE ~(x.lane < Len(Earning!Lane)) /\ x.step = "generate" /\ x.kind = "supervised"
  <2>1. Earning!Advance(x) = [x EXCEPT !.lane = 1, !.packet = Earning!Nothing, !.step = "mesh"]
    BY <1>2 DEF Earning!Advance
  <2>2. PICK n \in Earning!Payload \cup {Earning!Nothing} : n = Earning!Nothing
    OBVIOUS
  <2>3. PICK y : y = Earning!Advance(x)
    OBVIOUS
  <2>4. PICK l \in 1..2, s \in {"generate", "mesh"} : l = 1 /\ s = "mesh"
    OBVIOUS
  <2>5. y = [x EXCEPT !.lane = l, !.packet = n, !.step = s]
    BY <2>1, <2>2, <2>3, <2>4
  <2>6. y \in EarnCycle /\ y.kind = x.kind /\ y.reported = x.reported /\ y.step = "mesh"
    BY <2>4, <2>5 DEF EarnCycle
  <2>7. QED
    BY <1>2, <2>3, <2>6
<1>3. CASE ~(x.lane < Len(Earning!Lane)) /\ ~(x.step = "generate" /\ x.kind = "supervised")
  <2>1. Earning!Advance(x) = Earning!Over(x, "ended")
    BY <1>3 DEF Earning!Advance
  <2>2. QED
    BY <2>1, EarnLast
<1>4. QED
  BY <1>1, <1>2, <1>3

(* It holds at first.                                                      *)
LEMMA EarnInit == Earning!IncomeBounds /\ Earning!Init => EarnInv
<1> SUFFICES ASSUME Earning!IncomeBounds, Earning!Init PROVE EarnInv
  OBVIOUS
<1>1. \A c \in IncomeCycle : income[c] = Earning!Off
  BY DEF Earning!Init
<1>2. EarnTypes
  BY EarnOff DEF Earning!Init, EarnTypes, Earning!IncomeBounds
<1>3. EarnCycles
  BY <1>1, EarnOff DEF EarnCycles, EarnShape, EarnTold
<1>4. EarnTurns
  BY <1>1, EarnOff DEF EarnTurns
<1>5. EarnPosts /\ EarnDone
  BY DEF Earning!Init, EarnPosts, EarnOnce, EarnDone
<1>6. QED
  BY <1>2, <1>3, <1>4, <1>5 DEF EarnInv

(* It says what was asked.                                                 *)
LEMMA EarnSays == Earning!IncomeBounds /\ EarnInv => Earning!TypeOK /\ Earning!EffectsOnce /\ Earning!NothingLost
<1> SUFFICES ASSUME Earning!IncomeBounds, EarnInv PROVE Earning!TypeOK /\ Earning!EffectsOnce /\ Earning!NothingLost
  OBVIOUS
<1> USE DEF EarnInv
<1>1. \A c \in IncomeCycle : income[c] \in EarnCycle /\ EarnShape(income[c]) /\ EarnTold(c)
  BY DEF EarnTypes, EarnCycles
<1>2. ASSUME NEW c \in IncomeCycle
      PROVE  /\ income[c].kind \in {"direct", "supervised"} /\ income[c].publish \in BOOLEAN
             /\ income[c].step \in {"off", "generate", "post", "mesh", "prepare", "execute", "ended", "raised", "past"}
             /\ income[c].step \in {"generate", "post", "prepare", "execute"} => income[c].lane \in DOMAIN Earning!Lane
             /\ income[c].step \in {"post", "execute"} => income[c].packet \in Earning!Payload
             /\ {income[c].made, income[c].reported} \subseteq SUBSET Earning!Payload
  <2>1. income[c] \in EarnCycle /\ EarnShape(income[c])
    BY <1>1
  <2>2. income[c].step \in {"post", "execute"} => income[c].packet \in Earning!Payload
    BY <2>1 DEF EarnShape
  <2>3. QED
    BY <2>1, <2>2, EarnLanes DEF EarnCycle
<1>3. Earning!TypeOK
  BY <1>2 DEF EarnTypes, Earning!TypeOK
<1>4. Earning!EffectsOnce
  BY DEF EarnPosts, EarnPost, EarnOnce, Earning!EffectsOnce
<1>5. \A x \in posts : Earning!At(x[1], "ended") => x[2] \in income[x[1]].reported \/ x \in unanswered
  BY DEF EarnPosts, EarnPost, Earning!At
<1>6. \A c \in IncomeCycle, p \in Earning!Payload : p \in income[c].reported =>
        \E x \in posts : x[2] = p /\ (Earning!Direct(c) => x[1] = c)
  BY <1>1 DEF EarnTold
<1>7. \A c \in IncomeCycle : Earning!At(c, "raised") => faults > 0
  BY <1>1 DEF EarnShape, Earning!At
<1>8. executed \subseteq {x[2] : x \in posts}
  BY DEF EarnDone
<1>9. Earning!NothingLost
  BY <1>5, <1>6, <1>7, <1>8 DEF Earning!NothingLost
<1>10. QED
  BY <1>3, <1>4, <1>9

(* It rests when nothing moves.                                            *)
LEMMA EarnRests == EarnInv /\ UNCHANGED <<Earning!earning, faults>> => EarnInv'
BY DEF Earning!earning, EarnInv, EarnTypes, EarnCycles, EarnShape, EarnTold, EarnTurns, EarnPosts,
   EarnPost, EarnOnce, EarnDone, Earning!Supervised, Earning!Direct

-----------------------------------------------------------------------------
(* One cycle moves, and the rest follows.                                  *)
LEMMA EarnPut ==
  ASSUME Earning!IncomeBounds, EarnInv, NEW c \in IncomeCycle,
         income[c].step \notin EarnOver \cup {"off"},
         \A d \in IncomeCycle \ {c} : income'[d] = income[d],
         income'[c].kind = income[c].kind, income'[c].step # "off",
         income[c].reported \subseteq income'[c].reported,
         EarnTypes', EarnShape(income[c])', EarnTold(c)',
         writes' = writes, approved' = approved, faults' >= faults,
         executed \subseteq executed', posts \subseteq posts', unanswered \subseteq unanswered',
         \A x \in posts' \ posts : EarnPost(x)', EarnOnce', EarnDone'
  PROVE  EarnInv'
<1>0. \A d \in IncomeCycle : EarnShape(income[d]) /\ EarnTold(d)
  BY DEF EarnInv, EarnCycles
<1>1. ASSUME NEW d \in IncomeCycle PROVE EarnShape(income[d])' /\ EarnTold(d)'
  <2>1. CASE d = c
    BY <2>1
  <2>2. CASE d # c
    <3>1. income'[d] = income[d] /\ EarnShape(income[d]) /\ EarnTold(d)
      BY <2>2, <1>0
    <3>2. income'[d].step = "raised" => faults' > 0
      BY <3>1 DEF EarnShape, EarnInv, EarnTypes, Earning!IncomeBounds
    <3>3. EarnShape(income[d])'
      BY <3>1, <3>2 DEF EarnShape
    <3>4. EarnTold(d)'
      BY <3>1 DEF EarnTold, Earning!Direct
    <3>5. QED
      BY <3>3, <3>4
  <2>3. QED
    BY <2>1, <2>2
<1>2. EarnCycles'
  BY <1>1 DEF EarnCycles
<1>3. EarnTurns'
  <2> SUFFICES ASSUME NEW e \in IncomeCycle, NEW d \in IncomeCycle, d < e, income'[e].step # "off"
               PROVE  income'[d].step \in EarnOver
    BY DEF EarnTurns
  <2>1. income[e].step # "off"
    OBVIOUS
  <2>2. income[d].step \in EarnOver
    BY <2>1 DEF EarnInv, EarnTurns
  <2>3. QED
    BY <2>2
<1>4. ASSUME NEW x \in posts' PROVE EarnPost(x)'
  <2>1. CASE x \in posts
    <3>1. EarnPost(x) /\ x[1] \in IncomeCycle
      BY <2>1 DEF EarnInv, EarnPosts, EarnTypes
    <3>2. income[x[1]].kind = income'[x[1]].kind /\ income'[x[1]].step # "off"
      BY <3>1 DEF EarnPost
    <3>3. Earning!Supervised(x)' => x[2] \in approved' /\ (x \in unanswered' \/ x[2] \in executed')
      BY <3>1, <3>2 DEF EarnPost, Earning!Supervised
    <3>4. income'[x[1]].step # "past" => x[2] \in income'[x[1]].reported \/ x \in unanswered'
      BY <3>1 DEF EarnPost, EarnOver
    <3>5. QED
      BY <3>1, <3>2, <3>3, <3>4 DEF EarnPost
  <2>2. QED
    BY <2>1
<1>5. QED
  BY <1>2, <1>3, <1>4 DEF EarnInv, EarnPosts

(* The next lane of a cycle, after what it has done with this one.         *)
LEMMA EarnNext ==
  ASSUME EarnInv, NEW c \in IncomeCycle, NEW x \in EarnCycle,
         x.step \in {"generate", "prepare"}, x.step = "prepare" => x.kind = "supervised",
         x.kind = income[c].kind, income' = [income EXCEPT ![c] = Earning!Advance(x)]
  PROVE  /\ income' \in [IncomeCycle -> EarnCycle]
         /\ \A d \in IncomeCycle \ {c} : income'[d] = income[d]
         /\ income'[c].kind = income[c].kind /\ income'[c].step # "off"
         /\ income'[c].reported = x.reported /\ EarnShape(income[c])'
<1>1. income \in [IncomeCycle -> EarnCycle]
  BY DEF EarnInv, EarnTypes
<1>2. /\ Earning!Advance(x) \in EarnCycle /\ Earning!Advance(x).kind = x.kind
      /\ Earning!Advance(x).reported = x.reported
      /\ Earning!Advance(x).step \in {"generate", "prepare", "mesh", "ended"}
      /\ Earning!Advance(x).step \in {"prepare", "mesh"} => x.kind = "supervised"
  BY EarnAdvance
<1>3. income'[c] = Earning!Advance(x)
  BY <1>1
<1>4. EarnShape(income[c])'
  BY <1>2, <1>3 DEF EarnShape
<1>5. QED
  BY <1>1, <1>2, <1>3, <1>4

(* A cycle that raised.                                                    *)
LEMMA EarnRaised ==
  ASSUME Earning!IncomeBounds, EarnInv, NEW c \in IncomeCycle, Earning!Raised(c), Earning!Fault
  PROVE  /\ income' \in [IncomeCycle -> EarnCycle]
         /\ \A d \in IncomeCycle \ {c} : income'[d] = income[d]
         /\ income'[c].kind = income[c].kind /\ income'[c].step # "off"
         /\ income'[c].reported = income[c].reported /\ EarnShape(income[c])'
         /\ faults' \in 0..FewFaults /\ faults' >= faults
<1>1. income \in [IncomeCycle -> EarnCycle] /\ faults \in 0..FewFaults
  BY DEF EarnInv, EarnTypes
<1>2. income'[c] = Earning!Over(income[c], "raised")
  BY <1>1 DEF Earning!Raised
<1>3. /\ Earning!Over(income[c], "raised") \in EarnCycle /\ Earning!Over(income[c], "raised").kind = income[c].kind
      /\ Earning!Over(income[c], "raised").step = "raised"
      /\ Earning!Over(income[c], "raised").reported = income[c].reported
  BY <1>1, EarnLast
<1>4. faults' \in 0..FewFaults /\ faults' >= faults /\ faults' > 0
  BY <1>1, CountUp DEF Earning!Fault, Earning!IncomeBounds
<1>5. EarnShape(income[c])'
  BY <1>2, <1>3, <1>4 DEF EarnShape
<1>6. QED
  BY <1>1, <1>2, <1>3, <1>4, <1>5 DEF Earning!Raised

(* What a step of one cycle that posts nothing has to keep.                *)
LEMMA EarnQuiet ==
  ASSUME Earning!IncomeBounds, EarnInv, NEW c \in IncomeCycle,
         income[c].step \notin EarnOver \cup {"off"},
         income' \in [IncomeCycle -> EarnCycle],
         \A d \in IncomeCycle \ {c} : income'[d] = income[d],
         income'[c].kind = income[c].kind, income'[c].step # "off",
         income'[c].reported = income[c].reported,
         EarnShape(income[c])', faults' \in 0..FewFaults, faults' >= faults,
         UNCHANGED <<writes, lapsed, executed, approved, posts, unanswered>>,
         prepared' \subseteq Earning!Payload, prepared \subseteq prepared', signed' \subseteq signed
  PROVE  EarnInv'
<1>1. EarnTypes'
  BY DEF EarnInv, EarnTypes
<1>2. EarnTold(c)'
  <2>1. EarnTold(c)
    BY DEF EarnInv, EarnCycles
  <2>2. QED
    BY <2>1 DEF EarnTold, Earning!Direct
<1>3. EarnOnce'
  <2>1. \A x \in posts : Earning!Supervised(x)' = Earning!Supervised(x)
    <3>1. \A x \in posts : x[1] \in IncomeCycle
      BY DEF EarnInv, EarnTypes
    <3>2. QED
      BY <3>1 DEF Earning!Supervised
  <2>2. QED
    BY <2>1 DEF EarnInv, EarnPosts, EarnOnce
<1>4. EarnDone'
  BY DEF EarnInv, EarnDone
<1>5. QED
  BY <1>1, <1>2, <1>3, <1>4, EarnPut

-----------------------------------------------------------------------------
(* A request: those before it are past, those after it have not begun.     *)
LEMMA EarnBegin ==
  ASSUME Earning!IncomeBounds, EarnInv, NEW c \in IncomeCycle, Earning!Begin(c)
  PROVE  EarnInv'
<1>1. PICK kind \in {"direct", "supervised"}, publish \in BOOLEAN :
        income' = [d \in IncomeCycle |->
          IF d < c THEN [Earning!Off EXCEPT !.kind = income[d].kind, !.step = "past"]
          ELSE IF d = c THEN [Earning!Off EXCEPT !.kind = kind, !.step = "generate", !.publish = publish]
          ELSE Earning!Off]
  BY DEF Earning!Begin
<1>2. income[c].step = "off" /\ \A d \in IncomeCycle : d < c => income[d].step \in EarnOver
  BY DEF Earning!Begin, Earning!At, EarnOver
<1>3. UNCHANGED <<writes, prepared, lapsed, signed, executed, approved, posts, unanswered, faults>>
  BY DEF Earning!Begin, Earning!StoreOnly, Earning!Unposted, Earning!Fine
<1>4. /\ income \in [IncomeCycle -> EarnCycle] /\ IncomeCycle \subseteq Nat
      /\ posts \subseteq (IncomeCycle \X Earning!Payload)
  BY DEF EarnInv, EarnTypes, Earning!IncomeBounds
<1>5. ASSUME NEW d \in IncomeCycle, d < c
      PROVE  /\ income'[d] \in EarnCycle /\ income'[d].kind = income[d].kind
             /\ income'[d].step = "past" /\ income'[d].reported = {}
  <2>1. PICK k \in {"direct", "supervised"} : k = income[d].kind
    BY <1>4 DEF EarnCycle
  <2>2. PICK o \in EarnCycle : o = Earning!Off
    BY EarnOff
  <2>3. PICK y : y = [o EXCEPT !.kind = k, !.step = "past"]
    OBVIOUS
  <2>4. y \in EarnCycle /\ y.kind = k /\ y.step = "past" /\ y.reported = o.reported
    BY <2>3 DEF EarnCycle
  <2>5. income'[d] = y
    BY <1>1, <1>5, <2>1, <2>2, <2>3
  <2>6. QED
    BY <2>1, <2>2, <2>4, <2>5, EarnOff
<1>6. /\ income'[c] \in EarnCycle /\ income'[c].step = "generate" /\ income'[c].reported = {}
  <2>1. PICK o \in EarnCycle : o = Earning!Off
    BY EarnOff
  <2>2. PICK y : y = [o EXCEPT !.kind = kind, !.step = "generate", !.publish = publish]
    OBVIOUS
  <2>3. y \in EarnCycle /\ y.step = "generate" /\ y.reported = o.reported
    BY <2>2 DEF EarnCycle
  <2>4. ~(c < c)
    BY <1>4
  <2>5. income'[c] = y
    BY <1>1, <2>1, <2>2, <2>4
  <2>6. QED
    BY <2>1, <2>3, <2>5, EarnOff
<1>7. ASSUME NEW d \in IncomeCycle, ~(d < c), d # c
      PROVE  income'[d] = Earning!Off
  BY <1>1, <1>7
<1>8. income' \in [IncomeCycle -> EarnCycle]
  <2>1. \A d \in IncomeCycle : income'[d] \in EarnCycle
    BY <1>5, <1>6, <1>7, EarnOff
  <2>2. income' = [d \in IncomeCycle |-> income'[d]]
    BY <1>1
  <2>3. QED
    BY <2>1, <2>2
<1>9. \A d \in IncomeCycle : income'[d].reported = {} /\ income'[d].step \in {"past", "generate", "off"}
  BY <1>5, <1>6, <1>7, EarnOff
<1>10. \A x \in posts : /\ x[1] \in IncomeCycle /\ x[1] < c
                        /\ EarnPost(x) /\ income'[x[1]].kind = income[x[1]].kind
                        /\ income'[x[1]].step = "past"
  <2> SUFFICES ASSUME NEW x \in posts
               PROVE  /\ x[1] \in IncomeCycle /\ x[1] < c
                      /\ EarnPost(x) /\ income'[x[1]].kind = income[x[1]].kind
                      /\ income'[x[1]].step = "past"
    OBVIOUS
  <2>1. x[1] \in IncomeCycle /\ EarnPost(x)
    BY <1>4 DEF EarnInv, EarnPosts
  <2>2. income[x[1]].step # "off"
    BY <2>1 DEF EarnPost
  <2>3. ~(c < x[1])
    BY <1>2, <2>1, <2>2 DEF EarnInv, EarnTurns, EarnOver
  <2>4. x[1] < c
    <3>1. x[1] # c
      BY <1>2, <2>2
    <3>2. x[1] \in Nat /\ c \in Nat
      BY <1>4, <2>1
    <3>3. QED
      BY <2>3, <3>1, <3>2
  <2>5. QED
    BY <1>5, <2>1, <2>4
<1>11. EarnTypes'
  BY <1>3, <1>8 DEF EarnInv, EarnTypes
<1>12. EarnCycles'
  BY <1>9 DEF EarnCycles, EarnShape, EarnTold
<1>13. EarnTurns'
  <2> SUFFICES ASSUME NEW e \in IncomeCycle, NEW d \in IncomeCycle, d < e, income'[e].step # "off"
               PROVE  income'[d].step = "past"
    BY DEF EarnTurns, EarnOver
  <2>1. e = c \/ e < c
    BY <1>7, EarnOff
  <2>2. d < c
    BY <1>4, <2>1
  <2>3. QED
    BY <1>5, <2>2
<1>14. \A x \in posts : EarnPost(x)'
  BY <1>3, <1>10 DEF EarnPost, Earning!Supervised
<1>15. EarnOnce'
  BY <1>3, <1>10 DEF EarnInv, EarnPosts, EarnOnce, Earning!Supervised
<1>16. EarnDone'
  BY <1>3 DEF EarnInv, EarnDone
<1>17. QED
  BY <1>3, <1>11, <1>12, <1>13, <1>14, <1>15, <1>16 DEF EarnInv, EarnPosts

(* What is true of the cycle that a step is of.                            *)
LEMMA EarnIs ==
  ASSUME EarnInv, NEW c \in IncomeCycle
  PROVE  /\ income \in [IncomeCycle -> EarnCycle] /\ income[c] \in EarnCycle
         /\ EarnShape(income[c]) /\ EarnTold(c) /\ faults \in 0..FewFaults
         /\ prepared \subseteq Earning!Payload
BY DEF EarnInv, EarnTypes, EarnCycles

(* A lane's generation.                                                    *)
LEMMA EarnGenerate ==
  ASSUME Earning!IncomeBounds, EarnInv, NEW c \in IncomeCycle, Earning!Generate(c)
  PROVE  EarnInv'
<1>1. PICK p \in Earning!Payload :
        \/ Earning!Direct(c) /\ income[c].publish /\ writes
           /\ income' = [income EXCEPT ![c].step = "post", ![c].packet = p]
        \/ income' = [income EXCEPT ![c] = Earning!Advance(@)]
        \/ ~Earning!Direct(c) /\ income' = [income EXCEPT ![c] = Earning!Advance([income[c] EXCEPT !.made = @ \cup {p}])]
  BY DEF Earning!Generate
<1>2. /\ income[c].step = "generate"
      /\ UNCHANGED <<writes, prepared, lapsed, signed, executed, approved, posts, unanswered, faults>>
  BY DEF Earning!Generate, Earning!At, Earning!StoreOnly, Earning!Unposted, Earning!Fine
<1>3. /\ income \in [IncomeCycle -> EarnCycle] /\ income[c] \in EarnCycle
      /\ faults \in 0..FewFaults /\ prepared \subseteq Earning!Payload /\ faults >= faults
  BY EarnIs DEF Earning!IncomeBounds
<1>4. CASE /\ Earning!Direct(c) /\ writes
           /\ income' = [income EXCEPT ![c].step = "post", ![c].packet = p]
  <2>1. PICK x \in EarnCycle : x = income[c]
    BY <1>3
  <2>2. PICK y : y = [x EXCEPT !.step = "post", !.packet = p]
    OBVIOUS
  <2>3. /\ y \in EarnCycle /\ y.kind = x.kind /\ y.step = "post" /\ y.packet = p
        /\ y.reported = x.reported
    BY <2>2 DEF EarnCycle
  <2>4. income' = [income EXCEPT ![c] = y]
    BY <1>3, <1>4, <2>1, <2>2
  <2>5. /\ income' \in [IncomeCycle -> EarnCycle] /\ income'[c] = y
        /\ \A d \in IncomeCycle \ {c} : income'[d] = income[d]
    BY <1>3, <2>3, <2>4
  <2>6. EarnShape(income[c])'
    BY <1>2, <1>4, <2>1, <2>3, <2>5 DEF EarnShape, Earning!Direct
  <2>7. QED
    BY <1>2, <1>3, <2>1, <2>3, <2>5, <2>6, EarnQuiet DEF EarnOver
<1>5. ASSUME NEW x \in EarnCycle, x.step = "generate", x.kind = income[c].kind,
             x.reported = income[c].reported, income' = [income EXCEPT ![c] = Earning!Advance(x)]
      PROVE  EarnInv'
  <2>1. /\ income' \in [IncomeCycle -> EarnCycle]
        /\ \A d \in IncomeCycle \ {c} : income'[d] = income[d]
        /\ income'[c].kind = income[c].kind /\ income'[c].step # "off"
        /\ income'[c].reported = x.reported /\ EarnShape(income[c])'
    BY <1>5, EarnNext
  <2>2. QED
    BY <1>2, <1>3, <1>5, <2>1, EarnQuiet DEF EarnOver
<1>6. CASE income' = [income EXCEPT ![c] = Earning!Advance(@)]
  BY <1>2, <1>3, <1>5, <1>6
<1>7. CASE income' = [income EXCEPT ![c] = Earning!Advance([income[c] EXCEPT !.made = @ \cup {p}])]
  <2>1. PICK x \in EarnCycle : x = income[c]
    BY <1>3
  <2>2. PICK m \in SUBSET Earning!Payload : m = x.made \cup {p}
    BY DEF EarnCycle
  <2>3. PICK y : y = [x EXCEPT !.made = m]
    OBVIOUS
  <2>4. /\ y \in EarnCycle /\ y.kind = x.kind /\ y.step = x.step /\ y.reported = x.reported
    BY <2>3 DEF EarnCycle
  <2>5. income' = [income EXCEPT ![c] = Earning!Advance(y)]
    <3>1. y = [income[c] EXCEPT !.made = income[c].made \cup {p}]
      BY <2>1, <2>2, <2>3
    <3>2. income' = [income EXCEPT ![c] = Earning!Advance([income[c] EXCEPT !.made = income[c].made \cup {p}])]
      BY <1>7
    <3>3. QED
      BY <3>1, <3>2, Zenon
  <2>6. QED
    BY <1>2, <1>5, <2>1, <2>4, <2>5
<1>8. QED
  BY <1>1, <1>4, <1>6, <1>7

(* A direct cycle's post, which is answered or not.                        *)
LEMMA EarnPosted ==
  ASSUME Earning!IncomeBounds, EarnInv, NEW c \in IncomeCycle, Earning!Post(c)
  PROVE  EarnInv'
<1>1. PICK p : p = income[c].packet
  OBVIOUS
<1>2. /\ income[c].step = "post" /\ posts' = posts \cup {<<c, p>>}
      /\ UNCHANGED <<writes, prepared, lapsed, signed, executed, approved>>
  BY <1>1 DEF Earning!Post, Earning!At, Earning!StoreOnly
<1>3. /\ income \in [IncomeCycle -> EarnCycle] /\ income[c] \in EarnCycle
      /\ EarnShape(income[c]) /\ EarnTold(c) /\ faults \in 0..FewFaults
  BY EarnIs
<1>4. income[c].kind = "direct" /\ writes /\ p \in Earning!Payload
  BY <1>1, <1>2, <1>3 DEF EarnShape
<1>5. ASSUME income' \in [IncomeCycle -> EarnCycle],
             \A d \in IncomeCycle \ {c} : income'[d] = income[d],
             income'[c].kind = income[c].kind, income'[c].step # "off",
             income'[c].reported \in {income[c].reported, income[c].reported \cup {p}},
             EarnShape(income[c])', faults' \in 0..FewFaults, faults' >= faults,
             unanswered \subseteq unanswered', unanswered' \subseteq unanswered \cup {<<c, p>>},
             p \in income'[c].reported \/ <<c, p>> \in unanswered'
      PROVE  EarnInv'
  <2>1. EarnTypes'
    BY <1>2, <1>4, <1>5 DEF EarnInv, EarnTypes
  <2>2. EarnTold(c)'
    <3> SUFFICES ASSUME NEW q \in income'[c].reported
                 PROVE  \E x \in posts' : x[2] = q /\ x[1] = c
      BY DEF EarnTold
    <3>1. CASE q = p
      <4>1. <<c, p>> \in posts' /\ <<c, p>>[1] = c /\ <<c, p>>[2] = q
        BY <1>2, <3>1
      <4>2. QED
        BY <4>1
    <3>2. CASE q \in income[c].reported
      <4>1. PICK x \in posts : x[2] = q /\ x[1] = c
        BY <1>3, <1>4, <3>2 DEF EarnTold, Earning!Direct
      <4>2. QED
        BY <1>2, <4>1
    <3>3. QED
      BY <1>5, <3>1, <3>2
  <2>3. ASSUME NEW x \in posts' \ posts PROVE EarnPost(x)' /\ ~Earning!Supervised(x)'
    <3>1. x = <<c, p>> /\ x[1] = c /\ x[2] = p
      BY <1>2, <2>3
    <3>2. ~Earning!Supervised(x)'
      BY <1>4, <1>5, <3>1 DEF Earning!Supervised
    <3>3. writes'
      BY <1>2, <1>4
    <3>4. QED
      BY <1>5, <3>1, <3>2, <3>3 DEF EarnPost
  <2>4. \A x \in posts : Earning!Supervised(x)' = Earning!Supervised(x)
    <3>1. \A x \in posts : x[1] \in IncomeCycle
      BY DEF EarnInv, EarnTypes
    <3>2. QED
      BY <1>5, <3>1 DEF Earning!Supervised
  <2>5. EarnOnce'
    <3> SUFFICES ASSUME NEW x \in posts', NEW y \in posts', Earning!Supervised(x)', Earning!Supervised(y)',
                        x[2] = y[2], x # y
                 PROVE  x \in unanswered' \/ y \in unanswered'
      BY DEF EarnOnce
    <3>1. x \in posts /\ y \in posts /\ Earning!Supervised(x) /\ Earning!Supervised(y)
      BY <2>3, <2>4
    <3>2. QED
      BY <1>5, <3>1 DEF EarnInv, EarnPosts, EarnOnce
  <2>6. EarnDone'
    BY <1>2 DEF EarnInv, EarnDone
  <2>7. income[c].reported \subseteq income'[c].reported
    BY <1>5
  <2>8. \A x \in posts' \ posts : EarnPost(x)'
    BY <2>3
  <2>9. income[c].step \notin EarnOver \cup {"off"} /\ executed \subseteq executed'
    BY <1>2 DEF EarnOver
  <2>10. QED
    BY <1>2, <1>5, <2>1, <2>2, <2>5, <2>6, <2>7, <2>8, <2>9, EarnPut
<1>6. CASE /\ income' = [income EXCEPT ![c] = Earning!Advance(Earning!Report(c, income[c].packet))]
           /\ UNCHANGED <<faults, unanswered>>
  <2>1. PICK x \in EarnCycle : x = income[c]
    BY <1>3
  <2>2. PICK r \in SUBSET Earning!Payload : r = x.reported \cup {p}
    BY <1>4 DEF EarnCycle
  <2>3. PICK y : y = [x EXCEPT !.reported = r, !.step = "generate"]
    OBVIOUS
  <2>4. y \in EarnCycle /\ y.kind = x.kind /\ y.step = "generate" /\ y.reported = r
    BY <2>3 DEF EarnCycle
  <2>5. Earning!Report(c, income[c].packet) = y
    BY <1>1, <2>1, <2>2, <2>3 DEF Earning!Report
  <2>6. income' = [income EXCEPT ![c] = Earning!Advance(y)]
    BY <1>6, <2>5
  <2>7. /\ income' \in [IncomeCycle -> EarnCycle]
        /\ \A d \in IncomeCycle \ {c} : income'[d] = income[d]
        /\ income'[c].kind = income[c].kind /\ income'[c].step # "off"
        /\ income'[c].reported = y.reported /\ EarnShape(income[c])'
    BY <2>1, <2>4, <2>6, EarnNext
  <2>8. faults' \in 0..FewFaults /\ faults' >= faults
    BY <1>3, <1>6 DEF Earning!IncomeBounds
  <2>9. /\ p \in income'[c].reported
        /\ income'[c].reported \in {income[c].reported, income[c].reported \cup {p}}
    BY <2>1, <2>2, <2>4, <2>7
  <2>10. QED
    BY <1>5, <1>6, <2>7, <2>8, <2>9
<1>7. CASE Earning!Raised(c) /\ Earning!Fault /\ unanswered' = unanswered \cup {<<c, p>>}
  <2>1. /\ income' \in [IncomeCycle -> EarnCycle]
        /\ \A d \in IncomeCycle \ {c} : income'[d] = income[d]
        /\ income'[c].kind = income[c].kind /\ income'[c].step # "off"
        /\ income'[c].reported = income[c].reported /\ EarnShape(income[c])'
        /\ faults' \in 0..FewFaults /\ faults' >= faults
    BY <1>7, EarnRaised
  <2>2. QED
    BY <1>5, <1>7, <2>1
<1>8. QED
  BY <1>1, <1>6, <1>7 DEF Earning!Post, Earning!Fine

(* The post that is refused, or raises before it is made.                  *)
LEMMA EarnRefused ==
  ASSUME Earning!IncomeBounds, EarnInv, NEW c \in IncomeCycle, Earning!PostRefused(c)
  PROVE  EarnInv'
<1>1. /\ income[c].step = "post"
      /\ UNCHANGED <<writes, prepared, lapsed, signed, executed, approved, posts, unanswered>>
  BY DEF Earning!PostRefused, Earning!At, Earning!StoreOnly, Earning!Unposted
<1>2. /\ income[c] \in EarnCycle /\ EarnShape(income[c]) /\ faults \in 0..FewFaults
      /\ prepared \subseteq Earning!Payload
  BY EarnIs
<1>3. CASE /\ income' = [income EXCEPT ![c] = Earning!Advance([income[c] EXCEPT !.step = "generate"])]
           /\ UNCHANGED faults
  <2>1. PICK x \in EarnCycle : x = income[c]
    BY <1>2
  <2>2. PICK y : y = [x EXCEPT !.step = "generate"]
    OBVIOUS
  <2>3. y \in EarnCycle /\ y.kind = x.kind /\ y.step = "generate" /\ y.reported = x.reported
    BY <2>2 DEF EarnCycle
  <2>4. income' = [income EXCEPT ![c] = Earning!Advance(y)]
    BY <1>3, <2>1, <2>2
  <2>5. /\ income' \in [IncomeCycle -> EarnCycle]
        /\ \A d \in IncomeCycle \ {c} : income'[d] = income[d]
        /\ income'[c].kind = income[c].kind /\ income'[c].step # "off"
        /\ income'[c].reported = y.reported /\ EarnShape(income[c])'
    BY <2>1, <2>3, <2>4, EarnNext
  <2>6. faults' \in 0..FewFaults /\ faults' >= faults
    BY <1>2, <1>3 DEF Earning!IncomeBounds
  <2>7. QED
    BY <1>1, <1>2, <2>1, <2>3, <2>5, <2>6, EarnQuiet DEF EarnOver
<1>4. CASE Earning!Raised(c) /\ Earning!Fault
  <2>1. /\ income' \in [IncomeCycle -> EarnCycle]
        /\ \A d \in IncomeCycle \ {c} : income'[d] = income[d]
        /\ income'[c].kind = income[c].kind /\ income'[c].step # "off"
        /\ income'[c].reported = income[c].reported /\ EarnShape(income[c])'
        /\ faults' \in 0..FewFaults /\ faults' >= faults
    BY <1>4, EarnRaised
  <2>2. QED
    BY <1>1, <1>2, <2>1, EarnQuiet DEF EarnOver
<1>5. QED
  BY <1>3, <1>4 DEF Earning!PostRefused, Earning!Fine

(* The mesh, a lane that is not let through, and one that is frozen.       *)
LEMMA EarnHardened ==
  ASSUME Earning!IncomeBounds, EarnInv, NEW c \in IncomeCycle,
         Earning!Mesh(c) \/ Earning!Gated(c) \/ Earning!Prepare(c) \/ Earning!StoreRaises(c)
  PROVE  EarnInv'
<1>1. /\ income \in [IncomeCycle -> EarnCycle] /\ income[c] \in EarnCycle
      /\ EarnShape(income[c]) /\ faults \in 0..FewFaults /\ prepared \subseteq Earning!Payload
      /\ faults >= faults
  BY EarnIs DEF Earning!IncomeBounds
<1>2. UNCHANGED <<writes, lapsed, signed, executed, approved, posts, unanswered>>
  BY DEF Earning!Mesh, Earning!Gated, Earning!Prepare, Earning!StoreRaises, Earning!StoreOnly,
     Earning!Unposted
<1>3. CASE Earning!Mesh(c)
  <2>1. PICK x \in EarnCycle : x = income[c] /\ x.step = "mesh"
    BY <1>1, <1>3 DEF Earning!Mesh, Earning!At
  <2>2. PICK y : y = [x EXCEPT !.step = "prepare"]
    OBVIOUS
  <2>3. y \in EarnCycle /\ y.kind = x.kind /\ y.step = "prepare" /\ y.reported = x.reported
    BY <2>2 DEF EarnCycle
  <2>4. income' = [income EXCEPT ![c] = y] /\ UNCHANGED <<prepared, faults>>
    BY <1>3, <2>1, <2>2 DEF Earning!Mesh, Earning!StoreOnly, Earning!Fine
  <2>5. /\ income' \in [IncomeCycle -> EarnCycle] /\ income'[c] = y
        /\ \A d \in IncomeCycle \ {c} : income'[d] = income[d]
    BY <1>1, <2>3, <2>4
  <2>6. EarnShape(income[c])'
    BY <1>1, <2>1, <2>3, <2>5 DEF EarnShape
  <2>7. QED
    BY <1>1, <1>2, <2>1, <2>3, <2>4, <2>5, <2>6, EarnQuiet DEF EarnOver
<1>4. CASE Earning!Gated(c)
  <2>1. PICK x \in EarnCycle : x = income[c] /\ x.step = "prepare"
    BY <1>1, <1>4 DEF Earning!Gated, Earning!At
  <2>2. income' = [income EXCEPT ![c] = Earning!Advance(x)] /\ UNCHANGED <<prepared, faults>>
    BY <1>4, <2>1 DEF Earning!Gated, Earning!StoreOnly, Earning!Fine
  <2>3. x.kind = "supervised"
    BY <1>1, <2>1 DEF EarnShape
  <2>4. /\ income' \in [IncomeCycle -> EarnCycle]
        /\ \A d \in IncomeCycle \ {c} : income'[d] = income[d]
        /\ income'[c].kind = income[c].kind /\ income'[c].step # "off"
        /\ income'[c].reported = x.reported /\ EarnShape(income[c])'
    BY <2>1, <2>2, <2>3, EarnNext
  <2>5. QED
    BY <1>1, <1>2, <2>1, <2>2, <2>4, EarnQuiet DEF EarnOver
<1>5. CASE Earning!Prepare(c)
  <2>1. PICK x \in EarnCycle : x = income[c] /\ x.step = "prepare"
    BY <1>1, <1>5 DEF Earning!Prepare, Earning!At
  <2>2. PICK p \in Earning!Passed(c) :
          /\ prepared' = prepared \cup {p}
          /\ income' = [income EXCEPT ![c].step = "execute", ![c].packet = p]
    BY <1>5 DEF Earning!Prepare
  <2>3. p \in Earning!Payload /\ writes /\ x.kind = "supervised"
    BY <1>1, <2>1, <2>2 DEF Earning!Passed, EarnCycle, EarnShape
  <2>4. PICK y : y = [x EXCEPT !.step = "execute", !.packet = p]
    OBVIOUS
  <2>5. /\ y \in EarnCycle /\ y.kind = x.kind /\ y.step = "execute" /\ y.packet = p
        /\ y.reported = x.reported
    BY <2>3, <2>4 DEF EarnCycle
  <2>6. income' = [income EXCEPT ![c] = y] /\ UNCHANGED faults
    BY <1>1, <1>5, <2>1, <2>2, <2>4 DEF Earning!Prepare, Earning!Fine
  <2>7. /\ income' \in [IncomeCycle -> EarnCycle] /\ income'[c] = y
        /\ \A d \in IncomeCycle \ {c} : income'[d] = income[d]
    BY <1>1, <2>5, <2>6
  <2>8. writes'
    BY <1>2, <2>3
  <2>9. EarnShape(income[c])'
    BY <2>3, <2>5, <2>7, <2>8 DEF EarnShape
  <2>10. prepared \subseteq prepared' /\ prepared' \subseteq Earning!Payload
    BY <1>1, <2>2, <2>3
  <2>11. QED
    BY <1>1, <1>2, <2>1, <2>5, <2>6, <2>7, <2>9, <2>10, EarnQuiet DEF EarnOver
<1>6. CASE Earning!StoreRaises(c)
  <2>1. income[c].step = "prepare" /\ Earning!Raised(c) /\ Earning!Fault /\ UNCHANGED prepared
    BY <1>6 DEF Earning!StoreRaises, Earning!At, Earning!StoreOnly
  <2>2. /\ income' \in [IncomeCycle -> EarnCycle]
        /\ \A d \in IncomeCycle \ {c} : income'[d] = income[d]
        /\ income'[c].kind = income[c].kind /\ income'[c].step # "off"
        /\ income'[c].reported = income[c].reported /\ EarnShape(income[c])'
        /\ faults' \in 0..FewFaults /\ faults' >= faults
    BY <2>1, EarnRaised
  <2>3. QED
    BY <1>1, <1>2, <2>1, <2>2, EarnQuiet DEF EarnOver
<1>7. QED
  BY <1>3, <1>4, <1>5, <1>6

(* The delivery of a supervised cycle: it is refused, or was completed     *)
(* before, or uses up an approval.                                         *)
LEMMA EarnDeliver ==
  ASSUME Earning!IncomeBounds, EarnInv, NEW c \in IncomeCycle, NEW p \in Earning!Payload,
         Earning!Refuse(c) \/ Earning!Replay(c, p) \/ Earning!Execute(c, p) \/ Earning!ExecuteFails(c, p)
  PROVE  EarnInv'
<1>1. /\ income \in [IncomeCycle -> EarnCycle] /\ income[c] \in EarnCycle
      /\ EarnShape(income[c]) /\ EarnTold(c) /\ faults \in 0..FewFaults
      /\ prepared \subseteq Earning!Payload /\ faults >= faults
  BY EarnIs DEF Earning!IncomeBounds
<1>2. income[c].step = "execute"
  BY DEF Earning!Refuse, Earning!Replay, Earning!Execute, Earning!ExecuteFails, Earning!Consume,
     Earning!At
<1>3. income[c].kind = "supervised" /\ writes
  BY <1>1, <1>2 DEF EarnShape
<1>4. PICK x \in EarnCycle : x = income[c]
  BY <1>1
<1>5. ASSUME Earning!NextLane(c)
      PROVE  /\ income' \in [IncomeCycle -> EarnCycle]
             /\ \A d \in IncomeCycle \ {c} : income'[d] = income[d]
             /\ income'[c].kind = income[c].kind /\ income'[c].step # "off"
             /\ income'[c].reported = income[c].reported /\ EarnShape(income[c])'
  <2>1. PICK y : y = [x EXCEPT !.step = "prepare"]
    OBVIOUS
  <2>2. y \in EarnCycle /\ y.kind = x.kind /\ y.step = "prepare" /\ y.reported = x.reported
    BY <2>1 DEF EarnCycle
  <2>3. income' = [income EXCEPT ![c] = Earning!Advance(y)]
    BY <1>4, <1>5, <2>1 DEF Earning!NextLane
  <2>4. QED
    BY <1>3, <1>4, <2>2, <2>3, EarnNext
<1>6. ASSUME Earning!Told(c, p)
      PROVE  /\ income' \in [IncomeCycle -> EarnCycle]
             /\ \A d \in IncomeCycle \ {c} : income'[d] = income[d]
             /\ income'[c].kind = income[c].kind /\ income'[c].step # "off"
             /\ income'[c].reported = income[c].reported \cup {p} /\ EarnShape(income[c])'
  <2>1. PICK r \in SUBSET Earning!Payload : r = x.reported \cup {p}
    BY DEF EarnCycle
  <2>2. PICK y : y = [x EXCEPT !.step = "prepare", !.reported = r]
    OBVIOUS
  <2>3. y \in EarnCycle /\ y.kind = x.kind /\ y.step = "prepare" /\ y.reported = r
    BY <2>2 DEF EarnCycle
  <2>4. y = [income[c] EXCEPT !.step = "prepare", !.reported = income[c].reported \cup {p}]
    BY <1>4, <2>1, <2>2
  <2>5. income' = [income EXCEPT ![c] = Earning!Advance(y)]
    BY <1>6, <2>4 DEF Earning!Told
  <2>6. QED
    BY <1>3, <1>4, <2>1, <2>3, <2>5, EarnNext
<1>7. \A y \in posts : y[1] \in IncomeCycle /\ EarnPost(y)
  BY DEF EarnInv, EarnTypes, EarnPosts
<1>8. CASE Earning!Refuse(c)
  <2>1. /\ Earning!NextLane(c)
        /\ UNCHANGED <<writes, prepared, lapsed, signed, executed, approved, posts, unanswered, faults>>
    BY <1>8 DEF Earning!Refuse, Earning!Fine, Earning!StoreOnly, Earning!Unposted
  <2>2. QED
    BY <1>1, <1>2, <1>5, <2>1, EarnQuiet DEF EarnOver
<1>9. CASE Earning!ExecuteFails(c, p)
  <2>1. /\ Earning!NextLane(c) /\ signed' = signed \ {p}
        /\ UNCHANGED <<writes, prepared, lapsed, executed, approved, posts, unanswered, faults>>
    BY <1>9 DEF Earning!ExecuteFails, Earning!Consume, Earning!Fine, Earning!Unposted
  <2>2. signed' \subseteq signed
    BY <2>1
  <2>3. QED
    BY <1>1, <1>2, <1>5, <2>1, <2>2, EarnQuiet DEF EarnOver
<1>10. ASSUME UNCHANGED <<writes, prepared, lapsed, approved>>, signed' \subseteq signed,
              income' \in [IncomeCycle -> EarnCycle],
              \A d \in IncomeCycle \ {c} : income'[d] = income[d],
              income'[c].kind = income[c].kind, income'[c].step # "off",
              EarnShape(income[c])', faults' \in 0..FewFaults, faults' >= faults,
              posts' = posts \cup {<<c, p>>}, p \in approved, p \notin executed,
              executed \subseteq executed', executed' \subseteq executed \cup {p},
              unanswered \subseteq unanswered', unanswered' \subseteq unanswered \cup {<<c, p>>},
              income[c].reported \subseteq income'[c].reported,
              income'[c].reported \subseteq income[c].reported \cup {p},
              \/ <<c, p>> \in unanswered'
              \/ p \in executed' /\ p \in income'[c].reported
       PROVE  EarnInv'
  <2>1. EarnTypes'
    BY <1>10 DEF EarnInv, EarnTypes
  <2>2. EarnTold(c)'
    <3> SUFFICES ASSUME NEW r \in income'[c].reported
                 PROVE  \E y \in posts' : y[2] = r
      BY <1>3, <1>10 DEF EarnTold, Earning!Direct
    <3>1. CASE r = p
      <4>1. <<c, p>> \in posts' /\ <<c, p>>[2] = r
        BY <1>10, <3>1
      <4>2. QED
        BY <4>1
    <3>2. CASE r \in income[c].reported
      BY <1>1, <1>10, <3>2 DEF EarnTold
    <3>3. QED
      BY <1>10, <3>1, <3>2
  <2>3. \A y \in posts : Earning!Supervised(y)' = Earning!Supervised(y)
    BY <1>7, <1>10 DEF Earning!Supervised
  <2>4. ASSUME NEW y \in posts' \ posts PROVE y = <<c, p>> /\ EarnPost(y)'
    <3>1. y = <<c, p>> /\ y[1] = c /\ y[2] = p
      BY <1>10, <2>4
    <3>2. writes' /\ p \in approved'
      BY <1>3, <1>10
    <3>3. QED
      BY <1>10, <3>1, <3>2 DEF EarnPost
  <2>5. ASSUME NEW y \in posts, Earning!Supervised(y), y[2] = p PROVE y \in unanswered'
    BY <1>7, <1>10, <2>5 DEF EarnPost
  <2>6. EarnOnce'
    <3> SUFFICES ASSUME NEW y \in posts', NEW z \in posts', Earning!Supervised(y)', Earning!Supervised(z)',
                        y[2] = z[2], y # z
                 PROVE  y \in unanswered' \/ z \in unanswered'
      BY DEF EarnOnce
    <3>1. CASE y \in posts /\ z \in posts
      <4>1. Earning!Supervised(y) /\ Earning!Supervised(z)
        BY <2>3, <3>1
      <4>2. QED
        BY <1>10, <3>1, <4>1 DEF EarnInv, EarnPosts, EarnOnce
    <3>2. CASE y \in posts /\ z \notin posts
      <4>1. Earning!Supervised(y) /\ z = <<c, p>>
        BY <2>3, <2>4, <3>2
      <4>2. QED
        BY <2>5, <3>2, <4>1
    <3>3. CASE y \notin posts /\ z \in posts
      <4>1. Earning!Supervised(z) /\ y = <<c, p>>
        BY <2>3, <2>4, <3>3
      <4>2. QED
        BY <2>5, <3>3, <4>1
    <3>4. CASE y \notin posts /\ z \notin posts
      BY <2>4, <3>4
    <3>5. QED
      BY <3>1, <3>2, <3>3, <3>4
  <2>7. EarnDone'
    <3> SUFFICES ASSUME NEW r \in executed' PROVE \E y \in posts' : y[2] = r
      BY DEF EarnDone
    <3>1. CASE r = p
      <4>1. <<c, p>> \in posts' /\ <<c, p>>[2] = r
        BY <1>10, <3>1
      <4>2. QED
        BY <4>1
    <3>2. CASE r \in executed
      BY <1>10, <3>2 DEF EarnInv, EarnDone
    <3>3. QED
      BY <1>10, <3>1, <3>2
  <2>8. \A y \in posts' \ posts : EarnPost(y)'
    BY <2>4
  <2>9. /\ income[c].step \notin EarnOver \cup {"off"} /\ posts \subseteq posts'
    BY <1>2, <1>10 DEF EarnOver
  <2>10. QED
    BY <1>10, <2>1, <2>2, <2>6, <2>7, <2>8, <2>9, EarnPut
<1>11. CASE Earning!Execute(c, p)
  <2>1. /\ p \in approved /\ p \notin executed /\ signed' \subseteq signed
        /\ UNCHANGED <<writes, prepared, lapsed, approved>>
        /\ posts' = posts \cup {<<c, p>>}
    BY <1>11 DEF Earning!Execute, Earning!Consume, Earning!Permitted
  <2>2. CASE executed' = executed \cup {p} /\ Earning!Told(c, p) /\ UNCHANGED <<faults, unanswered>>
    <3>1. faults' \in 0..FewFaults /\ faults' >= faults
      BY <1>1, <2>2
    <3>2. QED
      BY <1>6, <1>10, <2>1, <2>2, <3>1
  <2>3. CASE /\ Earning!NextLane(c) /\ Earning!Fault /\ unanswered' = unanswered \cup {<<c, p>>}
             /\ UNCHANGED executed
    <3>1. faults' \in 0..FewFaults /\ faults' >= faults
      BY <1>1, <2>3, CountUp DEF Earning!Fault, Earning!IncomeBounds
    <3>2. QED
      BY <1>5, <1>10, <2>1, <2>3, <3>1
  <2>4. QED
    BY <1>11, <2>2, <2>3 DEF Earning!Execute, Earning!Fine
<1>12. CASE Earning!Replay(c, p)
  <2>1. /\ p \in executed /\ Earning!Told(c, p)
        /\ UNCHANGED <<writes, prepared, lapsed, signed, executed, approved, posts, unanswered, faults>>
    BY <1>12 DEF Earning!Replay, Earning!Fine, Earning!StoreOnly, Earning!Unposted
  <2>2. /\ income' \in [IncomeCycle -> EarnCycle]
        /\ \A d \in IncomeCycle \ {c} : income'[d] = income[d]
        /\ income'[c].kind = income[c].kind /\ income'[c].step # "off"
        /\ income'[c].reported = income[c].reported \cup {p} /\ EarnShape(income[c])'
    BY <1>6, <2>1
  <2>3. EarnTypes'
    BY <2>1, <2>2 DEF EarnInv, EarnTypes
  <2>4. EarnTold(c)'
    <3> SUFFICES ASSUME NEW r \in income'[c].reported
                 PROVE  \E y \in posts' : y[2] = r
      BY <1>3, <2>2 DEF EarnTold, Earning!Direct
    <3>1. CASE r = p
      BY <2>1, <3>1 DEF EarnInv, EarnDone
    <3>2. CASE r \in income[c].reported
      BY <1>1, <2>1, <3>2 DEF EarnTold
    <3>3. QED
      BY <2>2, <3>1, <3>2
  <2>5. EarnOnce'
    <3>1. \A y \in posts : Earning!Supervised(y)' = Earning!Supervised(y)
      BY <1>7, <2>2 DEF Earning!Supervised
    <3>2. QED
      BY <2>1, <3>1 DEF EarnInv, EarnPosts, EarnOnce
  <2>6. EarnDone'
    BY <2>1 DEF EarnInv, EarnDone
  <2>7. income[c].step \notin EarnOver \cup {"off"} /\ faults' >= faults
    BY <1>1, <1>2, <2>1 DEF EarnOver
  <2>8. income[c].reported \subseteq income'[c].reported
    BY <2>2
  <2>9. QED
    BY <2>1, <2>2, <2>3, <2>4, <2>5, <2>6, <2>7, <2>8, EarnPut
<1>13. QED
  BY <1>8, <1>9, <1>11, <1>12

(* A person signs, and what is frozen lapses.                              *)
LEMMA EarnPerson ==
  ASSUME EarnInv, Earning!Lapse \/ \E p \in Earning!Payload : Earning!Sign(p)
  PROVE  EarnInv'
<1>1. /\ UNCHANGED <<writes, income, prepared, executed, posts, unanswered, faults>>
      /\ approved \subseteq approved' /\ approved' \subseteq prepared /\ signed' \subseteq approved'
      /\ lapsed' \subseteq prepared
  BY DEF Earning!Lapse, Earning!Sign, Earning!Fine, Earning!Unposted, EarnInv, EarnTypes
<1>2. EarnTypes'
  BY <1>1 DEF EarnInv, EarnTypes
<1>3. EarnCycles' /\ EarnTurns' /\ EarnDone'
  BY <1>1 DEF EarnInv, EarnCycles, EarnShape, EarnTold, Earning!Direct, EarnTurns, EarnDone
<1>4. \A x \in posts : EarnPost(x)'
  BY <1>1 DEF EarnInv, EarnPosts, EarnPost, Earning!Supervised
<1>5. EarnOnce'
  BY <1>1 DEF EarnInv, EarnPosts, EarnOnce, Earning!Supervised
<1>6. QED
  BY <1>1, <1>2, <1>3, <1>4, <1>5 DEF EarnInv, EarnPosts

(* Every step keeps it.                                                    *)
LEMMA EarnStep == Earning!IncomeBounds /\ EarnInv /\ Earning!Next => EarnInv'
<1> SUFFICES ASSUME Earning!IncomeBounds, EarnInv, Earning!Next PROVE EarnInv'
  OBVIOUS
<1>1. ASSUME NEW c \in IncomeCycle, NEW p \in Earning!Payload,
             Earning!Replay(c, p) \/ Earning!Execute(c, p) \/ Earning!ExecuteFails(c, p)
      PROVE  EarnInv'
  BY <1>1, EarnDeliver
<1>2. ASSUME NEW c \in IncomeCycle, Earning!Refuse(c)
      PROVE  EarnInv'
  <2>1. PICK p : p = <<"technical_product", c>>
    OBVIOUS
  <2>2. p \in Earning!Payload
    BY <2>1 DEF Earning!Payload
  <2>3. QED
    BY <1>2, <2>2, EarnDeliver
<1>3. ASSUME NEW c \in IncomeCycle,
             \/ Earning!Begin(c) \/ Earning!Generate(c) \/ Earning!Post(c) \/ Earning!PostRefused(c)
             \/ Earning!Mesh(c) \/ Earning!Gated(c) \/ Earning!Prepare(c) \/ Earning!StoreRaises(c)
      PROVE  EarnInv'
  BY <1>3, EarnBegin, EarnGenerate, EarnPosted, EarnRefused, EarnHardened
<1>4. CASE Earning!Lapse \/ \E p \in Earning!Payload : Earning!Sign(p)
  BY <1>4, EarnPerson
<1>5. QED
  BY <1>1, <1>2, <1>3, <1>4 DEF Earning!Next

(* A supervised cycle posts only what was approved, and no payload is      *)
(* posted by two of them unless the answer to one was lost; nothing is     *)
(* posted while writes are off.  A report has all the posts of its cycle   *)
(* whose answer came, and what it says was done was posted.                *)
THEOREM IncomeKeeps ==
  ASSUME Earning!IncomeBounds
  PROVE  Earning!Init /\ [][Earning!Next]_<<Earning!earning, faults>> =>
           [](Earning!TypeOK /\ Earning!EffectsOnce /\ Earning!NothingLost)
<1>1. Earning!Init => EarnInv
  BY EarnInit
<1>2. EarnInv /\ [Earning!Next]_<<Earning!earning, faults>> => EarnInv'
  BY EarnStep, EarnRests
<1>3. EarnInv => Earning!TypeOK /\ Earning!EffectsOnce /\ Earning!NothingLost
  BY EarnSays
<1>4. QED
  BY <1>1, <1>2, <1>3, PTL

-----------------------------------------------------------------------------
(* The process mesh.                                                       *)

(* What an agent keeps, and what the circuit does.                         *)
ProcWorker == [step : {"off", "circuit", "ask", "close", "read", "count", "write", "done"},
               envelope : Meshing!Envelope \cup {"none"}, failures : Nat, mode : Meshing!Mode]
ProcTypes ==
  /\ stage \in 0..8 /\ worker \in [Selected -> ProcWorker]
  /\ output \in [Selected -> Meshing!Envelope \cup {"none"}]
  /\ envelopes \in [Selected -> Meshing!Envelope \cup {"none"}]
  /\ aiCircuit \in [mode : Meshing!Mode, failures : Nat, waited : BOOLEAN]
  /\ faults \in 0..FewFaults /\ failing \subseteq asked /\ asked \subseteq Selected

(* The stages that are over, the one under way, and those to come.         *)
ProcStage(n, a) ==
  /\ n > stage => worker[a].step = "off"
  /\ n = stage => worker[a].step # "off"
  /\ n < stage => worker[a].step = "done" /\ output[a] = worker[a].envelope
ProcStages == \A n \in 1..7 : \A a \in Meshing!Staged[n] \cap Selected : ProcStage(n, a)

(* What an agent has when it gets where it is.                             *)
ProcReady(a) == \A d \in Meshing!DependsOn[a] \cap Selected : output[d] # "none"
ProcAgent(a) ==
  /\ output[a] # "none" => worker[a].step = "done" /\ output[a] = worker[a].envelope
  /\ worker[a].step \notin {"off", "done"} \/ a \in asked => ProcReady(a)
  /\ worker[a].step \in {"off", "circuit", "ask"} => envelopes[a] = "none" /\ a \notin asked
  /\ worker[a].step = "close" => worker[a].envelope = envelopes[a] /\ a \in asked \ failing
  /\ worker[a].step = "write" => worker[a].envelope = envelopes[a] /\ envelopes[a] # "none"
  /\ worker[a].step \in {"read", "count"} =>
       a \in failing /\ (faults > 0 \/ envelopes[a] = "none")
  /\ worker[a].step = "done" =>
       /\ worker[a].envelope \in {envelopes[a], "review_required"} \ {"none"}
       /\ faults = 0 /\ envelopes[a] # "none" => worker[a].envelope = envelopes[a]
ProcAgents == \A a \in Selected : ProcAgent(a)

(* The failures that are on record, and those that are not yet.            *)
ProcCounted == {a \in failing : worker[a].step \notin {"read", "count"}}
ProcFailed(n, m) ==
  /\ n <= Cardinality(ProcCounted)
  /\ m # "CLOSED" => Cardinality(failing) >= Threshold
ProcCircuit ==
  /\ ProcFailed(aiCircuit.failures, aiCircuit.mode)
  /\ aiCircuit.waited => aiCircuit.mode # "CLOSED"
ProcReads == \A a \in Selected : ProcFailed(worker[a].failures, worker[a].mode)

ProcInv == ProcTypes /\ ProcStages /\ ProcAgents /\ ProcCircuit /\ ProcReads

(* The module's count is the library's.                                    *)
LEMMA ProcCount == \A S : Meshing!Cardinality(S) = Cardinality(S)
BY Zenon DEF Meshing!Cardinality, Cardinality

(* The stages.                                                             *)
LEMMA ProcStaged ==
  /\ Len(Meshing!Staged) = 7 /\ DOMAIN Meshing!Staged = 1..7
  /\ Meshing!Staged[1] = {"portfolio_supervisor"}
  /\ Meshing!Staged[2] = {"opportunity_researcher", "analytics_analyst"}
  /\ Meshing!Staged[3] = {"technical_product_strategist", "stock_concept_designer", "newsletter_researcher"}
  /\ Meshing!Staged[4] = {"technical_product_builder", "stock_compliance_reviewer", "newsletter_editor"}
  /\ Meshing!Staged[5] = {"technical_product_verifier", "seo_optimizer"}
  /\ Meshing!Staged[6] = {"independent_critic", "delivery_controller"}
  /\ Meshing!Staged[7] = {"catch_correct_optimizer"}
BY DEF Meshing!Staged

(* The agents are in the stages.                                           *)
LEMMA ProcDomain ==
  DOMAIN Meshing!DependsOn =
    Meshing!Staged[1] \cup Meshing!Staged[2] \cup Meshing!Staged[3] \cup Meshing!Staged[4] \cup Meshing!Staged[5] \cup Meshing!Staged[6] \cup Meshing!Staged[7]
<1>1. DOMAIN Meshing!DependsOn = {"portfolio_supervisor", "opportunity_researcher", "analytics_analyst",
        "technical_product_strategist", "stock_concept_designer", "newsletter_researcher",
        "technical_product_builder", "stock_compliance_reviewer", "newsletter_editor",
        "technical_product_verifier", "seo_optimizer", "independent_critic", "delivery_controller",
        "catch_correct_optimizer"}
  BY DEF Meshing!DependsOn
<1>2. QED
  BY <1>1, ProcStaged

(* Each in one of them.                                                    *)
LEMMA ProcOnce ==
  /\ \A a \in DOMAIN Meshing!DependsOn : \E n \in 1..7 : a \in Meshing!Staged[n]
  /\ \A m, n \in 1..7 : \A a \in Meshing!Staged[m] \cap Meshing!Staged[n] : m = n
<1>1. \A a \in DOMAIN Meshing!DependsOn : \E n \in 1..7 : a \in Meshing!Staged[n]
  <2> SUFFICES ASSUME NEW a \in DOMAIN Meshing!DependsOn PROVE \E n \in 1..7 : a \in Meshing!Staged[n]
    OBVIOUS
  <2>1. /\ 1 \in 1..7 /\ 2 \in 1..7 /\ 3 \in 1..7 /\ 4 \in 1..7 /\ 5 \in 1..7 /\ 6 \in 1..7 /\ 7 \in 1..7
    OBVIOUS
  <2>2. \/ a \in Meshing!Staged[1] \/ a \in Meshing!Staged[2] \/ a \in Meshing!Staged[3] \/ a \in Meshing!Staged[4]
        \/ a \in Meshing!Staged[5] \/ a \in Meshing!Staged[6] \/ a \in Meshing!Staged[7]
    BY ProcDomain
  <2>3. QED
    BY <2>1, <2>2
<1>2. ASSUME NEW m \in 1..7, NEW n \in 1..7, m < n, NEW a, a \in Meshing!Staged[m], a \in Meshing!Staged[n]
      PROVE  FALSE
  <2>1. m \in {1, 2, 3, 4, 5, 6} /\ n \in {2, 3, 4, 5, 6, 7}
    BY <1>2
  <2>2. CASE m = 1
    BY <1>2, <2>1, <2>2, ProcStaged
  <2>3. CASE m = 2
    BY <1>2, <2>1, <2>3, ProcStaged
  <2>4. CASE m = 3
    BY <1>2, <2>1, <2>4, ProcStaged
  <2>5. CASE m = 4
    BY <1>2, <2>1, <2>5, ProcStaged
  <2>6. CASE m = 5
    BY <1>2, <2>1, <2>6, ProcStaged
  <2>7. CASE m = 6
    BY <1>2, <2>1, <2>7, ProcStaged
  <2>8. QED
    BY <2>1, <2>2, <2>3, <2>4, <2>5, <2>6, <2>7
<1>3. ASSUME NEW m \in 1..7, NEW n \in 1..7, NEW a \in Meshing!Staged[m] \cap Meshing!Staged[n]
      PROVE  m = n
  <2>1. ~(m < n) /\ ~(n < m)
    BY <1>2
  <2>2. QED
    BY <2>1
<1>4. QED
  BY <1>1, <1>3

(* There are finitely many of them.                                        *)
LEMMA ProcFinite == Meshing!ProcessBounds => IsFiniteSet(Selected)
<1> SUFFICES ASSUME Meshing!ProcessBounds PROVE IsFiniteSet(Selected)
  OBVIOUS
<1>1. ASSUME NEW S, NEW x, S = {x} PROVE IsFiniteSet(S)
  BY <1>1, FS_Singleton
<1>2. ASSUME NEW S, NEW x, NEW y, S = {x, y} PROVE IsFiniteSet(S)
  <2>1. PICK T : T = {x}
    OBVIOUS
  <2>2. PICK U : U = {y}
    OBVIOUS
  <2>3. IsFiniteSet(T) /\ IsFiniteSet(U) /\ S = T \cup U
    BY <1>1, <1>2, <2>1, <2>2
  <2>4. QED
    BY <2>3, FS_Union
<1>3. ASSUME NEW S, NEW x, NEW y, NEW z, S = {x, y, z} PROVE IsFiniteSet(S)
  <2>1. PICK T : T = {x, y}
    OBVIOUS
  <2>2. PICK U : U = {z}
    OBVIOUS
  <2>3. IsFiniteSet(T) /\ IsFiniteSet(U) /\ S = T \cup U
    BY <1>1, <1>2, <1>3, <2>1, <2>2
  <2>4. QED
    BY <2>3, FS_Union
<1>4. /\ IsFiniteSet(Meshing!Staged[1]) /\ IsFiniteSet(Meshing!Staged[2]) /\ IsFiniteSet(Meshing!Staged[3])
      /\ IsFiniteSet(Meshing!Staged[4]) /\ IsFiniteSet(Meshing!Staged[5]) /\ IsFiniteSet(Meshing!Staged[6])
      /\ IsFiniteSet(Meshing!Staged[7])
  <2>1. IsFiniteSet(Meshing!Staged[1]) /\ IsFiniteSet(Meshing!Staged[7])
    BY <1>1, ProcStaged
  <2>2. IsFiniteSet(Meshing!Staged[2])
    BY <1>2, ProcStaged
  <2>3. IsFiniteSet(Meshing!Staged[5])
    BY <1>2, ProcStaged
  <2>4. IsFiniteSet(Meshing!Staged[6])
    BY <1>2, ProcStaged
  <2>5. IsFiniteSet(Meshing!Staged[3])
    BY <1>3, ProcStaged
  <2>6. IsFiniteSet(Meshing!Staged[4])
    BY <1>3, ProcStaged
  <2>7. QED
    BY <2>1, <2>2, <2>3, <2>4, <2>5, <2>6
<1>5. IsFiniteSet(Meshing!Staged[1] \cup Meshing!Staged[2] \cup Meshing!Staged[3])
  BY <1>4, FS_Union
<1>6. IsFiniteSet(Meshing!Staged[1] \cup Meshing!Staged[2] \cup Meshing!Staged[3] \cup Meshing!Staged[4] \cup Meshing!Staged[5])
  BY <1>4, <1>5, FS_Union
<1>7. IsFiniteSet(DOMAIN Meshing!DependsOn)
  <2>1. IsFiniteSet(Meshing!Staged[1] \cup Meshing!Staged[2] \cup Meshing!Staged[3] \cup Meshing!Staged[4] \cup Meshing!Staged[5] \cup Meshing!Staged[6])
    BY <1>4, <1>6, FS_Union
  <2>2. QED
    BY <1>4, <2>1, FS_Union, ProcDomain
<1>8. QED
  BY <1>7, FS_Subset DEF Meshing!ProcessBounds

(* It holds at first.                                                      *)
LEMMA ProcInit == Meshing!ProcessBounds /\ Meshing!Init => ProcInv
<1> SUFFICES ASSUME Meshing!ProcessBounds, Meshing!Init PROVE ProcInv
  OBVIOUS
<1>1. ProcTypes
  BY DEF Meshing!Init, ProcTypes, Meshing!ProcessBounds, ProcWorker, Meshing!Off, Meshing!Closed,
     Meshing!Mode
<1>2. ProcStages
  BY DEF Meshing!Init, ProcStages, ProcStage, Meshing!Off
<1>3. ProcAgents
  BY DEF Meshing!Init, ProcAgents, ProcAgent, Meshing!Off
<1>4. Cardinality(ProcCounted) \in Nat
  <2>1. ProcCounted = {}
    BY DEF Meshing!Init, ProcCounted
  <2>2. QED
    BY <2>1, FS_EmptySet, ProcCount
<1>5. ProcCircuit /\ ProcReads
  BY <1>4 DEF Meshing!Init, ProcCircuit, ProcReads, ProcFailed, Meshing!Off, Meshing!Closed
<1>6. QED
  BY <1>1, <1>2, <1>3, <1>5 DEF ProcInv

(* The counts of what failed.                                              *)
LEMMA ProcSizes ==
  ASSUME Meshing!ProcessBounds, ProcTypes
  PROVE  /\ IsFiniteSet(failing) /\ IsFiniteSet(ProcCounted)
         /\ Cardinality(failing) \in Nat /\ Cardinality(ProcCounted) \in Nat
         /\ Cardinality(Selected) \in Nat
         /\ Cardinality(ProcCounted) <= Cardinality(failing)
         /\ Cardinality(failing) <= Cardinality(Selected)
<1>1. IsFiniteSet(Selected)
  BY ProcFinite
<1>2. failing \subseteq Selected
  BY DEF ProcTypes
<1>3. /\ IsFiniteSet(failing) /\ Cardinality(failing) \in Nat /\ Cardinality(Selected) \in Nat
      /\ Cardinality(failing) <= Cardinality(Selected)
  BY <1>1, <1>2, CountSubset, ProcCount
<1>4. ProcCounted \subseteq failing
  BY DEF ProcCounted
<1>5. QED
  BY <1>3, <1>4, CountSubset, ProcCount

(* It says what was asked.                                                 *)
LEMMA ProcSays == Meshing!ProcessBounds /\ ProcInv => Meshing!TypeOK /\ Meshing!EffectsOnce /\ Meshing!NothingLost
<1> SUFFICES ASSUME Meshing!ProcessBounds, ProcInv PROVE Meshing!TypeOK /\ Meshing!EffectsOnce /\ Meshing!NothingLost
  OBVIOUS
<1> USE DEF ProcInv
<1>1. /\ Cardinality(Selected) \in Nat /\ Cardinality(ProcCounted) <= Cardinality(Selected)
      /\ Cardinality(ProcCounted) \in Nat
  BY ProcSizes
<1>2. ASSUME NEW a \in Selected
      PROVE  \E n \in 1..7 : a \in Meshing!Staged[n] /\ ProcStage(n, a)
  <2>1. PICK n \in 1..7 : a \in Meshing!Staged[n]
    BY ProcOnce DEF Meshing!ProcessBounds
  <2>2. QED
    BY <2>1 DEF ProcStages
<1>3. ASSUME NEW a \in Selected
      PROVE  /\ worker[a].step \in {"off", "circuit", "ask", "close", "read", "count", "write", "done"}
             /\ worker[a].step \notin {"off", "done"} => stage \in DOMAIN Meshing!Staged /\ a \in Meshing!Staged[stage]
             /\ worker[a].envelope \in Meshing!Envelope \cup {"none"}
             /\ worker[a].mode \in Meshing!Mode /\ worker[a].failures \in 0..Cardinality(Selected)
  <2>1. worker[a] \in ProcWorker /\ worker[a].failures <= Cardinality(ProcCounted)
    BY DEF ProcTypes, ProcReads, ProcFailed
  <2>2. worker[a].failures \in 0..Cardinality(Selected)
    BY <1>1, <2>1 DEF ProcWorker
  <2>3. PICK n \in 1..7 : a \in Meshing!Staged[n] /\ ProcStage(n, a)
    BY <1>2
  <2>4. worker[a].step \notin {"off", "done"} => n = stage
    BY <2>3 DEF ProcStage, ProcTypes
  <2>5. QED
    BY <2>1, <2>2, <2>3, <2>4, ProcStaged DEF ProcWorker
<1>4. aiCircuit.failures \in 0..Cardinality(Selected)
  BY <1>1 DEF ProcTypes, ProcCircuit, ProcFailed
<1>5. Meshing!TypeOK
  BY <1>3, <1>4, ProcStaged, ProcCount DEF Meshing!TypeOK, ProcTypes, ProcCircuit
<1>6. Meshing!EffectsOnce
  <2>1. aiCircuit.mode # "CLOSED" => Cardinality(failing) >= Threshold
    BY DEF ProcCircuit, ProcFailed
  <2>2. \A a \in asked : \A d \in Meshing!DependsOn[a] \cap Selected : output[d] # "none"
    BY DEF ProcTypes, ProcAgents, ProcAgent, ProcReady
  <2>3. QED
    BY <2>1, <2>2, ProcCount DEF Meshing!EffectsOnce
<1>7. ASSUME stage > Len(Meshing!Staged), NEW a \in Selected
      PROVE  /\ output[a] \in {envelopes[a], "review_required"} \ {"none"}
             /\ faults = 0 /\ envelopes[a] # "none" => output[a] = envelopes[a]
  <2>1. PICK n \in 1..7 : a \in Meshing!Staged[n] /\ ProcStage(n, a)
    BY <1>2
  <2>2. n < stage
    BY <1>7, ProcStaged DEF ProcTypes
  <2>3. worker[a].step = "done" /\ output[a] = worker[a].envelope
    BY <2>1, <2>2 DEF ProcStage
  <2>4. QED
    BY <2>3 DEF ProcAgents, ProcAgent
<1>8. Meshing!NothingLost
  BY <1>7 DEF Meshing!NothingLost
<1>9. QED
  BY <1>5, <1>6, <1>8

(* It rests when nothing moves.                                            *)
LEMMA ProcRests == ProcInv /\ UNCHANGED <<Meshing!process, faults>> => ProcInv'
BY DEF Meshing!process, ProcInv, ProcTypes, ProcStages, ProcStage, ProcAgents, ProcAgent, ProcReady,
   ProcCircuit, ProcReads, ProcFailed, ProcCounted

-----------------------------------------------------------------------------
(* One agent moves, and the rest follows.                                  *)
LEMMA ProcPut ==
  ASSUME Meshing!ProcessBounds, ProcInv, NEW a \in Selected,
         worker[a].step \notin {"off", "done"}, UNCHANGED <<stage, output>>,
         worker' \in [Selected -> ProcWorker], worker'[a].step # "off",
         \A b \in Selected \ {a} :
           /\ worker'[b] = worker[b] /\ envelopes'[b] = envelopes[b]
           /\ (b \in asked' <=> b \in asked) /\ (b \in failing' <=> b \in failing),
         envelopes' \in [Selected -> Meshing!Envelope \cup {"none"}],
         asked \subseteq asked', asked' \subseteq Selected,
         failing \subseteq failing', failing' \subseteq asked',
         faults' \in 0..FewFaults, faults' >= faults,
         ProcCounted \subseteq ProcCounted',
         ProcAgent(a)', aiCircuit' \in [mode : Meshing!Mode, failures : Nat, waited : BOOLEAN],
         ProcCircuit', ProcFailed(worker[a].failures, worker[a].mode)'
  PROVE  ProcInv'
<1> USE DEF ProcInv
<1>1. ProcTypes'
  BY DEF ProcTypes
<1>2. ProcStages'
  <2> SUFFICES ASSUME NEW n \in 1..7, NEW b \in Meshing!Staged[n] \cap Selected PROVE ProcStage(n, b)'
    BY DEF ProcStages
  <2>1. ProcStage(n, b) /\ stage \in 0..8
    BY DEF ProcStages, ProcTypes
  <2>2. CASE b = a
    BY <2>1, <2>2 DEF ProcStage
  <2>3. CASE b # a
    BY <2>1, <2>3 DEF ProcStage
  <2>4. QED
    BY <2>2, <2>3
<1>3. ASSUME NEW b \in Selected, b # a PROVE ProcAgent(b)'
  <2>1. /\ worker'[b] = worker[b] /\ envelopes'[b] = envelopes[b]
        /\ (b \in asked' <=> b \in asked) /\ (b \in failing' <=> b \in failing)
        /\ ProcAgent(b)
    BY <1>3 DEF ProcAgents
  <2>2. ProcReady(b)' <=> ProcReady(b)
    BY DEF ProcReady
  <2>3. (faults > 0 => faults' > 0) /\ (faults' = 0 => faults = 0)
    BY DEF ProcTypes, Meshing!ProcessBounds
  <2>4. QED
    BY <2>1, <2>2, <2>3 DEF ProcAgent
<1>4. /\ Cardinality(ProcCounted) <= Cardinality(ProcCounted')
      /\ Cardinality(failing) <= Cardinality(failing')
      /\ Cardinality(ProcCounted) \in Nat /\ Cardinality(failing) \in Nat
      /\ Cardinality(ProcCounted') \in Nat /\ Cardinality(failing') \in Nat
  <2>1. IsFiniteSet(failing')
    BY FS_Subset, ProcFinite
  <2>2. ProcCounted' \subseteq failing'
    BY DEF ProcCounted
  <2>3. IsFiniteSet(ProcCounted')
    BY <2>1, <2>2, FS_Subset
  <2>4. QED
    BY <2>1, <2>3, CountSubset, ProcCount
<1>5. ASSUME NEW b \in Selected, b # a PROVE ProcFailed(worker[b].failures, worker[b].mode)'
  <2>1. worker'[b] = worker[b] /\ ProcFailed(worker[b].failures, worker[b].mode)
    BY <1>5 DEF ProcReads
  <2>2. worker[b].failures \in Nat /\ Threshold \in Nat
    BY DEF ProcTypes, ProcWorker, Meshing!ProcessBounds
  <2>3. worker'[b].failures <= Cardinality(ProcCounted')
    BY <1>4, <2>1, <2>2 DEF ProcFailed
  <2>4. worker'[b].mode # "CLOSED" => Cardinality(failing') >= Threshold
    BY <1>4, <2>1, <2>2 DEF ProcFailed
  <2>5. QED
    BY <2>3, <2>4 DEF ProcFailed
<1>6. QED
  BY <1>1, <1>2, <1>3, <1>5 DEF ProcAgents, ProcReads

(* What is true of the agent that a step is of.                            *)
LEMMA ProcIs ==
  ASSUME ProcInv, NEW a \in Selected
  PROVE  /\ worker \in [Selected -> ProcWorker] /\ worker[a] \in ProcWorker
         /\ ProcAgent(a) /\ ProcCircuit /\ faults \in 0..FewFaults /\ asked \subseteq Selected
         /\ failing \subseteq asked /\ envelopes \in [Selected -> Meshing!Envelope \cup {"none"}]
         /\ aiCircuit \in [mode : Meshing!Mode, failures : Nat, waited : BOOLEAN]
         /\ ProcFailed(worker[a].failures, worker[a].mode)
BY DEF ProcInv, ProcTypes, ProcAgents, ProcReads

(* An agent that gets the envelope which asks for a review.                *)
LEMMA ProcReview ==
  /\ Meshing!Review \in ProcWorker /\ Meshing!Review.step = "done" /\ Meshing!Review.envelope = "review_required"
  /\ Meshing!Review.failures = 0 /\ Meshing!Review.mode = "CLOSED"
BY DEF Meshing!Review, Meshing!Off, ProcWorker, Meshing!Envelope, Meshing!Mode

(* Promise.all over the next stage.                                        *)
LEMMA ProcNextStage ==
  ASSUME Meshing!ProcessBounds, ProcInv, Meshing!NextStage
  PROVE  ProcInv'
<1> USE DEF ProcInv
<1>1. /\ stage <= 7 /\ \A a \in Selected : worker[a].step \in {"off", "done"}
      /\ stage' = Meshing!Following /\ output' = Meshing!Collected
      /\ worker' = [a \in Selected |->
           IF stage' \notin DOMAIN Meshing!Staged \/ a \notin Meshing!Staged[stage'] THEN worker[a]
           ELSE IF Meshing!Missing(a) THEN Meshing!Review ELSE [Meshing!Off EXCEPT !.step = "circuit"]]
      /\ UNCHANGED <<aiCircuit, asked, envelopes, failing, faults>>
  BY ProcStaged DEF Meshing!NextStage, Meshing!StageDone, Meshing!Fine
<1>2. /\ stage \in 0..8 /\ worker \in [Selected -> ProcWorker]
      /\ envelopes \in [Selected -> Meshing!Envelope \cup {"none"}]
      /\ failing \subseteq asked /\ asked \subseteq Selected
  BY DEF ProcTypes
<1>3. /\ stage' \in 1..8 /\ stage' > stage
      /\ \A n \in 1..7 : n > stage /\ n < stage' => Meshing!Staged[n] \cap Selected = {}
  <2> DEFINE later == {n \in 1..7 : n > stage /\ Meshing!Staged[n] \cap Selected # {}}
  <2>1. Meshing!Following = IF later = {} THEN 8 ELSE Meshing!Min(later)
    BY ProcStaged DEF Meshing!Following
  <2>2. CASE later = {}
    <3>1. stage' = 8
      BY <1>1, <2>1, <2>2
    <3>2. QED
      BY <1>1, <1>2, <2>2, <3>1
  <2>3. CASE later # {}
    <3>1. \E m \in later : \A j \in later : m <= j
      <4>1. later \in SUBSET Nat
        OBVIOUS
      <4> HIDE DEF later
      <4>2. QED
        BY <2>3, <4>1, CountLeast
    <3>2. stage' = Meshing!Min(later)
      BY <1>1, <2>1, <2>3
    <3>3. stage' \in later /\ \A j \in later : stage' <= j
      <4> HIDE DEF later
      <4>1. QED
        BY <3>1, <3>2 DEF Meshing!Min
    <3>4. QED
      BY <1>2, <3>3
  <2>4. QED
    BY <2>2, <2>3
<1>4. ASSUME NEW a \in Selected
      PROVE  \E n \in 1..7 : a \in Meshing!Staged[n] /\ ProcStage(n, a) /\ \A m \in 1..7 : a \in Meshing!Staged[m] => m = n
  <2>1. PICK n \in 1..7 : a \in Meshing!Staged[n]
    BY ProcOnce DEF Meshing!ProcessBounds
  <2>2. ProcStage(n, a)
    BY <2>1 DEF ProcStages
  <2>3. \A m \in 1..7 : a \in Meshing!Staged[m] => m = n
    BY <2>1, ProcOnce
  <2>4. QED
    BY <2>1, <2>2, <2>3
<1>5. ASSUME NEW a \in Selected, stage' \in 1..7, a \in Meshing!Staged[stage']
      PROVE  /\ worker[a].step = "off"
             /\ worker'[a] = IF Meshing!Missing(a) THEN Meshing!Review ELSE [Meshing!Off EXCEPT !.step = "circuit"]
  <2>1. PICK n \in 1..7 : a \in Meshing!Staged[n] /\ ProcStage(n, a) /\ \A m \in 1..7 : a \in Meshing!Staged[m] => m = n
    BY <1>4
  <2>2. n = stage' /\ n > stage
    BY <1>3, <1>5, <2>1
  <2>3. worker[a].step = "off"
    BY <2>1, <2>2 DEF ProcStage
  <2>4. QED
    BY <1>1, <1>5, <2>3, ProcStaged
<1>6. ASSUME NEW a \in Selected, ~(stage' \in 1..7 /\ a \in Meshing!Staged[stage'])
      PROVE  worker'[a] = worker[a]
  BY <1>1, <1>6, ProcStaged
<1>7. PICK begun \in ProcWorker :
        /\ begun = [Meshing!Off EXCEPT !.step = "circuit"] /\ begun.step = "circuit"
        /\ begun.failures = 0 /\ begun.mode = "CLOSED"
  <2> DEFINE begun == [Meshing!Off EXCEPT !.step = "circuit"]
  <2>1. /\ begun \in ProcWorker /\ begun.step = "circuit"
        /\ begun.failures = 0 /\ begun.mode = "CLOSED"
    BY DEF Meshing!Off, ProcWorker, Meshing!Mode
  <2>2. QED
    BY <2>1
<1>8. worker' \in [Selected -> ProcWorker]
  <2>1. \A a \in Selected : worker'[a] \in ProcWorker
    BY <1>2, <1>5, <1>6, <1>7, ProcReview
  <2>2. worker' = [a \in Selected |-> worker'[a]]
    BY <1>1
  <2>3. QED
    BY <2>1, <2>2
<1>9. \A a \in Selected : /\ output'[a] = IF worker[a].step = "done" THEN worker[a].envelope ELSE "none"
                          /\ output[a] # "none" => output'[a] = output[a]
  BY <1>1 DEF Meshing!Collected, ProcAgents, ProcAgent
<1>10. output' \in [Selected -> Meshing!Envelope \cup {"none"}]
  BY <1>1, <1>2 DEF Meshing!Collected, ProcWorker
<1>11. ProcTypes'
  BY <1>1, <1>2, <1>3, <1>8, <1>10 DEF ProcTypes
<1>12. ASSUME NEW n \in 1..7, NEW a \in Meshing!Staged[n] \cap Selected
       PROVE  ProcStage(n, a)'
  <2>1. ProcStage(n, a)
    BY DEF ProcStages
  <2>2. CASE n = stage'
    <3>1. worker'[a].step # "off"
      BY <1>5, <1>7, <2>2, ProcReview
    <3>2. QED
      BY <2>2, <3>1 DEF ProcStage
  <2>3. CASE n > stage'
    <3>1. worker'[a] = worker[a]
      BY <1>6, <2>3, ProcOnce
    <3>2. QED
      BY <1>2, <1>3, <2>1, <2>3, <3>1 DEF ProcStage
  <2>4. CASE n < stage'
    <3>1. worker'[a] = worker[a]
      BY <1>3, <1>6, <2>4, ProcOnce
    <3>2. n <= stage
      BY <1>2, <1>3, <2>4
    <3>3. worker[a].step = "done"
      BY <1>1, <1>2, <2>1, <3>2 DEF ProcStage
    <3>4. QED
      BY <1>3, <1>9, <2>4, <3>1, <3>3 DEF ProcStage
  <2>5. QED
    BY <1>3, <2>2, <2>3, <2>4
<1>13. ASSUME NEW a \in Selected
       PROVE  ProcAgent(a)'
  <2>1. ProcAgent(a)
    BY DEF ProcAgents
  <2>2. ProcReady(a) => ProcReady(a)'
    BY <1>9 DEF ProcReady
  <2>3. CASE stage' \in 1..7 /\ a \in Meshing!Staged[stage']
    <3>1. /\ worker[a].step = "off"
          /\ worker'[a] = IF Meshing!Missing(a) THEN Meshing!Review ELSE [Meshing!Off EXCEPT !.step = "circuit"]
      BY <1>5, <2>3
    <3>2. output'[a] = "none" /\ envelopes[a] = "none" /\ a \notin asked
      BY <1>9, <2>1, <3>1 DEF ProcAgent
    <3>3. CASE Meshing!Missing(a)
      BY <1>1, <3>1, <3>2, <3>3, ProcReview DEF ProcAgent
    <3>4. CASE ~Meshing!Missing(a)
      <4>1. ProcReady(a)'
        BY <1>1, <3>4 DEF Meshing!Missing, ProcReady
      <4>2. QED
        BY <1>1, <1>7, <3>1, <3>2, <3>4, <4>1 DEF ProcAgent
    <3>5. QED
      BY <3>3, <3>4
  <2>4. CASE ~(stage' \in 1..7 /\ a \in Meshing!Staged[stage'])
    <3>1. worker'[a] = worker[a]
      BY <1>6, <2>4
    <3>2. output'[a] # "none" => worker[a].step = "done" /\ output'[a] = worker[a].envelope
      BY <1>9
    <3>3. QED
      BY <1>1, <2>1, <2>2, <3>1, <3>2 DEF ProcAgent
  <2>5. QED
    BY <2>3, <2>4
<1>14. ProcCounted' = ProcCounted
  <2>1. \A a \in failing : worker'[a] = worker[a]
    <3> SUFFICES ASSUME NEW a \in failing PROVE worker'[a] = worker[a]
      OBVIOUS
    <3>1. a \in Selected /\ worker[a].step # "off"
      BY <1>2 DEF ProcAgents, ProcAgent
    <3>2. QED
      BY <1>5, <1>6, <3>1
  <2>2. QED
    BY <1>1, <2>1 DEF ProcCounted
<1>15. ProcCircuit'
  BY <1>1, <1>14 DEF ProcCircuit, ProcFailed
<1>16. ASSUME NEW a \in Selected
       PROVE  ProcFailed(worker[a].failures, worker[a].mode)'
  <2>1. CASE worker'[a] = worker[a]
    BY <1>1, <1>14, <2>1 DEF ProcReads, ProcFailed
  <2>2. CASE worker'[a].failures = 0 /\ worker'[a].mode = "CLOSED"
    <3>1. 0 <= Cardinality(ProcCounted)
      BY ProcSizes
    <3>2. QED
      BY <1>14, <2>2, <3>1 DEF ProcFailed
  <2>3. QED
    BY <1>5, <1>6, <1>7, <2>1, <2>2, ProcReview
<1>17. QED
  BY <1>11, <1>12, <1>13, <1>15, <1>16 DEF ProcStages, ProcAgents, ProcReads

(* Failures go on record one by one, and none is dropped from it.          *)
LEMMA ProcMore ==
  ASSUME Meshing!ProcessBounds, ProcInv, failing \subseteq failing', failing' \subseteq Selected
  PROVE  /\ Cardinality(failing) <= Cardinality(failing')
         /\ Cardinality(failing) \in Nat /\ Cardinality(failing') \in Nat
         /\ ProcCounted \subseteq ProcCounted' =>
              /\ Cardinality(ProcCounted) <= Cardinality(ProcCounted')
              /\ Cardinality(ProcCounted) \in Nat /\ Cardinality(ProcCounted') \in Nat
              /\ Cardinality(ProcCounted') <= Cardinality(failing')
              /\ \A a \in ProcCounted' \ ProcCounted :
                   Cardinality(ProcCounted) + 1 <= Cardinality(ProcCounted')
<1>1. IsFiniteSet(failing')
  BY FS_Subset, ProcFinite
<1>2. ProcCounted' \subseteq failing'
  BY DEF ProcCounted
<1>3. IsFiniteSet(ProcCounted')
  BY <1>1, <1>2, FS_Subset
<1>4. ASSUME NEW a \in ProcCounted' \ ProcCounted, ProcCounted \subseteq ProcCounted'
      PROVE  Cardinality(ProcCounted) + 1 <= Cardinality(ProcCounted')
  <2>1. ProcCounted \subseteq ProcCounted' \ {a}
    BY <1>4
  <2>2. QED
    BY <1>3, <2>1, CountRemove, ProcCount
<1>5. QED
  BY <1>1, <1>2, <1>3, <1>4, CountSubset, ProcCount

(* The other agents, when one of them moves.                               *)
LEMMA ProcMoves ==
  ASSUME ProcInv, NEW a \in Selected, NEW x \in ProcWorker, worker' = [worker EXCEPT ![a] = x]
  PROVE  /\ worker' \in [Selected -> ProcWorker] /\ worker'[a] = x
         /\ \A b \in Selected \ {a} : worker'[b] = worker[b]
BY DEF ProcInv, ProcTypes

(* An agent moves whose failures, if any, go on record when it is done, on *)
(* a circuit that stays, opens for a probe, or closes.                     *)
LEMMA ProcMove ==
  ASSUME Meshing!ProcessBounds, ProcInv, NEW a \in Selected, NEW x \in ProcWorker,
         worker[a].step \notin {"off", "done"}, x.step # "off", UNCHANGED <<stage, output>>,
         worker' = [worker EXCEPT ![a] = x],
         \/ (x.failures = worker[a].failures /\ x.mode = worker[a].mode)
         \/ (x.failures = 0 /\ x.mode = "CLOSED")
         \/ (x.failures = aiCircuit.failures /\ x.mode = aiCircuit.mode),
         UNCHANGED <<asked, envelopes, failing>>, faults' \in 0..FewFaults, faults' >= faults,
         x.step \in {"read", "count"} => worker[a].step \in {"read", "count"},
         aiCircuit' \in [mode : Meshing!Mode, failures : Nat, waited : BOOLEAN],
         aiCircuit'.waited => aiCircuit'.mode # "CLOSED",
         aiCircuit'.failures \in {0, aiCircuit.failures},
         aiCircuit'.mode # "CLOSED" => aiCircuit.mode # "CLOSED",
         ProcAgent(a)'
  PROVE  ProcInv'
<1>1. /\ worker' \in [Selected -> ProcWorker] /\ worker'[a] = x
      /\ \A b \in Selected \ {a} : worker'[b] = worker[b]
  BY ProcMoves
<1>2. /\ ProcCircuit /\ ProcFailed(worker[a].failures, worker[a].mode) /\ asked \subseteq Selected
      /\ failing \subseteq asked /\ envelopes \in [Selected -> Meshing!Envelope \cup {"none"}]
      /\ worker[a] \in ProcWorker /\ aiCircuit \in [mode : Meshing!Mode, failures : Nat, waited : BOOLEAN]
  BY ProcIs
<1>3. ProcCounted \subseteq ProcCounted'
  BY <1>1, <1>2 DEF ProcCounted
<1>4. /\ Cardinality(ProcCounted) <= Cardinality(ProcCounted')
      /\ Cardinality(ProcCounted) \in Nat /\ Cardinality(ProcCounted') \in Nat
  BY <1>2, <1>3, ProcMore
<1>5. aiCircuit'.failures <= Cardinality(ProcCounted')
  BY <1>2, <1>4 DEF ProcCircuit, ProcFailed
<1>6. ProcCircuit'
  BY <1>2, <1>5 DEF ProcCircuit, ProcFailed
<1>7. ProcFailed(worker[a].failures, worker[a].mode)'
  <2>1. x.failures <= Cardinality(ProcCounted')
    BY <1>2, <1>4 DEF ProcCircuit, ProcFailed, ProcWorker
  <2>2. x.mode # "CLOSED" => Cardinality(failing') >= Threshold
    BY <1>2 DEF ProcCircuit, ProcFailed
  <2>3. QED
    BY <1>1, <2>1, <2>2 DEF ProcFailed
<1>8. worker'[a].step # "off"
  BY <1>1
<1>9. /\ envelopes' \in [Selected -> Meshing!Envelope \cup {"none"}] /\ asked \subseteq asked'
      /\ asked' \subseteq Selected /\ failing \subseteq failing' /\ failing' \subseteq asked'
  BY <1>2
<1>10. QED
  BY <1>1, <1>3, <1>6, <1>7, <1>8, <1>9, ProcPut

(* Before the call the circuit is asked.                                   *)
LEMMA ProcBeforeCall ==
  ASSUME Meshing!ProcessBounds, ProcInv, NEW a \in Selected, Meshing!BeforeCall(a)
  PROVE  ProcInv'
<1>1. /\ worker[a].step = "circuit" /\ UNCHANGED <<stage, output, asked, envelopes, failing, faults>>
      /\ \/ Meshing!Goto(a, "ask") /\ UNCHANGED aiCircuit
         \/ aiCircuit.mode # "CLOSED" /\ Meshing!Goto(a, "ask")
            /\ aiCircuit' = [aiCircuit EXCEPT !.mode = "HALF_OPEN", !.waited = FALSE]
         \/ Meshing!Failsafe(a) /\ UNCHANGED aiCircuit
  BY DEF Meshing!BeforeCall, Meshing!At, Meshing!Fine, Meshing!AgentOnly
<1>2. /\ worker \in [Selected -> ProcWorker] /\ worker[a] \in ProcWorker /\ ProcAgent(a)
      /\ ProcCircuit /\ faults \in 0..FewFaults
      /\ aiCircuit \in [mode : Meshing!Mode, failures : Nat, waited : BOOLEAN]
  BY ProcIs
<1>3. faults' \in 0..FewFaults /\ faults' >= faults
  BY <1>1, <1>2 DEF Meshing!ProcessBounds
<1>4. /\ aiCircuit' \in [mode : Meshing!Mode, failures : Nat, waited : BOOLEAN]
      /\ aiCircuit'.waited => aiCircuit'.mode # "CLOSED"
      /\ aiCircuit'.failures \in {0, aiCircuit.failures}
      /\ aiCircuit'.mode # "CLOSED" => aiCircuit.mode # "CLOSED"
  BY <1>1, <1>2 DEF ProcCircuit, Meshing!Mode
<1>5. ProcReady(a)' <=> ProcReady(a)
  BY <1>1 DEF ProcReady
<1>6. CASE Meshing!Goto(a, "ask")
  <2>1. PICK x \in ProcWorker : x = [worker[a] EXCEPT !.step = "ask"]
    <3> DEFINE x == [worker[a] EXCEPT !.step = "ask"]
    <3>1. x \in ProcWorker
      BY <1>2 DEF ProcWorker
    <3>2. QED
      BY <3>1
  <2>2. /\ x.step = "ask" /\ x.envelope = worker[a].envelope
        /\ x.failures = worker[a].failures /\ x.mode = worker[a].mode
    BY <1>2, <2>1 DEF ProcWorker
  <2>3. worker' = [worker EXCEPT ![a] = x] /\ worker'[a] = x
    BY <1>2, <1>6, <2>1 DEF Meshing!Goto
  <2>4. ProcAgent(a)'
    BY <1>1, <1>2, <1>5, <2>2, <2>3 DEF ProcAgent
  <2>5. /\ worker[a].step \notin {"off", "done"} /\ x.step # "off"
        /\ x.step \in {"read", "count"} => worker[a].step \in {"read", "count"}
        /\ UNCHANGED <<stage, output>> /\ UNCHANGED <<asked, envelopes, failing>>
    BY <1>1, <2>2
  <2>6. QED
    BY <1>3, <1>4, <2>2, <2>3, <2>4, <2>5, ProcMove
<1>7. CASE Meshing!Failsafe(a)
  <2>1. PICK x \in ProcWorker : x = Meshing!Review
    BY ProcReview
  <2>2. worker' = [worker EXCEPT ![a] = x] /\ worker'[a] = x
    BY <1>2, <1>7, <2>1 DEF Meshing!Failsafe
  <2>3. ProcAgent(a)'
    BY <1>1, <1>2, <1>5, <2>1, <2>2, ProcReview DEF ProcAgent
  <2>4. /\ worker[a].step \notin {"off", "done"} /\ x.step # "off"
        /\ x.step \in {"read", "count"} => worker[a].step \in {"read", "count"}
        /\ UNCHANGED <<stage, output>> /\ UNCHANGED <<asked, envelopes, failing>>
        /\ x.failures = 0 /\ x.mode = "CLOSED"
    BY <1>1, <2>1, ProcReview
  <2>5. QED
    BY <1>3, <1>4, <2>2, <2>3, <2>4, ProcMove
<1>8. QED
  BY <1>1, <1>6, <1>7

(* The model is asked, once.                                               *)
LEMMA ProcAsk ==
  ASSUME Meshing!ProcessBounds, ProcInv, NEW a \in Selected, Meshing!Ask(a)
  PROVE  ProcInv'
<1>1. /\ worker[a].step = "ask" /\ UNCHANGED <<stage, output, aiCircuit, faults>>
      /\ asked' = asked \cup {a}
  BY DEF Meshing!Ask, Meshing!At, Meshing!Fine, Meshing!AgentOnly
<1>2. /\ worker \in [Selected -> ProcWorker] /\ worker[a] \in ProcWorker /\ ProcAgent(a)
      /\ ProcCircuit /\ faults \in 0..FewFaults /\ asked \subseteq Selected
      /\ failing \subseteq asked /\ envelopes \in [Selected -> Meshing!Envelope \cup {"none"}]
      /\ aiCircuit \in [mode : Meshing!Mode, failures : Nat, waited : BOOLEAN]
      /\ ProcFailed(worker[a].failures, worker[a].mode)
  BY ProcIs
<1>3. a \notin asked /\ a \notin failing /\ envelopes[a] = "none" /\ ProcReady(a) /\ output[a] = "none"
  BY <1>1, <1>2 DEF ProcAgent
<1>4. faults' \in 0..FewFaults /\ faults' >= faults /\ ProcReady(a)'
  BY <1>1, <1>2, <1>3 DEF Meshing!ProcessBounds, ProcReady
<1>5. ASSUME NEW x \in ProcWorker, worker' = [worker EXCEPT ![a] = x], x.step \in {"close", "read"},
             x.failures = worker[a].failures, x.mode = worker[a].mode,
             envelopes' \in [Selected -> Meshing!Envelope \cup {"none"}],
             \A b \in Selected \ {a} : envelopes'[b] = envelopes[b],
             failing' = failing \/ (failing' = failing \cup {a} /\ x.step = "read"),
             ProcAgent(a)'
      PROVE  ProcInv'
  <2>1. /\ worker' \in [Selected -> ProcWorker] /\ worker'[a] = x
        /\ \A b \in Selected \ {a} : worker'[b] = worker[b]
    BY <1>5, ProcMoves
  <2>2. ProcCounted' = ProcCounted
    BY <1>2, <1>3, <1>5, <2>1 DEF ProcCounted
  <2>3. failing \subseteq failing' /\ failing' \subseteq Selected /\ failing' \subseteq asked'
    BY <1>1, <1>2, <1>5
  <2>4. /\ Cardinality(failing) <= Cardinality(failing')
        /\ Cardinality(failing) \in Nat /\ Cardinality(failing') \in Nat
    BY <2>3, ProcMore
  <2>5. ProcCircuit'
    BY <1>1, <1>2, <2>2, <2>4 DEF ProcCircuit, ProcFailed, Meshing!ProcessBounds
  <2>6. ProcFailed(worker[a].failures, worker[a].mode)'
    BY <1>2, <1>5, <2>1, <2>2, <2>4 DEF ProcFailed, Meshing!ProcessBounds
  <2>7. \A b \in Selected \ {a} : (b \in asked' <=> b \in asked) /\ (b \in failing' <=> b \in failing)
    BY <1>1, <1>5
  <2>8. QED
    BY <1>1, <1>2, <1>4, <1>5, <2>1, <2>2, <2>3, <2>5, <2>6, <2>7, ProcPut
<1>6. ASSUME NEW e \in Meshing!Envelope \cup {"none"},
             worker' = [worker EXCEPT ![a].step = "close", ![a].envelope = e],
             envelopes' = [envelopes EXCEPT ![a] = e], UNCHANGED failing
      PROVE  ProcInv'
  <2>1. PICK x \in ProcWorker : x = [worker[a] EXCEPT !.step = "close", !.envelope = e]
    <3> DEFINE x == [worker[a] EXCEPT !.step = "close", !.envelope = e]
    <3>1. x \in ProcWorker
      BY <1>2 DEF ProcWorker
    <3>2. QED
      BY <3>1
  <2>2. /\ x.step = "close" /\ x.envelope = e
        /\ x.failures = worker[a].failures /\ x.mode = worker[a].mode
    BY <1>2, <2>1 DEF ProcWorker
  <2>3. worker' = [worker EXCEPT ![a] = x] /\ worker'[a] = x
    BY <1>2, <1>6, <2>1
  <2>4. ProcAgent(a)'
    BY <1>1, <1>2, <1>3, <1>4, <1>6, <2>2, <2>3 DEF ProcAgent
  <2>5. envelopes' \in [Selected -> Meshing!Envelope \cup {"none"}] /\ \A b \in Selected \ {a} : envelopes'[b] = envelopes[b]
    BY <1>2, <1>6
  <2>6. QED
    BY <1>5, <1>6, <2>2, <2>3, <2>4, <2>5
<1>7. CASE Meshing!Goto(a, "read") /\ failing' = failing \cup {a} /\ UNCHANGED envelopes
  <2>1. PICK x \in ProcWorker : x = [worker[a] EXCEPT !.step = "read"]
    <3> DEFINE x == [worker[a] EXCEPT !.step = "read"]
    <3>1. x \in ProcWorker
      BY <1>2 DEF ProcWorker
    <3>2. QED
      BY <3>1
  <2>2. /\ x.step = "read" /\ x.envelope = worker[a].envelope
        /\ x.failures = worker[a].failures /\ x.mode = worker[a].mode
    BY <1>2, <2>1 DEF ProcWorker
  <2>3. worker' = [worker EXCEPT ![a] = x] /\ worker'[a] = x
    BY <1>2, <1>7, <2>1 DEF Meshing!Goto
  <2>4. ProcAgent(a)'
    BY <1>1, <1>2, <1>3, <1>4, <1>7, <2>2, <2>3 DEF ProcAgent
  <2>5. QED
    BY <1>2, <1>5, <1>7, <2>2, <2>3, <2>4
<1>8. QED
  BY <1>6, <1>7 DEF Meshing!Ask

(* The answer closes the circuit, and what failed is read from it.         *)
LEMMA ProcRecords ==
  ASSUME Meshing!ProcessBounds, ProcInv, NEW a \in Selected,
         Meshing!RecordSuccess(a) \/ Meshing!ReadFailures(a) \/ Meshing!Complete(a)
  PROVE  ProcInv'
<1>1. UNCHANGED <<stage, output>> /\ UNCHANGED <<asked, envelopes, failing>> /\ UNCHANGED faults
  BY DEF Meshing!RecordSuccess, Meshing!ReadFailures, Meshing!Complete, Meshing!Fine,
     Meshing!AgentOnly
<1>2. /\ worker \in [Selected -> ProcWorker] /\ worker[a] \in ProcWorker /\ ProcAgent(a)
      /\ ProcCircuit /\ faults \in 0..FewFaults
      /\ aiCircuit \in [mode : Meshing!Mode, failures : Nat, waited : BOOLEAN]
  BY ProcIs
<1>3. /\ faults' \in 0..FewFaults /\ faults' >= faults
      /\ ProcReady(a)' <=> ProcReady(a)
  BY <1>1, <1>2 DEF Meshing!ProcessBounds, ProcReady
<1>4. CASE Meshing!RecordSuccess(a)
  <2>1. /\ worker[a].step = "close" /\ aiCircuit' = Meshing!Closed
        /\ IF worker[a].envelope = "none" THEN Meshing!Failsafe(a) ELSE Meshing!Goto(a, "write")
    BY <1>4 DEF Meshing!RecordSuccess, Meshing!At
  <2>2. /\ aiCircuit' \in [mode : Meshing!Mode, failures : Nat, waited : BOOLEAN]
        /\ aiCircuit'.waited => aiCircuit'.mode # "CLOSED"
        /\ aiCircuit'.failures \in {0, aiCircuit.failures}
        /\ aiCircuit'.mode # "CLOSED" => aiCircuit.mode # "CLOSED"
    BY <2>1 DEF Meshing!Closed, Meshing!Mode
  <2>3. CASE worker[a].envelope = "none"
    <3>1. PICK x \in ProcWorker : x = Meshing!Review
      BY ProcReview
    <3>2. worker' = [worker EXCEPT ![a] = x] /\ worker'[a] = x
      BY <1>2, <2>1, <2>3, <3>1 DEF Meshing!Failsafe
    <3>3. ProcAgent(a)'
      BY <1>1, <1>2, <1>3, <2>1, <2>3, <3>1, <3>2, ProcReview DEF ProcAgent
    <3>4. /\ worker[a].step \notin {"off", "done"} /\ x.step # "off"
          /\ x.step \in {"read", "count"} => worker[a].step \in {"read", "count"}
          /\ x.failures = 0 /\ x.mode = "CLOSED"
      BY <2>1, <3>1, ProcReview
    <3>5. QED
      BY <1>1, <1>3, <2>2, <3>2, <3>3, <3>4, ProcMove
  <2>4. CASE worker[a].envelope # "none"
    <3>1. PICK x \in ProcWorker : x = [worker[a] EXCEPT !.step = "write"]
      <4> DEFINE x == [worker[a] EXCEPT !.step = "write"]
      <4>1. x \in ProcWorker
        BY <1>2 DEF ProcWorker
      <4>2. QED
        BY <4>1
    <3>2. /\ x.step = "write" /\ x.envelope = worker[a].envelope
          /\ x.failures = worker[a].failures /\ x.mode = worker[a].mode
      BY <1>2, <3>1 DEF ProcWorker
    <3>3. worker' = [worker EXCEPT ![a] = x] /\ worker'[a] = x
      BY <1>2, <2>1, <2>4, <3>1 DEF Meshing!Goto
    <3>4. ProcAgent(a)'
      BY <1>1, <1>2, <1>3, <2>1, <2>4, <3>2, <3>3 DEF ProcAgent
    <3>5. /\ worker[a].step \notin {"off", "done"} /\ x.step # "off"
          /\ x.step \in {"read", "count"} => worker[a].step \in {"read", "count"}
      BY <2>1, <3>2
    <3>6. QED
      BY <1>1, <1>3, <2>2, <3>2, <3>3, <3>4, <3>5, ProcMove
  <2>5. QED
    BY <2>3, <2>4
<1>5. CASE Meshing!ReadFailures(a) \/ Meshing!Complete(a)
  <2>1. UNCHANGED aiCircuit
    BY <1>5 DEF Meshing!ReadFailures, Meshing!Complete
  <2>2. /\ aiCircuit' \in [mode : Meshing!Mode, failures : Nat, waited : BOOLEAN]
        /\ aiCircuit'.waited => aiCircuit'.mode # "CLOSED"
        /\ aiCircuit'.failures \in {0, aiCircuit.failures}
        /\ aiCircuit'.mode # "CLOSED" => aiCircuit.mode # "CLOSED"
    BY <1>2, <2>1 DEF ProcCircuit
  <2>3. CASE Meshing!ReadFailures(a)
    <3>1. PICK n \in Nat, m \in Meshing!Mode : n = aiCircuit.failures /\ m = aiCircuit.mode
      BY <1>2
    <3>2. PICK x \in ProcWorker : x = [worker[a] EXCEPT !.step = "count", !.failures = n, !.mode = m]
      <4> DEFINE x == [worker[a] EXCEPT !.step = "count", !.failures = n, !.mode = m]
      <4>1. x \in ProcWorker
        BY <1>2 DEF ProcWorker
      <4>2. QED
        BY <4>1
    <3>3. /\ x.step = "count" /\ x.envelope = worker[a].envelope
          /\ x.failures = aiCircuit.failures /\ x.mode = aiCircuit.mode
      BY <1>2, <3>1, <3>2 DEF ProcWorker
    <3>4. worker[a].step = "read" /\ worker' = [worker EXCEPT ![a] = x] /\ worker'[a] = x
      BY <1>2, <2>3, <3>1, <3>2 DEF Meshing!ReadFailures, Meshing!At
    <3>5. ProcAgent(a)'
      BY <1>1, <1>2, <1>3, <3>3, <3>4 DEF ProcAgent
    <3>6. /\ worker[a].step \notin {"off", "done"} /\ x.step # "off"
          /\ x.step \in {"read", "count"} => worker[a].step \in {"read", "count"}
      BY <3>4, <3>3
    <3>7. QED
      BY <1>1, <1>3, <2>2, <3>3, <3>4, <3>5, <3>6, ProcMove
  <2>4. CASE Meshing!Complete(a)
    <3>1. PICK x \in ProcWorker : x = [worker[a] EXCEPT !.step = "done"]
      <4> DEFINE x == [worker[a] EXCEPT !.step = "done"]
      <4>1. x \in ProcWorker
        BY <1>2 DEF ProcWorker
      <4>2. QED
        BY <4>1
    <3>2. /\ x.step = "done" /\ x.envelope = worker[a].envelope
          /\ x.failures = worker[a].failures /\ x.mode = worker[a].mode
      BY <1>2, <3>1 DEF ProcWorker
    <3>3. worker[a].step = "write" /\ worker' = [worker EXCEPT ![a] = x] /\ worker'[a] = x
      BY <1>2, <2>4, <3>1 DEF Meshing!Complete, Meshing!Goto, Meshing!At
    <3>4. output[a] = "none"
      BY <1>2, <3>3 DEF ProcAgent
    <3>5. ProcAgent(a)'
      BY <1>1, <1>2, <1>3, <3>2, <3>3, <3>4 DEF ProcAgent
    <3>6. /\ worker[a].step \notin {"off", "done"} /\ x.step # "off"
          /\ x.step \in {"read", "count"} => worker[a].step \in {"read", "count"}
      BY <3>2, <3>3
    <3>7. QED
      BY <1>1, <1>3, <2>2, <3>2, <3>3, <3>5, <3>6, ProcMove
  <2>5. QED
    BY <1>5, <2>3, <2>4
<1>6. QED
  BY <1>4, <1>5

(* A failure goes on record: the one more that the agent makes of what it  *)
(* read is no more than there are.                                         *)
LEMMA ProcRecordFailure ==
  ASSUME Meshing!ProcessBounds, ProcInv, NEW a \in Selected, Meshing!RecordFailure(a)
  PROVE  ProcInv'
<1> DEFINE counted == worker[a].failures + 1
           opens == worker[a].mode = "HALF_OPEN" \/ counted >= Threshold
<1>1. /\ worker[a].step = "count" /\ Meshing!Failsafe(a)
      /\ UNCHANGED <<stage, output>> /\ UNCHANGED <<asked, envelopes, failing>> /\ UNCHANGED faults
      /\ aiCircuit' = [mode |-> IF opens THEN "OPEN" ELSE "CLOSED", failures |-> counted, waited |-> FALSE]
  BY DEF Meshing!RecordFailure, Meshing!At, Meshing!Fine, Meshing!AgentOnly
<1>2. /\ worker \in [Selected -> ProcWorker] /\ worker[a] \in ProcWorker /\ ProcAgent(a)
      /\ faults \in 0..FewFaults /\ asked \subseteq Selected /\ failing \subseteq asked
      /\ envelopes \in [Selected -> Meshing!Envelope \cup {"none"}]
      /\ ProcFailed(worker[a].failures, worker[a].mode)
  BY ProcIs
<1>3. /\ faults' \in 0..FewFaults /\ faults' >= faults
      /\ ProcReady(a)' <=> ProcReady(a)
  BY <1>1, <1>2 DEF Meshing!ProcessBounds, ProcReady
<1>4. PICK x \in ProcWorker : x = Meshing!Review
  BY ProcReview
<1>5. /\ worker' \in [Selected -> ProcWorker] /\ worker'[a] = x
      /\ \A b \in Selected \ {a} : worker'[b] = worker[b]
  BY <1>1, <1>4, ProcMoves DEF Meshing!Failsafe
<1>6. a \in failing /\ (faults > 0 \/ envelopes[a] = "none")
  BY <1>1, <1>2 DEF ProcAgent
<1>7. ProcAgent(a)'
  BY <1>1, <1>2, <1>3, <1>4, <1>5, <1>6, ProcReview DEF ProcAgent
<1>8. ProcCounted \subseteq ProcCounted' /\ a \in ProcCounted' \ ProcCounted
  <2>1. a \in failing' /\ x.step = "done" /\ \A b \in failing : b \in failing' /\ b \in Selected
    BY <1>1, <1>2, <1>4, <1>6, ProcReview
  <2>2. \A b \in ProcCounted : b \in ProcCounted'
    BY <1>1, <1>5, <2>1 DEF ProcCounted
  <2>3. QED
    BY <1>1, <1>5, <2>1, <2>2 DEF ProcCounted
<1>9. /\ Cardinality(ProcCounted) + 1 <= Cardinality(ProcCounted')
      /\ Cardinality(ProcCounted) \in Nat /\ Cardinality(ProcCounted') \in Nat
      /\ Cardinality(failing) = Cardinality(failing')
      /\ Cardinality(ProcCounted') <= Cardinality(failing') /\ Cardinality(failing') \in Nat
  BY <1>1, <1>2, <1>8, ProcMore
<1>10. counted \in Nat /\ counted <= Cardinality(ProcCounted')
  BY <1>2, <1>9 DEF ProcFailed, ProcWorker
<1>11. opens => Cardinality(failing') >= Threshold
  BY <1>2, <1>9, <1>10 DEF ProcFailed, Meshing!ProcessBounds
<1> HIDE DEF counted, opens
<1>12. /\ aiCircuit' \in [mode : Meshing!Mode, failures : Nat, waited : BOOLEAN]
       /\ aiCircuit'.failures = counted /\ ~aiCircuit'.waited
       /\ aiCircuit'.mode # "CLOSED" => opens
  BY <1>1, <1>10 DEF Meshing!Mode
<1>13. ProcCircuit'
  BY <1>10, <1>11, <1>12 DEF ProcCircuit, ProcFailed
<1>14. ProcFailed(worker[a].failures, worker[a].mode)'
  BY <1>4, <1>5, <1>9, ProcReview DEF ProcFailed
<1>15. worker[a].step \notin {"off", "done"} /\ worker'[a].step # "off"
  BY <1>1, <1>4, <1>5, ProcReview
<1>16. QED
  BY <1>1, <1>2, <1>3, <1>5, <1>7, <1>8, <1>12, <1>13, <1>14, <1>15, ProcPut

(* The store raises.                                                       *)
LEMMA ProcStoreRaises ==
  ASSUME Meshing!ProcessBounds, ProcInv, NEW a \in Selected, Meshing!StoreRaises(a)
  PROVE  ProcInv'
<1>1. /\ worker[a].step \in {"circuit", "close", "read", "count", "write"} /\ Meshing!Fault
      /\ UNCHANGED <<stage, output>> /\ UNCHANGED <<asked, envelopes>> /\ UNCHANGED aiCircuit
      /\ \/ /\ worker[a].step = "close" /\ failing' = failing \cup {a}
            /\ worker' = [worker EXCEPT ![a] = [Meshing!Off EXCEPT !.step = "read"]]
         \/ worker[a].step # "close" /\ Meshing!Failsafe(a) /\ UNCHANGED failing
  BY DEF Meshing!StoreRaises, Meshing!At, Meshing!AgentOnly
<1>2. /\ worker \in [Selected -> ProcWorker] /\ worker[a] \in ProcWorker /\ ProcAgent(a)
      /\ ProcCircuit /\ faults \in 0..FewFaults /\ asked \subseteq Selected
      /\ failing \subseteq asked /\ envelopes \in [Selected -> Meshing!Envelope \cup {"none"}]
      /\ aiCircuit \in [mode : Meshing!Mode, failures : Nat, waited : BOOLEAN]
  BY ProcIs
<1>3. /\ faults' \in 0..FewFaults /\ faults' >= faults /\ faults' > 0
      /\ ProcReady(a)' <=> ProcReady(a)
  <2>1. ProcReady(a)' <=> ProcReady(a)
    BY <1>1 DEF ProcReady
  <2>2. faults' \in 0..FewFaults /\ faults' >= faults /\ faults' > 0
    BY <1>1, <1>2, CountUp DEF Meshing!Fault, Meshing!ProcessBounds
  <2>3. QED
    BY <2>1, <2>2
<1>4. output[a] = "none" /\ ProcReady(a)
  BY <1>1, <1>2 DEF ProcAgent
<1>5. CASE worker[a].step # "close" /\ Meshing!Failsafe(a) /\ UNCHANGED failing
  <2>1. PICK x \in ProcWorker : x = Meshing!Review
    BY ProcReview
  <2>2. worker' = [worker EXCEPT ![a] = x] /\ worker'[a] = x
    BY <1>2, <1>5, <2>1 DEF Meshing!Failsafe
  <2>3. ProcAgent(a)'
    BY <1>1, <1>2, <1>3, <1>4, <2>1, <2>2, ProcReview DEF ProcAgent
  <2>4. /\ worker[a].step \notin {"off", "done"} /\ x.step # "off"
        /\ x.step \in {"read", "count"} => worker[a].step \in {"read", "count"}
        /\ x.failures = 0 /\ x.mode = "CLOSED" /\ UNCHANGED <<asked, envelopes, failing>>
    BY <1>1, <1>5, <2>1, ProcReview
  <2>5. /\ aiCircuit' \in [mode : Meshing!Mode, failures : Nat, waited : BOOLEAN]
        /\ aiCircuit'.waited => aiCircuit'.mode # "CLOSED"
        /\ aiCircuit'.failures \in {0, aiCircuit.failures}
        /\ aiCircuit'.mode # "CLOSED" => aiCircuit.mode # "CLOSED"
    BY <1>1, <1>2 DEF ProcCircuit
  <2>6. QED
    BY <1>1, <1>3, <2>2, <2>3, <2>4, <2>5, ProcMove
<1>6. CASE /\ worker[a].step = "close" /\ failing' = failing \cup {a}
           /\ worker' = [worker EXCEPT ![a] = [Meshing!Off EXCEPT !.step = "read"]]
  <2>1. PICK x \in ProcWorker : /\ x = [Meshing!Off EXCEPT !.step = "read"] /\ x.step = "read"
                                /\ x.failures = 0 /\ x.mode = "CLOSED"
    <3> DEFINE x == [Meshing!Off EXCEPT !.step = "read"]
    <3>1. x \in ProcWorker /\ x.step = "read" /\ x.failures = 0 /\ x.mode = "CLOSED"
      BY DEF Meshing!Off, ProcWorker, Meshing!Mode
    <3>2. QED
      BY <3>1
  <2>2. /\ worker' \in [Selected -> ProcWorker] /\ worker'[a] = x
        /\ \A b \in Selected \ {a} : worker'[b] = worker[b]
    BY <1>6, <2>1, ProcMoves
  <2>3. a \notin failing /\ a \in asked
    BY <1>2, <1>6 DEF ProcAgent
  <2>4. ProcCounted' = ProcCounted
    BY <1>6, <2>1, <2>2, <2>3 DEF ProcCounted
  <2>5. ProcAgent(a)'
    BY <1>1, <1>3, <1>4, <1>6, <2>1, <2>2 DEF ProcAgent
  <2>6. failing \subseteq failing' /\ failing' \subseteq Selected /\ failing' \subseteq asked'
    BY <1>1, <1>2, <1>6, <2>3
  <2>7. /\ Cardinality(failing) <= Cardinality(failing')
        /\ Cardinality(failing) \in Nat /\ Cardinality(failing') \in Nat
    BY <2>6, ProcMore
  <2>8. ProcCircuit'
    BY <1>1, <1>2, <2>4, <2>7 DEF ProcCircuit, ProcFailed, Meshing!ProcessBounds
  <2>9. ProcFailed(worker[a].failures, worker[a].mode)'
    <3>1. 0 <= Cardinality(ProcCounted)
      BY ProcSizes DEF ProcInv
    <3>2. QED
      BY <2>1, <2>2, <2>4, <3>1 DEF ProcFailed
  <2>10. \A b \in Selected \ {a} : (b \in asked' <=> b \in asked) /\ (b \in failing' <=> b \in failing)
    BY <1>1, <1>6
  <2>11. worker[a].step \notin {"off", "done"} /\ worker'[a].step # "off"
    BY <1>6, <2>1, <2>2
  <2>12. QED
    BY <1>1, <1>2, <1>3, <2>2, <2>4, <2>5, <2>6, <2>8, <2>9, <2>10, <2>11, ProcPut
<1>7. QED
  BY <1>1, <1>5, <1>6

(* The circuit's time passes.                                              *)
LEMMA ProcElapse ==
  ASSUME ProcInv, Meshing!Elapse
  PROVE  ProcInv'
<1>1. /\ aiCircuit.mode # "CLOSED" /\ aiCircuit' = [aiCircuit EXCEPT !.waited = TRUE]
      /\ UNCHANGED <<stage, worker, output, asked, envelopes, failing, faults>>
  BY DEF Meshing!Elapse, Meshing!Fine
<1>2. /\ aiCircuit \in [mode : Meshing!Mode, failures : Nat, waited : BOOLEAN] /\ ProcCircuit
  BY DEF ProcInv, ProcTypes
<1>3. /\ aiCircuit' \in [mode : Meshing!Mode, failures : Nat, waited : BOOLEAN]
      /\ aiCircuit'.mode = aiCircuit.mode /\ aiCircuit'.failures = aiCircuit.failures
  BY <1>1, <1>2
<1>4. ProcCounted' = ProcCounted
  BY <1>1 DEF ProcCounted
<1>5. ProcCircuit'
  BY <1>1, <1>2, <1>3, <1>4 DEF ProcCircuit, ProcFailed
<1>6. ProcTypes'
  BY <1>1, <1>3 DEF ProcInv, ProcTypes
<1>7. ProcStages' /\ ProcAgents'
  BY <1>1 DEF ProcInv, ProcStages, ProcStage, ProcAgents, ProcAgent, ProcReady
<1>8. ProcReads'
  BY <1>1, <1>4 DEF ProcInv, ProcReads, ProcFailed
<1>9. QED
  BY <1>5, <1>6, <1>7, <1>8 DEF ProcInv

(* Every step keeps it.                                                    *)
LEMMA ProcStep == Meshing!ProcessBounds /\ ProcInv /\ Meshing!Next => ProcInv'
<1> SUFFICES ASSUME Meshing!ProcessBounds, ProcInv, Meshing!Next PROVE ProcInv'
  OBVIOUS
<1>1. ASSUME NEW a \in Selected,
             \/ Meshing!BeforeCall(a) \/ Meshing!Ask(a) \/ Meshing!RecordSuccess(a) \/ Meshing!ReadFailures(a) \/ Meshing!RecordFailure(a)
             \/ Meshing!Complete(a) \/ Meshing!StoreRaises(a)
      PROVE  ProcInv'
  BY <1>1, ProcBeforeCall, ProcAsk, ProcRecords, ProcRecordFailure, ProcStoreRaises
<1>2. CASE Meshing!NextStage
  BY <1>2, ProcNextStage
<1>3. CASE Meshing!Elapse
  BY <1>3, ProcElapse
<1>4. QED
  BY <1>1, <1>2, <1>3 DEF Meshing!Next

(* The circuit is open only after as many failures as it takes, an agent   *)
(* asks the model once and with an output of everything it depends on, and *)
(* at the end every agent has an envelope: the model's own, unless its     *)
(* call failed or the store did.                                           *)
THEOREM ProcessKeeps ==
  ASSUME Meshing!ProcessBounds
  PROVE  Meshing!Init /\ [][Meshing!Next]_<<Meshing!process, faults>> =>
           [](Meshing!TypeOK /\ Meshing!EffectsOnce /\ Meshing!NothingLost)
<1>1. Meshing!Init => ProcInv
  BY ProcInit
<1>2. ProcInv /\ [Meshing!Next]_<<Meshing!process, faults>> => ProcInv'
  BY ProcStep, ProcRests
<1>3. ProcInv => Meshing!TypeOK /\ Meshing!EffectsOnce /\ Meshing!NothingLost
  BY ProcSays
<1>4. QED
  BY <1>1, <1>2, <1>3, PTL

-----------------------------------------------------------------------------
(* The newsletter.                                                         *)

(* What the tables hold.                                                   *)
NewsSigner == [on : SUBSET News!Person, active : BOOLEAN]
NewsPublisher == [step : {"off", "list", "send", "mark"}, audience : SUBSET News!Person,
                  next : 1..(People + 1), failed : BOOLEAN, text : Text]
NewsMail == [to : News!Person, text : Text] \cup {News!NoMail}

NewsTypes ==
  /\ subscriber \in [News!Person -> [status : {"none", "pending", "active", "unsubscribed"}, token : BOOLEAN]]
  /\ signup \in [Signup -> NewsSigner]
  /\ confirmed \subseteq News!Person /\ left \subseteq News!Person /\ raced \subseteq News!Person
NewsDelivery ==
  /\ issue \in [status : {"draft", "ready", "published"}, text : Text]
  /\ publisher \in [Publisher -> NewsPublisher]
  /\ resend \in [News!Batch -> NewsMail] /\ inbox \in [News!Person -> 0..2]
  /\ listings \subseteq SUBSET News!Person /\ reached \subseteq News!Person /\ dropped \in BOOLEAN
NewsCounts == requests \in 0..MaxRequests /\ faults \in 0..MaxFaults

(* What a request to subscribe read is so, unless the document changed     *)
(* since.                                                                  *)
NewsPerson(p) ==
  p \notin raced =>
    /\ p \in News!Active <=> p \in confirmed
    /\ p \in left => subscriber[p].status = "unsubscribed"
    /\ \A s \in Signup : p \in signup[s].on => p \notin left /\ (signup[s].active <=> p \in News!Active)

(* A publisher that sends has its place in an audience, and has reached    *)
(* all before it unless a batch failed.                                    *)
NewsPlace(q) ==
  LET now == publisher[q] IN
  /\ now.step \in {"off", "list"} => now.next = 1 /\ ~now.failed
  /\ now.step \in {"send", "mark"} => now.audience \in listings /\ now.next <= Cardinality(now.audience)
  /\ now.step = "send" /\ ~now.failed =>
       \A b \in News!Batch : b < now.next => inbox[News!Nth(now.audience, b)] > 0
  /\ now.step = "mark" => \A p \in now.audience : inbox[p] > 0

(* A key that Resend has stands for a mail that went out.                  *)
NewsKey(b) == resend[b] # News!NoMail => inbox[resend[b].to] > 0 /\ listings # {}

(* While there was one audience, and no key was dropped.                   *)
NewsOne ==
  ~dropped /\ (\A a, c \in listings : a = c) =>
    /\ \A a \in listings, b \in News!Batch :
         resend[b] # News!NoMail => b <= Cardinality(a) /\ resend[b].to = News!Nth(a, b)
    /\ \A p \in News!Person :
         inbox[p] <= 1 /\ (inbox[p] = 1 => \E b \in News!Batch : resend[b] # News!NoMail /\ resend[b].to = p)

NewsReached == issue.status = "published" => \A p \in reached : inbox[p] > 0

NewsPeople == \A p \in News!Person : NewsPerson(p)
NewsIssue ==
  /\ \A q \in Publisher : NewsPlace(q)
  /\ \A b \in News!Batch : NewsKey(b)
  /\ \A a \in listings : a # {}
  /\ NewsOne /\ NewsReached

NewsInv == NewsTypes /\ NewsDelivery /\ NewsCounts /\ NewsPeople /\ NewsIssue

(* The module's count is the library's.                                    *)
LEMMA NewsCount == \A S : News!Cardinality(S) = Cardinality(S)
BY Zenon DEF News!Cardinality, Cardinality

(* The first, the second, and so on of an audience are all of it, each     *)
(* once.                                                                   *)
LEMMA NewsNth ==
  ASSUME People \in Nat, NEW a \in SUBSET News!Person
  PROVE  /\ Cardinality(a) \in 0..People
         /\ \A n \in 1..Cardinality(a) : News!Nth(a, n) \in a
         /\ \A n, m \in 1..Cardinality(a) : News!Nth(a, n) = News!Nth(a, m) => n = m
         /\ \A p \in a : \E n \in 1..Cardinality(a) : News!Nth(a, n) = p
<1> DEFINE below(p) == {x \in a : x < p}
           rank == [p \in a |-> Cardinality(below(p)) + 1]
<1>1. IsFiniteSet(a) /\ Cardinality(a) \in 0..People
  <2>1. IsFiniteSet(News!Person) /\ Cardinality(News!Person) = People
    BY FS_Interval DEF News!Person
  <2>2. QED
    BY <2>1, CountSubset
<1>2. a \subseteq Nat
  BY DEF News!Person
<1>3. \A p, q \in a : p # q => p < q \/ q < p
  BY <1>2
<1>4. /\ \A p \in a : below(p) \subseteq a \ {p}
      /\ \A p, q \in a : p < q => p \in below(q) /\ below(p) \subseteq below(q) \ {p}
  <2>1. ASSUME NEW p \in a PROVE below(p) \subseteq a \ {p}
    BY <1>2
  <2>2. ASSUME NEW p \in a, NEW q \in a, p < q PROVE p \in below(q) /\ below(p) \subseteq below(q) \ {p}
    <3>1. \A x \in below(p) : x \in a /\ x < p /\ x < q /\ x # p
      BY <1>2, <2>2
    <3>2. QED
      BY <2>2, <3>1
  <2>3. QED
    BY <2>1, <2>2
<1>5. \A p \in a : rank[p] = Cardinality(below(p)) + 1
  OBVIOUS
<1>6. \A n : News!Nth(a, n) = CHOOSE p \in a : Cardinality(below(p)) = n - 1
  BY NewsCount DEF News!Nth
<1>7. rank \in [a -> 1..Cardinality(a)] /\ \A p \in a : IsFiniteSet(below(p)) /\ Cardinality(below(p)) \in Nat
  <2> HIDE DEF below
  <2>1. ASSUME NEW p \in a
        PROVE  IsFiniteSet(below(p)) /\ Cardinality(below(p)) \in Nat /\ Cardinality(below(p)) + 1 <= Cardinality(a)
    BY <1>1, <1>4, CountRemove
  <2>2. \A p \in a : Cardinality(below(p)) + 1 \in 1..Cardinality(a)
    BY <1>1, <2>1
  <2>3. QED
    BY <2>1, <2>2
<1> HIDE DEF below, rank
<1>8. ASSUME NEW p \in a, NEW q \in a, p < q PROVE rank[p] # rank[q]
  <2>1. Cardinality(below(p)) + 1 <= Cardinality(below(q))
    BY <1>4, <1>7, <1>8, CountRemove
  <2>2. QED
    BY <1>5, <1>7, <2>1
<1>9. \A p, q \in a : rank[p] = rank[q] => p = q
  BY <1>3, <1>8
<1>10. rank \in Surjection(a, 1..Cardinality(a))
  <2>1. rank \in Injection(a, 1..Cardinality(a))
    BY <1>7, <1>9 DEF Injection, IsInjective
  <2>2. IsFiniteSet(1..Cardinality(a)) /\ Cardinality(1..Cardinality(a)) = Cardinality(a)
    BY <1>1, FS_Interval
  <2>3. QED
    BY <2>1, <2>2, FS_Injection
<1>11. ASSUME NEW n \in 1..Cardinality(a) PROVE News!Nth(a, n) \in a /\ rank[News!Nth(a, n)] = n
  <2>1. PICK p \in a : rank[p] = n
    BY <1>10 DEF Surjection
  <2>2. Cardinality(below(p)) = n - 1
    BY <1>5, <1>7, <2>1
  <2>3. News!Nth(a, n) \in a /\ Cardinality(below(News!Nth(a, n))) = n - 1
    BY <1>6, <2>2
  <2>4. QED
    BY <1>5, <1>7, <2>3
<1>12. ASSUME NEW p \in a PROVE \E n \in 1..Cardinality(a) : News!Nth(a, n) = p
  <2>1. rank[p] \in 1..Cardinality(a)
    BY <1>7
  <2>2. News!Nth(a, rank[p]) = p
    BY <1>9, <1>11, <2>1
  <2>3. QED
    BY <2>1, <2>2
<1>13. QED
  BY <1>1, <1>11, <1>12

(* It holds at first.                                                      *)
LEMMA NewsInit == News!NewsletterBounds /\ News!Init => NewsInv
<1> SUFFICES ASSUME News!NewsletterBounds, News!Init PROVE NewsInv
  OBVIOUS
<1>1. People \in Nat /\ MaxRequests \in Nat /\ MaxFaults \in Nat
  BY DEF News!NewsletterBounds
<1>2. NewsTypes
  BY DEF News!Init, NewsTypes, News!NotSigning, NewsSigner
<1>3. ASSUME NEW q \in Publisher
      PROVE  /\ publisher[q].step = "off" /\ publisher[q].next = 1 /\ publisher[q].failed = FALSE
             /\ publisher[q] = News!NotPublishing(issue.text)
  BY DEF News!Init, News!NotPublishing
<1>4. NewsDelivery
  <2>1. issue.text \in Text /\ issue \in [status : {"draft", "ready", "published"}, text : Text]
    BY DEF News!Init
  <2>2. News!NotPublishing(issue.text) \in NewsPublisher
    BY <1>1, <2>1 DEF News!NotPublishing, NewsPublisher
  <2>3. QED
    <3>1. publisher \in [Publisher -> NewsPublisher] /\ issue \in [status : {"draft", "ready", "published"}, text : Text]
      BY <2>1, <2>2 DEF News!Init
    <3>2. resend \in [News!Batch -> NewsMail] /\ inbox \in [News!Person -> 0..2]
      BY DEF News!Init, NewsMail
    <3>3. QED
      BY <3>1, <3>2 DEF News!Init, NewsDelivery
<1>5. NewsCounts
  BY <1>1 DEF News!Init, NewsCounts
<1>6. NewsPeople
  BY DEF News!Init, NewsPeople, NewsPerson, News!Active, News!NotSigning
<1>7. NewsIssue
  <2>1. \A b \in News!Batch : resend[b] = News!NoMail
    BY DEF News!Init
  <2>2. \A q \in Publisher : NewsPlace(q)
    BY <1>3 DEF NewsPlace
  <2>3. listings = {} /\ reached = {} /\ \A p \in News!Person : inbox[p] = 0
    BY DEF News!Init
  <2>4. QED
    BY <2>1, <2>2, <2>3 DEF NewsIssue, NewsKey, NewsOne, NewsReached
<1>8. QED
  BY <1>2, <1>4, <1>5, <1>6, <1>7 DEF NewsInv

(* It says what was asked.                                                 *)
LEMMA NewsSays == News!NewsletterBounds /\ NewsInv => News!TypeOK /\ News!EffectsOnce /\ News!NothingLost
<1> SUFFICES ASSUME News!NewsletterBounds, NewsInv PROVE News!TypeOK /\ News!EffectsOnce /\ News!NothingLost
  OBVIOUS
<1>1. News!TypeOK
  BY DEF NewsInv, NewsTypes, NewsDelivery, NewsCounts, NewsSigner, NewsPublisher, NewsMail,
     News!TypeOK
<1>2. ASSUME NEW p \in News!Person, inbox[p] > 1, ~dropped PROVE Cardinality(listings) > 1
  <2>1. inbox[p] \in 0..2 /\ ~(inbox[p] <= 1)
    BY <1>2 DEF NewsInv, NewsDelivery
  <2>2. PICK a \in listings, c \in listings : a # c
    BY <1>2, <2>1 DEF NewsInv, NewsIssue, NewsOne
  <2>3. IsFiniteSet(listings)
    <3>1. IsFiniteSet(News!Person)
      BY FS_Interval DEF News!Person, News!NewsletterBounds
    <3>2. IsFiniteSet(SUBSET News!Person)
      BY <3>1, FS_SUBSET
    <3>3. QED
      BY <3>2, FS_Subset DEF NewsInv, NewsDelivery
  <2>4. /\ IsFiniteSet(listings \ {a}) /\ Cardinality(listings \ {a}) \in Nat /\ Cardinality(listings) \in Nat
        /\ Cardinality(listings \ {a}) + 1 <= Cardinality(listings)
    BY <2>3, CountRemove
  <2>5. Cardinality(listings \ {a}) # 0
    BY <2>2, <2>4, FS_EmptySet
  <2>6. QED
    BY <2>4, <2>5
<1>3. News!EffectsOnce
  BY <1>2, NewsCount DEF News!EffectsOnce
<1>4. News!NothingLost
  BY DEF NewsInv, NewsPeople, NewsPerson, NewsIssue, NewsReached, News!NothingLost
<1>5. QED
  BY <1>1, <1>3, <1>4

(* A step that leaves the delivery leaves what is said of it.              *)
LEMMA NewsDelivers ==
  ASSUME NewsInv, UNCHANGED News!delivery
  PROVE  NewsDelivery' /\ NewsIssue'
<1>1. UNCHANGED <<issue, publisher, resend, inbox, listings, reached, dropped>>
  BY DEF News!delivery
<1>2. NewsDelivery'
  BY <1>1 DEF NewsInv, NewsDelivery
<1>3. \A q \in Publisher : NewsPlace(q)'
  BY <1>1 DEF NewsInv, NewsIssue, NewsPlace
<1>4. NewsOne'
  BY <1>1 DEF NewsInv, NewsIssue, NewsOne
<1>5. QED
  BY <1>1, <1>2, <1>3, <1>4 DEF NewsInv, NewsIssue, NewsKey, NewsReached

(* One that leaves the people leaves what is said of them.                 *)
LEMMA NewsRemembers ==
  ASSUME NewsInv, UNCHANGED News!people
  PROVE  NewsTypes' /\ NewsPeople'
<1>1. UNCHANGED <<subscriber, signup, confirmed, left, raced>>
  BY DEF News!people
<1>2. QED
  BY <1>1 DEF NewsInv, NewsTypes, NewsPeople, NewsPerson, News!Active

(* A step of another service leaves it.                                    *)
LEMMA NewsRests == NewsInv /\ UNCHANGED News!vars => NewsInv'
<1> SUFFICES ASSUME NewsInv, UNCHANGED News!vars PROVE NewsInv'
  OBVIOUS
<1>1. UNCHANGED News!people /\ UNCHANGED News!delivery /\ UNCHANGED <<requests, faults>>
  BY DEF News!vars
<1>2. NewsCounts'
  BY <1>1 DEF NewsInv, NewsCounts
<1>3. QED
  BY <1>1, <1>2, NewsDelivers, NewsRemembers DEF NewsInv

(* The counts stay within their bounds.                                    *)
LEMMA NewsCounted ==
  ASSUME News!NewsletterBounds, NewsInv, News!Asked \/ UNCHANGED requests, News!Fine \/ News!Fault
  PROVE  NewsCounts'
<1>1. MaxRequests \in Nat /\ MaxFaults \in Nat /\ requests \in 0..MaxRequests /\ faults \in 0..MaxFaults
  BY DEF News!NewsletterBounds, NewsInv, NewsCounts
<1>2. requests' \in 0..MaxRequests
  BY <1>1 DEF News!Asked
<1>3. faults' \in 0..MaxFaults
  BY <1>1 DEF News!Fine, News!Fault
<1>4. QED
  BY <1>2, <1>3 DEF NewsCounts

-----------------------------------------------------------------------------
(* A step of the people keeps the invariant when it keeps what is said of  *)
(* them.                                                                   *)
LEMMA NewsPeopleStep ==
  ASSUME News!NewsletterBounds, NewsInv, UNCHANGED News!delivery, News!Asked \/ UNCHANGED requests, News!Fine,
         NewsTypes', NewsPeople'
  PROVE  NewsInv'
BY NewsDelivers, NewsCounted DEF NewsInv

(* What is said of a person whose document and requests are as they were.  *)
LEMMA NewsOther ==
  ASSUME NewsInv, NEW p \in News!Person, subscriber'[p] = subscriber[p],
         \A s \in Signup : p \in signup'[s].on => p \in signup[s].on /\ signup'[s] = signup[s],
         p \in raced => p \in raced', p \in confirmed' <=> p \in confirmed, p \in left' <=> p \in left
  PROVE  NewsPerson(p)'
<1>1. NewsPerson(p) /\ (p \in News!Active' <=> p \in News!Active)
  BY DEF NewsInv, NewsPeople, News!Active
<1>2. QED
  BY <1>1 DEF NewsPerson

(* A person asks to subscribe, and the document is read.                   *)
LEMMA NewsSignUp ==
  ASSUME News!NewsletterBounds, NewsInv, NEW s \in Signup, NEW p \in News!Person, News!SignUp(s, p)
  PROVE  NewsInv'
<1> DEFINE r == [on |-> {p}, active |-> subscriber[p].status = "active"]
<1>1. /\ signup[s].on = {} /\ News!Asked /\ News!Fine /\ UNCHANGED <<subscriber, confirmed, raced, News!delivery>>
      /\ signup' = [signup EXCEPT ![s] = r] /\ left' = left \ {p}
  BY DEF News!SignUp
<1>2. r \in NewsSigner /\ r.on = {p} /\ (r.active <=> subscriber[p].status = "active")
  BY DEF NewsSigner
<1> HIDE DEF r
<1>3. signup'[s] = r /\ \A o \in Signup : o # s => signup'[o] = signup[o]
  BY <1>1 DEF NewsInv, NewsTypes
<1>4. NewsTypes'
  BY <1>1, <1>2 DEF NewsInv, NewsTypes
<1>5. ASSUME NEW k \in News!Person PROVE NewsPerson(k)'
  <2>1. CASE k # p
    BY <1>1, <1>2, <1>3, <2>1, NewsOther
  <2>2. CASE k = p
    <3>1. NewsPerson(p) /\ (p \in News!Active' <=> p \in News!Active) /\ (p \in News!Active <=> subscriber[p].status = "active")
      BY <1>1 DEF NewsInv, NewsPeople, News!Active
    <3>2. p \notin left'
      BY <1>1
    <3>3. \A o \in Signup : p \in signup'[o].on /\ p \notin raced =>
            p \notin left' /\ (signup'[o].active <=> p \in News!Active)
      BY <1>2, <1>3, <3>1, <3>2 DEF NewsPerson
    <3>4. QED
      BY <1>1, <2>2, <3>1, <3>2, <3>3 DEF NewsPerson
  <2>3. QED
    BY <2>1, <2>2
<1>6. QED
  BY <1>1, <1>4, <1>5, NewsPeopleStep DEF NewsPeople

(* The document is written as it was read.                                 *)
LEMMA NewsUpsert ==
  ASSUME News!NewsletterBounds, NewsInv, NEW s \in Signup, NEW p \in News!Person, News!Upsert(s, p)
  PROVE  NewsInv'
<1> DEFINE d == IF signup[s].active THEN [status |-> "active", token |-> FALSE]
                ELSE [status |-> "pending", token |-> TRUE]
<1>1. /\ p \in signup[s].on /\ signup' = [signup EXCEPT ![s] = News!NotSigning]
      /\ subscriber' = [subscriber EXCEPT ![p] = d]
      /\ raced' = IF \E o \in Signup \ {s} : p \in signup[o].on THEN raced \cup {p} ELSE raced
      /\ News!Fine /\ UNCHANGED <<confirmed, left, requests, News!delivery>>
  BY DEF News!Upsert
<1>2. /\ d \in [status : {"none", "pending", "active", "unsubscribed"}, token : BOOLEAN]
      /\ d.status = "active" <=> signup[s].active
      /\ News!NotSigning \in NewsSigner /\ News!NotSigning.on = {}
  BY DEF News!NotSigning, NewsSigner
<1> HIDE DEF d
<1>3. /\ signup'[s] = News!NotSigning /\ \A o \in Signup : o # s => signup'[o] = signup[o]
      /\ subscriber'[p] = d /\ \A k \in News!Person : k # p => subscriber'[k] = subscriber[k]
  BY <1>1 DEF NewsInv, NewsTypes
<1>4. NewsTypes'
  <2>1. raced' \subseteq News!Person
    BY <1>1 DEF NewsInv, NewsTypes
  <2>2. QED
    BY <1>1, <1>2, <2>1 DEF NewsInv, NewsTypes
<1>5. ASSUME NEW k \in News!Person PROVE NewsPerson(k)'
  <2>1. CASE k # p
    <3>1. k \in raced => k \in raced'
      BY <1>1
    <3>2. QED
      BY <1>1, <1>2, <1>3, <2>1, <3>1, NewsOther
  <2>2. CASE k = p
    <3>1. SUFFICES ASSUME p \notin raced' PROVE NewsPerson(p)'
      BY <2>2 DEF NewsPerson
    <3>2. p \notin raced /\ \A o \in Signup : o # s => p \notin signup[o].on
      BY <1>1, <3>1
    <3>3. /\ p \in News!Active <=> p \in confirmed
          /\ p \notin left /\ (signup[s].active <=> p \in News!Active)
      BY <1>1, <3>2 DEF NewsInv, NewsPeople, NewsPerson
    <3>4. p \in News!Active' <=> p \in News!Active
      BY <1>2, <1>3, <3>3 DEF News!Active
    <3>5. \A o \in Signup : p \notin signup'[o].on
      BY <1>2, <1>3, <3>2
    <3>6. QED
      BY <1>1, <3>3, <3>4, <3>5 DEF NewsPerson
  <2>3. QED
    BY <2>1, <2>2
<1>6. QED
  BY <1>1, <1>4, <1>5, NewsPeopleStep DEF NewsPeople

(* A person confirms, or unsubscribes.                                     *)
LEMMA NewsConfirm ==
  ASSUME News!NewsletterBounds, NewsInv, NEW p \in News!Person, News!Confirm(p) \/ News!Unsubscribe(p)
  PROVE  NewsInv'
<1>1. /\ UNCHANGED <<signup, News!delivery>> /\ News!Fine /\ (News!Asked \/ UNCHANGED requests)
      /\ raced' = IF \E s \in Signup : p \in signup[s].on THEN raced \cup {p} ELSE raced
  BY DEF News!Confirm, News!Unsubscribe, News!Races
<1>2. PICK d \in [status : {"none", "pending", "active", "unsubscribed"}, token : BOOLEAN] :
        /\ subscriber' = [subscriber EXCEPT ![p] = d]
        /\ \/ d.status = "active" /\ confirmed' = confirmed \cup {p} /\ left' = left
              /\ subscriber[p].status # "unsubscribed"
           \/ d.status = "unsubscribed" /\ confirmed' = confirmed \ {p} /\ left' = left \cup {p}
  <2>1. CASE News!Confirm(p)
    <3> DEFINE d == [status |-> "active", token |-> FALSE]
    <3>1. /\ d \in [status : {"none", "pending", "active", "unsubscribed"}, token : BOOLEAN]
          /\ d.status = "active"
      OBVIOUS
    <3>2. subscriber' = [subscriber EXCEPT ![p] = d]
      BY <2>1 DEF News!Confirm
    <3> HIDE DEF d
    <3>3. QED
      BY <2>1, <3>1, <3>2 DEF News!Confirm
  <2>2. CASE News!Unsubscribe(p)
    <3> DEFINE d == [subscriber[p] EXCEPT !.status = "unsubscribed"]
    <3>1. /\ d \in [status : {"none", "pending", "active", "unsubscribed"}, token : BOOLEAN]
          /\ d.status = "unsubscribed"
      BY DEF NewsInv, NewsTypes
    <3>2. subscriber' = [subscriber EXCEPT ![p] = d]
      BY <2>2 DEF News!Unsubscribe
    <3> HIDE DEF d
    <3>3. QED
      BY <2>2, <3>1, <3>2 DEF News!Unsubscribe
  <2>3. QED
    BY <2>1, <2>2
<1>3. subscriber'[p] = d /\ \A k \in News!Person : k # p => subscriber'[k] = subscriber[k]
  BY <1>2 DEF NewsInv, NewsTypes
<1>4. NewsTypes'
  <2>1. raced' \subseteq News!Person /\ confirmed' \subseteq News!Person /\ left' \subseteq News!Person
    BY <1>1, <1>2 DEF NewsInv, NewsTypes
  <2>2. QED
    BY <1>1, <1>2, <2>1 DEF NewsInv, NewsTypes
<1>5. ASSUME NEW k \in News!Person PROVE NewsPerson(k)'
  <2>1. CASE k # p
    <3>1. /\ k \in raced => k \in raced'
          /\ k \in confirmed' <=> k \in confirmed
          /\ k \in left' <=> k \in left
      BY <1>1, <1>2, <2>1
    <3>2. QED
      BY <1>1, <1>3, <2>1, <3>1, NewsOther
  <2>2. CASE k = p
    <3>1. SUFFICES ASSUME p \notin raced' PROVE NewsPerson(p)'
      BY <2>2 DEF NewsPerson
    <3>2. p \notin raced /\ \A s \in Signup : p \notin signup'[s].on
      BY <1>1, <3>1
    <3>3. p \in left => subscriber[p].status = "unsubscribed"
      BY <3>2 DEF NewsInv, NewsPeople, NewsPerson
    <3>4. /\ p \in News!Active' <=> p \in confirmed'
          /\ p \in left' => subscriber'[p].status = "unsubscribed"
      BY <1>2, <1>3, <3>3 DEF News!Active
    <3>5. QED
      BY <3>2, <3>4 DEF NewsPerson
  <2>3. QED
    BY <2>1, <2>2
<1>6. QED
  BY <1>1, <1>4, <1>5, NewsPeopleStep DEF NewsPeople

-----------------------------------------------------------------------------
(* The issue went to those it went to before, and the audiences remain.    *)
NewsGrows == (\A p \in News!Person : inbox[p] > 0 => inbox'[p] > 0) /\ listings \subseteq listings'

(* A publisher that did not move keeps its place.                          *)
LEMMA NewsStays ==
  ASSUME News!NewsletterBounds, NewsInv, NEW q \in Publisher, publisher'[q] = publisher[q], NewsGrows
  PROVE  NewsPlace(q)'
<1> DEFINE a == publisher[q].audience
<1>1. NewsPlace(q) /\ publisher[q] \in NewsPublisher /\ People \in Nat
  BY DEF NewsInv, NewsIssue, NewsDelivery, News!NewsletterBounds
<1>2. a \in SUBSET News!Person /\ publisher[q].next \in 1..(People + 1)
  BY <1>1 DEF NewsPublisher
<1>3. /\ Cardinality(a) \in 0..People
      /\ \A n \in 1..Cardinality(a) : News!Nth(a, n) \in a
  BY <1>1, <1>2, NewsNth
<1>4. publisher[q].step \in {"send", "mark"} => a \in listings /\ publisher[q].next <= Cardinality(a)
  BY <1>1, NewsCount DEF NewsPlace
<1>5. ASSUME publisher[q].step = "send", ~publisher[q].failed, NEW b \in News!Batch, b < publisher[q].next
      PROVE  inbox'[News!Nth(a, b)] > 0
  <2>1. b \in 1..Cardinality(a)
    BY <1>1, <1>2, <1>3, <1>4, <1>5 DEF News!Batch
  <2>2. News!Nth(a, b) \in News!Person /\ inbox[News!Nth(a, b)] > 0
    BY <1>1, <1>2, <1>3, <1>5, <2>1 DEF NewsPlace
  <2>3. QED
    BY <2>2 DEF NewsGrows
<1>6. publisher[q].step = "mark" => \A p \in a : inbox'[p] > 0
  BY <1>1, <1>2 DEF NewsPlace, NewsGrows
<1>7. publisher[q].step \in {"send", "mark"} => a \in listings'
  BY <1>4 DEF NewsGrows
<1>8. publisher[q].step \in {"off", "list"} => publisher[q].next = 1 /\ ~publisher[q].failed
  BY <1>1 DEF NewsPlace
<1>9. QED
  BY <1>4, <1>5, <1>6, <1>7, <1>8 DEF NewsPlace

(* What is then left to be shown when a publisher moves.                   *)
LEMMA NewsMoves ==
  ASSUME News!NewsletterBounds, NewsInv, NEW q \in Publisher, NEW r \in NewsPublisher,
         publisher' = [publisher EXCEPT ![q] = r], NewsGrows, NewsPlace(q)'
  PROVE  publisher' \in [Publisher -> NewsPublisher] /\ \A o \in Publisher : NewsPlace(o)'
<1>1. publisher' \in [Publisher -> NewsPublisher] /\ \A o \in Publisher : o # q => publisher'[o] = publisher[o]
  BY DEF NewsInv, NewsDelivery
<1>2. QED
  BY <1>1, NewsStays

(* A publisher that stops is as it was before it began.                    *)
LEMMA NewsStops ==
  ASSUME News!NewsletterBounds, NewsInv, NEW q \in Publisher, News!Stop(q), NewsGrows
  PROVE  publisher' \in [Publisher -> NewsPublisher] /\ \A o \in Publisher : NewsPlace(o)'
<1> DEFINE r == News!NotPublishing(issue.text)
<1>1. r \in NewsPublisher /\ r.step = "off" /\ r.next = 1 /\ r.failed = FALSE
  BY DEF News!NotPublishing, NewsPublisher, NewsInv, NewsDelivery, News!NewsletterBounds
<1>2. publisher' = [publisher EXCEPT ![q] = r]
  BY DEF News!Stop
<1> HIDE DEF r
<1>3. publisher'[q] = r
  BY <1>2 DEF NewsInv, NewsDelivery
<1>4. NewsPlace(q)'
  BY <1>1, <1>3 DEF NewsPlace
<1>5. QED
  BY <1>1, <1>2, <1>4, NewsMoves

(* The issue is written.                                                   *)
LEMMA NewsEdit ==
  ASSUME News!NewsletterBounds, NewsInv, News!Edit
  PROVE  NewsInv'
<1>1. /\ News!Asked /\ News!Fine /\ UNCHANGED News!people /\ UNCHANGED <<inbox, resend, dropped, publisher, listings>>
      /\ issue' \in [status : {"draft", "ready", "published"}, text : Text] /\ reached' = {}
  BY DEF News!Edit, News!IssueOnly
<1>2. NewsCounts' /\ NewsTypes' /\ NewsPeople'
  BY <1>1, NewsCounted, NewsRemembers
<1>3. NewsDelivery'
  BY <1>1 DEF NewsInv, NewsDelivery
<1>4. NewsIssue'
  <2>1. \A q \in Publisher : NewsPlace(q)'
    BY <1>1, NewsStays DEF NewsGrows
  <2>2. NewsOne' /\ NewsReached'
    BY <1>1 DEF NewsInv, NewsIssue, NewsOne, NewsReached
  <2>3. QED
    BY <1>1, <2>1, <2>2 DEF NewsInv, NewsIssue, NewsKey
<1>5. QED
  BY <1>2, <1>3, <1>4 DEF NewsInv

(* A request to publish arrives.                                           *)
LEMMA NewsPublish ==
  ASSUME News!NewsletterBounds, NewsInv, NEW q \in Publisher, News!Publish(q)
  PROVE  NewsInv'
<1> DEFINE r == [publisher[q] EXCEPT !.step = "list", !.text = issue.text]
<1>1. /\ publisher[q].step = "off" /\ News!Asked /\ News!Fine /\ UNCHANGED News!people
      /\ UNCHANGED <<inbox, resend, dropped, issue, listings, reached>>
      /\ publisher' = [publisher EXCEPT ![q] = r]
  BY DEF News!Publish, News!IssueOnly
<1>2. publisher[q] \in NewsPublisher /\ NewsPlace(q) /\ issue.text \in Text
  BY DEF NewsInv, NewsIssue, NewsDelivery
<1>3. r \in NewsPublisher /\ r.step = "list" /\ r.next = publisher[q].next /\ r.failed = publisher[q].failed
  BY <1>2 DEF NewsPublisher
<1> HIDE DEF r
<1>4. publisher'[q] = r
  BY <1>1 DEF NewsInv, NewsDelivery
<1>5. NewsPlace(q)'
  BY <1>1, <1>2, <1>3, <1>4 DEF NewsPlace
<1>6. publisher' \in [Publisher -> NewsPublisher] /\ \A o \in Publisher : NewsPlace(o)'
  BY <1>1, <1>3, <1>5, NewsMoves DEF NewsGrows
<1>7. NewsCounts' /\ NewsTypes' /\ NewsPeople'
  BY <1>1, NewsCounted, NewsRemembers
<1>8. NewsDelivery' /\ NewsOne' /\ NewsReached'
  BY <1>1, <1>6 DEF NewsInv, NewsDelivery, NewsIssue, NewsOne, NewsReached
<1>9. QED
  BY <1>1, <1>6, <1>7, <1>8 DEF NewsInv, NewsIssue, NewsKey

(* The audience is who is active now.                                      *)
LEMMA NewsList ==
  ASSUME News!NewsletterBounds, NewsInv, NEW q \in Publisher, News!List(q)
  PROVE  NewsInv'
<1>1. /\ publisher[q].step = "list" /\ News!Fine /\ UNCHANGED News!people
      /\ UNCHANGED <<inbox, resend, dropped, issue, reached, requests>>
  BY DEF News!List, News!IssueOnly
<1>2. NewsCounts' /\ NewsTypes' /\ NewsPeople' /\ People \in Nat
  BY <1>1, NewsCounted, NewsRemembers DEF News!NewsletterBounds
<1>3. CASE News!Active = {}
  <2>1. News!Stop(q) /\ listings' = listings
    BY <1>3 DEF News!List
  <2>2. publisher' \in [Publisher -> NewsPublisher] /\ \A o \in Publisher : NewsPlace(o)'
    BY <1>1, <2>1, NewsStops DEF NewsGrows
  <2>3. NewsDelivery' /\ NewsOne' /\ NewsReached'
    BY <1>1, <2>1, <2>2 DEF NewsInv, NewsDelivery, NewsIssue, NewsOne, NewsReached
  <2>4. QED
    BY <1>1, <1>2, <2>1, <2>2, <2>3 DEF NewsInv, NewsIssue, NewsKey
<1>4. CASE News!Active # {}
  <2> DEFINE a == News!Active
             r == [publisher[q] EXCEPT !.step = "send", !.audience = a]
  <2>1. publisher' = [publisher EXCEPT ![q] = r] /\ listings' = listings \cup {a}
    BY <1>4 DEF News!List
  <2>2. a \in SUBSET News!Person /\ a # {}
    BY <1>4 DEF News!Active
  <2> HIDE DEF a
  <2>3. publisher[q] \in NewsPublisher /\ NewsPlace(q)
    BY DEF NewsInv, NewsIssue, NewsDelivery
  <2>4. /\ r \in NewsPublisher /\ r.step = "send" /\ r.next = publisher[q].next /\ r.audience = a
        /\ r.failed = publisher[q].failed
    BY <2>2, <2>3 DEF NewsPublisher
  <2> HIDE DEF r
  <2>5. publisher'[q] = r
    BY <2>1 DEF NewsInv, NewsDelivery
  <2>6. r.next = 1 /\ Cardinality(a) \in 0..People /\ 1 <= Cardinality(a)
    <3>1. r.next = 1
      BY <1>1, <2>3, <2>4 DEF NewsPlace
    <3>2. Cardinality(a) \in 0..People /\ \A p \in a : \E n \in 1..Cardinality(a) : News!Nth(a, n) = p
      BY <1>2, <2>2, NewsNth
    <3>3. QED
      BY <2>2, <3>1, <3>2
  <2>7. NewsPlace(q)'
    BY <2>1, <2>4, <2>5, <2>6, NewsCount DEF NewsPlace, News!Batch
  <2>8. publisher' \in [Publisher -> NewsPublisher] /\ \A o \in Publisher : NewsPlace(o)'
    BY <1>1, <2>1, <2>4, <2>7, NewsMoves DEF NewsGrows
  <2>9. NewsDelivery' /\ NewsReached'
    BY <1>1, <2>1, <2>2, <2>8 DEF NewsInv, NewsDelivery, NewsIssue, NewsReached
  <2>10. NewsOne'
    <3>1. SUFFICES ASSUME ~dropped, \A x, c \in listings' : x = c PROVE NewsOne'
      BY <1>1 DEF NewsOne
    <3>2. /\ \A x \in listings, b \in News!Batch :
               resend[b] # News!NoMail => b <= Cardinality(x) /\ resend[b].to = News!Nth(x, b)
          /\ \A p \in News!Person :
               inbox[p] <= 1 /\ (inbox[p] = 1 => \E b \in News!Batch : resend[b] # News!NoMail /\ resend[b].to = p)
      BY <2>1, <3>1, NewsCount DEF NewsInv, NewsIssue, NewsOne
    <3>3. \A b \in News!Batch : resend[b] # News!NoMail => a \in listings
      BY <2>1, <3>1 DEF NewsInv, NewsIssue, NewsKey
    <3>4. QED
      BY <1>1, <2>1, <3>2, <3>3, NewsCount DEF NewsOne
  <2>11. (\A b \in News!Batch : NewsKey(b)') /\ \A x \in listings' : x # {}
    BY <1>1, <2>1, <2>2 DEF NewsInv, NewsIssue, NewsKey
  <2>12. QED
    BY <1>2, <2>8, <2>9, <2>10, <2>11 DEF NewsInv, NewsIssue
<1>5. QED
  BY <1>3, <1>4

(* On to the next batch, when the present one was sent or failed.          *)
LEMMA NewsNext ==
  ASSUME News!NewsletterBounds, NewsInv, NEW q \in Publisher, publisher[q].step = "send", NewsGrows,
         \/ News!NextBatch(q, FALSE) /\ inbox'[News!Nth(publisher[q].audience, publisher[q].next)] > 0
         \/ News!NextBatch(q, TRUE)
  PROVE  publisher' \in [Publisher -> NewsPublisher] /\ \A o \in Publisher : NewsPlace(o)'
<1> DEFINE now == publisher[q]
           a == now.audience
<1>1. /\ now \in NewsPublisher /\ NewsPlace(q) /\ People \in Nat /\ now.step = "send"
      /\ a \in SUBSET News!Person /\ now.next \in 1..(People + 1) /\ now.failed \in BOOLEAN
  BY DEF NewsInv, NewsDelivery, NewsIssue, News!NewsletterBounds, NewsPublisher
<1>2. /\ Cardinality(a) \in 0..People
      /\ \A n \in 1..Cardinality(a) : News!Nth(a, n) \in a
      /\ \A p \in a : \E n \in 1..Cardinality(a) : News!Nth(a, n) = p
  BY <1>1, NewsNth
<1>3. a \in listings' /\ now.next <= Cardinality(a)
  BY <1>1, NewsCount DEF NewsPlace, NewsGrows
<1>4. ~now.failed => \A b \in News!Batch : b < now.next => inbox'[News!Nth(a, b)] > 0
  <2>1. SUFFICES ASSUME ~now.failed, NEW b \in News!Batch, b < now.next PROVE inbox'[News!Nth(a, b)] > 0
    OBVIOUS
  <2>2. b \in 1..Cardinality(a)
    BY <1>1, <1>2, <1>3, <2>1 DEF News!Batch
  <2>3. News!Nth(a, b) \in News!Person /\ inbox[News!Nth(a, b)] > 0
    BY <1>1, <1>2, <2>1, <2>2 DEF NewsPlace
  <2>4. QED
    BY <2>3 DEF NewsGrows
<1>5. CASE News!Stop(q)
  BY <1>5, NewsStops
<1>6. CASE now.next < Cardinality(a) /\ publisher' = [publisher EXCEPT ![q].next = @ + 1, ![q].failed = TRUE]
  <2> DEFINE m == now.next + 1
             r == [now EXCEPT !.next = m, !.failed = TRUE]
  <2>1. publisher' = [publisher EXCEPT ![q] = r] /\ m \in 1..(People + 1) /\ m = now.next + 1
    <3>1. m \in 1..(People + 1)
      BY <1>1, <1>2, <1>6
    <3>2. publisher' = [publisher EXCEPT ![q] = r]
      BY <1>6
    <3>3. QED
      BY <3>1, <3>2
  <2> HIDE DEF m
  <2>2. /\ r \in NewsPublisher /\ r.step = "send" /\ r.audience = a /\ r.next = now.next + 1 /\ r.failed = TRUE
    BY <1>1, <2>1 DEF NewsPublisher
  <2> HIDE DEF r
  <2>3. publisher'[q] = r
    BY <2>1 DEF NewsInv, NewsDelivery
  <2>4. r.next <= Cardinality(a)
    BY <1>1, <1>2, <1>6, <2>2
  <2>5. NewsPlace(q)'
    BY <1>3, <2>2, <2>3, <2>4, NewsCount DEF NewsPlace
  <2>6. QED
    BY <2>1, <2>2, <2>5, NewsMoves
<1>7. CASE /\ now.next < Cardinality(a) /\ publisher' = [publisher EXCEPT ![q].next = @ + 1, ![q].failed = FALSE]
           /\ ~now.failed /\ inbox'[News!Nth(a, now.next)] > 0
  <2> DEFINE m == now.next + 1
             r == [now EXCEPT !.next = m, !.failed = FALSE]
  <2>1. publisher' = [publisher EXCEPT ![q] = r] /\ m \in 1..(People + 1) /\ m = now.next + 1
    <3>1. m \in 1..(People + 1)
      BY <1>1, <1>2, <1>7
    <3>2. publisher' = [publisher EXCEPT ![q] = r]
      BY <1>7
    <3>3. QED
      BY <3>1, <3>2
  <2> HIDE DEF m
  <2>2. /\ r \in NewsPublisher /\ r.step = "send" /\ r.audience = a /\ r.next = now.next + 1 /\ r.failed = FALSE
    BY <1>1, <2>1 DEF NewsPublisher
  <2> HIDE DEF r
  <2>3. publisher'[q] = r
    BY <2>1 DEF NewsInv, NewsDelivery
  <2>4. r.next <= Cardinality(a)
    BY <1>1, <1>2, <1>7, <2>2
  <2>5. ASSUME NEW b \in News!Batch, b < r.next PROVE inbox'[News!Nth(a, b)] > 0
    <3>1. b < now.next \/ b = now.next
      BY <1>1, <2>2, <2>5 DEF News!Batch
    <3>2. QED
      BY <1>4, <1>7, <3>1
  <2>6. NewsPlace(q)'
    BY <1>3, <2>2, <2>3, <2>4, <2>5, NewsCount DEF NewsPlace
  <2>7. QED
    BY <2>1, <2>2, <2>6, NewsMoves
<1>8. CASE /\ ~(now.next < Cardinality(a)) /\ publisher' = [publisher EXCEPT ![q].step = "mark"]
           /\ ~now.failed /\ inbox'[News!Nth(a, now.next)] > 0
  <2> DEFINE r == [now EXCEPT !.step = "mark"]
  <2>1. publisher' = [publisher EXCEPT ![q] = r]
    BY <1>8
  <2>2. /\ r \in NewsPublisher /\ r.step = "mark" /\ r.audience = a /\ r.next = now.next
    BY <1>1 DEF NewsPublisher
  <2> HIDE DEF r
  <2>3. publisher'[q] = r
    BY <2>1 DEF NewsInv, NewsDelivery
  <2>4. ASSUME NEW p \in a PROVE inbox'[p] > 0
    <3>1. PICK n \in 1..Cardinality(a) : News!Nth(a, n) = p
      BY <1>2
    <3>2. n \in News!Batch /\ (n < now.next \/ n = now.next)
      BY <1>1, <1>2, <1>3, <1>8 DEF News!Batch
    <3>3. QED
      BY <1>4, <1>8, <3>1, <3>2
  <2>5. NewsPlace(q)'
    BY <1>3, <2>2, <2>3, <2>4, NewsCount DEF NewsPlace
  <2>6. QED
    BY <2>1, <2>2, <2>5, NewsMoves
<1>9. CASE News!NextBatch(q, TRUE)
  <2>1. \/ News!Stop(q)
        \/ now.next < Cardinality(a) /\ publisher' = [publisher EXCEPT ![q].next = @ + 1, ![q].failed = TRUE]
    BY <1>9, NewsCount DEF News!NextBatch
  <2>2. QED
    BY <1>5, <1>6, <2>1
<1>10. CASE News!NextBatch(q, FALSE) /\ inbox'[News!Nth(a, now.next)] > 0
  <2>1. CASE now.failed
    <3>1. \/ News!Stop(q)
          \/ now.next < Cardinality(a) /\ publisher' = [publisher EXCEPT ![q].next = @ + 1, ![q].failed = TRUE]
      <4>1. now.failed = TRUE
        BY <1>1, <2>1
      <4>2. QED
        BY <1>10, <4>1, NewsCount DEF News!NextBatch
    <3>2. QED
      BY <1>5, <1>6, <3>1
  <2>2. CASE ~now.failed
    <3>1. \/ now.next < Cardinality(a) /\ publisher' = [publisher EXCEPT ![q].next = @ + 1, ![q].failed = FALSE]
          \/ ~(now.next < Cardinality(a)) /\ publisher' = [publisher EXCEPT ![q].step = "mark"]
      <4>1. now.failed = FALSE
        BY <1>1, <2>2
      <4>2. QED
        BY <1>10, <4>1, NewsCount DEF News!NextBatch
    <3>2. QED
      BY <1>7, <1>8, <1>10, <2>2, <3>1
  <2>3. QED
    BY <2>1, <2>2
<1>11. QED
  BY <1>9, <1>10

(* A batch is sent, refused, or its answer lost.                           *)
LEMMA NewsSend ==
  ASSUME News!NewsletterBounds, NewsInv, NEW q \in Publisher, News!Send(q)
  PROVE  NewsInv'
<1> DEFINE a == publisher[q].audience
           b == publisher[q].next
           p == News!Nth(a, b)
           mail == [to |-> p, text |-> publisher[q].text]
<1>1. /\ publisher[q].step = "send" /\ UNCHANGED News!people
      /\ UNCHANGED <<issue, listings, reached, dropped, requests>> /\ (News!Fine \/ News!Fault)
  BY DEF News!Send, News!SendOnly
<1>2. /\ People \in Nat /\ a \in SUBSET News!Person /\ a \in listings /\ b \in 1..Cardinality(a)
      /\ publisher[q].text \in Text /\ Cardinality(a) \in 0..People
      /\ \A n \in 1..Cardinality(a) : News!Nth(a, n) \in a
      /\ \A n, m \in 1..Cardinality(a) : News!Nth(a, n) = News!Nth(a, m) => n = m
  <2>1. /\ NewsPlace(q) /\ People \in Nat /\ a \in SUBSET News!Person /\ b \in 1..(People + 1)
        /\ publisher[q].text \in Text
    BY DEF NewsInv, NewsDelivery, NewsIssue, News!NewsletterBounds, NewsPublisher
  <2>2. a \in listings /\ b <= Cardinality(a)
    BY <1>1, <2>1, NewsCount DEF NewsPlace
  <2>3. Cardinality(a) \in 0..People
    BY <2>1, NewsNth
  <2>4. b \in 1..Cardinality(a)
    BY <2>1, <2>2, <2>3
  <2>5. QED
    BY <2>1, <2>2, <2>3, <2>4, NewsNth
<1>3. p \in News!Person /\ b \in News!Batch
  BY <1>2 DEF News!Batch
<1>4. mail \in NewsMail /\ mail # News!NoMail /\ mail.to = p
  BY <1>2, <1>3 DEF NewsMail, News!NoMail, News!Person
<1>5. NewsCounts' /\ NewsTypes' /\ NewsPeople'
  BY <1>1, NewsCounted, NewsRemembers
<1>6. \/ /\ resend[b] \in {News!NoMail, mail} /\ resend' = [resend EXCEPT ![b] = mail]
         /\ inbox' = IF resend[b] = mail THEN inbox ELSE [inbox EXCEPT ![p] = IF @ < 2 THEN @ + 1 ELSE 2]
         /\ News!NextBatch(q, FALSE) \/ News!Stop(q)
      \/ UNCHANGED <<resend, inbox>> /\ (News!NextBatch(q, TRUE) \/ News!Stop(q))
  BY DEF News!Send
<1>7. a = publisher[q].audience /\ p = News!Nth(a, b)
  OBVIOUS
<1>8. inbox \in [News!Person -> 0..2] /\ resend \in [News!Batch -> NewsMail]
  BY DEF NewsInv, NewsDelivery
<1>9. \A k \in News!Batch : NewsKey(k) /\ (resend[k] # News!NoMail => resend[k].to \in News!Person)
  BY <1>8 DEF NewsInv, NewsIssue, NewsMail
<1>10. CASE UNCHANGED <<resend, inbox>> /\ (News!NextBatch(q, TRUE) \/ News!Stop(q))
  <2>1. NewsGrows
    BY <1>1, <1>10 DEF NewsGrows
  <2>2. publisher' \in [Publisher -> NewsPublisher] /\ \A o \in Publisher : NewsPlace(o)'
    BY <1>1, <1>10, <2>1, NewsNext, NewsStops
  <2>3. NewsDelivery' /\ NewsOne' /\ NewsReached'
    BY <1>1, <1>10, <2>2 DEF NewsInv, NewsDelivery, NewsIssue, NewsOne, NewsReached
  <2>4. QED
    BY <1>1, <1>5, <1>10, <2>2, <2>3 DEF NewsInv, NewsIssue, NewsKey
<1>11. CASE /\ resend[b] \in {News!NoMail, mail} /\ resend' = [resend EXCEPT ![b] = mail]
            /\ inbox' = IF resend[b] = mail THEN inbox ELSE [inbox EXCEPT ![p] = IF @ < 2 THEN @ + 1 ELSE 2]
            /\ News!NextBatch(q, FALSE) \/ News!Stop(q)
  <2> HIDE DEF mail, a, b, p
  <2>1. /\ resend' \in [News!Batch -> NewsMail] /\ resend'[b] = mail
        /\ \A k \in News!Batch : k # b => resend'[k] = resend[k]
    BY <1>3, <1>4, <1>8, <1>11
  <2>2. /\ inbox' \in [News!Person -> 0..2] /\ \A k \in News!Person : k # p => inbox'[k] = inbox[k]
        /\ inbox[p] \in 0..2 /\ (resend[b] # mail => inbox'[p] = IF inbox[p] < 2 THEN inbox[p] + 1 ELSE 2)
        /\ (resend[b] = mail => inbox' = inbox)
    <3>1. CASE resend[b] = mail
      BY <1>3, <1>8, <1>11, <3>1
    <3>2. CASE resend[b] # mail
      <4>1. inbox' = [inbox EXCEPT ![p] = IF inbox[p] < 2 THEN inbox[p] + 1 ELSE 2]
        BY <1>11, <3>2
      <4>2. (IF inbox[p] < 2 THEN inbox[p] + 1 ELSE 2) \in 0..2
        BY <1>3, <1>8
      <4>3. QED
        BY <1>3, <1>8, <3>2, <4>1, <4>2
    <3>3. QED
      BY <3>1, <3>2
  <2>3. inbox'[p] > 0
    <3>1. CASE resend[b] = mail
      BY <1>3, <1>4, <1>9, <2>2, <3>1 DEF NewsKey
    <3>2. CASE resend[b] # mail
      BY <2>2, <3>2
    <3>3. QED
      BY <3>1, <3>2
  <2>4. NewsGrows
    BY <1>1, <2>2, <2>3 DEF NewsGrows
  <2>5. publisher' \in [Publisher -> NewsPublisher] /\ \A o \in Publisher : NewsPlace(o)'
    BY <1>1, <1>7, <1>11, <2>3, <2>4, NewsNext, NewsStops DEF b
  <2>6. NewsDelivery' /\ NewsReached'
    BY <1>1, <2>1, <2>2, <2>4, <2>5 DEF NewsInv, NewsDelivery, NewsIssue, NewsReached, NewsGrows
  <2>7. \A k \in News!Batch : NewsKey(k)'
    <3>1. ASSUME NEW k \in News!Batch, resend'[k] # News!NoMail PROVE inbox'[resend'[k].to] > 0 /\ listings' # {}
      <4>1. CASE k = b
        BY <1>1, <1>2, <1>4, <2>1, <2>3, <4>1
      <4>2. CASE k # b
        BY <1>1, <1>9, <2>1, <2>4, <3>1, <4>2 DEF NewsKey, NewsGrows
      <4>3. QED
        BY <4>1, <4>2
    <3>2. QED
      BY <3>1 DEF NewsKey
  <2>8. NewsOne'
    <3>1. SUFFICES ASSUME ~dropped, \A x, c \in listings : x = c PROVE NewsOne'
      BY <1>1 DEF NewsOne
    <3>2. /\ \A k \in News!Batch :
               resend[k] # News!NoMail => k <= Cardinality(a) /\ resend[k].to = News!Nth(a, k)
          /\ \A k \in News!Person :
               inbox[k] <= 1 /\ (inbox[k] = 1 => \E j \in News!Batch : resend[j] # News!NoMail /\ resend[j].to = k)
      BY <1>2, <3>1, NewsCount DEF NewsInv, NewsIssue, NewsOne
    <3>3. ASSUME NEW k \in News!Batch, resend'[k] # News!NoMail PROVE k <= Cardinality(a) /\ resend'[k].to = News!Nth(a, k)
      BY <1>2, <1>4, <1>7, <2>1, <3>2, <3>3
    <3>4. ASSUME NEW k \in News!Person
          PROVE  inbox'[k] <= 1 /\ (inbox'[k] = 1 => \E j \in News!Batch : resend'[j] # News!NoMail /\ resend'[j].to = k)
      <4>1. CASE resend[b] = mail
        <5>1. \A j \in News!Batch : resend'[j] = resend[j]
          BY <2>1, <4>1
        <5>2. QED
          BY <2>2, <3>2, <4>1, <5>1
      <4>2. CASE resend[b] # mail /\ k = p
        <5>1. resend[b] = News!NoMail
          BY <1>11, <4>2
        <5>2. inbox[p] # 1
          <6>1. SUFFICES ASSUME NEW j \in News!Batch, resend[j] # News!NoMail, resend[j].to = p PROVE FALSE
            BY <1>3, <3>2
          <6>2. j \in 1..Cardinality(a) /\ News!Nth(a, j) = News!Nth(a, b)
            BY <1>2, <1>7, <3>2, <6>1 DEF News!Batch
          <6>3. j = b
            BY <1>2, <6>2
          <6>4. QED
            BY <5>1, <6>1, <6>3
        <5>3. inbox[p] = 0 /\ inbox'[p] = 1
          BY <1>3, <2>2, <3>2, <4>2, <5>2
        <5>4. QED
          BY <1>3, <1>4, <2>1, <4>2, <5>3
      <4>3. CASE resend[b] # mail /\ k # p
        <5>1. resend[b] = News!NoMail /\ inbox'[k] = inbox[k]
          BY <1>11, <2>2, <4>3
        <5>2. \A j \in News!Batch : resend[j] # News!NoMail => resend'[j] = resend[j]
          BY <2>1, <5>1
        <5>3. QED
          BY <3>2, <5>1, <5>2
      <4>4. QED
        BY <4>1, <4>2, <4>3
    <3>5. \A x \in listings' : x = a
      BY <1>1, <1>2, <3>1
    <3>6. QED
      BY <3>3, <3>4, <3>5, NewsCount DEF NewsOne
  <2>9. \A x \in listings' : x # {}
    BY <1>1 DEF NewsInv, NewsIssue
  <2>10. QED
    BY <1>5, <2>5, <2>6, <2>7, <2>8, <2>9 DEF NewsInv, NewsIssue
<1>12. QED
  BY <1>6, <1>10, <1>11

(* The issue is marked published.                                          *)
LEMMA NewsMark ==
  ASSUME News!NewsletterBounds, NewsInv, NEW q \in Publisher, News!MarkPublished(q)
  PROVE  NewsInv'
<1>1. /\ publisher[q].step = "mark" /\ News!Stop(q) /\ UNCHANGED News!people
      /\ UNCHANGED <<inbox, resend, dropped, listings, requests>> /\ (News!Fine \/ News!Fault)
      /\ \/ issue' = [issue EXCEPT !.status = "published"] /\ reached' = publisher[q].audience
         \/ UNCHANGED <<issue, reached>>
  BY DEF News!MarkPublished, News!IssueOnly
<1>2. publisher' \in [Publisher -> NewsPublisher] /\ \A o \in Publisher : NewsPlace(o)'
  BY <1>1, NewsStops DEF NewsGrows
<1>3. NewsCounts' /\ NewsTypes' /\ NewsPeople'
  BY <1>1, NewsCounted, NewsRemembers
<1>4. NewsPlace(q) /\ publisher[q].audience \subseteq News!Person
  BY DEF NewsInv, NewsIssue, NewsDelivery, NewsPublisher
<1>5. NewsDelivery'
  <2>1. reached' \subseteq News!Person /\ issue' \in [status : {"draft", "ready", "published"}, text : Text]
    BY <1>1, <1>4 DEF NewsInv, NewsDelivery
  <2>2. QED
    BY <1>1, <1>2, <2>1 DEF NewsInv, NewsDelivery
<1>6. NewsReached'
  BY <1>1, <1>4 DEF NewsInv, NewsIssue, NewsReached, NewsPlace
<1>7. NewsOne'
  BY <1>1 DEF NewsInv, NewsIssue, NewsOne
<1>8. QED
  BY <1>1, <1>2, <1>3, <1>5, <1>6, <1>7 DEF NewsInv, NewsIssue, NewsKey

(* Resend drops a key.                                                     *)
LEMMA NewsDropped ==
  ASSUME News!NewsletterBounds, NewsInv, NEW b \in News!Batch, News!KeyDropped(b)
  PROVE  NewsInv'
<1>1. /\ resend' = [resend EXCEPT ![b] = News!NoMail] /\ dropped' = TRUE /\ News!Fault
      /\ UNCHANGED News!people /\ UNCHANGED <<issue, publisher, inbox, listings, reached, requests>>
  BY DEF News!KeyDropped
<1>2. NewsCounts' /\ NewsTypes' /\ NewsPeople'
  BY <1>1, NewsCounted, NewsRemembers
<1>3. resend' \in [News!Batch -> NewsMail] /\ \A k \in News!Batch : resend'[k] # News!NoMail => resend'[k] = resend[k]
  BY <1>1 DEF NewsInv, NewsDelivery, NewsMail
<1>4. NewsDelivery'
  BY <1>1, <1>3 DEF NewsInv, NewsDelivery
<1>5. \A q \in Publisher : NewsPlace(q)'
  BY <1>1, NewsStays DEF NewsGrows
<1>6. NewsOne' /\ NewsReached' /\ \A k \in News!Batch : NewsKey(k)'
  BY <1>1, <1>3 DEF NewsInv, NewsIssue, NewsOne, NewsReached, NewsKey
<1>7. QED
  BY <1>1, <1>2, <1>4, <1>5, <1>6 DEF NewsInv, NewsIssue

(* Every step keeps it.                                                    *)
LEMMA NewsStep == News!NewsletterBounds /\ NewsInv /\ News!Next => NewsInv'
BY NewsSignUp, NewsUpsert, NewsConfirm, NewsEdit, NewsPublish, NewsList, NewsSend, NewsMark,
   NewsDropped
   DEF News!Next

(* Nobody is sent the issue twice while its audience stays the same and    *)
(* Resend keeps its keys; unless a document changed under a request, who   *)
(* is active confirmed last, and who unsubscribed is; a published issue    *)
(* went to its whole audience.                                             *)
THEOREM NewsletterKeeps ==
  ASSUME News!NewsletterBounds
  PROVE  News!Init /\ [][News!Next]_News!vars =>
           [](News!TypeOK /\ News!EffectsOnce /\ News!NothingLost)
<1>1. News!Init => NewsInv
  BY NewsInit
<1>2. NewsInv /\ [News!Next]_News!vars => NewsInv'
  BY NewsStep, NewsRests
<1>3. NewsInv => News!TypeOK /\ News!EffectsOnce /\ News!NothingLost
  BY NewsSays
<1>4. QED
  BY <1>1, <1>2, <1>3, PTL

-----------------------------------------------------------------------------
(* The execution core.                                                     *)

(* What a call may hold.                                                   *)
ExecCall == [at : Executing!Stage, channel : Executing!Channel, objective : Objective, copy : SUBSET CoreCall,
             answer : Executing!Answer, status : Executing!Status, cached : BOOLEAN, stored : BOOLEAN]

ExecTypes ==
  /\ call \in [CoreCall -> ExecCall] /\ memory \subseteq Executing!Row /\ file \subseteq CoreCall
  /\ \A m, n \in memory : m.answer = n.answer => m = n
  /\ spoilt \in BOOLEAN /\ lapsedAnswers \subseteq Executing!Answer /\ faults \in 0..FewFaults

(* What a call r that is c holds at each stage.                            *)
ExecShape(r, c) ==
  /\ r.at = "done" <=> r.status # "none"
  /\ r.at = "idle" => r.channel = "api"
  /\ r.cached \/ r.stored => r.status = "ok"
  /\ ~(r.cached /\ r.stored)
  /\ r.answer # Executing!Deferred => r.at \in {"commit", "store", "done"}
  /\ r.answer # Executing!Deferred /\ ~r.cached => r.answer = <<r.objective, c>>
  /\ r.at \in {"work", "commit", "store"} => r.objective \notin Risky
  /\ r.status = "ok" /\ r.channel = "telegram" => r.objective \notin Risky

(* Calls arrive in their order, and the webhook works on one at a time.    *)
ExecOrder(c, d) ==
  c < d => /\ call[d].at # "idle" => call[c].at # "idle"
           /\ call[c].channel = "telegram" /\ call[d].channel = "telegram" => call[c].at = "done"

(* A row is the answer of a call that stored it.                           *)
ExecRow(m) ==
  /\ m.channel = "telegram" => m.vector \notin Risky
  /\ m.answer # Executing!Deferred =>
       /\ call[m.answer[2]].stored /\ call[m.answer[2]].channel = m.channel
       /\ m.vector = Executing!Vector(m.channel, call[m.answer[2]].objective)

(* What was stored is a row until its time has passed.                     *)
ExecKept(c) ==
  call[c].stored /\ call[c].answer # Executing!Deferred =>
    call[c].answer \in lapsedAnswers \/ \E m \in memory : m.answer = call[c].answer

(* A command that went past the memory found none of its like there.       *)
ExecPast(c, d) ==
  c < d /\ Executing!Alike(c, d) /\ call[c].stored /\ call[c].answer # Executing!Deferred
    /\ call[d].at \notin {"idle", "search"} /\ ~call[d].cached
  => call[c].answer \in lapsedAnswers

(* What memory gave back was stored by a call of the channel.              *)
ExecRecalled(c) ==
  call[c].cached /\ call[c].answer # Executing!Deferred =>
    /\ call[call[c].answer[2]].stored /\ call[call[c].answer[2]].channel = call[c].channel
    /\ call[c].channel = "telegram" => Executing!Alike(c, call[c].answer[2])

(* While the gate was not spoilt.                                          *)
ExecGate ==
  ~spoilt =>
    /\ \A c, d \in CoreCall : Executing!AtGate(c) /\ Executing!AtGate(d) => c = d
    /\ \A c \in CoreCall : call[c].at = "save" => call[c].copy = file
    /\ \A c \in CoreCall : call[c].at = "write" => file = {}
    /\ \A c \in CoreCall : call[c].status = "approval_required" =>
         c \in file \/ \E d \in CoreCall : call[d].at = "write" /\ c \in call[d].copy

ExecCalls == \A c \in CoreCall : ExecShape(call[c], c) /\ ExecRecalled(c) /\ ExecKept(c)
ExecPairs == \A c, d \in CoreCall : ExecOrder(c, d) /\ ExecPast(c, d)
ExecRows == \A m \in memory : ExecRow(m)

ExecInv == ExecTypes /\ ExecCalls /\ ExecPairs /\ ExecRows /\ ExecGate

(* An answer is the text of the unserved tiers, or that of a call.         *)
LEMMA ExecAnswer ==
  ASSUME NEW a \in Executing!Answer, a # Executing!Deferred
  PROVE  a[2] \in CoreCall
BY DEF Executing!Answer

(* One that a call had written names it.                                   *)
LEMMA ExecNames ==
  ASSUME NEW o, NEW c
  PROVE  <<o, c>>[2] = c /\ <<o, c>> # Executing!Deferred
BY DEF Executing!Deferred

(* A call that has not arrived.                                            *)
LEMMA ExecIdle ==
  /\ Executing!Idle.at = "idle" /\ Executing!Idle.status = "none" /\ Executing!Idle.channel = "api"
  /\ Executing!Idle.cached = FALSE /\ Executing!Idle.stored = FALSE /\ Executing!Idle.answer = Executing!Deferred
  /\ Objective # {} => Executing!Idle \in ExecCall
<1> DEFINE any == CHOOSE o \in Objective : TRUE
<1>1. Objective # {} => any \in Objective
  OBVIOUS
<1>2. Executing!Idle = [at |-> "idle", channel |-> "api", objective |-> any, copy |-> {}, answer |-> Executing!Deferred,
              status |-> "none", cached |-> FALSE, stored |-> FALSE]
  BY DEF Executing!Idle
<1> HIDE DEF any
<1>3. QED
  BY <1>1, <1>2 DEF ExecCall, Executing!Stage, Executing!Channel, Executing!Status, Executing!Answer

(* It holds at first.                                                      *)
LEMMA ExecInit == Executing!ExecutionBounds /\ Executing!Init => ExecInv
<1> SUFFICES ASSUME Executing!ExecutionBounds, Executing!Init PROVE ExecInv
  OBVIOUS
<1>1. \A c \in CoreCall : call[c] = Executing!Idle
  BY DEF Executing!Init
<1>2. \A c \in CoreCall : /\ call[c].at = "idle" /\ call[c].status = "none" /\ call[c].channel = "api"
                      /\ call[c].cached = FALSE /\ call[c].stored = FALSE /\ call[c].answer = Executing!Deferred
  BY <1>1, ExecIdle
<1>3. ExecTypes
  <2>1. Executing!Idle \in ExecCall
    BY ExecIdle DEF Executing!ExecutionBounds
  <2>2. call \in [CoreCall -> ExecCall] /\ memory = {} /\ file = {} /\ spoilt = FALSE /\ lapsedAnswers = {}
    BY <2>1 DEF Executing!Init
  <2>3. faults \in 0..FewFaults
    BY DEF Executing!Init, Executing!ExecutionBounds
  <2>4. QED
    BY <2>2, <2>3 DEF ExecTypes
<1>4. ExecCalls
  BY <1>2 DEF ExecCalls, ExecShape, ExecRecalled, ExecKept
<1>5. ExecPairs
  BY <1>2 DEF ExecPairs, ExecOrder, ExecPast
<1>6. ExecRows /\ ExecGate
  BY <1>2 DEF Executing!Init, ExecRows, ExecGate, Executing!AtGate
<1>7. QED
  BY <1>3, <1>4, <1>5, <1>6 DEF ExecInv

(* It says what was asked.                                                 *)
LEMMA ExecSays == ExecInv => Executing!TypeOK /\ Executing!EffectsOnce /\ Executing!NothingLost
<1> SUFFICES ASSUME ExecInv PROVE Executing!TypeOK /\ Executing!EffectsOnce /\ Executing!NothingLost
  OBVIOUS
<1>1. \A c \in CoreCall : ExecShape(call[c], c) /\ ExecRecalled(c) /\ call[c] \in ExecCall
  BY DEF ExecInv, ExecCalls, ExecTypes
<1>2. Executing!TypeOK
  <2>1. \A c \in CoreCall : (call[c].at = "done") = (call[c].status # "none")
    BY <1>1 DEF ExecShape
  <2>2. QED
    BY <2>1 DEF ExecInv, ExecTypes, ExecCall, Executing!TypeOK
<1>3. ASSUME NEW c \in CoreCall, NEW d \in CoreCall, c < d, Executing!Alike(c, d), call[c].stored, Executing!Worked(c), Executing!Worked(d)
      PROVE  call[c].answer \in lapsedAnswers
  <2>1. call[d].answer # Executing!Deferred /\ call[d].answer[2] = d /\ call[c].answer # Executing!Deferred
    BY <1>3 DEF Executing!Worked
  <2>2. call[d].at \in {"commit", "store", "done"}
    BY <1>1, <2>1 DEF ExecShape
  <2>3. ~call[d].cached
    <3>1. call[d].cached => call[d].stored
      BY <1>1, <2>1 DEF ExecRecalled
    <3>2. QED
      BY <1>1, <3>1 DEF ExecShape
  <2>4. ExecPast(c, d)
    BY DEF ExecInv, ExecPairs
  <2>5. QED
    BY <1>3, <2>1, <2>2, <2>3, <2>4 DEF ExecPast
<1>4. ASSUME NEW c \in CoreCall, call[c].cached, call[c].answer # Executing!Deferred
      PROVE  /\ call[call[c].answer[2]].stored /\ call[call[c].answer[2]].channel = call[c].channel
             /\ call[c].channel = "telegram" => Executing!Alike(c, call[c].answer[2])
  BY <1>1, <1>4 DEF ExecRecalled
<1>5. Executing!EffectsOnce
  BY <1>3, <1>4 DEF Executing!EffectsOnce
<1>6. ASSUME NEW c \in CoreCall, call[c].channel = "telegram", call[c].objective \in Risky
      PROVE  call[c].status # "ok"
  BY <1>1, <1>6 DEF ExecShape
<1>7. ~spoilt => \A c \in CoreCall : call[c].status = "approval_required" =>
                   c \in file \/ \E d \in CoreCall : call[d].at = "write" /\ c \in call[d].copy
  BY DEF ExecInv, ExecGate
<1>8. QED
  BY <1>2, <1>5, <1>6, <1>7 DEF Executing!NothingLost

(* A step of another service leaves it.                                    *)
LEMMA ExecRests == ExecInv /\ UNCHANGED Executing!execution => ExecInv'
<1> SUFFICES ASSUME ExecInv, UNCHANGED Executing!execution PROVE ExecInv'
  OBVIOUS
<1>1. UNCHANGED <<call, memory, file, spoilt, lapsedAnswers, faults>>
  BY DEF Executing!execution
<1>2. ExecTypes' /\ ExecRows'
  BY <1>1 DEF ExecInv, ExecTypes, ExecRows, ExecRow
<1>3. ExecCalls' /\ ExecPairs'
  BY <1>1 DEF ExecInv, ExecCalls, ExecShape, ExecRecalled, ExecKept, ExecPairs, ExecOrder,
     ExecPast, Executing!Alike
<1>4. ExecGate'
  BY <1>1 DEF ExecInv, ExecGate, Executing!AtGate
<1>5. QED
  BY <1>2, <1>3, <1>4 DEF ExecInv

-----------------------------------------------------------------------------
(* What a step keeps of the calls that have answered, and of the rows.     *)
ExecSteady == \A c \in CoreCall : call[c].at = "done" => call'[c] = call[c]

(* What is said of a row stays said of it.                                 *)
LEMMA ExecRowKept ==
  ASSUME ExecInv, ExecSteady, NEW m \in memory
  PROVE  ExecRow(m)'
<1>1. ExecRow(m) /\ m \in Executing!Row
  BY DEF ExecInv, ExecRows, ExecTypes
<1>2. CASE m.answer = Executing!Deferred
  BY <1>1, <1>2 DEF ExecRow
<1>3. CASE m.answer # Executing!Deferred
  <2>1. m.answer \in Executing!Answer
    BY <1>1 DEF Executing!Row
  <2>2. m.answer[2] \in CoreCall /\ call[m.answer[2]].stored
    BY <1>1, <1>3, <2>1, ExecAnswer DEF ExecRow
  <2>3. call[m.answer[2]].at = "done"
    BY <2>2 DEF ExecInv, ExecCalls, ExecShape
  <2>4. call'[m.answer[2]] = call[m.answer[2]]
    BY <2>2, <2>3 DEF ExecSteady
  <2>5. QED
    BY <1>1, <2>4 DEF ExecRow
<1>4. QED
  BY <1>2, <1>3

(* And of what a call recalled.                                            *)
LEMMA ExecRecalledKept ==
  ASSUME ExecInv, ExecSteady, NEW c \in CoreCall, call'[c] = call[c]
  PROVE  ExecRecalled(c)'
<1> SUFFICES ASSUME call[c].cached, call[c].answer # Executing!Deferred
             PROVE  ExecRecalled(c)'
  BY DEF ExecRecalled
<1> DEFINE d == call[c].answer[2]
<1>1. ExecRecalled(c) /\ call[c].answer \in Executing!Answer
  BY DEF ExecInv, ExecCalls, ExecTypes, ExecCall
<1>2. d \in CoreCall /\ call[d].stored
  BY <1>1, ExecAnswer DEF ExecRecalled
<1>3. call'[d] = call[d]
  BY <1>2 DEF ExecInv, ExecCalls, ExecShape, ExecSteady
<1>4. QED
  BY <1>1, <1>3 DEF ExecRecalled, Executing!Alike

(* A command whose answer was stored is found in memory until its time has *)
(* passed.                                                                 *)
LEMMA ExecFinds ==
  ASSUME ExecInv, NEW c \in CoreCall, NEW x \in CoreCall, Executing!Alike(x, c), call[x].stored,
         call[x].answer # Executing!Deferred, Executing!Hits(c) = {}
  PROVE  call[x].answer \in lapsedAnswers
<1> SUFFICES ASSUME NEW m \in memory, m.answer = call[x].answer, m.answer \notin lapsedAnswers
             PROVE  FALSE
  BY DEF ExecInv, ExecCalls, ExecKept
<1>1. ExecShape(call[x], x) /\ ExecRow(m)
  BY DEF ExecInv, ExecCalls, ExecRows
<1>2. call[x].answer = <<call[x].objective, x>>
  BY <1>1 DEF ExecShape
<1>3. m.answer[2] = x /\ m.answer # Executing!Deferred
  BY <1>2, ExecNames
<1>4. m.channel = "telegram" /\ m.vector = Executing!Vector("telegram", call[x].objective)
  BY <1>1, <1>3 DEF ExecRow, Executing!Alike
<1>5. m \in Executing!Hits(c)
  BY <1>4 DEF Executing!Hits, Executing!Alike
<1>6. QED
  BY <1>5

(* Its order is kept by a step of one call that came in its turn.          *)
LEMMA ExecOrders ==
  ASSUME ExecInv, NEW c \in CoreCall, NEW r \in ExecCall, call' = [call EXCEPT ![c] = r],
         call[c].at # "done", r.at # "idle",
         call[c].at = "idle" => \A d \in CoreCall : d < c => call[d].at # "idle",
         r.channel = "telegram" => call[c].channel = "telegram"
  PROVE  \A x, y \in CoreCall : ExecOrder(x, y)'
<1>1. call'[c] = r /\ \A d \in CoreCall : d # c => call'[d] = call[d]
  BY DEF ExecInv, ExecTypes
<1>2. ASSUME NEW x \in CoreCall, NEW y \in CoreCall, x < y PROVE ExecOrder(x, y)'
  <2>1. ExecOrder(x, y) /\ ExecOrder(x, c) /\ ExecOrder(c, y)
    BY DEF ExecInv, ExecPairs
  <2>2. CASE x = c /\ y = c
    BY <1>1, <2>1, <2>2 DEF ExecOrder
  <2>3. CASE x = c /\ y # c
    BY <1>1, <1>2, <2>1, <2>3 DEF ExecOrder
  <2>4. CASE x # c /\ y = c
    BY <1>1, <1>2, <2>1, <2>4 DEF ExecOrder
  <2>5. CASE x # c /\ y # c
    BY <1>1, <2>1, <2>5 DEF ExecOrder
  <2>6. QED
    BY <2>2, <2>3, <2>4, <2>5
<1>3. QED
  BY <1>2 DEF ExecOrder

(* A step of a call that stores nothing.                                   *)
LEMMA ExecQuiet ==
  ASSUME ExecInv, NEW c \in CoreCall, NEW r \in ExecCall, call' = [call EXCEPT ![c] = r],
         ExecShape(r, c), call[c].at # "done", r.at # "idle",
         r.cached => ExecRecalled(c)', ~r.stored,
         call[c].at = "idle" => \A d \in CoreCall : d < c => call[d].at # "idle",
         r.channel = "telegram" =>
           /\ call[c].channel = "telegram" /\ r.objective = call[c].objective
           /\ call[c].at = "search" => r.cached \/ Executing!Hits(c) = {},
         UNCHANGED <<memory, lapsedAnswers>>
  PROVE  call' \in [CoreCall -> ExecCall] /\ ExecCalls' /\ ExecPairs' /\ ExecRows'
<1>1. /\ call' \in [CoreCall -> ExecCall] /\ call'[c] = r
      /\ \A d \in CoreCall : d # c => call'[d] = call[d]
  BY DEF ExecInv, ExecTypes
<1>2. ExecSteady
  BY <1>1 DEF ExecSteady
<1>3. ExecRows'
  BY <1>2, ExecRowKept DEF ExecRows
<1>4. ASSUME NEW d \in CoreCall PROVE ExecShape(call'[d], d) /\ ExecRecalled(d)' /\ ExecKept(d)'
  <2>1. CASE d = c
    BY <1>1, <2>1 DEF ExecRecalled, ExecKept
  <2>2. CASE d # c
    <3>1. call'[d] = call[d] /\ ExecShape(call[d], d) /\ ExecKept(d)
      BY <1>1, <2>2 DEF ExecInv, ExecCalls
    <3>2. ExecRecalled(d)'
      BY <1>2, <3>1, ExecRecalledKept
    <3>3. QED
      BY <3>1, <3>2 DEF ExecKept
  <2>3. QED
    BY <2>1, <2>2
<1>5. \A x, y \in CoreCall : ExecOrder(x, y)'
  BY ExecOrders
<1>6. ASSUME NEW x \in CoreCall, NEW y \in CoreCall PROVE ExecPast(x, y)'
  <2>1. SUFFICES ASSUME x < y, Executing!Alike(x, y)', call'[x].stored, call'[x].answer # Executing!Deferred,
                        call'[y].at \notin {"idle", "search"}, ~call'[y].cached
                 PROVE  call[x].answer \in lapsedAnswers /\ call'[x] = call[x]
    BY DEF ExecPast
  <2>2. x # c /\ call'[x] = call[x]
    BY <1>1, <2>1
  <2>3. ExecPast(x, y)
    BY DEF ExecInv, ExecPairs
  <2>4. CASE y # c
    BY <1>1, <2>1, <2>2, <2>3, <2>4 DEF ExecPast, Executing!Alike
  <2>5. CASE y = c
    <3>1. Executing!Alike(x, c)
      BY <1>1, <2>1, <2>2, <2>5 DEF Executing!Alike
    <3>2. call[c].channel = "telegram" /\ ExecShape(call[c], c)
      BY <3>1 DEF Executing!Alike, ExecInv, ExecCalls
    <3>3. call[c].at # "idle" /\ ~call[c].cached
      BY <3>2 DEF ExecShape
    <3>4. CASE call[c].at = "search"
      BY <1>1, <2>1, <2>2, <2>5, <3>1, <3>4, ExecFinds DEF Executing!Alike
    <3>5. CASE call[c].at # "search"
      BY <2>1, <2>2, <2>3, <2>5, <3>1, <3>3, <3>5 DEF ExecPast
    <3>6. QED
      BY <3>4, <3>5
  <2>6. QED
    BY <2>2, <2>4, <2>5
<1>7. QED
  BY <1>1, <1>3, <1>4, <1>5, <1>6 DEF ExecCalls, ExecPairs

(* What is kept of the gate by a call that is not at it, nor told to wait. *)
LEMMA ExecAway ==
  ASSUME ExecInv, NEW c \in CoreCall, NEW r \in ExecCall, call' = [call EXCEPT ![c] = r],
         ~Executing!AtGate(c), r.at \notin {"save", "write"},
         r.status = "approval_required" => call[c].status = "approval_required",
         UNCHANGED <<file, spoilt>>
  PROVE  ExecGate'
<1>1. call'[c] = r /\ \A d \in CoreCall : d # c => call'[d] = call[d]
  BY DEF ExecInv, ExecTypes
<1>2. \A d \in CoreCall : Executing!AtGate(d)' => Executing!AtGate(d) /\ call'[d] = call[d]
  BY <1>1 DEF Executing!AtGate
<1>3. \A d \in CoreCall : call'[d].status = "approval_required" => call[d].status = "approval_required"
  BY <1>1
<1>4. \A d \in CoreCall : call[d].at = "write" => call'[d] = call[d]
  BY <1>1 DEF Executing!AtGate
<1>5. SUFFICES ASSUME ~spoilt PROVE ExecGate'
  BY DEF ExecGate
<1>6. /\ \A d, e \in CoreCall : Executing!AtGate(d)' /\ Executing!AtGate(e)' => d = e
      /\ \A d \in CoreCall : call'[d].at = "save" => call'[d].copy = file'
      /\ \A d \in CoreCall : call'[d].at = "write" => file' = {}
  <2>1. /\ \A d, e \in CoreCall : Executing!AtGate(d) /\ Executing!AtGate(e) => d = e
        /\ \A d \in CoreCall : call[d].at = "save" => call[d].copy = file
        /\ \A d \in CoreCall : call[d].at = "write" => file = {}
    BY <1>5 DEF ExecInv, ExecGate
  <2>2. \A d \in CoreCall : call'[d].at \in {"save", "write"} => call'[d] = call[d]
    BY <1>2 DEF Executing!AtGate
  <2>3. \A d, e \in CoreCall : Executing!AtGate(d)' /\ Executing!AtGate(e)' => d = e
    BY <1>2, <2>1
  <2>4. QED
    BY <2>1, <2>2, <2>3
<1>7. ASSUME NEW d \in CoreCall, call'[d].status = "approval_required"
      PROVE  d \in file' \/ \E e \in CoreCall : call'[e].at = "write" /\ d \in call'[e].copy
  BY <1>3, <1>4, <1>5, <1>7 DEF ExecInv, ExecGate
<1>8. QED
  BY <1>6, <1>7 DEF ExecGate, Executing!AtGate

(* The records a step writes are calls.                                    *)
LEMMA ExecRecords ==
  ASSUME NEW r \in ExecCall
  PROVE  /\ \A t \in Executing!Stage : [r EXCEPT !.at = t] \in ExecCall
         /\ \A t \in Executing!Stage, s \in SUBSET CoreCall : [r EXCEPT !.at = t, !.copy = s] \in ExecCall
         /\ \A t \in Executing!Stage, a \in Executing!Answer : [r EXCEPT !.at = t, !.answer = a] \in ExecCall
         /\ \A k \in Executing!Channel, o \in Objective :
              [r EXCEPT !.at = "search", !.channel = k, !.objective = o] \in ExecCall
         /\ \A b \in BOOLEAN, s \in BOOLEAN, a \in Executing!Answer :
              [r EXCEPT !.at = "done", !.status = "ok", !.cached = b, !.stored = s, !.answer = a] \in ExecCall
         /\ \A s \in Executing!Status : [r EXCEPT !.at = "done", !.status = s] \in ExecCall
BY DEF ExecCall, Executing!Stage, Executing!Status

(* A call that ends without an answer.                                     *)
LEMMA ExecEnded ==
  ASSUME Executing!ExecutionBounds, NEW s \in Executing!Status \ {"none", "ok"}, NEW c
  PROVE  /\ Executing!Ended(s) \in ExecCall /\ ExecShape(Executing!Ended(s), c)
         /\ Executing!Ended(s).at = "done" /\ Executing!Ended(s).status = s /\ Executing!Ended(s).channel = "api"
         /\ ~Executing!Ended(s).cached /\ ~Executing!Ended(s).stored
<1>1. Executing!Idle \in ExecCall /\ Executing!Ended(s) = [Executing!Idle EXCEPT !.at = "done", !.status = s]
  BY ExecIdle DEF Executing!ExecutionBounds, Executing!Ended
<1>2. Executing!Ended(s) \in ExecCall
  BY <1>1 DEF ExecCall, Executing!Stage
<1>3. /\ Executing!Ended(s).at = "done" /\ Executing!Ended(s).status = s /\ Executing!Ended(s).channel = "api"
      /\ ~Executing!Ended(s).cached /\ ~Executing!Ended(s).stored /\ Executing!Ended(s).answer = Executing!Deferred
  BY <1>1, ExecIdle DEF ExecCall
<1>4. QED
  BY <1>2, <1>3 DEF ExecShape

-----------------------------------------------------------------------------
(* A call c is let end without an answer, where it was not at the gate.    *)
LEMMA ExecGivenUp ==
  ASSUME Executing!ExecutionBounds, ExecInv, NEW c \in CoreCall, call[c].at # "done", ~Executing!AtGate(c),
         NEW s \in Executing!Status \ {"none", "ok", "approval_required"}, Executing!End(c, s),
         call[c].at = "idle" => \A d \in CoreCall : d < c => call[d].at # "idle",
         UNCHANGED <<memory, file, spoilt, lapsedAnswers>>, faults' \in 0..FewFaults
  PROVE  ExecInv'
<1>1. /\ call' = [call EXCEPT ![c] = Executing!Ended(s)] /\ Executing!Ended(s) \in ExecCall /\ ExecShape(Executing!Ended(s), c)
      /\ Executing!Ended(s).at = "done" /\ Executing!Ended(s).status = s /\ Executing!Ended(s).channel = "api"
      /\ ~Executing!Ended(s).cached /\ ~Executing!Ended(s).stored
  BY ExecEnded DEF Executing!End
<1>2. call' \in [CoreCall -> ExecCall] /\ ExecCalls' /\ ExecPairs' /\ ExecRows'
  BY <1>1, ExecQuiet
<1>3. ExecGate'
  BY <1>1, ExecAway
<1>4. ExecTypes'
  BY <1>2 DEF ExecInv, ExecTypes
<1>5. QED
  BY <1>2, <1>3, <1>4 DEF ExecInv

(* What a call under way holds.                                            *)
LEMMA ExecHolds ==
  ASSUME ExecInv, NEW c \in CoreCall, call[c].at \notin {"idle", "done"}
  PROVE  /\ call[c] \in ExecCall /\ ExecShape(call[c], c)
         /\ call[c].status = "none" /\ ~call[c].cached /\ ~call[c].stored
         /\ \A d \in CoreCall : d < c => call[d].at # "idle"
<1>1. call[c] \in ExecCall /\ ExecShape(call[c], c)
  BY DEF ExecInv, ExecTypes, ExecCalls
<1>2. call[c].status = "none" /\ ~call[c].cached /\ ~call[c].stored
  BY <1>1 DEF ExecShape
<1>3. \A d \in CoreCall : d < c => call[d].at # "idle"
  BY DEF ExecInv, ExecPairs, ExecOrder
<1>4. QED
  BY <1>1, <1>2, <1>3

(* The agent is not registered.                                            *)
LEMMA ExecRefuse ==
  ASSUME Executing!ExecutionBounds, ExecInv, NEW c \in CoreCall, Executing!Refuse(c)
  PROVE  ExecInv'
<1>1. /\ call[c].at = "idle" /\ \A d \in CoreCall : d < c => call[d].at # "idle"
      /\ Executing!End(c, "refused") /\ UNCHANGED <<memory, file, spoilt, lapsedAnswers>>
      /\ faults' \in 0..FewFaults
  BY DEF Executing!Refuse, ExecInv, ExecTypes
<1>2. ~Executing!AtGate(c) /\ "refused" \in Executing!Status \ {"none", "ok", "approval_required"}
  BY <1>1 DEF Executing!AtGate, Executing!Status
<1>3. QED
  BY <1>1, <1>2, ExecGivenUp

(* The table is locked for too long.                                       *)
LEMMA ExecLocked ==
  ASSUME Executing!ExecutionBounds, ExecInv, NEW c \in CoreCall, Executing!Locked(c)
  PROVE  ExecInv'
<1>1. /\ call[c].at \in {"commit", "store"}
      /\ Executing!End(c, "failed") /\ UNCHANGED <<memory, file, spoilt, lapsedAnswers>>
  BY DEF Executing!Locked
<1>2. faults' \in 0..FewFaults
  BY DEF Executing!Locked, Executing!Fault, ExecInv, ExecTypes, Executing!ExecutionBounds
<1>3. ~Executing!AtGate(c) /\ "failed" \in Executing!Status \ {"none", "ok", "approval_required"}
  BY <1>1 DEF Executing!AtGate, Executing!Status
<1>4. QED
  BY <1>1, <1>2, <1>3, ExecGivenUp

(* A call goes on to another stage.                                        *)
LEMMA ExecGoto ==
  ASSUME ExecInv, NEW c \in CoreCall, call[c].at \notin {"idle", "done"},
         NEW t \in Executing!Stage \ {"idle", "search", "done"}, Executing!Goto(c, t),
         t \in {"work", "commit", "store"} => call[c].objective \notin Risky,
         call[c].answer # Executing!Deferred => t \in {"commit", "store"},
         call[c].at = "search" => Executing!Hits(c) = {}, UNCHANGED <<memory, lapsedAnswers>>
  PROVE  /\ call' \in [CoreCall -> ExecCall] /\ ExecCalls' /\ ExecPairs' /\ ExecRows'
         /\ call' = [call EXCEPT ![c] = [call[c] EXCEPT !.at = t]]
         /\ [call[c] EXCEPT !.at = t] \in ExecCall
         /\ [call[c] EXCEPT !.at = t].at = t /\ [call[c] EXCEPT !.at = t].copy = call[c].copy
         /\ [call[c] EXCEPT !.at = t].status = "none"
<1> DEFINE r == [call[c] EXCEPT !.at = t]
<1>1. /\ call[c] \in ExecCall /\ ExecShape(call[c], c) /\ call[c].status = "none"
      /\ ~call[c].cached /\ ~call[c].stored
  BY ExecHolds
<1>2. /\ r \in ExecCall /\ r.at = t /\ r.channel = call[c].channel /\ r.objective = call[c].objective
      /\ r.copy = call[c].copy /\ r.answer = call[c].answer /\ r.status = call[c].status
      /\ r.cached = call[c].cached /\ r.stored = call[c].stored
  BY <1>1 DEF ExecCall
<1>3. call' = [call EXCEPT ![c] = r]
  BY DEF Executing!Goto
<1> HIDE DEF r
<1>4. ExecShape(r, c)
  BY <1>1, <1>2 DEF ExecShape
<1>5. r.at # "idle" /\ ~r.cached /\ ~r.stored /\ r.status = "none"
  BY <1>1, <1>2
<1>6. call' \in [CoreCall -> ExecCall] /\ ExecCalls' /\ ExecPairs' /\ ExecRows'
  BY <1>2, <1>3, <1>4, <1>5, ExecQuiet
<1>7. QED
  BY <1>2, <1>3, <1>5, <1>6 DEF r

(* The tier of an objective.                                               *)
LEMMA ExecTier ==
  ASSUME NEW o
  PROVE  /\ Executing!Tier(o) \in {"work", "commit", "gate"}
         /\ Executing!Tier(o) # "gate" => o \notin Risky
BY DEF Executing!Tier, Executing!Scored

(* The complexity decides the tier.                                        *)
LEMMA ExecRoute ==
  ASSUME Executing!ExecutionBounds, ExecInv, NEW c \in CoreCall, Executing!Route(c)
  PROVE  ExecInv'
<1>1. call[c].at = "search" /\ Executing!Hits(c) = {} /\ UNCHANGED <<memory, file, spoilt, lapsedAnswers, faults>>
  BY DEF Executing!Route
<1>2. call[c].answer = Executing!Deferred /\ ~Executing!AtGate(c)
  BY <1>1, ExecHolds DEF ExecShape, Executing!AtGate
<1>3. CASE Executing!End(c, "refused")
  <2>1. faults' \in 0..FewFaults
    BY <1>1 DEF ExecInv, ExecTypes
  <2>2. "refused" \in Executing!Status \ {"none", "ok", "approval_required"}
    BY DEF Executing!Status
  <2>3. QED
    BY <1>1, <1>2, <1>3, <2>1, <2>2, ExecGivenUp
<1>4. CASE Executing!Goto(c, Executing!Tier(call[c].objective))
  <2> DEFINE t == Executing!Tier(call[c].objective)
             r == [call[c] EXCEPT !.at = t]
  <2>1. t \in Executing!Stage \ {"idle", "search", "done"} /\ t \notin {"save", "write"}
        /\ (t \in {"work", "commit", "store"} => call[c].objective \notin Risky)
    BY ExecTier DEF Executing!Stage
  <2> HIDE DEF t
  <2>2. /\ call' \in [CoreCall -> ExecCall] /\ ExecCalls' /\ ExecPairs' /\ ExecRows'
        /\ call' = [call EXCEPT ![c] = r] /\ r \in ExecCall /\ r.at = t /\ r.status = "none"
    BY <1>1, <1>2, <1>4, <2>1, ExecGoto DEF t
  <2>3. ExecGate'
    BY <1>1, <1>2, <2>1, <2>2, ExecAway
  <2>4. ExecTypes'
    BY <1>1, <2>2 DEF ExecInv, ExecTypes
  <2>5. QED
    BY <2>2, <2>3, <2>4 DEF ExecInv
<1>5. QED
  BY <1>3, <1>4 DEF Executing!Route

(* The file of approvals is read.                                          *)
LEMMA ExecLoad ==
  ASSUME ExecInv, NEW c \in CoreCall, Executing!Load(c)
  PROVE  ExecInv'
<1> DEFINE r == [call[c] EXCEPT !.at = "save", !.copy = file]
<1>1. /\ call[c].at = "gate" /\ UNCHANGED <<memory, file, lapsedAnswers, faults>> /\ call' = [call EXCEPT ![c] = r]
      /\ spoilt' = (spoilt \/ \E d \in CoreCall \ {c} : Executing!AtGate(d))
  BY DEF Executing!Load
<1>2. /\ call[c] \in ExecCall /\ ExecShape(call[c], c) /\ call[c].status = "none"
      /\ ~call[c].cached /\ ~call[c].stored
  BY <1>1, ExecHolds
<1>3. /\ r \in ExecCall /\ r.at = "save" /\ r.channel = call[c].channel /\ r.objective = call[c].objective
      /\ r.copy = file /\ r.answer = call[c].answer /\ r.status = call[c].status
      /\ r.cached = call[c].cached /\ r.stored = call[c].stored
  BY <1>2 DEF ExecCall, ExecInv, ExecTypes, Executing!Stage
<1> HIDE DEF r
<1>4. ExecShape(r, c)
  BY <1>1, <1>2, <1>3 DEF ExecShape
<1>5. call' \in [CoreCall -> ExecCall] /\ ExecCalls' /\ ExecPairs' /\ ExecRows'
  BY <1>1, <1>2, <1>3, <1>4, ExecQuiet
<1>6. ExecTypes'
  BY <1>1, <1>5 DEF ExecInv, ExecTypes
<1>7. ASSUME ~spoilt' PROVE ExecGate'
  <2>1. ~spoilt /\ \A d \in CoreCall : d # c => ~Executing!AtGate(d)
    BY <1>1, <1>7
  <2>2. call'[c] = r /\ \A d \in CoreCall : d # c => call'[d] = call[d]
    BY <1>1 DEF ExecInv, ExecTypes
  <2>3. \A d \in CoreCall : Executing!AtGate(d)' => d = c
    BY <2>1, <2>2 DEF Executing!AtGate
  <2>4. \A d \in CoreCall : call'[d].at = "save" => call'[d].copy = file'
    BY <1>1, <1>3, <2>2, <2>3 DEF Executing!AtGate
  <2>5. \A d \in CoreCall : call'[d].at # "write"
    BY <1>3, <2>2, <2>3 DEF Executing!AtGate
  <2>6. \A d \in CoreCall : call'[d].status = "approval_required" => d \in file'
    <3>1. \A d \in CoreCall : call[d].at # "write"
      BY <1>1, <2>1 DEF Executing!AtGate
    <3>2. \A d \in CoreCall : call[d].status = "approval_required" => d \in file
      BY <2>1, <3>1 DEF ExecInv, ExecGate
    <3>3. QED
      BY <1>1, <1>2, <1>3, <2>2, <3>2
  <2>7. QED
    BY <2>3, <2>4, <2>5, <2>6 DEF ExecGate, Executing!AtGate
<1>8. ExecGate'
  BY <1>7 DEF ExecGate
<1>9. QED
  BY <1>5, <1>6, <1>8 DEF ExecInv

(* It is opened to be written, and is empty.                               *)
LEMMA ExecOpen ==
  ASSUME ExecInv, NEW c \in CoreCall, Executing!Open(c)
  PROVE  ExecInv'
<1> DEFINE r == [call[c] EXCEPT !.at = "write"]
<1>1. call[c].at = "save" /\ Executing!Goto(c, "write") /\ file' = {} /\ UNCHANGED <<memory, spoilt, lapsedAnswers, faults>>
  BY DEF Executing!Open
<1>2. call[c].answer = Executing!Deferred
  BY <1>1, ExecHolds DEF ExecShape
<1>3. /\ call' \in [CoreCall -> ExecCall] /\ ExecCalls' /\ ExecPairs' /\ ExecRows'
      /\ call' = [call EXCEPT ![c] = r] /\ r.at = "write" /\ r.status = "none" /\ r.copy = call[c].copy
  <2>1. "write" \in Executing!Stage \ {"idle", "search", "done"}
    BY DEF Executing!Stage
  <2>2. QED
    BY <1>1, <1>2, <2>1, ExecGoto
<1> HIDE DEF r
<1>4. ExecTypes'
  BY <1>1, <1>3 DEF ExecInv, ExecTypes
<1>5. ASSUME ~spoilt PROVE ExecGate'
  <2>1. call'[c] = r /\ \A d \in CoreCall : d # c => call'[d] = call[d]
    BY <1>3 DEF ExecInv, ExecTypes
  <2>2. \A d \in CoreCall : Executing!AtGate(d) => d = c
    <3>1. Executing!AtGate(c)
      BY <1>1 DEF Executing!AtGate
    <3>2. QED
      BY <1>5, <3>1 DEF ExecInv, ExecGate
  <2>3. \A d \in CoreCall : Executing!AtGate(d)' => d = c
    BY <2>1, <2>2 DEF Executing!AtGate
  <2>4. \A d \in CoreCall : call'[d].at # "save"
    BY <1>3, <2>1, <2>3 DEF Executing!AtGate
  <2>5. ASSUME NEW d \in CoreCall, call'[d].status = "approval_required"
        PROVE  call'[c].at = "write" /\ d \in call'[c].copy
    <3>1. call[d].status = "approval_required"
      BY <1>3, <1>5, <2>1, <2>5
    <3>2. \A e \in CoreCall : call[e].at # "write"
      BY <1>1, <2>2 DEF Executing!AtGate
    <3>3. d \in file /\ call[c].copy = file
      BY <1>1, <1>5, <3>1, <3>2 DEF ExecInv, ExecGate
    <3>4. QED
      BY <1>3, <2>1, <3>3
  <2>6. QED
    BY <1>1, <2>3, <2>4, <2>5 DEF ExecGate, Executing!AtGate
<1>6. ExecGate'
  BY <1>1, <1>5 DEF ExecGate
<1>7. QED
  BY <1>3, <1>4, <1>6 DEF ExecInv

(* It is written.                                                          *)
LEMMA ExecSave ==
  ASSUME Executing!ExecutionBounds, ExecInv, NEW c \in CoreCall, Executing!Save(c)
  PROVE  ExecInv'
<1> DEFINE r == Executing!Ended("approval_required")
<1>1. /\ call[c].at = "write" /\ file' = call[c].copy \cup {c} /\ call' = [call EXCEPT ![c] = r]
      /\ UNCHANGED <<memory, spoilt, lapsedAnswers, faults>>
  BY DEF Executing!Save, Executing!End
<1>2. /\ r \in ExecCall /\ ExecShape(r, c) /\ r.at = "done" /\ r.status = "approval_required"
      /\ r.channel = "api" /\ ~r.cached /\ ~r.stored
  BY ExecEnded DEF Executing!Status
<1> HIDE DEF r
<1>3. call' \in [CoreCall -> ExecCall] /\ ExecCalls' /\ ExecPairs' /\ ExecRows'
  BY <1>1, <1>2, ExecQuiet
<1>4. call[c].copy \subseteq CoreCall
  BY <1>1, ExecHolds DEF ExecCall
<1>5. ExecTypes'
  BY <1>1, <1>3, <1>4 DEF ExecInv, ExecTypes
<1>6. ASSUME ~spoilt PROVE ExecGate'
  <2>1. call'[c] = r /\ \A d \in CoreCall : d # c => call'[d] = call[d]
    BY <1>1 DEF ExecInv, ExecTypes
  <2>2. \A d \in CoreCall : Executing!AtGate(d) => d = c
    BY <1>1, <1>6 DEF ExecInv, ExecGate, Executing!AtGate
  <2>3. \A d \in CoreCall : call'[d].at \notin {"save", "write"}
    BY <1>2, <2>1, <2>2 DEF Executing!AtGate
  <2>4. ASSUME NEW d \in CoreCall, call'[d].status = "approval_required", d # c PROVE d \in file'
    <3>1. d \in file \/ \E e \in CoreCall : call[e].at = "write" /\ d \in call[e].copy
      BY <1>6, <2>1, <2>4 DEF ExecInv, ExecGate
    <3>2. file = {}
      BY <1>1, <1>6 DEF ExecInv, ExecGate
    <3>3. d \in call[c].copy
      BY <2>2, <3>1, <3>2 DEF Executing!AtGate
    <3>4. QED
      BY <1>1, <3>3
  <2>5. \A d \in CoreCall : call'[d].status = "approval_required" => d \in file'
    BY <1>1, <2>4
  <2>6. QED
    BY <2>3, <2>5 DEF ExecGate, Executing!AtGate
<1>7. ExecGate'
  BY <1>1, <1>6 DEF ExecGate
<1>8. QED
  BY <1>3, <1>5, <1>7 DEF ExecInv

(* A step of a call that stays away from the gate and stores nothing.      *)
LEMMA ExecElse ==
  ASSUME ExecInv, NEW c \in CoreCall, NEW r \in ExecCall, call' = [call EXCEPT ![c] = r],
         ExecShape(r, c), call[c].at \in {"work", "commit"}, r.at \in {"commit", "store", "done"},
         ~r.cached, ~r.stored, r.status \in {"none", "ok"},
         r.channel = call[c].channel, r.objective = call[c].objective,
         UNCHANGED <<memory, file, spoilt, lapsedAnswers, faults>>
  PROVE  ExecInv'
<1>1. call' \in [CoreCall -> ExecCall] /\ ExecCalls' /\ ExecPairs' /\ ExecRows'
  BY ExecQuiet
<1>2. ExecGate'
  BY ExecAway DEF Executing!AtGate
<1>3. ExecTypes'
  BY <1>1 DEF ExecInv, ExecTypes
<1>4. QED
  BY <1>1, <1>2, <1>3 DEF ExecInv

(* The agent works.                                                        *)
LEMMA ExecWork ==
  ASSUME Executing!ExecutionBounds, ExecInv, NEW c \in CoreCall, Executing!Work(c)
  PROVE  ExecInv'
<1>1. call[c].at = "work" /\ UNCHANGED <<memory, file, spoilt, lapsedAnswers, faults>>
  BY DEF Executing!Work
<1>2. faults' \in 0..FewFaults /\ ~Executing!AtGate(c)
  BY <1>1 DEF ExecInv, ExecTypes, Executing!AtGate
<1>3. \A s \in {"blocked", "failed"} : s \in Executing!Status \ {"none", "ok", "approval_required"}
  BY DEF Executing!Status
<1>4. CASE Executing!End(c, "blocked") \/ Executing!End(c, "failed")
  BY <1>1, <1>2, <1>3, <1>4, ExecGivenUp
<1>5. CASE call' = [call EXCEPT ![c].at = "commit", ![c].answer = <<call[c].objective, c>>]
  <2> DEFINE a == <<call[c].objective, c>>
             r == [call[c] EXCEPT !.at = "commit", !.answer = a]
  <2>1. /\ call[c] \in ExecCall /\ ExecShape(call[c], c) /\ call[c].status = "none"
        /\ ~call[c].cached /\ ~call[c].stored
    BY <1>1, ExecHolds
  <2>2. a \in Executing!Answer
    BY <2>1 DEF ExecCall, Executing!Answer
  <2>3. call' = [call EXCEPT ![c] = r]
    BY <1>5
  <2>4. a = <<call[c].objective, c>>
    OBVIOUS
  <2> HIDE DEF a
  <2>5. /\ r \in ExecCall /\ r.at = "commit" /\ r.channel = call[c].channel /\ r.objective = call[c].objective
        /\ r.answer = a /\ r.status = call[c].status /\ r.cached = call[c].cached /\ r.stored = call[c].stored
    BY <2>1, <2>2 DEF ExecCall, Executing!Stage
  <2> HIDE DEF r
  <2>6. ExecShape(r, c)
    BY <1>1, <2>1, <2>4, <2>5 DEF ExecShape
  <2>7. QED
    BY <1>1, <2>1, <2>3, <2>5, <2>6, ExecElse
<1>6. QED
  BY <1>4, <1>5 DEF Executing!Work

(* What was written is compared with the rows.                             *)
LEMMA ExecCompare ==
  ASSUME ExecInv, NEW c \in CoreCall, Executing!Compare(c)
  PROVE  ExecInv'
<1>1. call[c].at = "commit" /\ UNCHANGED <<memory, file, spoilt, lapsedAnswers, faults>>
  BY DEF Executing!Compare
<1>2. /\ call[c] \in ExecCall /\ ExecShape(call[c], c) /\ call[c].status = "none"
      /\ ~call[c].cached /\ ~call[c].stored
  BY <1>1, ExecHolds
<1>3. CASE Executing!Reply(c, FALSE, FALSE, call[c].answer)
  <2>1. call[c].answer \in Executing!Answer
    BY <1>2 DEF ExecCall
  <2> DEFINE r == [call[c] EXCEPT !.at = "done", !.status = "ok", !.cached = FALSE, !.stored = FALSE,
                                  !.answer = call[c].answer]
  <2>2. /\ r \in ExecCall /\ r.at = "done" /\ r.status = "ok" /\ r.answer = call[c].answer
        /\ r.cached = FALSE /\ r.stored = FALSE
        /\ r.channel = call[c].channel /\ r.objective = call[c].objective
    BY <1>2, <2>1 DEF ExecCall, Executing!Stage, Executing!Status
  <2>3. call' = [call EXCEPT ![c] = r]
    BY <1>3 DEF Executing!Reply
  <2> HIDE DEF r
  <2>4. ExecShape(r, c)
    BY <1>1, <1>2, <2>2 DEF ExecShape
  <2>5. QED
    BY <1>1, <2>2, <2>3, <2>4, ExecElse
<1>4. CASE Executing!Goto(c, "store")
  <2> DEFINE r == [call[c] EXCEPT !.at = "store"]
  <2>1. call' = [call EXCEPT ![c] = r]
    BY <1>4 DEF Executing!Goto
  <2>2. /\ r \in ExecCall /\ r.at = "store" /\ r.channel = call[c].channel /\ r.objective = call[c].objective
        /\ r.answer = call[c].answer /\ r.status = call[c].status
        /\ r.cached = call[c].cached /\ r.stored = call[c].stored
    BY <1>2 DEF ExecCall, Executing!Stage
  <2> HIDE DEF r
  <2>3. ExecShape(r, c)
    BY <1>1, <1>2, <2>2 DEF ExecShape
  <2>4. QED
    BY <1>1, <1>2, <2>1, <2>2, <2>3, ExecElse
<1>5. QED
  BY <1>3, <1>4 DEF Executing!Compare

(* A call is answered from memory.                                         *)
LEMMA ExecRecall ==
  ASSUME ExecInv, NEW c \in CoreCall, Executing!Recall(c)
  PROVE  ExecInv'
<1>1. call[c].at = "search" /\ UNCHANGED <<memory, file, spoilt, lapsedAnswers, faults>>
  BY DEF Executing!Recall
<1>2. PICK m \in Executing!Hits(c) : Executing!Reply(c, TRUE, FALSE, m.answer)
  BY DEF Executing!Recall
<1> DEFINE r == [call[c] EXCEPT !.at = "done", !.status = "ok", !.cached = TRUE, !.stored = FALSE,
                                !.answer = m.answer]
<1>3. /\ call[c] \in ExecCall /\ ExecShape(call[c], c) /\ call[c].status = "none" /\ ~Executing!AtGate(c)
  BY <1>1, ExecHolds DEF Executing!AtGate
<1>4. /\ m \in memory /\ m \in Executing!Row /\ ExecRow(m) /\ m.channel = call[c].channel
      /\ m.vector = Executing!Vector(call[c].channel, call[c].objective)
  BY <1>2 DEF Executing!Hits, ExecInv, ExecTypes, ExecRows
<1>5. m.answer \in Executing!Answer
  BY <1>4 DEF Executing!Row
<1>6. /\ r \in ExecCall /\ r.at = "done" /\ r.status = "ok" /\ r.answer = m.answer
      /\ r.cached = TRUE /\ r.stored = FALSE
      /\ r.channel = call[c].channel /\ r.objective = call[c].objective
  BY <1>3, <1>5 DEF ExecCall, Executing!Stage, Executing!Status
<1>7. call' = [call EXCEPT ![c] = r]
  BY <1>2 DEF Executing!Reply
<1> HIDE DEF r
<1>8. call'[c] = r /\ \A d \in CoreCall : d # c => call'[d] = call[d]
  BY <1>7 DEF ExecInv, ExecTypes
<1>9. ExecShape(r, c)
  BY <1>3, <1>4, <1>6 DEF ExecShape, ExecRow, Executing!Vector
<1>10. ExecRecalled(c)'
  <2>1. SUFFICES ASSUME m.answer # Executing!Deferred PROVE ExecRecalled(c)'
    BY <1>6, <1>8 DEF ExecRecalled
  <2>2. /\ m.answer[2] \in CoreCall /\ call[m.answer[2]].stored /\ call[m.answer[2]].channel = m.channel
        /\ m.vector = Executing!Vector(m.channel, call[m.answer[2]].objective)
    BY <1>4, <1>5, <2>1, ExecAnswer DEF ExecRow
  <2>3. m.answer[2] # c
    BY <1>1, <2>2 DEF ExecInv, ExecCalls, ExecShape
  <2>4. call'[m.answer[2]] = call[m.answer[2]]
    BY <1>8, <2>2, <2>3
  <2>5. m.channel = "telegram" => call[m.answer[2]].objective = call[c].objective
    BY <1>4, <2>2 DEF Executing!Vector
  <2>6. QED
    BY <1>4, <1>6, <1>8, <2>2, <2>4, <2>5 DEF ExecRecalled, Executing!Alike
<1>11. call' \in [CoreCall -> ExecCall] /\ ExecCalls' /\ ExecPairs' /\ ExecRows'
  BY <1>1, <1>6, <1>7, <1>9, <1>10, ExecQuiet
<1>12. ExecGate'
  BY <1>1, <1>3, <1>6, <1>7, ExecAway
<1>13. ExecTypes'
  BY <1>1, <1>11 DEF ExecInv, ExecTypes
<1>14. QED
  BY <1>11, <1>12, <1>13 DEF ExecInv

(* An answer is stored, in the place of the row of the same text.          *)
LEMMA ExecStore ==
  ASSUME ExecInv, NEW c \in CoreCall, Executing!Store(c)
  PROVE  ExecInv'
<1> DEFINE a == call[c].answer
           new == [channel |-> call[c].channel, answer |-> a,
                   vector |-> Executing!Vector(call[c].channel, call[c].objective)]
           r == [call[c] EXCEPT !.at = "done", !.status = "ok", !.cached = FALSE, !.stored = TRUE, !.answer = a]
<1>1. /\ call[c].at = "store" /\ memory' = {m \in memory : m.answer # a} \cup {new}
      /\ lapsedAnswers' = lapsedAnswers \ {a} /\ UNCHANGED <<file, spoilt, faults>> /\ call' = [call EXCEPT ![c] = r]
  BY DEF Executing!Store, Executing!Reply
<1>2. /\ call[c] \in ExecCall /\ ExecShape(call[c], c) /\ ~call[c].cached /\ ~Executing!AtGate(c)
      /\ \A d \in CoreCall : d < c => call[d].at # "idle"
  BY <1>1, ExecHolds DEF Executing!AtGate
<1>3. a \in Executing!Answer /\ call[c].channel \in Executing!Channel /\ call[c].objective \in Objective
  BY <1>2 DEF ExecCall
<1>4. /\ r \in ExecCall /\ r.at = "done" /\ r.status = "ok" /\ r.answer = a
      /\ r.cached = FALSE /\ r.stored = TRUE
      /\ r.channel = call[c].channel /\ r.objective = call[c].objective
  BY <1>2, <1>3 DEF ExecCall, Executing!Stage, Executing!Status
<1>5. /\ new \in Executing!Row /\ new.channel = call[c].channel /\ new.answer = a
      /\ new.vector = Executing!Vector(call[c].channel, call[c].objective)
  BY <1>3 DEF Executing!Row, Executing!Vectors
<1>6. a = call[c].answer
  OBVIOUS
<1> HIDE DEF a, new, r
<1>7. (a # Executing!Deferred => a = <<call[c].objective, c>> /\ a[2] = c) /\ call[c].objective \notin Risky
  BY <1>1, <1>2, <1>6, ExecNames DEF ExecShape
<1>8. /\ call' \in [CoreCall -> ExecCall] /\ call'[c] = r
      /\ \A d \in CoreCall : d # c => call'[d] = call[d]
  BY <1>1, <1>4 DEF ExecInv, ExecTypes
<1>9. ExecSteady
  BY <1>1, <1>8 DEF ExecSteady
<1>10. ExecShape(r, c)
  BY <1>4, <1>7 DEF ExecShape
<1>11. ExecTypes'
  <2>1. memory' \subseteq Executing!Row /\ \A m, n \in memory' : m.answer = n.answer => m = n
    BY <1>1, <1>5 DEF ExecInv, ExecTypes
  <2>2. QED
    BY <1>1, <1>8, <2>1 DEF ExecInv, ExecTypes
<1>12. ExecRows'
  <2>1. ASSUME NEW m, m = new PROVE ExecRow(m)'
    <3>1. m.channel = call[c].channel /\ m.answer = a /\ m.vector = Executing!Vector(m.channel, call[c].objective)
      BY <1>5, <2>1
    <3>2. m.channel = "telegram" => m.vector \notin Risky
      BY <1>7, <3>1 DEF Executing!Vector
    <3>3. m.answer # Executing!Deferred => m.answer[2] = c
      BY <1>7, <3>1
    <3>4. QED
      BY <1>4, <1>8, <3>1, <3>2, <3>3 DEF ExecRow
  <2>2. \A m \in memory : ExecRow(m)'
    BY <1>9, ExecRowKept
  <2>3. QED
    BY <1>1, <2>1, <2>2 DEF ExecRows
<1>13. ASSUME NEW d \in CoreCall, d # c, call[d].stored, call[d].answer # Executing!Deferred
       PROVE  call[d].answer # a
  <2>1. call[d].answer = <<call[d].objective, d>>
    BY <1>13 DEF ExecInv, ExecCalls, ExecShape
  <2>2. call[d].answer[2] = d
    BY <2>1, ExecNames
  <2>3. QED
    BY <1>7, <1>13, <2>2
<1>14. ASSUME NEW d \in CoreCall PROVE ExecShape(call'[d], d) /\ ExecRecalled(d)' /\ ExecKept(d)'
  <2>1. CASE d = c
    <3>1. new \in memory'
      BY <1>1
    <3>2. QED
      BY <1>4, <1>5, <1>8, <1>10, <2>1, <3>1 DEF ExecRecalled, ExecKept
  <2>2. CASE d # c
    <3>1. call'[d] = call[d] /\ ExecShape(call[d], d) /\ ExecKept(d)
      BY <1>8, <2>2 DEF ExecInv, ExecCalls
    <3>2. ExecRecalled(d)'
      BY <1>9, <3>1, ExecRecalledKept
    <3>3. ExecKept(d)'
      BY <1>1, <1>13, <2>2, <3>1 DEF ExecKept
    <3>4. QED
      BY <3>1, <3>2, <3>3
  <2>3. QED
    BY <2>1, <2>2
<1>15. \A x, y \in CoreCall : ExecOrder(x, y)'
  BY <1>1, <1>2, <1>4, ExecOrders
<1>16. ASSUME NEW x \in CoreCall, NEW y \in CoreCall PROVE ExecPast(x, y)'
  <2>1. SUFFICES ASSUME x < y, Executing!Alike(x, y)', call'[x].stored, call'[x].answer # Executing!Deferred,
                        call'[y].at \notin {"idle", "search"}, ~call'[y].cached
                 PROVE  call'[x].answer \in lapsedAnswers'
    BY DEF ExecPast
  <2>2. Executing!Alike(x, y)
    BY <1>4, <1>8, <2>1 DEF Executing!Alike
  <2>3. x # c
    BY <1>1, <2>1, <2>2 DEF Executing!Alike, ExecInv, ExecPairs, ExecOrder
  <2>4. call'[x] = call[x] /\ call[x].answer # a
    BY <1>8, <1>13, <2>1, <2>3
  <2>5. call[y].at \notin {"idle", "search"} /\ ~call[y].cached
    BY <1>1, <1>2, <1>8, <2>1
  <2>6. call[x].answer \in lapsedAnswers
    BY <2>1, <2>2, <2>4, <2>5 DEF ExecInv, ExecPairs, ExecPast
  <2>7. QED
    BY <1>1, <2>4, <2>6
<1>17. ExecGate'
  BY <1>1, <1>2, <1>4, ExecAway
<1>18. QED
  BY <1>11, <1>12, <1>14, <1>15, <1>16, <1>17 DEF ExecInv, ExecCalls, ExecPairs

(* A call arrives.                                                         *)
LEMMA ExecReceive ==
  ASSUME Executing!ExecutionBounds, ExecInv, NEW c \in CoreCall, NEW k \in Executing!Channel, NEW o \in Objective, Executing!Receive(c, k, o)
  PROVE  ExecInv'
<1> DEFINE r == [Executing!Idle EXCEPT !.at = "search", !.channel = k, !.objective = o]
<1>1. /\ call[c].at = "idle" /\ \A d \in CoreCall : d < c => call[d].at # "idle"
      /\ k = "telegram" => \A d \in CoreCall : ~(call[d].channel = "telegram" /\ Executing!UnderWay(d))
      /\ call' = [call EXCEPT ![c] = r]
      /\ memory' = {m \in memory : m.channel = k => m.answer \notin lapsedAnswers}
      /\ UNCHANGED <<file, spoilt, lapsedAnswers, faults>>
  BY DEF Executing!Receive
<1>2. /\ r \in ExecCall /\ r.at = "search" /\ r.channel = k /\ r.status = "none"
      /\ r.answer = Executing!Deferred /\ r.cached = FALSE /\ r.stored = FALSE
  <2>1. Executing!Idle \in ExecCall
    BY ExecIdle DEF Executing!ExecutionBounds
  <2>2. QED
    BY <2>1, ExecIdle DEF ExecCall, Executing!Stage
<1> HIDE DEF r
<1>3. /\ call' \in [CoreCall -> ExecCall] /\ call'[c] = r
      /\ \A d \in CoreCall : d # c => call'[d] = call[d]
  BY <1>1, <1>2 DEF ExecInv, ExecTypes
<1>4. ExecSteady
  BY <1>1, <1>3 DEF ExecSteady
<1>5. ExecShape(r, c)
  BY <1>2 DEF ExecShape
<1>6. ExecTypes' /\ ExecRows'
  <2>1. memory' \subseteq memory
    BY <1>1
  <2>2. ExecRows'
    BY <1>4, <2>1, ExecRowKept DEF ExecRows
  <2>3. QED
    BY <1>1, <1>3, <2>1, <2>2 DEF ExecInv, ExecTypes
<1>7. ASSUME NEW d \in CoreCall PROVE ExecShape(call'[d], d) /\ ExecRecalled(d)' /\ ExecKept(d)'
  <2>1. CASE d = c
    BY <1>2, <1>3, <1>5, <2>1 DEF ExecRecalled, ExecKept
  <2>2. CASE d # c
    <3>1. call'[d] = call[d] /\ ExecShape(call[d], d) /\ ExecKept(d)
      BY <1>3, <2>2 DEF ExecInv, ExecCalls
    <3>2. ExecRecalled(d)'
      BY <1>4, <3>1, ExecRecalledKept
    <3>3. ExecKept(d)'
      BY <1>1, <3>1 DEF ExecKept
    <3>4. QED
      BY <3>1, <3>2, <3>3
  <2>3. QED
    BY <2>1, <2>2
<1>8. ASSUME NEW x \in CoreCall, NEW y \in CoreCall, x < y PROVE ExecOrder(x, y)'
  <2>1. ExecOrder(x, y) /\ ExecShape(call[x], x) /\ ExecShape(call[y], y)
    BY DEF ExecInv, ExecPairs, ExecCalls
  <2>2. CASE x = c
    <3>1. call'[x] = r /\ (y # c => call'[y] = call[y])
      BY <1>3, <2>2
    <3>2. call[y].at = "idle"
      BY <1>1, <1>8, <2>1, <2>2 DEF ExecOrder
    <3>3. CASE y = c
      BY <1>1, <1>2, <1>8, <2>2, <3>3 DEF Executing!ExecutionBounds
    <3>4. CASE y # c
      BY <1>2, <2>1, <3>1, <3>2, <3>4 DEF ExecOrder, ExecShape
    <3>5. QED
      BY <3>3, <3>4
  <2>3. CASE y = c /\ x # c
    <3>1. call'[x] = call[x] /\ call'[y] = r /\ call[x].at # "idle"
      BY <1>1, <1>3, <1>8, <2>3
    <3>2. call[x].channel = "telegram" /\ k = "telegram" => call[x].at = "done"
      BY <1>1, <3>1 DEF Executing!UnderWay
    <3>3. QED
      BY <1>2, <3>1, <3>2 DEF ExecOrder
  <2>4. CASE x # c /\ y # c
    BY <1>3, <2>1, <2>4 DEF ExecOrder
  <2>5. QED
    BY <2>2, <2>3, <2>4
<1>9. ASSUME NEW x \in CoreCall, NEW y \in CoreCall PROVE ExecPast(x, y)'
  <2>1. ExecPast(x, y)
    BY DEF ExecInv, ExecPairs
  <2>2. CASE x = c \/ y = c
    BY <1>2, <1>3, <2>2 DEF ExecPast
  <2>3. CASE x # c /\ y # c
    BY <1>1, <1>3, <2>1, <2>3 DEF ExecPast, Executing!Alike
  <2>4. QED
    BY <2>2, <2>3
<1>10. ExecGate'
  BY <1>1, <1>2, ExecAway DEF Executing!AtGate
<1>11. \A x, y \in CoreCall : ExecOrder(x, y)'
  BY <1>8 DEF ExecOrder
<1>12. QED
  BY <1>6, <1>7, <1>9, <1>10, <1>11 DEF ExecInv, ExecCalls, ExecPairs

(* A week passes for a row.                                                *)
LEMMA ExecLapse ==
  ASSUME Executing!ExecutionBounds, ExecInv, Executing!Lapse
  PROVE  ExecInv'
<1>1. PICK m \in memory : lapsedAnswers' = lapsedAnswers \cup {m.answer}
  BY DEF Executing!Lapse
<1>2. UNCHANGED <<call, memory, file, spoilt>> /\ faults' \in 0..FewFaults
  BY DEF Executing!Lapse, Executing!Fault, ExecInv, ExecTypes, Executing!ExecutionBounds
<1>3. lapsedAnswers' \subseteq Executing!Answer
  BY <1>1 DEF ExecInv, ExecTypes, Executing!Row
<1>4. ExecTypes' /\ ExecGate'
  BY <1>2, <1>3 DEF ExecInv, ExecTypes, ExecGate, Executing!AtGate
<1>5. ExecRows'
  BY <1>2 DEF ExecInv, ExecRows, ExecRow
<1>6. ExecCalls'
  BY <1>1, <1>2 DEF ExecInv, ExecCalls, ExecShape, ExecRecalled, ExecKept, Executing!Alike
<1>7. ExecPairs'
  BY <1>1, <1>2 DEF ExecInv, ExecPairs, ExecOrder, ExecPast, Executing!Alike
<1>8. QED
  BY <1>4, <1>5, <1>6, <1>7 DEF ExecInv

(* The service ends.                                                       *)
LEMMA ExecCrash ==
  ASSUME Executing!ExecutionBounds, ExecInv, Executing!Crash
  PROVE  ExecInv'
<1> DEFINE gone == Executing!Ended("gone")
<1>1. /\ spoilt' = (spoilt \/ \E c \in CoreCall : call[c].at = "write")
      /\ call' = [c \in CoreCall |-> IF Executing!UnderWay(c) THEN gone ELSE call[c]]
      /\ UNCHANGED <<memory, file, lapsedAnswers>> /\ faults' \in 0..FewFaults
  BY DEF Executing!Crash, Executing!Fault, ExecInv, ExecTypes, Executing!ExecutionBounds
<1>2. /\ gone \in ExecCall /\ \A c : ExecShape(gone, c)
      /\ gone.at = "done" /\ gone.status = "gone" /\ gone.channel = "api" /\ ~gone.cached /\ ~gone.stored
  BY ExecEnded DEF Executing!Status
<1> HIDE DEF gone
<1>3. \A c \in CoreCall : (call'[c] = gone /\ Executing!UnderWay(c)) \/ (call'[c] = call[c] /\ ~Executing!UnderWay(c))
  BY <1>1
<1>4. ExecSteady
  BY <1>3 DEF ExecSteady, Executing!UnderWay
<1>5. ExecTypes'
  <2>1. call' \in [CoreCall -> ExecCall]
    BY <1>1, <1>2 DEF ExecInv, ExecTypes
  <2>2. QED
    BY <1>1, <2>1 DEF ExecInv, ExecTypes
<1>6. ExecRows'
  BY <1>1, <1>4, ExecRowKept DEF ExecRows
<1>7. ASSUME NEW d \in CoreCall PROVE ExecShape(call'[d], d) /\ ExecRecalled(d)' /\ ExecKept(d)'
  <2>1. CASE call'[d] = gone
    BY <1>2, <2>1 DEF ExecRecalled, ExecKept
  <2>2. CASE call'[d] = call[d]
    <3>1. ExecShape(call[d], d) /\ ExecKept(d)
      BY DEF ExecInv, ExecCalls
    <3>2. ExecRecalled(d)'
      BY <1>4, <2>2, ExecRecalledKept
    <3>3. QED
      BY <1>1, <2>2, <3>1, <3>2 DEF ExecKept
  <2>3. QED
    BY <1>3, <2>1, <2>2
<1>8. ASSUME NEW x \in CoreCall, NEW y \in CoreCall PROVE ExecOrder(x, y)' /\ ExecPast(x, y)'
  <2>1. ExecOrder(x, y) /\ ExecPast(x, y)
    BY DEF ExecInv, ExecPairs
  <2>2. /\ call'[y].at # "idle" => call[y].at # "idle"
        /\ call[x].at # "idle" => call'[x].at # "idle"
    BY <1>2, <1>3 DEF Executing!UnderWay
  <2>3. \A z \in CoreCall : call'[z].channel = "telegram" => call'[z] = call[z]
    BY <1>2, <1>3
  <2>4. ExecOrder(x, y)'
    BY <2>1, <2>2, <2>3 DEF ExecOrder
  <2>5. Executing!Alike(x, y)' => Executing!Alike(x, y) /\ call'[x] = call[x] /\ call'[y] = call[y]
    BY <2>3 DEF Executing!Alike
  <2>6. ExecPast(x, y)'
    BY <1>1, <2>1, <2>5 DEF ExecPast
  <2>7. QED
    BY <2>4, <2>6
<1>9. ASSUME ~spoilt' PROVE ExecGate'
  <2>1. ~spoilt /\ \A c \in CoreCall : call[c].at # "write"
    BY <1>1, <1>9
  <2>2. \A c \in CoreCall : call'[c].at \notin {"save", "write"}
    BY <1>2, <1>3 DEF Executing!UnderWay
  <2>3. \A c \in CoreCall : call'[c].status = "approval_required" => c \in file
    BY <1>2, <1>3, <2>1 DEF ExecInv, ExecGate
  <2>4. QED
    BY <1>1, <2>2, <2>3 DEF ExecGate, Executing!AtGate
<1>10. ExecGate'
  BY <1>9 DEF ExecGate
<1>11. QED
  BY <1>5, <1>6, <1>7, <1>8, <1>10 DEF ExecInv, ExecCalls, ExecPairs

(* Every step keeps it.                                                    *)
LEMMA ExecStep == Executing!ExecutionBounds /\ ExecInv /\ Executing!Next => ExecInv'
<1> SUFFICES ASSUME Executing!ExecutionBounds, ExecInv, Executing!Next PROVE ExecInv'
  OBVIOUS
<1>1. CASE Executing!Lapse \/ Executing!Crash
  BY <1>1, ExecLapse, ExecCrash
<1>2. CASE \E c \in CoreCall : Executing!Step(c) \/ \E k \in Executing!Channel, o \in Objective : Executing!Receive(c, k, o)
  <2>1. PICK c \in CoreCall : Executing!Step(c) \/ \E k \in Executing!Channel, o \in Objective : Executing!Receive(c, k, o)
    BY <1>2
  <2>2. CASE Executing!Step(c)
    BY <2>2, ExecRefuse, ExecRecall, ExecRoute, ExecLoad, ExecOpen, ExecSave, ExecWork, ExecCompare,
       ExecStore, ExecLocked DEF Executing!Step
  <2>3. CASE \E k \in Executing!Channel, o \in Objective : Executing!Receive(c, k, o)
    BY <2>3, ExecReceive
  <2>4. QED
    BY <2>1, <2>2, <2>3
<1>3. QED
  BY <1>1, <1>2 DEF Executing!Next

(* A Telegram command is worked on again only when its first answer was   *)
(* not stored or has lapsed, and memory answers with what was written for  *)
(* it; an approval a caller was told of is in the file, or about to be,    *)
(* unless calls met at the gate, and no risky command is answered from     *)
(* memory.                                                                 *)
THEOREM ExecutionKeeps ==
  ASSUME Executing!ExecutionBounds
  PROVE  Executing!Init /\ [][Executing!Next]_Executing!execution =>
           [](Executing!TypeOK /\ Executing!EffectsOnce /\ Executing!NothingLost)
<1>1. Executing!Init => ExecInv
  BY ExecInit
<1>2. ExecInv /\ [Executing!Next]_Executing!execution => ExecInv'
  BY ExecStep, ExecRests
<1>3. ExecInv => Executing!TypeOK /\ Executing!EffectsOnce /\ Executing!NothingLost
  BY ExecSays
<1>4. QED
  BY <1>1, <1>2, <1>3, PTL

-----------------------------------------------------------------------------
(* The backend of the dashboard.                                           *)

(* What a request keeps.                                                   *)
DashVisit == [at : Showing!Stage, kind : Showing!Kind, verdict : Showing!Verdict, position : Nat,
              event : {"queued", "completed", "decided", "triggered"}, todo : SUBSET Screen,
              dead : SUBSET Screen, present : SUBSET Screen]
DashTypes ==
  /\ visit \in [Visit -> DashVisit]
  /\ runRow \in [Visit -> {"none", "queued", "completed", "errored"}]
  /\ decisions \subseteq Visit /\ cycles \subseteq Visit
  /\ screen \in [Screen -> {"new", "open", "closed"}] /\ hub \subseteq Screen
  /\ heard \in [Screen -> Seq(Showing!Event)]
  /\ \A p \in visitsMet : \E a, b \in Visit : a # b /\ p = {a, b}
  /\ faults \in 0..FewFaults

(* Where a request x stands, and what it has written.                      *)
DashShape(x, row, decided, triggered) ==
  /\ x.at # "send" => x.todo = {} /\ x.dead = {}
  /\ x.position <= Cardinality(Visit)
  /\ x.at = "insert" /\ x.kind = "join" => x.position >= 1
  /\ x.at \in {"find", "count"} => x.kind = "join"
  /\ x.at \in {"cast", "send", "work"} => x.kind # "join"
  /\ x.at = "work" => x.kind = "run" /\ row = "queued"
  /\ x.at \in {"cast", "send"} =>
       /\ x.event = IF x.kind = "run" /\ row = "queued" THEN "queued" ELSE Showing!LastEvent(x.kind)
       /\ x.kind = "run" => row # "none"
  /\ row # "none" => x.kind = "run" /\ x.at \notin {"idle", "insert"}
  /\ x.at = "answered" /\ x.kind = "run" => row \in {"completed", "errored"}
  /\ decided => x.kind = "decide" /\ x.at \notin {"idle", "insert"}
  /\ triggered => x.kind = "trigger" /\ x.at \notin {"idle", "insert"}
  /\ x.at \in {"cast", "send", "answered"} =>
       (x.kind = "decide" => decided) /\ (x.kind = "trigger" => triggered)
DashShapes == \A r \in Visit : DashShape(visit[r], runRow[r], r \in decisions, r \in cycles)

(* Who was there when a request came is told of it while open.             *)
DashHeard(c, r, e) == \E i \in DOMAIN heard[c] : heard[c][i] = <<r, e>>
DashTold(x, r) ==
  /\ \A c \in x.present : screen[c] # "new"
  /\ \A c \in x.dead : screen[c] = "closed"
  /\ x.at = "send" /\ x.event = Showing!LastEvent(x.kind) =>
       \A c \in x.present : screen[c] = "open" => c \in x.todo \/ DashHeard(c, r, x.event)
  /\ x.at = "answered" /\ x.kind # "join" =>
       \A c \in x.present : screen[c] = "open" => DashHeard(c, r, Showing!LastEvent(x.kind))
DashTells == \A r \in Visit : DashTold(visit[r], r)

(* Requests come in order, and one still under way when another of its     *)
(* kind came has met it.                                                   *)
DashMeets == \A r, d \in Visit : r < d /\ visit[d].at # "idle" =>
  /\ visit[r].at # "idle"
  /\ Showing!UnderWay(r) /\ visit[r].kind = visit[d].kind => {r, d} \in visitsMet

(* The waitlist, and those who are about to write there.                   *)
DashJoined == {r \in Visit : visit[r].at = "answered" /\ visit[r].kind = "join"}
DashRows ==
  /\ waitlist \subseteq Visit \X Nat
  /\ \A w \in waitlist : w[1] \in DashJoined /\ w[2] \in 1..Cardinality(Visit)
  /\ \A v, w \in waitlist : v # w => {v[1], w[1]} \in visitsMet
  /\ \A r \in Visit : visit[r].at \in {"count", "insert"} /\ visit[r].kind = "join" =>
       \A w \in waitlist : {r, w[1]} \in visitsMet
DashCount == IsFiniteSet(waitlist) /\ Cardinality(waitlist) <= Cardinality(DashJoined)

(* What a dashboard heard is so, and in order but for decisions that met.  *)
DashScreen(c) ==
  /\ screen[c] = "open" => c \in hub
  /\ c \in hub => screen[c] # "new"
  /\ screen[c] = "new" => heard[c] = <<>>
DashTrue(x) ==
  /\ x[2] = "queued" => runRow[x[1]] # "none"
  /\ x[2] = "completed" => runRow[x[1]] \in {"completed", "errored"}
  /\ x[2] = "decided" => x[1] \in decisions
  /\ x[2] = "triggered" => x[1] \in cycles
DashTruth(c) == \A i \in DOMAIN heard[c] : DashTrue(heard[c][i])
DashOrder(c) == \A i, j \in DOMAIN heard[c] :
  i < j /\ heard[c][i][2] = "decided" /\ heard[c][j][2] = "decided" /\ heard[c][j][1] < heard[c][i][1]
    => {heard[c][j][1], heard[c][i][1]} \in visitsMet
DashLate(c) == \A i \in DOMAIN heard[c] : \A d \in Visit :
  /\ heard[c][i][2] = "decided" /\ heard[c][i][1] < d /\ screen[c] = "open"
  /\ visit[d].kind = "decide" /\ visit[d].at # "idle" /\ c \notin visit[d].present
  => {heard[c][i][1], d} \in visitsMet
DashScreens == \A c \in Screen : DashScreen(c) /\ DashTruth(c) /\ DashOrder(c) /\ DashLate(c)

DashInv == DashTypes /\ DashShapes /\ DashTells /\ DashMeets /\ DashRows /\ DashCount /\ DashScreens

(* The module's counts are the library's.                                  *)
LEMMA DashCounting == /\ \A S : Showing!Cardinality(S) = Cardinality(S)
                      /\ \A S : Showing!IsFiniteSet(S) = IsFiniteSet(S)
BY Zenon DEF Showing!Cardinality, Cardinality, Showing!IsFiniteSet, IsFiniteSet

(* What is assumed.                                                        *)
LEMMA DashFinite ==
  ASSUME Showing!DashboardBounds
  PROVE  Visit \subseteq Nat /\ IsFiniteSet(Visit) /\ IsFiniteSet(Screen) /\ FewFaults \in Nat
BY DashCounting DEF Showing!DashboardBounds

(* A finite set of numbers has a greatest one.                             *)
LEMMA DashGreatest ==
  ASSUME NEW S \in SUBSET Nat, IsFiniteSet(S), S # {}
  PROVE  \E m \in S : \A j \in S : j <= m
<1> DEFINE Topped(T) == \E m \in T : \A j \in T : j <= m
           sizes == {n \in Nat : \E T \in SUBSET S : T # {} /\ Cardinality(T) = n /\ ~Topped(T)}
<1>1. SUFFICES ASSUME ~Topped(S) PROVE FALSE
  OBVIOUS
<1>2. Cardinality(S) \in sizes
  BY <1>1, FS_CardinalityType
<1>3. PICK n \in sizes : \A k \in sizes : n <= k
  <2>1. sizes \in SUBSET Nat /\ sizes # {}
    BY <1>2
  <2> HIDE DEF sizes
  <2>2. QED
    BY <2>1, CountLeast
<1>4. PICK T \in SUBSET S : T # {} /\ Cardinality(T) = n /\ ~Topped(T)
  BY <1>3
<1>5. PICK x \in T : TRUE
  BY <1>4
<1> DEFINE U == T \ {x}
<1>6. IsFiniteSet(T) /\ IsFiniteSet(U) /\ Cardinality(U) \in Nat /\ Cardinality(U) + 1 <= n /\ n \in Nat
  BY <1>3, <1>4, <1>5, CountSubset, CountRemove
<1>7. CASE U = {}
  <2>1. T = {x}
    BY <1>5, <1>7
  <2>2. Topped(T)
    BY <1>4, <2>1
  <2>3. QED
    BY <1>4, <2>2
<1>8. CASE U # {}
  <2>1. Cardinality(U) \notin sizes
    <3>1. ~(n <= Cardinality(U))
      BY <1>6
    <3> HIDE DEF sizes
    <3>2. QED
      BY <1>3, <3>1
  <2>2. Topped(U)
    BY <1>6, <1>8, <2>1
  <2>3. PICK m \in U : \A j \in U : j <= m
    BY <2>2
  <2>4. m \in Nat /\ x \in Nat /\ T = U \cup {x} /\ T \subseteq Nat
    BY <1>4, <1>5
  <2>5. CASE x <= m
    BY <1>4, <2>3, <2>4, <2>5
  <2>6. CASE m <= x
    <3>1. \A j \in T : j <= x
      BY <2>3, <2>4, <2>6
    <3>2. QED
      BY <1>4, <1>5, <3>1
  <2>7. QED
    BY <2>4, <2>5, <2>6
<1>9. QED
  BY <1>7, <1>8

(* The last event of a kind of request.                                    *)
LEMMA DashEvents ==
  /\ Showing!LastEvent("run") = "completed" /\ Showing!LastEvent("decide") = "decided"
  /\ Showing!LastEvent("trigger") = "triggered"
BY DEF Showing!LastEvent

(* The invariant of one request.                                           *)
LEMMA DashIs ==
  ASSUME DashInv, NEW r \in Visit
  PROVE  /\ visit[r] \in DashVisit
         /\ DashShape(visit[r], runRow[r], r \in decisions, r \in cycles)
         /\ DashTold(visit[r], r)
         /\ \A c \in Screen : screen[c] = "open" => c \in hub
         /\ runRow[r] \in {"none", "queued", "completed", "errored"}
BY DEF DashInv, DashTypes, DashShapes, DashTells, DashScreens, DashScreen

(* A request that has not come.                                            *)
LEMMA DashIdle ==
  /\ Showing!Idle \in DashVisit /\ Showing!Idle.at = "idle" /\ Showing!Idle.position = 0
  /\ Showing!Idle.todo = {} /\ Showing!Idle.dead = {} /\ Showing!Idle.present = {}
BY DEF Showing!Idle, DashVisit, Showing!Stage, Showing!Kind, Showing!Verdict

(* The number of the requests.                                             *)
LEMMA DashSize ==
  ASSUME Showing!DashboardBounds
  PROVE  Cardinality(Visit) \in Nat /\ Cardinality(Visit) >= 0
<1>1. Cardinality(Visit) \in Nat
  BY DashFinite, FS_CardinalityType
<1>2. QED
  BY <1>1

(* A request that is over keeps only what it was.                          *)
LEMMA DashEnded ==
  ASSUME DashInv, NEW r \in Visit, NEW how \in Showing!Over
  PROVE  /\ Showing!Ended(r, how) \in DashVisit /\ Showing!Ended(r, how).at = how
         /\ Showing!Ended(r, how).kind = visit[r].kind /\ Showing!Ended(r, how).present = visit[r].present
         /\ Showing!Ended(r, how).todo = {} /\ Showing!Ended(r, how).dead = {} /\ Showing!Ended(r, how).position = 0
<1>1. PICK k \in Showing!Kind, v \in Showing!Verdict, p \in SUBSET Screen :
        k = visit[r].kind /\ v = visit[r].verdict /\ p = visit[r].present
  <2>1. visit[r] \in DashVisit
    BY DashIs
  <2>2. QED
    BY <2>1 DEF DashVisit
<1>2. PICK x : x = [Showing!Idle EXCEPT !.at = how, !.kind = k, !.verdict = v, !.present = p]
  OBVIOUS
<1>3. /\ x \in DashVisit /\ x.at = how /\ x.kind = k /\ x.present = p
      /\ x.todo = {} /\ x.dead = {} /\ x.position = 0
  BY <1>1, <1>2, DashIdle DEF DashVisit, Showing!Stage
<1>4. x = Showing!Ended(r, how)
  BY <1>1, <1>2 DEF Showing!Ended
<1>5. QED
  BY <1>1, <1>3, <1>4


(* A request that goes on leaves who met whom as it was.                   *)
LEMMA DashMeeting ==
  ASSUME DashInv, NEW r \in Visit, Showing!UnderWay(r), NEW x \in DashVisit,
         x.at # "idle", x.kind = visit[r].kind,
         visit' = [visit EXCEPT ![r] = x], visitsMet' = visitsMet
  PROVE  DashMeets'
<1>1. /\ visit'[r] = x /\ \A d \in Visit \ {r} : visit'[d] = visit[d]
      /\ visit[r].at # "idle"
  BY DEF DashInv, DashTypes, Showing!UnderWay
<1>2. SUFFICES ASSUME NEW a \in Visit, NEW d \in Visit, a < d, visit'[d].at # "idle"
               PROVE  /\ visit'[a].at # "idle"
                      /\ Showing!UnderWay(a)' /\ visit'[a].kind = visit'[d].kind => {a, d} \in visitsMet'
  BY DEF DashMeets
<1>3. visit[d].at # "idle" /\ visit'[d].kind = visit[d].kind /\ visit'[a].kind = visit[a].kind
  BY <1>1, <1>2
<1>4. Showing!UnderWay(a)' => Showing!UnderWay(a)
  BY <1>1 DEF Showing!UnderWay
<1>5. /\ visit[a].at # "idle"
      /\ Showing!UnderWay(a) /\ visit[a].kind = visit[d].kind => {a, d} \in visitsMet
  BY <1>2, <1>3 DEF DashInv, DashMeets
<1>6. visit'[a].at # "idle"
  BY <1>1, <1>5
<1>7. QED
  BY <1>3, <1>4, <1>5, <1>6

(* And the waitlist, when it does not write there.                         *)
LEMMA DashWaiting ==
  ASSUME Showing!DashboardBounds, DashInv, NEW r \in Visit, Showing!UnderWay(r), NEW x \in DashVisit,
         x.kind = visit[r].kind,
         visit' = [visit EXCEPT ![r] = x], visitsMet' = visitsMet, waitlist' = waitlist,
         x.at \in {"count", "insert"} /\ x.kind = "join" =>
           waitlist = {} \/ visit[r].at \in {"count", "insert"}
  PROVE  DashRows' /\ DashCount'
<1>1. /\ visit'[r] = x /\ \A d \in Visit \ {r} : visit'[d] = visit[d]
      /\ visit[r].at # "answered"
  BY DEF DashInv, DashTypes, Showing!UnderWay, Showing!Over
<1>2. DashJoined \subseteq DashJoined' /\ DashJoined' \subseteq Visit
  BY <1>1 DEF DashJoined
<1>3. DashRows /\ DashCount
  BY DEF DashInv
<1>4. DashRows'
  <2>1. ASSUME NEW d \in Visit, visit'[d].at \in {"count", "insert"}, visit'[d].kind = "join",
               NEW w \in waitlist
        PROVE  {d, w[1]} \in visitsMet
    BY <1>1, <1>3, <2>1 DEF DashRows
  <2>2. QED
    BY <1>2, <1>3, <2>1 DEF DashRows
<1>5. DashCount'
  <2>1. /\ Cardinality(DashJoined) <= Cardinality(DashJoined')
        /\ Cardinality(DashJoined) \in Nat /\ Cardinality(DashJoined') \in Nat
    BY <1>2, DashFinite, CountSubset
  <2>2. IsFiniteSet(waitlist) /\ Cardinality(waitlist) \in Nat
    BY <1>3, FS_CardinalityType DEF DashCount
  <2>3. QED
    BY <1>3, <2>1, <2>2 DEF DashCount
<1>6. QED
  BY <1>4, <1>5

(* What a dashboard heard stays true and in order, when it hears nothing.  *)
LEMMA DashHearing ==
  ASSUME DashInv, NEW r \in Visit, Showing!UnderWay(r), NEW x \in DashVisit,
         x.at # "idle", x.kind = visit[r].kind, x.present = visit[r].present,
         visit' = [visit EXCEPT ![r] = x], visitsMet' = visitsMet,
         NEW c \in Screen, screen'[c] = screen[c], heard'[c] = heard[c],
         hub' \subseteq hub, screen[c] = "open" => c \in hub',
         \A d \in Visit : runRow[d] # "none" => runRow'[d] # "none",
         \A d \in Visit : runRow[d] \in {"completed", "errored"} => runRow'[d] \in {"completed", "errored"},
         decisions \subseteq decisions', cycles \subseteq cycles'
  PROVE  (DashScreen(c) /\ DashTruth(c) /\ DashOrder(c) /\ DashLate(c))'
<1>1. /\ visit'[r] = x /\ \A d \in Visit \ {r} : visit'[d] = visit[d]
      /\ visit[r].at # "idle"
  BY DEF DashInv, DashTypes, Showing!UnderWay
<1>2. DashScreen(c) /\ DashTruth(c) /\ DashOrder(c) /\ DashLate(c) /\ heard[c] \in Seq(Showing!Event)
  BY DEF DashInv, DashScreens, DashTypes
<1>3. DashScreen(c)'
  BY <1>2 DEF DashScreen
<1>4. DashTruth(c)'
  <2>1. SUFFICES ASSUME NEW i \in DOMAIN heard[c] PROVE (DashTrue(heard[c][i]))'
    BY DEF DashTruth
  <2>2. heard[c][i] \in Showing!Event /\ heard[c][i][1] \in Visit
    BY <1>2, <2>1 DEF Showing!Event
  <2>3. DashTrue(heard[c][i])
    BY <1>2, <2>1 DEF DashTruth
  <2>4. QED
    BY <2>2, <2>3 DEF DashTrue
<1>5. DashOrder(c)'
  BY <1>2 DEF DashOrder
<1>6. DashLate(c)'
  <2>1. SUFFICES ASSUME NEW i \in DOMAIN heard[c], NEW d \in Visit,
                        heard[c][i][2] = "decided", heard[c][i][1] < d, screen[c] = "open",
                        visit'[d].kind = "decide", visit'[d].at # "idle", c \notin visit'[d].present
                 PROVE  {heard[c][i][1], d} \in visitsMet
    BY DEF DashLate
  <2>2. visit[d].kind = "decide" /\ visit[d].at # "idle" /\ c \notin visit[d].present
    BY <1>1, <2>1
  <2>3. QED
    BY <1>2, <2>1, <2>2 DEF DashLate
<1>7. QED
  BY <1>3, <1>4, <1>5, <1>6

(* A request goes on, and tells nobody.                                    *)
LEMMA DashMove ==
  ASSUME Showing!DashboardBounds, DashInv, NEW r \in Visit, Showing!UnderWay(r), NEW x \in DashVisit,
         x.at # "idle", x.kind = visit[r].kind, x.present = visit[r].present,
         visit' = [visit EXCEPT ![r] = x], UNCHANGED <<screen, heard, visitsMet>>,
         hub' \subseteq hub, \A c \in Screen : screen[c] = "open" => c \in hub',
         runRow' \in [Visit -> {"none", "queued", "completed", "errored"}],
         decisions' \subseteq Visit, cycles' \subseteq Visit, faults' \in 0..FewFaults,
         \A d \in Visit \ {r} : runRow'[d] = runRow[d],
         \A d \in Visit \ {r} : (d \in decisions' <=> d \in decisions) /\ (d \in cycles' <=> d \in cycles),
         runRow[r] # "none" => runRow'[r] # "none",
         runRow[r] \in {"completed", "errored"} => runRow'[r] \in {"completed", "errored"},
         r \in decisions => r \in decisions', r \in cycles => r \in cycles',
         DashShape(x, runRow'[r], r \in decisions', r \in cycles'), DashTold(x, r),
         DashRows', DashCount'
  PROVE  DashInv'
<1>1. visit' \in [Visit -> DashVisit] /\ visit'[r] = x /\ \A d \in Visit \ {r} : visit'[d] = visit[d]
  BY DEF DashInv, DashTypes
<1>2. DashTypes /\ decisions \subseteq Visit /\ cycles \subseteq Visit
  BY DEF DashInv, DashTypes
<1>3. DashTypes'
  BY <1>1, <1>2 DEF DashTypes
<1>4. DashShapes'
  <2>1. ASSUME NEW d \in Visit \ {r}
        PROVE  DashShape(visit[d], runRow[d], d \in decisions, d \in cycles)'
    <3>1. DashShape(visit[d], runRow[d], d \in decisions, d \in cycles)
      BY DashIs
    <3>2. /\ visit'[d] = visit[d] /\ runRow'[d] = runRow[d]
          /\ (d \in decisions' <=> d \in decisions) /\ (d \in cycles' <=> d \in cycles)
      BY <1>1
    <3>3. QED
      BY <3>1, <3>2 DEF DashShape
  <2>2. DashShape(visit[r], runRow[r], r \in decisions, r \in cycles)'
    BY <1>1 DEF DashShape
  <2>3. QED
    BY <2>1, <2>2 DEF DashShapes
<1>5. DashTells'
  <2>1. screen' = screen /\ heard' = heard
    OBVIOUS
  <2>2. ASSUME NEW c, NEW d, NEW e, DashHeard(c, d, e) PROVE DashHeard(c, d, e)'
    BY <2>1, <2>2 DEF DashHeard
  <2>3. ASSUME NEW d \in Visit, NEW y, y = visit'[d], DashTold(y, d) PROVE DashTold(visit[d], d)'
    BY <2>1, <2>2, <2>3 DEF DashTold
  <2>4. ASSUME NEW d \in Visit, d # r PROVE DashTold(visit[d], d)'
    <3>1. DashTold(visit[d], d) /\ visit'[d] = visit[d]
      BY <1>1, <2>4, DashIs
    <3>2. QED
      BY <2>3, <3>1
  <2>5. DashTold(visit[r], r)'
    BY <1>1, <2>3
  <2>6. QED
    BY <2>4, <2>5 DEF DashTells
<1>6. DashMeets'
  BY DashMeeting
<1>7. DashScreens'
  <2>1. /\ \A d \in Visit : runRow[d] # "none" => runRow'[d] # "none"
        /\ \A d \in Visit : runRow[d] \in {"completed", "errored"} => runRow'[d] \in {"completed", "errored"}
    OBVIOUS
  <2>2. decisions \subseteq decisions' /\ cycles \subseteq cycles'
    BY <1>2
  <2>3. ASSUME NEW c \in Screen PROVE (DashScreen(c) /\ DashTruth(c) /\ DashOrder(c) /\ DashLate(c))'
    <3>1. screen'[c] = screen[c] /\ heard'[c] = heard[c] /\ (screen[c] = "open" => c \in hub') /\ visitsMet' = visitsMet
      OBVIOUS
    <3>2. QED
      BY <2>1, <2>2, <3>1, DashHearing
  <2>4. QED
    BY <2>3 DEF DashScreens
<1>8. QED
  BY <1>3, <1>4, <1>5, <1>6, <1>7 DEF DashInv

(* And writes nothing.                                                     *)
LEMMA DashQuiet ==
  ASSUME Showing!DashboardBounds, DashInv, NEW r \in Visit, Showing!UnderWay(r), NEW x \in DashVisit,
         x.at # "idle", x.kind = visit[r].kind, x.present = visit[r].present,
         visit' = [visit EXCEPT ![r] = x], UNCHANGED <<screen, heard, visitsMet>>,
         UNCHANGED Showing!Rows, hub' \subseteq hub, \A c \in Screen : screen[c] = "open" => c \in hub',
         faults' \in 0..FewFaults,
         DashShape(x, runRow[r], r \in decisions, r \in cycles), DashTold(x, r),
         x.at \in {"count", "insert"} /\ x.kind = "join" =>
           waitlist = {} \/ visit[r].at \in {"count", "insert"}
  PROVE  DashInv'
<1>1. waitlist' = waitlist /\ runRow' = runRow /\ decisions' = decisions /\ cycles' = cycles
  BY DEF Showing!Rows
<1>2. DashRows' /\ DashCount'
  BY <1>1, DashWaiting
<1>3. /\ runRow' \in [Visit -> {"none", "queued", "completed", "errored"}]
      /\ decisions' \subseteq Visit /\ cycles' \subseteq Visit
  BY <1>1 DEF DashInv, DashTypes
<1>4. DashShape(x, runRow'[r], r \in decisions', r \in cycles')
  BY <1>1 DEF DashShape
<1>5. QED
  BY <1>1, <1>2, <1>3, <1>4, DashMove

(* A request at its next stage.                                            *)
LEMMA DashGoto ==
  ASSUME DashInv, NEW r \in Visit, NEW there \in Showing!Stage, NEW x, x = [visit[r] EXCEPT !.at = there]
  PROVE  /\ x \in DashVisit /\ x.at = there /\ x.kind = visit[r].kind /\ x.present = visit[r].present
         /\ x.position = visit[r].position /\ x.event = visit[r].event
         /\ x.todo = visit[r].todo /\ x.dead = visit[r].dead
BY DashIs DEF DashVisit

(* Where no one is opened or closed.                                       *)
LEMMA DashUnmoved ==
  ASSUME DashInv, NEW r \in Visit, UNCHANGED Showing!Screens
  PROVE  /\ UNCHANGED <<screen, heard>> /\ hub' \subseteq hub
         /\ \A c \in Screen : screen[c] = "open" => c \in hub'
BY DashIs DEF Showing!Screens

(* The bound on faults.                                                    *)
LEMMA DashFault ==
  ASSUME Showing!DashboardBounds, DashInv, UNCHANGED faults \/ Showing!Fault
  PROVE  faults' \in 0..FewFaults
<1>1. FewFaults \in Nat /\ faults \in 0..FewFaults
  BY DashFinite DEF DashInv, DashTypes
<1>2. faults' = faults \/ (faults < FewFaults /\ faults' = faults + 1)
  BY DEF Showing!Fault
<1>3. QED
  BY <1>1, <1>2

(* A request that fails to find its end is over, without an answer.        *)
LEMMA DashOver ==
  ASSUME Showing!DashboardBounds, DashInv, NEW r \in Visit, NEW how \in {"failed", "gone"}
  PROVE  /\ DashShape(Showing!Ended(r, how), runRow[r], r \in decisions, r \in cycles)
         /\ DashTold(Showing!Ended(r, how), r)
<1>1. /\ DashShape(visit[r], runRow[r], r \in decisions, r \in cycles)
      /\ DashTold(visit[r], r)
  BY DashIs
<1>2. PICK x \in DashVisit : x = Showing!Ended(r, how)
  BY DashEnded DEF Showing!Over
<1>3. /\ x.at = how /\ x.kind = visit[r].kind /\ x.present = visit[r].present
      /\ x.todo = {} /\ x.dead = {} /\ x.position = 0
  BY <1>2, DashEnded DEF Showing!Over
<1>4. Cardinality(Visit) >= 0
  BY DashSize
<1>5. DashShape(x, runRow[r], r \in decisions, r \in cycles)
  BY <1>1, <1>3, <1>4 DEF DashShape
<1>6. DashTold(x, r)
  BY <1>1, <1>3 DEF DashTold
<1>7. QED
  BY <1>2, <1>5, <1>6

(* A request for the waitlist looks the address up.                        *)
LEMMA DashFind ==
  ASSUME Showing!DashboardBounds, DashInv, NEW r \in Visit, Showing!Find(r)
  PROVE  DashInv'
<1>1. visit[r].at = "find" /\ UNCHANGED <<Showing!Rows, Showing!Screens, visitsMet, faults>>
  BY DEF Showing!Find
<1>2. /\ DashShape(visit[r], runRow[r], r \in decisions, r \in cycles)
      /\ DashTold(visit[r], r) /\ Showing!UnderWay(r) /\ visit[r].kind = "join"
  BY <1>1, DashIs DEF Showing!UnderWay, Showing!Over, DashShape
<1>3. /\ UNCHANGED <<screen, heard, visitsMet>> /\ UNCHANGED Showing!Rows /\ hub' \subseteq hub
      /\ \A c \in Screen : screen[c] = "open" => c \in hub'
      /\ faults' \in 0..FewFaults
  BY <1>1, DashUnmoved, DashFault
<1>4. CASE waitlist = {} /\ Showing!Goto(r, "count")
  <2>1. PICK x : x = [visit[r] EXCEPT !.at = "count"]
    OBVIOUS
  <2>2. /\ x \in DashVisit /\ x.at = "count" /\ x.kind = visit[r].kind /\ x.present = visit[r].present
        /\ x.position = visit[r].position /\ x.event = visit[r].event
        /\ x.todo = visit[r].todo /\ x.dead = visit[r].dead
    BY <2>1, DashGoto DEF Showing!Stage
  <2>3. visit' = [visit EXCEPT ![r] = x]
    BY <1>4, <2>1 DEF Showing!Goto
  <2>4. DashShape(x, runRow[r], r \in decisions, r \in cycles)
    BY <1>1, <1>2, <2>2 DEF DashShape
  <2>5. DashTold(x, r)
    BY <1>1, <1>2, <2>2 DEF DashTold
  <2>6. waitlist = {} /\ x.at # "idle"
    BY <1>4, <2>2
  <2>7. QED
    BY <1>2, <1>3, <2>2, <2>3, <2>4, <2>5, <2>6, DashQuiet
<1>5. CASE waitlist # {} /\ Showing!End(r, "answered")
  <2>1. PICK x \in DashVisit : x = Showing!Ended(r, "answered")
    BY DashEnded DEF Showing!Over
  <2>2. /\ x.at = "answered" /\ x.kind = visit[r].kind /\ x.present = visit[r].present
        /\ x.todo = {} /\ x.dead = {} /\ x.position = 0
    BY <2>1, DashEnded DEF Showing!Over
  <2>3. visit' = [visit EXCEPT ![r] = x]
    BY <1>5, <2>1 DEF Showing!End
  <2>5. Cardinality(Visit) >= 0
    BY DashSize
  <2>6. DashShape(x, runRow[r], r \in decisions, r \in cycles)
    BY <1>1, <1>2, <2>2, <2>5 DEF DashShape
  <2>7. DashTold(x, r)
    BY <1>1, <1>2, <2>2 DEF DashTold
  <2>8. x.at \notin {"count", "insert"} /\ x.at # "idle"
    BY <2>2
  <2>9. QED
    BY <1>2, <1>3, <2>2, <2>3, <2>6, <2>7, <2>8, DashQuiet
<1>6. QED
  BY <1>4, <1>5 DEF Showing!Find

(* Counts the rows.                                                        *)
LEMMA DashCounts ==
  ASSUME Showing!DashboardBounds, DashInv, NEW r \in Visit, Showing!Count(r)
  PROVE  DashInv'
<1>1. /\ visit[r].at = "count" /\ UNCHANGED <<Showing!Rows, Showing!Screens, visitsMet, faults>>
      /\ visit' = [visit EXCEPT ![r].at = "insert", ![r].position = Cardinality(waitlist) + 1]
  BY DashCounting DEF Showing!Count
<1>2. /\ DashShape(visit[r], runRow[r], r \in decisions, r \in cycles)
      /\ DashTold(visit[r], r) /\ Showing!UnderWay(r) /\ visit[r].kind = "join" /\ visit[r] \in DashVisit
  BY <1>1, DashIs DEF Showing!UnderWay, Showing!Over, DashShape
<1>3. /\ UNCHANGED <<screen, heard, visitsMet>> /\ UNCHANGED Showing!Rows /\ hub' \subseteq hub
      /\ \A c \in Screen : screen[c] = "open" => c \in hub'
      /\ faults' \in 0..FewFaults
  BY <1>1, DashUnmoved, DashFault
<1>4. PICK n : n = Cardinality(waitlist) + 1
  OBVIOUS
<1>5. n \in Nat /\ n >= 1 /\ n <= Cardinality(Visit)
  <2>1. r \notin DashJoined /\ DashJoined \subseteq Visit \ {r}
    BY <1>1 DEF DashJoined
  <2>2. /\ Cardinality(DashJoined) + 1 <= Cardinality(Visit)
        /\ Cardinality(DashJoined) \in Nat /\ Cardinality(Visit) \in Nat
    BY <2>1, DashFinite, CountRemove
  <2>3. Cardinality(waitlist) <= Cardinality(DashJoined) /\ Cardinality(waitlist) \in Nat
    BY FS_CardinalityType DEF DashInv, DashCount
  <2>4. QED
    BY <1>4, <2>2, <2>3
<1>6. PICK x : x = [visit[r] EXCEPT !.at = "insert", !.position = n]
  OBVIOUS
<1>7. /\ x \in DashVisit /\ x.at = "insert" /\ x.kind = visit[r].kind /\ x.present = visit[r].present
      /\ x.position = n /\ x.event = visit[r].event
      /\ x.todo = visit[r].todo /\ x.dead = visit[r].dead
  BY <1>2, <1>5, <1>6 DEF DashVisit, Showing!Stage
<1>8. visit' = [visit EXCEPT ![r] = x]
  BY <1>1, <1>4, <1>6
<1>9. DashShape(x, runRow[r], r \in decisions, r \in cycles)
  BY <1>1, <1>2, <1>5, <1>7 DEF DashShape
<1>10. DashTold(x, r)
  BY <1>1, <1>2, <1>7 DEF DashTold
<1>11. visit[r].at \in {"count", "insert"} /\ x.at # "idle"
  BY <1>1, <1>7
<1>12. QED
  BY <1>2, <1>3, <1>7, <1>8, <1>9, <1>10, <1>11, DashQuiet

(* The row of a run, a decision or a cycle.                                *)
LEMMA DashInsert ==
  ASSUME Showing!DashboardBounds, DashInv, NEW r \in Visit, Showing!Insert(r)
  PROVE  DashInv'
<1> DEFINE kind == visit[r].kind
           event == IF kind = "run" THEN "queued" ELSE Showing!LastEvent(kind)
<1>1. /\ visit[r].at = "insert" /\ kind # "join" /\ UNCHANGED <<waitlist, Showing!Screens, visitsMet, faults>>
      /\ visit' = [visit EXCEPT ![r].at = "cast", ![r].event = event]
      /\ runRow' = IF kind = "run" THEN [runRow EXCEPT ![r] = "queued"] ELSE runRow
      /\ decisions' = IF kind = "decide" THEN decisions \cup {r} ELSE decisions
      /\ cycles' = IF kind = "trigger" THEN cycles \cup {r} ELSE cycles
  BY DEF Showing!Insert
<1>2. /\ DashShape(visit[r], runRow[r], r \in decisions, r \in cycles)
      /\ DashTold(visit[r], r) /\ Showing!UnderWay(r) /\ visit[r] \in DashVisit
  BY <1>1, DashIs DEF Showing!UnderWay, Showing!Over
<1>3. /\ UNCHANGED <<screen, heard, visitsMet>> /\ hub' \subseteq hub
      /\ \A c \in Screen : screen[c] = "open" => c \in hub'
      /\ faults' \in 0..FewFaults
  BY <1>1, DashUnmoved, DashFault
<1>4. runRow[r] = "none" /\ r \notin decisions /\ r \notin cycles
  BY <1>1, <1>2, DashIs DEF DashShape
<1>5. /\ runRow \in [Visit -> {"none", "queued", "completed", "errored"}]
      /\ decisions \subseteq Visit /\ cycles \subseteq Visit
  BY DEF DashInv, DashTypes
<1>6. /\ kind \in {"run", "decide", "trigger"}
      /\ event \in {"queued", "completed", "decided", "triggered"}
  BY <1>1, <1>2, DashEvents DEF DashVisit, Showing!Kind
<1>7. PICK e : e = event
  OBVIOUS
<1>8. PICK x : x = [visit[r] EXCEPT !.at = "cast", !.event = e]
  OBVIOUS
<1>9. /\ x \in DashVisit /\ x.at = "cast" /\ x.kind = kind /\ x.present = visit[r].present
      /\ x.position = visit[r].position /\ x.event = e
      /\ x.todo = visit[r].todo /\ x.dead = visit[r].dead
  BY <1>2, <1>6, <1>7, <1>8 DEF DashVisit, Showing!Stage
<1>10. visit' = [visit EXCEPT ![r] = x]
  BY <1>1, <1>7, <1>8
<1>11. e = IF kind = "run" THEN "queued" ELSE Showing!LastEvent(kind)
  BY <1>7
<1>12. /\ runRow'[r] = IF kind = "run" THEN "queued" ELSE "none"
       /\ r \in decisions' <=> kind = "decide"
       /\ r \in cycles' <=> kind = "trigger"
  BY <1>1, <1>4, <1>5
<1> HIDE DEF event
<1>13. DashShape(x, runRow'[r], r \in decisions', r \in cycles')
  BY <1>1, <1>2, <1>6, <1>9, <1>11, <1>12 DEF DashShape
<1>14. DashTold(x, r)
  <2>1. CASE kind = "run"
    BY <1>1, <1>2, <1>9, <2>1, DashEvents DEF DashTold
  <2>2. CASE kind # "run"
    BY <1>1, <1>2, <1>9, <2>2 DEF DashTold
  <2>3. QED
    BY <2>1, <2>2
<1>15. /\ runRow' \in [Visit -> {"none", "queued", "completed", "errored"}]
       /\ decisions' \subseteq Visit /\ cycles' \subseteq Visit
  BY <1>1, <1>5
<1>16. \A d \in Visit \ {r} : runRow'[d] = runRow[d]
  BY <1>1, <1>5
<1>17. \A d \in Visit \ {r} : (d \in decisions' <=> d \in decisions) /\ (d \in cycles' <=> d \in cycles)
  BY <1>1
<1>18. x.at \notin {"count", "insert"} /\ x.at # "idle" /\ waitlist' = waitlist
  BY <1>1, <1>9
<1>19. DashRows' /\ DashCount'
  BY <1>2, <1>3, <1>9, <1>10, <1>18, DashWaiting
<1>20. QED
  BY <1>2, <1>3, <1>4, <1>9, <1>10, <1>13, <1>14, <1>15, <1>16, <1>17, <1>18, <1>19, DashMove

(* The outcome of a run.                                                   *)
LEMMA DashWork ==
  ASSUME Showing!DashboardBounds, DashInv, NEW r \in Visit, Showing!Work(r)
  PROVE  DashInv'
<1>1. /\ visit[r].at = "work" /\ UNCHANGED <<waitlist, decisions, cycles, Showing!Screens, visitsMet, faults>>
      /\ visit' = [visit EXCEPT ![r].at = "cast", ![r].event = "completed"]
  BY DEF Showing!Work
<1>2. PICK outcome \in {"completed", "errored"} : runRow' = [runRow EXCEPT ![r] = outcome]
  BY DEF Showing!Work
<1>3. /\ DashShape(visit[r], runRow[r], r \in decisions, r \in cycles)
      /\ DashTold(visit[r], r) /\ Showing!UnderWay(r) /\ visit[r] \in DashVisit
  BY <1>1, DashIs DEF Showing!UnderWay, Showing!Over
<1>4. /\ UNCHANGED <<screen, heard, visitsMet>> /\ hub' \subseteq hub
      /\ \A c \in Screen : screen[c] = "open" => c \in hub'
      /\ faults' \in 0..FewFaults
  BY <1>1, DashUnmoved, DashFault
<1>5. /\ runRow \in [Visit -> {"none", "queued", "completed", "errored"}]
      /\ decisions \subseteq Visit /\ cycles \subseteq Visit
  BY DEF DashInv, DashTypes
<1>6. PICK x : x = [visit[r] EXCEPT !.at = "cast", !.event = "completed"]
  OBVIOUS
<1>7. /\ x \in DashVisit /\ x.at = "cast" /\ x.kind = visit[r].kind /\ x.present = visit[r].present
      /\ x.position = visit[r].position /\ x.event = "completed"
      /\ x.todo = visit[r].todo /\ x.dead = visit[r].dead
  BY <1>3, <1>6 DEF DashVisit, Showing!Stage
<1>8. visit' = [visit EXCEPT ![r] = x]
  BY <1>1, <1>6
<1>9. visit[r].kind = "run" /\ runRow'[r] \in {"completed", "errored"}
  BY <1>1, <1>2, <1>3, <1>5 DEF DashShape
<1>10. DashShape(x, runRow'[r], r \in decisions', r \in cycles')
  BY <1>1, <1>3, <1>7, <1>9, DashEvents DEF DashShape
<1>11. DashTold(x, r)
  BY <1>1, <1>3, <1>7 DEF DashTold
<1>12. /\ runRow' \in [Visit -> {"none", "queued", "completed", "errored"}]
       /\ decisions' \subseteq Visit /\ cycles' \subseteq Visit
  BY <1>1, <1>2, <1>5
<1>13. \A d \in Visit \ {r} : runRow'[d] = runRow[d]
  BY <1>2, <1>5
<1>14. \A d \in Visit \ {r} : (d \in decisions' <=> d \in decisions) /\ (d \in cycles' <=> d \in cycles)
  BY <1>1
<1>15. x.at \notin {"count", "insert"} /\ x.at # "idle" /\ waitlist' = waitlist
  BY <1>1, <1>7
<1>16. DashRows' /\ DashCount'
  BY <1>3, <1>4, <1>7, <1>8, <1>15, DashWaiting
<1>17. /\ r \in decisions => r \in decisions'
       /\ r \in cycles => r \in cycles'
       /\ runRow'[r] # "none"
  BY <1>1, <1>9
<1>18. QED
  BY <1>3, <1>4, <1>7, <1>8, <1>9, <1>10, <1>11, <1>12, <1>13, <1>14, <1>15, <1>16, <1>17, DashMove

(* Those who are to be told.                                               *)
LEMMA DashSnapshot ==
  ASSUME Showing!DashboardBounds, DashInv, NEW r \in Visit, Showing!Snapshot(r)
  PROVE  DashInv'
<1>1. /\ visit[r].at = "cast" /\ UNCHANGED <<Showing!Rows, Showing!Screens, visitsMet, faults>>
      /\ visit' = [visit EXCEPT ![r].at = "send", ![r].todo = hub]
  BY DEF Showing!Snapshot
<1>2. /\ DashShape(visit[r], runRow[r], r \in decisions, r \in cycles)
      /\ DashTold(visit[r], r) /\ Showing!UnderWay(r) /\ visit[r] \in DashVisit /\ hub \subseteq Screen
      /\ \A c \in Screen : screen[c] = "open" => c \in hub
  BY <1>1, DashIs DEF Showing!UnderWay, Showing!Over, DashInv, DashTypes
<1>3. /\ UNCHANGED <<screen, heard, visitsMet>> /\ UNCHANGED Showing!Rows /\ hub' \subseteq hub
      /\ \A c \in Screen : screen[c] = "open" => c \in hub'
      /\ faults' \in 0..FewFaults
  BY <1>1, DashUnmoved, DashFault
<1>4. PICK x : x = [visit[r] EXCEPT !.at = "send", !.todo = hub]
  OBVIOUS
<1>5. /\ x \in DashVisit /\ x.at = "send" /\ x.kind = visit[r].kind /\ x.present = visit[r].present
      /\ x.position = visit[r].position /\ x.event = visit[r].event
      /\ x.todo = hub /\ x.dead = visit[r].dead
  BY <1>2, <1>4 DEF DashVisit, Showing!Stage
<1>6. visit' = [visit EXCEPT ![r] = x]
  BY <1>1, <1>4
<1>7. DashShape(x, runRow[r], r \in decisions, r \in cycles)
  BY <1>1, <1>2, <1>5 DEF DashShape
<1>8. DashTold(x, r)
  <2>1. x.present \subseteq Screen
    BY <1>5 DEF DashVisit
  <2>2. QED
    BY <1>1, <1>2, <1>5, <2>1 DEF DashTold
<1>9. x.at \notin {"count", "insert"} /\ x.at # "idle"
  BY <1>5
<1>10. QED
  BY <1>2, <1>3, <1>5, <1>6, <1>7, <1>8, <1>9, DashQuiet

(* All were told: what was found dead is forgotten.                        *)
LEMMA DashSent ==
  ASSUME Showing!DashboardBounds, DashInv, NEW r \in Visit, Showing!Sent(r)
  PROVE  DashInv'
<1>1. /\ visit[r].at = "send" /\ visit[r].todo = {} /\ UNCHANGED <<Showing!Rows, screen, heard, visitsMet, faults>>
      /\ hub' = hub \ visit[r].dead
      /\ IF visit[r].event = "queued" THEN visit' = [visit EXCEPT ![r].dead = {}, ![r].at = "work"]
         ELSE Showing!End(r, "answered")
  BY DEF Showing!Sent
<1>2. /\ DashShape(visit[r], runRow[r], r \in decisions, r \in cycles)
      /\ DashTold(visit[r], r) /\ Showing!UnderWay(r) /\ visit[r] \in DashVisit
      /\ \A c \in Screen : screen[c] = "open" => c \in hub
  BY <1>1, DashIs DEF Showing!UnderWay, Showing!Over
<1>3. /\ UNCHANGED <<screen, heard, visitsMet>> /\ UNCHANGED Showing!Rows /\ hub' \subseteq hub
      /\ faults' \in 0..FewFaults
  BY <1>1, DashFault
<1>4. \A c \in Screen : screen[c] = "open" => c \in hub'
  BY <1>1, <1>2 DEF DashTold
<1>5. visit[r].kind \in {"run", "decide", "trigger"}
  BY <1>1, <1>2 DEF DashShape, DashVisit, Showing!Kind
<1>6. CASE visit[r].event = "queued"
  <2>1. PICK x : x = [visit[r] EXCEPT !.dead = {}, !.at = "work"]
    OBVIOUS
  <2>2. /\ x \in DashVisit /\ x.at = "work" /\ x.kind = visit[r].kind /\ x.present = visit[r].present
        /\ x.position = visit[r].position /\ x.event = visit[r].event
        /\ x.todo = {} /\ x.dead = {}
    BY <1>1, <1>2, <2>1 DEF DashVisit, Showing!Stage
  <2>3. visit' = [visit EXCEPT ![r] = x]
    BY <1>1, <1>6, <2>1
  <2>4. visit[r].kind = "run" /\ runRow[r] = "queued"
    BY <1>1, <1>2, <1>5, <1>6, DashEvents DEF DashShape
  <2>5. DashShape(x, runRow[r], r \in decisions, r \in cycles)
    BY <1>1, <1>2, <2>2, <2>4 DEF DashShape
  <2>6. DashTold(x, r)
    BY <1>2, <2>2 DEF DashTold
  <2>7. x.at \notin {"count", "insert"} /\ x.at # "idle"
    BY <2>2
  <2>8. QED
    BY <1>2, <1>3, <1>4, <2>2, <2>3, <2>5, <2>6, <2>7, DashQuiet
<1>7. CASE visit[r].event # "queued"
  <2>1. PICK x \in DashVisit : x = Showing!Ended(r, "answered")
    BY DashEnded DEF Showing!Over
  <2>2. /\ x.at = "answered" /\ x.kind = visit[r].kind /\ x.present = visit[r].present
        /\ x.todo = {} /\ x.dead = {} /\ x.position = 0
    BY <2>1, DashEnded DEF Showing!Over
  <2>3. visit' = [visit EXCEPT ![r] = x]
    BY <1>1, <1>7, <2>1 DEF Showing!End
  <2>5. Cardinality(Visit) >= 0
    BY DashSize
  <2>6. /\ visit[r].event = Showing!LastEvent(visit[r].kind)
        /\ visit[r].kind = "run" => runRow[r] \in {"completed", "errored"}
    BY <1>1, <1>2, <1>7, DashIs DEF DashShape
  <2>7. DashShape(x, runRow[r], r \in decisions, r \in cycles)
    BY <1>1, <1>2, <2>2, <2>5, <2>6 DEF DashShape
  <2>8. DashTold(x, r)
    BY <1>1, <1>2, <2>2, <2>6 DEF DashTold
  <2>9. x.at \notin {"count", "insert"} /\ x.at # "idle"
    BY <2>2
  <2>10. QED
    BY <1>2, <1>3, <1>4, <2>2, <2>3, <2>7, <2>8, <2>9, DashQuiet
<1>8. QED
  BY <1>6, <1>7

(* The database refuses.                                                   *)
LEMMA DashRefused ==
  ASSUME Showing!DashboardBounds, DashInv, NEW r \in Visit, Showing!Refused(r)
  PROVE  DashInv'
<1>1. /\ visit[r].at \in {"find", "count", "insert", "work"} /\ Showing!End(r, "failed")
      /\ Showing!Fault /\ UNCHANGED <<Showing!Rows, Showing!Screens, visitsMet>>
  BY DEF Showing!Refused
<1>2. /\ Showing!UnderWay(r) /\ UNCHANGED <<screen, heard, visitsMet>> /\ UNCHANGED Showing!Rows /\ hub' \subseteq hub
      /\ \A c \in Screen : screen[c] = "open" => c \in hub'
      /\ faults' \in 0..FewFaults
  BY <1>1, DashUnmoved, DashFault DEF Showing!UnderWay, Showing!Over
<1>3. PICK x \in DashVisit : x = Showing!Ended(r, "failed")
  BY DashEnded DEF Showing!Over
<1>4. x.at = "failed" /\ x.kind = visit[r].kind /\ x.present = visit[r].present
  BY <1>3, DashEnded DEF Showing!Over
<1>5. visit' = [visit EXCEPT ![r] = x]
  BY <1>1, <1>3 DEF Showing!End
<1>6. DashShape(x, runRow[r], r \in decisions, r \in cycles) /\ DashTold(x, r)
  BY <1>3, DashOver
<1>7. x.at \notin {"count", "insert"} /\ x.at # "idle"
  BY <1>4
<1>8. QED
  BY <1>2, <1>4, <1>5, <1>6, <1>7, DashQuiet

(* A dashboard is told, or found dead.                                     *)
LEMMA DashSend ==
  ASSUME Showing!DashboardBounds, DashInv, NEW r \in Visit, Showing!Send(r)
  PROVE  DashInv'
<1>1. visit[r].at = "send" /\ UNCHANGED <<Showing!Rows, screen, hub, visitsMet, faults>>
  BY DEF Showing!Send
<1>2. PICK c \in visit[r].todo :
        \/ /\ screen[c] = "open"
           /\ visit' = [visit EXCEPT ![r].todo = @ \ {c}]
           /\ heard' = [heard EXCEPT ![c] = Append(@, <<r, visit[r].event>>)]
        \/ /\ screen[c] = "closed"
           /\ visit' = [visit EXCEPT ![r].todo = @ \ {c}, ![r].dead = @ \cup {c}]
           /\ UNCHANGED heard
  BY DEF Showing!Send
<1>3. /\ DashShape(visit[r], runRow[r], r \in decisions, r \in cycles)
      /\ DashTold(visit[r], r) /\ Showing!UnderWay(r) /\ visit[r] \in DashVisit
      /\ \A b \in Screen : screen[b] = "open" => b \in hub
      /\ c \in Screen /\ DashTypes
  BY <1>1, DashIs DEF Showing!UnderWay, Showing!Over, DashVisit, DashInv
<1>4. /\ UNCHANGED <<screen, visitsMet>> /\ UNCHANGED Showing!Rows /\ hub' \subseteq hub
      /\ \A b \in Screen : screen[b] = "open" => b \in hub'
      /\ faults' \in 0..FewFaults
  BY <1>1, <1>3, DashFault
<1>5. PICK rest \in SUBSET Screen, gone \in SUBSET Screen :
        rest = visit[r].todo \ {c} /\ gone = visit[r].dead \cup {c}
  BY <1>3 DEF DashVisit
<1>6. CASE /\ screen[c] = "closed" /\ UNCHANGED heard
           /\ visit' = [visit EXCEPT ![r].todo = @ \ {c}, ![r].dead = @ \cup {c}]
  <2>1. PICK x : x = [visit[r] EXCEPT !.todo = rest, !.dead = gone]
    OBVIOUS
  <2>2. /\ x \in DashVisit /\ x.at = "send" /\ x.kind = visit[r].kind /\ x.present = visit[r].present
        /\ x.position = visit[r].position /\ x.event = visit[r].event
        /\ x.todo = rest /\ x.dead = gone
    BY <1>1, <1>3, <2>1 DEF DashVisit
  <2>3. visit' = [visit EXCEPT ![r] = x]
    BY <1>5, <1>6, <2>1
  <2>4. DashShape(x, runRow[r], r \in decisions, r \in cycles)
    BY <1>1, <1>3, <2>2 DEF DashShape
  <2>5. DashTold(x, r)
    BY <1>1, <1>3, <1>5, <1>6, <2>2 DEF DashTold
  <2>6. x.at \notin {"count", "insert"} /\ x.at # "idle"
    BY <2>2
  <2>7. UNCHANGED <<screen, heard, visitsMet>>
    BY <1>4, <1>6
  <2>8. QED
    BY <1>3, <1>4, <2>2, <2>3, <2>4, <2>5, <2>6, <2>7, DashQuiet
<1>7. CASE /\ screen[c] = "open"
           /\ visit' = [visit EXCEPT ![r].todo = @ \ {c}]
           /\ heard' = [heard EXCEPT ![c] = Append(@, <<r, visit[r].event>>)]
  <2>1. PICK x : x = [visit[r] EXCEPT !.todo = rest]
    OBVIOUS
  <2>2. /\ x \in DashVisit /\ x.at = "send" /\ x.kind = visit[r].kind /\ x.present = visit[r].present
        /\ x.position = visit[r].position /\ x.event = visit[r].event
        /\ x.todo = rest /\ x.dead = visit[r].dead
    BY <1>1, <1>3, <2>1 DEF DashVisit
  <2>3. visit' = [visit EXCEPT ![r] = x]
    BY <1>5, <1>7, <2>1
  <2>4. /\ visit' \in [Visit -> DashVisit] /\ visit'[r] = x
        /\ \A d \in Visit \ {r} : visit'[d] = visit[d]
    BY <1>3, <2>2, <2>3 DEF DashTypes
  <2>5. PICK e \in {"queued", "completed", "decided", "triggered"} : e = visit[r].event
    BY <1>3 DEF DashVisit
  <2>6. PICK old \in Seq(Showing!Event), news \in Showing!Event : old = heard[c] /\ news = <<r, e>>
    BY <1>3 DEF DashTypes, Showing!Event
  <2>7. /\ heard' = [heard EXCEPT ![c] = Append(old, news)]
        /\ heard'[c] = Append(old, news) /\ \A b \in Screen \ {c} : heard'[b] = heard[b]
        /\ heard' \in [Screen -> Seq(Showing!Event)]
    BY <1>3, <1>7, <2>5, <2>6 DEF DashTypes
  <2>8. /\ DOMAIN old = 1..Len(old) /\ Len(old) \in Nat /\ DOMAIN heard'[c] = 1..(Len(old) + 1)
        /\ \A i \in 1..Len(old) : heard'[c][i] = old[i]
        /\ heard'[c][Len(old) + 1] = news
    BY <2>6, <2>7
  <2>9. news[1] = r /\ news[2] = e
    BY <2>6
  <2>10. waitlist' = waitlist /\ runRow' = runRow /\ decisions' = decisions /\ cycles' = cycles
         /\ hub' = hub
    BY <1>1 DEF Showing!Rows
  <2>11. DashTypes'
    BY <1>3, <1>4, <2>4, <2>7, <2>10 DEF DashTypes
  <2>12. DashShapes'
    <3>1. DashShape(x, runRow[r], r \in decisions, r \in cycles)
      BY <1>1, <1>3, <2>2 DEF DashShape
    <3>2. ASSUME NEW d \in Visit
          PROVE  DashShape(visit[d], runRow[d], d \in decisions, d \in cycles)'
      <4>1. CASE d = r
        BY <2>4, <2>10, <3>1, <4>1 DEF DashShape
      <4>2. CASE d # r
        <5>1. visit'[d] = visit[d] /\ DashShape(visit[d], runRow[d], d \in decisions, d \in cycles)
          BY <2>4, <4>2, DashIs
        <5>2. QED
          BY <2>10, <5>1 DEF DashShape
      <4>3. QED
        BY <4>1, <4>2
    <3>3. QED
      BY <3>2 DEF DashShapes
  <2>13. ASSUME NEW b \in Screen, NEW d, NEW v, DashHeard(b, d, v)
         PROVE  DashHeard(b, d, v)'
    <3>1. PICK i \in DOMAIN heard[b] : heard[b][i] = <<d, v>>
      BY <2>13 DEF DashHeard
    <3>2. i \in DOMAIN heard'[b] /\ heard'[b][i] = heard[b][i]
      BY <2>6, <2>7, <2>8, <3>1
    <3>3. QED
      BY <3>1, <3>2 DEF DashHeard
  <2>14. DashHeard(c, r, e)'
    <3>1. Len(old) + 1 \in DOMAIN heard'[c] /\ heard'[c][Len(old) + 1] = <<r, e>>
      BY <2>6, <2>8
    <3>2. QED
      BY <3>1 DEF DashHeard
  <2>15. DashTells'
    <3>1. ASSUME NEW d \in Visit, d # r PROVE DashTold(visit[d], d)'
      <4>1. visit'[d] = visit[d] /\ DashTold(visit[d], d) /\ visit[d].present \subseteq Screen
        BY <2>4, <3>1, DashIs DEF DashVisit
      <4>2. QED
        BY <1>4, <2>13, <4>1 DEF DashTold
    <3>2. DashTold(visit[r], r)'
      <4>1. x.present \subseteq Screen /\ x.at = "send"
        BY <2>2 DEF DashVisit
      <4>2. ASSUME x.event = Showing!LastEvent(x.kind), NEW b \in x.present, screen[b] = "open"
            PROVE  b \in x.todo \/ DashHeard(b, r, x.event)'
        <5>1. b \in visit[r].todo \/ DashHeard(b, r, e)
          BY <1>1, <1>3, <2>2, <2>5, <4>2 DEF DashTold
        <5>2. CASE b = c
          BY <2>2, <2>5, <2>14, <5>2
        <5>3. CASE b # c
          BY <1>5, <2>2, <2>5, <2>13, <4>1, <5>1, <5>3
        <5>4. QED
          BY <5>2, <5>3
      <4>3. (\A b \in x.present : screen[b] # "new") /\ (\A b \in x.dead : screen[b] = "closed")
        BY <1>3, <2>2 DEF DashTold
      <4>4. QED
        BY <1>4, <2>4, <4>1, <4>2, <4>3 DEF DashTold
    <3>3. QED
      BY <3>1, <3>2 DEF DashTells
  <2>16. DashMeets'
    BY <1>3, <1>4, <2>2, <2>3, DashMeeting
  <2>17. DashRows' /\ DashCount'
    <3>1. x.at \notin {"count", "insert"}
      BY <2>2
    <3>2. QED
      BY <1>3, <1>4, <2>2, <2>3, <2>10, <3>1, DashWaiting
  <2>18. ASSUME NEW b \in Screen, b # c
         PROVE  (DashScreen(b) /\ DashTruth(b) /\ DashOrder(b) /\ DashLate(b))'
    <3>1. /\ \A d \in Visit : runRow[d] # "none" => runRow'[d] # "none"
          /\ \A d \in Visit : runRow[d] \in {"completed", "errored"} => runRow'[d] \in {"completed", "errored"}
          /\ decisions \subseteq decisions' /\ cycles \subseteq cycles'
      BY <2>10
    <3>2. screen'[b] = screen[b] /\ heard'[b] = heard[b] /\ (screen[b] = "open" => b \in hub') /\ visitsMet' = visitsMet
      BY <1>4, <2>7, <2>18
    <3>3. x.at # "idle"
      BY <2>2
    <3>4. QED
      BY <1>3, <1>4, <2>2, <2>3, <3>1, <3>2, <3>3, DashHearing
  <2>19. /\ DashScreen(c) /\ DashTruth(c) /\ DashOrder(c) /\ DashLate(c)
         /\ DashMeets
    BY <1>3 DEF DashInv, DashScreens
  <2>20. visit[r].kind \in {"run", "decide", "trigger"}
    BY <1>1, <1>3 DEF DashShape, DashVisit, Showing!Kind
  <2>21. DashScreen(c)'
    BY <1>4, <1>7, <2>10, <2>19 DEF DashScreen
  <2>22. DashTrue(news)
    BY <1>1, <1>3, <2>5, <2>9, <2>20, DashEvents, DashIs DEF DashShape, DashTrue
  <2>23. DashTruth(c)'
    <3>1. ASSUME NEW i \in 1..(Len(old) + 1) PROVE DashTrue(heard'[c][i])
      <4>1. CASE i \in 1..Len(old)
        BY <2>6, <2>8, <2>19, <4>1 DEF DashTruth
      <4>2. CASE i = Len(old) + 1
        BY <2>8, <2>22, <4>2
      <4>3. QED
        BY <2>8, <4>1, <4>2
    <3>2. QED
      BY <2>8, <2>10, <3>1 DEF DashTruth, DashTrue
  <2>24. e = "decided" => visit[r].kind = "decide"
    BY <1>1, <1>3, <2>5, <2>20, DashEvents DEF DashShape
  <2>25. DashOrder(c)'
    <3>1. SUFFICES ASSUME NEW i \in 1..(Len(old) + 1), NEW j \in 1..(Len(old) + 1), i < j,
                          heard'[c][i][2] = "decided", heard'[c][j][2] = "decided",
                          heard'[c][j][1] < heard'[c][i][1]
                   PROVE  {heard'[c][j][1], heard'[c][i][1]} \in visitsMet
      BY <1>4, <2>8 DEF DashOrder
    <3>2. i \in 1..Len(old) /\ heard'[c][i] = old[i]
      BY <2>8, <3>1
    <3>3. CASE j \in 1..Len(old)
      BY <2>6, <2>8, <2>19, <3>1, <3>2, <3>3 DEF DashOrder
    <3>4. CASE j = Len(old) + 1
      <4>1. heard'[c][j][1] = r /\ e = "decided" /\ old[i] \in Showing!Event /\ DashTrue(old[i])
        BY <2>6, <2>8, <2>9, <2>19, <3>1, <3>2, <3>4 DEF DashTruth
      <4>2. PICK q \in Visit : q = old[i][1]
        BY <4>1 DEF Showing!Event
      <4>3. q \in decisions /\ r < q
        BY <3>1, <3>2, <4>1, <4>2 DEF DashTrue
      <4>4. visit[q].kind = "decide" /\ visit[q].at # "idle"
        BY <4>3, DashIs DEF DashShape
      <4>5. {r, q} \in visitsMet
        BY <1>3, <2>19, <2>24, <4>1, <4>3, <4>4 DEF DashMeets
      <4>6. QED
        BY <3>2, <4>1, <4>2, <4>5
    <3>5. QED
      BY <2>8, <3>3, <3>4
  <2>26. DashLate(c)'
    <3>1. SUFFICES ASSUME NEW i \in 1..(Len(old) + 1), NEW d \in Visit,
                          heard'[c][i][2] = "decided", heard'[c][i][1] < d, screen[c] = "open",
                          visit'[d].kind = "decide", visit'[d].at # "idle", c \notin visit'[d].present
                   PROVE  {heard'[c][i][1], d} \in visitsMet
      BY <1>4, <2>8 DEF DashLate
    <3>2. visit[d].kind = "decide" /\ visit[d].at # "idle" /\ c \notin visit[d].present
      BY <1>1, <2>2, <2>4, <3>1
    <3>3. CASE i \in 1..Len(old)
      BY <2>6, <2>8, <2>19, <3>1, <3>2, <3>3 DEF DashLate
    <3>4. CASE i = Len(old) + 1
      <4>1. heard'[c][i][1] = r /\ e = "decided" /\ r < d
        BY <2>8, <2>9, <3>1, <3>4
      <4>2. {r, d} \in visitsMet
        BY <1>3, <2>19, <2>24, <3>2, <4>1 DEF DashMeets
      <4>3. QED
        BY <4>1, <4>2
    <3>5. QED
      BY <2>8, <3>3, <3>4
  <2>27. DashScreens'
    BY <2>18, <2>21, <2>23, <2>25, <2>26 DEF DashScreens
  <2>28. QED
    BY <2>11, <2>12, <2>15, <2>16, <2>17, <2>27 DEF DashInv
<1>8. QED
  BY <1>2, <1>6, <1>7

(* The row of the waitlist.                                                *)
LEMMA DashJoin ==
  ASSUME Showing!DashboardBounds, DashInv, NEW r \in Visit, Showing!Join(r)
  PROVE  DashInv'
<1>1. /\ visit[r].at = "insert" /\ visit[r].kind = "join" /\ Showing!End(r, "answered")
      /\ waitlist' = waitlist \cup {<<r, visit[r].position>>}
      /\ UNCHANGED <<runRow, decisions, cycles, Showing!Screens, visitsMet, faults>>
  BY DEF Showing!Join
<1>2. /\ DashShape(visit[r], runRow[r], r \in decisions, r \in cycles)
      /\ DashTold(visit[r], r) /\ Showing!UnderWay(r) /\ visit[r] \in DashVisit
      /\ DashRows /\ DashCount /\ DashMeets
  BY <1>1, DashIs DEF Showing!UnderWay, Showing!Over, DashInv
<1>3. /\ UNCHANGED <<screen, heard, visitsMet>> /\ hub' \subseteq hub
      /\ \A c \in Screen : screen[c] = "open" => c \in hub'
      /\ faults' \in 0..FewFaults
  BY <1>1, DashUnmoved, DashFault
<1>4. PICK x \in DashVisit : x = Showing!Ended(r, "answered")
  BY DashEnded DEF Showing!Over
<1>5. /\ x.at = "answered" /\ x.kind = visit[r].kind /\ x.present = visit[r].present
      /\ x.todo = {} /\ x.dead = {} /\ x.position = 0
  BY <1>4, DashEnded DEF Showing!Over
<1>6. visit' = [visit EXCEPT ![r] = x]
  BY <1>1, <1>4 DEF Showing!End
<1>7. /\ visit' \in [Visit -> DashVisit] /\ visit'[r] = x
      /\ \A d \in Visit \ {r} : visit'[d] = visit[d]
  BY <1>6 DEF DashInv, DashTypes
<1>8. PICK n \in 1..Cardinality(Visit) : n = visit[r].position
  <2>1. /\ visit[r].position <= Cardinality(Visit) /\ visit[r].position \in Nat
        /\ visit[r].position >= 1 /\ Cardinality(Visit) \in Nat
    BY <1>1, <1>2, DashFinite, FS_CardinalityType DEF DashShape, DashVisit
  <2>2. QED
    BY <2>1
<1>9. PICK row \in Visit \X Nat : row = <<r, n>> /\ row[1] = r /\ row[2] = n
  <2>1. n \in Nat
    BY <1>8, DashSize
  <2>2. <<r, n>> \in Visit \X Nat /\ <<r, n>>[1] = r /\ <<r, n>>[2] = n
    BY <2>1
  <2>3. QED
    BY <2>2
<1>10. waitlist' = waitlist \cup {row}
  BY <1>1, <1>8, <1>9
<1>11. /\ DashJoined' = DashJoined \cup {r} /\ r \notin DashJoined
       /\ DashJoined' \subseteq Visit
  BY <1>1, <1>5, <1>7 DEF DashJoined
<1>12. \A w \in waitlist : w[1] # r /\ w[1] \in Visit /\ {r, w[1]} \in visitsMet
  BY <1>1, <1>2, <1>11 DEF DashRows, DashJoined
<1>13. ASSUME NEW d \in Visit, visit'[d].at \in {"count", "insert"}, visit'[d].kind = "join"
       PROVE  d # r /\ {d, r} \in visitsMet
  <2>1. d # r /\ visit[d].at \in {"count", "insert"} /\ visit[d].kind = "join"
    BY <1>5, <1>7, <1>13
  <2>2. Showing!UnderWay(d) /\ Showing!UnderWay(r) /\ visit[r].at # "idle" /\ visit[d].at # "idle"
    BY <1>1, <2>1 DEF Showing!UnderWay, Showing!Over
  <2>3. d < r \/ r < d
    <3>1. d \in Nat /\ r \in Nat
      BY DashFinite
    <3>2. QED
      BY <2>1, <3>1
  <2>4. {d, r} = {r, d}
    OBVIOUS
  <2>5. CASE d < r
    BY <1>1, <1>2, <2>1, <2>2, <2>5 DEF DashMeets
  <2>6. CASE r < d
    BY <1>1, <1>2, <2>1, <2>2, <2>4, <2>6 DEF DashMeets
  <2>7. QED
    BY <2>1, <2>3, <2>5, <2>6
<1>14. DashRows'
  <2>1. waitlist' \subseteq Visit \X Nat
    BY <1>2, <1>10 DEF DashRows
  <2>2. \A w \in waitlist' : w[1] \in DashJoined' /\ w[2] \in 1..Cardinality(Visit)
    BY <1>2, <1>9, <1>10, <1>11 DEF DashRows
  <2>3. ASSUME NEW v \in waitlist', NEW w \in waitlist', v # w PROVE {v[1], w[1]} \in visitsMet
    <3>1. CASE v \in waitlist /\ w \in waitlist
      BY <1>2, <2>3, <3>1 DEF DashRows
    <3>2. CASE v = row
      <4>1. w \in waitlist
        BY <1>10, <2>3, <3>2
      <4>2. QED
        BY <1>9, <1>12, <3>2, <4>1
    <3>3. CASE w = row
      <4>1. v \in waitlist /\ {v[1], r} = {r, v[1]}
        BY <1>10, <2>3, <3>3
      <4>2. QED
        BY <1>9, <1>12, <3>3, <4>1
    <3>4. QED
      BY <1>10, <2>3, <3>1, <3>2, <3>3
  <2>4. ASSUME NEW d \in Visit, visit'[d].at \in {"count", "insert"}, visit'[d].kind = "join",
               NEW w \in waitlist'
        PROVE  {d, w[1]} \in visitsMet
    <3>1. CASE w \in waitlist
      <4>1. d # r
        BY <1>13, <2>4
      <4>2. QED
        BY <1>2, <1>7, <2>4, <3>1, <4>1 DEF DashRows
    <3>2. CASE w = row
      BY <1>9, <1>13, <2>4, <3>2
    <3>3. QED
      BY <1>10, <2>4, <3>1, <3>2
  <2>5. QED
    BY <1>3, <2>1, <2>2, <2>3, <2>4 DEF DashRows
<1>15. DashCount'
  <2>1. IsFiniteSet(DashJoined') /\ IsFiniteSet(waitlist)
    BY <1>2, <1>11, DashFinite, CountSubset DEF DashCount
  <2>2. /\ Cardinality(DashJoined) + 1 <= Cardinality(DashJoined')
        /\ Cardinality(DashJoined) \in Nat /\ Cardinality(DashJoined') \in Nat
    <3>1. r \in DashJoined' /\ DashJoined \subseteq DashJoined' \ {r}
      BY <1>11
    <3>2. QED
      BY <2>1, <3>1, CountRemove
  <2>3. /\ IsFiniteSet(waitlist') /\ Cardinality(waitlist') <= Cardinality(waitlist) + 1
        /\ Cardinality(waitlist) \in Nat /\ Cardinality(waitlist') \in Nat
    <3>1. waitlist' \subseteq waitlist \cup {row}
      BY <1>10
    <3>2. QED
      BY <2>1, <3>1, CountAdd
  <2>4. QED
    BY <1>2, <2>2, <2>3 DEF DashCount
<1>16. Cardinality(Visit) >= 0
  BY DashSize
<1>17. DashShape(x, runRow[r], r \in decisions, r \in cycles)
  BY <1>1, <1>2, <1>5, <1>16 DEF DashShape
<1>18. DashTold(x, r)
  BY <1>1, <1>2, <1>5 DEF DashTold
<1>19. /\ runRow' \in [Visit -> {"none", "queued", "completed", "errored"}]
       /\ decisions' \subseteq Visit /\ cycles' \subseteq Visit
       /\ runRow' = runRow /\ decisions' = decisions /\ cycles' = cycles
  BY <1>1 DEF DashInv, DashTypes
<1>20. DashShape(x, runRow'[r], r \in decisions', r \in cycles') /\ x.at # "idle"
  BY <1>5, <1>17, <1>19 DEF DashShape
<1>21. QED
  BY <1>2, <1>3, <1>5, <1>6, <1>14, <1>15, <1>18, <1>19, <1>20, DashMove

(* A request comes in.                                                     *)
LEMMA DashBegin ==
  ASSUME Showing!DashboardBounds, DashInv, NEW r \in Visit, NEW kind \in Showing!Kind, NEW verdict \in Showing!Verdict,
         Showing!Begin(r, kind, verdict)
  PROVE  DashInv'
<1>1. /\ visit[r].at = "idle" /\ \A d \in Visit : d < r => visit[d].at # "idle"
      /\ visit' = [visit EXCEPT ![r] = [Showing!Idle EXCEPT !.at = IF kind = "join" THEN "find" ELSE "insert",
                                                    !.kind = kind, !.verdict = verdict, !.present = hub]]
      /\ visitsMet' = visitsMet \cup {{r, d} : d \in {d \in Visit : Showing!UnderWay(d) /\ visit[d].kind = kind}}
      /\ UNCHANGED <<Showing!Rows, Showing!Screens, faults>>
  BY DEF Showing!Begin
<1>2. PICK at \in {"find", "insert"} : at = IF kind = "join" THEN "find" ELSE "insert"
  OBVIOUS
<1>3. PICK x : x = [Showing!Idle EXCEPT !.at = at, !.kind = kind, !.verdict = verdict, !.present = hub]
  OBVIOUS
<1>5. visit' = [visit EXCEPT ![r] = x]
  BY <1>1, <1>2, <1>3
<1>6. /\ DashTypes /\ DashShapes /\ DashTells /\ DashMeets /\ DashRows /\ DashCount /\ DashScreens
  BY DEF DashInv
<1>7. /\ x \in DashVisit /\ x.at = at /\ x.kind = kind /\ x.present = hub
      /\ x.position = 0 /\ x.todo = {} /\ x.dead = {}
  <2>1. hub \subseteq Screen
    BY <1>6 DEF DashTypes
  <2>2. verdict \in Showing!Verdict /\ kind \in Showing!Kind /\ at \in Showing!Stage
    BY <1>2 DEF Showing!Stage
  <2>3. QED
    BY <1>3, <2>1, <2>2, DashIdle DEF DashVisit
<1>8. /\ visit' \in [Visit -> DashVisit] /\ visit'[r] = x
      /\ \A d \in Visit \ {r} : visit'[d] = visit[d]
  BY <1>5, <1>6, <1>7 DEF DashTypes
<1>9. /\ screen' = screen /\ hub' = hub /\ heard' = heard /\ faults' = faults
      /\ waitlist' = waitlist /\ runRow' = runRow /\ decisions' = decisions /\ cycles' = cycles
  BY <1>1 DEF Showing!Rows, Showing!Screens
<1>10. /\ visitsMet \subseteq visitsMet'
       /\ \A d \in Visit : Showing!UnderWay(d) /\ visit[d].kind = kind => {r, d} \in visitsMet'
       /\ \A p \in visitsMet' : p \in visitsMet \/ \E d \in Visit : Showing!UnderWay(d) /\ p = {r, d}
  BY <1>1
<1>11. ~Showing!UnderWay(r)
  BY <1>1 DEF Showing!UnderWay
<1>12. DashTypes'
  <2>1. \A p \in visitsMet' : \E a, b \in Visit : a # b /\ p = {a, b}
    BY <1>6, <1>10, <1>11 DEF DashTypes
  <2>2. QED
    BY <1>6, <1>8, <1>9, <2>1 DEF DashTypes
<1>13. DashShapes'
  <2>1. ASSUME NEW d \in Visit, d # r
        PROVE  DashShape(visit[d], runRow[d], d \in decisions, d \in cycles)'
    <3>1. visit'[d] = visit[d] /\ DashShape(visit[d], runRow[d], d \in decisions, d \in cycles)
      BY <1>8, <2>1, DashIs
    <3>2. QED
      BY <1>9, <3>1 DEF DashShape
  <2>2. DashShape(visit[r], runRow[r], r \in decisions, r \in cycles)'
    <3>1. DashShape(visit[r], runRow[r], r \in decisions, r \in cycles)
      BY DashIs
    <3>2. runRow[r] = "none" /\ r \notin decisions /\ r \notin cycles
      BY <1>1, <3>1 DEF DashShape
    <3>3. Cardinality(Visit) >= 0
      BY DashSize
    <3>4. QED
      BY <1>2, <1>7, <1>8, <1>9, <3>2, <3>3 DEF DashShape
  <2>3. QED
    BY <2>1, <2>2 DEF DashShapes
<1>14. DashTells'
  <2>1. ASSUME NEW d \in Visit, d # r PROVE DashTold(visit[d], d)'
    <3>1. visit'[d] = visit[d] /\ DashTold(visit[d], d)
      BY <1>8, <2>1, DashIs
    <3>2. QED
      BY <1>9, <3>1 DEF DashTold, DashHeard
  <2>2. DashTold(visit[r], r)'
    <3>1. \A c \in hub : c \in Screen /\ screen[c] # "new"
      BY <1>6 DEF DashTypes, DashScreens, DashScreen
    <3>2. QED
      BY <1>2, <1>7, <1>8, <1>9, <3>1 DEF DashTold
  <2>3. QED
    BY <2>1, <2>2 DEF DashTells
<1>15. DashMeets'
  <2>1. SUFFICES ASSUME NEW a \in Visit, NEW d \in Visit, a < d, visit'[d].at # "idle"
                 PROVE  /\ visit'[a].at # "idle"
                        /\ Showing!UnderWay(a)' /\ visit'[a].kind = visit'[d].kind => {a, d} \in visitsMet'
    BY DEF DashMeets
  <2>2. a # d
    <3>1. a \in Nat /\ d \in Nat
      BY DashFinite
    <3>2. QED
      BY <2>1, <3>1
  <2>3. CASE d = r
    <3>1. visit[a].at # "idle" /\ visit'[a] = visit[a] /\ visit'[d].kind = kind
      BY <1>1, <1>7, <1>8, <2>1, <2>2, <2>3
    <3>2. Showing!UnderWay(a)' => Showing!UnderWay(a)
      BY <3>1 DEF Showing!UnderWay
    <3>3. {a, d} = {r, a}
      BY <2>3
    <3>4. QED
      BY <1>10, <3>1, <3>2, <3>3
  <2>4. CASE d # r
    <3>1. visit'[d] = visit[d]
      BY <1>8, <2>4
    <3>2. /\ visit[a].at # "idle"
          /\ Showing!UnderWay(a) /\ visit[a].kind = visit[d].kind => {a, d} \in visitsMet
      BY <1>6, <2>1, <3>1 DEF DashMeets
    <3>3. a # r /\ visit'[a] = visit[a]
      BY <1>1, <1>8, <3>2
    <3>4. Showing!UnderWay(a)' => Showing!UnderWay(a)
      BY <3>3 DEF Showing!UnderWay
    <3>5. QED
      BY <1>10, <3>1, <3>2, <3>3, <3>4
  <2>5. QED
    BY <2>3, <2>4
<1>16. DashJoined' = DashJoined
  BY <1>1, <1>2, <1>7, <1>8 DEF DashJoined
<1>17. DashRows'
  <2>1. ASSUME NEW d \in Visit, visit'[d].at \in {"count", "insert"}, visit'[d].kind = "join",
               NEW w \in waitlist
        PROVE  {d, w[1]} \in visitsMet
    <3>1. d # r
      BY <1>2, <1>7, <1>8, <2>1
    <3>2. QED
      BY <1>6, <1>8, <2>1, <3>1 DEF DashRows
  <2>2. QED
    BY <1>6, <1>9, <1>10, <1>16, <2>1 DEF DashRows
<1>18. DashCount'
  BY <1>6, <1>9, <1>16 DEF DashCount
<1>19. DashScreens'
  <2>1. ASSUME NEW c \in Screen PROVE (DashScreen(c) /\ DashTruth(c) /\ DashOrder(c) /\ DashLate(c))'
    <3>1. DashScreen(c) /\ DashTruth(c) /\ DashOrder(c) /\ DashLate(c)
      BY <1>6 DEF DashScreens
    <3>2. DashScreen(c)' /\ DashTruth(c)'
      BY <1>9, <3>1 DEF DashScreen, DashTruth, DashTrue
    <3>3. DashOrder(c)'
      BY <1>9, <1>10, <3>1 DEF DashOrder
    <3>4. DashLate(c)'
      <4>1. SUFFICES ASSUME NEW i \in DOMAIN heard[c], NEW d \in Visit,
                            heard[c][i][2] = "decided", heard[c][i][1] < d, screen[c] = "open",
                            visit'[d].kind = "decide", visit'[d].at # "idle", c \notin visit'[d].present
                     PROVE  {heard[c][i][1], d} \in visitsMet'
        BY <1>9 DEF DashLate
      <4>2. d # r
        BY <1>7, <1>8, <3>1, <4>1 DEF DashScreen
      <4>3. visit'[d] = visit[d]
        BY <1>8, <4>2
      <4>4. QED
        BY <1>10, <3>1, <4>1, <4>3 DEF DashLate
    <3>5. QED
      BY <3>2, <3>3, <3>4
  <2>2. QED
    BY <2>1 DEF DashScreens
<1>20. QED
  BY <1>12, <1>13, <1>14, <1>15, <1>17, <1>18, <1>19 DEF DashInv

(* A dashboard comes or goes.                                              *)
LEMMA DashDoor ==
  ASSUME DashInv, UNCHANGED <<visit, Showing!Rows, heard, visitsMet, faults>>,
         screen' \in [Screen -> {"new", "open", "closed"}], hub' \subseteq Screen,
         \A c \in Screen : screen'[c] = "open" => c \in hub',
         \A c \in hub' : screen'[c] # "new",
         \A c \in Screen : screen'[c] = "new" => screen[c] = "new",
         \A c \in Screen : screen[c] = "closed" => screen'[c] = "closed"
  PROVE  DashInv'
<1>1. /\ visit' = visit /\ heard' = heard /\ visitsMet' = visitsMet /\ faults' = faults
      /\ waitlist' = waitlist /\ runRow' = runRow /\ decisions' = decisions /\ cycles' = cycles
  BY DEF Showing!Rows
<1>2. /\ DashTypes /\ DashShapes /\ DashTells /\ DashMeets /\ DashRows /\ DashCount /\ DashScreens
  BY DEF DashInv
<1>3. DashTypes'
  BY <1>1, <1>2 DEF DashTypes
<1>4. DashShapes'
  BY <1>1, <1>2 DEF DashShapes, DashShape
<1>5. DashTells'
  <2>1. ASSUME NEW c, NEW d, NEW e, DashHeard(c, d, e) PROVE DashHeard(c, d, e)'
    BY <1>1, <2>1 DEF DashHeard
  <2>2. ASSUME NEW d \in Visit PROVE DashTold(visit[d], d)'
    <3>1. /\ DashTold(visit[d], d) /\ visit[d].present \subseteq Screen /\ visit[d].dead \subseteq Screen
      BY <1>2, DashIs DEF DashVisit
    <3>2. \A c \in visit[d].present : screen'[c] # "new" /\ (screen'[c] = "open" => screen[c] = "open")
      BY <1>2, <3>1 DEF DashTold, DashTypes
    <3>3. \A c \in visit[d].dead : screen'[c] = "closed"
      BY <3>1 DEF DashTold
    <3>4. PICK y : y = visit[d] /\ y = visit'[d]
      BY <1>1
    <3>5. QED
      BY <2>1, <3>1, <3>2, <3>3, <3>4 DEF DashTold
  <2>3. QED
    BY <2>2 DEF DashTells
<1>6. DashMeets' /\ DashRows' /\ DashCount'
  BY <1>1, <1>2 DEF DashMeets, Showing!UnderWay, DashRows, DashCount, DashJoined
<1>7. DashScreens'
  <2>1. ASSUME NEW c \in Screen PROVE (DashScreen(c) /\ DashTruth(c) /\ DashOrder(c) /\ DashLate(c))'
    <3>1. DashScreen(c) /\ DashTruth(c) /\ DashOrder(c) /\ DashLate(c)
      BY <1>2 DEF DashScreens
    <3>2. DashScreen(c)'
      BY <1>1, <3>1 DEF DashScreen
    <3>3. DashTruth(c)'
      BY <1>1, <3>1 DEF DashTruth, DashTrue
    <3>4. DashOrder(c)'
      BY <1>1, <3>1 DEF DashOrder
    <3>5. DashLate(c)'
      <4>1. CASE screen[c] = "open"
        BY <1>1, <3>1, <4>1 DEF DashLate
      <4>2. CASE screen[c] = "closed"
        BY <4>2 DEF DashLate
      <4>3. CASE screen[c] = "new"
        <5>1. DOMAIN heard[c] = {}
          BY <3>1, <4>3 DEF DashScreen
        <5>2. QED
          BY <1>1, <5>1 DEF DashLate
      <4>4. QED
        BY <1>2, <4>1, <4>2, <4>3 DEF DashTypes
    <3>6. QED
      BY <3>2, <3>3, <3>4, <3>5
  <2>2. QED
    BY <2>1 DEF DashScreens
<1>8. QED
  BY <1>3, <1>4, <1>5, <1>6, <1>7 DEF DashInv

(* It is opened, closed or discarded.                                      *)
LEMMA DashDoors ==
  ASSUME DashInv, NEW c \in Screen, Showing!Open(c) \/ Showing!Close(c) \/ Showing!Discard(c)
  PROVE  DashInv'
<1>1. /\ screen \in [Screen -> {"new", "open", "closed"}] /\ hub \subseteq Screen
      /\ \A b \in Screen : DashScreen(b)
  BY DEF DashInv, DashTypes, DashScreens
<1>2. UNCHANGED <<visit, Showing!Rows, heard, visitsMet, faults>>
  BY DEF Showing!Open, Showing!Close, Showing!Discard
<1>3. \/ screen[c] = "new" /\ screen' = [screen EXCEPT ![c] = "open"] /\ hub' = hub \cup {c}
      \/ screen[c] = "open" /\ screen' = [screen EXCEPT ![c] = "closed"] /\ hub' = hub
      \/ screen[c] = "closed" /\ screen' = screen /\ hub' = hub \ {c}
  BY DEF Showing!Open, Showing!Close, Showing!Discard
<1>4. screen' \in [Screen -> {"new", "open", "closed"}] /\ hub' \subseteq Screen
  BY <1>1, <1>3
<1>5. \A b \in Screen : screen'[b] = "open" => b \in hub'
  BY <1>1, <1>3 DEF DashScreen
<1>6. \A b \in hub' : screen'[b] # "new"
  BY <1>1, <1>3 DEF DashScreen
<1>7. /\ \A b \in Screen : screen'[b] = "new" => screen[b] = "new"
      /\ \A b \in Screen : screen[b] = "closed" => screen'[b] = "closed"
  BY <1>1, <1>3
<1>8. QED
  BY <1>2, <1>4, <1>5, <1>6, <1>7, DashDoor

(* The process ends: nobody is under way and no dashboard is open.         *)
LEMMA DashCrash ==
  ASSUME Showing!DashboardBounds, DashInv, Showing!Crash
  PROVE  DashInv'
<1>1. /\ visit' = [r \in Visit |-> IF Showing!UnderWay(r) THEN Showing!Ended(r, "gone") ELSE visit[r]]
      /\ screen' = [c \in Screen |-> IF screen[c] = "open" THEN "closed" ELSE screen[c]]
      /\ hub' = {} /\ Showing!Fault /\ heard' = heard /\ visitsMet' = visitsMet
      /\ waitlist' = waitlist /\ runRow' = runRow /\ decisions' = decisions /\ cycles' = cycles
  BY DEF Showing!Crash, Showing!Rows
<1>2. /\ DashTypes /\ DashShapes /\ DashTells /\ DashMeets /\ DashRows /\ DashCount /\ DashScreens
  BY DEF DashInv
<1>3. /\ screen' \in [Screen -> {"new", "open", "closed"}]
      /\ \A c \in Screen : screen'[c] # "open" /\ (screen'[c] = "new" <=> screen[c] = "new")
      /\ \A c \in Screen : screen[c] = "closed" => screen'[c] = "closed"
  BY <1>1, <1>2 DEF DashTypes
<1>4. ASSUME NEW r \in Visit, Showing!UnderWay(r)
      PROVE  /\ visit'[r] = Showing!Ended(r, "gone") /\ visit'[r] \in DashVisit /\ visit'[r].at = "gone"
             /\ visit'[r].kind = visit[r].kind
  BY <1>1, <1>4, DashEnded DEF Showing!Over
<1>5. ASSUME NEW r \in Visit, ~Showing!UnderWay(r)
      PROVE  visit'[r] = visit[r]
  BY <1>1, <1>5
<1>6. ASSUME NEW r \in Visit
      PROVE  /\ visit'[r] \in DashVisit /\ ~Showing!UnderWay(r)'
             /\ visit'[r].at = "idle" <=> visit[r].at = "idle"
             /\ visit'[r].kind = visit[r].kind
             /\ r \in DashJoined' <=> r \in DashJoined
  <2>1. visit[r] \in DashVisit
    BY DashIs
  <2>2. CASE Showing!UnderWay(r)
    BY <1>4, <2>2 DEF Showing!UnderWay, Showing!Over, DashJoined
  <2>3. CASE ~Showing!UnderWay(r)
    BY <1>5, <2>1, <2>3 DEF Showing!UnderWay, DashJoined
  <2>4. QED
    BY <2>2, <2>3
<1>7. DashTypes'
  <2>1. visit' \in [Visit -> DashVisit]
    <3>1. visit' = [r \in Visit |-> visit'[r]]
      BY <1>1
    <3>2. QED
      BY <1>6, <3>1
  <2>2. faults' \in 0..FewFaults
    BY <1>1, DashFault
  <2>3. QED
    BY <1>1, <1>2, <1>3, <2>1, <2>2 DEF DashTypes
<1>8. DashShapes'
  <2>1. ASSUME NEW r \in Visit
        PROVE  DashShape(visit[r], runRow[r], r \in decisions, r \in cycles)'
    <3>1. PICK y : y = visit'[r]
      OBVIOUS
    <3>2. DashShape(y, runRow[r], r \in decisions, r \in cycles)
      <4>1. CASE Showing!UnderWay(r)
        BY <1>4, <3>1, <4>1, DashOver
      <4>2. CASE ~Showing!UnderWay(r)
        BY <1>5, <3>1, <4>2, DashIs
      <4>3. QED
        BY <4>1, <4>2
    <3>3. QED
      BY <1>1, <3>1, <3>2 DEF DashShape
  <2>2. QED
    BY <2>1 DEF DashShapes
<1>9. DashTells'
  <2>1. ASSUME NEW r \in Visit PROVE DashTold(visit[r], r)'
    <3>1. PICK y \in DashVisit : y = visit'[r]
      BY <1>6
    <3>2. DashTold(y, r)
      <4>1. CASE Showing!UnderWay(r)
        BY <1>4, <3>1, <4>1, DashOver
      <4>2. CASE ~Showing!UnderWay(r)
        BY <1>5, <3>1, <4>2, DashIs
      <4>3. QED
        BY <4>1, <4>2
    <3>3. y.present \subseteq Screen /\ y.dead \subseteq Screen
      BY DEF DashVisit
    <3>4. /\ \A c \in y.present : screen'[c] # "new" /\ screen'[c] # "open"
          /\ \A c \in y.dead : screen'[c] = "closed"
      BY <1>3, <3>2, <3>3 DEF DashTold
    <3>5. QED
      BY <3>1, <3>4 DEF DashTold
  <2>2. QED
    BY <2>1 DEF DashTells
<1>10. DashMeets'
  BY <1>2, <1>6 DEF DashMeets
<1>11. DashRows' /\ DashCount'
  <2>1. DashJoined' = DashJoined
    <3>1. DashJoined \subseteq Visit /\ DashJoined' \subseteq Visit
      BY DEF DashJoined
    <3>2. QED
      BY <1>6, <3>1
  <2>2. \A r \in Visit : visit'[r].at \notin {"count", "insert"}
    BY <1>6 DEF Showing!UnderWay, Showing!Over
  <2>3. QED
    BY <1>1, <1>2, <2>1, <2>2 DEF DashRows, DashCount
<1>12. DashScreens'
  <2>1. ASSUME NEW c \in Screen PROVE (DashScreen(c) /\ DashTruth(c) /\ DashOrder(c) /\ DashLate(c))'
    <3>1. DashScreen(c) /\ DashTruth(c) /\ DashOrder(c) /\ DashLate(c)
      BY <1>2 DEF DashScreens
    <3>2. DashScreen(c)'
      BY <1>1, <1>3, <3>1 DEF DashScreen
    <3>3. DashTruth(c)'
      BY <1>1, <3>1 DEF DashTruth, DashTrue
    <3>4. DashOrder(c)'
      BY <1>1, <3>1 DEF DashOrder
    <3>5. DashLate(c)'
      BY <1>3 DEF DashLate
    <3>6. QED
      BY <3>2, <3>3, <3>4, <3>5
  <2>2. QED
    BY <2>1 DEF DashScreens
<1>13. QED
  BY <1>7, <1>8, <1>9, <1>10, <1>11, <1>12 DEF DashInv

(* At first.                                                               *)
LEMMA DashInit == Showing!DashboardBounds /\ Showing!Init => DashInv
<1> SUFFICES ASSUME Showing!DashboardBounds, Showing!Init PROVE DashInv
  OBVIOUS
<1>1. /\ \A r \in Visit : visit[r] = Showing!Idle
      /\ \A r \in Visit : runRow[r] = "none"
      /\ \A c \in Screen : screen[c] = "new" /\ heard[c] = <<>>
      /\ decisions = {} /\ cycles = {} /\ waitlist = {} /\ hub = {} /\ visitsMet = {}
  BY DEF Showing!Init
<1>2. DashTypes
  <2>1. heard \in [Screen -> Seq(Showing!Event)]
    BY DEF Showing!Init
  <2>2. faults \in 0..FewFaults
    BY DashFinite DEF Showing!Init
  <2>3. visit \in [Visit -> DashVisit]
    BY DashIdle DEF Showing!Init
  <2>4. QED
    BY <1>1, <2>1, <2>2, <2>3 DEF Showing!Init, DashTypes
<1>3. DashShapes
  BY <1>1, DashIdle, DashSize DEF DashShapes, DashShape
<1>4. DashTells
  BY <1>1, DashIdle DEF DashTells, DashTold
<1>5. DashMeets /\ DashRows
  BY <1>1, DashIdle DEF DashMeets, DashRows
<1>6. DashCount
  <2>1. DashJoined = {}
    BY <1>1, DashIdle DEF DashJoined
  <2>2. IsFiniteSet(waitlist) /\ Cardinality(waitlist) = 0 /\ Cardinality(DashJoined) = 0
    BY <1>1, <2>1, CountNone
  <2>3. QED
    BY <2>2 DEF DashCount
<1>7. DashScreens
  <2>1. ASSUME NEW c \in Screen PROVE DashScreen(c) /\ DashTruth(c) /\ DashOrder(c) /\ DashLate(c)
    <3>1. screen[c] = "new" /\ heard[c] = <<>> /\ c \notin hub /\ DOMAIN heard[c] = {}
      BY <1>1
    <3>2. QED
      BY <3>1 DEF DashScreen, DashTruth, DashOrder, DashLate
  <2>2. QED
    BY <2>1 DEF DashScreens
<1>8. QED
  BY <1>2, <1>3, <1>4, <1>5, <1>6, <1>7 DEF DashInv

(* Each step.                                                              *)
LEMMA DashStep ==
  ASSUME Showing!DashboardBounds, DashInv, Showing!Next
  PROVE  DashInv'
<1>1. CASE \E r \in Visit : Showing!Step(r)
  <2>1. PICK r \in Visit : Showing!Step(r)
    BY <1>1
  <2>2. QED
    BY <2>1, DashFind, DashCounts, DashJoin, DashInsert, DashWork, DashSnapshot, DashSend, DashSent,
       DashRefused DEF Showing!Step
<1>2. CASE \E r \in Visit : \E kind \in Showing!Kind, verdict \in Showing!Verdict :
             (kind # "decide" => verdict = "approve") /\ Showing!Begin(r, kind, verdict)
  BY <1>2, DashBegin
<1>3. CASE \E c \in Screen : Showing!Open(c) \/ Showing!Close(c) \/ Showing!Discard(c)
  BY <1>3, DashDoors
<1>4. CASE Showing!Crash
  BY <1>4, DashCrash
<1>5. QED
  BY <1>1, <1>2, <1>3, <1>4 DEF Showing!Next

(* Elsewhere.                                                              *)
LEMMA DashRests == DashInv /\ UNCHANGED Showing!dashboard => DashInv'
<1> SUFFICES ASSUME DashInv, UNCHANGED Showing!dashboard PROVE DashInv'
  OBVIOUS
<1>1. UNCHANGED <<visit, Showing!Rows, heard, visitsMet, faults>> /\ screen' = screen /\ hub' = hub
  BY DEF Showing!dashboard, Showing!Rows
<1>2. /\ screen \in [Screen -> {"new", "open", "closed"}] /\ hub \subseteq Screen
      /\ \A b \in Screen : (screen[b] = "open" => b \in hub) /\ (b \in hub => screen[b] # "new")
  BY DEF DashInv, DashTypes, DashScreens, DashScreen
<1>3. QED
  BY <1>1, <1>2, DashDoor

(* The latest of a few numbers.                                            *)
LEMMA DashLatest ==
  ASSUME NEW S \in SUBSET Nat, IsFiniteSet(S), S # {}
  PROVE  Showing!LatestOf(S) \in S /\ \A j \in S : j <= Showing!LatestOf(S)
<1>1. \E m \in S : \A j \in S : j <= m
  BY DashGreatest
<1>2. QED
  BY <1>1 DEF Showing!LatestOf

(* What a dashboard heard last.                                            *)
LEMMA DashLast ==
  ASSUME DashInv, NEW c \in Screen, Showing!Places(c, "decided") # {}
  PROVE  \E m \in DOMAIN heard[c] :
            /\ heard[c][m][2] = "decided" /\ Showing!LastHeard(c) = heard[c][m][1]
            /\ heard[c][m] \in Showing!Event
            /\ \A i \in DOMAIN heard[c] : heard[c][i][2] = "decided" => i <= m
<1> DEFINE places == Showing!Places(c, "decided")
<1>1. PICK told \in Seq(Showing!Event) : told = heard[c]
  BY DEF DashInv, DashTypes
<1>2. DOMAIN told = 1..Len(told) /\ Len(told) \in Nat /\ \A i \in 1..Len(told) : told[i] \in Showing!Event
  OBVIOUS
<1>3. places \subseteq 1..Len(told)
  BY <1>1, <1>2 DEF Showing!Places
<1>4. places \in SUBSET Nat /\ IsFiniteSet(places)
  <2>1. IsFiniteSet(1..Len(told))
    BY <1>2, FS_Interval
  <2> HIDE DEF places
  <2>2. IsFiniteSet(places)
    BY <1>3, <2>1, CountSubset
  <2>3. QED
    BY <1>2, <1>3, <2>2
<1>5. Showing!LatestOf(places) \in places /\ \A j \in places : j <= Showing!LatestOf(places)
  <2> HIDE DEF places
  <2>1. places # {}
    BY DEF places
  <2>2. QED
    BY <1>4, <2>1, DashLatest
<1>6. PICK m \in places : m = Showing!LatestOf(places) /\ \A j \in places : j <= m
  BY <1>5
<1>7. Showing!LastHeard(c) = heard[c][m][1]
  BY <1>6 DEF Showing!LastHeard
<1>8. m \in DOMAIN heard[c] /\ heard[c][m][2] = "decided" /\ heard[c][m] \in Showing!Event
  BY <1>1, <1>2, <1>3 DEF Showing!Places
<1>9. \A i \in DOMAIN heard[c] : heard[c][i][2] = "decided" => i <= m
  BY <1>6 DEF Showing!Places
<1>10. QED
  BY <1>7, <1>8, <1>9

(* One row, and the decision that the backend shows.                       *)
LEMMA DashOnce ==
  ASSUME Showing!DashboardBounds, DashInv
  PROVE  Showing!EffectsOnce
<1>1. ASSUME NEW v \in waitlist, NEW w \in waitlist, v # w PROVE ~Showing!Apart(v[1], w[1])
  BY <1>1 DEF DashInv, DashRows, Showing!Apart
<1>2. ASSUME NEW c \in Screen, Showing!Places(c, "decided") # {}, Showing!LastHeard(c) # Showing!LatestOf(decisions)
      PROVE  \/ ~Showing!Apart(Showing!LatestOf(decisions), Showing!LastHeard(c)) \/ visit[Showing!LatestOf(decisions)].at # "answered"
             \/ screen[c] = "closed" \/ visit[Showing!LastHeard(c)].verdict = Showing!LastDecision
  <2>1. PICK m \in DOMAIN heard[c] :
              /\ heard[c][m][2] = "decided" /\ Showing!LastHeard(c) = heard[c][m][1] /\ heard[c][m] \in Showing!Event
              /\ \A i \in DOMAIN heard[c] : heard[c][i][2] = "decided" => i <= m
    BY <1>2, DashLast
  <2>2. /\ DashScreen(c) /\ DashTruth(c) /\ DashOrder(c) /\ DashLate(c)
        /\ decisions \subseteq Visit /\ screen[c] \in {"new", "open", "closed"}
        /\ DOMAIN heard[c] \subseteq Nat
    BY DEF DashInv, DashScreens, DashTypes
  <2>3. heard[c][m][1] \in decisions
    BY <2>1, <2>2 DEF DashTruth, DashTrue
  <2>4. PICK last \in Visit : last = heard[c][m][1] /\ last = Showing!LastHeard(c) /\ last \in decisions
    BY <2>1, <2>2, <2>3
  <2>5. Showing!LatestOf(decisions) \in decisions /\ \A d \in decisions : d <= Showing!LatestOf(decisions)
    <3>1. decisions \in SUBSET Nat /\ IsFiniteSet(decisions) /\ decisions # {}
      BY <2>2, <2>3, DashFinite, CountSubset
    <3>2. QED
      BY <3>1, DashLatest
  <2>6. PICK latest \in Visit : latest = Showing!LatestOf(decisions) /\ latest \in decisions /\ last < latest
    <3>1. Showing!LatestOf(decisions) \in Visit /\ Showing!LatestOf(decisions) \in Nat /\ last \in Nat
      BY <2>2, <2>5, DashFinite
    <3>2. last <= Showing!LatestOf(decisions) /\ last # Showing!LatestOf(decisions)
      BY <1>2, <2>4, <2>5
    <3>3. last < Showing!LatestOf(decisions)
      BY <3>1, <3>2
    <3>4. QED
      BY <2>5, <3>1, <3>3
  <2>7. SUFFICES ASSUME visit[latest].at = "answered", screen[c] # "closed"
                 PROVE  {last, latest} \in visitsMet
    <3>1. {latest, last} = {last, latest}
      OBVIOUS
    <3>2. QED
      BY <2>4, <2>6, <3>1 DEF Showing!Apart
  <2>8. screen[c] = "open"
    BY <2>1, <2>2, <2>7 DEF DashScreen
  <2>9. visit[latest].kind = "decide" /\ DashTold(visit[latest], latest)
    BY <2>6, DashIs DEF DashShape
  <2>10. CASE c \in visit[latest].present
    <3>1. DashHeard(c, latest, "decided")
      BY <2>7, <2>8, <2>9, <2>10, DashEvents DEF DashTold
    <3>2. PICK i \in DOMAIN heard[c] : heard[c][i] = <<latest, "decided">>
      BY <3>1 DEF DashHeard
    <3>3. heard[c][i][1] = latest /\ heard[c][i][2] = "decided" /\ i <= m
      BY <2>1, <3>2
    <3>4. i # m
      <4>1. last # latest
        BY <1>2, <2>4, <2>6
      <4>2. QED
        BY <2>4, <3>3, <4>1
    <3>5. i < m
      BY <2>1, <2>2, <3>2, <3>3, <3>4
    <3>6. QED
      BY <2>1, <2>2, <2>4, <2>6, <3>2, <3>3, <3>5 DEF DashOrder
  <2>11. CASE c \notin visit[latest].present
    BY <2>1, <2>2, <2>4, <2>6, <2>7, <2>8, <2>9, <2>11 DEF DashLate
  <2>12. QED
    BY <2>10, <2>11
<1>3. QED
  BY <1>1, <1>2 DEF Showing!EffectsOnce

(* What the statistics miss.                                               *)
LEMMA DashUnfinished ==
  ASSUME Showing!DashboardBounds, DashInv
  PROVE  Showing!Unfinished <= Cardinality({r \in Visit : visit[r].kind = "run" /\ visit[r].at # "answered"})
<1> DEFINE runs == {r \in Visit : runRow[r] # "none"}
           done == {r \in Visit : runRow[r] = "completed"}
           erred == {r \in Visit : runRow[r] = "errored"}
           rest == {r \in Visit : visit[r].kind = "run" /\ visit[r].at # "answered"}
<1>1. Showing!Unfinished = Cardinality(runs) - Cardinality(done) - Cardinality(erred)
  BY DashCounting DEF Showing!Unfinished, Showing!RunStats
<1>2. runs \subseteq Visit /\ rest \subseteq Visit /\ done \subseteq runs /\ erred \subseteq runs \ done
  OBVIOUS
<1>3. (runs \ done) \ erred \subseteq rest
  <2>1. ASSUME NEW r \in Visit, runRow[r] \notin {"none", "completed", "errored"}
        PROVE  visit[r].kind = "run" /\ visit[r].at # "answered"
    BY <2>1, DashIs DEF DashShape
  <2>2. QED
    BY <2>1
<1>4. Cardinality(runs) - Cardinality(done) - Cardinality(erred) <= Cardinality(rest)
  <2> HIDE DEF runs, done, erred, rest
  <2>1. IsFiniteSet(runs) /\ IsFiniteSet(rest)
    BY <1>2, DashFinite, CountSubset
  <2>2. /\ IsFiniteSet(runs \ done)
        /\ Cardinality(runs \ done) = Cardinality(runs) - Cardinality(done)
    <3>1. runs \cap done = done
      BY <1>2
    <3>2. QED
      BY <2>1, <3>1, FS_Difference
  <2>3. Cardinality((runs \ done) \ erred) = Cardinality(runs \ done) - Cardinality(erred)
    <3> DEFINE undone == runs \ done
    <3>1. undone \cap erred = erred /\ IsFiniteSet(undone)
      BY <1>2, <2>2
    <3> HIDE DEF undone
    <3>2. Cardinality(undone \ erred) = Cardinality(undone) - Cardinality(undone \cap erred)
      BY <3>1, FS_Difference
    <3>3. QED
      BY <3>1, <3>2 DEF undone
  <2>4. Cardinality((runs \ done) \ erred) <= Cardinality(rest)
    BY <1>3, <2>1, CountSubset
  <2>5. QED
    BY <2>2, <2>3, <2>4
<1>5. QED
  BY <1>1, <1>4

(* Nothing is lost.                                                        *)
LEMMA DashLost ==
  ASSUME Showing!DashboardBounds, DashInv
  PROVE  Showing!NothingLost
<1>1. ASSUME NEW r \in Visit
      PROVE  /\ visit[r].at = "answered" /\ visit[r].kind = "run" => runRow[r] \in {"completed", "errored"}
             /\ runRow[r] = "queued" => Showing!UnderWay(r) \/ visit[r].at \in {"failed", "gone"}
             /\ visit[r].at = "answered" /\ visit[r].kind # "join" =>
                  \A c \in visit[r].present :
                    screen[c] = "open" => \E i \in DOMAIN heard[c] : heard[c][i] = <<r, Showing!LastEvent(visit[r].kind)>>
  <2>1. /\ DashShape(visit[r], runRow[r], r \in decisions, r \in cycles)
        /\ DashTold(visit[r], r)
    BY DashIs
  <2>2. visit[r].at = "answered" /\ visit[r].kind = "run" => runRow[r] \in {"completed", "errored"}
    BY <2>1 DEF DashShape
  <2>3. runRow[r] = "queued" => Showing!UnderWay(r) \/ visit[r].at \in {"failed", "gone"}
    BY <2>1 DEF DashShape, Showing!UnderWay, Showing!Over
  <2>4. visit[r].at = "answered" /\ visit[r].kind # "join" =>
          \A c \in visit[r].present : screen[c] = "open" => DashHeard(c, r, Showing!LastEvent(visit[r].kind))
    BY <2>1 DEF DashTold
  <2>5. QED
    BY <2>2, <2>3, <2>4 DEF DashHeard
<1>2. ASSUME NEW c \in Screen, NEW i \in DOMAIN heard[c]
      PROVE  LET r == heard[c][i][1]
             IN CASE heard[c][i][2] = "queued" -> runRow[r] # "none"
                  [] heard[c][i][2] = "completed" -> runRow[r] \in {"completed", "errored"}
                  [] heard[c][i][2] = "decided" -> r \in decisions
                  [] OTHER -> r \in cycles /\ Showing!CycleState = "running"
  <2>1. heard[c] \in Seq(Showing!Event) /\ DashTruth(c)
    BY DEF DashInv, DashTypes, DashScreens
  <2>2. heard[c][i] \in Showing!Event /\ DashTrue(heard[c][i])
    BY <2>1 DEF DashTruth
  <2>3. heard[c][i][2] \in {"queued", "completed", "decided", "triggered"}
    BY <2>2 DEF Showing!Event
  <2>4. QED
    BY <2>2, <2>3 DEF DashTrue, Showing!CycleState
<1>3. QED
  BY <1>1, <1>2, DashUnfinished, DashCounting DEF Showing!NothingLost

(* The types.                                                              *)
LEMMA DashTyped ==
  ASSUME Showing!DashboardBounds, DashInv
  PROVE  Showing!TypeOK
<1>1. DashTypes /\ DashRows /\ \A r \in Visit : DashShape(visit[r], runRow[r], r \in decisions, r \in cycles)
  BY DEF DashInv, DashShapes
<1>2. ASSUME NEW r \in Visit
      PROVE  visit[r].position \in 0..Cardinality(Visit)
  <2>1. visit[r].position \in Nat /\ visit[r].position <= Cardinality(Visit) /\ Cardinality(Visit) \in Nat
    BY <1>1, DashIs, DashSize DEF DashShape, DashVisit
  <2>2. QED
    BY <2>1
<1> DEFINE most == Cardinality(Visit)
<1>3. visit \in [Visit -> [at : Showing!Stage, kind : Showing!Kind, verdict : Showing!Verdict, position : 0..most,
                           event : {"queued", "completed", "decided", "triggered"}, todo : SUBSET Screen,
                           dead : SUBSET Screen, present : SUBSET Screen]]
  <2> DEFINE places == 0..most
  <2>1. \A r \in Visit : visit[r].position \in places
    BY <1>2
  <2> HIDE DEF places
  <2>2. visit \in [Visit -> [at : Showing!Stage, kind : Showing!Kind, verdict : Showing!Verdict, position : places,
                             event : {"queued", "completed", "decided", "triggered"}, todo : SUBSET Screen,
                             dead : SUBSET Screen, present : SUBSET Screen]]
    BY <1>1, <2>1 DEF DashTypes, DashVisit
  <2>3. QED
    BY <2>2 DEF places
<1>4. \A r \in Visit : visit[r].at # "send" => visit[r].todo = {} /\ visit[r].dead = {}
  BY <1>1 DEF DashShape
<1>5. waitlist \subseteq Visit \X (1..most)
  <2> DEFINE places == 1..most
  <2>1. \A w \in waitlist : w \in Visit \X Nat /\ w[2] \in places
    BY <1>1 DEF DashRows
  <2> HIDE DEF places
  <2>2. waitlist \subseteq Visit \X places
    BY <2>1
  <2>3. QED
    BY <2>2 DEF places
<1>6. /\ runRow \in [Visit -> {"none", "queued", "completed", "errored"}]
      /\ decisions \subseteq Visit /\ cycles \subseteq Visit
      /\ screen \in [Screen -> {"new", "open", "closed"}] /\ hub \subseteq Screen
      /\ faults \in 0..FewFaults
  BY <1>1 DEF DashTypes
<1>7. \A c \in hub : screen[c] # "new"
  BY <1>6 DEF DashInv, DashScreens, DashScreen
<1>8. \A c \in Screen : \A i \in DOMAIN heard[c] : heard[c][i] \in Showing!Event
  <2>1. \A c \in Screen : heard[c] \in Seq(Showing!Event)
    BY <1>1 DEF DashTypes
  <2>2. QED
    BY <2>1
<1>9. visitsMet \subseteq {p \in SUBSET Visit : Cardinality(p) = 2}
  <2>1. ASSUME NEW p \in visitsMet PROVE p \in SUBSET Visit /\ Cardinality(p) = 2
    <3>1. PICK a \in Visit, b \in Visit : a # b /\ p = {a, b}
      BY <1>1 DEF DashTypes
    <3>2. IsFiniteSet({a}) /\ Cardinality({a}) = 1 /\ b \notin {a} /\ {a, b} = {a} \cup {b}
      BY <3>1, FS_Singleton
    <3>3. Cardinality({a} \cup {b}) = 2
      BY <3>2, FS_AddElement
    <3>4. QED
      BY <3>1, <3>2, <3>3
  <2>2. QED
    BY <2>1
<1> HIDE DEF most
<1>10. QED
  BY <1>3, <1>4, <1>5, <1>6, <1>7, <1>8, <1>9, DashCounting DEF Showing!TypeOK, most

(* What the invariant says.                                                *)
LEMMA DashSays == Showing!DashboardBounds /\ DashInv => Showing!TypeOK /\ Showing!EffectsOnce /\ Showing!NothingLost
BY DashTyped, DashOnce, DashLost

(* An address has one row unless its requests overlapped, and a dashboard  *)
(* heard last of the decision that is shown, unless decisions overlapped   *)
(* or it came too late; the statistics miss only what is under way or was  *)
(* cut off, and a dashboard that stayed open was told of every answer.     *)
THEOREM DashboardKeeps ==
  ASSUME Showing!DashboardBounds
  PROVE  Showing!Init /\ [][Showing!Next]_Showing!dashboard =>
           [](Showing!TypeOK /\ Showing!EffectsOnce /\ Showing!NothingLost)
<1>1. Showing!Init => DashInv
  BY DashInit
<1>2. DashInv /\ [Showing!Next]_Showing!dashboard => DashInv'
  BY DashStep, DashRests
<1>3. DashInv => Showing!TypeOK /\ Showing!EffectsOnce /\ Showing!NothingLost
  BY DashSays
<1>4. QED
  BY <1>1, <1>2, <1>3, PTL
=============================================================================
