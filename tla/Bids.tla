-------------------------------- MODULE Bids --------------------------------
(***************************************************************************)
(* The federal contracting tools (ah-pos/backend): the import of past      *)
(* contracts from a file, the daily scrape of solicitations with their     *)
(* scores, and the drafts of proposals.  An import and a scrape each run   *)
(* in one transaction of their own; two of them meet only in the unique    *)
(* keys of the tables.  The contracts and the solicitations are of one     *)
(* agency and one NAICS code.                                              *)
(***************************************************************************)
EXTENDS Naturals, FiniteSets

CONSTANTS
  Contract,    \* the rows of the file, numbers, in the order of the file
  Broken,      \* those that cannot be imported
  Notice,      \* the solicitations, numbers, in the order of the feed
  Nameless,    \* those that come without an id
  Timeline,    \* the timeline scores that occur
  Import, Scrape,  \* the runs
  MaxFaults    \* bound on failed requests and on runs that are cut off

(* Assumed of the constants, in Services.                                  *)
BidBounds ==
  /\ IsFiniteSet(Contract) /\ Contract = 1..Cardinality(Contract)
  /\ IsFiniteSet(Notice) /\ Notice = 1..Cardinality(Notice)
  /\ Broken \subseteq Contract /\ Nameless \subseteq Notice
  /\ Timeline \subseteq {10, 30, 50, 75, 100}
  /\ Import \cap Scrape = {} /\ MaxFaults \in Nat

VARIABLES
  contracts,   \* the contracts that are stored
  agency,      \* the row of the agency is stored
  solicitation,\* the solicitations that are stored, with their scores
  rates,       \* labor rates are stored
  job,         \* each run: where it stands, and what its transaction holds
  drafts,      \* the drafts of proposals
  clashed,     \* auxiliary: the runs that met a key another had written
  faults

bids == <<contracts, agency, solicitation, rates, job, drafts, clashed, faults>>

Runs == Import \cup Scrape
Id(n) == IF n \in Nameless THEN 0 ELSE n
Row == [id : {Id(n) : n \in Notice}, score : 0..100]
Stage == {"idle", "look", "agency", "insert", "done", "failed", "gone"}
Idle == [at |-> "idle", next |-> 1, feed |-> {}, agency |-> FALSE, rows |-> {}, notices |-> {}, hot |-> FALSE]

TypeOK ==
  /\ contracts \subseteq Contract /\ agency \in BOOLEAN /\ rates \in BOOLEAN
  /\ solicitation \subseteq Row
  /\ \A s \in solicitation : \A t \in solicitation : s.id = t.id => s = t
  /\ job \in [Runs -> [at : Stage, next : Nat, feed : SUBSET Notice, agency : BOOLEAN,
                       rows : SUBSET Contract, notices : SUBSET Row, hot : BOOLEAN]]
  /\ contracts # {} \/ solicitation # {} => agency
  /\ \A r \in Runs : job[r].at \in {"done", "failed", "gone"} => job[r].rows = {} /\ job[r].notices = {}
  /\ drafts \subseteq [id : {Id(n) : n \in Notice}, contracts : 0..Cardinality(Contract), priced : BOOLEAN]
  /\ clashed \subseteq Runs /\ faults \in 0..MaxFaults

Init ==
  /\ contracts = {} /\ agency = FALSE /\ solicitation = {} /\ rates = FALSE
  /\ job = [r \in Runs |-> Idle] /\ drafts = {} /\ clashed = {} /\ faults = 0

Table == <<contracts, agency, solicitation, rates>>
Fault == faults < MaxFaults /\ faults' = faults + 1

(* What a transaction sees: what is stored, and what it has written.       *)
Seen(r) == contracts \cup job[r].rows
SeenIds(r) == {s.id : s \in solicitation \cup job[r].notices}
SeesAgency(r) == agency \/ job[r].agency
At(r, stage) == job[r].at = stage
Goto(r, stage) == job' = [job EXCEPT ![r].at = stage]

-----------------------------------------------------------------------------
(* The scores, of a hundred each: for contracts of the code, for the time  *)
(* left, for contracts with the agency, and for the incumbent, of which    *)
(* none is ever on record.  One part at zero makes the whole zero.         *)
AtMost(n, bound) == IF n < bound THEN n ELSE bound
Relevance(n) == AtMost(100, 50 * n)
Fit(n) == AtMost(100, 20 * n)
IncumbentRisk == 30
Score(n, timeline) ==
  IF n = 0 THEN 0
  ELSE (35 * Relevance(n) + 30 * timeline + 25 * Fit(n) + 10 * (100 - IncumbentRisk)) \div 100
HighPriority(score) == score >= 70

(* A run starts; a scrape asks for each code, and goes on without those    *)
(* whose request failed.                                                   *)
Start(r) ==
  /\ At(r, "idle")
  /\ \/ r \in Import /\ Goto(r, "look") /\ UNCHANGED faults
     \/ r \in Scrape /\ job' = [job EXCEPT ![r].at = "look", ![r].feed = Notice] /\ UNCHANGED faults
     \/ r \in Scrape /\ Fault
        /\ \E feed \in SUBSET Notice :
             feed # Notice /\ job' = [job EXCEPT ![r].at = "look", ![r].feed = feed]
  /\ UNCHANGED <<Table, drafts, clashed>>

(* The next row of the file or solicitation of the feed: one that is on    *)
(* record is passed over, and one without its agency has it made first.    *)
Known(r) ==
  IF r \in Import THEN job[r].next \in Seen(r)
  ELSE job[r].next \notin job[r].feed \/ Id(job[r].next) \in SeenIds(r)
Last(r) == IF r \in Import THEN Cardinality(Contract) ELSE Cardinality(Notice)
Look(r) ==
  /\ At(r, "look") /\ job[r].next <= Last(r)
  /\ ~(r \in Import /\ job[r].next \in Broken)
  /\ job' = IF Known(r) THEN [job EXCEPT ![r].next = @ + 1]
            ELSE [job EXCEPT ![r].at = IF SeesAgency(r) THEN "insert" ELSE "agency"]
  /\ UNCHANGED <<Table, drafts, clashed, faults>>

(* A row fails.  An import rolls back, which drops all the rows before it, *)
(* and goes on with the next; a scrape ends.                               *)
Raised(r) ==
  IF r \in Import THEN [Idle EXCEPT !.at = "look", !.next = job[r].next + 1]
  ELSE [Idle EXCEPT !.at = "failed", !.hot = job[r].hot]
BrokenRow(r) ==
  /\ r \in Import /\ At(r, "look") /\ job[r].next \in Broken
  /\ job' = [job EXCEPT ![r] = Raised(r)]
  /\ UNCHANGED <<Table, drafts, clashed, faults>>

(* The agency's row: its name is unique, so this waits for a transaction   *)
(* that has written it, and fails when that one is committed.              *)
AddAgency(r) ==
  /\ At(r, "agency") /\ \A d \in Runs \ {r} : ~job[d].agency
  /\ IF agency THEN job' = [job EXCEPT ![r] = Raised(r)] /\ clashed' = clashed \cup {r}
     ELSE job' = [job EXCEPT ![r].at = "insert", ![r].agency = TRUE] /\ UNCHANGED clashed
  /\ UNCHANGED <<Table, drafts, faults>>

(* The contract, or the solicitation with its score; the same for their    *)
(* keys.  A solicitation of high priority is to raise an alert, and the    *)
(* text of the alert names a field that the solicitation does not have.    *)
Taken(r) ==
  \/ r \in Import /\ job[r].next \in contracts
  \/ r \in Scrape /\ \E s \in solicitation : s.id = Id(job[r].next)
Waits(r) ==
  \E d \in Runs \ {r} :
    \/ r \in Import /\ job[r].next \in job[d].rows
    \/ r \in Scrape /\ \E s \in job[d].notices : s.id = Id(job[r].next)
Clash(r) ==
  /\ At(r, "insert") /\ ~Waits(r) /\ Taken(r)
  /\ job' = [job EXCEPT ![r] = Raised(r)] /\ clashed' = clashed \cup {r}
  /\ UNCHANGED <<Table, drafts, faults>>
AddContract(r) ==
  /\ r \in Import /\ At(r, "insert") /\ ~Waits(r) /\ ~Taken(r)
  /\ job' = [job EXCEPT ![r].at = "look", ![r].next = @ + 1, ![r].rows = @ \cup {job[r].next}]
  /\ UNCHANGED <<Table, drafts, clashed, faults>>
AddSolicitation(r) ==
  /\ r \in Scrape /\ At(r, "insert") /\ ~Waits(r) /\ ~Taken(r)
  /\ \E timeline \in Timeline :
       LET score == Score(Cardinality(contracts), timeline)
       IN job' = IF HighPriority(score)
                 THEN [job EXCEPT ![r] = [Raised(r) EXCEPT !.hot = TRUE]]
                 ELSE [job EXCEPT ![r].at = "look", ![r].next = @ + 1,
                                  ![r].notices = @ \cup {[id |-> Id(job[r].next), score |-> score]}]
  /\ UNCHANGED <<Table, drafts, clashed, faults>>

(* All is committed at the end.                                            *)
Commit(r) ==
  /\ At(r, "look") /\ job[r].next > Last(r)
  /\ contracts' = contracts \cup job[r].rows
  /\ solicitation' = solicitation \cup job[r].notices
  /\ agency' = SeesAgency(r)
  /\ job' = [job EXCEPT ![r] = [Idle EXCEPT !.at = "done", !.feed = job[r].feed]]
  /\ UNCHANGED <<rates, drafts, clashed, faults>>

(* A run is cut off, and its transaction with it.                          *)
CutOff(r) ==
  /\ job[r].at \in {"look", "agency", "insert"}
  /\ job' = [job EXCEPT ![r] = [Idle EXCEPT !.at = "gone"]]
  /\ Fault /\ UNCHANGED <<Table, drafts, clashed>>

(* The rates are entered by hand.                                          *)
EnterRates ==
  /\ ~rates /\ rates' = TRUE
  /\ UNCHANGED <<contracts, agency, solicitation, job, drafts, clashed, faults>>

(* A draft: as many rates are taken as contracts match, five at most, and  *)
(* a rate of the table times a share of the hours raises.                  *)
Matching == AtMost(5, Cardinality(contracts))
RatesTaken == IF rates THEN Matching ELSE 0
CostRaises == RatesTaken > 0
Draft(s) ==
  /\ ~CostRaises
  /\ drafts' = drafts \cup {[id |-> s.id, contracts |-> Matching, priced |-> RatesTaken > 0]}
  /\ UNCHANGED <<Table, job, clashed, faults>>

Next ==
  \/ \E r \in Runs : Start(r) \/ Look(r) \/ BrokenRow(r) \/ AddAgency(r) \/ Clash(r)
                     \/ AddContract(r) \/ AddSolicitation(r) \/ Commit(r) \/ CutOff(r)
  \/ \E s \in solicitation : Draft(s)
  \/ EnterRates

-----------------------------------------------------------------------------
(* An import can be repeated: whatever runs there were, the contracts that *)
(* are stored are among those that follow the last broken row, and after a *)
(* run that met no other they are exactly these; a solicitation that is    *)
(* stored is below high priority, since each that was not took its whole   *)
(* batch with it.                                                          *)
Importable == {c \in Contract : \A b \in Broken : b < c}
EffectsOnce ==
  /\ contracts \subseteq Importable
  /\ \A r \in Import : job[r].at = "done" /\ r \notin clashed => contracts = Importable
  /\ \A s \in solicitation : ~HighPriority(s.score)

(* A scrape that ended well has all of its feed on record, by their ids; a *)
(* run fails only for a solicitation of high priority or a key that        *)
(* another run had written; and no draft has a price.                      *)
NothingLost ==
  /\ \A r \in Scrape :
       /\ job[r].at = "done" => {Id(n) : n \in job[r].feed} \subseteq SeenIds(r)
       /\ job[r].at = "failed" => job[r].hot \/ r \in clashed
  /\ \A d \in drafts : ~d.priced /\ \E s \in solicitation : s.id = d.id
=============================================================================
