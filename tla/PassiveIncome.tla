---------------------------- MODULE PassiveIncome ----------------------------
(***************************************************************************)
(* The cycles of the passive-income engine: runPassiveIncomeCycle          *)
(* (lib/revenue-os/passive-income-engine.mjs), which posts what it writes, *)
(* and runHardenedPassiveIncomeCycle (passive-income-supervisor.mjs), which*)
(* freezes it, asks for an approval and executes what was approved.  A     *)
(* step is one lane's generation, one operation on the store, or one post. *)
(* The process mesh is a choice of what its gates say (ProcessMesh), and a *)
(* controlled delivery is one step (RevenueDelivery has its steps).        *)
(***************************************************************************)
EXTENDS Naturals, Sequences

CONSTANTS
  IncomeCycle,  \* the cycles, numbers in the order they begin
  Briefing,     \* the newsletters that the model may write
  MaxFaults     \* bound on posts and operations that raise

IncomeBounds == IncomeCycle \subseteq Nat /\ MaxFaults \in Nat

VARIABLES
  writes,       \* PASSIVE_INCOME_EXTERNAL_WRITES
  income,       \* the cycles
  prepared,     \* the payloads that are frozen in the store
  lapsed,       \* those of them whose expiresAt has passed
  signed,       \* the payloads with an approval that is not consumed
  executed,     \* the payloads whose delivery completed, in the records of runOnce
  faults,       \* what the bound counts
  approved,     \* auxiliary: the payloads that a person approved
  posts,        \* auxiliary: the posts that were accepted: the cycle and the payload
  unanswered    \* auxiliary: those whose answer was lost

earning == <<writes, income, prepared, lapsed, signed, executed, approved, posts, unanswered>>

(* The lanes whose score is at least minimumProfitScore, in the order of   *)
(* the scores; stock_asset is under it.                                    *)
Lane == <<"technical_product", "newsletter">>

(* A technical product has a new id in each cycle, and so has its payload; *)
(* a newsletter's payload is what the model wrote.                         *)
Payload ==
  {<<"technical_product", c>> : c \in IncomeCycle} \cup {<<"newsletter", b>> : b \in Briefing}
Nothing == <<"none", 0>>
Off == [kind |-> "direct", step |-> "off", publish |-> FALSE, lane |-> 1, packet |-> Nothing,
        made |-> {}, reported |-> {}]

TypeOK ==
  /\ writes \in BOOLEAN /\ prepared \subseteq Payload /\ lapsed \subseteq prepared
  /\ signed \subseteq approved /\ approved \subseteq prepared /\ executed \subseteq approved
  /\ \A c \in IncomeCycle :
       /\ income[c].kind \in {"direct", "supervised"} /\ income[c].publish \in BOOLEAN
       /\ income[c].step \in {"off", "generate", "post", "mesh", "prepare", "execute", "ended", "raised", "past"}
       /\ income[c].step \in {"generate", "post", "prepare", "execute"} => income[c].lane \in DOMAIN Lane
       /\ income[c].step \in {"post", "execute"} => income[c].packet \in Payload
       /\ {income[c].made, income[c].reported} \subseteq SUBSET Payload
  /\ posts \subseteq (IncomeCycle \X Payload) /\ unanswered \subseteq posts
  /\ faults \in 0..MaxFaults

Init ==
  /\ writes \in BOOLEAN /\ income = [c \in IncomeCycle |-> Off]
  /\ prepared = {} /\ lapsed = {} /\ signed = {} /\ executed = {} /\ faults = 0
  /\ approved = {} /\ posts = {} /\ unanswered = {}

Fine == UNCHANGED faults
Fault == faults < MaxFaults /\ faults' = faults + 1
At(c, step) == income[c].step = step
Direct(c) == income[c].kind = "direct"
StoreOnly == UNCHANGED <<writes, prepared, lapsed, signed, executed, approved>>
Unposted == UNCHANGED <<posts, unanswered>>

-----------------------------------------------------------------------------
(* A request.  The cycles follow one another (what deliveries do that      *)
(* cross is in RevenueDelivery), and earlier ones are past.                *)
Begin(c) ==
  /\ At(c, "off") /\ \A d \in IncomeCycle : d < c => income[d].step \in {"ended", "raised", "past"}
  /\ \E kind \in {"direct", "supervised"}, publish \in BOOLEAN :
       income' = [d \in IncomeCycle |->
         IF d < c THEN [Off EXCEPT !.kind = income[d].kind, !.step = "past"]
         ELSE IF d = c THEN [Off EXCEPT !.kind = kind, !.step = "generate", !.publish = publish]
         ELSE Off]
  /\ Fine /\ StoreOnly /\ Unposted

(* The next lane; after the last one a direct cycle ends and a supervised  *)
(* one goes to the mesh or ends.                                           *)
Over(cycle, step) == [Off EXCEPT !.kind = cycle.kind, !.step = step, !.reported = cycle.reported]
Advance(cycle) ==
  IF cycle.lane < Len(Lane) THEN [cycle EXCEPT !.lane = @ + 1, !.packet = Nothing]
  ELSE IF cycle.step = "generate" /\ cycle.kind = "supervised"
  THEN [cycle EXCEPT !.lane = 1, !.packet = Nothing, !.step = "mesh"]
  ELSE Over(cycle, "ended")

Raised(c) == income' = [income EXCEPT ![c] = Over(@, "raised")]

(* buildDeliveryDecision, maybeDeliver without an adapter and the source   *)
(* gate of the newsletter, for a direct cycle; a supervised one keeps what *)
(* was generated, whatever its quality.                                    *)
Generate(c) ==
  /\ At(c, "generate")
  /\ \E p \in {q \in Payload : q[1] = Lane[income[c].lane] /\ (q[1] = "technical_product" => q[2] = c)} :
       \/ Direct(c) /\ income[c].publish /\ writes
          /\ income' = [income EXCEPT ![c].step = "post", ![c].packet = p]
       \/ income' = [income EXCEPT ![c] = Advance(@)]
       \/ ~Direct(c) /\ income' = [income EXCEPT ![c] = Advance([income[c] EXCEPT !.made = @ \cup {p}])]
  /\ Fine /\ StoreOnly /\ Unposted

(* maybeDeliver: what the fetch raises ends the cycle without a report,    *)
(* and the lane after that has the step of a generation.                   *)
Report(c, p) == [income[c] EXCEPT !.reported = @ \cup {p}, !.step = "generate"]
Post(c) ==
  /\ At(c, "post") /\ posts' = posts \cup {<<c, income[c].packet>>}
  /\ \/ /\ income' = [income EXCEPT ![c] = Advance(Report(c, income[c].packet))]
        /\ Fine /\ UNCHANGED unanswered
     \/ /\ Raised(c) /\ Fault
        /\ unanswered' = unanswered \cup {<<c, income[c].packet>>}
  /\ StoreOnly
PostRefused(c) ==
  /\ At(c, "post")
  /\ \/ income' = [income EXCEPT ![c] = Advance([income[c] EXCEPT !.step = "generate"])] /\ Fine
     \/ Raised(c) /\ Fault
  /\ StoreOnly /\ Unposted

-----------------------------------------------------------------------------
(* runIntelligentProcessMesh; then each lane that deliveryGateForLane, the *)
(* spend gate and its adapter let through is frozen                        *)
(* (prepareControlledDelivery) and executed, the others are not.           *)
Mesh(c) ==
  /\ At(c, "mesh")
  /\ income' = [income EXCEPT ![c].step = "prepare"]
  /\ Fine /\ StoreOnly /\ Unposted
Passed(c) ==
  IF income[c].publish /\ writes THEN {p \in income[c].made : p[1] = Lane[income[c].lane]} ELSE {}
Gated(c) ==
  /\ At(c, "prepare")
  /\ income' = [income EXCEPT ![c] = Advance(@)]
  /\ Fine /\ StoreOnly /\ Unposted
Prepare(c) ==
  /\ At(c, "prepare")
  /\ \E p \in Passed(c) :
       /\ prepared' = prepared \cup {p}
       /\ income' = [income EXCEPT ![c].step = "execute", ![c].packet = p]
  /\ Fine /\ Unposted /\ UNCHANGED <<writes, lapsed, signed, executed, approved>>
StoreRaises(c) ==
  /\ At(c, "prepare") /\ Passed(c) # {} /\ Raised(c) /\ Fault
  /\ StoreOnly /\ Unposted

(* The request may have an approval of an earlier payload of the lane: it  *)
(* is executed when it was asked for by its id and has not lapsed          *)
(* (executePreparedDelivery), or when it is what was generated anew        *)
(* (executeControlledDelivery).                                            *)
Permitted(c, p) ==
  /\ p \in approved /\ p[1] = Lane[income[c].lane]
  /\ p \notin lapsed \/ p = income[c].packet
NextLane(c) == income' = [income EXCEPT ![c] = Advance([income[c] EXCEPT !.step = "prepare"])]
Told(c, p) ==
  income' = [income EXCEPT
    ![c] = Advance([income[c] EXCEPT !.step = "prepare", !.reported = @ \cup {p}])]

Refuse(c) == At(c, "execute") /\ NextLane(c) /\ Fine /\ StoreOnly /\ Unposted
Replay(c, p) ==
  /\ At(c, "execute") /\ Permitted(c, p) /\ p \in executed
  /\ Told(c, p)
  /\ Fine /\ StoreOnly /\ Unposted
(* The approval is consumed before the post, whatever comes of that.       *)
Consume(c, p) ==
  /\ At(c, "execute") /\ Permitted(c, p) /\ p \in signed \ executed
  /\ signed' = signed \ {p}
  /\ UNCHANGED <<writes, prepared, lapsed, approved>>
Execute(c, p) ==
  /\ Consume(c, p) /\ posts' = posts \cup {<<c, p>>}
  /\ \/ executed' = executed \cup {p} /\ Told(c, p) /\ Fine /\ UNCHANGED unanswered
     \/ NextLane(c) /\ Fault /\ unanswered' = unanswered \cup {<<c, p>>} /\ UNCHANGED executed
ExecuteFails(c, p) ==
  /\ Consume(c, p) /\ NextLane(c)
  /\ Fine /\ Unposted /\ UNCHANGED executed

-----------------------------------------------------------------------------
(* A person signs an approval of what was prepared, between the cycle that *)
(* prepared it and the one that uses it; and again when the delivery it    *)
(* was consumed for has not completed.                                     *)
Between == \A c \in IncomeCycle : income[c].step \in {"off", "ended", "raised", "past"}
Sign(p) ==
  /\ Between /\ p \in prepared \ (signed \cup executed)
  /\ signed' = signed \cup {p} /\ approved' = approved \cup {p}
  /\ Fine /\ Unposted /\ UNCHANGED <<writes, income, prepared, lapsed, executed>>
(* The retention of what is frozen ends.  Its expiresAt is a string, which *)
(* the index that drops expired records passes over, and a record that is  *)
(* found is not written anew.                                              *)
Lapse ==
  /\ Between /\ lapsed # prepared /\ lapsed' = prepared
  /\ Fine /\ Unposted /\ UNCHANGED <<writes, income, prepared, signed, executed, approved>>

Next ==
  \/ \E c \in IncomeCycle :
       \/ Begin(c) \/ Generate(c) \/ Post(c) \/ PostRefused(c) \/ Mesh(c) \/ Gated(c) \/ Prepare(c)
       \/ StoreRaises(c) \/ Refuse(c)
       \/ \E p \in Payload : Replay(c, p) \/ Execute(c, p) \/ ExecuteFails(c, p)
  \/ Lapse
  \/ \E p \in Payload : Sign(p)

-----------------------------------------------------------------------------
(* A supervised cycle posts only what a person approved, as it was frozen, *)
(* and no payload is posted by two supervised cycles unless the answer to  *)
(* the first was lost; nothing is posted while writes are off.             *)
Supervised(post) == income[post[1]].kind = "supervised"
EffectsOnce ==
  /\ ~writes => posts = {}
  /\ \A x \in posts : Supervised(x) => x[2] \in approved
  /\ \A x, y \in posts : Supervised(x) /\ Supervised(y) /\ x[2] = y[2] /\ x # y =>
       {x, y} \cap unanswered # {}

(* The report of a cycle has all its posts, but those whose answer was     *)
(* lost, and what it reports as done was posted, by it or, supervised, by  *)
(* an earlier one; the report itself is lost only when a post of a direct  *)
(* cycle or the store raised.                                              *)
NothingLost ==
  /\ \A x \in posts : At(x[1], "ended") => x[2] \in income[x[1]].reported \/ x \in unanswered
  /\ \A c \in IncomeCycle, p \in Payload : p \in income[c].reported =>
       \E x \in posts : x[2] = p /\ (Direct(c) => x[1] = c)
  /\ \A c \in IncomeCycle : At(c, "raised") => faults > 0
  /\ executed \subseteq {x[2] : x \in posts}
=============================================================================
