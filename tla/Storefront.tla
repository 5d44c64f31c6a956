----------------------------- MODULE Storefront -----------------------------
(***************************************************************************)
(* The shops: the digital products at Gumroad (runtime/gumroad_client.py,  *)
(* which a deploy, the daily listing of generated products and the daily   *)
(* sweep of drafts call), and the apparel at Printify                      *)
(* (eaos/image_factory.py, eaos/printify_client.py and the scripts around  *)
(* them).  Both look at what the shop has and then add to it, and neither  *)
(* shop knows that two additions mean the same thing.  A behaviour follows *)
(* one of the two.                                                         *)
(***************************************************************************)
EXTENDS Naturals, FiniteSets, FiniteSetsExt

CONSTANTS
  Item,        \* the digital products, numbers
  WithFile,    \* those that have a file to deliver, without which Gumroad keeps a draft
  Deploy, Listing, Sweep,  \* who goes through the products: three disjoint sets of names
  Shirt,       \* the designs, numbers
  Pusher,      \* the pushes of the designs, numbers
  OnPage,      \* how many products a listing of the shop shows
  MaxFaults    \* bound on failures, lost answers and processes that are killed

(* Assumed of the constants, in Services.                                  *)
ShopBounds ==
  /\ Item \subseteq Nat /\ Item # {} /\ WithFile \subseteq Item
  /\ Deploy \cap Listing = {} /\ Sweep \cap (Deploy \cup Listing) = {}
  /\ Shirt \subseteq Nat /\ Shirt # {} /\ Pusher \subseteq Nat
  /\ OnPage \in Nat \ {0} /\ MaxFaults \in Nat

VARIABLES
  shop,        \* the shop that is followed
  vendor,      \* each who goes through the products: the step, what is left, the reports
  goods,       \* the products at Gumroad: what, by whom, whether it is live
  url,         \* the products whose address the repository has
  pusher,      \* each push: the step, what is left, what it saw, the designs that it counts
  artwork,     \* the films of the designs: none, or made
  apparel,     \* the products at Printify: what, by whom, whether it was published
  blind,       \* auxiliary: items and designs that someone could not see, or added meanwhile
  faults

storefront == <<shop, vendor, goods, url, pusher, artwork, apparel, blind, faults>>

Vendor == Deploy \cup Listing \cup Sweep
Report == {"none", "live", "draft", "failed"}
TypeOK ==
  /\ shop \in {"gumroad", "printify"}
  /\ vendor \in [Vendor -> [at : {"idle", "find", "create", "publish", "done", "gone"},
                            todo : SUBSET Item, report : [Item -> Report]]]
  /\ goods \subseteq [item : Item, by : Vendor, live : BOOLEAN]
  /\ url \subseteq Item
  /\ pusher \in [Pusher -> [at : {"idle", "push", "publish", "ok", "failed", "gone"},
                            todo : SUBSET Shirt, seen : SUBSET Shirt, counted : SUBSET Shirt]]
  /\ artwork \subseteq Shirt
  /\ apparel \subseteq [item : Shirt, by : Pusher, published : BOOLEAN]
  /\ blind \subseteq Item \cup Shirt /\ faults \in 0..MaxFaults

Init ==
  /\ shop \in {"gumroad", "printify"}
  /\ vendor = [v \in Vendor |-> [at |-> "idle", todo |-> {}, report |-> [i \in Item |-> "none"]]]
  /\ goods = {} /\ url = {}
  /\ pusher = [p \in Pusher |-> [at |-> "idle", todo |-> {}, seen |-> {}, counted |-> {}]]
  /\ artwork = {} /\ apparel = {} /\ blind = {} /\ faults = 0

Fault == faults < MaxFaults /\ faults' = faults + 1
Gumroad == <<vendor, goods, url>>
Printify == <<pusher, artwork, apparel>>

-----------------------------------------------------------------------------
(* Gumroad.  The deploy goes through the catalog, the listing through what *)
(* was generated and has no address yet, the sweep through the drafts.     *)
At(v, step) == shop = "gumroad" /\ vendor[v].at = step
Current(v) == Min(vendor[v].todo)
Drafts == {p.item : p \in {q \in goods : ~q.live}}
Start(v) ==
  /\ At(v, "idle")
  /\ \/ v \in Deploy /\ vendor' = [vendor EXCEPT ![v].at = "find", ![v].todo = Item]
     \/ v \in Listing /\ vendor' = [vendor EXCEPT ![v].at = "find", ![v].todo = Item \ url]
     \/ v \in Sweep /\ vendor' = [vendor EXCEPT ![v].at = "publish", ![v].todo = Drafts]
  /\ UNCHANGED <<shop, goods, url, Printify, blind, faults>>

(* The next item is over.  One of the listing leaves its address, if there *)
(* is a product of it.                                                     *)
Tell(v, report) ==
  /\ vendor' = [vendor EXCEPT ![v].todo = @ \ {Current(v)}, ![v].report[Current(v)] = report,
                              ![v].at = IF v \in Sweep THEN "publish" ELSE "find"]
  /\ url' = IF v \in Listing /\ report # "failed" THEN url \cup {Current(v)} ELSE url
Finish(v) ==
  /\ At(v, IF v \in Sweep THEN "publish" ELSE "find") /\ vendor[v].todo = {}
  /\ vendor' = [vendor EXCEPT ![v].at = "done"]
  /\ UNCHANGED <<shop, goods, url, Printify, blind, faults>>

(* A product of that name is looked for; a list that fails is an empty one.*)
OfItem(i) == {p \in goods : p.item = i}
Step(v, step) == vendor' = [vendor EXCEPT ![v].at = step]
Find(v) ==
  /\ At(v, "find") /\ vendor[v].todo # {}
  /\ LET here == OfItem(Current(v))
     IN \/ here = {} /\ Step(v, "create") /\ UNCHANGED <<url, blind, faults>>
        \/ \E p \in here : p.live /\ Tell(v, "live") /\ UNCHANGED <<blind, faults>>
        \/ \E p \in here : ~p.live /\ Step(v, "publish") /\ UNCHANGED <<url, blind, faults>>
        \/ here # {} /\ Step(v, "create") /\ blind' = blind \cup {Current(v)} /\ Fault
           /\ UNCHANGED url
  /\ UNCHANGED <<shop, goods, Printify>>

(* What is created is a draft, whatever was asked for.  An answer that is  *)
(* lost is a failure.                                                      *)
Meanwhile(v) == IF OfItem(Current(v)) # {} THEN {Current(v)} ELSE {}
Create(v) ==
  LET new == [item |-> Current(v), by |-> v, live |-> FALSE]
  IN /\ At(v, "create")
     /\ \/ /\ goods' = goods \cup {new} /\ Step(v, "publish")
           /\ blind' = blind \cup Meanwhile(v) /\ UNCHANGED <<url, faults>>
        \/ /\ goods' = goods \cup {new} /\ Tell(v, "failed") /\ Fault
           /\ blind' = blind \cup Meanwhile(v)
        \/ Tell(v, "failed") /\ Fault /\ UNCHANGED <<goods, blind>>
     /\ UNCHANGED <<shop, Printify>>

(* It goes live by a second request, which is refused without a file.      *)
Publish(v) ==
  /\ At(v, "publish") /\ vendor[v].todo # {}
  /\ \E p \in OfItem(Current(v)) :
       LET live == (goods \ {p}) \cup {[p EXCEPT !.live = TRUE]}
       IN \/ /\ ~p.live /\ p.item \in WithFile /\ goods' = live /\ Tell(v, "live")
             /\ UNCHANGED faults
          \/ ~p.live /\ p.item \notin WithFile /\ Tell(v, "draft") /\ UNCHANGED <<goods, faults>>
          \/ p.live /\ Tell(v, "live") /\ UNCHANGED <<goods, faults>>
          \/ Tell(v, "draft") /\ Fault /\ UNCHANGED goods
          \/ p.item \in WithFile /\ goods' = live /\ Tell(v, "draft") /\ Fault
  /\ UNCHANGED <<shop, Printify, blind>>
VendorKilled(v) ==
  /\ \E step \in {"find", "create", "publish"} : At(v, step)
  /\ Step(v, "gone") /\ Fault
  /\ UNCHANGED <<shop, goods, url, Printify, blind>>

-----------------------------------------------------------------------------
(* Printify.  The artwork of the designs is rendered.                      *)
Doing(p, step) == shop = "printify" /\ pusher[p].at = step
DrawDesign(s) ==
  /\ shop = "printify" /\ s \notin artwork /\ artwork' = artwork \cup {s}
  /\ UNCHANGED <<shop, Gumroad, pusher, apparel, blind, faults>>

(* A push reads one page of what the shop has; if that fails it goes on as *)
(* if the shop had nothing.                                                *)
Begin(p, seen) ==
  pusher' = [pusher EXCEPT ![p].at = "push", ![p].todo = Shirt, ![p].seen = seen]
InShop == {a.item : a \in apparel}
Pages == {P \in SUBSET apparel : Cardinality(P) = Min({OnPage, Cardinality(apparel)})}
List(p) ==
  /\ Doing(p, "idle")
  /\ \/ \E page \in Pages : Begin(p, {a.item : a \in page}) /\ UNCHANGED faults
     \/ Begin(p, {}) /\ Fault
  /\ UNCHANGED <<shop, Gumroad, artwork, apparel, blind>>

(* The next design: one whose title was seen counts as live, one without   *)
(* artwork is passed over, and any other is uploaded and created, and then *)
(* published by a request of its own.  A failure of one is not the end of  *)
(* the push, but of its success.                                           *)
Design(p) == Min(pusher[p].todo)
Past(p, counted) ==
  pusher' = [pusher EXCEPT ![p].at = "push", ![p].todo = @ \ {Design(p)},
                           ![p].counted = @ \cup counted]
Pass(p) ==
  /\ Doing(p, "push") /\ pusher[p].todo # {}
  /\ \/ Design(p) \in pusher[p].seen /\ Past(p, {Design(p)})
     \/ Design(p) \notin pusher[p].seen \cup artwork /\ Past(p, {})
  /\ UNCHANGED <<shop, Gumroad, artwork, apparel, blind, faults>>
Made(p) == [item |-> Design(p), by |-> p, published |-> FALSE]
Already(p) == IF Design(p) \in InShop THEN {Design(p)} ELSE {}
PushProduct(p) ==
  /\ Doing(p, "push") /\ pusher[p].todo # {} /\ Design(p) \in artwork \ pusher[p].seen
  /\ \/ /\ apparel' = apparel \cup {Made(p)} /\ blind' = blind \cup Already(p)
        /\ pusher' = [pusher EXCEPT ![p].at = "publish"] /\ UNCHANGED faults
     \/ apparel' = apparel \cup {Made(p)} /\ blind' = blind \cup Already(p) /\ Past(p, {}) /\ Fault
     \/ Past(p, {}) /\ Fault /\ UNCHANGED <<apparel, blind>>
  /\ UNCHANGED <<shop, Gumroad, artwork>>
PublishProduct(p) ==
  LET published == (apparel \ {Made(p)}) \cup {[Made(p) EXCEPT !.published = TRUE]}
  IN /\ Doing(p, "publish")
     /\ \/ apparel' = published /\ Past(p, {Design(p)}) /\ UNCHANGED faults
        \/ apparel' \in {apparel, published} /\ Past(p, {}) /\ Fault
     /\ UNCHANGED <<shop, Gumroad, artwork, blind>>
Pushed(p) ==
  /\ Doing(p, "push") /\ pusher[p].todo = {}
  /\ pusher' = [pusher EXCEPT ![p].at = IF pusher[p].counted = Shirt THEN "ok" ELSE "failed"]
  /\ UNCHANGED <<shop, Gumroad, artwork, apparel, blind, faults>>
PushKilled(p) ==
  /\ Doing(p, "push") \/ Doing(p, "publish")
  /\ pusher' = [pusher EXCEPT ![p].at = "gone"] /\ Fault
  /\ UNCHANGED <<shop, Gumroad, artwork, apparel, blind>>

Next ==
  \/ \E v \in Vendor : Start(v) \/ Finish(v) \/ Find(v) \/ Create(v) \/ Publish(v)
                       \/ VendorKilled(v)
  \/ \E s \in Shirt : DrawDesign(s)
  \/ \E p \in Pusher : List(p) \/ Pass(p) \/ PushProduct(p) \/ PublishProduct(p) \/ Pushed(p)
                       \/ PushKilled(p)

-----------------------------------------------------------------------------
(* A shop has two products of the same thing only if someone could not see *)
(* the first, or did not look once more before adding the second; and what *)
(* lies on the one page of the apparel is never added again by a push that *)
(* comes after.                                                            *)
EffectsOnce ==
  /\ \A i \in Item \ blind : Cardinality(OfItem(i)) <= 1
  /\ \A s \in Shirt \ blind : Cardinality({a \in apparel : a.item = s}) <= 1
  /\ \A p \in Pusher : \A a \in apparel : a.by = p => a.item \notin pusher[p].seen

(* A product that is reported live is live, and an address in the          *)
(* repository leads to a product; a draft stays one after a visit without  *)
(* faults only for want of a file.  A push that succeeds has each design   *)
(* in the shop, and only after a fault one that was never published.       *)
NothingLost ==
  /\ \A v \in Vendor : \A i \in Item :
       /\ vendor[v].report[i] = "live" => \E p \in OfItem(i) : p.live
       /\ vendor[v].report[i] = "draft" /\ i \in WithFile => faults > 0
  /\ \A i \in url : OfItem(i) # {}
  /\ \A p \in Pusher : pusher[p].at = "ok" =>
       \A s \in Shirt :
         /\ s \in InShop
         /\ faults = 0 => \E a \in apparel : a.item = s
                            /\ (a.published \/ pusher[a.by].at = "publish")
=============================================================================
