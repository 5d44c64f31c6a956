------------------------------ MODULE Checkout ------------------------------
(***************************************************************************)
(* Checkout sessions of Stripe and the subscriptions they grant: the poll  *)
(* and the webhook of the backend (backend/services/launch_router.py), and *)
(* the webhook of the front end (app/api/launch/webhook/route.ts), which   *)
(* write the same collections.  Sessions of the tools page                 *)
(* (app/api/checkout/route.ts) have no row in payment_transactions.  A     *)
(* step is one operation of the database or one call of Stripe.            *)
(***************************************************************************)
EXTENDS Naturals

CONSTANTS
  Session,      \* sessions
  Handler,      \* polls and webhooks that may be under way at once, numbers
  MaxRequests,  \* bound on polls and webhooks
  MaxFaults     \* bound on operations that raise, processes that end under a request
                \* and events delivered again

VARIABLES
  session,      \* Stripe: the sessions
  event,        \* Stripe: whether the event of a payment was acknowledged
  tx,           \* payment_transactions: payment_status
  subscription, \* subscriptions: how many a session has, up to 2
  handler,      \* the requests
  requests, faults, \* what the bounds count
  met,          \* auxiliary: sessions that two requests worked on at once
  failed        \* auxiliary: sessions a request to which was cut off where nothing repeats it

checkout == <<session, event, tx, subscription, handler, met, failed>>

Free == [route |-> "none", on |-> {}, step |-> "off", paid |-> FALSE]

TypeOK ==
  /\ session \in [Session -> {"none", "made", "open", "paid"}]
  /\ event \in [Session -> {"none", "due", "acknowledged"}]
  /\ tx \in [Session -> {"none", "pending", "unpaid", "paid"}]
  /\ subscription \in [Session -> 0..2]
  /\ handler \in [Handler -> [route : {"none", "poll", "backend", "front end"}, on : SUBSET Session,
                              step : {"off", "ask", "find", "update", "look", "grant"},
                              paid : BOOLEAN]]
  /\ \A h \in Handler : handler[h].step \in {"look", "grant"} => handler[h].paid
  /\ \A s \in Session : tx[s] # "none" => session[s] \in {"open", "paid"}
  /\ requests \in 0..MaxRequests /\ faults \in 0..MaxFaults
  /\ met \subseteq Session /\ failed \subseteq Session

Init ==
  /\ session = [s \in Session |-> "none"] /\ event = [s \in Session |-> "none"]
  /\ tx = [s \in Session |-> "none"] /\ subscription = [s \in Session |-> 0]
  /\ handler = [h \in Handler |-> Free] /\ requests = 0 /\ faults = 0
  /\ met = {} /\ failed = {}

Fine == UNCHANGED faults
Fault == faults < MaxFaults /\ faults' = faults + 1

-----------------------------------------------------------------------------
(* The customer.  The backend tells the URL of a session after it inserted *)
(* the row; a session whose row could not be inserted is never opened.     *)
CustomerOnly == UNCHANGED <<subscription, handler, requests, met, failed>>

Create(s) ==
  /\ session[s] = "none"
  /\ session' = [session EXCEPT ![s] = "made"]
  /\ Fine /\ CustomerOnly /\ UNCHANGED <<event, tx>>
InsertRow(s) ==
  /\ session[s] = "made"
  /\ session' = [session EXCEPT ![s] = "open"] /\ tx' = [tx EXCEPT ![s] = "pending"]
  /\ Fine /\ CustomerOnly /\ UNCHANGED event
CreateForTool(s) ==
  /\ session[s] = "none"
  /\ session' = [session EXCEPT ![s] = "open"]
  /\ Fine /\ CustomerOnly /\ UNCHANGED <<event, tx>>
Pay(s) ==
  /\ session[s] = "open"
  /\ session' = [session EXCEPT ![s] = "paid"] /\ event' = [event EXCEPT ![s] = "due"]
  /\ Fine /\ CustomerOnly /\ UNCHANGED tx

-----------------------------------------------------------------------------
(* The requests.  The success page polls as often as it likes; Stripe      *)
(* tells one of the two webhooks until it acknowledges the event, and      *)
(* sometimes once more.                                                    *)

Begin(h, s, route) ==
  /\ handler[h].step = "off" /\ \A g \in Handler : handler[g].step = "off" => h <= g
  /\ requests < MaxRequests /\ requests' = requests + 1
  /\ handler' = [handler EXCEPT ![h] =
       [route |-> route, on |-> {s}, paid |-> route # "poll",
        step |-> CASE route = "poll" -> "ask" [] route = "backend" -> "find"
                   [] route = "front end" -> "update"]]
  /\ met' = IF \E g \in Handler : s \in handler[g].on THEN met \cup {s} ELSE met
  /\ UNCHANGED <<session, event, tx, subscription, failed>>
Poll(h, s) == session[s] \in {"open", "paid"} /\ Begin(h, s, "poll") /\ Fine
Deliver(h, s) ==
  /\ \/ event[s] = "due" /\ Fine
     \/ event[s] = "acknowledged" /\ Fault
  /\ \E route \in {"backend", "front end"} : Begin(h, s, route)

On(h, s, step) == handler[h].step = step /\ s \in handler[h].on
Goto(h, step) == handler' = [handler EXCEPT ![h].step = step] /\ UNCHANGED event
(* A webhook answers 200 at its end.                                       *)
Answer(h, s) ==
  /\ handler' = [handler EXCEPT ![h] = Free]
  /\ event' = IF handler[h].route = "poll" THEN event ELSE [event EXCEPT ![s] = "acknowledged"]
HandlerOnly == UNCHANGED <<session, requests, met, failed>>

(* get_checkout_status *)
Ask(h, s) ==
  /\ On(h, s, "ask")
  /\ handler' = [handler EXCEPT ![h].step = "find", ![h].paid = (session[s] = "paid")]
  /\ Fine /\ HandlerOnly /\ UNCHANGED <<event, tx, subscription>>

(* _apply_checkout_status_update and _apply_webhook_event: the row is read *)
(* and then updated; handleCheckoutCompleted updates it without reading.   *)
Find(h, s) ==
  /\ On(h, s, "find")
  /\ IF tx[s] \in {"none", "paid"} THEN Answer(h, s) ELSE Goto(h, "update")
  /\ Fine /\ HandlerOnly /\ UNCHANGED <<tx, subscription>>
Update(h, s) ==
  /\ On(h, s, "update")
  /\ tx' = [tx EXCEPT ![s] = IF @ = "none" THEN @ ELSE IF handler[h].paid THEN "paid" ELSE "unpaid"]
  /\ IF handler[h].paid THEN Goto(h, "look") ELSE Answer(h, s)
  /\ Fine /\ HandlerOnly /\ UNCHANGED subscription

(* _grant_subscription *)
Look(h, s) ==
  /\ On(h, s, "look")
  /\ IF subscription[s] > 0 THEN Answer(h, s) ELSE Goto(h, "grant")
  /\ Fine /\ HandlerOnly /\ UNCHANGED <<tx, subscription>>
Grant(h, s) ==
  /\ On(h, s, "grant") /\ Answer(h, s)
  /\ subscription' = [subscription EXCEPT ![s] = IF @ < 2 THEN @ + 1 ELSE 2]
  /\ Fine /\ HandlerOnly /\ UNCHANGED tx

(* An operation raises, or the process ends.  Stripe repeats the event,    *)
(* but the webhook of the front end answers 200 also after an operation    *)
(* that raised, and the backend takes a row it marked paid for done.       *)
Fail(h, s) ==
  /\ s \in handler[h].on /\ Fault
  /\ failed' = IF handler[h].step \in {"look", "grant"} THEN failed \cup {s} ELSE failed
  /\ handler' = [handler EXCEPT ![h] = Free]
  /\ UNCHANGED <<session, event, tx, subscription, requests, met>>
Swallow(h, s) ==
  /\ s \in handler[h].on /\ handler[h].route = "front end" /\ Fault
  /\ failed' = failed \cup {s} /\ Answer(h, s)
  /\ UNCHANGED <<session, tx, subscription, requests, met>>

Next ==
  \E s \in Session :
    \/ Create(s) \/ InsertRow(s) \/ CreateForTool(s) \/ Pay(s)
    \/ \E h \in Handler :
         \/ Poll(h, s) \/ Deliver(h, s)
         \/ Ask(h, s) \/ Find(h, s) \/ Update(h, s) \/ Look(h, s) \/ Grant(h, s)
         \/ Fail(h, s) \/ Swallow(h, s)

-----------------------------------------------------------------------------
(* A session grants one subscription, unless two requests about it were    *)
(* under way at once.                                                      *)
EffectsOnce == \A s \in Session : subscription[s] > 1 => s \in met

(* Only a paid session grants.  An acknowledged payment is granted, unless *)
(* a request was cut off where nothing repeats it, another one works on    *)
(* the session, or it is a tool's, which the backend does not know; and a  *)
(* granted session's row says paid, unless requests met.                   *)
NothingLost ==
  \A s \in Session :
    /\ subscription[s] > 0 => session[s] = "paid"
    /\ event[s] = "acknowledged" =>
         \/ subscription[s] > 0 \/ s \in failed \/ tx[s] = "none"
         \/ \E h \in Handler : s \in handler[h].on
    /\ subscription[s] > 0 /\ tx[s] # "none" => tx[s] = "paid" \/ s \in met
=============================================================================
