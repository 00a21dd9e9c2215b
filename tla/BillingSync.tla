------------------------------- MODULE BillingSync -------------------------------
(* One workspace's Subscription row between Stripe's webhooks, which come late, twice  *)
(* and out of order, and the seat-sync queue, which carries the member count back to    *)
(* Stripe.  The webhook's handlers run concurrently, each in separate statements: the   *)
(* ledger entry, the subscription's retrieval, the check of the high-water mark and the *)
(* write.                                                                              *)
EXTENDS Integers

CONSTANTS
    Handlers,     \* webhook requests that may be in progress at once
    SeatAttempts, \* attempts of a seat-sync job
    MaxMembers,   \* bound: members of the workspace
    MaxChanges,   \* bound: members that join or leave
    MaxEvents,    \* bound: events Stripe emits
    MaxFaults     \* bound: errors, crashes and lost responses

ASSUME BillingAssumption ==
    /\ SeatAttempts \in Nat \ {0} /\ MaxMembers \in Nat \ {0}
    /\ {MaxChanges, MaxEvents, MaxFaults} \subseteq Nat

VARIABLES
    stripe,    \* the subscription at Stripe
    event,     \* the events Stripe has emitted: the first `emitted` of them
    emitted,
    ledger,    \* ProcessedStripeEvent
    acked,     \* events that got a 2xx response
    handled,   \* how often each event's handler got to its end
    row,       \* the Subscription row
    handler,   \* webhook requests in progress
    members,   \* how many members the workspace has
    owed,      \* membership changes whose seat sync has yet to be added
    jobs,      \* waiting seat-sync jobs, by the attempts they have behind them
    worker,    \* SeatSyncProcessor
    changes, faults,
    raced,     \* a handler wrote while another one was between its check and its write
    missed     \* a change had no seat sync, or one that was lost or found no subscription
               \* during the checkout, and nobody has counted the members since

billing == <<ledger, acked, handled, row, handler, raced>>
seats == <<owed, jobs, worker>>
vars == <<stripe, event, emitted, billing, members, seats, changes, faults, missed>>

Events == 1 .. MaxEvents
Quantities == 0 .. MaxMembers
\* cart is the quantity of the checkout session, 0 before there is one.
Stripe == [state : {"none", "live", "ended"}, cart : Quantities, quantity : Quantities]
\* A checkout or invoice event names the subscription, the others carry it.  created
\* counts seconds, so two events may share it.
Event == [kind : {"none", "checkout", "updated", "deleted", "invoice"}, created : Nat, quantity : Quantities]
Row == [paid : BOOLEAN, subscribed : BOOLEAN, seats : Quantities, lastStripeEventAt : Nat]
Request == [pc : {"idle", "retrieve", "check", "write", "respond"},
            event : 0 .. MaxEvents, quantity : Quantities]
Worker == [pc : {"off", "count", "update"}, made : 0 .. SeatAttempts,
           quantity : Quantities, target : Quantities]

TypeOK ==
    /\ stripe \in Stripe /\ event \in [Events -> Event] /\ emitted \in 0 .. MaxEvents
    /\ ledger \subseteq Events /\ acked \subseteq Events /\ handled \in [Events -> Nat]
    /\ row \in Row /\ handler \in [Handlers -> Request]
    /\ members \in 1 .. MaxMembers /\ owed \in Nat
    /\ jobs \in [0 .. SeatAttempts - 1 -> Nat] /\ worker \in Worker
    /\ changes \in 0 .. MaxChanges /\ faults \in 0 .. MaxFaults
    /\ raced \in BOOLEAN /\ missed \in BOOLEAN

Idle == [pc |-> "idle", event |-> 0, quantity |-> 0]
Off == [pc |-> "off", made |-> 0, quantity |-> 0, target |-> 0]

Init ==
    /\ stripe = [state |-> "none", cart |-> 0, quantity |-> 0]
    /\ event = [e \in Events |-> [kind |-> "none", created |-> 0, quantity |-> 0]]
    /\ emitted = 0 /\ ledger = {} /\ acked = {} /\ handled = [e \in Events |-> 0]
    /\ row = [paid |-> FALSE, subscribed |-> FALSE, seats |-> 1, lastStripeEventAt |-> 0]
    /\ handler = [h \in Handlers |-> Idle]
    /\ members = 1 /\ owed = 0 /\ jobs = [a \in 0 .. SeatAttempts - 1 |-> 0] /\ worker = Off
    /\ changes = 0 /\ faults = 0 /\ raced = FALSE /\ missed = FALSE

Fault == faults < MaxFaults /\ faults' = faults + 1

----------------------------------------------------------------------------------
(* Stripe, which is external.                                                       *)

Emit(kind, quantity) ==
    /\ emitted < MaxEvents /\ emitted' = emitted + 1
    /\ \E created \in IF emitted = 0 THEN {1} ELSE {event[emitted].created, event[emitted].created + 1} :
          event' = [event EXCEPT ![emitted + 1] =
              [kind |-> kind, created |-> created, quantity |-> quantity]]

\* The customer pays at the checkout.
Subscribe ==
    /\ stripe.state = "none" /\ stripe.cart > 0
    /\ stripe' = [stripe EXCEPT !.state = "live", !.quantity = stripe.cart]
    /\ Emit("checkout", stripe.cart)
    /\ UNCHANGED <<billing, members, seats, changes, faults, missed>>

Cancel ==
    /\ stripe.state = "live"
    /\ stripe' = [stripe EXCEPT !.state = "ended"]
    /\ Emit("deleted", stripe.quantity)
    /\ UNCHANGED <<billing, members, seats, changes, faults, missed>>

\* An invoice is paid or fails, be it after the end; or the subscription changes its status
\* or period.
Notify ==
    /\ \/ stripe.state # "none" /\ Emit("invoice", stripe.quantity)
       \/ stripe.state = "live" /\ Emit("updated", stripe.quantity)
    /\ UNCHANGED <<stripe, billing, members, seats, changes, faults, missed>>

----------------------------------------------------------------------------------
(* BillingWebhookController.receive and BillingService.                             *)

At(h, point) == handler[h].pc = point
Finish(h) ==
    /\ handler' = [handler EXCEPT ![h] = [Idle EXCEPT !.pc = "respond", !.event = handler[h].event]]
    /\ handled' = [handled EXCEPT ![handler[h].event] = @ + 1]
Received(h) == event[handler[h].event]

\* Stripe delivers an event at any time, and again, until it sees a 2xx.  recordStripeEvent
\* comes first; a duplicate is acknowledged, a fresh event dispatched.
FreshAlways(e) == TRUE
Fresh(e) == e \notin ledger
DispatchNoInvoice(kind) ==
    CASE kind = "checkout" -> "retrieve" [] kind = "invoice" -> "respond" [] OTHER -> "check"
Dispatch(kind) == IF kind \in {"checkout", "invoice"} THEN "retrieve" ELSE "check"
Receive(h, e) ==
    /\ At(h, "idle") /\ e <= emitted /\ e \notin acked
    /\ IF Fresh(e)
       THEN /\ ledger' = ledger \union {e}
            /\ handler' = [handler EXCEPT ![h] =
                  [pc |-> Dispatch(event[e].kind), event |-> e, quantity |-> event[e].quantity]]
            /\ UNCHANGED acked
       ELSE acked' = acked \union {e} /\ UNCHANGED <<ledger, handler>>
    /\ UNCHANGED <<stripe, event, emitted, handled, row, members, seats, changes, faults,
                   raced, missed>>

\* retrieveSubscription.
Retrieve(h) ==
    /\ At(h, "retrieve")
    /\ handler' = [handler EXCEPT ![h] =
          [handler[h] EXCEPT !.pc = "check", !.quantity = stripe.quantity]]
    /\ UNCHANGED <<stripe, event, emitted, ledger, acked, handled, row, members, seats,
                   changes, faults, raced, missed>>

\* isNotStale: only a strictly older event is dropped.
NotStaleEver(e) == TRUE
NotStale(e) == event[e].created >= row.lastStripeEventAt
Check(h) ==
    LET e == handler[h].event IN
    /\ At(h, "check")
    /\ IF NotStale(e)
       THEN handler' = [handler EXCEPT ![h].pc = "write"] /\ UNCHANGED handled
       ELSE Finish(h)
    /\ UNCHANGED <<stripe, event, emitted, ledger, acked, row, members, seats, changes,
                   faults, raced, missed>>

\* The update of syncFromStripeSubscription, whose plan follows from the price alone, and
\* of markSubscriptionDeleted, which leaves the seats.
Synced(h) ==
    [paid |-> TRUE, subscribed |-> TRUE, seats |-> handler[h].quantity,
     lastStripeEventAt |-> Received(h).created]
Deleted(h) ==
    [row EXCEPT !.paid = FALSE, !.subscribed = FALSE, !.lastStripeEventAt = Received(h).created]
Write(h) ==
    /\ At(h, "write")
    /\ row' = IF Received(h).kind = "deleted" THEN Deleted(h) ELSE Synced(h)
    /\ raced' = (raced \/ \E g \in Handlers \ {h} : At(g, "write"))
    /\ Finish(h)
    /\ UNCHANGED <<stripe, event, emitted, ledger, acked, members, seats, changes, faults, missed>>

Respond(h) ==
    /\ At(h, "respond")
    /\ acked' = acked \union {handler[h].event}
    /\ handler' = [handler EXCEPT ![h] = Idle]
    /\ UNCHANGED <<stripe, event, emitted, ledger, handled, row, members, seats, changes,
                   faults, raced, missed>>

\* A statement or Stripe's API throws, the process dies, or the response is lost.
Break(h) ==
    /\ ~At(h, "idle") /\ Fault
    /\ handler' = [handler EXCEPT ![h] = Idle]
    /\ UNCHANGED <<stripe, event, emitted, ledger, acked, handled, row, members, seats,
                   changes, raced, missed>>

----------------------------------------------------------------------------------
(* Members, the checkout, and the queue seat-sync.                                   *)

\* startCheckout: the session is made for the members there are.
StartCheckout ==
    /\ stripe.cart = 0
    /\ stripe' = [stripe EXCEPT !.cart = members] /\ missed' = FALSE
    /\ UNCHANGED <<event, emitted, billing, members, seats, changes, faults>>

\* An invite is accepted or a member removed.
Change ==
    /\ changes < MaxChanges /\ changes' = changes + 1
    /\ members' \in {members - 1, members + 1} \intersect (1 .. MaxMembers)
ChangeMembers ==
    /\ Change /\ owed' = owed + 1
    /\ UNCHANGED <<stripe, event, emitted, billing, jobs, worker, faults, missed>>

\* Nobody tells the queue of a member whose account is deleted, nor of one who was removed
\* while accepting an invite as a member and comes back by it.
ChangeSilently ==
    /\ Change /\ missed' = TRUE
    /\ UNCHANGED <<stripe, event, emitted, billing, seats, faults>>

\* SeatSyncService.enqueue, which may fail after the membership was written.
EnqueueSync ==
    /\ owed > 0 /\ owed' = owed - 1
    /\ \/ jobs' = [jobs EXCEPT ![0] = @ + 1] /\ UNCHANGED <<faults, missed>>
       \/ Fault /\ missed' = TRUE /\ UNCHANGED jobs
    /\ UNCHANGED <<stripe, event, emitted, billing, members, worker, changes>>

\* The processor takes a job and reads the row: nothing to do without a paid subscription.
\* Then it retrieves the quantity, which nobody else writes.
TakeSync(made) ==
    /\ worker.pc = "off" /\ jobs[made] > 0
    /\ jobs' = [jobs EXCEPT ![made] = @ - 1]
    /\ IF row.paid /\ row.subscribed
       THEN worker' = [Off EXCEPT !.pc = "count", !.made = made, !.quantity = stripe.quantity]
            /\ UNCHANGED missed
       ELSE missed' = (missed \/ stripe.cart > 0) /\ UNCHANGED worker
    /\ UNCHANGED <<stripe, event, emitted, billing, members, owed, changes, faults>>

SeatTargetOneMore == members + 1
SeatTargetOfStripe == worker.quantity
SeatTarget == members
CountMembers ==
    /\ worker.pc = "count"
    /\ worker' = IF worker.quantity = SeatTarget THEN Off
                 ELSE [worker EXCEPT !.pc = "update", !.target = SeatTarget]
    /\ missed' = FALSE
    /\ UNCHANGED <<stripe, event, emitted, billing, members, owed, jobs, changes, faults>>

\* Another attempt, or the last one is behind it.
AttemptFails ==
    LET made == worker.made + 1 IN
    /\ worker' = Off
    /\ IF made < SeatAttempts
       THEN jobs' = [jobs EXCEPT ![made] = @ + 1] /\ UNCHANGED missed
       ELSE missed' = TRUE /\ UNCHANGED jobs

\* updateSeatQuantity; Stripe refuses it after the end.
UpdateSeats ==
    /\ worker.pc = "update"
    /\ IF stripe.state = "live"
       THEN /\ stripe' = [stripe EXCEPT !.quantity = worker.target]
            /\ Emit("updated", worker.target)
            /\ worker' = Off /\ UNCHANGED <<jobs, missed>>
       ELSE AttemptFails /\ UNCHANGED <<stripe, event, emitted>>
    /\ UNCHANGED <<billing, members, owed, changes, faults>>

BreakSync ==
    /\ worker.pc # "off" /\ Fault /\ AttemptFails
    /\ UNCHANGED <<stripe, event, emitted, billing, members, owed, changes>>

----------------------------------------------------------------------------------

Webhook(h) ==
    \/ \E e \in Events : Receive(h, e)
    \/ Retrieve(h) \/ Check(h) \/ Write(h) \/ Respond(h) \/ Break(h)
SeatSync ==
    \/ EnqueueSync \/ (\E made \in 0 .. SeatAttempts - 1 : TakeSync(made))
    \/ CountMembers \/ UpdateSeats \/ BreakSync

Next ==
    \/ Subscribe \/ Cancel \/ Notify \/ StartCheckout \/ ChangeMembers \/ ChangeSilently
    \/ SeatSync \/ \E h \in Handlers : Webhook(h)
Spec == Init /\ [][Next]_vars

----------------------------------------------------------------------------------
(* Properties.                                                                      *)

\* However often and however concurrently Stripe delivers an event, its handler gets to
\* its end once.
HandledOnce == \A e \in Events : handled[e] <= 1

\* Without an error, an event that was acknowledged has been handled or still is.
InHand(e) == \E h \in Handlers : handler[h].event = e /\ handler[h].pc \in {"retrieve", "check", "write"}
LostOnlyByFault == faults = 0 => \A e \in ledger : handled[e] = 1 \/ InHand(e)

\* Delivered in any order, the events leave the row as Stripe has it, unless two handlers
\* overlapped between check and write, an error lost an event, or the newest events share
\* a second.  A late invoice event brings the price of an ended subscription back.
NewestIsLater == \A e \in 1 .. emitted - 1 : event[e].created < event[emitted].created
SettledRowIsCurrent ==
    (emitted > 0 /\ acked = 1 .. emitted /\ (\A h \in Handlers : At(h, "idle"))
        /\ faults = 0 /\ ~raced /\ NewestIsLater) =>
        /\ row.paid = (stripe.state = "live" \/ event[emitted].kind = "invoice")
        /\ row.paid => row.seats = stripe.quantity

\* Once the queue is empty, a live subscription bills the members there are, whatever
\* their comings and goings: one sync that counts makes up for all that were missed before,
\* so that only a change nobody has counted since may be missing.
SeatsQuiet == owed = 0 /\ worker.pc = "off" /\ \A a \in 0 .. SeatAttempts - 1 : jobs[a] = 0
SeatsFollowMembers == (SeatsQuiet /\ ~missed /\ stripe.state = "live") => stripe.quantity = members

\* The schema says that a retried delivery is short-circuited "as already processed".
AcknowledgedIsProcessed == \A e \in acked : handled[e] > 0 \/ InHand(e)
==================================================================================
