---------------------------- MODULE BillingSync_proofs ----------------------------
(* Proofs about BillingSync for any number of requests, events, members and faults:  *)
(* types first, then the ledger, the row and the seats.                              *)
EXTENDS BillingSync, TLAPS

USE DEF At

\* A request in progress has an event in hand.
Busy == \A h \in Handlers : ~At(h, "idle") => handler[h].event \in Events
TInv == TypeOK /\ Busy

----------------------------------------------------------------------------------
(* Types.                                                                            *)

\* What the assumption says of each bound, in the form the steps below use.
LEMMA Bounds ==
    /\ SeatAttempts \in Nat /\ SeatAttempts > 0 /\ MaxMembers \in Nat /\ MaxMembers > 0
    /\ MaxChanges \in Nat /\ MaxEvents \in Nat /\ MaxFaults \in Nat
    /\ 0 \in Quantities /\ 1 \in Quantities /\ 0 \in 0 .. SeatAttempts
    /\ Events \subseteq 0 .. MaxEvents /\ 0 .. SeatAttempts - 1 \subseteq 0 .. SeatAttempts
BY BillingAssumption DEF Quantities, Events

\* Whatever Stripe emits is an event of a kind the controller may get.
LEMMA EmitTyped ==
    ASSUME TInv,
           NEW kind \in {"checkout", "updated", "deleted", "invoice"}, NEW q \in Quantities,
           Emit(kind, q)
    PROVE  event' \in [Events -> Event] /\ emitted' \in 0 .. MaxEvents
<1>1. emitted + 1 \in Events /\ emitted' \in 0 .. MaxEvents
  BY BillingAssumption DEF Emit, TInv, TypeOK, Events
<1>2. PICK created \in IF emitted = 0 THEN {1} ELSE {event[emitted].created, event[emitted].created + 1} :
        event' = [event EXCEPT ![emitted + 1] =
                    [kind |-> kind, created |-> created, quantity |-> q]]
  BY DEF Emit
<1>3. created \in Nat
  <2>1. CASE emitted = 0
    BY <2>1
  <2>2. CASE emitted # 0
    <3>1. emitted \in Events
      BY <2>2, BillingAssumption DEF TInv, TypeOK, Events
    <3>2. event[emitted].created \in Nat
      BY <3>1 DEF TInv, TypeOK, Event
    <3> QED BY <2>2, <3>2
  <2> QED BY <2>1, <2>2
<1>4. [kind |-> kind, created |-> created, quantity |-> q] \in Event
  BY <1>3 DEF Event
<1> QED BY <1>1, <1>2, <1>4 DEF TInv, TypeOK

\* A failed attempt leaves a well-typed queue.
LEMMA AttemptTyped ==
    ASSUME TInv, worker.pc # "off", AttemptFails
    PROVE  /\ worker' \in Worker /\ missed' \in BOOLEAN
           /\ jobs' \in [0 .. SeatAttempts - 1 -> Nat]
<1>1. worker.made + 1 \in Nat
  BY DEF TInv, TypeOK, Worker
<1>2. Off \in Worker
  BY BillingAssumption DEF Off, Worker, Quantities
<1>3. CASE worker.made + 1 < SeatAttempts
  <2>1. worker.made + 1 \in 0 .. SeatAttempts - 1
    BY <1>1, <1>3, BillingAssumption
  <2>2. jobs[worker.made + 1] + 1 \in Nat
    BY <2>1 DEF TInv, TypeOK
  <2> QED BY <1>2, <1>3, <2>1, <2>2 DEF AttemptFails, TInv, TypeOK
<1>4. CASE ~(worker.made + 1 < SeatAttempts)
  BY <1>2, <1>4 DEF AttemptFails, TInv, TypeOK
<1> QED BY <1>3, <1>4

\* A request that has an event in hand keeps the handlers well typed.
LEMMA RequestTyped ==
    ASSUME TInv, NEW h \in Handlers, NEW r \in Request,
           r.pc # "idle" => r.event \in Events,
           handler' = [handler EXCEPT ![h] = r]
    PROVE  handler' \in [Handlers -> Request] /\ Busy'
BY DEF TInv, TypeOK, Busy

\* Its event is one that Stripe emitted, with the quantity it carries.
LEMMA ReceivedTyped ==
    ASSUME TInv, NEW h \in Handlers, ~At(h, "idle")
    PROVE  /\ handler[h] \in Request /\ handler[h].event \in Events
           /\ Received(h) \in Event
BY DEF TInv, TypeOK, Busy, Received

\* The end of a handler is well typed and counted for its event alone.
LEMMA FinishTyped ==
    ASSUME TInv, NEW h \in Handlers, ~At(h, "idle"), Finish(h)
    PROVE  /\ handler' \in [Handlers -> Request] /\ Busy'
           /\ handled' \in [Events -> Nat]
<1>1. handler[h].event \in Events /\ handled[handler[h].event] + 1 \in Nat
  BY DEF TInv, TypeOK, Busy
<1>2. [Idle EXCEPT !.pc = "respond", !.event = handler[h].event] \in Request
  <2>1. handler[h].event \in 0 .. MaxEvents
    BY <1>1, Bounds
  <2> QED BY <2>1, Bounds DEF Idle, Request
<1>3. handler' \in [Handlers -> Request] /\ Busy'
  BY <1>1, <1>2, RequestTyped DEF Finish, Idle
<1>4. handled' \in [Events -> Nat]
  BY <1>1 DEF Finish, TInv, TypeOK
<1> QED BY <1>3, <1>4

\* The initial state is well typed.
LEMMA TypeInit == Init => TInv
<1> SUFFICES ASSUME Init PROVE TInv
  OBVIOUS
<1>1. [state |-> "none", cart |-> 0, quantity |-> 0] \in Stripe
  BY BillingAssumption DEF Stripe, Quantities
<1>2. [kind |-> "none", created |-> 0, quantity |-> 0] \in Event
  BY BillingAssumption DEF Event, Quantities
<1>3. [paid |-> FALSE, subscribed |-> FALSE, seats |-> 1, lastStripeEventAt |-> 0] \in Row
  BY BillingAssumption DEF Row, Quantities
<1>4. Idle \in Request /\ Off \in Worker
  BY BillingAssumption DEF Idle, Off, Request, Worker, Quantities
<1>5. Busy
  BY DEF Init, Busy, Idle
<1>6. /\ emitted \in 0 .. MaxEvents /\ members \in 1 .. MaxMembers /\ owed \in Nat
      /\ changes \in 0 .. MaxChanges /\ faults \in 0 .. MaxFaults
  BY Bounds DEF Init
<1>7. handled \in [Events -> Nat] /\ jobs \in [0 .. SeatAttempts - 1 -> Nat]
  BY DEF Init
<1>8. handler \in [Handlers -> Request] /\ event \in [Events -> Event]
  BY <1>2, <1>4 DEF Init
<1> QED BY <1>1, <1>3, <1>4, <1>5, <1>6, <1>7, <1>8 DEF Init, TInv, TypeOK

\* Every step keeps the types.
LEMMA TypeStep == TInv /\ [Next]_vars => TInv'
<1> SUFFICES ASSUME TInv, [Next]_vars PROVE TInv'
  OBVIOUS
<1> USE DEF billing, seats
<1>1. CASE Subscribe
  <2>1. stripe' \in Stripe
    BY <1>1 DEF Subscribe, TInv, TypeOK, Stripe
  <2>2. event' \in [Events -> Event] /\ emitted' \in 0 .. MaxEvents
    BY <1>1, EmitTyped DEF Subscribe, TInv, TypeOK, Stripe
  <2> QED BY <1>1, <2>1, <2>2 DEF Subscribe, TInv, TypeOK, Busy
<1>2. CASE Cancel
  <2>1. stripe' \in Stripe
    BY <1>2 DEF Cancel, TInv, TypeOK, Stripe
  <2>2. event' \in [Events -> Event] /\ emitted' \in 0 .. MaxEvents
    BY <1>2, EmitTyped DEF Cancel, TInv, TypeOK, Stripe
  <2> QED BY <1>2, <2>1, <2>2 DEF Cancel, TInv, TypeOK, Busy
<1>3. CASE Notify
  <2>1. event' \in [Events -> Event] /\ emitted' \in 0 .. MaxEvents
    BY <1>3, EmitTyped DEF Notify, TInv, TypeOK, Stripe
  <2> QED BY <1>3, <2>1 DEF Notify, TInv, TypeOK, Busy
<1>4. CASE StartCheckout
  <2>1. stripe' \in Stripe
    <3>1. members \in Quantities
      BY Bounds DEF TInv, TypeOK, Quantities
    <3> QED BY <1>4, <3>1 DEF StartCheckout, TInv, TypeOK, Stripe
  <2> QED BY <1>4, <2>1 DEF StartCheckout, TInv, TypeOK, Busy
<1>5. CASE ChangeMembers \/ ChangeSilently
  <2>1. changes' \in 0 .. MaxChanges /\ members' \in 1 .. MaxMembers
    BY <1>5, BillingAssumption DEF ChangeMembers, ChangeSilently, Change, TInv, TypeOK
  <2>2. owed' \in Nat /\ missed' \in BOOLEAN
    <3>1. CASE ChangeMembers
      BY <3>1 DEF ChangeMembers, TInv, TypeOK
    <3>2. CASE ChangeSilently
      BY <3>2 DEF ChangeSilently, TInv, TypeOK
    <3> QED BY <1>5, <3>1, <3>2
  <2> QED BY <1>5, <2>1, <2>2 DEF ChangeMembers, ChangeSilently, TInv, TypeOK, Busy
<1>6. CASE EnqueueSync
  <2>1. owed' \in Nat
    BY <1>6 DEF EnqueueSync, TInv, TypeOK
  <2>2. 0 \in 0 .. SeatAttempts - 1
    BY BillingAssumption
  <2>3. jobs' \in [0 .. SeatAttempts - 1 -> Nat] /\ faults' \in 0 .. MaxFaults /\ missed' \in BOOLEAN
    <3>1. CASE jobs' = [jobs EXCEPT ![0] = @ + 1] /\ UNCHANGED <<faults, missed>>
      BY <3>1, <2>2 DEF TInv, TypeOK
    <3>2. CASE Fault /\ missed' = TRUE /\ UNCHANGED jobs
      BY <3>2, BillingAssumption DEF Fault, TInv, TypeOK
    <3> QED BY <1>6, <3>1, <3>2 DEF EnqueueSync
  <2> QED BY <1>6, <2>1, <2>3 DEF EnqueueSync, TInv, TypeOK, Busy
<1>7. ASSUME NEW made \in 0 .. SeatAttempts - 1, TakeSync(made) PROVE TInv'
  <2>1. jobs' \in [0 .. SeatAttempts - 1 -> Nat]
    BY <1>7 DEF TakeSync, TInv, TypeOK
  <2>2. [Off EXCEPT !.pc = "count", !.made = made, !.quantity = stripe.quantity] \in Worker
    <3>1. stripe.quantity \in Quantities /\ made \in 0 .. SeatAttempts
      BY <1>7, Bounds DEF TInv, TypeOK, Stripe
    <3> QED BY <3>1, Bounds DEF Off, Worker
  <2>3. worker' \in Worker /\ missed' \in BOOLEAN
    BY <1>7, <2>2 DEF TakeSync, TInv, TypeOK
  <2> QED BY <1>7, <2>1, <2>3 DEF TakeSync, TInv, TypeOK, Busy
<1>8. CASE CountMembers
  <2>1. Off \in Worker /\ SeatTarget \in Quantities
    BY BillingAssumption DEF Off, Worker, SeatTarget, Quantities, TInv, TypeOK
  <2>2. worker' \in Worker
    BY <1>8, <2>1 DEF CountMembers, TInv, TypeOK, Worker
  <2> QED BY <1>8, <2>2 DEF CountMembers, TInv, TypeOK, Busy
<1>9. CASE UpdateSeats
  <2>1. CASE stripe.state = "live"
    <3>1. worker.target \in Quantities /\ Off \in Worker
      BY BillingAssumption DEF TInv, TypeOK, Worker, Off, Quantities
    <3>2. stripe' \in Stripe
      BY <1>9, <2>1, <3>1 DEF UpdateSeats, TInv, TypeOK, Stripe
    <3>3. event' \in [Events -> Event] /\ emitted' \in 0 .. MaxEvents
      BY <1>9, <2>1, <3>1, EmitTyped DEF UpdateSeats
    <3> QED BY <1>9, <2>1, <3>1, <3>2, <3>3 DEF UpdateSeats, TInv, TypeOK, Busy
  <2>2. CASE stripe.state # "live"
    <3>1. worker' \in Worker /\ missed' \in BOOLEAN /\ jobs' \in [0 .. SeatAttempts - 1 -> Nat]
      BY <1>9, <2>2, AttemptTyped DEF UpdateSeats
    <3> QED BY <1>9, <2>2, <3>1 DEF UpdateSeats, TInv, TypeOK, Busy
  <2> QED BY <2>1, <2>2
<1>10. CASE BreakSync
  <2>1. worker' \in Worker /\ missed' \in BOOLEAN /\ jobs' \in [0 .. SeatAttempts - 1 -> Nat]
    BY <1>10, AttemptTyped DEF BreakSync
  <2>2. faults' \in 0 .. MaxFaults
    BY <1>10, BillingAssumption DEF BreakSync, Fault, TInv, TypeOK
  <2> QED BY <1>10, <2>1, <2>2 DEF BreakSync, TInv, TypeOK, Busy
<1>11. ASSUME NEW h \in Handlers, NEW e \in Events, Receive(h, e) PROVE TInv'
  <2>1. CASE Fresh(e)
    <3>1. [pc |-> Dispatch(event[e].kind), event |-> e, quantity |-> event[e].quantity] \in Request
      <4>1. event[e].quantity \in Quantities /\ e \in 0 .. MaxEvents
        BY <1>11, Bounds DEF TInv, TypeOK, Event
      <4>2. Dispatch(event[e].kind) \in {"retrieve", "check"}
        BY DEF Dispatch
      <4> QED BY <4>1, <4>2 DEF Request
    <3>2. handler' \in [Handlers -> Request] /\ Busy'
      BY <1>11, <2>1, <3>1, RequestTyped DEF Receive
    <3> QED BY <1>11, <2>1, <3>2 DEF Receive, TInv, TypeOK
  <2>2. CASE ~Fresh(e)
    BY <1>11, <2>2 DEF Receive, TInv, TypeOK, Busy
  <2> QED BY <2>1, <2>2
<1>12. ASSUME NEW h \in Handlers, Retrieve(h) PROVE TInv'
  <2>1. handler[h] \in Request /\ handler[h].event \in Events
    BY <1>12, ReceivedTyped DEF Retrieve
  <2>2. [handler[h] EXCEPT !.pc = "check", !.quantity = stripe.quantity] \in Request
    BY <2>1 DEF Request, TInv, TypeOK, Stripe
  <2>3. handler' \in [Handlers -> Request] /\ Busy'
    BY <1>12, <2>1, <2>2, RequestTyped DEF Retrieve, Request
  <2> QED BY <1>12, <2>3 DEF Retrieve, TInv, TypeOK
<1>13. ASSUME NEW h \in Handlers, Check(h) PROVE TInv'
  <2>1. CASE NotStale(handler[h].event)
    <3>1. handler[h] \in Request /\ handler[h].event \in Events
      BY <1>13, ReceivedTyped DEF Check
    <3>2. [handler[h] EXCEPT !.pc = "write"] \in Request
      BY <3>1 DEF Request
    <3>3. handler' = [handler EXCEPT ![h] = [handler[h] EXCEPT !.pc = "write"]]
      BY <1>13, <2>1 DEF Check, TInv, TypeOK
    <3>4. handler' \in [Handlers -> Request] /\ Busy'
      BY <3>1, <3>2, <3>3, RequestTyped DEF Request
    <3> QED BY <1>13, <2>1, <3>4 DEF Check, TInv, TypeOK
  <2>2. CASE ~NotStale(handler[h].event)
    <3>1. handler' \in [Handlers -> Request] /\ Busy' /\ handled' \in [Events -> Nat]
      BY <1>13, <2>2, FinishTyped DEF Check
    <3> QED BY <1>13, <2>2, <3>1 DEF Check, TInv, TypeOK
  <2> QED BY <2>1, <2>2
<1>14. ASSUME NEW h \in Handlers, Write(h) PROVE TInv'
  <2>1. handler' \in [Handlers -> Request] /\ Busy' /\ handled' \in [Events -> Nat]
    BY <1>14, FinishTyped DEF Write
  <2>2. handler[h] \in Request /\ Received(h).created \in Nat
    BY <1>14, ReceivedTyped DEF Write, Event
  <2>3. Deleted(h) \in Row /\ Synced(h) \in Row
    BY <2>2 DEF Deleted, Synced, Row, Request, TInv, TypeOK
  <2>4. row' \in Row /\ raced' \in BOOLEAN
    BY <1>14, <2>3 DEF Write
  <2> QED BY <1>14, <2>1, <2>4 DEF Write, TInv, TypeOK
<1>15. ASSUME NEW h \in Handlers, Respond(h) PROVE TInv'
  <2>1. Idle \in Request
    BY BillingAssumption DEF Idle, Request, Quantities
  <2>2. handler' \in [Handlers -> Request] /\ Busy'
    BY <1>15, <2>1, RequestTyped DEF Respond, Idle
  <2>3. acked' \subseteq Events
    BY <1>15, ReceivedTyped DEF Respond, TInv, TypeOK
  <2> QED BY <1>15, <2>2, <2>3 DEF Respond, TInv, TypeOK
<1>16. ASSUME NEW h \in Handlers, Break(h) PROVE TInv'
  <2>1. Idle \in Request
    BY BillingAssumption DEF Idle, Request, Quantities
  <2>2. handler' \in [Handlers -> Request] /\ Busy'
    BY <1>16, <2>1, RequestTyped DEF Break, Idle
  <2>3. faults' \in 0 .. MaxFaults
    BY <1>16, BillingAssumption DEF Break, Fault, TInv, TypeOK
  <2> QED BY <1>16, <2>2, <2>3 DEF Break, TInv, TypeOK
<1>17. CASE UNCHANGED vars
  BY <1>17 DEF vars, TInv, TypeOK, Busy
<1> QED BY <1>1, <1>2, <1>3, <1>4, <1>5, <1>6, <1>7, <1>8, <1>9, <1>10, <1>11, <1>12,
           <1>13, <1>14, <1>15, <1>16, <1>17 DEF Next, SeatSync, Webhook

\* Every variable keeps its type, for every value of the constants.
THEOREM TypeCorrect == Spec => []TypeOK
<1>1. Spec => []TInv
  BY TypeInit, TypeStep, PTL DEF Spec
<1>2. TInv => TypeOK
  BY DEF TInv
<1> QED BY <1>1, <1>2, PTL

----------------------------------------------------------------------------------
(* The ledger.                                                                       *)

\* A request past the ledger entry and before its handler's end.
Working(h) == handler[h].pc \in {"retrieve", "check", "write"}

\* Two of them never have the same event, and theirs is recorded and not yet handled.
Alone == \A g, h \in Handlers :
    (Working(g) /\ Working(h) /\ handler[g].event = handler[h].event) => g = h
Unhandled == \A h \in Handlers : Working(h) =>
    handler[h].event \in ledger /\ handled[handler[h].event] = 0

\* Only recorded events are ever handled.
Recorded == \A e \in Events : handled[e] > 0 => e \in ledger

LInv == TInv /\ Alone /\ Unhandled /\ Recorded /\ HandledOnce /\ LostOnlyByFault

\* A step that leaves the requests and the ledger alone and at most counts a fault.
LEMMA LedgerFrame ==
    ASSUME LInv, TInv', UNCHANGED <<ledger, handled, handler>>, faults' = faults \/ faults' # 0
    PROVE  LInv'
BY DEF LInv, Alone, Working, Unhandled, Recorded, HandledOnce, LostOnlyByFault, InHand

\* A fault is counted.
LEMMA FaultCounted == ASSUME TInv, Fault PROVE faults' # 0
BY DEF Fault, TInv, TypeOK

\* The end of a handler: the only request that has the event counts it, once.
LEMMA FinishKeeps ==
    ASSUME LInv, TInv', NEW h \in Handlers, Working(h), Finish(h), UNCHANGED <<ledger, faults>>
    PROVE  LInv'
<1> DEFINE e == handler[h].event
<1>1. e \in Events /\ e \in ledger /\ handled[e] = 0
  BY DEF LInv, TInv, Busy, Working, Unhandled
<1>2. handled' = [handled EXCEPT ![e] = 1]
  BY <1>1 DEF Finish, LInv, TInv, TypeOK
<1>3. handled'[e] = 1 /\ \A d \in Events \ {e} : handled'[d] = handled[d]
  BY <1>1, <1>2 DEF LInv, TInv, TypeOK
<1>4. \A g \in Handlers \ {h} : handler'[g] = handler[g]
  BY DEF Finish, LInv, TInv, TypeOK
<1>5. ~Working(h)'
  BY DEF Finish, Working, LInv, TInv, TypeOK, Idle
<1>6. \A g \in Handlers \ {h} : Working(g) => handler[g].event # e
  BY DEF LInv, Alone
<1> HIDE DEF e
<1>7. Alone'
  BY <1>4, <1>5 DEF LInv, Alone, Working
<1>8. Unhandled'
  <2> SUFFICES ASSUME NEW g \in Handlers, Working(g)'
               PROVE  handler'[g].event \in ledger' /\ handled'[handler'[g].event] = 0
    BY DEF Unhandled
  <2>1. g # h /\ handler'[g] = handler[g] /\ Working(g)
    BY <1>4, <1>5 DEF Working
  <2>2. handler[g].event \in Events \ {e}
    BY <1>6, <2>1 DEF LInv, TInv, Busy, Working
  <2> QED BY <1>3, <2>1, <2>2 DEF LInv, Unhandled
<1>9. Recorded' /\ HandledOnce'
  BY <1>1, <1>3 DEF LInv, Recorded, HandledOnce
<1>10. LostOnlyByFault'
  <2> SUFFICES ASSUME faults' = 0, NEW d \in ledger' PROVE handled'[d] = 1 \/ InHand(d)'
    BY DEF LostOnlyByFault
  <2>1. d \in Events /\ (handled[d] = 1 \/ InHand(d))
    BY DEF LInv, TInv, TypeOK, LostOnlyByFault
  <2>2. CASE d = e
    BY <1>3, <2>2
  <2>3. CASE d # e /\ handled[d] = 1
    BY <1>3, <2>1, <2>3
  <2>4. CASE d # e /\ InHand(d)
    <3>1. PICK g \in Handlers : handler[g].event = d /\ Working(g)
      BY <2>4 DEF InHand, Working
    <3>2. g # h
      BY <2>4, <3>1 DEF e
    <3> QED BY <1>4, <3>1, <3>2 DEF InHand, Working
  <2> QED BY <2>1, <2>2, <2>3, <2>4
<1> QED BY <1>7, <1>8, <1>9, <1>10 DEF LInv

\* A fresh event gets one request of its own; a duplicate gets none.
LEMMA ReceiveKeeps ==
    ASSUME LInv, TInv', NEW h \in Handlers, NEW e \in Events, Receive(h, e)
    PROVE  LInv'
<1>1. CASE ~Fresh(e)
  BY <1>1, LedgerFrame DEF Receive
<1>2. CASE Fresh(e)
  <2> DEFINE r == [pc |-> Dispatch(event[e].kind), event |-> e, quantity |-> event[e].quantity]
  <2>1. ledger' = ledger \union {e} /\ handler' = [handler EXCEPT ![h] = r] /\ UNCHANGED <<handled, faults>>
    BY <1>2 DEF Receive
  <2>2. handler'[h] = r /\ \A g \in Handlers \ {h} : handler'[g] = handler[g]
    BY <2>1 DEF LInv, TInv, TypeOK
  <2>3. r.event = e /\ r.pc \in {"retrieve", "check"}
    BY DEF Dispatch
  <2> HIDE DEF r
  <2>4. e \notin ledger /\ handled[e] = 0
    BY <1>2 DEF Fresh, LInv, Recorded, TInv, TypeOK
  <2>5. ~Working(h) /\ \A g \in Handlers : Working(g) => handler[g].event # e
    BY <2>4 DEF Receive, Working, LInv, Unhandled
  <2>6. Alone'
    BY <2>2, <2>3, <2>5 DEF LInv, Alone, Working
  <2>7. Unhandled'
    BY <2>1, <2>2, <2>3, <2>4 DEF LInv, Unhandled, Working
  <2>8. Recorded' /\ HandledOnce'
    BY <2>1 DEF LInv, Recorded, HandledOnce
  <2>9. LostOnlyByFault'
    <3> SUFFICES ASSUME faults' = 0, NEW d \in ledger' PROVE handled'[d] = 1 \/ InHand(d)'
      BY DEF LostOnlyByFault
    <3>1. CASE d = e
      BY <2>2, <2>3, <3>1 DEF InHand
    <3>2. CASE d # e
      <4>1. handled[d] = 1 \/ InHand(d)
        BY <2>1, <3>2 DEF LInv, LostOnlyByFault
      <4>2. ASSUME NEW g \in Handlers, handler[g].event = d, Working(g) PROVE InHand(d)'
        BY <2>2, <2>5, <4>2 DEF InHand, Working
      <4> QED BY <2>1, <4>1, <4>2 DEF InHand, Working
    <3> QED BY <3>1, <3>2
  <2> QED BY <2>6, <2>7, <2>8, <2>9 DEF LInv
<1> QED BY <1>1, <1>2

\* A request goes on with the same event.
LEMMA GoOnKeeps ==
    ASSUME LInv, TInv', NEW h \in Handlers, Working(h), Working(h)',
           handler'[h].event = handler[h].event,
           \A g \in Handlers \ {h} : handler'[g] = handler[g],
           UNCHANGED <<ledger, handled, faults>>
    PROVE  LInv'
<1>1. \A g \in Handlers : (Working(g)' <=> Working(g)) /\ handler'[g].event = handler[g].event
  BY DEF Working
<1>2. \A e : InHand(e)' <=> InHand(e)
  BY <1>1 DEF InHand, Working
<1>3. Alone' /\ Unhandled'
  BY <1>1 DEF LInv, Alone, Unhandled
<1>4. Recorded' /\ HandledOnce' /\ LostOnlyByFault'
  BY <1>2 DEF LInv, Recorded, HandledOnce, LostOnlyByFault
<1> QED BY <1>3, <1>4 DEF LInv

\* A request that is through, or broken off by a fault, has no event in hand.
LEMMA LeaveKeeps ==
    ASSUME LInv, TInv', NEW h \in Handlers, handler' = [handler EXCEPT ![h] = Idle],
           ~Working(h) \/ faults' # 0, faults' = faults \/ faults' # 0, UNCHANGED <<ledger, handled>>
    PROVE  LInv'
<1>1. ~Working(h)' /\ \A g \in Handlers \ {h} : handler'[g] = handler[g]
  BY DEF Working, Idle, LInv, TInv, TypeOK
<1>2. Alone' /\ Unhandled'
  BY <1>1 DEF LInv, Alone, Unhandled, Working
<1>3. Recorded' /\ HandledOnce'
  BY DEF LInv, Recorded, HandledOnce
<1>4. LostOnlyByFault'
  <2> SUFFICES ASSUME faults' = 0, NEW e \in ledger PROVE handled[e] = 1 \/ InHand(e)'
    BY DEF LostOnlyByFault
  <2>1. handled[e] = 1 \/ InHand(e)
    BY DEF LInv, LostOnlyByFault
  <2> QED BY <1>1, <2>1 DEF InHand, Working
<1> QED BY <1>2, <1>3, <1>4 DEF LInv

\* It holds at first, when no event has arrived.
LEMMA LedgerInit == Init => LInv
<1> SUFFICES ASSUME Init PROVE LInv
  OBVIOUS
<1>1. \A h \in Handlers : ~Working(h)
  BY DEF Init, Working, Idle
<1>2. ledger = {} /\ \A e \in Events : handled[e] = 0
  BY DEF Init
<1> QED BY <1>1, <1>2, TypeInit DEF LInv, Alone, Unhandled, Recorded, HandledOnce, LostOnlyByFault

\* Every step keeps it.
LEMMA LedgerStep == LInv /\ [Next]_vars => LInv'
<1> SUFFICES ASSUME LInv, [Next]_vars PROVE LInv'
  OBVIOUS
<1>1. TInv /\ TInv'
  BY TypeStep DEF LInv
<1> USE DEF billing, seats
<1>2. CASE Subscribe \/ Cancel \/ Notify \/ StartCheckout \/ ChangeMembers \/ ChangeSilently
  <2>1. UNCHANGED <<ledger, handled, handler, faults>>
    BY <1>2 DEF Subscribe, Cancel, Notify, StartCheckout, ChangeMembers, ChangeSilently
  <2> QED BY <1>1, <2>1, LedgerFrame
<1>3. CASE SeatSync
  <2>1. UNCHANGED <<ledger, handled, handler>>
    BY <1>3 DEF SeatSync, EnqueueSync, TakeSync, CountMembers, UpdateSeats, BreakSync
  <2>2. faults' = faults \/ faults' # 0
    BY <1>1, <1>3, FaultCounted
       DEF SeatSync, EnqueueSync, TakeSync, CountMembers, UpdateSeats, BreakSync
  <2> QED BY <1>1, <2>1, <2>2, LedgerFrame
<1>4. ASSUME NEW h \in Handlers, NEW e \in Events, Receive(h, e) PROVE LInv'
  BY <1>1, <1>4, ReceiveKeeps
<1>5. ASSUME NEW h \in Handlers, Retrieve(h) PROVE LInv'
  <2>1. /\ Working(h) /\ Working(h)' /\ handler'[h].event = handler[h].event
        /\ \A g \in Handlers \ {h} : handler'[g] = handler[g]
    BY <1>1, <1>5 DEF Retrieve, Working, TInv, TypeOK, Request
  <2> QED BY <1>1, <1>5, <2>1, GoOnKeeps DEF Retrieve
<1>6. ASSUME NEW h \in Handlers, Check(h) PROVE LInv'
  <2>1. CASE NotStale(handler[h].event)
    <3>1. /\ Working(h) /\ Working(h)' /\ handler'[h].event = handler[h].event
          /\ \A g \in Handlers \ {h} : handler'[g] = handler[g]
      BY <1>1, <1>6, <2>1 DEF Check, Working, TInv, TypeOK, Request
    <3> QED BY <1>1, <1>6, <2>1, <3>1, GoOnKeeps DEF Check
  <2>2. CASE ~NotStale(handler[h].event)
    BY <1>1, <1>6, <2>2, FinishKeeps DEF Check, Working
  <2> QED BY <2>1, <2>2
<1>7. ASSUME NEW h \in Handlers, Write(h) PROVE LInv'
  BY <1>1, <1>7, FinishKeeps DEF Write, Working
<1>8. ASSUME NEW h \in Handlers, Respond(h) PROVE LInv'
  BY <1>1, <1>8, LeaveKeeps DEF Respond, Working
<1>9. ASSUME NEW h \in Handlers, Break(h) PROVE LInv'
  <2>1. faults' # 0
    BY <1>1, <1>9, FaultCounted DEF Break
  <2> QED BY <1>1, <1>9, <2>1, LeaveKeeps DEF Break
<1>10. CASE UNCHANGED vars
  BY <1>1, <1>10, LedgerFrame DEF vars
<1> QED BY <1>2, <1>3, <1>4, <1>5, <1>6, <1>7, <1>8, <1>9, <1>10 DEF Next, Webhook

\* The ledger keeps its promise for any number of concurrent deliveries: no event's
\* handler gets to its end twice.
THEOREM EventsHandledOnce == Spec => []HandledOnce
<1>1. Spec => []LInv
  BY LedgerInit, LedgerStep, PTL DEF Spec
<1>2. LInv => HandledOnce
  BY DEF LInv
<1> QED BY <1>1, <1>2, PTL

\* An event is lost only where something broke off: without a fault every recorded event
\* has been handled or is in the hands of a request.
THEOREM EventsLostOnlyByFault == Spec => []LostOnlyByFault
<1>1. Spec => []LInv
  BY LedgerInit, LedgerStep, PTL DEF Spec
<1>2. LInv => LostOnlyByFault
  BY DEF LInv
<1> QED BY <1>1, <1>2, PTL

----------------------------------------------------------------------------------
(* The row.  The newest event says what Stripe has, nothing arrives that Stripe has   *)
(* not sent, and a request that may write is not behind the high-water mark, unless    *)
(* two writes overlapped.                                                             *)

Published ==
    /\ \A e \in 1 .. emitted : event[e].created <= event[emitted].created
    /\ emitted > 0 =>
          /\ event[emitted].quantity = stripe.quantity
          /\ event[emitted].kind \in {"checkout", "updated"} => stripe.state = "live"
          /\ event[emitted].kind = "deleted" => stripe.state = "ended"
          /\ event[emitted].kind # "none" /\ stripe.state # "none"

Delivered ==
    /\ ledger \subseteq 1 .. emitted /\ acked \subseteq ledger
    /\ \A h \in Handlers : ~At(h, "idle") => handler[h].event \in ledger
    /\ IF emitted > 0 THEN row.lastStripeEventAt <= event[emitted].created
                      ELSE row.lastStripeEventAt = 0 /\ ~row.paid

Carried(h) ==
    /\ handler[h].event = emitted /\ handler[h].pc \in {"check", "write"} =>
          handler[h].quantity = stripe.quantity
    /\ ~raced /\ At(h, "write") => Received(h).created >= row.lastStripeEventAt

Reflected ==
    (emitted > 0 /\ handled[emitted] > 0 /\ ~raced /\ NewestIsLater) =>
        /\ row.lastStripeEventAt = event[emitted].created
        /\ row.paid = (event[emitted].kind # "deleted")
        /\ row.paid => row.seats = stripe.quantity

RInv == Published /\ Delivered /\ (\A h \in Handlers : Carried(h)) /\ Reflected

\* Nothing was emitted, and nothing has arrived.
LEMMA RowInit == Init => RInv
<1> SUFFICES ASSUME Init PROVE RInv
  OBVIOUS
<1>1. emitted = 0 /\ ledger = {} /\ acked = {} /\ row.lastStripeEventAt = 0 /\ ~row.paid
  BY DEF Init
<1>2. \A h \in Handlers : handler[h].pc = "idle"
  BY DEF Init, Idle
<1>3. 1 .. emitted = {}
  BY <1>1
<1>4. Published /\ Delivered /\ Reflected
  BY <1>1, <1>2, <1>3 DEF Published, Delivered, Reflected
<1> QED BY <1>2, <1>4 DEF RInv, Carried

\* A step that only the members, the queue and the checkout session see.
LEMMA RowFrame ==
    ASSUME RInv, UNCHANGED <<event, emitted, billing>>,
           stripe'.state = stripe.state, stripe'.quantity = stripe.quantity
    PROVE  RInv'
<1> USE DEF billing
<1>1. Published'
  BY DEF RInv, Published
<1>2. Delivered'
  BY DEF RInv, Delivered
<1>3. \A h \in Handlers : Carried(h)'
  BY DEF RInv, Carried, Received
<1>4. Reflected'
  BY DEF RInv, Reflected, NewestIsLater
<1> QED BY <1>1, <1>2, <1>3, <1>4 DEF RInv

\* A request in progress has an event that was recorded, and emitted before.
LEMMA EventEmitted ==
    ASSUME LInv, RInv, NEW h \in Handlers, ~At(h, "idle")
    PROVE  /\ handler[h].event \in 1 .. emitted
           /\ emitted \in 1 .. MaxEvents /\ handler[h].event <= emitted
<1>1. handler[h].event \in ledger /\ ledger \subseteq 1 .. emitted
  BY DEF RInv, Delivered
<1>2. emitted \in 0 .. MaxEvents
  BY DEF LInv, TInv, TypeOK
<1>3. handler[h].event \in 1 .. emitted
  BY <1>1
<1> QED BY <1>2, <1>3, BillingAssumption

\* The new event is the newest, no request has it, and it says what Stripe has now.
LEMMA EmitRow ==
    ASSUME LInv, RInv, NEW kind, NEW q, Emit(kind, q), UNCHANGED billing,
           stripe'.quantity = q, stripe'.state # "none", kind # "none",
           kind \in {"checkout", "updated"} => stripe'.state = "live",
           kind = "deleted" => stripe'.state = "ended"
    PROVE  RInv'
<1> USE DEF billing
<1>1. /\ emitted \in Nat /\ emitted' = emitted + 1 /\ emitted' \in Events
      /\ \A e \in 1 .. emitted : e \in Events
  BY BillingAssumption DEF Emit, LInv, TInv, TypeOK, Events
<1>2. PICK created \in IF emitted = 0 THEN {1} ELSE {event[emitted].created, event[emitted].created + 1} :
        event' = [event EXCEPT ![emitted + 1] =
                    [kind |-> kind, created |-> created, quantity |-> q]]
  BY DEF Emit
<1>3. /\ event'[emitted'].created = created /\ event'[emitted'].kind = kind
      /\ event'[emitted'].quantity = q
      /\ \A e \in 1 .. emitted : event'[e] = event[e]
  BY <1>1, <1>2 DEF LInv, TInv, TypeOK
<1>4. \A e \in 1 .. emitted : event[e].created \in Nat
  BY <1>1 DEF LInv, TInv, TypeOK, Event
<1>5. created \in Nat /\ (emitted > 0 => event[emitted].created <= created)
  BY <1>1, <1>2, <1>4
<1>6. \A e \in 1 .. emitted : event[e].created <= created
  BY <1>1, <1>4, <1>5 DEF RInv, Published
<1>7. Published'
  <2>1. ASSUME NEW e \in 1 .. emitted' PROVE event'[e].created <= event'[emitted'].created
    <3>1. e \in 1 .. emitted \/ e = emitted'
      BY <1>1
    <3> QED BY <1>3, <1>5, <1>6, <3>1
  <2> QED BY <1>1, <1>3, <2>1 DEF Published
<1>8. row.lastStripeEventAt \in Nat
  BY DEF LInv, TInv, TypeOK, Row
<1>9. row.lastStripeEventAt <= created
  BY <1>1, <1>4, <1>5, <1>8 DEF RInv, Delivered
<1>10. Delivered'
  <2>1. ledger \subseteq 1 .. emitted'
    BY <1>1 DEF RInv, Delivered
  <2> QED BY <1>1, <1>3, <1>9, <2>1 DEF RInv, Delivered
<1>11. ASSUME NEW h \in Handlers PROVE Carried(h)'
  <2>1. CASE At(h, "idle")
    BY <2>1 DEF Carried
  <2>2. CASE ~At(h, "idle")
    <3>1. handler[h].event \in 1 .. emitted /\ handler[h].event # emitted'
      BY <1>1, <2>2, EventEmitted
    <3> QED BY <1>3, <3>1 DEF RInv, Carried, Received
  <2> QED BY <2>1, <2>2
<1>12. Reflected'
  <2>1. handled[emitted'] = 0
    <3>1. emitted' \notin ledger
      BY <1>1 DEF RInv, Delivered
    <3> QED BY <1>1, <3>1 DEF LInv, Recorded, TInv, TypeOK
  <2> QED BY <2>1 DEF Reflected
<1> QED BY <1>7, <1>10, <1>11, <1>12 DEF RInv

\* A delivery: a fresh event comes with the quantity it carries, a duplicate changes nothing.
LEMMA ReceiveRow ==
    ASSUME LInv, RInv, NEW h \in Handlers, NEW e \in Events, Receive(h, e)
    PROVE  RInv'
<1>1. CASE ~Fresh(e)
  <2>1. acked' \subseteq ledger'
    <3>1. ledger' = ledger /\ acked' = acked \union {e} /\ e \in ledger
      BY <1>1 DEF Receive, Fresh
    <3>2. acked \subseteq ledger
      BY DEF RInv, Delivered
    <3> QED BY <3>1, <3>2
  <2> QED BY <1>1, <2>1 DEF Receive, RInv, Published, Delivered, Carried, Received, Reflected,
                            NewestIsLater
<1>2. CASE Fresh(e)
  <2> DEFINE r == [pc |-> Dispatch(event[e].kind), event |-> e, quantity |-> event[e].quantity]
  <2>1. /\ ledger' = ledger \union {e} /\ handler' = [handler EXCEPT ![h] = r]
        /\ UNCHANGED <<stripe, event, emitted, acked, handled, row, raced>> /\ e \in 1 .. emitted
    BY <1>2 DEF Receive, Events
  <2>2. handler'[h] = r /\ \A g \in Handlers \ {h} : handler'[g] = handler[g]
    BY <2>1 DEF LInv, TInv, TypeOK
  <2>3. r.event = e /\ r.quantity = event[e].quantity /\ r.pc \in {"retrieve", "check"}
    BY DEF Dispatch
  <2> HIDE DEF r
  <2>4. Published' /\ Reflected'
    BY <2>1 DEF RInv, Published, Reflected, NewestIsLater
  <2>5. Delivered'
    BY <2>1, <2>2, <2>3 DEF RInv, Delivered
  <2>6. Carried(h)'
    BY <2>1, <2>2, <2>3 DEF Carried, RInv, Published
  <2>7. \A g \in Handlers \ {h} : Carried(g)'
    BY <2>1, <2>2 DEF RInv, Carried, Received
  <2> QED BY <2>4, <2>5, <2>6, <2>7 DEF RInv
<1> QED BY <1>1, <1>2

\* A request that goes on, without touching row or ledger.
LEMMA GoOnRow ==
    ASSUME LInv, RInv, NEW h \in Handlers, ~At(h, "idle"),
           handler'[h].event = handler[h].event, Carried(h)',
           \A g \in Handlers \ {h} : handler'[g] = handler[g],
           UNCHANGED <<stripe, event, emitted, ledger, acked, handled, row, raced>>
    PROVE  RInv'
<1>1. Published' /\ Reflected'
  BY DEF RInv, Published, Reflected, NewestIsLater
<1>2. Delivered'
  BY DEF RInv, Delivered
<1>3. \A g \in Handlers \ {h} : Carried(g)'
  BY DEF RInv, Carried, Received
<1> QED BY <1>1, <1>2, <1>3 DEF RInv

\* Whichever request is through or broken off, the row stays.
LEMMA LeaveRow ==
    ASSUME LInv, RInv, NEW h \in Handlers, ~At(h, "idle"), handler' = [handler EXCEPT ![h] = Idle],
           acked' \in {acked, acked \union {handler[h].event}},
           UNCHANGED <<stripe, event, emitted, ledger, handled, row, raced>>
    PROVE  RInv'
<1>1. handler'[h].pc = "idle" /\ \A g \in Handlers \ {h} : handler'[g] = handler[g]
  BY DEF Idle, LInv, TInv, TypeOK
<1>2. Published' /\ Reflected'
  BY DEF RInv, Published, Reflected, NewestIsLater
<1>3. Delivered'
  BY <1>1 DEF RInv, Delivered
<1>4. \A g \in Handlers : Carried(g)'
  BY <1>1 DEF RInv, Carried, Received
<1> QED BY <1>2, <1>3, <1>4 DEF RInv

\* What Finish does to the requests and the counts.
LEMMA FinishForm ==
    ASSUME LInv, NEW h \in Handlers, ~At(h, "idle"), Finish(h)
    PROVE  /\ handler'[h].pc = "respond" /\ handler'[h].event = handler[h].event
           /\ \A g \in Handlers \ {h} : handler'[g] = handler[g]
           /\ \A d \in Events : d # handler[h].event => handled'[d] = handled[d]
<1>1. [Idle EXCEPT !.pc = "respond", !.event = handler[h].event].pc = "respond"
  BY DEF Idle
<1>2. [Idle EXCEPT !.pc = "respond", !.event = handler[h].event].event = handler[h].event
  BY DEF Idle
<1>3. handler \in [Handlers -> Request] /\ handled \in [Events -> Nat]
  BY DEF LInv, TInv, TypeOK
<1> DEFINE r == [Idle EXCEPT !.pc = "respond", !.event = handler[h].event]
<1>4. handler' = [handler EXCEPT ![h] = r] /\ r.pc = "respond" /\ r.event = handler[h].event
  BY <1>1, <1>2 DEF Finish
<1> HIDE DEF r
<1> QED BY <1>3, <1>4 DEF Finish

\* An event found stale is not the newest one.
LEMMA StaleRow ==
    ASSUME LInv, RInv, NEW h \in Handlers, Check(h), ~NotStale(handler[h].event)
    PROVE  RInv'
<1>1. Finish(h) /\ UNCHANGED <<stripe, event, emitted, ledger, acked, row, raced>> /\ ~At(h, "idle")
  BY DEF Check
<1>2. handler[h].event \in 1 .. emitted /\ emitted \in 1 .. MaxEvents
  BY <1>1, EventEmitted
<1>3. emitted \in Events /\ emitted > 0
  BY <1>2, BillingAssumption DEF Events
<1>4. handler[h].event # emitted
  <2>1. event[emitted].created \in Nat /\ row.lastStripeEventAt \in Nat
    BY <1>3 DEF LInv, TInv, TypeOK, Event, Row
  <2>2. row.lastStripeEventAt <= event[emitted].created
    BY <1>3 DEF RInv, Delivered
  <2> QED BY <2>1, <2>2 DEF NotStale
<1>5. handled'[emitted] = handled[emitted]
  BY <1>1, <1>3, <1>4, FinishForm
<1>6. Published' /\ Reflected'
  BY <1>1, <1>5 DEF RInv, Published, Reflected, NewestIsLater
<1>7. Delivered'
  BY <1>1, FinishForm DEF RInv, Delivered
<1>8. \A g \in Handlers : Carried(g)'
  BY <1>1, FinishForm DEF RInv, Carried, Received
<1> QED BY <1>6, <1>7, <1>8 DEF RInv

\* The write.  The newest event writes what Stripe has; an older one that may still write
\* is no older than the mark, so the newest has not been written.
LEMMA WriteRow ==
    ASSUME LInv, RInv, NEW h \in Handlers, Write(h) PROVE RInv'
<1> DEFINE e == handler[h].event
<1>1. Finish(h) /\ UNCHANGED <<stripe, event, emitted, ledger, acked>> /\ At(h, "write")
  BY DEF Write
<1>2. e \in 1 .. emitted /\ emitted \in 1 .. MaxEvents
  BY <1>1, EventEmitted
<1>3. emitted \in Events /\ e \in Events /\ emitted > 0
  BY <1>2, BillingAssumption DEF Events
<1>4. /\ event[e].created \in Nat /\ event[emitted].created \in Nat /\ row.lastStripeEventAt \in Nat
      /\ event[e].created <= event[emitted].created
  BY <1>2, <1>3 DEF LInv, TInv, TypeOK, Event, Row, RInv, Published
<1>5. /\ row'.lastStripeEventAt = event[e].created
      /\ row'.paid = (event[e].kind # "deleted")
      /\ row'.paid => row'.seats = handler[h].quantity
  BY DEF Write, Deleted, Synced, Received, LInv, TInv, TypeOK, Row
<1>6. Published'
  BY <1>1 DEF RInv, Published
<1>7. Delivered'
  BY <1>1, <1>3, <1>4, <1>5, FinishForm DEF RInv, Delivered
<1>8. ASSUME NEW g \in Handlers PROVE Carried(g)'
  <2>1. ~raced' => ~At(g, "write")'
    BY <1>1, FinishForm DEF Write
  <2>2. handler'[g] = handler[g] \/ handler'[g].pc = "respond"
    BY <1>1, FinishForm
  <2>3. emitted' = emitted /\ stripe' = stripe
    BY <1>1
  <2> QED BY <2>1, <2>2, <2>3 DEF RInv, Carried
<1>9. Reflected'
  <2> SUFFICES ASSUME handled'[emitted] > 0, ~raced', NewestIsLater
               PROVE  /\ row'.lastStripeEventAt = event[emitted].created
                      /\ row'.paid = (event[emitted].kind # "deleted")
                      /\ row'.paid => row'.seats = stripe.quantity
    BY <1>1 DEF Reflected, NewestIsLater
  <2>1. ~raced
    BY DEF Write
  <2>2. CASE e = emitted
    BY <1>1, <1>5, <2>2 DEF RInv, Carried
  <2>3. CASE e # emitted
    <3>1. row.lastStripeEventAt = event[emitted].created
      BY <1>1, <1>3, <2>1, <2>3, FinishForm DEF RInv, Reflected
    <3>2. event[e].created >= row.lastStripeEventAt
      BY <1>1, <2>1 DEF RInv, Carried, Received
    <3>3. event[e].created < event[emitted].created
      BY <1>2, <2>3 DEF NewestIsLater
    <3> QED BY <1>4, <3>1, <3>2, <3>3
  <2> QED BY <2>2, <2>3
<1> QED BY <1>6, <1>7, <1>8, <1>9 DEF RInv

\* Every step keeps it.
LEMMA RowStep == LInv /\ RInv /\ [Next]_vars => RInv'
<1> SUFFICES ASSUME LInv, RInv, [Next]_vars PROVE RInv'
  OBVIOUS
<1>1. CASE Subscribe
  <2>1. stripe'.state = "live" /\ stripe'.quantity = stripe.cart
    BY <1>1 DEF Subscribe, LInv, TInv, TypeOK, Stripe
  <2> QED BY <1>1, <2>1, EmitRow DEF Subscribe
<1>2. CASE Cancel
  <2>1. stripe'.state = "ended" /\ stripe'.quantity = stripe.quantity
    BY <1>2 DEF Cancel, LInv, TInv, TypeOK, Stripe
  <2> QED BY <1>2, <2>1, EmitRow DEF Cancel
<1>3. CASE Notify
  BY <1>3, EmitRow DEF Notify
<1>4. CASE StartCheckout
  BY <1>4, RowFrame DEF StartCheckout, LInv, TInv, TypeOK, Stripe
<1>5. CASE ChangeMembers \/ ChangeSilently
  BY <1>5, RowFrame DEF ChangeMembers, ChangeSilently
<1>6. CASE UpdateSeats
  <2>1. CASE stripe.state = "live"
    <3>1. stripe'.state = "live" /\ stripe'.quantity = worker.target
      BY <1>6, <2>1 DEF UpdateSeats, LInv, TInv, TypeOK, Stripe
    <3> QED BY <1>6, <2>1, <3>1, EmitRow DEF UpdateSeats
  <2>2. CASE stripe.state # "live"
    BY <1>6, <2>2, RowFrame DEF UpdateSeats
  <2> QED BY <2>1, <2>2
<1>7. CASE EnqueueSync \/ CountMembers \/ BreakSync \/ \E made \in 0 .. SeatAttempts - 1 : TakeSync(made)
  BY <1>7, RowFrame DEF EnqueueSync, CountMembers, BreakSync, TakeSync
<1>8. ASSUME NEW h \in Handlers, NEW e \in Events, Receive(h, e) PROVE RInv'
  BY <1>8, ReceiveRow
<1>9. ASSUME NEW h \in Handlers, Retrieve(h) PROVE RInv'
  <2>1. /\ handler'[h].pc = "check" /\ handler'[h].event = handler[h].event
        /\ handler'[h].quantity = stripe.quantity
        /\ \A g \in Handlers \ {h} : handler'[g] = handler[g]
    BY <1>9 DEF Retrieve, LInv, TInv, TypeOK, Request
  <2>2. Carried(h)'
    BY <1>9, <2>1 DEF Carried, Retrieve
  <2> QED BY <1>9, <2>1, <2>2, GoOnRow DEF Retrieve
<1>10. ASSUME NEW h \in Handlers, Check(h) PROVE RInv'
  <2>1. CASE NotStale(handler[h].event)
    <3>1. /\ handler'[h].pc = "write" /\ handler'[h].event = handler[h].event
          /\ handler'[h].quantity = handler[h].quantity
          /\ \A g \in Handlers \ {h} : handler'[g] = handler[g]
          /\ UNCHANGED <<stripe, event, emitted, ledger, acked, handled, row, raced>>
      BY <1>10, <2>1 DEF Check, LInv, TInv, TypeOK, Request
    <3>2. Carried(h)'
      BY <1>10, <2>1, <3>1 DEF Check, RInv, Carried, Received, NotStale
    <3> QED BY <1>10, <3>1, <3>2, GoOnRow DEF Check
  <2>2. CASE ~NotStale(handler[h].event)
    BY <1>10, <2>2, StaleRow
  <2> QED BY <2>1, <2>2
<1>11. ASSUME NEW h \in Handlers, Write(h) PROVE RInv'
  BY <1>11, WriteRow
<1>12. ASSUME NEW h \in Handlers, Respond(h) \/ Break(h) PROVE RInv'
  BY <1>12, LeaveRow DEF Respond, Break
<1>13. CASE UNCHANGED vars
  BY <1>13, RowFrame DEF vars
<1> QED BY <1>1, <1>2, <1>3, <1>4, <1>5, <1>6, <1>7, <1>8, <1>9, <1>10, <1>11, <1>12, <1>13
        DEF Next, SeatSync, Webhook

\* Along every behaviour the ledger and the row keep their invariants.
LEMMA RowAlways == Spec => [](LInv /\ RInv)
<1>1. Spec => []LInv
  BY LedgerInit, LedgerStep, PTL DEF Spec
<1> QED BY <1>1, RowInit, RowStep, PTL DEF Spec

\* However Stripe's events are delayed, repeated and reordered, once all are acknowledged
\* the row shows what Stripe has, unless an error lost one, two writes overlapped, or the
\* newest events share a second: the ledger and the high-water mark are enough for that.
THEOREM RowConverges == Spec => []SettledRowIsCurrent
<1>1. LInv /\ RInv => SettledRowIsCurrent
  <2> SUFFICES ASSUME LInv, RInv, emitted > 0, acked = 1 .. emitted,
                      \A h \in Handlers : At(h, "idle"), faults = 0, ~raced, NewestIsLater
               PROVE  /\ row.paid = (stripe.state = "live" \/ event[emitted].kind = "invoice")
                      /\ row.paid => row.seats = stripe.quantity
    BY DEF SettledRowIsCurrent
  <2>1. emitted \in ledger /\ emitted \in Events
    BY BillingAssumption DEF RInv, Delivered, LInv, TInv, TypeOK, Events
  <2>2. handled[emitted] = 1
    BY <2>1 DEF LInv, LostOnlyByFault, InHand
  <2>3. row.paid = (event[emitted].kind # "deleted") /\ (row.paid => row.seats = stripe.quantity)
    BY <2>2 DEF RInv, Reflected
  <2>4. event[emitted].kind \in {"checkout", "updated", "deleted", "invoice"}
    BY <2>1 DEF RInv, Published, LInv, TInv, TypeOK, Event
  <2> QED BY <2>3, <2>4 DEF RInv, Published
<1> QED BY <1>1, RowAlways, PTL

----------------------------------------------------------------------------------
(* The seats.  If no change was missed since the members were last counted, what       *)
(* Stripe bills for differs from them only while a sync is to come that counts again.  *)

Waiting == owed > 0 \/ \E a \in 0 .. SeatAttempts - 1 : jobs[a] > 0
Billed == IF stripe.state = "none" THEN stripe.cart ELSE stripe.quantity

SInv ==
    /\ worker.pc # "off" => stripe.state # "none"
    /\ worker.pc = "count" => worker.quantity = stripe.quantity
    /\ stripe.state # "none" => stripe.cart > 0
    /\ ~missed /\ stripe.cart > 0 /\ stripe.state # "ended" =>
          /\ worker.pc = "off" => Waiting \/ Billed = members
          /\ worker.pc = "update" => Waiting \/ worker.target = members

\* There is no checkout session yet.
LEMMA SeatsInit == Init => SInv
BY DEF Init, SInv, Off

\* A failed attempt leaves a job that waits for the next one, or is missed.
LEMMA AttemptSeats ==
    ASSUME LInv, SInv, worker.pc # "off", AttemptFails, UNCHANGED <<stripe, members>>
    PROVE  SInv'
<1>1. worker'.pc = "off"
  BY DEF AttemptFails, Off
<1>2. CASE worker.made + 1 < SeatAttempts
  <2>1. worker.made + 1 \in 0 .. SeatAttempts - 1 /\ jobs \in [0 .. SeatAttempts - 1 -> Nat]
    <3>1. worker.made \in 0 .. SeatAttempts
      BY DEF LInv, TInv, TypeOK, Worker
    <3>2. worker.made + 1 \in 0 .. SeatAttempts - 1
      BY <1>2, <3>1, Bounds
    <3> QED BY <3>2 DEF LInv, TInv, TypeOK
  <2>2. jobs' = [jobs EXCEPT ![worker.made + 1] = @ + 1]
    BY <1>2 DEF AttemptFails
  <2>3. jobs'[worker.made + 1] > 0
    BY <2>1, <2>2
  <2>4. Waiting'
    BY <2>1, <2>3 DEF Waiting
  <2> QED BY <1>1, <2>4 DEF SInv
<1>3. CASE ~(worker.made + 1 < SeatAttempts)
  BY <1>1, <1>3 DEF AttemptFails, SInv
<1> QED BY <1>2, <1>3

\* A step of Stripe or of a request leaves the queue, the members and the quantity alone.
LEMMA SeatsFrame ==
    ASSUME SInv, UNCHANGED <<seats, members, missed>>, stripe'.cart = stripe.cart,
           \/ stripe'.state = stripe.state /\ stripe'.quantity = stripe.quantity
           \/ stripe'.state = "ended" /\ stripe.state = "live" /\ stripe'.quantity = stripe.quantity
           \/ /\ stripe.state = "none" /\ stripe'.state = "live" /\ stripe.cart > 0
              /\ stripe'.quantity = stripe.cart
    PROVE  SInv'
<1>1. UNCHANGED <<owed, jobs, worker, members, missed>>
  BY DEF seats
<1>2. Waiting' = Waiting
  BY <1>1 DEF Waiting
<1> QED BY <1>1, <1>2 DEF SInv, Billed

\* A sync is taken.  It either goes on to count, or counts as missed if there was a checkout.
LEMMA TakeSeats ==
    ASSUME LInv, RInv, SInv, NEW made \in 0 .. SeatAttempts - 1, TakeSync(made) PROVE SInv'
<1>1. UNCHANGED <<stripe, members, owed>> /\ worker.pc = "off"
  BY DEF TakeSync
<1>2. CASE row.paid /\ row.subscribed
  <2>1. worker'.pc = "count" /\ worker'.quantity = stripe.quantity /\ missed' = missed
    BY <1>2 DEF TakeSync, Off
  <2>2. stripe.state # "none"
    <3>1. emitted > 0
      BY <1>2 DEF RInv, Delivered
    <3> QED BY <3>1 DEF RInv, Published
  <2> QED BY <1>1, <2>1, <2>2 DEF SInv
<1>3. CASE ~(row.paid /\ row.subscribed)
  <2>1. worker' = worker /\ missed' = (missed \/ stripe.cart > 0)
    BY <1>3 DEF TakeSync
  <2> QED BY <1>1, <2>1 DEF SInv
<1> QED BY <1>2, <1>3

\* Every step keeps it.
LEMMA SeatsStep == LInv /\ RInv /\ SInv /\ [Next]_vars => SInv'
<1> SUFFICES ASSUME LInv, RInv, SInv, [Next]_vars PROVE SInv'
  OBVIOUS
<1>0. /\ stripe \in Stripe /\ owed \in Nat /\ jobs \in [0 .. SeatAttempts - 1 -> Nat]
      /\ worker \in Worker /\ members \in Nat /\ members > 0
  BY BillingAssumption DEF LInv, TInv, TypeOK
<1>1. CASE Subscribe \/ Cancel \/ Notify
  <2>1. UNCHANGED <<seats, members, missed>>
    BY <1>1 DEF Subscribe, Cancel, Notify
  <2>2. CASE Subscribe
    BY <1>0, <2>1, <2>2, SeatsFrame DEF Subscribe, Stripe
  <2>3. CASE Cancel
    BY <1>0, <2>1, <2>3, SeatsFrame DEF Cancel, Stripe
  <2>4. CASE Notify
    BY <2>1, <2>4, SeatsFrame DEF Notify
  <2> QED BY <1>1, <2>2, <2>3, <2>4
<1>2. CASE StartCheckout
  <2>1. /\ stripe'.cart = members /\ stripe'.state = stripe.state
        /\ stripe'.quantity = stripe.quantity /\ UNCHANGED <<seats, members>>
    BY <1>0, <1>2 DEF StartCheckout, Stripe
  <2>2. stripe.state = "none" /\ worker.pc = "off"
    BY <1>2 DEF StartCheckout, SInv
  <2>3. Billed' = members'
    BY <2>1, <2>2 DEF Billed
  <2> QED BY <1>0, <2>1, <2>2, <2>3 DEF SInv, seats
<1>3. CASE ChangeMembers \/ ChangeSilently
  <2>1. ChangeMembers => Waiting'
    BY <1>0 DEF ChangeMembers, Waiting
  <2>2. UNCHANGED <<stripe, worker>>
    BY <1>3 DEF ChangeMembers, ChangeSilently, seats
  <2>3. missed' \/ Waiting'
    BY <1>3, <2>1 DEF ChangeSilently
  <2> QED BY <2>2, <2>3 DEF SInv
<1>4. CASE EnqueueSync
  <2>1. UNCHANGED <<stripe, members, worker>>
    BY <1>4 DEF EnqueueSync
  <2>2. CASE jobs' = [jobs EXCEPT ![0] = @ + 1] /\ UNCHANGED <<faults, missed>>
    <3>1. 0 \in 0 .. SeatAttempts - 1
      BY BillingAssumption
    <3>2. jobs'[0] > 0
      BY <1>0, <2>2, <3>1
    <3>3. Waiting'
      BY <3>1, <3>2 DEF Waiting
    <3> QED BY <2>1, <2>2, <3>3 DEF SInv
  <2>3. CASE missed' = TRUE
    BY <2>1, <2>3 DEF SInv
  <2> QED BY <1>4, <2>2, <2>3 DEF EnqueueSync
<1>5. ASSUME NEW made \in 0 .. SeatAttempts - 1, TakeSync(made) PROVE SInv'
  BY <1>5, TakeSeats
<1>6. CASE CountMembers
  <2>1. UNCHANGED <<stripe, members, owed, jobs>> /\ worker.pc = "count"
    BY <1>6 DEF CountMembers
  <2>2. worker.quantity = stripe.quantity /\ stripe.state # "none"
    BY <2>1 DEF SInv
  <2>3. \/ worker'.pc = "off" /\ stripe.quantity = members
        \/ worker'.pc = "update" /\ worker'.target = members
    BY <1>0, <1>6, <2>2 DEF CountMembers, SeatTarget, Off, Worker
  <2> QED BY <2>1, <2>2, <2>3 DEF SInv, Billed
<1>7. CASE UpdateSeats
  <2>1. CASE stripe.state = "live"
    <3>1. /\ stripe'.quantity = worker.target /\ stripe'.state = "live" /\ stripe'.cart = stripe.cart
          /\ worker'.pc = "off" /\ UNCHANGED <<members, owed, jobs, missed>> /\ worker.pc = "update"
      BY <1>0, <1>7, <2>1 DEF UpdateSeats, Stripe, Off
    <3>2. Waiting' = Waiting
      BY <3>1 DEF Waiting
    <3> QED BY <2>1, <3>1, <3>2 DEF SInv, Billed
  <2>2. CASE stripe.state # "live"
    BY <1>7, <2>2, AttemptSeats DEF UpdateSeats
  <2> QED BY <2>1, <2>2
<1>8. CASE BreakSync
  BY <1>8, AttemptSeats DEF BreakSync
<1>9. ASSUME NEW h \in Handlers, Webhook(h) PROVE SInv'
  <2>1. UNCHANGED <<stripe, members, seats, missed>>
    BY <1>9 DEF Webhook, Receive, Retrieve, Check, Write, Respond, Break
  <2> QED BY <2>1, SeatsFrame
<1>10. CASE UNCHANGED vars
  BY <1>10, SeatsFrame DEF vars
<1> QED BY <1>1, <1>2, <1>3, <1>4, <1>5, <1>6, <1>7, <1>8, <1>9, <1>10 DEF Next, SeatSync

\* Whatever the order of invites, removals, checkout and retries, once the queue is empty
\* the subscription bills for the members there are, unless a change since they were last
\* counted had no sync or a lost one.
THEOREM SeatsConverge == Spec => []SeatsFollowMembers
<1>1. SInv => SeatsFollowMembers
  BY DEF SInv, SeatsFollowMembers, SeatsQuiet, Waiting, Billed
<1> QED BY <1>1, RowAlways, SeatsInit, SeatsStep, PTL DEF Spec
==================================================================================
