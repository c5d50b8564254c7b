----------------------------- MODULE PlanOrders -----------------------------
(***************************************************************************)
(* The plan orders of one organization: EventPlanOrderService, the two     *)
(* controllers over it, the discount code that may come off a plan's       *)
(* price, the plan arm of Midtrans' notifications, and what an order that  *)
(* is paid entitles to: one event (EventController::store and destroy).    *)
(*                                                                         *)
(* A request loads its order (route binding) and acts on that copy; every  *)
(* commit is one step, and the request between two of them is in job.      *)
(* Saving a model writes the attributes that differ from the copy that was *)
(* loaded and leaves the others alone (Save).                              *)
(***************************************************************************)
EXTENDS Money

CONSTANTS
    Raised,         \* bound: how many orders are ever raised
    Events,         \* ids of the events that may be created
    NoEvent,        \* a null event_id
    Plans,          \* the plans that may be sold
    Price,          \* [Plans -> Nat]
    Covers,         \* the pairs <<p, q>> such that q has every feature of p
    Discount,       \* what the code takes off
    MaxRedemptions, \* its max_redemptions
    Handlers,       \* workers: requests in flight at once
    DiesAt,         \* the steps at which a request may die
    Switches,       \* bound: how often the gateway is switched on or off
    Attempts        \* bound: Snap transactions of one order

ASSUME PlanOrdersAssumption ==
    /\ Raised \in Nat \ {0}
    /\ Plans # {}
    /\ NoEvent \notin Events
    /\ Price \in [Plans -> Nat]
    /\ Covers \subseteq Plans \X Plans
    /\ {Discount, MaxRedemptions, Switches, Attempts} \subseteq Nat

VARIABLES
    order,      \* the event_plan_orders rows, in the order they are written
    event,      \* the plan and the status of each event
    gatewayUp,  \* PlatformSettings::paymentGatewayEnabled
    switched,   \* how often it changed
    snap,       \* what Midtrans knows of each transaction
    job         \* the request each handler is running

vars == <<order, event, gatewayUp, switched, snap, job>>
outside == <<gatewayUp, switched, snap>>

Orders == 1..Raised
Unraised == 0                   \* a null upgrade_of_id
Snaps == Orders \X (1..Attempts)

Idle == [op |-> "idle"]
Blank == [status |-> "none", plan |-> CHOOSE p \in Plans : TRUE, of |-> Unraised,
          amount |-> 0, coded |-> FALSE, method |-> "gateway",
          proof |-> FALSE, verified |-> FALSE, paidAt |-> FALSE, event |-> NoEvent, snap |-> 0]

Init ==
    /\ order = [o \in Orders |-> Blank]
    /\ event = [e \in Events |-> [status |-> "none", plan |-> Blank.plan]]
    /\ gatewayUp \in BOOLEAN
    /\ switched = 0
    /\ snap = [s \in Snaps |-> "unknown"]
    /\ job = [h \in Handlers |-> Idle]

Goes(h, to) == job' = [job EXCEPT ![h] = to]
Begins(h, request) == job[h] = Idle /\ Goes(h, request)
Running(h, op) == job[h].op = op
\* A request or command that is one transaction needs a free worker.
WorkerFree == \E h \in Handlers : job[h] = Idle

\* $order->update(): only what differs from the loaded copy is written.
Save(o, copy, new) ==
    order' = [order EXCEPT ![o] = [f \in DOMAIN Blank |->
                 IF new[f] # copy[f] THEN new[f] ELSE order[o][f]]]

-----------------------------------------------------------------------------
(***************************************************************************)
(* Questions the code asks of the rows.                                    *)
(***************************************************************************)
Upgrades(o, status) == {u \in Orders : order[u].of = o /\ order[u].status = status}
Superseded(o) == Upgrades(o, "paid") # {}

Unconsumed_EvenSuperseded ==
    {o \in Orders : order[o].status = "paid" /\ order[o].event = NoEvent}
\* The credits: paid, not spent, and not taken over by a paid upgrade.
Unconsumed ==
    {o \in Orders : order[o].status = "paid" /\ order[o].event = NoEvent /\ ~Superseded(o)}

Awaiting(row) ==
    row.method = "manual" /\ row.status # "paid" /\ row.proof /\ ~row.verified

\* Everything paid along the chain of upgrades that ends in o.
PaidTowardsPlan ==
    LET towards[o \in Orders] ==
            order[o].amount + IF order[o].of = Unraised THEN 0 ELSE towards[order[o].of]
    IN  towards

Usage_PaidOnly == Cardinality({o \in Orders : order[o].coded /\ order[o].status = "paid"})
\* Redeemed and reserved.
Usage ==
    Cardinality({o \in Orders : order[o].coded /\ order[o].status \in {"paid", "past_due"}})

\* resolvePayment(): a bill of nothing has no rail of its own, the gateway when it is up.
Method(amount) == IF amount > 0 /\ ~gatewayUp THEN "manual" ELSE "gateway"
Billed(row) == [row EXCEPT !.method = Method(row.amount)]

DiscountFor_Unclamped(p) == Discount
\* What the code takes off; never more than the price.
DiscountFor(p) == Least(Discount, Price[p])

-----------------------------------------------------------------------------
(***************************************************************************)
(* Raising a bill.                                                         *)
(***************************************************************************)
MayRaise == order[Raised].status = "none"     \* bound

\* checkout(): the code's quota is counted and the rail chosen before the row exists.
Checkout(h, p, coded) ==
    /\ MayRaise
    /\ coded => Usage < MaxRedemptions
    /\ Begins(h, [op |-> "raise", row |-> Billed(
            [Blank EXCEPT !.status = "past_due", !.plan = p, !.coded = coded,
                          !.amount = Price[p] - IF coded THEN DiscountFor(p) ELSE 0])])
    /\ UNCHANGED <<order, event, outside>>

\* The row is written with its invoice number; start() comes next.
Raise(h) ==
    /\ Running(h, "raise")
    /\ \E o \in Orders :
         /\ \A other \in Orders : order[other].status = "none" <=> other >= o
         /\ order' = [order EXCEPT ![o] = job[h].row]
         /\ Goes(h, [op |-> "start", order |-> o, row |-> job[h].row])
    /\ UNCHANGED <<event, outside>>

\* start(): nothing to collect settles at once, a transfer waits for its proof, and
\* the gateway gets a new transaction, whose id replaces the one before.
Start(h) ==
    LET o == job[h].order
        n == order[o].snap + 1 IN
    /\ Running(h, "start")
    /\ \/ /\ job[h].row.amount = 0
          /\ Goes(h, [job[h] EXCEPT !.op = "activate"])
          /\ UNCHANGED <<order, snap>>
       \/ /\ job[h].row.method = "manual"
          /\ Goes(h, Idle)
          /\ UNCHANGED <<order, snap>>
       \/ /\ job[h].row.method = "gateway" /\ job[h].row.amount > 0
          /\ n <= Attempts     \* bound
          /\ snap' = [snap EXCEPT ![<<o, n>>] = "open"]
          /\ order' = [order EXCEPT ![o].snap = n]
          /\ Goes(h, Idle)
    /\ UNCHANGED <<event, gatewayUp, switched>>

\* Route binding: the request has its copy of the order.
Load(h, o) ==
    /\ order[o].status # "none"
    /\ Begins(h, [op |-> "seen", order |-> o, row |-> order[o]])
    /\ UNCHANGED <<order, event, outside>>

Refused(h) ==
    /\ Running(h, "seen")
    /\ Goes(h, Idle)
    /\ UNCHANGED <<order, event, outside>>

\* pay(): the same bill, on whatever rail is up now.
Reopen(h, o, copy) ==
    /\ Billed(copy).method = "gateway" => order[o].snap < Attempts     \* bound
    /\ Save(o, copy, Billed(copy))
    /\ Goes(h, [op |-> "start", order |-> o, row |-> Billed(copy)])

\* PlanOrderController::pay.
PayAgain(h) ==
    LET o == job[h].order
        copy == job[h].row IN
    /\ Running(h, "seen")
    /\ copy.status = "past_due" /\ copy.event = NoEvent
    /\ ~Superseded(o)
    /\ ~Awaiting(copy)
    /\ Reopen(h, o, copy)
    /\ UNCHANGED <<event, outside>>

\* checkoutUpgrade(): the difference to a bigger plan.  The latest unpaid attempt is
\* reopened if it is for the same plan, and a new bill is raised otherwise.
Upgrade(h, p) ==
    LET o == job[h].order
        copy == job[h].row
        difference == Price[p] - PaidTowardsPlan[o]
        unpaid == Upgrades(o, "past_due")
        latest == CHOOSE u \in unpaid : \A v \in unpaid : v <= u
    IN
    /\ Running(h, "seen")
    /\ copy.status = "paid" /\ ~Superseded(o)
    /\ p # copy.plan /\ <<copy.plan, p>> \in Covers
    /\ difference > 0
    /\ IF unpaid # {} /\ order[latest].plan = p
       THEN Reopen(h, latest, order[latest])
       ELSE /\ MayRaise
            /\ Goes(h, [op |-> "raise", row |-> Billed(
                   [Blank EXCEPT !.status = "past_due", !.plan = p, !.of = o,
                                 !.amount = difference])])
            /\ UNCHANGED order
    /\ UNCHANGED <<event, outside>>

-----------------------------------------------------------------------------
(***************************************************************************)
(* Settling a bill.                                                        *)
(***************************************************************************)
\* activate(): the row is paid; an upgrade is applied in a transaction of its own.
Activate(h) ==
    LET o == job[h].order
        copy == job[h].row
        paid == [copy EXCEPT !.status = "paid", !.paidAt = TRUE] IN
    /\ Running(h, "activate")
    /\ Save(o, copy, paid)
    /\ Goes(h, IF copy.of = Unraised THEN Idle
               ELSE [op |-> "apply", order |-> o, row |-> paid])
    /\ UNCHANGED <<event, outside>>

GivePlan_Forgotten(e, p) == UNCHANGED event
\* The event's own copy of the plan it runs on.
GivePlan(e, p) == event' = [event EXCEPT ![e].plan = p]

Inherited_OwnOnly(row) == row.event
Inherited(row) == IF row.event # NoEvent THEN row.event ELSE order[row.of].event

\* event_id is unique: a transaction that would give an event to two orders fails.
Unique(rows) == \A o, u \in Orders : rows[o].event = rows[u].event /\ o # u => rows[o].event = NoEvent

\* applyUpgrade(): the older order lets go of the event, and this one takes it.
Apply(h) ==
    LET o == job[h].order
        copy == job[h].row
        e == Inherited(copy)
        freed == [order EXCEPT ![copy.of].event = NoEvent]
        handed == IF copy.event = e THEN freed ELSE [freed EXCEPT ![o].event = e] IN
    /\ Running(h, "apply")
    /\ IF e = NoEvent THEN order' = freed /\ UNCHANGED event
       ELSE IF Unique(handed) THEN order' = handed /\ GivePlan(e, copy.plan)
       ELSE UNCHANGED <<order, event>>
    /\ Goes(h, Idle)
    /\ UNCHANGED outside

\* submitProof().
SubmitProof(h) ==
    LET copy == job[h].row IN
    /\ Running(h, "seen")
    /\ copy.method = "manual" /\ copy.status = "past_due"
    /\ Save(job[h].order, copy, [copy EXCEPT !.proof = TRUE])
    /\ Goes(h, Idle)
    /\ UNCHANGED <<event, outside>>

\* approveProof(): markVerified(), and activate() with a fresh copy.
Approve(h) ==
    LET o == job[h].order
        copy == job[h].row IN
    /\ Running(h, "seen") /\ Awaiting(copy)
    /\ Save(o, copy, [copy EXCEPT !.verified = TRUE])
    /\ Goes(h, [op |-> "activate", order |-> o, row |-> order'[o]])
    /\ UNCHANGED <<event, outside>>

\* rejectProof(): a fresh window for a new one.
Reject(h) ==
    LET copy == job[h].row IN
    /\ Running(h, "seen") /\ Awaiting(copy)
    /\ Save(job[h].order, copy, [copy EXCEPT !.proof = FALSE])
    /\ Goes(h, Idle)
    /\ UNCHANGED <<event, outside>>

\* A notification finds its order by the id of the last transaction; 404 otherwise.
Knows(o, n) == order[o].snap = n

\* handlePlanOrder(): a notification says what Midtrans knows, again and again.
Notify(h, o, n) ==
    /\ Knows(o, n)
    /\ \/ /\ snap[<<o, n>>] \in {"paid", "retried"}
          /\ Begins(h, [op |-> "activate", order |-> o, row |-> order[o]])
       \/ /\ snap[<<o, n>>] = "failed"
          /\ Begins(h, [op |-> "write", order |-> o, row |-> order[o], status |-> "cancelled"])
       \/ /\ snap[<<o, n>>] = "open"
          /\ Begins(h, [op |-> "write", order |-> o, row |-> order[o], status |-> "past_due"])
    /\ UNCHANGED <<order, event, outside>>

\* "pending" and the failures write the status, whatever it was.
WriteStatus(h) ==
    LET copy == job[h].row IN
    /\ Running(h, "write")
    /\ Save(job[h].order, copy, [copy EXCEPT !.status = job[h].status])
    /\ Goes(h, Idle)
    /\ UNCHANGED <<event, outside>>

Stale ==
    {o \in Orders : order[o].method = "manual" /\ order[o].status = "past_due" /\ ~order[o].proof}

\* plan-orders:expire-manual, one UPDATE of the stale bills whose deadline has passed:
\* any of them, deadlines being set and passing at any time.
Sweep ==
    /\ WorkerFree
    /\ \E late \in (SUBSET Stale) \ {{}} :
         order' = [o \in Orders |-> IF o \in late THEN [order[o] EXCEPT !.status = "cancelled"]
                                                  ELSE order[o]]
    /\ UNCHANGED <<event, outside, job>>

-----------------------------------------------------------------------------
(***************************************************************************)
(* Spending what was paid.                                                 *)
(***************************************************************************)
Holders(e) == {o \in Orders : order[o].event = e}
Free(e) == [o \in Orders |-> [order[o] EXCEPT !.event = IF @ = e THEN NoEvent ELSE @]]

\* EventController::store: the event and the claim are one transaction, and the claim
\* is refused if the credit was spent meanwhile.
CreateEvent(e, o) ==
    /\ WorkerFree
    /\ event[e].status = "none"
    /\ o \in Unconsumed
    /\ event' = [event EXCEPT ![e] = [status |-> "draft", plan |-> order[o].plan]]
    /\ order' = [order EXCEPT ![o].event = e]
    /\ UNCHANGED <<outside, job>>

Publish(e) ==
    /\ WorkerFree
    /\ event[e].status = "draft"
    /\ event' = [event EXCEPT ![e].status = "open"]
    /\ UNCHANGED <<order, outside, job>>

\* deletionBlocker(): only a draft.
Deletable(e) == event[e].status = "draft"

\* destroy() gives the credit back first,
ReleaseCredit(h, e) ==
    /\ Deletable(e)
    /\ Begins(h, [op |-> "delete", event |-> e])
    /\ order' = Free(e)
    /\ UNCHANGED <<event, outside>>

\* and deletes the event next; the foreign key sets event_id to null.
DeleteEvent(h) ==
    LET e == job[h].event IN
    /\ Running(h, "delete")
    /\ event' = [event EXCEPT ![e].status = "gone"]
    /\ order' = Free(e)
    /\ Goes(h, Idle)
    /\ UNCHANGED outside

Exists(e) == event[e].status \in {"draft", "open"}

\* reassignPlan(): the event and the replacement are read,
LoadReassign(h, e, o) ==
    /\ Exists(e) /\ o \in Unconsumed
    /\ Begins(h, [op |-> "reassign", event |-> e, order |-> o, plan |-> event[e].plan,
                  to |-> order[o].plan])
    /\ UNCHANGED <<order, event, outside>>

\* and the older order is released and the replacement claims the event, in one
\* transaction, undone when the replacement was spent meanwhile.
Reassign(h) ==
    LET e == job[h].event
        o == job[h].order
        claimed == [Free(e) EXCEPT ![o].event = e] IN
    /\ Running(h, "reassign")
    /\ IF Exists(e) /\ Free(e)[o].event = NoEvent
       THEN /\ order' = claimed
            /\ IF job[h].to = job[h].plan THEN UNCHANGED event ELSE GivePlan(e, job[h].to)
       ELSE UNCHANGED <<order, event>>
    /\ Goes(h, Idle)
    /\ UNCHANGED outside

-----------------------------------------------------------------------------
(***************************************************************************)
(* What happens to the application.                                        *)
(***************************************************************************)
SwitchGateway ==
    /\ switched < Switches
    /\ switched' = switched + 1
    /\ gatewayUp' = ~gatewayUp
    /\ UNCHANGED <<order, event, snap, job>>

\* A transaction is collected or fails, and one whose attempt was denied may still be
\* collected by another.
SnapEnds(s, outcome) ==
    /\ snap[s] = IF outcome = "retried" THEN "failed" ELSE "open"
    /\ snap' = [snap EXCEPT ![s] = outcome]
    /\ UNCHANGED <<order, event, gatewayUp, switched, job>>

\* A timeout or a lost worker: what was committed stays.
Dies(h) ==
    /\ job[h].op \in DiesAt
    /\ Goes(h, Idle)
    /\ UNCHANGED <<order, event, outside>>

Next ==
    \/ \E h \in Handlers :
         \/ \E p \in Plans, coded \in BOOLEAN : Checkout(h, p, coded)
         \/ \E p \in Plans : Upgrade(h, p)
         \/ \E o \in Orders : Load(h, o)
         \/ \E s \in Snaps : Notify(h, s[1], s[2])
         \/ \E e \in Events : ReleaseCredit(h, e)
         \/ \E e \in Events, o \in Orders : LoadReassign(h, e, o)
         \/ Raise(h) \/ Start(h) \/ Refused(h) \/ PayAgain(h)
         \/ Activate(h) \/ Apply(h) \/ WriteStatus(h)
         \/ SubmitProof(h) \/ Approve(h) \/ Reject(h)
         \/ DeleteEvent(h) \/ Reassign(h) \/ Dies(h)
    \/ \E e \in Events, o \in Orders : CreateEvent(e, o)
    \/ \E e \in Events : Publish(e)
    \/ \E s \in Snaps, outcome \in {"paid", "failed", "retried"} : SnapEnds(s, outcome)
    \/ Sweep \/ SwitchGateway

Spec == Init /\ [][Next]_vars

-----------------------------------------------------------------------------
(***************************************************************************)
(* Properties.                                                             *)
(***************************************************************************)
Row ==
    [status : {"none", "past_due", "paid", "cancelled"}, plan : Plans,
     of : Orders \cup {Unraised}, amount : Nat, coded : BOOLEAN,
     method : {"gateway", "manual"},
     proof : BOOLEAN, verified : BOOLEAN, paidAt : BOOLEAN, event : Events \cup {NoEvent},
     snap : 0..Attempts]

Job ==
    {Idle}
      \cup [op : {"raise"}, row : Row]
      \cup [op : {"start", "seen", "activate"}, order : Orders, row : Row]
      \cup [op : {"apply"}, order : Orders, row : {row \in Row : row.of # Unraised}]
      \cup [op : {"write"}, order : Orders, row : Row, status : {"past_due", "cancelled"}]
      \cup [op : {"delete"}, event : Events]
      \cup [op : {"reassign"}, event : Events, order : Orders, plan : Plans, to : Plans]

\* Type correctness; an upgrade is raised after the order it upgrades, so that the
\* chain paidTowardsPlan() walks has no cycle.
POTypeOK ==
    /\ order \in [Orders -> Row]
    /\ \A o \in Orders : order[o].of < o
    /\ event \in [Events -> [status : {"none", "draft", "open", "gone"}, plan : Plans]]
    /\ gatewayUp \in BOOLEAN
    /\ switched \in 0..Switches
    /\ snap \in [Snaps -> {"unknown", "open", "paid", "failed", "retried"}]
    /\ job \in [Handlers -> Job]

\* An event runs on the plan of the order it was bought with, through upgrades and
\* reassignments: its own plan_id is a copy that three places write.
HolderGivesPlan ==
    \A e \in Events : Exists(e) => \A o \in Holders(e) : order[o].plan = event[e].plan

\* What the notification handler relies on: "a manual plan order never gets a
\* midtrans_order_id", nor an order that is waiting for a verdict on a proof.  It does
\* when its bill is reopened while the gateway is the other way than before, and
\* PaidStaysPaid fails there.
OneRail ==
    \A o \in Orders : order[o].snap > 0 => order[o].method = "gateway" /\ ~order[o].proof

\* No order was paid up twice.  checkoutUpgrade() reopens an unpaid upgrade only if it is
\* for the same plan, so two to different plans can both be outstanding, and both be
\* paid; the price of the first plan is then taken off twice.
OneUpgrade ==
    \A u, v \in Orders : /\ order[u].paidAt /\ order[v].paidAt
                         /\ order[u].of = order[v].of /\ order[u].of # Unraised
                         => u = v

\* An event that exists was paid for, by one order, unless it is being deleted
\* (reassignPlan: "one order, one event" is "a database fact").
EveryEventHeld ==
    OneRail => \A e \in Events : Exists(e) /\ (\A h \in Handlers : job[h] # [op |-> "delete", event |-> e])
        => \E o \in Orders : Holders(e) = {o} /\ order[o].paidAt

PlansHeld ==
    Unconsumed \cup {o \in Orders : \E e \in Events : Exists(e) /\ o \in Holders(e)}
Received(o) == order[o].amount + IF order[o].coded THEN DiscountFor(order[o].plan) ELSE 0

\* The plans that are held, as credits or by events, are worth no more than what was
\* paid or given as a discount (scopeUnconsumed: handing an upgraded order back to the
\* pool "would be handing out a free event"; checkoutUpgrade: "there is no cheaper route
\* in").  Between activate()'s two commits both the older plan and the newer are held.
NoFreePlans ==
    OneRail /\ OneUpgrade /\ (\A h \in Handlers : ~Running(h, "apply")) =>
    Sum([o \in PlansHeld |-> Price[order[o].plan]])
        <= Sum([o \in {q \in Orders : order[q].paidAt} |-> Received(o)])

\* Nobody paid at Midtrans after a denial.  The denial cancels the bill and frees its
\* redemption, which another bill may take before the first one is paid after all.
NoRetry == \A s \in Snaps : snap[s] # "retried"

\* The code is never redeemed more often than its quota, whatever bills are still
\* payable (DiscountCodeService: "`reserved` is load-bearing").  It takes that OneRail has
\* held all along: a bill swept as a transfer can come back to life at Midtrans, and then
\* be reopened there.  With one switch of the gateway a bill that was on both rails shows.
CodeQuota ==
    OneRail /\ NoRetry =>
    Cardinality({o \in Orders : order[o].coded /\ order[o].paidAt}) <= MaxRedemptions

\* A paid order stays paid (scopeUnconsumed: "the organizer already paid, and taking the
\* credit back is taking money").
PaidStaysPaid ==
    [][\A o \in Orders : order[o].status = "paid" => order'[o].status = "paid"]_vars
=============================================================================
