---------------------------- MODULE TicketOrders ----------------------------
(***************************************************************************)
(* The ticket orders of one category, from the quota check to the gate:    *)
(* TicketService, the two doors that sell (PublicTicketController,         *)
(* TicketSaleController), Midtrans' notifications, the proof queue of      *)
(* manual transfers, the tickets:expire-manual sweep, refunds and the      *)
(* scanner.                                                                *)
(*                                                                         *)
(* A request loads its order, tests the status of that copy, and writes    *)
(* later without testing again: loading is one step and writing another,   *)
(* with the request in between held in job.  A transaction is one step:    *)
(* each one that moves the quota starts by updating the category's row,    *)
(* whose lock orders them all (READ COMMITTED).                            *)
(***************************************************************************)
EXTENDS Money

CONSTANTS
    Orders,         \* ids of the orders that may be placed
    Rail,           \* [Orders -> {"gateway", "manual", "onsite"}]
    Free,           \* the orders whose price is 0
    Seats,          \* [Orders -> Nat \ {0}]: people
    DayMode,        \* "none", "per_day" or "pass"
    Days,           \* the dates the category sells
    Picked,         \* [Orders -> SUBSET Days]: what a per_day buyer picks
    NoDay,          \* the event_date of a ticket without one
    Quota,          \* of the category; with days, of each of them
    Handlers,       \* requests in flight at once
    Deliveries,     \* bound: how often Midtrans notifies us of an order
    LastDay         \* bound: the last day that is modelled

ASSUME TicketOrdersAssumption ==
    /\ IsFiniteSet(Orders) /\ IsFiniteSet(Handlers)
    /\ Rail \in [Orders -> {"gateway", "manual", "onsite"}]
    /\ \A o \in Free : Rail[o] # "manual"   \* destinationFor(): a free order has no bank
    /\ Seats \in [Orders -> Nat \ {0}]
    /\ DayMode \in {"none", "per_day", "pass"}
    /\ Days \subseteq 1..LastDay
    /\ DayMode # "none" => Days # {}
    /\ Picked \in [Orders -> (SUBSET Days)]
    /\ DayMode = "per_day" => \A o \in Orders : Picked[o] # {}
    /\ NoDay \notin Days
    /\ Quota \in Nat
    /\ Deliveries \in Nat
    /\ LastDay \in Nat \ {0}

VARIABLES
    order,      \* the ticket_orders rows, status "none" for one not placed yet
    sold,       \* ticket_categories.sold: paid units
    daySold,    \* ticket_category_days.sold: seats of each date
    tickets,    \* the tickets rows, and
    used,       \* those with is_used
    claim,      \* what the organizer's wallet holds of the order (module Earnings)
    gateway,    \* what Midtrans knows of the order, and
    notified,   \* how often it told us
    job,        \* the request each handler is running
    today,      \* the date in the event's zone
    sent,       \* history: confirmation mails of each order
    admitted    \* history: the tickets the gate let in

vars == <<order, sold, daySold, tickets, used, claim, gateway, notified, job, today, sent,
          admitted>>

(***************************************************************************)
(* What an order covers (datesFor, pricedDays).                            *)
(***************************************************************************)
Dates(o) == CASE DayMode = "none"    -> {}
              [] DayMode = "pass"    -> Days
              [] DayMode = "per_day" -> Picked[o]

\* The paid units: a per_day buyer pays every date, a pass is paid once.
Quantity(o) == IF DayMode = "per_day" THEN Seats[o] * Cardinality(Dates(o)) ELSE Seats[o]

\* One ticket per seat per day.
TicketsOf(o) ==
    {[order |-> o, day |-> d, seat |-> i] :
        d \in IF Dates(o) = {} THEN {NoDay} ELSE Dates(o), i \in 1..Seats[o]}

AllTickets == UNION {TicketsOf(o) : o \in Orders}

NotPlaced == [status |-> "none", proof |-> FALSE, verified |-> FALSE, late |-> FALSE]
Idle == [op |-> "idle"]

Init ==
    /\ order = [o \in Orders |-> NotPlaced]
    /\ sold = 0
    /\ daySold = [d \in Days |-> 0]
    /\ tickets = {}
    /\ used = {}
    /\ claim = [o \in Orders |-> "none"]
    /\ gateway = [o \in Orders |-> "unaware"]
    /\ notified = [o \in Orders |-> 0]
    /\ job = [h \in Handlers |-> Idle]
    /\ today = 1
    /\ sent = [o \in Orders |-> 0]
    /\ admitted = {}

shop == <<order, sold, daySold, tickets, used, claim, sent, admitted>>
outside == <<gateway, notified, today>>

Running(h, op) == job[h].op = op
Goes(h, to) == job' = [job EXCEPT ![h] = to]
Begins(h, request) == job[h] = Idle /\ Goes(h, request)

Status(o) == order[o].status
SetStatus(o, status) == order' = [order EXCEPT ![o].status = status]

-----------------------------------------------------------------------------
(***************************************************************************)
(* The checkout.                                                           *)
(***************************************************************************)
SeatsAvailable_SomeDay(o) == \E d \in Dates(o) : Quota - daySold[d] >= Seats[o]
\* ensureSeatsAvailable(): per date when the order has dates.
SeatsAvailable(o) ==
    IF Dates(o) = {} THEN Quota - sold >= Seats[o]
                     ELSE \A d \in Dates(o) : Quota - daySold[d] >= Seats[o]

\* The door reads the category and its days, and refuses when seats are short.
CheckSeats(h, o) ==
    /\ Status(o) = "none"
    /\ \A g \in Handlers : job[g] # [op |-> "buy", order |-> o]
    /\ SeatsAvailable(o)
    /\ Begins(h, [op |-> "buy", order |-> o])
    /\ UNCHANGED <<shop, outside>>

ShiftDays_Unclamped(dates, by) ==
    daySold' = [d \in Days |-> daySold[d] + IF d \in dates THEN by ELSE 0]
\* shiftDays(): clamped at zero on the way down.
ShiftDays(dates, by) ==
    daySold' = [d \in Days |-> IF d \in dates THEN Greatest(0, daySold[d] + by) ELSE daySold[d]]

\* purchase(): reserve, write the order, issue the tickets.  A manual order is left
\* to its buyer; the others open their payment next.
Purchase(h) ==
    LET o == job[h].order IN
    /\ Running(h, "buy")
    /\ sold' = sold + Quantity(o)
    /\ ShiftDays(Dates(o), Seats[o])
    /\ SetStatus(o, "pending")
    /\ tickets' = tickets \cup TicketsOf(o)
    /\ Goes(h, IF Rail[o] = "manual" THEN Idle ELSE [op |-> "open", order |-> o])
    /\ UNCHANGED <<used, claim, sent, admitted, outside>>

\* After that transaction: settlement on the spot for a free order and for cash at the
\* box office, a Snap transaction for the others, which Midtrans may refuse without the
\* door noticing (createSnapTransaction answers with no token).
OpenPayment(h) ==
    LET o == job[h].order IN
    /\ Running(h, "open")
    /\ IF Rail[o] = "onsite" \/ o \in Free
       THEN Goes(h, [op |-> "pay", order |-> o]) /\ UNCHANGED gateway
       ELSE /\ Goes(h, Idle)
            /\ gateway' = [gateway EXCEPT ![o] = "open"] \/ UNCHANGED gateway
    /\ UNCHANGED <<shop, notified, today>>

-----------------------------------------------------------------------------
(***************************************************************************)
(* Payment and cancellation.                                               *)
(***************************************************************************)
\* isOffPlatform(): money that never passed through the platform.
OffPlatform(o) == Rail[o] \in {"manual", "onsite"}

\* The wallet's record() ignores a second credit of the same order.
Credit(o) ==
    IF OffPlatform(o) \/ o \in Free \/ claim[o] # "none"
    THEN UNCHANGED claim
    ELSE claim' = [claim EXCEPT ![o] = "held"]

\* markPaid() past its early return: the transaction and the mail.
Pay(h) ==
    LET o == job[h].order IN
    /\ \/ Running(h, "pay") \/ Running(h, "settle")
    /\ SetStatus(o, "paid")
    /\ Credit(o)
    /\ sent' = [sent EXCEPT ![o] = @ + 1]
    /\ Goes(h, Idle)
    /\ UNCHANGED <<sold, daySold, tickets, used, admitted, outside>>

ReleasedDates_None(o) == {}
\* release() gives back every day the order took.
ReleasedDates(o) == Dates(o)

Void_KeepTickets(o, status) ==
    /\ SetStatus(o, status)
    /\ sold' = sold - Quantity(o)
    /\ ShiftDays(ReleasedDates(o), -Seats[o])
    /\ UNCHANGED <<tickets, used>>
\* cancel() or refund() past its guard, with release().
Void(o, status) ==
    /\ SetStatus(o, status)
    /\ sold' = sold - Quantity(o)
    /\ ShiftDays(ReleasedDates(o), -Seats[o])
    /\ tickets' = tickets \ TicketsOf(o)
    /\ used' = used \ TicketsOf(o)

\* Midtrans' side of an open transaction ends one way or the other, and one whose attempt
\* was denied may still be settled by another.
GatewayEnds(o, outcome) ==
    /\ gateway[o] = "open" \/ (gateway[o] = "fail" /\ outcome = "settle")
    /\ gateway' = [gateway EXCEPT ![o] = outcome]
    /\ UNCHANGED <<shop, notified, job, today>>

\* The early returns of markPaid() and cancel(), on the copy.
Ignored(outcome, status) ==
    IF outcome = "settle" THEN status = "paid"
                          ELSE status \in {"paid", "cancelled", "refunded"}

\* A notification arrives: handleTicket() finds the order and runs the early return.
\* One Midtrans sends again ("capture", then "settlement") is another arrival.
Notify(h, o) ==
    LET outcome == gateway[o] IN
    /\ outcome \in {"settle", "fail"}
    /\ notified[o] < Deliveries
    /\ notified' = [notified EXCEPT ![o] = @ + 1]
    /\ job[h] = Idle
    /\ Goes(h, IF Ignored(outcome, Status(o)) THEN Idle
               ELSE [op |-> outcome, order |-> o])
    /\ UNCHANGED <<shop, gateway, today>>

\* A failed payment cancels the order.
CancelFailed(h) ==
    /\ Running(h, "fail")
    /\ Void(job[h].order, "cancelled")
    /\ Goes(h, Idle)
    /\ UNCHANGED <<claim, sent, admitted, outside>>

-----------------------------------------------------------------------------
(***************************************************************************)
(* Manual transfers: the proof, its verdict, and the sweep.                *)
(***************************************************************************)
Pending(o) == Rail[o] = "manual" /\ Status(o) = "pending"

\* isAwaitingVerification(): note that it does not ask for "pending".
Awaiting(o) == /\ Rail[o] = "manual" /\ Status(o) \notin {"none", "paid"}
               /\ order[o].proof /\ ~order[o].verified

Expirable_Proven(o) == Pending(o) /\ order[o].proof /\ order[o].late
\* What tickets:expire-manual selects.
Expirable(o) == Pending(o) /\ ~order[o].proof /\ order[o].late

DeadlinePasses(o) ==
    /\ Pending(o) /\ ~order[o].late
    /\ order' = [order EXCEPT ![o].late = TRUE]
    /\ UNCHANGED <<sold, daySold, tickets, used, claim, sent, admitted, job, outside>>

\* Each request on a manual order loads it under this condition.
LoadManual(h, op, o) ==
    /\ CASE op = "proof"                 -> Pending(o)
         [] op \in {"approve", "reject"} -> Awaiting(o)
         [] op = "expire"                -> /\ Expirable(o)
                                            /\ \A g \in Handlers : ~Running(g, "expire")
    /\ Begins(h, [op |-> op, order |-> o])
    /\ UNCHANGED <<shop, outside>>

\* What the proof columns and the deadline become: attachProof(), rejectProof().
EditProof(h, op, proof) ==
    LET o == job[h].order IN
    /\ Running(h, op)
    /\ order' = [order EXCEPT ![o].proof = proof,
                              ![o].late = @ /\ op # "reject"]
    /\ Goes(h, Idle)
    /\ UNCHANGED <<sold, daySold, tickets, used, claim, sent, admitted, outside>>

\* approveProof(): markVerified() commits by itself ...
MarkVerified(h) ==
    LET o == job[h].order IN
    /\ Running(h, "approve")
    /\ order' = [order EXCEPT ![o].verified = TRUE]
    /\ Goes(h, [op |-> "fresh", order |-> o])
    /\ UNCHANGED <<sold, daySold, tickets, used, claim, sent, admitted, outside>>

\* ... then fresh() loads the order again and markPaid() tests that copy.
Reload(h) ==
    LET o == job[h].order IN
    /\ Running(h, "fresh")
    /\ Goes(h, IF Ignored("settle", Status(o)) THEN Idle
               ELSE [op |-> "pay", order |-> o])
    /\ UNCHANGED <<shop, outside>>

ExpireManual(h) ==
    /\ Running(h, "expire")
    /\ Void(job[h].order, "expired")
    /\ Goes(h, Idle)
    /\ UNCHANGED <<claim, sent, admitted, outside>>

-----------------------------------------------------------------------------
(***************************************************************************)
(* Refunds and the gate.                                                   *)
(***************************************************************************)
Refundable_AnyTicket(o) == Status(o) = "paid"
\* refundTicketOrder(): a paid order nobody has come in on.
Refundable(o) == Status(o) = "paid" /\ TicketsOf(o) \cap used = {}

LoadRefund(h, o) ==
    /\ Refundable(o)
    /\ Begins(h, [op |-> "refund", order |-> o])
    /\ UNCHANGED <<shop, outside>>

Reversed_Kept(held) == held
\* What the wallet still holds of an order once its credit is reversed.
Reversed(held) == IF held = "held" THEN "void" ELSE held

\* The order is voided and the organizer's credit, if there is one, taken back.
Refund(h) ==
    LET o == job[h].order IN
    /\ Running(h, "refund")
    /\ Void(o, "refunded")
    /\ claim' = [claim EXCEPT ![o] = Reversed(@)]
    /\ Goes(h, Idle)
    /\ UNCHANGED <<sent, admitted, outside>>

ValidToday(t) == t.day \in {NoDay, today}

Admits_Unpaid(t) == t \in tickets \ used /\ ValidToday(t)
\* The scanner's guards on the ticket it loaded.
Admits(t) == t \in tickets \ used /\ Status(t.order) = "paid" /\ ValidToday(t)

\* The rows a request has still to mark as used.
Admitting(rows) == IF rows = {} THEN Idle ELSE [op |-> "admit", rows |-> rows]

\* A scan of one ticket, or, with whole_order, of its party.
Scan(h, t) ==
    /\ Admits(t)
    /\ \/ Begins(h, Admitting({t}))
       \/ Begins(h, [op |-> "party", order |-> t.order])
    /\ UNCHANGED <<shop, outside>>

\* The box office asks for the order to be paid, and no more.
AdmitAtTill(h, o) ==
    /\ Status(o) = "paid"
    /\ Begins(h, [op |-> "party", order |-> o])
    /\ UNCHANGED <<shop, outside>>

\* checkInOrder() selects the rows that are valid today and not used yet.
FindParty(h) ==
    LET rows == {t \in tickets \ used : t.order = job[h].order /\ ValidToday(t)} IN
    /\ Running(h, "party")
    /\ Goes(h, Admitting(rows))
    /\ UNCHANGED <<shop, outside>>

\* checkIn() of the next row, each an UPDATE of its own: a row deleted meanwhile is no
\* longer there to update, but the answer still says "valid".
CheckIn(h) ==
    /\ Running(h, "admit")
    /\ \E t \in job[h].rows :
          /\ used' = used \cup ({t} \cap tickets)
          /\ admitted' = admitted \cup {t}
          /\ Goes(h, Admitting(job[h].rows \ {t}))
    /\ UNCHANGED <<order, sold, daySold, tickets, claim, sent, outside>>

NextDay ==
    /\ today < LastDay
    /\ today' = today + 1
    /\ UNCHANGED <<shop, gateway, notified, job>>

-----------------------------------------------------------------------------
\* The worker dies between two steps.  Midtrans got no answer and will notify again.
Dies(h) ==
    /\ job[h] # Idle
    /\ notified' = IF job[h].op \in {"settle", "fail"}
                   THEN [notified EXCEPT ![job[h].order] = @ - 1]
                   ELSE notified
    /\ Goes(h, Idle)
    /\ UNCHANGED <<shop, gateway, today>>

Finish(h) ==
    \/ Purchase(h) \/ OpenPayment(h) \/ Pay(h) \/ CancelFailed(h)
    \/ EditProof(h, "proof", TRUE) \/ EditProof(h, "reject", FALSE)
    \/ MarkVerified(h) \/ Reload(h) \/ ExpireManual(h)
    \/ Refund(h) \/ FindParty(h) \/ CheckIn(h)

Next ==
    \/ \E h \in Handlers, o \in Orders :
         \/ CheckSeats(h, o) \/ Notify(h, o) \/ LoadRefund(h, o) \/ AdmitAtTill(h, o)
         \/ \E op \in {"proof", "approve", "reject", "expire"} : LoadManual(h, op, o)
    \/ \E h \in Handlers, t \in AllTickets : Scan(h, t)
    \/ \E h \in Handlers : Finish(h) \/ Dies(h)
    \/ \E o \in Orders :
         \/ GatewayEnds(o, "settle") \/ GatewayEnds(o, "fail")
         \/ DeadlinePasses(o)
    \/ NextDay

Spec == Init /\ [][Next]_vars

\* Deadlines come, a request that does not die finishes, and the hourly sweep
\* (routes/console.php) neither misses an order forever nor dies every time.
Fairness ==
    /\ \A h \in Handlers : WF_vars(Finish(h)) /\ SF_vars(ExpireManual(h))
    /\ \A o \in Orders : /\ WF_vars(DeadlinePasses(o))
                         /\ SF_vars(\E h \in Handlers : LoadManual(h, "expire", o))
FairSpec == Spec /\ Fairness

-----------------------------------------------------------------------------
(***************************************************************************)
(* Properties that hold whatever requests overlap and however often        *)
(* Midtrans repeats itself.                                                *)
(***************************************************************************)
OrderRow ==
    [status : {"none", "pending", "paid", "cancelled", "expired", "refunded"},
     proof : BOOLEAN, verified : BOOLEAN, late : BOOLEAN]

Job ==
    {Idle}
      \cup [op : {"buy", "open", "proof", "approve", "reject", "expire", "fresh", "refund",
                  "party", "pay", "settle", "fail"}, order : Orders]
      \cup [op : {"admit"}, rows : SUBSET AllTickets]

\* Type correctness; sold is a signed column and nothing clamps it.
TypeOK ==
    /\ order \in [Orders -> OrderRow]
    /\ sold \in Int
    /\ daySold \in [Days -> Nat]
    /\ tickets \subseteq AllTickets /\ used \subseteq tickets
    /\ claim \in [Orders -> {"none", "held", "void"}]
    /\ gateway \in [Orders -> {"unaware", "open", "settle", "fail"}]
    /\ notified \in [Orders -> 0..Deliveries]
    /\ job \in [Handlers -> Job]
    /\ today \in 1..LastDay
    /\ sent \in [Orders -> Nat]
    /\ admitted \subseteq AllTickets

\* Nobody comes in on a ticket that was never paid (TicketService: tickets "only become
\* valid for check-in once their order is paid").
AdmittedOnlyPaid == \A t \in admitted : sent[t.order] > 0

-----------------------------------------------------------------------------
(***************************************************************************)
(* Properties that hold while requests follow one another and Midtrans     *)
(* notifies once of each order.  markPaid() returns early on a paid order  *)
(* only, so a settlement that arrives after a refund, or after the denial  *)
(* that cancelled the order, pays one that has no tickets left; and the    *)
(* sweep expires an order whose proof arrived after its query.             *)
(***************************************************************************)
Holding == {o \in Orders : TicketsOf(o) \cap tickets # {}}

\* The counters are what the live orders hold: the paid units of the category, and the
\* seats of each day (release: "a date that reads sold out with nobody holding a
\* ticket for it").
SoldIsHeld ==
    /\ sold = Sum([o \in Holding |-> Quantity(o)])
    /\ \A d \in Days :
          daySold[d] = Cardinality({t \in tickets : t.day = d})

\* The quota binds, on every door and on every day.
QuotaBinds ==
    IF DayMode = "none" THEN sold <= Quota ELSE \A d \in Days : daySold[d] <= Quota

\* Exactly the orders that are pending or paid have their tickets.
TicketsMatchStatus ==
    \A o \in Orders : IF Status(o) \in {"pending", "paid"}
                      THEN TicketsOf(o) \subseteq tickets
                      ELSE TicketsOf(o) \cap tickets = {}

\* The organizer has the money of exactly the priced gateway orders that are paid.
HeldIffPaid ==
    \A o \in Orders :
        claim[o] = "held" <=> Rail[o] = "gateway" /\ o \notin Free /\ Status(o) = "paid"

\* An order somebody came in on is not refunded (refundTicketOrder).
RefundedNotAdmitted == \A t \in admitted : Status(t.order) # "refunded"

\* A manual order without a proof does not keep its seats: it gets a proof or it ends
\* ("without this sweep one abandoned order would hold its seats").
NoGhostOrders ==
    \A o \in Orders : (Pending(o) /\ ~order[o].proof) ~> (~Pending(o) \/ order[o].proof)
=============================================================================
