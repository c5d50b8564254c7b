---------------------------- MODULE TicketProofs ----------------------------
(***************************************************************************)
(* The ticket orders of a category, for any number of orders, seats, days  *)
(* and requests.                                                           *)
(*                                                                         *)
(* GInv holds however requests overlap and however often Midtrans repeats  *)
(* itself: what the gate may still let in was paid when it was read.       *)
(* SInv holds while requests follow one another and Midtrans notifies      *)
(* once: what a request loaded is still so when it writes, so tickets,     *)
(* counters and claims follow the status.                                  *)
(***************************************************************************)
EXTENDS TicketOrders, MoneyProofs

-----------------------------------------------------------------------------
\* What holds of every interleaving.
PaidWasSent == \A o \in Orders : Status(o) = "paid" => sent[o] > 0

Chasing(o) == {h \in Handlers : job[h].op \in {"settle", "fail"} /\ job[h].order = o}
AnswersOwed == \A o \in Orders : Cardinality(Chasing(o)) <= notified[o]

GateStands ==
    \A h \in Handlers :
        /\ Running(h, "party") => sent[job[h].order] > 0
        /\ Running(h, "admit") =>
              \A t \in job[h].rows : sent[t.order] > 0

GInv ==
    /\ TypeOK /\ AdmittedOnlyPaid
    /\ PaidWasSent /\ AnswersOwed /\ GateStands

-----------------------------------------------------------------------------
\* What holds while requests follow one another and Midtrans notifies once.
OneAtATime == (\A g, h \in Handlers : g = h) /\ Deliveries <= 1

ThroughGateway(o) == Rail[o] = "gateway" /\ o \notin Free
Live == {o \in Orders : Status(o) \in {"pending", "paid"}}

TicketsAreLive == tickets = UNION {TicketsOf(o) : o \in Live}
LiveIsSold ==
    /\ sold = Sum([o \in Live |-> Quantity(o)])
    /\ \A d \in Days : daySold[d] = Cardinality({t \in tickets : t.day = d})

ClaimFollows ==
    \A o \in Orders :
        claim[o] = IF ~ThroughGateway(o) THEN "none"
                   ELSE IF Status(o) = "paid" THEN "held"
                   ELSE IF Status(o) = "refunded" THEN "void" ELSE "none"

EntriesArePaid ==
    \A t \in admitted : t \in used /\ Status(t.order) = "paid"

\* Where an order can be, by its rail.
ManualStands(o) ==
    /\ Status(o) # "cancelled"
    /\ Status(o) \in {"paid", "refunded"} => order[o].verified
    /\ Status(o) \in {"none", "expired"} => ~order[o].proof
GatewayStands(o) ==
    /\ gateway[o] # "unaware" => ThroughGateway(o) /\ Status(o) # "none"
    /\ ThroughGateway(o) /\ (gateway[o] \in {"unaware", "open"} \/ notified[o] = 0)
         => Status(o) \in {"none", "pending"}
OrdersStand ==
    \A o \in Orders : (Rail[o] = "manual" => ManualStands(o)) /\ GatewayStands(o)

\* What a request may still believe of its order.
Believes(j) ==
    /\ j.op = "buy" => Status(j.order) = "none" /\ SeatsAvailable(j.order)
    /\ j.op = "open" => Rail[j.order] # "manual" /\ gateway[j.order] = "unaware"
    /\ j.op = "pay" => /\ ~ThroughGateway(j.order)
                       /\ Rail[j.order] = "manual" => order[j.order].verified
    /\ j.op = "fresh" => Rail[j.order] = "manual" /\ order[j.order].verified
    /\ j.op \in {"settle", "fail"} => gateway[j.order] \in {"settle", "fail"}
    /\ j.op = "settle" => gateway[j.order] = "settle"
    /\ j.op \in {"open", "pay", "settle", "fail", "fresh"} => Status(j.order) = "pending"
    /\ j.op \in {"proof", "approve", "reject", "expire"} => Pending(j.order)
    /\ j.op = "expire" => ~order[j.order].proof
    /\ j.op \in {"party", "refund"} => Status(j.order) = "paid"
    /\ j.op = "refund" => TicketsOf(j.order) \cap used = {}
    /\ j.op = "admit" =>
          \A t \in j.rows : t \in tickets \ used /\ Status(t.order) = "paid"
JobsStand == \A h \in Handlers : Believes(job[h])

Books == TicketsAreLive /\ LiveIsSold /\ QuotaBinds /\ ClaimFollows /\ EntriesArePaid
SInv == GInv /\ Books /\ OrdersStand /\ JobsStand

-----------------------------------------------------------------------------
(***************************************************************************)
(* Tickets, dates and units.                                               *)
(***************************************************************************)
\* A ticket belongs to one order.
LEMMA TicketsByOrder ==
    /\ \A t \in AllTickets : t.order \in Orders
    /\ \A o \in Orders : TicketsOf(o) = {t \in AllTickets : t.order = o}
  BY DEF AllTickets, TicketsOf

LEMMA DatesFinite ==
    ASSUME NEW o \in Orders
    PROVE  Dates(o) \subseteq Days /\ IsFiniteSet(Days) /\ IsFiniteSet(Dates(o))
<1>1. Dates(o) \in SUBSET Days
  BY TicketOrdersAssumption DEF Dates
<1>2. IsFiniteSet(Days)
  <2>1. IsFiniteSet(1..LastDay)
    <3>1. 1 \in Int /\ LastDay \in Int
      BY TicketOrdersAssumption
    <3> QED
      BY <3>1, FS_Interval
  <2>2. Days \in SUBSET (1..LastDay)
    BY TicketOrdersAssumption
  <2> QED
    BY <2>1, <2>2, FS_Subset
<1> QED
  BY <1>1, <1>2, FS_Subset

\* The paid units of an order are a natural number.
LEMMA QuantityType ==
    ASSUME NEW o \in Orders
    PROVE  Quantity(o) \in Nat /\ Seats[o] \in Nat \ {0}
<1>1. Cardinality(Dates(o)) \in Nat
  BY DatesFinite, FS_CardinalityType
<1>2. Seats[o] \in Nat \ {0}
  BY TicketOrdersAssumption
<1>3. Seats[o] * Cardinality(Dates(o)) \in Nat
  BY <1>1, <1>2
<1> QED
  BY <1>2, <1>3 DEF Quantity

\* The two kinds of request: those about an order, and those about rows at the gate.
OrderOps == {"buy", "open", "proof", "approve", "reject", "expire", "fresh", "refund",
             "party", "pay", "settle", "fail"}

LEMMA JobForm ==
    ASSUME NEW j \in Job
    PROVE  \/ j = Idle /\ j.op = "idle"
           \/ /\ j.op \in OrderOps /\ j.order \in Orders
              /\ j = [op |-> j.op, order |-> j.order]
           \/ /\ j.op = "admit" /\ j.rows \in SUBSET AllTickets
              /\ j = [op |-> "admit", rows |-> j.rows]
<1>1. CASE j = Idle
  BY <1>1 DEF Idle
<1>2. CASE j \in [op : OrderOps, order : Orders]
  BY <1>2
<1>3. CASE j \in [op : {"admit"}, rows : SUBSET AllTickets]
  BY <1>3
<1> QED
  BY <1>1, <1>2, <1>3 DEF Job, OrderOps

LEMMA JobHolds ==
    ASSUME TypeOK, NEW h \in Handlers
    PROVE  /\ job[h] \in Job
           /\ job[h].op \in OrderOps => job[h].order \in Orders
           /\ job[h].op = "admit" => job[h].rows \in SUBSET AllTickets
<1>1. job[h] \in Job
  BY DEF TypeOK
<1> QED
  BY <1>1, JobForm DEF OrderOps

\* A request is idle, or one of these two records.
LEMMA IdleOp == Idle.op = "idle" /\ Idle \in Job
  BY DEF Idle, Job

LEMMA OrderJob ==
    ASSUME NEW op \in OrderOps, NEW o \in Orders
    PROVE  /\ [op |-> op, order |-> o] \in Job
           /\ [op |-> op, order |-> o].op = op /\ [op |-> op, order |-> o].order = o
  BY DEF Job, OrderOps

LEMMA GateJob ==
    ASSUME NEW rows \in SUBSET AllTickets
    PROVE  /\ Admitting(rows) \in Job
           /\ Admitting(rows).op \in {"admit", "idle"}
           /\ Admitting(rows).op = "admit" => Admitting(rows).rows = rows
  BY DEF Admitting, Job, Idle

LEMMA JobType ==
    ASSUME TypeOK, NEW h \in Handlers, NEW to \in Job, Goes(h, to)
    PROVE  /\ job' \in [Handlers -> Job]
           /\ job'[h] = to
           /\ \A g \in Handlers : g # h => job'[g] = job[g]
  BY DEF TypeOK, Goes

-----------------------------------------------------------------------------
(***************************************************************************)
(* Type correctness of the steps.                                          *)
(***************************************************************************)
LEMMA InitType == Init => TypeOK
<1> SUFFICES ASSUME Init PROVE TypeOK
  OBVIOUS
<1>1. order \in [Orders -> OrderRow]
  BY DEF Init, OrderRow, NotPlaced
<1>2. job \in [Handlers -> Job]
  BY IdleOp DEF Init
<1>3. today \in 1..LastDay /\ notified \in [Orders -> 0..Deliveries]
  BY TicketOrdersAssumption DEF Init
<1> QED
  BY <1>1, <1>2, <1>3 DEF Init, TypeOK

LEMMA StatusType ==
    ASSUME TypeOK, NEW o \in Orders,
           NEW s \in {"none", "pending", "paid", "cancelled", "expired", "refunded"},
           SetStatus(o, s)
    PROVE  /\ order' \in [Orders -> OrderRow]
           /\ Status(o)' = s
           /\ order[o]'.proof = order[o].proof /\ order[o]'.verified = order[o].verified
           /\ \A p \in Orders \ {o} : order[p]' = order[p]
<1>1. order \in [Orders -> OrderRow]
  BY DEF TypeOK
<1>2. order' = [order EXCEPT ![o] = [order[o] EXCEPT !.status = s]]
  BY <1>1 DEF SetStatus
<1>3. [order[o] EXCEPT !.status = s] \in OrderRow
  BY <1>1 DEF OrderRow
<1>4. order[o]' = [order[o] EXCEPT !.status = s]
  BY <1>1, <1>2
<1> QED
  BY <1>1, <1>2, <1>3, <1>4 DEF Status, OrderRow

\* Voiding an order gives its units back and deletes its tickets.
LEMMA VoidType ==
    ASSUME TypeOK, NEW o \in Orders, NEW s \in {"cancelled", "expired", "refunded"},
           Void(o, s)
    PROVE  /\ order' \in [Orders -> OrderRow]
           /\ sold' \in Int /\ daySold' \in [Days -> Nat]
           /\ tickets' \subseteq AllTickets /\ used' \subseteq tickets'
           /\ Status(o)' = s
           /\ \A p \in Orders \ {o} : order[p]' = order[p]
<1>1. /\ order' \in [Orders -> OrderRow] /\ Status(o)' = s
      /\ \A p \in Orders \ {o} : order[p]' = order[p]
  BY StatusType DEF Void
<1>2. sold' \in Int
  BY QuantityType DEF Void, TypeOK
<1>3. daySold' \in [Days -> Nat]
  <2>1. -Seats[o] \in Int
    BY QuantityType
  <2>2. \A d \in Days : Greatest(0, daySold[d] + (-Seats[o])) \in Nat
    BY <2>1 DEF Greatest, TypeOK
  <2> QED
    BY <2>2 DEF Void, ShiftDays, TypeOK
<1> QED
  BY <1>1, <1>2, <1>3 DEF Void, TypeOK

\* A purchase takes the units and issues the tickets.
LEMMA PurchaseType ==
    ASSUME TypeOK, NEW h \in Handlers, NEW o \in Orders, o = job[h].order, Purchase(h)
    PROVE  /\ order' \in [Orders -> OrderRow]
           /\ sold' \in Int /\ daySold' \in [Days -> Nat]
           /\ tickets' \subseteq AllTickets /\ used' \subseteq tickets'
           /\ Status(o)' = "pending"
           /\ \A p \in Orders \ {o} : order[p]' = order[p]
<1>1. /\ order' \in [Orders -> OrderRow] /\ Status(o)' = "pending"
      /\ \A p \in Orders \ {o} : order[p]' = order[p]
  <2>1. SetStatus(o, "pending")
    BY DEF Purchase
  <2> QED
    BY <2>1, StatusType
<1>2. sold' \in Int
  BY QuantityType DEF Purchase, TypeOK
<1>3. daySold' \in [Days -> Nat]
  <2>1. \A d \in Days : Greatest(0, daySold[d] + Seats[o]) \in Nat
    BY QuantityType DEF Greatest, TypeOK
  <2> QED
    BY <2>1 DEF Purchase, ShiftDays, TypeOK
<1>4. tickets' \subseteq AllTickets /\ used' \subseteq tickets'
  BY TicketsByOrder DEF Purchase, TypeOK
<1> QED
  BY <1>1, <1>2, <1>3, <1>4

\* A proof, a verdict or a deadline changes no status.
LEMMA EditType ==
    ASSUME TypeOK, NEW o \in Orders, NEW row \in OrderRow, row.status = Status(o),
           order' = [order EXCEPT ![o] = row]
    PROVE  /\ order' \in [Orders -> OrderRow]
           /\ \A p \in Orders : Status(p)' = Status(p)
           /\ order[o]' = row
           /\ \A p \in Orders \ {o} : order[p]' = order[p]
  BY DEF TypeOK, Status


-----------------------------------------------------------------------------
(***************************************************************************)
(* The invariant of every interleaving.                                    *)
(***************************************************************************)
LEMMA ChasingFinite ==
    ASSUME NEW o \in Orders
    PROVE  IsFiniteSet(Chasing(o)) /\ Cardinality(Chasing(o)) \in Nat
<1>1. Chasing(o) \in SUBSET Handlers
  BY DEF Chasing
<1> QED
  BY <1>1, TicketOrdersAssumption, FS_Subset, FS_CardinalityType

\* A step that sends nobody after an outcome owes no more answers than before.
LEMMA OwesNoMore ==
    ASSUME TypeOK, TypeOK', AnswersOwed, notified' = notified,
           \A o \in Orders : Chasing(o)' \subseteq Chasing(o)
    PROVE  AnswersOwed'
<1> SUFFICES ASSUME NEW o \in Orders PROVE Cardinality(Chasing(o)') <= notified[o]
  BY DEF AnswersOwed
<1>1. IsFiniteSet(Chasing(o)) /\ Cardinality(Chasing(o)) \in Nat
  BY ChasingFinite
<1>2. Chasing(o)' \in SUBSET Chasing(o)
  OBVIOUS
<1>3. Cardinality(Chasing(o)') <= Cardinality(Chasing(o)) /\ IsFiniteSet(Chasing(o)')
  <2> DEFINE C == Chasing(o)  D == Chasing(o)'
  <2>1. IsFiniteSet(C) /\ D \in SUBSET C
    BY <1>1, <1>2
  <2> HIDE DEF C, D
  <2>2. Cardinality(D) <= Cardinality(C) /\ IsFiniteSet(D)
    BY <2>1, FS_Subset
  <2> QED
    BY <2>2 DEF C, D
<1>4. Cardinality(Chasing(o)') \in Nat
  <2> DEFINE D == Chasing(o)'
  <2> HIDE DEF D
  <2>1. Cardinality(D) \in Nat
    BY <1>3, FS_CardinalityType DEF D
  <2> QED
    BY <2>1 DEF D
<1>5. notified[o] \in Nat /\ Cardinality(Chasing(o)) <= notified[o]
  BY TicketOrdersAssumption DEF TypeOK, AnswersOwed
<1> QED
  BY <1>1, <1>3, <1>4, <1>5

\* A request moves on: what it carries to the gate was paid, and no mail is unsent.
LEMMA GateStep ==
    ASSUME GInv, TypeOK', NEW h \in Handlers, NEW to \in Job, Goes(h, to),
           to.op \notin {"settle", "fail"},
           to.op = "party" => sent[to.order] > 0,
           to.op = "admit" => \A t \in to.rows : sent[t.order] > 0,
           notified' = notified, admitted' = admitted,
           \A o \in Orders : sent[o] > 0 => sent'[o] > 0,
           \A o \in Orders : Status(o)' = "paid" => sent'[o] > 0
    PROVE  GInv'
<1>1. /\ job' \in [Handlers -> Job] /\ job'[h] = to
      /\ \A g \in Handlers : g # h => job'[g] = job[g]
  BY JobType DEF GInv
<1>2. AnswersOwed'
  <2>1. \A o \in Orders : Chasing(o)' \subseteq Chasing(o)
    BY <1>1 DEF Chasing
  <2> QED
    BY <2>1, OwesNoMore DEF GInv
<1>3. AdmittedOnlyPaid'
  BY TicketsByOrder DEF GInv, TypeOK, AdmittedOnlyPaid
<1>4. PaidWasSent'
  BY DEF PaidWasSent
<1>5. GateStands'
  <2> SUFFICES ASSUME NEW g \in Handlers
               PROVE  /\ job'[g].op = "party" => sent'[job'[g].order] > 0
                      /\ job'[g].op = "admit" =>
                            \A t \in job'[g].rows :
                                sent'[t.order] > 0
    BY DEF GateStands, Running
  <2>1. job'[g] \in Job
    BY <1>1
  <2>2. /\ job'[g].op = "party" => job'[g].order \in Orders
        /\ job'[g].op = "admit" => \A t \in job'[g].rows : t.order \in Orders
    BY <2>1, JobForm, TicketsByOrder DEF OrderOps
  <2>3. CASE g = h
    BY <1>1, <2>2, <2>3
  <2>4. CASE g # h
    BY <1>1, <2>2, <2>4 DEF GInv, GateStands, Running
  <2> QED
    BY <2>3, <2>4
<1> QED
  BY <1>2, <1>3, <1>4, <1>5 DEF GInv


\* A step of the outside world: no request moves and no order is paid.
LEMMA WorldStep ==
    ASSUME GInv, TypeOK', job' = job, notified' = notified, UNCHANGED <<sent, admitted>>,
           \A o \in Orders : Status(o)' = Status(o)
    PROVE  GInv'
<1>1. AnswersOwed'
  <2>1. \A o \in Orders : Chasing(o)' \subseteq Chasing(o)
    BY DEF Chasing
  <2> QED
    BY <2>1, OwesNoMore DEF GInv
<1>2. AdmittedOnlyPaid' /\ PaidWasSent' /\ GateStands'
  BY DEF GInv, AdmittedOnlyPaid, PaidWasSent, GateStands, Running
<1> QED
  BY <1>1, <1>2 DEF GInv

\* A request begins, and the rows stay.
LEMMA BeginStep ==
    ASSUME GInv, NEW h \in Handlers, NEW to \in Job, Goes(h, to),
           to.op \notin {"settle", "fail"},
           to.op = "party" => sent[to.order] > 0,
           to.op = "admit" => \A t \in to.rows : sent[t.order] > 0,
           UNCHANGED <<shop, notified, today>>,
           gateway' \in [Orders -> {"unaware", "open", "settle", "fail"}]
    PROVE  GInv'
<1>1. TypeOK'
  BY JobType DEF GInv, TypeOK, shop
<1> QED
  BY <1>1, GateStep DEF GInv, PaidWasSent, Status, shop

LEMMA CheckSeatsGate ==
    ASSUME GInv, NEW h \in Handlers, NEW o \in Orders, CheckSeats(h, o)
    PROVE  GInv'
<1>1. "buy" \in OrderOps
  BY DEF OrderOps
<1> QED
  BY <1>1, OrderJob, BeginStep DEF CheckSeats, Begins, outside, GInv, TypeOK

LEMMA LoadGate ==
    ASSUME GInv, NEW h \in Handlers, NEW o \in Orders,
           NEW op \in {"proof", "approve", "reject", "expire"},
           LoadManual(h, op, o) \/ LoadRefund(h, o) \/ AdmitAtTill(h, o)
    PROVE  GInv'
<1>1. op \in OrderOps /\ "refund" \in OrderOps /\ "party" \in OrderOps
  BY DEF OrderOps
<1>2. CASE LoadManual(h, op, o)
  BY <1>1, <1>2, OrderJob, BeginStep DEF LoadManual, Begins, outside, GInv, TypeOK
<1>3. CASE LoadRefund(h, o)
  BY <1>1, <1>3, OrderJob, BeginStep DEF LoadRefund, Begins, outside, GInv, TypeOK
<1>4. CASE AdmitAtTill(h, o)
  <2>1. sent[o] > 0
    BY <1>4 DEF AdmitAtTill, GInv, PaidWasSent
  <2> QED
    BY <1>1, <1>4, <2>1, OrderJob, BeginStep DEF AdmitAtTill, Begins, outside, GInv, TypeOK
<1> QED
  BY <1>2, <1>3, <1>4

LEMMA ScanGate ==
    ASSUME GInv, NEW h \in Handlers, NEW t \in AllTickets, Scan(h, t)
    PROVE  GInv'
<1>1. t.order \in Orders /\ sent[t.order] > 0
  BY TicketsByOrder DEF Scan, Admits, GInv, PaidWasSent
<1>2. {t} \in SUBSET AllTickets /\ "party" \in OrderOps
  BY DEF OrderOps
<1>3. /\ UNCHANGED <<shop, notified, today>> /\ gateway' = gateway
      /\ gateway \in [Orders -> {"unaware", "open", "settle", "fail"}]
  BY DEF Scan, outside, GInv, TypeOK
<1>4. PICK to \in Job :
         /\ Goes(h, to)
         /\ \/ to.op \in {"admit", "idle"} /\ (to.op = "admit" => to.rows = {t})
            \/ to.op = "party" /\ to.order = t.order
  BY <1>1, <1>2, OrderJob, GateJob DEF Scan, Begins
<1> QED
  BY <1>1, <1>3, <1>4, BeginStep

\* checkInOrder() finds rows of an order that was paid.
LEMMA FindPartyGate ==
    ASSUME GInv, NEW h \in Handlers, FindParty(h)
    PROVE  GInv'
<1> DEFINE rows == {t \in tickets \ used : t.order = job[h].order /\ ValidToday(t)}
<1>1. sent[job[h].order] > 0
  BY DEF FindParty, GInv, GateStands
<1>2. rows \in SUBSET AllTickets /\ \A t \in rows : sent[t.order] > 0
  BY <1>1 DEF GInv, TypeOK
<1>3. /\ Goes(h, Admitting(rows))
      /\ UNCHANGED <<shop, notified, today>> /\ gateway' = gateway
      /\ gateway \in [Orders -> {"unaware", "open", "settle", "fail"}]
  BY DEF FindParty, outside, GInv, TypeOK
<1> HIDE DEF rows
<1>4. PICK to \in Job : /\ Goes(h, to) /\ to.op \in {"admit", "idle"}
                        /\ to.op = "admit" => to.rows = rows
  BY <1>2, <1>3, GateJob
<1> QED
  BY <1>2, <1>3, <1>4, BeginStep

LEMMA OpenPaymentGate ==
    ASSUME GInv, NEW h \in Handlers, OpenPayment(h)
    PROVE  GInv'
<1>1. PICK o \in Orders : o = job[h].order
  BY JobHolds DEF OpenPayment, Running, OrderOps, GInv
<1>2. /\ gateway' \in [Orders -> {"unaware", "open", "settle", "fail"}]
      /\ UNCHANGED <<shop, notified, today>>
  BY <1>1 DEF OpenPayment, GInv, TypeOK
<1>3. "pay" \in OrderOps
  BY DEF OrderOps
<1>4. Goes(h, [op |-> "pay", order |-> o]) \/ Goes(h, Idle)
  BY <1>1 DEF OpenPayment
<1> QED
  BY <1>2, <1>3, <1>4, IdleOp, OrderJob, BeginStep

LEMMA ReloadGate ==
    ASSUME GInv, NEW h \in Handlers, Reload(h)
    PROVE  GInv'
<1>1. PICK o \in Orders : o = job[h].order
  BY JobHolds DEF Reload, Running, OrderOps, GInv
<1>2. UNCHANGED <<shop, notified, today>> /\ gateway' = gateway
  BY DEF Reload, outside
<1>3. "pay" \in OrderOps
  BY DEF OrderOps
<1>4. Goes(h, [op |-> "pay", order |-> o]) \/ Goes(h, Idle)
  BY <1>1 DEF Reload
<1> QED
  BY <1>2, <1>3, <1>4, IdleOp, OrderJob, BeginStep DEF GInv, TypeOK


LEMMA PurchaseGate ==
    ASSUME GInv, NEW h \in Handlers, Purchase(h)
    PROVE  GInv'
<1>1. PICK o \in Orders : o = job[h].order
  BY JobHolds DEF Purchase, Running, OrderOps, GInv
<1>2. /\ order' \in [Orders -> OrderRow]
      /\ sold' \in Int /\ daySold' \in [Days -> Nat]
      /\ tickets' \subseteq AllTickets /\ used' \subseteq tickets'
      /\ Status(o)' = "pending"
      /\ \A p \in Orders \ {o} : order[p]' = order[p]
  BY <1>1, PurchaseType DEF GInv
<1>3. PICK to \in Job : Goes(h, to) /\ to.op \in {"idle", "open"}
  BY <1>1, IdleOp, OrderJob DEF Purchase, OrderOps
<1>4. UNCHANGED <<claim, sent, admitted, outside>>
  BY DEF Purchase
<1>5. TypeOK'
  BY <1>2, <1>3, <1>4, JobType DEF GInv, TypeOK, outside
<1>6. \A p \in Orders : Status(p)' = "paid" => sent'[p] > 0
  BY <1>2, <1>4 DEF GInv, PaidWasSent, Status
<1> QED
  BY <1>3, <1>4, <1>5, <1>6, GateStep DEF outside

\* Every payment sends its mail.
LEMMA PayGate ==
    ASSUME GInv, NEW h \in Handlers, Pay(h)
    PROVE  GInv'
<1>1. PICK o \in Orders : o = job[h].order
  BY JobHolds DEF Pay, Running, OrderOps, GInv
<1>2. SetStatus(o, "paid") /\ Credit(o)
  BY <1>1 DEF Pay
<1>3. /\ order' \in [Orders -> OrderRow]
      /\ \A p \in Orders \ {o} : order[p]' = order[p]
  BY <1>2, StatusType DEF GInv
<1>4. claim' \in [Orders -> {"none", "held", "void"}]
  BY <1>2 DEF Credit, GInv, TypeOK
<1>5. /\ sent' \in [Orders -> Nat] /\ sent'[o] > 0
      /\ \A p \in Orders : sent[p] > 0 => sent'[p] > 0
  <2>1. sent \in [Orders -> Nat] /\ sent' = [sent EXCEPT ![o] = sent[o] + 1]
    BY <1>1 DEF Pay, GInv, TypeOK
  <2> QED
    BY <2>1
<1>6. Goes(h, Idle) /\ UNCHANGED <<sold, daySold, tickets, used, admitted, outside>>
  BY DEF Pay
<1>7. TypeOK'
  BY <1>3, <1>4, <1>5, <1>6, IdleOp, JobType DEF GInv, TypeOK, outside
<1>8. \A p \in Orders : Status(p)' = "paid" => sent'[p] > 0
  BY <1>3, <1>5 DEF GInv, PaidWasSent, Status
<1> QED
  BY <1>5, <1>6, <1>7, <1>8, IdleOp, GateStep DEF outside

\* A voided order is not paid any more.
LEMMA VoidGate ==
    ASSUME GInv, NEW h \in Handlers, NEW o \in Orders,
           NEW s \in {"cancelled", "expired", "refunded"},
           Void(o, s), Goes(h, Idle), UNCHANGED <<sent, admitted, outside>>,
           claim' \in [Orders -> {"none", "held", "void"}]
    PROVE  GInv'
<1>1. /\ order' \in [Orders -> OrderRow]
      /\ sold' \in Int /\ daySold' \in [Days -> Nat]
      /\ tickets' \subseteq AllTickets /\ used' \subseteq tickets'
      /\ Status(o)' = s
      /\ \A p \in Orders \ {o} : order[p]' = order[p]
  BY VoidType DEF GInv
<1>2. TypeOK'
  BY <1>1, IdleOp, JobType DEF GInv, TypeOK, outside
<1>3. \A p \in Orders : Status(p)' = "paid" => sent'[p] > 0
  BY <1>1 DEF GInv, PaidWasSent, Status
<1> QED
  BY <1>2, <1>3, IdleOp, GateStep DEF outside

LEMMA VoidingGate ==
    ASSUME GInv, NEW h \in Handlers, CancelFailed(h) \/ ExpireManual(h) \/ Refund(h)
    PROVE  GInv'
<1>1. PICK o \in Orders : o = job[h].order
  BY JobHolds DEF CancelFailed, ExpireManual, Refund, Running, OrderOps, GInv
<1>2. CASE CancelFailed(h)
  BY <1>1, <1>2, VoidGate DEF CancelFailed, GInv, TypeOK
<1>3. CASE ExpireManual(h)
  BY <1>1, <1>3, VoidGate DEF ExpireManual, GInv, TypeOK
<1>4. CASE Refund(h)
  <2>1. claim' \in [Orders -> {"none", "held", "void"}]
    BY <1>1, <1>4 DEF Refund, Reversed, GInv, TypeOK
  <2> QED
    BY <1>1, <1>4, <2>1, VoidGate DEF Refund
<1> QED
  BY <1>2, <1>3, <1>4

\* The columns of a proof and of a deadline.
LEMMA EditGate ==
    ASSUME GInv, NEW h \in Handlers, NEW o \in Orders, NEW to \in Job, Goes(h, to),
           to.op \in {"idle", "fresh"}, NEW row \in OrderRow, row.status = Status(o),
           order' = [order EXCEPT ![o] = row],
           UNCHANGED <<sold, daySold, tickets, used, claim, sent, admitted, outside>>
    PROVE  GInv'
<1>1. order' \in [Orders -> OrderRow] /\ \A p \in Orders : Status(p)' = Status(p)
  BY EditType DEF GInv
<1>2. TypeOK'
  BY <1>1, JobType DEF GInv, TypeOK, outside
<1> QED
  BY <1>1, <1>2, GateStep DEF outside, GInv, PaidWasSent

LEMMA EditProofGate ==
    ASSUME GInv, NEW h \in Handlers, NEW proof \in BOOLEAN,
           NEW op \in {"proof", "reject"}, EditProof(h, op, proof)
    PROVE  GInv'
<1>1. PICK o \in Orders : o = job[h].order
  BY JobHolds DEF EditProof, Running, OrderOps, GInv
<1> DEFINE row == [order[o] EXCEPT !.proof = proof, !.late = @ /\ op # "reject"]
<1>2. order[o] \in OrderRow
  BY DEF GInv, TypeOK
<1>3. row \in OrderRow /\ row.status = Status(o)
  BY <1>2 DEF OrderRow, Status
<1>4. order' = [order EXCEPT ![o] = row]
  BY <1>1 DEF EditProof, GInv, TypeOK
<1> HIDE DEF row
<1> QED
  BY <1>3, <1>4, IdleOp, EditGate DEF EditProof

LEMMA MarkVerifiedGate ==
    ASSUME GInv, NEW h \in Handlers, MarkVerified(h)
    PROVE  GInv'
<1>1. PICK o \in Orders : o = job[h].order
  BY JobHolds DEF MarkVerified, Running, OrderOps, GInv
<1> DEFINE row == [order[o] EXCEPT !.verified = TRUE]
<1>2. order[o] \in OrderRow
  BY DEF GInv, TypeOK
<1>3. row \in OrderRow /\ row.status = Status(o)
  BY <1>2 DEF OrderRow, Status
<1>4. order' = [order EXCEPT ![o] = row]
  BY <1>1 DEF MarkVerified, GInv, TypeOK
<1>5. PICK to \in Job : Goes(h, to) /\ to.op = "fresh"
  BY <1>1, OrderJob DEF MarkVerified, OrderOps
<1> HIDE DEF row
<1> QED
  BY <1>3, <1>4, <1>5, EditGate DEF MarkVerified


\* checkIn() marks one of the rows the request found.
LEMMA CheckInGate ==
    ASSUME GInv, NEW h \in Handlers, CheckIn(h)
    PROVE  GInv'
<1>1. PICK t \in job[h].rows : /\ used' = used \cup ({t} \cap tickets)
                               /\ admitted' = admitted \cup {t}
                               /\ Goes(h, Admitting(job[h].rows \ {t}))
  BY DEF CheckIn
<1>2. /\ job[h].rows \in SUBSET AllTickets
      /\ \A r \in job[h].rows : sent[r.order] > 0
  BY JobHolds DEF CheckIn, Running, GInv, GateStands
<1>3. UNCHANGED <<order, sold, daySold, tickets, claim, sent, outside>>
  BY DEF CheckIn
<1>4. PICK rest \in SUBSET AllTickets : rest = job[h].rows \ {t}
  BY <1>2
<1>5. PICK to \in Job : /\ Goes(h, to) /\ to.op \in {"admit", "idle"}
                        /\ to.op = "admit" => to.rows = rest
  BY <1>1, <1>4, GateJob
<1>6. /\ job' \in [Handlers -> Job] /\ job'[h] = to
      /\ \A g \in Handlers : g # h => job'[g] = job[g]
  BY <1>5, JobType DEF GInv
<1>7. TypeOK'
  <2>1. used' \subseteq tickets' /\ admitted' \subseteq AllTickets
    BY <1>1, <1>2, <1>3 DEF GInv, TypeOK
  <2> QED
    BY <1>3, <1>6, <2>1 DEF GInv, TypeOK, outside
<1>8. AnswersOwed'
  <2>1. \A o \in Orders : Chasing(o)' \subseteq Chasing(o)
    BY <1>5, <1>6 DEF Chasing
  <2> QED
    BY <1>3, <1>7, <2>1, OwesNoMore DEF GInv, outside
<1>9. AdmittedOnlyPaid' /\ PaidWasSent'
  BY <1>1, <1>2, <1>3 DEF GInv, AdmittedOnlyPaid, PaidWasSent, Status
<1>10. GateStands'
  BY <1>2, <1>3, <1>4, <1>5, <1>6 DEF GInv, GateStands, Running
<1> QED
  BY <1>7, <1>8, <1>9, <1>10 DEF GInv

\* A notification is one more answer owed, by the request that takes it.
LEMMA NotifyGate ==
    ASSUME GInv, NEW h \in Handlers, NEW p \in Orders, Notify(h, p)
    PROVE  GInv'
<1>1. /\ notified' = [notified EXCEPT ![p] = notified[p] + 1]
      /\ notified \in [Orders -> 0..Deliveries] /\ notified[p] < Deliveries
      /\ job[h] = Idle /\ UNCHANGED <<shop, gateway, today>>
  BY DEF Notify, GInv, TypeOK
<1>2. PICK to \in Job : /\ Goes(h, to)
                        /\ \/ to.op = "idle"
                           \/ to.op \in {"settle", "fail"} /\ to.order = p
  BY IdleOp, OrderJob DEF Notify, OrderOps
<1>3. /\ job' \in [Handlers -> Job] /\ job'[h] = to
      /\ \A g \in Handlers : g # h => job'[g] = job[g]
  BY <1>2, JobType DEF GInv
<1>4. notified' \in [Orders -> 0..Deliveries]
  BY <1>1, TicketOrdersAssumption
<1>5. TypeOK'
  BY <1>1, <1>3, <1>4 DEF GInv, TypeOK, shop
<1>6. AnswersOwed'
  <2> SUFFICES ASSUME NEW o \in Orders PROVE Cardinality(Chasing(o)') <= notified'[o]
    BY DEF AnswersOwed
  <2>1. /\ IsFiniteSet(Chasing(o)) /\ Cardinality(Chasing(o)) \in Nat
        /\ Cardinality(Chasing(o)) <= notified[o] /\ notified[o] \in Nat
    BY ChasingFinite, TicketOrdersAssumption DEF GInv, AnswersOwed, TypeOK
  <2> DEFINE C == Chasing(o)  D == Chasing(o)'
  <2>2. CASE o = p
    <3>1. D \in SUBSET (C \cup {h})
      BY <1>3 DEF Chasing
    <3> HIDE DEF C, D
    <3>2. IsFiniteSet(C) /\ Cardinality(C) \in Nat /\ Cardinality(C) <= notified[o]
      BY <2>1 DEF C
    <3>3. /\ IsFiniteSet(C \cup {h}) /\ Cardinality(C \cup {h}) \in Nat
          /\ Cardinality(C \cup {h}) <= Cardinality(C) + 1
      <4>1. /\ IsFiniteSet(C \cup {h})
            /\ Cardinality(C \cup {h}) =
                  IF h \in C THEN Cardinality(C) ELSE Cardinality(C) + 1
        BY <3>2, FS_AddElement
      <4> QED
        BY <3>2, <4>1
    <3>4. Cardinality(D) <= Cardinality(C \cup {h}) /\ Cardinality(D) \in Nat
      BY <3>1, <3>3, FS_Subset, FS_CardinalityType
    <3>5. Cardinality(D) <= notified'[o]
      BY <1>1, <2>1, <2>2, <3>2, <3>3, <3>4
    <3> QED
      BY <3>5 DEF D
  <2>3. CASE o # p
    <3>1. D \in SUBSET C
      BY <1>2, <1>3, <2>3, IdleOp DEF Chasing
    <3> HIDE DEF C, D
    <3>2. IsFiniteSet(C) /\ Cardinality(C) \in Nat /\ Cardinality(C) <= notified[o]
      BY <2>1 DEF C
    <3>3. Cardinality(D) <= Cardinality(C) /\ Cardinality(D) \in Nat
      BY <3>1, <3>2, FS_Subset, FS_CardinalityType
    <3>4. Cardinality(D) <= notified'[o]
      BY <1>1, <2>1, <2>3, <3>2, <3>3
    <3> QED
      BY <3>4 DEF D
  <2> QED
    BY <2>2, <2>3
<1>7. AdmittedOnlyPaid' /\ PaidWasSent'
  BY <1>1 DEF shop, GInv, AdmittedOnlyPaid, PaidWasSent, Status
<1>8. GateStands'
  BY <1>1, <1>2, <1>3 DEF shop, GInv, GateStands, Running
<1> QED
  BY <1>5, <1>6, <1>7, <1>8 DEF GInv


\* A request that dies owes its answer no more.
LEMMA DiesGate ==
    ASSUME GInv, NEW h \in Handlers, Dies(h)
    PROVE  GInv'
<1>1. /\ job' \in [Handlers -> Job] /\ job'[h] = Idle
      /\ \A g \in Handlers : g # h => job'[g] = job[g]
  BY IdleOp, JobType DEF Dies, GInv
<1>2. UNCHANGED <<shop, gateway, today>>
  BY DEF Dies
<1>3. AdmittedOnlyPaid' /\ PaidWasSent'
  BY <1>2 DEF shop, GInv, AdmittedOnlyPaid, PaidWasSent, Status
<1>4. GateStands'
  BY <1>1, <1>2, IdleOp DEF shop, GInv, GateStands, Running
<1>5. CASE job[h].op \in {"settle", "fail"}
  <2>1. PICK p \in Orders : p = job[h].order
    BY <1>5, JobHolds DEF GInv, OrderOps
  <2>2. /\ notified' = [notified EXCEPT ![p] = notified[p] - 1]
        /\ notified \in [Orders -> 0..Deliveries]
    BY <1>5, <2>1 DEF Dies, GInv, TypeOK
  <2>3. ASSUME NEW o \in Orders
        PROVE  /\ notified[o] \in Nat /\ IsFiniteSet(Chasing(o))
               /\ Cardinality(Chasing(o)) \in Nat /\ Cardinality(Chasing(o)) <= notified[o]
               /\ Chasing(o)' = Chasing(o) \ {h}
    BY <1>1, IdleOp, ChasingFinite, TicketOrdersAssumption
       DEF GInv, AnswersOwed, TypeOK, Chasing
  <2>4. ASSUME NEW o \in Orders
        PROVE  /\ Cardinality(Chasing(o)') \in Nat
               /\ Cardinality(Chasing(o)') = IF h \in Chasing(o) THEN Cardinality(Chasing(o)) - 1
                                             ELSE Cardinality(Chasing(o))
    <3> DEFINE C == Chasing(o)
    <3>1. /\ IsFiniteSet(C) /\ Chasing(o)' = C \ {h}
      BY <2>3
    <3> HIDE DEF C
    <3>2. /\ IsFiniteSet(C \ {h})
          /\ Cardinality(C \ {h}) = IF h \in C THEN Cardinality(C) - 1 ELSE Cardinality(C)
      BY <3>1, FS_RemoveElement
    <3>3. Cardinality(C \ {h}) \in Nat
      BY <3>2, FS_CardinalityType
    <3> QED
      BY <3>1, <3>2, <3>3 DEF C
  <2>5. h \in Chasing(p)
    BY <1>5, <2>1 DEF Chasing
  <2>6. notified' \in [Orders -> 0..Deliveries]
    <3>1. Cardinality(Chasing(p)) >= 1
      BY <2>3, <2>4, <2>5
    <3>2. notified[p] - 1 \in 0..Deliveries
      BY <2>2, <2>3, <3>1, TicketOrdersAssumption
    <3> QED
      BY <2>2, <3>2
  <2>7. AnswersOwed'
    <3> SUFFICES ASSUME NEW o \in Orders PROVE Cardinality(Chasing(o)') <= notified'[o]
      BY DEF AnswersOwed
    <3>1. CASE o = p
      BY <2>2, <2>3, <2>4, <2>5, <3>1
    <3>2. CASE o # p
      BY <2>2, <2>3, <2>4, <3>2
    <3> QED
      BY <3>1, <3>2
  <2>8. TypeOK'
    BY <1>1, <1>2, <2>6 DEF GInv, TypeOK, shop
  <2> QED
    BY <1>3, <1>4, <2>7, <2>8 DEF GInv
<1>6. CASE job[h].op \notin {"settle", "fail"}
  <2>1. notified' = notified
    BY <1>6 DEF Dies
  <2>2. TypeOK'
    BY <1>1, <1>2, <2>1 DEF GInv, TypeOK, shop
  <2>3. \A o \in Orders : Chasing(o)' \subseteq Chasing(o)
    BY <1>1, IdleOp DEF Chasing
  <2> QED
    BY <1>3, <1>4, <2>1, <2>2, <2>3, OwesNoMore DEF GInv
<1> QED
  BY <1>5, <1>6

\* Midtrans, the clock and the calendar.
LEMMA OutsideGate ==
    ASSUME GInv,
           \/ \E o \in Orders : \/ GatewayEnds(o, "settle") \/ GatewayEnds(o, "fail")
                                \/ DeadlinePasses(o)
           \/ NextDay
    PROVE  GInv'
<1>1. ASSUME NEW o \in Orders, GatewayEnds(o, "settle") \/ GatewayEnds(o, "fail")
      PROVE  GInv'
  <2>1. TypeOK'
    BY <1>1 DEF GatewayEnds, GInv, TypeOK, shop
  <2> QED
    BY <1>1, <2>1, WorldStep DEF GatewayEnds, shop, Status
<1>2. ASSUME NEW o \in Orders, DeadlinePasses(o)
      PROVE  GInv'
  <2> DEFINE row == [order[o] EXCEPT !.late = TRUE]
  <2>1. order[o] \in OrderRow
    BY DEF GInv, TypeOK
  <2>2. row \in OrderRow /\ row.status = Status(o)
    BY <2>1 DEF OrderRow, Status
  <2>3. order' = [order EXCEPT ![o] = row]
    BY <1>2 DEF DeadlinePasses, GInv, TypeOK
  <2> HIDE DEF row
  <2>4. order' \in [Orders -> OrderRow] /\ \A p \in Orders : Status(p)' = Status(p)
    BY <2>2, <2>3, EditType DEF GInv
  <2>5. TypeOK'
    BY <1>2, <2>4 DEF DeadlinePasses, GInv, TypeOK, outside
  <2> QED
    BY <1>2, <2>4, <2>5, WorldStep DEF DeadlinePasses, outside
<1>3. CASE NextDay
  <2>1. TypeOK'
    BY <1>3, TicketOrdersAssumption DEF NextDay, GInv, TypeOK, shop
  <2> QED
    BY <1>3, <2>1, WorldStep DEF NextDay, shop, Status
<1> QED
  BY <1>1, <1>2, <1>3

LEMMA InitGInv == Init => GInv
<1> SUFFICES ASSUME Init PROVE GInv
  OBVIOUS
<1>1. TypeOK
  BY InitType
<1>2. AnswersOwed
  <2> SUFFICES ASSUME NEW o \in Orders PROVE Cardinality(Chasing(o)) <= notified[o]
    BY DEF AnswersOwed
  <2>1. Chasing(o) = {}
    BY IdleOp DEF Init, Chasing
  <2> QED
    BY <2>1, FS_EmptySet DEF Init
<1>3. AdmittedOnlyPaid /\ PaidWasSent /\ GateStands
  BY IdleOp DEF Init, NotPlaced, Status, AdmittedOnlyPaid, PaidWasSent,
                GateStands, Running
<1> QED
  BY <1>1, <1>2, <1>3 DEF GInv

LEMMA NextGInv == GInv /\ [Next]_vars => GInv'
<1> SUFFICES ASSUME GInv, [Next]_vars PROVE GInv'
  OBVIOUS
<1>1. ASSUME NEW h \in Handlers, NEW o \in Orders,
             \/ CheckSeats(h, o) \/ Notify(h, o) \/ LoadRefund(h, o) \/ AdmitAtTill(h, o)
             \/ \E op \in {"proof", "approve", "reject", "expire"} : LoadManual(h, op, o)
      PROVE  GInv'
  BY <1>1, CheckSeatsGate, NotifyGate, LoadGate
<1>2. ASSUME NEW h \in Handlers, NEW t \in AllTickets, Scan(h, t)
      PROVE  GInv'
  BY <1>2, ScanGate
<1>3. ASSUME NEW h \in Handlers, Finish(h)
      PROVE  GInv'
  BY <1>3, PurchaseGate, OpenPaymentGate, PayGate, VoidingGate, EditProofGate,
     MarkVerifiedGate, ReloadGate, FindPartyGate, CheckInGate DEF Finish
<1>4. ASSUME NEW h \in Handlers, Dies(h)
      PROVE  GInv'
  BY <1>4, DiesGate
<1>5. CASE \/ \E o \in Orders : \/ GatewayEnds(o, "settle") \/ GatewayEnds(o, "fail")
                                \/ DeadlinePasses(o)
           \/ NextDay
  BY <1>5, OutsideGate
<1>6. CASE UNCHANGED vars
  <2>1. TypeOK'
    BY <1>6 DEF vars, GInv, TypeOK
  <2> QED
    BY <1>6, <2>1, WorldStep DEF vars, Status
<1> QED
  BY <1>1, <1>2, <1>3, <1>4, <1>5, <1>6 DEF Next

LEMMA GateInvariant == Spec => []GInv
  BY InitGInv, NextGInv, PTL DEF Spec

\* The shop's rows, requests and counters keep their types, and an answer a dead request
\* owed is never counted below zero, however requests overlap (TicketService, both doors).
THEOREM TypeCorrect == Spec => []TypeOK
<1>1. GInv => TypeOK
  BY DEF GInv
<1> QED
  BY <1>1, GateInvariant, PTL

\* Nobody comes in on a ticket that was never paid, however scans, refunds and payments
\* overlap (TicketService: checkIn, checkInOrder; the scanner's guards).
THEOREM AdmittedOnlyPaidHolds == Spec => []AdmittedOnlyPaid
<1>1. GInv => AdmittedOnlyPaid
  BY DEF GInv
<1> QED
  BY <1>1, GateInvariant, PTL


-----------------------------------------------------------------------------
(***************************************************************************)
(* Counting units and seats.                                               *)
(***************************************************************************)
\* The units of one more order.
LEMMA UnitsAdd ==
    ASSUME NEW K \in SUBSET Orders, NEW o \in Orders, o \notin K
    PROVE  /\ Sum([p \in K \cup {o} |-> Quantity(p)]) =
                 Sum([p \in K |-> Quantity(p)]) + Quantity(o)
           /\ Sum([p \in K |-> Quantity(p)]) \in Nat
<1> DEFINE f == [p \in Orders |-> Quantity(p)]
<1>1. IsFiniteSet(K)
  BY TicketOrdersAssumption, FS_Subset
<1>2. (\A p \in K \cup {o} : f[p] \in Nat) /\ f[o] = Quantity(o)
  BY QuantityType
<1>3. /\ [p \in K \cup {o} |-> Quantity(p)] = [p \in K \cup {o} |-> f[p]]
      /\ [p \in K |-> Quantity(p)] = [p \in K |-> f[p]]
  OBVIOUS
<1> HIDE DEF f
<1>4. /\ Sum([p \in K \cup {o} |-> f[p]]) = Sum([p \in K |-> f[p]]) + f[o]
      /\ Sum([p \in K |-> f[p]]) \in Nat
  BY <1>1, <1>2, SumAdd
<1> QED
  BY <1>2, <1>3, <1>4

\* Tickets are finitely many, and those of an order are not none.
LEMMA TicketsFinite ==
    ASSUME NEW o \in Orders
    PROVE  IsFiniteSet(TicketsOf(o)) /\ TicketsOf(o) # {} /\ IsFiniteSet(AllTickets)
<1>1. ASSUME NEW p \in Orders
      PROVE  IsFiniteSet(TicketsOf(p)) /\ TicketsOf(p) # {}
  <2> DEFINE D == IF Dates(p) = {} THEN {NoDay} ELSE Dates(p)
             I == 1..Seats[p]
             f == [x \in D \X I |-> [order |-> p, day |-> x[1], seat |-> x[2]]]
  <2>1. IsFiniteSet(D) /\ D # {}
    BY DatesFinite, FS_Singleton
  <2>2. IsFiniteSet(I) /\ 1 \in I
    <3> DEFINE n == Seats[p]
    <3>1. n \in Int /\ 1 \in Int /\ n >= 1
      BY QuantityType
    <3> HIDE DEF n
    <3>2. IsFiniteSet(1..n) /\ 1 \in 1..n
      BY <3>1, FS_Interval
    <3> QED
      BY <3>2 DEF n
  <2>3. TicketsOf(p) = {[order |-> p, day |-> d, seat |-> i] : d \in D, i \in I}
    BY DEF TicketsOf
  <2> HIDE DEF D, I
  <2>4. IsFiniteSet(D \X I)
    BY <2>1, <2>2, FS_Product
  <2>5. f \in Surjection(D \X I, TicketsOf(p))
    <3>1. \A x \in D \X I : x[1] \in D /\ x[2] \in I
      OBVIOUS
    <3>2. \A x \in D \X I : f[x] \in TicketsOf(p)
      BY <2>3, <3>1
    <3>3. ASSUME NEW t \in TicketsOf(p) PROVE \E x \in D \X I : f[x] = t
      <4>1. PICK d \in D, i \in I : t = [order |-> p, day |-> d, seat |-> i]
        BY <2>3
      <4>2. <<d, i>> \in D \X I /\ f[<<d, i>>] = t
        BY <4>1
      <4> QED
        BY <4>2
    <3>4. f \in [D \X I -> TicketsOf(p)]
      BY <3>2
    <3> HIDE DEF f
    <3> QED
      BY <3>3, <3>4 DEF Surjection
  <2>6. TicketsOf(p) # {}
    <3>1. PICK d \in D : TRUE
      BY <2>1
    <3>2. [order |-> p, day |-> d, seat |-> 1] \in TicketsOf(p)
      BY <2>2, <2>3
    <3> QED
      BY <3>2
  <2> HIDE DEF f
  <2> QED
    BY <2>4, <2>5, <2>6, FS_Surjection
<1>2. IsFiniteSet(AllTickets)
  <2> DEFINE S == {TicketsOf(p) : p \in Orders}
             f == [p \in Orders |-> TicketsOf(p)]
  <2>1. f \in Surjection(Orders, S)
    BY DEF Surjection
  <2>2. \A T \in S : IsFiniteSet(T)
    BY <1>1
  <2>3. AllTickets = UNION S
    BY DEF AllTickets
  <2> HIDE DEF S, f
  <2>4. IsFiniteSet(S)
    BY <2>1, TicketOrdersAssumption, FS_Surjection
  <2> QED
    BY <2>2, <2>3, <2>4, FS_UNION
<1> QED
  BY <1>1, <1>2

\* A seat on each of its dates.
LEMMA SeatsOfDay ==
    ASSUME NEW o \in Orders, NEW d \in Days
    PROVE  Cardinality({t \in TicketsOf(o) : t.day = d}) = IF d \in Dates(o) THEN Seats[o] ELSE 0
<1> DEFINE T == {t \in TicketsOf(o) : t.day = d}
           I == 1..Seats[o]
<1>1. Seats[o] \in Nat \ {0} /\ NoDay \notin Days
  BY QuantityType, TicketOrdersAssumption
<1>2. CASE d \in Dates(o)
  <2> DEFINE f == [i \in I |-> [order |-> o, day |-> d, seat |-> i]]
  <2>1. T = {[order |-> o, day |-> d, seat |-> i] : i \in I}
    BY <1>2 DEF TicketsOf
  <2>2. f \in Bijection(I, T)
    <3>1. \A i \in I : f[i] \in T /\ f[i].seat = i
      BY <2>1
    <3>2. \A t \in T : \E i \in I : f[i] = t
      BY <2>1
    <3>3. f \in [I -> T]
      BY <3>1
    <3> HIDE DEF f, T, I
    <3> QED
      BY <3>1, <3>2, <3>3 DEF Bijection, Injection, IsInjective, Surjection
  <2>3. IsFiniteSet(I) /\ Cardinality(I) = Seats[o]
    <3> DEFINE n == Seats[o]
    <3>1. n \in Int /\ 1 \in Int /\ n >= 1
      BY <1>1
    <3> HIDE DEF n
    <3>2. IsFiniteSet(1..n) /\ Cardinality(1..n) = n
      BY <3>1, FS_Interval
    <3> QED
      BY <3>2 DEF n
  <2> HIDE DEF f, T, I
  <2>4. Cardinality(T) = Cardinality(I)
    BY <2>2, <2>3, FS_Bijection DEF ExistsBijection
  <2> QED
    BY <1>2, <2>3, <2>4 DEF T
<1>3. CASE d \notin Dates(o)
  <2>1. T = {}
    BY <1>1, <1>3 DEF TicketsOf
  <2> QED
    BY <1>3, <2>1, FS_EmptySet
<1> QED
  BY <1>2, <1>3

\* The seats of a day, with the tickets of one more order.
LEMMA DayAdd ==
    ASSUME NEW S \in SUBSET AllTickets, NEW o \in Orders, S \cap TicketsOf(o) = {},
           NEW d \in Days
    PROVE  /\ Cardinality({t \in S \cup TicketsOf(o) : t.day = d}) =
                 Cardinality({t \in S : t.day = d}) + IF d \in Dates(o) THEN Seats[o] ELSE 0
           /\ Cardinality({t \in S : t.day = d}) \in Nat
<1> DEFINE A == {t \in S : t.day = d}
           B == {t \in TicketsOf(o) : t.day = d}
<1>1. A \in SUBSET AllTickets /\ B \in SUBSET TicketsOf(o) /\ A \cap B = {}
  OBVIOUS
<1>2. {t \in S \cup TicketsOf(o) : t.day = d} = A \cup B
  OBVIOUS
<1>3. Cardinality(B) = IF d \in Dates(o) THEN Seats[o] ELSE 0
  BY SeatsOfDay
<1> HIDE DEF A, B
<1>4. IsFiniteSet(A) /\ IsFiniteSet(B)
  BY <1>1, TicketsFinite, FS_Subset
<1>5. Cardinality(A \cup B) = Cardinality(A) + Cardinality(B) - Cardinality(A \cap B)
  BY <1>4, FS_Union
<1>6. Cardinality(A \cap B) = 0 /\ Cardinality(A) \in Nat /\ Cardinality(B) \in Nat
  BY <1>1, <1>4, FS_EmptySet, FS_CardinalityType
<1>7. Cardinality(A \cup B) = Cardinality(A) + Cardinality(B)
  BY <1>5, <1>6
<1> QED
  BY <1>2, <1>3, <1>6, <1>7 DEF A


-----------------------------------------------------------------------------
(***************************************************************************)
(* The books: what a step does to tickets, counters and claims.            *)
(***************************************************************************)
LEMMA BooksKept ==
    ASSUME SInv, UNCHANGED <<sold, daySold, tickets, used, claim, admitted>>,
           \A o \in Orders : Status(o)' = Status(o)
    PROVE  Books'
<1>1. Live' = Live
  BY DEF Live
<1>2. TicketsAreLive' /\ LiveIsSold' /\ QuotaBinds'
  BY <1>1 DEF SInv, Books, TicketsAreLive, LiveIsSold, QuotaBinds
<1>3. ClaimFollows' /\ EntriesArePaid'
  BY TicketsByOrder DEF SInv, GInv, TypeOK, Books, ClaimFollows, EntriesArePaid
<1> QED
  BY <1>2, <1>3 DEF Books

\* The tickets are those of the live orders, so an order that is not live has none.
LEMMA LiveTickets ==
    ASSUME TicketsAreLive, NEW o \in Orders
    PROVE  /\ TicketsOf(o) \cap UNION {TicketsOf(p) : p \in Live \ {o}} = {}
           /\ o \in Live => TicketsOf(o) \subseteq tickets
           /\ o \notin Live => TicketsOf(o) \cap tickets = {}
<1>1. \A p \in Orders : \A t \in TicketsOf(p) : t.order = p
  BY TicketsByOrder
<1>2. Live \subseteq Orders
  BY DEF Live
<1> QED
  BY <1>1, <1>2 DEF TicketsAreLive

\* A purchase under its quota.
LEMMA PurchaseBooks ==
    ASSUME SInv, NEW h \in Handlers, NEW o \in Orders, o = job[h].order, Purchase(h)
    PROVE  Books'
<1>1. Status(o) = "none" /\ SeatsAvailable(o)
  BY DEF Purchase, Running, SInv, JobsStand, Believes
<1>2. /\ Status(o)' = "pending" /\ \A p \in Orders \ {o} : order[p]' = order[p]
      /\ UNCHANGED <<used, claim, admitted>>
      /\ sold' = sold + Quantity(o) /\ tickets' = tickets \cup TicketsOf(o)
  BY PurchaseType DEF Purchase, SInv, GInv
<1>3. o \notin Live /\ Live' = Live \cup {o} /\ Live \in SUBSET Orders
  BY <1>1, <1>2 DEF Live, Status
<1>4. TicketsAreLive'
  BY <1>2, <1>3 DEF SInv, Books, TicketsAreLive
<1>5. ASSUME NEW d \in Days
      PROVE  /\ daySold'[d] = Cardinality({t \in tickets' : t.day = d})
             /\ daySold'[d] = daySold[d] + IF d \in Dates(o) THEN Seats[o] ELSE 0
             /\ daySold[d] \in Nat
  <2>1. tickets \cap TicketsOf(o) = {} /\ tickets \in SUBSET AllTickets
    BY <1>3, LiveTickets DEF SInv, Books, GInv, TypeOK
  <2>2. Cardinality({t \in tickets \cup TicketsOf(o) : t.day = d}) =
           Cardinality({t \in tickets : t.day = d}) + IF d \in Dates(o) THEN Seats[o] ELSE 0
    <3> DEFINE S == tickets
    <3>1. S \in SUBSET AllTickets /\ S \cap TicketsOf(o) = {}
      BY <2>1
    <3> HIDE DEF S
    <3>2. /\ Cardinality({t \in S \cup TicketsOf(o) : t.day = d}) =
                Cardinality({t \in S : t.day = d}) + IF d \in Dates(o) THEN Seats[o] ELSE 0
          /\ Cardinality({t \in S : t.day = d}) \in Nat
      BY <3>1, DayAdd
    <3> QED
      BY <3>2 DEF S
  <2>3. daySold[d] \in Nat /\ daySold[d] = Cardinality({t \in tickets : t.day = d})
    BY DEF SInv, Books, GInv, TypeOK, LiveIsSold
  <2>4. daySold'[d] = daySold[d] + IF d \in Dates(o) THEN Seats[o] ELSE 0
    BY <2>3, QuantityType DEF Purchase, ShiftDays, Greatest
  <2> QED
    BY <1>2, <2>2, <2>3, <2>4
<1>6. LiveIsSold'
  <2>1. sold = Sum([p \in Live |-> Quantity(p)])
    BY DEF SInv, Books, LiveIsSold
  <2>2. sold' = Sum([p \in Live' |-> Quantity(p)])
    BY <1>2, <1>3, <2>1, UnitsAdd
  <2> QED
    BY <1>5, <2>2 DEF LiveIsSold
<1>7. QuotaBinds'
  <2>1. CASE DayMode = "none"
    <3>1. Dates(o) = {} /\ Quantity(o) = Seats[o]
      BY <2>1 DEF Dates, Quantity
    <3>2. sold + Seats[o] <= Quota
      BY <1>1, <3>1, QuantityType, TicketOrdersAssumption DEF SeatsAvailable, SInv, GInv, TypeOK
    <3> QED
      BY <1>2, <2>1, <3>1, <3>2 DEF QuotaBinds
  <2>2. CASE DayMode # "none"
    <3>1. Dates(o) # {}
      BY <2>2, TicketOrdersAssumption DEF Dates
    <3>2. ASSUME NEW d \in Days PROVE daySold'[d] <= Quota
      <4>1. daySold[d] <= Quota
        BY <2>2 DEF SInv, Books, QuotaBinds
      <4>2. daySold[d] \in Nat /\ Seats[o] \in Nat /\ Quota \in Nat
        BY <1>5, QuantityType, TicketOrdersAssumption
      <4>3. CASE d \in Dates(o)
        <5>1. Quota - daySold[d] >= Seats[o]
          BY <1>1, <3>1, <4>3 DEF SeatsAvailable
        <5>2. daySold'[d] = daySold[d] + Seats[o]
          BY <1>5, <4>3
        <5> QED
          BY <4>2, <5>1, <5>2
      <4>4. CASE d \notin Dates(o)
        <5>1. daySold'[d] = daySold[d] + 0
          BY <1>5, <4>4
        <5> QED
          BY <4>1, <4>2, <5>1
      <4> QED
        BY <4>3, <4>4
    <3> QED
      BY <2>2, <3>2 DEF QuotaBinds
  <2> QED
    BY <2>1, <2>2
<1>8. ClaimFollows'
  BY <1>1, <1>2 DEF SInv, Books, ClaimFollows, Status
<1>9. EntriesArePaid'
  BY <1>1, <1>2, TicketsByOrder DEF SInv, GInv, TypeOK, Books, EntriesArePaid, Status
<1> QED
  BY <1>4, <1>6, <1>7, <1>8, <1>9 DEF Books

\* A voided order leaves the tickets, the units and the seats of the others.
LEMMA VoidBooks ==
    ASSUME SInv, NEW o \in Orders, NEW s \in {"cancelled", "expired", "refunded"},
           Void(o, s), o \in Live
    PROVE  TicketsAreLive' /\ LiveIsSold' /\ QuotaBinds'
<1>1. /\ Status(o)' = s /\ \A p \in Orders \ {o} : order[p]' = order[p]
      /\ sold' = sold - Quantity(o) /\ tickets' = tickets \ TicketsOf(o)
  BY VoidType DEF Void, SInv, GInv
<1>2. Live' = Live \ {o} /\ Live = Live' \cup {o} /\ Live' \in SUBSET Orders
  BY <1>1 DEF Live, Status
<1>3. tickets' = UNION {TicketsOf(p) : p \in Live \ {o}}
  <2>1. tickets = (UNION {TicketsOf(p) : p \in Live \ {o}}) \cup TicketsOf(o)
    BY DEF SInv, Books, TicketsAreLive
  <2>2. TicketsOf(o) \cap UNION {TicketsOf(p) : p \in Live \ {o}} = {}
    BY LiveTickets DEF SInv, Books
  <2> QED
    BY <1>1, <2>1, <2>2
<1>4. TicketsAreLive'
  BY <1>2, <1>3 DEF TicketsAreLive
<1>5. ASSUME NEW d \in Days
      PROVE  /\ daySold'[d] = Cardinality({t \in tickets' : t.day = d})
             /\ daySold'[d] <= daySold[d] /\ daySold[d] \in Nat /\ daySold'[d] \in Nat
  <2>1. /\ tickets' \in SUBSET AllTickets /\ tickets' \cap TicketsOf(o) = {}
        /\ tickets = tickets' \cup TicketsOf(o)
    BY <1>1, LiveTickets DEF SInv, Books, GInv, TypeOK
  <2> DEFINE S == tickets'
  <2>2. /\ Cardinality({t \in S \cup TicketsOf(o) : t.day = d}) =
              Cardinality({t \in S : t.day = d}) + IF d \in Dates(o) THEN Seats[o] ELSE 0
        /\ Cardinality({t \in S : t.day = d}) \in Nat
    <3>1. S \in SUBSET AllTickets /\ S \cap TicketsOf(o) = {}
      BY <2>1
    <3> HIDE DEF S
    <3> QED
      BY <3>1, DayAdd
  <2>3. daySold[d] \in Nat /\ daySold[d] = Cardinality({t \in tickets : t.day = d})
    BY DEF SInv, Books, GInv, TypeOK, LiveIsSold
  <2>4. daySold[d] = Cardinality({t \in tickets' : t.day = d})
                        + IF d \in Dates(o) THEN Seats[o] ELSE 0
    BY <2>1, <2>2, <2>3
  <2>5. daySold'[d] = IF d \in Dates(o) THEN Greatest(0, daySold[d] + (-Seats[o]))
                                        ELSE daySold[d]
    BY DEF Void, ShiftDays, ReleasedDates
  <2> DEFINE n == Cardinality({t \in tickets' : t.day = d})
  <2>6. n \in Nat /\ daySold[d] = n + IF d \in Dates(o) THEN Seats[o] ELSE 0
    BY <2>2, <2>4
  <2> HIDE DEF n
  <2>7. daySold'[d] = n
    BY <2>3, <2>5, <2>6, QuantityType DEF Greatest
  <2> QED
    BY <2>3, <2>6, <2>7, QuantityType DEF n
<1>6. sold' = Sum([p \in Live' |-> Quantity(p)]) /\ sold' <= sold /\ sold \in Int
  <2> DEFINE K == Live \ {o}
  <2>1. K \in SUBSET Orders /\ o \notin K
    BY <1>2
  <2>2. /\ Sum([p \in K \cup {o} |-> Quantity(p)]) =
               Sum([p \in K |-> Quantity(p)]) + Quantity(o)
        /\ Sum([p \in K |-> Quantity(p)]) \in Nat
    <3> HIDE DEF K
    <3> QED
      BY <2>1, UnitsAdd
  <2>3. sold = Sum([p \in K \cup {o} |-> Quantity(p)]) /\ Live' = K
    <3>1. K \cup {o} = Live /\ Live' = K
      BY <1>2
    <3> QED
      BY <3>1 DEF SInv, Books, LiveIsSold
  <2> HIDE DEF K
  <2> QED
    BY <1>1, <2>2, <2>3, QuantityType
<1>7. LiveIsSold'
  BY <1>5, <1>6 DEF LiveIsSold
<1>8. QuotaBinds'
  <2>1. CASE DayMode = "none"
    BY <1>6, <2>1, TicketOrdersAssumption DEF SInv, Books, GInv, TypeOK, QuotaBinds, Void
  <2>2. CASE DayMode # "none"
    <3>1. ASSUME NEW d \in Days PROVE daySold'[d] <= Quota
      <4>1. daySold[d] <= Quota
        BY <2>2 DEF SInv, Books, QuotaBinds
      <4> QED
        <5>1. Quota \in Nat /\ daySold[d] \in Nat /\ daySold'[d] \in Nat
          BY <1>5, TicketOrdersAssumption
        <5>2. daySold'[d] <= daySold[d]
          BY <1>5
        <5> QED
          BY <4>1, <5>1, <5>2
    <3> QED
      BY <2>2, <3>1 DEF QuotaBinds
  <2> QED
    BY <2>1, <2>2
<1> QED
  BY <1>4, <1>7, <1>8


-----------------------------------------------------------------------------
(***************************************************************************)
(* The invariant of requests that follow one another.                      *)
(***************************************************************************)
\* The request that runs is the only one.
LEMMA JobsNow ==
    ASSUME OneAtATime, TypeOK, NEW h \in Handlers, NEW to \in Job, Goes(h, to), Believes(to)'
    PROVE  JobsStand'
<1> SUFFICES ASSUME NEW g \in Handlers PROVE Believes(job[g])'
  BY DEF JobsStand
<1>1. job'[g] = to
  BY JobType DEF OneAtATime
<1> QED
  BY <1>1 DEF Believes, Status, Pending, SeatsAvailable

LEMMA NoBelief == Believes(Idle)'
  BY IdleOp DEF Believes


LEMMA BeliefKept ==
    ASSUME NEW j, UNCHANGED <<shop, gateway>>
    PROVE  Believes(j)' <=> Believes(j)
  BY DEF Believes, Status, Pending, SeatsAvailable, shop

\* A request moves on while the rows stay.
LEMMA BeginSerial ==
    ASSUME OneAtATime, SInv, GInv', NEW h \in Handlers, NEW to \in Job, Goes(h, to),
           Believes(to), UNCHANGED <<shop, gateway, notified>>
    PROVE  SInv'
<1>1. Books'
  BY BooksKept DEF shop, Status
<1>2. OrdersStand'
  BY DEF SInv, OrdersStand, ManualStands, GatewayStands, Status, shop
<1>3. JobsStand'
  BY BeliefKept, JobsNow DEF SInv, GInv
<1> QED
  BY <1>1, <1>2, <1>3 DEF SInv

LEMMA CheckSeatsSerial ==
    ASSUME OneAtATime, SInv, GInv', NEW h \in Handlers, NEW o \in Orders, CheckSeats(h, o)
    PROVE  SInv'
<1>1. PICK to \in Job : Goes(h, to) /\ to.op = "buy" /\ to.order = o
  BY OrderJob DEF CheckSeats, Begins, OrderOps
<1>2. Believes(to)
  BY <1>1 DEF Believes, CheckSeats
<1> QED
  BY <1>1, <1>2, BeginSerial DEF CheckSeats, outside

\* A transfer whose proof is still to be judged is pending.
LEMMA AwaitingPends ==
    ASSUME SInv, NEW o \in Orders, Awaiting(o)
    PROVE  Pending(o)
<1>1. Status(o) \in {"none", "pending", "paid", "cancelled", "expired", "refunded"}
  BY DEF SInv, GInv, TypeOK, OrderRow, Status
<1> QED
  BY <1>1 DEF SInv, OrdersStand, ManualStands, Awaiting, Pending

LEMMA LoadManualSerial ==
    ASSUME OneAtATime, SInv, GInv', NEW h \in Handlers, NEW o \in Orders,
           NEW op \in {"proof", "approve", "reject", "expire"}, LoadManual(h, op, o)
    PROVE  SInv'
<1>1. PICK to \in Job : Goes(h, to) /\ to.op = op /\ to.order = o
  BY OrderJob DEF LoadManual, Begins, OrderOps
<1>2. Believes(to)
  <2>1. CASE op = "proof"
    BY <1>1, <2>1 DEF Believes, LoadManual
  <2>2. CASE op = "expire"
    BY <1>1, <2>2 DEF Believes, LoadManual, Expirable
  <2>3. CASE op \in {"approve", "reject"}
    <3>1. Pending(o)
      BY <2>3, AwaitingPends DEF LoadManual
    <3> QED
      BY <1>1, <2>3, <3>1 DEF Believes
  <2> QED
    BY <2>1, <2>2, <2>3
<1> QED
  BY <1>1, <1>2, BeginSerial DEF LoadManual, outside

LEMMA LoadPaidSerial ==
    ASSUME OneAtATime, SInv, GInv', NEW h \in Handlers, NEW o \in Orders,
           LoadRefund(h, o) \/ AdmitAtTill(h, o)
    PROVE  SInv'
<1>1. PICK to \in Job : /\ Goes(h, to) /\ to.order = o
                        /\ \/ to.op = "refund" /\ TicketsOf(o) \cap used = {}
                           \/ to.op = "party"
  BY OrderJob DEF LoadRefund, AdmitAtTill, Begins, OrderOps, Refundable
<1>2. Believes(to)
  BY <1>1 DEF Believes, LoadRefund, AdmitAtTill, Refundable
<1> QED
  BY <1>1, <1>2, BeginSerial DEF LoadRefund, AdmitAtTill, outside

LEMMA ScanSerial ==
    ASSUME OneAtATime, SInv, GInv', NEW h \in Handlers, NEW t \in AllTickets, Scan(h, t)
    PROVE  SInv'
<1>1. t.order \in Orders /\ {t} \in SUBSET AllTickets /\ "party" \in OrderOps
  BY TicketsByOrder DEF OrderOps
<1>2. PICK to \in Job :
         /\ Goes(h, to)
         /\ \/ to.op \in {"admit", "idle"} /\ (to.op = "admit" => to.rows = {t})
            \/ to.op = "party" /\ to.order = t.order
  BY <1>1, OrderJob, GateJob DEF Scan, Begins
<1>3. Believes(to)
  BY <1>2 DEF Believes, Scan, Admits
<1> QED
  BY <1>2, <1>3, BeginSerial DEF Scan, outside

LEMMA FindPartySerial ==
    ASSUME OneAtATime, SInv, GInv', NEW h \in Handlers, FindParty(h)
    PROVE  SInv'
<1> DEFINE rows == {t \in tickets \ used : t.order = job[h].order /\ ValidToday(t)}
<1>1. \A t \in rows : t \in tickets \ used /\ Status(t.order) = "paid"
  BY DEF FindParty, Running, SInv, JobsStand, Believes
<1>2. rows \in SUBSET AllTickets
  BY DEF SInv, GInv, TypeOK
<1>3. Goes(h, Admitting(rows))
  BY DEF FindParty
<1> HIDE DEF rows
<1>4. PICK to \in Job : /\ Goes(h, to) /\ to.op \in {"admit", "idle"}
                        /\ to.op = "admit" => to.rows = rows
  BY <1>2, <1>3, GateJob
<1>5. Believes(to)
  BY <1>1, <1>4 DEF Believes
<1> QED
  BY <1>4, <1>5, BeginSerial DEF FindParty, outside

LEMMA ReloadSerial ==
    ASSUME OneAtATime, SInv, GInv', NEW h \in Handlers, Reload(h)
    PROVE  SInv'
<1>1. PICK o \in Orders : o = job[h].order
  BY JobHolds DEF Reload, Running, OrderOps, SInv, GInv
<1>2. Rail[o] = "manual" /\ order[o].verified /\ Status(o) = "pending"
  BY <1>1 DEF Reload, Running, SInv, JobsStand, Believes
<1>3. PICK to \in Job : Goes(h, to) /\ to.op = "pay" /\ to.order = o
  BY <1>1, <1>2, OrderJob DEF Reload, Ignored, OrderOps
<1>4. Believes(to)
  BY <1>2, <1>3 DEF Believes, ThroughGateway
<1> QED
  BY <1>3, <1>4, BeginSerial DEF Reload, outside


LEMMA PurchaseSerial ==
    ASSUME OneAtATime, SInv, GInv', NEW h \in Handlers, Purchase(h)
    PROVE  SInv'
<1>1. PICK o \in Orders : o = job[h].order
  BY JobHolds DEF Purchase, Running, OrderOps, SInv, GInv
<1>2. Status(o) = "none"
  BY <1>1 DEF Purchase, Running, SInv, JobsStand, Believes
<1>3. gateway[o] = "unaware"
  BY <1>2 DEF SInv, OrdersStand, GatewayStands
<1>4. Status(o)' = "pending" /\ \A p \in Orders \ {o} : order[p]' = order[p]
  BY <1>1, PurchaseType DEF SInv, GInv
<1>5. UNCHANGED <<gateway, notified>>
  BY DEF Purchase, outside
<1>6. OrdersStand'
  BY <1>2, <1>4, <1>5 DEF SInv, OrdersStand, ManualStands, GatewayStands, Status
<1>7. PICK to \in Job : /\ Goes(h, to)
                        /\ \/ to = Idle
                           \/ to.op = "open" /\ to.order = o /\ Rail[o] # "manual"
  BY <1>1, IdleOp, OrderJob DEF Purchase, OrderOps
<1>8. Believes(to)'
  BY <1>3, <1>4, <1>5, <1>7, IdleOp DEF Believes
<1>9. JobsStand'
  BY <1>7, <1>8, JobsNow DEF SInv, GInv
<1> QED
  BY <1>1, <1>6, <1>9, PurchaseBooks DEF SInv

LEMMA OpenPaymentSerial ==
    ASSUME OneAtATime, SInv, GInv', NEW h \in Handlers, OpenPayment(h)
    PROVE  SInv'
<1>1. PICK o \in Orders : o = job[h].order
  BY JobHolds DEF OpenPayment, Running, OrderOps, SInv, GInv
<1>2. Rail[o] # "manual" /\ gateway[o] = "unaware" /\ Status(o) = "pending"
  BY <1>1 DEF OpenPayment, Running, SInv, JobsStand, Believes
<1>3. UNCHANGED <<shop, notified>>
  BY DEF OpenPayment
<1>4. Books'
  BY <1>3, BooksKept DEF shop, Status
<1>5. CASE Rail[o] = "onsite" \/ o \in Free
  <2>1. PICK to \in Job : Goes(h, to) /\ to.op = "pay" /\ to.order = o
    BY <1>1, <1>5, OrderJob DEF OpenPayment, OrderOps
  <2>2. gateway' = gateway
    BY <1>1, <1>5 DEF OpenPayment
  <2>3. Believes(to)
    BY <1>2, <1>5, <2>1 DEF Believes, ThroughGateway
  <2> QED
    BY <1>3, <2>1, <2>2, <2>3, BeginSerial
<1>6. CASE ~(Rail[o] = "onsite" \/ o \in Free)
  <2>1. ThroughGateway(o)
    BY <1>2, <1>6, TicketOrdersAssumption DEF ThroughGateway
  <2>2. Goes(h, Idle) /\ (gateway' = [gateway EXCEPT ![o] = "open"] \/ gateway' = gateway)
    BY <1>1, <1>6 DEF OpenPayment
  <2>3. gateway'[o] \in {"unaware", "open"} /\ \A p \in Orders \ {o} : gateway'[p] = gateway[p]
    BY <1>2, <2>2 DEF SInv, GInv, TypeOK
  <2>4. OrdersStand'
    BY <1>2, <1>3, <2>1, <2>3
       DEF SInv, OrdersStand, ManualStands, GatewayStands, Status, shop
  <2>5. JobsStand'
    BY <2>2, IdleOp, NoBelief, JobsNow DEF SInv, GInv
  <2> QED
    BY <1>4, <2>4, <2>5 DEF SInv
<1> QED
  BY <1>5, <1>6

\* Midtrans has told us of an outcome that a request is acting on.
LEMMA HeardOf ==
    ASSUME GInv, NEW h \in Handlers, NEW o \in Orders, o = job[h].order,
           job[h].op \in {"settle", "fail"}
    PROVE  notified[o] # 0
<1>1. h \in Chasing(o)
  BY DEF Chasing
<1>2. Cardinality(Chasing(o)) # 0
  <2> DEFINE C == Chasing(o)
  <2>1. IsFiniteSet(C) /\ C # {}
    BY <1>1, ChasingFinite
  <2> HIDE DEF C
  <2>2. Cardinality(C) # 0
    BY <2>1, FS_EmptySet
  <2> QED
    BY <2>2 DEF C
<1>3. Cardinality(Chasing(o)) \in Nat /\ Cardinality(Chasing(o)) <= notified[o]
  BY ChasingFinite DEF GInv, AnswersOwed
<1> QED
  BY <1>2, <1>3

\* A payment is of a pending order, and its outcome has been notified.
LEMMA PaySerial ==
    ASSUME OneAtATime, SInv, GInv', NEW h \in Handlers, Pay(h)
    PROVE  SInv'
<1>1. PICK o \in Orders : o = job[h].order
  BY JobHolds DEF Pay, Running, OrderOps, SInv, GInv
<1>2. Status(o) = "pending"
  BY <1>1 DEF Pay, Running, SInv, JobsStand, Believes
<1>3. /\ Status(o)' = "paid" /\ order[o]'.verified = order[o].verified
      /\ order[o]'.proof = order[o].proof
      /\ \A p \in Orders \ {o} : order[p]' = order[p]
  <2>1. SetStatus(o, "paid")
    BY <1>1 DEF Pay
  <2> QED
    BY <2>1, StatusType DEF SInv, GInv
<1>4. /\ UNCHANGED <<sold, daySold, tickets, used, admitted, gateway, notified>>
      /\ Goes(h, Idle)
  BY DEF Pay, outside
<1>5. /\ Rail[o] = "manual" => order[o].verified
      /\ ThroughGateway(o) => gateway[o] \in {"settle"} /\ notified[o] # 0
  <2>1. CASE Running(h, "pay")
    BY <1>1, <2>1 DEF Running, SInv, JobsStand, Believes
  <2>2. CASE Running(h, "settle")
    <3>1. gateway[o] = "settle"
      BY <1>1, <2>2 DEF Running, SInv, JobsStand, Believes
    <3>2. ThroughGateway(o)
      BY <3>1 DEF SInv, OrdersStand, GatewayStands
    <3>3. notified[o] # 0
      BY <1>1, <2>2, HeardOf DEF Running, SInv
    <3> QED
      BY <3>1, <3>2, <3>3 DEF ThroughGateway
  <2> QED
    BY <2>1, <2>2 DEF Pay
<1>6. Live' = Live
  BY <1>2, <1>3 DEF Live, Status
<1>7. TicketsAreLive' /\ LiveIsSold' /\ QuotaBinds'
  BY <1>4, <1>6 DEF SInv, Books, TicketsAreLive, LiveIsSold, QuotaBinds
<1>8. ClaimFollows'
  <2>1. Credit(o)
    BY <1>1 DEF Pay
  <2>2. claim[o] = "none"
    BY <1>2 DEF SInv, Books, ClaimFollows
  <2>3. OffPlatform(o) \/ o \in Free <=> ~ThroughGateway(o)
    BY TicketOrdersAssumption DEF OffPlatform, ThroughGateway
  <2>4. claim' = IF ThroughGateway(o) THEN [claim EXCEPT ![o] = "held"] ELSE claim
    BY <2>1, <2>2, <2>3 DEF Credit
  <2>5. claim'[o] = IF ThroughGateway(o) THEN "held" ELSE "none"
    BY <2>2, <2>4 DEF SInv, GInv, TypeOK
  <2>6. \A p \in Orders \ {o} : claim'[p] = claim[p] /\ Status(p)' = Status(p)
    BY <1>3, <2>4 DEF SInv, GInv, TypeOK, Status
  <2>7. ASSUME NEW p \in Orders
        PROVE  claim'[p] = IF ~ThroughGateway(p) THEN "none"
                           ELSE IF Status(p)' = "paid" THEN "held"
                           ELSE IF Status(p)' = "refunded" THEN "void" ELSE "none"
    <3>1. CASE p = o
      BY <1>3, <2>5, <3>1
    <3>2. CASE p # o
      BY <2>6, <3>2 DEF SInv, Books, ClaimFollows
    <3> QED
      BY <3>1, <3>2
  <2> QED
    BY <2>7 DEF ClaimFollows
<1>9. EntriesArePaid'
  BY <1>2, <1>3, <1>4, TicketsByOrder DEF SInv, GInv, TypeOK, Books, EntriesArePaid, Status
<1>10. OrdersStand'
  BY <1>2, <1>3, <1>4, <1>5
     DEF SInv, OrdersStand, ManualStands, GatewayStands, Status
<1>11. JobsStand'
  BY <1>4, IdleOp, NoBelief, JobsNow DEF SInv, GInv
<1> QED
  BY <1>7, <1>8, <1>9, <1>10, <1>11 DEF SInv, Books


\* Voiding a pending order, or a paid one that nobody came in on.
LEMMA VoidSerial ==
    ASSUME OneAtATime, SInv, GInv', NEW h \in Handlers, NEW o \in Orders,
           NEW s \in {"cancelled", "expired", "refunded"},
           Void(o, s), Goes(h, Idle), UNCHANGED <<admitted, gateway, notified>>,
           s = "refunded" => Status(o) = "paid" /\ TicketsOf(o) \cap used = {},
           s # "refunded" => Status(o) = "pending",
           ThroughGateway(o) => gateway[o] \notin {"unaware", "open"} /\ notified[o] # 0,
           Rail[o] = "manual" => s # "cancelled" /\ (s = "expired" => ~order[o].proof),
           claim' = IF s = "refunded" THEN [claim EXCEPT ![o] = Reversed(@)] ELSE claim
    PROVE  SInv'
<1>1. /\ Status(o)' = s /\ order[o]'.verified = order[o].verified
      /\ order[o]'.proof = order[o].proof
      /\ \A p \in Orders \ {o} : order[p]' = order[p]
  <2>1. SetStatus(o, s)
    BY DEF Void
  <2> QED
    BY <2>1, StatusType DEF SInv, GInv
<1>2. TicketsAreLive' /\ LiveIsSold' /\ QuotaBinds'
  <2>1. o \in Live
    BY DEF Live
  <2> QED
    BY <2>1, VoidBooks
<1>3. ClaimFollows'
  <2>1. claim \in [Orders -> {"none", "held", "void"}]
    BY DEF SInv, GInv, TypeOK
  <2>2. claim[o] = IF ThroughGateway(o) /\ s = "refunded" THEN "held" ELSE "none"
    BY DEF SInv, Books, ClaimFollows
  <2>3. /\ claim'[o] = IF ThroughGateway(o) /\ s = "refunded" THEN "void" ELSE "none"
        /\ \A p \in Orders \ {o} : claim'[p] = claim[p] /\ Status(p)' = Status(p)
    BY <1>1, <2>1, <2>2 DEF Reversed, Status
  <2>4. ASSUME NEW p \in Orders
        PROVE  claim'[p] = IF ~ThroughGateway(p) THEN "none"
                           ELSE IF Status(p)' = "paid" THEN "held"
                           ELSE IF Status(p)' = "refunded" THEN "void" ELSE "none"
    <3>1. CASE p = o
      BY <1>1, <2>3, <3>1
    <3>2. CASE p # o
      BY <2>3, <3>2 DEF SInv, Books, ClaimFollows
    <3> QED
      BY <3>1, <3>2
  <2> QED
    BY <2>4 DEF ClaimFollows
<1>4. EntriesArePaid'
  <2> SUFFICES ASSUME NEW t \in admitted
               PROVE  t \in used' /\ Status(t.order)' = "paid"
    BY DEF EntriesArePaid
  <2>1. t \in used /\ Status(t.order) = "paid" /\ t \in AllTickets /\ t.order \in Orders
    BY TicketsByOrder DEF SInv, GInv, TypeOK, Books, EntriesArePaid
  <2>2. t.order # o /\ t \notin TicketsOf(o)
    BY <2>1, TicketsByOrder
  <2> QED
    BY <1>1, <2>1, <2>2 DEF Void, Status
<1>5. OrdersStand'
  BY <1>1 DEF SInv, OrdersStand, ManualStands, GatewayStands, Status
<1>6. JobsStand'
  BY IdleOp, NoBelief, JobsNow DEF SInv, GInv
<1> QED
  BY <1>2, <1>3, <1>4, <1>5, <1>6 DEF SInv, Books

LEMMA VoidingSerial ==
    ASSUME OneAtATime, SInv, GInv', NEW h \in Handlers,
           CancelFailed(h) \/ ExpireManual(h) \/ Refund(h)
    PROVE  SInv'
<1>1. PICK o \in Orders : o = job[h].order
  BY JobHolds DEF CancelFailed, ExpireManual, Refund, Running, OrderOps, SInv, GInv
<1>2. CASE CancelFailed(h)
  <2>1. gateway[o] \in {"settle", "fail"} /\ Status(o) = "pending" /\ notified[o] # 0
    BY <1>1, <1>2, HeardOf DEF CancelFailed, Running, SInv, JobsStand, Believes
  <2>2. ThroughGateway(o)
    BY <2>1 DEF SInv, OrdersStand, GatewayStands
  <2>3. Rail[o] # "manual"
    BY <2>2 DEF ThroughGateway
  <2>4. /\ Void(o, "cancelled") /\ Goes(h, Idle) /\ claim' = claim
        /\ UNCHANGED <<admitted, gateway, notified>>
    BY <1>1, <1>2 DEF CancelFailed, outside
  <2> QED
    BY <2>1, <2>3, <2>4, VoidSerial
<1>3. CASE ExpireManual(h)
  <2>1. Pending(o) /\ ~order[o].proof
    BY <1>1, <1>3 DEF ExpireManual, Running, SInv, JobsStand, Believes
  <2>2. ~ThroughGateway(o) /\ Status(o) = "pending"
    BY <2>1 DEF Pending, ThroughGateway
  <2>3. /\ Void(o, "expired") /\ Goes(h, Idle) /\ claim' = claim
        /\ UNCHANGED <<admitted, gateway, notified>>
    BY <1>1, <1>3 DEF ExpireManual, outside
  <2> QED
    BY <2>1, <2>2, <2>3, VoidSerial
<1>4. CASE Refund(h)
  <2>1. Status(o) = "paid" /\ TicketsOf(o) \cap used = {}
    BY <1>1, <1>4 DEF Refund, Running, SInv, JobsStand, Believes
  <2>2. ThroughGateway(o) => gateway[o] \notin {"unaware", "open"} /\ notified[o] # 0
    BY <2>1 DEF SInv, OrdersStand, GatewayStands
  <2>3. /\ Void(o, "refunded") /\ Goes(h, Idle)
        /\ claim' = [claim EXCEPT ![o] = Reversed(@)]
        /\ UNCHANGED <<admitted, gateway, notified>>
    BY <1>1, <1>4 DEF Refund, outside
  <2> QED
    BY <2>1, <2>2, <2>3, VoidSerial
<1> QED
  BY <1>2, <1>3, <1>4

\* The columns of a proof move while the order is a pending transfer.
LEMMA EditSerial ==
    ASSUME OneAtATime, SInv, GInv', NEW h \in Handlers, NEW o \in Orders, Pending(o),
           NEW to \in Job, Goes(h, to), to = Idle \/ (to.op = "fresh" /\ to.order = o),
           NEW row \in OrderRow, row.status = Status(o),
           to # Idle => row.verified,
           order' = [order EXCEPT ![o] = row],
           UNCHANGED <<sold, daySold, tickets, used, claim, sent, admitted, outside>>
    PROVE  SInv'
<1>1. /\ \A p \in Orders : Status(p)' = Status(p)
      /\ order[o]' = row
      /\ \A p \in Orders \ {o} : order[p]' = order[p]
  BY EditType DEF SInv, GInv
<1>2. Books'
  BY <1>1, BooksKept
<1>3. OrdersStand'
  <2>1. Rail[o] = "manual" /\ Status(o)' = "pending"
    BY <1>1 DEF Pending
  <2>2. \A p \in Orders : GatewayStands(p)'
    BY <1>1 DEF outside, SInv, OrdersStand, GatewayStands
  <2>3. ManualStands(o)'
    BY <2>1 DEF ManualStands
  <2>4. \A p \in Orders \ {o} : Rail[p] = "manual" => ManualStands(p)'
    BY <1>1 DEF SInv, OrdersStand, ManualStands
  <2> QED
    BY <2>2, <2>3, <2>4 DEF OrdersStand
<1>4. Believes(to)'
  BY <1>1, IdleOp, NoBelief DEF Believes, Pending
<1>5. JobsStand'
  BY <1>4, JobsNow DEF SInv, GInv
<1> QED
  BY <1>2, <1>3, <1>5 DEF SInv

LEMMA EditProofSerial ==
    ASSUME OneAtATime, SInv, GInv', NEW h \in Handlers, NEW proof \in BOOLEAN,
           NEW op \in {"proof", "reject"}, EditProof(h, op, proof)
    PROVE  SInv'
<1>1. PICK o \in Orders : o = job[h].order
  BY JobHolds DEF EditProof, Running, OrderOps, SInv, GInv
<1> DEFINE row == [order[o] EXCEPT !.proof = proof, !.late = @ /\ op # "reject"]
<1>2. order[o] \in OrderRow
  BY DEF SInv, GInv, TypeOK
<1>3. row \in OrderRow /\ row.status = Status(o)
  BY <1>2 DEF OrderRow, Status
<1>4. order' = [order EXCEPT ![o] = row]
  BY <1>1 DEF EditProof, SInv, GInv, TypeOK
<1>5. Pending(o)
  BY <1>1 DEF EditProof, Running, SInv, JobsStand, Believes
<1>6. /\ Goes(h, Idle)
      /\ UNCHANGED <<sold, daySold, tickets, used, claim, sent, admitted, outside>>
  BY DEF EditProof
<1>7. PICK to \in Job : to = Idle /\ Goes(h, to)
  BY <1>6, IdleOp
<1> HIDE DEF row
<1> QED
  BY <1>3, <1>4, <1>5, <1>6, <1>7, EditSerial

LEMMA MarkVerifiedSerial ==
    ASSUME OneAtATime, SInv, GInv', NEW h \in Handlers, MarkVerified(h)
    PROVE  SInv'
<1>1. PICK o \in Orders : o = job[h].order
  BY JobHolds DEF MarkVerified, Running, OrderOps, SInv, GInv
<1> DEFINE row == [order[o] EXCEPT !.verified = TRUE]
<1>2. order[o] \in OrderRow
  BY DEF SInv, GInv, TypeOK
<1>3. row \in OrderRow /\ row.status = Status(o) /\ row.verified
  BY <1>2 DEF OrderRow, Status
<1>4. order' = [order EXCEPT ![o] = row]
  BY <1>1 DEF MarkVerified, SInv, GInv, TypeOK
<1>5. Pending(o)
  BY <1>1 DEF MarkVerified, Running, SInv, JobsStand, Believes
<1>6. PICK to \in Job : Goes(h, to) /\ to.op = "fresh" /\ to.order = o
  BY <1>1, OrderJob DEF MarkVerified, OrderOps
<1> HIDE DEF row
<1> QED
  BY <1>3, <1>4, <1>5, <1>6, EditSerial DEF MarkVerified

\* The gate lets in the rows the request found, and no other request touched them.
LEMMA CheckInSerial ==
    ASSUME OneAtATime, SInv, GInv', NEW h \in Handlers, CheckIn(h)
    PROVE  SInv'
<1>1. PICK t \in job[h].rows : /\ used' = used \cup ({t} \cap tickets)
                               /\ admitted' = admitted \cup {t}
                               /\ Goes(h, Admitting(job[h].rows \ {t}))
  BY DEF CheckIn
<1>2. /\ \A r \in job[h].rows : r \in tickets \ used /\ Status(r.order) = "paid"
      /\ job[h].rows \in SUBSET AllTickets
  BY JobHolds DEF CheckIn, Running, SInv, GInv, JobsStand, Believes
<1>3. UNCHANGED <<order, sold, daySold, tickets, claim, gateway, notified>>
  BY DEF CheckIn, outside
<1>4. PICK rest \in SUBSET AllTickets : rest = job[h].rows \ {t}
  BY <1>2
<1>5. PICK to \in Job : /\ Goes(h, to) /\ to.op \in {"admit", "idle"}
                        /\ to.op = "admit" => to.rows = rest
  BY <1>1, <1>4, GateJob
<1>6. Live' = Live /\ \A p \in Orders : Status(p)' = Status(p)
  BY <1>3 DEF Live, Status
<1>7. TicketsAreLive' /\ LiveIsSold' /\ QuotaBinds' /\ ClaimFollows'
  BY <1>3, <1>6 DEF SInv, Books, TicketsAreLive, LiveIsSold, QuotaBinds, ClaimFollows
<1>8. EntriesArePaid'
  BY <1>1, <1>2, <1>3 DEF SInv, Books, EntriesArePaid, Status
<1>9. OrdersStand'
  BY <1>3 DEF SInv, OrdersStand, ManualStands, GatewayStands, Status
<1>10. Believes(to)'
  <2>1. \A r \in rest : r \in tickets' \ used' /\ Status(r.order)' = "paid"
    BY <1>1, <1>2, <1>3, <1>4 DEF Status
  <2> QED
    BY <1>5, <2>1 DEF Believes
<1>11. JobsStand'
  BY <1>5, <1>10, JobsNow DEF SInv, GInv
<1> QED
  BY <1>7, <1>8, <1>9, <1>11 DEF SInv, Books

\* The one notification of an outcome finds its order pending.
LEMMA NotifySerial ==
    ASSUME OneAtATime, SInv, GInv', NEW h \in Handlers, NEW o \in Orders, Notify(h, o)
    PROVE  SInv'
<1>1. /\ gateway[o] \in {"settle", "fail"} /\ notified[o] < Deliveries
      /\ UNCHANGED <<shop, gateway>>
      /\ notified' = [notified EXCEPT ![o] = notified[o] + 1]
  BY DEF Notify
<1>2. notified[o] = 0 /\ notified'[o] # 0 /\ \A p \in Orders \ {o} : notified'[p] = notified[p]
  BY <1>1, TicketOrdersAssumption DEF OneAtATime, SInv, GInv, TypeOK
<1>3. ThroughGateway(o) /\ Status(o) = "pending"
  BY <1>1, <1>2 DEF SInv, OrdersStand, GatewayStands
<1>4. Books'
  BY <1>1, BooksKept DEF shop, Status
<1>5. OrdersStand'
  BY <1>1, <1>2 DEF SInv, OrdersStand, ManualStands, GatewayStands, Status, shop
<1>6. PICK to \in Job : Goes(h, to) /\ to.op = gateway[o] /\ to.order = o
  BY <1>1, <1>3, OrderJob DEF Notify, Ignored, OrderOps
<1>7. Believes(to)
  BY <1>1, <1>3, <1>6 DEF Believes
<1>8. JobsStand'
  BY <1>1, <1>6, <1>7, BeliefKept, JobsNow DEF SInv, GInv
<1> QED
  BY <1>4, <1>5, <1>8 DEF SInv

\* A request that dies has changed nothing it believed.
LEMMA DiesSerial ==
    ASSUME OneAtATime, SInv, GInv', NEW h \in Handlers, Dies(h)
    PROVE  SInv'
<1>1. UNCHANGED <<shop, gateway>> /\ Goes(h, Idle)
  BY DEF Dies
<1>2. Books'
  BY <1>1, BooksKept DEF shop, Status
<1>3. ASSUME NEW o \in Orders PROVE Status(o) \in {"none", "pending"} \/ notified'[o] = notified[o]
  <2>1. CASE job[h].op \in {"settle", "fail"}
    <3>1. Status(job[h].order) = "pending"
      BY <2>1 DEF SInv, JobsStand, Believes
    <3> QED
      BY <2>1, <3>1 DEF Dies, SInv, GInv, TypeOK
  <2>2. CASE job[h].op \notin {"settle", "fail"}
    BY <2>2 DEF Dies
  <2> QED
    BY <2>1, <2>2
<1>4. OrdersStand'
  BY <1>1, <1>3 DEF SInv, OrdersStand, ManualStands, GatewayStands, Status, shop
<1>5. JobsStand'
  BY <1>1, IdleOp, NoBelief, JobsNow DEF SInv, GInv
<1> QED
  BY <1>2, <1>4, <1>5 DEF SInv

LEMMA OutsideSerial ==
    ASSUME OneAtATime, SInv, GInv',
           \/ \E o \in Orders : \/ GatewayEnds(o, "settle") \/ GatewayEnds(o, "fail")
                                \/ DeadlinePasses(o)
           \/ NextDay
    PROVE  SInv'
<1>1. ASSUME NEW o \in Orders, GatewayEnds(o, "settle") \/ GatewayEnds(o, "fail")
      PROVE  SInv'
  <2>1. /\ gateway[o] \in {"open", "fail"} /\ gateway'[o] \in {"settle", "fail"}
        /\ gateway[o] = "fail" => gateway'[o] = "settle"
        /\ \A p \in Orders \ {o} : gateway'[p] = gateway[p]
        /\ UNCHANGED <<shop, notified, job>>
    BY <1>1 DEF GatewayEnds, SInv, GInv, TypeOK
  <2>2. Books'
    BY <2>1, BooksKept DEF shop, Status
  <2>3. OrdersStand'
    BY <2>1 DEF SInv, OrdersStand, ManualStands, GatewayStands, Status, shop
  <2>4. JobsStand'
    <3> SUFFICES ASSUME NEW h \in Handlers PROVE Believes(job[h])'
      BY DEF JobsStand
    <3>1. Believes(job[h])
      BY DEF SInv, JobsStand
    <3>2. /\ job[h].op \in OrderOps => job[h].order \in Orders
          /\ job[h].op = "open" => job[h].order # o
          /\ job[h].op = "settle" => job[h].order # o
          /\ job[h].op = "fail" => gateway[job[h].order] # "open"
      BY <2>1, <3>1, JobHolds DEF Believes, SInv, GInv
    <3> QED
      BY <2>1, <3>1, <3>2 DEF Believes, Status, Pending, SeatsAvailable, OrderOps, shop
  <2> QED
    BY <2>2, <2>3, <2>4 DEF SInv
<1>2. ASSUME NEW o \in Orders, DeadlinePasses(o)
      PROVE  SInv'
  <2>1. /\ UNCHANGED <<sold, daySold, tickets, used, claim, sent, admitted, job, outside>>
        /\ order' = [order EXCEPT ![o].late = TRUE] /\ order \in [Orders -> OrderRow]
    BY <1>2 DEF DeadlinePasses, SInv, GInv, TypeOK
  <2>2. \A p \in Orders : /\ order[p]'.status = order[p].status
                          /\ order[p]'.proof = order[p].proof
                          /\ order[p]'.verified = order[p].verified
    BY <2>1 DEF OrderRow
  <2>3. Books'
    BY <2>1, <2>2, BooksKept DEF Status
  <2>4. OrdersStand'
    BY <2>1, <2>2 DEF outside, SInv, OrdersStand, ManualStands, GatewayStands, Status
  <2>5. JobsStand'
    <3> SUFFICES ASSUME NEW h \in Handlers PROVE Believes(job[h])'
      BY DEF JobsStand
    <3>1. Believes(job[h])
      BY DEF SInv, JobsStand
    <3>2. /\ job[h].op \in OrderOps => job[h].order \in Orders
          /\ job[h].op = "admit" => \A t \in job[h].rows : t.order \in Orders
      BY JobHolds, TicketsByOrder DEF SInv, GInv
    <3> QED
      BY <2>1, <2>2, <3>1, <3>2
         DEF outside, Believes, Status, Pending, SeatsAvailable, OrderOps
  <2> QED
    BY <2>3, <2>4, <2>5 DEF SInv
<1>3. CASE NextDay
  <2>1. UNCHANGED <<shop, gateway, notified, job>>
    BY <1>3 DEF NextDay
  <2>2. Books'
    BY <2>1, BooksKept DEF shop, Status
  <2>3. OrdersStand' /\ JobsStand'
    BY <2>1 DEF SInv, OrdersStand, ManualStands, GatewayStands, Status, shop,
                JobsStand, Believes, Pending, SeatsAvailable
  <2> QED
    BY <2>2, <2>3 DEF SInv
<1> QED
  BY <1>1, <1>2, <1>3


LEMMA InitSInv == Init => SInv
<1> SUFFICES ASSUME Init PROVE SInv
  OBVIOUS
<1>1. GInv
  BY InitGInv
<1>2. Live = {} /\ \A o \in Orders : Status(o) = "none" /\ ~order[o].proof
  BY DEF Init, NotPlaced, Live, Status
<1>3. TicketsAreLive
  BY <1>2 DEF TicketsAreLive, Init
<1>4. LiveIsSold
  <2>1. Sum([o \in Live |-> Quantity(o)]) = 0
    BY <1>2, SumNone
  <2>2. \A d \in Days : {t \in tickets : t.day = d} = {}
    BY DEF Init
  <2> QED
    BY <2>1, <2>2, FS_EmptySet DEF LiveIsSold, Init
<1>5. QuotaBinds /\ ClaimFollows /\ EntriesArePaid
  BY <1>2, TicketOrdersAssumption DEF Init, QuotaBinds, ClaimFollows, EntriesArePaid
<1>6. OrdersStand
  BY <1>2 DEF Init, OrdersStand, ManualStands, GatewayStands
<1>7. JobsStand
  BY IdleOp DEF Init, JobsStand, Believes
<1> QED
  BY <1>1, <1>3, <1>4, <1>5, <1>6, <1>7 DEF SInv, Books

LEMMA NextSInv ==
    ASSUME OneAtATime, SInv, [Next]_vars
    PROVE  SInv'
<1>0. GInv'
  BY NextGInv DEF SInv
<1>1. ASSUME NEW h \in Handlers, NEW o \in Orders,
             \/ CheckSeats(h, o) \/ Notify(h, o) \/ LoadRefund(h, o) \/ AdmitAtTill(h, o)
             \/ \E op \in {"proof", "approve", "reject", "expire"} : LoadManual(h, op, o)
      PROVE  SInv'
  BY <1>0, <1>1, CheckSeatsSerial, NotifySerial, LoadPaidSerial, LoadManualSerial
<1>2. ASSUME NEW h \in Handlers, NEW t \in AllTickets, Scan(h, t)
      PROVE  SInv'
  BY <1>0, <1>2, ScanSerial
<1>3. ASSUME NEW h \in Handlers, Finish(h)
      PROVE  SInv'
  BY <1>0, <1>3, PurchaseSerial, OpenPaymentSerial, PaySerial, VoidingSerial, EditProofSerial,
     MarkVerifiedSerial, ReloadSerial, FindPartySerial, CheckInSerial DEF Finish
<1>4. ASSUME NEW h \in Handlers, Dies(h)
      PROVE  SInv'
  BY <1>0, <1>4, DiesSerial
<1>5. CASE \/ \E o \in Orders : \/ GatewayEnds(o, "settle") \/ GatewayEnds(o, "fail")
                                \/ DeadlinePasses(o)
           \/ NextDay
  BY <1>0, <1>5, OutsideSerial
<1>6. CASE UNCHANGED vars
  <2>1. UNCHANGED <<shop, gateway, notified, job>>
    BY <1>6 DEF vars, shop
  <2>2. Books'
    BY <2>1, BooksKept DEF shop, Status
  <2>3. OrdersStand' /\ JobsStand'
    BY <2>1 DEF SInv, OrdersStand, ManualStands, GatewayStands, Status, shop,
                JobsStand, Believes, Pending, SeatsAvailable
  <2> QED
    BY <1>0, <2>2, <2>3 DEF SInv
<1> QED
  BY <1>1, <1>2, <1>3, <1>4, <1>5, <1>6 DEF Next

LEMMA SerialInvariant ==
    ASSUME OneAtATime
    PROVE  Spec => []SInv
<1>1. SInv /\ [Next]_vars => SInv'
  BY NextSInv
<1> QED
  BY <1>1, InitSInv, PTL DEF Spec

\* The orders with tickets are the live ones.
LEMMA HoldingIsLive == SInv => Holding = Live
<1> SUFFICES ASSUME SInv PROVE Holding = Live
  OBVIOUS
<1>1. ASSUME NEW o \in Orders PROVE TicketsOf(o) \cap tickets # {} <=> o \in Live
  BY LiveTickets, TicketsFinite DEF SInv, Books
<1> QED
  BY <1>1 DEF Holding, Live

\* One request at a time, the category's and each day's counters are exactly what the live
\* orders hold: no unit leaks and none is given back twice (ensureSeatsAvailable, purchase,
\* release, shiftDays).
THEOREM SoldIsHeldHolds ==
    ASSUME OneAtATime
    PROVE  Spec => []SoldIsHeld
<1>1. SInv => SoldIsHeld
  BY HoldingIsLive DEF SInv, Books, LiveIsSold, SoldIsHeld
<1> QED
  BY <1>1, SerialInvariant, PTL

\* One request at a time, the quota binds on every door and every day.
THEOREM QuotaBindsHolds ==
    ASSUME OneAtATime
    PROVE  Spec => []QuotaBinds
<1>1. SInv => QuotaBinds
  BY DEF SInv, Books
<1> QED
  BY <1>1, SerialInvariant, PTL

\* One request at a time, exactly the pending and the paid orders have their tickets.
THEOREM TicketsMatchStatusHolds ==
    ASSUME OneAtATime
    PROVE  Spec => []TicketsMatchStatus
<1>1. SInv => TicketsMatchStatus
  BY LiveTickets DEF SInv, Books, Live, TicketsMatchStatus
<1> QED
  BY <1>1, SerialInvariant, PTL

\* One request at a time, the organizer's wallet holds the credit of exactly the priced
\* gateway orders that are paid (markPaid, refund; EarningsService).
THEOREM HeldIffPaidHolds ==
    ASSUME OneAtATime
    PROVE  Spec => []HeldIffPaid
<1>1. SInv => HeldIffPaid
  BY DEF SInv, Books, ClaimFollows, ThroughGateway, HeldIffPaid
<1> QED
  BY <1>1, SerialInvariant, PTL

\* One request at a time, an order somebody came in on is not refunded.
THEOREM RefundedNotAdmittedHolds ==
    ASSUME OneAtATime
    PROVE  Spec => []RefundedNotAdmitted
<1>1. SInv => RefundedNotAdmitted
  BY DEF SInv, Books, EntriesArePaid, RefundedNotAdmitted
<1> QED
  BY <1>1, SerialInvariant, PTL

=============================================================================
