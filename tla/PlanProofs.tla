----------------------------- MODULE PlanProofs -----------------------------
(***************************************************************************)
(* The plan orders of an organization, for any number of orders, events,   *)
(* plans, switches of the gateway and transactions at Midtrans.            *)
(*                                                                         *)
(* TInv, the types, holds however requests overlap.  The rest needs        *)
(* requests one after another (OneHandler), which still die between two    *)
(* commits, meet the sweep and get every notification again and late:      *)
(*   SInv   what a request has read is what the rows still say, and a row  *)
(*          that nothing has put on both rails keeps what was paid;        *)
(*   HInv   a paid upgrade has taken the event from the order it upgrades, *)
(*          if no request dies between the two commits of activate();      *)
(*   Quota  a bill that was cancelled cannot be paid by any more;          *)
(*   Prices, Value  a bill costs what is missing to the price of its plan, *)
(*          so what was paid covers the plans nothing has taken over.      *)
(***************************************************************************)
EXTENDS PlanOrders, MoneyProofs, WellFoundedInduction

\* What Save leaves of one row.
Merged(row, copy, new) ==
    [f \in DOMAIN Blank |-> IF new[f] # copy[f] THEN new[f] ELSE row[f]]

LEMMA BlankFields ==
    DOMAIN Blank = {"status", "plan", "of", "amount", "coded", "method", "proof",
                    "verified", "paidAt", "event", "snap"}
  BY DEF Blank

LEMMA MergedRow ==
    ASSUME NEW row \in Row, NEW copy \in Row, NEW new \in Row
    PROVE  /\ Merged(row, copy, new) \in Row
           /\ Merged(row, row, new) = new
<1> DEFINE m == Merged(row, copy, new)
<1>1. m = [status |-> m.status, plan |-> m.plan, of |-> m.of, amount |-> m.amount,
           coded |-> m.coded, method |-> m.method, proof |-> m.proof,
           verified |-> m.verified, paidAt |-> m.paidAt, event |-> m.event, snap |-> m.snap]
  BY BlankFields DEF Merged
<1>2. \A f \in DOMAIN Blank : m[f] \in {new[f], row[f]}
  BY DEF Merged
<1>3. m \in Row
  <2> HIDE DEF m
  <2> QED
    BY <1>1, <1>2, BlankFields DEF Row
<1>4. Merged(row, row, new) = new
  <2>1. \A f \in DOMAIN Blank : Merged(row, row, new)[f] = new[f]
    BY DEF Merged
  <2>2. DOMAIN new = DOMAIN Blank
    BY BlankFields DEF Row
  <2>3. new = [f \in DOMAIN Blank |-> new[f]]
    BY <2>2 DEF Row
  <2> QED
    BY <2>1, <2>3 DEF Merged
<1> QED
  BY <1>3, <1>4

\* Of any orders, one was raised first.
LEMMA First ==
    ASSUME NEW T, T \subseteq Nat, T # {}
    PROVE  \E n \in T : \A m \in T : ~(m < n)
<1> DEFINE R == {ss \in Nat \X Nat : ss[1] < ss[2]}
<1>1. IsWellFoundedOn(R, Nat)
  BY NatLessThanWellFounded DEF OpToRel
<1> HIDE DEF R
<1>2. PICK n \in T : \A m \in T : ~(<<m, n>> \in R)
  BY <1>1, WFMin
<1> QED
  BY <1>2 DEF R

\* The equation of paidTowardsPlan() over any orders.
Towards(rows, t) ==
    t = [o \in Orders |-> rows[o].amount + IF rows[o].of = Unraised THEN 0 ELSE t[rows[o].of]]

Chained(rows) ==
    \A o \in Orders : rows[o].of \in Orders \cup {Unraised} /\ rows[o].of < o /\ rows[o].amount \in Nat

\* Orders that refer to older ones have such a function: it is built order by order.
LEMMA TowardsExists ==
    ASSUME NEW rows, Chained(rows)
    PROVE  \E t \in [Orders -> Nat] : Towards(rows, t)
<1> DEFINE Upto(n, t) ==
             \A o \in 1..n :
               t[o] = rows[o].amount + IF rows[o].of = Unraised THEN 0 ELSE t[rows[o].of]
           Bad == {n \in 0..Raised : ~\E t \in [Orders -> Nat] : Upto(n, t)}
<1>0. Raised \in Nat
  BY PlanOrdersAssumption
<1>1. Bad = {}
  <2> SUFFICES ASSUME Bad # {} PROVE FALSE
    OBVIOUS
  <2>1. Bad \subseteq Nat
    BY <1>0
  <2>2. PICK n \in Bad : \A m \in Bad : ~(m < n)
    <3> HIDE DEF Bad
    <3> QED
      BY <2>1, First
  <2>3. n # 0
    <3>1. [o \in Orders |-> 0] \in [Orders -> Nat] /\ Upto(0, [o \in Orders |-> 0])
      OBVIOUS
    <3> QED
      BY <3>1
  <2>4. n - 1 \in 0..Raised /\ n \in Orders /\ n - 1 < n /\ n \in 1..n
    BY <1>0, <2>3 DEF Orders
  <2>5. PICK t \in [Orders -> Nat] : Upto(n - 1, t)
    BY <2>2, <2>4
  <2> DEFINE v == rows[n].amount + IF rows[n].of = Unraised THEN 0 ELSE t[rows[n].of]
             u == [t EXCEPT ![n] = v]
  <2>6. v \in Nat
    <3>1. rows[n].amount \in Nat /\ rows[n].of \in Orders \cup {Unraised}
      BY <2>4 DEF Chained
    <3>2. rows[n].of # Unraised => t[rows[n].of] \in Nat
      BY <2>5, <3>1
    <3> QED
      BY <3>1, <3>2
  <2>7. u \in [Orders -> Nat]
    BY <2>5, <2>6
  <2>8. ASSUME NEW o \in 1..n
        PROVE  u[o] = rows[o].amount + IF rows[o].of = Unraised THEN 0 ELSE u[rows[o].of]
    <3>1. o \in Orders /\ rows[o].of < o /\ rows[o].of # n
      BY <1>0, <2>4, <2>8 DEF Chained, Orders
    <3>2. rows[o].of # Unraised => u[rows[o].of] = t[rows[o].of]
      BY <2>5, <3>1 DEF Chained
    <3>3. CASE o = n
      BY <2>4, <2>5, <3>2, <3>3
    <3>4. CASE o # n
      <4>1. o \in 1..(n - 1) /\ u[o] = t[o]
        BY <1>0, <2>4, <2>5, <2>8, <3>1, <3>4 DEF Orders
      <4> QED
        BY <2>5, <3>2, <4>1
    <3> QED
      BY <3>3, <3>4
  <2> QED
    BY <2>2, <2>7, <2>8
<1>2. Raised \in 0..Raised
  BY <1>0
<1>3. PICK t \in [Orders -> Nat] : Upto(Raised, t)
  BY <1>1, <1>2
<1>4. t = [o \in Orders |-> t[o]]
  OBVIOUS
<1>5. t = [o \in Orders |-> rows[o].amount + IF rows[o].of = Unraised THEN 0 ELSE t[rows[o].of]]
  BY <1>3, <1>4 DEF Orders
<1> QED
  BY <1>5 DEF Towards

\* What is paid towards an order depends on its own chain alone.
LEMMA TowardsAgree ==
    ASSUME NEW rows, Chained(rows), NEW next, NEW t, NEW u, Towards(rows, t), Towards(next, u),
           NEW K \in SUBSET Orders,
           \A o \in K : /\ next[o].amount = rows[o].amount /\ next[o].of = rows[o].of
                        /\ rows[o].of # Unraised => rows[o].of \in K
    PROVE  \A o \in K : u[o] = t[o]
<1> DEFINE Bad == {o \in K : u[o] # t[o]}
<1>1. SUFFICES ASSUME Bad # {} PROVE FALSE
  OBVIOUS
<1>a. Orders \subseteq Nat
  BY PlanOrdersAssumption DEF Orders
<1>2. Bad \subseteq Nat
  BY <1>a
<1>3. PICK o \in Bad : \A p \in Bad : ~(p < o)
  <2> HIDE DEF Bad
  <2> QED
    BY <1>1, <1>2, First
<1>4. /\ t[o] = rows[o].amount + IF rows[o].of = Unraised THEN 0 ELSE t[rows[o].of]
      /\ u[o] = rows[o].amount + IF rows[o].of = Unraised THEN 0 ELSE u[rows[o].of]
  BY <1>3 DEF Towards
<1>5. rows[o].of # Unraised => u[rows[o].of] = t[rows[o].of]
  BY <1>3 DEF Chained
<1> QED
  BY <1>3, <1>4, <1>5

LEMMA TowardsPlan ==
    ASSUME Chained(order)
    PROVE  /\ PaidTowardsPlan \in [Orders -> Nat]
           /\ Towards(order, PaidTowardsPlan)
<1> DEFINE P(t) == t = [o \in Orders |->
             order[o].amount + IF order[o].of = Unraised THEN 0 ELSE t[order[o].of]]
<1>1. PaidTowardsPlan = CHOOSE t : P(t)
  BY DEF PaidTowardsPlan
<1>2. \E t : P(t)
  BY TowardsExists DEF Towards
<1>3. P(PaidTowardsPlan)
  <2> HIDE DEF P
  <2> QED
    BY <1>1, <1>2, Zenon
<1>4. Towards(order, PaidTowardsPlan)
  BY <1>3 DEF Towards
<1>5. PICK t \in [Orders -> Nat] : Towards(order, t)
  BY TowardsExists
<1>6. \A o \in Orders : order[o].of # Unraised => order[o].of \in Orders
  BY DEF Chained
<1>7. \A o \in Orders : PaidTowardsPlan[o] = t[o]
  BY <1>4, <1>5, <1>6, TowardsAgree
<1>8. PaidTowardsPlan = [o \in Orders |-> PaidTowardsPlan[o]]
  <2>1. \E f : PaidTowardsPlan = [o \in Orders |-> f[o]]
    BY <1>4 DEF Towards
  <2> QED
    BY <2>1
<1> QED
  BY <1>4, <1>5, <1>7, <1>8

-----------------------------------------------------------------------------
(***************************************************************************)
(* Type correctness, for any number of workers.                            *)
(***************************************************************************)
\* The order a request has seen, or raises an upgrade of, is there.
Names(j) ==
    {o \in Orders :
        \/ j.op = "raise" /\ j.row.of = o
        \/ j.op = "seen" /\ j.order = o}

NamedRaised == \A h \in Handlers : \A o \in Names(job[h]) : order[o].status # "none"

TInv == POTypeOK /\ NamedRaised

Remain == \A o \in Orders : order[o].status # "none" => order'[o].status # "none"

LEMMA JobKinds ==
    ASSUME NEW j \in Job
    PROVE  /\ j.op = "raise" => j.row \in Row
           /\ j.op \in {"start", "seen", "activate", "apply", "write"} =>
                 j.order \in Orders /\ j.row \in Row
           /\ j.op = "apply" => j.row.of # Unraised
           /\ j.op = "write" => j.status \in {"past_due", "cancelled"}
           /\ j.op = "delete" => j.event \in Events
           /\ j.op = "reassign" => /\ j.event \in Events /\ j.order \in Orders
                                   /\ j.plan \in Plans /\ j.to \in Plans
           /\ j.op \in {"idle", "raise", "start", "seen", "activate", "apply", "write",
                        "delete", "reassign"}
  BY DEF Job, Idle

LEMMA JobMade ==
    ASSUME NEW o \in Orders, NEW row \in Row
    PROVE  /\ Idle \in Job
           /\ [op |-> "raise", row |-> row] \in Job
           /\ \A op \in {"start", "seen", "activate"} :
                 [op |-> op, order |-> o, row |-> row] \in Job
           /\ row.of # Unraised => [op |-> "apply", order |-> o, row |-> row] \in Job
           /\ \A status \in {"past_due", "cancelled"} :
                 [op |-> "write", order |-> o, row |-> row, status |-> status] \in Job
  BY DEF Job, Idle

LEMMA OrderTypes ==
    ASSUME POTypeOK
    PROVE  /\ Chained(order)
           /\ PaidTowardsPlan \in [Orders -> Nat]
           /\ Towards(order, PaidTowardsPlan)
<1>1. Chained(order)
  BY DEF Chained, POTypeOK, Row
<1> QED
  BY <1>1, TowardsPlan

LEMMA BlankRow == Blank \in Row /\ Blank.of = Unraised
<1>1. (CHOOSE p \in Plans : TRUE) \in Plans
  BY PlanOrdersAssumption
<1>2. 0 \in 0..Attempts
  BY PlanOrdersAssumption
<1> QED
  BY <1>1, <1>2 DEF Blank, Row

LEMMA BilledRow ==
    ASSUME NEW row \in Row
    PROVE  /\ Billed(row) \in Row
           /\ \A f \in DOMAIN Blank \ {"method"} : Billed(row)[f] = row[f]
           /\ Billed(row).method = Method(row.amount)
  BY BlankFields DEF Billed, Method, Row

\* What a save leaves of the orders.
LEMMA SaveType ==
    ASSUME POTypeOK, NEW o \in Orders, NEW copy \in Row, NEW new \in Row, Save(o, copy, new),
           new.of = copy.of, new.status # copy.status => new.status # "none"
    PROVE  /\ order' \in [Orders -> Row]
           /\ \A u \in Orders : order'[u].of < u
           /\ Remain
           /\ order'[o] = Merged(order[o], copy, new)
           /\ \A u \in Orders : u # o => order'[u] = order[u]
<1>1. order' = [order EXCEPT ![o] = Merged(order[o], copy, new)]
  BY DEF Save, Merged
<1>2. Merged(order[o], copy, new) \in Row
  BY MergedRow DEF POTypeOK
<1>3. /\ Merged(order[o], copy, new).of = order[o].of
      /\ order[o].status # "none" => Merged(order[o], copy, new).status # "none"
  BY BlankFields DEF Merged
<1> QED
  BY <1>1, <1>2, <1>3 DEF POTypeOK, Remain

\* What a step leaves of the requests.
LEMMA GoesType ==
    ASSUME TInv, NEW h \in Handlers, NEW to \in Job, Goes(h, to), Remain,
           \A o \in Names(to) : order'[o].status # "none"
    PROVE  job' \in [Handlers -> Job] /\ NamedRaised'
<1>1. job' = [job EXCEPT ![h] = to] /\ job \in [Handlers -> Job]
  BY DEF Goes, TInv, POTypeOK
<1>2. ASSUME NEW g \in Handlers, NEW o \in Names(job'[g]) PROVE order'[o].status # "none"
  <2>1. job'[g] = IF g = h THEN to ELSE job[g]
    BY <1>1
  <2>2. g # h => order[o].status # "none"
    BY <1>2, <2>1 DEF TInv, NamedRaised
  <2> QED
    BY <1>2, <2>1, <2>2 DEF Remain, Names
<1>3. \A g \in Handlers : Names(job[g])' = Names(job'[g])
  BY DEF Names
<1> QED
  BY <1>1, <1>2, <1>3 DEF NamedRaised

\* A step that leaves the orders alone.
LEMMA AskingType ==
    ASSUME TInv, NEW h \in Handlers, NEW to \in Job, Goes(h, to),
           UNCHANGED <<order, event, gatewayUp, switched, snap>>,
           \A o \in Names(to) : order[o].status # "none"
    PROVE  TInv'
<1>1. Remain
  BY DEF Remain
<1>2. job' \in [Handlers -> Job] /\ NamedRaised'
  BY <1>1, GoesType
<1> QED
  BY <1>2 DEF TInv, POTypeOK

\* A step that writes one order.
LEMMA WritingType ==
    ASSUME TInv, NEW h \in Handlers, NEW to \in Job, Goes(h, to),
           NEW o \in Orders, NEW copy \in Row, NEW new \in Row, Save(o, copy, new),
           new.of = copy.of, new.status # copy.status => new.status # "none",
           UNCHANGED <<event, gatewayUp, switched, snap>>, to.op \notin {"raise", "seen"}
    PROVE  TInv'
<1>1. /\ order' \in [Orders -> Row] /\ \A u \in Orders : order'[u].of < u
      /\ Remain
  BY SaveType DEF TInv
<1>2. Names(to) = {}
  BY DEF Names
<1>3. job' \in [Handlers -> Job] /\ NamedRaised'
  BY <1>1, <1>2, GoesType
<1> QED
  BY <1>1, <1>3 DEF TInv, POTypeOK

LEMMA CheckoutType ==
    ASSUME TInv, NEW h \in Handlers, NEW p \in Plans, NEW coded \in BOOLEAN, Checkout(h, p, coded)
    PROVE  TInv'
<1> DEFINE off == IF coded THEN DiscountFor(p) ELSE 0
           row == [Blank EXCEPT !.status = "past_due", !.plan = p, !.coded = coded,
                                !.amount = Price[p] - off]
<1>1. off \in Nat /\ off <= Price[p] /\ Price[p] \in Nat
  BY PlanOrdersAssumption DEF DiscountFor, Least
<1>2. row \in Row /\ row.of = Unraised
  <2>1. Price[p] - off \in Nat
    BY <1>1
  <2> HIDE DEF off
  <2> QED
    BY <2>1, BlankRow DEF Row
<1> HIDE DEF row
<1>3. Billed(row) \in Row /\ Billed(row).of = Unraised
  BY <1>2, BilledRow, BlankFields
<1>4. Goes(h, [op |-> "raise", row |-> Billed(row)])
  BY DEF Checkout, Begins, row
<1>5. [op |-> "raise", row |-> Billed(row)] \in Job
  BY <1>3 DEF Job
<1>6. UNCHANGED <<order, event, gatewayUp, switched, snap>>
  BY DEF Checkout, outside
<1>7. Names([op |-> "raise", row |-> Billed(row)]) = {}
  BY <1>3, PlanOrdersAssumption DEF Names, Orders, Unraised
<1> QED
  BY <1>4, <1>5, <1>6, <1>7, AskingType

LEMMA ReopenType ==
    ASSUME TInv, NEW h \in Handlers, NEW o \in Orders, NEW copy \in Row, Reopen(h, o, copy),
           UNCHANGED <<event, gatewayUp, switched, snap>>
    PROVE  TInv'
<1>1. Billed(copy) \in Row /\ Billed(copy).of = copy.of /\ Billed(copy).status = copy.status
  BY BilledRow, BlankFields
<1>2. [op |-> "start", order |-> o, row |-> Billed(copy)] \in Job
  BY <1>1, JobMade
<1>3. /\ Save(o, copy, Billed(copy))
      /\ Goes(h, [op |-> "start", order |-> o, row |-> Billed(copy)])
  BY DEF Reopen
<1> QED
  BY <1>1, <1>2, <1>3, WritingType

\* The newest of some orders is one of them.
LEMMA LastOf ==
    ASSUME NEW T, T \subseteq Orders, T # {}
    PROVE  \E u \in T : \A v \in T : v <= u
<1>0. Raised \in Nat /\ \A o \in T : o \in Nat /\ o <= Raised
  BY PlanOrdersAssumption DEF Orders
<1> DEFINE S == {Raised - o : o \in T}
<1>1. S \subseteq Nat /\ S # {}
  BY <1>0
<1>2. PICK n \in S : \A m \in S : ~(m < n)
  <2> HIDE DEF S
  <2> QED
    BY <1>1, First
<1>3. PICK u \in T : n = Raised - u
  BY <1>2
<1>4. ASSUME NEW v \in T PROVE v <= u
  <2>1. ~(Raised - v < Raised - u)
    BY <1>2, <1>3
  <2> QED
    BY <1>0, <1>3, <2>1
<1> QED
  BY <1>4

LEMMA UpgradeType ==
    ASSUME TInv, NEW h \in Handlers, NEW p \in Plans, Upgrade(h, p)
    PROVE  TInv'
<1> DEFINE o == job[h].order
           copy == job[h].row
           difference == Price[p] - PaidTowardsPlan[o]
           unpaid == Upgrades(o, "past_due")
           latest == CHOOSE u \in unpaid : \A v \in unpaid : v <= u
           row == [Blank EXCEPT !.status = "past_due", !.plan = p, !.of = o, !.amount = difference]
<1>1. job[h].op = "seen" /\ o \in Orders /\ copy \in Row
  BY JobKinds DEF Upgrade, Running, TInv, POTypeOK
<1>2. UNCHANGED <<event, gatewayUp, switched, snap>>
  BY DEF Upgrade, outside
<1>3. CASE Reopen(h, latest, order[latest]) /\ unpaid # {}
  <2>1. unpaid \subseteq Orders
    BY DEF Upgrades
  <2>2. \E u \in unpaid : \A v \in unpaid : v <= u
    <3> HIDE DEF unpaid
    <3> QED
      BY <1>3, <2>1, LastOf
  <2>3. latest \in Orders
    <3> HIDE DEF unpaid
    <3> QED
      BY <2>1, <2>2
  <2> HIDE DEF latest
  <2>4. order[latest] \in Row
    BY <2>3 DEF TInv, POTypeOK
  <2>5. PICK l \in Orders : l = latest
    BY <2>3
  <2>6. PICK r \in Row : r = order[l]
    BY <2>4, <2>5
  <2> QED
    BY <1>2, <1>3, <2>5, <2>6, ReopenType
<1>4. CASE Goes(h, [op |-> "raise", row |-> Billed(row)]) /\ UNCHANGED order
  <2>1. difference \in Nat
    <3>1. PaidTowardsPlan[o] \in Nat /\ Price[p] \in Nat
      BY <1>1, OrderTypes, PlanOrdersAssumption DEF TInv
    <3>2. difference > 0
      BY DEF Upgrade
    <3> QED
      BY <3>1, <3>2
  <2>2. row \in Row /\ row.of = o
    <3> HIDE DEF difference
    <3> QED
      BY <1>1, <2>1, BlankRow DEF Row
  <2>3. order[o].status # "none"
    BY <1>1 DEF TInv, NamedRaised, Names
  <2> HIDE DEF row
  <2>4. Billed(row) \in Row /\ Billed(row).of = o
    BY <2>2, BilledRow, BlankFields
  <2>5. [op |-> "raise", row |-> Billed(row)] \in Job
    BY <2>4 DEF Job
  <2>6. Names([op |-> "raise", row |-> Billed(row)]) = {o}
    BY <1>1, <2>4 DEF Names
  <2> QED
    BY <1>2, <1>4, <2>3, <2>5, <2>6, AskingType DEF row
<1> QED
  BY <1>3, <1>4 DEF Upgrade

\* The request a worker goes on to, or is done with.
LEMMA RaiseType ==
    ASSUME TInv, NEW h \in Handlers, Raise(h)
    PROVE  TInv'
<1> DEFINE row == job[h].row
<1>1. job[h].op = "raise" /\ row \in Row
  BY JobKinds DEF Raise, Running, TInv, POTypeOK
<1>2. PICK o \in Orders :
         /\ \A other \in Orders : order[other].status = "none" <=> other >= o
         /\ order' = [order EXCEPT ![o] = row]
         /\ Goes(h, [op |-> "start", order |-> o, row |-> row])
  BY DEF Raise
<1>3. row.of < o
  <2>1. CASE row.of = Unraised
    BY <2>1, PlanOrdersAssumption DEF Orders, Unraised
  <2>2. CASE row.of # Unraised
    <3>1. row.of \in Orders
      BY <1>1, <2>2 DEF Row
    <3>2. order[row.of].status # "none"
      BY <1>1, <3>1 DEF TInv, NamedRaised, Names
    <3> QED
      BY <1>2, <3>1, <3>2, PlanOrdersAssumption DEF Orders
  <2> QED
    BY <2>1, <2>2
<1>4. order' \in [Orders -> Row] /\ \A u \in Orders : order'[u].of < u
  BY <1>1, <1>2, <1>3 DEF TInv, POTypeOK
<1>5. Remain
  <2>1. order[o].status = "none"
    BY <1>2, PlanOrdersAssumption DEF Orders
  <2> QED
    BY <1>2, <2>1 DEF TInv, POTypeOK, Remain
<1>6. [op |-> "start", order |-> o, row |-> row] \in Job
  BY <1>1, JobMade
<1>7. Names([op |-> "start", order |-> o, row |-> row]) = {}
  BY DEF Names
<1>8. job' \in [Handlers -> Job] /\ NamedRaised'
  BY <1>2, <1>5, <1>6, <1>7, GoesType
<1>9. UNCHANGED <<event, gatewayUp, switched, snap>>
  BY DEF Raise, outside
<1> QED
  BY <1>4, <1>8, <1>9 DEF TInv, POTypeOK

LEMMA StartType ==
    ASSUME TInv, NEW h \in Handlers, Start(h)
    PROVE  TInv'
<1> DEFINE o == job[h].order
           n == order[o].snap + 1
<1>1. job[h].op = "start" /\ o \in Orders /\ job[h].row \in Row /\ job[h] \in Job
  BY JobKinds DEF Start, Running, TInv, POTypeOK
<1>2. UNCHANGED <<event, gatewayUp, switched>>
  BY DEF Start
<1>3. /\ [job[h] EXCEPT !.op = "activate"] \in Job
      /\ Names([job[h] EXCEPT !.op = "activate"]) = {}
  BY <1>1 DEF Job, Idle, Names
<1>4. Idle \in Job /\ Names(Idle) = {}
  BY DEF Job, Idle, Names
<1>5. CASE UNCHANGED <<order, snap>> /\ Goes(h, [job[h] EXCEPT !.op = "activate"])
  <2>1. PICK to \in Job : to = [job[h] EXCEPT !.op = "activate"] /\ Names(to) = {}
    BY <1>3
  <2> QED
    BY <1>2, <1>5, <2>1, AskingType
<1>6. CASE UNCHANGED <<order, snap>> /\ Goes(h, Idle)
  BY <1>2, <1>4, <1>6, AskingType
<1>7. CASE /\ n <= Attempts
           /\ snap' = [snap EXCEPT ![<<o, n>>] = "open"]
           /\ order' = [order EXCEPT ![o].snap = n]
           /\ Goes(h, Idle)
  <2>1. order[o] \in Row /\ order[o].snap \in 0..Attempts
    BY <1>1 DEF TInv, POTypeOK, Row
  <2>2. n \in 0..Attempts
    BY <1>7, <2>1, PlanOrdersAssumption
  <2>3. order' \in [Orders -> Row] /\ \A u \in Orders : order'[u].of < u
    <3> HIDE DEF n
    <3> QED
      BY <1>1, <1>7, <2>1, <2>2 DEF TInv, POTypeOK, Row
  <2>4. Remain
    BY <1>1, <1>7, <2>1 DEF TInv, POTypeOK, Remain, Row
  <2>5. snap' \in [Snaps -> {"unknown", "open", "paid", "failed", "retried"}]
    BY <1>7 DEF TInv, POTypeOK
  <2>6. job' \in [Handlers -> Job] /\ NamedRaised'
    BY <1>4, <1>7, <2>4, GoesType
  <2> QED
    BY <1>2, <2>3, <2>5, <2>6 DEF TInv, POTypeOK
<1> QED
  BY <1>5, <1>6, <1>7 DEF Start

LEMMA AskType ==
    ASSUME TInv, NEW h \in Handlers,
           \/ Refused(h) \/ Dies(h)
           \/ \E o \in Orders : Load(h, o)
           \/ \E s \in Snaps : Notify(h, s[1], s[2])
           \/ \E e \in Events, o \in Orders : LoadReassign(h, e, o)
    PROVE  TInv'
<1>1. Idle \in Job /\ Names(Idle) = {}
  BY DEF Job, Idle, Names
<1>2. CASE Refused(h) \/ Dies(h)
  BY <1>1, <1>2, AskingType DEF Refused, Dies, outside
<1>3. ASSUME NEW o \in Orders, Load(h, o) PROVE TInv'
  <2> DEFINE to == [op |-> "seen", order |-> o, row |-> order[o]]
  <2>1. order[o] \in Row
    BY DEF TInv, POTypeOK
  <2>2. to \in Job /\ Names(to) = {o} /\ order[o].status # "none"
    BY <1>3, <2>1, JobMade DEF Names, Load
  <2>3. Goes(h, to) /\ UNCHANGED <<order, event, gatewayUp, switched, snap>>
    BY <1>3 DEF Load, Begins, outside
  <2> HIDE DEF to
  <2>4. PICK j \in Job : j = to
    BY <2>2
  <2> QED
    BY <2>2, <2>3, <2>4, AskingType
<1>4. ASSUME NEW s \in Snaps, Notify(h, s[1], s[2]) PROVE TInv'
  <2>1. PICK o \in Orders : o = s[1]
    BY DEF Snaps
  <2>2. order[o] \in Row
    BY DEF TInv, POTypeOK
  <2>3. PICK j \in Job : Goes(h, j) /\ Names(j) = {}
    <3>1. \/ Goes(h, [op |-> "activate", order |-> o, row |-> order[o]])
          \/ \E status \in {"past_due", "cancelled"} :
               Goes(h, [op |-> "write", order |-> o, row |-> order[o], status |-> status])
      BY <1>4, <2>1 DEF Notify, Begins
    <3> QED
      BY <2>2, <3>1, JobMade DEF Names
  <2> QED
    BY <1>4, <2>3, AskingType DEF Notify, outside
<1>5. ASSUME NEW e \in Events, NEW o \in Orders, LoadReassign(h, e, o) PROVE TInv'
  <2> DEFINE to == [op |-> "reassign", event |-> e, order |-> o, plan |-> event[e].plan,
                    to |-> order[o].plan]
  <2>1. to \in Job /\ Names(to) = {}
    BY DEF TInv, POTypeOK, Row, Job, Names
  <2>2. Goes(h, to) /\ UNCHANGED <<order, event, gatewayUp, switched, snap>>
    BY <1>5 DEF LoadReassign, Begins, outside
  <2> HIDE DEF to
  <2>3. PICK j \in Job : j = to
    BY <2>1
  <2> QED
    BY <2>1, <2>2, <2>3, AskingType
<1> QED
  BY <1>2, <1>3, <1>4, <1>5

LEMMA SettleType ==
    ASSUME TInv, NEW h \in Handlers,
           PayAgain(h) \/ Activate(h) \/ WriteStatus(h) \/ SubmitProof(h) \/ Approve(h) \/ Reject(h)
    PROVE  TInv'
<1> DEFINE o == job[h].order
           copy == job[h].row
<1>1. job[h].op \in {"seen", "activate", "write"} /\ o \in Orders /\ copy \in Row
  BY JobKinds DEF PayAgain, Activate, WriteStatus, SubmitProof, Approve, Reject, Running, TInv, POTypeOK
<1>2. Idle \in Job /\ Idle.op \notin {"raise", "seen"}
  BY DEF Job, Idle
<1>3. UNCHANGED <<event, gatewayUp, switched, snap>>
  BY DEF PayAgain, Activate, WriteStatus, SubmitProof, Approve, Reject, outside
<1>4. CASE PayAgain(h)
  BY <1>1, <1>3, <1>4, ReopenType DEF PayAgain
<1>5. CASE Activate(h)
  <2> DEFINE paid == [copy EXCEPT !.status = "paid", !.paidAt = TRUE]
  <2>1. paid \in Row /\ paid.of = copy.of /\ paid.status # "none"
    BY <1>1 DEF Row
  <2>2. PICK j \in Job : Goes(h, j) /\ j.op \notin {"raise", "seen"}
    <3>1. \/ Goes(h, Idle)
          \/ Goes(h, [op |-> "apply", order |-> o, row |-> paid]) /\ paid.of # Unraised
      BY <1>5, <2>1 DEF Activate
    <3> QED
      BY <1>1, <1>2, <2>1, <3>1, JobMade
  <2>3. Save(o, copy, paid)
    BY <1>5 DEF Activate
  <2> QED
    BY <1>1, <1>3, <2>1, <2>2, <2>3, WritingType
<1>6. CASE WriteStatus(h)
  <2> DEFINE new == [copy EXCEPT !.status = job[h].status]
  <2>1. job[h].status \in {"past_due", "cancelled"}
    BY <1>6, JobKinds DEF WriteStatus, Running, TInv, POTypeOK
  <2>2. new \in Row /\ new.of = copy.of /\ new.status # "none"
    BY <1>1, <2>1 DEF Row
  <2>3. Save(o, copy, new) /\ Goes(h, Idle)
    BY <1>6 DEF WriteStatus
  <2> QED
    BY <1>1, <1>2, <1>3, <2>2, <2>3, WritingType
<1>7. CASE SubmitProof(h)
  <2>1. [copy EXCEPT !.proof = TRUE] \in Row
    BY <1>1 DEF Row
  <2>2. [copy EXCEPT !.proof = TRUE].of = copy.of /\ [copy EXCEPT !.proof = TRUE].status = copy.status
    BY <1>1 DEF Row
  <2> QED
    BY <1>1, <1>2, <1>3, <1>7, <2>1, <2>2, WritingType DEF SubmitProof
<1>8. CASE Approve(h)
  <2> DEFINE new == [copy EXCEPT !.verified = TRUE]
  <2>1. new \in Row /\ new.of = copy.of /\ new.status = copy.status
    BY <1>1 DEF Row
  <2>2. Save(o, copy, new)
    BY <1>8 DEF Approve
  <2>3. order'[o] \in Row
    BY <1>1, <2>1, <2>2, SaveType DEF TInv
  <2>4. PICK r \in Row : r = order'[o]
    BY <2>3
  <2>5. PICK j \in Job : j = [op |-> "activate", order |-> o, row |-> r]
    BY <1>1, JobMade
  <2>6. Goes(h, j)
    BY <1>8, <2>4, <2>5 DEF Approve
  <2> QED
    BY <1>1, <1>3, <2>1, <2>2, <2>5, <2>6, WritingType
<1>9. CASE Reject(h)
  <2>1. [copy EXCEPT !.proof = FALSE] \in Row
    BY <1>1 DEF Row
  <2>2. [copy EXCEPT !.proof = FALSE].of = copy.of /\ [copy EXCEPT !.proof = FALSE].status = copy.status
    BY <1>1 DEF Row
  <2> QED
    BY <1>1, <1>2, <1>3, <1>9, <2>1, <2>2, WritingType DEF Reject
<1> QED
  BY <1>4, <1>5, <1>6, <1>7, <1>8, <1>9

\* Orders that change in nothing but their event.
Respent(rows) ==
    /\ rows \in [Orders -> Row]
    /\ \A o \in Orders : \A f \in DOMAIN Blank \ {"event"} : rows[o][f] = order[o][f]

LEMMA RespentType ==
    ASSUME POTypeOK, Respent(order')
    PROVE  order' \in [Orders -> Row] /\ (\A u \in Orders : order'[u].of < u) /\ Remain
  BY BlankFields DEF POTypeOK, Respent, Remain

LEMMA FreeType ==
    ASSUME POTypeOK, NEW e
    PROVE  /\ Respent(Free(e))
           /\ \A o \in Orders : Free(e)[o].event = IF order[o].event = e THEN NoEvent ELSE order[o].event
<1>1. ASSUME NEW o \in Orders
      PROVE  /\ [order[o] EXCEPT !.event = IF @ = e THEN NoEvent ELSE @] \in Row
             /\ \A f \in DOMAIN Blank \ {"event"} :
                  [order[o] EXCEPT !.event = IF @ = e THEN NoEvent ELSE @][f] = order[o][f]
  BY BlankFields DEF POTypeOK, Row
<1> QED
  BY <1>1 DEF Free, Respent, POTypeOK, Row

LEMMA SpentType ==
    ASSUME POTypeOK, NEW rows, Respent(rows), NEW o, NEW e \in Events \cup {NoEvent}
    PROVE  /\ Respent([rows EXCEPT ![o].event = e])
           /\ \A u \in Orders :
                [rows EXCEPT ![o].event = e][u].event = IF u = o THEN e ELSE rows[u].event
<1>1. ASSUME NEW u \in Orders
      PROVE  /\ [rows[u] EXCEPT !.event = e] \in Row
             /\ \A f \in DOMAIN Blank \ {"event"} : [rows[u] EXCEPT !.event = e][f] = rows[u][f]
  BY BlankFields DEF Respent, Row
<1> DEFINE next == [rows EXCEPT ![o].event = e]
<1>2. next = [u \in Orders |-> IF u = o THEN [rows[u] EXCEPT !.event = e] ELSE rows[u]]
  BY DEF Respent
<1>3. \A u \in Orders : next[u] = IF u = o THEN [rows[u] EXCEPT !.event = e] ELSE rows[u]
  BY <1>2
<1>4. next \in [Orders -> Row]
  <2> HIDE DEF next
  <2>1. \A u \in Orders : next[u] \in Row
    BY <1>1, <1>3 DEF Respent
  <2>2. next = [u \in Orders |-> next[u]]
    BY <1>2
  <2> QED
    BY <2>1, <2>2
<1>5. \A u \in Orders : \A f \in DOMAIN Blank \ {"event"} : next[u][f] = order[u][f]
  <2> HIDE DEF next
  <2> TAKE u \in Orders
  <2> TAKE f \in DOMAIN Blank \ {"event"}
  <2>1. rows[u][f] = order[u][f]
    BY DEF Respent
  <2>2. [rows[u] EXCEPT !.event = e][f] = rows[u][f]
    BY <1>1
  <2> QED
    BY <1>3, <2>1, <2>2
<1>6. \A u \in Orders : next[u].event = IF u = o THEN e ELSE rows[u].event
  <2>1. \A u \in Orders : [rows[u] EXCEPT !.event = e].event = e
    BY DEF Respent, Row
  <2> HIDE DEF next
  <2> QED
    BY <1>3, <2>1
<1> QED
  BY <1>4, <1>5, <1>6 DEF Respent

LEMMA OrderItself == ASSUME POTypeOK PROVE Respent(order)
  BY DEF Respent, POTypeOK

\* A step that spends credits or gives them back.
LEMMA SpendingType ==
    ASSUME TInv, Respent(order'),
           event' \in [Events -> [status : {"none", "draft", "open", "gone"}, plan : Plans]],
           UNCHANGED <<gatewayUp, switched, snap>>,
           \/ UNCHANGED job
           \/ \E h \in Handlers, to \in Job : Goes(h, to) /\ Names(to) = {}
    PROVE  TInv'
<1>1. order' \in [Orders -> Row] /\ (\A u \in Orders : order'[u].of < u) /\ Remain
  BY RespentType DEF TInv
<1>2. job' \in [Handlers -> Job] /\ NamedRaised'
  <2>1. CASE UNCHANGED job
    <3>1. \A h \in Handlers : Names(job[h])' = Names(job[h]) /\ Names(job[h]) \subseteq Orders
      BY <2>1 DEF Names
    <3> QED
      BY <1>1, <2>1, <3>1 DEF TInv, POTypeOK, NamedRaised, Remain
  <2>2. ASSUME NEW h \in Handlers, NEW to \in Job, Goes(h, to), Names(to) = {}
        PROVE  job' \in [Handlers -> Job] /\ NamedRaised'
    BY <1>1, <2>2, GoesType
  <2> QED
    BY <2>1, <2>2
<1> QED
  BY <1>1, <1>2 DEF TInv, POTypeOK

LEMMA GivenType ==
    ASSUME POTypeOK, NEW e, NEW p \in Plans
    PROVE  [event EXCEPT ![e].plan = p]
              \in [Events -> [status : {"none", "draft", "open", "gone"}, plan : Plans]]
<1>1. \A d \in Events : [event[d] EXCEPT !.plan = p]
         \in [status : {"none", "draft", "open", "gone"}, plan : Plans]
  BY DEF POTypeOK
<1>2. [event EXCEPT ![e].plan = p] =
         [d \in Events |-> IF d = e THEN [event[d] EXCEPT !.plan = p] ELSE event[d]]
  BY DEF POTypeOK
<1> QED
  BY <1>1, <1>2 DEF POTypeOK

LEMMA ApplyType ==
    ASSUME TInv, NEW h \in Handlers, Apply(h)
    PROVE  TInv'
<1> DEFINE o == job[h].order
           copy == job[h].row
           e == Inherited(copy)
           freed == [order EXCEPT ![copy.of].event = NoEvent]
           handed == IF copy.event = e THEN freed ELSE [freed EXCEPT ![o].event = e]
<1>1. job[h].op = "apply" /\ o \in Orders /\ copy \in Row
  BY JobKinds DEF Apply, Running, TInv, POTypeOK
<1>2. Goes(h, Idle) /\ UNCHANGED <<gatewayUp, switched, snap>> /\ Idle \in Job /\ Names(Idle) = {}
  BY DEF Apply, outside, Job, Idle, Names
<1>3. Respent(order) /\ Respent(freed)
  BY OrderItself, SpentType DEF TInv
<1>4. ASSUME e # NoEvent, Unique(handed), order' = handed, GivePlan(e, copy.plan) PROVE TInv'
  <2>1. copy.plan \in Plans
    BY <1>1 DEF Row
  <2>2. event' \in [Events -> [status : {"none", "draft", "open", "gone"}, plan : Plans]]
    BY <1>4, <2>1, GivenType DEF GivePlan, TInv
  <2>3. handed = freed \/ e \in Events
    <3>1. e = copy.event \/ e = order[copy.of].event
      BY DEF Inherited
    <3>2. copy.of \in Orders
      BY <1>1, JobKinds DEF TInv, POTypeOK, Row
    <3> QED
      BY <1>1, <1>4, <3>1, <3>2 DEF TInv, POTypeOK, Row
  <2>4. Respent(handed)
    <3> HIDE DEF freed, e
    <3> QED
      BY <1>3, <2>3, SpentType DEF TInv
  <2> QED
    BY <1>2, <1>4, <2>2, <2>4, SpendingType
<1>5. event \in [Events -> [status : {"none", "draft", "open", "gone"}, plan : Plans]]
  BY DEF TInv, POTypeOK
<1>6. CASE UNCHANGED event /\ order' \in {order, freed}
  BY <1>2, <1>3, <1>5, <1>6, SpendingType
<1> QED
  BY <1>4, <1>6 DEF Apply

LEMMA SpendType ==
    ASSUME TInv,
           \/ \E e \in Events, o \in Orders : CreateEvent(e, o)
           \/ \E e \in Events : Publish(e)
           \/ \E h \in Handlers : \/ \E e \in Events : ReleaseCredit(h, e)
                                  \/ DeleteEvent(h)
                                  \/ Reassign(h)
    PROVE  TInv'
<1> DEFINE Kept == [Events -> [status : {"none", "draft", "open", "gone"}, plan : Plans]]
<1>1. Respent(order) /\ event \in Kept
  BY OrderItself DEF TInv, POTypeOK
<1>2. ASSUME NEW e \in Events, NEW o \in Orders, CreateEvent(e, o) PROVE TInv'
  <2>1. Respent(order')
    <3>1. order' = [order EXCEPT ![o].event = e]
      BY <1>2 DEF CreateEvent
    <3> QED
      BY <1>1, <3>1, SpentType DEF TInv
  <2>2. event' \in Kept
    <3>1. [status |-> "draft", plan |-> order[o].plan] \in [status : {"draft"}, plan : Plans]
      BY DEF TInv, POTypeOK, Row
    <3> QED
      BY <1>1, <1>2, <3>1 DEF CreateEvent
  <2> QED
    BY <1>2, <2>1, <2>2, SpendingType DEF CreateEvent, outside
<1>3. ASSUME NEW e \in Events, Publish(e) PROVE TInv'
  <2>1. event' \in Kept
    BY <1>1, <1>3 DEF Publish
  <2>2. Respent(order')
    BY <1>1, <1>3 DEF Publish, Respent
  <2> QED
    BY <1>3, <2>1, <2>2, SpendingType DEF Publish, outside
<1>4. ASSUME NEW h \in Handlers, NEW e \in Events, ReleaseCredit(h, e) PROVE TInv'
  <2>1. Respent(order') /\ event' \in Kept
    BY <1>1, <1>4, FreeType DEF ReleaseCredit, TInv
  <2>2. [op |-> "delete", event |-> e] \in Job /\ Names([op |-> "delete", event |-> e]) = {}
    BY DEF Job, Names
  <2> QED
    BY <1>4, <2>1, <2>2, SpendingType DEF ReleaseCredit, Begins, outside
<1>5. Idle \in Job /\ Names(Idle) = {}
  BY DEF Job, Idle, Names
<1>6. ASSUME NEW h \in Handlers, DeleteEvent(h) PROVE TInv'
  <2>1. Respent(order')
    BY <1>6, FreeType DEF DeleteEvent, TInv
  <2>2. event' \in Kept
    BY <1>1, <1>6 DEF DeleteEvent
  <2> QED
    BY <1>5, <1>6, <2>1, <2>2, SpendingType DEF DeleteEvent, outside
<1>7. ASSUME NEW h \in Handlers, Reassign(h) PROVE TInv'
  <2> DEFINE e == job[h].event
             o == job[h].order
  <2>1. e \in Events /\ o \in Orders /\ job[h].to \in Plans
    BY <1>7, JobKinds DEF Reassign, Running, TInv, POTypeOK
  <2>2. Respent(Free(e)) /\ Respent([Free(e) EXCEPT ![o].event = e])
    <3>1. Respent(Free(e))
      BY FreeType DEF TInv
    <3> QED
      BY <2>1, <3>1, SpentType DEF TInv
  <2>3. order' \in {order, [Free(e) EXCEPT ![o].event = e]}
    BY <1>7 DEF Reassign
  <2>4. event' = event \/ GivePlan(e, job[h].to)
    BY <1>7 DEF Reassign
  <2>5. event' \in Kept
    BY <1>1, <2>1, <2>4, GivenType DEF GivePlan, TInv
  <2>6. Respent(order')
    BY <1>1, <2>2, <2>3
  <2> QED
    BY <1>5, <1>7, <2>5, <2>6, SpendingType DEF Reassign, outside
<1> QED
  BY <1>2, <1>3, <1>4, <1>6, <1>7

LEMMA AroundType ==
    ASSUME TInv,
           \/ Sweep \/ SwitchGateway \/ UNCHANGED vars
           \/ \E s \in Snaps, outcome \in {"paid", "failed", "retried"} : SnapEnds(s, outcome)
    PROVE  TInv'
<1>1. CASE Sweep
  <2>1. PICK late \in SUBSET Stale :
          order' = [o \in Orders |-> IF o \in late THEN [order[o] EXCEPT !.status = "cancelled"]
                                                   ELSE order[o]]
    BY <1>1 DEF Sweep
  <2>2. \A o \in Orders : /\ [order[o] EXCEPT !.status = "cancelled"] \in Row
                          /\ [order[o] EXCEPT !.status = "cancelled"].of = order[o].of
                          /\ [order[o] EXCEPT !.status = "cancelled"].status = "cancelled"
    BY DEF TInv, POTypeOK, Row
  <2>3. /\ order' \in [Orders -> Row] /\ \A o \in Orders : order'[o].of < o
        /\ Remain
    BY <2>1, <2>2 DEF TInv, POTypeOK, Remain
  <2>4. UNCHANGED <<event, gatewayUp, switched, snap, job>>
    BY <1>1 DEF Sweep, outside
  <2>5. \A h \in Handlers : Names(job[h])' = Names(job[h])
    BY <2>4 DEF Names
  <2>6. NamedRaised'
    BY <2>3, <2>4, <2>5 DEF TInv, NamedRaised, Remain, Names
  <2> QED
    BY <2>3, <2>4, <2>6 DEF TInv, POTypeOK
<1>2. ASSUME UNCHANGED <<order, job>> PROVE NamedRaised'
  BY <1>2 DEF TInv, NamedRaised, Names
<1>3. CASE SwitchGateway
  BY <1>2, <1>3, PlanOrdersAssumption DEF SwitchGateway, TInv, POTypeOK
<1>4. CASE UNCHANGED vars
  BY <1>2, <1>4 DEF vars, TInv, POTypeOK
<1>5. ASSUME NEW s \in Snaps, NEW outcome \in {"paid", "failed", "retried"}, SnapEnds(s, outcome) PROVE TInv'
  BY <1>2, <1>5 DEF SnapEnds, TInv, POTypeOK
<1> QED
  BY <1>1, <1>3, <1>4, <1>5

LEMMA InitTInv == Init => TInv
<1> SUFFICES ASSUME Init PROVE TInv
  OBVIOUS
<1>1. \A o \in Orders : order[o] = Blank /\ Blank.of < o
  BY PlanOrdersAssumption DEF Init, Orders, Blank, Unraised
<1>2. order \in [Orders -> Row]
  BY <1>1, BlankRow DEF Init
<1>3. event \in [Events -> [status : {"none", "draft", "open", "gone"}, plan : Plans]]
  <2>1. Blank.plan \in Plans
    BY BlankRow DEF Row
  <2> QED
    BY <2>1 DEF Init
<1>4. switched \in 0..Switches
  BY PlanOrdersAssumption DEF Init
<1>5. job \in [Handlers -> Job] /\ NamedRaised
  BY DEF Init, Job, Idle, NamedRaised, Names
<1> QED
  BY <1>1, <1>2, <1>3, <1>4, <1>5 DEF TInv, POTypeOK, Init

LEMMA NextTInv == TInv /\ [Next]_vars => TInv'
<1> SUFFICES ASSUME TInv, [Next]_vars PROVE TInv'
  OBVIOUS
<1>1. ASSUME NEW h \in Handlers,
             \/ \E p \in Plans, coded \in BOOLEAN : Checkout(h, p, coded)
             \/ \E p \in Plans : Upgrade(h, p)
             \/ Raise(h) \/ Start(h) \/ Apply(h)
      PROVE  TInv'
  BY <1>1, CheckoutType, UpgradeType, RaiseType, StartType, ApplyType
<1> QED
  BY <1>1, AskType, SettleType, SpendType, AroundType DEF Next

LEMMA TInvariant == Spec => []TInv
<1>1. TInv /\ [Next]_vars => TInv'
  BY NextTInv
<1> QED
  BY <1>1, InitTInv, PTL DEF Spec

\* Every reachable state of an organization's plan orders is well-typed, for any number of orders,
\* events and overlapping requests; in particular no upgrade is billed below zero and the
\* chain paidTowardsPlan() walks ends.
THEOREM PlanTypeCorrect == Spec => []POTypeOK
<1>1. TInv => POTypeOK
  BY DEF TInv
<1> QED
  BY <1>1, TInvariant, PTL

-----------------------------------------------------------------------------
(***************************************************************************)
(* Requests one after another.                                             *)
(***************************************************************************)
OneHandler == \A g, h \in Handlers : g = h

\* Nobody else writes, so that a copy is what its order still is.
Sees(j) == j.op \in {"start", "seen", "activate", "apply", "write"} => j.row = order[j.order]

\* A bill that was at Midtrans and has been approved as a transfer: its Midtrans id can
\* still bring it down.
NoStray == \A o \in Orders : ~(order[o].snap > 0 /\ order[o].verified)

\* What Midtrans knows of the order's last transaction.
Last(o) == snap[<<o, order[o].snap>>]
Collected == {"paid", "retried"}

Fresh(row) ==
    /\ row.status = "past_due" /\ row.event = NoEvent /\ row.snap = 0
    /\ ~row.proof /\ ~row.verified /\ ~row.paidAt
    /\ row.of # Unraised => order[row.of].paidAt

\* What a request has found out when it is about to write.
Means(j) ==
    /\ j.op = "raise" => Fresh(j.row)
    /\ j.op = "start" => j.row.status = "past_due"
    /\ j.op = "activate" => /\ j.row.status # "none"
                            /\ j.row.snap = 0 \/ j.row.verified \/ Last(j.order) \in Collected
    /\ j.op = "write" => j.row.snap > 0 /\ (NoStray => ~j.row.paidAt)
    /\ j.op = "apply" => j.row.paidAt
    /\ j.op = "delete" => event[j.event].status = "draft" /\ Holders(j.event) = {}
    /\ j.op = "reassign" => /\ Exists(j.event) /\ j.order \in Unconsumed
                            /\ j.plan = event[j.event].plan /\ j.to = order[j.order].plan

Requests == \A h \in Handlers : Sees(job[h]) /\ Means(job[h])

RowStands(o) ==
    /\ order[o].status = "none" => order[o] = Blank
    /\ order[o].of # Unraised => order[order[o].of].paidAt
    /\ order[o].status = "paid" => order[o].paidAt
    /\ order[o].event # NoEvent => order[o].paidAt /\ Exists(order[o].event)
    /\ order[o].verified => order[o].proof
    /\ order[o].amount = 0 => order[o].snap = 0
    /\ order[o].status = "cancelled" /\ order[o].snap = 0 => ~order[o].proof

PaidStands(o) ==
    order[o].paidAt => order[o].status = "paid" /\ (order[o].snap > 0 => Last(o) \in Collected)

Rows ==
    /\ \A o \in Orders : RowStands(o)
    /\ Unique(order)
    /\ NoStray => \A o \in Orders : PaidStands(o)
    /\ HolderGivesPlan

SInv == TInv /\ Requests /\ Rows

LEMMA RowsKept == Rows /\ UNCHANGED <<order, event, snap>> => Rows'
  BY DEF Rows, RowStands, Unique, NoStray, PaidStands, Last, HolderGivesPlan, Exists, Holders

\* The one request there is goes on.
LEMMA RequestGoes ==
    ASSUME OneHandler, TInv, NEW h \in Handlers, NEW to, Goes(h, to), Sees(to)', Means(to)'
    PROVE  Requests'
<1>1. \A g \in Handlers : job'[g] = to
  BY DEF OneHandler, Goes, TInv, POTypeOK
<1>2. ASSUME NEW g \in Handlers PROVE Sees(job[g])' /\ Means(job[g])'
  <2>1. job'[g] = to
    BY <1>1
  <2> QED
    BY <2>1 DEF Sees, Means, Last, NoStray
<1> QED
  BY <1>2 DEF Requests

\* One order is written, and neither its event nor what it is an order of.
LEMMA OneRowWritten ==
    ASSUME POTypeOK, Rows, NEW o \in Orders, NEW new \in Row,
           order' = [order EXCEPT ![o] = new], UNCHANGED <<event, snap>>,
           /\ new.event = order[o].event /\ new.plan = order[o].plan /\ new.of = order[o].of
           /\ new.amount = order[o].amount /\ new.snap = order[o].snap,
           new.status # "none",
           order[o].paidAt => new.paidAt,
           new.status = "paid" => new.paidAt,
           order[o].verified => new.verified,
           new.verified => new.proof,
           new.status = "cancelled" /\ new.snap = 0 => ~new.proof,
           NoStray /\ (new.snap > 0 => ~new.verified) /\ new.paidAt
             => new.status = "paid" /\ (new.snap > 0 => Last(o) \in Collected)
    PROVE  Rows' /\ (NoStray' => NoStray)
<1>1. \A u \in Orders : order'[u] = IF u = o THEN new ELSE order[u]
  BY DEF POTypeOK
<1>2. NoStray' => NoStray /\ (new.snap > 0 => ~new.verified)
  BY <1>1 DEF NoStray
<1>3. ASSUME NEW u \in Orders PROVE RowStands(u)'
  <2>1. order[u].of # Unraised => order'[order[u].of].paidAt
    BY <1>1, <1>3 DEF Rows, RowStands, POTypeOK, Row
  <2>2. Exists(order[u].event)' <=> Exists(order[u].event)
    BY <1>1 DEF Exists
  <2> QED
    BY <1>1, <2>1 DEF Rows, RowStands, Exists
<1>4. Unique(order')
  BY <1>1 DEF Rows, Unique
<1>5. ASSUME NoStray', NEW u \in Orders PROVE PaidStands(u)'
  <2>1. Last(u)' = Last(u)
    BY <1>1 DEF Last
  <2> QED
    BY <1>1, <1>2, <1>5, <2>1 DEF Rows, PaidStands
<1>6. HolderGivesPlan'
  <2>1. \A e \in Events : Holders(e)' = Holders(e)
    BY <1>1 DEF Holders
  <2>2. \A u \in Orders : order'[u].plan = order[u].plan
    BY <1>1
  <2> QED
    BY <2>1, <2>2 DEF Rows, HolderGivesPlan, Exists, Holders
<1>7. Unique(order)'
  BY <1>4 DEF Unique
<1> QED
  BY <1>2, <1>3, <1>5, <1>6, <1>7 DEF Rows

\* A request finds something out and writes nothing.
LEMMA AskingServes ==
    ASSUME OneHandler, SInv, NEW h \in Handlers, NEW to, Goes(h, to),
           UNCHANGED <<order, event, snap>>, Sees(to), Means(to)
    PROVE  Requests' /\ Rows'
<1>1. Sees(to)' /\ Means(to)'
  BY DEF Sees, Means, Last, NoStray, Fresh, Exists, Holders, Unconsumed, Superseded, Upgrades
<1> QED
  BY <1>1, RequestGoes, RowsKept DEF SInv

LEMMA CheckoutServes ==
    ASSUME OneHandler, SInv, NEW h \in Handlers, NEW p \in Plans, NEW coded \in BOOLEAN,
           Checkout(h, p, coded)
    PROVE  Requests' /\ Rows'
<1> DEFINE amount == Price[p] - IF coded THEN DiscountFor(p) ELSE 0
           row == [Blank EXCEPT !.status = "past_due", !.plan = p, !.coded = coded,
                                !.amount = amount]
           to == [op |-> "raise", row |-> Billed(row)]
<1>1. Fresh(Billed(row))
  <2> HIDE DEF amount
  <2> QED
    BY DEF Fresh, Billed, Blank
<1>2. Sees(to) /\ Means(to)
  <2> HIDE DEF row
  <2> QED
    BY <1>1 DEF Sees, Means
<1>3. Goes(h, to) /\ UNCHANGED <<order, event, snap>>
  BY DEF Checkout, Begins, outside
<1> HIDE DEF to
<1> QED
  BY <1>2, <1>3, AskingServes

LEMMA AskServes ==
    ASSUME OneHandler, SInv, NEW h \in Handlers,
           \/ Refused(h) \/ Dies(h)
           \/ \E o \in Orders : Load(h, o)
           \/ \E s \in Snaps : Notify(h, s[1], s[2])
           \/ \E e \in Events, o \in Orders : LoadReassign(h, e, o)
    PROVE  Requests' /\ Rows'
<1>1. CASE Refused(h) \/ Dies(h)
  <2>1. Sees(Idle) /\ Means(Idle)
    BY DEF Sees, Means, Idle
  <2> QED
    BY <1>1, <2>1, AskingServes DEF Refused, Dies, outside
<1>2. ASSUME NEW o \in Orders, Load(h, o) PROVE Requests' /\ Rows'
  <2>1. PICK to : to = [op |-> "seen", order |-> o, row |-> order[o]]
    OBVIOUS
  <2>2. Sees(to) /\ Means(to)
    BY <2>1 DEF Sees, Means
  <2> QED
    BY <1>2, <2>1, <2>2, AskingServes DEF Load, Begins, outside
<1>3. ASSUME NEW s \in Snaps, Notify(h, s[1], s[2]) PROVE Requests' /\ Rows'
  <2>1. PICK o \in Orders : o = s[1]
    BY DEF Snaps
  <2>2. order[o].snap = s[2] /\ s[2] > 0 /\ s = <<o, order[o].snap>>
    BY <1>3, <2>1, PlanOrdersAssumption DEF Notify, Knows, Snaps
  <2>3. NoStray /\ order[o].paidAt => Last(o) \in Collected
    BY <2>2 DEF SInv, Rows, PaidStands
  <2>4. PICK to :
          /\ \/ /\ snap[<<o, order[o].snap>>] \in Collected
                /\ to = [op |-> "activate", order |-> o, row |-> order[o]]
             \/ /\ snap[<<o, order[o].snap>>] = "failed"
                /\ to = [op |-> "write", order |-> o, row |-> order[o], status |-> "cancelled"]
             \/ /\ snap[<<o, order[o].snap>>] = "open"
                /\ to = [op |-> "write", order |-> o, row |-> order[o], status |-> "past_due"]
          /\ Goes(h, to)
    BY <1>3, <2>1, <2>2 DEF Collected, Notify, Begins
  <2>5. order[o].status # "none"
    <3>1. order[o].status = "none" => order[o] = Blank
      BY DEF SInv, Rows, RowStands
    <3>2. Blank.snap = 0
      BY DEF Blank
    <3> QED
      BY <2>2, <3>1, <3>2
  <2>6. Sees(to) /\ Means(to)
    BY <2>2, <2>3, <2>4, <2>5 DEF Collected, Sees, Means, Last
  <2> QED
    BY <1>3, <2>4, <2>6, AskingServes DEF Notify, outside
<1>4. ASSUME NEW e \in Events, NEW o \in Orders, LoadReassign(h, e, o) PROVE Requests' /\ Rows'
  <2>1. PICK to : to = [op |-> "reassign", event |-> e, order |-> o, plan |-> event[e].plan,
                        to |-> order[o].plan]
    OBVIOUS
  <2>2. Sees(to) /\ Means(to)
    BY <1>4, <2>1 DEF Sees, Means, LoadReassign
  <2> QED
    BY <1>4, <2>1, <2>2, AskingServes DEF LoadReassign, Begins, outside
<1> QED
  BY <1>1, <1>2, <1>3, <1>4

\* A bill is reopened: only its rail may change.
LEMMA ReopenServes ==
    ASSUME OneHandler, SInv, NEW h \in Handlers, NEW o \in Orders, Reopen(h, o, order[o]),
           order[o].status = "past_due", UNCHANGED <<event, snap>>
    PROVE  Requests' /\ Rows'
<1>1. PICK row \in Row : row = order[o]
  BY DEF SInv, TInv, POTypeOK
<1>2. PICK new \in Row : new = Billed(row) /\ \A f \in DOMAIN Blank \ {"method"} : new[f] = row[f]
  BY BilledRow
<1>3. Save(o, row, new) /\ Goes(h, [op |-> "start", order |-> o, row |-> new])
  BY <1>1, <1>2 DEF Reopen
<1>4. order' = [order EXCEPT ![o] = new]
  <2>1. order' = [order EXCEPT ![o] = Merged(row, row, new)]
    BY <1>1, <1>3 DEF Save, Merged
  <2> QED
    BY <2>1, MergedRow
<1>5. Rows'
  <2>1. /\ new.event = order[o].event /\ new.plan = order[o].plan /\ new.of = order[o].of
        /\ new.amount = order[o].amount /\ new.snap = order[o].snap /\ new.proof = order[o].proof
        /\ new.status = "past_due" /\ new.paidAt = order[o].paidAt
        /\ new.verified = order[o].verified
    BY <1>1, <1>2, BlankFields
  <2>2. RowStands(o) /\ (NoStray => PaidStands(o))
    BY DEF SInv, Rows
  <2> QED
    BY <1>4, <2>1, <2>2, OneRowWritten DEF SInv, TInv, RowStands, PaidStands
<1>6. PICK to : to = [op |-> "start", order |-> o, row |-> new]
  OBVIOUS
<1>7. Sees(to)' /\ Means(to)'
  BY <1>1, <1>2, <1>4, <1>6, BlankFields DEF Sees, Means, SInv, TInv, POTypeOK
<1> QED
  BY <1>3, <1>5, <1>6, <1>7, RequestGoes DEF SInv

\* A copy that is still what its order is: saving it writes the order.
LEMMA SavedWrites ==
    ASSUME SInv, NEW o \in Orders, NEW row, row = order[o], NEW new \in Row, Save(o, row, new)
    PROVE  order' = [order EXCEPT ![o] = new] /\ order'[o] = new
<1>1. PICK r \in Row : r = order[o]
  BY DEF SInv, TInv, POTypeOK
<1>2. order' = [order EXCEPT ![o] = Merged(r, r, new)]
  BY <1>1 DEF Save, Merged
<1>3. Merged(r, r, new) = new
  BY MergedRow
<1> QED
  BY <1>2, <1>3 DEF SInv, TInv, POTypeOK

LEMMA SettleServes ==
    ASSUME OneHandler, SInv, NEW h \in Handlers,
           PayAgain(h) \/ Activate(h) \/ WriteStatus(h) \/ SubmitProof(h) \/ Approve(h) \/ Reject(h)
    PROVE  Requests' /\ Rows'
<1>1. job[h].op \in {"seen", "activate", "write"}
  BY DEF PayAgain, Activate, WriteStatus, SubmitProof, Approve, Reject, Running
<1>2. PICK o \in Orders : o = job[h].order
  BY <1>1, JobKinds DEF SInv, TInv, POTypeOK
<1>3. PICK row \in Row : row = order[o] /\ row = job[h].row
  BY <1>1, <1>2, JobKinds DEF SInv, TInv, POTypeOK, Requests, Sees
<1>4. RowStands(o) /\ (NoStray => PaidStands(o)) /\ Means(job[h])
  BY DEF SInv, Rows, Requests
<1>5. row.status # "none" \/ row.snap > 0 \/ job[h].op = "activate"
  BY <1>1, <1>2, <1>3, <1>4 DEF SInv, TInv, NamedRaised, Names, Means
<1>6. UNCHANGED <<event, snap>>
  BY DEF PayAgain, Activate, WriteStatus, SubmitProof, Approve, Reject, outside
<1> DEFINE Asks(to) == Goes(h, to) /\ Sees(to)' /\ Means(to)'
<1>7. ASSUME NEW to, Goes(h, to), Sees(to)', Means(to)' PROVE Requests'
  BY <1>7, RequestGoes DEF SInv
<1>8. Sees(Idle)' /\ Means(Idle)'
  BY DEF Sees, Means, Idle
<1>9. CASE PayAgain(h)
  <2>1. Reopen(h, o, order[o]) /\ order[o].status = "past_due"
    BY <1>2, <1>3, <1>9 DEF PayAgain
  <2> QED
    BY <1>6, <2>1, ReopenServes
<1>10. CASE Activate(h)
  <2>1. PICK new \in Row : new = [row EXCEPT !.status = "paid", !.paidAt = TRUE]
    BY DEF Row
  <2>2. order' = [order EXCEPT ![o] = new] /\ order'[o] = new
    <3>1. Save(o, row, new)
      BY <1>2, <1>3, <1>10, <2>1 DEF Activate
    <3> QED
      BY <1>3, <3>1, SavedWrites
  <2>3. /\ new.event = row.event /\ new.plan = row.plan /\ new.of = row.of
        /\ new.amount = row.amount /\ new.snap = row.snap /\ new.proof = row.proof
        /\ new.status = "paid" /\ new.paidAt /\ new.verified = row.verified
    BY <2>1 DEF Row
  <2>4. row.snap = 0 \/ row.verified \/ Last(o) \in Collected
    BY <1>2, <1>3, <1>4, <1>10 DEF Means, Activate, Running
  <2>5. Rows'
    <3>1. row.verified => row.proof
      BY <1>3, <1>4 DEF RowStands
    <3>2. (new.snap > 0 => ~new.verified) => (new.snap > 0 => Last(o) \in Collected)
      BY <2>3, <2>4
    <3> QED
      BY <1>3, <1>6, <2>2, <2>3, <3>1, <3>2, OneRowWritten DEF SInv, TInv
  <2>6. PICK to : Goes(h, to) /\ (to = Idle \/ to = [op |-> "apply", order |-> o, row |-> new])
    BY <1>2, <1>3, <1>10, <2>1 DEF Activate
  <2>7. Sees(to)' /\ Means(to)'
    BY <1>8, <2>2, <2>3, <2>6 DEF Sees, Means
  <2> QED
    BY <1>7, <2>5, <2>6, <2>7
<1>11. CASE WriteStatus(h)
  <2>1. job[h].status \in {"past_due", "cancelled"} /\ job[h].op = "write"
    BY <1>11, JobKinds DEF WriteStatus, Running, SInv, TInv, POTypeOK
  <2>2. PICK new \in Row : new = [row EXCEPT !.status = job[h].status]
    BY <2>1 DEF Row
  <2>3. order' = [order EXCEPT ![o] = new]
    <3>1. Save(o, row, new)
      BY <1>2, <1>3, <1>11, <2>2 DEF WriteStatus
    <3> QED
      BY <1>3, <3>1, SavedWrites
  <2>4. /\ new.event = row.event /\ new.plan = row.plan /\ new.of = row.of
        /\ new.amount = row.amount /\ new.snap = row.snap /\ new.proof = row.proof
        /\ new.status \in {"past_due", "cancelled"}
        /\ new.paidAt = row.paidAt /\ new.verified = row.verified
    BY <2>1, <2>2 DEF Row
  <2>5. row.snap > 0 /\ (NoStray => ~row.paidAt)
    BY <1>3, <1>4, <2>1 DEF Means
  <2>6. new.snap # 0
    BY <2>4, <2>5, PlanOrdersAssumption DEF Row
  <2>7. Rows'
    BY <1>3, <1>4, <1>6, <2>3, <2>4, <2>5, <2>6, OneRowWritten DEF SInv, TInv, RowStands
  <2> QED
    BY <1>7, <1>8, <1>11, <2>7 DEF WriteStatus
<1>12. CASE SubmitProof(h)
  <2>1. PICK new \in Row : new = [row EXCEPT !.proof = TRUE]
    BY DEF Row
  <2>2. order' = [order EXCEPT ![o] = new] /\ row.status = "past_due"
    BY <1>2, <1>3, <1>12, <2>1, SavedWrites DEF SubmitProof
  <2>3. /\ new.event = row.event /\ new.plan = row.plan /\ new.of = row.of
        /\ new.amount = row.amount /\ new.snap = row.snap /\ new.proof
        /\ new.status = row.status /\ new.paidAt = row.paidAt /\ new.verified = row.verified
    BY <2>1 DEF Row
  <2>4. Rows'
    BY <1>3, <1>4, <1>6, <2>2, <2>3, OneRowWritten DEF SInv, TInv, RowStands, PaidStands
  <2> QED
    BY <1>7, <1>8, <1>12, <2>4 DEF SubmitProof
<1>13. CASE Approve(h)
  <2>1. PICK new \in Row : new = [row EXCEPT !.verified = TRUE]
    BY DEF Row
  <2>2. order' = [order EXCEPT ![o] = new] /\ order'[o] = new
    <3>1. Save(o, row, new)
      BY <1>2, <1>3, <1>13, <2>1 DEF Approve
    <3> QED
      BY <1>3, <3>1, SavedWrites
  <2>3. row.status # "paid" /\ row.proof /\ job[h].op = "seen"
    BY <1>3, <1>13 DEF Approve, Awaiting, Running
  <2>4. /\ new.event = row.event /\ new.plan = row.plan /\ new.of = row.of
        /\ new.amount = row.amount /\ new.snap = row.snap /\ new.proof = row.proof
        /\ new.status = row.status /\ new.paidAt = row.paidAt /\ new.verified
    BY <2>1 DEF Row
  <2>5. row.status # "none"
    BY <1>2, <1>3, <2>3 DEF SInv, TInv, NamedRaised, Names
  <2>6. Rows'
    BY <1>3, <1>4, <1>6, <2>2, <2>3, <2>4, <2>5, OneRowWritten DEF SInv, TInv, RowStands, PaidStands
  <2>7. PICK to : Goes(h, to) /\ to = [op |-> "activate", order |-> o, row |-> new]
    BY <1>2, <1>13, <2>2 DEF Approve
  <2>8. Sees(to)' /\ Means(to)'
    BY <2>2, <2>4, <2>5, <2>7 DEF Sees, Means
  <2> QED
    BY <1>7, <2>6, <2>7, <2>8
<1>14. CASE Reject(h)
  <2>1. PICK new \in Row : new = [row EXCEPT !.proof = FALSE]
    BY DEF Row
  <2>2. order' = [order EXCEPT ![o] = new]
    BY <1>2, <1>3, <1>14, <2>1, SavedWrites DEF Reject
  <2>3. row.status # "paid" /\ ~row.verified /\ job[h].op = "seen"
    BY <1>3, <1>14 DEF Reject, Awaiting, Running
  <2>4. /\ new.event = row.event /\ new.plan = row.plan /\ new.of = row.of
        /\ new.amount = row.amount /\ new.snap = row.snap /\ ~new.proof
        /\ new.status = row.status /\ new.paidAt = row.paidAt /\ new.verified = row.verified
    BY <2>1 DEF Row
  <2>5. row.status # "none"
    BY <1>2, <1>3, <2>3 DEF SInv, TInv, NamedRaised, Names
  <2>6. Rows'
    BY <1>3, <1>4, <1>6, <2>2, <2>3, <2>4, <2>5, OneRowWritten DEF SInv, TInv, RowStands, PaidStands
  <2> QED
    BY <1>7, <1>8, <1>14, <2>6 DEF Reject
<1> QED
  BY <1>9, <1>10, <1>11, <1>12, <1>13, <1>14

LEMMA UpgradeServes ==
    ASSUME OneHandler, SInv, NEW h \in Handlers, NEW p \in Plans, Upgrade(h, p)
    PROVE  Requests' /\ Rows'
<1> DEFINE unpaid == Upgrades(job[h].order, "past_due")
           latest == CHOOSE u \in unpaid : \A v \in unpaid : v <= u
           row(d) == [Blank EXCEPT !.status = "past_due", !.plan = p, !.of = job[h].order,
                                   !.amount = d]
<1>1. UNCHANGED <<event, snap>> /\ job[h].op = "seen" /\ job[h].row.status = "paid"
  BY DEF Upgrade, Running, outside
<1>2. CASE Reopen(h, latest, order[latest]) /\ unpaid # {}
  <2>1. unpaid \subseteq Orders
    BY DEF Upgrades
  <2>2. latest \in unpaid
    <3>1. \E u \in unpaid : \A v \in unpaid : v <= u
      <4> HIDE DEF unpaid
      <4> QED
        BY <1>2, <2>1, LastOf
    <3> HIDE DEF unpaid
    <3> QED
      BY <3>1
  <2>3. PICK l \in Orders : l = latest /\ order[l].status = "past_due"
    BY <2>1, <2>2 DEF Upgrades
  <2> QED
    BY <1>1, <1>2, <2>3, ReopenServes
<1>3. ASSUME NEW d, Goes(h, [op |-> "raise", row |-> Billed(row(d))]), UNCHANGED order
      PROVE  Requests' /\ Rows'
  <2>1. PICK to : to = [op |-> "raise", row |-> Billed(row(d))]
    OBVIOUS
  <2>2. PICK o \in Orders : o = job[h].order
    BY <1>1, JobKinds DEF SInv, TInv, POTypeOK
  <2>3. order[o].paidAt
    BY <1>1, <2>2 DEF SInv, Requests, Sees, Rows, RowStands
  <2>4. Fresh(Billed(row(d)))
    BY <2>2, <2>3 DEF Fresh, Billed, Blank
  <2>5. Sees(to) /\ Means(to)
    BY <2>1, <2>4 DEF Sees, Means
  <2> QED
    BY <1>1, <1>3, <2>1, <2>5, AskingServes
<1> QED
  BY <1>2, <1>3 DEF Upgrade

\* A new row.
LEMMA RaiseServes ==
    ASSUME OneHandler, SInv, NEW h \in Handlers, Raise(h)
    PROVE  Requests' /\ Rows'
<1>1. PICK row \in Row : row = job[h].row /\ Fresh(row)
  BY JobKinds DEF Raise, Running, SInv, TInv, POTypeOK, Requests, Means
<1>2. PICK o \in Orders :
         /\ \A other \in Orders : order[other].status = "none" <=> other >= o
         /\ order' = [order EXCEPT ![o] = row]
         /\ Goes(h, [op |-> "start", order |-> o, row |-> row])
  BY <1>1 DEF Raise
<1>3. UNCHANGED <<event, snap>>
  BY DEF Raise, outside
<1>4. \A u \in Orders : order'[u] = IF u = o THEN row ELSE order[u]
  BY <1>2 DEF SInv, TInv, POTypeOK
<1>5. order[o] = Blank
  BY <1>2, PlanOrdersAssumption DEF Orders, SInv, Rows, RowStands
<1>6. Rows'
  <2>1. order[o].event = NoEvent /\ ~order[o].paidAt /\ ~order[o].verified
    BY <1>5 DEF Blank
  <2>2. ASSUME NEW u \in Orders PROVE RowStands(u)'
    <3>1. CASE u = o
      <4>1. order'[o] = row
        BY <1>4
      <4>2. row.of # Unraised => order'[row.of].paidAt
        BY <1>1, <1>4, <2>1 DEF Fresh, Row
      <4> QED
        BY <1>1, <3>1, <4>1, <4>2 DEF RowStands, Fresh
    <3>2. CASE u # o
      <4>1. order'[u] = order[u] /\ RowStands(u)
        BY <1>4, <3>2 DEF SInv, Rows
      <4>2. order[u].of # Unraised => order'[order[u].of].paidAt
        BY <1>4, <2>1, <4>1 DEF RowStands, SInv, TInv, POTypeOK, Row
      <4> QED
        BY <1>3, <4>1, <4>2 DEF RowStands, Exists
    <3> QED
      BY <3>1, <3>2
  <2>3. Unique(order)'
    BY <1>1, <1>4 DEF Unique, Fresh, SInv, Rows
  <2>4. NoStray' => NoStray
    BY <1>4, <2>1 DEF NoStray
  <2>5. ASSUME NoStray', NEW u \in Orders PROVE PaidStands(u)'
    <3>1. u # o => Last(u)' = Last(u)
      BY <1>3, <1>4 DEF Last
    <3> QED
      BY <1>1, <1>4, <2>4, <2>5, <3>1 DEF PaidStands, Fresh, SInv, Rows
  <2>6. HolderGivesPlan'
    <3>1. \A e \in Events : Holders(e)' = Holders(e) /\ o \notin Holders(e)
      BY <1>1, <1>4, <2>1, PlanOrdersAssumption DEF Holders, Fresh
    <3> QED
      BY <1>3, <1>4, <3>1 DEF HolderGivesPlan, Exists, Holders, SInv, Rows
  <2> QED
    BY <2>2, <2>3, <2>5, <2>6 DEF Rows
<1>7. PICK to : to = [op |-> "start", order |-> o, row |-> row]
  OBVIOUS
<1>8. Sees(to)' /\ Means(to)'
  BY <1>1, <1>4, <1>7 DEF Sees, Means, Fresh
<1> QED
  BY <1>2, <1>6, <1>7, <1>8, RequestGoes DEF SInv

LEMMA StartServes ==
    ASSUME OneHandler, SInv, NEW h \in Handlers, Start(h)
    PROVE  Requests' /\ Rows'
<1>1. PICK row \in Row, o \in Orders : /\ row = job[h].row /\ o = job[h].order
                                       /\ row = order[o] /\ row.status = "past_due"
  BY JobKinds DEF Start, Running, SInv, TInv, POTypeOK, Requests, Sees, Means
<1>2. RowStands(o) /\ (NoStray => PaidStands(o))
  BY DEF SInv, Rows
<1>3. CASE row.amount = 0 /\ Goes(h, [job[h] EXCEPT !.op = "activate"]) /\ UNCHANGED <<order, snap>>
  <2>1. PICK to : to = [job[h] EXCEPT !.op = "activate"]
    OBVIOUS
  <2>2. to.op = "activate" /\ to.row = row /\ to.order = o
    <3>1. job[h] \in [op : {"start"}, order : Orders, row : Row]
      BY DEF Start, Running, SInv, TInv, POTypeOK, Job, Idle
    <3> QED
      BY <1>1, <2>1, <3>1
  <2>3. Sees(to) /\ Means(to)
    BY <1>1, <1>2, <1>3, <2>2 DEF Sees, Means, RowStands
  <2> QED
    BY <1>3, <2>1, <2>3, AskingServes DEF Start
<1>4. Sees(Idle) /\ Means(Idle) /\ Sees(Idle)' /\ Means(Idle)'
  BY DEF Sees, Means, Idle
<1>5. CASE Goes(h, Idle) /\ UNCHANGED <<order, snap>>
  BY <1>4, <1>5, AskingServes DEF Start
<1>6. ASSUME NEW n, n = row.snap + 1, row.amount > 0, Goes(h, Idle),
             snap' = [snap EXCEPT ![<<o, n>>] = "open"], order' = [order EXCEPT ![o].snap = n]
      PROVE  Requests' /\ Rows'
  <2>1. n > 0 /\ row.amount # 0
    BY <1>6, PlanOrdersAssumption DEF Row
  <2>2. PICK new : new = [row EXCEPT !.snap = n]
    OBVIOUS
  <2>3. \A u \in Orders : order'[u] = IF u = o THEN new ELSE order[u]
    BY <1>1, <1>6, <2>2 DEF SInv, TInv, POTypeOK
  <2>4. /\ new.event = row.event /\ new.plan = row.plan /\ new.of = row.of
        /\ new.amount = row.amount /\ new.snap = n /\ new.proof = row.proof
        /\ new.status = "past_due" /\ new.paidAt = row.paidAt /\ new.verified = row.verified
    BY <1>1, <2>2 DEF Row
  <2>5. UNCHANGED event
    BY DEF Start
  <2>6. ASSUME NEW u \in Orders PROVE RowStands(u)'
    <3>1. order[u].of # Unraised => order'[order[u].of].paidAt
      BY <1>1, <2>3, <2>4 DEF SInv, Rows, RowStands, TInv, POTypeOK, Row
    <3>2. RowStands(u)
      BY DEF SInv, Rows
    <3>3. CASE u = o
      BY <1>1, <2>1, <2>3, <2>4, <2>5, <3>1, <3>2, <3>3 DEF RowStands, Exists
    <3>4. CASE u # o
      BY <2>3, <2>5, <3>1, <3>2, <3>4 DEF RowStands, Exists
    <3> QED
      BY <3>3, <3>4
  <2>7. Unique(order)'
    BY <1>1, <2>3, <2>4 DEF Unique, SInv, Rows
  <2>8. NoStray' => NoStray
    BY <1>1, <2>1, <2>3, <2>4 DEF NoStray
  <2>9. ASSUME NoStray', NEW u \in Orders PROVE PaidStands(u)'
    <3>1. u # o => Last(u)' = Last(u)
      <4>1. u # o => <<u, order[u].snap>> # <<o, n>>
        OBVIOUS
      <4> QED
        BY <1>6, <2>3, <4>1 DEF Last, SInv, TInv, POTypeOK
    <3>2. ~order[o].paidAt
      BY <1>1, <1>2, <2>8, <2>9 DEF PaidStands
    <3> QED
      BY <1>1, <2>3, <2>4, <2>8, <2>9, <3>1, <3>2 DEF PaidStands, SInv, Rows
  <2>10. HolderGivesPlan'
    <3>1. \A e \in Events : Holders(e)' = Holders(e)
      BY <1>1, <2>3, <2>4 DEF Holders
    <3>2. \A u \in Orders : order'[u].plan = order[u].plan
      BY <1>1, <2>3, <2>4
    <3> QED
      BY <2>5, <3>1, <3>2 DEF HolderGivesPlan, Exists, Holders, SInv, Rows
  <2>11. Rows'
    BY <2>6, <2>7, <2>9, <2>10 DEF Rows
  <2> QED
    BY <1>4, <1>6, <2>11, RequestGoes DEF SInv
<1> QED
  BY <1>1, <1>3, <1>5, <1>6 DEF Start

\* Events change hands: what it takes of them.
LEMMA RowsSpent ==
    ASSUME POTypeOK, Rows, Respent(order'), UNCHANGED snap,
           \A o \in Orders : order'[o].event # NoEvent =>
                               order[o].paidAt /\ event'[order'[o].event].status \in {"draft", "open"},
           Unique(order'), HolderGivesPlan'
    PROVE  Rows' /\ (NoStray' <=> NoStray)
<1>1. /\ order' \in [Orders -> Row] /\ order \in [Orders -> Row]
      /\ \A o \in Orders : \A f \in DOMAIN Blank \ {"event"} : order'[o][f] = order[o][f]
  BY DEF Respent, POTypeOK
<1>2. ASSUME NEW o \in Orders
      PROVE  /\ order'[o].status = order[o].status /\ order'[o].of = order[o].of
             /\ order'[o].amount = order[o].amount /\ order'[o].plan = order[o].plan
             /\ order'[o].proof = order[o].proof /\ order'[o].verified = order[o].verified
             /\ order'[o].paidAt = order[o].paidAt /\ order'[o].snap = order[o].snap
  BY <1>1, BlankFields
<1>3. NoStray' <=> NoStray
  BY <1>2 DEF NoStray
<1>4. ASSUME NEW o \in Orders PROVE RowStands(o)'
  <2>1. RowStands(o)
    BY DEF Rows
  <2>2. order[o].of # Unraised => order'[order[o].of].paidAt
    BY <1>1, <1>2, <2>1 DEF RowStands, Row
  <2>3. order[o].status = "none" => order'[o] = Blank
    <3>1. SUFFICES ASSUME order[o].status = "none" PROVE order'[o] = Blank
      OBVIOUS
    <3>2. order[o] = Blank /\ order'[o].event = NoEvent
      BY <2>1, <3>1 DEF RowStands, Blank
    <3>3. \A f \in DOMAIN Blank : order'[o][f] = Blank[f]
      <4>1. \A f \in DOMAIN Blank \ {"event"} : order'[o][f] = Blank[f]
        BY <1>1, <3>2
      <4>2. Blank.event = NoEvent
        BY DEF Blank
      <4> QED
        BY <3>2, <4>1, <4>2
    <3>4. order'[o] \in Row /\ Blank \in Row
      BY <1>1, BlankRow
    <3> QED
      BY <3>3, <3>4, BlankFields DEF Row
  <2> QED
    BY <1>2, <2>1, <2>2, <2>3 DEF RowStands, Exists
<1>5. ASSUME NoStray', NEW o \in Orders PROVE PaidStands(o)'
  BY <1>2, <1>3, <1>5 DEF Rows, PaidStands, Last
<1>6. Unique(order)'
  BY DEF Unique
<1> QED
  BY <1>3, <1>4, <1>5, <1>6 DEF Rows

\* Taking an event from whoever has it.
LEMMA FreeServes ==
    ASSUME POTypeOK, Rows, NEW e \in Events
    PROVE  /\ Respent(Free(e))
           /\ \A o \in Orders : Free(e)[o].event = IF order[o].event = e THEN NoEvent ELSE order[o].event
           /\ Unique(Free(e))
           /\ \A o \in Orders : Free(e)[o].event # NoEvent =>
                /\ Free(e)[o].event = order[o].event /\ order[o].event # e
                /\ order[o].paidAt /\ event[order[o].event].status \in {"draft", "open"}
<1>1. /\ Respent(Free(e))
      /\ \A o \in Orders : Free(e)[o].event = IF order[o].event = e THEN NoEvent ELSE order[o].event
  BY FreeType
<1>2. Unique(Free(e))
  BY <1>1 DEF Unique, Rows
<1> QED
  BY <1>1, <1>2 DEF Rows, RowStands, Exists

LEMMA ReleaseServes ==
    ASSUME OneHandler, SInv, NEW h \in Handlers, NEW e \in Events, ReleaseCredit(h, e)
    PROVE  Requests' /\ Rows'
<1>1. order' = Free(e) /\ UNCHANGED <<event, snap>> /\ event[e].status = "draft"
  BY DEF ReleaseCredit, outside, Deletable
<1>2. \A o \in Orders : order'[o].event = IF order[o].event = e THEN NoEvent ELSE order[o].event
  BY <1>1, FreeServes DEF SInv, TInv
<1>3. HolderGivesPlan'
  <2>1. \A d \in Events : Holders(d)' \subseteq Holders(d)
    BY <1>2, PlanOrdersAssumption DEF Holders
  <2>2. \A o \in Orders : order'[o].plan = order[o].plan
    BY <1>1, FreeServes, BlankFields DEF Respent, SInv, TInv
  <2> QED
    BY <1>1, <2>1, <2>2 DEF HolderGivesPlan, Exists, Holders, SInv, Rows
<1>4. Respent(order') /\ Unique(order')
  BY <1>1, FreeServes DEF SInv, TInv
<1>5. \A o \in Orders : order'[o].event # NoEvent =>
        order[o].paidAt /\ event'[order'[o].event].status \in {"draft", "open"}
  BY <1>1, FreeServes DEF SInv, TInv
<1>6. Rows'
  BY <1>1, <1>3, <1>4, <1>5, RowsSpent DEF SInv, TInv
<1>7. PICK to : to = [op |-> "delete", event |-> e]
  OBVIOUS
<1>8. Holders(e)' = {}
  BY <1>2, PlanOrdersAssumption DEF Holders
<1>9. Sees(to)' /\ Means(to)'
  BY <1>1, <1>7, <1>8 DEF Sees, Means, Holders
<1> QED
  BY <1>6, <1>7, <1>9, RequestGoes DEF SInv, ReleaseCredit, Begins

LEMMA IdleServes == Sees(Idle)' /\ Means(Idle)'
  BY DEF Sees, Means, Idle

LEMMA DeleteServes ==
    ASSUME OneHandler, SInv, NEW h \in Handlers, DeleteEvent(h)
    PROVE  Requests' /\ Rows'
<1>1. PICK e \in Events : e = job[h].event
  BY JobKinds DEF DeleteEvent, Running, SInv, TInv, POTypeOK
<1>2. order' = Free(e) /\ UNCHANGED snap /\ event' = [event EXCEPT ![e].status = "gone"] /\ Goes(h, Idle)
  BY <1>1 DEF DeleteEvent, outside
<1>3. \A o \in Orders : order'[o].event = IF order[o].event = e THEN NoEvent ELSE order[o].event
  BY <1>2, FreeServes DEF SInv, TInv
<1>4. \A d \in Events : d # e => event'[d] = event[d]
  BY <1>2 DEF SInv, TInv, POTypeOK
<1>5. HolderGivesPlan'
  <2>1. \A d \in Events : Holders(d)' \subseteq Holders(d)
    BY <1>3, PlanOrdersAssumption DEF Holders
  <2>2. \A o \in Orders : order'[o].plan = order[o].plan
    BY <1>2, FreeServes, BlankFields DEF Respent, SInv, TInv
  <2>3. ~Exists(e)'
    BY <1>2 DEF Exists, SInv, TInv, POTypeOK
  <2> QED
    BY <1>4, <2>1, <2>2, <2>3 DEF HolderGivesPlan, Exists, Holders, SInv, Rows
<1>6. Respent(order') /\ Unique(order')
  BY <1>2, FreeServes DEF SInv, TInv
<1>7. \A o \in Orders : order'[o].event # NoEvent =>
        order[o].paidAt /\ event'[order'[o].event].status \in {"draft", "open"}
  <2>1. \A o \in Orders : order[o].event \in Events \cup {NoEvent}
    BY DEF SInv, TInv, POTypeOK, Row
  <2> QED
    BY <1>2, <1>4, <2>1, FreeServes DEF SInv, TInv
<1>8. Rows'
  BY <1>2, <1>5, <1>6, <1>7, RowsSpent DEF SInv, TInv
<1> QED
  BY <1>2, <1>8, IdleServes, RequestGoes DEF SInv

LEMMA CreateServes ==
    ASSUME OneHandler, SInv, NEW e \in Events, NEW o \in Orders, CreateEvent(e, o)
    PROVE  Requests' /\ Rows'
<1>1. /\ order' = [order EXCEPT ![o].event = e] /\ UNCHANGED <<snap, job>>
      /\ event' = [event EXCEPT ![e] = [status |-> "draft", plan |-> order[o].plan]]
      /\ event[e].status = "none" /\ o \in Unconsumed
  BY DEF CreateEvent, outside
<1>2. Respent(order')
      /\ \A u \in Orders : order'[u].event = IF u = o THEN e ELSE order[u].event
  <2>1. POTypeOK /\ Respent(order) /\ e \in Events \cup {NoEvent}
    BY OrderItself DEF SInv, TInv
  <2>2. Respent([order EXCEPT ![o].event = e])
    BY <2>1, SpentType
  <2> QED
    BY <1>1, <2>2 DEF SInv, TInv, POTypeOK, Row
<1>3. /\ event'[e] = [status |-> "draft", plan |-> order[o].plan]
      /\ \A d \in Events : d # e => event'[d] = event[d]
  BY <1>1 DEF SInv, TInv, POTypeOK
<1>4. \A u \in Orders : order[u].event # NoEvent =>
        order[u].event \in Events /\ order[u].event # e /\ order[u].paidAt
          /\ event[order[u].event].status \in {"draft", "open"}
  BY <1>1 DEF SInv, Rows, RowStands, Exists, TInv, POTypeOK, Row
<1>5. \A u \in Orders : order'[u].event # NoEvent =>
        order[u].paidAt /\ event'[order'[u].event].status \in {"draft", "open"}
  <2>1. order[o].paidAt
    BY <1>1 DEF Unconsumed, SInv, Rows, RowStands
  <2> QED
    BY <1>2, <1>3, <1>4, <2>1
<1>6. Unique(order')
  BY <1>2, <1>4, PlanOrdersAssumption DEF Unique, SInv, Rows
<1>7. HolderGivesPlan'
  <2>1. \A u \in Orders : order'[u].plan = order[u].plan
    BY <1>2, BlankFields DEF Respent
  <2>2. \A d \in Events : Holders(d)' = IF d = e THEN {o} ELSE Holders(d)
    BY <1>1, <1>2, <1>4, PlanOrdersAssumption DEF Holders, Unconsumed
  <2> QED
    BY <1>3, <2>1, <2>2 DEF HolderGivesPlan, Exists, Holders, SInv, Rows
<1>8. Rows'
  BY <1>1, <1>2, <1>5, <1>6, <1>7, RowsSpent DEF SInv, TInv
<1>9. \A g \in Handlers : job'[g] = Idle
  BY <1>1 DEF CreateEvent, WorkerFree, OneHandler
<1>10. \A g \in Handlers : Sees(job[g])' /\ Means(job[g])'
  BY <1>9 DEF Sees, Means, Idle
<1> QED
  BY <1>8, <1>10 DEF Requests

LEMMA ReassignServes ==
    ASSUME OneHandler, SInv, NEW h \in Handlers, Reassign(h)
    PROVE  Requests' /\ Rows'
<1>1. PICK e \in Events, o \in Orders :
         /\ e = job[h].event /\ o = job[h].order
         /\ job[h].op = "reassign" /\ job[h].plan \in Plans /\ job[h].to \in Plans
  BY JobKinds DEF Reassign, Running, SInv, TInv, POTypeOK
<1>2. /\ Exists(e) /\ o \in Unconsumed
      /\ job[h].plan = event[e].plan /\ job[h].to = order[o].plan
  BY <1>1 DEF SInv, Requests, Means
<1>3. UNCHANGED snap /\ Goes(h, Idle)
  BY DEF Reassign, outside
<1>4. CASE UNCHANGED <<order, event>>
  BY <1>3, <1>4, IdleServes, RequestGoes, RowsKept DEF SInv
<1>5. CASE /\ order' = [Free(e) EXCEPT ![o].event = e]
           /\ IF job[h].to = job[h].plan THEN UNCHANGED event ELSE GivePlan(e, job[h].to)
  <2>1. /\ event'[e].plan = order[o].plan /\ event'[e].status = event[e].status
        /\ \A d \in Events : d # e => event'[d] = event[d]
    BY <1>2, <1>5 DEF GivePlan, SInv, TInv, POTypeOK
  <2>2. Respent(order')
    <3>1. POTypeOK /\ Respent(Free(e)) /\ e \in Events \cup {NoEvent}
      BY FreeServes DEF SInv, TInv
    <3>2. Respent([Free(e) EXCEPT ![o].event = e])
      BY <3>1, SpentType
    <3> QED
      BY <1>5, <3>2
  <2>3. \A u \in Orders : order'[u].event = IF u = o THEN e ELSE Free(e)[u].event
    <3>1. Free(e) \in [Orders -> Row]
      BY FreeServes DEF Respent, SInv, TInv
    <3> QED
      BY <1>5, <3>1 DEF Row
  <2>4. \A u \in Orders : Free(e)[u].event # NoEvent =>
                /\ Free(e)[u].event = order[u].event /\ order[u].event # e
                /\ order[u].paidAt /\ event[order[u].event].status \in {"draft", "open"}
    BY FreeServes DEF SInv, TInv
  <2>5. \A u \in Orders : order'[u].event # NoEvent =>
          order[u].paidAt /\ event'[order'[u].event].status \in {"draft", "open"}
    <3>1. order[o].paidAt
      BY <1>2 DEF Unconsumed, SInv, Rows, RowStands
    <3>2. \A u \in Orders : order[u].event \in Events \cup {NoEvent}
      BY DEF SInv, TInv, POTypeOK, Row
    <3> QED
      BY <1>2, <2>1, <2>3, <2>4, <3>1, <3>2 DEF Exists
  <2>6. Unique(order')
    <3>1. Unique(Free(e))
      BY FreeServes DEF SInv, TInv
    <3> QED
      BY <2>3, <2>4, <3>1, PlanOrdersAssumption DEF Unique
  <2>7. HolderGivesPlan'
    <3>1. \A u \in Orders : order'[u].plan = order[u].plan
      BY <2>2, BlankFields DEF Respent
    <3>2. \A d \in Events : d # e => Holders(d)' \subseteq Holders(d)
      BY <2>3, <2>4, PlanOrdersAssumption DEF Holders
    <3>3. Holders(e)' = {o}
      BY <2>3, <2>4, PlanOrdersAssumption DEF Holders
    <3> QED
      BY <2>1, <3>1, <3>2, <3>3 DEF HolderGivesPlan, Exists, Holders, SInv, Rows
  <2>8. Rows'
    BY <1>3, <2>2, <2>5, <2>6, <2>7, RowsSpent DEF SInv, TInv
  <2> QED
    BY <1>3, <2>8, IdleServes, RequestGoes DEF SInv
<1> QED
  BY <1>1, <1>4, <1>5 DEF Reassign

LEMMA ApplyServes ==
    ASSUME OneHandler, SInv, NEW h \in Handlers, Apply(h)
    PROVE  Requests' /\ Rows'
<1>1. PICK o \in Orders, row \in Row : /\ o = job[h].order /\ row = job[h].row
                                       /\ row = order[o] /\ row.paidAt /\ row.of # Unraised
  BY JobKinds DEF Apply, Running, SInv, TInv, POTypeOK, Requests, Sees, Means
<1>2. PICK of \in Orders : of = row.of /\ of # o
  BY <1>1, PlanOrdersAssumption DEF Row, SInv, TInv, POTypeOK, Orders
<1>3. PICK e \in Events \cup {NoEvent} :
         /\ e = Inherited(row) /\ e \in {row.event, order[of].event}
         /\ row.event # NoEvent => e = row.event
  BY <1>1, <1>2 DEF Inherited, Row, SInv, TInv, POTypeOK
<1>4. UNCHANGED snap /\ Goes(h, Idle)
  BY DEF Apply, outside
<1>5. PICK freed : freed = [order EXCEPT ![of].event = NoEvent]
  OBVIOUS
<1>6. /\ Respent(freed)
      /\ \A u \in Orders : freed[u].event = IF u = of THEN NoEvent ELSE order[u].event
  <2>1. POTypeOK /\ Respent(order) /\ NoEvent \in Events \cup {NoEvent}
    BY OrderItself DEF SInv, TInv
  <2>2. Respent([order EXCEPT ![of].event = NoEvent])
    BY <2>1, SpentType
  <2> QED
    BY <1>5, <2>2 DEF SInv, TInv, POTypeOK, Row
<1>7. PICK handed : handed = IF row.event = e THEN freed ELSE [freed EXCEPT ![o].event = e]
  OBVIOUS
<1>8. /\ Respent(handed)
      /\ \A u \in Orders : handed[u].event = IF u = o THEN e
                                             ELSE IF u = of THEN NoEvent ELSE order[u].event
  <2>1. CASE row.event = e
    BY <1>1, <1>2, <1>6, <1>7, <2>1
  <2>2. CASE row.event # e
    <3>1. Respent([freed EXCEPT ![o].event = e])
      BY <1>6, SpentType DEF SInv, TInv
    <3> QED
      BY <1>1, <1>2, <1>6, <1>7, <2>2, <3>1 DEF Respent, Row
  <2> QED
    BY <2>1, <2>2
<1>9. \A u \in Orders : order[u].event # NoEvent =>
        /\ order[u].event \in Events
        /\ order[u].paidAt /\ event[order[u].event].status \in {"draft", "open"}
  BY DEF SInv, Rows, RowStands, Exists, TInv, POTypeOK, Row
<1>10. CASE UNCHANGED <<order, event>>
  BY <1>4, <1>10, IdleServes, RequestGoes, RowsKept DEF SInv
<1>11. CASE order' = freed /\ UNCHANGED event
  <2>1. \A u \in Orders : order'[u].event # NoEvent =>
          order[u].paidAt /\ event'[order'[u].event].status \in {"draft", "open"}
    BY <1>6, <1>9, <1>11
  <2>2. Unique(order')
    BY <1>6, <1>11 DEF Unique, SInv, Rows
  <2>3. HolderGivesPlan'
    <3>1. \A u \in Orders : order'[u].plan = order[u].plan
      BY <1>6, <1>11, BlankFields DEF Respent
    <3>2. \A d \in Events : Holders(d)' \subseteq Holders(d)
      BY <1>6, <1>11, PlanOrdersAssumption DEF Holders
    <3> QED
      BY <1>11, <3>1, <3>2 DEF HolderGivesPlan, Exists, Holders, SInv, Rows
  <2>4. Rows'
    BY <1>4, <1>6, <1>11, <2>1, <2>2, <2>3, RowsSpent DEF SInv, TInv
  <2> QED
    BY <1>4, <2>4, IdleServes, RequestGoes DEF SInv
<1>12. CASE e # NoEvent /\ order' = handed /\ Unique(handed) /\ GivePlan(e, row.plan)
  <2>1. /\ event'[e].plan = order[o].plan /\ event'[e].status = event[e].status
        /\ \A d \in Events : d # e => event'[d] = event[d]
    BY <1>1, <1>12 DEF GivePlan, SInv, TInv, POTypeOK
  <2>2. event[e].status \in {"draft", "open"} /\ order[o].paidAt
    BY <1>1, <1>3, <1>9, <1>12
  <2>3. \A u \in Orders : order'[u].event # NoEvent =>
          order[u].paidAt /\ event'[order'[u].event].status \in {"draft", "open"}
    BY <1>8, <1>9, <1>12, <2>1, <2>2
  <2>4. HolderGivesPlan'
    <3>1. \A u \in Orders : order'[u].plan = order[u].plan
      BY <1>8, <1>12, BlankFields DEF Respent
    <3>2. \A d \in Events : d # e => Holders(d)' \subseteq Holders(d)
      BY <1>8, <1>12, PlanOrdersAssumption DEF Holders
    <3>3. Holders(e)' = {o}
      BY <1>8, <1>12 DEF Holders, Unique
    <3> QED
      BY <2>1, <3>1, <3>2, <3>3 DEF HolderGivesPlan, Exists, Holders, SInv, Rows
  <2>5. Rows'
    BY <1>4, <1>8, <1>12, <2>3, <2>4, RowsSpent DEF SInv, TInv
  <2> QED
    BY <1>4, <2>5, IdleServes, RequestGoes DEF SInv
<1> QED
  BY <1>1, <1>2, <1>3, <1>5, <1>7, <1>10, <1>11, <1>12 DEF Apply

\* What happens without a request that is under way.
LEMMA AroundServes ==
    ASSUME OneHandler, SInv,
           \/ \E e \in Events : Publish(e)
           \/ Sweep \/ SwitchGateway \/ UNCHANGED vars
           \/ \E s \in Snaps, outcome \in {"paid", "failed", "retried"} : SnapEnds(s, outcome)
    PROVE  Requests' /\ Rows'
<1>0. ASSUME WorkerFree, UNCHANGED job PROVE Requests'
  <2>1. \A g \in Handlers : job'[g] = Idle
    BY <1>0 DEF WorkerFree, OneHandler
  <2>2. \A g \in Handlers : Sees(job[g])' /\ Means(job[g])'
    BY <2>1 DEF Sees, Means, Idle
  <2> QED
    BY <2>2 DEF Requests
<1>1. ASSUME NEW e \in Events, Publish(e) PROVE Requests' /\ Rows'
  <2>1. /\ UNCHANGED <<order, snap, job>>
        /\ \A d \in Events : event'[d].plan = event[d].plan /\ (Exists(d)' <=> Exists(d))
    BY <1>1 DEF Publish, outside, SInv, TInv, POTypeOK, Exists
  <2>2. \A o \in Orders : order[o].event # NoEvent => Exists(order[o].event)'
    BY <2>1 DEF SInv, Rows, RowStands, TInv, POTypeOK, Row
  <2>3. \A o \in Orders : RowStands(o)'
    BY <2>1, <2>2 DEF RowStands, SInv, Rows, Exists
  <2>4. Unique(order)' /\ (NoStray' => \A o \in Orders : PaidStands(o)')
    BY <2>1 DEF Unique, NoStray, PaidStands, Last, SInv, Rows
  <2>5. HolderGivesPlan'
    BY <2>1 DEF HolderGivesPlan, Exists, Holders, SInv, Rows
  <2> QED
    BY <1>0, <1>1, <2>1, <2>3, <2>4, <2>5 DEF Publish, Rows
<1>2. CASE Sweep
  <2>1. PICK late \in SUBSET Stale :
          order' = [o \in Orders |-> IF o \in late THEN [order[o] EXCEPT !.status = "cancelled"]
                                                   ELSE order[o]]
    BY <1>2 DEF Sweep
  <2>2. UNCHANGED <<event, snap, job>>
    BY <1>2 DEF Sweep, outside
  <2>3. ASSUME NEW o \in Orders
        PROVE  /\ order'[o].of = order[o].of /\ order'[o].plan = order[o].plan
               /\ order'[o].amount = order[o].amount /\ order'[o].event = order[o].event
               /\ order'[o].proof = order[o].proof /\ order'[o].verified = order[o].verified
               /\ order'[o].paidAt = order[o].paidAt /\ order'[o].snap = order[o].snap
               /\ \/ order'[o] = order[o]
                  \/ order'[o].status = "cancelled" /\ order[o].status = "past_due" /\ ~order[o].proof
    <3>1. CASE o \in late
      BY <2>1, <3>1 DEF Stale, SInv, TInv, POTypeOK, Row
    <3>2. CASE o \notin late
      BY <2>1, <3>2
    <3> QED
      BY <3>1, <3>2
  <2>4. ASSUME NEW o \in Orders PROVE RowStands(o)'
    <3>1. RowStands(o)
      BY DEF SInv, Rows
    <3>2. order[o].of # Unraised => order'[order[o].of].paidAt
      BY <2>3, <3>1 DEF RowStands, SInv, TInv, POTypeOK, Row
    <3>3. order[o].event # NoEvent => Exists(order[o].event)'
      BY <2>2, <2>3, <3>1 DEF RowStands, Exists
    <3> QED
      BY <2>3, <3>1, <3>2, <3>3 DEF RowStands, Exists
  <2>5. NoStray' <=> NoStray
    BY <2>3 DEF NoStray
  <2>6. ASSUME NoStray', NEW o \in Orders PROVE PaidStands(o)'
    BY <2>2, <2>3, <2>5, <2>6 DEF PaidStands, Last, SInv, Rows
  <2>7. Unique(order)' /\ HolderGivesPlan'
    BY <2>2, <2>3 DEF Unique, HolderGivesPlan, Exists, Holders, SInv, Rows
  <2> QED
    BY <1>0, <1>2, <2>2, <2>4, <2>6, <2>7 DEF Sweep, Rows
<1>3. CASE SwitchGateway \/ UNCHANGED vars
  <2>1. UNCHANGED <<order, event, snap, job>>
    BY <1>3 DEF SwitchGateway, vars
  <2>2. \A g \in Handlers : Sees(job[g])' /\ Means(job[g])'
    BY <2>1 DEF Sees, Means, Last, NoStray, Fresh, Exists, Holders, Unconsumed, Superseded, Upgrades,
                SInv, Requests
  <2> QED
    BY <2>1, <2>2, RowsKept DEF SInv, Requests
<1>4. ASSUME NEW s \in Snaps, NEW outcome \in {"paid", "failed", "retried"}, SnapEnds(s, outcome)
      PROVE  Requests' /\ Rows'
  <2>1. UNCHANGED <<order, event, job>> /\ snap[s] \in {"open", "failed"}
    BY <1>4 DEF SnapEnds
  <2>2. \A t : snap[t] \in Collected => snap'[t] \in Collected
    BY <1>4 DEF Collected, SnapEnds, SInv, TInv, POTypeOK
  <2>3. \A o \in Orders : Last(o) \in Collected => Last(o)' \in Collected
    BY <2>1, <2>2 DEF Last
  <2>4. \A g \in Handlers : Sees(job[g])' /\ Means(job[g])'
    <3> TAKE g \in Handlers
    <3>1. Sees(job[g]) /\ Means(job[g])
      BY DEF SInv, Requests
    <3>2. Last(job[g].order)' = snap'[<<job[g].order, order[job[g].order].snap>>]
      BY <2>1 DEF Last
    <3> QED
      BY <2>1, <2>2, <3>1, <3>2 DEF Sees, Means, Last, NoStray, Fresh, Exists, Holders,
                                    Unconsumed, Superseded, Upgrades
  <2>5. \A o \in Orders : RowStands(o)'
    BY <2>1 DEF RowStands, Exists, SInv, Rows
  <2>6. Unique(order)' /\ HolderGivesPlan'
    BY <2>1 DEF Unique, HolderGivesPlan, Exists, Holders, SInv, Rows
  <2>7. NoStray' => \A o \in Orders : PaidStands(o)'
    BY <2>1, <2>3 DEF NoStray, PaidStands, SInv, Rows
  <2> QED
    BY <2>4, <2>5, <2>6, <2>7 DEF Requests, Rows
<1> QED
  BY <1>1, <1>2, <1>3, <1>4

LEMMA NextServes ==
    ASSUME OneHandler PROVE SInv /\ [Next]_vars => SInv'
<1> SUFFICES ASSUME SInv, [Next]_vars PROVE SInv'
  OBVIOUS
<1>1. TInv'
  BY NextTInv DEF SInv
<1>2. ASSUME NEW h \in Handlers,
             \/ \E p \in Plans, coded \in BOOLEAN : Checkout(h, p, coded)
             \/ \E p \in Plans : Upgrade(h, p)
             \/ \E e \in Events : ReleaseCredit(h, e)
             \/ Raise(h) \/ Start(h) \/ Apply(h) \/ DeleteEvent(h) \/ Reassign(h)
      PROVE  Requests' /\ Rows'
  BY <1>2, CheckoutServes, UpgradeServes, ReleaseServes, RaiseServes, StartServes, ApplyServes,
     DeleteServes, ReassignServes
<1>3. Requests' /\ Rows'
  BY <1>2, AskServes, SettleServes, CreateServes, AroundServes DEF Next
<1> QED
  BY <1>1, <1>3 DEF SInv

LEMMA InitServes == Init => SInv
<1> SUFFICES ASSUME Init PROVE SInv
  OBVIOUS
<1>1. TInv
  BY InitTInv
<1>2. Requests
  BY DEF Init, Requests, Sees, Means, Idle
<1>3. \A o \in Orders : order[o] = Blank
  BY DEF Init
<1>4. \A o \in Orders : RowStands(o) /\ PaidStands(o)
  BY <1>3 DEF RowStands, PaidStands, Blank
<1>5. Unique(order) /\ HolderGivesPlan
  <2>1. \A o \in Orders : order[o].event = NoEvent
    <3>1. Blank.event = NoEvent
      BY DEF Blank
    <3> QED
      BY <1>3, <3>1
  <2>2. \A e \in Events : Holders(e) = {}
    BY <2>1, PlanOrdersAssumption DEF Holders
  <2> QED
    BY <2>1, <2>2 DEF Unique, HolderGivesPlan
<1> QED
  BY <1>1, <1>2, <1>4, <1>5 DEF SInv, Rows

LEMMA SerialInvariant ==
    ASSUME OneHandler PROVE Spec => []SInv
<1>1. SInv /\ [Next]_vars => SInv'
  BY NextServes
<1> QED
  BY <1>1, InitServes, PTL DEF Spec

\* When requests run one after another, an event runs on the plan of the order that
\* holds it, through every upgrade, reassignment, deletion and request that dies.
THEOREM HolderGivesPlanHolds ==
    ASSUME OneHandler PROVE Spec => []HolderGivesPlan
<1>1. SInv => HolderGivesPlan
  BY DEF SInv, Rows
<1> QED
  BY <1>1, SerialInvariant, PTL

-----------------------------------------------------------------------------
(***************************************************************************)
(* What each step leaves of the orders.                                    *)
(***************************************************************************)
Keeps(fields) == \A u \in Orders : \A f \in fields : order'[u][f] = order[u][f]

\* What a bill is for, which never changes.
Terms == {"plan", "of", "amount", "coded"}

LEMMA SaveKeeps ==
    ASSUME POTypeOK, NEW o \in Orders, NEW copy \in Row, NEW new \in Row, Save(o, copy, new),
           NEW fields \in SUBSET DOMAIN Blank, \A f \in fields : new[f] = copy[f]
    PROVE  /\ Keeps(fields)
           /\ \A u \in Orders : u # o => order'[u] = order[u]
           /\ \A f \in DOMAIN Blank : order'[o][f] \in {order[o][f], new[f]}
<1>1. \A u \in Orders : order'[u] = IF u = o THEN Merged(order[o], copy, new) ELSE order[u]
  BY DEF Save, Merged, POTypeOK
<1>2. \A f \in fields : Merged(order[o], copy, new)[f] = order[o][f]
  BY DEF Merged
<1>3. \A f \in DOMAIN Blank : Merged(order[o], copy, new)[f] \in {order[o][f], new[f]}
  BY DEF Merged
<1> QED
  BY <1>1, <1>2, <1>3 DEF Keeps

Progress ==
    \A u \in Orders : /\ order[u].verified => order'[u].verified
                      /\ order[u].snap > 0 => order'[u].snap > 0

LEMMA ReopenKeeps ==
    ASSUME POTypeOK, NEW h \in Handlers, NEW o \in Orders, NEW copy \in Row, Reopen(h, o, copy)
    PROVE  Keeps(DOMAIN Blank \ {"method"})
<1>1. PICK new \in Row : new = Billed(copy) /\ \A f \in DOMAIN Blank \ {"method"} : new[f] = copy[f]
  BY BilledRow
<1>2. Save(o, copy, new)
  BY <1>1 DEF Reopen
<1> QED
  BY <1>1, <1>2, SaveKeeps

\* The steps of a request that neither write a row, nor pay one, nor spend it.
QuietFields == Terms \cup {"event", "paidAt"}

LEMMA EditKeeps ==
    ASSUME TInv, NEW h \in Handlers,
           \/ PayAgain(h) \/ SubmitProof(h) \/ Approve(h) \/ Reject(h)
           \/ \E p \in Plans : Upgrade(h, p)
    PROVE  Keeps(QuietFields \cup {"status", "snap"}) /\ Progress
<1>0. /\ QuietFields \subseteq DOMAIN Blank \ {"method", "proof", "status", "verified", "snap"}
      /\ {"status", "snap"} \subseteq DOMAIN Blank \ {"method", "proof", "verified"}
  BY BlankFields DEF QuietFields, Terms
<1>1. ASSUME Keeps(DOMAIN Blank \ {"method"}) \/ Keeps(DOMAIN Blank \ {"proof"})
      PROVE  Keeps(QuietFields \cup {"status", "snap"}) /\ Progress
  <2>1. {"status", "verified", "snap"} \subseteq DOMAIN Blank \ {"method", "proof"}
    BY BlankFields
  <2> QED
    BY <1>0, <1>1, <2>1 DEF Keeps, Progress
<1>2. CASE UNCHANGED order
  BY <1>1, <1>2 DEF Keeps
<1> DEFINE o == job[h].order
           copy == job[h].row
<1>3. ASSUME job[h].op = "seen" PROVE o \in Orders /\ copy \in Row
  BY <1>3, JobKinds DEF TInv, POTypeOK
<1>4. CASE PayAgain(h)
  BY <1>1, <1>3, <1>4, ReopenKeeps DEF PayAgain, Running, TInv
<1>5. ASSUME NEW p \in Plans, Upgrade(h, p)
      PROVE  Keeps(DOMAIN Blank \ {"method"})
  <2> DEFINE unpaid == Upgrades(o, "past_due")
             latest == CHOOSE u \in unpaid : \A v \in unpaid : v <= u
  <2>1. UNCHANGED order \/ (Reopen(h, latest, order[latest]) /\ unpaid # {})
    BY <1>5 DEF Upgrade
  <2>2. CASE UNCHANGED order
    BY <2>2 DEF Keeps
  <2>3. CASE Reopen(h, latest, order[latest]) /\ unpaid # {}
    <3>1. unpaid \subseteq Orders
      BY DEF Upgrades
    <3>2. latest \in Orders
      <4>1. \E u \in unpaid : \A v \in unpaid : v <= u
        <5> HIDE DEF unpaid
        <5> QED
          BY <2>3, <3>1, LastOf
      <4> HIDE DEF unpaid
      <4> QED
        BY <3>1, <4>1
    <3>3. PICK l \in Orders : l = latest
      BY <3>2
    <3>4. PICK row \in Row : row = order[l]
      BY DEF TInv, POTypeOK
    <3> QED
      BY <2>3, <3>3, <3>4, ReopenKeeps DEF TInv
  <2> QED
    BY <2>1, <2>2, <2>3
<1>6. CASE SubmitProof(h) \/ Reject(h)
  <2>1. PICK new \in Row : /\ Save(o, copy, new)
                           /\ new = [copy EXCEPT !.proof = TRUE] \/ new = [copy EXCEPT !.proof = FALSE]
    <3>1. copy \in Row
      BY <1>3, <1>6 DEF SubmitProof, Reject, Running
    <3>2. [copy EXCEPT !.proof = TRUE] \in Row /\ [copy EXCEPT !.proof = FALSE] \in Row
      BY <3>1 DEF Row
    <3> QED
      BY <1>6, <3>2 DEF SubmitProof, Reject
  <2>2. o \in Orders /\ copy \in Row
    BY <1>3, <1>6 DEF SubmitProof, Reject, Running
  <2>3. \A f \in DOMAIN Blank \ {"proof"} : new[f] = copy[f]
    BY <2>1, <2>2, BlankFields DEF Row
  <2>4. Keeps(DOMAIN Blank \ {"proof"})
    BY <2>1, <2>2, <2>3, SaveKeeps DEF TInv
  <2> QED
    BY <1>1, <2>4
<1>7. CASE Approve(h)
  <2>1. o \in Orders /\ copy \in Row
    BY <1>3, <1>7 DEF Approve, Running
  <2>2. PICK new \in Row : new = [copy EXCEPT !.verified = TRUE]
    BY <2>1 DEF Row
  <2>3. (\A f \in DOMAIN Blank \ {"verified"} : new[f] = copy[f]) /\ new.verified
    BY <2>1, <2>2, BlankFields DEF Row
  <2>4. Save(o, copy, new)
    BY <1>7, <2>2 DEF Approve
  <2>5. /\ Keeps(DOMAIN Blank \ {"verified"})
        /\ \A u \in Orders : u # o => order'[u] = order[u]
        /\ \A f \in DOMAIN Blank : order'[o][f] \in {order[o][f], new[f]}
    <3>1. PICK fields \in SUBSET DOMAIN Blank : fields = DOMAIN Blank \ {"verified"}
      OBVIOUS
    <3> QED
      BY <2>1, <2>3, <2>4, <3>1, SaveKeeps DEF TInv
  <2>6. {"status", "snap"} \subseteq DOMAIN Blank \ {"verified"} /\ "verified" \in DOMAIN Blank
    BY BlankFields
  <2>7. \A u \in Orders : order[u].verified => order'[u].verified
    BY <2>3, <2>5, <2>6
  <2> QED
    BY <1>0, <2>5, <2>6, <2>7 DEF Keeps, Progress
<1> QED
  BY <1>1, <1>4, <1>5, <1>6, <1>7

LEMMA WriteKeeps ==
    ASSUME TInv, NEW h \in Handlers, WriteStatus(h)
    PROVE  /\ Keeps(DOMAIN Blank \ {"status"})
           /\ \A u \in Orders : \/ order'[u].status = order[u].status
                                \/ u = job[h].order /\ order'[u].status = job[h].status
           /\ job[h].status \in {"past_due", "cancelled"}
<1> DEFINE o == job[h].order
           copy == job[h].row
<1>1. o \in Orders /\ copy \in Row /\ job[h].status \in {"past_due", "cancelled"}
  BY JobKinds DEF WriteStatus, Running, TInv, POTypeOK
<1>2. PICK new \in Row : new = [copy EXCEPT !.status = job[h].status]
  BY <1>1 DEF Row
<1>3. (\A f \in DOMAIN Blank \ {"status"} : new[f] = copy[f]) /\ new.status = job[h].status
  BY <1>1, <1>2, BlankFields DEF Row
<1>4. Save(o, copy, new)
  BY <1>2 DEF WriteStatus
<1>5. /\ Keeps(DOMAIN Blank \ {"status"})
      /\ \A u \in Orders : u # o => order'[u] = order[u]
      /\ \A f \in DOMAIN Blank : order'[o][f] \in {order[o][f], new[f]}
  <2>1. PICK fields \in SUBSET DOMAIN Blank : fields = DOMAIN Blank \ {"status"}
    OBVIOUS
  <2> QED
    BY <1>1, <1>3, <1>4, <2>1, SaveKeeps DEF TInv
<1>6. "status" \in DOMAIN Blank
  BY BlankFields
<1>7. order'[o].status \in {order[o].status, new.status}
  BY <1>5, <1>6
<1>8. \A u \in Orders : u # o => order'[u].status = order[u].status
  BY <1>5
<1> QED
  BY <1>1, <1>3, <1>5, <1>7, <1>8

LEMMA StartKeeps ==
    ASSUME TInv, NEW h \in Handlers, Start(h)
    PROVE  /\ Keeps(DOMAIN Blank \ {"snap"})
           /\ \A u \in Orders : order[u].snap > 0 => order'[u].snap > 0
<1>1. PICK o \in Orders : o = job[h].order
  BY JobKinds DEF Start, Running, TInv, POTypeOK
<1>2. CASE UNCHANGED order
  BY <1>2 DEF Keeps
<1>3. CASE order' = [order EXCEPT ![o].snap = order[o].snap + 1]
  <2>1. ASSUME NEW u \in Orders
        PROVE  /\ \A f \in DOMAIN Blank \ {"snap"} : order'[u][f] = order[u][f]
               /\ order[u].snap > 0 => order'[u].snap > 0
    <3>1. order[u] \in Row /\ order[u].snap \in Nat
      BY PlanOrdersAssumption DEF TInv, POTypeOK, Row
    <3>2. order'[u] = IF u = o THEN [order[u] EXCEPT !.snap = order[u].snap + 1] ELSE order[u]
      BY <1>3 DEF TInv, POTypeOK
    <3> QED
      BY <3>1, <3>2, BlankFields DEF Row
  <2> QED
    BY <2>1 DEF Keeps
<1> QED
  BY <1>1, <1>2, <1>3 DEF Start

LEMMA QuietSteps ==
    ASSUME TInv, NEW h \in Handlers,
           \/ PayAgain(h) \/ WriteStatus(h) \/ SubmitProof(h) \/ Approve(h) \/ Reject(h)
           \/ \E p \in Plans : Upgrade(h, p)
           \/ Start(h)
    PROVE  /\ Keeps(QuietFields) /\ Progress
           /\ \A u \in Orders : order'[u].status = "paid" => order[u].status = "paid"
<1>1. /\ QuietFields \cup {"verified", "snap"} \subseteq DOMAIN Blank \ {"status"}
      /\ QuietFields \cup {"verified", "status"} \subseteq DOMAIN Blank \ {"snap"}
  BY BlankFields DEF QuietFields, Terms
<1>2. CASE \/ PayAgain(h) \/ SubmitProof(h) \/ Approve(h) \/ Reject(h)
           \/ \E p \in Plans : Upgrade(h, p)
  BY <1>2, EditKeeps DEF Keeps
<1>3. CASE WriteStatus(h)
  BY <1>1, <1>3, WriteKeeps DEF Keeps, Progress
<1>4. CASE Start(h)
  BY <1>1, <1>4, StartKeeps DEF Keeps, Progress
<1> QED
  BY <1>2, <1>3, <1>4

LEMMA ActivateKeeps ==
    ASSUME TInv, NEW h \in Handlers, Activate(h)
    PROVE  /\ Keeps(Terms \cup {"event"}) /\ Progress
           /\ \A u \in Orders : u # job[h].order => order'[u] = order[u]
<1> DEFINE o == job[h].order
           copy == job[h].row
<1>1. o \in Orders /\ copy \in Row
  BY JobKinds DEF Activate, Running, TInv, POTypeOK
<1>2. PICK new \in Row : new = [copy EXCEPT !.status = "paid", !.paidAt = TRUE]
  BY <1>1 DEF Row
<1>3. Save(o, copy, new)
  BY <1>2 DEF Activate
<1>4. PICK fields \in SUBSET DOMAIN Blank : fields = DOMAIN Blank \ {"status", "paidAt"}
  OBVIOUS
<1>5. \A f \in fields : new[f] = copy[f]
  BY <1>1, <1>2, <1>4, BlankFields DEF Row
<1>6. Keeps(fields) /\ \A u \in Orders : u # o => order'[u] = order[u]
  BY <1>1, <1>3, <1>5, SaveKeeps DEF TInv
<1>7. Terms \cup {"event", "verified", "snap"} \subseteq fields
  BY <1>4, BlankFields DEF Terms
<1> QED
  BY <1>6, <1>7 DEF Keeps, Progress

Spends ==
    \/ \E e \in Events, o \in Orders : CreateEvent(e, o)
    \/ \E h \in Handlers : \/ \E e \in Events : ReleaseCredit(h, e)
                           \/ Apply(h) \/ DeleteEvent(h) \/ Reassign(h)

LEMMA EventWritten ==
    ASSUME NEW rows, Respent(rows), NEW o, NEW e, order' = [rows EXCEPT ![o].event = e]
    PROVE  Keeps(DOMAIN Blank \ {"event"})
<1>1. \A u \in Orders : order'[u] = IF u = o THEN [rows[u] EXCEPT !.event = e] ELSE rows[u]
  BY DEF Respent
<1>2. \A u \in Orders : \A f \in DOMAIN Blank \ {"event"} :
        [rows[u] EXCEPT !.event = e][f] = rows[u][f]
  BY BlankFields DEF Respent, Row
<1> QED
  BY <1>1, <1>2 DEF Respent, Keeps

LEMMA SpendKeeps ==
    ASSUME TInv, Spends
    PROVE  Keeps(DOMAIN Blank \ {"event"})
<1>1. Respent(order) /\ \A e : Respent(Free(e))
  BY FreeType, OrderItself DEF TInv
<1>2. ASSUME NEW rows, Respent(rows), NEW o, NEW e, order' = [rows EXCEPT ![o].event = e]
      PROVE  Keeps(DOMAIN Blank \ {"event"})
  BY <1>2, EventWritten
<1>3. ASSUME NEW rows, Respent(rows), order' = rows PROVE Keeps(DOMAIN Blank \ {"event"})
  BY <1>3 DEF Keeps, Respent
<1>4. PICK now : now = order
  OBVIOUS
<1>5. ASSUME NEW e \in Events, NEW o \in Orders, CreateEvent(e, o)
      PROVE  Keeps(DOMAIN Blank \ {"event"})
  BY <1>1, <1>2, <1>4, <1>5 DEF CreateEvent
<1>6. ASSUME NEW h \in Handlers, NEW e \in Events, ReleaseCredit(h, e)
      PROVE  Keeps(DOMAIN Blank \ {"event"})
  <2>1. PICK freed : freed = Free(e)
    OBVIOUS
  <2> QED
    BY <1>1, <1>3, <1>6, <2>1 DEF ReleaseCredit
<1>7. ASSUME NEW h \in Handlers, DeleteEvent(h) PROVE Keeps(DOMAIN Blank \ {"event"})
  <2>1. PICK freed : freed = Free(job[h].event)
    OBVIOUS
  <2> QED
    BY <1>1, <1>3, <1>7, <2>1 DEF DeleteEvent
<1>8. ASSUME NEW h \in Handlers, Reassign(h) PROVE Keeps(DOMAIN Blank \ {"event"})
  <2>1. PICK e, o : order' = order \/ order' = [Free(e) EXCEPT ![o].event = e]
    BY <1>8 DEF Reassign
  <2>2. PICK freed : freed = Free(e)
    OBVIOUS
  <2>3. Respent(freed)
    BY <1>1, <2>2
  <2> QED
    BY <1>1, <1>2, <1>3, <1>4, <2>1, <2>2, <2>3
<1>9. ASSUME NEW h \in Handlers, Apply(h) PROVE Keeps(DOMAIN Blank \ {"event"})
  <2>1. PICK of, o, e : \/ order' = order
                        \/ order' = [order EXCEPT ![of].event = NoEvent]
                        \/ order' = [[order EXCEPT ![of].event = NoEvent] EXCEPT ![o].event = e]
    BY <1>9 DEF Apply
  <2>2. PICK freed : freed = [order EXCEPT ![of].event = NoEvent]
    OBVIOUS
  <2>3. Respent(freed)
    <3>1. Respent([order EXCEPT ![of].event = NoEvent])
      BY <1>1, SpentType DEF TInv
    <3> QED
      BY <2>2, <3>1
  <2> QED
    BY <1>1, <1>2, <1>3, <1>4, <2>1, <2>2, <2>3
<1> QED
  BY <1>5, <1>6, <1>7, <1>8, <1>9 DEF Spends

\* The steps that leave every order as it is, or sweep it.
LEMMA RestKeeps ==
    ASSUME TInv,
           \/ UNCHANGED vars \/ Sweep \/ SwitchGateway
           \/ \E e \in Events : Publish(e)
           \/ \E s \in Snaps, outcome \in {"paid", "failed", "retried"} : SnapEnds(s, outcome)
           \/ \E h \in Handlers :
                \/ \E p \in Plans, coded \in BOOLEAN : Checkout(h, p, coded)
                \/ \E o \in Orders : Load(h, o)
                \/ \E s \in Snaps : Notify(h, s[1], s[2])
                \/ \E e \in Events, o \in Orders : LoadReassign(h, e, o)
                \/ Refused(h) \/ Dies(h)
    PROVE  /\ Keeps(DOMAIN Blank \ {"status"})
           /\ \A u \in Orders : \/ order'[u].status = order[u].status
                                \/ order[u].status = "past_due" /\ order'[u].status = "cancelled"
<1>1. CASE UNCHANGED order
  BY <1>1 DEF Keeps
<1>2. CASE Sweep
  <2>1. PICK late \in SUBSET Stale :
          order' = [o \in Orders |-> IF o \in late THEN [order[o] EXCEPT !.status = "cancelled"]
                                                   ELSE order[o]]
    BY <1>2 DEF Sweep
  <2>2. \A o \in Orders : /\ \A f \in DOMAIN Blank \ {"status"} :
                               [order[o] EXCEPT !.status = "cancelled"][f] = order[o][f]
                          /\ [order[o] EXCEPT !.status = "cancelled"].status = "cancelled"
    BY BlankFields DEF TInv, POTypeOK, Row
  <2> QED
    BY <2>1, <2>2 DEF Keeps, Stale
<1> QED
  BY <1>1, <1>2 DEF vars, SwitchGateway, Publish, SnapEnds, Checkout, Load, Notify, LoadReassign,
                    Refused, Dies

\* Any step but writing a row keeps what every bill is for, and any but activate() pays none.
LEMMA StepKeeps ==
    ASSUME TInv, [Next]_vars
    PROVE  \/ \E h \in Handlers : Raise(h)
           \/ /\ Keeps(Terms) /\ Progress
              /\ \/ \E h \in Handlers : Activate(h)
                 \/ Keeps({"paidAt"})
<1>1. /\ Terms \cup {"paidAt", "verified", "snap"} \subseteq DOMAIN Blank \ {"status"}
      /\ Terms \cup {"paidAt", "verified", "snap"} \subseteq DOMAIN Blank \ {"event"}
      /\ Terms \cup {"paidAt"} \subseteq QuietFields
  BY BlankFields DEF Terms, QuietFields
<1> DEFINE Fine == Keeps(Terms) /\ Progress /\ Keeps({"paidAt"})
<1>2. ASSUME Keeps(DOMAIN Blank \ {"status"}) \/ Keeps(DOMAIN Blank \ {"event"}) PROVE Fine
  BY <1>1, <1>2 DEF Keeps, Progress
<1>3. ASSUME NEW h \in Handlers,
             \/ PayAgain(h) \/ WriteStatus(h) \/ SubmitProof(h) \/ Approve(h) \/ Reject(h)
             \/ \E p \in Plans : Upgrade(h, p)
             \/ Start(h)
      PROVE  Fine
  BY <1>1, <1>3, QuietSteps DEF Keeps
<1>4. ASSUME NEW h \in Handlers, Activate(h) PROVE Keeps(Terms) /\ Progress
  BY <1>4, ActivateKeeps DEF Keeps
<1>5. ASSUME Spends PROVE Fine
  BY <1>2, <1>5, SpendKeeps
<1>6. ASSUME \/ UNCHANGED vars \/ Sweep \/ SwitchGateway
             \/ \E e \in Events : Publish(e)
             \/ \E s \in Snaps, outcome \in {"paid", "failed", "retried"} : SnapEnds(s, outcome)
             \/ \E h \in Handlers :
                  \/ \E p \in Plans, coded \in BOOLEAN : Checkout(h, p, coded)
                  \/ \E o \in Orders : Load(h, o)
                  \/ \E s \in Snaps : Notify(h, s[1], s[2])
                  \/ \E e \in Events, o \in Orders : LoadReassign(h, e, o)
                  \/ Refused(h) \/ Dies(h)
      PROVE  Fine
  BY <1>2, <1>6, RestKeeps
<1> HIDE DEF Fine
<1>7. \/ \E h \in Handlers : Raise(h) \/ Activate(h)
      \/ Fine
  BY <1>3, <1>5, <1>6 DEF Next, Spends
<1> QED
  BY <1>4, <1>7 DEF Fine

\* A bill that strayed to both rails stays there.
LEMMA StrayStays ==
    ASSUME SInv, [Next]_vars PROVE NoStray' => NoStray
<1>1. CASE Progress
  BY <1>1 DEF Progress, NoStray
<1>2. ASSUME NEW h \in Handlers, Raise(h) PROVE NoStray' => NoStray
  <2>1. PICK o \in Orders :
          /\ \A other \in Orders : order[other].status = "none" <=> other >= o
          /\ order' = [order EXCEPT ![o] = job[h].row]
    BY <1>2 DEF Raise
  <2>2. order[o] = Blank
    BY <2>1, PlanOrdersAssumption DEF SInv, Rows, RowStands, Orders
  <2>3. ~order[o].verified
    BY <2>2 DEF Blank
  <2> QED
    BY <2>1, <2>3 DEF NoStray, SInv, TInv, POTypeOK
<1> QED
  BY <1>1, <1>2, StepKeeps DEF SInv

-----------------------------------------------------------------------------
(***************************************************************************)
(* One order, one event.                                                   *)
(***************************************************************************)
Applying(u) == \E h \in Handlers : job[h].op = "apply" /\ job[h].order = u
Deleting(e) == \E h \in Handlers : job[h] = [op |-> "delete", event |-> e]

\* A paid upgrade has the event of the order it upgrades, unless it is about to.
HandedOver(u) ==
    order[u].status = "paid" /\ order[u].of # Unraised /\ ~Applying(u)
      => order[order[u].of].event = NoEvent

\* An upgrade that is about to: it is paid for the first time, and nothing upgrades it, or
\* it was applied before.
Takes(j) ==
    j.op = "apply" => \/ order[j.row.of].event = NoEvent
                      \/ j.row.event = NoEvent /\ \A u \in Orders : order[u].of # j.order

Held(e) == Exists(e) /\ ~Deleting(e) => Holders(e) # {}

Hands ==
    /\ \A u \in Orders : HandedOver(u)
    /\ \A h \in Handlers : Takes(job[h])
    /\ "delete" \notin DiesAt => \A e \in Events : Held(e)

HInv == SInv /\ (NoStray => Hands)

LEMMA QuietHands ==
    ASSUME SInv, Hands, Keeps({"of", "event"}),
           \A u \in Orders : order'[u].status = "paid" => order[u].status = "paid",
           \A e \in Events : Exists(e)' => Exists(e),
           \A g \in Handlers : job[g].op # "apply" /\ job'[g].op # "apply",
           "delete" \notin DiesAt => \A g \in Handlers : job[g].op # "delete" /\ job'[g].op # "delete"
    PROVE  Hands'
<1>1. \A u \in Orders : order'[u].of = order[u].of /\ order'[u].event = order[u].event
  BY DEF Keeps
<1>2. \A u \in Orders : ~Applying(u) /\ ~Applying(u)'
  BY DEF Applying
<1>3. "delete" \notin DiesAt => \A e \in Events : ~Deleting(e) /\ ~Deleting(e)'
  BY DEF Deleting
<1>4. ASSUME NEW u \in Orders PROVE HandedOver(u)'
  <2>1. order[u].of # Unraised => order[u].of \in Orders
    BY DEF SInv, TInv, POTypeOK, Row
  <2> QED
    BY <1>1, <1>2, <2>1 DEF Hands, HandedOver
<1>5. ASSUME "delete" \notin DiesAt, NEW e \in Events PROVE Held(e)'
  <2>1. Holders(e)' = Holders(e)
    BY <1>1 DEF Holders
  <2> QED
    BY <1>3, <1>5, <2>1 DEF Hands, Held
<1>6. \A g \in Handlers : Takes(job[g])'
  BY DEF Takes
<1> QED
  BY <1>4, <1>5, <1>6 DEF Hands

\* The one request there is, before and after its step.
LEMMA OneJob ==
    ASSUME OneHandler, SInv, NEW h \in Handlers
    PROVE  /\ \A g \in Handlers : job[g] = job[h]
           /\ \A to : Goes(h, to) => \A g \in Handlers : job'[g] = to
  BY DEF OneHandler, Goes, SInv, TInv, POTypeOK

LEMMA QuietStepHands ==
    ASSUME OneHandler, "apply" \notin DiesAt, SInv, Hands, NEW h \in Handlers,
           \/ PayAgain(h) \/ WriteStatus(h) \/ SubmitProof(h) \/ Approve(h) \/ Reject(h)
           \/ \E p \in Plans : Upgrade(h, p)
           \/ Start(h)
           \/ \E p \in Plans, coded \in BOOLEAN : Checkout(h, p, coded)
           \/ \E o \in Orders : Load(h, o)
           \/ \E s \in Snaps : Notify(h, s[1], s[2])
           \/ \E e \in Events, o \in Orders : LoadReassign(h, e, o)
           \/ Refused(h) \/ Dies(h)
    PROVE  Hands'
<1>1. /\ Keeps({"of", "event"})
      /\ \A u \in Orders : order'[u].status = "paid" => order[u].status = "paid"
  <2>1. {"of", "event"} \subseteq QuietFields /\ {"of", "event"} \subseteq DOMAIN Blank \ {"status"}
    BY BlankFields DEF QuietFields, Terms
  <2>2. ASSUME \/ PayAgain(h) \/ WriteStatus(h) \/ SubmitProof(h) \/ Approve(h) \/ Reject(h)
               \/ \E p \in Plans : Upgrade(h, p)
               \/ Start(h)
        PROVE  /\ Keeps(QuietFields)
               /\ \A u \in Orders : order'[u].status = "paid" => order[u].status = "paid"
    BY <2>2, QuietSteps DEF SInv
  <2>3. ASSUME \/ \E p \in Plans, coded \in BOOLEAN : Checkout(h, p, coded)
               \/ \E o \in Orders : Load(h, o)
               \/ \E s \in Snaps : Notify(h, s[1], s[2])
               \/ \E e \in Events, o \in Orders : LoadReassign(h, e, o)
               \/ Refused(h) \/ Dies(h)
        PROVE  UNCHANGED order
    BY <2>3 DEF Checkout, Load, Notify, LoadReassign, Refused, Dies
  <2> QED
    BY <2>1, <2>2, <2>3 DEF Keeps
<1>2. UNCHANGED event
  BY DEF PayAgain, WriteStatus, SubmitProof, Approve, Reject, Upgrade, Start, Checkout, Load, Notify,
         LoadReassign, Refused, Dies, outside
<1>3. job[h].op # "apply" /\ ("delete" \notin DiesAt => job[h].op # "delete")
  <2>1. job[h] = Idle \/ job[h].op \in {"seen", "start", "write"} \/ Dies(h)
    <3>1. ASSUME \/ \E p \in Plans, coded \in BOOLEAN : Checkout(h, p, coded)
                 \/ \E o \in Orders : Load(h, o)
                 \/ \E s \in Snaps : Notify(h, s[1], s[2])
                 \/ \E e \in Events, o \in Orders : LoadReassign(h, e, o)
          PROVE  job[h] = Idle
      BY <3>1 DEF Checkout, Load, Notify, LoadReassign, Begins
    <3>2. ASSUME \/ PayAgain(h) \/ WriteStatus(h) \/ SubmitProof(h) \/ Approve(h) \/ Reject(h)
                 \/ \E p \in Plans : Upgrade(h, p)
                 \/ Start(h) \/ Refused(h)
          PROVE  job[h].op \in {"seen", "start", "write"}
      BY <3>2 DEF PayAgain, WriteStatus, SubmitProof, Approve, Reject, Upgrade, Start, Refused, Running
    <3> QED
      BY <3>1, <3>2
  <2> QED
    BY <2>1 DEF Dies, Idle
<1>4. PICK to : Goes(h, to) /\ to.op \notin {"apply", "delete"}
  <2>1. Idle.op = "idle"
    BY DEF Idle
  <2>2. CASE Start(h)
    <3>1. [job[h] EXCEPT !.op = "activate"].op = "activate"
      <4>1. job[h] \in [op : {"start"}, order : Orders, row : Row]
        BY <2>2 DEF Start, Running, SInv, TInv, POTypeOK, Job, Idle
      <4> QED
        BY <4>1
    <3> QED
      BY <2>1, <2>2, <3>1 DEF Start
  <2>3. CASE PayAgain(h) \/ \E p \in Plans : Upgrade(h, p)
    <3>1. \/ \E o, row : Goes(h, [op |-> "start", order |-> o, row |-> row])
          \/ \E row : Goes(h, [op |-> "raise", row |-> row])
      <4>1. CASE PayAgain(h)
        BY <4>1 DEF PayAgain, Reopen
      <4>2. ASSUME NEW p \in Plans, Upgrade(h, p)
            PROVE  \/ \E o, row : Reopen(h, o, row)
                   \/ \E row : Goes(h, [op |-> "raise", row |-> row])
        BY <4>2 DEF Upgrade
      <4> QED
        BY <2>3, <4>1, <4>2 DEF Reopen
    <3>2. \A o, row : [op |-> "start", order |-> o, row |-> row].op \notin {"apply", "delete"}
      OBVIOUS
    <3>3. \A row : [op |-> "raise", row |-> row].op \notin {"apply", "delete"}
      OBVIOUS
    <3> QED
      BY <3>1, <3>2, <3>3, Zenon
  <2>4. CASE WriteStatus(h) \/ SubmitProof(h) \/ Approve(h) \/ Reject(h) \/ Refused(h) \/ Dies(h)
    BY <2>1, <2>4 DEF WriteStatus, SubmitProof, Approve, Reject, Refused, Dies
  <2>5. CASE \/ \E p \in Plans, coded \in BOOLEAN : Checkout(h, p, coded)
             \/ \E o \in Orders : Load(h, o)
             \/ \E s \in Snaps : Notify(h, s[1], s[2])
             \/ \E e \in Events, o \in Orders : LoadReassign(h, e, o)
    <3>1. \/ \E row : Goes(h, [op |-> "raise", row |-> row])
          \/ \E o, row : Goes(h, [op |-> "seen", order |-> o, row |-> row])
          \/ \E o, row : Goes(h, [op |-> "activate", order |-> o, row |-> row])
          \/ \E o, row, st : Goes(h, [op |-> "write", order |-> o, row |-> row, status |-> st])
          \/ \E e, o, p, q : Goes(h, [op |-> "reassign", event |-> e, order |-> o, plan |-> p, to |-> q])
      <4>1. ASSUME NEW s \in Snaps, Notify(h, s[1], s[2])
            PROVE  \/ \E o, row : Goes(h, [op |-> "activate", order |-> o, row |-> row])
                   \/ \E o, row, st : Goes(h, [op |-> "write", order |-> o, row |-> row, status |-> st])
        BY <4>1 DEF Notify, Begins
      <4> QED
        BY <2>5, <4>1 DEF Checkout, Load, LoadReassign, Begins
    <3>2. /\ \A row : [op |-> "raise", row |-> row].op \notin {"apply", "delete"}
          /\ \A o, row : [op |-> "seen", order |-> o, row |-> row].op \notin {"apply", "delete"}
          /\ \A o, row : [op |-> "activate", order |-> o, row |-> row].op \notin {"apply", "delete"}
      OBVIOUS
    <3>3. /\ \A o, row, st : [op |-> "write", order |-> o, row |-> row, status |-> st].op
                                \notin {"apply", "delete"}
          /\ \A e, o, p, q : [op |-> "reassign", event |-> e, order |-> o, plan |-> p, to |-> q].op
                                \notin {"apply", "delete"}
      OBVIOUS
    <3> QED
      BY <3>1, <3>2, <3>3, Zenon
  <2> QED
    BY <2>2, <2>3, <2>4, <2>5
<1>5. /\ \A g \in Handlers : job[g].op # "apply" /\ job'[g].op # "apply"
      /\ "delete" \notin DiesAt =>
            \A g \in Handlers : job[g].op # "delete" /\ job'[g].op # "delete"
  BY <1>3, <1>4, OneJob
<1>6. \A e \in Events : Exists(e)' => Exists(e)
  BY <1>2 DEF Exists
<1> QED
  BY <1>1, <1>5, <1>6, QuietHands

LEMMA ActivateHands ==
    ASSUME OneHandler, SInv, NoStray, Hands, NEW h \in Handlers, Activate(h)
    PROVE  Hands'
<1>1. PICK o \in Orders, row \in Row : /\ o = job[h].order /\ row = job[h].row /\ row = order[o]
                                       /\ job[h].op = "activate"
  BY JobKinds DEF Activate, Running, SInv, TInv, POTypeOK, Requests, Sees
<1>2. /\ \A u \in Orders : order'[u].of = order[u].of /\ order'[u].event = order[u].event
      /\ \A u \in Orders : u # o => order'[u] = order[u]
  <2>1. "of" \in Terms \cup {"event"} /\ "event" \in Terms \cup {"event"}
    BY DEF Terms
  <2> QED
    BY <1>1, <2>1, ActivateKeeps DEF SInv, Keeps
<1>3. UNCHANGED event
  BY DEF Activate
<1>4. PICK to : /\ Goes(h, to)
                /\ \/ row.of = Unraised /\ to.op = "idle"
                   \/ /\ row.of # Unraised /\ to.op = "apply" /\ to.order = o
                      /\ to.row.of = row.of /\ to.row.event = row.event
  <2>1. PICK paid : paid = [row EXCEPT !.status = "paid", !.paidAt = TRUE]
    OBVIOUS
  <2>2. paid.of = row.of /\ paid.event = row.event
    BY <2>1 DEF Row
  <2>3. \/ row.of = Unraised /\ Goes(h, Idle)
        \/ row.of # Unraised /\ Goes(h, [op |-> "apply", order |-> o, row |-> paid])
    BY <1>1, <2>1 DEF Activate
  <2> QED
    BY <2>2, <2>3 DEF Idle
<1>5. \A g \in Handlers : job[g] = job[h] /\ job'[g] = to
  BY <1>4, OneJob
<1>6. \A e \in Events : ~Deleting(e) /\ ~Deleting(e)'
  BY <1>1, <1>4, <1>5 DEF Deleting
<1>7. \A u \in Orders : ~Applying(u)
  BY <1>1, <1>5 DEF Applying
<1>8. ASSUME NEW u \in Orders PROVE HandedOver(u)'
  <2>1. order[u].of # Unraised => order[u].of \in Orders
    BY DEF SInv, TInv, POTypeOK, Row
  <2>2. CASE u = o
    BY <1>1, <1>2, <1>4, <1>5, <2>2 DEF HandedOver, Applying
  <2>3. CASE u # o
    BY <1>2, <1>7, <2>1, <2>3 DEF HandedOver, Hands
  <2> QED
    BY <2>2, <2>3
<1>9. Takes(to)'
  <2>1. SUFFICES ASSUME row.of # Unraised, to.order = o, to.row.of = row.of, to.row.event = row.event
                 PROVE  \/ order'[row.of].event = NoEvent
                        \/ row.event = NoEvent /\ \A u \in Orders : order'[u].of # o
    BY <1>4 DEF Takes
  <2>2. row.of \in Orders
    BY <2>1 DEF Row
  <2>3. CASE row.paidAt
    BY <1>1, <1>2, <1>7, <2>1, <2>2, <2>3 DEF Hands, HandedOver, SInv, Rows, PaidStands
  <2>4. CASE ~row.paidAt
    <3>1. row.event = NoEvent
      BY <1>1, <2>4 DEF SInv, Rows, RowStands
    <3>2. o # Unraised
      BY PlanOrdersAssumption DEF Orders, Unraised
    <3>3. \A u \in Orders : order[u].of # o
      BY <1>1, <2>4, <3>2 DEF SInv, Rows, RowStands
    <3> QED
      BY <1>2, <3>1, <3>3
  <2> QED
    BY <2>3, <2>4
<1>10. ASSUME "delete" \notin DiesAt, NEW e \in Events PROVE Held(e)'
  <2>1. Holders(e)' = Holders(e)
    BY <1>2 DEF Holders
  <2> QED
    BY <1>3, <1>6, <1>10, <2>1 DEF Hands, Held, Exists
<1>11. ASSUME NEW g \in Handlers PROVE Takes(job[g])'
  <2>1. job'[g] = to
    BY <1>5
  <2> QED
    BY <1>9, <2>1 DEF Takes
<1> QED
  BY <1>8, <1>10, <1>11 DEF Hands

LEMMA RaiseHands ==
    ASSUME OneHandler, SInv, NoStray, Hands, NEW h \in Handlers, Raise(h)
    PROVE  Hands'
<1>1. PICK row \in Row : row = job[h].row /\ Fresh(row) /\ job[h].op = "raise"
  BY JobKinds DEF Raise, Running, SInv, TInv, POTypeOK, Requests, Means
<1>11. PICK o \in Orders :
         /\ \A other \in Orders : order[other].status = "none" <=> other >= o
         /\ order' = [order EXCEPT ![o] = row]
         /\ Goes(h, [op |-> "start", order |-> o, row |-> row])
  BY <1>1 DEF Raise
<1>12. PICK to : to = [op |-> "start", order |-> o, row |-> row]
  OBVIOUS
<1>2. /\ \A other \in Orders : order[other].status = "none" <=> other >= o
      /\ order' = [order EXCEPT ![o] = row]
      /\ Goes(h, to) /\ to.op = "start"
  BY <1>11, <1>12
<1>3. UNCHANGED event
  BY DEF Raise
<1>4. \A u \in Orders : order'[u] = IF u = o THEN row ELSE order[u]
  BY <1>2 DEF SInv, TInv, POTypeOK
<1>5. order[o].event = NoEvent /\ ~order[o].paidAt
  <2>1. order[o] = Blank
    BY <1>2, PlanOrdersAssumption DEF Orders, SInv, Rows, RowStands
  <2> QED
    BY <2>1 DEF Blank
<1>6. \A g \in Handlers : job[g] = job[h] /\ job'[g] = to
  BY <1>2, OneJob
<1>7. /\ \A e \in Events : ~Deleting(e) /\ ~Deleting(e)'
      /\ \A u \in Orders : ~Applying(u) /\ ~Applying(u)'
  BY <1>1, <1>2, <1>6 DEF Deleting, Applying
<1>8. ASSUME NEW u \in Orders PROVE HandedOver(u)'
  <2>1. order[u].of # Unraised => order[u].of \in Orders /\ order[u].of # o
    BY <1>5 DEF SInv, Rows, RowStands, TInv, POTypeOK, Row
  <2> QED
    BY <1>1, <1>4, <1>7, <2>1 DEF HandedOver, Hands, Fresh
<1>9. ASSUME "delete" \notin DiesAt, NEW e \in Events PROVE Held(e)'
  <2>1. Holders(e)' = Holders(e)
    BY <1>1, <1>4, <1>5 DEF Holders, Fresh
  <2> QED
    BY <1>3, <1>7, <1>9, <2>1 DEF Hands, Held, Exists
<1>10. \A g \in Handlers : Takes(job[g])'
  BY <1>2, <1>6 DEF Takes
<1> QED
  BY <1>8, <1>9, <1>10 DEF Hands

\* A step after which the worker is idle and an event has changed hands.
LEMMA SpentHands ==
    ASSUME SInv, Hands, Keeps({"of", "status"}),
           \A g \in Handlers : job'[g].op # "apply",
           \A u \in Orders : order'[u].event # NoEvent
                               => order[u].event # NoEvent \/ Upgrades(u, "paid") = {},
           \A u \in Orders : Applying(u) => order'[order[u].of].event = NoEvent,
           "delete" \notin DiesAt => \A e \in Events : Held(e)'
    PROVE  Hands'
<1>1. \A u \in Orders : order'[u].of = order[u].of /\ order'[u].status = order[u].status
  BY DEF Keeps
<1>2. ASSUME NEW u \in Orders PROVE HandedOver(u)'
  <2>1. SUFFICES ASSUME order[u].status = "paid", order[u].of # Unraised
                 PROVE  order'[order[u].of].event = NoEvent
    BY <1>1 DEF HandedOver
  <2>2. order[u].of \in Orders /\ Upgrades(order[u].of, "paid") # {}
    BY <2>1 DEF SInv, TInv, POTypeOK, Row, Upgrades
  <2> QED
    BY <2>1, <2>2 DEF Hands, HandedOver
<1>3. \A g \in Handlers : Takes(job[g])'
  BY DEF Takes
<1> QED
  BY <1>2, <1>3 DEF Hands

LEMMA SpendsKeepStatus ==
    ASSUME TInv, Spends
    PROVE  Keeps({"of", "status"})
<1>1. {"of", "status"} \subseteq DOMAIN Blank \ {"event"}
  BY BlankFields
<1> QED
  BY <1>1, SpendKeeps DEF Keeps

LEMMA CreateHands ==
    ASSUME OneHandler, SInv, NoStray, Hands, NEW e \in Events, NEW o \in Orders, CreateEvent(e, o)
    PROVE  Hands'
<1>1. /\ order' = [order EXCEPT ![o].event = e]
      /\ event' = [event EXCEPT ![e] = [status |-> "draft", plan |-> order[o].plan]]
      /\ order[o].event = NoEvent /\ Upgrades(o, "paid") = {}
      /\ UNCHANGED job /\ WorkerFree
  BY DEF CreateEvent, Unconsumed, Superseded
<1>2. \A u \in Orders : order'[u].event = IF u = o THEN e ELSE order[u].event
  BY <1>1 DEF SInv, TInv, POTypeOK, Row
<1>3. \A g \in Handlers : job[g].op = "idle" /\ job'[g].op = "idle"
  BY <1>1 DEF WorkerFree, OneHandler, Idle
<1>4. \A d \in Events : ~Deleting(d)
  BY <1>3 DEF Deleting
<1>5. ASSUME "delete" \notin DiesAt, NEW d \in Events PROVE Held(d)'
  <2>1. CASE d = e
    <3>1. o \in Holders(d)'
      BY <1>2, <2>1 DEF Holders
    <3> QED
      BY <3>1 DEF Held
  <2>2. CASE d # e
    <3>1. Exists(d)' => Exists(d)
      BY <1>1, <2>2 DEF Exists, SInv, TInv, POTypeOK
    <3>2. Holders(d) \subseteq Holders(d)'
      BY <1>1, <1>2, PlanOrdersAssumption DEF Holders
    <3> QED
      BY <1>4, <1>5, <3>1, <3>2 DEF Held, Hands
  <2> QED
    BY <2>1, <2>2
<1>6. Keeps({"of", "status"})
  BY SpendsKeepStatus DEF Spends, SInv
<1>7. \A u \in Orders : ~Applying(u)
  BY <1>3 DEF Applying
<1> QED
  BY <1>1, <1>2, <1>3, <1>5, <1>6, <1>7, SpentHands

LEMMA ReleaseHands ==
    ASSUME OneHandler, SInv, NoStray, Hands, NEW h \in Handlers, NEW e \in Events, ReleaseCredit(h, e)
    PROVE  Hands'
<1>1. order' = Free(e) /\ UNCHANGED event /\ job[h] = Idle /\ Goes(h, [op |-> "delete", event |-> e])
  BY DEF ReleaseCredit, Begins
<1>2. \A o \in Orders : order'[o].event = IF order[o].event = e THEN NoEvent ELSE order[o].event
  BY <1>1, FreeType DEF SInv, TInv
<1>3. PICK to : to = [op |-> "delete", event |-> e] /\ to.op = "delete"
  <2>1. [op |-> "delete", event |-> e].op = "delete"
    OBVIOUS
  <2> QED
    BY <2>1, Zenon
<1>4. \A g \in Handlers : job[g] = Idle /\ job'[g] = to
  BY <1>1, <1>3, OneJob
<1>5. /\ \A d \in Events : ~Deleting(d)
      /\ \A u \in Orders : ~Applying(u)
      /\ \A g \in Handlers : job'[g].op # "apply"
  BY <1>3, <1>4 DEF Deleting, Applying, Idle
<1>6. ASSUME "delete" \notin DiesAt, NEW d \in Events PROVE Held(d)'
  <2>1. CASE d = e
    <3>1. Deleting(d)'
      BY <1>3, <1>4, <2>1 DEF Deleting
    <3> QED
      BY <3>1 DEF Held
  <2>2. CASE d # e
    <3>1. Holders(d) \subseteq Holders(d)'
      BY <1>2, <2>2 DEF Holders
    <3> QED
      BY <1>1, <1>5, <1>6, <3>1 DEF Held, Hands, Exists
  <2> QED
    BY <2>1, <2>2
<1>7. Keeps({"of", "status"})
  BY SpendsKeepStatus DEF Spends, SInv
<1> QED
  BY <1>2, <1>5, <1>6, <1>7, SpentHands

LEMMA DeleteHands ==
    ASSUME OneHandler, SInv, NoStray, Hands, NEW h \in Handlers, DeleteEvent(h)
    PROVE  Hands'
<1>1. PICK e \in Events : e = job[h].event /\ job[h].op = "delete"
  BY JobKinds DEF DeleteEvent, Running, SInv, TInv, POTypeOK
<1>2. order' = Free(e) /\ event' = [event EXCEPT ![e].status = "gone"] /\ Goes(h, Idle)
  BY <1>1 DEF DeleteEvent
<1>3. \A o \in Orders : order'[o].event = IF order[o].event = e THEN NoEvent ELSE order[o].event
  BY <1>2, FreeType DEF SInv, TInv
<1>4. \A g \in Handlers : job[g] = job[h] /\ job'[g] = Idle
  BY <1>2, OneJob
<1>5. /\ \A d \in Events : d # e => ~Deleting(d)
      /\ \A u \in Orders : ~Applying(u)
      /\ \A g \in Handlers : job'[g].op # "apply"
  BY <1>1, <1>4 DEF Deleting, Applying, Idle
<1>6. ASSUME "delete" \notin DiesAt, NEW d \in Events PROVE Held(d)'
  <2>1. CASE d = e
    <3>1. ~Exists(d)'
      BY <1>2, <2>1 DEF Exists, SInv, TInv, POTypeOK
    <3> QED
      BY <3>1 DEF Held
  <2>2. CASE d # e
    <3>1. Holders(d) \subseteq Holders(d)'
      BY <1>3, <2>2 DEF Holders
    <3>2. Exists(d)' => Exists(d)
      BY <1>2, <2>2 DEF Exists, SInv, TInv, POTypeOK
    <3> QED
      BY <1>5, <1>6, <2>2, <3>1, <3>2 DEF Held, Hands
  <2> QED
    BY <2>1, <2>2
<1>7. Keeps({"of", "status"})
  BY SpendsKeepStatus DEF Spends, SInv
<1> QED
  BY <1>3, <1>5, <1>6, <1>7, SpentHands

LEMMA ReassignHands ==
    ASSUME OneHandler, SInv, NoStray, Hands, NEW h \in Handlers, Reassign(h)
    PROVE  Hands'
<1>1. PICK e \in Events, o \in Orders :
         /\ e = job[h].event /\ o = job[h].order /\ job[h].op = "reassign"
  BY JobKinds DEF Reassign, Running, SInv, TInv, POTypeOK
<1>2. order[o].event = NoEvent /\ Upgrades(o, "paid") = {}
  BY <1>1 DEF SInv, Requests, Means, Unconsumed, Superseded
<1>3. Goes(h, Idle)
  BY DEF Reassign
<1>4. \A g \in Handlers : job[g] = job[h] /\ job'[g] = Idle
  BY <1>3, OneJob
<1>5. /\ \A d \in Events : ~Deleting(d)
      /\ \A u \in Orders : ~Applying(u)
      /\ \A g \in Handlers : job'[g].op # "apply"
  BY <1>1, <1>4 DEF Deleting, Applying, Idle
<1>6. \A d \in Events : Exists(d)' => Exists(d)
  <2>1. UNCHANGED event \/ \E p : event' = [event EXCEPT ![e].plan = p]
    BY <1>1 DEF Reassign, GivePlan
  <2> QED
    BY <2>1 DEF Exists, SInv, TInv, POTypeOK
<1>7. Keeps({"of", "status"})
  BY SpendsKeepStatus DEF Spends, SInv
<1>8. CASE UNCHANGED order
  <2>1. ASSUME "delete" \notin DiesAt, NEW d \in Events PROVE Held(d)'
    BY <1>5, <1>6, <1>8, <2>1 DEF Held, Hands, Holders
  <2> QED
    BY <1>5, <1>7, <1>8, <2>1, SpentHands
<1>9. CASE order' = [Free(e) EXCEPT ![o].event = e]
  <2>1. Free(e) \in [Orders -> Row]
        /\ \A u \in Orders : Free(e)[u].event = IF order[u].event = e THEN NoEvent ELSE order[u].event
    BY FreeType DEF Respent, SInv, TInv
  <2>2. \A u \in Orders : order'[u].event = IF u = o THEN e ELSE
                            IF order[u].event = e THEN NoEvent ELSE order[u].event
    BY <1>9, <2>1 DEF Row
  <2>3. ASSUME "delete" \notin DiesAt, NEW d \in Events PROVE Held(d)'
    <3>1. d = e => o \in Holders(d)'
      BY <2>2 DEF Holders
    <3>2. d # e => Holders(d) \subseteq Holders(d)'
      BY <1>2, <2>2, PlanOrdersAssumption DEF Holders
    <3> QED
      BY <1>5, <1>6, <2>3, <3>1, <3>2 DEF Held, Hands
  <2> QED
    BY <1>2, <1>5, <1>7, <2>2, <2>3, SpentHands
<1> QED
  BY <1>1, <1>8, <1>9 DEF Reassign

LEMMA ApplyHands ==
    ASSUME OneHandler, SInv, NoStray, Hands, NEW h \in Handlers, Apply(h)
    PROVE  Hands'
<1>1. PICK o \in Orders, row \in Row : /\ o = job[h].order /\ row = job[h].row /\ row = order[o]
                                       /\ row.of # Unraised /\ job[h].op = "apply"
  BY JobKinds DEF Apply, Running, SInv, TInv, POTypeOK, Requests, Sees
<1>2. PICK of \in Orders : of = row.of /\ of # o
  BY <1>1, PlanOrdersAssumption DEF Row, SInv, TInv, POTypeOK, Orders
<1>3. PICK e \in Events \cup {NoEvent} :
         e = Inherited(row) /\ e = IF row.event # NoEvent THEN row.event ELSE order[of].event
  BY <1>1, <1>2 DEF Inherited, Row, SInv, TInv, POTypeOK
<1>4. order[of].event = NoEvent \/ (row.event = NoEvent /\ \A u \in Orders : order[u].of # o)
  BY <1>1, <1>2 DEF Hands, Takes
<1>5. PICK freed : freed = [order EXCEPT ![of].event = NoEvent]
  OBVIOUS
<1>6. PICK handed : handed = IF row.event = e THEN freed ELSE [freed EXCEPT ![o].event = e]
  OBVIOUS
<1>7. \A u \in Orders : handed[u].event = IF u = o THEN e ELSE
                                          IF u = of THEN NoEvent ELSE order[u].event
  <2>1. freed \in [Orders -> Row]
        /\ \A u \in Orders : freed[u].event = IF u = of THEN NoEvent ELSE order[u].event
    <3>1. \A u \in Orders : /\ [order[u] EXCEPT !.event = NoEvent] \in Row
                            /\ [order[u] EXCEPT !.event = NoEvent].event = NoEvent
      BY DEF SInv, TInv, POTypeOK, Row
    <3> QED
      BY <1>5, <3>1 DEF SInv, TInv, POTypeOK
  <2>2. CASE row.event = e
    BY <1>1, <1>2, <1>6, <2>1, <2>2
  <2>3. CASE row.event # e
    BY <1>2, <1>6, <2>1, <2>3 DEF Row
  <2> QED
    BY <2>2, <2>3
<1>8. Unique(handed)
  <2>1. \A u, v \in Orders : order[u].event = order[v].event /\ u # v => order[u].event = NoEvent
    BY DEF SInv, Rows, Unique
  <2> QED
    BY <1>1, <1>2, <1>3, <1>7, <2>1 DEF Unique
<1>9. \A u \in Orders : order'[u].event = IF u = o THEN e ELSE
                                          IF u = of THEN NoEvent ELSE order[u].event
  <2>1. e = NoEvent => order' = freed
    BY <1>1, <1>2, <1>3, <1>5 DEF Apply
  <2>2. e = NoEvent => row.event = e
    BY <1>3
  <2>3. e # NoEvent => order' = handed
    BY <1>1, <1>2, <1>3, <1>5, <1>6, <1>8 DEF Apply
  <2> QED
    BY <1>6, <1>7, <2>1, <2>2, <2>3
<1>10. Goes(h, Idle)
  BY DEF Apply
<1>11. \A g \in Handlers : job[g] = job[h] /\ job'[g] = Idle
  BY <1>10, OneJob
<1>12. /\ \A d \in Events : ~Deleting(d)
       /\ \A u \in Orders : Applying(u) => u = o
       /\ \A g \in Handlers : job'[g].op # "apply"
  BY <1>1, <1>11 DEF Deleting, Applying, Idle
<1>13. \A d \in Events : Exists(d)' => Exists(d)
  <2>1. UNCHANGED event \/ \E d, p : event' = [event EXCEPT ![d].plan = p]
    BY DEF Apply, GivePlan
  <2> QED
    BY <2>1 DEF Exists, SInv, TInv, POTypeOK
<1>14. ASSUME "delete" \notin DiesAt, NEW d \in Events PROVE Held(d)'
  <2>1. SUFFICES ASSUME Exists(d)' PROVE Holders(d)' # {}
    BY DEF Held
  <2>2. PICK u \in Orders : order[u].event = d
    BY <1>12, <1>13, <1>14, <2>1 DEF Held, Hands, Holders
  <2>3. d # NoEvent
    BY PlanOrdersAssumption
  <2>4. order'[u].event = d \/ order'[o].event = d
    BY <1>1, <1>3, <1>4, <1>9, <2>2, <2>3
  <2> QED
    BY <2>4 DEF Holders
<1>15. Keeps({"of", "status"})
  BY SpendsKeepStatus DEF Spends, SInv
<1>16. \A u \in Orders : order'[u].event # NoEvent
                               => order[u].event # NoEvent \/ Upgrades(u, "paid") = {}
  BY <1>1, <1>3, <1>4, <1>9 DEF Upgrades
<1>17. \A u \in Orders : Applying(u) => order'[order[u].of].event = NoEvent
  BY <1>1, <1>2, <1>9, <1>12
<1> QED
  BY <1>12, <1>14, <1>15, <1>16, <1>17, SpentHands

LEMMA NextHands ==
    ASSUME OneHandler, "apply" \notin DiesAt PROVE HInv /\ [Next]_vars => HInv'
<1> SUFFICES ASSUME HInv, [Next]_vars PROVE HInv'
  OBVIOUS
<1>1. SInv'
  BY NextServes DEF HInv
<1>2. SUFFICES ASSUME NoStray' PROVE Hands'
  BY <1>1 DEF HInv
<1>3. SInv /\ NoStray /\ Hands
  BY <1>2, StrayStays DEF HInv
<1>4. CASE \/ UNCHANGED vars \/ SwitchGateway
           \/ \E s \in Snaps, outcome \in {"paid", "failed", "retried"} : SnapEnds(s, outcome)
  <2>1. UNCHANGED <<order, event, job>>
    BY <1>4 DEF vars, SwitchGateway, SnapEnds
  <2> QED
    BY <1>3, <2>1 DEF Hands, HandedOver, Takes, Held, Applying, Deleting, Exists, Holders
<1>5. CASE Sweep \/ \E e \in Events : Publish(e)
  <2>1. WorkerFree /\ UNCHANGED job
    BY <1>5 DEF Sweep, Publish
  <2>2. \A g \in Handlers : job[g].op = "idle" /\ job'[g].op = "idle"
    BY <2>1 DEF WorkerFree, OneHandler, Idle
  <2>3. /\ Keeps(DOMAIN Blank \ {"status"})
        /\ \A u \in Orders : order'[u].status = order[u].status \/ order'[u].status = "cancelled"
    BY <1>3, <1>5, RestKeeps DEF SInv
  <2>4. Keeps({"of", "event"})
    BY <2>3, BlankFields DEF Keeps
  <2>5. \A e \in Events : Exists(e)' => Exists(e)
    BY <1>3, <1>5 DEF Sweep, Publish, Exists, SInv, TInv, POTypeOK
  <2> QED
    BY <1>3, <2>2, <2>3, <2>4, <2>5, QuietHands
<1>6. ASSUME NEW h \in Handlers,
             \/ PayAgain(h) \/ WriteStatus(h) \/ SubmitProof(h) \/ Approve(h) \/ Reject(h)
             \/ \E p \in Plans : Upgrade(h, p)
             \/ Start(h)
             \/ \E p \in Plans, coded \in BOOLEAN : Checkout(h, p, coded)
             \/ \E o \in Orders : Load(h, o)
             \/ \E s \in Snaps : Notify(h, s[1], s[2])
             \/ \E e \in Events, o \in Orders : LoadReassign(h, e, o)
             \/ Refused(h) \/ Dies(h)
      PROVE  Hands'
  BY <1>3, <1>6, QuietStepHands
<1>7. ASSUME NEW h \in Handlers, Raise(h) \/ Activate(h) \/ Apply(h) \/ DeleteEvent(h) \/ Reassign(h)
             \/ \E e \in Events : ReleaseCredit(h, e)
      PROVE  Hands'
  BY <1>3, <1>7, RaiseHands, ActivateHands, ApplyHands, DeleteHands, ReassignHands, ReleaseHands
<1>8. ASSUME NEW e \in Events, NEW o \in Orders, CreateEvent(e, o) PROVE Hands'
  BY <1>3, <1>8, CreateHands
<1> QED
  BY <1>4, <1>5, <1>6, <1>7, <1>8 DEF Next

LEMMA InitHands == Init => HInv
<1> SUFFICES ASSUME Init PROVE HInv
  OBVIOUS
<1>1. SInv
  BY InitServes
<1>2. \A o \in Orders : order[o].status = "none"
  BY DEF Init, Blank
<1>3. Hands
  BY <1>2 DEF Init, Idle, Hands, HandedOver, Takes, Held, Exists
<1> QED
  BY <1>1, <1>3 DEF HInv

\* When requests run one after another and none dies between the two commits of activate()
\* or of destroy(), an event that exists has one order, and that order was paid.
THEOREM EveryEventHeldHolds ==
    ASSUME OneHandler, DiesAt \cap {"apply", "delete"} = {} PROVE Spec => []EveryEventHeld
<1>0. "apply" \notin DiesAt /\ "delete" \notin DiesAt
  OBVIOUS
<1>1. Init => HInv
  BY InitHands
<1>2. HInv /\ [Next]_vars => HInv'
  BY <1>0, NextHands
<1>3. HInv => EveryEventHeld
  <2> SUFFICES ASSUME HInv, OneRail, NEW e \in Events, Exists(e),
                      \A h \in Handlers : job[h] # [op |-> "delete", event |-> e]
               PROVE  \E o \in Orders : Holders(e) = {o} /\ order[o].paidAt
    BY DEF EveryEventHeld
  <2>1. NoStray
    BY DEF OneRail, NoStray, HInv, SInv, Rows, RowStands
  <2>2. PICK o \in Orders : order[o].event = e
    BY <1>0, <2>1 DEF HInv, Hands, Held, Deleting, Holders
  <2>3. \A u \in Orders : order[u].event = e => u = o
    BY <2>2, PlanOrdersAssumption DEF HInv, SInv, Rows, Unique
  <2>4. order[o].paidAt
    BY <2>2, PlanOrdersAssumption DEF HInv, SInv, Rows, RowStands
  <2> QED
    BY <2>2, <2>3, <2>4 DEF Holders
<1> QED
  BY <1>1, <1>2, <1>3, PTL DEF Spec

-----------------------------------------------------------------------------
(***************************************************************************)
(* The code's quota.                                                       *)
(***************************************************************************)
Payable == {"past_due", "paid"}
Counted == {o \in Orders : order[o].coded /\ order[o].status \in {"paid", "past_due"}}

\* What Midtrans was asked to collect, a cancelled bill cannot be paid by any more.
Dead(o) == order[o].status = "cancelled" => order[o].snap = 0 \/ Last(o) = "failed"

\* No request is about to bring a cancelled bill back, or to raise one too many.
Redeems(j) ==
    /\ j.op = "activate" => j.row.status \in Payable
    /\ j.op = "write" => IF j.status = "cancelled" THEN Last(j.order) = "failed"
                                                   ELSE j.row.status \in Payable
    /\ j.op = "raise" /\ j.row.coded => Usage < MaxRedemptions

Quota ==
    /\ \A o \in Orders : Dead(o)
    /\ \A h \in Handlers : Redeems(job[h])
    /\ Usage <= MaxRedemptions

LEMMA UsageType ==
    Usage \in Nat /\ IsFiniteSet(Counted) /\ Usage = Cardinality(Counted)
<1>1. IsFiniteSet(Orders)
  <2>1. Raised \in Int /\ 1 \in Int
    BY PlanOrdersAssumption
  <2> QED
    BY <2>1, FS_Interval DEF Orders
<1>2. IsFiniteSet(Counted) /\ Usage = Cardinality(Counted)
  BY <1>1, FS_Subset DEF Usage, Counted
<1> QED
  BY <1>2, FS_CardinalityType

LEMMA UsageFalls ==
    ASSUME Keeps({"coded"}),
           \A u \in Orders : order'[u].status \in Payable => order[u].status \in Payable
    PROVE  Usage' <= Usage /\ Usage' \in Nat
<1>1. Counted' \subseteq Counted
  BY DEF Counted, Keeps, Payable
<1>2. Usage' = Cardinality(Counted')
  BY DEF Usage, Counted
<1>3. PICK S, T : S = Counted' /\ T = Counted
  OBVIOUS
<1>4. IsFiniteSet(T) /\ S \subseteq T
  BY <1>1, <1>3, UsageType
<1>5. Cardinality(S) <= Cardinality(T) /\ Cardinality(S) \in Nat
  BY <1>4, FS_Subset, FS_CardinalityType
<1> QED
  BY <1>2, <1>3, <1>5, UsageType

LEMMA QuotaKept ==
    ASSUME Quota, Keeps({"coded"}),
           \A u \in Orders : order'[u].status \in Payable => order[u].status \in Payable,
           \A u \in Orders : Dead(u)',
           \A g \in Handlers : Redeems(job[g])'
    PROVE  Quota'
<1>1. Usage' <= Usage /\ Usage' \in Nat /\ Usage \in Nat
  BY UsageFalls, UsageType
<1>2. Usage' <= MaxRedemptions
  BY <1>1, PlanOrdersAssumption DEF Quota
<1> QED
  BY <1>2 DEF Quota

LEMMA DeadKept ==
    ASSUME Quota, Keeps({"status", "snap"}), UNCHANGED snap
    PROVE  /\ \A u \in Orders : order'[u].status \in Payable => order[u].status \in Payable
           /\ \A u \in Orders : Dead(u)'
<1>1. \A u \in Orders : order'[u].status = order[u].status /\ order'[u].snap = order[u].snap
  BY DEF Keeps
<1> QED
  BY <1>1 DEF Quota, Dead, Last

\* The one request goes on to another.
LEMMA RedeemsGoes ==
    ASSUME OneHandler, SInv, NEW h \in Handlers, NEW to, Goes(h, to), Redeems(to)'
    PROVE  \A g \in Handlers : Redeems(job[g])'
<1> TAKE g \in Handlers
<1>1. job'[g] = to
  BY OneJob
<1> QED
  BY <1>1 DEF Redeems, Last

LEMMA AskingQuota ==
    ASSUME OneHandler, SInv, Quota, NEW h \in Handlers, NEW to, Goes(h, to),
           UNCHANGED <<order, snap>>, Redeems(to)
    PROVE  Quota'
<1>1. Keeps({"coded"}) /\ Keeps({"status", "snap"})
  BY DEF Keeps
<1>2. Redeems(to)'
  BY DEF Redeems, Last, Usage
<1>3. \A g \in Handlers : Redeems(job[g])'
  BY <1>2, RedeemsGoes
<1> QED
  BY <1>1, <1>3, DeadKept, QuotaKept

LEMMA AskQuota ==
    ASSUME OneHandler, SInv, Quota, NEW h \in Handlers,
           \/ Refused(h) \/ Dies(h)
           \/ \E p \in Plans, coded \in BOOLEAN : Checkout(h, p, coded)
           \/ \E o \in Orders : Load(h, o)
           \/ \E s \in Snaps : Notify(h, s[1], s[2])
           \/ \E e \in Events, o \in Orders : LoadReassign(h, e, o)
    PROVE  Quota'
<1>1. ASSUME NEW to, Goes(h, to), to.op \in {"idle", "seen", "reassign"}, UNCHANGED <<order, snap>>
      PROVE  Quota'
  BY <1>1, AskingQuota DEF Redeems
<1>2. CASE Refused(h) \/ Dies(h)
  <2>1. Goes(h, Idle) /\ UNCHANGED <<order, snap>> /\ Idle.op = "idle"
    BY <1>2 DEF Refused, Dies, outside, Idle
  <2> QED
    BY <1>1, <2>1
<1>3. ASSUME NEW p \in Plans, NEW coded \in BOOLEAN, Checkout(h, p, coded) PROVE Quota'
  <2> DEFINE amount == Price[p] - IF coded THEN DiscountFor(p) ELSE 0
             row == [Blank EXCEPT !.status = "past_due", !.plan = p, !.coded = coded,
                                  !.amount = amount]
             to == [op |-> "raise", row |-> Billed(row)]
  <2>1. Billed(row).coded = coded
    <3> HIDE DEF amount
    <3> QED
      BY DEF Billed, Blank
  <2>2. coded => Usage < MaxRedemptions
    BY <1>3 DEF Checkout
  <2>3. Goes(h, to) /\ UNCHANGED <<order, snap>>
    BY <1>3 DEF Checkout, Begins, outside
  <2>4. Redeems(to)
    <3> HIDE DEF row
    <3> QED
      BY <2>1, <2>2 DEF Redeems
  <2> HIDE DEF to
  <2> QED
    BY <2>3, <2>4, AskingQuota
<1>4. ASSUME NEW o \in Orders, Load(h, o) PROVE Quota'
  <2>1. PICK to : to = [op |-> "seen", order |-> o, row |-> order[o]]
    OBVIOUS
  <2>2. Goes(h, to) /\ UNCHANGED <<order, snap>> /\ to.op = "seen"
    BY <1>4, <2>1 DEF Load, Begins, outside
  <2> QED
    BY <1>1, <2>2
<1>5. ASSUME NEW s \in Snaps, Notify(h, s[1], s[2]) PROVE Quota'
  <2>1. PICK o \in Orders : o = s[1]
    BY DEF Snaps
  <2>2. order[o].snap = s[2] /\ s[2] > 0 /\ s[2] # 0
    BY <1>5, <2>1, PlanOrdersAssumption DEF Notify, Knows, Snaps
  <2>3. PICK to :
          /\ \/ /\ snap[<<o, order[o].snap>>] \in Collected
                /\ to = [op |-> "activate", order |-> o, row |-> order[o]]
             \/ /\ snap[<<o, order[o].snap>>] = "failed"
                /\ to = [op |-> "write", order |-> o, row |-> order[o], status |-> "cancelled"]
             \/ /\ snap[<<o, order[o].snap>>] = "open"
                /\ to = [op |-> "write", order |-> o, row |-> order[o], status |-> "past_due"]
          /\ Goes(h, to)
    BY <1>5, <2>1, <2>2 DEF Collected, Notify, Begins
  <2>4. Last(o) # "failed" => order[o].status \in Payable
    <3>1. order[o].status # "none"
      <4>1. order[o] = Blank => order[o].snap = 0
        BY DEF Blank
      <4> QED
        BY <2>2, <4>1 DEF SInv, Rows, RowStands
    <3>2. order[o].status \in {"none", "past_due", "paid", "cancelled"}
      BY DEF SInv, TInv, POTypeOK, Row
    <3> QED
      BY <2>2, <3>1, <3>2 DEF Quota, Dead, Payable
  <2>5. Redeems(to)
    BY <2>3, <2>4 DEF Collected, Redeems, Last
  <2>6. UNCHANGED <<order, snap>>
    BY <1>5 DEF Notify, outside
  <2> QED
    BY <2>3, <2>5, <2>6, AskingQuota
<1>6. ASSUME NEW e \in Events, NEW o \in Orders, LoadReassign(h, e, o) PROVE Quota'
  <2>1. PICK to : to = [op |-> "reassign", event |-> e, order |-> o, plan |-> event[e].plan,
                        to |-> order[o].plan]
    OBVIOUS
  <2>2. Goes(h, to) /\ UNCHANGED <<order, snap>> /\ to.op = "reassign"
    BY <1>6, <2>1 DEF LoadReassign, Begins, outside
  <2> QED
    BY <1>1, <2>2
<1> QED
  BY <1>2, <1>3, <1>4, <1>5, <1>6

LEMMA EditQuota ==
    ASSUME OneHandler, SInv, Quota, OneRail, NEW h \in Handlers,
           \/ PayAgain(h) \/ SubmitProof(h) \/ Approve(h) \/ Reject(h)
           \/ \E p \in Plans : Upgrade(h, p)
    PROVE  Quota'
<1>1. Keeps({"coded"}) /\ Keeps({"status", "snap"})
  <2>1. {"coded", "status", "snap"} \subseteq QuietFields \cup {"status", "snap"}
    BY DEF QuietFields, Terms
  <2> QED
    BY <2>1, EditKeeps DEF SInv, Keeps
<1>2. UNCHANGED snap
  BY DEF PayAgain, SubmitProof, Approve, Reject, Upgrade, outside
<1>3. /\ \A u \in Orders : order'[u].status \in Payable => order[u].status \in Payable
      /\ \A u \in Orders : Dead(u)'
  BY <1>1, <1>2, DeadKept
<1>4. ASSUME NEW to, Goes(h, to), Redeems(to)' PROVE Quota'
  <2>1. \A g \in Handlers : Redeems(job[g])'
    BY <1>4, RedeemsGoes
  <2> QED
    BY <1>1, <1>3, <2>1, QuotaKept
<1>5. ASSUME NEW o, NEW row, Goes(h, [op |-> "start", order |-> o, row |-> row]) PROVE Quota'
  <2>1. PICK to : to = [op |-> "start", order |-> o, row |-> row]
    OBVIOUS
  <2>2. Redeems(to)'
    BY <2>1 DEF Redeems
  <2> QED
    BY <1>4, <1>5, <2>1, <2>2
<1>6. CASE PayAgain(h)
  BY <1>5, <1>6 DEF PayAgain, Reopen
<1>7. ASSUME NEW p \in Plans, Upgrade(h, p) PROVE Quota'
  <2> DEFINE row(d) == [Blank EXCEPT !.status = "past_due", !.plan = p, !.of = job[h].order,
                                     !.amount = d]
  <2>1. \/ \E o, copy : Reopen(h, o, copy)
        \/ \E d : Goes(h, [op |-> "raise", row |-> Billed(row(d))])
    BY <1>7 DEF Upgrade
  <2>2. ASSUME NEW d, Goes(h, [op |-> "raise", row |-> Billed(row(d))]) PROVE Quota'
    <3>1. PICK to : to = [op |-> "raise", row |-> Billed(row(d))]
      OBVIOUS
    <3>2. Billed(row(d)).coded = FALSE
      BY DEF Billed, Blank
    <3>3. PICK bill : bill = Billed(row(d)) /\ bill.coded = FALSE
      BY <3>2
    <3>4. to = [op |-> "raise", row |-> bill]
      BY <3>1, <3>3
    <3>5. Redeems(to)'
      BY <3>3, <3>4 DEF Redeems
    <3> QED
      BY <1>4, <2>2, <3>1, <3>5
  <2> QED
    BY <1>5, <2>1, <2>2 DEF Reopen
<1>8. CASE SubmitProof(h) \/ Reject(h)
  <2>1. Goes(h, Idle)
    BY <1>8 DEF SubmitProof, Reject
  <2>2. Redeems(Idle)'
    BY DEF Redeems, Idle
  <2> QED
    BY <1>4, <2>1, <2>2
<1>9. CASE Approve(h)
  <2>1. PICK o \in Orders, row \in Row : o = job[h].order /\ row = job[h].row /\ row = order[o]
    BY <1>9, JobKinds DEF Approve, Running, SInv, TInv, POTypeOK, Requests, Sees
  <2>2. row.status # "paid" /\ row.proof
    BY <1>9, <2>1 DEF Approve, Awaiting
  <2>3. row.status # "none"
    BY <1>9, <2>1 DEF Approve, Running, SInv, TInv, NamedRaised, Names
  <2>4. row.status # "cancelled"
    <3>1. row.snap > 0 => ~row.proof
      BY <2>1 DEF OneRail
    <3>2. row.snap = 0 \/ row.snap > 0
      BY PlanOrdersAssumption DEF Row
    <3>3. RowStands(o)
      BY DEF SInv, Rows
    <3> QED
      BY <2>1, <2>2, <3>1, <3>2, <3>3 DEF RowStands
  <2>5. order'[o].status \in Payable
    <3>1. order'[o].status = row.status
      BY <1>1, <2>1 DEF Keeps
    <3> QED
      BY <2>2, <2>3, <2>4, <3>1 DEF Payable, Row
  <2>6. PICK to, new : to = [op |-> "activate", order |-> o, row |-> new] /\ new = order'[o]
    OBVIOUS
  <2>7. Redeems(to)'
    BY <2>5, <2>6 DEF Redeems
  <2>8. Goes(h, to)
    BY <1>9, <2>1, <2>6 DEF Approve
  <2> QED
    BY <1>4, <2>7, <2>8
<1> QED
  BY <1>6, <1>7, <1>8, <1>9

LEMMA SettleQuota ==
    ASSUME OneHandler, SInv, Quota, NEW h \in Handlers, Activate(h) \/ WriteStatus(h)
    PROVE  Quota'
<1>1. PICK o \in Orders, row \in Row : /\ o = job[h].order /\ row = job[h].row /\ row = order[o]
                                       /\ job[h].op \in {"activate", "write"}
  BY JobKinds DEF Activate, WriteStatus, Running, SInv, TInv, POTypeOK, Requests, Sees
<1>2. UNCHANGED snap
  BY DEF Activate, WriteStatus, outside
<1>3. ASSUME NEW to, Goes(h, to), to.op \in {"idle", "apply"}
      PROVE  \A g \in Handlers : Redeems(job[g])'
  <2>1. Redeems(to)'
    BY <1>3 DEF Redeems
  <2> QED
    BY <1>3, <2>1, RedeemsGoes
<1>4. Redeems(job[h])
  BY DEF Quota
<1>5. CASE Activate(h)
  <2>1. Keeps({"coded"}) /\ \A u \in Orders : u # o => order'[u] = order[u]
    <3>1. "coded" \in Terms \cup {"event"}
      BY DEF Terms
    <3> QED
      BY <1>1, <1>5, <3>1, ActivateKeeps DEF SInv, Keeps
  <2>2. row.status \in Payable
    BY <1>1, <1>4, <1>5 DEF Redeems, Activate, Running
  <2>3. order'[o].status = "paid"
    <3>1. PICK new \in Row : new = [row EXCEPT !.status = "paid", !.paidAt = TRUE]
      BY DEF Row
    <3>2. Save(o, row, new)
      BY <1>1, <1>5, <3>1 DEF Activate
    <3>3. order'[o] = new
      BY <1>1, <3>2, SavedWrites
    <3> QED
      BY <3>1, <3>3 DEF Row
  <2>4. \A u \in Orders : order'[u].status \in Payable => order[u].status \in Payable
    BY <1>1, <2>1, <2>2
  <2>5. \A u \in Orders : Dead(u)'
    BY <1>2, <2>1, <2>3 DEF Dead, Last, Quota
  <2>6. PICK to : Goes(h, to) /\ to.op \in {"idle", "apply"}
    <3>1. \/ Goes(h, Idle)
          \/ \E new : Goes(h, [op |-> "apply", order |-> o, row |-> new])
      BY <1>1, <1>5 DEF Activate
    <3>2. Idle.op = "idle" /\ \A new : [op |-> "apply", order |-> o, row |-> new].op = "apply"
      BY DEF Idle
    <3> QED
      BY <3>1, <3>2
  <2> QED
    BY <1>3, <2>1, <2>4, <2>5, <2>6, QuotaKept
<1>6. CASE WriteStatus(h)
  <2>1. /\ Keeps(DOMAIN Blank \ {"status"})
        /\ \A u \in Orders : u # o => order'[u].status = order[u].status
        /\ order'[o].status \in {order[o].status, job[h].status}
        /\ job[h].status \in {"past_due", "cancelled"}
    BY <1>1, <1>6, WriteKeeps DEF SInv
  <2>2. Keeps({"coded"}) /\ \A u \in Orders : order'[u].snap = order[u].snap
    BY <2>1, BlankFields DEF Keeps
  <2>3. IF job[h].status = "cancelled" THEN Last(o) = "failed" ELSE order[o].status \in Payable
    BY <1>1, <1>4, <1>6 DEF Redeems, WriteStatus, Running
  <2>4. \A u \in Orders : order'[u].status \in Payable => order[u].status \in Payable
    BY <2>1, <2>3 DEF Payable
  <2>5. \A u \in Orders : Dead(u)'
    BY <1>2, <2>1, <2>2, <2>3 DEF Dead, Last, Quota
  <2>6. Goes(h, Idle) /\ Idle.op = "idle"
    BY <1>6 DEF WriteStatus, Idle
  <2> QED
    BY <1>3, <2>2, <2>4, <2>5, <2>6, QuotaKept
<1> QED
  BY <1>5, <1>6

LEMMA StartQuota ==
    ASSUME OneHandler, SInv, Quota, NEW h \in Handlers, Start(h)
    PROVE  Quota'
<1>1. PICK o \in Orders, row \in Row : /\ o = job[h].order /\ row = job[h].row /\ row = order[o]
                                       /\ row.status = "past_due"
  BY JobKinds DEF Start, Running, SInv, TInv, POTypeOK, Requests, Sees, Means
<1>2. CASE Goes(h, [job[h] EXCEPT !.op = "activate"]) /\ UNCHANGED <<order, snap>>
  <2>1. PICK to : to = [job[h] EXCEPT !.op = "activate"]
    OBVIOUS
  <2>2. to.op = "activate" /\ to.row = row
    <3>1. job[h] \in [op : {"start"}, order : Orders, row : Row]
      BY DEF Start, Running, SInv, TInv, POTypeOK, Job, Idle
    <3> QED
      BY <1>1, <2>1, <3>1
  <2>3. Redeems(to)
    BY <1>1, <2>2 DEF Redeems, Payable
  <2> QED
    BY <1>2, <2>1, <2>3, AskingQuota
<1>3. Redeems(Idle) /\ Redeems(Idle)'
  BY DEF Redeems, Idle
<1>4. CASE Goes(h, Idle) /\ UNCHANGED <<order, snap>>
  BY <1>3, <1>4, AskingQuota
<1>5. ASSUME NEW n, snap' = [snap EXCEPT ![<<o, n>>] = "open"], order' = [order EXCEPT ![o].snap = n],
             Goes(h, Idle)
      PROVE  Quota'
  <2>1. Keeps({"coded", "status"})
    <3>1. {"coded", "status"} \subseteq DOMAIN Blank \ {"snap"}
      BY BlankFields
    <3> QED
      BY <3>1, StartKeeps DEF Keeps, SInv
  <2>2. ASSUME NEW u \in Orders PROVE Dead(u)'
    <3>1. CASE u = o
      BY <1>1, <2>1, <3>1 DEF Dead, Keeps
    <3>2. CASE u # o
      <4>1. order'[u] = order[u] /\ <<u, order[u].snap>> # <<o, n>>
        BY <1>5, <3>2 DEF SInv, TInv, POTypeOK
      <4>2. order[u].snap # 0 => Last(u)' = Last(u)
        <5>1. SUFFICES ASSUME order[u].snap # 0 PROVE Last(u)' = Last(u)
          OBVIOUS
        <5>2. order[u].snap \in 0..Attempts
          BY DEF SInv, TInv, POTypeOK, Row
        <5>3. <<u, order[u].snap>> \in Snaps
          BY <5>1, <5>2, PlanOrdersAssumption DEF Snaps
        <5>4. snap'[<<u, order[u].snap>>] = snap[<<u, order[u].snap>>]
          BY <1>5, <4>1, <5>3 DEF SInv, TInv, POTypeOK
        <5> QED
          BY <4>1, <5>4 DEF Last
      <4> QED
        BY <4>1, <4>2 DEF Dead, Quota
    <3> QED
      BY <3>1, <3>2
  <2>3. \A g \in Handlers : Redeems(job[g])'
    BY <1>3, <1>5, RedeemsGoes
  <2> QED
    BY <2>1, <2>2, <2>3, QuotaKept DEF Keeps
<1> QED
  BY <1>1, <1>2, <1>4, <1>5 DEF Start

\* The row that the quota was counted for.
LEMMA RaiseQuota ==
    ASSUME OneHandler, SInv, Quota, NEW h \in Handlers, Raise(h)
    PROVE  Quota'
<1>1. PICK row \in Row : row = job[h].row /\ Fresh(row) /\ job[h].op = "raise"
  BY JobKinds DEF Raise, Running, SInv, TInv, POTypeOK, Requests, Means
<1>2. PICK o \in Orders :
         /\ order' = [order EXCEPT ![o] = row]
         /\ Goes(h, [op |-> "start", order |-> o, row |-> row])
  BY <1>1 DEF Raise
<1>3. UNCHANGED snap
  BY DEF Raise, outside
<1>4. \A u \in Orders : order'[u] = IF u = o THEN row ELSE order[u]
  BY <1>2 DEF SInv, TInv, POTypeOK
<1>5. \A u \in Orders : Dead(u)'
  BY <1>1, <1>3, <1>4 DEF Dead, Last, Quota, Fresh
<1>6. PICK to : to = [op |-> "start", order |-> o, row |-> row]
  OBVIOUS
<1>7. Redeems(to)'
  BY <1>6 DEF Redeems
<1>8. \A g \in Handlers : Redeems(job[g])'
  BY <1>2, <1>6, <1>7, RedeemsGoes
<1>9. Usage' <= MaxRedemptions
  <2>1. PICK S, T : S = Counted' /\ T = Counted
    OBVIOUS
  <2>2. Usage' = Cardinality(S) /\ Usage = Cardinality(T) /\ IsFiniteSet(T) /\ Usage \in Nat
    BY <2>1, UsageType DEF Usage, Counted
  <2>3. /\ IsFiniteSet(T \cup {o})
        /\ Cardinality(T \cup {o}) = IF o \in T THEN Cardinality(T) ELSE Cardinality(T) + 1
    BY <2>2, FS_AddElement
  <2>4. S \subseteq IF row.coded THEN T \cup {o} ELSE T
    BY <1>4, <2>1 DEF Counted
  <2>5. CASE row.coded
    <3>1. Usage < MaxRedemptions
      BY <1>1, <2>5 DEF Quota, Redeems
    <3>2. Cardinality(S) <= Cardinality(T \cup {o}) /\ Cardinality(S) \in Nat
      BY <2>3, <2>4, <2>5, FS_Subset, FS_CardinalityType
    <3> QED
      BY <2>2, <2>3, <3>1, <3>2, PlanOrdersAssumption
  <2>6. CASE ~row.coded
    <3>1. Cardinality(S) <= Cardinality(T) /\ Cardinality(S) \in Nat
      BY <2>2, <2>4, <2>6, FS_Subset, FS_CardinalityType
    <3> QED
      BY <2>2, <3>1, PlanOrdersAssumption DEF Quota
  <2> QED
    BY <2>5, <2>6
<1> QED
  BY <1>5, <1>8, <1>9 DEF Quota

LEMMA SpendQuota ==
    ASSUME OneHandler, SInv, Quota, Spends
    PROVE  Quota'
<1>1. Keeps({"coded"}) /\ Keeps({"status", "snap"})
  <2>1. {"coded", "status", "snap"} \subseteq DOMAIN Blank \ {"event"}
    BY BlankFields
  <2> QED
    BY <2>1, SpendKeeps DEF Keeps, SInv
<1>2. UNCHANGED snap
  BY DEF Spends, CreateEvent, ReleaseCredit, Apply, DeleteEvent, Reassign, outside
<1>3. \A g \in Handlers : Redeems(job[g])'
  <2>1. ASSUME NEW h \in Handlers, NEW to, Goes(h, to), to.op \in {"idle", "delete"}
        PROVE  \A g \in Handlers : Redeems(job[g])'
    <3>1. Redeems(to)'
      BY <2>1 DEF Redeems
    <3> QED
      BY <2>1, <3>1, RedeemsGoes
  <2>2. ASSUME NEW e \in Events, NEW o \in Orders, CreateEvent(e, o)
        PROVE  \A g \in Handlers : Redeems(job[g])'
    <3>1. PICK h \in Handlers : job[h] = Idle
      BY <2>2 DEF CreateEvent, WorkerFree
    <3>2. \A g \in Handlers : job'[g] = Idle
      BY <2>2, <3>1, OneJob DEF CreateEvent
    <3> QED
      BY <3>2 DEF Redeems, Idle
  <2>3. ASSUME NEW h \in Handlers, Apply(h) \/ DeleteEvent(h) \/ Reassign(h)
        PROVE  Goes(h, Idle)
    BY <2>3 DEF Apply, DeleteEvent, Reassign
  <2>4. Idle.op = "idle"
    BY DEF Idle
  <2>5. ASSUME NEW h \in Handlers, NEW e \in Events, ReleaseCredit(h, e)
        PROVE  \A g \in Handlers : Redeems(job[g])'
    <3>1. PICK to : to = [op |-> "delete", event |-> e]
      OBVIOUS
    <3>2. Goes(h, to) /\ to.op = "delete"
      BY <2>5, <3>1 DEF ReleaseCredit, Begins
    <3> QED
      BY <2>1, <3>2
  <2> QED
    BY <2>1, <2>2, <2>3, <2>4, <2>5 DEF Spends
<1> QED
  BY <1>1, <1>2, <1>3, DeadKept, QuotaKept

LEMMA AroundQuota ==
    ASSUME OneHandler, SInv, Quota, OneRail, NoRetry',
           \/ UNCHANGED vars \/ Sweep \/ SwitchGateway
           \/ \E e \in Events : Publish(e)
           \/ \E s \in Snaps, outcome \in {"paid", "failed", "retried"} : SnapEnds(s, outcome)
    PROVE  Quota'
<1>1. CASE Sweep
  <2>1. /\ Keeps(DOMAIN Blank \ {"status"})
        /\ \A u \in Orders : order'[u].status = order[u].status \/ order'[u].status = "cancelled"
    BY <1>1, RestKeeps DEF SInv
  <2>2. UNCHANGED <<snap, job>> /\ WorkerFree
    BY <1>1 DEF Sweep, outside
  <2>3. \A g \in Handlers : Redeems(job[g])'
    <3>1. \A g \in Handlers : job'[g] = Idle
      BY <2>2 DEF WorkerFree, OneHandler
    <3> QED
      BY <3>1 DEF Redeems, Idle
  <2>4. Keeps({"coded"}) /\ \A u \in Orders : order'[u].snap = order[u].snap
    BY <2>1, BlankFields DEF Keeps
  <2>5. ASSUME NEW u \in Orders PROVE Dead(u)'
    <3>1. PICK late \in SUBSET Stale :
            order' = [o \in Orders |-> IF o \in late THEN [order[o] EXCEPT !.status = "cancelled"]
                                                     ELSE order[o]]
      BY <1>1 DEF Sweep
    <3>2. CASE u \in late
      <4>1. order[u].method = "manual" /\ order[u].snap \in Nat
        BY <3>1, <3>2, PlanOrdersAssumption DEF Stale, SInv, TInv, POTypeOK, Row
      <4>2. order[u].snap = 0
        BY <4>1 DEF OneRail
      <4> QED
        BY <2>4, <4>2 DEF Dead
    <3>3. CASE u \notin late
      BY <2>2, <3>1, <3>3 DEF Dead, Last, Quota
    <3> QED
      BY <3>2, <3>3
  <2> QED
    BY <2>1, <2>3, <2>4, <2>5, QuotaKept DEF Payable
<1>2. CASE \E e \in Events : Publish(e)
  <2>1. UNCHANGED <<order, snap, job>>
    BY <1>2 DEF Publish, outside
  <2> QED
    BY <2>1 DEF Quota, Dead, Redeems, Last, Usage
<1>3. CASE UNCHANGED vars \/ SwitchGateway
  <2>1. UNCHANGED <<order, snap, job>>
    BY <1>3 DEF vars, SwitchGateway
  <2> QED
    BY <2>1 DEF Quota, Dead, Redeems, Last, Usage
<1>4. ASSUME NEW s \in Snaps, NEW outcome \in {"paid", "failed", "retried"}, SnapEnds(s, outcome) PROVE Quota'
  <2>1. UNCHANGED <<order, job>>
    BY <1>4 DEF SnapEnds
  <2>2. \A t : snap[t] = "failed" => snap'[t] = "failed"
    <3>1. snap' = [snap EXCEPT ![s] = outcome] /\ snap'[s] = outcome
      BY <1>4 DEF SnapEnds, SInv, TInv, POTypeOK
    <3>2. outcome # "retried"
      BY <3>1 DEF NoRetry
    <3>3. snap[s] = "open"
      BY <1>4, <3>2 DEF SnapEnds
    <3> QED
      BY <3>1, <3>3
  <2>3. \A u \in Orders : Dead(u)'
    BY <2>1, <2>2 DEF Dead, Last, Quota
  <2>4. \A g \in Handlers : Redeems(job[g])'
    <3> TAKE g \in Handlers
    <3>1. Redeems(job[g])
      BY DEF Quota
    <3>2. Usage' = Usage
      BY <2>1 DEF Usage
    <3> QED
      BY <2>1, <2>2, <3>1, <3>2 DEF Redeems, Last
  <2> QED
    BY <2>1, <2>3, <2>4 DEF Quota, Usage
<1> QED
  BY <1>1, <1>2, <1>3, <1>4

LEMMA NextQuota ==
    ASSUME OneHandler, SInv, Quota, OneRail, NoRetry', [Next]_vars
    PROVE  Quota'
<1>1. ASSUME NEW h \in Handlers,
             \/ PayAgain(h) \/ WriteStatus(h) \/ SubmitProof(h) \/ Approve(h) \/ Reject(h)
             \/ \E p \in Plans : Upgrade(h, p)
             \/ Start(h) \/ Activate(h) \/ Raise(h)
      PROVE  Quota'
  BY <1>1, EditQuota, SettleQuota, StartQuota, RaiseQuota
<1>2. ASSUME Spends PROVE Quota'
  BY <1>2, SpendQuota
<1>3. ASSUME NEW h \in Handlers,
             \/ Refused(h) \/ Dies(h)
             \/ \E p \in Plans, coded \in BOOLEAN : Checkout(h, p, coded)
             \/ \E o \in Orders : Load(h, o)
             \/ \E s \in Snaps : Notify(h, s[1], s[2])
             \/ \E e \in Events, o \in Orders : LoadReassign(h, e, o)
      PROVE  Quota'
  BY <1>3, AskQuota
<1>4. ASSUME \/ UNCHANGED vars \/ Sweep \/ SwitchGateway
             \/ \E e \in Events : Publish(e)
             \/ \E s \in Snaps, outcome \in {"paid", "failed", "retried"} : SnapEnds(s, outcome)
      PROVE  Quota'
  BY <1>4, AroundQuota
<1> QED
  BY <1>1, <1>2, <1>3, <1>4 DEF Next, Spends

\* When requests run one after another, no bill was ever on both rails and none was paid at
\* Midtrans after a denial, the code is never redeemed more often than its quota: what is
\* payable is counted too, and a cancelled bill stays cancelled.
THEOREM CodeQuotaHolds ==
    ASSUME OneHandler PROVE Spec /\ []OneRail /\ []NoRetry => []CodeQuota
<1>1. Init => SInv /\ Quota
  <2> SUFFICES ASSUME Init PROVE Quota
    BY InitServes
  <2>1. \A o \in Orders : order[o].status = "none"
    BY DEF Init, Blank
  <2>2. Counted = {}
    BY <2>1 DEF Counted
  <2>3. Usage <= MaxRedemptions
    BY <2>2, UsageType, FS_EmptySet, PlanOrdersAssumption
  <2> QED
    BY <2>1, <2>3 DEF Init, Idle, Quota, Dead, Redeems
<1>2. SInv /\ Quota /\ OneRail /\ NoRetry' /\ [Next]_vars => (SInv /\ Quota)'
  BY NextServes, NextQuota
<1>3. SInv /\ Quota /\ OneRail => CodeQuota
  <2> SUFFICES ASSUME SInv, Quota, OneRail
               PROVE  Cardinality({o \in Orders : order[o].coded /\ order[o].paidAt}) <= MaxRedemptions
    BY DEF CodeQuota
  <2> DEFINE Redeemed == {o \in Orders : order[o].coded /\ order[o].paidAt}
  <2>1. NoStray
    BY DEF OneRail, NoStray, SInv, Rows, RowStands
  <2>2. Redeemed \subseteq Counted
    BY <2>1 DEF Counted, SInv, Rows, PaidStands
  <2>3. Cardinality(Redeemed) <= Usage /\ Cardinality(Redeemed) \in Nat
    <3> HIDE DEF Redeemed
    <3> QED
      BY <2>2, UsageType, FS_Subset, FS_CardinalityType
  <2>4. Usage <= MaxRedemptions
    BY DEF Quota
  <2> QED
    BY <2>3, <2>4, UsageType, PlanOrdersAssumption
<1> QED
  BY <1>1, <1>2, <1>3, PTL DEF Spec

-----------------------------------------------------------------------------
(***************************************************************************)
(* Prices.                                                                 *)
(***************************************************************************)
\* A bill is the price of its plan less the code's discount, or the difference to the price
\* of the plan it upgrades and no more than what is left of its own.
Off(row) == IF row.coded THEN DiscountFor(row.plan) ELSE 0
Pays(row) ==
    /\ row.of = Unraised => row.amount + Off(row) = Price[row.plan]
    /\ row.of # Unraised => /\ row.amount + Price[order[row.of].plan] >= Price[row.plan]
                            /\ row.amount + PaidTowardsPlan[row.of] <= Price[row.plan]

Prices ==
    /\ \A o \in Orders : order[o].status # "none" => Pays(order[o])
    /\ \A h \in Handlers : job[h].op = "raise" => Pays(job[h].row)

LEMMA OffType ==
    ASSUME NEW row \in Row
    PROVE  Off(row) \in Nat /\ row.amount \in Nat /\ Price[row.plan] \in Nat /\ row.plan \in Plans
<1>1. \A p \in Plans : DiscountFor(p) \in Nat
  BY PlanOrdersAssumption DEF DiscountFor, Least
<1>2. row.plan \in Plans /\ row.amount \in Nat
  BY DEF Row
<1>3. Price[row.plan] \in Nat
  BY <1>2, PlanOrdersAssumption
<1> QED
  BY <1>1, <1>2, <1>3 DEF Off

\* No more is paid towards a plan than its price.
LEMMA TowardsPrice ==
    ASSUME POTypeOK, NEW o \in Orders, Pays(order[o])
    PROVE  PaidTowardsPlan[o] <= Price[order[o].plan]
<1>1. order[o] \in Row
  BY DEF POTypeOK
<1>2. /\ Off(order[o]) \in Nat /\ order[o].amount \in Nat /\ Price[order[o].plan] \in Nat
  BY <1>1, OffType
<1>3. PaidTowardsPlan[o] =
         order[o].amount + IF order[o].of = Unraised THEN 0 ELSE PaidTowardsPlan[order[o].of]
  BY OrderTypes DEF Towards
<1>4. CASE order[o].of = Unraised
  BY <1>2, <1>3, <1>4 DEF Pays
<1>5. CASE order[o].of # Unraised
  BY <1>3, <1>5 DEF Pays
<1> QED
  BY <1>4, <1>5

\* What a price takes from the orders: their terms.
LEMMA PaysKept ==
    ASSUME POTypeOK, POTypeOK', NEW K \in SUBSET Orders,
           \A u \in K : /\ \A f \in Terms : order'[u][f] = order[u][f]
                        /\ order[u].of # Unraised => order[u].of \in K,
           NEW row, row.of \in K \cup {Unraised}, Pays(row)
    PROVE  Pays(row)'
<1>1. /\ Chained(order) /\ Towards(order, PaidTowardsPlan)
      /\ Towards(order', PaidTowardsPlan')
  <2>1. Towards(order, PaidTowardsPlan)' <=> Towards(order', PaidTowardsPlan')
    BY DEF Towards
  <2>2. Towards(order, PaidTowardsPlan)'
    BY OrderTypes, PTL
  <2> QED
    BY <2>1, <2>2, OrderTypes
<1>2. \A u \in K : /\ order'[u].amount = order[u].amount /\ order'[u].of = order[u].of
                   /\ order'[u].plan = order[u].plan
  BY DEF Terms
<1>3. \A u \in K : PaidTowardsPlan'[u] = PaidTowardsPlan[u]
  BY <1>1, <1>2, TowardsAgree
<1>4. Off(row)' = Off(row)
  BY DEF Off, DiscountFor
<1> QED
  BY <1>2, <1>3, <1>4 DEF Pays

\* Which orders are raised changes only when one is written.
LEMMA RaisedBefore ==
    ASSUME OneHandler, SInv, [Next]_vars
    PROVE  \/ \E h \in Handlers : Raise(h)
           \/ \A u \in Orders : order'[u].status # "none" => order[u].status # "none"
<1> DEFINE Fine == \A u \in Orders : order'[u].status # "none" => order[u].status # "none"
<1>1. ASSUME NEW h \in Handlers,
             \/ PayAgain(h) \/ SubmitProof(h) \/ Approve(h) \/ Reject(h)
             \/ \E p \in Plans : Upgrade(h, p)
      PROVE  Fine
  <2>1. Keeps(QuietFields \cup {"status", "snap"})
    BY <1>1, EditKeeps DEF SInv
  <2> QED
    BY <2>1 DEF Keeps
<1>2. ASSUME NEW h \in Handlers, Start(h) PROVE Fine
  <2>1. Keeps(DOMAIN Blank \ {"snap"})
    BY <1>2, StartKeeps DEF SInv
  <2> QED
    BY <2>1, BlankFields DEF Keeps
<1>3. ASSUME NEW h \in Handlers, WriteStatus(h) PROVE Fine
  <2>1. PICK o \in Orders : o = job[h].order /\ order[o].snap > 0
    BY <1>3, JobKinds DEF WriteStatus, Running, SInv, TInv, POTypeOK, Requests, Means, Sees
  <2>2. order[o].status = "none" => order[o].snap = 0
    <3>1. order[o].status = "none" => order[o] = Blank
      BY DEF SInv, Rows, RowStands
    <3>2. Blank.snap = 0
      BY DEF Blank
    <3> QED
      BY <3>1, <3>2
  <2>3. \A u \in Orders : order'[u].status = order[u].status \/ u = o
    BY <1>3, <2>1, WriteKeeps DEF SInv
  <2> QED
    BY <2>1, <2>2, <2>3
<1>4. ASSUME NEW h \in Handlers, Activate(h) PROVE Fine
  <2>1. PICK o \in Orders : o = job[h].order /\ order[o].status # "none"
    BY <1>4, JobKinds DEF Activate, Running, SInv, TInv, POTypeOK, Requests, Means, Sees
  <2>2. \A u \in Orders : u # o => order'[u] = order[u]
    BY <1>4, <2>1, ActivateKeeps DEF SInv
  <2> QED
    BY <2>1, <2>2
<1>5. ASSUME Spends PROVE Fine
  <2>1. Keeps({"of", "status"})
    BY <1>5, SpendsKeepStatus DEF SInv
  <2> QED
    BY <2>1 DEF Keeps
<1>6. ASSUME \/ UNCHANGED vars \/ Sweep \/ SwitchGateway
             \/ \E e \in Events : Publish(e)
             \/ \E s \in Snaps, outcome \in {"paid", "failed", "retried"} : SnapEnds(s, outcome)
             \/ \E h \in Handlers :
                  \/ \E p \in Plans, coded \in BOOLEAN : Checkout(h, p, coded)
                  \/ \E o \in Orders : Load(h, o)
                  \/ \E s \in Snaps : Notify(h, s[1], s[2])
                  \/ \E e \in Events, o \in Orders : LoadReassign(h, e, o)
                  \/ Refused(h) \/ Dies(h)
      PROVE  Fine
  <2>1. \A u \in Orders : \/ order'[u].status = order[u].status
                          \/ order[u].status = "past_due" /\ order'[u].status = "cancelled"
    BY <1>6, RestKeeps DEF SInv
  <2> QED
    BY <2>1
<1> HIDE DEF Fine
<1>7. (\E h \in Handlers : Raise(h)) \/ Fine
  BY <1>1, <1>2, <1>3, <1>4, <1>5, <1>6 DEF Next, Spends
<1> QED
  BY <1>7 DEF Fine

\* A bill is about to be written after checkout() and checkoutUpgrade() alone.
LEMMA WhoRaises ==
    ASSUME OneHandler, SInv, [Next]_vars, NEW g \in Handlers, job'[g].op = "raise"
    PROVE  \/ \E p \in Plans, coded \in BOOLEAN : Checkout(g, p, coded)
           \/ \E p \in Plans : Upgrade(g, p)
           \/ UNCHANGED <<order, job>>
<1> DEFINE Other(h) == \E to : Goes(h, to) /\ to.op # "raise"
<1>1. ASSUME NEW h \in Handlers, Other(h) PROVE FALSE
  <2>1. PICK to : Goes(h, to) /\ to.op # "raise"
    BY <1>1
  <2>2. job'[g] = to
    BY <2>1, OneJob
  <2> QED
    BY <2>1, <2>2
<1>2. ASSUME WorkerFree, UNCHANGED job PROVE FALSE
  <2>1. PICK h \in Handlers : job[h] = Idle
    BY <1>2 DEF WorkerFree
  <2>2. job[g] = Idle
    BY <2>1 DEF OneHandler
  <2> QED
    BY <1>2, <2>2 DEF Idle
<1>3. ASSUME NEW h \in Handlers,
             \/ \E o \in Orders : Load(h, o)
             \/ \E s \in Snaps : Notify(h, s[1], s[2])
             \/ \E e \in Events : ReleaseCredit(h, e)
             \/ \E e \in Events, o \in Orders : LoadReassign(h, e, o)
      PROVE  Other(h)
  <2>1. CASE \E o \in Orders : Load(h, o)
    <3>1. PICK o \in Orders : Goes(h, [op |-> "seen", order |-> o, row |-> order[o]])
      BY <2>1 DEF Load, Begins
    <3>2. PICK to : to = [op |-> "seen", order |-> o, row |-> order[o]]
      OBVIOUS
    <3> QED
      BY <3>1, <3>2
  <2>2. CASE \E s \in Snaps : Notify(h, s[1], s[2])
    <3>1. PICK s \in Snaps : \E to :
             /\ \/ to = [op |-> "activate", order |-> s[1], row |-> order[s[1]]]
                \/ to = [op |-> "write", order |-> s[1], row |-> order[s[1]], status |-> "cancelled"]
                \/ to = [op |-> "write", order |-> s[1], row |-> order[s[1]], status |-> "past_due"]
             /\ Goes(h, to)
      BY <2>2 DEF Notify, Begins
    <3> QED
      BY <3>1
  <2>3. CASE \E e \in Events : ReleaseCredit(h, e)
    <3>1. PICK e \in Events : Goes(h, [op |-> "delete", event |-> e])
      BY <2>3 DEF ReleaseCredit, Begins
    <3>2. PICK to : to = [op |-> "delete", event |-> e]
      OBVIOUS
    <3> QED
      BY <3>1, <3>2
  <2>4. CASE \E e \in Events, o \in Orders : LoadReassign(h, e, o)
    <3>1. PICK e \in Events, o \in Orders : \E to :
             /\ to = [op |-> "reassign", event |-> e, order |-> o, plan |-> event[e].plan,
                      to |-> order[o].plan]
             /\ Goes(h, to)
      BY <2>4 DEF LoadReassign, Begins
    <3> QED
      BY <3>1
  <2> QED
    BY <1>3, <2>1, <2>2, <2>3, <2>4
<1>4. ASSUME NEW h \in Handlers, Goes(h, Idle) PROVE Other(h)
  BY <1>4 DEF Idle
<1>5. ASSUME NEW h \in Handlers, PayAgain(h) PROVE Other(h)
  <2>1. PICK o, row, to : to = [op |-> "start", order |-> o, row |-> row] /\ Goes(h, to)
    BY <1>5 DEF PayAgain, Reopen
  <2> QED
    BY <2>1
<1>6. ASSUME NEW h \in Handlers, Approve(h) PROVE Other(h)
  <2>1. PICK o, row, to : to = [op |-> "activate", order |-> o, row |-> row] /\ Goes(h, to)
    BY <1>6 DEF Approve
  <2> QED
    BY <2>1
<1>7. ASSUME NEW h \in Handlers, Activate(h) PROVE Other(h)
  <2>1. CASE job[h].row.of = Unraised
    BY <1>4, <1>7, <2>1 DEF Activate
  <2>2. CASE job[h].row.of # Unraised
    <3>1. PICK o, row, to : to = [op |-> "apply", order |-> o, row |-> row] /\ Goes(h, to)
      BY <1>7, <2>2 DEF Activate
    <3> QED
      BY <3>1
  <2> QED
    BY <2>1, <2>2
<1>8. ASSUME NEW h \in Handlers, Start(h) PROVE Other(h)
  <2>1. CASE Goes(h, Idle)
    BY <1>4, <2>1
  <2>2. CASE Goes(h, [job[h] EXCEPT !.op = "activate"])
    <3>1. PICK to : to = [job[h] EXCEPT !.op = "activate"]
      OBVIOUS
    <3>2. to.op = "activate"
      <4>1. job[h] \in Job /\ job[h].op = "start"
        BY <1>8 DEF Start, Running, SInv, TInv, POTypeOK
      <4>2. "op" \in DOMAIN job[h]
        BY <4>1 DEF Job, Idle
      <4> QED
        BY <3>1, <4>2
    <3> QED
      BY <2>2, <3>1, <3>2
  <2> QED
    BY <1>8, <2>1, <2>2 DEF Start
<1>9. ASSUME NEW h \in Handlers, Raise(h) PROVE Other(h)
  <2>1. PICK o, row, to : to = [op |-> "start", order |-> o, row |-> row] /\ Goes(h, to)
    BY <1>9 DEF Raise
  <2> QED
    BY <2>1
<1>10. ASSUME NEW h \in Handlers,
              \/ Refused(h) \/ Apply(h) \/ WriteStatus(h) \/ SubmitProof(h) \/ Reject(h)
              \/ DeleteEvent(h) \/ Reassign(h) \/ Dies(h)
      PROVE  Other(h)
  <2>1. Goes(h, Idle)
    BY <1>10 DEF Refused, Apply, WriteStatus, SubmitProof, Reject, DeleteEvent, Reassign, Dies
  <2> QED
    BY <1>4, <2>1
<1>11. ASSUME \/ Sweep \/ \E e \in Events : Publish(e)
              \/ \E e \in Events, o \in Orders : CreateEvent(e, o)
       PROVE  FALSE
  <2>1. WorkerFree /\ UNCHANGED job
    BY <1>11 DEF Sweep, Publish, CreateEvent
  <2> QED
    BY <1>2, <2>1
<1>12. ASSUME \/ UNCHANGED vars \/ SwitchGateway
              \/ \E s \in Snaps, outcome \in {"paid", "failed", "retried"} : SnapEnds(s, outcome)
       PROVE  UNCHANGED <<order, job>>
  BY <1>12 DEF vars, SwitchGateway, SnapEnds
<1>13. ASSUME NEW h \in Handlers, NEW p \in Plans, Upgrade(h, p) PROVE Upgrade(g, p)
  <2>1. h = g
    BY DEF OneHandler
  <2> QED
    BY <1>13, <2>1
<1>14. ASSUME NEW h \in Handlers, NEW p \in Plans, NEW coded \in BOOLEAN, Checkout(h, p, coded)
       PROVE  Checkout(g, p, coded)
  <2>1. h = g
    BY DEF OneHandler
  <2> QED
    BY <1>14, <2>1
<1> HIDE DEF Other
<1> QED
  BY <1>1, <1>3, <1>5, <1>6, <1>7, <1>8, <1>9, <1>10, <1>11, <1>12, <1>13, <1>14 DEF Next

\* A price that is asked covers what checkout() and checkoutUpgrade() say it does.
LEMMA AskedPrice ==
    ASSUME OneHandler, SInv, Prices, NEW h \in Handlers, job'[h].op = "raise",
           \/ \E p \in Plans, coded \in BOOLEAN : Checkout(h, p, coded)
           \/ \E p \in Plans : Upgrade(h, p)
    PROVE  UNCHANGED order /\ Pays(job'[h].row)
<1>1. ASSUME NEW p \in Plans, NEW coded \in BOOLEAN, Checkout(h, p, coded)
      PROVE  UNCHANGED order /\ Pays(job'[h].row)
  <2>1. PICK off : off = IF coded THEN DiscountFor(p) ELSE 0
    OBVIOUS
  <2>2. off \in Nat /\ off <= Price[p] /\ Price[p] \in Nat
    BY <2>1, PlanOrdersAssumption DEF DiscountFor, Least
  <2>3. PICK row : row = [Blank EXCEPT !.status = "past_due", !.plan = p, !.coded = coded,
                                       !.amount = Price[p] - off]
    OBVIOUS
  <2>4. Goes(h, [op |-> "raise", row |-> Billed(row)])
    BY <1>1, <2>1, <2>3 DEF Checkout, Begins
  <2>5. job'[h].row = Billed(row)
    <3>1. PICK to : to = [op |-> "raise", row |-> Billed(row)]
      OBVIOUS
    <3>2. job'[h] = to
      BY <2>4, <3>1, OneJob
    <3> QED
      BY <3>1, <3>2
  <2>6. /\ Billed(row).plan = p /\ Billed(row).coded = coded /\ Billed(row).amount = Price[p] - off
        /\ Billed(row).of = Unraised
    BY <2>3 DEF Billed, Blank
  <2>7. Off(Billed(row)) = off
    BY <2>1, <2>6 DEF Off
  <2>8. PICK paid \in Row \cup {Billed(row)} : paid = Billed(row)
    OBVIOUS
  <2>9. Pays(paid)
    BY <2>2, <2>6, <2>7, <2>8 DEF Pays
  <2> QED
    BY <1>1, <2>5, <2>8, <2>9 DEF Checkout
<1>2. ASSUME NEW p \in Plans, Upgrade(h, p)
      PROVE  UNCHANGED order /\ Pays(job'[h].row)
  <2>1. PICK o \in Orders : o = job[h].order
    BY <1>2, JobKinds DEF Upgrade, Running, SInv, TInv, POTypeOK
  <2>2. PICK difference : difference = Price[p] - PaidTowardsPlan[o]
    OBVIOUS
  <2>3. PICK row : row = [Blank EXCEPT !.status = "past_due", !.plan = p, !.of = o,
                                       !.amount = difference]
    OBVIOUS
  <2>4. \A u : ~Reopen(h, u, order[u])
    <3> SUFFICES ASSUME NEW u, Reopen(h, u, order[u]) PROVE FALSE
      OBVIOUS
    <3>1. PICK to : to = [op |-> "start", order |-> u, row |-> Billed(order[u])]
      OBVIOUS
    <3>2. job'[h] = to
      BY <3>1, OneJob DEF Reopen
    <3> QED
      BY <3>1, <3>2
  <2>5. Goes(h, [op |-> "raise", row |-> Billed(row)]) /\ UNCHANGED order
    BY <1>2, <2>1, <2>2, <2>3, <2>4 DEF Upgrade
  <2>6. job'[h].row = Billed(row)
    <3>1. PICK to : to = [op |-> "raise", row |-> Billed(row)]
      OBVIOUS
    <3>2. job'[h] = to
      BY <2>5, <3>1, OneJob
    <3> QED
      BY <3>1, <3>2
  <2>7. Billed(row).plan = p /\ Billed(row).amount = difference /\ Billed(row).of = o
    BY <2>3 DEF Billed, Blank
  <2>8. o # Unraised
    BY PlanOrdersAssumption DEF Orders, Unraised
  <2>9. order[o].status # "none"
    BY <1>2, <2>1 DEF Upgrade, Running, SInv, TInv, NamedRaised, Names
  <2>10. PaidTowardsPlan[o] <= Price[order[o].plan]
    BY <2>9, TowardsPrice DEF Prices, SInv, TInv
  <2>11. PICK a \in Nat, b \in Nat, c \in Nat :
           a = PaidTowardsPlan[o] /\ b = Price[order[o].plan] /\ c = Price[p]
    <3>1. PaidTowardsPlan[o] \in Nat
      BY OrderTypes DEF SInv, TInv
    <3>2. order[o].plan \in Plans
      BY DEF SInv, TInv, POTypeOK, Row
    <3> QED
      BY <3>1, <3>2, PlanOrdersAssumption
  <2>12. difference + b >= c /\ difference + a <= c
    BY <2>2, <2>10, <2>11
  <2>13. PICK paid : paid = Billed(row)
    OBVIOUS
  <2>14. Pays(paid)
    BY <2>7, <2>8, <2>11, <2>12, <2>13 DEF Pays
  <2> QED
    BY <2>5, <2>6, <2>13, <2>14
<1> QED
  BY <1>1, <1>2

LEMMA NextPrices ==
    ASSUME OneHandler, SInv, Prices, [Next]_vars
    PROVE  Prices'
<1>0. TInv' /\ POTypeOK' /\ POTypeOK
  <2>1. SInv'
    BY NextServes
  <2> QED
    BY <2>1 DEF SInv, TInv
<1>1. \A u \in Orders : order[u].of \in Orders \cup {Unraised}
  BY DEF SInv, TInv, POTypeOK, Row
<1>2. ASSUME NEW h \in Handlers, Raise(h) PROVE Prices'
  <2>1. PICK row \in Row : row = job[h].row /\ Fresh(row) /\ Pays(row)
    BY <1>2, JobKinds DEF Raise, Running, SInv, TInv, POTypeOK, Requests, Means, Prices
  <2>2. PICK o \in Orders :
           /\ \A other \in Orders : order[other].status = "none" <=> other >= o
           /\ order' = [order EXCEPT ![o] = row]
    BY <1>2, <2>1 DEF Raise
  <2>3. \A u \in Orders : order'[u] = IF u = o THEN row ELSE order[u]
    BY <2>2 DEF SInv, TInv, POTypeOK
  <2>4. order[o].status = "none" /\ ~order[o].paidAt
    <3>1. order[o].status = "none"
      BY <2>2, PlanOrdersAssumption DEF Orders
    <3>2. order[o] = Blank
      BY <3>1 DEF SInv, Rows, RowStands
    <3> QED
      BY <3>1, <3>2 DEF Blank
  <2>5. PICK K \in SUBSET Orders : K = Orders \ {o}
    OBVIOUS
  <2>6. \A u \in K : /\ \A f \in Terms : order'[u][f] = order[u][f]
                     /\ order[u].of # Unraised => order[u].of \in K
    BY <1>1, <2>3, <2>4, <2>5 DEF SInv, Rows, RowStands
  <2>7. row.of \in K \cup {Unraised}
    BY <2>1, <2>4, <2>5 DEF Fresh, Row
  <2>8. ASSUME NEW u \in Orders, order'[u].status # "none" PROVE Pays(order[u])'
    <3>1. CASE u = o
      <4>1. Pays(row)'
        BY <1>0, <2>1, <2>6, <2>7, PaysKept
      <4> QED
        BY <2>3, <3>1, <4>1
    <3>2. CASE u # o
      <4>1. PICK same \in Row : same = order[u]
        BY <1>0 DEF POTypeOK
      <4>2. same.of \in K \cup {Unraised} /\ Pays(same)
        BY <1>1, <2>3, <2>5, <2>6, <2>8, <3>2, <4>1 DEF Prices
      <4>3. Pays(same)'
        BY <1>0, <2>6, <4>2, PaysKept
      <4> QED
        BY <2>3, <3>2, <4>1, <4>3
    <3> QED
      BY <3>1, <3>2
  <2>9. \A g \in Handlers : job'[g].op # "raise"
    <3>1. PICK u, to : to = [op |-> "start", order |-> u, row |-> row] /\ Goes(h, to)
      BY <1>2, <2>1 DEF Raise
    <3>2. \A g \in Handlers : job'[g] = to
      BY <3>1, OneJob
    <3> QED
      BY <3>1, <3>2
  <2> QED
    BY <2>8, <2>9 DEF Prices
<1>3. CASE Keeps(Terms) /\ \A u \in Orders : order'[u].status # "none" => order[u].status # "none"
  <2>1. PICK K \in SUBSET Orders : K = Orders
    OBVIOUS
  <2>2. \A u \in K : /\ \A f \in Terms : order'[u][f] = order[u][f]
                     /\ order[u].of # Unraised => order[u].of \in K
    BY <1>1, <1>3, <2>1 DEF Keeps
  <2>3. ASSUME NEW row, row.of \in Orders \cup {Unraised}, Pays(row) PROVE Pays(row)'
    BY <1>0, <2>1, <2>2, <2>3, PaysKept
  <2>4. ASSUME NEW u \in Orders, order'[u].status # "none" PROVE Pays(order[u])'
    <3>1. PICK same \in Row : same = order[u]
      BY <1>0 DEF POTypeOK
    <3>2. PICK next \in Row : next = order'[u]
      BY <1>0 DEF POTypeOK
    <3>3. Pays(same)'
      BY <1>1, <1>3, <2>3, <2>4, <3>1 DEF Prices
    <3>4. /\ next.of = same.of /\ next.amount = same.amount /\ next.plan = same.plan
          /\ next.coded = same.coded
      BY <1>3, <3>1, <3>2 DEF Keeps, Terms
    <3>5. Pays(next)'
      BY <3>3, <3>4 DEF Pays, Off
    <3> QED
      BY <3>2, <3>5
  <2>5. ASSUME NEW g \in Handlers, job'[g].op = "raise" PROVE Pays(job[g].row)'
    <3>1. PICK row \in Row : row = job'[g].row
      <4>1. job'[g] \in Job
        BY <1>0 DEF POTypeOK
      <4> QED
        BY <2>5, <4>1, JobKinds
    <3>2. CASE UNCHANGED <<order, job>>
      <4>1. Pays(row)
        BY <2>5, <3>1, <3>2 DEF Prices
      <4>2. Pays(row)'
        BY <2>3, <3>1, <4>1 DEF Row
      <4> QED
        BY <3>1, <4>2
    <3>3. CASE \/ \E p \in Plans, coded \in BOOLEAN : Checkout(g, p, coded)
               \/ \E p \in Plans : Upgrade(g, p)
      <4>1. Pays(row)
        BY <2>5, <3>1, <3>3, AskedPrice
      <4>2. Pays(row)'
        BY <2>3, <3>1, <4>1 DEF Row
      <4> QED
        BY <3>1, <4>2
    <3> QED
      BY <2>5, <3>2, <3>3, WhoRaises
  <2> QED
    BY <2>4, <2>5 DEF Prices
<1> QED
  BY <1>2, <1>3, StepKeeps, RaisedBefore DEF SInv

LEMMA InitPrices == Init => Prices
<1> SUFFICES ASSUME Init PROVE Prices
  OBVIOUS
<1>1. \A o \in Orders : order[o].status = "none"
  BY DEF Init, Blank
<1>2. \A h \in Handlers : job[h].op = "idle"
  BY DEF Init, Idle
<1> QED
  BY <1>1, <1>2 DEF Prices

-----------------------------------------------------------------------------
(***************************************************************************)
(* What the plans that are held are worth.                                 *)
(***************************************************************************)
EverPaid == {o \in Orders : order[o].paidAt}
\* Paid for, and not paid up since.
Newest == {o \in EverPaid : \A u \in EverPaid : order[u].of # o}

Worth(o) == Price[order[o].plan]
Value ==
    OneUpgrade => Sum([o \in Newest |-> Worth(o)]) <= Sum([o \in EverPaid |-> Received(o)])

LEMMA ReceivedType ==
    ASSUME POTypeOK
    PROVE  /\ IsFiniteSet(EverPaid) /\ IsFiniteSet(Newest)
           /\ \A o \in Orders : Worth(o) \in Nat /\ Received(o) \in Nat
           /\ \A o \in Orders : Received(o) = order[o].amount + Off(order[o])
<1>1. IsFiniteSet(Orders)
  <2>1. Raised \in Int /\ 1 \in Int
    BY PlanOrdersAssumption
  <2> QED
    BY <2>1, FS_Interval DEF Orders
<1>2. EverPaid \subseteq Orders /\ Newest \subseteq Orders
  BY DEF EverPaid, Newest
<1>3. ASSUME NEW o \in Orders
      PROVE  /\ Worth(o) \in Nat /\ Received(o) \in Nat
             /\ Received(o) = order[o].amount + Off(order[o])
  <2>1. PICK row \in Row : row = order[o]
    BY DEF POTypeOK
  <2>2. Off(row) \in Nat /\ row.amount \in Nat /\ Price[row.plan] \in Nat
    BY OffType
  <2>3. Received(o) = row.amount + Off(row)
    BY <2>1 DEF Received, Off
  <2> QED
    BY <2>1, <2>2, <2>3 DEF Worth
<1> QED
  BY <1>1, <1>2, <1>3, FS_Subset

\* What paid orders are worth, and what was received for them, never changes.
LEMMA TermsStand ==
    ASSUME NEW o \in Orders, \A f \in Terms : order'[o][f] = order[o][f]
    PROVE  Worth(o)' = Worth(o) /\ Received(o)' = Received(o) /\ order'[o].of = order[o].of
<1>1. /\ order'[o].plan = order[o].plan /\ order'[o].amount = order[o].amount
      /\ order'[o].coded = order[o].coded /\ order'[o].of = order[o].of
  BY DEF Terms
<1> QED
  BY <1>1 DEF Worth, Received, DiscountFor

\* No order is paid.
LEMMA ValueKept ==
    ASSUME Value, EverPaid' = EverPaid,
           \A o \in EverPaid : \A f \in Terms : order'[o][f] = order[o][f]
    PROVE  Value'
<1>1. \A o \in EverPaid : Worth(o)' = Worth(o) /\ Received(o)' = Received(o) /\ order'[o].of = order[o].of
  BY TermsStand DEF EverPaid
<1>2. Newest' = Newest
  BY <1>1 DEF Newest
<1>3. OneUpgrade' => OneUpgrade
  <2>1. \A o \in Orders : order'[o].paidAt <=> order[o].paidAt
    <3>1. \A o \in Orders : o \in EverPaid' <=> o \in EverPaid
      OBVIOUS
    <3> QED
      BY <3>1 DEF EverPaid
  <2> QED
    BY <1>1, <2>1 DEF OneUpgrade, EverPaid
<1>4. Newest \subseteq EverPaid
  BY DEF Newest
<1>5. Sum([o \in Newest |-> Worth(o)])' = Sum([o \in Newest |-> Worth(o)])
  <2>1. [o \in Newest |-> Worth(o)]' = [o \in Newest |-> Worth(o)]
    BY <1>1, <1>2, <1>4
  <2> QED
    BY <2>1 DEF Sum, Rupiah
<1>6. Sum([o \in EverPaid |-> Received(o)])' = Sum([o \in EverPaid |-> Received(o)])
  <2>1. [o \in EverPaid |-> Received(o)]' = [o \in EverPaid |-> Received(o)]
    BY <1>1
  <2> QED
    BY <2>1 DEF Sum, Rupiah
<1> QED
  BY <1>3, <1>5, <1>6 DEF Value

\* activate(): an order that pays another up takes its place, and paid the difference.
LEMMA ActivateValue ==
    ASSUME OneHandler, SInv, Prices, Value, NEW h \in Handlers, Activate(h)
    PROVE  Value'
<1>1. PICK o \in Orders, row \in Row : o = job[h].order /\ row = job[h].row /\ row = order[o]
  BY JobKinds DEF Activate, Running, SInv, TInv, POTypeOK, Requests, Sees
<1>2. row.status # "none" /\ Pays(row)
  BY <1>1 DEF Activate, Running, SInv, Requests, Means, Prices
<1>3. /\ Keeps(Terms)
      /\ \A u \in Orders : u # o => order'[u] = order[u]
      /\ order'[o].paidAt
  <2>1. PICK new \in Row : new = [row EXCEPT !.status = "paid", !.paidAt = TRUE]
    BY DEF Row
  <2>2. Save(o, row, new)
    BY <1>1, <2>1 DEF Activate
  <2>3. order'[o] = new
    BY <1>1, <2>2, SavedWrites
  <2>4. new.paidAt
    BY <2>1 DEF Row
  <2> QED
    BY <1>1, <2>3, <2>4, ActivateKeeps DEF SInv, Keeps
<1>4. EverPaid' = EverPaid \cup {o}
  <2>1. \A u \in Orders : order'[u].paidAt <=> order[u].paidAt \/ u = o
    BY <1>3
  <2> QED
    BY <2>1 DEF EverPaid
<1>5. CASE o \in EverPaid
  <2>1. EverPaid' = EverPaid
    BY <1>4, <1>5
  <2> QED
    BY <1>3, <2>1, ValueKept DEF Keeps, EverPaid
<1>6. CASE o \notin EverPaid
  <2>1. SUFFICES ASSUME OneUpgrade'
                 PROVE  Sum([u \in Newest |-> Worth(u)])' <= Sum([u \in EverPaid |-> Received(u)])'
    BY DEF Value
  <2>2. \A u \in Orders : /\ Worth(u)' = Worth(u) /\ Received(u)' = Received(u)
                          /\ order'[u].of = order[u].of
    BY <1>3, TermsStand DEF Keeps
  <2>3. \A u, v \in EverPaid \cup {o} :
            order[u].of = order[v].of /\ order[u].of # Unraised => u = v
    <3>1. \A u \in EverPaid \cup {o} : u \in Orders /\ order'[u].paidAt
      BY <1>4 DEF EverPaid
    <3> QED
      BY <2>1, <2>2, <3>1 DEF OneUpgrade
  <2>4. OneUpgrade
    BY <2>3 DEF OneUpgrade, EverPaid
  <2>5. \A u \in EverPaid \cup {o} : order[u].of # o
    <3>1. \A u \in EverPaid : order[u].of # Unraised => order[u].of \in EverPaid
      BY DEF SInv, Rows, RowStands, EverPaid, TInv, POTypeOK, Row
    <3>2. o # Unraised /\ order[o].of # o
      BY PlanOrdersAssumption DEF Orders, Unraised, SInv, TInv, POTypeOK
    <3> QED
      BY <1>6, <3>1, <3>2
  <2>6. Newest' = {u \in EverPaid \cup {o} : \A v \in EverPaid \cup {o} : order[v].of # u}
    BY <1>4, <2>2 DEF Newest, EverPaid
  <2>7. PICK before \in Nat, rest \in Nat, paid \in Nat :
          /\ before = Sum([u \in Newest |-> Worth(u)])
          /\ rest = Sum([u \in Newest \ {order[o].of} |-> Worth(u)])
          /\ paid = Sum([u \in EverPaid |-> Received(u)])
    <3>2. PICK worth, received : /\ worth = [u \in Orders |-> Worth(u)]
                                 /\ received = [u \in Orders |-> Received(u)]
      OBVIOUS
    <3>3. IsFiniteSet(Newest) /\ IsFiniteSet(Newest \ {order[o].of}) /\ IsFiniteSet(EverPaid)
      BY ReceivedType, FS_Subset DEF SInv, TInv
    <3>4. Newest \subseteq Orders /\ EverPaid \subseteq Orders
      BY DEF Newest, EverPaid
    <3>5. \A u \in Orders : worth[u] \in Nat /\ received[u] \in Nat
      BY <3>2, ReceivedType DEF SInv, TInv
    <3>6. /\ Sum([u \in Newest |-> worth[u]]) \in Nat
          /\ Sum([u \in Newest \ {order[o].of} |-> worth[u]]) \in Nat
          /\ Sum([u \in EverPaid |-> received[u]]) \in Nat
      BY <3>3, <3>5, <3>4, SumOver
    <3>7. /\ [u \in Newest |-> worth[u]] = [u \in Newest |-> Worth(u)]
          /\ [u \in Newest \ {order[o].of} |-> worth[u]] = [u \in Newest \ {order[o].of} |-> Worth(u)]
          /\ [u \in EverPaid |-> received[u]] = [u \in EverPaid |-> Received(u)]
      BY <3>2, <3>4
    <3> QED
      BY <3>6, <3>7
  <2>8. before <= paid
    BY <2>4, <2>7 DEF Value
  <2>9. Sum([u \in EverPaid |-> Received(u)])' = paid + Received(o)
    <3>1. PICK received : received = [u \in Orders |-> Received(u)]
      OBVIOUS
    <3>2. EverPaid \cup {o} \subseteq Orders /\ IsFiniteSet(EverPaid)
          /\ \A u \in EverPaid \cup {o} : received[u] \in Nat
      BY <3>1, ReceivedType DEF SInv, TInv, EverPaid
    <3>3. Sum([u \in EverPaid \cup {o} |-> received[u]])
            = Sum([u \in EverPaid |-> received[u]]) + received[o]
      BY <1>6, <3>2, SumAdd
    <3>4. [u \in EverPaid |-> received[u]] = [u \in EverPaid |-> Received(u)]
      BY <3>1, <3>2
    <3>5. [u \in EverPaid |-> Received(u)]' = [u \in EverPaid \cup {o} |-> received[u]]
      BY <1>4, <2>2, <3>1, <3>2
    <3>6. Sum([u \in EverPaid |-> Received(u)])' = Sum([u \in EverPaid \cup {o} |-> received[u]])
      BY <3>5 DEF Sum, Rupiah
    <3> QED
      BY <2>7, <3>1, <3>3, <3>4, <3>6
  <2>10. Newest' = (Newest \ {order[o].of}) \cup {o} /\ o \notin Newest
    BY <1>6, <2>3, <2>5, <2>6 DEF Newest
  <2>11. Sum([u \in Newest |-> Worth(u)])' = rest + Worth(o)
    <3>1. PICK worth : worth = [u \in Orders |-> Worth(u)]
      OBVIOUS
    <3>2. PICK K \in SUBSET Orders : K = Newest \ {order[o].of}
      BY DEF Newest, EverPaid
    <3>3. IsFiniteSet(K) /\ o \notin K /\ \A u \in K \cup {o} : worth[u] \in Nat
      <4>1. IsFiniteSet(K)
        BY <3>2, ReceivedType, FS_Subset DEF SInv, TInv
      <4> QED
        BY <2>10, <3>1, <3>2, <4>1, ReceivedType DEF SInv, TInv
    <3>4. Sum([u \in K \cup {o} |-> worth[u]]) = Sum([u \in K |-> worth[u]]) + worth[o]
      BY <3>3, SumAdd
    <3>5. [u \in K |-> worth[u]] = [u \in Newest \ {order[o].of} |-> Worth(u)]
      BY <3>1, <3>2
    <3>6. [u \in Newest |-> Worth(u)]' = [u \in K \cup {o} |-> worth[u]]
      BY <2>2, <2>10, <3>1, <3>2
    <3>7. Sum([u \in Newest |-> Worth(u)])' = Sum([u \in K \cup {o} |-> worth[u]])
      BY <3>6 DEF Sum, Rupiah
    <3> QED
      BY <2>7, <3>1, <3>4, <3>5, <3>7
  <2>12. /\ Worth(o) \in Nat /\ Received(o) \in Nat
         /\ Received(o) = row.amount + Off(row) /\ Off(row) \in Nat /\ row.amount \in Nat
         /\ Worth(o) = Price[row.plan]
    BY <1>1, ReceivedType, OffType DEF SInv, TInv, Worth
  <2>13. rest + Worth(o) <= paid + Received(o)
    <3>1. CASE row.of = Unraised
      <4>1. order[o].of \notin Newest
        BY <1>1, <3>1, PlanOrdersAssumption DEF Newest, EverPaid, Orders, Unraised
      <4>2. Newest \ {order[o].of} = Newest
        BY <4>1
      <4>3. rest = before
        BY <2>7, <4>2
      <4>4. Received(o) = Worth(o)
        BY <1>2, <2>12, <3>1 DEF Pays
      <4> QED
        BY <2>8, <2>12, <4>3, <4>4
    <3>2. CASE row.of # Unraised
      <4>1. PICK q \in Orders : q = row.of /\ q = order[o].of
        BY <1>1, <3>2 DEF Row
      <4>2. q \in Newest
        <5>1. q \in EverPaid
          BY <1>1, <3>2, <4>1 DEF SInv, Rows, RowStands, EverPaid
        <5>2. \A u \in EverPaid : order[u].of # q
          BY <1>6, <2>3, <3>2, <4>1
        <5> QED
          BY <5>1, <5>2 DEF Newest
      <4>3. before = rest + Worth(q)
        <5>1. PICK worth : worth = [u \in Orders |-> Worth(u)]
          OBVIOUS
        <5>2. PICK K \in SUBSET Orders : K = Newest \ {q}
          BY DEF Newest, EverPaid
        <5>3. IsFiniteSet(K) /\ q \notin K /\ \A u \in K \cup {q} : worth[u] \in Nat
          <6>1. IsFiniteSet(K)
            BY <5>2, ReceivedType, FS_Subset DEF SInv, TInv
          <6> QED
            BY <5>1, <5>2, <6>1, ReceivedType DEF SInv, TInv
        <5>4. Sum([u \in K \cup {q} |-> worth[u]]) = Sum([u \in K |-> worth[u]]) + worth[q]
          BY <5>3, SumAdd
        <5>5. [u \in K |-> worth[u]] = [u \in Newest \ {order[o].of} |-> Worth(u)]
          BY <4>1, <5>1, <5>2
        <5>6. K \cup {q} = Newest /\ Newest \subseteq Orders
          BY <4>2, <5>2
        <5>7. [u \in K \cup {q} |-> worth[u]] = [u \in Newest |-> Worth(u)]
          BY <5>1, <5>6
        <5> QED
          BY <2>7, <5>1, <5>4, <5>5, <5>7
      <4>4. row.amount + Worth(q) >= Worth(o) /\ Worth(q) \in Nat
        BY <1>2, <2>12, <3>2, <4>1, ReceivedType DEF Pays, Worth, SInv, TInv
      <4> QED
        BY <2>8, <2>12, <4>3, <4>4
    <3> QED
      BY <3>1, <3>2
  <2> QED
    BY <2>9, <2>11, <2>13
<1> QED
  BY <1>5, <1>6

LEMMA NextValue ==
    ASSUME OneHandler, SInv, Prices, Value, [Next]_vars
    PROVE  Value'
<1>1. ASSUME NEW h \in Handlers, Raise(h) PROVE Value'
  <2>1. PICK row \in Row : row = job[h].row /\ Fresh(row)
    BY <1>1, JobKinds DEF Raise, Running, SInv, TInv, POTypeOK, Requests, Means
  <2>2. PICK o \in Orders :
           /\ \A other \in Orders : order[other].status = "none" <=> other >= o
           /\ order' = [order EXCEPT ![o] = row]
    BY <1>1, <2>1 DEF Raise
  <2>3. \A u \in Orders : order'[u] = IF u = o THEN row ELSE order[u]
    BY <2>2 DEF SInv, TInv, POTypeOK
  <2>4. ~order[o].paidAt
    <3>1. order[o] = Blank
      BY <2>2, PlanOrdersAssumption DEF Orders, SInv, Rows, RowStands
    <3> QED
      BY <3>1 DEF Blank
  <2>5. EverPaid' = EverPaid /\ o \notin EverPaid
    BY <2>1, <2>3, <2>4 DEF EverPaid, Fresh
  <2>6. \A u \in EverPaid : order'[u] = order[u]
    BY <2>3, <2>5 DEF EverPaid
  <2> QED
    BY <2>5, <2>6, ValueKept
<1>2. ASSUME NEW h \in Handlers, Activate(h) PROVE Value'
  BY <1>2, ActivateValue
<1>3. CASE Keeps(Terms) /\ Keeps({"paidAt"})
  <2>1. EverPaid' = EverPaid
    BY <1>3 DEF EverPaid, Keeps
  <2> QED
    BY <1>3, <2>1, ValueKept DEF Keeps, EverPaid
<1> QED
  BY <1>1, <1>2, <1>3, StepKeeps DEF SInv

LEMMA InitValue == Init => Value
<1> SUFFICES ASSUME Init PROVE Value
  OBVIOUS
<1>1. EverPaid = {} /\ Newest = {}
  BY DEF Init, Blank, EverPaid, Newest
<1>2. DOMAIN [o \in Newest |-> Worth(o)] = {} /\ DOMAIN [o \in EverPaid |-> Received(o)] = {}
  BY <1>1
<1>3. Sum([o \in Newest |-> Worth(o)]) = 0 /\ Sum([o \in EverPaid |-> Received(o)]) = 0
  BY <1>2, SumNone
<1> QED
  BY <1>3 DEF Value

\* When requests run one after another and none dies between the two commits of activate(),
\* the plans that are held are worth no more than what was paid or given for them.
THEOREM NoFreePlansHolds ==
    ASSUME OneHandler, "apply" \notin DiesAt PROVE Spec => []NoFreePlans
<1> DEFINE VInv == HInv /\ Prices /\ Value
<1>1. Init => VInv
  BY InitHands, InitPrices, InitValue
<1>2. VInv /\ [Next]_vars => VInv'
  BY NextHands, NextPrices, NextValue DEF HInv
<1>3. VInv => NoFreePlans
  <2> SUFFICES ASSUME HInv, Value, OneRail, OneUpgrade, \A h \in Handlers : ~Running(h, "apply")
               PROVE  Sum([o \in PlansHeld |-> Price[order[o].plan]])
                        <= Sum([o \in {q \in Orders : order[q].paidAt} |-> Received(o)])
    BY DEF NoFreePlans
  <2>1. NoStray
    BY DEF OneRail, NoStray, HInv, SInv, Rows, RowStands
  <2>2. ASSUME NEW u \in EverPaid PROVE u \in Orders /\ order[u].status = "paid"
    BY <2>1, <2>2 DEF HInv, SInv, Rows, PaidStands, EverPaid
  <2>3. ASSUME NEW o \in Unconsumed PROVE o \in Newest
    <3>1. o \in EverPaid /\ Upgrades(o, "paid") = {}
      BY <2>3 DEF Unconsumed, Superseded, EverPaid, HInv, SInv, Rows, RowStands
    <3> QED
      BY <2>2, <3>1 DEF Newest, Upgrades
  <2>4. ASSUME NEW e \in Events, NEW o \in Holders(e) PROVE o \in Newest
    <3>1. o \in Orders /\ order[o].event = e /\ e # NoEvent
      BY <2>4, PlanOrdersAssumption DEF Holders
    <3>2. o \in EverPaid
      BY <3>1 DEF EverPaid, HInv, SInv, Rows, RowStands
    <3>3. ASSUME NEW u \in EverPaid, order[u].of = o PROVE FALSE
      <4>1. ~Applying(u)
        BY DEF Applying, Running
      <4>2. o # Unraised
        BY <3>1, PlanOrdersAssumption DEF Orders, Unraised
      <4> QED
        BY <2>1, <2>2, <3>1, <3>3, <4>1, <4>2 DEF HInv, Hands, HandedOver
    <3> QED
      BY <3>2, <3>3 DEF Newest
  <2>5. PlansHeld \subseteq Newest
    BY <2>3, <2>4 DEF PlansHeld
  <2>6. PICK worth : worth = [u \in Orders |-> Worth(u)]
    OBVIOUS
  <2>7. IsFiniteSet(Newest) /\ Newest \subseteq Orders /\ \A u \in Newest : worth[u] \in Nat
    BY <2>6, ReceivedType DEF HInv, SInv, TInv, Newest, EverPaid
  <2>8. Sum([u \in PlansHeld |-> worth[u]]) <= Sum([u \in Newest |-> worth[u]])
    BY <2>5, <2>7, SumSubset
  <2>9. /\ [u \in PlansHeld |-> worth[u]] = [o \in PlansHeld |-> Price[order[o].plan]]
        /\ [u \in Newest |-> worth[u]] = [o \in Newest |-> Worth(o)]
    BY <2>5, <2>6, <2>7 DEF Worth
  <2>10. PICK held, newest, paid :
           /\ held = Sum([o \in PlansHeld |-> Price[order[o].plan]])
           /\ newest = Sum([o \in Newest |-> Worth(o)])
           /\ paid = Sum([o \in {q \in Orders : order[q].paidAt} |-> Received(o)])
    OBVIOUS
  <2>11. newest <= paid
    BY <2>10 DEF Value, EverPaid
  <2>12. held <= newest
    BY <2>8, <2>9, <2>10
  <2>13. held \in Nat /\ newest \in Nat /\ paid \in Nat
    <3>2. IsFiniteSet(PlansHeld) /\ PlansHeld \subseteq Orders
      BY <2>5, <2>7, FS_Subset
    <3>3. held \in Nat /\ newest \in Nat
      BY <2>5, <2>7, <2>9, <2>10, <3>2, SumOver
    <3>4. PICK received : received = [o \in Orders |-> Received(o)]
      OBVIOUS
    <3>5. PICK K \in SUBSET Orders : K = EverPaid /\ IsFiniteSet(K)
      BY ReceivedType DEF HInv, SInv, TInv, EverPaid
    <3>6. \A u \in K : received[u] \in Nat
      BY <3>4, ReceivedType DEF HInv, SInv, TInv
    <3>7. Sum([u \in K |-> received[u]]) \in Nat
      BY <3>5, <3>6, SumOver
    <3>8. [u \in K |-> received[u]] = [o \in {q \in Orders : order[q].paidAt} |-> Received(o)]
      BY <3>4, <3>5 DEF EverPaid
    <3> QED
      BY <2>10, <3>3, <3>7, <3>8
  <2>14. held <= paid
    BY <2>11, <2>12, <2>13
  <2> QED
    BY <2>10, <2>14
<1> QED
  BY <1>1, <1>2, <1>3, PTL DEF Spec
=============================================================================
