------------------------------- MODULE Wallet -------------------------------
(***************************************************************************)
(* The ledger of one organization's wallet: WalletService, the reversal    *)
(* half of RefundService, the hourly wallet:release sweep and the 01:00    *)
(* boundary at which a credit becomes withdrawable.  Nothing in the code   *)
(* relates two wallets, so one is enough.                                  *)
(*                                                                         *)
(* Every balance change runs under the wallet row's FOR UPDATE lock and    *)
(* is one step here.  What a request reads before it owns that lock is a   *)
(* step of its own: a refund finds the credit row unlocked                 *)
(* (RefundFind) and acts on that copy after it got the lock                *)
(* (RefundReverse), and the sweep may run in between.                      *)
(***************************************************************************)
EXTENDS Money

CONSTANTS
    Sources,        \* payments that credit the organizer: orders, teams, entries
    Category,       \* [Sources -> Rails]: the rail a source is sold on
    Net,            \* [Sources -> Nat]: gross minus platform fee, 0 for a free one
    EventOf,        \* [Sources -> Events]
    Events,
    NoEvent,        \* the null event_id of payouts and adjustments
    Withdrawals,    \* ids of payout requests (module Withdrawals)
    Adjustments,    \* ids of manual corrections
    AdjustBy,       \* [Adjustments -> Int]: the signed amount of each
    Clerks,         \* admins refunding at the same time
    HoldDays,       \* PlatformSettings::holdDays
    MaxDay          \* bound: the last 01:00 boundary that is modelled

Rails == {"ticket_sale", "registration_fee", "race_entry"}

ASSUME WalletAssumption ==
    /\ Category \in [Sources -> Rails]
    /\ Net \in [Sources -> Nat]
    /\ EventOf \in [Sources -> Events]
    /\ NoEvent \notin Events
    /\ AdjustBy \in [Adjustments -> Int]
    /\ HoldDays \in Nat
    /\ MaxDay \in Nat

VARIABLES
    wallet,     \* the denormalized balances of the wallets row
    ledger,     \* wallet_transactions, keyed as its unique index is: <<source, category>>
    payment,    \* the paying status of each source
    refund,     \* the refund request each clerk is running
    now         \* how many 01:00 boundaries have passed

vars == <<wallet, ledger, payment, refund, now>>

Idle == [step |-> "idle"]

Init ==
    /\ wallet = [available |-> 0, pending |-> 0, earned |-> 0, withdrawn |-> 0]
    /\ ledger = << >>
    /\ payment = [s \in Sources |-> "unpaid"]
    /\ refund = [c \in Clerks |-> Idle]
    /\ now = 0

-----------------------------------------------------------------------------
(***************************************************************************)
(* Rows and what they add up to.                                           *)
(***************************************************************************)
Rows(type, status) ==
    {k \in DOMAIN ledger : ledger[k].type = type /\ ledger[k].status = status}

Total(K) == Sum([k \in K |-> ledger[k].amount])

\* SUM(±amount WHERE status = status): AuditWallets::sumFor.
Ledger(status) == Total(Rows("credit", status)) - Total(Rows("debit", status))

Signed(row) == IF row.type = "credit" THEN row.amount ELSE -row.amount

CreditKey(s) == <<s, Category[s]>>
RefundKey(s) == <<s, "refund">>
CreditStatus(s) ==
    IF CreditKey(s) \in DOMAIN ledger THEN ledger[CreditKey(s)].status ELSE "none"

\* The credits that count towards total_earned.
EarningCategories_NoRace == {"ticket_sale", "registration_fee"}
EarningCategories == {"ticket_sale", "registration_fee", "race_entry"}

Record_Upsert(key, row) ==
    /\ ledger' = Put(ledger, key, row)
    /\ wallet' = [wallet EXCEPT !.pending = @ + Signed(row)]
\* record(): a second row for the same source and category moves nothing.
Record(key, row) ==
    IF key \in DOMAIN ledger
    THEN UNCHANGED <<ledger, wallet>>
    ELSE /\ ledger' = Put(ledger, key, row)
         /\ wallet' = [wallet EXCEPT
                !.pending   = @ + IF row.status = "pending" THEN Signed(row) ELSE 0,
                !.available = @ + IF row.status = "pending" THEN 0 ELSE Signed(row),
                !.earned    = @ + IF row.type = "credit" /\ key[2] \in EarningCategories
                                  THEN row.amount ELSE 0]

Entry(type, status, amount, event, due) ==
    [type |-> type, status |-> status, amount |-> amount, event |-> event, due |-> due]

\* availableAtFor(): the next 01:00, plus the cooling days.
AvailableAt == now + 1 + HoldDays

-----------------------------------------------------------------------------
\* A refund between its order-row write and its commit holds that row's lock.
RowLocked(s) == \E c \in Clerks : refund[c].step = "found" /\ refund[c].source = s

\* markPaid() of any rail: the status guard, then the credit; no row for a free source.
MarkPaid(s) ==
    /\ payment[s] # "paid" /\ ~RowLocked(s)
    /\ AvailableAt <= MaxDay
    /\ payment' = [payment EXCEPT ![s] = "paid"]
    /\ IF Net[s] = 0
       THEN UNCHANGED <<ledger, wallet>>
       ELSE Record(CreditKey(s), Entry("credit", "pending", Net[s], EventOf[s], AvailableAt))
    /\ UNCHANGED <<refund, now>>

DueRows_Eager == {k \in DOMAIN ledger : ledger[k].status = "pending"}
DueRows_Strict == {k \in DOMAIN ledger : ledger[k].status = "pending" /\ ledger[k].due < now}
DueRows == {k \in DOMAIN ledger : ledger[k].status = "pending" /\ ledger[k].due <= now}

\* wallet:release: every pending row whose boundary has passed, re-read under the lock.
ReleaseDue ==
    /\ DueRows # {}
    /\ ledger' = [k \in DOMAIN ledger |->
                    IF k \in DueRows THEN [ledger[k] EXCEPT !.status = "available"]
                                     ELSE ledger[k]]
    /\ wallet' = [wallet EXCEPT !.pending = @ - Total(DueRows),
                                !.available = @ + Total(DueRows)]
    /\ UNCHANGED <<payment, refund, now>>

\* The admin opens a paid source; the status test runs on this copy of the row.
RefundLoad(c, s) ==
    /\ refund[c].step = "idle" /\ payment[s] = "paid"
    /\ refund' = [refund EXCEPT ![c] = [step |-> "loaded", source |-> s]]
    /\ UNCHANGED <<wallet, ledger, payment, now>>

\* The transaction updates the source's row, then reads its credit without a lock.
RefundFind(c) ==
    LET s == refund[c].source IN
    /\ refund[c].step = "loaded" /\ ~RowLocked(s)
    /\ refund' = [refund EXCEPT ![c] =
                    [step |-> "found", source |-> s, seen |-> CreditStatus(s)]]
    /\ UNCHANGED <<wallet, ledger, payment, now>>

\* reverseCredit(): a credit read as pending is cancelled if it still is pending ...
Cancels_NoRecheck(s, seen) == seen = "pending"
Cancels(s, seen) == seen = "pending" /\ CreditStatus(s) = "pending"

\* ... and one read as available is balanced by a debit.
Debits_EvenCancelled(seen) == seen \in {"available", "cancelled"}
Debits(seen) == seen = "available"

ReverseCredit(s, seen) ==
    LET credit == ledger[CreditKey(s)] IN
    \/ /\ Cancels(s, seen)
       /\ ledger' = [ledger EXCEPT ![CreditKey(s)].status = "cancelled"]
       /\ wallet' = [wallet EXCEPT !.pending = @ - credit.amount,
                                   !.earned  = @ - credit.amount]
    \/ /\ Debits(seen)
       /\ Record(RefundKey(s), Entry("debit", "available", credit.amount, credit.event, 0))
    \/ /\ ~Cancels(s, seen) /\ ~Debits(seen)
       /\ UNCHANGED <<ledger, wallet>>

\* The reversal under the wallet's lock, acting on the copy that was read; the commit.
RefundReverse(c) ==
    LET s == refund[c].source IN
    /\ refund[c].step = "found"
    /\ ReverseCredit(s, refund[c].seen)
    /\ payment' = [payment EXCEPT ![s] = "refunded"]
    /\ refund' = [refund EXCEPT ![c] = Idle]
    /\ UNCHANGED now

\* The request dies before its commit: the transaction rolls back, the lock is freed.
RefundRollback(c) ==
    /\ refund[c].step # "idle"
    /\ refund' = [refund EXCEPT ![c] = Idle]
    /\ UNCHANGED <<wallet, ledger, payment, now>>

\* adjust(): the sign becomes the row's type.
Adjustment_Raw(amount) == Entry("debit", "available", amount, NoEvent, 0)
Adjustment(amount) ==
    IF amount >= 0 THEN Entry("credit", "available", amount, NoEvent, 0)
                   ELSE Entry("debit", "available", -amount, NoEvent, 0)

\* A super-admin correction: no source, so nothing stops a second one.
Adjust(a) ==
    /\ <<a, "adjustment">> \notin DOMAIN ledger
    /\ Record(<<a, "adjustment">>, Adjustment(AdjustBy[a]))
    /\ UNCHANGED <<payment, refund, now>>

\* 01:00 in the organizers' zone passes.
NextDay ==
    /\ now < MaxDay
    /\ now' = now + 1
    /\ UNCHANGED <<wallet, ledger, payment, refund>>

Next ==
    \/ \E s \in Sources : MarkPaid(s)
    \/ ReleaseDue
    \/ \E c \in Clerks, s \in Sources : RefundLoad(c, s)
    \/ \E c \in Clerks : RefundFind(c) \/ RefundReverse(c) \/ RefundRollback(c)
    \/ \E a \in Adjustments : Adjust(a)
    \/ NextDay

Spec == Init /\ [][Next]_vars

\* Time passes, and the scheduler runs the sweep every hour (routes/console.php).
Fairness == WF_vars(NextDay) /\ WF_vars(ReleaseDue)
FairSpec == Spec /\ Fairness

-----------------------------------------------------------------------------
(***************************************************************************)
(* Properties.                                                             *)
(***************************************************************************)
Key == (Sources \X (Rails \cup {"refund"}))
          \cup (Withdrawals \X {"withdrawal", "withdrawal_reversal"})
          \cup (Adjustments \X {"adjustment"})

Row == [type : {"credit", "debit"}, status : {"pending", "available", "cancelled"},
        amount : Nat, event : Events \cup {NoEvent}, due : Nat]

RefundState ==
    {Idle} \cup [step : {"loaded"}, source : Sources]
           \cup [step : {"found"}, source : Sources,
                 seen : {"none", "pending", "available", "cancelled"}]

\* Type correctness: in particular every ledger amount is non-negative and its
\* sign lives in its type (WalletTransaction: "amount is always positive").
TypeOK ==
    /\ wallet \in [available : Int, pending : Int, earned : Int, withdrawn : Int]
    /\ DOMAIN ledger \subseteq Key
    /\ ledger \in [DOMAIN ledger -> Row]
    /\ IsFiniteSet(DOMAIN ledger)
    /\ payment \in [Sources -> {"unpaid", "paid", "refunded"}]
    /\ refund \in [Clerks -> RefundState]
    /\ now \in Nat

\* The identity wallet:audit checks: the denormalized balances always equal the
\* sums over the ledger, whatever credits, sweeps, refunds and corrections overlap.
LedgerIdentity ==
    /\ wallet.available = Ledger("available")
    /\ wallet.pending = Ledger("pending")

\* total_earned, which wallet:audit does not look at, is the sum of the credits of
\* every rail that were not cancelled.
EarnedIdentity ==
    wallet.earned = Total({k \in DOMAIN ledger : /\ k[2] \in Rails
                                                 /\ ledger[k].status # "cancelled"})

\* A refund debit only ever balances a credit that was released, by exactly its
\* amount and on its event: a source is never charged back twice, once by the
\* cancelled credit and once by a debit ("no write path can produce event-tagged
\* debits exceeding their credits", Wallet.php).
RefundMatchesCredit ==
    \A s \in Sources : RefundKey(s) \in DOMAIN ledger =>
        /\ CreditStatus(s) = "available"
        /\ ledger[RefundKey(s)].amount = ledger[CreditKey(s)].amount
        /\ ledger[RefundKey(s)].event = ledger[CreditKey(s)].event

\* No credit is withdrawable before its 01:00 boundary.
NoEarlyRelease ==
    \A s \in Sources : CreditStatus(s) = "available" => ledger[CreditKey(s)].due <= now

\* "Undo a credit" (reverseCredit): once a refund has committed, the organizer no
\* longer has the source's money.  The code breaks this: a sweep that releases the
\* credit between the refund's read and its lock makes reverseCredit() return
\* without cancelling or debiting anything.
RefundTakesMoneyBack ==
    \A s \in Sources : payment[s] = "refunded" /\ CreditStatus(s) # "none" =>
        CreditStatus(s) = "cancelled" \/ RefundKey(s) \in DOMAIN ledger

\* Every credit leaves the pending balance, by release or by cancellation.
EveryCreditClears ==
    \A s \in Sources : CreditStatus(s) = "pending" ~> CreditStatus(s) # "pending"

\* The ledger implements the life of an income claim (module Earnings).
ClaimOf(s) ==
    CASE CreditStatus(s) = "none"                                          -> "none"
      [] CreditStatus(s) = "cancelled" \/ RefundKey(s) \in DOMAIN ledger -> "void"
      [] CreditStatus(s) = "pending"                                       -> "held"
      [] OTHER                                                             -> "cleared"

Claims == INSTANCE Earnings WITH claim <- [s \in Sources |-> ClaimOf(s)]
ClaimsSpec == Claims!Spec
=============================================================================
