---------------------------- MODULE Withdrawals ----------------------------
(***************************************************************************)
(* Payout requests on top of the wallet: WithdrawalService, and the waiver *)
(* of the minimum for money of ended events (Wallet::minimumWaivedBalance).*)
(*                                                                         *)
(* A request is checked and written under the wallet's lock, one step.     *)
(* The four later operations are not: the controller loads the row         *)
(* (findOrFail), the service tests the status of that copy, and only then  *)
(* a transaction writes.  Load is the first half, with the test; Process,  *)
(* Complete, Reject and Cancel are the second.  update() sends only the    *)
(* columns that differ from the loaded copy.                               *)
(***************************************************************************)
EXTENDS Wallet

CONSTANTS
    Handlers,   \* requests of admins and of the organizer in flight at once
    Amounts,    \* the amounts an organizer asks for
    Minimum,    \* PlatformSettings::minimumWithdrawal
    AdminFee    \* PlatformSettings::adminFee

ASSUME WithdrawalsAssumption ==
    /\ Amounts \subseteq Nat \ {0}
    /\ Minimum \in Nat
    /\ AdminFee \in Nat

VARIABLES
    withdrawal, \* the withdrawals rows, status "none" for one not requested yet
    handler,    \* what each handler has loaded
    event       \* events.status, as far as it matters here

wvars == <<withdrawal, handler, event>>
allvars == <<vars, wvars>>

NotRequested == [status |-> "none", amount |-> 0, exempt |-> 0]
NoRequest == [op |-> "idle"]

WInit ==
    /\ Init
    /\ withdrawal = [w \in Withdrawals |-> NotRequested]
    /\ handler = [h \in Handlers |-> NoRequest]
    /\ event = [e \in Events |-> "live"]

Open == {"pending", "processing"}
WithStatus(S) == {w \in Withdrawals : withdrawal[w].status \in S}

-----------------------------------------------------------------------------
\* Released, event-tagged rows of events that are over.
ExemptRows(type) == {k \in Rows(type, "available") :
                        ledger[k].event # NoEvent /\ event[ledger[k].event] # "live"}

ExemptSourceBalance == Total(ExemptRows("credit")) - Total(ExemptRows("debit"))

\* Only the payouts that still hold their money have drawn on the waiver.
Drawing_OpenOnly == Open
Drawing == Open \cup {"completed"}

Consumed == Sum([w \in WithStatus(Drawing) |-> withdrawal[w].exempt])

MinimumWaivedBalance ==
    Greatest(0, Least(ExemptSourceBalance - Consumed, wallet.available))

TotalDebit(amount) == amount + AdminFee

Affordable(amount) == wallet.available >= TotalDebit(amount)

\* What a payout takes from the waiver: nothing when it did not need it.
ExemptConsumed(amount) ==
    IF amount < Minimum THEN Least(TotalDebit(amount), MinimumWaivedBalance) ELSE 0

\* request(): every check under the wallet's lock, then the row and the hold.
Request(w, amount) ==
    /\ withdrawal[w].status = "none"
    /\ WithStatus(Open) = {}
    /\ amount >= Minimum \/ amount <= MinimumWaivedBalance
    /\ Affordable(amount)
    /\ withdrawal' = [withdrawal EXCEPT ![w] =
            [status |-> "pending", amount |-> amount, exempt |-> ExemptConsumed(amount)]]
    /\ Record(<<w, "withdrawal">>, Entry("debit", "available", TotalDebit(amount), NoEvent, 0))
    /\ UNCHANGED <<payment, refund, now, handler, event>>

\* The status each operation tests on the copy it loaded.
Accepts_Closed(op, status) == status # "none"
Accepts(op, status) == status \in IF op = "cancel" THEN {"pending"} ELSE Open

Load(h, op, w) ==
    /\ handler[h].op = "idle"
    /\ Accepts(op, withdrawal[w].status)
    /\ handler' = [handler EXCEPT ![h] =
                    [op |-> op, w |-> w, seen |-> withdrawal[w].status]]
    /\ UNCHANGED <<vars, withdrawal, event>>

Running(h, op) ==
    /\ handler[h].op = op
    /\ handler' = [handler EXCEPT ![h] = NoRequest]
    /\ UNCHANGED <<payment, refund, now, event>>

SetStatus(w, status) == withdrawal' = [withdrawal EXCEPT ![w].status = status]

\* process(): a copy already "processing" leaves the status column out of the UPDATE.
Process(h) ==
    LET w == handler[h].w IN
    /\ Running(h, "process")
    /\ IF handler[h].seen = "processing" THEN UNCHANGED withdrawal
                                        ELSE SetStatus(w, "processing")
    /\ UNCHANGED <<wallet, ledger>>

\* complete(): no ledger row, only total_withdrawn.
Complete(h) ==
    LET w == handler[h].w IN
    /\ Running(h, "complete")
    /\ SetStatus(w, "completed")
    /\ wallet' = [wallet EXCEPT !.withdrawn = @ + withdrawal[w].amount]
    /\ UNCHANGED ledger

\* reverseWithdrawal(): the whole debit comes back, the admin fee with it.
Reversal(w) == Entry("credit", "available", TotalDebit(withdrawal[w].amount), NoEvent, 0)
ReverseWithdrawal(w) == Record(<<w, "withdrawal_reversal">>, Reversal(w))

Reject(h) ==
    LET w == handler[h].w IN
    /\ Running(h, "reject")
    /\ SetStatus(w, "rejected")
    /\ ReverseWithdrawal(w)

\* The organizer's own cancellation closes the row as "rejected" too.
Cancel(h) ==
    LET w == handler[h].w IN
    /\ Running(h, "cancel")
    /\ SetStatus(w, "rejected")
    /\ ReverseWithdrawal(w)

\* EventController::updateStatus: "finished" is final, a cancellation can be undone.
EventMoves(e, from, to) ==
    /\ event[e] = from
    /\ event' = [event EXCEPT ![e] = to]
    /\ UNCHANGED <<vars, withdrawal, handler>>

WNext ==
    \/ Next /\ UNCHANGED wvars
    \/ \E w \in Withdrawals, amount \in Amounts : Request(w, amount)
    \/ \E h \in Handlers :
         \/ \E op \in {"process", "complete", "reject", "cancel"}, w \in Withdrawals :
                Load(h, op, w)
         \/ Process(h) \/ Complete(h) \/ Reject(h) \/ Cancel(h)
    \/ \E e \in Events :
         \/ EventMoves(e, "live", "finished")
         \/ EventMoves(e, "live", "cancelled")
         \/ EventMoves(e, "cancelled", "live")

WSpec == WInit /\ [][WNext]_allvars

-----------------------------------------------------------------------------
(***************************************************************************)
(* Properties that hold whatever requests overlap.                         *)
(***************************************************************************)
WithdrawalRow ==
    [status : {"none", "pending", "processing", "completed", "rejected"},
     amount : Nat, exempt : Nat]

Loaded == [op : {"process", "complete", "reject", "cancel"}, w : Withdrawals, seen : Open]

\* Type correctness of the payout state and of the wallet under it.
WTypeOK ==
    /\ TypeOK
    /\ withdrawal \in [Withdrawals -> WithdrawalRow]
    /\ handler \in [Handlers -> {NoRequest} \cup Loaded]
    /\ event \in [Events -> {"live", "finished", "cancelled"}]

\* Every requested payout holds its amount and fee in the ledger exactly once, and
\* what a rejection or a cancellation gives back is exactly what was held.
HeldAndReturnedAlike ==
    \A w \in Withdrawals :
        /\ withdrawal[w].status # "none" <=> <<w, "withdrawal">> \in DOMAIN ledger
        /\ withdrawal[w].status # "none" =>
              ledger[<<w, "withdrawal">>].amount = TotalDebit(withdrawal[w].amount)
        /\ <<w, "withdrawal_reversal">> \in DOMAIN ledger =>
              ledger[<<w, "withdrawal_reversal">>].amount = ledger[<<w, "withdrawal">>].amount

-----------------------------------------------------------------------------
(***************************************************************************)
(* Properties that hold while requests on a payout follow one another, and *)
(* that two overlapping requests break.                                    *)
(***************************************************************************)
\* total_withdrawn is the sum of the completed payouts: completing one twice counts it
\* once.
WithdrawnTotal ==
    wallet.withdrawn = Sum([w \in WithStatus({"completed"}) |-> withdrawal[w].amount])

\* At most one payout is open (WALLET.md: "Maksimal 1 penarikan aktif").
OneOpenWithdrawal ==
    \A v, w \in WithStatus(Open) : v = w

\* Money is back in the wallet exactly for the rejected payouts.
ReturnedIffRejected ==
    \A w \in Withdrawals :
        <<w, "withdrawal_reversal">> \in DOMAIN ledger <=> withdrawal[w].status = "rejected"

\* The waiver is never spent twice: live draws stay within the money events ever
\* released, even when an event is cancelled, restored and cancelled again.
WaiverNotOverdrawn ==
    Sum([w \in WithStatus(Open \cup {"completed"}) |-> withdrawal[w].exempt])
        <= Total({k \in Rows("credit", "available") : ledger[k].event # NoEvent})
=============================================================================
