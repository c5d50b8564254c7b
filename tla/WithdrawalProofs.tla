-------------------------- MODULE WithdrawalProofs --------------------------
(***************************************************************************)
(* The wallet with payouts on top of it, for any number of payouts and of  *)
(* requests that overlap on them.                                          *)
(*                                                                         *)
(* The operations on a payout trust a copy of its status, and two of them  *)
(* that overlap break what the module Withdrawals lists at its end.  What  *)
(* no overlap breaks is proved first: the ledger identity, and that a      *)
(* payout takes and gives back one amount.  To the wallet's IInv the       *)
(* invariant WInv adds that a row is given back only for a payout that     *)
(* took one (Backed) and that requests hold payouts that exist             *)
(* (HandlerStands).  What overlap breaks is proved for one handler, with   *)
(* any number of payouts: SerialInv adds that the copy a request loaded is *)
(* still the payout's status (HandlerSees).                                *)
(***************************************************************************)
EXTENDS Withdrawals, WalletProofs

Requested == {w \in Withdrawals : withdrawal[w].status # "none"}

Backed ==
    \A w \in Withdrawals : <<w, "withdrawal_reversal">> \in DOMAIN ledger =>
        withdrawal[w].status # "none"

HandlerStands ==
    \A h \in Handlers : handler[h].op # "idle" =>
        withdrawal[handler[h].w].status # "none"

WInv ==
    /\ IInv /\ WTypeOK /\ IsFiniteSet(Requested)
    /\ HeldAndReturnedAlike /\ Backed /\ HandlerStands

\* The two rows a payout may have.
PayoutKeys == Withdrawals \X {"withdrawal", "withdrawal_reversal"}

\* The rows of payouts are not touched by anything the wallet does on its own.
LEMMA WalletKeepsPayouts ==
    ASSUME IInv, [Next]_vars, NEW k \in PayoutKeys
    PROVE  /\ k \in DOMAIN ledger' <=> k \in DOMAIN ledger
           /\ k \in DOMAIN ledger => ledger'[k].amount = ledger[k].amount
<1>1. /\ k[2] \notin Rails /\ k[2] # "refund" /\ k[2] # "adjustment"
      /\ \A s \in Sources : k # CreditKey(s) /\ k # RefundKey(s)
      /\ \A a \in Adjustments : k # <<a, "adjustment">>
  BY WalletAssumption DEF PayoutKeys, Rails, CreditKey, RefundKey
<1>2. ledger \in [DOMAIN ledger -> Row]
  BY DEF IInv, TypeOK
<1>3. ASSUME NEW s \in Sources, MarkPaid(s)
      PROVE  UNCHANGED ledger \/ \E row : ledger' = Put(ledger, CreditKey(s), row)
  BY <1>3 DEF MarkPaid, Record
<1>4. ASSUME ReleaseDue
      PROVE  ledger' = Restatus(ledger, DueRows, "available")
  BY <1>4 DEF ReleaseDue, Restatus
<1>5. ASSUME NEW c \in Clerks, RefundReverse(c)
      PROVE  \E s \in Sources : \/ UNCHANGED ledger
                                \/ ledger' = [ledger EXCEPT ![CreditKey(s)].status = "cancelled"]
                                \/ \E row : ledger' = Put(ledger, RefundKey(s), row)
  <2>1. refund[c].source \in Sources
    BY <1>5 DEF RefundReverse, IInv, TypeOK, RefundState, Idle
  <2>2. QED
    BY <1>5, <2>1 DEF RefundReverse, ReverseCredit, Record
<1>6. ASSUME NEW a \in Adjustments, Adjust(a)
      PROVE  \E row : ledger' = Put(ledger, <<a, "adjustment">>, row)
  BY <1>6 DEF Adjust, Record
<1>7. ASSUME NEW j, NEW row, j # k, ledger' = Put(ledger, j, row)
      PROVE  /\ k \in DOMAIN ledger' <=> k \in DOMAIN ledger
             /\ k \in DOMAIN ledger => ledger'[k].amount = ledger[k].amount
  BY <1>7 DEF Put
<1>8. CASE UNCHANGED ledger
  BY <1>8
<1>9. CASE \E s \in Sources : MarkPaid(s)
  BY <1>1, <1>3, <1>7, <1>8, <1>9
<1>10. CASE ReleaseDue
  BY <1>2, <1>4, <1>10 DEF Restatus, Row
<1>11. CASE \E c \in Clerks : RefundReverse(c)
  <2>1. PICK s \in Sources : \/ UNCHANGED ledger
                             \/ ledger' = [ledger EXCEPT ![CreditKey(s)].status = "cancelled"]
                             \/ \E row : ledger' = Put(ledger, RefundKey(s), row)
    BY <1>5, <1>11
  <2>2. CASE ledger' = [ledger EXCEPT ![CreditKey(s)].status = "cancelled"]
    BY <1>1, <2>2
  <2>3. QED
    BY <1>1, <1>7, <1>8, <2>1, <2>2
<1>12. CASE \E a \in Adjustments : Adjust(a)
  BY <1>1, <1>6, <1>7, <1>12
<1>13. QED
  BY <1>8, <1>9, <1>10, <1>11, <1>12 DEF Next, vars, RefundLoad, RefundFind, RefundRollback, NextDay

\* A payout's row enters the ledger like a correction does.
LEMMA PayoutRecord ==
    ASSUME IInv, NEW k \in PayoutKeys, NEW row \in Row, row.status = "available",
           Record(k, row), UNCHANGED <<payment, refund, now>>
    PROVE  IInv'
<1>1. /\ k \in Key /\ k[2] \notin Rails
      /\ \A s \in Sources : CreditKey(s) # k /\ RefundKey(s) # k
  BY WalletAssumption DEF PayoutKeys, Key, Rails, CreditKey, RefundKey
<1>2. Core'
  BY <1>1, RecordCore DEF IInv
<1>3. UNCHANGED ledger \/ ledger' = Put(ledger, k, row)
  BY DEF Record
<1>4. TypeOK'
  BY <1>2 DEF IInv, TypeOK, Core, Table
<1>5. RefundMatchesCredit' /\ NoEarlyRelease'
  BY <1>1, <1>3 DEF IInv, RefundMatchesCredit, NoEarlyRelease, CreditStatus, Put, CreditKey, RefundKey
<1>6. SeenStands'
  BY <1>1, <1>3 DEF IInv, SeenStands, CreditStatus, Put, TypeOK, RefundState, Idle, CreditKey
<1>7. QED
  BY <1>2, <1>4, <1>5, <1>6 DEF IInv

\* total_withdrawn is in no other identity.
LEMMA WithdrawnFree ==
    ASSUME IInv, NEW n \in Int, wallet' = [wallet EXCEPT !.withdrawn = n],
           UNCHANGED <<ledger, payment, refund, now>>
    PROVE  IInv'
<1>1. /\ wallet' \in [available : Int, pending : Int, earned : Int, withdrawn : Int]
      /\ wallet'.available = wallet.available /\ wallet'.pending = wallet.pending
      /\ wallet'.earned = wallet.earned
  BY DEF IInv, TypeOK
<1>2. Core'
  BY <1>1 DEF IInv, Core, Table, LedgerIdentity, Ledger, Total, Rows, EarnedIdentity, Shape,
              CreditKey
<1>3. QED
  BY <1>1, <1>2 DEF IInv, TypeOK, RefundMatchesCredit, NoEarlyRelease, SeenStands, CreditStatus,
                    CreditKey, RefundKey

LEMMA WalletUntouched ==
    ASSUME IInv, UNCHANGED vars PROVE IInv'
BY NextIInv

\* What a request takes from the waiver is a natural number.
LEMMA ExemptType ==
    ASSUME WInv, NEW amount \in Nat
    PROVE  TotalDebit(amount) \in Nat /\ ExemptConsumed(amount) \in Nat
<1>1. TotalDebit(amount) \in Nat
  BY WithdrawalsAssumption DEF TotalDebit
<1>2. Table(ledger) /\ wallet.available \in Int
  BY DEF WInv, IInv, Core
<1>3. ASSUME NEW K \in SUBSET DOMAIN ledger PROVE Total(K) \in Nat
  BY <1>2, AmtType DEF Total, Amt
<1>4. ExemptSourceBalance \in Int
  <2>1. ExemptRows("credit") \in SUBSET DOMAIN ledger /\ ExemptRows("debit") \in SUBSET DOMAIN ledger
    BY DEF ExemptRows, Rows
  <2>2. QED
    BY <1>3, <2>1 DEF ExemptSourceBalance
<1>5. Consumed \in Nat
  <2> DEFINE f == [w \in WithStatus(Drawing) |-> withdrawal[w].exempt]
  <2>1. IsFiniteSet(WithStatus(Drawing))
    <3>1. WithStatus(Drawing) \in SUBSET Requested
      BY DEF WithStatus, Drawing, Open, Requested
    <3>2. QED
      BY <3>1, FS_Subset DEF WInv
  <2>2. DOMAIN f = WithStatus(Drawing) /\ \A w \in DOMAIN f : f[w] \in Nat
    BY DEF WithStatus, WInv, WTypeOK, WithdrawalRow
  <2>3. Sum(f) \in Nat
    <3> HIDE DEF f
    <3>1. QED
      BY <2>1, <2>2, SumType
  <2>4. QED
    BY <2>3 DEF Consumed
<1>6. MinimumWaivedBalance \in Nat
  BY <1>2, <1>4, <1>5 DEF MinimumWaivedBalance, Greatest, Least
<1>7. ExemptConsumed(amount) \in Nat
  BY <1>1, <1>6 DEF ExemptConsumed, Least
<1>8. QED
  BY <1>1, <1>7

-----------------------------------------------------------------------------
LEMMA WInitInv == WInit => WInv
<1> SUFFICES ASSUME WInit PROVE WInv
  OBVIOUS
<1>1. IInv
  BY InitIInv DEF WInit
<1>2. WTypeOK
  BY <1>1 DEF IInv, WInit, WTypeOK, NotRequested, WithdrawalRow
<1>3. Requested = {}
  BY DEF Requested, WInit, NotRequested
<1>4. HeldAndReturnedAlike /\ Backed /\ HandlerStands
  BY DEF WInit, Init, NotRequested, NoRequest, HeldAndReturnedAlike, Backed, HandlerStands
<1>5. QED
  BY <1>1, <1>2, <1>3, <1>4, FS_EmptySet DEF WInv

\* A step that leaves the payouts' rows and statuses alone.
LEMMA PayoutsKept ==
    ASSUME WInv, IInv', UNCHANGED withdrawal,
           handler' \in [Handlers -> {NoRequest} \cup Loaded], HandlerStands',
           event' \in [Events -> {"live", "finished", "cancelled"}],
           \A k \in PayoutKeys :
              /\ k \in DOMAIN ledger' <=> k \in DOMAIN ledger
              /\ k \in DOMAIN ledger => ledger'[k].amount = ledger[k].amount
    PROVE  WInv'
<1>1. WTypeOK' /\ IsFiniteSet(Requested)'
  BY DEF WInv, IInv, WTypeOK, Requested
<1>2. \A w \in Withdrawals : <<w, "withdrawal">> \in PayoutKeys /\ <<w, "withdrawal_reversal">> \in PayoutKeys
  BY DEF PayoutKeys
<1>3. HeldAndReturnedAlike' /\ Backed'
  BY <1>2 DEF WInv, HeldAndReturnedAlike, Backed, TotalDebit
<1>4. QED
  BY <1>1, <1>3 DEF WInv

\* An operation ends: the payout it held changes its status to another than "none".
LEMMA Finishes ==
    ASSUME WInv, IInv', NEW h \in Handlers, handler[h].op # "idle",
           handler' = [handler EXCEPT ![h] = NoRequest], UNCHANGED event,
           NEW status \in {"processing", "completed", "rejected"},
           UNCHANGED withdrawal \/ SetStatus(handler[h].w, status),
           \/ UNCHANGED ledger
           \/ ledger' = Put(ledger, <<handler[h].w, "withdrawal_reversal">>, Reversal(handler[h].w))
    PROVE  WInv'
<1> DEFINE w == handler[h].w
<1>1. w \in Withdrawals /\ withdrawal[w].status # "none" /\ withdrawal[w] \in WithdrawalRow
  BY DEF WInv, WTypeOK, Loaded, NoRequest, HandlerStands
<1>2. /\ withdrawal' \in [Withdrawals -> WithdrawalRow]
      /\ \A v \in Withdrawals : /\ withdrawal'[v].amount = withdrawal[v].amount
                                /\ withdrawal'[v].status = "none" <=> withdrawal[v].status = "none"
  BY <1>1 DEF SetStatus, WInv, WTypeOK, WithdrawalRow
<1>3. WTypeOK' /\ IsFiniteSet(Requested)'
  <2>1. Requested' = Requested
    BY <1>2 DEF Requested
  <2>2. QED
    BY <1>2, <2>1 DEF WInv, IInv, WTypeOK
<1>4. HandlerStands'
  BY <1>2 DEF WInv, WTypeOK, HandlerStands, Loaded, NoRequest
<1>5. /\ \A v \in Withdrawals : /\ <<v, "withdrawal">> \in DOMAIN ledger' <=> <<v, "withdrawal">> \in DOMAIN ledger
                                /\ <<v, "withdrawal">> \in DOMAIN ledger =>
                                      ledger'[<<v, "withdrawal">>] = ledger[<<v, "withdrawal">>]
      /\ \A v \in Withdrawals : v # w =>
            /\ <<v, "withdrawal_reversal">> \in DOMAIN ledger' <=> <<v, "withdrawal_reversal">> \in DOMAIN ledger
            /\ <<v, "withdrawal_reversal">> \in DOMAIN ledger =>
                  ledger'[<<v, "withdrawal_reversal">>] = ledger[<<v, "withdrawal_reversal">>]
  BY DEF Put
<1>6. \/ UNCHANGED ledger
      \/ ledger'[<<w, "withdrawal_reversal">>].amount = TotalDebit(withdrawal[w].amount)
  BY DEF Put, Reversal, Entry
<1>7. Backed'
  BY <1>1, <1>2, <1>5 DEF WInv, Backed
<1>8. HeldAndReturnedAlike'
  <2> SUFFICES ASSUME NEW v \in Withdrawals
               PROVE  /\ withdrawal'[v].status # "none" <=> <<v, "withdrawal">> \in DOMAIN ledger'
                      /\ withdrawal'[v].status # "none" =>
                            ledger'[<<v, "withdrawal">>].amount = TotalDebit(withdrawal'[v].amount)
                      /\ <<v, "withdrawal_reversal">> \in DOMAIN ledger' =>
                            ledger'[<<v, "withdrawal_reversal">>].amount
                                = ledger'[<<v, "withdrawal">>].amount
    BY DEF HeldAndReturnedAlike, TotalDebit
  <2>1. /\ withdrawal[v].status # "none" <=> <<v, "withdrawal">> \in DOMAIN ledger
        /\ withdrawal[v].status # "none" =>
              ledger[<<v, "withdrawal">>].amount = TotalDebit(withdrawal[v].amount)
        /\ <<v, "withdrawal_reversal">> \in DOMAIN ledger =>
              /\ ledger[<<v, "withdrawal_reversal">>].amount = ledger[<<v, "withdrawal">>].amount
              /\ withdrawal[v].status # "none"
    BY DEF WInv, HeldAndReturnedAlike, Backed
  <2>2. CASE v # w
    BY <1>2, <1>5, <2>1, <2>2
  <2>3. CASE v = w
    BY <1>1, <1>2, <1>5, <1>6, <2>1, <2>3
  <2>4. QED
    BY <2>2, <2>3
<1>9. QED
  BY <1>3, <1>4, <1>7, <1>8 DEF WInv

LEMMA WNextInv == WInv /\ [WNext]_allvars => WInv'
<1> SUFFICES ASSUME WInv, [WNext]_allvars PROVE WInv'
  OBVIOUS
<1> USE WalletAssumption, WithdrawalsAssumption
<1>0. IInv /\ WTypeOK
  BY DEF WInv
<1>1. CASE [Next]_vars /\ UNCHANGED wvars
  <2>1. IInv'
    BY <1>0, <1>1, NextIInv
  <2>2. \A k \in PayoutKeys :
           /\ k \in DOMAIN ledger' <=> k \in DOMAIN ledger
           /\ k \in DOMAIN ledger => ledger'[k].amount = ledger[k].amount
    BY <1>0, <1>1, WalletKeepsPayouts
  <2>3. HandlerStands'
    BY <1>1 DEF WInv, HandlerStands, wvars
  <2>4. /\ UNCHANGED withdrawal
        /\ handler' \in [Handlers -> {NoRequest} \cup Loaded]
        /\ event' \in [Events -> {"live", "finished", "cancelled"}]
    BY <1>0, <1>1 DEF wvars, WTypeOK
  <2>5. QED
    BY <2>1, <2>2, <2>3, <2>4, PayoutsKept
<1>2. ASSUME NEW w \in Withdrawals, NEW amount \in Amounts, Request(w, amount) PROVE WInv'
  <2> DEFINE k == <<w, "withdrawal">>
             row == Entry("debit", "available", TotalDebit(amount), NoEvent, 0)
  <2>1. amount \in Nat /\ TotalDebit(amount) \in Nat /\ ExemptConsumed(amount) \in Nat
    BY ExemptType
  <2>2. k \in PayoutKeys /\ row \in Row /\ row.status = "available" /\ row.amount = TotalDebit(amount)
    BY <2>1 DEF PayoutKeys, Row, Entry
  <2>3. Record(k, row) /\ UNCHANGED <<payment, refund, now, handler, event>>
    BY <1>2 DEF Request
  <2>4. withdrawal[w].status = "none" /\ k \notin DOMAIN ledger
    BY <1>2 DEF Request, WInv, HeldAndReturnedAlike
  <2>5. ledger' = Put(ledger, k, row)
    BY <2>3, <2>4 DEF Record
  <2> DEFINE new == [status |-> "pending", amount |-> amount, exempt |-> ExemptConsumed(amount)]
  <2>6. withdrawal' = [withdrawal EXCEPT ![w] = new]
    BY <1>2 DEF Request
  <2>7. new \in WithdrawalRow /\ new.status = "pending" /\ new.amount = amount
    BY <2>1 DEF WithdrawalRow
  <2> HIDE DEF row, new
  <2>8. IInv'
    BY <1>0, <2>2, <2>3, PayoutRecord
  <2>9. /\ withdrawal' \in [Withdrawals -> WithdrawalRow] /\ withdrawal'[w] = new
        /\ \A v \in Withdrawals : v # w => withdrawal'[v] = withdrawal[v]
    BY <1>0, <2>6, <2>7 DEF WTypeOK
  <2>10. WTypeOK'
    BY <1>0, <2>3, <2>8, <2>9 DEF IInv, WTypeOK
  <2>11. IsFiniteSet(Requested)'
    <3>1. Requested' = Requested \cup {w}
      BY <2>4, <2>7, <2>9 DEF Requested
    <3>2. QED
      BY <3>1, FS_AddElement DEF WInv
  <2>12. HandlerStands'
    BY <1>0, <2>3, <2>7, <2>9 DEF WInv, WTypeOK, HandlerStands, Loaded, NoRequest
  <2>13. <<w, "withdrawal_reversal">> \notin DOMAIN ledger'
    BY <2>4, <2>5 DEF Put, WInv, Backed
  <2>14. Backed'
    BY <2>5, <2>7, <2>9 DEF Put, WInv, Backed
  <2>15. HeldAndReturnedAlike'
    <3> SUFFICES ASSUME NEW v \in Withdrawals
                 PROVE  /\ withdrawal'[v].status # "none" <=> <<v, "withdrawal">> \in DOMAIN ledger'
                        /\ withdrawal'[v].status # "none" =>
                              ledger'[<<v, "withdrawal">>].amount = TotalDebit(withdrawal'[v].amount)
                        /\ <<v, "withdrawal_reversal">> \in DOMAIN ledger' =>
                              ledger'[<<v, "withdrawal_reversal">>].amount
                                  = ledger'[<<v, "withdrawal">>].amount
      BY DEF HeldAndReturnedAlike, TotalDebit
    <3>1. CASE v = w
      BY <2>2, <2>5, <2>7, <2>9, <2>13, <3>1 DEF Put
    <3>2. CASE v # w
      BY <2>5, <2>9, <3>2 DEF Put, WInv, HeldAndReturnedAlike, Backed
    <3>3. QED
      BY <3>1, <3>2
  <2>16. QED
    BY <2>8, <2>10, <2>11, <2>12, <2>14, <2>15 DEF WInv
<1>3. ASSUME NEW h \in Handlers, NEW op \in {"process", "complete", "reject", "cancel"},
             NEW w \in Withdrawals, Load(h, op, w)
      PROVE  WInv'
  <2>1. IInv'
    BY <1>0, <1>3, WalletUntouched DEF Load
  <2>2. withdrawal[w].status \in Open
    BY <1>3 DEF Load, Accepts, Open
  <2>3. handler' \in [Handlers -> {NoRequest} \cup Loaded]
    BY <1>0, <1>3, <2>2 DEF Load, WTypeOK, Loaded
  <2>4. HandlerStands'
    BY <1>0, <1>3, <2>2 DEF Load, WInv, WTypeOK, HandlerStands, Open
  <2>5. QED
    BY <1>0, <1>3, <2>1, <2>3, <2>4, PayoutsKept DEF Load, vars, WTypeOK
<1>4. ASSUME NEW h \in Handlers, Process(h) PROVE WInv'
  <2>1. IInv'
    BY <1>0, <1>4, WalletUntouched DEF Process, Running, vars
  <2>2. UNCHANGED withdrawal \/ SetStatus(handler[h].w, "processing")
    BY <1>4 DEF Process
  <2>3. QED
    BY <1>4, <2>1, <2>2, Finishes DEF Process, Running
<1>5. ASSUME NEW h \in Handlers, Complete(h) PROVE WInv'
  <2> DEFINE n == wallet.withdrawn + withdrawal[handler[h].w].amount
  <2>1. n \in Int
    <3>1. handler[h].w \in Withdrawals
      BY <1>0, <1>5 DEF Complete, Running, WTypeOK, NoRequest, Loaded
    <3>2. QED
      BY <1>0, <3>1 DEF WTypeOK, WithdrawalRow, IInv, TypeOK
  <2>2. wallet' = [wallet EXCEPT !.withdrawn = n] /\ UNCHANGED <<ledger, payment, refund, now>>
    BY <1>5 DEF Complete, Running
  <2> HIDE DEF n
  <2>3. IInv'
    BY <1>0, <2>1, <2>2, WithdrawnFree
  <2>4. QED
    BY <1>5, <2>3, Finishes DEF Complete, Running
<1>6. ASSUME NEW h \in Handlers, handler[h].op \in {"reject", "cancel"},
             Running(h, handler[h].op), SetStatus(handler[h].w, "rejected"),
             ReverseWithdrawal(handler[h].w)
      PROVE  WInv'
  <2> DEFINE w == handler[h].w
             k == <<w, "withdrawal_reversal">>
             row == Reversal(w)
  <2>1. w \in Withdrawals
    BY <1>0, <1>6 DEF WTypeOK, NoRequest, Loaded
  <2>2. k \in PayoutKeys /\ row \in Row /\ row.status = "available"
    <3>1. TotalDebit(withdrawal[w].amount) \in Nat
      BY <1>0, <2>1 DEF TotalDebit, WTypeOK, WithdrawalRow
    <3>2. QED
      BY <2>1, <3>1 DEF PayoutKeys, Reversal, Entry, Row
  <2>3. Record(k, row)
    BY <1>6 DEF ReverseWithdrawal
  <2>4. IInv'
    <3> HIDE DEF row, k
    <3>1. QED
      BY <1>0, <1>6, <2>2, <2>3, PayoutRecord DEF Running
  <2>5. UNCHANGED ledger \/ ledger' = Put(ledger, k, row)
    BY <2>3 DEF Record
  <2>6. QED
    BY <1>6, <2>4, <2>5, Finishes DEF Running
<1>7. ASSUME NEW h \in Handlers, Reject(h) \/ Cancel(h) PROVE WInv'
  BY <1>6, <1>7 DEF Reject, Cancel, Running
<1>8. ASSUME NEW e \in Events, NEW from, NEW to \in {"live", "finished", "cancelled"},
             EventMoves(e, from, to)
      PROVE  WInv'
  <2>1. IInv'
    BY <1>0, <1>8, WalletUntouched DEF EventMoves
  <2>2. /\ event' \in [Events -> {"live", "finished", "cancelled"}]
        /\ HandlerStands'
    BY <1>0, <1>8 DEF EventMoves, WTypeOK, WInv, HandlerStands
  <2>3. QED
    BY <1>0, <1>8, <2>1, <2>2, PayoutsKept DEF EventMoves, vars, WTypeOK
<1>9. CASE UNCHANGED allvars
  BY <1>1, <1>9 DEF allvars
<1>10. QED
  BY <1>1, <1>2, <1>3, <1>4, <1>5, <1>7, <1>8, <1>9 DEF WNext

LEMMA WInvariant == WSpec => []WInv
BY WInitInv, WNextInv, PTL DEF WSpec

-----------------------------------------------------------------------------
\* However many requests on the payouts overlap, wallet, ledger and payouts are well
\* typed (WithdrawalService and the columns it writes).
THEOREM PayoutsTypeCorrect == WSpec => []WTypeOK
BY WInvariant, PTL DEF WInv

\* The balances stay the sums of the ledger whatever operations on payouts race each
\* other: what AuditWallets looks for does not happen.
THEOREM PayoutLedgerIdentityHolds == WSpec => []LedgerIdentity
BY WInvariant, PTL DEF WInv, IInv, Core

\* A payout holds its amount and its fee once, and reverseWithdrawal() never gives back
\* another amount than was held, also when two rejections of it race.
THEOREM HeldAndReturnedAlikeHolds == WSpec => []HeldAndReturnedAlike
BY WInvariant, PTL DEF WInv

\* A refund debit still balances a released credit with payouts in between.
THEOREM PayoutRefundMatchesCreditHolds == WSpec => []RefundMatchesCredit
BY WInvariant, PTL DEF WInv, IInv


-----------------------------------------------------------------------------
(***************************************************************************)
(* Requests on payouts that follow one another: with one handler, the      *)
(* status a request loaded is still the payout's when it writes            *)
(* (HandlerSees), and the four properties that two overlapping requests    *)
(* break are preserved.                                                    *)
(***************************************************************************)
OneHandler == \A g, h \in Handlers : g = h

HandlerSees ==
    \A h \in Handlers : handler[h].op # "idle" =>
        withdrawal[handler[h].w].status = handler[h].seen

PayoutsStand == OneOpenWithdrawal /\ ReturnedIffRejected /\ WithdrawnTotal /\ WaiverNotOverdrawn
SerialInv == WInv /\ HandlerSees /\ PayoutsStand

\* The money events released: what the waiver is spent on.
EventCredits(L) == {k \in RowsOf(L, "credit", "available") : L[k].event # NoEvent}
Released(L) == Amt(L, EventCredits(L))

LEMMA WaiverIs ==
    WaiverNotOverdrawn <=> Consumed <= Released(ledger)
<1>1. EventCredits(ledger) = {k \in Rows("credit", "available") : ledger[k].event # NoEvent}
  BY DEF EventCredits, RowsOf, Rows
<1> QED
  BY <1>1 DEF WaiverNotOverdrawn, Consumed, Drawing, Released, Amt, Total

\* Nothing the wallet does on its own takes a released row away or changes what it is.
LEMMA WalletKeepsRows ==
    ASSUME IInv, [Next]_vars, NEW k \in DOMAIN ledger
    PROVE  /\ k \in DOMAIN ledger'
           /\ ledger'[k].type = ledger[k].type /\ ledger'[k].amount = ledger[k].amount
           /\ ledger'[k].event = ledger[k].event
           /\ ledger[k].status = "available" => ledger'[k].status = "available"
<1>1. ledger \in [DOMAIN ledger -> Row]
  BY DEF IInv, TypeOK
<1>2. ASSUME NEW key, NEW row, Record(key, row)
      PROVE  k \in DOMAIN ledger' /\ ledger'[k] = ledger[k]
  BY <1>2 DEF Record, Put
<1>3. CASE \E s \in Sources : MarkPaid(s)
  BY <1>2, <1>3 DEF MarkPaid
<1>4. CASE ReleaseDue
  BY <1>1, <1>4 DEF ReleaseDue, Row
<1>5. ASSUME NEW c \in Clerks, RefundReverse(c)
      PROVE  /\ k \in DOMAIN ledger'
             /\ ledger'[k].type = ledger[k].type /\ ledger'[k].amount = ledger[k].amount
             /\ ledger'[k].event = ledger[k].event
             /\ ledger[k].status = "available" => ledger'[k].status = "available"
  <2> DEFINE s == refund[c].source
  <2>1. CASE /\ Cancels(s, refund[c].seen)
             /\ ledger' = [ledger EXCEPT ![CreditKey(s)].status = "cancelled"]
    BY <1>1, <2>1 DEF Cancels, CreditStatus, Row
  <2>2. CASE UNCHANGED ledger
    BY <2>2
  <2>3. CASE \E key, row : Record(key, row)
    BY <1>2, <2>3
  <2> QED
    BY <1>5, <2>1, <2>2, <2>3 DEF RefundReverse, ReverseCredit
<1>6. CASE \E a \in Adjustments : Adjust(a)
  BY <1>2, <1>6 DEF Adjust
<1>7. CASE UNCHANGED ledger
  BY <1>7
<1> QED
  BY <1>3, <1>4, <1>5, <1>6, <1>7 DEF Next, vars, RefundLoad, RefundFind, RefundRollback, NextDay

\* total_withdrawn is written by complete() alone.
LEMMA RecordKeepsWithdrawn ==
    ASSUME IInv, NEW key, NEW row, Record(key, row)
    PROVE  wallet'.withdrawn = wallet.withdrawn
<1>1. wallet \in [available : Int, pending : Int, earned : Int, withdrawn : Int]
  BY DEF IInv, TypeOK
<1> QED
  BY <1>1 DEF Record

LEMMA WalletKeepsWithdrawn ==
    ASSUME IInv, [Next]_vars
    PROVE  wallet'.withdrawn = wallet.withdrawn
<1>1. wallet \in [available : Int, pending : Int, earned : Int, withdrawn : Int]
  BY DEF IInv, TypeOK
<1>2. ASSUME NEW key, NEW row, Record(key, row) PROVE wallet'.withdrawn = wallet.withdrawn
  BY <1>2, RecordKeepsWithdrawn
<1>3. CASE \E s \in Sources : MarkPaid(s)
  BY <1>2, <1>3 DEF MarkPaid
<1>4. CASE ReleaseDue
  BY <1>1, <1>4 DEF ReleaseDue
<1>5. CASE \E c \in Clerks : RefundReverse(c)
  BY <1>1, <1>2, <1>5 DEF RefundReverse, ReverseCredit
<1>6. CASE \E a \in Adjustments : Adjust(a)
  BY <1>2, <1>6 DEF Adjust
<1>7. CASE UNCHANGED wallet
  BY <1>7
<1> QED
  BY <1>3, <1>4, <1>5, <1>6, <1>7 DEF Next, vars, RefundLoad, RefundFind, RefundRollback, NextDay

\* So what events released only grows.
LEMMA ReleasedGrows ==
    ASSUME NEW L, NEW M, Table(L), Table(M),
           \A k \in EventCredits(L) :
              k \in EventCredits(M) /\ M[k].amount = L[k].amount
    PROVE  Released(L) \in Nat /\ Released(M) \in Nat /\ Released(L) <= Released(M)
<1> DEFINE K == EventCredits(L)
           N == EventCredits(M)
           R == N \ K
<1>1. K \in SUBSET DOMAIN L /\ N \in SUBSET DOMAIN M /\ K \in SUBSET N
  BY DEF EventCredits, RowsOf
<1>2. Amt(M, K) = Amt(L, K)
  BY AmtAgree
<1>3. Amt(L, K) \in Nat /\ Amt(M, N) \in Nat /\ Amt(M, R) \in Nat /\ Amt(M, K) \in Nat
  <2>1. R \in SUBSET DOMAIN M /\ K \in SUBSET DOMAIN M
    BY <1>1
  <2> HIDE DEF K, N, R
  <2> QED
    BY <1>1, <2>1, AmtType
<1>4. Amt(M, N) = Amt(M, K) + Amt(M, R)
  <2>1. K \in SUBSET DOMAIN M /\ R \in SUBSET DOMAIN M /\ K \cap R = {} /\ N = K \cup R
    BY <1>1
  <2> HIDE DEF K, N, R
  <2> QED
    BY <2>1, AmtSplit
<1>5. Released(L) = Amt(L, K) /\ Released(M) = Amt(M, N)
  BY DEF Released
<1> HIDE DEF K, N, R
<1> QED
  BY <1>2, <1>3, <1>4, <1>5


\* What the payouts of some statuses, but not "none", took from the waiver and paid out.
LEMMA PayoutSums ==
    ASSUME WInv, NEW S \in SUBSET {"pending", "processing", "completed", "rejected"}
    PROVE  /\ IsFiniteSet(WithStatus(S))
           /\ Sum([w \in WithStatus(S) |-> withdrawal[w].exempt]) \in Nat
           /\ Sum([w \in WithStatus(S) |-> withdrawal[w].amount]) \in Nat
<1>1. IsFiniteSet(WithStatus(S))
  <2>1. WithStatus(S) \in SUBSET Requested
    BY DEF WithStatus, Requested
  <2> QED
    BY <2>1, FS_Subset DEF WInv
<1> DEFINE e == [w \in WithStatus(S) |-> withdrawal[w].exempt]
           a == [w \in WithStatus(S) |-> withdrawal[w].amount]
<1>2. /\ DOMAIN e = WithStatus(S) /\ \A w \in DOMAIN e : e[w] \in Nat
      /\ DOMAIN a = WithStatus(S) /\ \A w \in DOMAIN a : a[w] \in Nat
  BY DEF WithStatus, WInv, WTypeOK, WithdrawalRow
<1> HIDE DEF e, a
<1>3. Sum(e) \in Nat /\ Sum(a) \in Nat
  BY <1>1, <1>2, SumType
<1> QED
  BY <1>1, <1>3 DEF e, a

\* A step that leaves the payouts, their reversals and the released money.
LEMMA StandsKept ==
    ASSUME SerialInv, WInv', UNCHANGED withdrawal, wallet'.withdrawn = wallet.withdrawn,
           \A w \in Withdrawals :
              <<w, "withdrawal_reversal">> \in DOMAIN ledger'
                  <=> <<w, "withdrawal_reversal">> \in DOMAIN ledger,
           \A k \in EventCredits(ledger) :
              k \in EventCredits(ledger') /\ ledger'[k].amount = ledger[k].amount
    PROVE  PayoutsStand'
<1>1. \A S : WithStatus(S)' = WithStatus(S)
  BY DEF WithStatus
<1>2. OneOpenWithdrawal' /\ ReturnedIffRejected' /\ WithdrawnTotal'
  BY <1>1 DEF SerialInv, PayoutsStand, OneOpenWithdrawal, ReturnedIffRejected, WithdrawnTotal
<1>3. WaiverNotOverdrawn'
  <2>1. Table(ledger) /\ Table(ledger')
    BY DEF SerialInv, WInv, IInv, Core
  <2>2. /\ Released(ledger) \in Nat /\ Released(ledger') \in Nat
        /\ Released(ledger) <= Released(ledger')
    BY <2>1, ReleasedGrows
  <2>3. Consumed \in Nat /\ Consumed <= Released(ledger)
    <3>1. Drawing \in SUBSET {"pending", "processing", "completed", "rejected"}
      BY DEF Drawing, Open
    <3> QED
      BY <3>1, PayoutSums, WaiverIs DEF SerialInv, PayoutsStand, Consumed
  <2>4. Consumed' = Consumed
    BY <1>1 DEF Consumed
  <2>5. Consumed' <= Released(ledger')
    BY <2>2, <2>3, <2>4
  <2>6. WaiverNotOverdrawn' <=> Consumed' <= Released(ledger')
    <3>1. EventCredits(ledger') = {k \in Rows("credit", "available") : ledger[k].event # NoEvent}'
      BY DEF EventCredits, RowsOf, Rows
    <3> QED
      BY <3>1 DEF WaiverNotOverdrawn, Consumed, Drawing, Released, Amt, Total
  <2> QED
    BY <2>5, <2>6
<1> QED
  BY <1>2, <1>3 DEF PayoutsStand

\* A payout request: the only open one, and within the waiver when it needs it.
LEMMA RequestStands ==
    ASSUME SerialInv, WInv', NEW w \in Withdrawals, NEW amount \in Amounts,
           Request(w, amount)
    PROVE  PayoutsStand'
<1> DEFINE new == [status |-> "pending", amount |-> amount, exempt |-> ExemptConsumed(amount)]
           row == Entry("debit", "available", TotalDebit(amount), NoEvent, 0)
           key == <<w, "withdrawal">>
<1>1. amount \in Nat /\ TotalDebit(amount) \in Nat /\ ExemptConsumed(amount) \in Nat
  BY ExemptType, WithdrawalsAssumption DEF SerialInv
<1>2. /\ withdrawal[w].status = "none" /\ WithStatus(Open) = {}
      /\ withdrawal' = [withdrawal EXCEPT ![w] = new]
      /\ Record(key, row)
  BY DEF Request
<1>3. key \notin DOMAIN ledger /\ ledger' = Put(ledger, key, row)
  BY <1>2 DEF SerialInv, WInv, HeldAndReturnedAlike, Record
<1>4. wallet'.withdrawn = wallet.withdrawn
  BY <1>2, RecordKeepsWithdrawn DEF SerialInv, WInv
<1> DEFINE exempt == ExemptConsumed(amount)
<1>5. /\ withdrawal'[w].status = "pending" /\ withdrawal'[w].exempt = exempt
      /\ \A v \in Withdrawals \ {w} : withdrawal'[v] = withdrawal[v]
  BY <1>2 DEF SerialInv, WInv, WTypeOK
<1>6. row.type = "debit" /\ key \in PayoutKeys
  BY DEF Entry, PayoutKeys
<1> HIDE DEF new, row, exempt
<1>7. WithStatus(Open)' = {w} /\ WithStatus({"completed"})' = WithStatus({"completed"})
  BY <1>2, <1>5 DEF WithStatus, Open
<1>8. OneOpenWithdrawal'
  BY <1>7 DEF OneOpenWithdrawal
<1>9. ReturnedIffRejected'
  <2>1. \A v \in Withdrawals : <<v, "withdrawal_reversal">> # key
    OBVIOUS
  <2> QED
    BY <1>2, <1>3, <1>5, <2>1 DEF Put, SerialInv, PayoutsStand, ReturnedIffRejected
<1>10. WithdrawnTotal'
  <2>1. [v \in WithStatus({"completed"}) |-> withdrawal[v].amount]'
           = [v \in WithStatus({"completed"}) |-> withdrawal[v].amount]
    BY <1>2, <1>5, <1>7 DEF WithStatus
  <2> QED
    BY <1>4, <2>1 DEF SerialInv, PayoutsStand, WithdrawnTotal
<1>11. /\ Released(ledger') = Released(ledger) /\ Released(ledger) \in Nat
  <2>1. EventCredits(ledger') = EventCredits(ledger)
    BY <1>3, <1>6 DEF EventCredits, RowsOf, Put
  <2>2. EventCredits(ledger) \in SUBSET DOMAIN ledger /\ Table(ledger)
    BY DEF EventCredits, RowsOf, SerialInv, WInv, IInv, Core
  <2>3. \A k \in EventCredits(ledger) : ledger'[k].amount = ledger[k].amount
    BY <1>3, <2>2 DEF Put
  <2> QED
    BY <2>1, <2>2, <2>3, AmtAgree, AmtType DEF Released
<1>12. Consumed \in Nat /\ Consumed' = Consumed + exempt
  <2> DEFINE K == WithStatus(Drawing)
             f == [v \in Withdrawals |-> withdrawal'[v].exempt]
  <2>1. Drawing \in SUBSET {"pending", "processing", "completed", "rejected"}
    BY DEF Drawing, Open
  <2>2. IsFiniteSet(K) /\ Consumed \in Nat
    BY <2>1, PayoutSums DEF SerialInv, Consumed
  <2>3. w \notin K /\ WithStatus(Drawing)' = K \cup {w} /\ K \in SUBSET Withdrawals
    BY <1>2, <1>5 DEF WithStatus, Drawing, Open
  <2>4. /\ \A v \in K : f[v] = withdrawal[v].exempt /\ f[v] \in Nat
        /\ f[w] = exempt /\ exempt \in Nat
    BY <1>1, <1>5, <2>3 DEF SerialInv, WInv, WTypeOK, WithdrawalRow, exempt
  <2>5. /\ [v \in K |-> f[v]] = [v \in WithStatus(Drawing) |-> withdrawal[v].exempt]
        /\ [v \in K \cup {w} |-> f[v]] = [v \in WithStatus(Drawing) |-> withdrawal[v].exempt]'
    BY <2>3, <2>4
  <2> HIDE DEF K, f
  <2>6. Sum([v \in K \cup {w} |-> f[v]]) = Sum([v \in K |-> f[v]]) + f[w]
    BY <2>2, <2>3, <2>4, SumAdd
  <2> QED
    BY <2>2, <2>4, <2>5, <2>6 DEF Consumed
<1>13. Consumed + exempt <= Released(ledger)
  <2>1. Consumed <= Released(ledger)
    BY WaiverIs DEF SerialInv, PayoutsStand
  <2>2. CASE exempt = 0
    BY <1>11, <1>12, <2>1, <2>2
  <2>3. CASE exempt # 0
    <3>1. exempt = Least(TotalDebit(amount), MinimumWaivedBalance) /\ exempt \in Nat
      BY <1>1, <2>3 DEF exempt, ExemptConsumed
    <3>2. Table(ledger) /\ wallet.available \in Int
      BY DEF SerialInv, WInv, IInv, Core
    <3>3. ASSUME NEW K \in SUBSET DOMAIN ledger PROVE Total(K) \in Nat
      BY <3>2, AmtType DEF Total, Amt
    <3>4. /\ ExemptRows("credit") \in SUBSET EventCredits(ledger)
          /\ EventCredits(ledger) \in SUBSET DOMAIN ledger
          /\ ExemptRows("debit") \in SUBSET DOMAIN ledger
      BY DEF ExemptRows, Rows, EventCredits, RowsOf
    <3>5. Total(ExemptRows("credit")) \in Nat /\ Total(ExemptRows("debit")) \in Nat
      BY <3>3, <3>4
    <3>6. Total(ExemptRows("credit")) <= Released(ledger)
      <4> DEFINE A == ExemptRows("credit")
                 B == EventCredits(ledger) \ A
      <4>1. A \in SUBSET DOMAIN ledger /\ B \in SUBSET DOMAIN ledger /\ A \cap B = {}
        BY <3>4
      <4>2. A \cup B = EventCredits(ledger)
        BY <3>4
      <4> HIDE DEF A, B
      <4>3. Amt(ledger, A \cup B) = Amt(ledger, A) + Amt(ledger, B)
        BY <3>2, <4>1, AmtSplit
      <4>4. Amt(ledger, A) \in Nat /\ Amt(ledger, B) \in Nat
        BY <3>2, <4>1, AmtType
      <4>5. Released(ledger) = Amt(ledger, A) + Amt(ledger, B)
        BY <4>2, <4>3 DEF Released
      <4>6. Total(ExemptRows("credit")) = Amt(ledger, A)
        BY DEF A, Total, Amt
      <4> QED
        BY <4>4, <4>5, <4>6
    <3>7. ExemptSourceBalance \in Int /\ ExemptSourceBalance <= Released(ledger)
      BY <1>11, <3>5, <3>6 DEF ExemptSourceBalance
    <3>8. exempt <= ExemptSourceBalance - Consumed
      BY <1>1, <1>12, <2>3, <3>1, <3>2, <3>7 DEF MinimumWaivedBalance, Least, Greatest
    <3> QED
      BY <1>11, <1>12, <3>1, <3>7, <3>8
  <2> QED
    BY <2>2, <2>3
<1>14. WaiverNotOverdrawn'
  <2>1. EventCredits(ledger') = {k \in Rows("credit", "available") : ledger[k].event # NoEvent}'
    BY DEF EventCredits, RowsOf, Rows
  <2>2. WaiverNotOverdrawn' <=> Consumed' <= Released(ledger')
    BY <2>1 DEF WaiverNotOverdrawn, Consumed, Drawing, Released, Amt, Total
  <2> QED
    BY <1>11, <1>12, <1>13, <2>2
<1> QED
  BY <1>8, <1>9, <1>10, <1>14 DEF PayoutsStand


\* An operation that writes a status, with the payout it loaded still as it was.
LEMMA LoadedIsOpen ==
    ASSUME SerialInv, NEW h \in Handlers, handler[h].op # "idle"
    PROVE  /\ handler[h].w \in Withdrawals
           /\ withdrawal[handler[h].w].status \in Open
           /\ handler[h].seen = withdrawal[handler[h].w].status
  BY DEF SerialInv, WInv, WTypeOK, Loaded, NoRequest, HandlerSees

LEMMA ProcessStands ==
    ASSUME SerialInv, WInv', NEW h \in Handlers, Process(h)
    PROVE  PayoutsStand'
<1>1. PICK w \in Withdrawals : w = handler[h].w /\ withdrawal[w].status \in Open
  BY LoadedIsOpen DEF Process, Running
<1>2. UNCHANGED <<wallet, ledger>>
  BY DEF Process
<1>3. withdrawal \in [Withdrawals -> WithdrawalRow]
  BY DEF SerialInv, WInv, WTypeOK
<1>4. UNCHANGED withdrawal \/ withdrawal' = [withdrawal EXCEPT ![w].status = "processing"]
  BY <1>1 DEF Process, SetStatus
<1>5. /\ \A v \in Withdrawals : /\ withdrawal'[v].amount = withdrawal[v].amount
                                /\ withdrawal'[v].exempt = withdrawal[v].exempt
                                /\ withdrawal'[v].status = withdrawal[v].status
                                      \/ {withdrawal'[v].status, withdrawal[v].status} \subseteq Open
  BY <1>1, <1>3, <1>4 DEF WithdrawalRow, Open
<1>6. \A S \in {Open, Drawing, {"completed"}} : WithStatus(S)' = WithStatus(S)
  BY <1>5 DEF WithStatus, Drawing, Open
<1>7. OneOpenWithdrawal'
  BY <1>6 DEF SerialInv, PayoutsStand, OneOpenWithdrawal
<1>8. ReturnedIffRejected'
  BY <1>2, <1>5 DEF SerialInv, PayoutsStand, ReturnedIffRejected, Open
<1>9. /\ [v \in WithStatus({"completed"}) |-> withdrawal[v].amount]'
            = [v \in WithStatus({"completed"}) |-> withdrawal[v].amount]
      /\ [v \in WithStatus(Drawing) |-> withdrawal[v].exempt]'
            = [v \in WithStatus(Drawing) |-> withdrawal[v].exempt]
  <2>1. \A S : WithStatus(S) \subseteq Withdrawals
    BY DEF WithStatus
  <2> QED
    BY <1>5, <1>6, <2>1
<1>10. WithdrawnTotal'
  BY <1>2, <1>9 DEF SerialInv, PayoutsStand, WithdrawnTotal
<1>11. WaiverNotOverdrawn'
  BY <1>2, <1>9 DEF SerialInv, PayoutsStand, WaiverNotOverdrawn, Drawing, Rows, Total
<1> QED
  BY <1>7, <1>8, <1>10, <1>11 DEF PayoutsStand

LEMMA CompleteStands ==
    ASSUME SerialInv, WInv', NEW h \in Handlers, Complete(h)
    PROVE  PayoutsStand'
<1>1. PICK w \in Withdrawals : w = handler[h].w /\ withdrawal[w].status \in Open
  BY LoadedIsOpen DEF Complete, Running
<1>2. /\ UNCHANGED ledger
      /\ withdrawal' = [withdrawal EXCEPT ![w].status = "completed"]
      /\ wallet' = [wallet EXCEPT !.withdrawn = wallet.withdrawn + withdrawal[w].amount]
  BY <1>1 DEF Complete, SetStatus
<1>3. withdrawal \in [Withdrawals -> WithdrawalRow]
  BY DEF SerialInv, WInv, WTypeOK
<1>4. /\ \A v \in Withdrawals : /\ withdrawal'[v].amount = withdrawal[v].amount
                                /\ withdrawal'[v].exempt = withdrawal[v].exempt
                                /\ v # w => withdrawal'[v].status = withdrawal[v].status
      /\ withdrawal'[w].status = "completed"
      /\ withdrawal[w].amount \in Nat
  BY <1>2, <1>3 DEF WithdrawalRow
<1>5. wallet'.withdrawn = wallet.withdrawn + withdrawal[w].amount
  BY <1>2 DEF SerialInv, WInv, IInv, TypeOK
<1>6. /\ WithStatus(Open)' \subseteq WithStatus(Open)
      /\ WithStatus(Drawing)' = WithStatus(Drawing)
      /\ WithStatus({"completed"})' = WithStatus({"completed"}) \cup {w}
      /\ w \notin WithStatus({"completed"})
  BY <1>1, <1>4 DEF WithStatus, Drawing, Open
<1>7. OneOpenWithdrawal'
  BY <1>6 DEF SerialInv, PayoutsStand, OneOpenWithdrawal
<1>8. ReturnedIffRejected'
  BY <1>1, <1>2, <1>4 DEF SerialInv, PayoutsStand, ReturnedIffRejected, Open
<1>9. WithdrawnTotal'
  <2> DEFINE K == WithStatus({"completed"})
             f == [v \in Withdrawals |-> withdrawal[v].amount]
  <2>1. IsFiniteSet(K) /\ K \in SUBSET Withdrawals /\ w \notin K
    BY <1>6, PayoutSums DEF SerialInv, WithStatus
  <2>2. (\A v \in K \cup {w} : f[v] \in Nat) /\ f[w] = withdrawal[w].amount
    BY <1>3, <2>1 DEF WithdrawalRow
  <2>3. /\ [v \in K |-> f[v]] = [v \in WithStatus({"completed"}) |-> withdrawal[v].amount]
        /\ [v \in K \cup {w} |-> f[v]] = [v \in WithStatus({"completed"}) |-> withdrawal[v].amount]'
    BY <1>4, <1>6, <2>1
  <2> HIDE DEF K, f
  <2>4. Sum([v \in K \cup {w} |-> f[v]]) = Sum([v \in K |-> f[v]]) + f[w]
    BY <2>1, <2>2, SumAdd
  <2>5. wallet.withdrawn = Sum([v \in K |-> f[v]])
    BY <2>3 DEF SerialInv, PayoutsStand, WithdrawnTotal
  <2> QED
    BY <1>5, <2>2, <2>3, <2>4, <2>5 DEF WithdrawnTotal
<1>10. WaiverNotOverdrawn'
  <2>1. [v \in WithStatus(Drawing) |-> withdrawal[v].exempt]'
           = [v \in WithStatus(Drawing) |-> withdrawal[v].exempt]
    <3>1. WithStatus(Drawing) \subseteq Withdrawals
      BY DEF WithStatus
    <3> QED
      BY <1>4, <1>6, <3>1
  <2> QED
    BY <1>2, <2>1 DEF SerialInv, PayoutsStand, WaiverNotOverdrawn, Drawing, Rows, Total
<1> QED
  BY <1>7, <1>8, <1>9, <1>10 DEF PayoutsStand

\* A rejection, and the organizer's cancellation, gives the waiver back too.
LEMMA RejectStands ==
    ASSUME SerialInv, WInv', NEW h \in Handlers, Reject(h) \/ Cancel(h)
    PROVE  PayoutsStand'
<1>1. PICK w \in Withdrawals : w = handler[h].w /\ withdrawal[w].status \in Open
  BY LoadedIsOpen DEF Reject, Cancel, Running
<1> DEFINE key == <<w, "withdrawal_reversal">>
           row == Reversal(w)
<1>2. /\ withdrawal' = [withdrawal EXCEPT ![w].status = "rejected"]
      /\ Record(key, row)
  BY <1>1 DEF Reject, Cancel, SetStatus, ReverseWithdrawal
<1>3. withdrawal \in [Withdrawals -> WithdrawalRow]
  BY DEF SerialInv, WInv, WTypeOK
<1>4. /\ \A v \in Withdrawals : /\ withdrawal'[v].amount = withdrawal[v].amount
                                /\ withdrawal'[v].exempt = withdrawal[v].exempt
                                /\ v # w => withdrawal'[v].status = withdrawal[v].status
      /\ withdrawal'[w].status = "rejected"
      /\ withdrawal[w].exempt \in Nat
  BY <1>2, <1>3 DEF WithdrawalRow
<1>5. key \notin DOMAIN ledger
  BY <1>1 DEF SerialInv, PayoutsStand, ReturnedIffRejected, Open
<1>6. ledger' = Put(ledger, key, row) /\ row.event = NoEvent
  BY <1>2, <1>5 DEF Record, Reversal, Entry
<1>7. wallet'.withdrawn = wallet.withdrawn
  BY <1>2, RecordKeepsWithdrawn DEF SerialInv, WInv
<1> HIDE DEF row
<1>8. /\ WithStatus(Open)' \subseteq WithStatus(Open)
      /\ WithStatus(Drawing) = WithStatus(Drawing)' \cup {w}
      /\ w \notin WithStatus(Drawing)'
      /\ WithStatus({"completed"})' = WithStatus({"completed"})
  BY <1>1, <1>4 DEF WithStatus, Drawing, Open
<1>9. OneOpenWithdrawal'
  BY <1>8 DEF SerialInv, PayoutsStand, OneOpenWithdrawal
<1>10. ReturnedIffRejected'
  <2> SUFFICES ASSUME NEW v \in Withdrawals
               PROVE  <<v, "withdrawal_reversal">> \in DOMAIN ledger'
                         <=> withdrawal'[v].status = "rejected"
    BY DEF ReturnedIffRejected
  <2>1. <<v, "withdrawal_reversal">> \in DOMAIN ledger <=> withdrawal[v].status = "rejected"
    BY DEF SerialInv, PayoutsStand, ReturnedIffRejected
  <2>2. CASE v = w
    BY <1>4, <1>6, <2>2 DEF Put
  <2>3. CASE v # w
    BY <1>4, <1>6, <2>1, <2>3 DEF Put
  <2> QED
    BY <2>2, <2>3
<1>11. WithdrawnTotal'
  <2>1. [v \in WithStatus({"completed"}) |-> withdrawal[v].amount]'
           = [v \in WithStatus({"completed"}) |-> withdrawal[v].amount]
    <3>1. WithStatus({"completed"}) \subseteq Withdrawals
      BY DEF WithStatus
    <3> QED
      BY <1>4, <1>8, <3>1
  <2> QED
    BY <1>7, <2>1 DEF SerialInv, PayoutsStand, WithdrawnTotal
<1>12. Released(ledger') = Released(ledger) /\ Released(ledger) \in Nat
  <2>1. EventCredits(ledger') = EventCredits(ledger)
    BY <1>5, <1>6 DEF EventCredits, RowsOf, Put
  <2>2. EventCredits(ledger) \in SUBSET DOMAIN ledger /\ Table(ledger)
    BY DEF EventCredits, RowsOf, SerialInv, WInv, IInv, Core
  <2>3. \A k \in EventCredits(ledger) : ledger'[k].amount = ledger[k].amount
    BY <1>5, <1>6, <2>2 DEF Put
  <2> QED
    BY <2>1, <2>2, <2>3, AmtAgree, AmtType DEF Released
<1>13. Consumed' \in Nat /\ Consumed = Consumed' + withdrawal[w].exempt
  <2> DEFINE K == WithStatus(Drawing)'
             f == [v \in Withdrawals |-> withdrawal[v].exempt]
  <2>1. Drawing \in SUBSET {"pending", "processing", "completed", "rejected"}
    BY DEF Drawing, Open
  <2>2. IsFiniteSet(K) /\ K \in SUBSET Withdrawals /\ w \notin K
    <3>1. IsFiniteSet(WithStatus(Drawing)) /\ K \in SUBSET WithStatus(Drawing)
      BY <1>8, <2>1, PayoutSums DEF SerialInv
    <3>2. WithStatus(Drawing) \subseteq Withdrawals
      BY DEF WithStatus
    <3> HIDE DEF K
    <3>3. IsFiniteSet(K) /\ K \in SUBSET Withdrawals
      BY <3>1, <3>2, FS_Subset
    <3> QED
      BY <1>8, <3>3 DEF K
  <2>3. (\A v \in K \cup {w} : f[v] \in Nat) /\ f[w] = withdrawal[w].exempt
    BY <1>3, <2>2 DEF WithdrawalRow
  <2>4. /\ [v \in K |-> f[v]] = [v \in WithStatus(Drawing) |-> withdrawal[v].exempt]'
        /\ [v \in K \cup {w} |-> f[v]] = [v \in WithStatus(Drawing) |-> withdrawal[v].exempt]
    BY <1>4, <1>8, <2>2
  <2> HIDE DEF K, f
  <2>5. /\ Sum([v \in K \cup {w} |-> f[v]]) = Sum([v \in K |-> f[v]]) + f[w]
        /\ Sum([v \in K |-> f[v]]) \in Nat
    BY <2>2, <2>3, SumAdd
  <2> QED
    BY <2>3, <2>4, <2>5 DEF Consumed
<1>14. WaiverNotOverdrawn'
  <2>1. EventCredits(ledger') = {k \in Rows("credit", "available") : ledger[k].event # NoEvent}'
    BY DEF EventCredits, RowsOf, Rows
  <2>2. WaiverNotOverdrawn' <=> Consumed' <= Released(ledger')
    BY <2>1 DEF WaiverNotOverdrawn, Consumed, Drawing, Released, Amt, Total
  <2>3. Consumed <= Released(ledger)
    BY WaiverIs DEF SerialInv, PayoutsStand
  <2> QED
    BY <1>4, <1>12, <1>13, <2>2, <2>3
<1> QED
  BY <1>9, <1>10, <1>11, <1>14 DEF PayoutsStand


LEMMA SerialInit == WInit => SerialInv
<1> SUFFICES ASSUME WInit PROVE SerialInv
  OBVIOUS
<1>1. WInv
  BY WInitInv
<1>2. /\ \A S \in SUBSET {"pending", "processing", "completed", "rejected"} : WithStatus(S) = {}
      /\ ledger = << >> /\ wallet.withdrawn = 0
      /\ \A w \in Withdrawals : withdrawal[w].status = "none"
  BY DEF WInit, Init, WithStatus, NotRequested
<1>3. WithStatus(Open) = {} /\ WithStatus({"completed"}) = {} /\ WithStatus(Drawing) = {}
  BY <1>2 DEF Open, Drawing
<1>4. Sum([w \in WithStatus({"completed"}) |-> withdrawal[w].amount]) = 0 /\ Consumed = 0
  BY <1>3, SumNone DEF Consumed
<1>5. OneOpenWithdrawal /\ ReturnedIffRejected /\ WithdrawnTotal
  BY <1>2, <1>3, <1>4 DEF OneOpenWithdrawal, ReturnedIffRejected, WithdrawnTotal
<1>6. WaiverNotOverdrawn
  <2>1. EventCredits(ledger) \in SUBSET DOMAIN ledger /\ Table(ledger)
    BY <1>1 DEF EventCredits, RowsOf, WInv, IInv, Core
  <2>2. Released(ledger) \in Nat
    BY <2>1, AmtType DEF Released
  <2> QED
    BY <1>4, <2>2, WaiverIs
<1>7. HandlerSees
  BY DEF WInit, NoRequest, HandlerSees
<1> QED
  BY <1>1, <1>5, <1>6, <1>7 DEF SerialInv, PayoutsStand

LEMMA SerialNext ==
    ASSUME OneHandler, SerialInv, [WNext]_allvars
    PROVE  SerialInv'
<1>0. WInv'
  BY WNextInv DEF SerialInv
<1>i. IInv /\ withdrawal \in [Withdrawals -> WithdrawalRow]
      /\ handler \in [Handlers -> {NoRequest} \cup Loaded]
  BY DEF SerialInv, WInv, WTypeOK
<1>k. \A w \in Withdrawals : <<w, "withdrawal_reversal">> \in PayoutKeys
  BY DEF PayoutKeys
<1>1. CASE [Next]_vars /\ UNCHANGED wvars
  <2>1. \A k \in EventCredits(ledger) :
           k \in EventCredits(ledger') /\ ledger'[k].amount = ledger[k].amount
    BY <1>i, <1>1, WalletKeepsRows DEF EventCredits, RowsOf
  <2>2. \A w \in Withdrawals : <<w, "withdrawal_reversal">> \in DOMAIN ledger'
                                  <=> <<w, "withdrawal_reversal">> \in DOMAIN ledger
    BY <1>i, <1>k, <1>1, WalletKeepsPayouts
  <2>3. wallet'.withdrawn = wallet.withdrawn
    BY <1>i, <1>1, WalletKeepsWithdrawn
  <2>4. UNCHANGED withdrawal /\ HandlerSees'
    BY <1>1 DEF wvars, SerialInv, HandlerSees
  <2>5. PayoutsStand'
    BY <1>0, <2>1, <2>2, <2>3, <2>4, StandsKept
  <2> QED
    BY <1>0, <2>4, <2>5 DEF SerialInv
<1>2. ASSUME NEW w \in Withdrawals, NEW amount \in Amounts, Request(w, amount)
      PROVE  SerialInv'
  <2>1. PayoutsStand'
    BY <1>0, <1>2, RequestStands
  <2>2. HandlerSees'
    <3>1. UNCHANGED handler /\ \A v \in Withdrawals \ {w} : withdrawal'[v] = withdrawal[v]
      BY <1>i, <1>2 DEF Request
    <3>2. withdrawal[w].status = "none"
      BY <1>2 DEF Request
    <3>3. \A h \in Handlers : handler[h].op # "idle" =>
             handler[h].w \in Withdrawals /\ handler[h].w # w
      BY <3>2, LoadedIsOpen DEF Open
    <3> QED
      BY <3>1, <3>3 DEF SerialInv, HandlerSees
  <2> QED
    BY <1>0, <2>1, <2>2 DEF SerialInv
<1>3. ASSUME NEW h \in Handlers, NEW op \in {"process", "complete", "reject", "cancel"},
             NEW w \in Withdrawals, Load(h, op, w)
      PROVE  SerialInv'
  <2>1. PayoutsStand'
    BY <1>0, <1>3, StandsKept DEF Load, vars, EventCredits, RowsOf
  <2>2. handler'[h] = [op |-> op, w |-> w, seen |-> withdrawal[w].status] /\ UNCHANGED withdrawal
    BY <1>i, <1>3 DEF Load
  <2>3. HandlerSees'
    BY <2>2 DEF OneHandler, HandlerSees
  <2> QED
    BY <1>0, <2>1, <2>3 DEF SerialInv
<1>4. ASSUME NEW h \in Handlers, Process(h) \/ Complete(h) \/ Reject(h) \/ Cancel(h)
      PROVE  SerialInv'
  <2>1. PayoutsStand'
    BY <1>0, <1>4, ProcessStands, CompleteStands, RejectStands
  <2>2. handler'[h].op = "idle"
    BY <1>i, <1>4 DEF Process, Complete, Reject, Cancel, Running, NoRequest
  <2>3. HandlerSees'
    BY <2>2 DEF OneHandler, HandlerSees
  <2> QED
    BY <1>0, <2>1, <2>3 DEF SerialInv
<1>5. ASSUME NEW e \in Events, NEW from, NEW to, EventMoves(e, from, to)
      PROVE  SerialInv'
  <2>1. PayoutsStand'
    BY <1>0, <1>5, StandsKept DEF EventMoves, vars, EventCredits, RowsOf
  <2>2. HandlerSees'
    BY <1>5 DEF EventMoves, SerialInv, HandlerSees
  <2> QED
    BY <1>0, <2>1, <2>2 DEF SerialInv
<1>6. CASE UNCHANGED allvars
  BY <1>1, <1>6 DEF allvars
<1> QED
  BY <1>1, <1>2, <1>3, <1>4, <1>5, <1>6 DEF WNext

LEMMA SerialPayouts ==
    ASSUME OneHandler
    PROVE  WSpec => []SerialInv
<1>1. SerialInv /\ [WNext]_allvars => SerialInv'
  BY SerialNext
<1> QED
  BY <1>1, SerialInit, PTL DEF WSpec

\* One request on the payouts at a time, at most one payout is open
\* (WithdrawalService::request, and process() that may not reopen one).
THEOREM OneOpenWithdrawalHolds ==
    ASSUME OneHandler
    PROVE  WSpec => []OneOpenWithdrawal
<1>1. SerialInv => OneOpenWithdrawal
  BY DEF SerialInv, PayoutsStand
<1> QED
  BY <1>1, SerialPayouts, PTL

\* One request at a time, money comes back for exactly the payouts that were rejected or
\* cancelled (reverseWithdrawal).
THEOREM ReturnedIffRejectedHolds ==
    ASSUME OneHandler
    PROVE  WSpec => []ReturnedIffRejected
<1>1. SerialInv => ReturnedIffRejected
  BY DEF SerialInv, PayoutsStand
<1> QED
  BY <1>1, SerialPayouts, PTL

\* One request at a time, total_withdrawn is the sum of the completed payouts (complete).
THEOREM WithdrawnTotalHolds ==
    ASSUME OneHandler
    PROVE  WSpec => []WithdrawnTotal
<1>1. SerialInv => WithdrawnTotal
  BY DEF SerialInv, PayoutsStand
<1> QED
  BY <1>1, SerialPayouts, PTL

\* One request at a time, what payouts drew on the waiver stays within the money events
\* released, also when an event is cancelled and restored between two payouts
\* (Wallet::minimumWaivedBalance).
THEOREM WaiverNotOverdrawnHolds ==
    ASSUME OneHandler
    PROVE  WSpec => []WaiverNotOverdrawn
<1>1. SerialInv => WaiverNotOverdrawn
  BY DEF SerialInv, PayoutsStand
<1> QED
  BY <1>1, SerialPayouts, PTL
=============================================================================
