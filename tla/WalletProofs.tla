---------------------------- MODULE WalletProofs ----------------------------
(***************************************************************************)
(* The wallet's ledger identity, for any number of payments, clerks,       *)
(* corrections and days.                                                   *)
(*                                                                         *)
(* The first lemmas are about a table of rows L, any table: what inserting *)
(* a row, or changing the status of a set of pending rows, does to the     *)
(* signed sum of a status (Bal) and to the sum of the earning rows (Earn). *)
(* The inductive invariant IInv adds to the properties what they need: a   *)
(* row on an income rail is the credit of its source, only such rows are   *)
(* ever pending, and a credit that a refund saw released stays released.   *)
(* The last part proves that the wallet implements Earnings.               *)
(***************************************************************************)
EXTENDS Wallet, MoneyProofs

Amt(L, K) == Sum([k \in K |-> L[k].amount])
RowsOf(L, type, status) == {k \in DOMAIN L : L[k].type = type /\ L[k].status = status}
Bal(L, status) == Amt(L, RowsOf(L, "credit", status)) - Amt(L, RowsOf(L, "debit", status))
EarnRows(L) == {k \in DOMAIN L : k[2] \in Rails /\ L[k].status # "cancelled"}
Earn(L) == Amt(L, EarnRows(L))

Table(L) == IsFiniteSet(DOMAIN L) /\ L \in [DOMAIN L -> Row]
Restatus(L, D, status) ==
    [k \in DOMAIN L |-> IF k \in D THEN [L[k] EXCEPT !.status = status] ELSE L[k]]

\* The sum of any set of rows of a table is a natural number.
LEMMA AmtType ==
    ASSUME NEW L, Table(L), NEW K \in SUBSET DOMAIN L
    PROVE  IsFiniteSet(K) /\ Amt(L, K) \in Nat
<1>1. IsFiniteSet(K)
  BY FS_Subset DEF Table
<1> DEFINE f == [k \in K |-> L[k].amount]
<1>2. DOMAIN f = K /\ \A k \in K : f[k] \in Nat
  BY DEF Table, Row
<1>3. Sum(f) \in Nat
  <2> HIDE DEF f
  <2>1. QED
    BY <1>1, <1>2, SumType
<1>4. QED
  BY <1>1, <1>3 DEF Amt

\* Disjoint sets of rows add up.
LEMMA AmtSplit ==
    ASSUME NEW L, Table(L), NEW K \in SUBSET DOMAIN L, NEW M \in SUBSET DOMAIN L, K \cap M = {}
    PROVE  Amt(L, K \cup M) = Amt(L, K) + Amt(L, M)
<1> DEFINE f == [k \in DOMAIN L |-> L[k].amount]
<1>1. IsFiniteSet(K) /\ IsFiniteSet(M)
  BY AmtType
<1>2. \A k \in K \cup M : f[k] \in Nat
  BY DEF Table, Row
<1>3. Sum([k \in K \cup M |-> f[k]]) = Sum([k \in K |-> f[k]]) + Sum([k \in M |-> f[k]])
  <2> HIDE DEF f
  <2>1. QED
    BY <1>1, <1>2, SumSplit
<1>4. /\ [k \in K \cup M |-> f[k]] = [k \in K \cup M |-> L[k].amount]
      /\ [k \in K |-> f[k]] = [k \in K |-> L[k].amount]
      /\ [k \in M |-> f[k]] = [k \in M |-> L[k].amount]
  OBVIOUS
<1>5. QED
  BY <1>3, <1>4 DEF Amt

\* Tables that agree on the amounts of K agree on its sum.
LEMMA AmtAgree ==
    ASSUME NEW L, NEW M, NEW K, \A k \in K : M[k].amount = L[k].amount
    PROVE  Amt(M, K) = Amt(L, K)
<1>1. [k \in K |-> M[k].amount] = [k \in K |-> L[k].amount]
  OBVIOUS
<1>2. QED
  BY <1>1 DEF Amt

\* Inserting a row: a set of old rows keeps its sum, the new row adds its amount.
LEMMA AmtPut ==
    ASSUME NEW L, Table(L), NEW key, key \notin DOMAIN L, NEW row \in Row,
           NEW K \in SUBSET DOMAIN L
    PROVE  /\ Table(Put(L, key, row))
           /\ Amt(Put(L, key, row), K) = Amt(L, K)
           /\ Amt(Put(L, key, row), K \cup {key}) = Amt(L, K) + row.amount
<1> DEFINE M == Put(L, key, row)
<1>1. Table(M)
  <2>1. DOMAIN M = DOMAIN L \cup {key}
    BY DEF Put
  <2>2. IsFiniteSet(DOMAIN M)
    <3>1. IsFiniteSet(DOMAIN L \cup {key})
      BY FS_AddElement DEF Table
    <3>2. QED
      BY <2>1, <3>1
  <2>3. QED
    BY <2>1, <2>2 DEF Put, Table
<1>2. Amt(M, K) = Amt(L, K)
  <2>1. \A k \in K : M[k].amount = L[k].amount
    BY DEF Put
  <2> HIDE DEF M
  <2>2. QED
    BY <2>1, AmtAgree
<1>3. Amt(M, {key}) = row.amount
  <2>1. [k \in {key} |-> M[k].amount] = [k \in {key} |-> row.amount]
    BY DEF Put
  <2>2. row.amount \in Nat
    BY DEF Row
  <2>3. QED
    BY <2>1, <2>2, SumOne DEF Amt
<1>4. Amt(M, K \cup {key}) = Amt(M, K) + Amt(M, {key})
  <2>1. K \in SUBSET DOMAIN M /\ {key} \in SUBSET DOMAIN M /\ K \cap {key} = {}
    BY DEF Put
  <2> HIDE DEF M
  <2>2. QED
    BY <1>1, <2>1, AmtSplit
<1>5. QED
  BY <1>1, <1>2, <1>3, <1>4

\* Inserting a row moves the balance of its status by its signed amount.
LEMMA BalPut ==
    ASSUME NEW L, Table(L), NEW key, key \notin DOMAIN L, NEW row \in Row, NEW status
    PROVE  /\ Bal(L, status) \in Int
           /\ Bal(Put(L, key, row), status) =
                 Bal(L, status) + IF row.status = status THEN Signed(row) ELSE 0
<1> DEFINE M == Put(L, key, row)
           C == RowsOf(L, "credit", status)
           D == RowsOf(L, "debit", status)
<1>1. C \in SUBSET DOMAIN L /\ D \in SUBSET DOMAIN L
  BY DEF RowsOf
<1>2. ASSUME NEW K \in SUBSET DOMAIN L
      PROVE  /\ Amt(L, K) \in Nat
             /\ Amt(M, K) = Amt(L, K)
             /\ Amt(M, K \cup {key}) = Amt(L, K) + row.amount
  BY AmtPut, AmtType
<1> HIDE DEF C, D, M
<1>c. Amt(L, C) \in Nat /\ Amt(M, C) = Amt(L, C) /\ Amt(M, C \cup {key}) = Amt(L, C) + row.amount
  BY <1>1, <1>2
<1>d. Amt(L, D) \in Nat /\ Amt(M, D) = Amt(L, D) /\ Amt(M, D \cup {key}) = Amt(L, D) + row.amount
  BY <1>1, <1>2
<1>3. RowsOf(M, "credit", status) =
        IF row.type = "credit" /\ row.status = status THEN C \cup {key} ELSE C
  BY DEF RowsOf, Put, C, M
<1>4. RowsOf(M, "debit", status) =
        IF row.type = "debit" /\ row.status = status THEN D \cup {key} ELSE D
  BY DEF RowsOf, Put, D, M
<1>5. row.type \in {"credit", "debit"} /\ row.amount \in Nat
  BY DEF Row
<1>6. /\ Bal(L, status) = Amt(L, C) - Amt(L, D)
      /\ Bal(M, status) = Amt(M, RowsOf(M, "credit", status)) - Amt(M, RowsOf(M, "debit", status))
  BY DEF Bal, C, D
<1>7. Bal(M, status) = Bal(L, status) + IF row.status = status THEN Signed(row) ELSE 0
  <2>1. CASE row.status = status /\ row.type = "credit"
    <3>1. RowsOf(M, "credit", status) = C \cup {key} /\ RowsOf(M, "debit", status) = D
      BY <1>3, <1>4, <2>1
    <3>2. Bal(M, status) = (Amt(L, C) + row.amount) - Amt(L, D)
      BY <1>c, <1>d, <1>6, <3>1
    <3>3. Signed(row) = row.amount
      BY <2>1 DEF Signed
    <3>4. QED
      BY <1>c, <1>d, <1>5, <1>6, <2>1, <3>2, <3>3
  <2>2. CASE row.status = status /\ row.type = "debit"
    <3>1. RowsOf(M, "credit", status) = C /\ RowsOf(M, "debit", status) = D \cup {key}
      BY <1>3, <1>4, <2>2
    <3>2. Bal(M, status) = Amt(L, C) - (Amt(L, D) + row.amount)
      BY <1>c, <1>d, <1>6, <3>1
    <3>3. Signed(row) = -row.amount
      BY <2>2 DEF Signed
    <3>4. QED
      BY <1>c, <1>d, <1>5, <1>6, <2>2, <3>2, <3>3
  <2>3. CASE row.status # status
    <3>1. RowsOf(M, "credit", status) = C /\ RowsOf(M, "debit", status) = D
      BY <1>3, <1>4, <2>3
    <3>2. Bal(M, status) = Amt(L, C) - Amt(L, D)
      BY <1>c, <1>d, <1>6, <3>1
    <3>3. QED
      BY <1>c, <1>d, <1>6, <2>3, <3>2
  <2>4. QED
    BY <1>5, <2>1, <2>2, <2>3
<1>8. Bal(L, status) \in Int
  BY <1>c, <1>d, <1>6
<1>9. QED
  BY <1>7, <1>8 DEF M

\* Inserting a row moves the earned sum when the row sits on an income rail.
LEMMA EarnPut ==
    ASSUME NEW L, Table(L), NEW key, key \notin DOMAIN L, NEW row \in Row,
           row.status # "cancelled"
    PROVE  /\ Earn(L) \in Int
           /\ Earn(Put(L, key, row)) = Earn(L) + IF key[2] \in Rails THEN row.amount ELSE 0
<1> DEFINE M == Put(L, key, row)
           E == EarnRows(L)
<1>1. E \in SUBSET DOMAIN L
  BY DEF EarnRows
<1>2. /\ Amt(L, E) \in Nat
      /\ Amt(M, E) = Amt(L, E) /\ Amt(M, E \cup {key}) = Amt(L, E) + row.amount
  <2> HIDE DEF E
  <2>1. QED
    BY <1>1, AmtPut, AmtType
<1>3. EarnRows(M) = IF key[2] \in Rails THEN E \cup {key} ELSE E
  BY DEF EarnRows, Put
<1>4. Earn(L) = Amt(L, E) /\ Earn(M) = Amt(M, EarnRows(M))
  BY DEF Earn
<1>5. Earn(L) \in Int /\ row.amount \in Nat
  BY <1>2, <1>4 DEF Row
<1>6. CASE key[2] \in Rails
  BY <1>2, <1>3, <1>4, <1>5, <1>6
<1>7. CASE key[2] \notin Rails
  <2>1. Earn(M) = Earn(L)
    BY <1>2, <1>3, <1>4, <1>7
  <2>2. QED
    BY <1>5, <1>7, <2>1
<1>8. QED
  BY <1>6, <1>7

\* Changing the status of some pending credits moves their sum out of the pending
\* balance, into the available one when they are released.
LEMMA BalMove ==
    ASSUME NEW L, Table(L), NEW D \in SUBSET RowsOf(L, "credit", "pending"),
           NEW status \in {"available", "cancelled"}
    PROVE  /\ Table(Restatus(L, D, status))
           /\ Bal(L, "pending") \in Int /\ Bal(L, "available") \in Int /\ Amt(L, D) \in Nat
           /\ Bal(Restatus(L, D, status), "pending") = Bal(L, "pending") - Amt(L, D)
           /\ Bal(Restatus(L, D, status), "available") =
                 Bal(L, "available") + IF status = "available" THEN Amt(L, D) ELSE 0
<1> DEFINE M == Restatus(L, D, status)
           P == RowsOf(L, "credit", "pending")
           A == RowsOf(L, "credit", "available")
           PD == RowsOf(L, "debit", "pending")
           AD == RowsOf(L, "debit", "available")
<1>1. Table(M)
  BY DEF Table, Restatus, Row
<1>2. /\ P \ D \in SUBSET DOMAIN L /\ P \in SUBSET DOMAIN L /\ D \in SUBSET DOMAIN L
      /\ A \in SUBSET DOMAIN L /\ PD \in SUBSET DOMAIN L /\ AD \in SUBSET DOMAIN L
      /\ A \cup D \in SUBSET DOMAIN L
      /\ P = (P \ D) \cup D /\ A \cap D = {}
  BY DEF RowsOf
<1>3. ASSUME NEW K \in SUBSET DOMAIN L
      PROVE  Amt(L, K) \in Nat /\ Amt(M, K) = Amt(L, K)
  <2>1. Amt(L, K) \in Nat
    BY AmtType
  <2>2. \A k \in K : M[k].amount = L[k].amount
    BY DEF Restatus, Table, Row
  <2> HIDE DEF M
  <2>3. QED
    BY <2>1, <2>2, AmtAgree
<1>4. /\ RowsOf(M, "credit", "pending") = P \ D
      /\ RowsOf(M, "debit", "pending") = PD
      /\ RowsOf(M, "debit", "available") = AD
      /\ RowsOf(M, "credit", "available") = IF status = "available" THEN A \cup D ELSE A
  BY DEF RowsOf, Restatus, Table, Row
<1>5. /\ Bal(L, "pending") = Amt(L, P) - Amt(L, PD)
      /\ Bal(L, "available") = Amt(L, A) - Amt(L, AD)
      /\ Bal(M, "pending") = Amt(M, P \ D) - Amt(M, PD)
      /\ Bal(M, "available") =
            Amt(M, IF status = "available" THEN A \cup D ELSE A) - Amt(M, AD)
  BY <1>4 DEF Bal
<1> HIDE DEF M, P, A, PD, AD
<1>6. Amt(L, P) = Amt(L, P \ D) + Amt(L, D)
  <2>1. (P \ D) \cap D = {}
    OBVIOUS
  <2>2. Amt(L, (P \ D) \cup D) = Amt(L, P \ D) + Amt(L, D)
    BY <1>2, <2>1, AmtSplit
  <2>3. QED
    BY <1>2, <2>2
<1>7. Amt(L, A \cup D) = Amt(L, A) + Amt(L, D)
  BY <1>2, AmtSplit
<1>8. /\ Amt(L, P) \in Nat /\ Amt(L, D) \in Nat /\ Amt(L, A) \in Nat
      /\ Amt(L, PD) \in Nat /\ Amt(L, AD) \in Nat /\ Amt(L, P \ D) \in Nat
  BY <1>2, <1>3
<1>9. /\ Amt(M, P \ D) = Amt(L, P \ D) /\ Amt(M, PD) = Amt(L, PD)
      /\ Amt(M, A) = Amt(L, A) /\ Amt(M, AD) = Amt(L, AD)
      /\ Amt(M, A \cup D) = Amt(L, A \cup D)
  BY <1>2, <1>3
<1>10. Bal(M, "pending") = Bal(L, "pending") - Amt(L, D)
  BY <1>5, <1>6, <1>8, <1>9
<1>11. Bal(M, "available") =
          Bal(L, "available") + IF status = "available" THEN Amt(L, D) ELSE 0
  <2>1. CASE status = "available"
    <3>1. Bal(M, "available") = Amt(M, A \cup D) - Amt(M, AD)
      BY <1>5, <2>1
    <3>2. QED
      BY <1>5, <1>7, <1>8, <1>9, <2>1, <3>1
  <2>2. CASE status # "available"
    <3>1. Bal(M, "available") = Amt(M, A) - Amt(M, AD)
      BY <1>5, <2>2
    <3>2. QED
      BY <1>5, <1>8, <1>9, <2>2, <3>1
  <2>3. QED
    BY <2>1, <2>2
<1>12. QED
  BY <1>1, <1>5, <1>8, <1>10, <1>11 DEF M

\* A release leaves the earned sum alone, a cancellation takes its row out of it.
LEMMA EarnMove ==
    ASSUME NEW L, Table(L), NEW D \in SUBSET RowsOf(L, "credit", "pending"),
           \A k \in D : k[2] \in Rails,
           NEW status \in {"available", "cancelled"}
    PROVE  /\ Earn(L) \in Int
           /\ Earn(Restatus(L, D, status)) =
                 Earn(L) - IF status = "cancelled" THEN Amt(L, D) ELSE 0
<1> DEFINE M == Restatus(L, D, status)
           E == EarnRows(L)
<1>1. /\ E \in SUBSET DOMAIN L /\ E \ D \in SUBSET DOMAIN L /\ D \in SUBSET DOMAIN L
      /\ E = (E \ D) \cup D
  BY DEF EarnRows, RowsOf
<1>2. ASSUME NEW K \in SUBSET DOMAIN L
      PROVE  Amt(L, K) \in Nat /\ Amt(M, K) = Amt(L, K)
  <2>1. Amt(L, K) \in Nat
    BY AmtType
  <2>2. \A k \in K : M[k].amount = L[k].amount
    BY DEF Restatus, Table, Row
  <2> HIDE DEF M
  <2>3. QED
    BY <2>1, <2>2, AmtAgree
<1>3. EarnRows(M) = IF status = "cancelled" THEN E \ D ELSE E
  BY DEF EarnRows, RowsOf, Restatus, Table, Row
<1>4. Earn(L) = Amt(L, E) /\ Earn(M) = Amt(M, IF status = "cancelled" THEN E \ D ELSE E)
  BY <1>3 DEF Earn
<1> HIDE DEF M, E
<1>5. Amt(L, E) = Amt(L, E \ D) + Amt(L, D)
  <2>1. (E \ D) \cap D = {}
    OBVIOUS
  <2>2. Amt(L, (E \ D) \cup D) = Amt(L, E \ D) + Amt(L, D)
    BY <1>1, <2>1, AmtSplit
  <2>3. QED
    BY <1>1, <2>2
<1>6. /\ Amt(L, E) \in Nat /\ Amt(L, E \ D) \in Nat /\ Amt(L, D) \in Nat
      /\ Amt(M, E) = Amt(L, E) /\ Amt(M, E \ D) = Amt(L, E \ D)
  BY <1>1, <1>2
<1>7. CASE status = "cancelled"
  <2>1. Earn(M) = Amt(M, E \ D)
    BY <1>4, <1>7
  <2>2. QED
    BY <1>4, <1>5, <1>6, <1>7, <2>1 DEF M
<1>8. CASE status # "cancelled"
  <2>1. Earn(M) = Amt(M, E)
    BY <1>4, <1>8
  <2>2. QED
    BY <1>4, <1>6, <1>8, <2>1 DEF M
<1>9. QED
  BY <1>7, <1>8

-----------------------------------------------------------------------------
(***************************************************************************)
(* The inductive invariant.                                                *)
(***************************************************************************)
Shape ==
    \A k \in DOMAIN ledger :
        /\ k[2] \in Rails => /\ k[1] \in Sources /\ k = CreditKey(k[1])
                             /\ ledger[k].type = "credit"
        /\ k[2] \notin Rails => ledger[k].status = "available"

SeenStands ==
    \A c \in Clerks : refund[c].step = "found" =>
        LET s == refund[c].source IN
        /\ refund[c].seen # "none" => CreditKey(s) \in DOMAIN ledger
        /\ refund[c].seen = "available" => CreditStatus(s) = "available"

Core ==
    /\ wallet \in [available : Int, pending : Int, earned : Int, withdrawn : Int]
    /\ DOMAIN ledger \subseteq Key
    /\ Table(ledger)
    /\ LedgerIdentity
    /\ EarnedIdentity
    /\ Shape

IInv == TypeOK /\ Core /\ RefundMatchesCredit /\ NoEarlyRelease /\ SeenStands

\* The balances of the specification in the terms of the lemmas.
LEMMA Restate ==
    /\ LedgerIdentity <=> /\ wallet.available = Bal(ledger, "available")
                          /\ wallet.pending = Bal(ledger, "pending")
    /\ EarnedIdentity <=> wallet.earned = Earn(ledger)
BY DEF LedgerIdentity, Ledger, Total, Rows, Bal, Amt, RowsOf, EarnedIdentity, Earn, EarnRows

LEMMA BalancesType ==
    ASSUME NEW w \in [available : Int, pending : Int, earned : Int, withdrawn : Int],
           NEW p \in Int, NEW a \in Int, NEW e \in Int
    PROVE  [w EXCEPT !.pending = p, !.available = a, !.earned = e]
              \in [available : Int, pending : Int, earned : Int, withdrawn : Int]
OBVIOUS

\* An idempotent insert keeps the balances equal to the ledger.
LEMMA RecordCore ==
    ASSUME Core, NEW key \in Key, NEW row \in Row, Record(key, row),
           row.status # "cancelled",
           key[2] \in Rails => /\ key[1] \in Sources /\ key = CreditKey(key[1])
                              /\ row.type = "credit",
           key[2] \notin Rails => row.status = "available"
    PROVE  Core'
<1>1. CASE key \in DOMAIN ledger
  <2>1. UNCHANGED <<ledger, wallet>>
    BY <1>1 DEF Record
  <2>2. QED
    BY <2>1 DEF Core, Table, LedgerIdentity, Ledger, Total, Rows, EarnedIdentity, Shape, CreditKey
<1>2. CASE key \notin DOMAIN ledger
  <2>1. ledger' = Put(ledger, key, row)
    BY <1>2 DEF Record
  <2>2. /\ Bal(ledger, "available") \in Int
        /\ Bal(ledger', "available") =
              Bal(ledger, "available") + IF row.status = "available" THEN Signed(row) ELSE 0
    BY <1>2, <2>1, BalPut DEF Core
  <2>3. /\ Bal(ledger, "pending") \in Int
        /\ Bal(ledger', "pending") =
              Bal(ledger, "pending") + IF row.status = "pending" THEN Signed(row) ELSE 0
    BY <1>2, <2>1, BalPut DEF Core
  <2>4. /\ Earn(ledger) \in Int
        /\ Earn(ledger') = Earn(ledger) + IF key[2] \in Rails THEN row.amount ELSE 0
    BY <1>2, <2>1, EarnPut DEF Core
  <2>5. /\ row.status \in {"pending", "available"} /\ row.amount \in Nat
        /\ Signed(row) \in Int
    BY DEF Row, Signed
  <2>6. wallet' = [wallet EXCEPT
                !.pending   = @ + IF row.status = "pending" THEN Signed(row) ELSE 0,
                !.available = @ + IF row.status = "pending" THEN 0 ELSE Signed(row),
                !.earned    = @ + IF row.type = "credit" /\ key[2] \in EarningCategories
                                  THEN row.amount ELSE 0]
    BY <1>2 DEF Record
  <2>7. (row.type = "credit" /\ key[2] \in EarningCategories) <=> key[2] \in Rails
    BY DEF EarningCategories, Rails
  <2>8. wallet' \in [available : Int, pending : Int, earned : Int, withdrawn : Int]
    <3> DEFINE dp == IF row.status = "pending" THEN Signed(row) ELSE 0
               da == IF row.status = "pending" THEN 0 ELSE Signed(row)
               de == IF row.type = "credit" /\ key[2] \in EarningCategories
                     THEN row.amount ELSE 0
    <3>1. dp \in Int /\ da \in Int /\ de \in Int
      BY <2>5
    <3>2. wallet' = [wallet EXCEPT !.pending = @ + dp, !.available = @ + da, !.earned = @ + de]
      BY <2>6
    <3>3. /\ wallet.pending + dp \in Int /\ wallet.available + da \in Int
          /\ wallet.earned + de \in Int
      BY <3>1 DEF Core
    <3> HIDE DEF dp, da, de
    <3>4. QED
      BY <3>2, <3>3, BalancesType DEF Core
  <2>9. wallet.available = Bal(ledger, "available") /\ wallet.pending = Bal(ledger, "pending")
        /\ wallet.earned = Earn(ledger)
    BY Restate DEF Core
  <2>10. LedgerIdentity'
    <3>1. wallet'.available = Bal(ledger', "available")
      BY <2>2, <2>5, <2>6, <2>9 DEF Core
    <3>2. wallet'.pending = Bal(ledger', "pending")
      BY <2>3, <2>5, <2>6, <2>9 DEF Core
    <3>3. QED
      BY <3>1, <3>2 DEF LedgerIdentity, Ledger, Total, Rows, Bal, Amt, RowsOf
  <2>11. EarnedIdentity'
    <3>1. wallet'.earned = Earn(ledger')
      BY <2>4, <2>5, <2>6, <2>7, <2>9 DEF Core
    <3>2. QED
      BY <3>1 DEF EarnedIdentity, Total, Amt, Earn, EarnRows
  <2>12. DOMAIN ledger' = DOMAIN ledger \cup {key}
    BY <2>1 DEF Put
  <2>13. Table(ledger')
    <3>1. {} \in SUBSET DOMAIN ledger
      OBVIOUS
    <3>2. QED
      BY <1>2, <2>1, <3>1, AmtPut DEF Core
  <2>14. Shape'
    BY <2>1 DEF Core, Shape, Put, CreditKey
  <2>15. QED
    BY <2>8, <2>10, <2>11, <2>12, <2>13, <2>14 DEF Core, Table
<1>3. QED
  BY <1>1, <1>2

\* Releasing or cancelling pending rows, with the balances moved by their sum, keeps
\* the balances equal to the ledger.
LEMMA RestatusCore ==
    ASSUME Core, NEW D \in SUBSET DOMAIN ledger, NEW status \in {"available", "cancelled"},
           \A k \in D : ledger[k].status = "pending",
           ledger' = Restatus(ledger, D, status),
           wallet' = [wallet EXCEPT
                !.pending   = @ - Amt(ledger, D),
                !.available = @ + IF status = "available" THEN Amt(ledger, D) ELSE 0,
                !.earned    = @ - IF status = "cancelled" THEN Amt(ledger, D) ELSE 0]
    PROVE  Core'
<1>1. D \in SUBSET RowsOf(ledger, "credit", "pending") /\ \A k \in D : k[2] \in Rails
  BY DEF Core, Shape, RowsOf
<1>2. Table(ledger)
  BY DEF Core
<1>3. /\ Table(ledger')
      /\ Bal(ledger, "pending") \in Int /\ Bal(ledger, "available") \in Int
      /\ Amt(ledger, D) \in Nat
      /\ Bal(ledger', "pending") = Bal(ledger, "pending") - Amt(ledger, D)
      /\ Bal(ledger', "available") =
            Bal(ledger, "available") + IF status = "available" THEN Amt(ledger, D) ELSE 0
  BY <1>1, <1>2, BalMove
<1>4. /\ Earn(ledger) \in Int
      /\ Earn(ledger') = Earn(ledger) - IF status = "cancelled" THEN Amt(ledger, D) ELSE 0
  BY <1>1, <1>2, EarnMove
<1>5. wallet.available = Bal(ledger, "available") /\ wallet.pending = Bal(ledger, "pending")
      /\ wallet.earned = Earn(ledger)
  BY Restate DEF Core
<1>6. wallet' \in [available : Int, pending : Int, earned : Int, withdrawn : Int]
  <2> DEFINE dp == Amt(ledger, D)
             da == IF status = "available" THEN Amt(ledger, D) ELSE 0
             de == IF status = "cancelled" THEN Amt(ledger, D) ELSE 0
  <2>1. dp \in Int /\ da \in Int /\ de \in Int
    BY <1>3
  <2>2. wallet' = [wallet EXCEPT !.pending = @ - dp, !.available = @ + da, !.earned = @ - de]
    OBVIOUS
  <2>3. /\ wallet.pending - dp \in Int /\ wallet.available + da \in Int
        /\ wallet.earned - de \in Int
    BY <2>1 DEF Core
  <2> HIDE DEF dp, da, de
  <2>4. QED
    BY <2>2, <2>3, BalancesType DEF Core
<1>7. LedgerIdentity'
  <2>1. wallet'.available = Bal(ledger', "available")
    BY <1>3, <1>5 DEF Core
  <2>2. wallet'.pending = Bal(ledger', "pending")
    BY <1>3, <1>5 DEF Core
  <2>3. QED
    BY <2>1, <2>2 DEF LedgerIdentity, Ledger, Total, Rows, Bal, Amt, RowsOf
<1>8. EarnedIdentity'
  <2>1. wallet'.earned = Earn(ledger')
    BY <1>3, <1>4, <1>5 DEF Core
  <2>2. QED
    BY <2>1 DEF EarnedIdentity, Total, Amt, Earn, EarnRows
<1>9. DOMAIN ledger' = DOMAIN ledger
  BY DEF Restatus
<1>10. Shape'
  BY <1>1 DEF Core, Shape, Restatus, CreditKey, Table, Row
<1>11. QED
  BY <1>3, <1>6, <1>7, <1>8, <1>9, <1>10 DEF Core, Table

-----------------------------------------------------------------------------
LEMMA InitIInv == Init => IInv
<1> SUFFICES ASSUME Init PROVE IInv
  OBVIOUS
<1>1. ledger = << >> /\ DOMAIN ledger = {}
  BY DEF Init
<1>2. Table(ledger)
  BY <1>1, FS_EmptySet DEF Table
<1>3. LedgerIdentity /\ EarnedIdentity
  <2>1. ASSUME NEW K, K = {} PROVE Amt(ledger, K) = 0
    BY <2>1, SumNone DEF Amt
  <2>2. /\ \A type, status : RowsOf(ledger, type, status) = {}
        /\ EarnRows(ledger) = {}
    BY <1>1 DEF RowsOf, EarnRows
  <2>3. Bal(ledger, "available") = 0 /\ Bal(ledger, "pending") = 0 /\ Earn(ledger) = 0
    BY <2>1, <2>2 DEF Bal, Earn
  <2>4. QED
    BY <2>3, Restate DEF Init
<1>4. TypeOK
  BY <1>1, <1>2, WalletAssumption DEF Init, TypeOK, Table, RefundState
<1>5. Core
  BY <1>1, <1>2, <1>3, <1>4 DEF Core, TypeOK, Shape
<1>6. RefundMatchesCredit /\ NoEarlyRelease /\ SeenStands
  BY <1>1 DEF Init, RefundMatchesCredit, NoEarlyRelease, SeenStands, CreditStatus, Idle
<1>7. QED
  BY <1>4, <1>5, <1>6 DEF IInv

\* What is not about the balances, for a step that leaves ledger and refunds alone.
LEMMA NextIInv == IInv /\ [Next]_vars => IInv'
<1> SUFFICES ASSUME IInv, [Next]_vars PROVE IInv'
  OBVIOUS
<1> USE WalletAssumption
<1>1. ASSUME NEW s \in Sources, MarkPaid(s) PROVE IInv'
  <2> DEFINE row == Entry("credit", "pending", Net[s], EventOf[s], AvailableAt)
  <2>1. CreditKey(s) \in Key /\ row \in Row
    BY DEF CreditKey, Key, Rails, Row, Entry, AvailableAt, IInv, TypeOK
  <2>2. Core'
    <3>1. CASE Net[s] = 0
      BY <1>1, <3>1 DEF MarkPaid, IInv, Core, Table, LedgerIdentity, Ledger, Total, Rows,
                        EarnedIdentity, Shape, CreditKey
    <3>2. CASE Net[s] # 0
      <4>1. Record(CreditKey(s), row)
        BY <1>1, <3>2 DEF MarkPaid
      <4>2. /\ CreditKey(s)[1] = s /\ CreditKey(s)[2] \in Rails
            /\ row.status = "pending" /\ row.type = "credit"
        BY DEF CreditKey, Entry
      <4> HIDE DEF row
      <4>3. QED
        BY <2>1, <4>1, <4>2, RecordCore DEF IInv
    <3>3. QED
      BY <3>1, <3>2
  <2>3. TypeOK'
    BY <1>1, <2>2 DEF MarkPaid, IInv, TypeOK, Core, Table
  <2>4. \/ UNCHANGED ledger
        \/ /\ CreditKey(s) \notin DOMAIN ledger
           /\ ledger' = Put(ledger, CreditKey(s), row)
    BY <1>1 DEF MarkPaid, Record
  <2>5. RefundMatchesCredit'
    BY <1>1, <2>4 DEF IInv, RefundMatchesCredit, CreditStatus, Put, CreditKey, RefundKey, Rails,
                       Entry
  <2>6. NoEarlyRelease'
    BY <1>1, <2>4 DEF MarkPaid, IInv, NoEarlyRelease, CreditStatus, Put, CreditKey, Entry
  <2>7. SeenStands'
    BY <1>1, <2>4 DEF MarkPaid, IInv, SeenStands, CreditStatus, Put, CreditKey
  <2>8. QED
    BY <2>2, <2>3, <2>5, <2>6, <2>7 DEF IInv
<1>2. CASE ReleaseDue
  <2>1. /\ DueRows \in SUBSET DOMAIN ledger
        /\ \A k \in DueRows : ledger[k].status = "pending"
        /\ ledger' = Restatus(ledger, DueRows, "available")
    BY <1>2 DEF ReleaseDue, DueRows, Restatus
  <2>2. Amt(ledger, DueRows) \in Nat /\ wallet.earned \in Int
    BY <2>1, AmtType DEF IInv, Core
  <2>3. wallet' = [wallet EXCEPT !.pending = @ - Amt(ledger, DueRows),
                                 !.available = @ + Amt(ledger, DueRows)]
    BY <1>2 DEF ReleaseDue, Total, Amt
  <2>4. wallet' = [wallet EXCEPT !.pending = @ - Amt(ledger, DueRows),
                                 !.available = @ + Amt(ledger, DueRows),
                                 !.earned = @ - 0]
    <3> DEFINE p == wallet.pending - Amt(ledger, DueRows)
               a == wallet.available + Amt(ledger, DueRows)
               e == wallet.earned - 0
    <3>1. e = wallet.earned
      BY <2>2
    <3>2. wallet' = [wallet EXCEPT !.pending = p, !.available = a]
      BY <2>3
    <3> HIDE DEF p, a, e
    <3>3. wallet' = [wallet EXCEPT !.pending = p, !.available = a, !.earned = e]
      BY <3>1, <3>2 DEF IInv, Core
    <3>4. QED
      BY <3>3 DEF p, a, e
  <2>5. Core'
    BY <2>1, <2>4, RestatusCore DEF IInv
  <2>6. TypeOK'
    BY <1>2, <2>5 DEF ReleaseDue, IInv, TypeOK, Core, Table
  <2>7. RefundMatchesCredit'
    BY <1>2, <2>1 DEF IInv, RefundMatchesCredit, CreditStatus, Restatus, TypeOK, Row
  <2>8. NoEarlyRelease'
    BY <1>2, <2>1 DEF ReleaseDue, DueRows, IInv, NoEarlyRelease, CreditStatus, Restatus,
                       TypeOK, Row, CreditKey
  <2>9. SeenStands'
    BY <1>2, <2>1 DEF ReleaseDue, IInv, SeenStands, CreditStatus, Restatus, TypeOK, Row
  <2>10. QED
    BY <2>5, <2>6, <2>7, <2>8, <2>9 DEF IInv
<1>3. ASSUME UNCHANGED <<wallet, ledger, payment, now>>, SeenStands',
             refund' \in [Clerks -> RefundState]
      PROVE  IInv'
  <2>1. Core'
    BY <1>3 DEF IInv, Core, Table, LedgerIdentity, Ledger, Total, Rows, EarnedIdentity, Shape,
                CreditKey
  <2>2. TypeOK' /\ RefundMatchesCredit' /\ NoEarlyRelease'
    BY <1>3 DEF IInv, TypeOK, RefundMatchesCredit, NoEarlyRelease, CreditStatus, CreditKey,
                RefundKey
  <2>3. QED
    BY <1>3, <2>1, <2>2 DEF IInv
<1>4. ASSUME NEW c \in Clerks, NEW s \in Sources, RefundLoad(c, s) PROVE IInv'
  <2>1. refund' \in [Clerks -> RefundState]
    BY <1>4 DEF RefundLoad, IInv, TypeOK, RefundState
  <2>2. SeenStands'
    BY <1>4 DEF RefundLoad, IInv, TypeOK, SeenStands, CreditStatus, CreditKey
  <2>3. QED
    BY <1>3, <1>4, <2>1, <2>2 DEF RefundLoad
<1>5. ASSUME NEW c \in Clerks, RefundFind(c) PROVE IInv'
  <2>1. refund[c].source \in Sources
    BY <1>5 DEF RefundFind, IInv, TypeOK, RefundState, Idle
  <2>2. CreditStatus(refund[c].source) \in {"none", "pending", "available", "cancelled"}
    BY DEF CreditStatus, IInv, TypeOK, Row
  <2>3. refund' \in [Clerks -> RefundState]
    BY <1>5, <2>1, <2>2 DEF RefundFind, IInv, TypeOK, RefundState
  <2>4. SeenStands'
    BY <1>5 DEF RefundFind, IInv, TypeOK, SeenStands, CreditStatus, CreditKey
  <2>5. QED
    BY <1>3, <1>5, <2>3, <2>4 DEF RefundFind
<1>6. ASSUME NEW c \in Clerks, RefundRollback(c) PROVE IInv'
  <2>1. refund' \in [Clerks -> RefundState]
    BY <1>6 DEF RefundRollback, IInv, TypeOK, RefundState
  <2>2. SeenStands'
    BY <1>6 DEF RefundRollback, IInv, TypeOK, SeenStands, CreditStatus, CreditKey, Idle
  <2>3. QED
    BY <1>3, <1>6, <2>1, <2>2 DEF RefundRollback
<1>7. ASSUME NEW c \in Clerks, RefundReverse(c) PROVE IInv'
  <2> DEFINE s == refund[c].source
             seen == refund[c].seen
             key == CreditKey(s)
  <2>1. refund[c].step = "found" /\ s \in Sources
    BY <1>7 DEF RefundReverse, IInv, TypeOK, RefundState, Idle
  <2>2. /\ refund' = [refund EXCEPT ![c] = Idle]
        /\ payment' = [payment EXCEPT ![s] = "refunded"]
        /\ now' = now
        /\ refund' \in [Clerks -> RefundState]
        /\ payment' \in [Sources -> {"unpaid", "paid", "refunded"}]
    BY <1>7, <2>1 DEF RefundReverse, IInv, TypeOK, RefundState
  <2>3. CASE Cancels(s, seen)
    <3>1. /\ key \in DOMAIN ledger /\ ledger[key].status = "pending"
          /\ ledger' = [ledger EXCEPT ![key].status = "cancelled"]
          /\ wallet' = [wallet EXCEPT !.pending = @ - ledger[key].amount,
                                      !.earned  = @ - ledger[key].amount]
      BY <1>7, <2>3 DEF RefundReverse, ReverseCredit, Cancels, Debits, CreditStatus
    <3>2. ledger' = Restatus(ledger, {key}, "cancelled")
      BY <3>1 DEF Restatus, IInv, TypeOK
    <3>3. Amt(ledger, {key}) = ledger[key].amount /\ ledger[key].amount \in Nat
      <4>1. ledger[key].amount \in Nat
        BY <3>1 DEF IInv, TypeOK, Row
      <4>2. [k \in {key} |-> ledger[k].amount] = [k \in {key} |-> ledger[key].amount]
        OBVIOUS
      <4>3. QED
        BY <4>1, <4>2, SumOne DEF Amt
    <3>4. wallet' = [wallet EXCEPT !.pending = @ - Amt(ledger, {key}),
                                   !.available = @ + 0,
                                   !.earned = @ - Amt(ledger, {key})]
      <4> DEFINE p == wallet.pending - ledger[key].amount
                 a == wallet.available + 0
                 e == wallet.earned - ledger[key].amount
      <4>1. a = wallet.available
        BY DEF IInv, Core
      <4>2. wallet' = [wallet EXCEPT !.pending = p, !.earned = e]
        BY <3>1
      <4> HIDE DEF p, a, e
      <4>3. wallet' = [wallet EXCEPT !.pending = p, !.available = a, !.earned = e]
        BY <4>1, <4>2 DEF IInv, Core
      <4>4. QED
        BY <3>3, <4>3 DEF p, a, e
    <3>5. Core'
      <4> DEFINE D == {key}
      <4>1. Core /\ D \in SUBSET DOMAIN ledger /\ \A k \in D : ledger[k].status = "pending"
        BY <3>1 DEF IInv
      <4>2. ledger' = Restatus(ledger, D, "cancelled")
        BY <3>2
      <4>3. wallet' = [wallet EXCEPT !.pending = @ - Amt(ledger, D),
                                     !.available = @ + 0,
                                     !.earned = @ - Amt(ledger, D)]
        BY <3>4
      <4> HIDE DEF D, key
      <4>4. QED
        BY <4>1, <4>2, <4>3, RestatusCore
    <3>6. TypeOK'
      BY <2>2, <3>5 DEF IInv, TypeOK, Core, Table
    <3>7. RefundMatchesCredit'
      BY <2>1, <3>1, <3>2 DEF IInv, RefundMatchesCredit, CreditStatus, Restatus, TypeOK, Row,
                              CreditKey, RefundKey, Rails
    <3>8. NoEarlyRelease'
      BY <2>1, <2>2, <3>1, <3>2 DEF IInv, NoEarlyRelease, CreditStatus, Restatus, TypeOK, Row,
                                    CreditKey
    <3>9. SeenStands'
      BY <2>1, <2>2, <3>1, <3>2 DEF IInv, SeenStands, CreditStatus, Restatus, TypeOK, Row,
                                    CreditKey, Idle
    <3>10. QED
      BY <3>5, <3>6, <3>7, <3>8, <3>9 DEF IInv
  <2>4. CASE Debits(seen)
    <3> DEFINE row == Entry("debit", "available", ledger[key].amount, ledger[key].event, 0)
    <3>1. key \in DOMAIN ledger /\ ledger[key].status = "available"
      BY <2>1, <2>4 DEF IInv, SeenStands, Debits, CreditStatus
    <3>2. Record(RefundKey(s), row)
      BY <1>7, <2>4 DEF RefundReverse, ReverseCredit, Cancels, Debits
    <3>3. /\ row \in Row /\ row.status = "available" /\ row.type = "debit"
          /\ row.amount = ledger[key].amount /\ row.event = ledger[key].event
      BY <3>1 DEF Entry, IInv, TypeOK, Row
    <3>4. RefundKey(s) \in Key /\ RefundKey(s)[2] \notin Rails
      BY <2>1 DEF RefundKey, Key, Rails
    <3>5. \/ UNCHANGED ledger
          \/ /\ RefundKey(s) \notin DOMAIN ledger
             /\ ledger' = Put(ledger, RefundKey(s), row)
      BY <3>2 DEF Record
    <3> HIDE DEF row
    <3>6. Core'
      BY <3>2, <3>3, <3>4, RecordCore DEF IInv
    <3>7. TypeOK'
      BY <2>2, <3>6 DEF IInv, TypeOK, Core, Table
    <3>8. \A t \in Sources : CreditKey(t) # RefundKey(s)
      BY <3>4 DEF CreditKey, RefundKey, Rails
    <3>9. RefundMatchesCredit'
      <4>1. CASE UNCHANGED ledger
        BY <4>1 DEF IInv, RefundMatchesCredit, CreditStatus
      <4>2. CASE ledger' = Put(ledger, RefundKey(s), row)
        <5> SUFFICES ASSUME NEW t \in Sources, RefundKey(t) \in DOMAIN ledger'
                     PROVE  /\ CreditStatus(t)' = "available"
                            /\ ledger'[RefundKey(t)].amount = ledger'[CreditKey(t)].amount
                            /\ ledger'[RefundKey(t)].event = ledger'[CreditKey(t)].event
          BY DEF RefundMatchesCredit, RefundKey, CreditKey
        <5>1. CASE t = s
          BY <3>1, <3>3, <3>8, <4>2, <5>1 DEF Put, CreditStatus
        <5>2. CASE t # s
          BY <3>8, <4>2, <5>2 DEF Put, CreditStatus, IInv, RefundMatchesCredit, RefundKey
        <5>3. QED
          BY <5>1, <5>2
      <4>3. QED
        BY <3>5, <4>1, <4>2
    <3>10. NoEarlyRelease'
      BY <2>2, <3>5, <3>8 DEF IInv, NoEarlyRelease, CreditStatus, Put
    <3>11. SeenStands'
      BY <2>2, <3>5, <3>8 DEF IInv, SeenStands, CreditStatus, Put, Idle, TypeOK, RefundState
    <3>12. QED
      BY <3>6, <3>7, <3>9, <3>10, <3>11 DEF IInv
  <2>5. CASE ~Cancels(s, seen) /\ ~Debits(seen)
    <3>1. UNCHANGED <<ledger, wallet>>
      BY <1>7, <2>5 DEF RefundReverse, ReverseCredit
    <3>2. Core'
      BY <3>1 DEF IInv, Core, Table, LedgerIdentity, Ledger, Total, Rows, EarnedIdentity, Shape,
                  CreditKey
    <3>3. QED
      BY <2>2, <3>1, <3>2 DEF IInv, TypeOK, RefundMatchesCredit, NoEarlyRelease, SeenStands,
                              CreditStatus, CreditKey, RefundKey, Idle
  <2>6. QED
    BY <2>3, <2>4, <2>5
<1>8. ASSUME NEW a \in Adjustments, Adjust(a) PROVE IInv'
  <2> DEFINE key == <<a, "adjustment">>
             row == Adjustment(AdjustBy[a])
  <2>1. /\ key \in Key /\ key[2] \notin Rails /\ key \notin DOMAIN ledger
        /\ Record(key, row)
        /\ UNCHANGED <<payment, refund, now>>
    BY <1>8 DEF Adjust, Key, Rails
  <2>2. row \in Row /\ row.status = "available"
    BY DEF Adjustment, Entry, Row
  <2>3. \A s \in Sources : CreditKey(s) # key /\ RefundKey(s) # key
    BY DEF CreditKey, RefundKey, Rails
  <2>4. ledger' = Put(ledger, key, row)
    BY <2>1 DEF Record
  <2> HIDE DEF key, row
  <2>5. Core'
    BY <2>1, <2>2, RecordCore DEF IInv
  <2>6. TypeOK'
    BY <2>1, <2>5 DEF IInv, TypeOK, Core, Table
  <2>7. RefundMatchesCredit' /\ NoEarlyRelease'
    BY <2>1, <2>3, <2>4 DEF IInv, RefundMatchesCredit, NoEarlyRelease, CreditStatus, Put
  <2>8. SeenStands'
    BY <2>1, <2>3, <2>4 DEF IInv, SeenStands, CreditStatus, Put, TypeOK, RefundState, Idle
  <2>9. QED
    BY <2>5, <2>6, <2>7, <2>8 DEF IInv
<1>9. CASE NextDay
  <2>1. Core'
    BY <1>9 DEF NextDay, IInv, Core, Table, LedgerIdentity, Ledger, Total, Rows, EarnedIdentity,
                Shape, CreditKey
  <2>2. QED
    BY <1>9, <2>1 DEF NextDay, IInv, TypeOK, RefundMatchesCredit, NoEarlyRelease, SeenStands,
                      CreditStatus, CreditKey, RefundKey, Row
<1>10. CASE UNCHANGED vars
  <2>1. SeenStands' /\ refund' \in [Clerks -> RefundState]
    BY <1>10 DEF vars, IInv, TypeOK, SeenStands, CreditStatus, CreditKey
  <2>2. QED
    BY <1>3, <1>10, <2>1 DEF vars
<1>11. QED
  BY <1>1, <1>2, <1>4, <1>5, <1>6, <1>7, <1>8, <1>9, <1>10 DEF Next

LEMMA Invariant == Spec => []IInv
BY InitIInv, NextIInv, PTL DEF Spec

-----------------------------------------------------------------------------
\* For every set of payments, clerks and corrections the wallet is well typed.
THEOREM TypeCorrect == Spec => []TypeOK
BY Invariant, PTL DEF IInv

\* wallet:audit never reports a drift: the balances are the sums over the ledger.
THEOREM LedgerIdentityHolds == Spec => []LedgerIdentity
BY Invariant, PTL DEF IInv, Core

\* total_earned counts every rail's uncancelled credits and nothing else.
THEOREM EarnedIdentityHolds == Spec => []EarnedIdentity
BY Invariant, PTL DEF IInv, Core

\* A refund debit always balances a released credit of the same source, in full.
THEOREM RefundMatchesCreditHolds == Spec => []RefundMatchesCredit
BY Invariant, PTL DEF IInv

\* No credit is released before its boundary.
THEOREM NoEarlyReleaseHolds == Spec => []NoEarlyRelease
BY Invariant, PTL DEF IInv

-----------------------------------------------------------------------------
(***************************************************************************)
(* The wallet implements the life of an income claim (Earnings): whatever  *)
(* settlements, sweeps, refunds and corrections overlap, each payment is   *)
(* earned once, cleared when held, and voided once, for good.              *)
(*                                                                         *)
(* ClaimIn reads a claim off any ledger; under IInv it is ClaimOf.  Each   *)
(* step of the wallet is then an Earn, a Clear, a Void or a stutter.       *)
(***************************************************************************)
StatusIn(L, s) == IF CreditKey(s) \in DOMAIN L THEN L[CreditKey(s)].status ELSE "none"

ClaimIn(L, s) ==
    IF StatusIn(L, s) = "none" THEN "none"
    ELSE IF StatusIn(L, s) = "cancelled" \/ RefundKey(s) \in DOMAIN L THEN "void"
    ELSE IF StatusIn(L, s) = "pending" THEN "held"
    ELSE "cleared"

ClaimsIn(L) == [s \in Sources |-> ClaimIn(L, s)]

\* The alternatives of ClaimOf exclude each other where a refund matches its credit.
LEMMA ReadNow == IInv => [s \in Sources |-> ClaimOf(s)] = ClaimsIn(ledger)
<1> SUFFICES ASSUME IInv, NEW s \in Sources PROVE ClaimOf(s) = ClaimIn(ledger, s)
  BY DEF ClaimsIn
<1>1. CreditStatus(s) = StatusIn(ledger, s)
  BY DEF CreditStatus, StatusIn
<1>2. RefundKey(s) \in DOMAIN ledger => CreditStatus(s) = "available"
  BY DEF IInv, RefundMatchesCredit
<1>3. QED
  BY <1>1, <1>2 DEF ClaimOf, ClaimIn

LEMMA ReadNext == IInv' => [s \in Sources |-> ClaimOf(s)]' = ClaimsIn(ledger')
<1> SUFFICES ASSUME IInv' PROVE [s \in Sources |-> ClaimOf(s)]' = ClaimsIn(ledger')
  OBVIOUS
<1>1. ASSUME NEW s \in Sources PROVE ClaimOf(s)' = ClaimIn(ledger', s)
  <2>1. CreditStatus(s)' = StatusIn(ledger', s)
    BY DEF CreditStatus, StatusIn, CreditKey
  <2>2. RefundKey(s) \in DOMAIN ledger' => CreditStatus(s)' = "available"
    BY DEF IInv, RefundMatchesCredit, RefundKey
  <2>3. QED
    BY <2>1, <2>2 DEF ClaimOf, ClaimIn, RefundKey
<1>2. QED
  BY <1>1 DEF ClaimsIn

\* A row of no payment says nothing about a claim.
LEMMA ForeignRow ==
    ASSUME NEW L, NEW key, NEW row, \A s \in Sources : key # CreditKey(s) /\ key # RefundKey(s)
    PROVE  ClaimsIn(Put(L, key, row)) = ClaimsIn(L)
<1>1. ASSUME NEW s \in Sources PROVE ClaimIn(Put(L, key, row), s) = ClaimIn(L, s)
  <2>1. StatusIn(Put(L, key, row), s) = StatusIn(L, s)
    BY DEF StatusIn, Put
  <2>2. RefundKey(s) \in DOMAIN Put(L, key, row) <=> RefundKey(s) \in DOMAIN L
    BY DEF Put
  <2>3. QED
    BY <2>1, <2>2 DEF ClaimIn
<1>2. QED
  BY <1>1 DEF ClaimsIn

-----------------------------------------------------------------------------
LEMMA InitClaims == Init => Claims!Init
<1> SUFFICES ASSUME Init PROVE Claims!Init
  OBVIOUS
<1>1. ASSUME NEW s \in Sources PROVE ClaimIn(ledger, s) = "none"
  BY DEF Init, ClaimIn, StatusIn
<1>2. QED
  BY <1>1, InitIInv, ReadNow DEF Claims!Init, ClaimsIn

\* Each step maps to a step of Earnings on the claims, or to a stutter.
LEMMA NextClaims ==
    ASSUME IInv, IInv', [Next]_vars
    PROVE  [Claims!Next]_([s \in Sources |-> ClaimOf(s)])
<1> DEFINE C == ClaimsIn(ledger)
           D == ClaimsIn(ledger')
           EarnIt(s) == C[s] = "none" /\ D = [C EXCEPT ![s] = "held"]
           VoidIt(s) == C[s] \in {"held", "cleared"} /\ D = [C EXCEPT ![s] = "void"]
           ClearIt(S) == /\ \A s \in S : C[s] = "held"
                         /\ D = [s \in Sources |-> IF s \in S THEN "cleared" ELSE C[s]]
<1>1. [s \in Sources |-> ClaimOf(s)] = C /\ [s \in Sources |-> ClaimOf(s)]' = D
  BY ReadNow, ReadNext
<1>2. SUFFICES \/ D = C
               \/ \E s \in Sources : EarnIt(s) \/ VoidIt(s)
               \/ \E S \in SUBSET Sources : ClearIt(S)
  BY <1>1 DEF Claims!Next, Claims!Earn, Claims!Void, Claims!Clear
<1>3. \A s, t \in Sources : /\ CreditKey(s) # RefundKey(t)
                            /\ CreditKey(s) = CreditKey(t) => s = t
                            /\ RefundKey(s) = RefundKey(t) => s = t
  BY WalletAssumption DEF CreditKey, RefundKey, Rails
<1>4. CASE UNCHANGED ledger
  BY <1>4
<1>5. ASSUME NEW s \in Sources, MarkPaid(s), ~UNCHANGED ledger PROVE EarnIt(s)
  <2> DEFINE row == Entry("credit", "pending", Net[s], EventOf[s], AvailableAt)
  <2>1. CreditKey(s) \notin DOMAIN ledger /\ ledger' = Put(ledger, CreditKey(s), row)
    BY <1>5 DEF MarkPaid, Record
  <2>2. row.status = "pending"
    BY DEF Entry
  <2>3. RefundKey(s) \notin DOMAIN ledger
    BY <2>1 DEF IInv, RefundMatchesCredit, CreditStatus
  <2> HIDE DEF row
  <2>4. C[s] = "none"
    BY <2>1 DEF ClaimsIn, ClaimIn, StatusIn
  <2>5. D[s] = "held"
    <3>1. StatusIn(ledger', s) = "pending" /\ RefundKey(s) \notin DOMAIN ledger'
      BY <1>3, <2>1, <2>2, <2>3 DEF StatusIn, Put
    <3>2. QED
      BY <3>1 DEF ClaimsIn, ClaimIn
  <2>6. \A t \in Sources : t # s => D[t] = C[t]
    <3> SUFFICES ASSUME NEW t \in Sources, t # s PROVE ClaimIn(ledger', t) = ClaimIn(ledger, t)
      BY DEF ClaimsIn
    <3>1. StatusIn(ledger', t) = StatusIn(ledger, t)
      BY <1>3, <2>1 DEF StatusIn, Put
    <3>2. RefundKey(t) \in DOMAIN ledger' <=> RefundKey(t) \in DOMAIN ledger
      BY <1>3, <2>1 DEF Put
    <3>3. QED
      BY <3>1, <3>2 DEF ClaimIn
  <2>7. QED
    BY <2>4, <2>5, <2>6 DEF ClaimsIn
<1>6. ASSUME ReleaseDue PROVE \E S \in SUBSET Sources : ClearIt(S)
  <2> DEFINE S == {s \in Sources : CreditKey(s) \in DueRows}
  <2>1. /\ DueRows \in SUBSET DOMAIN ledger /\ \A k \in DueRows : ledger[k].status = "pending"
        /\ ledger' = Restatus(ledger, DueRows, "available")
        /\ ledger \in [DOMAIN ledger -> Row]
    BY <1>6 DEF ReleaseDue, DueRows, Restatus, IInv, TypeOK
  <2>2. ASSUME NEW s \in S PROVE C[s] = "held" /\ D[s] = "cleared"
    <3>1. StatusIn(ledger, s) = "pending" /\ RefundKey(s) \notin DOMAIN ledger
      BY <2>1 DEF StatusIn, IInv, RefundMatchesCredit, CreditStatus
    <3>2. StatusIn(ledger', s) = "available" /\ RefundKey(s) \notin DOMAIN ledger'
      BY <2>1, <3>1 DEF StatusIn, Restatus, Row
    <3>3. QED
      BY <3>1, <3>2 DEF ClaimsIn, ClaimIn
  <2>3. ASSUME NEW s \in Sources, s \notin S PROVE D[s] = C[s]
    <3>1. StatusIn(ledger', s) = StatusIn(ledger, s)
      BY <2>1, <2>3 DEF StatusIn, Restatus
    <3>2. RefundKey(s) \in DOMAIN ledger' <=> RefundKey(s) \in DOMAIN ledger
      BY <2>1 DEF Restatus
    <3>3. QED
      BY <3>1, <3>2 DEF ClaimsIn, ClaimIn
  <2>4. D = [s \in Sources |-> IF s \in S THEN "cleared" ELSE C[s]]
    BY <2>2, <2>3 DEF ClaimsIn
  <2>5. QED
    BY <2>2, <2>4
<1>7. ASSUME NEW c \in Clerks, RefundReverse(c), ~UNCHANGED ledger
      PROVE  \E s \in Sources : VoidIt(s)
  <2> DEFINE s == refund[c].source
             seen == refund[c].seen
  <2>1. refund[c].step = "found" /\ s \in Sources
    BY <1>7 DEF RefundReverse, IInv, TypeOK, RefundState, Idle
  <2>2. \A t \in Sources : t # s => D[t] = C[t]
    <3> SUFFICES ASSUME NEW t \in Sources, t # s PROVE ClaimIn(ledger', t) = ClaimIn(ledger, t)
      BY DEF ClaimsIn
    <3>1. \/ ledger' = [ledger EXCEPT ![CreditKey(s)].status = "cancelled"]
          \/ \E row : ledger' = Put(ledger, RefundKey(s), row)
      BY <1>7 DEF RefundReverse, ReverseCredit, Record
    <3>2. StatusIn(ledger', t) = StatusIn(ledger, t)
      BY <1>3, <2>1, <3>1 DEF StatusIn, Put
    <3>3. RefundKey(t) \in DOMAIN ledger' <=> RefundKey(t) \in DOMAIN ledger
      BY <1>3, <2>1, <3>1 DEF Put
    <3>4. QED
      BY <3>2, <3>3 DEF ClaimIn
  <2>3. CASE Cancels(s, seen)
    <3>1. /\ CreditKey(s) \in DOMAIN ledger /\ ledger[CreditKey(s)].status = "pending"
          /\ ledger' = [ledger EXCEPT ![CreditKey(s)].status = "cancelled"]
          /\ ledger[CreditKey(s)] \in Row
      BY <1>7, <2>3 DEF RefundReverse, ReverseCredit, Cancels, Debits, CreditStatus, IInv, TypeOK
    <3>2. RefundKey(s) \notin DOMAIN ledger
      BY <2>1, <3>1 DEF IInv, RefundMatchesCredit, CreditStatus
    <3>3. C[s] = "held"
      BY <2>1, <3>1, <3>2 DEF ClaimsIn, ClaimIn, StatusIn
    <3>4. StatusIn(ledger', s) = "cancelled"
      BY <3>1 DEF StatusIn, Row
    <3>5. D[s] = "void"
      BY <2>1, <3>4 DEF ClaimsIn, ClaimIn
    <3>6. QED
      BY <2>1, <2>2, <3>3, <3>5 DEF ClaimsIn
  <2>4. CASE Debits(seen)
    <3>1. StatusIn(ledger, s) = "available"
      BY <2>1, <2>4 DEF IInv, SeenStands, Debits, CreditStatus, StatusIn
    <3>2. PICK row : RefundKey(s) \notin DOMAIN ledger /\ ledger' = Put(ledger, RefundKey(s), row)
      BY <1>7, <2>4 DEF RefundReverse, ReverseCredit, Cancels, Debits, Record
    <3>3. C[s] = "cleared"
      BY <2>1, <3>1, <3>2 DEF ClaimsIn, ClaimIn
    <3>4. StatusIn(ledger', s) = "available" /\ RefundKey(s) \in DOMAIN ledger'
      BY <1>3, <2>1, <3>1, <3>2 DEF StatusIn, Put
    <3>5. D[s] = "void"
      BY <2>1, <3>4 DEF ClaimsIn, ClaimIn
    <3>6. QED
      BY <2>1, <2>2, <3>3, <3>5 DEF ClaimsIn
  <2>5. QED
    BY <1>7, <2>3, <2>4 DEF RefundReverse, ReverseCredit
<1>8. ASSUME NEW a \in Adjustments, Adjust(a) PROVE D = C
  <2>1. PICK row : ledger' = Put(ledger, <<a, "adjustment">>, row)
    BY <1>8 DEF Adjust, Record
  <2>2. \A s \in Sources : <<a, "adjustment">> # CreditKey(s) /\ <<a, "adjustment">> # RefundKey(s)
    BY WalletAssumption DEF CreditKey, RefundKey, Rails
  <2>3. QED
    BY <2>1, <2>2, ForeignRow
<1>9. QED
  <2> HIDE DEF C, D, EarnIt, VoidIt, ClearIt
  <2>1. \/ UNCHANGED ledger
        \/ \E s \in Sources : MarkPaid(s)
        \/ ReleaseDue
        \/ \E c \in Clerks : RefundReverse(c)
        \/ \E a \in Adjustments : Adjust(a)
    BY DEF Next, vars, RefundLoad, RefundFind, RefundRollback, NextDay
  <2>2. QED
    BY <1>4, <1>5, <1>6, <1>7, <1>8, <2>1

-----------------------------------------------------------------------------
\* WalletService implements Earnings: for every set of payments and clerks, and whatever
\* overlaps, a payment's money is earned once, cleared once and voided for good.
THEOREM WalletImplementsEarnings == Spec => ClaimsSpec
<1>1. IInv /\ IInv' /\ [Next]_vars => [Claims!Next]_([s \in Sources |-> ClaimOf(s)])
  BY NextClaims
<1>2. QED
  BY <1>1, InitClaims, Invariant, PTL DEF Spec, ClaimsSpec, Claims!Spec
=============================================================================
