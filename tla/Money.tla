------------------------------- MODULE Money -------------------------------
(***************************************************************************)
(* Sums of rupiah amounts.  The API adds amounts up with SUM() over the    *)
(* rows of a table (AuditWallets::sumFor, Wallet::minimumWaivedBalance).   *)
(* Amounts are natural numbers, so a sum is the number of rupiah in the    *)
(* rows: the cardinality of the set of pairs <<row, n>>, n counting the    *)
(* rupiah of that row.  Stated this way a sum needs no recursion, and the  *)
(* laws of MoneyProofs follow from the laws of finite sets.                *)
(***************************************************************************)
EXTENDS Integers, FiniteSets

\* The single rupiah of an assignment f of amounts to keys.
Rupiah(f) == UNION {{k} \X (1 .. f[k]) : k \in DOMAIN f}

Sum(f) == Cardinality(Rupiah(f))

\* A function with one more key, or with one key overwritten: an INSERT of a row.
Put(f, key, value) ==
    [k \in DOMAIN f \cup {key} |-> IF k = key THEN value ELSE f[k]]

Least(a, b) == IF a <= b THEN a ELSE b
Greatest(a, b) == IF a >= b THEN a ELSE b
=============================================================================
