------------------------------ MODULE Earnings ------------------------------
(***************************************************************************)
(* What the wallet promises about one payment's money, with no rows, no    *)
(* balances and no processes: it is earned once, held until a sweep clears *)
(* it, and may be voided by a refund, which is final.                      *)
(***************************************************************************)
CONSTANT Sources

VARIABLE claim

Init == claim = [s \in Sources |-> "none"]

Earn(s) == claim[s] = "none" /\ claim' = [claim EXCEPT ![s] = "held"]

\* A sweep clears several held claims at once.
Clear(S) ==
    /\ \A s \in S : claim[s] = "held"
    /\ claim' = [s \in Sources |-> IF s \in S THEN "cleared" ELSE claim[s]]

Void(s) ==
    /\ claim[s] \in {"held", "cleared"}
    /\ claim' = [claim EXCEPT ![s] = "void"]

Next ==
    \/ \E s \in Sources : Earn(s) \/ Void(s)
    \/ \E S \in SUBSET Sources : Clear(S)

Spec == Init /\ [][Next]_claim
=============================================================================
