--------------------------- MODULE MCWithdrawals ---------------------------
(* A wallet fed by one payment, and two payout requests against it. *)
EXTENDS Withdrawals

CONSTANTS order, match, topup

MCCategory == [s \in Sources |-> "ticket_sale"]
MCNet == [s \in Sources |-> 3]
MCEventOf == [s \in Sources |-> match]
MCAdjustBy == [a \in Adjustments |-> 4]
=============================================================================
