------------------------------ MODULE MCWallet ------------------------------
(* A wallet with two payments on two rails, one of them refundable by two admins. *)
EXTENDS Wallet, TLC

CONSTANTS order, entry, match, correction

MCSources == {order, entry}
MCCategory == (order :> "ticket_sale") @@ (entry :> "race_entry")
MCNet == (order :> 2) @@ (entry :> 1)
MCEventOf == [s \in MCSources |-> match]
MCAdjustBy == [a \in Adjustments |-> -3]
=============================================================================
