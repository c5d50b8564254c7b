--------------------------- MODULE MCTicketOrders ---------------------------
(* One order on each rail, named for it. *)
EXTENDS TicketOrders

CONSTANTS online, transfer, cash, gift

MCRail == [o \in Orders |-> CASE o \in {online, gift} -> "gateway"
                              [] o = transfer                 -> "manual"
                              [] o = cash                     -> "onsite"]
OneSeat == [o \in Orders |-> 1]
MCSeats == [o \in Orders |-> IF o = cash THEN 2 ELSE 1]
NoneToPick == [o \in Orders |-> {}]
MCPicked == [o \in Orders |-> IF o = transfer THEN {1, 2} ELSE {2}]
=============================================================================
