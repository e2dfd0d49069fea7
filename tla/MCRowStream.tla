---------------------------- MODULE MCRowStream ----------------------------
EXTENDS RowStream
(* One failed exchange that takes the whole of the budget, one that takes half *)
(* of it, and room for one row or for all of them.                             *)
MCExchanges == {[failed |-> TRUE, cost |-> 2], [failed |-> FALSE, cost |-> 1]}
MCRooms == {0, 2}
=============================================================================
