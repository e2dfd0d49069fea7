--------------------------- MODULE MCBodyTransport ---------------------------
(* An instance of BodyTransport: three exchanges a run.  One kind has a body of  *)
(* two pieces; one has a request besides, whose capture was cut, and is larger    *)
(* than the store; one has an empty body, so that three of it exceed the number   *)
(* of exchanges and not the size; one was left out by the budget.                 *)
EXTENDS BodyTransport

Whole == [pieces |-> 2, clen |-> 2, more |-> FALSE]
Cut   == [pieces |-> 1, clen |-> Nothing, more |-> TRUE]
Empty == [pieces |-> 0, clen |-> Nothing, more |-> FALSE]
Small == {[req |-> Nothing, res |-> Whole, nopv |-> FALSE],
          [req |-> Cut, res |-> Whole, nopv |-> FALSE],
          [req |-> Nothing, res |-> Empty, nopv |-> FALSE],
          [req |-> Cut, res |-> Nothing, nopv |-> TRUE]}
=============================================================================
