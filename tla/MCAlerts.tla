------------------------------ MODULE MCAlerts ------------------------------
(* Instances of Alerts.  Counting: two endpoints, two codes, a rule on one     *)
(* endpoint and a catchall.  Throttle: one endpoint and one code, more time,   *)
(* more crashes, and the same rule edited (another channel, a longer period).  *)
(* Both have a quiet period below the minimum and an input validate() refuses. *)
EXTENDS Alerts

CONSTANTS e1, e2, any

Refused == [key |-> e1, when |-> "code", code |-> 999, channel |-> "alerts", cooldown |-> 2]
OnE1    == [key |-> e1, when |-> "5xx", code |-> 0, channel |-> "alerts", cooldown |-> 0]
OnAny   == [key |-> any, when |-> "error", code |-> 7, channel |-> "alerts", cooldown |-> 1]

CountingInputs == {Refused, OnE1, OnAny}
ThrottleInputs == {Refused, OnE1, [OnE1 EXCEPT !.channel = "oncall", !.cooldown = 2], OnAny}
=============================================================================
