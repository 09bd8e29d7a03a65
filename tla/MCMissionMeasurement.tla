------------------------ MODULE MCMissionMeasurement ------------------------
(* MissionMeasurement for TLC: one variant that qualifies, one with a gap  *)
(* in its data, one that is over the budget and not allowed.               *)
EXTENDS MissionMeasurement, TLC

CONSTANTS good, vague, wrong

Plain == [price |-> 1, currency |-> TRUE, category |-> "met", attribute |-> "met",
          active |-> TRUE, stock |-> 2]
MCEntry == good :> Plain
        @@ vague :> [Plain EXCEPT !.attribute = "missing"]
        @@ wrong :> [Plain EXCEPT !.price = 3, !.category = "unmet"]
MCPriors == {<<[expected |-> "PURCHASE", status |-> "ERRORED", bought |-> FALSE]>>}
One(v) == [variant |-> v, quantity |-> 1]
MCLines == {<<One(good)>>, <<One(vague)>>, <<[variant |-> good, quantity |-> 2]>>,
            <<One(good), One(wrong)>>}
MCNoSelection == [variant |-> Ghost, quantity |-> 0]
MCSelections == {MCNoSelection, One(Ghost), One(good), One(wrong)}
\* No call is lost and none is refused for the buyer's own doing.
EveryCallAnswered == fault = "none"
=============================================================================
