------------------------- MODULE MCEvaluationLaunches -------------------------
(***************************************************************************)
(* Two evaluations, two dispatchers, one ordinary caller.                  *)
(***************************************************************************)
EXTENDS EvaluationLaunches
=============================================================================
