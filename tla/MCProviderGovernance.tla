------------------------- MODULE MCProviderGovernance -------------------------
(***************************************************************************)
(* Two launches and an operator's run at one provider.                     *)
(***************************************************************************)
EXTENDS ProviderGovernance, TLC

Symmetry == Permutations(Runs)

\* One launch at a time, a window that takes two small grants, and a pause.
SmallPolicies ==
    {[enabled |-> TRUE, cap |-> 3, concurrent |-> 1],
     [enabled |-> FALSE, cap |-> 3, concurrent |-> 1]}
=============================================================================
