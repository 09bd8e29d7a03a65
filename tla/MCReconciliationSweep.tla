----------------------- MODULE MCReconciliationSweep -----------------------
(***************************************************************************)
(* One sweep that takes one payment at a time from the head of the work    *)
(* list, in three scenarios, explored one by one:                          *)
(*   "rivals"  one payment, and another operator that sweeps the same list,*)
(*             reconciles it by hand, cancels and revokes;                 *)
(*   "crowd"   two buyers with a mandate, a quote and a payment each;      *)
(*   "jam"     two payments for one quote: an abandonment between the      *)
(*             reading of its hold and the admission leaves a payment that *)
(*             cannot be recorded, and ends every sweep it is in.          *)
(***************************************************************************)
EXTENDS ReconciliationSweep, TLC

CONSTANTS m1, m2, c1, c2, a1, a2, a3, v1

VARIABLE scenario

MandatesFor == c1 :> m1 @@ c2 :> m2
CheckoutsFor == a1 :> c1 @@ a2 :> c1 @@ a3 :> c2
OneEach == c1 :> (v1 :> 1) @@ c2 :> (v1 :> 1)
TwoUnits == v1 :> 2
FromStart == [m \in Mandates |-> 0]
ForLong == [m \in Mandates |-> MaxNow + 1]
ForLongQuotes == [c \in Checkouts |-> MaxNow + 1]

Playing == [rivals |-> {a1}, crowd |-> {a1, a3}, jam |-> {a1, a2}]

\* Who takes part: only in "rivals" does anybody but the sweep reconcile, cancel or revoke.
Within ==
    /\ \A w \in Workers : /\ session'[w].attempt \in Playing[scenario] \cup {None}
                          /\ session'[w].checkout \in {CheckoutFor[a] : a \in Playing[scenario]} \cup {None}
    /\ scenario # "rivals" =>
         /\ \A w \in Others : session'[w].pc # "asking" /\ sweep'[w] = NoSweep
         /\ mandate' = mandate
         /\ \A c \in Checkouts : checkout'[c] # "CANCELLED"

MCInit == SweepInit /\ scenario \in DOMAIN Playing
MCNext == SweepNext /\ Within /\ UNCHANGED scenario
MCSpec == MCInit /\ [][MCNext]_<<sweepVars, scenario>> /\ SweepFairness
=============================================================================
