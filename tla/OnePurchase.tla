----------------------------- MODULE OnePurchase -----------------------------
(***************************************************************************)
(* What the payment kernel promises a buyer and a merchant, with no locks, *)
(* no provider and no clock: a mandate is claimed by one payment at a time *)
(* and buys one checkout, and a purchase takes its units off the shelf in  *)
(* the same step.                                                          *)
(***************************************************************************)
EXTENDS Naturals

CONSTANTS Mandates, Checkouts, Variants, Attempts,
          MandateFor, CheckoutFor, Quantity, InitialStock

VARIABLES claims,   \* the unresolved payments of each mandate
          ended,    \* the payments that are over
          paid,     \* the checkouts that were bought
          stock     \* units on the shelf

vars == <<claims, ended, paid, stock>>

Init == /\ claims = [m \in Mandates |-> {}]
        /\ ended = {}
        /\ paid = {}
        /\ stock = InitialStock

\* A mandate that has bought nothing, and is buying nothing, starts to buy.
Claim(a) ==
    LET m == MandateFor[CheckoutFor[a]] IN
    /\ a \notin ended
    /\ claims[m] = {}
    /\ \A c \in paid : MandateFor[c] # m
    /\ claims' = [claims EXCEPT ![m] = {a}]
    /\ UNCHANGED <<ended, paid, stock>>

End(a) ==
    LET m == MandateFor[CheckoutFor[a]] IN
    /\ a \in claims[m]
    /\ claims' = [claims EXCEPT ![m] = @ \ {a}]
    /\ ended' = ended \cup {a}

\* The purchase does not happen; the shelf is as it was.
Drop(a) == End(a) /\ UNCHANGED <<paid, stock>>

\* The purchase happens, with every unit of it.
Buy(a) ==
    LET c == CheckoutFor[a] IN
    /\ End(a)
    /\ paid' = paid \cup {c}
    /\ \A v \in Variants : Quantity[c][v] <= stock[v]
    /\ stock' = [v \in Variants |-> stock[v] - Quantity[c][v]]

Next == \E a \in Attempts : Claim(a) \/ Drop(a) \/ Buy(a)

Spec == Init /\ [][Next]_vars
=============================================================================
