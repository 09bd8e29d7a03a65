------------------------------ MODULE MCRazorpay ------------------------------
(***************************************************************************)
(* The bridge over the smallest shops: one quote and one unit.             *)
(***************************************************************************)
EXTENDS RazorpayCheckout, MCPaymentKernel

\* One identity.
SoleCheckoutFor == a1 :> c1
=============================================================================
