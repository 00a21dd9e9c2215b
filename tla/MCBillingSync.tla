------------------------------ MODULE MCBillingSync ------------------------------
(* Two webhook requests at once, and members that come and go around the checkout.  *)
EXTENDS BillingSync, TLC

CONSTANTS h1, h2
Symmetry == Permutations(Handlers)
==================================================================================
