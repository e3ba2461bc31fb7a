----------------------------- MODULE MCBilling -----------------------------
(* Instances of Billing for TLC: monthly and yearly plans of 1 and 2 ticks. *)
EXTENDS BillingInvariant, TLC

MonthAndYear == {1, 2}
OneTick      == {1}
HandlerSymmetry == Permutations(Handlers)
=============================================================================
