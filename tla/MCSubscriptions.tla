--------------------------- MODULE MCSubscriptions ---------------------------
(* Instances of Subscriptions for TLC. *)
EXTENDS Subscriptions, TLC

CONSTANTS free, pro, business, sub1, sub2, hook1, hook2

AllPlans == {free, pro, business}
TwoRefs == {sub1, sub2}
TwoHooks == {hook1, hook2}
SomeCharges == {"active", "past_due", "unpaid"}

Symmetry == Permutations(TwoRefs) \union Permutations(TwoHooks) \union Permutations({pro, business})
=============================================================================
