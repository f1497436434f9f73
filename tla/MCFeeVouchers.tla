--------------------------- MODULE MCFeeVouchers ---------------------------
(* FeeVouchers with small values, for TLC. *)
EXTENDS FeeVouchers, FeeBookRefinement, TLC

\* One fee; two fees, of which the concession covers the second whole.
OneFee == {[gross |-> 2, concession |-> 0]}
TwoFees == {[gross |-> 4, concession |-> 2], [gross |-> 1, concession |-> 2]}

NoDates == {NoDueDate}
FirstDay == {0}

Symmetry == Permutations(Students) \cup Permutations(Clerks) \cup Permutations(Payments)
=============================================================================
