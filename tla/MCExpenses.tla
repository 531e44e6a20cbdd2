----------------------------- MODULE MCExpenses -----------------------------
(***************************************************************************)
(* Instances of Expenses: four requests, one vendor and two years; the     *)
(* reviews decide on the expense of the first or the second request.       *)
(***************************************************************************)
EXTENDS Expenses

CONSTANTS r1, r2, r3, r4, v1

MCCreateDto == {[kind |-> "create", vendor |-> v1]}
Review(p, decision) == [kind |-> "review", target |-> p, decision |-> decision]
MCReviewDto ==
    {Review(r1, "APPROVED"), Review(r1, "REJECTED"), Review(r2, "REJECTED"), Review(r1, "DRAFT")}
=============================================================================
