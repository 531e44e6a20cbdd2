----------------------------- MODULE MCBudgets ------------------------------
(***************************************************************************)
(* Instances of Budgets: three ids, of which two are pending budgets of    *)
(* one term, or one of them is its approved budget already.                *)
(***************************************************************************)
EXTENDS Budgets, TLC

CONSTANTS r1, r2, r3, b1, b2, b3, n1, n2, n3, c1, c2, t1, t2

Row(name, status) ==
    [name |-> name, term |-> t1, status |-> status,
     items |-> {[category |-> c1, by |-> None]}]
MCInitialBudgets ==
    {(b1 :> Row(n1, "PENDING")) @@ (b2 :> Row(n2, status)) @@ (b3 :> None) :
        status \in {"PENDING", "APPROVED"}}

SaveBody(b, name, term, status, categories) ==
    [kind |-> "save", target |-> b, name |-> name, term |-> term, status |-> status,
     categories |-> categories]
MCSaveDto ==
    {SaveBody(None, n3, t2, "PENDING", <<c1>>), SaveBody(None, n1, t1, "PENDING", <<c1>>),
     SaveBody(b1, n1, t1, "PENDING", <<c1, c2>>), SaveBody(b1, n1, t1, "DRAFT", <<c2>>),
     SaveBody(b1, n3, t1, "DRAFT", <<c1, c1>>), SaveBody(b1, n3, None, "DRAFT", <<c1>>),
     SaveBody(b2, n2, t2, "PENDING", <<c2>>), SaveBody(b1, n1, t1, "APPROVED", <<c1>>)}

ReviewBody(b, decision) == [kind |-> "review", target |-> b, decision |-> decision]
MCReviewDto ==
    {ReviewBody(b, "APPROVED") : b \in Budget} \cup
        {ReviewBody(b1, "REJECTED"), ReviewBody(b1, "DRAFT")}
=============================================================================
