----------------------------- MODULE MCBilling ------------------------------
(***************************************************************************)
(* Instances of Billing: a student with two invoices and one with a third, *)
(* two payments requests, of which one may name invoices of both, and two  *)
(* fees requests on the older invoice or a note on the third.              *)
(***************************************************************************)
EXTENDS BillingInv

CONSTANTS s1, s2, i1, i2, i3, r1, r2, g1, g2, k1, k2, t1, t2

MCOwner == (i1 :> s1) @@ (i2 :> s1) @@ (i3 :> s2)
MCIssueOrder == <<i1, i2, i3>>

Generated(amount) ==
    [status |-> "ACTIVE", items |-> amount, debits |-> 0, credits |-> 0, notes |-> 0]
MCInitialInvoices == {(i1 :> Generated(3)) @@ (i2 :> Generated(2)) @@ (i3 :> Generated(2))}

Auto(k, amount, ref) ==
    [kind |-> "capture", key |-> k, student |-> s1, amount |-> amount,
     reference |-> ref, lines |-> <<>>]
Line1(i) == [invoice |-> i, amount |-> 1]
MCCaptureDto ==
    {Auto(k1, 3, t1), Auto(k2, 2, t2),
     [Auto(k2, 2, t2) EXCEPT !.lines = <<Line1(i2), Line1(i3)>>]}
MCReverseDto == {[kind |-> "reverse", key |-> k2, target |-> r1]}

SetState(i, status) == [kind |-> "state", target |-> i, status |-> status]
Enter(i, kind, amount) == [kind |-> kind, target |-> i, amount |-> amount]
MCFeesDto ==
    {SetState(i1, "VOIDED"), SetState(i1, "ARCHIVED"), SetState(i1, "ACTIVE"),
     Enter(i1, "note", 2), Enter(i3, "note", 1), Enter(i1, "CREDIT", 2), Enter(i1, "DEBIT", 1)}
=============================================================================
