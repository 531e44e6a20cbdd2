----------------------------- MODULE MCPayments -----------------------------
(***************************************************************************)
(* Instances of Payments: one student with two invoices, 2 + 1 and 2       *)
(* cents due, and requests whose bodies compete for keys, references,      *)
(* balances and reversals.                                                 *)
(***************************************************************************)
EXTENDS PaymentsInv

CONSTANTS s1, i1, i2, r1, r2, r3, k1, k2, k3, f1, f2

MCOwner == [i \in {i1, i2} |-> s1]
MCIssueOrder == <<i1, i2>>

Due(items, debits, credits, notes) ==
    [status |-> "ACTIVE", items |-> items, debits |-> debits,
     credits |-> credits, notes |-> notes]

(* i1 was debited 1 and credited 1, i2 got a note; in the second table the *)
(* older invoice was archived.                                             *)
BothActive == (i1 :> Due(3, 1, 1, 0)) @@ (i2 :> Due(3, 0, 0, 1))
OldArchived == [BothActive EXCEPT ![i1].status = "ARCHIVED"]
MCInitialInvoices == {BothActive, OldArchived}

Auto(k, amount, ref) ==
    [kind |-> "capture", key |-> k, student |-> s1, amount |-> amount,
     reference |-> ref, lines |-> <<>>]
Explicit(k, ref, lines) ==
    [Auto(k, SumFunction([n \in DOMAIN lines |-> lines[n].amount]), ref) EXCEPT !.lines = lines]
Undo(k, p) == [kind |-> "reverse", key |-> k, target |-> p]

MCCaptureDto ==
    {Auto(k1, 4, f1), Auto(k2, 2, f1), Auto(k2, 2, f2),
     Explicit(k3, f2, <<[invoice |-> i2, amount |-> 2]>>),
     [Auto(k3, 1, f2) EXCEPT !.student = None]}
MCReverseDto == {Undo(k2, r1), Undo(k3, r1), Undo(k1, r2)}
=============================================================================
