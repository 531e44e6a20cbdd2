----------------------------- MODULE BillingInv -----------------------------
(***************************************************************************)
(* The inductive invariant of Billing: what keeps payments and fees        *)
(* requests from spoiling each other's work, and up to when.  It is proved *)
(* in LedgerProofs, with what it implies for payments and invoices.         *)
(***************************************************************************)
EXTENDS Accounts, PaymentsInv

Gross(i) == invoice[i].items + invoice[i].debits

OpenCapture(r) == pc[r] = "open" /\ IsCapture(r)

(* A capture that is not stale would stay within the gross: credits lower  *)
(* the balance it was accepted on, but nothing lowers the gross.           *)
PlanWithin ==
    \A r \in Request : OpenCapture(r) /\ ~Stale(r) =>
        \A i \in Invoice : Paid(payment, i) + plan[r].alloc[i] <= Gross(i)

(* Until it crosses a fees request, a capture pays into active invoices.   *)
PlanActive ==
    ~crossed => \A r \in Request : OpenCapture(r) /\ ~Stale(r) =>
        \A i \in Invoice : plan[r].alloc[i] > 0 => invoice[i].status = "ACTIVE"

NotCrossing == ~crossed => ~Crossing

CheckedKnown == \A f \in FeesRequest : fpc[f] = "checked" => freq[f] \in FeesDto

(* Until two fees requests overlap, what the one under way has checked of  *)
(* the invoice is so still,                                                *)
StillPermitted(dto) ==
    IF dto.kind = "state"
    THEN /\ dto.status \in AllowedNext(invoice[dto.target].status)
         /\ dto.status = "VOIDED" => invoice[dto.target].notes = 0
    ELSE MayEnter(dto)

CheckedCurrent ==
    ~overlap => \A f \in FeesRequest : fpc[f] = "checked" =>
        /\ \A g \in FeesRequest : fpc[g] = "checked" => g = f
        /\ StillPermitted(freq[f])

(* and until it crosses a capture, what it checked of the payments.        *)
VoidCurrent ==
    ~overlap /\ ~crossed => \A f \in FeesRequest :
        fpc[f] = "checked" /\ freq[f].kind = "state" /\ freq[f].status = "VOIDED" =>
            ~HasCompletedPayment(freq[f].target)

(* A capture is accepted in full, on invoices of its student,              *)
PlanFull ==
    \A r \in Request : OpenCapture(r) /\ ~Stale(r) =>
        /\ SumFunction(plan[r].alloc) = req[r].amount
        /\ \A i \in Invoice : plan[r].alloc[i] > 0 => Owner[i] = req[r].student

(* and the notes that name a student are those on the student's invoices.  *)
NotesOwned ==
    \A s \in Student : noted[s] = SumFunction([i \in OfStudent(s) |-> invoice[i].notes])

AccountsInv == PlanFull /\ FullyAllocated /\ NotesOwned

(* Whatever overlaps.                                                      *)
GrossInv == LedgerInv /\ FeesTypeOK /\ CheckedKnown /\ PaidWithinGross /\ PlanWithin

(* Until requests overlap.                                                 *)
SerialInv ==
    /\ CheckedCurrent
    /\ SerialCreditsWithinCharge
    /\ NotCrossing
    /\ PlanActive
    /\ VoidCurrent
    /\ VoidedClear
=============================================================================
