------------------------------- MODULE Billing ------------------------------
(***************************************************************************)
(* The payments and the fees handlers on one database.  A capture decides  *)
(* on the invoices of its snapshot; a fees request on the invoice and the  *)
(* payments it read before its transaction.  The database serialises the   *)
(* payments among themselves, but nothing orders them with fees requests:  *)
(* READ COMMITTED transactions take no part in its conflict detection.     *)
(***************************************************************************)
EXTENDS Payments, Invoices

(* Invoices are generated without entries, and each entry is checked: the  *)
(* tables to start from are credited within their charge, and none that is *)
(* voided bears a note.                                                    *)
ASSUME SoundInvoicesAssumption ==
    \A inv \in InitialInvoices : \A i \in Invoice :
        Charge(inv, i) >= 0 /\ (inv[i].status = "VOIDED" => inv[i].notes = 0)

VARIABLE
    crossed         \* a capture and a fees request have been under way at once

billingVars == <<vars, feesVars, crossed>>

BillingInit == Init /\ FeesInit /\ crossed = FALSE

Crossing ==
    /\ \E r \in Request : pc[r] = "open" /\ IsCapture(r)
    /\ \E f \in FeesRequest : fpc[f] = "checked"

PaymentsStep ==
    \E r \in Request :
        \/ \E dto \in CaptureDto \cup ReverseDto : Arrive(r, dto)
        \/ Step(r)
        \/ Fail(r)

(* Every request of the instance has been answered.                        *)
BillingQuiescent ==
    /\ \A r \in Request : pc[r] = "done"
    /\ \A f \in FeesRequest : fpc[f] \notin {"new", "checked"}
    /\ UNCHANGED billingVars

BillingStep ==
    \/ PaymentsStep /\ UNCHANGED feesVars
    \/ FeesStep /\ UNCHANGED payVars

BillingNext ==
    \/ BillingStep /\ crossed' = (crossed \/ Crossing')
    \/ BillingQuiescent

BillingSpec == BillingInit /\ [][BillingNext]_billingVars

-----------------------------------------------------------------------------
(*                              Properties                                 *)

(* However captures, reversals, notes and adjustments interleave, the      *)
(* completed payments of an invoice stay within its items and debits: a    *)
(* credit may make it overpaid, a capture never does.                      *)
PaidWithinGross ==
    \A i \in Invoice : Paid(payment, i) <= invoice[i].items + invoice[i].debits

(* "Archived and voided invoices are terminal."                            *)
(* docs/fees-and-invoices.md:32, until two fees requests overlap.          *)
TerminalStates ==
    [][\A i \in Invoice : ~overlap /\ invoice[i].status \in {"ARCHIVED", "VOIDED"} =>
          invoice'[i].status = invoice[i].status]_billingVars

(* "Credit amounts cannot exceed the remaining adjusted invoice value."    *)
(* docs/fees-and-invoices.md:39                                            *)
CreditsWithinCharge == \A i \in Invoice : Charge(invoice, i) >= 0

(* The same, until two fees requests overlap.                              *)
SerialCreditsWithinCharge == ~overlap => CreditsWithinCharge

(* "An invoice with a completed payment or active credit note cannot be    *)
(* voided", docs/fees-and-invoices.md:32, unless a capture or another fees *)
(* request was under way between the look at the invoice and the write.    *)
VoidedClear ==
    ~overlap /\ ~crossed =>
        \A i \in Invoice : invoice[i].status = "VOIDED" =>
            invoice[i].notes = 0 /\ ~HasCompletedPayment(i)
=============================================================================
