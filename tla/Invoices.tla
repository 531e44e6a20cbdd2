------------------------------ MODULE Invoices ------------------------------
(***************************************************************************)
(* FeesService.changeInvoiceState, createCreditNote and createAdjustment,  *)
(* one process per HTTP request.  Each reads the invoice with findInvoice, *)
(* checks what it read, and only then opens a READ COMMITTED transaction   *)
(* that writes by invoice id without looking again.  The two steps are     *)
(* apart, so whatever the checks established may be gone at the commit:    *)
(* overlap tells whether it was possible so far.                           *)
(***************************************************************************)
EXTENDS Ledger

CONSTANTS
    FeesRequest,    \* HTTP requests to the fees controller
    FeesDto         \* ids and bodies they may carry

StateChange == [kind : {"state"}, target : Invoice, status : RecordStatus]
Entry == [kind : {"note", "CREDIT", "DEBIT"}, target : Invoice, amount : Nat \ {0}]

ASSUME FeesDtoAssumption == FeesDto \subseteq StateChange \cup Entry

VARIABLES
    freq,           \* what fees request f asks for
    fpc,            \* new -> checked -> applied, or refused, or failed
    noted,          \* Student -> items of the credit notes that name the student
    overlap         \* two requests have been between read and commit at once

feesVars == <<freq, fpc, noted, overlap>>

FeesTypeOK ==
    /\ freq \in [FeesRequest -> FeesDto \cup {None}]
    /\ fpc \in [FeesRequest -> {"new", "checked", "applied", "refused", "failed"}]
    /\ noted \in [Student -> Nat]
    /\ overlap \in BOOLEAN

OfStudent(s) == {i \in Invoice : Owner[i] = s}

FeesInit ==
    /\ freq = [f \in FeesRequest |-> None]
    /\ fpc = [f \in FeesRequest |-> "new"]
    /\ noted = [s \in Student |-> SumFunction([i \in OfStudent(s) |-> invoice[i].notes])]
    /\ overlap = FALSE

-----------------------------------------------------------------------------

(* FAULT: an archived invoice may be voided.                               *)
AllowedFromArchived(status) ==
    CASE status = "DRAFT" -> {"ACTIVE", "VOIDED"}
      [] status = "ACTIVE" -> {"ARCHIVED", "VOIDED"}
      [] status = "ARCHIVED" -> {"VOIDED"}
      [] OTHER -> {}

AllowedNext(status) ==
    CASE status = "DRAFT" -> {"ACTIVE", "VOIDED"}
      [] status = "ACTIVE" -> {"ARCHIVED", "VOIDED"}
      [] OTHER -> {}

(* invoiceGross: payments do not count.                                    *)
InvoiceGross(i) == AtLeastZero(Charge(invoice, i))

HasCompletedPayment(i) ==
    \E p \in Recorded : payment[p].status = "COMPLETED" /\ payment[p].alloc[i] > 0

(* FAULT: credit notes do not keep an invoice from being voided.           *)
MayChangeUnpaid(dto) ==
    /\ dto.status \in AllowedNext(invoice[dto.target].status)
    /\ dto.status = "VOIDED" => ~HasCompletedPayment(dto.target)

MayChangeState(dto) ==
    /\ dto.status \in AllowedNext(invoice[dto.target].status)
    /\ dto.status = "VOIDED" =>
          ~HasCompletedPayment(dto.target) /\ invoice[dto.target].notes = 0

(* FAULT: the limit is the original charge, not the adjusted one.          *)
MayEnterUpToItems(dto) ==
    /\ invoice[dto.target].status = "ACTIVE"
    /\ dto.kind # "DEBIT" => dto.amount <= invoice[dto.target].items

MayEnter(dto) ==
    /\ invoice[dto.target].status = "ACTIVE"
    /\ dto.kind # "DEBIT" => dto.amount <= InvoiceGross(dto.target)

Permitted(dto) == IF dto.kind = "state" THEN MayChangeState(dto) ELSE MayEnter(dto)

(* The handler reads the invoice, and refuses on what it read or goes on.  *)
ReadInvoice(f, dto) ==
    /\ fpc[f] = "new"
    /\ freq' = [freq EXCEPT ![f] = dto]
    /\ fpc' = [fpc EXCEPT ![f] = IF Permitted(dto) THEN "checked" ELSE "refused"]
    /\ overlap' = (overlap \/ (Permitted(dto) /\ \E g \in FeesRequest : fpc[g] = "checked"))
    /\ UNCHANGED <<ledgerVars, noted>>

(* The row after the transaction: a status overwritten, or one entry more. *)
Written(row, dto) ==
    CASE dto.kind = "state" -> [row EXCEPT !.status = dto.status]
      [] dto.kind = "note" -> [row EXCEPT !.notes = @ + dto.amount]
      [] dto.kind = "CREDIT" -> [row EXCEPT !.credits = @ + dto.amount]
      [] dto.kind = "DEBIT" -> [row EXCEPT !.debits = @ + dto.amount]

(* A credit note names the invoice and the student it bills.               *)
Noted(dto) ==
    IF dto.kind = "note" THEN [noted EXCEPT ![Owner[dto.target]] = @ + dto.amount] ELSE noted

CommitInvoice(f) ==
    /\ fpc[f] = "checked"
    /\ noted' = Noted(freq[f])
    /\ invoice' = [invoice EXCEPT ![freq[f].target] = Written(@, freq[f])]
    /\ fpc' = [fpc EXCEPT ![f] = "applied"]
    /\ UNCHANGED <<payment, lastNumber, freq, overlap>>

(* The handler dies before its transaction commits.                        *)
FeesFail(f) ==
    /\ fpc[f] = "checked"
    /\ fpc' = [fpc EXCEPT ![f] = "failed"]
    /\ UNCHANGED <<ledgerVars, freq, noted, overlap>>

FeesStep ==
    \E f \in FeesRequest :
        \/ \E dto \in FeesDto : ReadInvoice(f, dto)
        \/ CommitInvoice(f)
        \/ FeesFail(f)
=============================================================================
