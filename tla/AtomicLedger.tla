---------------------------- MODULE AtomicLedger ----------------------------
(***************************************************************************)
(* What the payments service promises, with no transactions and no stages: *)
(* a request changes the ledger at most once, in one step that is right    *)
(* for the ledger as it is at that step, and what its client is told       *)
(* agrees with whether it did.  Which allocations a capture may have is a  *)
(* parameter.  Payments implements this module.                            *)
(***************************************************************************)
EXTENDS Integers

CONSTANTS
    Request, Student, CaptureDto, ReverseDto, InitialInvoices, None,
    NoAllocation,           \* the allocation of a reversal
    ReversalReference(_),   \* the reference of the reversal of a payment
    Accepted(_, _, _)       \* invoices, payments, body -> allowed allocations

VARIABLES invoice, payment, lastNumber, answer

vars == <<invoice, payment, lastNumber, answer>>

Says(outcome, p) == [outcome |-> outcome, payment |-> p]

Silent == Says("pending", None)

Init ==
    /\ invoice \in InitialInvoices
    /\ payment = [p \in Request |-> None]
    /\ lastNumber = 0
    /\ answer = [r \in Request |-> Silent]

Present == {p \in Request : payment[p] # None}

Unused(field, value) == \A p \in Present : payment[p][field] # value

MayAct(r, dto) ==
    payment[r] = None /\ answer[r] = Silent /\ Unused("key", dto.key)

(* The next receipt number goes to the row r inserts.                      *)
Insert(table, r, row) ==
    /\ payment' = [table EXCEPT ![r] = row]
    /\ lastNumber' = lastNumber + 1
    /\ UNCHANGED <<invoice, answer>>

CapturePayment(r, dto) ==
    /\ MayAct(r, dto)
    /\ dto.student \in Student
    /\ Unused("reference", dto.reference)
    /\ \E alloc \in Accepted(invoice, payment, dto) :
          Insert(payment, r,
                 [key |-> dto.key, reference |-> dto.reference, amount |-> dto.amount,
                  alloc |-> alloc, student |-> dto.student, status |-> "COMPLETED",
                  receipt |-> lastNumber + 1, reverses |-> None])

ReversePayment(r, dto) ==
    /\ MayAct(r, dto)
    /\ dto.target \in Present
    /\ payment[dto.target].status = "COMPLETED"
    /\ payment[dto.target].reverses = None
    /\ Insert([payment EXCEPT ![dto.target].status = "VOIDED"], r,
              [key |-> dto.key, reference |-> ReversalReference(dto.target),
               amount |-> payment[dto.target].amount, alloc |-> NoAllocation, student |-> None,
               status |-> "COMPLETED", receipt |-> lastNumber + 1, reverses |-> dto.target])

(* A request that inserted a row is told of it, or of nothing: it is never *)
(* told that it was refused.  One that did not is shown an earlier row, or *)
(* is refused, or fails.                                                   *)
Told(r) ==
    IF r \in Present
    THEN {Says("error", None),
          Says("created", IF payment[r].reverses = None THEN r ELSE payment[r].reverses)}
    ELSE {Says("error", None), Says("rejected", None)}
            \cup {Says("replay", p) : p \in Present}

Tell(r) ==
    /\ answer[r] = Silent
    /\ \E a \in Told(r) : answer' = [answer EXCEPT ![r] = a]
    /\ UNCHANGED <<invoice, payment, lastNumber>>

Next ==
    \E r \in Request :
        \/ \E dto \in CaptureDto : CapturePayment(r, dto)
        \/ \E dto \in ReverseDto : ReversePayment(r, dto)
        \/ Tell(r)

Spec == Init /\ [][Next]_vars
=============================================================================
