------------------------------- MODULE Ledger -------------------------------
(***************************************************************************)
(* The rows of the school database that payments and fees share: invoices  *)
(* with their charges and credits, payments with their allocations, and    *)
(* the receipt sequence.  The module holds the tables and the pure sums    *)
(* the services compute over them; Payments and Invoices add the handlers  *)
(* that read and write them.                                               *)
(*                                                                         *)
(* Money is counted in cents, so the code's 0.001 shilling tolerance is    *)
(* equality.  A payment row is named by the request that inserted it: a    *)
(* request inserts at most one.  A UUID, a receipt prefix, the receiving   *)
(* time and the payment method are left out.                               *)
(***************************************************************************)
EXTENDS Integers, FiniteSets, Sequences, FiniteSetsExt, Functions, SequencesExt

CONSTANTS
    Student,        \* students of the school
    Invoice,        \* invoice ids
    Owner,          \* the student an invoice bills
    IssueOrder,     \* the invoices, oldest issuedAt first
    Request,        \* HTTP requests to the payments controller
    Key,            \* idempotency keys
    Reference,      \* payment references, trimmed and upper-cased
    None            \* SQL null

ASSUME StudentAssumption == None \notin Student /\ Owner \in [Invoice -> Student]
ASSUME IssueOrderAssumption ==
    /\ IssueOrder \in Seq(Invoice) /\ IsInjective(IssueOrder)
    /\ \A i \in Invoice : \E n \in DOMAIN IssueOrder : IssueOrder[n] = i
ASSUME NoneAssumption == None \notin Request

VARIABLES
    invoice,        \* Invoice -> InvoiceRow
    payment,        \* Request -> PaymentRow, or None while not inserted
    lastNumber      \* receipt_sequences.last_number, 0 while there is no row

ledgerVars == <<invoice, payment, lastNumber>>

RecordStatus == {"DRAFT", "ACTIVE", "ARCHIVED", "VOIDED"}

(* Items, adjustments and credit note items only ever enter as sums.  No   *)
(* operation changes the status of a credit note: notes are ACTIVE ones.   *)
InvoiceRow == [status : RecordStatus, items : Nat, debits : Nat, credits : Nat, notes : Nat]

Allocation == [Invoice -> Nat]

NoAllocation == [i \in Invoice |-> 0]

(* The reference of a reversal is built from the reversed payment's id.    *)
ReversalReference(p) == <<"REV", p>>

(* A payment with its allocations, each of which names an invoice and, in  *)
(* a column of its own, a student: that of the capture.                    *)
PaymentRow ==
    [key : Key,
     reference : Reference \cup {ReversalReference(p) : p \in Request},
     amount : Nat,
     alloc : Allocation,
     student : Student \cup {None},
     status : {"COMPLETED", "VOIDED"},
     receipt : Nat,
     reverses : Request \cup {None}]

ASSUME NoRowAssumption == None \notin PaymentRow

(* What a client is told.  rejected: 400, 404 or 409; error: 500 or      *)
(* no answer at all.                                                       *)
Response ==
    [outcome : {"pending", "created", "replay", "rejected", "error"},
     payment : Request \cup {None}]

Answer(outcome, p) == [outcome |-> outcome, payment |-> p]

Pending == Answer("pending", None)

LedgerTypeOK ==
    /\ invoice \in [Invoice -> InvoiceRow]
    /\ payment \in [Request -> PaymentRow \cup {None}]
    /\ lastNumber \in Nat

-----------------------------------------------------------------------------

Recorded == {p \in Request : payment[p] # None}

WithKey(k) == {p \in Recorded : payment[p].key = k}

WithReference(ref) == {p \in Recorded : payment[p].reference = ref}

Reversible(p) ==
    /\ p \in Recorded
    /\ payment[p].status = "COMPLETED"
    /\ payment[p].reverses = None

ReversalsOf(p) == {q \in Recorded : payment[q].reverses = p}

AtLeastZero(n) == IF n < 0 THEN 0 ELSE n

(* The sums below are of the tables they are given, so that a handler may  *)
(* apply them to what it has read.                                         *)

(* What the invoice charges once its adjustments and notes are counted.    *)
Charge(inv, i) == inv[i].items + inv[i].debits - inv[i].credits - inv[i].notes

Completed(pay) == {p \in Request : pay[p] # None /\ pay[p].status = "COMPLETED"}

Paid(pay, i) == SumFunction([p \in Completed(pay) |-> pay[p].alloc[i]])

InvoiceBalance(inv, pay, i) == AtLeastZero(Charge(inv, i) - Paid(pay, i))

Payable(inv, s) == {i \in Invoice : Owner[i] = s /\ inv[i].status = "ACTIVE"}

-----------------------------------------------------------------------------

(* The order in which a capture's query lists invoices: oldest first.      *)
(* FAULT: newest first.                                                    *)
NewestListed == Reverse(IssueOrder)

Listed == IssueOrder

(* autoAllocations pours the amount into the payable invoices, in the      *)
(* order listed, until nothing remains: what an invoice takes of what is   *)
(* left, what is left after the first n, and what each took.               *)
Share(inv, pay, dto, i, left) ==
    IF i \in Payable(inv, dto.student) THEN Min({InvoiceBalance(inv, pay, i), left}) ELSE 0

Remaining(inv, pay, dto) ==
    LET left[n \in 0 .. Len(Listed)] ==
          IF n = 0 THEN dto.amount
          ELSE left[n - 1] - Share(inv, pay, dto, Listed[n], left[n - 1])
    IN  left

AutoAllocation(inv, pay, dto) ==
    [i \in Invoice |->
        LET place == CHOOSE n \in DOMAIN Listed : Listed[n] = i
        IN  Share(inv, pay, dto, i, Remaining(inv, pay, dto)[place - 1])]

(* FAULT: any invoice that is active may be named.                         *)
LinesOfAnyStudent(inv, pay, dto) ==
    LET lines == dto.lines
    IN  /\ IsInjective([n \in DOMAIN lines |-> lines[n].invoice])
        /\ \A n \in DOMAIN lines :
              /\ inv[lines[n].invoice].status = "ACTIVE"
              /\ lines[n].amount <= InvoiceBalance(inv, pay, lines[n].invoice)

(* explicitAllocations: the checks on the lines a client names, and the    *)
(* allocation they stand for.                                              *)
LinesAcceptable(inv, pay, dto) ==
    LET lines == dto.lines
    IN  /\ IsInjective([n \in DOMAIN lines |-> lines[n].invoice])
        /\ \A n \in DOMAIN lines :
              /\ lines[n].invoice \in Payable(inv, dto.student)
              /\ lines[n].amount <= InvoiceBalance(inv, pay, lines[n].invoice)

LineAllocation(dto) ==
    [i \in Invoice |->
        LET hits == {n \in DOMAIN dto.lines : dto.lines[n].invoice = i}
        IN  IF hits = {} THEN 0 ELSE dto.lines[CHOOSE n \in hits : TRUE].amount]

(* FAULT: the amount is not compared with what could be allocated.         *)
PartialAllocations(inv, pay, dto) ==
    {alloc \in {IF dto.lines = <<>> THEN AutoAllocation(inv, pay, dto) ELSE LineAllocation(dto)} :
        dto.lines # <<>> => LinesAcceptable(inv, pay, dto)}

(* The allocations a capture is accepted with on the tables inv and pay:   *)
(* at most one, none when the amount cannot be allocated in full.          *)
AcceptedAllocations(inv, pay, dto) ==
    {alloc \in {IF dto.lines = <<>> THEN AutoAllocation(inv, pay, dto) ELSE LineAllocation(dto)} :
        /\ alloc \in Allocation
        /\ dto.lines # <<>> => LinesAcceptable(inv, pay, dto)
        /\ SumFunction(alloc) = dto.amount}
=============================================================================
