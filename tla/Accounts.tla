------------------------------ MODULE Accounts ------------------------------
(***************************************************************************)
(* What the API tells of a student's account, computed from the tables of  *)
(* Billing: the student page, the statement, and the report that reminders *)
(* are queued from.  The invoices are those of the reported term.          *)
(***************************************************************************)
EXTENDS Billing

Charged(invoices) == SumFunction([i \in invoices |-> Charge(invoice, i)])
Settled(invoices) == SumFunction([i \in invoices |-> Paid(payment, i)])

(* FAULT: archived invoices drop out of the page.                          *)
PresentActive(s) ==
    LET invoices == {i \in OfStudent(s) : invoice[i].status = "ACTIVE"}
    IN  [billed |-> Charged(invoices), paid |-> Settled(invoices)]

(* presentStudent, over the invoices of studentInclude.                    *)
PresentStudent(s) ==
    LET invoices == {i \in OfStudent(s) : invoice[i].status # "VOIDED"}
    IN  [billed |-> Charged(invoices), paid |-> Settled(invoices)]

(* statement: every invoice is a line with its adjustments, whatever its   *)
(* status; allocations and credit notes are lines of the student they      *)
(* name, whatever invoice they are on.                                     *)
Allocated(s) ==
    SumFunction([p \in {q \in Completed(payment) : payment[q].student = s} |->
                    SumFunction(payment[p].alloc)])

Statement(s) ==
    LET debit(i) == invoice[i].items + invoice[i].debits
    IN  [debits |-> SumFunction([i \in OfStudent(s) |-> debit(i)]),
         credits |-> SumFunction([i \in OfStudent(s) |-> invoice[i].credits])
                        + Allocated(s) + noted[s]]

(* build: a row for each invoice of the term, and of a student's rows the  *)
(* one the Map was given last.  The query names no order.                  *)
Reported == {i \in Invoice : invoice[i].status \in {"ACTIVE", "ARCHIVED"}}
Outstanding(i) == AtLeastZero(Charge(invoice, i) - Paid(payment, i))
LastRow(s) == Reported \cap OfStudent(s)

(* queueOverdue passes over, and queueStudent refuses, who owes nothing in *)
(* that row.                                                               *)
MayBePassedOver(s) == \E i \in LastRow(s) : Outstanding(i) = 0
-----------------------------------------------------------------------------
(* The statement sums payments and notes by the student they name, the     *)
(* student page by the invoices they are on.  They end in one balance,     *)
(* whatever is paid, reversed, credited or archived and however requests   *)
(* overlap, but for the voided invoices, which leave only the page.        *)
StatementAgrees ==
    \A s \in Student :
        LET voided == {i \in OfStudent(s) : invoice[i].status = "VOIDED"}
        IN  Statement(s).debits - Statement(s).credits
                = PresentStudent(s).billed - PresentStudent(s).paid
                    + Charged(voided) - Settled(voided)

(* "queues SMS and email reminders for overdue accounts",                  *)
(* docs/reports-and-notifications.md:14, of which the code's refusal says  *)
(* "This student has no outstanding balance": who owes on an invoice of    *)
(* the term is not passed over.                                            *)
OverdueReminded ==
    \A s \in Student : (\E i \in LastRow(s) : Outstanding(i) > 0) => ~MayBePassedOver(s)
=============================================================================
