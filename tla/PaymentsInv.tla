----------------------------- MODULE PaymentsInv ----------------------------
(***************************************************************************)
(* The inductive invariant of Payments: what the handlers of the requests  *)
(* in flight rely on, and why the ledger stays well formed.  Its parts are *)
(* checked by TLC with the properties and proved in LedgerProofs.          *)
(***************************************************************************)
EXTENDS Payments

Working == {"checked", "validated", "open", "clash"}

(* A request has a row only from its commit on, and an answer only at the  *)
(* end; past the arrival its body is known.                                *)
StageInv ==
    \A r \in Request :
        /\ pc[r] \in Working \cup {"new"} => payment[r] = None
        /\ pc[r] # "done" => resp[r] = Pending
        /\ pc[r] \in Working \cup {"committed"} => IsCapture(r) \/ IsReverse(r)
        /\ pc[r] = "clash" => IsCapture(r)
        /\ pc[r] = "validated" => IsReverse(r)
        /\ pc[r] = "committed" =>
              /\ payment[r] # None
              /\ payment[r].reverses = IF IsReverse(r) THEN req[r].target ELSE None

(* A transaction saw a receipt number of the past or the present, and a    *)
(* capture that has one found its student.                                 *)
SeenInv ==
    \A r \in Request :
        /\ plan[r].seen <= lastNumber
        /\ pc[r] = "open" /\ IsCapture(r) => req[r].student \in Student

(* While the receipt number is the one a capture saw, what it planned is   *)
(* still what the ledger accepts.                                          *)
SnapshotInv ==
    \A r \in Request :
        pc[r] = "open" /\ IsCapture(r) /\ ~Stale(r) =>
            plan[r].alloc \in AcceptedAllocations(invoice, payment, req[r])

(* The payment a reversal has read stays one that may be reversed once.    *)
TargetInv ==
    \A r \in Request :
        pc[r] \in {"validated", "open"} /\ IsReverse(r) =>
            /\ req[r].target \in Recorded
            /\ payment[req[r].target].reverses = None

(* What a reversal reverses is recorded, and its reference names it.       *)
ReversalInv ==
    \A q \in Recorded :
        payment[q].reverses # None =>
            /\ payment[q].reverses \in Recorded
            /\ payment[q].reference = ReversalReference(payment[q].reverses)

(* The row of a request that has just committed carries its key.           *)
CommittedInv ==
    \A r \in Request : pc[r] = "committed" => payment[r].key = req[r].key

(* All of this survives whatever happens to the invoices meanwhile,        *)
LedgerInv ==
    /\ TypeOK
    /\ StageInv
    /\ SeenInv
    /\ TargetInv
    /\ ReversalInv
    /\ ReversalsBalance
    /\ ReceiptsGapless
    /\ OneRowPerKey

(* this as long as nobody changes them.                                    *)
IInv == LedgerInv /\ SnapshotInv

(* What a client has been told about its capture.                          *)
AnswersInv == CommittedInv /\ CaptureAnswersHonest

(* What the completed payments have taken of the invoices.                 *)
MoneyInv == NoOverpayment /\ FullyAllocated
=============================================================================
