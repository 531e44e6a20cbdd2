------------------------------ MODULE Payments ------------------------------
(***************************************************************************)
(* PaymentsService.capture and PaymentsService.reverse, one process per    *)
(* HTTP request.  A handler awaits the database several times: every await *)
(* is a step here, and any other request may run in between.  Both write   *)
(* in a SERIALIZABLE transaction whose first write increments the school's *)
(* receipt_sequences row, so of two transactions that overlap on it only   *)
(* the first to commit survives: the other is aborted by the database and  *)
(* the error reaches the client, for the service never retries.            *)
(*                                                                         *)
(*   pc[r]:  new -> checked -> open -> committed -> done     (capture)     *)
(*                          \-> validated -> open            (reverse)     *)
(*           open -> clash -> done       unique index violated (capture)   *)
(***************************************************************************)
EXTENDS Ledger

CONSTANTS
    CaptureDto,     \* bodies of POST /payments a client may send
    ReverseDto,     \* ids and bodies of POST /payments/:id/reverse
    InitialInvoices \* the invoice tables the system may start from

Line == [invoice : Invoice, amount : Nat]

CaptureRequest ==
    [kind : {"capture"}, key : Key, student : Student \cup {None},
     amount : Nat \ {0}, reference : Reference, lines : Seq(Line)]

ReverseRequest == [kind : {"reverse"}, key : Key, target : Request]

ASSUME DtoAssumption ==
    CaptureDto \subseteq CaptureRequest /\ ReverseDto \subseteq ReverseRequest
ASSUME InitialInvoicesAssumption == InitialInvoices \subseteq [Invoice -> InvoiceRow]

VARIABLES
    req,            \* the body request r arrived with
    pc,             \* where the handler of r is
    plan,           \* what its transaction read: allocation and last number
    resp            \* what the client was told

payVars == <<req, pc, plan, resp>>
vars == <<ledgerVars, payVars>>

Stage == {"new", "checked", "validated", "open", "clash", "committed", "done"}

Plan == [alloc : Allocation, seen : Nat]

NoPlan == [alloc |-> NoAllocation, seen |-> 0]

TypeOK ==
    /\ LedgerTypeOK
    /\ req \in [Request -> CaptureDto \cup ReverseDto \cup {None}]
    /\ pc \in [Request -> Stage]
    /\ plan \in [Request -> Plan]
    /\ resp \in [Request -> Response]

Init ==
    /\ invoice \in InitialInvoices
    /\ payment = [p \in Request |-> None]
    /\ lastNumber = 0
    /\ req = [r \in Request |-> None]
    /\ pc = [r \in Request |-> "new"]
    /\ plan = [r \in Request |-> NoPlan]
    /\ resp = [r \in Request |-> Pending]

-----------------------------------------------------------------------------

Reply(r, outcome, p) ==
    /\ pc' = [pc EXCEPT ![r] = "done"]
    /\ resp' = [resp EXCEPT ![r] = Answer(outcome, p)]

Advance(r, stage) == pc' = [pc EXCEPT ![r] = stage] /\ resp' = resp

IsCapture(r) == req[r] \in CaptureDto
IsReverse(r) == req[r] \in ReverseDto

(* The handler starts with a lookup by idempotency key, outside any        *)
(* transaction.                                                            *)
Arrive(r, dto) ==
    /\ pc[r] = "new"
    /\ req' = [req EXCEPT ![r] = dto]
    /\ \/ \E p \in WithKey(dto.key) : Reply(r, "replay", p)
       \/ WithKey(dto.key) = {} /\ Advance(r, "checked")
    /\ UNCHANGED <<ledgerVars, plan>>

(* capture: 404 for a student the school does not have.                    *)
RefuseStudent(r) ==
    /\ pc[r] = "checked"
    /\ IsCapture(r)
    /\ req[r].student \notin Student
    /\ Reply(r, "rejected", None)
    /\ UNCHANGED <<ledgerVars, req, plan>>

(* capture: the transaction takes its snapshot with the read of the        *)
(* invoices, and decides on it.                                            *)
BeginCapture(r) ==
    /\ pc[r] = "checked"
    /\ IsCapture(r)
    /\ req[r].student \in Student
    /\ \/ /\ AcceptedAllocations(invoice, payment, req[r]) = {}
          /\ Reply(r, "rejected", None)
          /\ plan' = plan
       \/ \E alloc \in AcceptedAllocations(invoice, payment, req[r]) :
             /\ plan' = [plan EXCEPT ![r] = [alloc |-> alloc, seen |-> lastNumber]]
             /\ Advance(r, "open")
    /\ UNCHANGED <<ledgerVars, req>>

(* FAULT: the default isolation level, under which nothing is aborted.     *)
NeverStale(r) == FALSE

(* A row that a concurrent transaction updated after the snapshot cannot   *)
(* be updated again: the receipt sequence tells.                           *)
Stale(r) == lastNumber # plan[r].seen

SerializationFailure(r) ==
    /\ pc[r] = "open"
    /\ Stale(r)
    /\ Reply(r, "error", None)
    /\ UNCHANGED <<ledgerVars, req, plan>>

(* FAULT: neither reversed_payment_id nor the reference is unique.         *)
KeyTaken(dto) == WithKey(dto.key) # {}

(* A unique index of payments refuses the row (P2002): the key, the        *)
(* reference or, for a reversal, the payment it reverses is taken.         *)
CaptureTaken(dto) == WithKey(dto.key) # {} \/ WithReference(dto.reference) # {}

ReversalTaken(dto) ==
    \/ WithKey(dto.key) # {}
    \/ WithReference(ReversalReference(dto.target)) # {}
    \/ ReversalsOf(dto.target) # {}

(* FAULT: the receipt number is the one read, not the one written.         *)
CaptureRowBeforeIncrement(r) ==
    [key |-> req[r].key, reference |-> req[r].reference, amount |-> req[r].amount,
     alloc |-> plan[r].alloc, student |-> req[r].student, status |-> "COMPLETED",
     receipt |-> lastNumber, reverses |-> None]

CaptureRow(r) ==
    [key |-> req[r].key, reference |-> req[r].reference, amount |-> req[r].amount,
     alloc |-> plan[r].alloc, student |-> req[r].student, status |-> "COMPLETED",
     receipt |-> lastNumber + 1, reverses |-> None]

CommitCapture(r) ==
    /\ pc[r] = "open"
    /\ IsCapture(r)
    /\ ~Stale(r)
    /\ \/ /\ CaptureTaken(req[r])
          /\ Advance(r, "clash")
          /\ UNCHANGED <<payment, lastNumber>>
       \/ /\ ~CaptureTaken(req[r])
          /\ payment' = [payment EXCEPT ![r] = CaptureRow(r)]
          /\ lastNumber' = lastNumber + 1
          /\ Advance(r, "committed")
    /\ UNCHANGED <<invoice, req, plan>>

(* FAULT: whatever caused the clash is replayed.                           *)
ReplayAnyClash(r) ==
    /\ pc[r] = "clash"
    /\ \E p \in WithKey(req[r].key) \cup WithReference(req[r].reference) : Reply(r, "replay", p)
    /\ UNCHANGED <<ledgerVars, req, plan>>

(* FAULT: the clash is taken for a repeated key.                           *)
ReplayOrWait(r) ==
    /\ pc[r] = "clash"
    /\ \E p \in WithKey(req[r].key) : Reply(r, "replay", p)
    /\ UNCHANGED <<ledgerVars, req, plan>>

(* capture: after P2002 the key is looked up again; whoever holds it is    *)
(* the answer, and if nobody does the reference was the clash.             *)
ResolveClash(r) ==
    /\ pc[r] = "clash"
    /\ \/ \E p \in WithKey(req[r].key) : Reply(r, "replay", p)
       \/ WithKey(req[r].key) = {} /\ Reply(r, "rejected", None)
    /\ UNCHANGED <<ledgerVars, req, plan>>

-----------------------------------------------------------------------------

(* reverse: the original is read and checked outside the transaction.      *)
ReadOriginal(r) ==
    /\ pc[r] = "checked"
    /\ IsReverse(r)
    /\ \/ ~Reversible(req[r].target) /\ Reply(r, "rejected", None)
       \/ Reversible(req[r].target) /\ Advance(r, "validated")
    /\ UNCHANGED <<ledgerVars, req, plan>>

BeginReversal(r) ==
    /\ pc[r] = "validated"
    /\ plan' = [plan EXCEPT ![r].seen = lastNumber]
    /\ Advance(r, "open")
    /\ UNCHANGED <<ledgerVars, req>>

ReversalRow(r) ==
    [key |-> req[r].key, reference |-> ReversalReference(req[r].target),
     amount |-> payment[req[r].target].amount, alloc |-> NoAllocation, student |-> None,
     status |-> "COMPLETED", receipt |-> lastNumber + 1, reverses |-> req[r].target]

Voided(row) == [row EXCEPT !.status = "VOIDED"]

(* reverse: P2002 is not caught here, the client gets a 500.               *)
CommitReversal(r) ==
    /\ pc[r] = "open"
    /\ IsReverse(r)
    /\ ~Stale(r)
    /\ \/ /\ ReversalTaken(req[r])
          /\ Reply(r, "error", None)
          /\ UNCHANGED <<payment, lastNumber>>
       \/ /\ ~ReversalTaken(req[r])
          /\ payment' = [payment EXCEPT ![req[r].target] = Voided(@), ![r] = ReversalRow(r)]
          /\ lastNumber' = lastNumber + 1
          /\ Advance(r, "committed")
    /\ UNCHANGED <<invoice, req, plan>>

-----------------------------------------------------------------------------

(* capture presents the row it inserted, reverse the row it voided.        *)
Respond(r) ==
    /\ pc[r] = "committed"
    /\ Reply(r, "created", IF IsReverse(r) THEN req[r].target ELSE r)
    /\ UNCHANGED <<ledgerVars, req, plan>>

(* The process or its connection dies, or the transaction times out: what  *)
(* is not committed is rolled back, and the client learns nothing.         *)
Fail(r) ==
    /\ pc[r] \notin {"new", "done"}
    /\ Reply(r, "error", None)
    /\ UNCHANGED <<ledgerVars, req, plan>>

(* What the handler of r does next when nothing fails.                     *)
Step(r) ==
    \/ RefuseStudent(r)
    \/ BeginCapture(r)
    \/ SerializationFailure(r)
    \/ CommitCapture(r)
    \/ ResolveClash(r)
    \/ ReadOriginal(r)
    \/ BeginReversal(r)
    \/ CommitReversal(r)
    \/ Respond(r)

(* Every request of the instance has been answered.                        *)
Quiescent == (\A r \in Request : pc[r] = "done") /\ UNCHANGED vars

Next ==
    \/ \E r \in Request :
          \/ \E dto \in CaptureDto \cup ReverseDto : Arrive(r, dto)
          \/ Step(r)
          \/ Fail(r)
    \/ Quiescent

Spec == Init /\ [][Next]_vars

(* A handler that has started runs on: Node resumes it when the database   *)
(* answers.  Nothing obliges a client to send a request.                   *)
FairSpec == Spec /\ \A r \in Request : WF_vars(Step(r))

-----------------------------------------------------------------------------
(*                              Properties                                 *)

(* No invoice is paid beyond what it charges, whatever captures and        *)
(* reversals overlap: the balance capture checked is the one it commits on.*)
NoOverpayment == \A i \in Invoice : Paid(payment, i) <= AtLeastZero(Charge(invoice, i))

(* The receipt numbers of the school are 1, 2, ... without a gap and       *)
(* without a repetition: an aborted transaction gives its number back.     *)
ReceiptsGapless ==
    /\ {payment[p].receipt : p \in Recorded} = 1 .. lastNumber
    /\ \A p, q \in Recorded : payment[p].receipt = payment[q].receipt => p = q

(* A payment is VOIDED exactly when one row reverses it, for its amount;   *)
(* a reversal allocates nothing and is itself never reversed.              *)
ReversalsBalance ==
    \A p \in Recorded :
        /\ payment[p].status = "VOIDED" <=> ReversalsOf(p) # {}
        /\ \A q \in ReversalsOf(p) :
              /\ ReversalsOf(p) = {q}
              /\ payment[q].amount = payment[p].amount
              /\ payment[q].alloc = NoAllocation
              /\ payment[q].status = "COMPLETED"
              /\ payment[p].reverses = None

(* A captured payment is allocated in full, and to invoices of the student *)
(* that its allocations name.                                              *)
FullyAllocated ==
    \A p \in Recorded :
        payment[p].reverses = None =>
            /\ SumFunction(payment[p].alloc) = payment[p].amount
            /\ \A i \in Invoice : payment[p].alloc[i] > 0 => Owner[i] = payment[p].student

(* An idempotency key stands for one row of the school, whichever of the   *)
(* two endpoints it was sent to and however often.                         *)
OneRowPerKey == \A k \in Key : \A p, q \in WithKey(k) : p = q

(* What a client is told about its capture is a row that carries its key:  *)
(* its own or, on a replay, the one a request with the same key inserted.  *)
CaptureAnswersHonest ==
    \A r \in Request :
        IsCapture(r) /\ resp[r].outcome \in {"created", "replay"} =>
            /\ resp[r].payment \in WithKey(req[r].key)
            /\ resp[r].outcome = "created" => resp[r].payment = r

(* The ledger is append-only: a committed row keeps all its fields, except *)
(* that COMPLETED may turn to VOIDED, together with the insertion of the   *)
(* row that reverses it.                                                   *)
RowKept(p) ==
    \/ payment'[p] = payment[p]
    \/ /\ payment'[p] = [payment[p] EXCEPT !.status = "VOIDED"]
       /\ \E q \in Request \ Recorded : payment'[q] # None /\ payment'[q].reverses = p

AppendOnly == [][\A p \in Recorded : RowKept(p)]_vars

(* An automatic allocation leaves nothing unpaid on an invoice older than  *)
(* one it pays.                                                            *)
OldestFirst ==
    [][\A r \in Request \ Recorded :
          IsCapture(r) /\ req[r].lines = <<>> /\ payment'[r] # None =>
             \A m, n \in DOMAIN IssueOrder :
                m < n /\ payment'[r].alloc[IssueOrder[n]] > 0
                /\ IssueOrder[m] \in Payable(invoice, req[r].student) =>
                    payment'[r].alloc[IssueOrder[m]]
                        = InvoiceBalance(invoice, payment, IssueOrder[m])]_vars

(* Every request that has arrived is answered: a handler only moves on, so *)
(* this is that again and again none is under way.                         *)
Answered == []<>(\A r \in Request : pc[r] \in {"new", "done"})

(* The claim of docs/payments-and-receipts.md:25 for reversals: "Repeating *)
(* the same key returns the original result".                              *)
ReverseReplayReturnsOriginal ==
    \A r, s \in Request :
        /\ IsReverse(r) /\ req[r] = req[s]
        /\ resp[r].outcome = "created" /\ resp[s].outcome = "replay"
        => resp[s].payment = resp[r].payment

(* Every request acts at most once on the ledger, in one step: a capture   *)
(* or a reversal whose checks ran awaits earlier takes effect exactly as   *)
(* if they had run at its commit (payments.service.ts:16 and 20).          *)
Atomic == INSTANCE AtomicLedger WITH answer <- resp, Accepted <- AcceptedAllocations
ImplementsAtomicLedger == Atomic!Spec
=============================================================================
