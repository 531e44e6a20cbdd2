---------------------------- MODULE LedgerProofs ----------------------------
(***************************************************************************)
(* Proofs about the ledger, for every set of requests, bodies, invoices    *)
(* and students: first the rows of Payments and the refinement of          *)
(* AtomicLedger; then the amounts, which are what the payments take of an  *)
(* invoice in Payments, what they take while fees requests change it in    *)
(* Billing, and the sums of a student's account in Accounts.               *)
(***************************************************************************)
EXTENDS BillingInv, FiniteSetTheorems, WellFoundedInduction, TLAPS

(* Bodies of the two endpoints cannot be confused.                         *)
LEMMA DtoTypes ==
    /\ CaptureDto \cap ReverseDto = {}
    /\ \A dto \in CaptureDto : dto \in CaptureRequest
    /\ \A dto \in ReverseDto : dto \in ReverseRequest
    /\ None \notin Request
  BY DtoAssumption, NoneAssumption DEF CaptureRequest, ReverseRequest

(* A planned allocation has the type of one.                               *)
LEMMA AcceptedType ==
    \A inv, pay, dto : AcceptedAllocations(inv, pay, dto) \subseteq Allocation
  BY DEF AcceptedAllocations

LEMMA AnswerType ==
    \A p \in Request \cup {None} :
       \A o \in {"pending", "created", "replay", "rejected", "error"} :
          Answer(o, p) \in Response
  BY DEF Answer, Response

LEMMA InitType == Init => TypeOK
<1>. SUFFICES ASSUME Init PROVE TypeOK
  OBVIOUS
<1>1. LedgerTypeOK
  BY InitialInvoicesAssumption DEF Init, LedgerTypeOK
<1>2. NoPlan \in Plan
  BY DEF NoPlan, Plan, NoAllocation, Allocation
<1>3. Pending \in Response
  BY AnswerType DEF Pending
<1>. QED
  BY <1>1, <1>2, <1>3 DEF Init, TypeOK, Stage

LEMMA ReplyType ==
    ASSUME TypeOK, NEW r \in Request, NEW p \in Request \cup {None},
           NEW o \in {"pending", "created", "replay", "rejected", "error"},
           Reply(r, o, p)
    PROVE  pc' \in [Request -> Stage] /\ resp' \in [Request -> Response]
  BY AnswerType DEF TypeOK, Reply, Stage

LEMMA AdvanceType ==
    ASSUME TypeOK, NEW r \in Request, NEW stage \in Stage, Advance(r, stage)
    PROVE  pc' \in [Request -> Stage] /\ resp' \in [Request -> Response]
  BY DEF TypeOK, Advance

(* The rows the two transactions insert are payment rows.                  *)
LEMMA CaptureRowType ==
    ASSUME TypeOK, NEW r \in Request, IsCapture(r)
    PROVE  CaptureRow(r) \in PaymentRow
<1>1. req[r] \in CaptureRequest
  BY DtoTypes DEF IsCapture
<1>2. plan[r].alloc \in Allocation /\ lastNumber + 1 \in Nat
  BY DEF TypeOK, LedgerTypeOK, Plan
<1>. QED
  BY <1>1, <1>2 DEF CaptureRow, PaymentRow, CaptureRequest

LEMMA ReversalRowType ==
    ASSUME TypeOK, NEW r \in Request, IsReverse(r), req[r].target \in Recorded
    PROVE  ReversalRow(r) \in PaymentRow
<1>1. req[r] \in ReverseRequest
  BY DtoTypes DEF IsReverse
<1>2. req[r].target \in Request /\ req[r].key \in Key
  BY <1>1 DEF ReverseRequest
<1>3. payment[req[r].target].amount \in Nat
  BY <1>2 DEF TypeOK, LedgerTypeOK, PaymentRow, Recorded
<1>4. NoAllocation \in Allocation /\ lastNumber + 1 \in Nat
  BY DEF NoAllocation, Allocation, TypeOK, LedgerTypeOK
<1>. QED
  BY <1>2, <1>3, <1>4 DEF ReversalRow, PaymentRow

LEMMA VoidType ==
    ASSUME TypeOK, NEW p \in Recorded
    PROVE  [payment[p] EXCEPT !.status = "VOIDED"] \in PaymentRow
  BY DEF TypeOK, LedgerTypeOK, PaymentRow, Recorded

(* Every action keeps the types.  TargetInv is needed: the amount of a     *)
(* reversal is that of a payment which is there.                           *)
LEMMA NextType == TypeOK /\ TargetInv /\ [Next]_vars => TypeOK'
<1>. SUFFICES ASSUME TypeOK, TargetInv, [Next]_vars PROVE TypeOK'
  OBVIOUS
<1>. USE DEF Stage
<1>u. ASSUME UNCHANGED <<ledgerVars, req, plan>>,
             pc' \in [Request -> Stage], resp' \in [Request -> Response]
      PROVE  TypeOK'
  BY <1>u DEF TypeOK, LedgerTypeOK, ledgerVars
<1>w. ASSUME UNCHANGED <<invoice, req, plan>>,
             payment' \in [Request -> PaymentRow \cup {None}], lastNumber' \in Nat,
             pc' \in [Request -> Stage], resp' \in [Request -> Response]
      PROVE  TypeOK'
  BY <1>w DEF TypeOK, LedgerTypeOK
<1>1. ASSUME NEW r \in Request, NEW dto \in CaptureDto \cup ReverseDto, Arrive(r, dto)
      PROVE  TypeOK'
  <2>1. req' \in [Request -> CaptureDto \cup ReverseDto \cup {None}]
    BY <1>1 DEF Arrive, TypeOK
  <2>2. pc' \in [Request -> Stage] /\ resp' \in [Request -> Response]
    <3>1. CASE \E p \in WithKey(dto.key) : Reply(r, "replay", p)
      BY <3>1, ReplyType DEF WithKey, Recorded
    <3>2. CASE Advance(r, "checked")
      BY <3>2, AdvanceType
    <3>. QED
      BY <1>1, <3>1, <3>2 DEF Arrive
  <2>. QED
    BY <1>1, <2>1, <2>2 DEF Arrive, TypeOK, LedgerTypeOK, ledgerVars
<1>2. ASSUME NEW r \in Request, RefuseStudent(r) PROVE TypeOK'
  BY <1>2, <1>u, ReplyType DEF RefuseStudent
<1>3. ASSUME NEW r \in Request, BeginCapture(r) PROVE TypeOK'
  <2>1. pc' \in [Request -> Stage] /\ resp' \in [Request -> Response]
    BY <1>3, ReplyType, AdvanceType DEF BeginCapture
  <2>2. plan' \in [Request -> Plan]
    BY <1>3, AcceptedType DEF BeginCapture, TypeOK, LedgerTypeOK, Plan
  <2>. QED
    BY <1>3, <2>1, <2>2 DEF BeginCapture, TypeOK, LedgerTypeOK, ledgerVars
<1>4. ASSUME NEW r \in Request, SerializationFailure(r) PROVE TypeOK'
  BY <1>4, <1>u, ReplyType DEF SerializationFailure
<1>5. ASSUME NEW r \in Request, CommitCapture(r) PROVE TypeOK'
  <2>1. pc' \in [Request -> Stage] /\ resp' \in [Request -> Response]
    BY <1>5, AdvanceType DEF CommitCapture
  <2>2. payment' \in [Request -> PaymentRow \cup {None}] /\ lastNumber' \in Nat
    BY <1>5, CaptureRowType DEF CommitCapture, TypeOK, LedgerTypeOK
  <2>. QED
    BY <1>5, <1>w, <2>1, <2>2 DEF CommitCapture
<1>6. ASSUME NEW r \in Request, ResolveClash(r) PROVE TypeOK'
  <2>1. pc' \in [Request -> Stage] /\ resp' \in [Request -> Response]
    BY <1>6, ReplyType DEF ResolveClash, WithKey, Recorded
  <2>. QED
    BY <1>6, <1>u, <2>1 DEF ResolveClash
<1>7. ASSUME NEW r \in Request, ReadOriginal(r) PROVE TypeOK'
  BY <1>7, <1>u, ReplyType, AdvanceType DEF ReadOriginal
<1>8. ASSUME NEW r \in Request, BeginReversal(r) PROVE TypeOK'
  <2>1. plan' \in [Request -> Plan]
    BY <1>8 DEF BeginReversal, TypeOK, LedgerTypeOK, Plan
  <2>. QED
    BY <1>8, <2>1, AdvanceType DEF BeginReversal, TypeOK, LedgerTypeOK, ledgerVars
<1>9. ASSUME NEW r \in Request, CommitReversal(r) PROVE TypeOK'
  <2>1. pc' \in [Request -> Stage] /\ resp' \in [Request -> Response]
    BY <1>9, ReplyType, AdvanceType DEF CommitReversal
  <2>2. CASE UNCHANGED <<payment, lastNumber>>
    BY <1>9, <1>w, <2>1, <2>2 DEF CommitReversal, TypeOK, LedgerTypeOK
  <2>3. CASE ~ReversalTaken(req[r])
    <3>1. req[r].target \in Recorded
      BY <1>9 DEF CommitReversal, TargetInv
    <3>2. PICK void \in PaymentRow : void = [payment[req[r].target] EXCEPT !.status = "VOIDED"]
      BY <3>1, VoidType
    <3>3. PICK row \in PaymentRow : row = ReversalRow(r)
      BY <1>9, <3>1, ReversalRowType DEF CommitReversal
    <3>4. payment' = [payment EXCEPT ![req[r].target] = void, ![r] = row]
      BY <1>9, <2>3, <3>2, <3>3 DEF CommitReversal, Voided
    <3>5. payment' \in [Request -> PaymentRow \cup {None}] /\ lastNumber' \in Nat
      BY <1>9, <2>3, <3>4 DEF CommitReversal, TypeOK, LedgerTypeOK
    <3>. QED
      BY <1>9, <1>w, <2>1, <3>5 DEF CommitReversal
  <2>. QED
    BY <1>9, <2>2, <2>3 DEF CommitReversal
<1>10. ASSUME NEW r \in Request, Respond(r) PROVE TypeOK'
  <2>1. CASE IsReverse(r)
    <3>1. req[r].target \in Request
      BY <2>1, DtoTypes DEF IsReverse, ReverseRequest
    <3>. QED
      BY <1>10, <1>u, <2>1, <3>1, ReplyType DEF Respond
  <2>2. CASE ~IsReverse(r)
    BY <1>10, <1>u, <2>2, ReplyType DEF Respond
  <2>. QED
    BY <2>1, <2>2
<1>11. ASSUME NEW r \in Request, Fail(r) PROVE TypeOK'
  BY <1>11, <1>u, ReplyType DEF Fail
<1>12. CASE UNCHANGED vars
  BY <1>12 DEF vars, payVars, ledgerVars, TypeOK, LedgerTypeOK
<1>. QED
  BY <1>1, <1>2, <1>3, <1>4, <1>5, <1>6, <1>7, <1>8, <1>9, <1>10, <1>11, <1>12
  DEF Next, Step, Quiescent

-----------------------------------------------------------------------------
(* The two steps that write the ledger.                                    *)

Captured(r) == CommitCapture(r) /\ ~CaptureTaken(req[r])
Reversed(r) == CommitReversal(r) /\ ~ReversalTaken(req[r])

(* Nothing else does.                                                      *)
LEMMA LedgerSteps ==
    ASSUME [Next]_vars
    PROVE  \/ UNCHANGED ledgerVars
           \/ \E r \in Request : Captured(r)
           \/ \E r \in Request : Reversed(r)
<1>. USE DEF ledgerVars
<1>1. ASSUME NEW r \in Request, CommitCapture(r)
      PROVE  UNCHANGED ledgerVars \/ Captured(r)
  BY <1>1 DEF CommitCapture, Captured
<1>2. ASSUME NEW r \in Request, CommitReversal(r)
      PROVE  UNCHANGED ledgerVars \/ Reversed(r)
  BY <1>2 DEF CommitReversal, Reversed
<1>3. ASSUME NEW r \in Request,
             \/ \E dto \in CaptureDto \cup ReverseDto : Arrive(r, dto)
             \/ Step(r) /\ ~CommitCapture(r) /\ ~CommitReversal(r)
             \/ Fail(r)
      PROVE  UNCHANGED ledgerVars
  BY <1>3 DEF Arrive, Step, RefuseStudent, BeginCapture, SerializationFailure, ResolveClash,
              ReadOriginal, BeginReversal, Respond, Fail
<1>. QED
  BY <1>1, <1>2, <1>3 DEF Next, Step, Quiescent, vars

(* What a capture does to the table.                                       *)
LEMMA CapturedTable ==
    ASSUME LedgerInv, NEW r \in Request, Captured(r)
    PROVE  /\ r \notin Recorded
           /\ Recorded' = Recorded \cup {r}
           /\ payment'[r] = CaptureRow(r)
           /\ \A p \in Request \ {r} : payment'[p] = payment[p]
           /\ lastNumber' = lastNumber + 1 /\ lastNumber \in Nat
           /\ invoice' = invoice
<1>1. payment[r] = None
  BY DEF Captured, CommitCapture, LedgerInv, StageInv, Working
<1>2. CaptureRow(r) # None
  BY CaptureRowType, NoRowAssumption DEF Captured, CommitCapture, LedgerInv
<1>. QED
  BY <1>1, <1>2 DEF Captured, CommitCapture, LedgerInv, TypeOK, LedgerTypeOK, Recorded

(* What a reversal does to it.  The payment it reverses may be reversed:   *)
(* it was COMPLETED, for no reversal of it is recorded.                    *)
LEMMA ReversedTable ==
    ASSUME LedgerInv, NEW r \in Request, Reversed(r), NEW t, t = req[r].target
    PROVE  /\ r \notin Recorded /\ t \in Recorded
           /\ Reversible(t) /\ ReversalsOf(t) = {}
           /\ Recorded' = Recorded \cup {r}
           /\ payment'[r] = ReversalRow(r)
           /\ payment'[t] = [payment[t] EXCEPT !.status = "VOIDED"]
           /\ \A p \in Request \ {r, t} : payment'[p] = payment[p]
           /\ lastNumber' = lastNumber + 1 /\ lastNumber \in Nat
           /\ invoice' = invoice
<1>1. payment[r] = None
  BY DEF Reversed, CommitReversal, LedgerInv, StageInv, Working
<1>2. t \in Recorded /\ t \in Request /\ payment[t].reverses = None
  BY DEF Reversed, CommitReversal, LedgerInv, TargetInv, Recorded
<1>3. ReversalsOf(t) = {}
  BY DEF Reversed, ReversalTaken
<1>4. payment[t] \in PaymentRow
  BY <1>2 DEF LedgerInv, TypeOK, LedgerTypeOK, Recorded
<1>5. Reversible(t)
  BY <1>2, <1>3, <1>4 DEF LedgerInv, ReversalsBalance, Reversible, PaymentRow
<1>6. ReversalRow(r) \in PaymentRow
  BY <1>2, ReversalRowType DEF Reversed, CommitReversal, LedgerInv
<1>7. PICK void \in PaymentRow : void = [payment[t] EXCEPT !.status = "VOIDED"]
  BY <1>2, VoidType DEF LedgerInv
<1>8. payment' = [payment EXCEPT ![t] = void, ![r] = ReversalRow(r)]
  BY <1>7 DEF Reversed, CommitReversal, Voided
<1>9. r # t
  BY <1>1, <1>2 DEF Recorded
<1>10. payment \in [Request -> PaymentRow \cup {None}] /\ lastNumber \in Nat
  BY DEF LedgerInv, TypeOK, LedgerTypeOK
<1>11. /\ payment'[r] = ReversalRow(r)
       /\ payment'[t] = void
       /\ \A p \in Request \ {r, t} : payment'[p] = payment[p]
  BY <1>2, <1>8, <1>9, <1>10
<1>12. Recorded' = Recorded \cup {r}
  BY <1>1, <1>2, <1>6, <1>7, <1>11, NoRowAssumption DEF Recorded
<1>. QED
  BY <1>1, <1>2, <1>3, <1>5, <1>7, <1>10, <1>11, <1>12
  DEF Recorded, Reversed, CommitReversal

(* The fields of the rows inserted.                                        *)
LEMMA CaptureFields ==
    ASSUME NEW r
    PROVE  /\ CaptureRow(r).key = req[r].key
           /\ CaptureRow(r).reference = req[r].reference
           /\ CaptureRow(r).reverses = None
           /\ CaptureRow(r).status = "COMPLETED"
           /\ CaptureRow(r).receipt = lastNumber + 1
           /\ CaptureRow(r).alloc = plan[r].alloc
           /\ CaptureRow(r).amount = req[r].amount
           /\ CaptureRow(r).student = req[r].student
  BY DEF CaptureRow

LEMMA ReversalFields ==
    ASSUME NEW r
    PROVE  /\ ReversalRow(r).key = req[r].key
           /\ ReversalRow(r).reference = ReversalReference(req[r].target)
           /\ ReversalRow(r).reverses = req[r].target
           /\ ReversalRow(r).status = "COMPLETED"
           /\ ReversalRow(r).amount = payment[req[r].target].amount
           /\ ReversalRow(r).alloc = NoAllocation
           /\ ReversalRow(r).receipt = lastNumber + 1
  BY DEF ReversalRow

(* A recorded row stays, with all its fields but the status.               *)
LEMMA RowsKept ==
    ASSUME LedgerInv, [Next]_vars, NEW p \in Recorded
    PROVE  p \in Recorded' /\ RowKept(p)
<1>. p \in Request
  BY DEF Recorded
<1>1. CASE UNCHANGED ledgerVars
  BY <1>1 DEF ledgerVars, Recorded, RowKept
<1>2. ASSUME NEW r \in Request, Captured(r) PROVE p \in Recorded' /\ RowKept(p)
  BY <1>2, CapturedTable DEF RowKept
<1>3. ASSUME NEW r \in Request, Reversed(r), NEW t, t = req[r].target
      PROVE  p \in Recorded' /\ RowKept(p)
  <2>1. /\ payment'[r] = ReversalRow(r)
        /\ payment'[t] = [payment[t] EXCEPT !.status = "VOIDED"]
        /\ \A q \in Request \ {r, t} : payment'[q] = payment[q]
        /\ Recorded' = Recorded \cup {r} /\ r \notin Recorded
    BY <1>3, ReversedTable
  <2>2. CASE p = t
    <3>1. payment'[r] # None /\ payment'[r].reverses = t
      BY <1>3, <2>1, ReversalFields DEF Recorded
    <3>. QED
      BY <2>1, <2>2, <3>1 DEF RowKept
  <2>3. CASE p # t
    BY <2>1, <2>3 DEF RowKept
  <2>. QED
    BY <2>2, <2>3
<1>. QED
  BY <1>1, <1>2, <1>3, LedgerSteps

(* The same, field by field.                                               *)
LEMMA FieldsKept ==
    ASSUME LedgerInv, [Next]_vars, NEW p \in Recorded
    PROVE  /\ payment'[p].key = payment[p].key
           /\ payment'[p].reference = payment[p].reference
           /\ payment'[p].amount = payment[p].amount
           /\ payment'[p].alloc = payment[p].alloc
           /\ payment'[p].student = payment[p].student
           /\ payment'[p].receipt = payment[p].receipt
           /\ payment'[p].reverses = payment[p].reverses
<1>1. payment[p] \in PaymentRow
  BY DEF LedgerInv, TypeOK, LedgerTypeOK, Recorded
<1>2. \/ payment'[p] = payment[p]
      \/ payment'[p] = [payment[p] EXCEPT !.status = "VOIDED"]
  BY RowsKept DEF RowKept
<1>. QED
  BY <1>1, <1>2 DEF PaymentRow

LEMMA ReversalsKept ==
    ASSUME LedgerInv, [Next]_vars
    PROVE  ReversalInv' /\ ReversalsBalance'
<1>1. CASE UNCHANGED ledgerVars
  BY <1>1 DEF LedgerInv, ledgerVars, Recorded, ReversalInv, ReversalsBalance, ReversalsOf
<1>2. ASSUME NEW r \in Request, Captured(r) PROVE ReversalInv' /\ ReversalsBalance'
  <2>1. /\ payment'[r].reverses = None /\ payment'[r].status = "COMPLETED"
        /\ \A p \in Recorded : payment'[p] = payment[p] /\ p # r
        /\ Recorded' = Recorded \cup {r} /\ r \notin Recorded
    BY <1>2, CapturedTable, CaptureFields DEF Recorded
  <2>2. ReversalInv'
    BY <2>1 DEF LedgerInv, ReversalInv
  <2>3. \A p \in Recorded : ReversalsOf(p)' = ReversalsOf(p)
    BY <2>1, NoneAssumption DEF Recorded, ReversalsOf
  <2>4. ReversalsOf(r)' = {}
    BY <2>1, NoneAssumption DEF LedgerInv, ReversalInv, ReversalsOf
  <2>5. \A p \in Recorded : ReversalsOf(p) \subseteq Recorded
    BY DEF ReversalsOf
  <2>. QED
    BY <2>1, <2>2, <2>3, <2>4, <2>5 DEF LedgerInv, ReversalsBalance
<1>3. ASSUME NEW r \in Request, Reversed(r), NEW t, t = req[r].target
      PROVE  ReversalInv' /\ ReversalsBalance'
  <2>1. /\ payment'[r] = ReversalRow(r)
        /\ payment'[t] = [payment[t] EXCEPT !.status = "VOIDED"]
        /\ \A p \in Request \ {r, t} : payment'[p] = payment[p]
        /\ Recorded' = Recorded \cup {r} /\ r \notin Recorded
        /\ t \in Recorded /\ Reversible(t) /\ ReversalsOf(t) = {}
    BY <1>3, ReversedTable
  <2>2. /\ payment'[r].reverses = t /\ payment'[r].status = "COMPLETED"
        /\ payment'[r].reference = ReversalReference(t)
        /\ payment'[r].amount = payment[t].amount
        /\ payment'[r].alloc = NoAllocation
    BY <1>3, <2>1, ReversalFields
  <2>3. payment[t] \in PaymentRow
    BY <2>1 DEF LedgerInv, TypeOK, LedgerTypeOK, Recorded
  <2>4. /\ payment'[t].status = "VOIDED" /\ payment'[t].reverses = None
        /\ payment'[t].amount = payment[t].amount
    BY <2>1, <2>3 DEF Reversible, PaymentRow
  <2>5. \A p \in Recorded \ {t} : payment'[p] = payment[p]
    BY <2>1 DEF Recorded
  <2>6. \A q \in Recorded : payment'[q].reverses = payment[q].reverses
    BY <2>1, <2>4, <2>5 DEF Reversible
  <2>7. ReversalInv'
    <3>. SUFFICES ASSUME NEW q \in Recorded', payment'[q].reverses # None
                  PROVE  /\ payment'[q].reverses \in Recorded'
                         /\ payment'[q].reference = ReversalReference(payment'[q].reverses)
      BY DEF ReversalInv
    <3>1. CASE q = r
      BY <2>1, <2>2, <3>1
    <3>2. CASE q # r
      BY <2>1, <2>4, <2>5, <3>2 DEF LedgerInv, ReversalInv
    <3>. QED
      BY <3>1, <3>2
  <2>8. /\ ReversalsOf(t)' = {r}
        /\ \A p \in Recorded \ {t} : ReversalsOf(p)' = ReversalsOf(p)
    BY <2>1, <2>2, <2>6 DEF ReversalsOf
  <2>9. ReversalsOf(r)' = {}
    <3>1. t # r
      BY <2>1
    <3>2. \A q \in Recorded : payment[q].reverses # r
      BY <2>1, NoneAssumption, <1>3 DEF LedgerInv, ReversalInv
    <3>. QED
      BY <2>1, <2>2, <2>6, <3>1, <3>2 DEF ReversalsOf
  <2>10. \A p \in Recorded \ {t} : \A q \in ReversalsOf(p) : q \in Recorded \ {t}
    BY <2>1, NoneAssumption DEF ReversalsOf, Reversible, Recorded
  <2>11. ReversalsBalance'
    <3>. SUFFICES ASSUME NEW p \in Recorded'
                  PROVE  /\ payment'[p].status = "VOIDED" <=> ReversalsOf(p)' # {}
                         /\ \A q \in ReversalsOf(p)' :
                               /\ ReversalsOf(p)' = {q}
                               /\ payment'[q].amount = payment'[p].amount
                               /\ payment'[q].alloc = NoAllocation
                               /\ payment'[q].status = "COMPLETED"
                               /\ payment'[p].reverses = None
      BY DEF ReversalsBalance
    <3>1. CASE p = r
      BY <2>2, <2>9, <3>1
    <3>2. CASE p = t
      BY <2>2, <2>4, <2>8, <3>2
    <3>3. CASE p \in Recorded \ {t}
      BY <2>5, <2>8, <2>10, <3>3 DEF LedgerInv, ReversalsBalance
    <3>. QED
      BY <2>1, <3>1, <3>2, <3>3
  <2>. QED
    BY <2>7, <2>11
<1>. QED
  BY <1>1, <1>2, <1>3, LedgerSteps

LEMMA ReceiptsKept == LedgerInv /\ [Next]_vars => ReceiptsGapless'
<1>. SUFFICES ASSUME LedgerInv, [Next]_vars PROVE ReceiptsGapless'
  OBVIOUS
<1>1. CASE UNCHANGED ledgerVars
  BY <1>1 DEF LedgerInv, ledgerVars, Recorded, ReceiptsGapless
<1>2. ASSUME NEW r \in Request,
             Recorded' = Recorded \cup {r}, r \notin Recorded,
             lastNumber' = lastNumber + 1, lastNumber \in Nat,
             payment'[r].receipt = lastNumber + 1,
             \A p \in Recorded : payment'[p].receipt = payment[p].receipt
      PROVE  ReceiptsGapless'
  <2>1. {payment'[p].receipt : p \in Recorded'}
          = {payment[p].receipt : p \in Recorded} \cup {lastNumber + 1}
    BY <1>2
  <2>2. \A p \in Recorded : payment[p].receipt \in 1 .. lastNumber
    BY DEF LedgerInv, ReceiptsGapless
  <2>3. (1 .. lastNumber) \cup {lastNumber + 1} = 1 .. (lastNumber + 1)
    BY <1>2
  <2>4. ASSUME NEW p \in Recorded', NEW q \in Recorded',
               payment'[p].receipt = payment'[q].receipt
        PROVE  p = q
    BY <1>2, <2>2, <2>4 DEF LedgerInv, ReceiptsGapless
  <2>. QED
    BY <1>2, <2>1, <2>3, <2>4 DEF LedgerInv, ReceiptsGapless
<1>3. ASSUME NEW r \in Request, Captured(r) PROVE ReceiptsGapless'
  BY <1>2, <1>3, CapturedTable, CaptureFields DEF Recorded
<1>4. ASSUME NEW r \in Request, Reversed(r) PROVE ReceiptsGapless'
  <2>1. \A p \in Recorded : payment'[p].receipt = payment[p].receipt
    BY FieldsKept
  <2>2. /\ Recorded' = Recorded \cup {r} /\ r \notin Recorded
        /\ lastNumber' = lastNumber + 1 /\ lastNumber \in Nat
        /\ payment'[r] = ReversalRow(r)
    BY <1>4, ReversedTable
  <2>3. payment'[r].receipt = lastNumber + 1
    BY <2>2 DEF ReversalRow
  <2>. QED
    BY <1>2, <2>1, <2>2, <2>3
<1>. QED
  BY <1>1, <1>3, <1>4, LedgerSteps

LEMMA KeysKept == LedgerInv /\ [Next]_vars => OneRowPerKey'
<1>. SUFFICES ASSUME LedgerInv, [Next]_vars PROVE OneRowPerKey'
  OBVIOUS
<1>1. CASE UNCHANGED ledgerVars
  BY <1>1 DEF LedgerInv, ledgerVars, Recorded, OneRowPerKey, WithKey
<1>2. \A p \in Recorded : payment'[p].key = payment[p].key
  BY FieldsKept
<1>3. ASSUME NEW r \in Request, Recorded' = Recorded \cup {r},
             \A p \in Recorded : payment[p].key # payment'[r].key
      PROVE  OneRowPerKey'
  BY <1>2, <1>3 DEF LedgerInv, OneRowPerKey, WithKey
<1>4. ASSUME NEW r \in Request, Captured(r) PROVE OneRowPerKey'
  <2>1. payment'[r].key = req[r].key
    BY <1>4, CapturedTable, CaptureFields
  <2>. QED
    BY <1>3, <1>4, <2>1, CapturedTable DEF Captured, CaptureTaken, WithKey
<1>5. ASSUME NEW r \in Request, Reversed(r) PROVE OneRowPerKey'
  <2>1. Recorded' = Recorded \cup {r} /\ payment'[r] = ReversalRow(r)
    BY <1>5, ReversedTable
  <2>2. payment'[r].key = req[r].key
    BY <2>1 DEF ReversalRow
  <2>3. \A p \in Recorded : payment[p].key # req[r].key
    BY <1>5 DEF Reversed, ReversalTaken, WithKey
  <2>. QED
    BY <1>3, <2>1, <2>2, <2>3
<1>. QED
  BY <1>1, <1>4, <1>5, LedgerSteps

-----------------------------------------------------------------------------
(* The stages of the handlers.                                             *)

StepOf(r) ==
    \/ \E dto \in CaptureDto \cup ReverseDto : Arrive(r, dto)
    \/ Step(r)
    \/ Fail(r)

(* A step of one request leaves the others where they are, and inserts no  *)
(* row for them.                                                           *)
LEMMA OthersKept ==
    ASSUME LedgerInv, NEW r \in Request, StepOf(r), NEW q \in Request \ {r}
    PROVE  /\ pc'[q] = pc[q] /\ req'[q] = req[q]
           /\ resp'[q] = resp[q] /\ plan'[q] = plan[q]
           /\ q \in Recorded' => q \in Recorded
<1>1. pc'[q] = pc[q] /\ resp'[q] = resp[q]
  BY DEF StepOf, Step, Arrive, RefuseStudent, BeginCapture, SerializationFailure,
         CommitCapture, ResolveClash, ReadOriginal, BeginReversal, CommitReversal, Respond,
         Fail, Reply, Advance, LedgerInv, TypeOK
<1>2. req'[q] = req[q] /\ plan'[q] = plan[q]
  BY DEF StepOf, Step, Arrive, RefuseStudent, BeginCapture, SerializationFailure,
         CommitCapture, ResolveClash, ReadOriginal, BeginReversal, CommitReversal, Respond,
         Fail, LedgerInv, TypeOK
<1>3. q \in Recorded' => q \in Recorded
  <2>1. CASE UNCHANGED ledgerVars
    BY <2>1 DEF ledgerVars, Recorded
  <2>2. CASE Captured(r)
    BY <2>2, CapturedTable
  <2>3. CASE Reversed(r)
    BY <2>3, ReversedTable
  <2>4. UNCHANGED ledgerVars \/ Captured(r) \/ Reversed(r)
    BY DEF StepOf, Step, Arrive, RefuseStudent, BeginCapture, SerializationFailure,
           CommitCapture, ResolveClash, ReadOriginal, BeginReversal, CommitReversal, Respond,
           Fail, ledgerVars, Captured, Reversed
  <2>. QED
    BY <2>1, <2>2, <2>3, <2>4
<1>. QED
  BY <1>1, <1>2, <1>3

StageOK(r) ==
    /\ pc[r] \in Working \cup {"new"} => payment[r] = None
    /\ pc[r] # "done" => resp[r] = Pending
    /\ pc[r] \in Working \cup {"committed"} => IsCapture(r) \/ IsReverse(r)
    /\ pc[r] = "clash" => IsCapture(r)
    /\ pc[r] = "validated" => IsReverse(r)
    /\ pc[r] = "committed" =>
          /\ payment[r] # None
          /\ payment[r].reverses = IF IsReverse(r) THEN req[r].target ELSE None

LEMMA OwnStage ==
    ASSUME LedgerInv, NEW r \in Request, StepOf(r)
    PROVE  StageOK(r)'
<1>. USE DEF StageOK, Working
<1>0. StageOK(r) /\ pc \in [Request -> Stage] /\ resp \in [Request -> Response]
      /\ req \in [Request -> CaptureDto \cup ReverseDto \cup {None}]
      /\ payment \in [Request -> PaymentRow \cup {None}]
  BY DEF LedgerInv, StageInv, TypeOK, LedgerTypeOK
<1>1. ASSUME NEW dto \in CaptureDto \cup ReverseDto, Arrive(r, dto) PROVE StageOK(r)'
  BY <1>0, <1>1 DEF Arrive, Reply, Advance, ledgerVars, IsCapture, IsReverse
<1>2. ASSUME pc'[r] = "done" PROVE StageOK(r)'
  BY <1>2
<1>3. CASE RefuseStudent(r) \/ SerializationFailure(r) \/ ResolveClash(r) \/ Respond(r) \/ Fail(r)
  <2>1. pc'[r] = "done"
    BY <1>0, <1>3 DEF RefuseStudent, SerializationFailure, ResolveClash, Respond, Fail, Reply
  <2>. QED
    BY <1>2, <2>1
<1>4. CASE BeginCapture(r)
  <2>1. CASE Advance(r, "open")
    BY <1>0, <1>4, <2>1 DEF BeginCapture, Advance, ledgerVars, IsCapture, IsReverse
  <2>2. CASE Reply(r, "rejected", None)
    BY <1>0, <1>2, <2>2 DEF Reply
  <2>. QED
    BY <1>4, <2>1, <2>2 DEF BeginCapture
<1>5. CASE CommitCapture(r)
  <2>1. CASE Captured(r)
    <3>1. pc'[r] = "committed" /\ resp'[r] = resp[r] /\ req' = req /\ IsCapture(r) /\ pc[r] = "open"
      BY <1>0, <2>1 DEF Captured, CommitCapture, Advance
    <3>2. payment'[r].reverses = None /\ payment'[r] # None
      BY <2>1, CapturedTable, CaptureFields DEF Recorded
    <3>3. ~IsReverse(r)
      BY <3>1, DtoTypes DEF IsCapture, IsReverse
    <3>. QED
      BY <1>0, <3>1, <3>2, <3>3 DEF IsCapture, IsReverse
  <2>2. CASE Advance(r, "clash") /\ payment' = payment
    BY <1>0, <1>5, <2>2 DEF CommitCapture, Advance, IsCapture, IsReverse
  <2>. QED
    BY <1>5, <2>1, <2>2 DEF CommitCapture, Captured
<1>6. CASE ReadOriginal(r)
  <2>1. CASE Advance(r, "validated")
    BY <1>0, <1>6, <2>1 DEF ReadOriginal, Advance, ledgerVars, IsCapture, IsReverse
  <2>2. CASE Reply(r, "rejected", None)
    BY <1>0, <1>2, <2>2 DEF Reply
  <2>. QED
    BY <1>6, <2>1, <2>2 DEF ReadOriginal
<1>7. CASE BeginReversal(r)
  BY <1>0, <1>7 DEF BeginReversal, Advance, ledgerVars, IsCapture, IsReverse
<1>8. CASE CommitReversal(r)
  <2>1. CASE Reversed(r)
    <3>1. pc'[r] = "committed" /\ resp'[r] = resp[r] /\ req' = req /\ IsReverse(r) /\ pc[r] = "open"
      BY <1>0, <2>1 DEF Reversed, CommitReversal, Advance
    <3>2. payment'[r].reverses = req[r].target /\ payment'[r] # None
      <4>1. payment'[r] = ReversalRow(r) /\ r \in Recorded'
        BY <2>1, ReversedTable
      <4>. QED
        BY <4>1 DEF Recorded, ReversalRow
    <3>. QED
      BY <1>0, <3>1, <3>2 DEF IsCapture, IsReverse
  <2>2. CASE Reply(r, "error", None)
    BY <1>0, <1>2, <2>2 DEF Reply
  <2>. QED
    BY <1>8, <2>1, <2>2 DEF CommitReversal, Reversed
<1>. QED
  BY <1>1, <1>3, <1>4, <1>5, <1>6, <1>7, <1>8 DEF StepOf, Step

LEMMA StagesKept == LedgerInv /\ [Next]_vars => StageInv'
<1>. SUFFICES ASSUME LedgerInv, [Next]_vars PROVE StageInv'
  OBVIOUS
<1>0. \A q \in Request : StageOK(q)
  BY DEF LedgerInv, StageInv, StageOK
<1>1. CASE UNCHANGED vars
  BY <1>1 DEF LedgerInv, StageInv, vars, payVars, ledgerVars, IsCapture, IsReverse
<1>2. ASSUME NEW r \in Request, StepOf(r), NEW q \in Request PROVE StageOK(q)'
  <2>1. CASE q = r
    BY <1>2, <2>1, OwnStage
  <2>2. CASE q # r
    <3>1. pc'[q] = pc[q] /\ req'[q] = req[q] /\ resp'[q] = resp[q]
      BY <1>2, <2>2, OthersKept
    <3>2. payment[q] = None <=> payment'[q] = None
      BY <1>2, <2>2, OthersKept, RowsKept DEF Recorded
    <3>3. payment[q] # None => payment'[q].reverses = payment[q].reverses
      BY FieldsKept DEF Recorded
    <3>. QED
      BY <1>0, <3>1, <3>2, <3>3 DEF StageOK, IsCapture, IsReverse
  <2>. QED
    BY <2>1, <2>2
<1>. QED
  BY <1>1, <1>2 DEF Next, StepOf, Quiescent, StageInv, StageOK

(* What a step does to the plan of a request.                              *)
LEMMA PlanSteps ==
    ASSUME LedgerInv, [Next]_vars, NEW q \in Request
    PROVE  \/ pc'[q] = pc[q] /\ req'[q] = req[q] /\ plan'[q] = plan[q]
           \/ plan'[q] = plan[q] /\ pc'[q] # "open"
           \/ BeginCapture(q)
           \/ BeginReversal(q)
<1>1. ASSUME NEW r \in Request, StepOf(r)
      PROVE  \/ pc'[q] = pc[q] /\ req'[q] = req[q] /\ plan'[q] = plan[q]
             \/ plan'[q] = plan[q] /\ pc'[q] # "open"
             \/ BeginCapture(q) \/ BeginReversal(q)
  <2>1. CASE r # q
    BY <1>1, <2>1, OthersKept
  <2>2. CASE r = q
    BY <1>1, <2>2
    DEF StepOf, Step, Arrive, RefuseStudent, SerializationFailure, CommitCapture, ResolveClash,
        ReadOriginal, CommitReversal, Respond, Fail, Reply, Advance, LedgerInv, TypeOK, Stage
  <2>. QED
    BY <2>1, <2>2
<1>2. CASE UNCHANGED vars
  BY <1>2 DEF vars, payVars
<1>. QED
  BY <1>1, <1>2 DEF Next, StepOf, Quiescent

(* The number a transaction saw is one of the past.                        *)
LEMMA SeenKept == LedgerInv /\ [Next]_vars => SeenInv'
<1>. SUFFICES ASSUME LedgerInv, [Next]_vars, NEW q \in Request
              PROVE  /\ plan'[q].seen <= lastNumber'
                     /\ pc'[q] = "open" /\ IsCapture(q)' => req'[q].student \in Student
  BY DEF SeenInv
<1>0. /\ plan[q].seen \in Nat /\ lastNumber \in Nat /\ plan[q].seen <= lastNumber
      /\ plan \in [Request -> Plan] /\ pc \in [Request -> Stage]
  BY DEF LedgerInv, TypeOK, LedgerTypeOK, Plan, SeenInv
<1>1. lastNumber' = lastNumber \/ lastNumber' = lastNumber + 1
  BY LedgerSteps, CapturedTable, ReversedTable DEF ledgerVars
<1>2. CASE pc'[q] = pc[q] /\ req'[q] = req[q] /\ plan'[q] = plan[q]
  BY <1>0, <1>1, <1>2 DEF LedgerInv, SeenInv, IsCapture
<1>3. CASE plan'[q] = plan[q] /\ pc'[q] # "open"
  BY <1>0, <1>1, <1>3
<1>4. CASE BeginCapture(q)
  <2>1. CASE Reply(q, "rejected", None) /\ plan' = plan
    BY <1>0, <1>3, <2>1 DEF Reply
  <2>2. CASE \E alloc \in AcceptedAllocations(invoice, payment, req[q]) :
                plan' = [plan EXCEPT ![q] = [alloc |-> alloc, seen |-> lastNumber]]
    BY <1>0, <1>4, <2>2 DEF BeginCapture, ledgerVars
  <2>. QED
    BY <1>4, <2>1, <2>2 DEF BeginCapture
<1>5. CASE BeginReversal(q)
  <2>1. IsReverse(q) /\ req' = req /\ ~IsCapture(q)'
    BY <1>5, DtoTypes DEF BeginReversal, LedgerInv, StageInv, IsReverse, IsCapture
  <2>2. plan'[q].seen = lastNumber /\ lastNumber' = lastNumber
    BY <1>0, <1>5 DEF BeginReversal, ledgerVars, Plan
  <2>. QED
    BY <1>0, <2>1, <2>2
<1>. QED
  BY <1>2, <1>3, <1>4, <1>5, PlanSteps

(* A capture's number is current only while no row has been inserted       *)
(* since, and then what it read is still there.                            *)
LEMMA SnapshotsKept == IInv /\ [Next]_vars => SnapshotInv'
<1>. SUFFICES ASSUME LedgerInv, SnapshotInv, [Next]_vars, NEW q \in Request,
                     pc'[q] = "open", IsCapture(q)', ~Stale(q)'
              PROVE  plan'[q].alloc \in AcceptedAllocations(invoice', payment', req'[q])
  BY DEF IInv, SnapshotInv
<1>0. /\ plan[q].seen \in Nat /\ lastNumber \in Nat /\ plan[q].seen <= lastNumber
      /\ plan \in [Request -> Plan] /\ pc \in [Request -> Stage]
  BY DEF LedgerInv, TypeOK, LedgerTypeOK, Plan, SeenInv
<1>1. (lastNumber' = lastNumber /\ UNCHANGED ledgerVars) \/ lastNumber' = lastNumber + 1
  BY LedgerSteps, CapturedTable, ReversedTable DEF ledgerVars
<1>2. CASE pc'[q] = pc[q] /\ req'[q] = req[q] /\ plan'[q] = plan[q]
  BY <1>0, <1>1, <1>2 DEF SnapshotInv, Stale, IsCapture, ledgerVars
<1>3. CASE BeginCapture(q)
  BY <1>0, <1>3 DEF BeginCapture, Reply, ledgerVars, Stale
<1>4. ~BeginReversal(q)
  BY DtoTypes DEF BeginReversal, LedgerInv, StageInv, IsReverse, IsCapture
<1>. QED
  BY <1>2, <1>3, <1>4, PlanSteps

LEMMA TargetsKept == LedgerInv /\ [Next]_vars => TargetInv'
<1>. SUFFICES ASSUME LedgerInv, [Next]_vars, NEW q \in Request,
                     pc'[q] \in {"validated", "open"}, IsReverse(q)'
              PROVE  /\ req'[q].target \in Recorded'
                     /\ payment'[req'[q].target].reverses = None
  BY DEF TargetInv
<1>1. CASE /\ req[q].target \in Recorded /\ payment[req[q].target].reverses = None
           /\ req'[q] = req[q]
  BY <1>1, RowsKept, FieldsKept
<1>2. ASSUME NEW r \in Request, StepOf(r)
      PROVE  /\ req[q].target \in Recorded /\ payment[req[q].target].reverses = None
             /\ req'[q] = req[q]
  <2>1. CASE r # q
    BY <1>2, <2>1, OthersKept DEF LedgerInv, TargetInv, IsReverse
  <2>2. CASE r = q
    <3>1. \/ BeginCapture(q) \/ ReadOriginal(q) \/ BeginReversal(q)
      BY <1>2, <2>2
      DEF StepOf, Step, Arrive, RefuseStudent, SerializationFailure, CommitCapture, ResolveClash,
          CommitReversal, Respond, Fail, Reply, Advance, LedgerInv, TypeOK
    <3>2. ~BeginCapture(q)
      BY DtoTypes DEF BeginCapture, IsCapture, IsReverse
    <3>3. CASE ReadOriginal(q)
      BY <3>3 DEF ReadOriginal, Reply, Reversible, LedgerInv, TypeOK
    <3>4. CASE BeginReversal(q)
      BY <3>4 DEF BeginReversal, LedgerInv, TargetInv, StageInv
    <3>. QED
      BY <3>1, <3>2, <3>3, <3>4
  <2>. QED
    BY <2>1, <2>2
<1>3. CASE UNCHANGED vars
  BY <1>1, <1>3 DEF vars, payVars, ledgerVars, LedgerInv, TargetInv, IsReverse, Recorded
<1>. QED
  BY <1>1, <1>2, <1>3 DEF Next, StepOf, Quiescent

-----------------------------------------------------------------------------
(* The inductive invariant, and the theorems it gives.                     *)

LEMMA InitInv == Init => IInv
<1>. SUFFICES ASSUME Init PROVE IInv
  OBVIOUS
<1>1. Recorded = {}
  BY DEF Init, Recorded
<1>2. StageInv
  BY DEF Init, StageInv, Working
<1>3. SeenInv /\ SnapshotInv
  BY DEF Init, SeenInv, SnapshotInv, NoPlan
<1>4. TargetInv
  BY DEF Init, TargetInv
<1>5. ReversalInv /\ ReversalsBalance /\ OneRowPerKey
  BY <1>1 DEF ReversalInv, ReversalsBalance, OneRowPerKey, WithKey
<1>6. ReceiptsGapless
  BY <1>1 DEF Init, ReceiptsGapless
<1>. QED
  BY InitType, <1>2, <1>3, <1>4, <1>5, <1>6 DEF IInv, LedgerInv

LEMMA NextLedgerInv == LedgerInv /\ [Next]_vars => LedgerInv'
  BY NextType, StagesKept, SeenKept, TargetsKept, ReversalsKept, ReceiptsKept, KeysKept
  DEF LedgerInv

LEMMA NextInv == IInv /\ [Next]_vars => IInv'
  BY NextLedgerInv, SnapshotsKept DEF IInv

(* The inductive invariant holds in every reachable state.                 *)
THEOREM InductiveInvariant == Spec => []IInv
  BY InitInv, NextInv, PTL DEF Spec

(* Every variable of the payments service keeps its type.                  *)
THEOREM TypeCorrect == Spec => []TypeOK
<1>1. IInv => TypeOK
  BY DEF IInv, LedgerInv
<1>. QED
  BY <1>1, InductiveInvariant, PTL

(* Receipt numbers run 1, 2, ... without gap or repetition.                *)
THEOREM ReceiptNumbers == Spec => []ReceiptsGapless
<1>1. IInv => ReceiptsGapless
  BY DEF IInv, LedgerInv
<1>. QED
  BY <1>1, InductiveInvariant, PTL

(* A payment is voided by exactly one reversal of its amount, and only so. *)
THEOREM ReversalsExact == Spec => []ReversalsBalance
<1>1. IInv => ReversalsBalance
  BY DEF IInv, LedgerInv
<1>. QED
  BY <1>1, InductiveInvariant, PTL

(* However often and wherever an idempotency key is sent, one row bears it.*)
THEOREM KeysIdempotent == Spec => []OneRowPerKey
<1>1. IInv => OneRowPerKey
  BY DEF IInv, LedgerInv
<1>. QED
  BY <1>1, InductiveInvariant, PTL

(* No step changes a committed row but for voiding what it reverses.       *)
THEOREM LedgerAppendOnly == Spec => AppendOnly
<1>1. IInv /\ [Next]_vars => [\A p \in Recorded : RowKept(p)]_vars
  BY RowsKept DEF IInv
<1>. QED
  BY <1>1, InductiveInvariant, PTL DEF Spec, AppendOnly

-----------------------------------------------------------------------------
(* The answers.                                                            *)

LEMMA CommittedKept == LedgerInv /\ CommittedInv /\ [Next]_vars => CommittedInv'
<1>. SUFFICES ASSUME LedgerInv, CommittedInv, [Next]_vars,
                     NEW q \in Request, pc'[q] = "committed"
              PROVE  payment'[q].key = req'[q].key
  BY DEF CommittedInv
<1>1. CASE pc[q] = "committed" /\ req'[q] = req[q]
  <2>1. q \in Recorded /\ payment[q].key = req[q].key
    BY <1>1 DEF CommittedInv, LedgerInv, StageInv, Recorded
  <2>. QED
    BY <1>1, <2>1, FieldsKept
<1>2. ASSUME NEW r \in Request, StepOf(r)
      PROVE  \/ pc[q] = "committed" /\ req'[q] = req[q]
             \/ Captured(q) \/ Reversed(q)
  <2>1. CASE r # q
    BY <1>2, <2>1, OthersKept
  <2>2. CASE r = q
    BY <1>2, <2>2
    DEF StepOf, Step, Arrive, RefuseStudent, BeginCapture, SerializationFailure, CommitCapture,
        ResolveClash, ReadOriginal, BeginReversal, CommitReversal, Respond, Fail, Reply, Advance,
        Captured, Reversed, LedgerInv, TypeOK
  <2>. QED
    BY <2>1, <2>2
<1>3. CASE Captured(q)
  <2>1. req' = req
    BY <1>3 DEF Captured, CommitCapture
  <2>. QED
    BY <1>3, <2>1, CapturedTable, CaptureFields
<1>4. CASE Reversed(q)
  <2>1. req' = req /\ payment'[q] = ReversalRow(q)
    BY <1>4, ReversedTable DEF Reversed, CommitReversal
  <2>. QED
    BY <2>1, ReversalFields
<1>5. CASE UNCHANGED vars
  BY <1>1, <1>5 DEF vars, payVars
<1>. QED
  BY <1>1, <1>2, <1>3, <1>4, <1>5 DEF Next, StepOf, Quiescent

(* A row that carries a key carries it for good.                           *)
LEMMA KeyRowsKept ==
    ASSUME LedgerInv, [Next]_vars, NEW k, NEW p \in WithKey(k)
    PROVE  p \in Recorded' /\ payment'[p].key = k
  BY RowsKept, FieldsKept DEF WithKey

HonestTo(r) ==
    IsCapture(r) /\ resp[r].outcome \in {"created", "replay"} =>
        /\ resp[r].payment \in WithKey(req[r].key)
        /\ resp[r].outcome = "created" => resp[r].payment = r

LEMMA OwnAnswer ==
    ASSUME LedgerInv, CommittedInv, [Next]_vars, NEW r \in Request, StepOf(r), HonestTo(r)
    PROVE  HonestTo(r)'
<1>0. /\ resp \in [Request -> Response] /\ req \in [Request -> CaptureDto \cup ReverseDto \cup {None}]
      /\ pc[r] # "done" => resp[r] = Pending
  BY DEF LedgerInv, TypeOK, StageInv
<1>1. ASSUME NEW p, NEW o, Reply(r, o, p),
             \/ o \notin {"created", "replay"}
             \/ o = "replay" /\ p \in WithKey(req[r].key)'
             \/ o = "created" /\ ~IsCapture(r)'
             \/ o = "created" /\ p = r /\ r \in WithKey(req[r].key)'
      PROVE  HonestTo(r)'
  <2>1. resp'[r].outcome = o /\ resp'[r].payment = p
    BY <1>0, <1>1 DEF Reply, Answer
  <2>. QED
    BY <1>1, <2>1 DEF HonestTo
<1>2. CASE resp' = resp /\ pc[r] # "done"
  BY <1>0, <1>2 DEF HonestTo, Pending, Answer
<1>3. ASSUME NEW dto \in CaptureDto \cup ReverseDto, Arrive(r, dto) PROVE HonestTo(r)'
  <2>1. pc[r] # "done" /\ req'[r] = dto
    BY <1>0, <1>3 DEF Arrive
  <2>2. ASSUME NEW p \in WithKey(dto.key), Reply(r, "replay", p) PROVE HonestTo(r)'
    <3>1. p \in WithKey(req[r].key)'
      BY <2>1, <2>2, KeyRowsKept DEF WithKey
    <3>. QED
      BY <1>1, <2>2, <3>1
  <2>. QED
    BY <1>2, <1>3, <2>1, <2>2 DEF Arrive, Advance
<1>4. CASE ResolveClash(r)
  <2>1. req' = req
    BY <1>4 DEF ResolveClash
  <2>2. ASSUME NEW p \in WithKey(req[r].key), Reply(r, "replay", p) PROVE HonestTo(r)'
    <3>1. p \in WithKey(req[r].key)'
      BY <2>1, <2>2, KeyRowsKept DEF WithKey
    <3>. QED
      BY <1>1, <2>2, <3>1
  <2>. QED
    BY <1>1, <1>4, <2>2 DEF ResolveClash
<1>5. CASE Respond(r)
  <2>1. req' = req /\ r \in WithKey(req[r].key)
    BY <1>5 DEF Respond, CommittedInv, LedgerInv, StageInv, WithKey, Recorded
  <2>2. r \in WithKey(req[r].key)'
    BY <2>1, KeyRowsKept DEF WithKey
  <2>3. CASE IsReverse(r)
    <3>1. ~IsCapture(r)'
      BY <2>1, <2>3, DtoTypes DEF IsCapture, IsReverse
    <3>. QED
      BY <1>1, <1>5, <2>3, <3>1 DEF Respond
  <2>4. CASE ~IsReverse(r)
    BY <1>1, <1>5, <2>2, <2>4 DEF Respond
  <2>. QED
    BY <2>3, <2>4
<1>6. CASE RefuseStudent(r) \/ SerializationFailure(r) \/ Fail(r)
  BY <1>1, <1>6 DEF RefuseStudent, SerializationFailure, Fail
<1>7. CASE BeginCapture(r) \/ CommitCapture(r) \/ ReadOriginal(r) \/ BeginReversal(r) \/ CommitReversal(r)
  <2>1. /\ pc[r] # "done"
        /\ resp' = resp \/ Reply(r, "rejected", None) \/ Reply(r, "error", None)
    BY <1>7 DEF BeginCapture, CommitCapture, ReadOriginal, BeginReversal, CommitReversal, Advance
  <2>. QED
    BY <1>1, <1>2, <2>1
<1>. QED
  BY <1>3, <1>4, <1>5, <1>6, <1>7 DEF StepOf, Step

LEMMA AnswersKept == LedgerInv /\ AnswersInv /\ [Next]_vars => AnswersInv'
<1>. SUFFICES ASSUME LedgerInv, CommittedInv, \A q \in Request : HonestTo(q), [Next]_vars
              PROVE  CommittedInv' /\ \A q \in Request : HonestTo(q)'
  BY DEF AnswersInv, CaptureAnswersHonest, HonestTo
<1>1. ASSUME NEW q \in Request, UNCHANGED <<req[q], resp[q]>> PROVE HonestTo(q)'
  <2>1. \A k : \A p \in WithKey(k) : p \in Recorded' /\ payment'[p].key = k
    BY KeyRowsKept
  <2>. QED
    BY <1>1, <2>1 DEF HonestTo, IsCapture, WithKey
<1>2. ASSUME NEW r \in Request, StepOf(r), NEW q \in Request PROVE HonestTo(q)'
  <2>1. CASE q = r
    BY <1>2, <2>1, OwnAnswer
  <2>2. CASE q # r
    BY <1>1, <1>2, <2>2, OthersKept
  <2>. QED
    BY <2>1, <2>2
<1>3. ASSUME UNCHANGED vars, NEW q \in Request PROVE HonestTo(q)'
  BY <1>1, <1>3 DEF vars, payVars
<1>. QED
  BY <1>2, <1>3, CommittedKept DEF Next, StepOf, Quiescent

(* What a client is told of its capture is a row that carries its key.     *)
THEOREM AnswersHonest == Spec => []CaptureAnswersHonest
<1>1. Init => AnswersInv
  BY DEF Init, AnswersInv, CommittedInv, CaptureAnswersHonest, Pending, Answer
<1>2. IInv => LedgerInv
  BY DEF IInv
<1>3. AnswersInv => CaptureAnswersHonest
  BY DEF AnswersInv
<1>. QED
  BY <1>1, <1>2, <1>3, AnswersKept, InductiveInvariant, PTL DEF Spec

-----------------------------------------------------------------------------
(* Payments implements AtomicLedger: each step of a handler is one step of *)
(* the atomic ledger or none.                                              *)

LEMMA InitRefines == Init => Atomic!Init
  BY DEF Init, Atomic!Init, Pending, Answer, Atomic!Silent, Atomic!Says

LEMMA PresentIsRecorded == Atomic!Present = Recorded
  BY DEF Atomic!Present, Recorded

(* Answering is telling, when the answer is one the ledger allows.         *)
LEMMA ReplyTells ==
    ASSUME LedgerInv, NEW r \in Request, pc[r] # "done", NEW o, NEW p,
           Reply(r, o, p), UNCHANGED ledgerVars, Answer(o, p) \in Atomic!Told(r)
    PROVE  Atomic!Tell(r)
<1>1. resp[r] = Pending
  BY DEF LedgerInv, StageInv
<1>2. resp' = [resp EXCEPT ![r] = Answer(o, p)]
  BY DEF Reply
<1>. QED
  BY <1>1, <1>2 DEF Atomic!Tell, ledgerVars, Atomic!Silent, Pending, Atomic!Says, Answer

(* The answers the ledger allows.                                          *)
LEMMA ErrorTold == \A r : Answer("error", None) \in Atomic!Told(r)
  BY DEF Atomic!Told, Atomic!Says, Answer

LEMMA RejectedTold ==
    ASSUME NEW r, r \notin Recorded
    PROVE  Answer("rejected", None) \in Atomic!Told(r)
  BY PresentIsRecorded DEF Atomic!Told, Atomic!Says, Answer

LEMMA ReplayTold ==
    ASSUME NEW r, r \notin Recorded, NEW p \in Recorded
    PROVE  Answer("replay", p) \in Atomic!Told(r)
  BY PresentIsRecorded DEF Atomic!Told, Atomic!Says, Answer

LEMMA CreatedTold ==
    ASSUME NEW r \in Recorded
    PROVE  Answer("created", IF payment[r].reverses = None THEN r ELSE payment[r].reverses)
              \in Atomic!Told(r)
  BY PresentIsRecorded DEF Atomic!Told, Atomic!Says, Answer

(* The two commits are the two atomic actions.                             *)
LEMMA CaptureRefines ==
    ASSUME IInv, NEW r \in Request, Captured(r)
    PROVE  Atomic!Next
<1>0. LedgerInv /\ SnapshotInv
  BY DEF IInv
<1>1. /\ pc[r] = "open" /\ IsCapture(r) /\ req[r] \in CaptureDto /\ ~Stale(r)
      /\ ~CaptureTaken(req[r])
      /\ payment' = [payment EXCEPT ![r] = CaptureRow(r)]
      /\ lastNumber' = lastNumber + 1 /\ resp' = resp /\ invoice' = invoice
  BY DEF Captured, CommitCapture, IsCapture, Advance
<1>2. payment[r] = None /\ resp[r] = Atomic!Silent
  BY <1>0, <1>1 DEF LedgerInv, StageInv, Working, Atomic!Silent, Pending, Atomic!Says, Answer
<1>3. Atomic!Unused("key", req[r].key) /\ Atomic!Unused("reference", req[r].reference)
  BY <1>1, PresentIsRecorded DEF CaptureTaken, WithKey, WithReference, Atomic!Unused
<1>4. /\ req[r].student \in Student
      /\ plan[r].alloc \in AcceptedAllocations(invoice, payment, req[r])
  BY <1>0, <1>1 DEF LedgerInv, SeenInv, SnapshotInv
<1>5. Atomic!CapturePayment(r, req[r])
  BY <1>1, <1>2, <1>3, <1>4
  DEF Atomic!CapturePayment, Atomic!MayAct, Atomic!Insert, CaptureRow
<1>. QED
  BY <1>1, <1>5 DEF Atomic!Next

LEMMA ReversalRefines ==
    ASSUME LedgerInv, NEW r \in Request, Reversed(r)
    PROVE  Atomic!Next
<1>1. /\ pc[r] = "open" /\ req[r] \in ReverseDto
      /\ ~ReversalTaken(req[r])
      /\ payment' = [payment EXCEPT ![req[r].target].status = "VOIDED", ![r] = ReversalRow(r)]
      /\ lastNumber' = lastNumber + 1 /\ resp' = resp /\ invoice' = invoice
  BY DEF Reversed, CommitReversal, Voided, IsReverse, Advance
<1>2. payment[r] = None /\ resp[r] = Atomic!Silent
  BY <1>1 DEF LedgerInv, StageInv, Working, Atomic!Silent, Pending, Atomic!Says, Answer
<1>3. Atomic!Unused("key", req[r].key)
  BY <1>1, PresentIsRecorded DEF ReversalTaken, WithKey, Atomic!Unused
<1>4. Reversible(req[r].target)
  BY ReversedTable
<1>5. Atomic!ReversePayment(r, req[r])
  BY <1>1, <1>2, <1>3, <1>4, PresentIsRecorded
  DEF Atomic!ReversePayment, Atomic!MayAct, Atomic!Insert, ReversalRow, Reversible
<1>. QED
  BY <1>1, <1>5 DEF Atomic!Next

LEMMA StepRefines == IInv /\ [Next]_vars => [Atomic!Next]_(Atomic!vars)
<1>. SUFFICES ASSUME IInv, LedgerInv, [Next]_vars PROVE [Atomic!Next]_(Atomic!vars)
  BY DEF IInv
<1>1. ASSUME UNCHANGED ledgerVars, resp' = resp PROVE [Atomic!Next]_(Atomic!vars)
  BY <1>1 DEF ledgerVars, Atomic!vars
<1>2. ASSUME NEW r \in Request, StepOf(r) PROVE [Atomic!Next]_(Atomic!vars)
  <2>1. ASSUME NEW o, NEW p, Reply(r, o, p), UNCHANGED ledgerVars, pc[r] # "done",
               Answer(o, p) \in Atomic!Told(r)
        PROVE  [Atomic!Next]_(Atomic!vars)
    BY <2>1, ReplyTells DEF Atomic!Next
  <2>2. pc[r] \in Working \cup {"new"} => r \notin Recorded
    BY DEF LedgerInv, StageInv, Recorded
  <2>3. ASSUME NEW dto \in CaptureDto \cup ReverseDto, Arrive(r, dto)
        PROVE  [Atomic!Next]_(Atomic!vars)
    <3>1. CASE \E p \in WithKey(dto.key) : Reply(r, "replay", p)
      BY <2>1, <2>2, <2>3, <3>1, ReplayTold DEF Arrive, WithKey
    <3>2. CASE Advance(r, "checked")
      BY <1>1, <2>3, <3>2 DEF Arrive, Advance
    <3>. QED
      BY <2>3, <3>1, <3>2 DEF Arrive
  <2>4. CASE RefuseStudent(r)
    BY <2>1, <2>2, <2>4, RejectedTold DEF RefuseStudent, Working
  <2>5. CASE BeginCapture(r)
    <3>1. UNCHANGED ledgerVars /\ pc[r] = "checked"
      BY <2>5 DEF BeginCapture
    <3>2. Reply(r, "rejected", None) \/ Advance(r, "open")
      BY <2>5 DEF BeginCapture
    <3>. QED
      BY <1>1, <2>1, <2>2, <3>1, <3>2, RejectedTold DEF Working, Advance
  <2>6. CASE SerializationFailure(r)
    BY <2>1, <2>6, ErrorTold DEF SerializationFailure
  <2>7. CASE CommitCapture(r)
    <3>1. CASE Captured(r)
      BY <3>1, CaptureRefines
    <3>2. CASE ~Captured(r)
      BY <1>1, <2>7, <3>2 DEF CommitCapture, Captured, Advance, ledgerVars
    <3>. QED
      BY <3>1, <3>2
  <2>8. CASE ResolveClash(r)
    <3>1. r \notin Recorded /\ pc[r] # "done" /\ UNCHANGED ledgerVars
      BY <2>2, <2>8 DEF ResolveClash, Working
    <3>2. CASE \E p \in WithKey(req[r].key) : Reply(r, "replay", p)
      BY <2>1, <3>1, <3>2, ReplayTold DEF WithKey
    <3>3. CASE Reply(r, "rejected", None)
      BY <2>1, <3>1, <3>3, RejectedTold
    <3>. QED
      BY <2>8, <3>2, <3>3 DEF ResolveClash
  <2>9. CASE ReadOriginal(r)
    <3>1. UNCHANGED ledgerVars /\ pc[r] = "checked"
      BY <2>9 DEF ReadOriginal
    <3>2. Reply(r, "rejected", None) \/ Advance(r, "validated")
      BY <2>9 DEF ReadOriginal
    <3>. QED
      BY <1>1, <2>1, <2>2, <3>1, <3>2, RejectedTold DEF Working, Advance
  <2>10. CASE BeginReversal(r)
    BY <1>1, <2>10 DEF BeginReversal, Advance
  <2>11. CASE CommitReversal(r)
    <3>1. CASE Reversed(r)
      BY <3>1, ReversalRefines
    <3>2. CASE ~Reversed(r)
      <4>1. Reply(r, "error", None) /\ UNCHANGED ledgerVars /\ pc[r] = "open"
        BY <2>11, <3>2 DEF CommitReversal, Reversed, ledgerVars
      <4>. QED
        BY <2>1, <4>1, ErrorTold
    <3>. QED
      BY <3>1, <3>2
  <2>12. CASE Respond(r)
    <3>1. r \in Recorded /\ pc[r] # "done" /\ UNCHANGED ledgerVars
      BY <2>12 DEF Respond, LedgerInv, StageInv, Recorded
    <3>2. (IF IsReverse(r) THEN req[r].target ELSE r)
             = (IF payment[r].reverses = None THEN r ELSE payment[r].reverses)
      <4>1. CASE IsReverse(r)
        <5>1. req[r].target \in Request
          BY <4>1, DtoTypes DEF IsReverse, ReverseRequest
        <5>. QED
          BY <2>12, <4>1, <5>1, NoneAssumption DEF Respond, LedgerInv, StageInv
      <4>2. CASE ~IsReverse(r)
        BY <2>12, <4>2 DEF Respond, LedgerInv, StageInv
      <4>. QED
        BY <4>1, <4>2
    <3>3. Reply(r, "created", IF payment[r].reverses = None THEN r ELSE payment[r].reverses)
      BY <2>12, <3>2 DEF Respond
    <3>. QED
      BY <2>1, <3>1, <3>3, CreatedTold
  <2>13. CASE Fail(r)
    BY <2>1, <2>13, ErrorTold DEF Fail
  <2>. QED
    BY <1>2, <2>3, <2>4, <2>5, <2>6, <2>7, <2>8, <2>9, <2>10, <2>11, <2>12, <2>13
    DEF StepOf, Step
<1>3. CASE UNCHANGED vars
  BY <1>1, <1>3 DEF vars, payVars
<1>. QED
  BY <1>2, <1>3 DEF Next, StepOf, Quiescent

(* Every behaviour of the payments service is one of the atomic ledger: no *)
(* interleaving of captures and reversals, and no failure between their    *)
(* steps, is visible in the ledger or in the answers.                      *)
THEOREM Refinement == Spec => ImplementsAtomicLedger
  BY InitRefines, StepRefines, InductiveInvariant, PTL
  DEF Spec, ImplementsAtomicLedger, Atomic!Spec

-----------------------------------------------------------------------------
(* What the sums of the tables obey.  A sum is a recursive function on the *)
(* subsets of its index set, so each fact is an induction over a set of    *)
(* subsets, by way of a least counterexample.                              *)

(* A non-empty set of naturals has a least element.                        *)
LEMMA Least ==
    ASSUME NEW T, T \subseteq Nat, T # {}
    PROVE  \E n \in T : \A m \in T : n <= m
<1>. DEFINE R == OpToRel(<, Nat)
<1>1. IsWellFoundedOn(R, Nat)
  BY NatLessThanWellFounded
<1>2. PICK n \in T : \A m \in T : ~ (<<m, n>> \in R)
  <2>. HIDE DEF R
  <2>. QED
    BY <1>1, WFMin
<1>3. \A m \in T : n <= m
  <2>. SUFFICES ASSUME NEW m \in T, m < n PROVE FALSE
    OBVIOUS
  <2>1. <<m, n>> \in Nat \X Nat /\ <<m, n>>[1] < <<m, n>>[2]
    OBVIOUS
  <2>2. <<m, n>> \in R
    BY <2>1 DEF OpToRel
  <2>. QED
    BY <1>2, <2>2
<1>. QED
  BY <1>3

LEMMA Subsets ==
    ASSUME NEW S, IsFiniteSet(S)
    PROVE  \A T \in SUBSET S :
              /\ IsFiniteSet(T)
              /\ Cardinality(T) \in Nat
              /\ Cardinality(T) <= Cardinality(S)
              /\ Cardinality(T) = 0 <=> T = {}
              /\ \A x \in T : Cardinality(T \ {x}) = Cardinality(T) - 1
  BY FS_Subset, FS_EmptySet, FS_CardinalityType, FS_RemoveElement

(* Induction: what a subset has whenever its parts with one element less   *)
(* have it, the whole has.                                                 *)
LEMMA SubsetInduction ==
    ASSUME NEW S, IsFiniteSet(S), NEW P,
           \A T \in SUBSET S : (\A x \in T : T \ {x} \in P) => T \in P
    PROVE  S \in P
<1>. SUFFICES ASSUME S \notin P PROVE FALSE
  OBVIOUS
<1>. DEFINE Bad == {Cardinality(T) : T \in (SUBSET S) \ P}
<1>1. Bad \subseteq Nat /\ Bad # {}
  BY Subsets
<1>2. PICK n \in Bad : \A m \in Bad : n <= m
  <2>. HIDE DEF Bad
  <2>. QED
    BY <1>1, Least
<1>3. PICK T \in (SUBSET S) \ P : n = Cardinality(T)
  OBVIOUS
<1>4. \A x \in T : T \ {x} \in P
  <2>. SUFFICES ASSUME NEW x \in T, T \ {x} \notin P PROVE FALSE
    OBVIOUS
  <2>1. Cardinality(T \ {x}) \in Bad /\ Cardinality(T) \in Nat
        /\ Cardinality(T \ {x}) = Cardinality(T) - 1
    BY Subsets
  <2>2. n <= Cardinality(T \ {x})
    BY <1>2, <2>1
  <2>. QED
    BY <1>3, <2>1, <2>2
<1>. QED
  BY <1>3, <1>4

-----------------------------------------------------------------------------
(* The recursive function behind a sum.                                    *)

Pick(s) == CHOOSE x \in s : TRUE

IsSum(it, f, S) ==
    it = [s \in SUBSET S |-> IF s = {} THEN 0 ELSE f[Pick(s)] + it[s \ {Pick(s)}]]

Small(S, n) == {s \in SUBSET S : Cardinality(s) <= n}

IsSumUpTo(it, f, S, n) ==
    it = [s \in Small(S, n) |-> IF s = {} THEN 0 ELSE f[Pick(s)] + it[s \ {Pick(s)}]]

LEMMA PickIn == \A s : s # {} => Pick(s) \in s
  BY DEF Pick

LEMMA SumStep ==
    ASSUME NEW S, IsFiniteSet(S), NEW f, NEW n \in Nat \ {0},
           NEW g, IsSumUpTo(g, f, S, n - 1)
    PROVE  \E h : IsSumUpTo(h, f, S, n)
<1>. DEFINE Body(s) == IF s = {} THEN 0 ELSE f[Pick(s)] + g[s \ {Pick(s)}]
            h == [s \in Small(S, n) |-> Body(s)]
<1>1. \A s \in Small(S, n) : s # {} => s \ {Pick(s)} \in Small(S, n - 1)
  BY Subsets, PickIn DEF Small
<1>2. ASSUME NEW s \in Small(S, n - 1) PROVE s \in Small(S, n) /\ h[s] = g[s]
  <2>1. s \in Small(S, n)
    BY Subsets DEF Small
  <2>2. g[s] = Body(s)
    BY DEF IsSumUpTo
  <2>. QED
    BY <2>1, <2>2
<1>3. \A s \in Small(S, n) :
         Body(s) = IF s = {} THEN 0 ELSE f[Pick(s)] + h[s \ {Pick(s)}]
  <2>. HIDE DEF h
  <2>. QED
    BY <1>1, <1>2
<1>4. h = [s \in Small(S, n) |-> Body(s)]
  OBVIOUS
<1>5. IsSumUpTo(h, f, S, n)
  <2>. HIDE DEF h, Body
  <2>. QED
    BY <1>3, <1>4 DEF IsSumUpTo
<1>. QED
  BY <1>5

LEMMA SumExists ==
    ASSUME NEW S, IsFiniteSet(S), NEW f
    PROVE  \E it : IsSum(it, f, S)
<1>. DEFINE T == {n \in Nat : ~\E it : IsSumUpTo(it, f, S, n)}
<1>1. T = {}
  <2>. SUFFICES ASSUME T # {} PROVE FALSE
    OBVIOUS
  <2>1. PICK n \in T : \A m \in T : n <= m
    <3>1. T \subseteq Nat
      OBVIOUS
    <3>. HIDE DEF T
    <3>. QED
      BY <3>1, Least
  <2>2. CASE n = 0
    <3>. DEFINE g == [s \in Small(S, 0) |-> 0]
    <3>1. \A s \in Small(S, 0) : s = {}
      BY Subsets DEF Small
    <3>2. IsSumUpTo(g, f, S, 0)
      BY <3>1 DEF IsSumUpTo
    <3>. QED
      BY <2>2, <3>2
  <2>3. CASE n # 0
    <3>1. n \in Nat \ {0} /\ n - 1 \in Nat /\ n - 1 \notin T
      BY <2>1, <2>3
    <3>2. PICK g : IsSumUpTo(g, f, S, n - 1)
      BY <3>1
    <3>. QED
      BY <3>1, <3>2, SumStep
  <2>. QED
    BY <2>2, <2>3
<1>2. S \in SUBSET S
  OBVIOUS
<1>3. PICK it : IsSumUpTo(it, f, S, Cardinality(S))
  BY <1>1, <1>2, Subsets
<1>4. Small(S, Cardinality(S)) = SUBSET S
  BY Subsets DEF Small
<1>. QED
  BY <1>3, <1>4 DEF IsSumUpTo, IsSum

(* It is unique, and only the values on S matter.                          *)
LEMMA SumUnique ==
    ASSUME NEW S, IsFiniteSet(S), NEW f, NEW e, \A x \in S : f[x] = e[x],
           NEW g, IsSum(g, f, S), NEW h, IsSum(h, e, S)
    PROVE  g[S] = h[S]
<1>. DEFINE P == {T \in SUBSET S : g[T] = h[T]}
<1>1. ASSUME NEW T \in SUBSET S, \A x \in T : T \ {x} \in P PROVE T \in P
  <2>1. /\ g[T] = IF T = {} THEN 0 ELSE f[Pick(T)] + g[T \ {Pick(T)}]
        /\ h[T] = IF T = {} THEN 0 ELSE e[Pick(T)] + h[T \ {Pick(T)}]
    BY DEF IsSum
  <2>2. CASE T # {}
    <3>1. Pick(T) \in T
      BY <2>2, PickIn
    <3>2. g[T \ {Pick(T)}] = h[T \ {Pick(T)}] /\ f[Pick(T)] = e[Pick(T)]
      BY <1>1, <3>1
    <3>. QED
      BY <2>1, <2>2, <3>2
  <2>. QED
    BY <2>1, <2>2
<1>2. S \in P
  <2>. HIDE DEF P
  <2>. QED
    BY <1>1, SubsetInduction
<1>. QED
  BY <1>2

LEMMA SumUnfold ==
    ASSUME NEW S, IsFiniteSet(S), NEW f
    PROVE  \E it : IsSum(it, f, S) /\ SumFunctionOnSet(f, S) = it[S]
<1>. DEFINE it == CHOOSE g : IsSum(g, f, S)
<1>1. IsSum(it, f, S)
  BY SumExists
<1>2. SumFunctionOnSet(f, S) = it[S]
  BY DEF SumFunctionOnSet, FoldFunctionOnSet, MapThenFoldSet, IsSum, Pick
<1>. QED
  BY <1>1, <1>2

-----------------------------------------------------------------------------
(* The laws of sums.                                                       *)

LEMMA SumSame ==
    ASSUME NEW S, IsFiniteSet(S), NEW f, NEW e, \A x \in S : f[x] = e[x]
    PROVE  SumFunctionOnSet(f, S) = SumFunctionOnSet(e, S)
  BY SumUnfold, SumUnique

LEMMA SumEmpty == \A f : SumFunctionOnSet(f, {}) = 0
<1>. TAKE f
<1>1. PICK it : IsSum(it, f, {}) /\ SumFunctionOnSet(f, {}) = it[{}]
  BY SumUnfold, FS_EmptySet
<1>. QED
  BY <1>1 DEF IsSum

LEMMA SumPicked ==
    ASSUME NEW S, IsFiniteSet(S), S # {}, NEW f
    PROVE  SumFunctionOnSet(f, S) = f[Pick(S)] + SumFunctionOnSet(f, S \ {Pick(S)})
<1>. DEFINE R == S \ {Pick(S)}
<1>1. PICK it : IsSum(it, f, S) /\ SumFunctionOnSet(f, S) = it[S]
  BY SumUnfold
<1>2. it[S] = f[Pick(S)] + it[R]
  BY <1>1 DEF IsSum
<1>. DEFINE part == [s \in SUBSET R |-> it[s]]
<1>3. IsSum(part, f, R)
  <2>1. ASSUME NEW s \in SUBSET R
        PROVE  part[s] = IF s = {} THEN 0 ELSE f[Pick(s)] + part[s \ {Pick(s)}]
    <3>1. it[s] = IF s = {} THEN 0 ELSE f[Pick(s)] + it[s \ {Pick(s)}]
      BY <1>1 DEF IsSum
    <3>2. part[s] = it[s] /\ part[s \ {Pick(s)}] = it[s \ {Pick(s)}]
      OBVIOUS
    <3>. QED
      BY <3>1, <3>2
  <2>2. part = [s \in SUBSET R |-> part[s]]
    OBVIOUS
  <2>. HIDE DEF part
  <2>. QED
    BY <2>1, <2>2 DEF IsSum
<1>4. IsFiniteSet(R)
  BY Subsets
<1>5. PICK g : IsSum(g, f, R) /\ SumFunctionOnSet(f, R) = g[R]
  BY <1>4, SumUnfold
<1>6. g[R] = part[R]
  <2>. HIDE DEF part, R
  <2>. QED
    BY <1>3, <1>4, <1>5, SumUnique
<1>. QED
  BY <1>1, <1>2, <1>5, <1>6

LEMMA SumInt ==
    ASSUME NEW S, IsFiniteSet(S), NEW f, \A x \in S : f[x] \in Int
    PROVE  SumFunctionOnSet(f, S) \in Int
<1>. DEFINE P == {T \in SUBSET S : SumFunctionOnSet(f, T) \in Int}
<1>1. ASSUME NEW T \in SUBSET S, \A x \in T : T \ {x} \in P PROVE T \in P
  <2>1. CASE T = {}
    BY <2>1, SumEmpty
  <2>2. CASE T # {}
    <3>1. Pick(T) \in T /\ IsFiniteSet(T)
      BY <2>2, PickIn, Subsets
    <3>2. SumFunctionOnSet(f, T) = f[Pick(T)] + SumFunctionOnSet(f, T \ {Pick(T)})
      BY <2>2, <3>1, SumPicked
    <3>3. SumFunctionOnSet(f, T \ {Pick(T)}) \in Int /\ f[Pick(T)] \in Int
      BY <1>1, <3>1
    <3>. QED
      BY <3>2, <3>3
  <2>. QED
    BY <2>1, <2>2
<1>2. S \in P
  <2>. HIDE DEF P
  <2>. QED
    BY <1>1, SubsetInduction
<1>. QED
  BY <1>2

(* Any element may be taken out first.                                     *)
LEMMA SumSplit ==
    ASSUME NEW S, IsFiniteSet(S), NEW f, \A x \in S : f[x] \in Int, NEW x \in S
    PROVE  SumFunctionOnSet(f, S) = f[x] + SumFunctionOnSet(f, S \ {x})
<1>. DEFINE Sigma(T) == SumFunctionOnSet(f, T)
            P == {T \in SUBSET S : \A y \in T : Sigma(T) = f[y] + Sigma(T \ {y})}
<1>0. \A T \in SUBSET S : IsFiniteSet(T) /\ Sigma(T) \in Int
  BY Subsets, SumInt
<1>1. ASSUME NEW T \in SUBSET S, \A y \in T : T \ {y} \in P, NEW y \in T
      PROVE  Sigma(T) = f[y] + Sigma(T \ {y})
  <2>. DEFINE z == Pick(T)
  <2>1. z \in T /\ Sigma(T) = f[z] + Sigma(T \ {z})
    BY <1>0, PickIn, SumPicked
  <2>2. CASE y # z
    <3>. HIDE DEF z, Sigma
    <3>1. PICK rest \in Int : rest = Sigma((T \ {y}) \ {z})
      BY <1>0
    <3>2. (T \ {z}) \ {y} = (T \ {y}) \ {z}
      OBVIOUS
    <3>3. Sigma(T \ {z}) = f[y] + rest
      BY <1>1, <2>1, <2>2, <3>1, <3>2
    <3>4. Sigma(T \ {y}) = f[z] + rest
      BY <1>1, <2>1, <2>2, <3>1
    <3>5. f[y] \in Int /\ f[z] \in Int
      BY <2>1
    <3>6. Sigma(T) = f[z] + (f[y] + rest)
      BY <2>1, <3>3
    <3>7. f[z] + (f[y] + rest) = f[y] + (f[z] + rest)
      BY <3>1, <3>5
    <3>. QED
      BY <3>4, <3>6, <3>7
  <2>. QED
    BY <2>1, <2>2
<1>2. S \in P
  <2>1. \A T \in SUBSET S : (\A y \in T : T \ {y} \in P) => T \in P
    BY <1>1
  <2>. HIDE DEF P
  <2>. QED
    BY <2>1, SubsetInduction
<1>. QED
  BY <1>2

LEMMA SumNat ==
    ASSUME NEW S, IsFiniteSet(S), NEW f, \A x \in S : f[x] \in Nat
    PROVE  SumFunctionOnSet(f, S) \in Nat
<1>. DEFINE P == {T \in SUBSET S : SumFunctionOnSet(f, T) \in Nat}
<1>1. ASSUME NEW T \in SUBSET S, \A x \in T : T \ {x} \in P PROVE T \in P
  <2>1. CASE T = {}
    BY <2>1, SumEmpty
  <2>2. ASSUME NEW x \in T PROVE T \in P
    <3>0. \A y \in T : f[y] \in Int
      OBVIOUS
    <3>1. SumFunctionOnSet(f, T) = f[x] + SumFunctionOnSet(f, T \ {x})
      BY <3>0, Subsets, SumSplit
    <3>2. SumFunctionOnSet(f, T \ {x}) \in Nat /\ f[x] \in Nat
      BY <1>1
    <3>. QED
      BY <3>1, <3>2
  <2>. QED
    BY <2>1, <2>2
<1>2. S \in P
  <2>. HIDE DEF P
  <2>. QED
    BY <1>1, SubsetInduction
<1>. QED
  BY <1>2

LEMMA SumMinus ==
    ASSUME NEW S, IsFiniteSet(S), NEW f, NEW g, NEW h,
           \A x \in S : f[x] \in Int /\ g[x] \in Int /\ h[x] = f[x] - g[x]
    PROVE  SumFunctionOnSet(h, S) = SumFunctionOnSet(f, S) - SumFunctionOnSet(g, S)
<1>. DEFINE Law(T) == SumFunctionOnSet(h, T) = SumFunctionOnSet(f, T) - SumFunctionOnSet(g, T)
            P == {T \in SUBSET S : Law(T)}
<1>1. ASSUME NEW T \in SUBSET S, \A x \in T : T \ {x} \in P PROVE Law(T)
  <2>1. CASE T = {}
    BY <2>1, SumEmpty
  <2>2. ASSUME NEW x \in T PROVE Law(T)
    <3>0. \A y \in T : h[y] \in Int
      OBVIOUS
    <3>1. /\ SumFunctionOnSet(f, T) = f[x] + SumFunctionOnSet(f, T \ {x})
          /\ SumFunctionOnSet(g, T) = g[x] + SumFunctionOnSet(g, T \ {x})
          /\ SumFunctionOnSet(h, T) = h[x] + SumFunctionOnSet(h, T \ {x})
      BY <3>0, Subsets, SumSplit
    <3>2. /\ SumFunctionOnSet(f, T \ {x}) \in Int
          /\ SumFunctionOnSet(g, T \ {x}) \in Int
      BY Subsets, SumInt
    <3>3. Law(T \ {x})
      BY <1>1
    <3>. QED
      BY <3>1, <3>2, <3>3
  <2>. QED
    BY <2>1, <2>2
<1>2. S \in P
  <2>1. \A T \in SUBSET S : (\A x \in T : T \ {x} \in P) => T \in P
    BY <1>1
  <2>. HIDE DEF P
  <2>. QED
    BY <2>1, SubsetInduction
<1>. QED
  BY <1>2

-----------------------------------------------------------------------------
(* What a capture allocates.                                               *)

LEMMA NatSetInduction ==
    ASSUME NEW P, 0 \in P, \A n \in Nat : n \in P => n + 1 \in P
    PROVE  Nat \subseteq P
<1>. SUFFICES ASSUME Nat \ P # {} PROVE FALSE
  OBVIOUS
<1>1. PICK n \in Nat \ P : \A m \in Nat \ P : n <= m
  BY Least
<1>2. n # 0 /\ n - 1 \in Nat /\ ~ (n <= n - 1)
  OBVIOUS
<1>3. n - 1 \in P
  BY <1>1, <1>2
<1>4. (n - 1) + 1 = n
  OBVIOUS
<1>. QED
  BY <1>2, <1>3, <1>4

LEMMA PaidNat ==
    ASSUME NEW pay \in [Request -> PaymentRow \cup {None}], IsFiniteSet(Completed(pay)),
           NEW i \in Invoice
    PROVE  Paid(pay, i) \in Nat
<1>. DEFINE f == [p \in Completed(pay) |-> pay[p].alloc[i]]
<1>1. \A p \in Completed(pay) : f[p] \in Nat
  BY DEF Completed, PaymentRow, Allocation
<1>2. Paid(pay, i) = SumFunctionOnSet(f, Completed(pay))
  BY DEF Paid, SumFunction
<1>. HIDE DEF f
<1>. QED
  BY <1>1, <1>2, SumNat

LEMMA BalanceNat ==
    ASSUME NEW inv \in [Invoice -> InvoiceRow],
           NEW pay \in [Request -> PaymentRow \cup {None}], IsFiniteSet(Completed(pay)),
           NEW i \in Invoice
    PROVE  Charge(inv, i) \in Int /\ InvoiceBalance(inv, pay, i) \in Nat
<1>1. Charge(inv, i) \in Int
  BY DEF Charge, InvoiceRow
<1>. QED
  BY <1>1, PaidNat DEF InvoiceBalance, AtLeastZero

LEMMA MinOfTwo ==
    ASSUME NEW a \in Nat, NEW b \in Nat
    PROVE  Min({a, b}) = IF a <= b THEN a ELSE b
<1>. DEFINE m == IF a <= b THEN a ELSE b
<1>1. m \in {a, b} /\ \A y \in {a, b} : m <= y
  OBVIOUS
<1>2. \A x \in {a, b} : (\A y \in {a, b} : x <= y) => x = m
  OBVIOUS
<1>. QED
  BY <1>1, <1>2 DEF Min

LEMMA ShareBounds ==
    ASSUME NEW inv \in [Invoice -> InvoiceRow],
           NEW pay \in [Request -> PaymentRow \cup {None}], IsFiniteSet(Completed(pay)),
           NEW dto, NEW i \in Invoice, NEW left \in Nat
    PROVE  LET share == Share(inv, pay, dto, i, left) IN
           /\ share \in Nat /\ share <= left
           /\ share <= InvoiceBalance(inv, pay, i)
           /\ i \in Payable(inv, dto.student) =>
                 share = left \/ share = InvoiceBalance(inv, pay, i)
           /\ share > 0 => i \in Payable(inv, dto.student)
  BY BalanceNat, MinOfTwo DEF Share

(* The recursive function of Remaining satisfies its equation.             *)
LeftBody(inv, pay, dto, left, n) ==
    IF n = 0 THEN dto.amount
    ELSE left[n - 1] - Share(inv, pay, dto, Listed[n], left[n - 1])

LEMMA RemainingExists ==
    ASSUME NEW inv, NEW pay, NEW dto, NEW m \in Nat
    PROVE  \E g : g = [n \in 0 .. m |-> LeftBody(inv, pay, dto, g, n)]
<1>. DEFINE Body(g, n) == LeftBody(inv, pay, dto, g, n)
            P == {k \in Nat : \E g : g = [n \in 0 .. k |-> Body(g, n)]}
<1>1. 0 \in P
  <2>. DEFINE g == [n \in 0 .. 0 |-> dto.amount]
  <2>1. \A n \in 0 .. 0 : Body(g, n) = dto.amount
    BY DEF LeftBody
  <2>2. g = [n \in 0 .. 0 |-> Body(g, n)]
    BY <2>1
  <2>. QED
    BY <2>2
<1>2. ASSUME NEW k \in Nat, k \in P PROVE k + 1 \in P
  <2>1. PICK g : g = [n \in 0 .. k |-> Body(g, n)]
    BY <1>2
  <2>. DEFINE h == [n \in 0 .. (k + 1) |-> Body(g, n)]
  <2>2. \A n \in 0 .. k : g[n] = Body(g, n)
    <3>. HIDE DEF Body
    <3>. QED
      BY <2>1
  <2>3. \A n \in 0 .. k : h[n] = g[n]
    BY <2>2
  <2>4. ASSUME NEW n \in 0 .. (k + 1) PROVE Body(g, n) = Body(h, n)
    <3>1. n = 0 \/ n - 1 \in 0 .. k
      OBVIOUS
    <3>2. n # 0 => g[n - 1] = h[n - 1]
      BY <2>3, <3>1
    <3>. HIDE DEF h
    <3>. QED
      BY <3>2 DEF LeftBody
  <2>5. h = [n \in 0 .. (k + 1) |-> Body(g, n)]
    OBVIOUS
  <2>6. h = [n \in 0 .. (k + 1) |-> Body(h, n)]
    <3>. HIDE DEF h, Body
    <3>. QED
      BY <2>4, <2>5
  <2>. HIDE DEF h, Body
  <2>. QED
    BY <2>6
<1>3. Nat \subseteq P
  <2>. HIDE DEF P
  <2>. QED
    BY <1>1, <1>2, NatSetInduction
<1>. QED
  BY <1>3

LEMMA RemainingDef ==
    ASSUME NEW inv, NEW pay, NEW dto, NEW n \in 0 .. Len(Listed)
    PROVE  Remaining(inv, pay, dto)[n]
             = LeftBody(inv, pay, dto, Remaining(inv, pay, dto), n)
<1>1. Len(Listed) \in Nat
  BY IssueOrderAssumption DEF Listed
<1>. DEFINE Is(g) == g = [k \in 0 .. Len(Listed) |-> LeftBody(inv, pay, dto, g, k)]
            left == CHOOSE g : Is(g)
<1>2. Is(left)
  BY <1>1, RemainingExists
<1>3. Remaining(inv, pay, dto) = left
  BY DEF Remaining, LeftBody
<1>4. left[n] = LeftBody(inv, pay, dto, left, n)
  <2>. HIDE DEF left
  <2>. QED
    BY <1>2
<1>. QED
  BY <1>3, <1>4

LEMMA ListedInvoices ==
    /\ Len(Listed) \in Nat /\ DOMAIN Listed = 1 .. Len(Listed)
    /\ \A n \in 1 .. Len(Listed) : Listed[n] \in Invoice
    /\ \A i \in Invoice : \E n \in DOMAIN Listed : Listed[n] = i
    /\ \A m, n \in DOMAIN Listed : Listed[m] = Listed[n] => m = n
  BY IssueOrderAssumption DEF Listed, IsInjective

(* What remains is never negative, and never grows.                        *)
LEMMA RemainingNat ==
    ASSUME NEW inv \in [Invoice -> InvoiceRow],
           NEW pay \in [Request -> PaymentRow \cup {None}], IsFiniteSet(Completed(pay)),
           NEW dto, dto.amount \in Nat
    PROVE  \A n \in 0 .. Len(Listed) : Remaining(inv, pay, dto)[n] \in Nat
<1>. DEFINE left == Remaining(inv, pay, dto)
            P == {n \in Nat : n <= Len(Listed) => left[n] \in Nat}
<1>1. 0 \in P
  BY RemainingDef, ListedInvoices DEF LeftBody
<1>2. ASSUME NEW n \in Nat, n \in P PROVE n + 1 \in P
  <2>. SUFFICES ASSUME n + 1 <= Len(Listed) PROVE left[n + 1] \in Nat
    OBVIOUS
  <2>1. n \in 0 .. Len(Listed) /\ n + 1 \in 0 .. Len(Listed) /\ n + 1 \in 1 .. Len(Listed)
    BY ListedInvoices
  <2>2. left[n] \in Nat /\ Listed[n + 1] \in Invoice
    BY <1>2, <2>1, ListedInvoices
  <2>3. left[n + 1] = left[n] - Share(inv, pay, dto, Listed[n + 1], left[n])
    BY <2>1, RemainingDef DEF LeftBody
  <2>. HIDE DEF left
  <2>. DEFINE share == Share(inv, pay, dto, Listed[n + 1], left[n])
  <2>4. share \in Nat /\ share <= left[n]
    BY <2>2, ShareBounds
  <2>. QED
    BY <2>2, <2>3, <2>4
<1>3. Nat \subseteq P
  <2>. HIDE DEF P
  <2>. QED
    BY <1>1, <1>2, NatSetInduction
<1>. QED
  BY <1>3, ListedInvoices

(* The share of the n-th invoice.                                          *)
LEMMA AutoShare ==
    ASSUME NEW inv \in [Invoice -> InvoiceRow],
           NEW pay \in [Request -> PaymentRow \cup {None}], IsFiniteSet(Completed(pay)),
           NEW dto, dto.amount \in Nat, NEW n \in DOMAIN Listed,
           NEW left, left = Remaining(inv, pay, dto)[n - 1]
    PROVE  /\ left \in Nat /\ Listed[n] \in Invoice
           /\ AutoAllocation(inv, pay, dto)[Listed[n]] = Share(inv, pay, dto, Listed[n], left)
           /\ Remaining(inv, pay, dto)[n] = left - Share(inv, pay, dto, Listed[n], left)
<1>1. Listed[n] \in Invoice /\ n - 1 \in 0 .. Len(Listed) /\ n \in 0 .. Len(Listed) /\ n # 0
  BY ListedInvoices
<1>2. (CHOOSE k \in DOMAIN Listed : Listed[k] = Listed[n]) = n
  BY ListedInvoices
<1>3. AutoAllocation(inv, pay, dto)[Listed[n]] = Share(inv, pay, dto, Listed[n], left)
  BY <1>1, <1>2 DEF AutoAllocation
<1>. QED
  BY <1>1, <1>3, RemainingNat, RemainingDef DEF LeftBody

(* Of the allocations a capture may be accepted with, none exceeds the     *)
(* balance of an invoice, and only payable invoices of the student are     *)
(* allocated to.                                                           *)
LEMMA AcceptedWithin ==
    ASSUME NEW inv \in [Invoice -> InvoiceRow],
           NEW pay \in [Request -> PaymentRow \cup {None}], IsFiniteSet(Completed(pay)),
           NEW dto \in CaptureRequest,
           NEW alloc \in AcceptedAllocations(inv, pay, dto), NEW i \in Invoice
    PROVE  /\ alloc[i] \in Nat
           /\ alloc[i] <= InvoiceBalance(inv, pay, i)
           /\ alloc[i] > 0 => i \in Payable(inv, dto.student)
<1>0. dto.amount \in Nat /\ dto.lines \in Seq(Line) /\ InvoiceBalance(inv, pay, i) \in Nat
  BY BalanceNat DEF CaptureRequest
<1>1. alloc[i] \in Nat
  BY DEF AcceptedAllocations, Allocation
<1>2. CASE dto.lines = <<>>
  <2>1. alloc = AutoAllocation(inv, pay, dto)
    BY <1>2 DEF AcceptedAllocations
  <2>2. PICK n \in DOMAIN Listed : Listed[n] = i
    BY ListedInvoices
  <2>. DEFINE left == Remaining(inv, pay, dto)[n - 1]
  <2>3. left \in Nat /\ alloc[i] = Share(inv, pay, dto, i, left)
    BY <1>0, <2>1, <2>2, AutoShare
  <2>. HIDE DEF left
  <2>. QED
    BY <1>1, <2>3, ShareBounds
<1>3. CASE dto.lines # <<>>
  <2>1. alloc = LineAllocation(dto) /\ LinesAcceptable(inv, pay, dto)
    BY <1>3 DEF AcceptedAllocations
  <2>. DEFINE hits == {n \in DOMAIN dto.lines : dto.lines[n].invoice = i}
  <2>2. CASE hits = {}
    <3>1. alloc[i] = 0
      BY <2>1, <2>2 DEF LineAllocation
    <3>. QED
      BY <1>0, <3>1
  <2>3. CASE hits # {}
    <3>1. PICK n \in hits : alloc[i] = dto.lines[n].amount
      BY <2>1, <2>3 DEF LineAllocation
    <3>. QED
      BY <1>1, <2>1, <3>1 DEF LinesAcceptable
  <2>. QED
    BY <2>2, <2>3
<1>. QED
  BY <1>2, <1>3

-----------------------------------------------------------------------------
(* What the payments take of the invoices.                                 *)

(* The receipts count the rows of the table: it is finite.                 *)
LEMMA FiniteLedger ==
    ASSUME LedgerInv
    PROVE  IsFiniteSet(Recorded) /\ IsFiniteSet(Completed(payment))
<1>. DEFINE f == [p \in Recorded |-> payment[p].receipt]
<1>1. lastNumber \in Nat /\ IsFiniteSet(1 .. lastNumber)
  BY FS_Interval DEF LedgerInv, TypeOK, LedgerTypeOK
<1>2. \A p \in Recorded : f[p] \in 1 .. lastNumber
  BY DEF LedgerInv, ReceiptsGapless
<1>3. f \in Injection(Recorded, 1 .. lastNumber)
  BY <1>2 DEF LedgerInv, ReceiptsGapless, Injection, IsInjective
<1>4. IsFiniteSet(Recorded)
  <2>. HIDE DEF f
  <2>. QED
    BY <1>1, <1>3, FS_Injection
<1>5. Completed(payment) \subseteq Recorded
  BY DEF Completed, Recorded
<1>. QED
  BY <1>4, <1>5, FS_Subset

(* One completed row more adds its allocation.                             *)
LEMMA PaidInsert ==
    ASSUME NEW pay, NEW more \in [Request -> PaymentRow \cup {None}],
           IsFiniteSet(Completed(pay)),
           NEW r \in Request, r \notin Completed(pay),
           Completed(more) = Completed(pay) \cup {r},
           \A p \in Completed(pay) : more[p].alloc = pay[p].alloc,
           NEW i \in Invoice
    PROVE  Paid(more, i) = Paid(pay, i) + more[r].alloc[i]
<1>. DEFINE f == [p \in Completed(more) |-> more[p].alloc[i]]
            g == [p \in Completed(pay) |-> pay[p].alloc[i]]
<1>1. IsFiniteSet(Completed(more)) /\ r \in Completed(more)
      /\ Completed(more) \ {r} = Completed(pay)
  BY FS_AddElement
<1>2. \A p \in Completed(more) : f[p] \in Int
  BY DEF Completed, PaymentRow, Allocation
<1>3. /\ Paid(more, i) = SumFunctionOnSet(f, Completed(more))
      /\ Paid(pay, i) = SumFunctionOnSet(g, Completed(pay))
  BY DEF Paid, SumFunction
<1>4. f[r] = more[r].alloc[i] /\ \A p \in Completed(pay) : f[p] = g[p]
  OBVIOUS
<1>. HIDE DEF f, g
<1>5. SumFunctionOnSet(f, Completed(more)) = f[r] + SumFunctionOnSet(f, Completed(pay))
  BY <1>1, <1>2, SumSplit
<1>6. SumFunctionOnSet(f, Completed(pay)) = SumFunctionOnSet(g, Completed(pay))
  BY <1>4, SumSame
<1>7. SumFunctionOnSet(f, Completed(pay)) \in Int /\ f[r] \in Int
  BY <1>1, <1>2, SumInt
<1>. QED
  BY <1>3, <1>4, <1>5, <1>6, <1>7

(* A capture adds what it planned, a reversal takes back what the payment  *)
(* it reverses had taken.                                                  *)
LEMMA PaidCaptured ==
    ASSUME LedgerInv, LedgerInv', NEW r \in Request, Captured(r), NEW i \in Invoice
    PROVE  Paid(payment', i) = Paid(payment, i) + plan[r].alloc[i]
<1>1. /\ r \notin Recorded /\ payment'[r] = CaptureRow(r)
      /\ \A p \in Request \ {r} : payment'[p] = payment[p]
      /\ payment'[r] # None
  BY CapturedTable DEF Recorded
<1>2. Completed(payment') = Completed(payment) \cup {r} /\ r \notin Completed(payment)
  BY <1>1, CaptureFields DEF Completed, Recorded
<1>3. payment' \in [Request -> PaymentRow \cup {None}]
  BY DEF LedgerInv, TypeOK, LedgerTypeOK
<1>4. \A p \in Completed(payment) : payment'[p].alloc = payment[p].alloc
  BY <1>1, <1>2 DEF Completed
<1>5. payment'[r].alloc = plan[r].alloc
  BY <1>1 DEF CaptureRow
<1>. QED
  BY <1>2, <1>3, <1>4, <1>5, FiniteLedger, PaidInsert

LEMMA PaidReversed ==
    ASSUME LedgerInv, LedgerInv', NEW r \in Request, Reversed(r),
           NEW t, t = req[r].target, NEW i \in Invoice
    PROVE  Paid(payment', i) = Paid(payment, i) - payment[t].alloc[i]
<1>. DEFINE mid == [payment EXCEPT ![t].status = "VOIDED"]
<1>1. /\ r \notin Recorded /\ t \in Recorded /\ Reversible(t)
      /\ Recorded' = Recorded \cup {r}
      /\ payment'[r] = ReversalRow(r)
      /\ payment'[t] = [payment[t] EXCEPT !.status = "VOIDED"]
      /\ \A p \in Request \ {r, t} : payment'[p] = payment[p]
  BY ReversedTable
<1>2. payment \in [Request -> PaymentRow \cup {None}] /\ t \in Request /\ r # t
      /\ payment' \in [Request -> PaymentRow \cup {None}]
      /\ payment[t] \in PaymentRow
  BY <1>1 DEF LedgerInv, TypeOK, LedgerTypeOK, Recorded
<1>3. PICK void \in PaymentRow : void = [payment[t] EXCEPT !.status = "VOIDED"]
  BY <1>1, VoidType DEF LedgerInv
<1>4. mid = [payment EXCEPT ![t] = void] /\ void.status = "VOIDED" /\ void.alloc = payment[t].alloc
  BY <1>2, <1>3 DEF PaymentRow
<1>5. /\ mid \in [Request -> PaymentRow \cup {None}]
      /\ mid[t] = void /\ \A p \in Request \ {t} : mid[p] = payment[p]
  BY <1>2, <1>4
<1>. HIDE DEF mid
<1>6. t \in Completed(payment) /\ t \notin Completed(mid) /\ r \notin Completed(mid)
      /\ Completed(payment) = Completed(mid) \cup {t}
  BY <1>1, <1>2, <1>4, <1>5 DEF Completed, Reversible, Recorded
<1>7. payment'[r].status = "COMPLETED" /\ payment'[r] # None /\ payment'[r].alloc = NoAllocation
  BY <1>1, ReversalFields DEF Recorded
<1>8. Completed(payment') = Completed(mid) \cup {r}
  <2>1. payment'[t].status # "COMPLETED" /\ mid[t].status # "COMPLETED"
    BY <1>1, <1>3, <1>4, <1>5
  <2>2. \A p \in Request \ {r, t} : payment'[p] = mid[p]
    BY <1>1, <1>5
  <2>3. r \in Completed(payment') /\ t \notin Completed(payment') /\ t \notin Completed(mid)
    BY <1>2, <1>7, <2>1 DEF Completed
  <2>4. \A p \in Request \ {r, t} : p \in Completed(payment') <=> p \in Completed(mid)
    BY <2>2 DEF Completed
  <2>. QED
    BY <2>3, <2>4 DEF Completed
<1>9. IsFiniteSet(Completed(mid))
  BY <1>6, FiniteLedger, FS_Subset
<1>10. Paid(payment, i) = Paid(mid, i) + payment[t].alloc[i]
  <2>1. \A p \in Completed(mid) : payment[p].alloc = mid[p].alloc
    BY <1>5, <1>6 DEF Completed
  <2>. QED
    BY <1>2, <1>6, <1>9, <2>1, PaidInsert
<1>11. Paid(payment', i) = Paid(mid, i) + payment'[r].alloc[i]
  <2>1. \A p \in Completed(mid) : payment'[p].alloc = mid[p].alloc
    BY <1>1, <1>5, <1>6 DEF Completed
  <2>. QED
    BY <1>2, <1>6, <1>8, <1>9, <2>1, PaidInsert
<1>12. payment'[r].alloc[i] = 0 /\ payment[t].alloc[i] \in Nat
  BY <1>2, <1>7 DEF NoAllocation, PaymentRow, Allocation
<1>13. Paid(mid, i) \in Int
  BY <1>5, <1>9, FiniteLedger, PaidNat
<1>. QED
  BY <1>10, <1>11, <1>12, <1>13

LEMMA PaidKept ==
    ASSUME UNCHANGED payment, NEW i
    PROVE  Paid(payment', i) = Paid(payment, i)
  BY DEF Paid, Completed

-----------------------------------------------------------------------------
(* Payments: no invoice is overpaid, captures are allocated in full and to *)
(* the oldest invoices first.                                              *)

LEMMA PlanAccepted ==
    ASSUME IInv, NEW r \in Request, Captured(r)
    PROVE  /\ req[r] \in CaptureRequest /\ req[r].student \in Student
           /\ plan[r].alloc \in AcceptedAllocations(invoice, payment, req[r])
           /\ payment'[r].alloc = plan[r].alloc
           /\ payment'[r].amount = req[r].amount
<1>. LedgerInv /\ SnapshotInv
  BY DEF IInv
<1>1. pc[r] = "open" /\ IsCapture(r) /\ ~Stale(r)
  BY DEF Captured, CommitCapture
<1>2. payment'[r] = CaptureRow(r)
  BY CapturedTable
<1>. QED
  BY <1>1, <1>2, DtoTypes DEF LedgerInv, SeenInv, SnapshotInv, IsCapture, CaptureRow

LEMMA OverpaymentKept == IInv /\ IInv' /\ NoOverpayment /\ [Next]_vars => NoOverpayment'
<1>. SUFFICES ASSUME IInv, LedgerInv, LedgerInv', NoOverpayment, [Next]_vars, NEW i \in Invoice
              PROVE  Paid(payment', i) <= AtLeastZero(Charge(invoice', i))
  BY DEF NoOverpayment, IInv
<1>0. /\ invoice \in [Invoice -> InvoiceRow] /\ payment \in [Request -> PaymentRow \cup {None}]
      /\ IsFiniteSet(Completed(payment))
  BY FiniteLedger DEF LedgerInv, TypeOK, LedgerTypeOK
<1>1. /\ Charge(invoice, i) \in Int /\ Paid(payment, i) \in Nat
      /\ Paid(payment, i) <= AtLeastZero(Charge(invoice, i))
  BY <1>0, BalanceNat, PaidNat DEF NoOverpayment
<1>2. CASE UNCHANGED ledgerVars
  BY <1>1, <1>2, PaidKept DEF ledgerVars, Charge
<1>3. ASSUME NEW r \in Request, Captured(r)
      PROVE  Paid(payment', i) <= AtLeastZero(Charge(invoice', i))
  <2>1. Charge(invoice', i) = Charge(invoice, i)
    BY <1>3, CapturedTable DEF Charge
  <2>2. plan[r].alloc[i] \in Nat /\ plan[r].alloc[i] <= InvoiceBalance(invoice, payment, i)
    BY <1>0, <1>3, PlanAccepted, AcceptedWithin
  <2>3. Paid(payment', i) = Paid(payment, i) + plan[r].alloc[i]
    BY <1>3, PaidCaptured
  <2>. QED
    BY <1>1, <2>1, <2>2, <2>3 DEF InvoiceBalance, AtLeastZero
<1>4. ASSUME NEW r \in Request, Reversed(r)
      PROVE  Paid(payment', i) <= AtLeastZero(Charge(invoice', i))
  <2>. DEFINE t == req[r].target
  <2>1. Charge(invoice', i) = Charge(invoice, i) /\ payment[t].alloc[i] \in Nat
    <3>1. t \in Recorded /\ invoice' = invoice
      BY <1>4, ReversedTable
    <3>2. payment[t] \in PaymentRow
      BY <1>0, <3>1 DEF Recorded
    <3>. HIDE DEF t
    <3>. QED
      BY <3>1, <3>2 DEF Charge, PaymentRow, Allocation
  <2>2. Paid(payment', i) = Paid(payment, i) - payment[t].alloc[i]
    BY <1>4, PaidReversed
  <2>. QED
    BY <1>1, <2>1, <2>2 DEF AtLeastZero
<1>. QED
  BY <1>2, <1>3, <1>4, LedgerSteps

InFull(row) ==
    row.reverses = None =>
        /\ SumFunction(row.alloc) = row.amount
        /\ \A i \in Invoice : row.alloc[i] > 0 => Owner[i] = row.student

LEMMA AcceptedInFull ==
    ASSUME LedgerInv, NEW dto \in CaptureRequest,
           NEW alloc \in AcceptedAllocations(invoice, payment, dto)
    PROVE  /\ SumFunction(alloc) = dto.amount
           /\ \A i \in Invoice : alloc[i] > 0 => Owner[i] = dto.student
<1>1. /\ invoice \in [Invoice -> InvoiceRow] /\ payment \in [Request -> PaymentRow \cup {None}]
      /\ IsFiniteSet(Completed(payment))
  BY FiniteLedger DEF LedgerInv, TypeOK, LedgerTypeOK
<1>2. SumFunction(alloc) = dto.amount
  BY DEF AcceptedAllocations
<1>3. \A i \in Invoice : alloc[i] > 0 => Owner[i] = dto.student
  BY <1>1, AcceptedWithin DEF Payable
<1>. QED
  BY <1>2, <1>3

LEMMA PlansInFull == IInv => PlanFull
  BY AcceptedInFull, DtoTypes DEF IInv, SnapshotInv, PlanFull, OpenCapture, IsCapture

LEMMA FullKept == LedgerInv /\ PlanFull /\ FullyAllocated /\ [Next]_vars => FullyAllocated'
<1>. SUFFICES ASSUME LedgerInv, PlanFull, FullyAllocated, [Next]_vars, NEW p \in Recorded'
              PROVE  InFull(payment'[p])
  BY DEF FullyAllocated, InFull
<1>1. CASE p \in Recorded
  BY <1>1, FieldsKept DEF FullyAllocated, InFull
<1>2. CASE UNCHANGED ledgerVars
  BY <1>1, <1>2 DEF ledgerVars, Recorded
<1>3. ASSUME NEW r \in Request, Captured(r), p = r PROVE InFull(payment'[p])
  <2>1. /\ payment'[r].alloc = plan[r].alloc /\ payment'[r].amount = req[r].amount
        /\ payment'[r].student = req[r].student
    BY <1>3, CapturedTable, CaptureFields
  <2>2. OpenCapture(r) /\ ~Stale(r)
    BY <1>3 DEF Captured, CommitCapture, OpenCapture
  <2>. QED
    BY <1>3, <2>1, <2>2 DEF InFull, PlanFull
<1>4. ASSUME NEW r \in Request, Reversed(r), p = r PROVE InFull(payment'[p])
  <2>1. payment'[r].reverses = req[r].target /\ req[r].target # None
    BY <1>4, ReversedTable, ReversalFields, NoneAssumption DEF Recorded
  <2>. QED
    BY <1>4, <2>1 DEF InFull
<1>5. ASSUME NEW r \in Request, Captured(r) \/ Reversed(r) PROVE Recorded' = Recorded \cup {r}
  <2>1. CASE Captured(r)
    BY <2>1, CapturedTable
  <2>2. CASE Reversed(r)
    BY <2>2, ReversedTable
  <2>. QED
    BY <1>5, <2>1, <2>2
<1>. QED
  BY <1>1, <1>2, <1>3, <1>4, <1>5, LedgerSteps

LEMMA MoneyInit == Init => MoneyInv
<1>. SUFFICES ASSUME Init PROVE MoneyInv
  OBVIOUS
<1>1. LedgerInv /\ Recorded = {} /\ Completed(payment) = {}
  BY InitInv DEF Init, IInv, Recorded, Completed
<1>2. ASSUME NEW i \in Invoice PROVE Paid(payment, i) = 0 /\ Charge(invoice, i) \in Int
  <2>1. Paid(payment, i) = 0
    BY <1>1, SumEmpty DEF Paid, SumFunction
  <2>. QED
    BY <2>1, <1>1, BalanceNat, FiniteLedger DEF LedgerInv, TypeOK, LedgerTypeOK
<1>. QED
  BY <1>1, <1>2 DEF MoneyInv, NoOverpayment, FullyAllocated, AtLeastZero

LEMMA MoneyInvariant == Spec => []MoneyInv
<1>1. IInv /\ IInv' /\ MoneyInv /\ [Next]_vars => MoneyInv'
  BY OverpaymentKept, FullKept, PlansInFull DEF MoneyInv, IInv
<1>. QED
  BY <1>1, MoneyInit, InductiveInvariant, PTL DEF Spec

(* No invoice is paid beyond what it charges, whatever captures and        *)
(* reversals overlap.                                                      *)
THEOREM NeverOverpaid == Spec => []NoOverpayment
<1>1. MoneyInv => NoOverpayment
  BY DEF MoneyInv
<1>. QED
  BY <1>1, MoneyInvariant, PTL

(* Every captured payment is allocated in full, to invoices of the student *)
(* that its allocations name.                                              *)
THEOREM CapturesAllocated == Spec => []FullyAllocated
<1>1. MoneyInv => FullyAllocated
  BY DEF MoneyInv
<1>. QED
  BY <1>1, MoneyInvariant, PTL

(* Once an invoice takes all that is left, nothing is left for the next.   *)
LEMMA PourOldest ==
    ASSUME NEW inv \in [Invoice -> InvoiceRow],
           NEW pay \in [Request -> PaymentRow \cup {None}], IsFiniteSet(Completed(pay)),
           NEW dto, dto.amount \in Nat,
           NEW m \in DOMAIN Listed, NEW n \in DOMAIN Listed, m < n,
           Listed[m] \in Payable(inv, dto.student),
           AutoAllocation(inv, pay, dto)[Listed[n]] > 0
    PROVE  AutoAllocation(inv, pay, dto)[Listed[m]] = InvoiceBalance(inv, pay, Listed[m])
<1>. DEFINE left == Remaining(inv, pay, dto)
            alloc == AutoAllocation(inv, pay, dto)
<1>1. \A k \in DOMAIN Listed :
         /\ left[k - 1] \in Nat /\ Listed[k] \in Invoice
         /\ alloc[Listed[k]] = Share(inv, pay, dto, Listed[k], left[k - 1])
         /\ left[k] = left[k - 1] - alloc[Listed[k]]
  BY AutoShare
<1>2. ASSUME NEW k \in DOMAIN Listed
      PROVE  alloc[Listed[k]] \in Nat /\ alloc[Listed[k]] <= left[k - 1]
  <2>. DEFINE rest == left[k - 1]
              share == Share(inv, pay, dto, Listed[k], rest)
  <2>1. rest \in Nat /\ Listed[k] \in Invoice /\ alloc[Listed[k]] = share
    BY <1>1
  <2>. HIDE DEF left, alloc, rest
  <2>2. share \in Nat /\ share <= rest
    BY <2>1, ShareBounds
  <2>. QED
    BY <2>1, <2>2 DEF rest
<1>3. alloc[Listed[m]] = left[m - 1] \/ alloc[Listed[m]] = InvoiceBalance(inv, pay, Listed[m])
  <2>. DEFINE rest == left[m - 1]
              i == Listed[m]
              share == Share(inv, pay, dto, i, rest)
  <2>1. rest \in Nat /\ i \in Invoice /\ alloc[i] = share
    BY <1>1
  <2>. HIDE DEF left, alloc, rest, i
  <2>2. i \in Payable(inv, dto.student)
    BY DEF i
  <2>3. share = rest \/ share = InvoiceBalance(inv, pay, i)
    BY <2>1, <2>2, ShareBounds
  <2>. QED
    BY <2>1, <2>3 DEF rest, i
<1>. SUFFICES ASSUME alloc[Listed[m]] = left[m - 1] PROVE FALSE
  BY <1>3
<1>n. alloc[Listed[n]] > 0
  OBVIOUS
<1>. HIDE DEF left, alloc
<1>4. left[m] = 0
  BY <1>1
<1>5. m \in Nat /\ n \in Nat /\ DOMAIN Listed = 1 .. Len(Listed) /\ Len(Listed) \in Nat
  BY ListedInvoices
<1>. DEFINE P == {k \in Nat : m + k <= Len(Listed) => left[m + k] = 0}
<1>6. 0 \in P
  BY <1>4, <1>5
<1>7. ASSUME NEW k \in Nat, k \in P PROVE k + 1 \in P
  <2>. SUFFICES ASSUME m + (k + 1) <= Len(Listed) PROVE left[m + (k + 1)] = 0
    OBVIOUS
  <2>1. m + (k + 1) \in DOMAIN Listed /\ (m + (k + 1)) - 1 = m + k /\ left[m + k] = 0
    BY <1>5, <1>7
  <2>. DEFINE j == m + (k + 1)
  <2>2. left[j - 1] = 0 /\ alloc[Listed[j]] \in Nat /\ alloc[Listed[j]] <= left[j - 1]
        /\ left[j] = left[j - 1] - alloc[Listed[j]]
    BY <1>1, <1>2, <2>1
  <2>. QED
    BY <2>2
<1>8. Nat \subseteq P
  <2>. HIDE DEF P
  <2>. QED
    BY <1>6, <1>7, NatSetInduction
<1>9. n - 1 - m \in Nat /\ m + (n - 1 - m) = n - 1 /\ n - 1 <= Len(Listed)
  BY <1>5
<1>10. left[n - 1] = 0
  BY <1>8, <1>9
<1>. QED
  BY <1>2, <1>10, <1>n

(* An automatic allocation leaves nothing unpaid on an invoice older than  *)
(* one it pays.                                                            *)
THEOREM AllocatesOldestFirst == Spec => OldestFirst
<1>. DEFINE Step1 ==
       \A r \in Request \ Recorded :
          IsCapture(r) /\ req[r].lines = <<>> /\ payment'[r] # None =>
             \A m, n \in DOMAIN IssueOrder :
                m < n /\ payment'[r].alloc[IssueOrder[n]] > 0
                /\ IssueOrder[m] \in Payable(invoice, req[r].student) =>
                    payment'[r].alloc[IssueOrder[m]]
                        = InvoiceBalance(invoice, payment, IssueOrder[m])
<1>1. ASSUME IInv, [Next]_vars PROVE Step1
  <2>. SUFFICES ASSUME NEW r \in Request \ Recorded, IsCapture(r), req[r].lines = <<>>,
                       payment'[r] # None,
                       NEW m \in DOMAIN IssueOrder, NEW n \in DOMAIN IssueOrder, m < n,
                       payment'[r].alloc[IssueOrder[n]] > 0,
                       IssueOrder[m] \in Payable(invoice, req[r].student)
                PROVE  payment'[r].alloc[IssueOrder[m]]
                         = InvoiceBalance(invoice, payment, IssueOrder[m])
    OBVIOUS
  <2>0. LedgerInv
    BY <1>1 DEF IInv
  <2>1. Captured(r)
    <3>1. r \in Recorded' /\ ~UNCHANGED ledgerVars
      BY DEF Recorded, ledgerVars
    <3>2. ASSUME NEW q \in Request, Captured(q) PROVE q = r
      <4>1. Recorded' = Recorded \cup {q}
        BY <2>0, <3>2, CapturedTable
      <4>. QED
        BY <3>1, <4>1
    <3>3. ASSUME NEW q \in Request, Reversed(q) PROVE FALSE
      <4>0. Recorded' = Recorded \cup {q}
        BY <2>0, <3>3, ReversedTable
      <4>1. q = r
        BY <3>1, <4>0
      <4>. QED
        BY <3>3, <4>1, DtoTypes DEF Reversed, CommitReversal, IsCapture, IsReverse
    <3>. QED
      BY <1>1, <3>1, <3>2, <3>3, LedgerSteps
  <2>2. payment'[r].alloc = AutoAllocation(invoice, payment, req[r]) /\ req[r].amount \in Nat
    BY <1>1, <2>1, PlanAccepted DEF AcceptedAllocations, CaptureRequest
  <2>3. /\ invoice \in [Invoice -> InvoiceRow] /\ payment \in [Request -> PaymentRow \cup {None}]
        /\ IsFiniteSet(Completed(payment))
    BY <2>0, FiniteLedger DEF LedgerInv, TypeOK, LedgerTypeOK
  <2>4. IssueOrder = Listed
    BY DEF Listed
  <2>. QED
    BY <2>2, <2>3, <2>4, PourOldest
<1>2. IInv /\ [Next]_vars => [Step1]_vars
  BY <1>1
<1>. QED
  BY <1>2, InductiveInvariant, PTL DEF Spec, OldestFirst

-----------------------------------------------------------------------------
(* Billing, whatever overlaps.                                             *)

LEMMA FeesDtoTypes ==
    ASSUME NEW dto \in FeesDto
    PROVE  /\ dto.target \in Invoice
           /\ dto.kind \in {"state", "note", "CREDIT", "DEBIT"}
           /\ dto.kind = "state" => dto.status \in RecordStatus
           /\ dto.kind # "state" => dto.amount \in Nat
  BY FeesDtoAssumption DEF StateChange, Entry

LEMMA FiniteInvoices == IsFiniteSet(Invoice)
<1>1. /\ IssueOrder \in Seq(Invoice) /\ Len(IssueOrder) \in Nat
      /\ DOMAIN IssueOrder = 1 .. Len(IssueOrder)
  BY IssueOrderAssumption
<1>2. IsFiniteSet(1 .. Len(IssueOrder))
  BY <1>1, FS_Interval
<1>3. IssueOrder \in Surjection(1 .. Len(IssueOrder), Invoice)
  BY <1>1, IssueOrderAssumption DEF Surjection
<1>. QED
  BY <1>2, <1>3, FS_Surjection

(* What a fees request writes: a status, or one entry more.                *)
LEMMA WrittenRow ==
    ASSUME NEW dto \in FeesDto, NEW row \in InvoiceRow, NEW new, new = Written(row, dto)
    PROVE  /\ new \in InvoiceRow
           /\ new.items = row.items /\ new.debits >= row.debits
           /\ dto.kind = "state" =>
                 new.status = dto.status /\ new.credits = row.credits /\ new.notes = row.notes
           /\ dto.kind # "state" => new.status = row.status
           /\ dto.kind \in {"note", "CREDIT"} =>
                 /\ new.debits = row.debits
                 /\ new.credits + new.notes = row.credits + row.notes + dto.amount
           /\ dto.kind = "DEBIT" => new.credits = row.credits /\ new.notes = row.notes
<1>0. /\ dto.kind \in {"state", "note", "CREDIT", "DEBIT"}
      /\ dto.kind = "state" => dto.status \in RecordStatus
      /\ dto.kind # "state" => dto.amount \in Nat
  BY FeesDtoTypes
<1>1. CASE dto.kind = "state"
  <2>1. new = [row EXCEPT !.status = dto.status]
    BY <1>1 DEF Written
  <2>. QED
    BY <1>0, <1>1, <2>1 DEF InvoiceRow
<1>2. CASE dto.kind = "note"
  <2>1. new = [row EXCEPT !.notes = @ + dto.amount]
    BY <1>2 DEF Written
  <2>. QED
    BY <1>0, <1>2, <2>1 DEF InvoiceRow
<1>3. CASE dto.kind = "CREDIT"
  <2>1. new = [row EXCEPT !.credits = @ + dto.amount]
    BY <1>3 DEF Written
  <2>. QED
    BY <1>0, <1>3, <2>1 DEF InvoiceRow
<1>4. CASE dto.kind = "DEBIT"
  <2>1. new = [row EXCEPT !.debits = @ + dto.amount]
    BY <1>4 DEF Written
  <2>. QED
    BY <1>0, <1>4, <2>1 DEF InvoiceRow
<1>. QED
  BY <1>0, <1>1, <1>2, <1>3, <1>4

(* The steps of Billing.                                                   *)
LEMMA BillingSteps ==
    ASSUME [BillingNext]_billingVars
    PROVE  \/ [Next]_vars /\ PaymentsStep /\ UNCHANGED feesVars /\ crossed' = (crossed \/ Crossing')
           \/ FeesStep /\ UNCHANGED payVars /\ crossed' = (crossed \/ Crossing')
           \/ UNCHANGED billingVars
  BY DEF BillingNext, BillingStep, BillingQuiescent, PaymentsStep, Next

(* A commit writes one row; the other steps of fees requests write none.   *)
LEMMA FeesSteps ==
    ASSUME GrossInv, FeesStep
    PROVE  /\ UNCHANGED <<payment, lastNumber>>
           /\ \/ UNCHANGED invoice
              \/ \E f \in FeesRequest :
                    /\ CommitInvoice(f) /\ freq[f] \in FeesDto
                    /\ freq[f].target \in Invoice
                    /\ invoice'[freq[f].target] = Written(invoice[freq[f].target], freq[f])
                    /\ \A i \in Invoice \ {freq[f].target} : invoice'[i] = invoice[i]
                    /\ invoice' \in [Invoice -> InvoiceRow]
<1>1. UNCHANGED <<payment, lastNumber>>
  BY DEF FeesStep, ReadInvoice, CommitInvoice, FeesFail, ledgerVars
<1>2. UNCHANGED invoice \/ \E f \in FeesRequest : CommitInvoice(f)
  BY DEF FeesStep, ReadInvoice, FeesFail, ledgerVars
<1>3. ASSUME NEW f \in FeesRequest, CommitInvoice(f)
      PROVE  /\ freq[f] \in FeesDto
             /\ freq[f].target \in Invoice
             /\ invoice'[freq[f].target] = Written(invoice[freq[f].target], freq[f])
             /\ \A i \in Invoice \ {freq[f].target} : invoice'[i] = invoice[i]
             /\ invoice' \in [Invoice -> InvoiceRow]
  <2>. DEFINE t == freq[f].target
              new == Written(invoice[t], freq[f])
  <2>1. freq[f] \in FeesDto /\ t \in Invoice
    BY <1>3, FeesDtoTypes DEF GrossInv, CheckedKnown, CommitInvoice
  <2>2. invoice \in [Invoice -> InvoiceRow]
    BY DEF GrossInv, LedgerInv, TypeOK, LedgerTypeOK
  <2>3. new \in InvoiceRow
    BY <2>1, <2>2, WrittenRow
  <2>4. invoice' = [invoice EXCEPT ![t] = new]
    BY <1>3 DEF CommitInvoice
  <2>. HIDE DEF t, new
  <2>5. /\ invoice'[t] = new /\ \A i \in Invoice \ {t} : invoice'[i] = invoice[i]
        /\ invoice' \in [Invoice -> InvoiceRow]
    BY <2>1, <2>2, <2>3, <2>4
  <2>. QED
    BY <2>1, <2>5 DEF t, new
<1>. QED
  BY <1>1, <1>2, <1>3

(* The gross of an invoice never falls.                                    *)
LEMMA GrossGrows ==
    ASSUME GrossInv, FeesStep, NEW i \in Invoice
    PROVE  invoice'[i] \in InvoiceRow /\ Gross(i) <= Gross(i)' /\ Gross(i) \in Nat
<1>0. invoice[i] \in InvoiceRow
  BY DEF GrossInv, LedgerInv, TypeOK, LedgerTypeOK
<1>1. CASE UNCHANGED invoice
  BY <1>0, <1>1 DEF Gross, InvoiceRow
<1>2. ASSUME NEW f \in FeesRequest, NEW t \in Invoice, freq[f] \in FeesDto, t = freq[f].target,
             invoice'[t] = Written(invoice[t], freq[f]),
             \A j \in Invoice \ {t} : invoice'[j] = invoice[j]
      PROVE  invoice'[i] \in InvoiceRow /\ Gross(i) <= Gross(i)' /\ Gross(i) \in Nat
  <2>1. CASE i # t
    BY <1>0, <1>2, <2>1 DEF Gross, InvoiceRow
  <2>2. CASE i = t
    <3>1. /\ invoice'[i] \in InvoiceRow
          /\ invoice'[i].items = invoice[i].items /\ invoice'[i].debits >= invoice[i].debits
      BY <1>0, <1>2, <2>2, WrittenRow
    <3>. QED
      BY <1>0, <3>1 DEF Gross, InvoiceRow
  <2>. QED
    BY <2>1, <2>2
<1>. QED
  BY <1>1, <1>2, FeesSteps

(* A fees request disturbs no payment.                                     *)
LEMMA LedgerKeptByFees ==
    ASSUME GrossInv, FeesStep, UNCHANGED payVars
    PROVE  LedgerInv'
<1>1. UNCHANGED <<payment, lastNumber, req, pc, plan, resp>>
  BY FeesSteps DEF payVars
<1>2. LedgerInv
  BY DEF GrossInv
<1>3. TypeOK'
  <2>1. invoice' \in [Invoice -> InvoiceRow]
    BY <1>2, FeesSteps DEF LedgerInv, TypeOK, LedgerTypeOK
  <2>. QED
    BY <1>1, <1>2, <2>1 DEF LedgerInv, TypeOK, LedgerTypeOK
<1>4. Recorded' = Recorded /\ \A q : ReversalsOf(q)' = ReversalsOf(q)
  BY <1>1 DEF Recorded, ReversalsOf
<1>5. StageInv' /\ SeenInv' /\ TargetInv'
  BY <1>1, <1>2, <1>4 DEF LedgerInv, StageInv, SeenInv, TargetInv, IsCapture, IsReverse
<1>6. ReversalInv' /\ ReversalsBalance'
  BY <1>1, <1>2, <1>4 DEF LedgerInv, ReversalInv, ReversalsBalance
<1>7. ReceiptsGapless' /\ OneRowPerKey'
  BY <1>1, <1>2, <1>4 DEF LedgerInv, ReceiptsGapless, OneRowPerKey, WithKey
<1>. QED
  BY <1>3, <1>5, <1>6, <1>7 DEF LedgerInv

LEMMA FeesTypeKept == GrossInv /\ [BillingNext]_billingVars => FeesTypeOK' /\ CheckedKnown'
<1>. SUFFICES ASSUME GrossInv, [BillingNext]_billingVars PROVE FeesTypeOK' /\ CheckedKnown'
  OBVIOUS
<1>0. FeesTypeOK /\ CheckedKnown
  BY DEF GrossInv
<1>1. CASE UNCHANGED feesVars
  BY <1>0, <1>1 DEF FeesTypeOK, CheckedKnown, feesVars
<1>2. ASSUME NEW f \in FeesRequest, NEW dto \in FeesDto, ReadInvoice(f, dto)
      PROVE  FeesTypeOK' /\ CheckedKnown'
  BY <1>0, <1>2 DEF FeesTypeOK, CheckedKnown, ReadInvoice
<1>3. ASSUME NEW f \in FeesRequest, CommitInvoice(f) \/ FeesFail(f)
      PROVE  FeesTypeOK' /\ CheckedKnown'
  <2>1. noted' \in [Student -> Nat]
    <3>1. CASE CommitInvoice(f)
      <4>1. freq[f] \in FeesDto /\ Noted(freq[f]) = noted'
        BY <1>0, <3>1 DEF CheckedKnown, CommitInvoice
      <4>2. Noted(freq[f]) \in [Student -> Nat]
        <5>. DEFINE dto == freq[f]
                    t == Owner[dto.target]
        <5>1. noted \in [Student -> Nat]
          BY <1>0 DEF FeesTypeOK
        <5>2. CASE dto.kind = "note"
          <6>1. t \in Student /\ noted[t] \in Nat /\ dto.amount \in Nat
            BY <4>1, <5>1, <5>2, FeesDtoTypes, StudentAssumption
          <6>2. Noted(dto) = [noted EXCEPT ![t] = noted[t] + dto.amount]
            BY <5>2 DEF Noted
          <6>. HIDE DEF dto, t
          <6>3. [noted EXCEPT ![t] = noted[t] + dto.amount] \in [Student -> Nat]
            BY <5>1, <6>1
          <6>. QED
            BY <6>2, <6>3 DEF dto
        <5>3. CASE dto.kind # "note"
          BY <5>1, <5>3 DEF Noted
        <5>. QED
          BY <5>2, <5>3
      <4>. QED
        BY <4>1, <4>2
    <3>2. CASE FeesFail(f)
      BY <1>0, <3>2 DEF FeesFail, FeesTypeOK
    <3>. QED
      BY <1>3, <3>1, <3>2
  <2>. QED
    BY <1>0, <1>3, <2>1 DEF FeesTypeOK, CheckedKnown, CommitInvoice, FeesFail
<1>4. UNCHANGED feesVars \/ FeesStep
  BY BillingSteps DEF billingVars
<1>. QED
  BY <1>1, <1>2, <1>3, <1>4 DEF FeesStep

(* A payments step leaves the invoices alone, and an open capture was open *)
(* before with the plan it has, or has just been accepted.                 *)
LEMMA OpenBefore ==
    ASSUME LedgerInv, [Next]_vars, NEW r \in Request, OpenCapture(r)', ~Stale(r)'
    PROVE  \/ /\ OpenCapture(r) /\ ~Stale(r) /\ plan'[r] = plan[r] /\ req'[r] = req[r]
              /\ UNCHANGED ledgerVars
           \/ /\ BeginCapture(r) /\ UNCHANGED ledgerVars /\ req'[r] = req[r]
              /\ req[r] \in CaptureRequest
              /\ plan'[r].alloc \in AcceptedAllocations(invoice, payment, req[r])
<1>0. /\ plan[r].seen \in Nat /\ lastNumber \in Nat /\ plan[r].seen <= lastNumber
      /\ plan \in [Request -> Plan] /\ pc \in [Request -> Stage]
  BY DEF LedgerInv, TypeOK, LedgerTypeOK, Plan, SeenInv
<1>1. (lastNumber' = lastNumber /\ UNCHANGED ledgerVars) \/ lastNumber' = lastNumber + 1
  BY LedgerSteps, CapturedTable, ReversedTable DEF ledgerVars
<1>2. CASE pc'[r] = pc[r] /\ req'[r] = req[r] /\ plan'[r] = plan[r]
  BY <1>0, <1>1, <1>2 DEF OpenCapture, IsCapture, Stale
<1>3. CASE BeginCapture(r)
  <2>1. req[r] \in CaptureRequest /\ UNCHANGED ledgerVars /\ req'[r] = req[r]
    BY <1>3, DtoTypes DEF BeginCapture, IsCapture
  <2>2. ~Reply(r, "rejected", None)
    BY <1>0 DEF Reply, OpenCapture
  <2>3. PICK alloc \in AcceptedAllocations(invoice, payment, req[r]) :
           plan' = [plan EXCEPT ![r] = [alloc |-> alloc, seen |-> lastNumber]]
    BY <1>3, <2>2 DEF BeginCapture
  <2>4. plan'[r].alloc = alloc
    BY <1>0, <2>3
  <2>. QED
    BY <1>3, <2>1, <2>4
<1>4. ~BeginReversal(r)
  BY DtoTypes DEF BeginReversal, LedgerInv, StageInv, IsReverse, IsCapture, OpenCapture
<1>5. pc'[r] = "open"
  BY DEF OpenCapture
<1>. QED
  BY <1>2, <1>3, <1>4, <1>5, PlanSteps

LEMMA TablesOK ==
    ASSUME LedgerInv
    PROVE  /\ invoice \in [Invoice -> InvoiceRow]
           /\ payment \in [Request -> PaymentRow \cup {None}]
           /\ IsFiniteSet(Completed(payment))
           /\ \A i \in Invoice :
                 /\ invoice[i] \in InvoiceRow
                 /\ Paid(payment, i) \in Nat /\ Gross(i) \in Nat
                 /\ InvoiceBalance(invoice, payment, i) \in Nat
                 /\ InvoiceBalance(invoice, payment, i) > 0 =>
                       Paid(payment, i) + InvoiceBalance(invoice, payment, i) <= Gross(i)
<1>1. /\ invoice \in [Invoice -> InvoiceRow]
      /\ payment \in [Request -> PaymentRow \cup {None}]
      /\ IsFiniteSet(Completed(payment))
  BY FiniteLedger DEF LedgerInv, TypeOK, LedgerTypeOK
<1>2. \A i \in Invoice :
         Paid(payment, i) \in Nat /\ InvoiceBalance(invoice, payment, i) \in Nat
  BY <1>1, PaidNat, BalanceNat
<1>3. \A i \in Invoice : invoice[i] \in InvoiceRow /\ Gross(i) \in Nat
  BY <1>1 DEF Gross, InvoiceRow
<1>4. ASSUME NEW i \in Invoice, InvoiceBalance(invoice, payment, i) > 0
      PROVE  Paid(payment, i) + InvoiceBalance(invoice, payment, i) <= Gross(i)
  <2>1. /\ invoice[i].items \in Nat /\ invoice[i].debits \in Nat
        /\ invoice[i].credits \in Nat /\ invoice[i].notes \in Nat
    BY <1>3 DEF InvoiceRow
  <2>. QED
    BY <1>2, <1>4, <2>1 DEF InvoiceBalance, AtLeastZero, Charge, Gross
<1>. QED
  BY <1>1, <1>2, <1>3, <1>4

(* What a capture has just been accepted with stays within the gross.      *)
LEMMA AcceptedWithinGross ==
    ASSUME LedgerInv, NEW i \in Invoice, Paid(payment, i) <= Gross(i),
           NEW dto \in CaptureRequest,
           NEW alloc \in AcceptedAllocations(invoice, payment, dto)
    PROVE  alloc[i] \in Nat /\ Paid(payment, i) + alloc[i] <= Gross(i)
<1>1. alloc[i] \in Nat /\ alloc[i] <= InvoiceBalance(invoice, payment, i)
  BY TablesOK, AcceptedWithin
<1>. QED
  BY <1>1, TablesOK

LEMMA GrossKeptByPayments ==
    ASSUME GrossInv, [Next]_vars, LedgerInv'
    PROVE  PaidWithinGross' /\ PlanWithin'
<1>0. LedgerInv /\ \A i \in Invoice : Paid(payment, i) <= Gross(i)
  BY DEF GrossInv, PaidWithinGross, Gross
<1>1. \A i \in Invoice : Gross(i)' = Gross(i)
  <2>1. invoice' = invoice
    BY <1>0, LedgerSteps, CapturedTable, ReversedTable DEF ledgerVars
  <2>. QED
    BY <2>1 DEF Gross
<1>2. ASSUME NEW i \in Invoice PROVE Paid(payment', i) <= Gross(i)'
  <2>1. CASE UNCHANGED ledgerVars
    BY <1>0, <1>1, <2>1, PaidKept DEF ledgerVars
  <2>2. ASSUME NEW r \in Request, Captured(r) PROVE Paid(payment', i) <= Gross(i)'
    <3>1. OpenCapture(r) /\ ~Stale(r)
      BY <2>2 DEF Captured, CommitCapture, OpenCapture
    <3>2. Paid(payment, i) + plan[r].alloc[i] <= Gross(i)
      BY <3>1 DEF GrossInv, PlanWithin
    <3>. QED
      BY <1>0, <1>1, <2>2, <3>2, PaidCaptured
  <2>3. ASSUME NEW r \in Request, Reversed(r) PROVE Paid(payment', i) <= Gross(i)'
    <3>. DEFINE t == req[r].target
    <3>0. t \in Recorded
      BY <1>0, <2>3, ReversedTable
    <3>1. payment[t] \in PaymentRow
      BY <1>0, <3>0, TablesOK DEF Recorded
    <3>2. payment[t].alloc[i] \in Nat
      BY <3>1 DEF PaymentRow, Allocation
    <3>3. Paid(payment', i) = Paid(payment, i) - payment[t].alloc[i]
      BY <1>0, <2>3, PaidReversed
    <3>. HIDE DEF t
    <3>. QED
      BY <1>0, <1>1, <3>2, <3>3, TablesOK
  <2>. QED
    BY <2>1, <2>2, <2>3, LedgerSteps
<1>3. ASSUME NEW r \in Request, OpenCapture(r)', ~Stale(r)', NEW i \in Invoice
      PROVE  Paid(payment', i) + plan'[r].alloc[i] <= Gross(i)'
  <2>1. CASE OpenCapture(r) /\ ~Stale(r) /\ plan'[r] = plan[r] /\ UNCHANGED ledgerVars
    <3>1. Paid(payment, i) + plan[r].alloc[i] <= Gross(i)
      BY <2>1 DEF GrossInv, PlanWithin
    <3>. QED
      BY <1>1, <2>1, <3>1, PaidKept DEF ledgerVars
  <2>2. CASE /\ UNCHANGED ledgerVars
             /\ req[r] \in CaptureRequest
             /\ plan'[r].alloc \in AcceptedAllocations(invoice, payment, req[r])
    <3>. DEFINE alloc == plan'[r].alloc
    <3>1. alloc[i] \in Nat /\ Paid(payment, i) + alloc[i] <= Gross(i)
      BY <1>0, <2>2, AcceptedWithinGross
    <3>. QED
      BY <1>1, <2>2, <3>1, PaidKept DEF ledgerVars
  <2>. QED
    BY <1>0, <1>3, <2>1, <2>2, OpenBefore
<1>4. PaidWithinGross'
  BY <1>2 DEF PaidWithinGross, Gross
<1>5. PlanWithin'
  BY <1>3 DEF PlanWithin
<1>. QED
  BY <1>4, <1>5

LEMMA GrossKeptByFees ==
    ASSUME GrossInv, FeesStep, UNCHANGED payVars
    PROVE  PaidWithinGross' /\ PlanWithin'
<1>0. LedgerInv /\ UNCHANGED <<payment, lastNumber, req, pc, plan>>
  BY FeesSteps DEF GrossInv, payVars
<1>1. ASSUME NEW i \in Invoice
      PROVE  /\ Paid(payment', i) = Paid(payment, i)
             /\ Gross(i) <= Gross(i)' /\ Gross(i) \in Nat /\ Gross(i)' \in Nat
             /\ Paid(payment, i) \in Nat
  <2>1. invoice'[i] \in InvoiceRow /\ Gross(i) <= Gross(i)' /\ Gross(i) \in Nat
    BY GrossGrows
  <2>. QED
    BY <1>0, <2>1, TablesOK, PaidKept DEF Gross, InvoiceRow
<1>2. PaidWithinGross'
  <2>1. \A i \in Invoice : Paid(payment, i) <= Gross(i)
    BY DEF GrossInv, PaidWithinGross, Gross
  <2>2. \A i \in Invoice : Paid(payment', i) <= Gross(i)'
    BY <1>1, <2>1
  <2>. QED
    BY <2>2 DEF PaidWithinGross, Gross
<1>3. PlanWithin'
  <2>. SUFFICES ASSUME NEW r \in Request, OpenCapture(r), ~Stale(r), NEW i \in Invoice
                PROVE  Paid(payment', i) + plan'[r].alloc[i] <= Gross(i)'
    BY <1>0 DEF PlanWithin, OpenCapture, IsCapture, Stale
  <2>1. Paid(payment, i) + plan[r].alloc[i] <= Gross(i)
    BY DEF GrossInv, PlanWithin
  <2>2. plan[r].alloc[i] \in Nat
    BY <1>0 DEF LedgerInv, TypeOK, Plan, Allocation
  <2>. QED
    BY <1>0, <1>1, <2>1, <2>2
<1>. QED
  BY <1>2, <1>3

LEMMA GrossInvInit == BillingInit => GrossInv
<1>. SUFFICES ASSUME BillingInit PROVE GrossInv
  OBVIOUS
<1>1. Init /\ FeesInit
  BY DEF BillingInit
<1>2. LedgerInv /\ Completed(payment) = {} /\ \A r \in Request : pc[r] # "open"
  BY <1>1, InitInv DEF Init, IInv, Completed
<1>3. FeesTypeOK /\ CheckedKnown
  <2>1. ASSUME NEW s \in Student
        PROVE  SumFunction([i \in OfStudent(s) |-> invoice[i].notes]) \in Nat
    <3>. DEFINE f == [i \in OfStudent(s) |-> invoice[i].notes]
    <3>1. IsFiniteSet(OfStudent(s)) /\ OfStudent(s) \subseteq Invoice
      BY FiniteInvoices, FS_Subset DEF OfStudent
    <3>2. \A i \in OfStudent(s) : f[i] \in Nat
      BY <1>2, <3>1, TablesOK DEF InvoiceRow
    <3>3. DOMAIN f = OfStudent(s)
      OBVIOUS
    <3>. HIDE DEF f
    <3>4. SumFunctionOnSet(f, OfStudent(s)) \in Nat
      BY <3>1, <3>2, SumNat
    <3>. QED
      BY <3>3, <3>4 DEF SumFunction, f
  <2>2. noted \in [Student -> Nat]
    BY <1>1, <2>1 DEF FeesInit
  <2>. QED
    BY <1>1, <2>2 DEF FeesInit, FeesTypeOK, CheckedKnown
<1>4. \A i \in Invoice : Paid(payment, i) = 0 /\ Gross(i) \in Nat
  BY <1>2, SumEmpty, TablesOK DEF Paid, SumFunction
<1>. QED
  BY <1>2, <1>3, <1>4 DEF GrossInv, PaidWithinGross, PlanWithin, OpenCapture, Gross

LEMMA GrossKept == GrossInv /\ [BillingNext]_billingVars => GrossInv'
<1>. SUFFICES ASSUME GrossInv, [BillingNext]_billingVars PROVE GrossInv'
  OBVIOUS
<1>0. LedgerInv /\ FeesTypeOK' /\ CheckedKnown'
  BY FeesTypeKept DEF GrossInv
<1>1. CASE [Next]_vars
  BY <1>0, <1>1, NextLedgerInv, GrossKeptByPayments DEF GrossInv
<1>2. CASE FeesStep /\ UNCHANGED payVars
  BY <1>0, <1>2, LedgerKeptByFees, GrossKeptByFees DEF GrossInv
<1>. QED
  BY <1>1, <1>2, BillingSteps DEF billingVars

LEMMA GrossInvariant == BillingSpec => []GrossInv
  BY GrossInvInit, GrossKept, PTL DEF BillingSpec

(* Fees requests disturb nothing of the ledger: receipts stay gapless,     *)
(* reversals exact and keys unique while invoices change under them.       *)
THEOREM LedgerAmongFees ==
    BillingSpec => [](ReceiptsGapless /\ ReversalsBalance /\ OneRowPerKey)
<1>1. GrossInv => ReceiptsGapless /\ ReversalsBalance /\ OneRowPerKey
  BY DEF GrossInv, LedgerInv
<1>. QED
  BY <1>1, GrossInvariant, PTL

(* However captures, reversals, notes and adjustments interleave, what is  *)
(* paid of an invoice stays within its items and debits.                   *)
THEOREM NeverPaidBeyondGross == BillingSpec => []PaidWithinGross
<1>1. GrossInv => PaidWithinGross
  BY DEF GrossInv
<1>. QED
  BY <1>1, GrossInvariant, PTL

-----------------------------------------------------------------------------
(* Billing, until requests overlap.  What a payments step does to the      *)
(* invariant, then what a fees step does.                                  *)

LEMMA StepTables ==
    ASSUME LedgerInv, [Next]_vars
    PROVE  UNCHANGED invoice
  BY LedgerSteps, CapturedTable, ReversedTable DEF ledgerVars

(* An invoice has a completed payment only if it had one, or a capture     *)
(* has just allocated to it.                                               *)
LEMMA CompletedBefore ==
    ASSUME LedgerInv, [Next]_vars, NEW i \in Invoice, HasCompletedPayment(i)'
    PROVE  \/ HasCompletedPayment(i)
           \/ \E r \in Request : OpenCapture(r) /\ ~Stale(r) /\ plan[r].alloc[i] > 0
<1>1. PICK p \in Recorded' : payment'[p].status = "COMPLETED" /\ payment'[p].alloc[i] > 0
  BY DEF HasCompletedPayment
<1>2. CASE p \in Recorded /\ payment'[p] = payment[p]
  BY <1>1, <1>2 DEF HasCompletedPayment
<1>3. CASE UNCHANGED ledgerVars
  BY <1>1, <1>2, <1>3 DEF ledgerVars, Recorded
<1>4. ASSUME NEW r \in Request, Captured(r), p = r
      PROVE  OpenCapture(r) /\ ~Stale(r) /\ plan[r].alloc[i] > 0
  <2>1. payment'[r] = CaptureRow(r)
    BY <1>4, CapturedTable
  <2>2. payment'[r].alloc = plan[r].alloc
    BY <2>1 DEF CaptureRow
  <2>. QED
    BY <1>1, <1>4, <2>2 DEF Captured, CommitCapture, OpenCapture
<1>5. ASSUME NEW r \in Request, Captured(r), p # r PROVE p \in Recorded /\ payment'[p] = payment[p]
  <2>1. Recorded' = Recorded \cup {r} /\ \A q \in Request \ {r} : payment'[q] = payment[q]
    BY <1>5, CapturedTable
  <2>2. p \in Recorded
    BY <1>1, <1>5, <2>1
  <2>3. p \in Request
    BY <2>2 DEF Recorded
  <2>. QED
    BY <1>5, <2>1, <2>2, <2>3
<1>6. ASSUME NEW r \in Request, Reversed(r) PROVE p \in Recorded /\ payment'[p] = payment[p]
  <2>. DEFINE t == req[r].target
  <2>1. /\ t \in Recorded /\ Recorded' = Recorded \cup {r}
        /\ payment'[r] = ReversalRow(r)
        /\ payment'[t] = [payment[t] EXCEPT !.status = "VOIDED"]
        /\ \A q \in Request \ {r, t} : payment'[q] = payment[q]
    BY <1>6, ReversedTable
  <2>2. p # r
    <3>1. payment'[r].alloc = NoAllocation
      BY <2>1, ReversalFields
    <3>. QED
      BY <1>1, <3>1 DEF NoAllocation
  <2>3. p # t
    <3>1. payment[t] \in PaymentRow
      BY <2>1, TablesOK DEF Recorded
    <3>2. payment'[t].status = "VOIDED"
      BY <2>1, <3>1 DEF PaymentRow
    <3>. QED
      BY <1>1, <3>2
  <2>4. p \in Recorded
    BY <1>1, <2>1, <2>2
  <2>5. p \in Request
    BY <2>4 DEF Recorded
  <2>. QED
    BY <2>1, <2>2, <2>3, <2>4, <2>5
<1>. QED
  BY <1>2, <1>3, <1>4, <1>5, <1>6, LedgerSteps

LEMMA SerialKeptByPayments ==
    ASSUME GrossInv, SerialInv, [Next]_vars, UNCHANGED feesVars, crossed' = (crossed \/ Crossing')
    PROVE  SerialInv'
<1>. DEFINE Open(r) == OpenCapture(r) /\ ~Stale(r)
<1>0. LedgerInv /\ UNCHANGED <<invoice, freq, fpc, overlap>>
  BY StepTables DEF GrossInv, feesVars
<1>1. CheckedCurrent'
  BY <1>0 DEF SerialInv, CheckedCurrent, StillPermitted, MayEnter, InvoiceGross, Charge
<1>2. SerialCreditsWithinCharge'
  BY <1>0 DEF SerialInv, SerialCreditsWithinCharge, CreditsWithinCharge, Charge
<1>3. NotCrossing' /\ (~crossed' => ~crossed /\ ~Crossing)
  <2>1. ~crossed' => ~crossed /\ ~Crossing'
    BY DEF Crossing
  <2>. QED
    BY <2>1 DEF SerialInv, NotCrossing
<1>4. ASSUME ~crossed, NEW r \in Request, NEW i \in Invoice, Open(r), plan[r].alloc[i] > 0
      PROVE  invoice[i].status = "ACTIVE"
  BY <1>4 DEF SerialInv, PlanActive
<1>5. PlanActive'
  <2>. SUFFICES ASSUME ~crossed', NEW r \in Request, Open(r)', NEW i \in Invoice,
                       plan'[r].alloc[i] > 0
                PROVE  invoice'[i].status = "ACTIVE"
    BY DEF PlanActive
  <2>1. CASE Open(r) /\ plan'[r] = plan[r]
    BY <1>0, <1>3, <1>4, <2>1
  <2>2. CASE req[r] \in CaptureRequest
             /\ plan'[r].alloc \in AcceptedAllocations(invoice, payment, req[r])
    <3>. DEFINE alloc == plan'[r].alloc
    <3>1. i \in Payable(invoice, req[r].student)
      BY <1>0, <2>2, TablesOK, AcceptedWithin
    <3>. QED
      BY <1>0, <3>1 DEF Payable
  <2>. QED
    BY <1>0, <2>1, <2>2, OpenBefore
<1>6. VoidCurrent'
  <2>. SUFFICES ASSUME ~overlap, ~crossed', NEW f \in FeesRequest, fpc[f] = "checked",
                       freq[f].kind = "state", freq[f].status = "VOIDED",
                       HasCompletedPayment(freq[f].target)'
                PROVE  FALSE
    BY <1>0 DEF VoidCurrent
  <2>1. freq[f].target \in Invoice
    BY FeesDtoTypes DEF GrossInv, CheckedKnown
  <2>2. ~HasCompletedPayment(freq[f].target)
    BY <1>3 DEF SerialInv, VoidCurrent
  <2>3. \A r \in Request : ~OpenCapture(r)
    BY <1>3 DEF Crossing, OpenCapture
  <2>4. HasCompletedPayment(freq[f].target)' = (\E p \in Recorded' :
           payment'[p].status = "COMPLETED" /\ payment'[p].alloc[freq[f].target] > 0)
    BY <1>0 DEF HasCompletedPayment
  <2>. DEFINE t == freq[f].target
  <2>5. HasCompletedPayment(t)'
    BY <1>0
  <2>. QED
    BY <1>0, <2>1, <2>2, <2>3, <2>5, CompletedBefore
<1>7. VoidedClear'
  <2>. SUFFICES ASSUME ~overlap, ~crossed', NEW i \in Invoice, invoice[i].status = "VOIDED"
                PROVE  invoice[i].notes = 0 /\ ~HasCompletedPayment(i)'
    BY <1>0 DEF VoidedClear, HasCompletedPayment
  <2>1. invoice[i].notes = 0 /\ ~HasCompletedPayment(i)
    BY <1>3 DEF SerialInv, VoidedClear
  <2>2. \A r \in Request : Open(r) => ~ (plan[r].alloc[i] > 0)
    BY <1>3, <1>4
  <2>. QED
    BY <1>0, <2>1, <2>2, CompletedBefore
<1>. QED
  BY <1>1, <1>2, <1>3, <1>5, <1>6, <1>7 DEF SerialInv

(* The requests that are checked after a fees step are those that were,    *)
(* but for the one that steps.                                             *)
LEMMA CommitInSerial ==
    ASSUME GrossInv, SerialInv, ~overlap, NEW f \in FeesRequest, CommitInvoice(f) \/ FeesFail(f)
    PROVE  /\ fpc[f] = "checked" /\ freq[f] \in FeesDto /\ freq[f].target \in Invoice
           /\ StillPermitted(freq[f])
           /\ \A g \in FeesRequest : fpc'[g] # "checked"
<1>1. /\ fpc[f] = "checked"
      /\ fpc \in [FeesRequest -> {"new", "checked", "applied", "refused", "failed"}]
  BY DEF CommitInvoice, FeesFail, GrossInv, FeesTypeOK
<1>2. freq[f] \in FeesDto /\ freq[f].target \in Invoice
  BY <1>1, FeesDtoTypes DEF GrossInv, CheckedKnown
<1>3. StillPermitted(freq[f]) /\ \A g \in FeesRequest : fpc[g] = "checked" => g = f
  BY <1>1 DEF SerialInv, CheckedCurrent
<1>4. fpc'[f] # "checked" /\ \A g \in FeesRequest \ {f} : fpc'[g] = fpc[g]
  BY <1>1 DEF CommitInvoice, FeesFail
<1>. QED
  BY <1>1, <1>2, <1>3, <1>4

(* Without overlap, the row that a commit writes is as it was checked.     *)
LEMMA CommitRow ==
    ASSUME GrossInv, SerialInv, ~overlap, NEW f \in FeesRequest, CommitInvoice(f),
           NEW i \in Invoice
    PROVE  \/ i # freq[f].target /\ invoice'[i] = invoice[i]
           \/ /\ i = freq[f].target
              /\ StillPermitted(freq[f])
              /\ invoice[i] \in InvoiceRow /\ invoice'[i] \in InvoiceRow
              /\ freq[f] \in FeesDto
              /\ invoice'[i] = Written(invoice[i], freq[f])
<1>. DEFINE t == freq[f].target
            new == Written(invoice[t], freq[f])
<1>1. freq[f] \in FeesDto /\ t \in Invoice /\ StillPermitted(freq[f])
  BY CommitInSerial
<1>2. invoice \in [Invoice -> InvoiceRow]
  BY TablesOK DEF GrossInv
<1>3. new \in InvoiceRow
  BY <1>1, <1>2, WrittenRow
<1>4. invoice' = [invoice EXCEPT ![t] = new]
  BY DEF CommitInvoice
<1>. HIDE DEF t, new
<1>5. i # t => invoice'[i] = invoice[i]
  BY <1>1, <1>2, <1>4
<1>6. i = t => invoice'[i] = new /\ invoice[i] \in InvoiceRow
  BY <1>1, <1>2, <1>4
<1>. QED
  BY <1>1, <1>3, <1>5, <1>6 DEF t, new

(* A commit credits an invoice within its charge.                          *)
LEMMA CommitCharge ==
    ASSUME GrossInv, SerialInv, ~overlap, NEW f \in FeesRequest, CommitInvoice(f),
           NEW i \in Invoice, Charge(invoice, i) >= 0
    PROVE  Charge(invoice', i) >= 0
<1>1. CASE invoice'[i] = invoice[i]
  BY <1>1 DEF Charge
<1>2. CASE /\ i = freq[f].target
           /\ StillPermitted(freq[f])
           /\ invoice[i] \in InvoiceRow /\ invoice'[i] \in InvoiceRow
           /\ freq[f] \in FeesDto
           /\ invoice'[i] = Written(invoice[i], freq[f])
  <2>. DEFINE dto == freq[f]
              old == invoice[i]
              new == invoice'[i]
  <2>1. /\ new.items = old.items /\ new.debits >= old.debits
        /\ dto.kind = "state" => new.credits = old.credits /\ new.notes = old.notes
        /\ dto.kind \in {"note", "CREDIT"} =>
              /\ new.debits = old.debits
              /\ new.credits + new.notes = old.credits + old.notes + dto.amount
        /\ dto.kind = "DEBIT" => new.credits = old.credits /\ new.notes = old.notes
    BY <1>2, WrittenRow
  <2>2. /\ dto.kind \in {"state", "note", "CREDIT", "DEBIT"}
        /\ dto.kind # "state" => dto.amount \in Nat
    BY <1>2, FeesDtoTypes
  <2>3. dto.kind \in {"note", "CREDIT"} => dto.amount <= AtLeastZero(Charge(invoice, i))
    BY <1>2, <2>2 DEF StillPermitted, MayEnter, InvoiceGross
  <2>4. /\ old.items \in Nat /\ old.debits \in Nat /\ old.credits \in Nat /\ old.notes \in Nat
        /\ new.items \in Nat /\ new.debits \in Nat /\ new.credits \in Nat /\ new.notes \in Nat
    BY <1>2 DEF InvoiceRow
  <2>5. /\ Charge(invoice, i) = old.items + old.debits - old.credits - old.notes
        /\ Charge(invoice', i) = new.items + new.debits - new.credits - new.notes
    BY DEF Charge
  <2>6. Charge(invoice, i) >= 0 => AtLeastZero(Charge(invoice, i)) = Charge(invoice, i)
    BY <2>4, <2>5 DEF AtLeastZero
  <2>. HIDE DEF dto, old, new
  <2>7. CASE dto.kind \in {"note", "CREDIT"}
    BY <2>1, <2>2, <2>3, <2>4, <2>5, <2>6, <2>7
  <2>8. CASE dto.kind \in {"state", "DEBIT"}
    BY <2>1, <2>4, <2>5, <2>8
  <2>. QED
    BY <2>2, <2>7, <2>8
<1>. QED
  BY <1>1, <1>2, CommitRow

(* An invoice that is voided after a commit was voided before, or it was   *)
(* free of notes when that was checked.                                    *)
LEMMA CommitStatus ==
    ASSUME GrossInv, SerialInv, ~overlap, NEW f \in FeesRequest, CommitInvoice(f),
           NEW i \in Invoice
    PROVE  /\ invoice[i].status \in {"ARCHIVED", "VOIDED"} => invoice'[i].status = invoice[i].status
           /\ invoice'[i].status = "VOIDED" =>
                 \/ invoice'[i] = invoice[i]
                 \/ /\ i = freq[f].target
                    /\ freq[f].kind = "state" /\ freq[f].status = "VOIDED"
                    /\ invoice'[i].notes = 0
<1>1. CASE invoice'[i] = invoice[i]
  BY <1>1
<1>2. CASE /\ i = freq[f].target
           /\ StillPermitted(freq[f])
           /\ invoice[i] \in InvoiceRow /\ invoice'[i] \in InvoiceRow
           /\ freq[f] \in FeesDto
           /\ invoice'[i] = Written(invoice[i], freq[f])
  <2>1. CASE freq[f].kind = "state"
    <3>1. /\ freq[f].status \in AllowedNext(invoice[i].status)
          /\ freq[f].status = "VOIDED" => invoice[i].notes = 0
      BY <1>2, <2>1 DEF StillPermitted
    <3>2. invoice'[i].status = freq[f].status /\ invoice'[i].notes = invoice[i].notes
      BY <1>2, <2>1, WrittenRow
    <3>3. invoice[i].status \notin {"ARCHIVED", "VOIDED"}
      BY <3>1 DEF AllowedNext
    <3>. QED
      BY <1>2, <2>1, <3>1, <3>2, <3>3
  <2>2. CASE freq[f].kind # "state"
    <3>1. invoice[i].status = "ACTIVE"
      BY <1>2, <2>2 DEF StillPermitted, MayEnter
    <3>2. invoice'[i].status = invoice[i].status
      BY <1>2, <2>2, WrittenRow
    <3>. QED
      BY <3>1, <3>2
  <2>. QED
    BY <2>1, <2>2
<1>. QED
  BY <1>1, <1>2, CommitRow

LEMMA SerialKeptByFees ==
    ASSUME GrossInv, SerialInv, FeesStep, UNCHANGED payVars, crossed' = (crossed \/ Crossing')
    PROVE  SerialInv'
<1>0. /\ UNCHANGED <<payment, lastNumber, req, pc, plan>>
      /\ fpc \in [FeesRequest -> {"new", "checked", "applied", "refused", "failed"}]
      /\ freq \in [FeesRequest -> FeesDto \cup {None}]
  BY FeesSteps DEF payVars, GrossInv, FeesTypeOK
<1>1. NotCrossing' /\ (~crossed' => ~crossed /\ ~Crossing)
  <2>1. ~crossed' => ~crossed /\ ~Crossing'
    BY DEF Crossing
  <2>. QED
    BY <2>1 DEF SerialInv, NotCrossing
<1>2. ASSUME NEW i PROVE HasCompletedPayment(i)' = HasCompletedPayment(i)
  BY <1>0 DEF HasCompletedPayment, Recorded
<1>3. ASSUME NEW r PROVE OpenCapture(r)' = OpenCapture(r) /\ Stale(r)' = Stale(r)
  BY <1>0 DEF OpenCapture, IsCapture, Stale
<1>4. ASSUME NEW f \in FeesRequest, NEW dto \in FeesDto, ReadInvoice(f, dto) PROVE SerialInv'
  <2>1. /\ UNCHANGED invoice
        /\ overlap' = (overlap \/ (Permitted(dto) /\ \E g \in FeesRequest : fpc[g] = "checked"))
        /\ \A g \in FeesRequest \ {f} : fpc'[g] = fpc[g] /\ freq'[g] = freq[g]
        /\ fpc'[f] = "checked" => Permitted(dto)
        /\ freq'[f] = dto
    BY <1>0, <1>4 DEF ReadInvoice, ledgerVars
  <2>2. ~overlap' => ~overlap
    BY <2>1
  <2>3. \A d : StillPermitted(d)' = StillPermitted(d)
    BY <2>1 DEF StillPermitted, MayEnter, InvoiceGross, Charge
  <2>4. Permitted(dto) => StillPermitted(dto)
    BY DEF Permitted, MayChangeState, StillPermitted
  <2>5. CheckedCurrent'
    <3>. SUFFICES ASSUME ~overlap', NEW g \in FeesRequest, fpc'[g] = "checked"
                  PROVE  /\ \A h \in FeesRequest : fpc'[h] = "checked" => h = g
                         /\ StillPermitted(freq'[g])
      BY <2>3 DEF CheckedCurrent, StillPermitted, MayEnter, InvoiceGross, Charge
    <3>1. ~overlap /\ \A h \in FeesRequest : fpc[h] = "checked" =>
             /\ \A k \in FeesRequest : fpc[k] = "checked" => k = h
             /\ StillPermitted(freq[h])
      BY <2>2 DEF SerialInv, CheckedCurrent
    <3>2. CASE g = f
      BY <2>1, <2>4, <3>1, <3>2
    <3>3. CASE g # f
      BY <2>1, <3>1, <3>3
    <3>. QED
      BY <3>2, <3>3
  <2>6. SerialCreditsWithinCharge'
    BY <2>1, <2>2 DEF SerialInv, SerialCreditsWithinCharge, CreditsWithinCharge, Charge
  <2>7. PlanActive'
    BY <1>0, <1>1, <1>3, <2>1 DEF SerialInv, PlanActive
  <2>8. VoidCurrent'
    <3>. SUFFICES ASSUME ~overlap', ~crossed', NEW g \in FeesRequest, fpc'[g] = "checked",
                         freq'[g].kind = "state", freq'[g].status = "VOIDED"
                  PROVE  ~HasCompletedPayment(freq'[g].target)
      BY <1>0 DEF VoidCurrent, HasCompletedPayment, Recorded
    <3>1. CASE g = f
      BY <2>1, <3>1 DEF Permitted, MayChangeState
    <3>2. CASE g # f
      BY <1>1, <2>1, <2>2, <3>2 DEF SerialInv, VoidCurrent
    <3>. QED
      BY <3>1, <3>2
  <2>9. VoidedClear'
    BY <1>1, <1>2, <2>1, <2>2 DEF SerialInv, VoidedClear
  <2>. QED
    BY <1>1, <2>5, <2>6, <2>7, <2>8, <2>9 DEF SerialInv
<1>5. ASSUME NEW f \in FeesRequest, CommitInvoice(f) \/ FeesFail(f) PROVE SerialInv'
  <2>1. UNCHANGED <<freq, overlap>> /\ fpc[f] = "checked"
    BY <1>5 DEF CommitInvoice, FeesFail
  <2>2. ~overlap => \A g \in FeesRequest : fpc'[g] # "checked"
    BY <1>5, CommitInSerial
  <2>3. CheckedCurrent' /\ VoidCurrent'
    BY <2>1, <2>2 DEF CheckedCurrent, VoidCurrent
  <2>4. UNCHANGED invoice \/ CommitInvoice(f)
    BY <1>5 DEF FeesFail, ledgerVars
  <2>5. SerialCreditsWithinCharge'
    <3>1. CASE UNCHANGED invoice
      BY <2>1, <3>1 DEF SerialInv, SerialCreditsWithinCharge, CreditsWithinCharge, Charge
    <3>2. CASE CommitInvoice(f)
      BY <2>1, <3>2, CommitCharge DEF SerialInv, SerialCreditsWithinCharge, CreditsWithinCharge
    <3>. QED
      BY <2>4, <3>1, <3>2
  <2>6. PlanActive'
    <3>1. ~crossed' => \A r \in Request : ~OpenCapture(r)
      BY <1>1, <2>1 DEF Crossing, OpenCapture
    <3>. QED
      BY <1>3, <3>1 DEF PlanActive
  <2>7. VoidedClear'
    <3>. SUFFICES ASSUME ~overlap, ~crossed, NEW i \in Invoice, invoice'[i].status = "VOIDED"
                  PROVE  invoice'[i].notes = 0 /\ ~HasCompletedPayment(i)
      BY <1>1, <1>2, <2>1 DEF VoidedClear
    <3>1. CASE invoice'[i] = invoice[i]
      BY <3>1 DEF SerialInv, VoidedClear
    <3>2. CASE /\ i = freq[f].target
               /\ freq[f].kind = "state" /\ freq[f].status = "VOIDED"
               /\ invoice'[i].notes = 0
      BY <2>1, <3>2 DEF SerialInv, VoidCurrent
    <3>. QED
      BY <2>4, <3>1, <3>2, CommitStatus
  <2>. QED
    BY <1>1, <2>3, <2>5, <2>6, <2>7 DEF SerialInv
<1>. QED
  BY <1>4, <1>5 DEF FeesStep

LEMMA SerialInit == BillingInit => SerialInv
<1>. SUFFICES ASSUME BillingInit PROVE SerialInv
  OBVIOUS
<1>1. /\ \A i \in Invoice : Charge(invoice, i) >= 0
                            /\ (invoice[i].status = "VOIDED" => invoice[i].notes = 0)
      /\ \A i \in Invoice : ~HasCompletedPayment(i)
      /\ \A r \in Request : ~OpenCapture(r)
  BY SoundInvoicesAssumption
  DEF BillingInit, Init, HasCompletedPayment, Recorded, OpenCapture
<1>2. \A f \in FeesRequest : fpc[f] # "checked"
  BY DEF BillingInit, FeesInit
<1>3. CheckedCurrent /\ VoidCurrent /\ PlanActive
  BY <1>1, <1>2 DEF CheckedCurrent, VoidCurrent, PlanActive
<1>4. SerialCreditsWithinCharge /\ VoidedClear
  BY <1>1 DEF SerialCreditsWithinCharge, CreditsWithinCharge, VoidedClear
<1>5. NotCrossing
  BY <1>2 DEF NotCrossing, Crossing
<1>. QED
  BY <1>3, <1>4, <1>5 DEF SerialInv

LEMMA SerialKept == GrossInv /\ SerialInv /\ [BillingNext]_billingVars => SerialInv'
<1>. SUFFICES ASSUME GrossInv, SerialInv, [BillingNext]_billingVars PROVE SerialInv'
  OBVIOUS
<1>1. CASE UNCHANGED billingVars
  BY <1>1 DEF billingVars, vars, payVars, ledgerVars, feesVars,
     SerialInv, CheckedCurrent, StillPermitted, MayEnter, InvoiceGross, Charge, SerialCreditsWithinCharge, CreditsWithinCharge,
     NotCrossing, Crossing, PlanActive, OpenCapture, Stale, IsCapture, VoidCurrent,
     HasCompletedPayment, Recorded, VoidedClear
<1>. QED
  BY <1>1, BillingSteps, SerialKeptByPayments, SerialKeptByFees

LEMMA SerialInvariant == BillingSpec => [](GrossInv /\ SerialInv)
<1>1. GrossInv /\ SerialInv /\ [BillingNext]_billingVars => (GrossInv /\ SerialInv)'
  BY GrossKept, SerialKept
<1>. QED
  BY <1>1, GrossInvInit, SerialInit, PTL DEF BillingSpec

(* Until two fees requests overlap, no invoice is credited beyond what it  *)
(* charges.                                                                *)
THEOREM SerialCredits == BillingSpec => []SerialCreditsWithinCharge
<1>1. SerialInv => SerialCreditsWithinCharge
  BY DEF SerialInv
<1>. QED
  BY <1>1, SerialInvariant, PTL

(* Until requests overlap, a voided invoice bears no note and no completed *)
(* payment.                                                                *)
THEOREM VoidedStaysClear == BillingSpec => []VoidedClear
<1>1. SerialInv => VoidedClear
  BY DEF SerialInv
<1>. QED
  BY <1>1, SerialInvariant, PTL

(* Until two fees requests overlap, an archived or voided invoice stays so.*)
THEOREM TerminalStatesStay == BillingSpec => TerminalStates
<1>. DEFINE Stays == \A i \in Invoice :
        ~overlap /\ invoice[i].status \in {"ARCHIVED", "VOIDED"} =>
            invoice'[i].status = invoice[i].status
<1>1. ASSUME GrossInv, SerialInv, [BillingNext]_billingVars PROVE Stays
  <2>1. CASE UNCHANGED invoice
    BY <2>1
  <2>2. ASSUME NEW f \in FeesRequest, CommitInvoice(f) PROVE Stays
    BY <1>1, <2>2, CommitStatus
  <2>3. [Next]_vars => UNCHANGED invoice
    BY <1>1, StepTables DEF GrossInv
  <2>4. FeesStep => UNCHANGED invoice \/ \E f \in FeesRequest : CommitInvoice(f)
    BY DEF FeesStep, ReadInvoice, FeesFail, ledgerVars
  <2>. QED
    BY <1>1, <2>1, <2>2, <2>3, <2>4, BillingSteps DEF billingVars, vars, ledgerVars
<1>2. GrossInv /\ SerialInv /\ [BillingNext]_billingVars => [Stays]_billingVars
  BY <1>1
<1>. QED
  BY <1>2, SerialInvariant, PTL DEF BillingSpec, TerminalStates

-----------------------------------------------------------------------------
(* Accounts: the statement, by student, and the student page, by invoice.  *)

(* A sum is that over the part where the terms are not 0.                  *)
LEMMA SumPart ==
    ASSUME NEW S, IsFiniteSet(S), NEW R \in SUBSET S, NEW f, \A x \in S : f[x] \in Int,
           \A x \in S \ R : f[x] = 0
    PROVE  SumFunctionOnSet(f, S) = SumFunctionOnSet(f, R)
<1>. DEFINE Sigma(T) == SumFunctionOnSet(f, T)
            P == {T \in SUBSET S : Sigma(T) = Sigma(T \cap R)}
<1>0. \A T \in SUBSET S : IsFiniteSet(T) /\ Sigma(T) \in Int
  BY Subsets, SumInt
<1>1. ASSUME NEW T \in SUBSET S, \A y \in T : T \ {y} \in P PROVE Sigma(T) = Sigma(T \cap R)
  <2>1. CASE T \subseteq R
    <3>1. T \cap R = T
      BY <2>1
    <3>. QED
      BY <3>1
  <2>2. ASSUME NEW y \in T, y \notin R PROVE Sigma(T) = Sigma(T \cap R)
    <3>1. Sigma(T) = f[y] + Sigma(T \ {y})
      BY <1>0, SumSplit
    <3>2. f[y] = 0 /\ (T \ {y}) \cap R = T \cap R
      BY <2>2
    <3>3. Sigma(T \ {y}) = Sigma(T \cap R)
      BY <1>1, <3>2
    <3>4. Sigma(T \cap R) \in Int
      BY <1>0
    <3>. QED
      BY <3>1, <3>2, <3>3, <3>4
  <2>. QED
    BY <2>1, <2>2
<1>2. S \in P
  <2>1. \A T \in SUBSET S : (\A y \in T : T \ {y} \in P) => T \in P
    BY <1>1
  <2>. HIDE DEF P
  <2>. QED
    BY <2>1, SubsetInduction
<1>3. S \cap R = R
  OBVIOUS
<1>. QED
  BY <1>2, <1>3

(* A table may be summed by rows or by columns.                            *)
Transposed(a, b, S, T) == \A x \in S, y \in T : a[x][y] \in Int /\ b[y][x] = a[x][y]
RowSums(f, a, S, T) == \A x \in S : f[x] = SumFunctionOnSet(a[x], T)

LEMMA SumSwap ==
    ASSUME NEW S, IsFiniteSet(S), NEW T, IsFiniteSet(T),
           NEW a, NEW b, Transposed(a, b, S, T),
           NEW f, RowSums(f, a, S, T), NEW g, RowSums(g, b, T, S)
    PROVE  SumFunctionOnSet(f, S) = SumFunctionOnSet(g, T)
<1>. USE DEF Transposed, RowSums
<1>. DEFINE column(R) == [y \in T |-> SumFunctionOnSet(b[y], R)]
            P == {R \in SUBSET S : SumFunctionOnSet(f, R) = SumFunctionOnSet(column(R), T)}
<1>0. ASSUME NEW R \in SUBSET S
      PROVE  /\ IsFiniteSet(R)
             /\ \A y \in T : SumFunctionOnSet(b[y], R) \in Int
  <2>1. IsFiniteSet(R)
    BY Subsets
  <2>2. ASSUME NEW y \in T PROVE SumFunctionOnSet(b[y], R) \in Int
    <3>1. \A x \in R : b[y][x] \in Int
      OBVIOUS
    <3>. QED
      BY <2>1, <3>1, SumInt
  <2>. QED
    BY <2>1, <2>2
<1>1. ASSUME NEW R \in SUBSET S, \A x \in R : R \ {x} \in P
      PROVE  SumFunctionOnSet(f, R) = SumFunctionOnSet(column(R), T)
  <2>1. CASE R = {}
    <3>1. SumFunctionOnSet(f, R) = 0 /\ \A y \in T : column(R)[y] = 0
      BY <2>1, SumEmpty
    <3>2. SumFunctionOnSet(column(R), T) = SumFunctionOnSet(column(R), {})
      <4>. HIDE DEF column
      <4>. QED
        BY <3>1, SumPart
    <3>. QED
      BY <3>1, <3>2, SumEmpty
  <2>2. ASSUME NEW x \in R PROVE SumFunctionOnSet(f, R) = SumFunctionOnSet(column(R), T)
    <3>. DEFINE Q == R \ {x}
    <3>1. \A z \in R : f[z] \in Int
      BY SumInt
    <3>2. SumFunctionOnSet(f, R) = f[x] + SumFunctionOnSet(f, Q)
      BY <1>0, <3>1, SumSplit
    <3>3. \A y \in T : /\ column(R)[y] = a[x][y] + column(Q)[y]
                       /\ column(R)[y] \in Int /\ column(Q)[y] \in Int /\ a[x][y] \in Int
      <4>. SUFFICES ASSUME NEW y \in T
                    PROVE  /\ SumFunctionOnSet(b[y], R) = a[x][y] + SumFunctionOnSet(b[y], Q)
                           /\ SumFunctionOnSet(b[y], R) \in Int
                           /\ SumFunctionOnSet(b[y], Q) \in Int
                           /\ a[x][y] \in Int
        OBVIOUS
      <4>1. \A z \in R : b[y][z] \in Int
        OBVIOUS
      <4>2. SumFunctionOnSet(b[y], R) = b[y][x] + SumFunctionOnSet(b[y], Q)
        BY <1>0, <4>1, SumSplit
      <4>. QED
        BY <1>0, <4>2
    <3>4. SumFunctionOnSet(column(Q), T)
            = SumFunctionOnSet(column(R), T) - SumFunctionOnSet(a[x], T)
      <4>. HIDE DEF column, Q
      <4>1. \A y \in T : /\ column(R)[y] \in Int /\ a[x][y] \in Int
                         /\ column(Q)[y] = column(R)[y] - a[x][y]
        BY <3>3
      <4>. DEFINE h == column(Q)
                  k == column(R)
                  e == a[x]
      <4>. HIDE DEF h, k, e
      <4>2. \A y \in T : k[y] \in Int /\ e[y] \in Int /\ h[y] = k[y] - e[y]
        BY <4>1 DEF h, k, e
      <4>3. SumFunctionOnSet(h, T) = SumFunctionOnSet(k, T) - SumFunctionOnSet(e, T)
        BY <4>2, SumMinus
      <4>. QED
        BY <4>3 DEF h, k, e
    <3>5. SumFunctionOnSet(f, Q) = SumFunctionOnSet(column(Q), T)
      BY <1>1
    <3>6. SumFunctionOnSet(column(R), T) \in Int /\ f[x] \in Int
      <4>1. SumFunctionOnSet(column(R), T) \in Int
        <5>. HIDE DEF column
        <5>. QED
          BY <3>3, SumInt
      <4>. QED
        BY <3>1, <4>1
    <3>7. f[x] = SumFunctionOnSet(a[x], T)
      OBVIOUS
    <3>. HIDE DEF column, Q
    <3>. QED
      BY <3>2, <3>4, <3>5, <3>6, <3>7
  <2>. QED
    BY <2>1, <2>2
<1>2. S \in P
  <2>1. \A R \in SUBSET S : (\A x \in R : R \ {x} \in P) => R \in P
    BY <1>1
  <2>. HIDE DEF P
  <2>. QED
    BY <2>1, SubsetInduction
<1>3. SumFunctionOnSet(column(S), T) = SumFunctionOnSet(g, T)
  <2>1. \A y \in T : column(S)[y] = g[y]
    OBVIOUS
  <2>. HIDE DEF column
  <2>. QED
    BY <2>1, SumSame
<1>. QED
  BY <1>2, <1>3

(* What the allocations that name a student add up to is what is paid of   *)
(* the student's invoices.                                                 *)
LEMMA AllocatedIsSettled ==
    ASSUME LedgerInv, FullyAllocated, NEW s \in Student
    PROVE  Allocated(s) = Settled(OfStudent(s)) /\ Allocated(s) \in Int
<1>. DEFINE C == Completed(payment)
            Q == {q \in C : payment[q].student = s}
            S == OfStudent(s)
            a == [p \in Q |-> payment[p].alloc]
            b == [i \in S |-> [p \in C |-> payment[p].alloc[i]]]
            f == [p \in Q |-> SumFunction(payment[p].alloc)]
            g == [i \in S |-> Paid(payment, i)]
<1>1. /\ IsFiniteSet(C) /\ IsFiniteSet(Q) /\ Q \subseteq C
      /\ IsFiniteSet(Invoice) /\ IsFiniteSet(S) /\ S \subseteq Invoice
  BY TablesOK, FiniteInvoices, FS_Subset DEF OfStudent
<1>2. ASSUME NEW p \in C
      PROVE  /\ payment[p].alloc \in [Invoice -> Nat]
             /\ \A i \in Invoice :
                   payment[p].alloc[i] # 0 => Owner[i] = payment[p].student
  <2>1. p \in Recorded /\ payment[p] \in PaymentRow
    BY TablesOK DEF Completed, Recorded
  <2>2. payment[p].alloc \in [Invoice -> Nat]
    BY <2>1 DEF PaymentRow, Allocation
  <2>3. CASE payment[p].reverses = None
    BY <2>1, <2>2, <2>3 DEF FullyAllocated
  <2>4. CASE payment[p].reverses # None
    <3>1. payment[p].alloc = NoAllocation
      BY <2>1, <2>4 DEF LedgerInv, ReversalInv, ReversalsBalance, ReversalsOf, Recorded
    <3>. QED
      BY <2>2, <3>1 DEF NoAllocation
  <2>. QED
    BY <2>2, <2>3, <2>4
<1>3. \A p \in Q : f[p] = SumFunctionOnSet(a[p], S)
  <2>. SUFFICES ASSUME NEW p \in Q
                PROVE  SumFunctionOnSet(payment[p].alloc, Invoice)
                         = SumFunctionOnSet(payment[p].alloc, S)
    BY <1>2 DEF SumFunction
  <2>. DEFINE row == payment[p].alloc
  <2>1. (\A i \in Invoice : row[i] \in Int) /\ \A i \in Invoice \ S : row[i] = 0
    BY <1>2 DEF OfStudent
  <2>. HIDE DEF row, S
  <2>2. SumFunctionOnSet(row, Invoice) = SumFunctionOnSet(row, S)
    BY <1>1, <2>1, SumPart
  <2>. QED
    BY <2>2 DEF row
<1>4. \A i \in S : g[i] = SumFunctionOnSet(b[i], Q)
  <2>. SUFFICES ASSUME NEW i \in S PROVE Paid(payment, i) = SumFunctionOnSet(b[i], Q)
    OBVIOUS
  <2>1. Paid(payment, i) = SumFunctionOnSet(b[i], C)
    BY DEF Paid, SumFunction
  <2>2. (\A p \in C : b[i][p] \in Int) /\ \A p \in C \ Q : b[i][p] = 0
    BY <1>2 DEF OfStudent
  <2>. HIDE DEF b, C, Q, S
  <2>3. SumFunctionOnSet(b[i], C) = SumFunctionOnSet(b[i], Q)
    BY <1>1, <2>2, SumPart
  <2>. QED
    BY <2>1, <2>3
<1>5. \A p \in Q, i \in S : a[p][i] \in Int /\ b[i][p] = a[p][i]
  BY <1>1, <1>2
<1>6. Allocated(s) = SumFunctionOnSet(f, Q) /\ Settled(S) = SumFunctionOnSet(g, S)
  BY DEF Allocated, Settled, SumFunction
<1>7. \A i \in S : g[i] \in Int
  BY TablesOK DEF OfStudent
<1>. HIDE DEF a, b, f, g, Q, C, S
<1>8. SumFunctionOnSet(f, Q) = SumFunctionOnSet(g, S)
  <2>1. Transposed(a, b, Q, S) /\ RowSums(f, a, Q, S) /\ RowSums(g, b, S, Q)
    BY <1>3, <1>4, <1>5 DEF Transposed, RowSums
  <2>. QED
    BY <1>1, <2>1, SumSwap
<1>9. SumFunctionOnSet(g, S) \in Int
  BY <1>1, <1>7, SumInt
<1>. QED
  BY <1>6, <1>8, <1>9 DEF S

(* A sum over a student's invoices splits into the voided and the others.  *)
LEMMA SumApart ==
    ASSUME NEW S, IsFiniteSet(S), NEW V \in SUBSET S, NEW f, \A x \in S : f[x] \in Int
    PROVE  SumFunctionOnSet(f, S) = SumFunctionOnSet(f, S \ V) + SumFunctionOnSet(f, V)
<1>. DEFINE in == [x \in S |-> IF x \in V THEN f[x] ELSE 0]
            out == [x \in S |-> IF x \in V THEN 0 ELSE f[x]]
<1>1. \A x \in S : in[x] \in Int /\ f[x] \in Int /\ out[x] = f[x] - in[x]
  OBVIOUS
<1>2. IsFiniteSet(V) /\ IsFiniteSet(S \ V) /\ S \ V \in SUBSET S
  BY Subsets
<1>3. (\A x \in S \ V : in[x] = 0) /\ \A x \in V : in[x] = f[x]
  OBVIOUS
<1>4. (\A x \in S \ (S \ V) : out[x] = 0) /\ \A x \in S \ V : out[x] = f[x]
  OBVIOUS
<1>5. \A x \in S : out[x] \in Int
  BY <1>1
<1>. HIDE DEF in, out
<1>6. SumFunctionOnSet(out, S) = SumFunctionOnSet(f, S) - SumFunctionOnSet(in, S)
  BY <1>1, SumMinus
<1>7. SumFunctionOnSet(in, S) = SumFunctionOnSet(in, V)
  BY <1>1, <1>3, SumPart
<1>8. SumFunctionOnSet(in, V) = SumFunctionOnSet(f, V)
  BY <1>2, <1>3, SumSame
<1>9. SumFunctionOnSet(out, S) = SumFunctionOnSet(out, S \ V)
  BY <1>2, <1>4, <1>5, SumPart
<1>10. SumFunctionOnSet(out, S \ V) = SumFunctionOnSet(f, S \ V)
  BY <1>2, <1>4, SumSame
<1>11. /\ SumFunctionOnSet(f, S) \in Int /\ SumFunctionOnSet(f, S \ V) \in Int
       /\ SumFunctionOnSet(f, V) \in Int
  BY <1>2, SumInt
<1>. QED
  BY <1>6, <1>7, <1>8, <1>9, <1>10, <1>11

LEMMA StatementBalances ==
    ASSUME LedgerInv, FullyAllocated, NotesOwned, NEW s \in Student,
           NEW voided, voided = {i \in OfStudent(s) : invoice[i].status = "VOIDED"}
    PROVE  Statement(s).debits - Statement(s).credits
             = PresentStudent(s).billed - PresentStudent(s).paid
                 + Charged(voided) - Settled(voided)
<1>. DEFINE S == OfStudent(s)
            debit == [i \in S |-> invoice[i].items + invoice[i].debits]
            credit == [i \in S |-> invoice[i].credits]
            notes == [i \in S |-> invoice[i].notes]
            net == [i \in S |-> invoice[i].items + invoice[i].debits - invoice[i].credits]
            charge == [i \in S |-> Charge(invoice, i)]
            paid == [i \in S |-> Paid(payment, i)]
            Sigma(f) == SumFunctionOnSet(f, S)
            On(f, T) == SumFunctionOnSet(f, T)
<1>1. /\ IsFiniteSet(S) /\ voided \in SUBSET S /\ IsFiniteSet(voided)
      /\ IsFiniteSet(S \ voided) /\ S \ voided \in SUBSET S
      /\ {i \in S : invoice[i].status # "VOIDED"} = S \ voided
  BY FiniteInvoices, FS_Subset, Subsets DEF OfStudent
<1>2. /\ Statement(s).debits = Sigma(debit)
      /\ Statement(s).credits = Sigma(credit) + Sigma(paid) + Sigma(notes)
  BY AllocatedIsSettled DEF Statement, NotesOwned, Settled, SumFunction
<1>3. ASSUME NEW i \in S
      PROVE  /\ debit[i] \in Int /\ credit[i] \in Int /\ notes[i] \in Int
             /\ net[i] \in Int /\ charge[i] \in Int /\ paid[i] \in Int
             /\ net[i] = debit[i] - credit[i] /\ charge[i] = net[i] - notes[i]
  <2>1. i \in Invoice
    BY DEF OfStudent
  <2>2. invoice[i] \in InvoiceRow /\ Paid(payment, i) \in Nat
    BY <2>1, TablesOK
  <2>3. /\ invoice[i].items \in Nat /\ invoice[i].debits \in Nat
        /\ invoice[i].credits \in Nat /\ invoice[i].notes \in Nat
    BY <2>2 DEF InvoiceRow
  <2>. QED
    BY <2>2, <2>3 DEF Charge
<1>4. ASSUME NEW T \in SUBSET S
      PROVE  Charged(T) = On(charge, T) /\ Settled(T) = On(paid, T)
  <2>1. \A i \in T : charge[i] = [j \in T |-> Charge(invoice, j)][i]
    OBVIOUS
  <2>2. \A i \in T : paid[i] = [j \in T |-> Paid(payment, j)][i]
    OBVIOUS
  <2>. HIDE DEF charge, paid
  <2>. QED
    BY <1>1, <2>1, <2>2, Subsets, SumSame DEF Charged, Settled, SumFunction
<1>5. /\ PresentStudent(s).billed = Charged(S \ voided)
      /\ PresentStudent(s).paid = Settled(S \ voided)
  BY <1>1 DEF PresentStudent
<1>. HIDE DEF S, debit, credit, notes, net, charge, paid
<1>6. Sigma(net) = Sigma(debit) - Sigma(credit) /\ Sigma(charge) = Sigma(net) - Sigma(notes)
  BY <1>1, <1>3, SumMinus
<1>7. /\ Sigma(charge) = On(charge, S \ voided) + On(charge, voided)
      /\ Sigma(paid) = On(paid, S \ voided) + On(paid, voided)
  BY <1>1, <1>3, SumApart
<1>8. /\ Sigma(debit) \in Int /\ Sigma(credit) \in Int /\ Sigma(notes) \in Int
      /\ Sigma(net) \in Int /\ Sigma(charge) \in Int /\ Sigma(paid) \in Int
  BY <1>1, <1>3, SumInt
<1>9. /\ On(charge, voided) \in Int /\ On(charge, S \ voided) \in Int
      /\ On(paid, voided) \in Int /\ On(paid, S \ voided) \in Int
  BY <1>1, <1>3, SumInt
<1>10. /\ Charged(voided) = On(charge, voided) /\ Settled(voided) = On(paid, voided)
       /\ PresentStudent(s).billed = On(charge, S \ voided)
       /\ PresentStudent(s).paid = On(paid, S \ voided)
  BY <1>1, <1>4, <1>5
<1>. HIDE DEF Sigma, On
<1>11. Sigma(debit) - (Sigma(credit) + Sigma(paid) + Sigma(notes)) = Sigma(charge) - Sigma(paid)
  BY <1>6, <1>8
<1>. QED
  BY <1>2, <1>7, <1>8, <1>9, <1>10, <1>11

-----------------------------------------------------------------------------
(* What the rows say of students, however requests overlap.                *)

LEMMA AccountsKeptByPayments ==
    ASSUME LedgerInv, AccountsInv, [Next]_vars, UNCHANGED noted
    PROVE  AccountsInv'
<1>0. PlanFull /\ FullyAllocated /\ NotesOwned
  BY DEF AccountsInv
<1>1. FullyAllocated'
  BY <1>0, FullKept
<1>2. NotesOwned'
  <2>1. invoice' = invoice
    BY LedgerSteps, CapturedTable, ReversedTable DEF ledgerVars
  <2>. QED
    BY <1>0, <2>1 DEF NotesOwned
<1>3. ASSUME NEW r \in Request, OpenCapture(r)', ~Stale(r)'
      PROVE  /\ SumFunction(plan'[r].alloc) = req'[r].amount
             /\ \A i \in Invoice : plan'[r].alloc[i] > 0 => Owner[i] = req'[r].student
  <2>1. CASE /\ OpenCapture(r) /\ ~Stale(r) /\ plan'[r] = plan[r] /\ req'[r] = req[r]
    BY <1>0, <2>1 DEF PlanFull
  <2>2. CASE /\ req'[r] = req[r] /\ req[r] \in CaptureRequest
             /\ plan'[r].alloc \in AcceptedAllocations(invoice, payment, req[r])
    BY <2>2, AcceptedInFull
  <2>. QED
    BY <1>3, <2>1, <2>2, OpenBefore
<1>4. PlanFull'
  BY <1>3 DEF PlanFull
<1>. QED
  BY <1>1, <1>2, <1>4 DEF AccountsInv

(* A note that is entered is counted by its invoice and by its student.    *)
LEMMA NotesKept ==
    ASSUME GrossInv, NotesOwned, NEW f \in FeesRequest, CommitInvoice(f), NEW s \in Student
    PROVE  noted'[s] = SumFunction([i \in OfStudent(s) |-> invoice'[i].notes])
<1>. DEFINE dto == freq[f]
            t == dto.target
            S == OfStudent(s)
            old == [i \in S |-> invoice[i].notes]
            new == [i \in S |-> invoice'[i].notes]
<1>1. /\ dto \in FeesDto /\ t \in Invoice /\ dto.kind \in {"state", "note", "CREDIT", "DEBIT"}
      /\ dto.kind # "state" => dto.amount \in Nat
  BY FeesDtoTypes DEF GrossInv, CheckedKnown, CommitInvoice
<1>2. /\ invoice \in [Invoice -> InvoiceRow] /\ noted \in [Student -> Nat]
      /\ noted[s] = SumFunctionOnSet(old, S)
  BY DEF GrossInv, LedgerInv, TypeOK, LedgerTypeOK, FeesTypeOK, NotesOwned, SumFunction
<1>3. /\ invoice' = [invoice EXCEPT ![t] = Written(@, dto)] /\ noted' = Noted(dto)
  BY DEF CommitInvoice
<1>4. IsFiniteSet(S) /\ S \subseteq Invoice /\ (t \in S <=> Owner[t] = s)
  BY <1>1, FiniteInvoices, FS_Subset DEF OfStudent
<1>5. invoice'[t].notes = invoice[t].notes + (IF dto.kind = "note" THEN dto.amount ELSE 0)
  <2>1. invoice'[t] = Written(invoice[t], dto) /\ invoice[t] \in InvoiceRow
    BY <1>1, <1>2, <1>3
  <2>2. CASE dto.kind = "note"
    BY <2>1, <2>2 DEF Written, InvoiceRow
  <2>3. CASE dto.kind \in {"state", "CREDIT", "DEBIT"}
    <3>1. Written(invoice[t], dto).notes = invoice[t].notes /\ invoice[t].notes \in Nat
      BY <2>1, <2>3 DEF Written, InvoiceRow
    <3>. QED
      BY <2>1, <2>3, <3>1
  <2>. QED
    BY <1>1, <2>2, <2>3
<1>6. \A i \in S : i # t => new[i] = old[i]
  BY <1>2, <1>3, <1>4
<1>7. \A i \in S : old[i] \in Int
  BY <1>2, <1>4 DEF InvoiceRow
<1>8. CASE t \in S
  <2>. DEFINE more == IF dto.kind = "note" THEN dto.amount ELSE 0
  <2>1. more \in Int /\ noted'[s] = noted[s] + more
    BY <1>1, <1>2, <1>3, <1>4, <1>8 DEF Noted
  <2>2. new[t] = old[t] + more
    BY <1>5, <1>8
  <2>3. \A i \in S : new[i] \in Int
    BY <1>6, <1>7, <2>1, <2>2
  <2>4. S \ {t} \in SUBSET S /\ IsFiniteSet(S \ {t})
    BY <1>4, Subsets
  <2>. HIDE DEF new, old, S, more, t
  <2>5. /\ SumFunctionOnSet(old, S) = old[t] + SumFunctionOnSet(old, S \ {t})
        /\ SumFunctionOnSet(new, S) = new[t] + SumFunctionOnSet(new, S \ {t})
    BY <1>4, <1>7, <1>8, <2>3, SumSplit
  <2>6. SumFunctionOnSet(new, S \ {t}) = SumFunctionOnSet(old, S \ {t})
    BY <1>6, <2>4, SumSame
  <2>7. SumFunctionOnSet(old, S \ {t}) \in Int /\ old[t] \in Int
    BY <1>7, <1>8, <2>4, SumInt
  <2>8. noted'[s] = SumFunctionOnSet(new, S)
    BY <1>2, <2>1, <2>2, <2>5, <2>6, <2>7
  <2>. QED
    BY <2>8 DEF new, S, SumFunction
<1>9. CASE t \notin S
  <2>1. noted'[s] = noted[s]
    BY <1>2, <1>3, <1>4, <1>9 DEF Noted
  <2>2. \A i \in S : new[i] = old[i]
    BY <1>6, <1>9
  <2>. HIDE DEF new, old, S
  <2>3. SumFunctionOnSet(new, S) = SumFunctionOnSet(old, S)
    BY <1>4, <2>2, SumSame
  <2>. QED
    BY <1>2, <2>1, <2>3 DEF new, S, SumFunction
<1>. QED
  BY <1>8, <1>9

LEMMA AccountsKeptByFees ==
    ASSUME GrossInv, AccountsInv, FeesStep, UNCHANGED payVars
    PROVE  AccountsInv'
<1>0. PlanFull /\ FullyAllocated /\ NotesOwned
  BY DEF AccountsInv
<1>1. UNCHANGED <<payment, lastNumber, req, pc, plan>>
  BY FeesSteps DEF payVars
<1>2. PlanFull' /\ FullyAllocated'
  BY <1>0, <1>1 DEF PlanFull, FullyAllocated, OpenCapture, IsCapture, Stale, Recorded
<1>3. NotesOwned'
  <2>1. ASSUME NEW f \in FeesRequest, CommitInvoice(f) PROVE NotesOwned'
    BY <1>0, <2>1, NotesKept DEF NotesOwned
  <2>2. CASE UNCHANGED <<invoice, noted>>
    BY <1>0, <2>2 DEF NotesOwned
  <2>. QED
    BY <2>1, <2>2 DEF FeesStep, ReadInvoice, FeesFail, ledgerVars
<1>. QED
  BY <1>2, <1>3 DEF AccountsInv

LEMMA AccountsInit == BillingInit => AccountsInv
<1>. SUFFICES ASSUME BillingInit PROVE AccountsInv
  OBVIOUS
<1>1. Recorded = {} /\ \A r \in Request : pc[r] # "open"
  BY DEF BillingInit, Init, Recorded
<1>2. NotesOwned
  BY DEF BillingInit, FeesInit, NotesOwned
<1>. QED
  BY <1>1, <1>2 DEF AccountsInv, PlanFull, FullyAllocated, OpenCapture

LEMMA AccountsInvariant == BillingSpec => [](GrossInv /\ AccountsInv)
<1>1. GrossInv /\ AccountsInv /\ [BillingNext]_billingVars => AccountsInv'
  <2>. SUFFICES ASSUME GrossInv, AccountsInv, [BillingNext]_billingVars PROVE AccountsInv'
    OBVIOUS
  <2>1. CASE [Next]_vars /\ UNCHANGED noted
    BY <2>1, AccountsKeptByPayments DEF GrossInv
  <2>2. CASE FeesStep /\ UNCHANGED payVars
    BY <2>2, AccountsKeptByFees
  <2>. QED
    BY <2>1, <2>2, BillingSteps DEF billingVars, feesVars
<1>. QED
  BY <1>1, GrossInvariant, AccountsInit, PTL DEF BillingSpec

(* Allocations stay in full and with the student they name while invoices  *)
(* are archived, voided and credited under the captures.                   *)
THEOREM AllocatedAmongFees == BillingSpec => []FullyAllocated
<1>1. AccountsInv => FullyAllocated
  BY DEF AccountsInv
<1>. QED
  BY <1>1, AccountsInvariant, PTL

(* A student's statement, which sums payments and notes by student, ends   *)
(* in the balance of the student page, which sums them by invoice, but for *)
(* the voided invoices.                                                    *)
THEOREM StatementsAgree == BillingSpec => []StatementAgrees
<1>1. GrossInv /\ AccountsInv => StatementAgrees
  BY StatementBalances DEF GrossInv, AccountsInv, StatementAgrees
<1>. QED
  BY <1>1, AccountsInvariant, PTL
=============================================================================
