--------------------------- MODULE ExpensesProofs ---------------------------
(***************************************************************************)
(* Proofs about Expenses, for every set of requests, bodies and vendors.   *)
(***************************************************************************)
EXTENDS Expenses, FiniteSetTheorems, TLAPS

(* Bodies of the two endpoints cannot be confused.                         *)
LEMMA DtoTypes ==
    /\ CreateDto \cap ReviewDto = {}
    /\ \A dto \in CreateDto : dto \in CreateRequest
    /\ \A dto \in ReviewDto : dto \in ReviewRequest
  BY DtoAssumption DEF CreateRequest, ReviewRequest

LEMMA CountType == ASSUME IsFiniteSet(Recorded) PROVE Count \in Nat
  BY FS_CardinalityType DEF Count

(* An expense that is inserted adds one to the count.                      *)
LEMMA CountGrows ==
    ASSUME IsFiniteSet(Recorded), NEW r \in Request \ Recorded, Recorded' = Recorded \cup {r}
    PROVE  IsFiniteSet(Recorded)' /\ Count' = Count + 1
  BY FS_AddElement, FS_CardinalityType DEF Count

(* The rows the transactions write are expense rows.                       *)
LEMMA RequestedRow ==
    ASSUME TypeOK, NEW r \in Request, req[r] \in CreateDto
    PROVE  Requested(r) \in ExpenseRow /\ req[r].vendor \in Vendor
<1>1. req[r].vendor \in Vendor
  BY DtoTypes DEF CreateRequest
<1>. QED
  BY <1>1 DEF TypeOK, Requested, ExpenseRow

LEMMA ReviewedRow ==
    ASSUME TypeOK, NEW r \in Request, NEW p \in Recorded, req[r].decision \in Decision
    PROVE  /\ Reviewed(expense[p], r) \in ExpenseRow
           /\ Reviewed(expense[p], r).number = expense[p].number
           /\ Reviewed(expense[p], r).vendor = expense[p].vendor
           /\ Reviewed(expense[p], r).status = req[r].decision
           /\ Reviewed(expense[p], r).approvals =
                 expense[p].approvals \cup {[by |-> r, decision |-> req[r].decision]}
<1> DEFINE approval == [by |-> r, decision |-> req[r].decision]
<1>1. expense[p] \in ExpenseRow
  BY DEF TypeOK, Recorded
<1>2. Reviewed(expense[p], r) =
        [expense[p] EXCEPT !.status = req[r].decision,
                           !.approvals = expense[p].approvals \cup {approval}]
  BY <1>1 DEF Reviewed, ExpenseRow
<1>3. approval \in [by : Request, decision : Decision]
  OBVIOUS
<1>4. expense[p].approvals \cup {approval} \in SUBSET [by : Request, decision : Decision]
  BY <1>1, <1>3 DEF ExpenseRow
<1> HIDE DEF approval
<1>5. /\ Reviewed(expense[p], r) \in ExpenseRow
      /\ Reviewed(expense[p], r).number = expense[p].number
      /\ Reviewed(expense[p], r).vendor = expense[p].vendor
      /\ Reviewed(expense[p], r).status = req[r].decision
      /\ Reviewed(expense[p], r).approvals = expense[p].approvals \cup {approval}
  BY <1>1, <1>2, <1>4 DEF ExpenseRow
<1>. QED
  BY <1>5 DEF approval

-----------------------------------------------------------------------------

LEMMA OverlapInit == Init => OverlapInv
<1>. SUFFICES ASSUME Init PROVE OverlapInv
  OBVIOUS
<1>1. Recorded = {}
  BY DEF Init, Recorded
<1>2. TypeOK
  <2>1. number \in [Request -> Nat \X Nat] /\ year \in 0 .. LastYear
    BY BoundAssumption DEF Init
  <2>2. expense \in [Request -> ExpenseRow \cup {None}]
    BY DEF Init
  <2>. QED
    BY <1>1, <2>1, <2>2 DEF Init, TypeOK, Stage
<1>3. StageInv
  BY <1>1 DEF Init, StageInv
<1>4. CountInv
  BY <1>1, FS_EmptySet DEF Init, CountInv
<1>. QED
  BY <1>1, <1>2, <1>3, <1>4 DEF OverlapInv, Numbering, StatusBacked

(* A step that leaves the expenses alone disturbs only what the requests   *)
(* in flight rely on, and the second half of Numbering.                    *)
LEMMA TableKept ==
    ASSUME OverlapInv, UNCHANGED <<expense, vendors>>
    PROVE  /\ Recorded' = Recorded /\ Count' = Count
           /\ \A p \in Recorded : expense'[p].number # <<year', Count' + 1>>
           /\ \A p \in Recorded' : expense'[p].number[2] <= Count'
           /\ IsFiniteSet(Recorded)'
           /\ StatusBacked'
           /\ Numbering'
<1>1. Recorded' = Recorded /\ Count' = Count
  BY DEF Recorded, Count
<1>2. Count \in Nat
  BY CountType DEF OverlapInv, CountInv
<1>3. ASSUME NEW p \in Recorded PROVE expense[p].number # <<year', Count + 1>>
  <2>1. expense[p].number \in Nat \X Nat /\ expense[p].number[2] <= Count
    BY DEF OverlapInv, TypeOK, CountInv, Recorded, ExpenseRow
  <2>. QED
    BY <2>1, <1>2
<1>4. Numbering'
  BY <1>1, <1>3 DEF OverlapInv, Numbering
<1>5. StatusBacked'
  BY <1>1 DEF OverlapInv, StatusBacked
<1>. QED
  BY <1>1, <1>3, <1>4, <1>5 DEF OverlapInv, CountInv

LEMMA OverlapNext == OverlapInv /\ [Next]_vars => OverlapInv'
<1>. SUFFICES ASSUME OverlapInv, [Next]_vars PROVE OverlapInv'
  OBVIOUS
<1>. USE DEF OverlapInv
<1>a. Count \in Nat
  BY CountType DEF CountInv
<1>1. CASE NewYear
  <2>1. TypeOK'
    BY <1>1, BoundAssumption DEF NewYear, TypeOK, Recorded
  <2>. QED
    BY <1>1, <2>1, TableKept DEF NewYear, StageInv, CountInv
<1>2. CASE OpenTerm
  <2>1. TypeOK'
    BY <1>2 DEF OpenTerm, TypeOK, Recorded
  <2>. QED
    BY <1>2, <2>1, TableKept DEF OpenTerm, StageInv, CountInv
<1>3. ASSUME NEW v \in Vendor, AddVendor(v) PROVE OverlapInv'
  <2>1. TypeOK'
    BY <1>3 DEF AddVendor, TypeOK, Recorded
  <2>2. Recorded' = Recorded /\ Count' = Count
    BY <1>3 DEF AddVendor, Recorded, Count
  <2>. QED
    BY <1>3, <2>1, <2>2 DEF AddVendor, StageInv, CountInv, Numbering, StatusBacked
<1>4. ASSUME NEW r \in Request, NEW dto \in CreateDto, FindTerm(r, dto) PROVE OverlapInv'
  <2>1. TypeOK'
    <3>1. <<year, 0>> \in Nat \X Nat
      BY BoundAssumption DEF TypeOK
    <3>. QED
      BY <1>4, <3>1 DEF FindTerm, GoTo, expenseVars, TypeOK, Stage, Recorded
  <2>2. StageInv'
    BY <1>4 DEF FindTerm, GoTo, expenseVars, TypeOK, StageInv, Recorded
  <2>. QED
    BY <1>4, <1>a, <2>1, <2>2, TableKept DEF FindTerm, GoTo, expenseVars, TypeOK, CountInv
<1>5. ASSUME NEW r \in Request, CountExpenses(r) PROVE OverlapInv'
  <2>1. TypeOK'
    BY <1>5, <1>a DEF CountExpenses, GoTo, expenseVars, TypeOK, Stage, Recorded
  <2>2. StageInv'
    BY <1>5 DEF CountExpenses, GoTo, expenseVars, TypeOK, StageInv, Recorded
  <2>. QED
    BY <1>5, <1>a, <2>1, <2>2, TableKept DEF CountExpenses, GoTo, expenseVars, TypeOK, CountInv
<1>6. ASSUME NEW r \in Request, CommitExpense(r) PROVE OverlapInv'
  <2>1. CASE NumberTaken(r) /\ GoTo(r, "collided") /\ UNCHANGED <<expense, vendors>>
    <3>1. TypeOK'
      BY <1>6, <2>1 DEF CommitExpense, GoTo, TypeOK, Stage, Recorded
    <3>2. StageInv'
      BY <1>6, <2>1 DEF CommitExpense, GoTo, TypeOK, StageInv, Recorded
    <3>. QED
      BY <1>6, <2>1, <3>1, <3>2, TableKept DEF CommitExpense, GoTo, TypeOK, CountInv
  <2>2. CASE ~NumberTaken(r) /\ GoTo(r, "created") /\ Insert(r)
    <3>1. /\ pc[r] = "numbered" /\ r \notin Recorded /\ req[r] \in CreateDto
          /\ number[r] \in Nat \X Nat /\ number[r][2] <= Count + 1
      BY <1>6 DEF CommitExpense, StageInv, CountInv, TypeOK
    <3>2. Requested(r) \in ExpenseRow /\ req[r].vendor \in Vendor /\ Requested(r) # None
      BY <3>1, RequestedRow, NoneAssumption
    <3>3. /\ Recorded' = Recorded \cup {r}
          /\ expense'[r] = Requested(r)
          /\ \A p \in Recorded : expense'[p] = expense[p]
      BY <2>2, <3>1, <3>2 DEF Insert, Recorded, TypeOK
    <3>4. IsFiniteSet(Recorded)' /\ Count' = Count + 1
      BY <3>1, <3>3, CountGrows DEF CountInv
    <3>5. TypeOK'
      <4>1. expense' \in [Request -> ExpenseRow \cup {None}]
        BY <2>2, <3>2 DEF Insert, TypeOK
      <4>2. vendors' \subseteq Vendor /\ \A p \in Recorded' : expense'[p].vendor \in vendors'
        BY <2>2, <3>2, <3>3 DEF Insert, Requested, TypeOK
      <4>. QED
        BY <1>6, <2>2, <4>1, <4>2 DEF CommitExpense, GoTo, TypeOK, Stage
    <3>6. StageInv'
      BY <1>6, <2>2, <3>1, <3>3 DEF CommitExpense, GoTo, TypeOK, StageInv
    <3>7. \A p \in Recorded' : expense'[p].number \in Nat \X Nat /\ expense'[p].number[2] <= Count'
      BY <1>a, <3>1, <3>3, <3>4 DEF Requested, CountInv, TypeOK, ExpenseRow, Recorded
    <3>8. CountInv'
      BY <1>6, <1>a, <2>2, <3>4, <3>7 DEF CommitExpense, GoTo, TypeOK, CountInv
    <3>9. Numbering'
      <4>1. \A p \in Recorded' : expense'[p].number # <<year', Count' + 1>>
        BY <1>a, <3>4, <3>7
      <4>2. \A p \in Recorded : expense'[p].number # expense'[r].number
        BY <2>2, <3>3 DEF NumberTaken, Requested
      <4>. QED
        BY <3>3, <4>1, <4>2 DEF Numbering
    <3>10. StatusBacked'
      BY <3>3 DEF StatusBacked, Requested
    <3>. QED
      BY <3>5, <3>6, <3>8, <3>9, <3>10
  <2>. QED
    BY <1>6, <2>1, <2>2 DEF CommitExpense
<1>7. ASSUME NEW r \in Request, NEW dto \in ReviewDto, ReadExpense(r, dto) PROVE OverlapInv'
  <2>1. TypeOK'
    BY <1>7 DEF ReadExpense, GoTo, expenseVars, TypeOK, Stage, Recorded
  <2>2. StageInv'
    BY <1>7 DEF ReadExpense, GoTo, expenseVars, TypeOK, StageInv, Recorded, Reviewable
  <2>. QED
    BY <1>7, <1>a, <2>1, <2>2, TableKept
    DEF ReadExpense, GoTo, expenseVars, TypeOK, CountInv
<1>8. ASSUME NEW r \in Request, CommitReview(r) PROVE OverlapInv'
  <2> DEFINE t == req[r].target
  <2>1. t \in Recorded /\ t \in Request /\ req[r].decision \in Decision /\ pc[r] = "reviewing"
    BY <1>8 DEF CommitReview, StageInv, Recorded
  <2>2. /\ expense'[t] = Reviewed(expense[t], r)
        /\ \A p \in Request \ {t} : expense'[p] = expense[p]
    BY <1>8, <2>1 DEF CommitReview, TypeOK
  <2>3. Reviewed(expense[t], r) \in ExpenseRow /\ Reviewed(expense[t], r) # None
    BY <2>1, ReviewedRow, NoneAssumption
  <2>4. Recorded' = Recorded /\ Count' = Count
    BY <2>1, <2>2, <2>3 DEF Recorded, Count
  <2>5. \A p \in Recorded :
            expense'[p].number = expense[p].number /\ expense'[p].vendor = expense[p].vendor
    BY <2>1, <2>2, ReviewedRow DEF Recorded
  <2>6. TypeOK'
    BY <1>8, <2>1, <2>3, <2>4, <2>5 DEF CommitReview, GoTo, TypeOK, Stage
  <2>7. StageInv'
    BY <1>8, <2>1, <2>4 DEF CommitReview, GoTo, TypeOK, StageInv
  <2>8. CountInv' /\ Numbering'
    BY <1>8, <2>1, <2>4, <2>5 DEF CommitReview, GoTo, TypeOK, CountInv, Numbering
  <2>9. StatusBacked'
    <3>1. [by |-> r, decision |-> req[r].decision] \in expense'[t].approvals
      BY <2>1, <2>2, ReviewedRow
    <3>2. expense'[t].status = req[r].decision
      BY <2>1, <2>2, ReviewedRow
    <3>. QED
      BY <2>2, <2>4, <3>1, <3>2 DEF StatusBacked, Recorded
  <2>. QED
    BY <2>6, <2>7, <2>8, <2>9
<1>9. ASSUME NEW r \in Request, Fail(r) PROVE OverlapInv'
  <2>1. TypeOK'
    BY <1>9 DEF Fail, GoTo, expenseVars, TypeOK, Stage, Recorded
  <2>2. StageInv'
    BY <1>9 DEF Fail, GoTo, expenseVars, TypeOK, StageInv, Recorded
  <2>. QED
    BY <1>9, <1>a, <2>1, <2>2, TableKept DEF Fail, GoTo, expenseVars, TypeOK, CountInv
<1>10. CASE UNCHANGED vars
  BY <1>10, TableKept DEF vars, TypeOK, StageInv, CountInv, Recorded
<1>. QED
  BY <1>1, <1>2, <1>3, <1>4, <1>5, <1>6, <1>7, <1>8, <1>9, <1>10 DEF Next, RequestStep

-----------------------------------------------------------------------------

(* Until reviews overlap, a review decides the pending expense it read.    *)
LEMMA SerialNext ==
    ASSUME OverlapInv, FreshInv, DecidedOnce, ~overlap', [Next]_vars
    PROVE  FreshInv' /\ DecidedOnce'
<1>. USE DEF OverlapInv
<1>1. ASSUME NEW r \in Request, CommitExpense(r) PROVE FreshInv' /\ DecidedOnce'
  <2>1. r \notin Recorded /\ pc[r] = "numbered"
    BY <1>1 DEF CommitExpense, StageInv
  <2>2. /\ \A p \in Recorded : expense'[p] = expense[p]
        /\ Recorded' \subseteq Recorded \cup {r}
        /\ r \in Recorded' => expense'[r] = Requested(r)
    BY <1>1, <2>1 DEF CommitExpense, Insert, Recorded, TypeOK
  <2>3. DecidedOnce'
    BY <2>2 DEF DecidedOnce, Requested
  <2>4. \A q \in Request : pc'[q] = "reviewing" => pc[q] = "reviewing" /\ req'[q] = req[q]
    BY <1>1 DEF CommitExpense, GoTo, TypeOK
  <2>5. FreshInv'
    BY <2>2, <2>4 DEF FreshInv, StageInv
  <2>. QED
    BY <2>3, <2>5
<1>2. ASSUME NEW r \in Request, NEW dto \in ReviewDto, ReadExpense(r, dto)
      PROVE  FreshInv' /\ DecidedOnce'
  <2>1. DecidedOnce'
    BY <1>2 DEF ReadExpense, expenseVars, DecidedOnce, Recorded
  <2>2. CASE Reviewable(dto)
    <3>1. \A q \in Request : pc[q] # "reviewing"
      BY <1>2, <2>2 DEF ReadExpense
    <3>2. /\ \A q \in Request \ {r} : pc'[q] # "reviewing"
          /\ req'[r] = dto
      BY <1>2, <3>1 DEF ReadExpense, GoTo, TypeOK
    <3>. QED
      BY <1>2, <2>1, <2>2, <3>2 DEF ReadExpense, expenseVars, Reviewable, FreshInv
  <2>3. CASE ~Reviewable(dto)
    <3>1. \A q \in Request : pc'[q] = "reviewing" => pc[q] = "reviewing" /\ req'[q] = req[q]
      BY <1>2, <2>3 DEF ReadExpense, GoTo, TypeOK
    <3>. QED
      BY <1>2, <2>1, <3>1 DEF ReadExpense, expenseVars, FreshInv
  <2>. QED
    BY <2>2, <2>3
<1>3. ASSUME NEW r \in Request, CommitReview(r) PROVE FreshInv' /\ DecidedOnce'
  <2> DEFINE t == req[r].target
  <2>1. t \in Recorded /\ t \in Request /\ req[r].decision \in Decision /\ pc[r] = "reviewing"
    BY <1>3 DEF CommitReview, StageInv, Recorded
  <2>2. /\ expense'[t] = Reviewed(expense[t], r)
        /\ \A p \in Request \ {t} : expense'[p] = expense[p]
    BY <1>3, <2>1 DEF CommitReview, TypeOK
  <2>3. \A q \in Request : pc'[q] # "reviewing"
    BY <1>3, <2>1 DEF CommitReview, GoTo, TypeOK, FreshInv
  <2>4. expense[t].approvals = {}
    <3>1. expense[t] \in ExpenseRow /\ expense[t].status = "PENDING"
      BY <2>1 DEF TypeOK, Recorded, FreshInv
    <3>2. \A a \in expense[t].approvals : a.decision \in Decision
      BY <3>1 DEF ExpenseRow
    <3>. QED
      BY <2>1, <3>1, <3>2 DEF StatusBacked, Decision
  <2>5. expense'[t].approvals = {[by |-> r, decision |-> req[r].decision]}
    BY <2>1, <2>2, <2>4, ReviewedRow
  <2> HIDE DEF t
  <2>6. DecidedOnce'
    BY <2>1, <2>2, <2>5 DEF DecidedOnce, Recorded
  <2>. QED
    BY <2>3, <2>6 DEF FreshInv
<1>4. CASE \/ NewYear \/ OpenTerm \/ \E v \in Vendor : AddVendor(v)
           \/ \E r \in Request :
                 \/ \E dto \in CreateDto : FindTerm(r, dto)
                 \/ CountExpenses(r) \/ Fail(r)
           \/ UNCHANGED vars
  <2>1. expense' = expense
    BY <1>4 DEF NewYear, OpenTerm, AddVendor, FindTerm, CountExpenses, Fail, expenseVars, vars
  <2>2. \A q \in Request : pc'[q] = "reviewing" => pc[q] = "reviewing" /\ req'[q] = req[q]
    BY <1>4
    DEF NewYear, OpenTerm, AddVendor, FindTerm, CountExpenses, Fail, vars, GoTo, TypeOK
  <2>. QED
    BY <2>1, <2>2 DEF FreshInv, DecidedOnce, Recorded
<1>. QED
  BY <1>1, <1>2, <1>3, <1>4 DEF Next, RequestStep

THEOREM InitInv == Init => IInv
<1>. SUFFICES ASSUME Init PROVE FreshInv /\ DecidedOnce
  BY OverlapInit DEF IInv
<1>. QED
  BY DEF Init, FreshInv, DecidedOnce, Recorded

THEOREM NextInv == IInv /\ [Next]_vars => IInv'
<1>. SUFFICES ASSUME IInv, [Next]_vars PROVE IInv'
  OBVIOUS
<1>1. OverlapInv /\ OverlapInv'
  BY OverlapNext DEF IInv
<1>2. overlap => overlap'
  BY <1>1
  DEF OverlapInv, TypeOK, Next, RequestStep, vars, NewYear, OpenTerm, AddVendor, FindTerm,
      CountExpenses, CommitExpense, ReadExpense, CommitReview, Fail
<1>. QED
  BY <1>1, <1>2, SerialNext DEF IInv

(* The inductive invariant holds in every reachable state.                 *)
THEOREM InductiveInvariant == Spec => []IInv
  BY InitInv, NextInv, PTL DEF Spec

(* Every state of the expenses is well typed, and each expense's vendor is *)
(* in the master records.                                                  *)
THEOREM TypeCorrect == Spec => []TypeOK
  BY InductiveInvariant, PTL DEF IInv, OverlapInv

(* Two expenses never share a number, and the number createExpense would   *)
(* read next is free.                                                      *)
THEOREM NumbersUnique == Spec => []Numbering
  BY InductiveInvariant, PTL DEF IInv, OverlapInv

(* However reviews overlap, the status of an expense is one a recorded     *)
(* approval decided.                                                       *)
THEOREM StatusAccounted == Spec => []StatusBacked
  BY InductiveInvariant, PTL DEF IInv, OverlapInv

(* Until reviews overlap, an expense is decided at most once.              *)
THEOREM OneDecision == Spec => []SerialDecidedOnce
<1>1. IInv => SerialDecidedOnce
  BY DEF IInv, SerialDecidedOnce
<1>. QED
  BY <1>1, InductiveInvariant, PTL

(* No step loses an approval or renumbers an expense.                      *)
THEOREM ApprovalsRetained == Spec => DecisionsRetained
<1> DEFINE Retained ==
        \A p \in Recorded :
            /\ expense[p].approvals \subseteq expense'[p].approvals
            /\ expense[p].number = expense'[p].number
<1>1. IInv /\ [Next]_vars => [Retained]_vars
  <2>. SUFFICES ASSUME OverlapInv, [Next]_vars, expense' # expense PROVE Retained
    BY DEF Recorded, IInv
  <2>1. ASSUME NEW r \in Request, CommitExpense(r) PROVE Retained
    <3>1. Insert(r) /\ r \notin Recorded
      BY <2>1 DEF CommitExpense, OverlapInv, StageInv
    <3>. QED
      BY <3>1 DEF Insert, Recorded, OverlapInv, TypeOK
  <2>2. ASSUME NEW r \in Request, CommitReview(r) PROVE Retained
    <3>1. req[r].target \in Recorded /\ req[r].decision \in Decision
      BY <2>2 DEF CommitReview, OverlapInv, StageInv
    <3>2. /\ expense'[req[r].target] = Reviewed(expense[req[r].target], r)
          /\ \A p \in Request \ {req[r].target} : expense'[p] = expense[p]
      BY <2>2, <3>1 DEF CommitReview, OverlapInv, TypeOK, Recorded
    <3>. QED
      BY <3>1, <3>2, ReviewedRow DEF OverlapInv, Recorded
  <2>. QED
    BY <2>1, <2>2
    DEF Next, RequestStep, vars, NewYear, OpenTerm, AddVendor, FindTerm, CountExpenses,
        ReadExpense, Fail, expenseVars
<1>. QED
  BY <1>1, InductiveInvariant, PTL DEF Spec, DecisionsRetained
=============================================================================
