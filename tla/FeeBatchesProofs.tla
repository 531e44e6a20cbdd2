-------------------------- MODULE FeeBatchesProofs --------------------------
(***************************************************************************)
(* Proofs about FeeBatches and the register it runs over, for every set of *)
(* requests, keys, students and classes.                                   *)
(***************************************************************************)
EXTENDS FeeBatches, FiniteSetTheorems, TLAPS

-----------------------------------------------------------------------------
(*                               The register                              *)

LEMMA RegisterInit == AcademicsInit => AcademicsTypeOK
<1>1. Seed.term \in TermId /\ Seed.term[1] \in YearName /\ Seed.classes \subseteq ClassName
  BY SeedAssumption DEF TermId
<1>2. Seed.term \in {Seed.term[1]} \X TermName
  BY SeedAssumption DEF TermId
<1>. QED
  BY <1>1, <1>2 DEF AcademicsInit, AcademicsTypeOK

(* No row of the register is ever of a class or year that is not there.    *)
LEMMA RegisterNext == AcademicsTypeOK /\ AcademicsNext => AcademicsTypeOK'
<1>. SUFFICES ASSUME AcademicsTypeOK, AcademicsNext PROVE AcademicsTypeOK'
  OBVIOUS
<1>. USE DEF AcademicsTypeOK
<1>1. ASSUME NEW y \in YearName, CreateAcademicYear(y) PROVE AcademicsTypeOK'
  BY <1>1 DEF CreateAcademicYear
<1>2. ASSUME NEW t \in TermId, CreateTerm(t) PROVE AcademicsTypeOK'
  <2>1. t \in year \X TermName
    BY <1>2 DEF CreateTerm, TermId
  <2>. QED
    BY <1>2, <2>1 DEF CreateTerm
<1>3. ASSUME NEW dto \in CreateClassDto, CreateClass(dto) PROVE AcademicsTypeOK'
  <2>1. class \subseteq class' /\ class' \subseteq ClassName /\ enrolment' = enrolment
    BY <1>3 DEF CreateClass, CreateClassDto
  <2>2. enrolment' \in [Admission -> [TermId -> class' \cup {None}]]
    BY <2>1
  <2>. QED
    BY <1>3, <2>1, <2>2 DEF CreateClass
<1>4. ASSUME NEW dto \in CreateGuardianDto, CreateGuardian(dto) PROVE AcademicsTypeOK'
  BY <1>4 DEF CreateGuardian, CreateGuardianDto
<1>5. ASSUME NEW a \in Admission, NEW t \in TermId, NEW c \in class, Enrol(a, t, c)
      PROVE  enrolment' \in [Admission -> [TermId -> class \cup {None}]]
  <2>1. [enrolment[a] EXCEPT ![t] = c] \in [TermId -> class \cup {None}]
    OBVIOUS
  <2>. QED
    BY <1>5, <2>1 DEF Enrol
<1>6. ASSUME NEW dto \in Registration, NEW g \in Guardian, CreateStudent(dto, g)
      PROVE  AcademicsTypeOK'
  <2>1. dto \in SaveStudentDto
    BY SeedAssumption
  <2>2. /\ dto.admission \in Admission /\ dto.phone \in Phone /\ dto.term \in TermId
        /\ [status |-> dto.status, guardian |-> g] \in Pupil
    BY <2>1 DEF SaveStudentDto, Pupil
  <2>3. student' \in [Admission -> Pupil \cup {None}]
    BY <1>6, <2>2 DEF CreateStudent
  <2>4. guardian' \in [Guardian -> Phone \cup {None}]
    BY <1>6, <2>2 DEF CreateStudent
  <2>5. enrolment' \in [Admission -> [TermId -> class \cup {None}]]
    BY <1>5, <1>6, <2>2 DEF CreateStudent
  <2>. QED
    BY <1>6, <2>3, <2>4, <2>5 DEF CreateStudent
<1>7. ASSUME NEW dto \in Change, UpdateStudent(dto) PROVE AcademicsTypeOK'
  <2>1. /\ dto.admission \in Admitted /\ dto.status \in StudentStatus \cup {None}
        /\ dto.phone \in Phone \cup {None} /\ dto.term \in TermId \cup {None}
    BY <1>7, SeedAssumption DEF UpdateStudent, UpdateStudentDto
  <2>2. student[dto.admission] \in Pupil /\ dto.admission \in Admission
    BY <2>1 DEF Admitted
  <2>3. student' \in [Admission -> Pupil \cup {None}]
    <3>1. CASE dto.status = None
      BY <1>7, <3>1 DEF UpdateStudent
    <3>2. CASE dto.status # None
      <4>1. [student[dto.admission] EXCEPT !.status = dto.status] \in Pupil
        BY <2>1, <2>2, <3>2 DEF Pupil
      <4>. QED
        BY <1>7, <2>2, <3>2, <4>1 DEF UpdateStudent
    <3>. QED
      BY <3>1, <3>2
  <2>4. guardian' \in [Guardian -> Phone \cup {None}]
    BY <1>7, <2>1, <2>2 DEF UpdateStudent
  <2>5. enrolment' \in [Admission -> [TermId -> class \cup {None}]]
    <3>1. CASE UNCHANGED enrolment
      BY <1>7, <3>1 DEF UpdateStudent
    <3>2. CASE /\ dto.term \in term /\ dto.class \in class
               /\ Enrol(dto.admission, dto.term, dto.class)
      <4>1. dto.term \in TermId
        BY <3>2 DEF TermId
      <4>. QED
        BY <1>5, <2>2, <3>2, <4>1
    <3>. QED
      BY <1>7, <3>1, <3>2 DEF UpdateStudent
  <2>. QED
    BY <1>7, <2>3, <2>4, <2>5 DEF UpdateStudent
<1>8. ASSUME NEW dto \in Placement, CreateEnrolment(dto) PROVE AcademicsTypeOK'
  <2>1. dto.admission \in Admission /\ dto.term \in TermId
    BY SeedAssumption DEF CreateEnrolmentDto
  <2>2. enrolment' \in [Admission -> [TermId -> class \cup {None}]]
    BY <1>5, <1>8, <2>1 DEF CreateEnrolment
  <2>. QED
    BY <1>8, <2>2 DEF CreateEnrolment
<1>. QED
  BY <1>1, <1>2, <1>3, <1>4, <1>6, <1>7, <1>8 DEF AcademicsNext
-----------------------------------------------------------------------------
(*                             The invariants                              *)

LEMMA InvInit == Init => IInv
<1>. SUFFICES ASSUME Init PROVE IInv
  OBVIOUS
<1>1. Structures = {} /\ Batches = {} /\ \A stages : "idle" \notin stages => At(stages) = {}
  BY DEF Init, Structures, Batches, At
<1>2. TypeOK
  BY RegisterInit DEF Init, TypeOK, Stage
<1>3. StageInv /\ KeyBillsOnce /\ AloneInv
  BY <1>1 DEF StageInv, Holding, KeyBillsOnce, AloneInv
<1>4. FreshInv
  BY DEF Init, FreshInv, Holding
<1>. QED
  BY <1>2, <1>3, <1>4 DEF IInv

(* The row that a save writes is a row of the table.                       *)
LEMMA SavedRow ==
    ASSUME NEW t \in TermId, NEW status \in Saved, NEW classes \in (SUBSET ClassName) \ {{}},
           NEW items \in SUBSET Request
    PROVE  LET new == [term |-> t, status |-> status, classes |-> classes, items |-> items]
           IN  new \in FeeStructure /\ new # None
  BY SavedAssumption, NoRowAssumption DEF FeeStructure

LEMMA HandlerKeeps ==
    ASSUME TypeOK, StageInv, NEW r \in Request, Handle(r), UNCHANGED academics,
           stale' \subseteq Request, overlap' \in BOOLEAN
    PROVE  TypeOK' /\ StageInv'
<1>. USE DEF TypeOK, Stage, Goto, Holding
<1>a. AcademicsTypeOK'
  BY DEF academics, AcademicsTypeOK
<1>1. ASSUME NEW t \in TermId, NEW status \in Saved, NEW classes \in (SUBSET ClassName) \ {{}},
             CreateStructure(r, t, status, classes)
      PROVE  TypeOK' /\ StageInv'
  <2> DEFINE new == [term |-> t, status |-> status, classes |-> classes, items |-> {r}]
  <2>1. new \in FeeStructure /\ new # None
    BY SavedRow
  <2>2. structure' = [structure EXCEPT ![r] = new]
    BY <1>1 DEF CreateStructure
  <2> HIDE DEF new
  <2>3. TypeOK'
    <3>1. structure' \in [Request -> FeeStructure \cup {None}]
      BY <2>1, <2>2
    <3>2. pc' \in [Request -> Stage]
      BY <1>1 DEF CreateStructure
    <3>3. UNCHANGED <<batch, target, key, row, pupils, scan>>
      BY <1>1 DEF CreateStructure
    <3>. QED
      BY <1>a, <3>1, <3>2, <3>3
  <2>. QED
    BY <1>1, <2>1, <2>2, <2>3 DEF CreateStructure, StageInv, At, Structures
<1>2. ASSUME NEW t \in TermId, NEW status \in Saved, NEW classes \in (SUBSET ClassName) \ {{}},
             UpdateCommit(r, t, status, classes)
      PROVE  TypeOK' /\ StageInv'
  <2> DEFINE s == target[r]
             new == [term |-> t, status |-> status, classes |-> classes,
                     items |-> (structure[s].items \ scan[r]) \cup {r}]
  <2>1. s \in Structures /\ s \in Request /\ structure[s] \in FeeStructure
    BY <1>2 DEF UpdateCommit, StageInv, At, Structures
  <2>2. new \in FeeStructure /\ new # None
    <3>1. (structure[s].items \ scan[r]) \cup {r} \in SUBSET Request
      BY <2>1 DEF FeeStructure
    <3>. QED
      BY <3>1, SavedRow
  <2>3. structure' = [structure EXCEPT ![s] = new]
    BY <1>2, <2>1 DEF UpdateCommit
  <2>4. /\ pc[r] = "scanned" /\ pc' = [pc EXCEPT ![r] = "saved"]
        /\ UNCHANGED <<batch, target, key, row, pupils, scan>>
    BY <1>2 DEF UpdateCommit
  <2> HIDE DEF new, s
  <2>5. TypeOK'
    BY <1>a, <2>1, <2>2, <2>3, <2>4
  <2>. QED
    BY <2>1, <2>2, <2>3, <2>4, <2>5 DEF StageInv, At, Structures
<1>3. ASSUME NEW s \in Request, UpdateRead(r, s) PROVE TypeOK' /\ StageInv'
  BY <1>3, <1>a DEF UpdateRead, StageInv, At, Structures
<1>4. ASSUME NEW s \in Request, NEW k \in Key, LookUp(r, s, k) PROVE TypeOK' /\ StageInv'
  BY <1>4, <1>a DEF LookUp, StageInv, At, Structures
<1>5. CASE UpdateScan(r)
  <2>1. structure[target[r]].items \subseteq Request
    BY <1>5 DEF UpdateScan, StageInv, At, Structures, FeeStructure
  <2>. QED
    BY <1>5, <1>a, <2>1 DEF UpdateScan, StageInv, At, Structures
<1>6. CASE ReadStructure(r)
  <2>1. structure[target[r]] \in FeeStructure
    BY <1>6 DEF ReadStructure, StageInv, At, Structures
  <2>. QED
    BY <1>6, <1>a, <2>1 DEF ReadStructure, StageInv, At, Structures
<1>7. ASSUME NEW parts \in FeeStructure, row' = [row EXCEPT ![r] = parts], pc[r] \in {"found", "itemized"},
             pc'[r] \in {"itemized", "read", "refused"}, pc' = [pc EXCEPT ![r] = pc'[r]],
             UNCHANGED <<structure, batch, target, key, pupils, scan>>
      PROVE  TypeOK' /\ StageInv'
  BY <1>7, <1>a DEF StageInv, At, Structures
<1>8. CASE ReadItems(r) \/ ReadAssignments(r)
  <2>1. row[r] \in FeeStructure /\ structure[target[r]] \in FeeStructure
    BY <1>8 DEF ReadItems, ReadAssignments, StageInv, At, Structures
  <2>2. /\ [row[r] EXCEPT !.items = structure[target[r]].items] \in FeeStructure
        /\ [row[r] EXCEPT !.classes = structure[target[r]].classes] \in FeeStructure
    BY <2>1 DEF FeeStructure
  <2>3. \E parts \in FeeStructure : row' = [row EXCEPT ![r] = parts]
    BY <1>8, <2>2 DEF ReadItems, ReadAssignments
  <2>. QED
    BY <1>7, <1>8, <2>3 DEF ReadItems, ReadAssignments
<1>9. CASE ReadEnrolments(r)
  <2>1. Due(row[r]) \subseteq Admission
    BY DEF Due, Admitted
  <2>. QED
    BY <1>9, <1>a, <2>1 DEF ReadEnrolments, StageInv, At, Structures
<1>10. CASE CommitBatch(r)
  <2> DEFINE new == [key |-> key[r], of |-> target[r], billed |-> pupils[r], items |-> row[r].items]
  <2>1. new \in InvoiceBatch
    BY <1>10 DEF CommitBatch, StageInv, At, Structures, FeeStructure, InvoiceBatch
  <2>2. batch' \in {batch, [batch EXCEPT ![r] = new]}
    BY <1>10 DEF CommitBatch
  <2> HIDE DEF new
  <2>. QED
    BY <1>10, <1>a, <2>1, <2>2 DEF CommitBatch, StageInv, At, Structures
<1>. QED
  BY <1>1, <1>2, <1>3, <1>4, <1>5, <1>6, <1>8, <1>9, <1>10 DEF Handle

(* The unique index: of two batches of one key the second collides.        *)
LEMMA KeyKept ==
    ASSUME TypeOK, KeyBillsOnce, NEW r \in Request, Handle(r)
    PROVE  KeyBillsOnce'
<1>1. CASE CommitBatch(r) /\ \A b \in Batches : batch[b].key # key[r]
  <2> DEFINE new == [key |-> key[r], of |-> target[r], billed |-> pupils[r], items |-> row[r].items]
  <2>1. batch' = [batch EXCEPT ![r] = new]
    BY <1>1 DEF CommitBatch
  <2>2. /\ batch'[r].key = key[r] /\ Batches' \subseteq Batches \cup {r}
        /\ \A b \in Batches \ {r} : batch'[b] = batch[b]
    BY <2>1 DEF TypeOK, Batches
  <2>. QED
    BY <1>1, <2>2 DEF KeyBillsOnce
<1>2. CASE batch' = batch
  BY <1>2 DEF KeyBillsOnce, Batches
<1>. QED
  BY <1>1, <1>2 DEF Handle, CreateStructure, UpdateCommit, UpdateRead, LookUp, UpdateScan,
     ReadStructure, ReadItems, ReadAssignments, ReadEnrolments, CommitBatch

(* A write under a generate makes it stale; what is not stale is current.  *)
LEMMA FreshKept ==
    ASSUME TypeOK, StageInv, FreshInv, Next
    PROVE  FreshInv'
<1>. SUFFICES ASSUME NEW r \in Request, r \notin stale'
              PROVE  /\ pc'[r] \in Holding => row'[r] = structure'[target'[r]]
                     /\ pc'[r] \in {"read", "listed"} => row'[r].status = "ACTIVE"
                     /\ pc'[r] = "listed" => pupils'[r] = Due(row[r])'
  BY DEF FreshInv, Holding
<1> DEFINE Goal == /\ pc'[r] \in Holding => row'[r] = structure'[target'[r]]
                   /\ pc'[r] \in {"read", "listed"} => row'[r].status = "ACTIVE"
                   /\ pc'[r] = "listed" => pupils'[r] = Due(row[r])'
<1>1. r \notin stale /\ r \notin Outdated
  BY DEF Next
<1>2. ASSUME pc'[r] = pc[r], row'[r] = row[r], target'[r] = target[r], pupils'[r] = pupils[r]
      PROVE  Goal
  <2>1. /\ pc[r] \in Holding => structure'[target[r]] = structure[target[r]]
        /\ pc[r] = "listed" => Due(row[r])' = Due(row[r])
    BY <1>1 DEF Outdated, At
  <2>. QED
    BY <1>1, <1>2, <2>1 DEF FreshInv
<1>3. CASE AcademicsNext /\ UNCHANGED fees
  BY <1>2, <1>3 DEF fees
<1>4. ASSUME NEW q \in Request, Handle(q), UNCHANGED academics
      PROVE  Goal
  <2>1. CASE q # r
    BY <1>2, <1>4, <2>1 DEF Handle, Goto, TypeOK, CreateStructure, UpdateCommit, UpdateRead,
       LookUp, UpdateScan, ReadStructure, ReadItems, ReadAssignments, ReadEnrolments, CommitBatch
  <2>2. CASE ReadStructure(r)
    BY <2>2 DEF ReadStructure, Goto, TypeOK
  <2>3. ASSUME ReadItems(r) \/ ReadAssignments(r) PROVE Goal
    <3>1. row[r] = structure[target[r]] /\ structure' = structure /\ target' = target
      BY <1>1, <2>3 DEF ReadItems, ReadAssignments, FreshInv, Holding
    <3>2. row[r] \in FeeStructure
      BY <2>3 DEF ReadItems, ReadAssignments, StageInv, At, Holding
    <3>3. /\ [row[r] EXCEPT !.items = row[r].items] = row[r]
          /\ [row[r] EXCEPT !.classes = row[r].classes] = row[r]
      BY <3>2 DEF FeeStructure
    <3>4. row'[r] = row[r]
      BY <2>3, <3>1, <3>3 DEF ReadItems, ReadAssignments, TypeOK
    <3>5. pc'[r] \in {"itemized", "read", "refused"} /\ (pc'[r] = "read" => row[r].status = "ACTIVE")
      BY <2>3 DEF ReadItems, ReadAssignments, Goto, TypeOK
    <3>. QED
      BY <3>1, <3>4, <3>5
  <2>4. CASE ReadEnrolments(r)
    <3>1. Due(row[r])' = Due(row[r])
      BY <1>4, <2>4 DEF ReadEnrolments, academics, Due, Admitted
    <3>. QED
      BY <1>1, <2>4, <3>1 DEF ReadEnrolments, Goto, TypeOK, FreshInv, Holding
  <2>5. CASE q = r /\ ~ReadStructure(r) /\ ~ReadItems(r) /\ ~ReadAssignments(r) /\ ~ReadEnrolments(r)
    BY <1>4, <2>5 DEF Handle, Goto, TypeOK, CreateStructure, UpdateCommit, UpdateRead,
       LookUp, UpdateScan, CommitBatch, Holding
  <2>. QED
    BY <2>1, <2>2, <2>3, <2>4, <2>5
<1>. QED
  BY <1>3, <1>4 DEF Next, Step

(* Until two updates of one structure overlap, an update still finds what  *)
(* it has read.                                                            *)
LEMMA AloneKept ==
    ASSUME TypeOK, StageInv, AloneInv, NEW r \in Request, Handle(r),
           \A s \in Request : \A p, q \in Updates(s)' : p = q
    PROVE  AloneInv'
<1>. USE DEF TypeOK, Goto, At, Structures, Holding
<1>a. \A p, q \in At({"checked", "scanned"})' : target'[p] = target'[q] => p = q
  <2>1. At({"checked", "scanned"})' \subseteq Request
    OBVIOUS
  <2>2. \A p \in At({"checked", "scanned"})' : target'[p] \in Request
    BY DEF Handle, CreateStructure, UpdateCommit, UpdateRead, LookUp, UpdateScan,
       ReadStructure, ReadItems, ReadAssignments, ReadEnrolments, CommitBatch, StageInv
  <2>. QED
    BY <2>1, <2>2 DEF Updates
<1>1. ASSUME NEW t \in TermId, NEW status \in Saved, NEW classes \in (SUBSET ClassName) \ {{}},
             CreateStructure(r, t, status, classes)
      PROVE  AloneInv'
  <2> DEFINE new == [term |-> t, status |-> status, classes |-> classes, items |-> {r}]
  <2>1. structure' = [structure EXCEPT ![r] = new] /\ new.items = {r}
    BY <1>1 DEF CreateStructure
  <2>2. /\ pc[r] = "idle" /\ pc' = [pc EXCEPT ![r] = "saved"]
        /\ UNCHANGED <<target, scan>>
    BY <1>1 DEF CreateStructure
  <2> HIDE DEF new
  <2>. QED
    BY <1>a, <2>1, <2>2 DEF StageInv, AloneInv
<1>2. ASSUME NEW t \in TermId, NEW status \in Saved, NEW classes \in (SUBSET ClassName) \ {{}},
             UpdateCommit(r, t, status, classes)
      PROVE  AloneInv'
  <2> DEFINE s == target[r]
             new == [term |-> t, status |-> status, classes |-> classes,
                     items |-> (structure[s].items \ scan[r]) \cup {r}]
  <2>1. s \in Structures /\ s \in Request
    BY <1>2 DEF UpdateCommit, StageInv
  <2>2. new.items = {r}
    BY <1>2 DEF UpdateCommit, AloneInv
  <2>3. structure' = [structure EXCEPT ![s] = new]
    BY <1>2, <2>1 DEF UpdateCommit
  <2>4. /\ pc[r] = "scanned" /\ pc' = [pc EXCEPT ![r] = "saved"]
        /\ UNCHANGED <<target, scan>>
    BY <1>2 DEF UpdateCommit
  <2>5. \A q \in At({"checked", "scanned"})' : q # r /\ q \in At({"checked", "scanned"})
    BY <2>4
  <2>6. \A q \in At({"checked", "scanned"})' : target[q] # s
    BY <2>4, <2>5 DEF AloneInv
  <2> HIDE DEF new, s
  <2>. QED
    BY <1>a, <2>1, <2>2, <2>3, <2>4, <2>5, <2>6 DEF AloneInv, StageInv
<1>3. ASSUME NEW s \in Request, UpdateRead(r, s) PROVE AloneInv'
  BY <1>3, <1>a DEF UpdateRead, AloneInv, StageInv
<1>4. CASE UpdateScan(r)
  BY <1>4, <1>a DEF UpdateScan, AloneInv, StageInv
<1>5. CASE UNCHANGED <<structure, scan>> /\ \A q \in Request :
                pc'[q] \in {"checked", "scanned"} => pc'[q] = pc[q] /\ target'[q] = target[q]
  BY <1>5, <1>a DEF AloneInv
<1>. QED
  BY <1>1, <1>2, <1>3, <1>4, <1>5 DEF Handle, LookUp, ReadStructure, ReadItems, ReadAssignments, ReadEnrolments, CommitBatch

LEMMA InvNext == IInv /\ [Next]_vars => IInv'
<1>. SUFFICES ASSUME IInv, [Next]_vars PROVE IInv'
  OBVIOUS
<1>1. CASE UNCHANGED vars
  BY <1>1 DEF vars, fees, academics, IInv, TypeOK, AcademicsTypeOK, StageInv, KeyBillsOnce, FreshInv,
     AloneInv, Structures, Batches, At, Due, Admitted, Holding
<1>2. CASE Next
  <2>1. stale' \subseteq Request /\ overlap' \in BOOLEAN
    BY <1>2 DEF Next, Outdated, At, IInv, TypeOK
  <2>2. FreshInv'
    BY <1>2, FreshKept DEF IInv
  <2>3. CASE AcademicsNext /\ UNCHANGED fees
    <3>1. TypeOK'
      BY <2>1, <2>3, RegisterNext DEF IInv, TypeOK, fees
    <3>2. StageInv' /\ KeyBillsOnce' /\ (AloneInv => AloneInv')
      BY <2>3 DEF IInv, fees, StageInv, KeyBillsOnce, AloneInv, Structures, Batches, At, Holding
    <3>. QED
      BY <1>2, <2>2, <3>1, <3>2 DEF IInv, Next
  <2>4. ASSUME NEW r \in Request, Handle(r), UNCHANGED academics PROVE IInv'
    <3>1. TypeOK' /\ StageInv'
      BY <2>1, <2>4, HandlerKeeps DEF IInv
    <3>2. KeyBillsOnce'
      BY <2>4, KeyKept DEF IInv
    <3>3. ~overlap' => AloneInv'
      <4>. SUFFICES ASSUME ~overlap' PROVE AloneInv'
        OBVIOUS
      <4>1. ~overlap /\ \A s \in Request : \A p, q \in Updates(s)' : p = q
        BY <1>2 DEF Next
      <4>. QED
        BY <2>4, <4>1, AloneKept DEF IInv
    <3>. QED
      BY <2>2, <3>1, <3>2, <3>3 DEF IInv
  <2>. QED
    BY <1>2, <2>3, <2>4 DEF Next, Step
<1>. QED
  BY <1>1, <1>2

(* The inductive invariant holds in every reachable state.                 *)
THEOREM InductiveInvariant == Spec => []IInv
  BY InvInit, InvNext, PTL DEF Spec

(* Every state of the register and of the batches is well typed.           *)
THEOREM TypeCorrect == Spec => []TypeOK
  BY InductiveInvariant, PTL DEF IInv

(* An idempotency key of POST /fee-structures/:id/generate-invoices never  *)
(* stands for two batches, however its requests overlap.                   *)
THEOREM KeysBillOnce == Spec => []KeyBillsOnce
  BY InductiveInvariant, PTL DEF IInv

(* Until two updates of a structure overlap it has the fee items of one    *)
(* save.                                                                   *)
THEOREM ItemsOfOneSave == Spec => []StructureOfOneSave
<1>1. IInv => StructureOfOneSave
  <2>. SUFFICES ASSUME IInv, ~overlap, NEW s \in Structures
                PROVE  Cardinality(structure[s].items) = 1
    BY DEF StructureOfOneSave
  <2>1. PICK q \in Request : structure[s].items = {q}
    BY DEF IInv, AloneInv
  <2>. QED
    BY <2>1, FS_Singleton
<1>. QED
  BY <1>1, InductiveInvariant, PTL

(* A batch that is not stale bills what the structure and the register say *)
(* when it is written.                                                     *)
THEOREM BatchesMatch == Spec => BatchMatchesRegister
<1> DEFINE Matches ==
        \A r \in Batches' \ Batches :
            LET fee == structure[batch'[r].of]
            IN  r \notin stale =>
                    /\ fee.status = "ACTIVE"
                    /\ batch'[r].billed = Due(fee)
                    /\ batch'[r].items = fee.items
<1>1. IInv /\ [Next]_vars => [Matches]_vars
  <2>. SUFFICES ASSUME IInv, Next, NEW r \in Batches' \ Batches, r \notin stale
                PROVE  LET fee == structure[batch'[r].of]
                       IN  /\ fee.status = "ACTIVE"
                           /\ batch'[r].billed = Due(fee)
                           /\ batch'[r].items = fee.items
    OBVIOUS
  <2>1. CommitBatch(r)
    <3>1. batch'[r] # batch[r] /\ r \in Request
      BY DEF Batches
    <3>2. PICK q \in Request : Handle(q)
      BY <3>1 DEF Next, Step, fees
    <3>3. CommitBatch(q)
      BY <3>1, <3>2 DEF Handle, CreateStructure, UpdateCommit, UpdateRead, LookUp, UpdateScan,
         ReadStructure, ReadItems, ReadAssignments, ReadEnrolments
    <3>4. q = r
      BY <3>1, <3>3 DEF CommitBatch, IInv, TypeOK
    <3>. QED
      BY <3>3, <3>4
  <2>2. batch'[r] =
          [key |-> key[r], of |-> target[r], billed |-> pupils[r], items |-> row[r].items]
    BY <2>1 DEF CommitBatch, Batches, IInv, TypeOK
  <2>3. row[r] = structure[target[r]] /\ row[r].status = "ACTIVE" /\ pupils[r] = Due(row[r])
    BY <2>1 DEF CommitBatch, IInv, FreshInv, Holding, Batches
  <2>. QED
    BY <2>2, <2>3
<1>. QED
  BY <1>1, InductiveInvariant, PTL DEF Spec, BatchMatchesRegister

(* Until two updates of a structure overlap, an archived one never changes. *)
THEOREM ArchivedImmutable == Spec => ArchivedFrozen
<1> DEFINE Frozen ==
        \A s \in Structures :
            structure[s].status = "ARCHIVED" /\ ~overlap => structure'[s] = structure[s]
<1>1. IInv /\ [Next]_vars => [Frozen]_vars
  <2>. SUFFICES ASSUME IInv, Next, ~overlap, NEW s \in Structures,
                       structure[s].status = "ARCHIVED"
                PROVE  structure'[s] = structure[s]
    OBVIOUS
  <2>1. ASSUME NEW r \in Request, NEW t \in TermId, NEW status \in Saved,
               NEW classes \in (SUBSET ClassName) \ {{}}, CreateStructure(r, t, status, classes)
        PROVE  structure'[s] = structure[s]
    <3>1. r # s
      BY <2>1 DEF CreateStructure, IInv, StageInv
    <3>. QED
      BY <2>1, <3>1 DEF CreateStructure, IInv, TypeOK, Structures
  <2>2. ASSUME NEW r \in Request, NEW t \in TermId, NEW status \in Saved,
               NEW classes \in (SUBSET ClassName) \ {{}}, UpdateCommit(r, t, status, classes)
        PROVE  structure'[s] = structure[s]
    <3>1. target[r] # s
      BY <2>2 DEF UpdateCommit, IInv, AloneInv, At
    <3>. QED
      BY <2>2, <3>1 DEF UpdateCommit, IInv, TypeOK, Structures
  <2>. QED
    BY <2>1, <2>2 DEF Next, Step, fees, Handle, UpdateRead, LookUp, UpdateScan, ReadStructure, ReadItems, ReadAssignments,
       ReadEnrolments, CommitBatch
<1>. QED
  BY <1>1, InductiveInvariant, PTL DEF Spec, ArchivedFrozen
=============================================================================
