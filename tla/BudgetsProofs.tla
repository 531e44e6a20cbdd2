--------------------------- MODULE BudgetsProofs ----------------------------
(***************************************************************************)
(* Proofs about Budgets, for every set of requests, budgets and bodies:    *)
(* what holds however they overlap, and what holds until they do.          *)
(***************************************************************************)
EXTENDS Budgets, TLAPS

(* Bodies of the two endpoints cannot be confused.                         *)
LEMMA DtoTypes ==
    /\ \A dto \in SaveDto : dto \in SaveRequest
    /\ \A dto \in ReviewDto : dto \in ReviewRequest
    /\ SaveDto \cap ReviewDto = {}
    /\ None \notin Request /\ None \notin BudgetRow
  BY DtoAssumption, NoneAssumption DEF SaveRequest, ReviewRequest

LEMMA StoredRow ==
    ASSUME TypeOK, NEW b \in Stored
    PROVE  /\ b \in Budget /\ budget[b] \in BudgetRow
           /\ budget[b].items \subseteq Item /\ budget[b].term \in Term
           /\ budget[b].status \in BudgetStatus /\ budget[b].name \in Name
  BY DEF TypeOK, Table, Stored, BudgetRow

LEMMA NewItemsType ==
    ASSUME NEW r \in Request, req[r] \in SaveDto
    PROVE  NewItems(r) \subseteq Item /\ \A x \in NewItems(r) : x.by = r
<1>1. req[r].categories \in Seq(Category)
  BY DtoTypes DEF SaveRequest
<1>2. Range(req[r].categories) \subseteq Category
  BY <1>1 DEF Range
<1>. QED
  BY <1>2 DEF NewItems, Item

(* What is left of whole saves when whole saves are taken away.            *)
LEMMA WholeWithoutWhole ==
    ASSUME NEW I, NEW J, OfWholeSaves(I), OfWholeSaves(J)
    PROVE  OfWholeSaves(I \ J)
<1>. SUFFICES ASSUME NEW r \in Request
              PROVE  \/ {x \in I \ J : x.by = r} = {}
                     \/ {x \in I \ J : x.by = r} = NewItems(r)
  BY DEF OfWholeSaves
<1>1. {x \in I \ J : x.by = r} = {x \in I : x.by = r} \ {x \in J : x.by = r}
  OBVIOUS
<1>2. {x \in I : x.by = r} = {} \/ {x \in I : x.by = r} = NewItems(r)
  BY DEF OfWholeSaves
<1>3. {x \in J : x.by = r} = {} \/ {x \in J : x.by = r} = NewItems(r)
  BY DEF OfWholeSaves
<1>. QED
  BY <1>1, <1>2, <1>3

Written(I) == \A x \in I : x.by # None => pc[x.by] = "saved"

(* Saves that committed are over: their bodies change no more.             *)
SavesStand == \A q \in Request : pc[q] = "saved" => pc'[q] = "saved" /\ req'[q] = req[q]

LEMMA WholeStaysWhole ==
    ASSUME SavesStand, NEW I, I \subseteq Item, Written(I), OfWholeSaves(I)
    PROVE  /\ \A x \in I : x.by # None => pc'[x.by] = "saved"
           /\ \A q \in Request : \/ {x \in I : x.by = q} = {}
                                 \/ {x \in I : x.by = q} = NewItems(q)'
<1>1. \A x \in I : x.by # None => x.by \in Request /\ pc[x.by] = "saved"
  BY DEF Written, Item
<1>2. \A x \in I : x.by # None => pc'[x.by] = "saved"
  BY <1>1 DEF SavesStand
<1>3. ASSUME NEW q \in Request, {x \in I : x.by = q} # {}
      PROVE  {x \in I : x.by = q} = NewItems(q)'
  <2>1. pc[q] = "saved"
    BY <1>1, <1>3, DtoTypes
  <2>2. req'[q] = req[q]
    BY <2>1 DEF SavesStand
  <2>3. NewItems(q)' = NewItems(q)
    BY <2>2 DEF NewItems
  <2>. QED
    BY <1>3, <2>3 DEF OfWholeSaves
<1>. QED
  BY <1>2, <1>3

(* A step that leaves all items where they are.                            *)
LEMMA ItemsKept ==
    ASSUME OverlapInv, SavesStand, Stored' = Stored,
           \A b \in Stored : budget'[b].items = budget[b].items,
           \A r \in Request : \/ seenItems'[r] = {}
                              \/ seenItems'[r] = seenItems[r]
                              \/ \E c \in Stored : seenItems'[r] = budget[c].items
    PROVE  WriterInv' /\ SavesAtomic'
<1>1. ASSUME NEW I, OfWholeSaves(I), Written(I), I \subseteq Item
      PROVE  /\ \A x \in I : x.by # None => pc'[x.by] = "saved"
             /\ \A q \in Request : \/ {x \in I : x.by = q} = {}
                                   \/ {x \in I : x.by = q} = NewItems(q)'
  BY <1>1, WholeStaysWhole
<1>2. ASSUME NEW b \in Stored
      PROVE  OfWholeSaves(budget[b].items) /\ Written(budget[b].items) /\ budget[b].items \subseteq Item
  BY StoredRow DEF OverlapInv, SavesAtomic, WriterInv, Written
<1>3. ASSUME NEW r \in Request
      PROVE  OfWholeSaves(seenItems[r]) /\ Written(seenItems[r]) /\ seenItems[r] \subseteq Item
  BY DEF OverlapInv, WriterInv, Written, TypeOK
<1>4. OfWholeSaves({}) /\ Written({})
  BY DEF OfWholeSaves, Written
<1>5. ASSUME NEW b \in Stored'
      PROVE  /\ \A x \in budget'[b].items : x.by # None => pc'[x.by] = "saved"
             /\ OfWholeSaves(budget[b].items)'
  <2>1. b \in Stored /\ budget'[b].items = budget[b].items
    OBVIOUS
  <2>. QED
    BY <2>1, <1>1, <1>2 DEF OfWholeSaves
<1>6. ASSUME NEW r \in Request
      PROVE  /\ \A x \in seenItems'[r] : x.by # None => pc'[x.by] = "saved"
             /\ OfWholeSaves(seenItems[r])'
  <2>1. PICK I : /\ seenItems'[r] = I /\ OfWholeSaves(I) /\ Written(I) /\ I \subseteq Item
    BY <1>2, <1>3, <1>4
  <2>. QED
    BY <2>1, <1>1 DEF OfWholeSaves
<1>. QED
  BY <1>5, <1>6 DEF WriterInv, SavesAtomic

-----------------------------------------------------------------------------

THEOREM OverlapInit == Init => OverlapInv
<1>. SUFFICES ASSUME Init PROVE OverlapInv
  OBVIOUS
<1>1. budget \in Table /\ IndexesHold(budget)
  BY InitialAssumption DEF Init
<1>2. TypeOK
  BY <1>1 DEF Init, TypeOK, Stage
<1>3. StageInv
  BY DEF Init, StageInv, Saving, Reviewing
<1>4. \A b \in Stored : \A x \in budget[b].items : x.by = None
  BY InitialAssumption DEF Init, Stored
<1>5. WriterInv /\ SavesAtomic
  BY <1>4, DtoTypes DEF Init, WriterInv, SavesAtomic, OfWholeSaves
<1>. QED
  BY <1>2, <1>3, <1>5 DEF OverlapInv

THEOREM OverlapNext == OverlapInv /\ [Next]_vars => OverlapInv'
<1>. SUFFICES ASSUME OverlapInv, [Next]_vars PROVE OverlapInv'
  OBVIOUS
<1>. USE DEF OverlapInv
<1>1. ASSUME NEW r \in Request, NEW dto \in SaveDto, ReadForSave(r, dto) PROVE OverlapInv'
  <2>0. Stored' = Stored
    BY <1>1 DEF ReadForSave, Stored
  <2>1. TypeOK'
    BY <1>1 DEF ReadForSave, Arrive, GoTo, TypeOK, Stage, Open
  <2>2. StageInv'
    BY <1>1, <2>0 DEF ReadForSave, Arrive, GoTo, TypeOK, StageInv, Saving, Reviewing, MaySave
  <2>3. SavesStand
    BY <1>1 DEF ReadForSave, Arrive, GoTo, TypeOK, SavesStand
  <2>4. WriterInv' /\ SavesAtomic'
    BY <1>1, <2>0, <2>3, ItemsKept DEF ReadForSave
  <2>. QED
    BY <2>1, <2>2, <2>4
<1>2. ASSUME NEW r \in Request, ScanItems(r) PROVE OverlapInv'
  <2>0. Stored' = Stored
    BY <1>2 DEF ScanItems, Stored
  <2>a. req[r].target # None => req[r].target \in Stored
    BY <1>2 DEF ScanItems, StageInv, Saving
  <2>b. ItemsToDelete(req[r]) \subseteq Item
    BY <2>a, StoredRow DEF ItemsToDelete
  <2>1. TypeOK'
    BY <1>2, <2>b DEF ScanItems, GoTo, TypeOK, Stage, Open
  <2>2. StageInv'
    BY <1>2, <2>0 DEF ScanItems, GoTo, TypeOK, StageInv, Saving, Reviewing
  <2>3. SavesStand
    BY <1>2 DEF ScanItems, GoTo, TypeOK, SavesStand
  <2>4. \A q \in Request : \/ seenItems'[q] = {}
                           \/ seenItems'[q] = seenItems[q]
                           \/ \E c \in Stored : seenItems'[q] = budget[c].items
    BY <1>2, <2>a DEF ScanItems, ItemsToDelete, TypeOK
  <2>5. WriterInv' /\ SavesAtomic'
    BY <1>2, <2>0, <2>3, <2>4, ItemsKept DEF ScanItems
  <2>. QED
    BY <2>1, <2>2, <2>5
<1>3. ASSUME NEW r \in Request, NEW b \in Budget, CommitSave(r, b) PROVE OverlapInv'
  <2>0. /\ pc[r] = "scanned" /\ req[r] \in SaveDto /\ req[r] \in SaveRequest
        /\ req[r].status \in Editable /\ req[r].term \in Term /\ req[r].name \in Name
    BY <1>3, DtoTypes DEF CommitSave, StageInv, Saving, SaveRequest
  <2>1. CASE GoTo(r, "clash") /\ UNCHANGED budget
    <3>0. Stored' = Stored
      BY <2>1 DEF Stored
    <3>1. TypeOK'
      BY <1>3, <2>1 DEF CommitSave, GoTo, TypeOK, Stage
    <3>2. StageInv'
      BY <1>3, <2>1, <3>0 DEF CommitSave, GoTo, TypeOK, StageInv, Saving, Reviewing
    <3>3. SavesStand
      BY <1>3, <2>1 DEF CommitSave, GoTo, TypeOK, SavesStand
    <3>4. \A q \in Request : seenItems'[q] = {} \/ seenItems'[q] = seenItems[q]
      BY <1>3 DEF CommitSave, TypeOK
    <3>5. WriterInv' /\ SavesAtomic'
      BY <2>1, <3>0, <3>3, <3>4, ItemsKept
    <3>. QED
      BY <3>1, <3>2, <3>5
  <2>2. CASE /\ ~Clashes(Saved(r, b), b) /\ GoTo(r, "saved")
             /\ budget' = [budget EXCEPT ![b] = Saved(r, b)]
    <3> DEFINE kept == Kept(r, b)
    <3>1. /\ kept \subseteq Item /\ OfWholeSaves(kept) /\ Written(kept)
      <4>1. CASE budget[b] = None
        BY <4>1 DEF Kept, OfWholeSaves, Written
      <4>2. CASE budget[b] # None
        <5>1. b \in Stored
          BY <4>2 DEF Stored
        <5>2. budget[b].items \subseteq Item /\ Written(budget[b].items)
          BY <5>1, StoredRow DEF WriterInv, Written
        <5>3. OfWholeSaves(budget[b].items) /\ OfWholeSaves(seenItems[r])
          BY <5>1 DEF SavesAtomic, WriterInv
        <5>4. kept = budget[b].items \ seenItems[r]
          BY <4>2 DEF Kept
        <5>5. OfWholeSaves(kept)
          BY <5>3, <5>4, WholeWithoutWhole
        <5>. QED
          BY <5>2, <5>4, <5>5 DEF Written
      <4>. QED
        BY <4>1, <4>2
    <3>2. NewItems(r) \subseteq Item /\ \A x \in NewItems(r) : x.by = r
      BY <2>0, NewItemsType
    <3>3. /\ Saved(r, b) \in BudgetRow /\ Saved(r, b) # None
          /\ Saved(r, b).items = kept \cup NewItems(r)
      BY <2>0, <3>1, <3>2, DtoTypes DEF Saved, BudgetRow, BudgetStatus
    <3>4. /\ budget' \in Table
          /\ Stored' = Stored \cup {b}
          /\ budget'[b] = Saved(r, b)
          /\ \A c \in Budget \ {b} : budget'[c] = budget[c]
      BY <2>2, <3>3 DEF TypeOK, Table, Stored
    <3>5. /\ pc' = [pc EXCEPT ![r] = "saved"] /\ req' = req
          /\ readTerm' = readTerm /\ seenApproved' = seenApproved /\ overlap' = overlap
          /\ seenItems' = [seenItems EXCEPT ![r] = {}]
      BY <1>3, <2>2 DEF CommitSave, GoTo
    <3>6. IndexesHold(budget')
      <4>1. \A c \in Stored' : ItemsUnique(budget'[c])
        BY <2>2, <3>4 DEF Clashes, TypeOK, IndexesHold, Stored
      <4>2. \A c \in Stored \ {b} :
                ~(budget[c].name = Saved(r, b).name /\ budget[c].term = Saved(r, b).term)
        BY <2>2 DEF Clashes, NameTaken
      <4>3. \A c, d \in Stored :
                budget[c].name = budget[d].name /\ budget[c].term = budget[d].term => c = d
        BY DEF TypeOK, IndexesHold, Stored
      <4>4. \A c, d \in Stored' :
                budget'[c].name = budget'[d].name /\ budget'[c].term = budget'[d].term => c = d
        BY <3>4, <4>2, <4>3 DEF Stored
      <4>. QED
        BY <4>1, <4>4 DEF IndexesHold, Stored
    <3>7. TypeOK'
      BY <3>4, <3>5, <3>6 DEF TypeOK, Stage
    <3>8. StageInv'
      BY <3>4, <3>5 DEF TypeOK, StageInv, Saving, Reviewing
    <3>9. SavesStand
      BY <2>0, <3>5 DEF TypeOK, SavesStand
    <3>10. \A q \in Request : NewItems(q)' = NewItems(q)
      BY <3>5 DEF NewItems
    <3>11. \A x \in kept : x.by # r
      BY <2>0, <3>1, DtoTypes DEF Written
    <3>12. OfWholeSaves(kept \cup NewItems(r))
      <4>. SUFFICES ASSUME NEW q \in Request
                    PROVE  \/ {x \in kept \cup NewItems(r) : x.by = q} = {}
                           \/ {x \in kept \cup NewItems(r) : x.by = q} = NewItems(q)
        BY DEF OfWholeSaves
      <4>1. CASE q = r
        <5>1. {x \in kept \cup NewItems(r) : x.by = q} = NewItems(r)
          BY <4>1, <3>2, <3>11
        <5>. QED
          BY <5>1, <4>1
      <4>2. CASE q # r
        <5>1. {x \in kept \cup NewItems(r) : x.by = q} = {x \in kept : x.by = q}
          BY <4>2, <3>2
        <5>. QED
          BY <5>1, <3>1 DEF OfWholeSaves
      <4>. QED
        BY <4>1, <4>2
    <3> HIDE DEF kept
    <3>13. \A c \in Stored' : OfWholeSaves(budget'[c].items)
      BY <3>3, <3>4, <3>12 DEF SavesAtomic, Stored
    <3>14. SavesAtomic'
      BY <3>10, <3>13 DEF SavesAtomic, OfWholeSaves
    <3>15. \A x \in kept \cup NewItems(r) : x.by # None => pc'[x.by] = "saved"
      BY <3>1, <3>2, <3>5, <3>9 DEF Written, Item, SavesStand, TypeOK
    <3>16. \A c \in Stored' : \A x \in budget'[c].items : x.by # None => pc'[x.by] = "saved"
      <4>1. ASSUME NEW c \in Stored, NEW x \in budget[c].items, x.by # None
            PROVE  pc'[x.by] = "saved"
        BY <4>1, <3>9, StoredRow DEF WriterInv, SavesStand, Item
      <4>. QED
        BY <4>1, <3>3, <3>4, <3>15 DEF Stored
    <3>17. \A q \in Request : \A x \in seenItems'[q] : x.by # None => pc'[x.by] = "saved"
      BY <3>5, <3>9 DEF WriterInv, SavesStand, Item, TypeOK
    <3>18. \A q \in Request : OfWholeSaves(seenItems'[q])
      BY <3>5 DEF WriterInv, TypeOK, OfWholeSaves
    <3>19. WriterInv'
      BY <3>10, <3>16, <3>17, <3>18 DEF WriterInv, OfWholeSaves
    <3>. QED
      BY <3>7, <3>8, <3>14, <3>19
  <2>. QED
    BY <1>3, <2>1, <2>2 DEF CommitSave
<1>4. ASSUME NEW r \in Request, NEW dto \in ReviewDto, ReadForReview(r, dto) PROVE OverlapInv'
  <2>0. Stored' = Stored
    BY <1>4 DEF ReadForReview, Stored
  <2>1. TypeOK'
    <3>1. readTerm' \in [Request -> Term \cup {None}]
      BY <1>4, StoredRow DEF ReadForReview, MayReview, TypeOK
    <3>2. /\ pc' \in [Request -> Stage]
          /\ req' \in [Request -> SaveDto \cup ReviewDto \cup {None}]
      <4>1. PICK stage \in {"reviewing", "refused"} : Arrive(r, dto, stage)
        BY <1>4 DEF ReadForReview
      <4>2. stage \in Stage
        BY DEF Stage, Open
      <4>. QED
        BY <4>1, <4>2 DEF Arrive, GoTo, TypeOK
    <3>3. overlap' \in BOOLEAN
      BY <1>4 DEF ReadForReview, Arrive, TypeOK
    <3>4. UNCHANGED <<budget, seenItems, seenApproved>>
      BY <1>4 DEF ReadForReview
    <3>. QED
      BY <3>1, <3>2, <3>3, <3>4 DEF TypeOK
  <2>2. StageInv'
    BY <1>4, <2>0 DEF ReadForReview, Arrive, GoTo, TypeOK, StageInv, Saving, Reviewing, MayReview
  <2>3. SavesStand
    BY <1>4 DEF ReadForReview, Arrive, GoTo, TypeOK, SavesStand
  <2>4. WriterInv' /\ SavesAtomic'
    BY <1>4, <2>0, <2>3, ItemsKept DEF ReadForReview
  <2>. QED
    BY <2>1, <2>2, <2>4
<1>5. ASSUME NEW r \in Request, ScanApproved(r) PROVE OverlapInv'
  <2>0. Stored' = Stored
    BY <1>5 DEF ScanApproved, Stored
  <2>1. TypeOK'
    BY <1>5 DEF ScanApproved, Archivable, ApprovedElsewhere, Stored, GoTo, TypeOK, Stage, Open
  <2>2. StageInv'
    BY <1>5, <2>0 DEF ScanApproved, GoTo, TypeOK, StageInv, Saving, Reviewing
  <2>3. SavesStand
    BY <1>5 DEF ScanApproved, GoTo, TypeOK, SavesStand
  <2>4. WriterInv' /\ SavesAtomic'
    BY <1>5, <2>0, <2>3, ItemsKept DEF ScanApproved
  <2>. QED
    BY <2>1, <2>2, <2>4
<1>6. ASSUME NEW r \in Request, CommitReview(r) PROVE OverlapInv'
  <2>0. /\ pc[r] = "found" /\ req[r].decision \in Decision /\ req[r].target \in Stored
    BY <1>6 DEF CommitReview, StageInv, Reviewing
  <2>1. ASSUME NEW b \in Stored
        PROVE  \E status \in BudgetStatus : budget'[b] = [budget[b] EXCEPT !.status = status]
    <3>1. budget[b] = [budget[b] EXCEPT !.status = budget[b].status] /\ budget[b].status \in BudgetStatus
      BY StoredRow DEF BudgetRow
    <3>. QED
      BY <1>6, <2>0, <3>1 DEF CommitReview, Stored, BudgetStatus
  <2>2. ASSUME NEW b \in Stored
        PROVE  /\ budget'[b] \in BudgetRow /\ budget'[b] # None
               /\ budget'[b].items = budget[b].items
               /\ budget'[b].name = budget[b].name /\ budget'[b].term = budget[b].term
    <3>1. PICK status \in BudgetStatus : budget'[b] = [budget[b] EXCEPT !.status = status]
      BY <2>1
    <3>2. budget[b] \in BudgetRow
      BY StoredRow
    <3>. QED
      BY <3>1, <3>2, DtoTypes DEF BudgetRow
  <2>3. ASSUME NEW b \in Budget \ Stored PROVE budget'[b] = None
    BY <1>6, <2>0 DEF CommitReview, Archivable, ApprovedElsewhere, Stored
  <2>4. Stored' = Stored
    BY <2>2, <2>3 DEF Stored
  <2>5. budget' \in Table
    <3>1. budget' = [b \in Budget |-> budget'[b]]
      BY <1>6 DEF CommitReview
    <3>. QED
      BY <2>2, <2>3, <3>1 DEF Table
  <2>6. IndexesHold(budget')
    <3>1. Stored' = {b \in Budget : budget'[b] # None} /\ Stored = {b \in Budget : budget[b] # None}
      BY DEF Stored
    <3>. QED
      BY <2>2, <2>4, <3>1 DEF TypeOK, IndexesHold, ItemsUnique
  <2>7. TypeOK'
    BY <1>6, <2>5, <2>6 DEF CommitReview, GoTo, TypeOK, Stage
  <2>8. StageInv'
    BY <1>6, <2>4 DEF CommitReview, GoTo, TypeOK, StageInv, Saving, Reviewing
  <2>9. SavesStand
    BY <1>6 DEF CommitReview, GoTo, TypeOK, SavesStand
  <2>10. WriterInv' /\ SavesAtomic'
    BY <1>6, <2>2, <2>4, <2>9, ItemsKept DEF CommitReview
  <2>. QED
    BY <2>7, <2>8, <2>10
<1>7. ASSUME NEW r \in Request, Fail(r) PROVE OverlapInv'
  <2>0. Stored' = Stored
    BY <1>7 DEF Fail, Stored
  <2>1. TypeOK'
    BY <1>7 DEF Fail, GoTo, TypeOK, Stage
  <2>2. StageInv'
    BY <1>7, <2>0 DEF Fail, GoTo, TypeOK, StageInv, Saving, Reviewing
  <2>3. SavesStand
    BY <1>7 DEF Fail, GoTo, Open, TypeOK, SavesStand
  <2>4. \A q \in Request : seenItems'[q] = {} \/ seenItems'[q] = seenItems[q]
    BY <1>7 DEF Fail, TypeOK
  <2>5. WriterInv' /\ SavesAtomic'
    BY <1>7, <2>0, <2>3, <2>4, ItemsKept DEF Fail
  <2>. QED
    BY <2>1, <2>2, <2>5
<1>8. CASE UNCHANGED vars
  <2>1. Stored' = Stored /\ SavesStand
    BY <1>8 DEF vars, Stored, SavesStand
  <2>2. WriterInv' /\ SavesAtomic'
    BY <1>8, <2>1, ItemsKept DEF vars
  <2>3. TypeOK'
    BY <1>8 DEF vars, TypeOK
  <2>. QED
    BY <1>8, <2>1, <2>2, <2>3 DEF vars, StageInv, Saving, Reviewing
<1>. QED
  BY <1>1, <1>2, <1>3, <1>4, <1>5, <1>6, <1>7, <1>8 DEF Next, RequestStep

-----------------------------------------------------------------------------

LEMMA OverlapInvariant == Spec => []OverlapInv
  BY OverlapInit, OverlapNext, PTL DEF Spec

(* Every state of the budgets is well typed and obeys the unique indexes.  *)
THEOREM TypeCorrect == Spec => []TypeOK
  BY OverlapInvariant, PTL DEF OverlapInv

(* However saves overlap, a budget holds all items of a save or none.      *)
THEOREM SavesWhole == Spec => []SavesAtomic
  BY OverlapInvariant, PTL DEF OverlapInv

-----------------------------------------------------------------------------

LEMMA OverlapStays ==
    ASSUME TypeOK, [Next]_vars, ~overlap'
    PROVE  ~overlap
  BY DEF TypeOK, Next, RequestStep, vars, ReadForSave, ScanItems, CommitSave, ReadForReview,
         ScanApproved, CommitReview, Fail, Arrive

LEMMA LetInAlone ==
    ASSUME ~overlap', NEW r \in Request, NEW dto, NEW stage \in Open, Arrive(r, dto, stage)
    PROVE  \A q \in Request : pc[q] \notin Open
  BY DEF Arrive

(* When no request is under way there is nothing to be stale.              *)
LEMMA IdleIsFresh ==
    ASSUME \A q \in Request : pc'[q] \notin Open
    PROVE  FreshInv'
  BY DEF FreshInv, Saving, Reviewing, Open

(* A request under way that steps to a stage where it still is.            *)
LEMMA OnlyOne ==
    ASSUME FreshInv, TypeOK, NEW r \in Request, pc[r] \in Open, NEW stage \in Stage, GoTo(r, stage)
    PROVE  \A q \in Request \ {r} : pc[q] \notin Open /\ pc'[q] \notin Open
  BY DEF FreshInv, TypeOK, GoTo

(* A request that is refused disturbs no other.                            *)
LEMMA RefusedIsFresh ==
    ASSUME FreshInv, TypeOK, NEW r \in Request, NEW dto, Arrive(r, dto, "refused"),
           UNCHANGED <<budget, readTerm, seenItems, seenApproved>>
    PROVE  FreshInv'
<1>1. /\ pc'[r] \notin Open
      /\ \A q \in Request \ {r} : pc'[q] = pc[q] /\ req'[q] = req[q]
  BY DEF Arrive, GoTo, TypeOK, Open
<1>2. ASSUME NEW q \in Request \ {r}
      PROVE  /\ Archivable(q)' = Archivable(q)
             /\ ItemsToDelete(req[q])' = ItemsToDelete(req[q])
  BY <1>1 DEF Archivable, ApprovedElsewhere, Stored, ItemsToDelete
<1>. QED
  BY <1>1, <1>2 DEF FreshInv, Saving, Reviewing, Open

(* Until requests overlap, what a handler has read is still so.            *)
LEMMA StepsAlone ==
    ASSUME OverlapInv, SerialInv, ~overlap', [Next]_vars
    PROVE  FreshInv'
<1>. USE DEF SerialInv, OverlapInv
<1>1. ASSUME NEW r \in Request, NEW dto \in SaveDto, ReadForSave(r, dto) PROVE FreshInv'
  <2>1. CASE ~MaySave(dto)
    <3>1. Arrive(r, dto, "refused") /\ UNCHANGED <<budget, readTerm, seenItems, seenApproved>>
      BY <1>1, <2>1 DEF ReadForSave
    <3>. QED
      BY <3>1, RefusedIsFresh
  <2>2. CASE MaySave(dto)
    <3>1. Arrive(r, dto, "saving") /\ UNCHANGED <<budget, readTerm, seenItems, seenApproved>>
      BY <1>1, <2>2 DEF ReadForSave
    <3>2. \A q \in Request : pc[q] \notin Open
      BY <3>1, LetInAlone DEF Open
    <3>3. /\ \A q \in Request \ {r} : pc'[q] \notin Open
          /\ pc'[r] = "saving" /\ req'[r] = dto
      BY <3>1, <3>2 DEF Arrive, GoTo, TypeOK
    <3>. QED
      BY <2>2, <3>1, <3>3 DEF MaySave, FreshInv, Saving, Reviewing, Open
  <2>. QED
    BY <2>1, <2>2
<1>2. ASSUME NEW r \in Request, ScanItems(r) PROVE FreshInv'
  <2>1. \A q \in Request \ {r} : pc'[q] \notin Open
    BY <1>2, OnlyOne DEF ScanItems, Open, Stage
  <2>2. pc[r] = "saving" /\ pc'[r] = "scanned" /\ seenItems'[r] = ItemsToDelete(req[r])
    BY <1>2 DEF ScanItems, GoTo, TypeOK
  <2>3. ItemsToDelete(req[r])' = ItemsToDelete(req[r])
    BY <1>2 DEF ScanItems, ItemsToDelete
  <2>. QED
    BY <1>2, <2>1, <2>2, <2>3 DEF ScanItems, FreshInv, Saving, Reviewing, Open
<1>3. ASSUME NEW r \in Request, NEW b \in Budget, CommitSave(r, b) PROVE FreshInv'
  <2>1. \A q \in Request \ {r} : pc'[q] \notin Open
    BY <1>3, OnlyOne DEF CommitSave, Open, Stage
  <2>2. pc'[r] \notin Open
    BY <1>3 DEF CommitSave, GoTo, TypeOK, Open
  <2>. QED
    BY <2>1, <2>2, IdleIsFresh
<1>4. ASSUME NEW r \in Request, NEW dto \in ReviewDto, ReadForReview(r, dto) PROVE FreshInv'
  <2>1. CASE ~MayReview(dto)
    <3>1. Arrive(r, dto, "refused") /\ UNCHANGED <<budget, readTerm, seenItems, seenApproved>>
      BY <1>4, <2>1 DEF ReadForReview
    <3>. QED
      BY <3>1, RefusedIsFresh
  <2>2. CASE MayReview(dto)
    <3>1. /\ Arrive(r, dto, "reviewing") /\ UNCHANGED <<budget, seenItems, seenApproved>>
          /\ readTerm' = [readTerm EXCEPT ![r] = budget[dto.target].term]
      BY <1>4, <2>2 DEF ReadForReview
    <3>2. \A q \in Request : pc[q] \notin Open
      BY <3>1, LetInAlone DEF Open
    <3>3. /\ \A q \in Request \ {r} : pc'[q] \notin Open
          /\ pc'[r] = "reviewing" /\ req'[r] = dto /\ readTerm'[r] = budget[dto.target].term
      BY <3>1, <3>2 DEF Arrive, GoTo, TypeOK
    <3>. QED
      BY <2>2, <3>1, <3>3 DEF MayReview, FreshInv, Saving, Reviewing, Open
  <2>. QED
    BY <2>1, <2>2
<1>5. ASSUME NEW r \in Request, ScanApproved(r) PROVE FreshInv'
  <2>1. \A q \in Request \ {r} : pc'[q] \notin Open
    BY <1>5, OnlyOne DEF ScanApproved, Open, Stage
  <2>2. pc[r] = "reviewing" /\ pc'[r] = "found" /\ seenApproved'[r] = Archivable(r)
    BY <1>5 DEF ScanApproved, GoTo, TypeOK
  <2>3. Archivable(r)' = Archivable(r)
    BY <1>5 DEF ScanApproved, Archivable, ApprovedElsewhere, Stored
  <2>. QED
    BY <1>5, <2>1, <2>2, <2>3 DEF ScanApproved, FreshInv, Saving, Reviewing, Open
<1>6. ASSUME NEW r \in Request, CommitReview(r) PROVE FreshInv'
  <2>1. \A q \in Request \ {r} : pc'[q] \notin Open
    BY <1>6, OnlyOne DEF CommitReview, Open, Stage
  <2>2. pc'[r] \notin Open
    BY <1>6 DEF CommitReview, GoTo, TypeOK, Open
  <2>. QED
    BY <2>1, <2>2, IdleIsFresh
<1>7. ASSUME NEW r \in Request, Fail(r) PROVE FreshInv'
  <2>1. \A q \in Request \ {r} : pc'[q] \notin Open
    BY <1>7, OnlyOne DEF Fail, Stage
  <2>2. pc'[r] \notin Open
    BY <1>7 DEF Fail, GoTo, TypeOK, Open
  <2>. QED
    BY <2>1, <2>2, IdleIsFresh
<1>8. CASE UNCHANGED vars
  BY <1>8 DEF vars, FreshInv, Saving, Reviewing, ItemsToDelete, Archivable, ApprovedElsewhere, Stored
<1>. QED
  BY <1>1, <1>2, <1>3, <1>4, <1>5, <1>6, <1>7, <1>8 DEF Next, RequestStep

(* What a save does then to the table: it replaces an editable budget.        *)
LEMMA SaveReplaces ==
    ASSUME OverlapInv, SerialInv, NEW r \in Request, NEW b \in Budget, CommitSave(r, b), budget' # budget
    PROVE  /\ b \in Stored => budget[b].status \in Editable
           /\ Stored' = Stored \cup {b}
           /\ budget'[b].status \in Editable /\ budget'[b].items = NewItems(r)
           /\ \A x \in NewItems(r) : x.by = r
           /\ \A c \in Budget \ {b} : budget'[c] = budget[c]
<1>. USE DEF SerialInv, OverlapInv
<1>1. /\ budget' = [budget EXCEPT ![b] = Saved(r, b)]
      /\ pc[r] = "scanned" /\ req[r] \in SaveDto /\ req[r] \in SaveRequest
      /\ req[r].status \in Editable /\ req[r].term \in Term /\ req[r].name \in Name
  BY DtoTypes DEF CommitSave, StageInv, Saving, SaveRequest
<1>2. NewItems(r) \subseteq Item /\ \A x \in NewItems(r) : x.by = r
  BY <1>1, NewItemsType
<1>3. (b \in Stored => budget[b].status \in Editable) /\ Kept(r, b) = {}
  BY <1>1 DEF CommitSave, FreshInv, Saving, ItemsToDelete, Kept, Stored
<1>4. Saved(r, b) \in BudgetRow /\ Saved(r, b).items = NewItems(r)
      /\ Saved(r, b).status \in Editable
  BY <1>1, <1>2, <1>3 DEF Saved, BudgetRow, BudgetStatus
<1>. QED
  BY <1>1, <1>2, <1>3, <1>4, DtoTypes DEF TypeOK, Table, Stored

(* What a review does then to the table: it decides a pending budget, and an  *)
(* approval archives every budget of the term that was approved.           *)
LEMMA ReviewDecides ==
    ASSUME OverlapInv, SerialInv, NEW r \in Request, CommitReview(r)
    PROVE  \E t \in Stored, decision \in Decision :
              /\ budget[t].status = "PENDING"
              /\ Stored' = Stored
              /\ budget'[t] = [budget[t] EXCEPT !.status = decision]
              /\ \A c \in Stored \ {t} :
                    budget'[c] = IF /\ decision = "APPROVED" /\ budget[c].status = "APPROVED"
                                    /\ budget[c].term = budget[t].term
                                 THEN [budget[c] EXCEPT !.status = "ARCHIVED"]
                                 ELSE budget[c]
<1>. USE DEF SerialInv, OverlapInv
<1> DEFINE t == req[r].target
<1>1. pc[r] = "found" /\ req[r].decision \in Decision /\ t \in Stored /\ t \in Budget
  BY DEF CommitReview, StageInv, Reviewing, Stored
<1>2. budget[t].status = "PENDING" /\ budget[t].term = readTerm[r] /\ seenApproved[r] = Archivable(r)
  BY <1>1 DEF FreshInv, Reviewing
<1>3. budget'[t] = [budget[t] EXCEPT !.status = req[r].decision]
  BY <1>1 DEF CommitReview
<1>4. ASSUME NEW c \in Budget \ {t}
      PROVE  budget'[c] = IF c \in Archivable(r) THEN [budget[c] EXCEPT !.status = "ARCHIVED"]
                          ELSE budget[c]
  BY <1>2 DEF CommitReview
<1>5. ASSUME NEW c \in Stored \ {t}
      PROVE  c \in Archivable(r) <=>
                /\ req[r].decision = "APPROVED" /\ budget[c].status = "APPROVED"
                /\ budget[c].term = budget[t].term
  BY <1>2 DEF Archivable, ApprovedElsewhere
<1>6. ASSUME NEW c \in Stored, NEW status \in BudgetStatus
      PROVE  [budget[c] EXCEPT !.status = status] # None
  <2>1. [budget[c] EXCEPT !.status = status] \in BudgetRow
    BY StoredRow DEF BudgetRow
  <2>. QED
    BY <2>1, DtoTypes
<1>7. Archivable(r) \subseteq Stored
  BY DEF Archivable, ApprovedElsewhere
<1>8. Decision \subseteq BudgetStatus /\ "ARCHIVED" \in BudgetStatus
  BY DEF BudgetStatus
<1> HIDE DEF t
<1>9. budget'[t] # None
  BY <1>1, <1>3, <1>6, <1>8
<1>10. ASSUME NEW c \in Stored \ {t} PROVE budget'[c] # None
  BY <1>4, <1>6, <1>8 DEF Stored
<1>11. ASSUME NEW c \in Budget \ Stored PROVE budget'[c] = None
  BY <1>1, <1>4, <1>7 DEF Stored
<1>12. Stored' = Stored
  BY <1>9, <1>10, <1>11 DEF Stored
<1>13. ASSUME NEW c \in Stored \ {t}
       PROVE  budget'[c] = IF /\ req[r].decision = "APPROVED" /\ budget[c].status = "APPROVED"
                              /\ budget[c].term = budget[t].term
                           THEN [budget[c] EXCEPT !.status = "ARCHIVED"]
                           ELSE budget[c]
  BY <1>4, <1>5 DEF Stored
<1>. QED
  BY <1>1, <1>2, <1>3, <1>12, <1>13

LEMMA SerialNext ==
    ASSUME OverlapInv, SerialInv, ~overlap, ~overlap', [Next]_vars
    PROVE  SerialInv'
<1>. USE DEF SerialInv
<1>1. FreshInv'
  BY StepsAlone
<1>2. CASE budget' = budget
  BY <1>1, <1>2 DEF ItemsOfOneSave, OneApprovedPerTerm, ArchivedHasSuccessor, Stored
<1>3. ASSUME NEW r \in Request, NEW b \in Budget, CommitSave(r, b), budget' # budget
      PROVE  SerialInv'
  <2>1. /\ b \in Stored => budget[b].status \in Editable
        /\ Stored' = Stored \cup {b}
        /\ budget'[b].status \in Editable /\ budget'[b].items = NewItems(r)
        /\ \A x \in NewItems(r) : x.by = r
        /\ \A c \in Budget \ {b} : budget'[c] = budget[c]
    BY <1>3, SaveReplaces
  <2>2. ItemsOfOneSave'
    BY <2>1 DEF ItemsOfOneSave, Stored
  <2>3. OneApprovedPerTerm'
    BY <2>1 DEF OneApprovedPerTerm, Editable, Stored
  <2>4. ArchivedHasSuccessor'
    <3>. SUFFICES ASSUME NEW d \in Stored', budget'[d].status = "ARCHIVED"
                  PROVE  \E c \in Stored' : budget'[c].status = "APPROVED"
                                           /\ budget'[c].term = budget'[d].term
      BY DEF ArchivedHasSuccessor
    <3>1. d \in Stored /\ d # b /\ budget'[d] = budget[d]
      BY <2>1 DEF Editable, Stored
    <3>2. PICK c \in Stored : budget[c].status = "APPROVED" /\ budget[c].term = budget[d].term
      BY <3>1 DEF ArchivedHasSuccessor
    <3>3. c # b /\ c \in Stored' /\ budget'[c] = budget[c]
      BY <2>1, <3>2 DEF Editable, Stored
    <3>. QED
      BY <3>1, <3>2, <3>3
  <2>. QED
    BY <1>1, <2>2, <2>3, <2>4
<1>4. ASSUME NEW r \in Request, CommitReview(r) PROVE SerialInv'
  <2>1. PICK t \in Stored, decision \in Decision :
              /\ budget[t].status = "PENDING"
              /\ Stored' = Stored
              /\ budget'[t] = [budget[t] EXCEPT !.status = decision]
              /\ \A c \in Stored \ {t} :
                    budget'[c] = IF /\ decision = "APPROVED" /\ budget[c].status = "APPROVED"
                                    /\ budget[c].term = budget[t].term
                                 THEN [budget[c] EXCEPT !.status = "ARCHIVED"]
                                 ELSE budget[c]
    BY <1>4, ReviewDecides
  <2>2. ASSUME NEW c \in Stored, NEW status \in BudgetStatus
        PROVE  /\ [budget[c] EXCEPT !.status = status].status = status
               /\ [budget[c] EXCEPT !.status = status].term = budget[c].term
               /\ [budget[c] EXCEPT !.status = status].items = budget[c].items
    BY StoredRow DEF OverlapInv, BudgetRow
  <2>3. /\ budget'[t].status = decision /\ budget'[t].term = budget[t].term
        /\ budget'[t].items = budget[t].items
    BY <2>1, <2>2 DEF BudgetStatus
  <2>4. ASSUME NEW c \in Stored \ {t}
        PROVE  /\ budget'[c].term = budget[c].term /\ budget'[c].items = budget[c].items
               /\ budget'[c].status =
                     IF /\ decision = "APPROVED" /\ budget[c].status = "APPROVED"
                        /\ budget[c].term = budget[t].term
                     THEN "ARCHIVED" ELSE budget[c].status
    <3>1. /\ [budget[c] EXCEPT !.status = "ARCHIVED"].status = "ARCHIVED"
          /\ [budget[c] EXCEPT !.status = "ARCHIVED"].term = budget[c].term
          /\ [budget[c] EXCEPT !.status = "ARCHIVED"].items = budget[c].items
      BY <2>2 DEF BudgetStatus
    <3>2. budget'[c] \in {budget[c], [budget[c] EXCEPT !.status = "ARCHIVED"]}
      BY <2>1
    <3>. QED
      BY <2>1, <3>1, <3>2
  <2>5. ItemsOfOneSave'
    <3>1. \A c \in Stored : budget'[c].items = budget[c].items
      BY <2>3, <2>4
    <3>. QED
      BY <2>1, <3>1 DEF ItemsOfOneSave
  <2>6. OneApprovedPerTerm'
    <3>. SUFFICES ASSUME NEW c \in Stored, NEW d \in Stored,
                         budget'[c].status = "APPROVED", budget'[d].status = "APPROVED",
                         budget'[c].term = budget'[d].term
                  PROVE  c = d
      BY <2>1 DEF OneApprovedPerTerm
    <3>1. CASE c # t /\ d # t
      <4>1. /\ budget[c].status = "APPROVED" /\ budget[d].status = "APPROVED"
            /\ budget[c].term = budget[d].term
        BY <2>4, <3>1
      <4>. QED
        BY <4>1 DEF OneApprovedPerTerm
    <3>2. CASE c = t /\ d # t
      BY <2>3, <2>4, <3>2
    <3>3. CASE c # t /\ d = t
      BY <2>3, <2>4, <3>3
    <3>. QED
      BY <3>1, <3>2, <3>3
  <2>7. ArchivedHasSuccessor'
    <3>. SUFFICES ASSUME NEW d \in Stored, budget'[d].status = "ARCHIVED"
                  PROVE  \E c \in Stored : budget'[c].status = "APPROVED"
                                           /\ budget'[c].term = budget'[d].term
      BY <2>1 DEF ArchivedHasSuccessor
    <3>1. d # t /\ budget'[d].term = budget[d].term
      BY <2>3, <2>4 DEF Decision
    <3>2. CASE decision = "APPROVED" /\ budget[d].term = budget[t].term
      BY <2>3, <3>1, <3>2
    <3>3. CASE ~(decision = "APPROVED" /\ budget[d].term = budget[t].term)
      <4>1. budget[d].status = "ARCHIVED"
        BY <2>4, <3>1, <3>3
      <4>2. PICK c \in Stored : budget[c].status = "APPROVED" /\ budget[c].term = budget[d].term
        BY <4>1 DEF ArchivedHasSuccessor
      <4>3. c # t
        BY <2>1, <4>2
      <4>. QED
        BY <2>4, <3>1, <3>3, <4>2, <4>3
    <3>. QED
      BY <3>2, <3>3
  <2>. QED
    BY <1>1, <2>5, <2>6, <2>7
<1>. QED
  BY <1>2, <1>3, <1>4
  DEF Next, RequestStep, vars, ReadForSave, ScanItems, ReadForReview, ScanApproved, Fail

(* Initial tables as ordinary use leaves them.                             *)
Decided == OneApprovedPerTerm /\ ArchivedHasSuccessor

THEOREM InitInv == Init /\ Decided => IInv
<1>. SUFFICES ASSUME Init, Decided PROVE IInv
  OBVIOUS
<1>1. FreshInv
  BY DEF Init, FreshInv, Saving, Reviewing, Open
<1>2. ItemsOfOneSave
  BY InitialAssumption DEF Init, ItemsOfOneSave, Stored
<1>. QED
  BY <1>1, <1>2, OverlapInit DEF IInv, SerialInv, Decided

THEOREM NextInv == IInv /\ [Next]_vars => IInv'
<1>. SUFFICES ASSUME IInv, [Next]_vars PROVE IInv'
  OBVIOUS
<1>1. OverlapInv /\ OverlapInv'
  BY OverlapNext DEF IInv
<1>2. ASSUME ~overlap' PROVE SerialInv'
  <2>1. ~overlap
    BY <1>1, <1>2, OverlapStays DEF OverlapInv
  <2>. QED
    BY <1>1, <1>2, <2>1, SerialNext DEF IInv
<1>. QED
  BY <1>1, <1>2 DEF IInv

(* The inductive invariant holds in every reachable state.                 *)
THEOREM InductiveInvariant == Spec /\ Decided => []IInv
  BY InitInv, NextInv, PTL DEF Spec

(* Until requests overlap, the items of a budget are those of its last     *)
(* save.                                                                   *)
THEOREM ItemsReplaced == Spec /\ Decided => []ItemsOfOneSave
<1>1. IInv => ItemsOfOneSave
  BY DEF IInv, SerialInv, ItemsOfOneSave
<1>. QED
  BY <1>1, InductiveInvariant, PTL

(* Until requests overlap, a term has at most one approved budget.         *)
THEOREM ApprovedOnce == Spec /\ Decided => []SerialOneApproved
<1>1. IInv => SerialOneApproved
  BY DEF IInv, SerialInv, SerialOneApproved
<1>. QED
  BY <1>1, InductiveInvariant, PTL

(* Until requests overlap, a term whose budget was archived has an         *)
(* approved one.                                                           *)
THEOREM SuccessorApproved == Spec /\ Decided => []ArchivedHasSuccessor
<1>1. IInv => ArchivedHasSuccessor
  BY DEF IInv, SerialInv, ArchivedHasSuccessor
<1>. QED
  BY <1>1, InductiveInvariant, PTL

(* Until requests overlap, approved and archived budgets do not change,    *)
(* but that an approved one is archived.                                   *)
THEOREM Immutable == Spec /\ Decided => ApprovedImmutable
<1> DEFINE Kind ==
        \A b \in Stored :
            ~overlap /\ budget[b].status \in {"APPROVED", "ARCHIVED"} =>
                budget'[b] \in {budget[b], [budget[b] EXCEPT !.status = "ARCHIVED"]}
<1>1. IInv /\ [Next]_vars => [Kind]_vars
  <2>. SUFFICES ASSUME OverlapInv, SerialInv, [Next]_vars, budget' # budget PROVE Kind
    BY DEF IInv
  <2>1. ASSUME NEW r \in Request, NEW b \in Budget, CommitSave(r, b) PROVE Kind
    BY <2>1, SaveReplaces DEF Stored, Editable
  <2>2. ASSUME NEW r \in Request, CommitReview(r) PROVE Kind
    BY <2>2, ReviewDecides
  <2>. QED
    BY <2>1, <2>2
    DEF Next, RequestStep, vars, ReadForSave, ScanItems, ReadForReview, ScanApproved, Fail
<1>. QED
  BY <1>1, InductiveInvariant, PTL DEF Spec, ApprovedImmutable
=============================================================================
