------------------------------- MODULE Budgets -------------------------------
(***************************************************************************)
(* ExpenditureService.saveBudget and reviewBudget, one process per HTTP    *)
(* request.  Both check the budget they read and then open a READ          *)
(* COMMITTED transaction.  Its first statement deletes, or archives, the   *)
(* rows visible when it starts; rows another transaction commits while it  *)
(* waits for a lock are not among them.  The rest is written by id.        *)
(*                                                                         *)
(*   pc[r]:  new -> saving -> scanned -> saved, or clash                   *)
(*           new -> reviewing -> found -> reviewed                         *)
(***************************************************************************)
EXTENDS Sequences, Functions

CONSTANTS
    Request,        \* HTTP requests to the budget routes
    Budget,         \* budget ids
    Name, Category, \* as stored: trimmed, and no two that differ in case only
    Term,           \* the terms there are
    SaveDto,        \* ids and bodies of POST /budgets and PATCH /budgets/:id
    ReviewDto,      \* ids and bodies of POST /budgets/:id/review
    InitialBudgets, \* budget tables to start from
    None            \* no id, no term of that name, no row

Editable == {"DRAFT", "PENDING"}
Decision == {"APPROVED", "REJECTED"}
BudgetStatus == Editable \cup Decision \cup {"ARCHIVED"}

(* The amount of an item is told by the save that wrote it.                *)
Item == [category : Category, by : Request \cup {None}]

BudgetRow == [name : Name, term : Term, status : BudgetStatus, items : SUBSET Item]

Table == [Budget -> BudgetRow \cup {None}]

SaveRequest ==
    [kind : {"save"}, target : Budget \cup {None}, name : Name, term : Term \cup {None},
     status : BudgetStatus, categories : Seq(Category) \ {<<>>}]
ReviewRequest == [kind : {"review"}, target : Budget, decision : BudgetStatus]

ASSUME DtoAssumption == SaveDto \subseteq SaveRequest /\ ReviewDto \subseteq ReviewRequest
(* The unique indexes on (budget, category) and on (term, name).           *)
ItemsUnique(row) == \A x, y \in row.items : x.category = y.category => x = y

IndexesHold(table) ==
    LET stored == {b \in Budget : table[b] # None}
    IN  /\ \A b \in stored : ItemsUnique(table[b])
        /\ \A b, c \in stored :
              table[b].name = table[c].name /\ table[b].term = table[c].term => b = c

ASSUME InitialAssumption ==
    \A table \in InitialBudgets :
        /\ table \in Table
        /\ IndexesHold(table)
        /\ \A b \in Budget :
              table[b] # None => \A x \in table[b].items : x.by = None
ASSUME NoneAssumption == None \notin Budget \cup Term \cup Request \cup BudgetRow

VARIABLES
    budget,         \* id -> BudgetRow, or None while not inserted
    req,            \* the body request r arrived with
    pc,             \* where the handler of r is, or how it ended
    readTerm,       \* the term of the budget the review r read
    seenItems,      \* what the deleteMany of the save r found
    seenApproved,   \* what the updateMany of the review r found
    overlap         \* two requests have been between read and commit at once

vars == <<budget, req, pc, readTerm, seenItems, seenApproved, overlap>>

Open == {"saving", "scanned", "reviewing", "found"}
Stage == Open \cup {"new", "saved", "reviewed", "refused", "clash", "failed"}

Stored == {b \in Budget : budget[b] # None}

(* Besides the types: the unique indexes.                                  *)
TypeOK ==
    /\ budget \in Table
    /\ IndexesHold(budget)
    /\ req \in [Request -> SaveDto \cup ReviewDto \cup {None}]
    /\ pc \in [Request -> Stage]
    /\ readTerm \in [Request -> Term \cup {None}]
    /\ seenItems \in [Request -> SUBSET Item]
    /\ seenApproved \in [Request -> SUBSET Budget]
    /\ overlap \in BOOLEAN

Init ==
    /\ budget \in InitialBudgets
    /\ req = [r \in Request |-> None]
    /\ pc = [r \in Request |-> "new"]
    /\ readTerm = [r \in Request |-> None]
    /\ seenItems = [r \in Request |-> {}]
    /\ seenApproved = [r \in Request |-> {}]
    /\ overlap = FALSE

-----------------------------------------------------------------------------

GoTo(r, stage) == pc' = [pc EXCEPT ![r] = stage]

Arrive(r, dto, stage) ==
    /\ pc[r] = "new"
    /\ req' = [req EXCEPT ![r] = dto]
    /\ GoTo(r, stage)
    /\ overlap' = (overlap \/ (stage \in Open /\ \E q \in Request : pc[q] \in Open))

(* FAULT: only archived budgets are closed to edits.                       *)
MaySaveApproved(dto) ==
    /\ dto.status \in Editable
    /\ IsInjective(dto.categories)
    /\ dto.term # None
    /\ dto.target # None =>
          dto.target \in Stored /\ budget[dto.target].status \in Editable \cup {"APPROVED"}

MaySave(dto) ==
    /\ dto.status \in Editable
    /\ IsInjective(dto.categories)
    /\ dto.term # None
    /\ dto.target # None =>
          dto.target \in Stored /\ budget[dto.target].status \in Editable

ReadForSave(r, dto) ==
    /\ Arrive(r, dto, IF MaySave(dto) THEN "saving" ELSE "refused")
    /\ UNCHANGED <<budget, readTerm, seenItems, seenApproved>>

ItemsToDelete(dto) == IF dto.target = None THEN {} ELSE budget[dto.target].items

ScanItems(r) ==
    /\ pc[r] = "saving"
    /\ seenItems' = [seenItems EXCEPT ![r] = ItemsToDelete(req[r])]
    /\ GoTo(r, "scanned")
    /\ UNCHANGED <<budget, req, readTerm, seenApproved, overlap>>

NewItems(r) == {[category |-> c, by |-> r] : c \in Range(req[r].categories)}

Kept(r, b) == IF budget[b] = None THEN {} ELSE budget[b].items \ seenItems[r]

(* FAULT: items whose category is taken are skipped (skipDuplicates).      *)
SavedSkipping(r, b) ==
    [name |-> req[r].name, term |-> req[r].term, status |-> req[r].status,
     items |-> Kept(r, b) \cup
               {x \in NewItems(r) : \A y \in Kept(r, b) : x.category # y.category}]

Saved(r, b) ==
    [name |-> req[r].name, term |-> req[r].term, status |-> req[r].status,
     items |-> Kept(r, b) \cup NewItems(r)]

NameTaken(row, b) ==
    \E c \in Stored \ {b} : budget[c].name = row.name /\ budget[c].term = row.term

(* P2002: everything is rolled back and the client gets a 409.             *)
Clashes(row, b) == NameTaken(row, b) \/ ~ItemsUnique(row)

CommitSave(r, b) ==
    /\ pc[r] = "scanned"
    /\ IF req[r].target = None THEN b \notin Stored ELSE b = req[r].target
    /\ \/ Clashes(Saved(r, b), b) /\ GoTo(r, "clash") /\ UNCHANGED budget
       \/ /\ ~Clashes(Saved(r, b), b)
          /\ budget' = [budget EXCEPT ![b] = Saved(r, b)]
          /\ GoTo(r, "saved")
    /\ seenItems' = [seenItems EXCEPT ![r] = {}]
    /\ UNCHANGED <<req, readTerm, seenApproved, overlap>>

-----------------------------------------------------------------------------

MayReview(dto) ==
    /\ dto.decision \in Decision
    /\ dto.target \in Stored
    /\ budget[dto.target].status = "PENDING"

ReadForReview(r, dto) ==
    /\ \/ /\ MayReview(dto)
          /\ Arrive(r, dto, "reviewing")
          /\ readTerm' = [readTerm EXCEPT ![r] = budget[dto.target].term]
       \/ ~MayReview(dto) /\ Arrive(r, dto, "refused") /\ UNCHANGED readTerm
    /\ UNCHANGED <<budget, seenItems, seenApproved>>

ApprovedElsewhere(t, b) ==
    {c \in Stored \ {b} : budget[c].status = "APPROVED" /\ budget[c].term = t}

(* FAULT: the archived budgets are of any term.                            *)
ArchivableOfAnyTerm(r) ==
    IF req[r].decision = "APPROVED"
    THEN {c \in Stored \ {req[r].target} : budget[c].status = "APPROVED"}
    ELSE {}

(* FAULT: nothing is archived.                                             *)
NothingArchivable(r) == {}

Archivable(r) ==
    IF req[r].decision = "APPROVED"
    THEN ApprovedElsewhere(readTerm[r], req[r].target)
    ELSE {}

ScanApproved(r) ==
    /\ pc[r] = "reviewing"
    /\ seenApproved' = [seenApproved EXCEPT ![r] = Archivable(r)]
    /\ GoTo(r, "found")
    /\ UNCHANGED <<budget, req, readTerm, seenItems, overlap>>

(* A row that changed while updateMany waited for it is looked at again.   *)
CommitReview(r) ==
    /\ pc[r] = "found"
    /\ LET archived == seenApproved[r] \cap Archivable(r)
       IN  budget' = [b \in Budget |->
                         IF b = req[r].target THEN [budget[b] EXCEPT !.status = req[r].decision]
                         ELSE IF b \in archived THEN [budget[b] EXCEPT !.status = "ARCHIVED"]
                         ELSE budget[b]]
    /\ GoTo(r, "reviewed")
    /\ readTerm' = [readTerm EXCEPT ![r] = None]
    /\ seenApproved' = [seenApproved EXCEPT ![r] = {}]
    /\ UNCHANGED <<req, seenItems, overlap>>

(* The handler dies, or the database gives up on a deadlock or a time      *)
(* limit; what is not committed is rolled back.                            *)
Fail(r) ==
    /\ pc[r] \in Open
    /\ GoTo(r, "failed")
    /\ readTerm' = [readTerm EXCEPT ![r] = None]
    /\ seenItems' = [seenItems EXCEPT ![r] = {}]
    /\ seenApproved' = [seenApproved EXCEPT ![r] = {}]
    /\ UNCHANGED <<budget, req, overlap>>

RequestStep(r) ==
    \/ \E dto \in SaveDto : ReadForSave(r, dto)
    \/ ScanItems(r)
    \/ \E b \in Budget : CommitSave(r, b)
    \/ \E dto \in ReviewDto : ReadForReview(r, dto)
    \/ ScanApproved(r)
    \/ CommitReview(r)
    \/ Fail(r)

Next == \E r \in Request : RequestStep(r)

Spec == Init /\ [][Next]_vars

-----------------------------------------------------------------------------
(*                              Properties                                 *)

OfWholeSaves(items) ==
    \A r \in Request :
        LET written == {x \in items : x.by = r}
        IN  written = {} \/ written = NewItems(r)

(* However saves overlap, the items a save wrote to a budget are all there *)
(* or all gone: an overlapping save may leave its items beside those of    *)
(* another, but never a part of either.                                    *)
SavesAtomic == \A b \in Stored : OfWholeSaves(budget[b].items)

(* saveBudget deletes the items of a budget before it writes the new ones: *)
(* until requests overlap, no allocation of an earlier save survives.      *)
ItemsOfOneSave ==
    ~overlap => \A b \in Stored : \A x, y \in budget[b].items : x.by = y.by

(* "Approval archives the previous approved budget for the same term."     *)
(* docs/expenses-and-budgets.md:19: a term has one approved budget.        *)
OneApprovedPerTerm ==
    \A b, c \in Stored :
        /\ budget[b].status = "APPROVED" /\ budget[c].status = "APPROVED"
        /\ budget[b].term = budget[c].term
        => b = c

(* The same, until requests overlap.                                       *)
SerialOneApproved == ~overlap => OneApprovedPerTerm

(* What archived a budget is the approval of another of its term: a term   *)
(* never loses its approved budget without getting one, until requests     *)
(* overlap.                                                                *)
ArchivedHasSuccessor ==
    \A b \in Stored :
        ~overlap /\ budget[b].status = "ARCHIVED" =>
            \E c \in Stored : budget[c].status = "APPROVED" /\ budget[c].term = budget[b].term

(* "Draft and pending budgets can be edited; approved and archived budgets *)
(* are immutable." docs/expenses-and-budgets.md:17: all that ever happens  *)
(* to one, until requests overlap, is that an approved budget is archived. *)
ApprovedImmutable ==
    [][\A b \in Stored :
          ~overlap /\ budget[b].status \in {"APPROVED", "ARCHIVED"} =>
              budget'[b] \in {budget[b], [budget[b] EXCEPT !.status = "ARCHIVED"]}]_vars

-----------------------------------------------------------------------------
(*                         The inductive invariant                         *)

Saving(r) == pc[r] \in {"saving", "scanned"}
Reviewing(r) == pc[r] \in {"reviewing", "found"}

(* What a handler under way has checked that no other can take back.       *)
StageInv ==
    \A r \in Request :
        /\ Saving(r) =>
              /\ req[r] \in SaveDto
              /\ req[r].status \in Editable /\ req[r].term # None
              /\ req[r].target # None => req[r].target \in Stored
        /\ Reviewing(r) =>
              /\ req[r] \in ReviewDto
              /\ req[r].decision \in Decision /\ req[r].target \in Stored

(* Items are written by saves that committed; and what a save found was    *)
(* written as a whole, so that what it leaves is a whole too.              *)
WriterInv ==
    /\ \A b \in Stored : \A x \in budget[b].items : x.by # None => pc[x.by] = "saved"
    /\ \A r \in Request : \A x \in seenItems[r] : x.by # None => pc[x.by] = "saved"
    /\ \A r \in Request : OfWholeSaves(seenItems[r])

(* Inductive by itself, however requests overlap.                          *)
OverlapInv == TypeOK /\ StageInv /\ WriterInv /\ SavesAtomic

(* One request in flight at a time: all it has read is still so.           *)
FreshInv ==
    /\ \A q, r \in Request : pc[q] \in Open /\ pc[r] \in Open => q = r
    /\ \A r \in Request :
          /\ Saving(r) /\ req[r].target # None => budget[req[r].target].status \in Editable
          /\ pc[r] = "scanned" => seenItems[r] = ItemsToDelete(req[r])
          /\ Reviewing(r) => /\ budget[req[r].target].status = "PENDING"
                             /\ budget[req[r].target].term = readTerm[r]
          /\ pc[r] = "found" => seenApproved[r] = Archivable(r)

SerialInv == FreshInv /\ ItemsOfOneSave /\ OneApprovedPerTerm /\ ArchivedHasSuccessor

IInv == OverlapInv /\ (~overlap => SerialInv)
=============================================================================
