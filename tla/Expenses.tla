------------------------------ MODULE Expenses ------------------------------
(***************************************************************************)
(* ExpenditureService.createExpense and reviewExpense, one process per     *)
(* HTTP request.  A new expense is numbered with the year and one more     *)
(* than the number of expenses there are, both read awaits before the      *)
(* transaction that inserts it; the unique index on the number decides.    *)
(* A review checks the status before its READ COMMITTED transaction writes *)
(* it by id.  An expense is named by the request that inserted it.         *)
(*                                                                         *)
(*   pc[r]:  new -> dated -> numbered -> created or collided               *)
(*           new -> reviewing -> reviewed                                  *)
(***************************************************************************)
EXTENDS Integers, FiniteSets

CONSTANTS
    Request,        \* HTTP requests to the expenses controller
    Vendor,         \* vendor and category names
    CreateDto,      \* bodies of POST /expenses
    ReviewDto,      \* ids and bodies of POST /expenses/:id/review
    LastYear,       \* bound: the years of a behaviour are 0 .. LastYear
    None

Decision == {"APPROVED", "REJECTED"}

CreateRequest == [kind : {"create"}, vendor : Vendor]
ReviewRequest == [kind : {"review"}, target : Request, decision : Decision \cup {"DRAFT"}]

ExpenseRow ==
    [number : Nat \X Nat, vendor : Vendor, status : Decision \cup {"PENDING"},
     approvals : SUBSET [by : Request, decision : Decision]]

ASSUME DtoAssumption == CreateDto \subseteq CreateRequest /\ ReviewDto \subseteq ReviewRequest
ASSUME BoundAssumption == LastYear \in Nat
ASSUME NoneAssumption == None \notin ExpenseRow

VARIABLES
    expense,        \* Request -> ExpenseRow, or None while not inserted
    vendors,        \* vendors and categories of the school
    hasTerm,        \* there is an active term
    year,           \* of the API's clock
    req,            \* the body request r arrived with
    pc,             \* where the handler of r is, or how it ended
    number,         \* what the handler of r will number its expense with
    overlap         \* two reviews have been between read and commit at once

vars == <<expense, vendors, hasTerm, year, req, pc, number, overlap>>

Stage ==
    {"new", "dated", "numbered", "reviewing",
     "created", "reviewed", "refused", "collided", "failed"}

Recorded == {p \in Request : expense[p] # None}

(* Besides the types: the vendor of an expense is one of the school's.     *)
TypeOK ==
    /\ expense \in [Request -> ExpenseRow \cup {None}]
    /\ vendors \subseteq Vendor
    /\ \A p \in Recorded : expense[p].vendor \in vendors
    /\ hasTerm \in BOOLEAN
    /\ year \in 0 .. LastYear
    /\ req \in [Request -> CreateDto \cup ReviewDto \cup {None}]
    /\ pc \in [Request -> Stage]
    /\ number \in [Request -> Nat \X Nat]
    /\ overlap \in BOOLEAN

Init ==
    /\ expense = [p \in Request |-> None]
    /\ vendors = {}
    /\ hasTerm = FALSE
    /\ year = 0
    /\ req = [r \in Request |-> None]
    /\ pc = [r \in Request |-> "new"]
    /\ number = [r \in Request |-> <<0, 0>>]
    /\ overlap = FALSE

-----------------------------------------------------------------------------

expenseVars == <<expense, vendors, hasTerm, year>>

GoTo(r, stage) == pc' = [pc EXCEPT ![r] = stage]

NewYear ==
    /\ year < LastYear
    /\ year' = year + 1
    /\ UNCHANGED <<expense, vendors, hasTerm, req, pc, number, overlap>>

(* AcademicsService.createTerm with an ACTIVE term.                        *)
OpenTerm ==
    /\ ~hasTerm
    /\ hasTerm' = TRUE
    /\ UNCHANGED <<expense, vendors, year, req, pc, number, overlap>>

(* createVendor and createCategory.                                        *)
AddVendor(v) ==
    /\ vendors' = vendors \cup {v}
    /\ UNCHANGED <<expense, hasTerm, year, req, pc, number, overlap>>

(* createExpense: the active term is read first; the year when that read   *)
(* has returned.                                                           *)
FindTerm(r, dto) ==
    /\ pc[r] = "new"
    /\ req' = [req EXCEPT ![r] = dto]
    /\ GoTo(r, IF hasTerm THEN "dated" ELSE "refused")
    /\ number' = [number EXCEPT ![r] = <<year, 0>>]
    /\ UNCHANGED <<expenseVars, overlap>>

(* FAULT: rejected expenses are not counted.                               *)
CountStanding == Cardinality({p \in Recorded : expense[p].status # "REJECTED"})

Count == Cardinality(Recorded)

CountExpenses(r) ==
    /\ pc[r] = "dated"
    /\ number' = [number EXCEPT ![r] = <<@[1], Count + 1>>]
    /\ GoTo(r, "numbered")
    /\ UNCHANGED <<expenseVars, req, overlap>>

NumberTaken(r) == \E p \in Recorded : expense[p].number = number[r]

Requested(r) ==
    [number |-> number[r], vendor |-> req[r].vendor, status |-> "PENDING", approvals |-> {}]

Insert(r) ==
    /\ expense' = [expense EXCEPT ![r] = Requested(r)]
    /\ vendors' = vendors \cup {req[r].vendor}

(* The transaction: vendor and category are created where missing, the     *)
(* expense is inserted; or all is rolled back and the client gets a 409.   *)
CommitExpense(r) ==
    /\ pc[r] = "numbered"
    /\ \/ NumberTaken(r) /\ GoTo(r, "collided") /\ UNCHANGED <<expense, vendors>>
       \/ ~NumberTaken(r) /\ GoTo(r, "created") /\ Insert(r)
    /\ UNCHANGED <<hasTerm, year, req, number, overlap>>

-----------------------------------------------------------------------------

(* FAULT: a decided expense may be decided again.                          *)
ReviewableAgain(dto) == dto.decision \in Decision /\ dto.target \in Recorded

Reviewable(dto) ==
    /\ dto.decision \in Decision
    /\ dto.target \in Recorded
    /\ expense[dto.target].status = "PENDING"

ReadExpense(r, dto) ==
    /\ pc[r] = "new"
    /\ req' = [req EXCEPT ![r] = dto]
    /\ GoTo(r, IF Reviewable(dto) THEN "reviewing" ELSE "refused")
    /\ overlap' = (overlap \/ (Reviewable(dto) /\ \E q \in Request : pc[q] = "reviewing"))
    /\ UNCHANGED <<expenseVars, number>>

Reviewed(row, r) ==
    [row EXCEPT !.status = req[r].decision,
                !.approvals = @ \cup {[by |-> r, decision |-> req[r].decision]}]

CommitReview(r) ==
    /\ pc[r] = "reviewing"
    /\ expense' = [expense EXCEPT ![req[r].target] = Reviewed(@, r)]
    /\ GoTo(r, "reviewed")
    /\ UNCHANGED <<vendors, hasTerm, year, req, number, overlap>>

(* The handler dies, or a query fails, before its transaction commits.     *)
Fail(r) ==
    /\ pc[r] \in {"dated", "numbered", "reviewing"}
    /\ GoTo(r, "failed")
    /\ UNCHANGED <<expenseVars, req, number, overlap>>

RequestStep(r) ==
    \/ \E dto \in CreateDto : FindTerm(r, dto)
    \/ CountExpenses(r)
    \/ CommitExpense(r)
    \/ \E dto \in ReviewDto : ReadExpense(r, dto)
    \/ CommitReview(r)
    \/ Fail(r)

Next ==
    \/ NewYear
    \/ OpenTerm
    \/ \E v \in Vendor : AddVendor(v)
    \/ \E r \in Request : RequestStep(r)

Spec == Init /\ [][Next]_vars

-----------------------------------------------------------------------------
(*                              Properties                                 *)

(* Numbers are unique, and the number createExpense would read next is     *)
(* free: whoever is told to retry after a collision                        *)
(* (expenditure.service.ts:18) collides again only with another request.   *)
Numbering ==
    /\ \A p, q \in Recorded : expense[p].number = expense[q].number => p = q
    /\ \A p \in Recorded : expense[p].number # <<year, Count + 1>>

(* However reviews overlap, the status of an expense is one that a         *)
(* recorded approval decided, and PENDING while there is none.             *)
StatusBacked ==
    \A p \in Recorded :
        IF expense[p].approvals = {}
        THEN expense[p].status = "PENDING"
        ELSE \E a \in expense[p].approvals : a.decision = expense[p].status

(* "Decisions retain the approver" (docs/expenses-and-budgets.md:12): no   *)
(* approval is ever lost, and the number of an expense never changes.      *)
DecisionsRetained ==
    [][\A p \in Recorded :
          /\ expense[p].approvals \subseteq expense'[p].approvals
          /\ expense[p].number = expense'[p].number]_vars

(* "Only pending requests can be approved or rejected."                    *)
(* docs/expenses-and-budgets.md:11: no expense is decided twice.           *)
DecidedOnce ==
    \A p \in Recorded : \A a, b \in expense[p].approvals : a = b

(* The same, until two reviews overlap.                                    *)
SerialDecidedOnce == ~overlap => DecidedOnce

-----------------------------------------------------------------------------
(*                         The inductive invariant                         *)

(* An expense is inserted by the last step of its request, and a review    *)
(* under way has read an expense that is there.                            *)
StageInv ==
    /\ \A r \in Recorded : pc[r] = "created"
    /\ \A r \in Request : pc[r] \in {"dated", "numbered"} => req[r] \in CreateDto
    /\ \A r \in Request :
          pc[r] = "reviewing" =>
              /\ req[r] \in ReviewDto
              /\ req[r].decision \in Decision
              /\ req[r].target \in Recorded

(* A count read awaits ago is at most the count of now: no number goes     *)
(* beyond it, in the table or on its way there.                            *)
CountInv ==
    /\ IsFiniteSet(Recorded)
    /\ \A p \in Recorded : expense[p].number[2] <= Count
    /\ \A r \in Request : pc[r] \in {"dated", "numbered"} => number[r][2] <= Count + 1

(* Inductive by itself, however reviews overlap: a number is taken from a  *)
(* count that only grows (createExpense, expenditure.service.ts:18).       *)
OverlapInv == TypeOK /\ StageInv /\ CountInv /\ Numbering /\ StatusBacked

(* A review under way alone finds the expense as it read it.               *)
FreshInv ==
    /\ \A q, r \in Request : pc[q] = "reviewing" /\ pc[r] = "reviewing" => q = r
    /\ \A r \in Request : pc[r] = "reviewing" => expense[req[r].target].status = "PENDING"

IInv == OverlapInv /\ (~overlap => FreshInv /\ DecidedOnce)
=============================================================================
