----------------------------- MODULE FeeBatches -----------------------------
(***************************************************************************)
(* FeesService.createStructure, updateStructure and generateBatch, over    *)
(* the register of Academics that changes beside them.  One process per    *)
(* HTTP request, with a step for each await whose answer another request   *)
(* can outdate; a structure and a batch are named by the request that      *)
(* inserted them, and the fee items of a save by the request that wrote    *)
(* them.                                                                   *)
(*                                                                         *)
(*   pc[r]:  idle -> saved                                        (create) *)
(*           idle -> checked -> scanned -> saved                  (update) *)
(*           idle -> looked -> found -> itemized -> read -> listed         *)
(*                -> billed                                     (generate) *)
(*   or refused, replayed, or collided with the unique index of the key.   *)
(*                                                                         *)
(* READ COMMITTED: the deleteMany of the items removes the rows its scan   *)
(* finds.  A later save waits on those rows for an earlier one, so its     *)
(* deleteMany of the assignments sees, and removes, the earlier's.         *)
(***************************************************************************)
EXTENDS Academics

CONSTANTS
    Request, Key,
    Saved               \* the statuses that saves of a structure carry

RecordStatus == {"DRAFT", "ACTIVE", "APPROVED", "REJECTED", "ARCHIVED", "VOIDED"}
FeeStructure ==
    [term : TermId, status : RecordStatus, classes : (SUBSET ClassName) \ {{}}, items : SUBSET Request]
InvoiceBatch ==
    [key : Key, of : Request, billed : SUBSET Admission, items : SUBSET Request]

ASSUME SavedAssumption == Saved \subseteq RecordStatus
ASSUME NoRowAssumption == None \notin FeeStructure /\ None \notin InvoiceBatch

VARIABLES
    structure,      \* Request -> FeeStructure, or None while not inserted
    batch,          \* Request -> its invoices, or None
    pc,             \* where the handler of r is, or how it ended
    target,         \* the structure of the path of r
    key,            \* idempotencyKey
    row,            \* the structure a generate of r has read
    pupils,         \* the students of the enrolments it has read
    scan,           \* the items that the deleteMany of r has found
    stale,          \* generates of which an answer they have read is out of date
    overlap         \* two updates of one structure have been under way at once

fees == <<structure, batch, pc, target, key, row, pupils, scan>>
vars == <<academics, fees, stale, overlap>>

Stage ==
    {"idle", "checked", "scanned", "looked", "found", "itemized", "read", "listed",
     "saved", "billed", "replayed", "refused", "collided"}
At(stages) == {r \in Request : pc[r] \in stages}
Structures == {s \in Request : structure[s] # None}
Batches == {b \in Request : batch[b] # None}

TypeOK ==
    /\ AcademicsTypeOK
    /\ structure \in [Request -> FeeStructure \cup {None}]
    /\ batch \in [Request -> InvoiceBatch \cup {None}]
    /\ pc \in [Request -> Stage]
    /\ target \in [Request -> Request \cup {None}]
    /\ key \in [Request -> Key \cup {None}]
    /\ row \in [Request -> FeeStructure \cup {None}]
    /\ pupils \in [Request -> SUBSET Admission]
    /\ scan \in [Request -> SUBSET Request]
    /\ stale \subseteq Request
    /\ overlap \in BOOLEAN

Init ==
    /\ AcademicsInit
    /\ structure = [s \in Request |-> None]
    /\ batch = [b \in Request |-> None]
    /\ pc = [r \in Request |-> "idle"]
    /\ target = [r \in Request |-> None]
    /\ key = [r \in Request |-> None]
    /\ row = [r \in Request |-> None]
    /\ pupils = [r \in Request |-> {}]
    /\ scan = [r \in Request |-> {}]
    /\ stale = {}
    /\ overlap = FALSE

Goto(r, stage) == pc' = [pc EXCEPT ![r] = stage]

-----------------------------------------------------------------------------
(* validateAcademicLinks.                                                  *)
Linked(t, classes) == t \in term /\ classes \subseteq class

CreateStructure(r, t, status, classes) ==
    /\ pc[r] = "idle" /\ Linked(t, classes)
    /\ structure' = [structure EXCEPT ![r] =
            [term |-> t, status |-> status, classes |-> classes, items |-> {r}]]
    /\ Goto(r, "saved")
    /\ UNCHANGED <<batch, target, key, row, pupils, scan>>

(* FAULT: an archived structure is not told from another.                  *)
UpdateReadAny(r, s) ==
    /\ pc[r] = "idle" /\ s \in Structures
    /\ target' = [target EXCEPT ![r] = s]
    /\ Goto(r, "checked")
    /\ UNCHANGED <<structure, batch, key, row, pupils, scan>>

UpdateRead(r, s) ==
    /\ pc[r] = "idle" /\ s \in Structures
    /\ target' = [target EXCEPT ![r] = s]
    /\ Goto(r, IF structure[s].status = "ARCHIVED" THEN "refused" ELSE "checked")
    /\ UNCHANGED <<structure, batch, key, row, pupils, scan>>

UpdateScan(r) ==
    /\ pc[r] = "checked"
    /\ scan' = [scan EXCEPT ![r] = structure[target[r]].items]
    /\ Goto(r, "scanned")
    /\ UNCHANGED <<structure, batch, target, key, row, pupils>>

(* FAULT: the items of the structure are added to.                         *)
UpdateCommitBeside(r, t, status, classes) ==
    /\ pc[r] = "scanned" /\ Linked(t, classes)
    /\ structure' = [structure EXCEPT ![target[r]] =
            [term |-> t, status |-> status, classes |-> classes, items |-> @.items \cup {r}]]
    /\ Goto(r, "saved")
    /\ UNCHANGED <<batch, target, key, row, pupils, scan>>

(* Items that another save has inserted since the scan stay beside its own. *)
UpdateCommit(r, t, status, classes) ==
    /\ pc[r] = "scanned" /\ Linked(t, classes)
    /\ structure' = [structure EXCEPT ![target[r]] =
            [term |-> t, status |-> status, classes |-> classes, items |-> (@.items \ scan[r]) \cup {r}]]
    /\ Goto(r, "saved")
    /\ UNCHANGED <<batch, target, key, row, pupils, scan>>

(* The key is the only thing a replay goes by.                             *)
LookUp(r, s, k) ==
    /\ pc[r] = "idle" /\ s \in Structures
    /\ target' = [target EXCEPT ![r] = s]
    /\ key' = [key EXCEPT ![r] = k]
    /\ Goto(r, IF \E b \in Batches : batch[b].key = k THEN "replayed" ELSE "looked")
    /\ UNCHANGED <<structure, batch, row, pupils, scan>>

(* An include is a query of its own after that of the row: the fee items   *)
(* and then the assignments are those there are by then.  The status is    *)
(* looked at when all have been answered.                                  *)
ReadStructure(r) ==
    /\ pc[r] = "looked"
    /\ row' = [row EXCEPT ![r] = structure[target[r]]]
    /\ Goto(r, "found")
    /\ UNCHANGED <<structure, batch, target, key, pupils, scan>>

ReadItems(r) ==
    /\ pc[r] = "found"
    /\ row' = [row EXCEPT ![r].items = structure[target[r]].items]
    /\ Goto(r, "itemized")
    /\ UNCHANGED <<structure, batch, target, key, pupils, scan>>

ReadAssignments(r) ==
    /\ pc[r] = "itemized"
    /\ row' = [row EXCEPT ![r].classes = structure[target[r]].classes]
    /\ Goto(r, IF row[r].status = "ACTIVE" THEN "read" ELSE "refused")
    /\ UNCHANGED <<structure, batch, target, key, pupils, scan>>

Due(fee) ==
    {a \in Admitted : student[a].status = "ACTIVE" /\ enrolment[a][fee.term] \in fee.classes}

(* FAULT: whoever is enrolled is billed, active or not.                    *)
ReadEnrolmentsAll(r) ==
    LET enrolled == {a \in Admitted : enrolment[a][row[r].term] \in row[r].classes}
    IN  /\ pc[r] = "read"
        /\ pupils' = [pupils EXCEPT ![r] = enrolled]
        /\ Goto(r, IF enrolled = {} THEN "refused" ELSE "listed")
        /\ UNCHANGED <<structure, batch, target, key, row, scan>>

ReadEnrolments(r) ==
    /\ pc[r] = "read"
    /\ pupils' = [pupils EXCEPT ![r] = Due(row[r])]
    /\ Goto(r, IF Due(row[r]) = {} THEN "refused" ELSE "listed")
    /\ UNCHANGED <<structure, batch, target, key, row, scan>>

(* FAULT: only the lookup minds the key.                                   *)
CommitBatchTwice(r) ==
    /\ pc[r] = "listed"
    /\ batch' = [batch EXCEPT ![r] =
            [key |-> key[r], of |-> target[r], billed |-> pupils[r], items |-> row[r].items]]
    /\ Goto(r, "billed")
    /\ UNCHANGED <<structure, target, key, row, pupils, scan>>

(* The unique index on the key fails the whole batch: P2002, which nothing *)
(* catches.                                                                *)
CommitBatch(r) ==
    /\ pc[r] = "listed"
    /\ IF \E b \in Batches : batch[b].key = key[r]
       THEN Goto(r, "collided") /\ UNCHANGED batch
       ELSE /\ batch' = [batch EXCEPT ![r] =
                [key |-> key[r], of |-> target[r], billed |-> pupils[r], items |-> row[r].items]]
            /\ Goto(r, "billed")
    /\ UNCHANGED <<structure, target, key, row, pupils, scan>>

Handle(r) ==
    \/ \E t \in TermId, status \in Saved, classes \in (SUBSET ClassName) \ {{}} :
            CreateStructure(r, t, status, classes) \/ UpdateCommit(r, t, status, classes)
    \/ \E s \in Request : UpdateRead(r, s) \/ (\E k \in Key : LookUp(r, s, k))
    \/ UpdateScan(r)
    \/ ReadStructure(r) \/ ReadItems(r) \/ ReadAssignments(r) \/ ReadEnrolments(r) \/ CommitBatch(r)

Step ==
    \/ AcademicsNext /\ UNCHANGED fees
    \/ \E r \in Request : Handle(r) /\ UNCHANGED academics

Updates(s) == {r \in At({"checked", "scanned"}) : target[r] = s}
Holding == {"found", "itemized", "read", "listed"}
Outdated ==
    {r \in At(Holding) : structure'[target[r]] # structure[target[r]]} \cup
    {r \in At({"listed"}) : Due(row[r])' # Due(row[r])}

Next ==
    /\ Step
    /\ stale' = stale \cup Outdated
    /\ overlap' = (overlap \/ \E s \in Request : \E q, r \in Updates(s)' : q # r)

Spec == Init /\ [][Next]_vars
-----------------------------------------------------------------------------
(* docs/fees-and-invoices.md:20: a key bills once, whichever of its        *)
(* requests overlap.                                                       *)
KeyBillsOnce == \A a, b \in Batches : batch[a].key = batch[b].key => a = b

(* docs/fees-and-invoices.md:18: a batch bills the active students who are *)
(* enrolled in a class of the structure in its term, all of them and once, *)
(* for its fee items, while it is active; unless the structure or the      *)
(* register was written between its reads and its transaction.             *)
BatchMatchesRegister ==
    [][\A r \in Batches' \ Batches :
        LET fee == structure[batch'[r].of]
        IN  r \notin stale =>
                /\ fee.status = "ACTIVE"
                /\ batch'[r].billed = Due(fee)
                /\ batch'[r].items = fee.items]_vars

(* A structure has the fee items of one save, unless two updates           *)
(* overlapped, of which the later may leave the earlier's beside its own   *)
(* and so charge both.                                                     *)
StructureOfOneSave ==
    ~overlap => \A s \in Structures : Cardinality(structure[s].items) = 1

(* docs/fees-and-invoices.md:11: an archived structure is immutable,       *)
(* unless an update has read it before.                                    *)
ArchivedFrozen ==
    [][\A s \in Structures :
        structure[s].status = "ARCHIVED" /\ ~overlap => structure'[s] = structure[s]]_vars
-----------------------------------------------------------------------------
(* What a handler under way has checked that no other can take back.       *)
StageInv ==
    /\ \A s \in Structures : pc[s] = "saved"
    /\ \A r \in At({"checked", "scanned", "looked"} \cup Holding) : target[r] \in Structures
    /\ \A r \in At({"looked"} \cup Holding) : key[r] \in Key
    /\ \A r \in At(Holding) : row[r] \in FeeStructure

(* A generate that is not stale goes by what the tables still say.         *)
FreshInv ==
    \A r \in Request \ stale :
        /\ pc[r] \in Holding => row[r] = structure[target[r]]
        /\ pc[r] \in {"read", "listed"} => row[r].status = "ACTIVE"
        /\ pc[r] = "listed" => pupils[r] = Due(row[r])

(* An update that is alone finds the structure as it read it.              *)
AloneInv ==
    /\ \A q, r \in At({"checked", "scanned"}) : target[q] = target[r] => q = r
    /\ \A r \in At({"checked", "scanned"}) : structure[target[r]].status # "ARCHIVED"
    /\ \A r \in At({"scanned"}) : scan[r] = structure[target[r]].items
    /\ \A s \in Structures : \E q \in Request : structure[s].items = {q}

IInv == TypeOK /\ StageInv /\ KeyBillsOnce /\ FreshInv /\ (~overlap => AloneInv)
=============================================================================
