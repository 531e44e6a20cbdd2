----------------------------- MODULE RoleGrants -----------------------------
(***************************************************************************)
(* RolesService.create and update behind the two guards, with the tables   *)
(* of role-permissions.ts that turn the levels of modules into grants and  *)
(* back.  One process per HTTP request.  An update checks what it has read *)
(* and then replaces the grants in a READ COMMITTED transaction: its       *)
(* deleteMany removes the rows its scan finds, and the primary key of      *)
(* role_permissions refuses a second grant of a permission.  A created     *)
(* role is named by the request that inserted it, a seeded one by its name.*)
(*                                                                         *)
(*   pc[r]:  idle -> admitted -> checked -> saved or collided    (create)  *)
(*           idle -> admitted -> read -> checked -> scanned -> saved or    *)
(*           collided                                            (update)  *)
(***************************************************************************)
EXTENDS Integers, Sequences, FiniteSets

CONSTANTS
    Request,
    Name,
    Member,             \* staff; nothing in the API changes who has which role
    RolesOf,            \* Member -> roles
    Body,               \* ids, names and matrices of POST and PATCH /roles
    None

RoleLevel == {"NONE", "VIEW", "MANAGE", "APPROVE"}
rank == [NONE |-> 0, VIEW |-> 1, MANAGE |-> 2, APPROVE |-> 3]

Define(module, code, minimum) == [module |-> module, code |-> code, minimum |-> minimum]
permissionDefinitions ==
    {Define("Dashboard", "dashboard.view", "VIEW"),
     Define("Students", "students.view", "VIEW"), Define("Students", "students.manage", "MANAGE"),
     Define("Fees", "fees.view", "VIEW"), Define("Fees", "fees.manage", "MANAGE"),
     Define("Fees", "invoices.generate", "MANAGE"),
     Define("Payments", "payments.view", "VIEW"), Define("Payments", "payments.record", "MANAGE"),
     Define("Payments", "payments.reverse", "APPROVE"),
     Define("Expenses", "expenses.view", "VIEW"), Define("Expenses", "expenses.create", "MANAGE"),
     Define("Expenses", "expenses.approve", "APPROVE"),
     Define("Budgets", "budgets.view", "VIEW"), Define("Budgets", "budgets.manage", "MANAGE"),
     Define("Budgets", "budgets.approve", "APPROVE"),
     Define("Reports", "reports.view", "VIEW"), Define("Reports", "reports.export", "MANAGE"),
     Define("Audit", "audit.view", "VIEW"),
     Define("Team", "team.manage", "MANAGE")}

roleModules == {d.module : d \in permissionDefinitions}
Matrix == [roleModules -> RoleLevel]

(* The permissions of the seed: the matrix can grant all but one.          *)
permissionCodes == {d.code : d \in permissionDefinitions} \cup {"settings.manage"}

(* A grant remembers the request that wrote it.                            *)
Grant == [code : permissionCodes, level : RoleLevel, by : Request \cup {None}]
At(level, codes, by) == {[code |-> c, level |-> level, by |-> by] : c \in codes}
Codes(grants) == {g.code : g \in grants}

(* Every code whose minimum the level of its module reaches, at that level. *)
permissionCodesFor(matrix, by) ==
    {[code |-> d.code, level |-> matrix[d.module], by |-> by] :
        d \in {e \in permissionDefinitions : rank[matrix[e.module]] >= rank[e.minimum]}}

(* FAULT: the level is that of the definitions, not of the grants.         *)
modulesFromMinimum(grants) ==
    [module \in roleModules |->
        LET held == {d \in permissionDefinitions : d.module = module /\ d.code \in Codes(grants)}
            levels == {d.minimum : d \in held} \cup {"NONE"}
        IN  CHOOSE top \in levels : \A l \in levels : rank[l] <= rank[top]]

(* The highest level among the grants of a module's codes.                 *)
modulesFromGrants(grants) ==
    [module \in roleModules |->
        LET codes == {d.code : d \in {e \in permissionDefinitions : e.module = module}}
            levels == {g.level : g \in {h \in grants : h.code \in codes}} \cup {"NONE"}
        IN  CHOOSE top \in levels : \A l \in levels : rank[l] <= rank[top]]

(* The roles of the seed, each at one level for all its codes.             *)
roleDefinitions ==
    [Administrator |-> At("APPROVE", permissionCodes, None),
     Accountant |-> At("MANAGE", permissionCodes \
        {"expenses.approve", "budgets.approve", "team.manage", "settings.manage"}, None),
     Principal |-> At("APPROVE",
        {"dashboard.view", "students.view", "fees.view", "payments.view", "expenses.view",
         "expenses.approve", "budgets.view", "budgets.approve", "reports.view", "audit.view"},
        None)]
Seeded == DOMAIN roleDefinitions
RoleId == Seeded \cup Request

Create == [kind : {"create"}, name : Name, matrix : Matrix]
Update == [kind : {"update"}, role : RoleId, name : Name, matrix : Matrix]

ASSUME NameAssumption == Seeded \subseteq Name /\ Seeded \cap Request = {}
ASSUME MemberAssumption == RolesOf \in [Member -> SUBSET Seeded]
ASSUME BodyAssumption == Body \subseteq Create \cup Update
ASSUME NoneAssumption == None \notin Request /\ None \notin [name : Name, grants : SUBSET Grant]

VARIABLES
    role,           \* RoleId -> its name and grants, or None while not inserted
    req,            \* the body request r arrived with, its id and its member
    pc,             \* where the handler of r is, or how it ended
    before,         \* the matrix that the update of r has read
    scan,           \* the grants its deleteMany has found
    audit,          \* RoleId -> the matrices before and after each update
    overlap         \* two updates of one role have been under way at once

vars == <<role, req, pc, before, scan, audit, overlap>>

Existing == {i \in RoleId : role[i] # None}
NameTaken(name, id) == \E i \in Existing \ {id} : role[i].name = name
Updating(id) ==
    {r \in Request : pc[r] \in {"read", "checked", "scanned"} /\ req[r].kind = "update" /\ req[r].role = id}

Init ==
    /\ role = [i \in RoleId |->
                  IF i \in Seeded THEN [name |-> i, grants |-> roleDefinitions[i]] ELSE None]
    /\ req = [r \in Request |-> None]
    /\ pc = [r \in Request |-> "idle"]
    /\ before = [r \in Request |-> None]
    /\ scan = [r \in Request |-> {}]
    /\ audit = [i \in RoleId |-> <<>>]
    /\ overlap = FALSE

Goto(r, stage) == pc' = [pc EXCEPT ![r] = stage]

(* AuthenticationGuard collects the grants of the member's roles, and      *)
(* PermissionsGuard wants team.manage among them.                          *)
Permits(member, code) ==
    \E i \in RolesOf[member] : \E g \in role[i].grants : g.code = code /\ g.level # "NONE"

Arrive(r, member, body) ==
    /\ pc[r] = "idle"
    /\ req' = [req EXCEPT ![r] = body]
    /\ Goto(r, IF Permits(member, "team.manage") THEN "admitted" ELSE "refused")
    /\ UNCHANGED <<role, before, scan, audit, overlap>>

Refuse(r) == Goto(r, "refused") /\ UNCHANGED <<role, req, before, scan, audit, overlap>>

(* Every code of the matrix must be in the catalogue the seed has written, *)
(* which nothing changes: that it is read after the name is no matter.     *)
Resolvable(matrix) == Codes(permissionCodesFor(matrix, None)) \subseteq permissionCodes

CheckCreate(r) ==
    /\ pc[r] = "admitted" /\ req[r].kind = "create"
    /\ IF NameTaken(req[r].name, None) \/ ~Resolvable(req[r].matrix)
       THEN Refuse(r)
       ELSE Goto(r, "checked") /\ UNCHANGED <<role, req, before, scan, audit, overlap>>

(* The role with its grants.  A role of the seed keeps its name.           *)
ReadRole(r) ==
    LET id == req[r].role
    IN  /\ pc[r] = "admitted" /\ req[r].kind = "update"
        /\ IF id \notin Existing \/ (id \in Seeded /\ req[r].name # role[id].name)
           THEN Refuse(r)
           ELSE /\ before' = [before EXCEPT ![r] = modulesFromGrants(role[id].grants)]
                /\ Goto(r, "read")
                /\ overlap' = (overlap \/ Updating(id) # {})
                /\ UNCHANGED <<role, req, scan, audit>>

CheckUpdate(r) ==
    /\ pc[r] = "read"
    /\ IF NameTaken(req[r].name, req[r].role) \/ ~Resolvable(req[r].matrix)
       THEN Refuse(r)
       ELSE Goto(r, "checked") /\ UNCHANGED <<role, req, before, scan, audit, overlap>>

CommitCreate(r) ==
    /\ pc[r] = "checked" /\ req[r].kind = "create"
    /\ IF NameTaken(req[r].name, r)
       THEN Goto(r, "collided") /\ role' = role
       ELSE /\ role' = [role EXCEPT ![r] =
                [name |-> req[r].name, grants |-> permissionCodesFor(req[r].matrix, r)]]
            /\ Goto(r, "saved")
    /\ UNCHANGED <<req, before, scan, audit, overlap>>

DeleteGrants(r) ==
    /\ pc[r] = "checked" /\ req[r].kind = "update"
    /\ scan' = [scan EXCEPT ![r] = role[req[r].role].grants]
    /\ Goto(r, "scanned")
    /\ UNCHANGED <<role, req, before, audit, overlap>>

(* FAULT: grants are added to the role and none removed.                   *)
CommitUpdateUpsert(r) ==
    LET id == req[r].role
        grants == permissionCodesFor(req[r].matrix, r)
        left == {g \in role[id].grants : g.code \notin Codes(grants)}
    IN  /\ pc[r] = "scanned"
        /\ role' = [role EXCEPT ![id] = [name |-> req[r].name, grants |-> left \cup grants]]
        /\ audit' = [audit EXCEPT ![id] = Append(@, [before |-> before[r], after |-> req[r].matrix])]
        /\ Goto(r, "saved")
        /\ UNCHANGED <<req, before, scan, overlap>>

(* FAULT: the previous matrix of the entry is read after the deletion.     *)
CommitUpdateBlank(r) ==
    LET id == req[r].role
        grants == permissionCodesFor(req[r].matrix, r)
    IN  /\ pc[r] = "scanned"
        /\ role' = [role EXCEPT ![id] = [name |-> req[r].name, grants |-> grants]]
        /\ audit' = [audit EXCEPT ![id] =
            Append(@, [before |-> modulesFromGrants({}), after |-> req[r].matrix])]
        /\ Goto(r, "saved")
        /\ UNCHANGED <<req, before, scan, overlap>>

(* What another update has inserted since the scan stays, and refuses a    *)
(* grant of the same permission: P2002, of which nothing remains.          *)
CommitUpdate(r) ==
    LET id == req[r].role
        left == role[id].grants \ scan[r]
        grants == permissionCodesFor(req[r].matrix, r)
    IN  /\ pc[r] = "scanned"
        /\ IF NameTaken(req[r].name, id) \/ Codes(left) \cap Codes(grants) # {}
           THEN Goto(r, "collided") /\ UNCHANGED <<role, audit>>
           ELSE /\ role' = [role EXCEPT ![id] = [name |-> req[r].name, grants |-> left \cup grants]]
                /\ audit' = [audit EXCEPT ![id] =
                    Append(@, [before |-> before[r], after |-> req[r].matrix])]
                /\ Goto(r, "saved")
        /\ UNCHANGED <<req, before, scan, overlap>>

Handle(r) ==
    \/ CheckCreate(r) \/ CommitCreate(r)
    \/ ReadRole(r) \/ CheckUpdate(r) \/ DeleteGrants(r) \/ CommitUpdate(r)

Next ==
    \E r \in Request :
        \/ \E member \in Member, body \in Body : Arrive(r, member, body)
        \/ Handle(r)

Spec == Init /\ [][Next]_vars

-----------------------------------------------------------------------------
(* "atomically replaces its grants", docs/roles-and-permissions.md:9: the  *)
(* grants of a role are those of one save, unless two updates overlapped,  *)
(* of which the later may leave its own beside the earlier's.              *)
GrantsOfOneSave ==
    ~overlap => \A i \in Existing : \A g, h \in role[i].grants : g.by = h.by

(* A role that is saved as it is presented keeps its grants: reading the   *)
(* matrix back from the grants loses nothing, once a save has written      *)
(* them.  The seed's own grants are no such fixed point.                   *)
PresentedAsSaved ==
    ~overlap => \A i \in Existing : \A r \in Request :
        (\E g \in role[i].grants : g.by = r) =>
            permissionCodesFor(modulesFromGrants(role[i].grants), r) = role[i].grants

(* "The previous and new permission matrices [...] are written to the      *)
(* audit log", docs/roles-and-permissions.md:20: the entries of a role     *)
(* form a chain that ends in its grants, up to levels that grant nothing,  *)
(* unless two updates overlapped, the later of which has read a matrix     *)
(* that was gone when it wrote.                                            *)
Granted(matrix) == modulesFromGrants(permissionCodesFor(matrix, None))
AuditChains ==
    ~overlap => \A i \in Existing :
        LET entries == audit[i]
        IN  /\ \A n \in 1 .. Len(entries) - 1 : entries[n + 1].before = Granted(entries[n].after)
            /\ entries # <<>> =>
                modulesFromGrants(role[i].grants) = Granted(entries[Len(entries)].after)

(* "Full system administration", packages/database/prisma/seed.ts:16: the  *)
(* Administrator with every module at Approve holds every permission.      *)
AdministratorHoldsAll ==
    (\A module \in roleModules : modulesFromGrants(role["Administrator"].grants)[module] = "APPROVE")
        => Codes(role["Administrator"].grants) = permissionCodes

-----------------------------------------------------------------------------
Row == [name : Name, grants : SUBSET Grant]
Entry == [before : Matrix, after : Matrix]
Stage == {"idle", "admitted", "read", "checked", "scanned", "saved", "collided", "refused"}

TypeOK ==
    /\ role \in [RoleId -> Row \cup {None}]
    /\ req \in [Request -> Body \cup {None}]
    /\ pc \in [Request -> Stage]
    /\ before \in [Request -> Matrix \cup {None}]
    /\ scan \in [Request -> SUBSET Grant]
    /\ audit \in [RoleId -> Seq(Entry)]
    /\ overlap \in BOOLEAN

StageInv ==
    /\ \A r \in Request : pc[r] # "idle" => req[r] \in Body
    /\ \A r \in Request : pc[r] \in {"read", "scanned"} => req[r].kind = "update"
    /\ \A r \in Request : pc[r] \in {"read", "checked", "scanned"} /\ req[r].kind = "update" =>
            req[r].role \in Existing /\ before[r] \in Matrix
    /\ \A r \in Existing \cap Request : pc[r] = "saved"
    /\ \A i \in RoleId \ Existing : audit[i] = <<>>

(* An update that is alone sees the role as it will replace it.            *)
AloneInv ==
    ~overlap =>
        /\ \A id \in RoleId : \A r, q \in Updating(id) : r = q
        /\ \A id \in RoleId : \A r \in Updating(id) :
                /\ before[r] = modulesFromGrants(role[id].grants)
                /\ pc[r] = "scanned" => scan[r] = role[id].grants

IInv == TypeOK /\ StageInv /\ AloneInv /\ GrantsOfOneSave /\ PresentedAsSaved /\ AuditChains
=============================================================================
