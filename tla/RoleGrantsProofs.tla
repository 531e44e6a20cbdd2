-------------------------- MODULE RoleGrantsProofs --------------------------
(***************************************************************************)
(* Proofs about RoleGrants, for every set of requests, names, members and  *)
(* bodies.                                                                 *)
(***************************************************************************)
EXTENDS RoleGrants, TLAPS

(* The catalogue of role-permissions.ts: each code has a level that grants.*)
LEMMA Catalogue ==
    \A d \in permissionDefinitions :
        d.module \in roleModules /\ d.code \in permissionCodes /\ d.minimum \in RoleLevel
<1>1. \A d \in permissionDefinitions : d.minimum \in RoleLevel
  BY DEF permissionDefinitions, Define, RoleLevel
<1>. QED
  BY <1>1 DEF roleModules, permissionCodes

(* Saving a matrix writes grants, each by its request.                     *)
LEMMA SavedGrants ==
    ASSUME NEW matrix \in Matrix, NEW by \in Request \cup {None}
    PROVE  permissionCodesFor(matrix, by) \in SUBSET Grant
           /\ \A g \in permissionCodesFor(matrix, by) : g.by = by
<1>1. \A d \in permissionDefinitions :
        [code |-> d.code, level |-> matrix[d.module], by |-> by] \in Grant
  BY Catalogue DEF Matrix, Grant
<1>. QED
  BY <1>1 DEF permissionCodesFor

(* The highest of some levels is a level.                                  *)
LEMMA Highest ==
    ASSUME NEW levels \in SUBSET RoleLevel, levels # {}
    PROVE  (CHOOSE top \in levels : \A l \in levels : rank[l] <= rank[top]) \in RoleLevel
<1>1. \E top \in levels : \A l \in levels : rank[l] <= rank[top]
  <2>1. \A l \in levels : l \in {"NONE", "VIEW", "MANAGE", "APPROVE"}
    BY DEF RoleLevel
  <2>2. rank["NONE"] = 0 /\ rank["VIEW"] = 1 /\ rank["MANAGE"] = 2 /\ rank["APPROVE"] = 3
    BY DEF rank
  <2>3. CASE "APPROVE" \in levels
    BY <2>1, <2>2, <2>3
  <2>4. CASE "APPROVE" \notin levels /\ "MANAGE" \in levels
    BY <2>1, <2>2, <2>4
  <2>5. CASE "APPROVE" \notin levels /\ "MANAGE" \notin levels /\ "VIEW" \in levels
    BY <2>1, <2>2, <2>5
  <2>6. CASE levels = {"NONE"}
    BY <2>2, <2>6
  <2>. QED
    BY <2>1, <2>3, <2>4, <2>5, <2>6
<1>. QED
  BY <1>1

LEMMA PresentedMatrix == \A grants \in SUBSET Grant : modulesFromGrants(grants) \in Matrix
<1>. SUFFICES ASSUME NEW grants \in SUBSET Grant, NEW module \in roleModules
              PROVE  LET codes == {d.code : d \in {e \in permissionDefinitions : e.module = module}}
                         levels == {g.level : g \in {h \in grants : h.code \in codes}} \cup {"NONE"}
                     IN  (CHOOSE top \in levels : \A l \in levels : rank[l] <= rank[top]) \in RoleLevel
  BY DEF modulesFromGrants, Matrix
<1> DEFINE codes == {d.code : d \in {e \in permissionDefinitions : e.module = module}}
           levels == {g.level : g \in {h \in grants : h.code \in codes}} \cup {"NONE"}
<1>1. levels \in SUBSET RoleLevel /\ levels # {}
  <2>. HIDE DEF codes
  <2>1. \A g \in grants : g.level \in RoleLevel
    BY DEF Grant
  <2>. QED
    BY <2>1 DEF RoleLevel
<1>. QED
  BY <1>1, Highest

(* Who saved a matrix does not show in how it is presented.                *)
LEMMA PresentedAlike ==
    ASSUME NEW matrix \in Matrix, NEW by \in Request \cup {None}
    PROVE  modulesFromGrants(permissionCodesFor(matrix, by)) = Granted(matrix)
<1> DEFINE reached == {e \in permissionDefinitions : rank[matrix[e.module]] >= rank[e.minimum]}
           row(d, b) == [code |-> d.code, level |-> matrix[d.module], by |-> b]
           levels(codes, b) ==
              {g.level : g \in {h \in permissionCodesFor(matrix, b) : h.code \in codes}}
<1>1. ASSUME NEW codes, NEW b PROVE levels(codes, b) = {matrix[d.module] : d \in {e \in reached : e.code \in codes}}
  <2>1. permissionCodesFor(matrix, b) = {row(d, b) : d \in reached}
    BY DEF permissionCodesFor
  <2>2. \A d \in reached : row(d, b).code = d.code /\ row(d, b).level = matrix[d.module]
    OBVIOUS
  <2>. HIDE DEF reached, row
  <2>. QED
    BY <2>1, <2>2
<1>2. \A codes : levels(codes, by) = levels(codes, None)
  BY <1>1
<1> DEFINE highest(found) ==
              CHOOSE top \in found \cup {"NONE"} : \A l \in found \cup {"NONE"} : rank[l] <= rank[top]
           codesOf(module) == {d.code : d \in {e \in permissionDefinitions : e.module = module}}
<1>3. ASSUME NEW b
      PROVE  modulesFromGrants(permissionCodesFor(matrix, b)) =
                [module \in roleModules |-> highest(levels(codesOf(module), b))]
  BY DEF modulesFromGrants
<1>. HIDE DEF highest, levels, codesOf
<1>. QED
  BY <1>2, <1>3 DEF Granted

(* Each code belongs to one module, and no level below VIEW reaches it.    *)
LEMMA CodesApart ==
    /\ \A d, e \in permissionDefinitions : d.code = e.code => d.module = e.module
    /\ \A d \in permissionDefinitions : rank[d.minimum] > rank["NONE"]
<1> DEFINE owner(code) ==
              CASE code = "dashboard.view" -> "Dashboard"
                [] code \in {"students.view", "students.manage"} -> "Students"
                [] code \in {"fees.view", "fees.manage", "invoices.generate"} -> "Fees"
                [] code \in {"payments.view", "payments.record", "payments.reverse"} -> "Payments"
                [] code \in {"expenses.view", "expenses.create", "expenses.approve"} -> "Expenses"
                [] code \in {"budgets.view", "budgets.manage", "budgets.approve"} -> "Budgets"
                [] code \in {"reports.view", "reports.export"} -> "Reports"
                [] code = "audit.view" -> "Audit"
                [] code = "team.manage" -> "Team"
<1>1. \A d \in permissionDefinitions : d.module = owner(d.code)
  BY DEF permissionDefinitions, Define
<1>2. \A d \in permissionDefinitions : d.minimum \in {"VIEW", "MANAGE", "APPROVE"}
  BY DEF permissionDefinitions, Define
<1>3. /\ rank["NONE"] = 0 /\ rank["VIEW"] = 1 /\ rank["MANAGE"] = 2 /\ rank["APPROVE"] = 3
  BY DEF rank
<1>. HIDE DEF owner
<1>. QED
  BY <1>1, <1>2, <1>3

(* A matrix that is read back from what it has granted keeps the levels    *)
(* that grant something, and nothing else.                                 *)
LEMMA PresentedLevels ==
    ASSUME NEW matrix \in Matrix, NEW by, NEW module \in roleModules
    PROVE  LET presented == modulesFromGrants(permissionCodesFor(matrix, by))
           IN  presented[module] =
                 IF \E d \in permissionDefinitions :
                        d.module = module /\ rank[matrix[module]] >= rank[d.minimum]
                 THEN matrix[module] ELSE "NONE"
<1> DEFINE reached == {e \in permissionDefinitions : rank[matrix[e.module]] >= rank[e.minimum]}
           row(d) == [code |-> d.code, level |-> matrix[d.module], by |-> by]
           codes == {d.code : d \in {e \in permissionDefinitions : e.module = module}}
           levels == {g.level : g \in {h \in permissionCodesFor(matrix, by) : h.code \in codes}}
           own == \E d \in permissionDefinitions :
                      d.module = module /\ rank[matrix[module]] >= rank[d.minimum]
           highest == CHOOSE top \in levels \cup {"NONE"} :
                         \A l \in levels \cup {"NONE"} : rank[l] <= rank[top]
<1>1. \A d \in permissionDefinitions : d.code \in codes <=> d.module = module
  BY CodesApart
<1>2. levels = {matrix[d.module] : d \in {e \in reached : e.code \in codes}}
  <2>1. permissionCodesFor(matrix, by) = {row(d) : d \in reached}
    BY DEF permissionCodesFor
  <2>2. \A d \in reached : row(d).code = d.code /\ row(d).level = matrix[d.module]
    OBVIOUS
  <2>. HIDE DEF reached, row, codes
  <2>. QED
    BY <2>1, <2>2
<1>3. \A l \in levels : l = matrix[module]
  BY <1>1, <1>2
<1>4. own => matrix[module] \in levels
  <2>. SUFFICES ASSUME NEW d \in permissionDefinitions, d.module = module,
                       rank[matrix[module]] >= rank[d.minimum]
                PROVE  matrix[module] \in levels
    OBVIOUS
  <2>1. d \in reached /\ d.code \in codes
    OBVIOUS
  <2>. HIDE DEF levels, reached, codes
  <2>. QED
    BY <1>2, <2>1
<1>5. levels # {} => own
  BY <1>1, <1>2
<1>6. modulesFromGrants(permissionCodesFor(matrix, by))[module] = highest
  BY DEF modulesFromGrants
<1>. HIDE DEF levels, own, reached
<1>7. /\ rank["NONE"] = 0 /\ rank["VIEW"] = 1 /\ rank["MANAGE"] = 2 /\ rank["APPROVE"] = 3
  BY DEF rank
<1>8. CASE own
  <2>1. matrix[module] \in {"VIEW", "MANAGE", "APPROVE"}
    BY <1>7, <1>8, CodesApart DEF own, Matrix, RoleLevel, permissionDefinitions, Define
  <2>2. levels = {matrix[module]}
    BY <1>3, <1>4, <1>8
  <2>3. \A top \in levels \cup {"NONE"} :
          (\A l \in levels \cup {"NONE"} : rank[l] <= rank[top]) <=> top = matrix[module]
    <3>1. levels \cup {"NONE"} = {matrix[module], "NONE"}
      BY <2>2
    <3>2. rank[matrix[module]] \in {1, 2, 3} /\ rank["NONE"] = 0 /\ matrix[module] # "NONE"
      BY <1>7, <2>1
    <3>. QED
      BY <3>1, <3>2
  <2>4. highest = matrix[module]
    BY <2>2, <2>3
  <2>. QED
    BY <1>6, <1>8, <2>4 DEF own
<1>9. CASE ~own
  <2>1. levels = {}
    BY <1>5, <1>9
  <2>2. highest = "NONE"
    BY <1>7, <2>1
  <2>. QED
    BY <1>6, <1>9, <2>2 DEF own
<1>. QED
  BY <1>8, <1>9

(* Saving a matrix as it is presented writes the same grants.              *)
LEMMA RoundTrip ==
    ASSUME NEW matrix \in Matrix, NEW by
    PROVE  permissionCodesFor(modulesFromGrants(permissionCodesFor(matrix, by)), by) =
           permissionCodesFor(matrix, by)
<1> DEFINE presented == modulesFromGrants(permissionCodesFor(matrix, by))
           reached(m) == {e \in permissionDefinitions : rank[m[e.module]] >= rank[e.minimum]}
           row(m, d) == [code |-> d.code, level |-> m[d.module], by |-> by]
<1>1. ASSUME NEW m PROVE permissionCodesFor(m, by) = {row(m, d) : d \in reached(m)}
  BY DEF permissionCodesFor
<1>2. \A d \in permissionDefinitions :
        presented[d.module] =
            IF \E e \in permissionDefinitions :
                  e.module = d.module /\ rank[matrix[d.module]] >= rank[e.minimum]
            THEN matrix[d.module] ELSE "NONE"
  BY PresentedLevels DEF roleModules
<1>. HIDE DEF presented
<1>3. \A d \in permissionDefinitions : rank[d.minimum] \in Int /\ rank["NONE"] \in Int
  BY DEF permissionDefinitions, Define, rank
<1>4. ASSUME NEW d \in permissionDefinitions
      PROVE  /\ d \in reached(presented) <=> d \in reached(matrix)
             /\ d \in reached(matrix) => presented[d.module] = matrix[d.module]
  BY <1>2, <1>3, CodesApart
<1>5. reached(presented) = reached(matrix)
  BY <1>4
<1>6. \A d \in reached(matrix) : row(presented, d) = row(matrix, d)
  BY <1>4
<1>. HIDE DEF reached, row
<1>. QED
  BY <1>1, <1>5, <1>6 DEF presented

LEMMA BodyTypes ==
    \A body \in Body :
        /\ body.kind \in {"create", "update"} /\ body.name \in Name /\ body.matrix \in Matrix
        /\ body.kind = "update" => body.role \in RoleId
  BY BodyAssumption DEF Create, Update

LEMMA RowTypes ==
    ASSUME NEW name \in Name, NEW grants \in SUBSET Grant
    PROVE  [name |-> name, grants |-> grants] \in Row /\ [name |-> name, grants |-> grants] # None
<1>1. [name |-> name, grants |-> grants] \in Row
  BY DEF Row
<1>. QED
  BY <1>1, NoneAssumption DEF Row

LEMMA SeededRows ==
    \A i \in Seeded : roleDefinitions[i] \in SUBSET Grant /\ \A g \in roleDefinitions[i] : g.by = None
<1>1. Seeded = {"Administrator", "Accountant", "Principal"}
  BY DEF Seeded, roleDefinitions
<1> DEFINE accountant == permissionCodes \
               {"expenses.approve", "budgets.approve", "team.manage", "settings.manage"}
           principal == {"dashboard.view", "students.view", "fees.view", "payments.view",
               "expenses.view", "expenses.approve", "budgets.view", "budgets.approve",
               "reports.view", "audit.view"}
<1>2. principal \subseteq permissionCodes
  BY DEF permissionCodes, permissionDefinitions, Define
<1>3. ASSUME NEW level \in RoleLevel, NEW codes \in SUBSET permissionCodes
      PROVE  At(level, codes, None) \in SUBSET Grant /\ \A g \in At(level, codes, None) : g.by = None
  BY <1>3 DEF At, Grant
<1>4. /\ roleDefinitions["Administrator"] = At("APPROVE", permissionCodes, None)
      /\ roleDefinitions["Accountant"] = At("MANAGE", accountant, None)
      /\ roleDefinitions["Principal"] = At("APPROVE", principal, None)
  BY DEF roleDefinitions
<1>5. "APPROVE" \in RoleLevel /\ "MANAGE" \in RoleLevel /\ accountant \subseteq permissionCodes
  BY DEF RoleLevel
<1>. HIDE DEF accountant, principal
<1>. QED
  BY <1>1, <1>2, <1>3, <1>4, <1>5

LEMMA InvInit == Init => IInv
<1>. SUFFICES ASSUME Init PROVE IInv
  OBVIOUS
<1>1. ASSUME NEW i \in Seeded
      PROVE  /\ role[i] = [name |-> i, grants |-> roleDefinitions[i]]
             /\ role[i] \in Row /\ role[i] # None
             /\ \A g \in role[i].grants : g.by = None
  <2>1. i \in Name /\ i \in RoleId /\ roleDefinitions[i] \in SUBSET Grant
    BY NameAssumption, SeededRows DEF RoleId
  <2>2. role[i] = [name |-> i, grants |-> roleDefinitions[i]]
    BY <2>1 DEF Init
  <2>. QED
    BY <2>1, <2>2, RowTypes, SeededRows
<1>2. \A i \in RoleId \ Seeded : role[i] = None
  BY DEF Init
<1>3. Existing = Seeded
  BY <1>1, <1>2 DEF Existing, RoleId
<1>4. TypeOK
  <2>1. role \in [RoleId -> Row \cup {None}]
    <3>1. \A i \in RoleId : role[i] \in Row \cup {None}
      BY <1>1, <1>2
    <3>. QED
      BY <3>1 DEF Init
  <2>2. audit \in [RoleId -> Seq(Entry)]
    BY DEF Init
  <2>. QED
    BY <2>1, <2>2 DEF Init, TypeOK, Stage
<1>5. StageInv
  BY <1>3, NameAssumption DEF Init, StageInv, RoleId
<1>6. AloneInv
  BY DEF Init, AloneInv, Updating
<1>7. GrantsOfOneSave
  BY <1>1, <1>3 DEF GrantsOfOneSave
<1>8. PresentedAsSaved
  BY <1>1, <1>3, NoneAssumption DEF PresentedAsSaved
<1>9. AuditChains
  <2>1. \A i \in RoleId : audit[i] = <<>>
    BY DEF Init
  <2>2. Existing \subseteq RoleId
    BY DEF Existing
  <2>. QED
    BY <2>1, <2>2 DEF AuditChains
<1>. QED
  BY <1>4, <1>5, <1>6, <1>7, <1>8, <1>9 DEF IInv

-----------------------------------------------------------------------------
(* A step that writes no role only moves a request on.                     *)
LEMMA ReadsKeep ==
    ASSUME IInv, NEW r \in Request,
           \/ \E member \in Member, body \in Body : Arrive(r, member, body)
           \/ CheckCreate(r) \/ ReadRole(r) \/ CheckUpdate(r) \/ DeleteGrants(r)
    PROVE  IInv'
<1>. USE DEF Goto, Refuse
<1>1. /\ UNCHANGED <<role, audit>> /\ Existing' = Existing /\ overlap' \in BOOLEAN
      /\ overlap => overlap'
      /\ pc[r] \in {"idle", "admitted", "read", "checked"} /\ pc'[r] \in Stage \ {"idle", "saved"}
      /\ pc' \in [Request -> Stage]
      /\ \A q \in Request \ {r} :
            pc'[q] = pc[q] /\ req'[q] = req[q] /\ before'[q] = before[q] /\ scan'[q] = scan[q]
  BY DEF IInv, TypeOK, Arrive, CheckCreate, ReadRole, CheckUpdate, DeleteGrants, Existing,
     Stage
<1>2. GrantsOfOneSave' /\ PresentedAsSaved' /\ AuditChains'
  <2>1. (~overlap)' => ~overlap
    BY <1>1
  <2>. QED
    BY <1>1, <2>1 DEF IInv, GrantsOfOneSave, PresentedAsSaved, AuditChains
<1>3. r \notin Existing
  BY <1>1 DEF IInv, StageInv
<1>4. /\ req'[r] \in Body /\ scan'[r] \in SUBSET Grant
      /\ req' \in [Request -> Body \cup {None}] /\ scan' \in [Request -> SUBSET Grant]
  <2>1. CASE \E member \in Member, body \in Body : Arrive(r, member, body)
    BY <2>1 DEF Arrive, IInv, TypeOK
  <2>2. CASE CheckCreate(r) \/ ReadRole(r) \/ CheckUpdate(r)
    BY <2>2 DEF CheckCreate, ReadRole, CheckUpdate, IInv, TypeOK, StageInv
  <2>3. CASE DeleteGrants(r)
    <3>1. req[r] \in Body /\ req[r].role \in Existing
      BY <2>3 DEF DeleteGrants, IInv, StageInv
    <3>2. role[req[r].role] \in Row
      BY <3>1 DEF IInv, TypeOK, Existing
    <3>. QED
      BY <2>3, <3>1, <3>2 DEF DeleteGrants, IInv, TypeOK, Row
  <2>. QED
    BY <2>1, <2>2, <2>3
<1>5. /\ before'[r] \in Matrix \cup {None} /\ before' \in [Request -> Matrix \cup {None}]
      /\ pc'[r] = "scanned" => DeleteGrants(r)
      /\ pc'[r] = "read" => ReadRole(r) /\ req'[r].kind = "update"
      /\ pc'[r] \in {"read", "checked", "scanned"} /\ req'[r].kind = "update" =>
            /\ req'[r].role \in Existing /\ before'[r] \in Matrix
            /\ before'[r] = modulesFromGrants(role[req'[r].role].grants) \/ pc[r] \in {"read", "checked"}
  <2>1. CASE \E member \in Member, body \in Body : Arrive(r, member, body)
    BY <2>1 DEF Arrive, IInv, TypeOK
  <2>2. CASE CheckCreate(r)
    BY <2>2 DEF CheckCreate, IInv, TypeOK
  <2>3. CASE ReadRole(r)
    <3>1. CASE pc' = [pc EXCEPT ![r] = "refused"] /\ before' = before
      BY <3>1 DEF IInv, TypeOK
    <3>2. CASE /\ req[r].role \in Existing
               /\ before' = [before EXCEPT ![r] = modulesFromGrants(role[req[r].role].grants)]
               /\ pc' = [pc EXCEPT ![r] = "read"] /\ req' = req
      <4>1. role[req[r].role] \in Row
        BY <3>2 DEF IInv, TypeOK, Existing
      <4>2. modulesFromGrants(role[req[r].role].grants) \in Matrix
        BY <4>1, PresentedMatrix DEF Row
      <4>3. req[r].kind = "update"
        BY <2>3 DEF ReadRole
      <4>. QED
        BY <2>3, <3>2, <4>2, <4>3 DEF IInv, TypeOK
    <3>. QED
      BY <2>3, <3>1, <3>2 DEF ReadRole
  <2>4. CASE CheckUpdate(r)
    BY <2>4 DEF CheckUpdate, IInv, TypeOK, StageInv
  <2>5. CASE DeleteGrants(r)
    BY <2>5 DEF DeleteGrants, IInv, TypeOK, StageInv
  <2>. QED
    BY <2>1, <2>2, <2>3, <2>4, <2>5
<1>6. TypeOK'
  BY <1>1, <1>4, <1>5 DEF IInv, TypeOK
<1>7. StageInv'
  <2>1. pc'[r] \in {"read", "scanned"} => req'[r].kind = "update"
    BY <1>5 DEF DeleteGrants, IInv, TypeOK
  <2>. QED
    BY <1>1, <1>3, <1>4, <1>5, <2>1 DEF IInv, StageInv
<1>8. AloneInv'
  <2>. SUFFICES ASSUME ~overlap'
                PROVE  /\ \A id \in RoleId : \A s, q \in Updating(id)' : s = q
                       /\ \A id \in RoleId : \A q \in Updating(id)' :
                            /\ before'[q] = modulesFromGrants(role[id].grants)
                            /\ pc'[q] = "scanned" => scan'[q] = role[id].grants
    BY <1>1 DEF AloneInv
  <2>1. /\ ~overlap
        /\ \A id \in RoleId : \A s, q \in Updating(id) : s = q
        /\ \A id \in RoleId : \A q \in Updating(id) :
              /\ before[q] = modulesFromGrants(role[id].grants)
              /\ pc[q] = "scanned" => scan[q] = role[id].grants
    BY <1>1 DEF IInv, AloneInv
  <2>2. ASSUME NEW id \in RoleId, NEW q \in Updating(id)', q # r
        PROVE  q \in Updating(id) /\ before'[q] = before[q] /\ scan'[q] = scan[q] /\ pc'[q] = pc[q]
    BY <1>1, <2>2 DEF Updating
  <2>3. ASSUME NEW id \in RoleId, r \in Updating(id)'
        PROVE  /\ \A q \in Updating(id) : q = r
               /\ before'[r] = modulesFromGrants(role[id].grants)
               /\ pc'[r] = "scanned" => scan'[r] = role[id].grants
    <3>1. pc'[r] \in {"read", "checked", "scanned"} /\ req'[r].kind = "update" /\ req'[r].role = id
      BY <2>3 DEF Updating
    <3>2. CASE ReadRole(r)
      <4>1. Updating(id) = {} /\ pc'[r] = "read"
        BY <2>1, <3>1, <3>2 DEF ReadRole, IInv, TypeOK
      <4>. QED
        BY <1>1, <1>5, <3>1, <3>2, <4>1 DEF ReadRole
    <3>3. CASE DeleteGrants(r)
      <4>1. r \in Updating(id) /\ before' = before /\ scan'[r] = role[id].grants
        BY <3>1, <3>3 DEF DeleteGrants, Updating, IInv, TypeOK
      <4>. QED
        BY <2>1, <4>1
    <3>4. CASE CheckUpdate(r)
      <4>1. r \in Updating(id) /\ before' = before /\ pc'[r] = "checked"
        BY <3>1, <3>4 DEF CheckUpdate, Updating, IInv, TypeOK, StageInv
      <4>. QED
        BY <2>1, <4>1
    <3>5. CASE CheckCreate(r) \/ \E member \in Member, body \in Body : Arrive(r, member, body)
      BY <3>1, <3>5 DEF CheckCreate, Arrive, IInv, TypeOK
    <3>. QED
      BY <3>2, <3>3, <3>4, <3>5
  <2>. QED
    BY <2>1, <2>2, <2>3
<1>. QED
  BY <1>2, <1>6, <1>7, <1>8 DEF IInv

(* A request that is done leaves the others as they are.                   *)
LEMMA DoneKeeps ==
    ASSUME TypeOK, StageInv, NEW r \in Request, NEW stage \in {"saved", "collided"}, Goto(r, stage),
           pc[r] \in {"checked", "scanned"}, UNCHANGED <<req, before, scan, overlap>>,
           NEW new, role' = [role EXCEPT ![new] = role'[new]], new \in RoleId,
           role'[new] \in Row \cup {None}, new \in Existing => role'[new] # None,
           audit' \in [RoleId -> Seq(Entry)],
           stage = "saved" => new = r \/ new \in Existing,
           stage # "saved" => role' = role,
           \A i \in RoleId \ {new} : audit'[i] = audit[i],
           role'[new] = None => audit'[new] = <<>>
    PROVE  TypeOK' /\ StageInv' /\ Existing \subseteq Existing'
<1>1. /\ pc' \in [Request -> Stage] /\ pc'[r] = stage
      /\ \A q \in Request \ {r} : pc'[q] = pc[q]
  BY DEF Goto, TypeOK, Stage
<1>2. role' \in [RoleId -> Row \cup {None}] /\ \A i \in RoleId \ {new} : role'[i] = role[i]
  BY DEF TypeOK
<1>3. Existing \subseteq Existing' /\ Existing' \subseteq Existing \cup {new}
  BY <1>2 DEF Existing
<1>4. TypeOK'
  BY <1>1, <1>2 DEF TypeOK
<1>5. \A i \in Existing' \cap Request : pc'[i] = "saved"
  <2>1. stage = "collided" => Existing' = Existing
    BY DEF Existing
  <2>2. r \notin Existing
    BY DEF StageInv
  <2>. QED
    BY <1>1, <1>3, <2>1, <2>2 DEF StageInv
<1>6. \A i \in RoleId \ Existing' : audit'[i] = <<>>
  BY <1>2 DEF StageInv, Existing
<1>. QED
  BY <1>1, <1>3, <1>4, <1>5, <1>6 DEF StageInv

(* The entries of a role that is not written stay in their chain.          *)
Chained(entries, grants) ==
    /\ \A n \in 1 .. Len(entries) - 1 : entries[n + 1].before = Granted(entries[n].after)
    /\ entries # <<>> => modulesFromGrants(grants) = Granted(entries[Len(entries)].after)

LEMMA ChainedOn ==
    ASSUME NEW entries \in Seq(Entry), NEW grants \in SUBSET Grant, Chained(entries, grants),
           NEW matrix \in Matrix, NEW by \in Request
    PROVE  LET entry == [before |-> modulesFromGrants(grants), after |-> matrix]
           IN  /\ Append(entries, entry) \in Seq(Entry)
               /\ Chained(Append(entries, entry), permissionCodesFor(matrix, by))
<1> DEFINE entry == [before |-> modulesFromGrants(grants), after |-> matrix]
           longer == Append(entries, entry)
<1>1. entry \in Entry /\ entry.before = modulesFromGrants(grants) /\ entry.after = matrix
  BY PresentedMatrix DEF Entry
<1>2. modulesFromGrants(permissionCodesFor(matrix, by)) = Granted(matrix)
  BY PresentedAlike
<1>. HIDE DEF entry
<1>3. /\ longer \in Seq(Entry) /\ Len(longer) = Len(entries) + 1
      /\ longer[Len(longer)] = entry
      /\ \A n \in 1 .. Len(entries) : longer[n] = entries[n]
      /\ longer # <<>> /\ Len(entries) \in Nat
  BY <1>1
<1>4. ASSUME NEW n \in 1 .. Len(longer) - 1 PROVE longer[n + 1].before = Granted(longer[n].after)
  <2>1. CASE n = Len(entries)
    <3>1. entries # <<>> /\ longer[n] = entries[Len(entries)] /\ longer[n + 1] = entry
      BY <1>3, <1>4, <2>1
    <3>. QED
      BY <1>1, <3>1 DEF Chained
  <2>2. CASE n # Len(entries)
    <3>1. n \in 1 .. Len(entries) - 1 /\ longer[n] = entries[n] /\ longer[n + 1] = entries[n + 1]
      BY <1>3, <1>4, <2>2
    <3>. QED
      BY <3>1 DEF Chained
  <2>. QED
    BY <2>1, <2>2
<1>. QED
  BY <1>1, <1>2, <1>3, <1>4 DEF Chained, entry

(* What is read back from the grants of a request is what it has saved.    *)
Kept(grants) ==
    \A r \in Request :
        (\E g \in grants : g.by = r) => permissionCodesFor(modulesFromGrants(grants), r) = grants

LEMMA SavedKept ==
    ASSUME NEW matrix \in Matrix, NEW by \in Request
    PROVE  Kept(permissionCodesFor(matrix, by))
  BY SavedGrants, RoundTrip DEF Kept

(* The three invariants, role by role.                                     *)
LEMMA ByRole ==
    /\ GrantsOfOneSave /\ PresentedAsSaved /\ AuditChains <=>
          (~overlap => \A i \in Existing :
              /\ \A g, h \in role[i].grants : g.by = h.by
              /\ Kept(role[i].grants)
              /\ Chained(audit[i], role[i].grants))
    /\ (GrantsOfOneSave /\ PresentedAsSaved /\ AuditChains)' <=>
          (~overlap' => \A i \in Existing' :
              /\ \A g, h \in role'[i].grants : g.by = h.by
              /\ Kept(role'[i].grants)
              /\ Chained(audit'[i], role'[i].grants))
  BY DEF GrantsOfOneSave, PresentedAsSaved, AuditChains, Kept, Chained

LEMMA CreateKeeps ==
    ASSUME IInv, NEW r \in Request, CommitCreate(r)
    PROVE  IInv'
<1> DEFINE row == [name |-> req[r].name, grants |-> permissionCodesFor(req[r].matrix, r)]
<1>. USE DEF IInv
<1>1. /\ req[r] \in Body /\ r \notin Existing /\ r \in RoleId /\ pc[r] = "checked"
      /\ UNCHANGED <<req, before, scan, overlap, audit>> /\ req[r].kind = "create"
      /\ DOMAIN role = RoleId /\ audit[r] = <<>>
  BY DEF CommitCreate, StageInv, RoleId, TypeOK
<1>2. row \in Row /\ row # None /\ Kept(row.grants) /\ \A g \in row.grants : g.by = r
  BY <1>1, BodyTypes, SavedGrants, SavedKept, RowTypes
<1>. HIDE DEF row
<1>3. \/ Goto(r, "collided") /\ role' = role
      \/ Goto(r, "saved") /\ role' = [role EXCEPT ![r] = row]
  BY DEF CommitCreate, row
<1>4. PICK stage \in {"saved", "collided"} : Goto(r, stage) /\ (stage # "saved" => role' = role)
  BY <1>3
<1>5. /\ role' = [role EXCEPT ![r] = role'[r]] /\ role'[r] \in Row \cup {None}
      /\ \A i \in RoleId \ {r} : role'[i] = role[i]
      /\ role'[r] # None => role'[r] = row
  BY <1>1, <1>2, <1>3 DEF TypeOK, Existing
<1>6. audit' \in [RoleId -> Seq(Entry)]
  BY <1>1 DEF TypeOK
<1>7. TypeOK' /\ StageInv' /\ Existing \subseteq Existing'
  BY <1>1, <1>4, <1>5, <1>6, DoneKeeps
<1>8. ASSUME NEW id \in RoleId, NEW q \in Updating(id)'
      PROVE  q \in Updating(id) /\ pc'[q] = pc[q] /\ id # r
  <2>1. q # r
    BY <1>1, <1>8 DEF Updating
  <2>2. pc'[q] = pc[q] /\ q \in Updating(id)
    BY <1>1, <1>4, <1>8, <2>1 DEF Updating, Goto, TypeOK
  <2>. QED
    BY <1>1, <2>2 DEF StageInv, Updating
<1>9. AloneInv'
  BY <1>1, <1>5, <1>8 DEF AloneInv
<1>10. ASSUME ~overlap, NEW i \in Existing'
       PROVE  /\ \A g, h \in role'[i].grants : g.by = h.by
              /\ Kept(role'[i].grants) /\ Chained(audit'[i], role'[i].grants)
  <2>1. CASE i = r
    <3>1. role'[i] = row /\ audit'[i] = <<>>
      BY <1>1, <1>5, <1>10, <2>1 DEF Existing
    <3>. QED
      BY <1>2, <3>1 DEF Chained
  <2>2. CASE i # r
    <3>1. i \in Existing /\ role'[i] = role[i]
      BY <1>5, <1>10, <2>2 DEF Existing
    <3>. QED
      BY <1>1, <1>10, <3>1, ByRole
  <2>. QED
    BY <2>1, <2>2
<1>. QED
  BY <1>1, <1>7, <1>9, <1>10, ByRole

LEMMA UpdateKeeps ==
    ASSUME IInv, NEW r \in Request, CommitUpdate(r)
    PROVE  IInv'
<1> DEFINE id == req[r].role
           matrix == req[r].matrix
           grants == permissionCodesFor(matrix, r)
           left == role[id].grants \ scan[r]
           row == [name |-> req[r].name, grants |-> left \cup grants]
           entry == [before |-> before[r], after |-> matrix]
<1>. USE DEF IInv
<1>1. /\ pc[r] = "scanned" /\ req[r] \in Body /\ req[r].kind = "update"
      /\ UNCHANGED <<req, before, scan, overlap>>
  BY DEF CommitUpdate, StageInv
<1>2. /\ id \in Existing /\ id \in RoleId /\ before[r] \in Matrix /\ matrix \in Matrix
      /\ role[id] \in Row /\ req[r].name \in Name /\ r \in Updating(id)
  BY <1>1, BodyTypes DEF StageInv, Existing, TypeOK, Updating
<1>3. /\ role[id].grants \in SUBSET Grant
      /\ grants \in SUBSET Grant /\ Kept(grants) /\ \A g \in grants : g.by = r
  BY <1>2, SavedGrants, SavedKept DEF Row
<1>4. row \in Row /\ row # None /\ row.grants = left \cup grants
  BY <1>2, <1>3, RowTypes
<1>5. entry \in Entry
  BY <1>2 DEF Entry
<1>. HIDE DEF grants, row, entry
<1>6. \/ Goto(r, "collided") /\ UNCHANGED <<role, audit>>
      \/ /\ Goto(r, "saved") /\ role' = [role EXCEPT ![id] = row]
         /\ audit' = [audit EXCEPT ![id] = Append(audit[id], entry)]
  BY DEF CommitUpdate, grants, row, entry
<1>7. PICK stage \in {"saved", "collided"} : Goto(r, stage) /\ (stage # "saved" => role' = role)
  BY <1>6
<1>8. /\ role' = [role EXCEPT ![id] = role'[id]] /\ role'[id] \in Row
      /\ role'[id] # None
      /\ \A i \in RoleId \ {id} : role'[i] = role[i] /\ audit'[i] = audit[i]
      /\ audit' \in [RoleId -> Seq(Entry)]
  <2>1. role \in [RoleId -> Row \cup {None}] /\ audit \in [RoleId -> Seq(Entry)] /\ role[id] # None
    BY <1>2 DEF TypeOK, Existing
  <2>2. Append(audit[id], entry) \in Seq(Entry)
    BY <1>2, <1>5, <2>1
  <2>. HIDE DEF id
  <2>3. CASE role' = role /\ audit' = audit
    BY <1>2, <2>1, <2>3
  <2>4. CASE role' = [role EXCEPT ![id] = row] /\ audit' = [audit EXCEPT ![id] = Append(audit[id], entry)]
    BY <1>2, <1>4, <2>1, <2>2, <2>4
  <2>. QED
    BY <1>6, <2>3, <2>4
<1>9. TypeOK' /\ StageInv' /\ Existing \subseteq Existing'
  BY <1>1, <1>2, <1>7, <1>8, DoneKeeps
<1>10. ASSUME NEW i \in RoleId, NEW q \in Updating(i)'
       PROVE  q # r /\ q \in Updating(i) /\ pc'[q] = pc[q]
  <2>1. q # r
    BY <1>7, <1>10 DEF Updating, Goto, TypeOK
  <2>. QED
    BY <1>1, <1>7, <1>10, <2>1 DEF Updating, Goto, TypeOK
<1>11. AloneInv'
  <2>1. ASSUME ~overlap, NEW i \in RoleId, NEW q \in Updating(i)' PROVE i # id
    BY <1>2, <1>10, <2>1 DEF AloneInv
  <2>. QED
    BY <1>1, <1>8, <1>10, <2>1 DEF AloneInv
<1>12. ASSUME ~overlap, NEW i \in Existing'
       PROVE  /\ \A g, h \in role'[i].grants : g.by = h.by
              /\ Kept(role'[i].grants) /\ Chained(audit'[i], role'[i].grants)
  <2>1. i \in RoleId /\ i \in Existing
    BY <1>2, <1>8, <1>12 DEF Existing
  <2>2. /\ \A g, h \in role[i].grants : g.by = h.by
        /\ Kept(role[i].grants) /\ Chained(audit[i], role[i].grants)
    BY <1>12, <2>1, ByRole
  <2>3. CASE role'[i] = role[i] /\ audit'[i] = audit[i]
    BY <2>2, <2>3
  <2>4. CASE i = id /\ role' = [role EXCEPT ![id] = row]
             /\ audit' = [audit EXCEPT ![id] = Append(audit[id], entry)]
    <3>1. left = {} /\ before[r] = modulesFromGrants(role[id].grants)
      BY <1>1, <1>2, <1>12 DEF AloneInv
    <3>2. role'[i].grants = grants /\ audit'[i] = Append(audit[id], entry) /\ audit[id] \in Seq(Entry)
      BY <1>2, <1>4, <2>4, <3>1 DEF TypeOK
    <3>3. Chained(audit'[i], grants)
      BY <1>2, <1>3, <2>2, <2>4, <3>1, <3>2, ChainedOn DEF entry, grants
    <3>. QED
      BY <1>3, <3>2, <3>3
  <2>. QED
    BY <1>6, <1>8, <2>1, <2>3, <2>4
<1>. QED
  BY <1>1, <1>9, <1>11, <1>12, ByRole

-----------------------------------------------------------------------------
LEMMA InvNext == IInv /\ [Next]_vars => IInv'
<1>. SUFFICES ASSUME IInv, [Next]_vars PROVE IInv'
  OBVIOUS
<1>1. CASE Next
  BY <1>1, ReadsKeep, CreateKeeps, UpdateKeeps DEF Next, Handle
<1>2. CASE UNCHANGED vars
  BY <1>2 DEF vars, IInv, TypeOK, StageInv, AloneInv, GrantsOfOneSave, PresentedAsSaved, AuditChains,
     Existing, Updating
<1>. QED
  BY <1>1, <1>2

(* The invariant the other theorems rest on.                               *)
THEOREM InductiveInvariant == Spec => []IInv
  BY InvInit, InvNext, PTL DEF Spec

(* Every role is a name with grants of the catalogue, and every entry of   *)
(* the audit log two matrices.                                             *)
THEOREM TypeCorrect == Spec => []TypeOK
<1>1. IInv => TypeOK
  BY DEF IInv
<1>. QED
  BY <1>1, InductiveInvariant, PTL

(* RolesService.update: the grants of a role are those of one save, unless *)
(* two updates of it overlapped.                                           *)
THEOREM SavesWhole == Spec => []GrantsOfOneSave
<1>1. IInv => GrantsOfOneSave
  BY DEF IInv
<1>. QED
  BY <1>1, InductiveInvariant, PTL

(* A role that is saved as modulesFromGrants presents it keeps its grants, *)
(* once a save has written them and until two updates of it overlap.       *)
THEOREM SavedAsPresented == Spec => []PresentedAsSaved
<1>1. IInv => PresentedAsSaved
  BY DEF IInv
<1>. QED
  BY <1>1, InductiveInvariant, PTL

(* RolesService.update: the audit entries of a role form a chain that ends *)
(* in its grants, unless two updates of it overlapped.                     *)
THEOREM AuditChained == Spec => []AuditChains
<1>1. IInv => AuditChains
  BY DEF IInv
<1>. QED
  BY <1>1, InductiveInvariant, PTL
=============================================================================
