---------------------------- MODULE MCRoleGrants ----------------------------
(***************************************************************************)
(* Instances of RoleGrants: a member who is Administrator and Principal,   *)
(* and an accountant; updates of seeded roles and of a created one whose   *)
(* matrices share codes or do not, and one that takes team.manage away.    *)
(***************************************************************************)
EXTENDS RoleGrants, TLC

CONSTANTS r1, r2, r3, m1, m2

MCRolesOf == (m1 :> {"Administrator", "Principal"}) @@ (m2 :> {"Accountant"})

None0 == [module \in roleModules |-> "NONE"]
All == [module \in roleModules |-> "APPROVE"]
Viewer == [None0 EXCEPT !["Students"] = "VIEW", !["Team"] = "VIEW"]
Cashier == [None0 EXCEPT !["Payments"] = "MANAGE"]
Checker == [Cashier EXCEPT !["Payments"] = "APPROVE", !["Team"] = "MANAGE"]

New(name, matrix) == [kind |-> "create", name |-> name, matrix |-> matrix]
Save(id, name, matrix) == [kind |-> "update", role |-> id, name |-> name, matrix |-> matrix]
MCBody ==
    {New("Bursar", Cashier), New("Clerk", Viewer)} \cup
    {Save("Administrator", "Administrator", matrix) : matrix \in {All, Cashier, Viewer}} \cup
    {Save("Accountant", "Accountant", matrix) : matrix \in {Checker, Viewer, None0}} \cup
    {Save("Accountant", "Bursar", Checker), Save(r1, "Bursar", Checker),
     Save(r1, "Clerk", Viewer), Save(r1, "Principal", Viewer)}
=============================================================================
