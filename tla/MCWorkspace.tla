---------------------------- MODULE MCWorkspace -----------------------------
(***************************************************************************)
(* Instances of Workspace: an administrator who sees students and payments *)
(* and manages the team, a clerk who sees expenses, and roles that take    *)
(* the students from the first and give the other all three.               *)
(***************************************************************************)
EXTENDS Workspace, TLC

CONSTANTS u1, u2, pay1

MCAssignments ==
    { (u1 :> {"students", "payments", "team"}) @@ (u2 :> {"expenses"}),
      (u1 :> {"payments", "team"}) @@ (u2 :> {"payments", "students", "expenses"}) }
MCListOf == pay1 :> "payments"
=============================================================================
