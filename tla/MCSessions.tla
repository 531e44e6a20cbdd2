----------------------------- MODULE MCSessions -----------------------------
(***************************************************************************)
(* Instances of Sessions: four requests from two browsers, logins with     *)
(* either password, and resets and a change from the first to the second.  *)
(***************************************************************************)
EXTENDS Sessions, TLC

CONSTANTS r1, r2, r3, r4, p1, p2, b1, b2

MCBody ==
    {[kind |-> "login", password |-> p] : p \in Password} \cup BareRequest \cup
    {[kind |-> "reset", token |-> t, password |-> p2] : t \in Request} \cup
    {[kind |-> "change", current |-> p1, password |-> p2]}
Symmetry ==
    {f @@ g : <<f, g>> \in Permutations(Request) \X Permutations(Browser)}
=============================================================================
