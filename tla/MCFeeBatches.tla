---------------------------- MODULE MCFeeBatches ----------------------------
(***************************************************************************)
(* Instances of FeeBatches: two students, of one guardian or of two, in    *)
(* two classes and two terms.  Of the statuses it takes those that the     *)
(* guards tell apart.                                                      *)
(***************************************************************************)
EXTENDS FeeBatches, TLC

CONSTANTS r1, r2, r3, a1, a2, g1, g2, y1, y2, k1, k2

MCSeed == [term |-> <<y1, "Term 1">>, classes |-> {"Grade 1"}]
Term1 == <<y1, "Term 1">>
Term2 == <<y2, "Term 1">>
Register(a, status, phone, t, c) ==
    [admission |-> a, status |-> status, phone |-> phone, term |-> t, class |-> c]
MCRegistration ==
    {Register(a1, "ACTIVE", "p1", Term1, "Grade 1"), Register(a2, "ACTIVE", "p1", Term1, "Grade 1"),
     Register(a2, "INACTIVE", "p2", Term1, "Grade 2")}
MCChange ==
    {Register(a1, "GRADUATED", None, None, None), Register(a1, None, "p2", Term1, "Grade 2"),
     Register(a2, "ACTIVE", "p1", Term1, "Grade 1")}
MCPlacement == {[admission |-> a1, term |-> Term2, class |-> "Grade 1"],
     [admission |-> a2, term |-> Term1, class |-> "Grade 2"]}
Symmetry ==
    {f @@ g @@ h : <<f, g, h>> \in
        Permutations(Request) \X Permutations(Guardian) \X Permutations(Key)}
=============================================================================
