------------------------------- MODULE MCPage -------------------------------
(* A small instance of Page for TLC: two tabs of a browser, two runs, two users. *)
EXTENDS Page, TLC

CONSTANTS r1, r2, a1

MCSubjects == {"login", "register"} \X {"u1", "u2"}
TwoTabs == [p \in {"p1", "p2"} |-> "d1"]

Symmetry == Permutations({r1, r2})
=============================================================================
