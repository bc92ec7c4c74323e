---------------------------- MODULE MCGovernor ----------------------------
(***************************************************************************)
(* Instances of Governor for TLC: one reading per pressure class, those of   *)
(* medium and high exactly on a threshold, with a score below their class.   *)
(***************************************************************************)
EXTENDS Governor

Psi(some, full) == [some |-> some, full |-> full]
MCPsiFiles == {Psi(0, 0), Psi(300, 0), Psi(500, 0), Psi(400, 400), Psi(4000, 2000)}
MCFewPsiFiles == {Psi(0, 0), Psi(500, NoValue), Psi(400, 400), Psi(4000, 2000)}
=============================================================================
