------------------------------ MODULE MCSession ------------------------------
(***************************************************************************)
(* Session.tla for TLC.  Connections are interchangeable and so are         *)
(* sessions, which the runs that check no liveness make use of.             *)
(***************************************************************************)
EXTENDS Session, TLC

ConnSymmetry == Permutations(Conns)
Symmetry == ConnSymmetry \cup Permutations(Ids)
=============================================================================
