------------------------------ MODULE MCBrowser -------------------------------
(***************************************************************************)
(* Browser.tla for TLC.  Connections are interchangeable, and so are tabs.  *)
(***************************************************************************)
EXTENDS Browser, TLC

Symmetry == Permutations(Conns) \cup Permutations(Tabs)
=============================================================================
