--------------------------- MODULE MCInstallChain ---------------------------
(* Instances of InstallChain for TLC: which editions start a new base. *)
EXTENDS InstallChain

OneBase  == {1}
TwoBases == {1, 3}
=============================================================================
