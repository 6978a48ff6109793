----------------------------- MODULE MCJailBuild -----------------------------
(***************************************************************************)
(* A small instance of JailBuild for TLC: make -j1 and make -j3.           *)
(***************************************************************************)
EXTENDS JailBuild

OneAndThree == {1, 3}
TwoFaultsAtMost == (1 :> 2) @@ (3 :> 1)
=============================================================================
