------------------------------- MODULE MCMkJail -------------------------------
(***************************************************************************)
(* A small instance of MkJail for TLC: two toolchains, of which one has a  *)
(* library that the other lacks, and the other a program and busybox.      *)
(***************************************************************************)
EXTENDS MkJail, TLC

CONSTANTS gcc3, gcc4

Toolchains == {gcc3, gcc4}
LibsIn == (gcc3 :> {"libc", "libg2c"}) @@ (gcc4 :> {"libc"})
ToolsIn == (gcc3 :> {}) @@ (gcc4 :> {"ldd"})
BoxIn == (gcc3 :> {}) @@ (gcc4 :> {"busybox"})
Symmetry == Permutations(Pid)
=============================================================================
