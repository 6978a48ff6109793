-------------------------- MODULE MCRootfsPackages --------------------------
(***************************************************************************)
(* A small instance of RootfsPackages for TLC: a package with two files of *)
(* one name, and a program that two packages have.                         *)
(***************************************************************************)
EXTENDS RootfsPackages, TLC

CONSTANTS busybox, e2fsprogs, etHeader, header, program, libc, loader

Packages == {busybox, e2fsprogs}
RuleOrder == (busybox :> 1) @@ (e2fsprogs :> 2)
Paths == {etHeader, header, program}
Contents == (busybox :> {program}) @@ (e2fsprogs :> {etHeader, header, program})
BaseName == (etHeader :> "com_err.h") @@ (header :> "com_err.h") @@ (program :> "program")
=============================================================================
