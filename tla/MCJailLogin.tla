----------------------------- MODULE MCJailLogin -----------------------------
(***************************************************************************)
(* Small instances of JailLogin for TLC.                                   *)
(***************************************************************************)
EXTENDS JailLogin

\* A target without busybox, and one with it.
Plain == [busybox |-> FALSE, ash |-> FALSE, shadow |-> FALSE, pam |-> FALSE, libz |-> TRUE]
WithBusybox == [Plain EXCEPT !.busybox = TRUE]
BusyboxHosts == {WithBusybox}
TwoHosts == {Plain, WithBusybox}
=============================================================================
