----------------------------- MODULE MCShadowSalt ----------------------------
(***************************************************************************)
(* A small instance of ShadowSalt for TLC: times and process ids that      *)
(* differ in one bit, at every boundary of the shifts and the mask.        *)
(***************************************************************************)
EXTENDS ShadowSalt

Times == {-1, 0, 1, 32, 64, 16384, 536870912, 1073741823, 1073741824, 2147483646}
Pids == {1, 32, 33, 4096, 65535, 65536, 131073, 262143, 262145}
=============================================================================
