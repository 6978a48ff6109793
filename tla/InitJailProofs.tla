---------------------------- MODULE InitJailProofs ----------------------------
(***************************************************************************)
(* Proofs about InitJail, for every set of processes, every host and any   *)
(* number of runs.                                                         *)
(***************************************************************************)
EXTENDS InitJail, TLAPS

USE InitJailAssumption

(***************************************************************************)
(* The inductive invariant: what the commands up to the current one have   *)
(* left behind.  Each set of steps is a suffix of the script.              *)
(***************************************************************************)
FromInstall == {"install", "done"}
FromEtc == {"pam", "libz", "mount"} \cup FromInstall
FromLn == {"truncate", "sed", "etc"} \cup FromEtc
FromProgs == {"ln"} \cup FromLn
FromNodes == {"progs"} \cup FromProgs
FromTar == {"mknod"} \cup FromNodes

\* What the script has installed so far.
Installs ==
  /\ pc \in FromTar => Packed \subseteq files
  /\ pc \in FromNodes => "nodes" \in files
  /\ pc \in FromProgs => Progs \subseteq files
  /\ pc \in FromLn => host.busybox \/ "sh" \in files
  /\ pc \in FromEtc => EtcFiles \subseteq files
  /\ pc = "done" => "sh" \in files

PasswdMade == pc \in {"etc"} \cup FromEtc => passwd = "host"

\* Nothing else is there when mknod and ln need its absence.
Fresh ==
  /\ pc \in {"tar", "mknod"} => files \subseteq Packed \cup Kept
  /\ pc \in {"progs", "ln"} => files \subseteq Packed \cup Kept \cup {"nodes"} \cup Progs

Mounts ==
  /\ procMounts <= 1
  /\ pc \in {"tar"} \cup FromTar => procMounts = IF pc \in FromInstall THEN 1 ELSE 0

IInv == TypeOK /\ Installs /\ PasswdMade /\ Fresh /\ Mounts /\ RetryWorks

\* The target starts with no jail.
LEMMA InitInv == Init => IInv
<1> SUFFICES ASSUME Init PROVE IInv
  OBVIOUS
<1>1. /\ pc = "idle" /\ files = {} /\ passwd = "none" /\ procMounts = 0
      /\ procUsers = {} /\ runs = 0 /\ host \in HostKind /\ faulty = FALSE
  BY DEF Init
<1>2. TypeOK
  <2>1. faulty \in BOOLEAN
    BY <1>1, Zenon
  <2>. QED  BY <1>1, <2>1 DEF TypeOK, Ended
<1>3. Installs /\ PasswdMade /\ Fresh /\ Mounts /\ RetryWorks
  BY <1>1 DEF Installs, PasswdMade, Fresh, Mounts, RetryWorks,
     FromTar, FromNodes, FromProgs, FromLn, FromEtc, FromInstall
<1>. QED  BY <1>2, <1>3 DEF IInv

LEMMA ScriptInv == IInv /\ Script => IInv'
<1> SUFFICES ASSUME IInv, Script PROVE IInv'
  OBVIOUS
<1> USE DEF IInv, TypeOK, Running, Ended, Installed, Left, Kept, Installs, PasswdMade, Fresh, Mounts,
    RetryWorks, FromTar, FromNodes, FromProgs, FromLn, FromEtc, FromInstall,
    Packed, Progs, EtcFiles, HostKind
<1>0. UNCHANGED <<host, faulty, procUsers, runs>>
  BY DEF Script
<1>1. CASE Umount
  BY <1>0, <1>1 DEF Umount
<1>2. CASE Remove
  <2>1. /\ pc = "rm" /\ procMounts' = procMounts
        /\ files' \subseteq files /\ passwd' \in {passwd, "none"}
        /\ \/ pc' = "rm"
           \/ pc' = "tar" /\ procMounts = 0 /\ files' \subseteq Kept
           \/ pc' = "aborted" /\ procMounts # 0
    BY <1>0, <1>2 DEF Remove, Matched, After, ErrExit
  <2>. QED  BY <1>0, <2>1
<1>3. CASE Unpack
  <2>1. /\ pc = "tar" /\ procMounts' = procMounts
        /\ files \subseteq files' /\ files' \subseteq files \cup Packed
        /\ passwd' \in {passwd, "tar"}
        /\ \/ pc' = "tar"
           \/ pc' = "mknod" /\ Packed \subseteq files
    BY <1>3 DEF Unpack, Install
  <2>. QED  BY <1>0, <2>1
<1>4. CASE MakeNodes
  <2>1. pc = "mknod" /\ "nodes" \notin files
    BY <1>4 DEF MakeNodes
  <2>2. /\ procMounts' = procMounts /\ passwd' = passwd
        /\ \/ pc' = "progs" /\ files' = files \cup {"nodes"}
           \/ pc' = "aborted" /\ faulty /\ files' = files
    BY <1>4, <2>1 DEF MakeNodes, Make, After, ErrExit
  <2>. QED  BY <1>0, <2>1, <2>2
<1>5. CASE CopyProgs
  <2>1. /\ pc = "progs" /\ procMounts' = procMounts /\ passwd' = passwd
        /\ files \subseteq files' /\ files' \subseteq files \cup Progs
        /\ pc' = "progs" \/ (pc' = "ln" /\ Progs \subseteq files)
    BY <1>5 DEF CopyProgs, Install
  <2>. QED  BY <1>0, <2>1
<1>6. CASE LinkShell
  <2>1. pc = "ln" /\ files \subseteq Packed \cup Kept \cup {"nodes"} \cup Progs /\ Progs \subseteq files
    BY <1>6 DEF LinkShell
  <2>2. "ash" \in files => "sh" \notin files
    BY <2>1
  <2>3. "ash" \notin files => host.busybox \/ "sh" \in files
    BY <2>1
  <2>4. /\ procMounts' = procMounts /\ passwd' = passwd /\ files \subseteq files'
        /\ files' \subseteq files \cup {"sh"}
        /\ \/ pc' = "truncate" /\ (host.busybox \/ "sh" \in files')
           \/ pc' = "aborted" /\ faulty
    BY <1>6, <2>2, <2>3 DEF LinkShell, Make, After, ErrExit
  <2>. QED  BY <1>0, <2>1, <2>4
<1>7. CASE RewritePasswd
  BY <1>0, <1>7 DEF RewritePasswd
<1>8. CASE CopyEtc
  <2>1. /\ pc = "etc" /\ procMounts' = procMounts /\ passwd' = passwd
        /\ files \subseteq files' /\ files' \subseteq files \cup EtcFiles
        /\ pc' = "etc" \/ (pc' = "pam" /\ EtcFiles \subseteq files)
    BY <1>8 DEF CopyEtc, Install
  <2>. QED  BY <1>0, <2>1
<1>9. CASE CopyPam
  BY <1>0, <1>9 DEF CopyPam, Make, After, ErrExit
<1>10. CASE CopyLibz
  BY <1>0, <1>10 DEF CopyLibz, Make, After, ErrExit
<1>11. CASE MountProc
  BY <1>0, <1>11 DEF MountProc
<1>12. CASE InstallApplets
  BY <1>0, <1>12 DEF InstallApplets, Install
<1>13. CASE Abort
  BY <1>0, <1>13 DEF Abort
<1>. QED  BY <1>1, <1>2, <1>3, <1>4, <1>5, <1>6, <1>7, <1>8, <1>9, <1>10, <1>11, <1>12, <1>13 DEF Script

LEMMA NextInv == IInv /\ [Next]_vars => IInv'
<1> SUFFICES ASSUME IInv, [Next]_vars PROVE IInv'
  OBVIOUS
<1> USE DEF IInv, TypeOK, Running, Ended, Installs, PasswdMade, Fresh, Mounts, RetryWorks,
    FromTar, FromNodes, FromProgs, FromLn, FromEtc, FromInstall, Packed, Progs, EtcFiles
<1>1. CASE Start
  <2>1. faulty' \in BOOLEAN /\ runs' \in Nat
    BY <1>1 DEF Start
  <2>2. /\ UNCHANGED <<host, files, passwd, procMounts, procUsers>>
        /\ pc' \in {"refused", "umount"} \/ (pc' = "aborted" /\ faulty')
    BY <1>1 DEF Start
  <2>. QED  BY <2>1, <2>2
<1>2. CASE Script
  BY <1>2, ScriptInv
<1>3. CASE UseProc \/ LeaveProc
  BY <1>3 DEF UseProc, LeaveProc
<1>4. CASE LeaveFile
  BY <1>4 DEF LeaveFile, Left
<1>5. CASE Reboot
  <2>1. /\ pc' = "idle" /\ procMounts' = 0 /\ procUsers' = {} /\ faulty' \in BOOLEAN
        /\ UNCHANGED <<host, files, passwd, runs>>
    BY <1>5, Zenon DEF Reboot
  <2>. QED  BY <2>1
<1>6. CASE UNCHANGED vars
  BY <1>6 DEF vars
<1>. QED  BY <1>1, <1>2, <1>3, <1>4, <1>5, <1>6 DEF Next

LEMMA Invariance == Spec => []IInv
BY InitInv, NextInv, PTL DEF Spec

\* Every variable of the script's model keeps its type.
THEOREM TypeCorrect == Spec => []TypeOK
BY Invariance, PTL DEF IInv

\* However often the script is started, killed and started again on one jail,
\* and whatever keeps an earlier /proc busy, there is never a second /proc
\* over the first (lines 11, 25, 28 and 71).
THEOREM OneProc == Spec => []AtMostOneProc
<1>1. IInv => AtMostOneProc
  BY DEF IInv, Mounts, AtMostOneProc
<1>. QED  BY Invariance, <1>1, PTL

\* On every kind of host, exit status 0 means a complete jail.
THEOREM DoneComplete == Spec => []DoneMeansComplete
<1>1. IInv => DoneMeansComplete
  BY DEF IInv, Installs, PasswdMade, Mounts, DoneMeansComplete, Complete,
     FromTar, FromNodes, FromProgs, FromLn, FromEtc, FromInstall
<1>. QED  BY Invariance, <1>1, PTL

\* A run whose own commands do not fail gets past whatever an interrupted run
\* has left, unless the jail's /proc is in use or the host cannot give libz.
THEOREM Retry == Spec => []RetryWorks
BY Invariance, PTL DEF IInv
===============================================================================
