------------------------------- MODULE InitJail -------------------------------
(***************************************************************************)
(* initjail: the shell script that completes a jail on the target.  One    *)
(* action per command (or loop of commands) whose failure, interruption or *)
(* leftovers can be told apart.  The script may be killed, the target may  *)
(* be rebooted, and the script is then run again on what it left behind.   *)
(* One run at a time: the script is started by hand.                       *)
(***************************************************************************)
EXTENDS Naturals

CONSTANTS
  Process,  \* processes that may live in the jail between runs
  Tarball,  \* what the tarball may hold besides its directories, libraries and passwd
  MaxRuns   \* bound: how often the script is started

ASSUME InitJailAssumption == Tarball \subseteq {"busybox"} /\ MaxRuns \in Nat

VARIABLES
  host,       \* what the target has: fixed
  pc,         \* the command that comes next
  faulty,     \* a command of this run may fail on its own account, or the run be killed
  files,      \* what is in the jail, /etc/passwd apart
  passwd,     \* its /etc/passwd: none, the tarball's, truncated, made from the host's
  procMounts, \* how many /proc file systems are mounted on it, one over the other
  procUsers,  \* the processes that keep the topmost one busy
  runs        \* starts of the script (bounds the model only)

vars == <<host, pc, faulty, files, passwd, procMounts, procUsers, runs>>

Running == {"umount", "rm", "tar", "mknod", "progs", "ln", "truncate", "sed", "etc",
            "pam", "libz", "mount", "install"}
Ended == {"idle", "refused", "aborted", "done"}

\* "homes" and ".profile" stand for what users and administrator leave in the
\* jail: the names rm's pattern * matches, and those it does not.
Kept == {".profile"}
Left == {"homes"} \cup Kept
Installed == {"dirs", "libs", "busybox", "nodes", "tools", "ash", "sh", "applets",
              "shadow", "group", "services", "pam", "libz"}

HostKind == [busybox : BOOLEAN, ash : BOOLEAN, shadow : BOOLEAN, pam : BOOLEAN, libz : BOOLEAN]

TypeOK ==
  /\ host \in HostKind
  /\ pc \in Running \cup Ended
  /\ faulty \in BOOLEAN
  /\ files \subseteq Installed \cup Left
  /\ passwd \in {"none", "tar", "empty", "host"}
  /\ procMounts \in Nat
  /\ procUsers \subseteq Process
  /\ runs \in Nat

Init ==
  /\ host \in HostKind
  /\ pc = "idle" /\ faulty = FALSE /\ runs = 0
  /\ files = {} /\ passwd = "none"
  /\ procMounts = 0 /\ procUsers = {}

\* Usage, the word "jail" in the argument, mkdir -p.
Start ==
  /\ pc \in Ended /\ runs < MaxRuns
  /\ runs' = runs + 1
  /\ faulty' \in BOOLEAN
  /\ pc' \in {"refused", "umount"} \cup IF faulty' THEN {"aborted"} ELSE {}
  /\ UNCHANGED <<host, files, passwd, procMounts, procUsers>>

-----------------------------------------------------------------------------
\* set -e holds everywhere but between the set +e of the pam branch and the
\* set -e before the mount (mutated: nowhere, or only where rm ends).
ErrExitNever(step) == FALSE
ErrExitAtRm(step) == step = "rm"
ErrExit(step) == ~(step \in {"pam", "libz"} /\ host.pam)

\* A command ended well or not: the next one, or the end of the script.
After(ok, next) == pc' = IF ok \/ ~ErrExit(pc) THEN next ELSE "aborted"

\* Copies into the jail what of wanted is missing, one at a time.
Install(wanted, next) ==
  /\ \/ \E f \in wanted \ files : files' = files \cup {f} /\ UNCHANGED pc
     \/ wanted \subseteq files /\ pc' = next /\ UNCHANGED files
  /\ UNCHANGED <<passwd, procMounts>>

\* A command that makes one thing, and cannot unless possible holds.
Make(f, possible, next) ==
  /\ \/ possible /\ files' = files \cup {f} /\ After(TRUE, next)
     \/ (~possible \/ faulty) /\ After(FALSE, next) /\ UNCHANGED files
  /\ UNCHANGED <<passwd, procMounts>>

\* umount || true: takes off the topmost mount, unless something uses it
\* (mutated: or nothing is mounted).
UmountBlindly ==
  /\ pc = "umount" /\ pc' = "rm"
  /\ procMounts' = IF procUsers = {} THEN procMounts - 1 ELSE procMounts
  /\ UNCHANGED <<files, passwd>>

Umount ==
  /\ pc = "umount" /\ pc' = "rm"
  /\ procMounts' = IF procMounts > 0 /\ procUsers = {} THEN procMounts - 1 ELSE procMounts
  /\ UNCHANGED <<files, passwd>>

\* rm -rf $JAIL/*: one name after the other, then the exit status.  A mounted
\* /proc cannot be removed; the rest is removed all the same (mutated: the
\* device nodes are spared).
MatchedButNodes == files \ (Kept \cup {"nodes"})
Matched == files \ Kept

Remove ==
  /\ pc = "rm"
  /\ \/ \E f \in Matched : files' = files \ {f} /\ UNCHANGED <<pc, passwd>>
     \/ passwd # "none" /\ passwd' = "none" /\ UNCHANGED <<pc, files>>
     \/ /\ Matched = {} /\ passwd = "none" /\ After(procMounts = 0, "tar")
        /\ UNCHANGED <<files, passwd>>
  /\ UNCHANGED procMounts

\* tar -xvf -: the tarball's own passwd file is unpacked with the rest.
Packed == {"dirs", "libs"} \cup Tarball

Unpack ==
  /\ pc = "tar"
  /\ \/ /\ passwd = "none" /\ "dirs" \in files /\ passwd' = "tar"
        /\ UNCHANGED <<pc, files, procMounts>>
     \/ Install(Packed, IF passwd = "tar" THEN "mknod" ELSE "tar")

\* mknod does not replace a node that is there.
MakeNodes == pc = "mknod" /\ Make("nodes", "nodes" \notin files, "progs")

Progs == IF host.busybox THEN {"busybox"}
         ELSE {"tools", IF host.ash THEN "ash" ELSE "sh"}
CopyProgs == pc = "progs" /\ Install(Progs, "ln")

\* test -f bin/ash && ln -s ash bin/sh: only a failing ln ends the script.
LinkShell ==
  /\ pc = "ln"
  /\ \/ "ash" \notin files /\ pc' = "truncate" /\ UNCHANGED <<files, passwd, procMounts>>
     \/ "ash" \in files /\ Make("sh", "sh" \notin files, "truncate")

\* The redirection empties the passwd file, then sed fills it.
RewritePasswd ==
  /\ \/ pc = "truncate" /\ passwd' = "empty" /\ pc' = "sed"
     \/ pc = "sed" /\ passwd' = "host" /\ pc' = "etc"
  /\ UNCHANGED <<files, procMounts>>

EtcFiles == {"group", "services"} \cup IF host.shadow THEN {"shadow"} ELSE {}
CopyEtc == pc = "etc" /\ Install(EtcFiles, "pam")

\* Under set +e: pam's files, and then libz; a host without pam.d skips the
\* first, and the set +e with it.
CopyPam ==
  \/ pc = "pam" /\ host.pam /\ Make("pam", TRUE, "libz")
  \/ pc = "pam" /\ ~host.pam /\ pc' = "libz" /\ UNCHANGED <<files, passwd, procMounts>>
CopyLibz == pc = "libz" /\ Make("libz", host.libz, "mount")

MountProc ==
  /\ pc = "mount" /\ pc' = IF host.busybox THEN "install" ELSE "done"
  /\ procMounts' = procMounts + 1
  /\ UNCHANGED <<files, passwd>>

\* busybox --install -s, inside the jail: a link for every applet, sh included.
InstallApplets == pc = "install" /\ Install({"sh", "applets"}, "done")

\* Any other command fails, or the script is killed.
Abort ==
  /\ pc \in Running /\ faulty /\ pc' = "aborted"
  /\ UNCHANGED <<files, passwd, procMounts>>

Script ==
  /\ \/ Umount \/ Remove \/ Unpack \/ MakeNodes \/ CopyProgs \/ LinkShell
     \/ RewritePasswd \/ CopyEtc \/ CopyPam \/ CopyLibz \/ MountProc
     \/ InstallApplets \/ Abort
  /\ UNCHANGED <<host, faulty, procUsers, runs>>

-----------------------------------------------------------------------------
\* Around the script: processes use the jail's /proc, files are left in the
\* jail between runs, and a reboot ends everything but the files.
UseProc ==
  /\ procMounts > 0
  /\ \E p \in Process \ procUsers : procUsers' = procUsers \cup {p}
  /\ UNCHANGED <<host, pc, faulty, files, passwd, procMounts, runs>>

LeaveProc ==
  /\ \E p \in procUsers : procUsers' = procUsers \ {p}
  /\ UNCHANGED <<host, pc, faulty, files, passwd, procMounts, runs>>

LeaveFile ==
  /\ pc \in Ended /\ "dirs" \in files
  /\ \E f \in Left \ files : files' = files \cup {f}
  /\ UNCHANGED <<host, pc, faulty, passwd, procMounts, procUsers, runs>>

Reboot ==
  /\ pc' = "idle" /\ procMounts' = 0 /\ procUsers' = {} /\ faulty' = FALSE
  /\ UNCHANGED <<host, files, passwd, runs>>

Next == Start \/ Script \/ UseProc \/ LeaveProc \/ LeaveFile \/ Reboot

Spec == Init /\ [][Next]_vars

-----------------------------------------------------------------------------
(***************************************************************************)
(* Safety                                                                  *)
(***************************************************************************)

\* Running the script again never mounts a second /proc over an earlier one,
\* although the failure of umount is ignored (line 25): rm (line 28) fails on
\* a mounted /proc, and set -e (line 11) ends the script before line 71.
AtMostOneProc == procMounts <= 1

\* Exit status 0 means a complete jail on every kind of host, however earlier
\* runs ended: the tarball's files, the device nodes, a shell, the passwd file
\* made from the host's, the other files of /etc and /proc.  What set +e lets
\* fail (lines 64-69) is all that may be missing.
Complete ==
  /\ Packed \cup {"nodes", "sh"} \cup Progs \cup EtcFiles \subseteq files
  /\ passwd = "host"
  /\ procMounts = 1

DoneMeansComplete == pc = "done" => Complete

\* Starting over works from whatever an interrupted run left: a run in which
\* no command fails by itself ends early only because the jail's /proc was in
\* use, or on a host that has neither pam.d nor libz (mknod at line 33 and ln
\* at line 56 would fail on leftovers).
RetryWorks ==
  pc = "aborted" => faulty \/ procMounts > 0 \/ ~(host.libz \/ host.pam)
=============================================================================
