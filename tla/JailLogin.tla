------------------------------ MODULE JailLogin ------------------------------
(***************************************************************************)
(* Logins (chrootshell.c) into a jail that initjail completes, completes   *)
(* again while users log in, and that reboots outlive.  The two programs   *)
(* meet in the jail's files only: what a login finds is read off the       *)
(* script's state, and a shell may keep the jail's /proc busy.             *)
(*                                                                         *)
(* InitJail is extended, its processes being the logins; ChrootShell is    *)
(* instantiated, its program counter being called step here.               *)
(***************************************************************************)
EXTENDS InitJail, Sequences

CONSTANTS
  User,       \* users whose line in the host's passwd file names the jail
  Root, Peon, \* user ids: the superuser's, theirs
  Host, Dir,  \* the root directory of the target, the jail's directory
  TarUser,    \* users that the passwd file in the tarball lists
  TarHome,    \* which of the homes the tarball holds
  Hosts,      \* kinds of target
  None        \* a NULL pointer

VARIABLES
  call, step, log, stream, pw, ruid, euid, root, cwd, myenv, newargv, why,
  ok,     \* the last run ended with status 0 (history)
  whole   \* whole[s]: ok throughout the login s (history)

loginVars == <<call, step, log, stream, pw, ruid, euid, root, cwd, myenv, newargv, why>>
systemVars == <<vars, loginVars, ok, whole>>

\* The home in a user's line: what sed makes of the jail's own path
\* (/home/fred/jail: /home/fred/), or what the tarball's passwd file says.
Home == {"mapped", "own"}
Shell == {"chrootshell", "sh"}
JailLine == [uid : {Root, Peon}, dir : Home, shell : Shell]

\* The line for fred that the header of chrootshell.c shows.
HostLine == [uid |-> Peon, dir |-> Dir, shell |-> "chrootshell"]
ASSUME JailLoginAssumption ==
  /\ TarUser \subseteq User
  /\ TarHome \subseteq Home
  /\ None \notin User \cup Shell \cup {Host, Dir}
  /\ None \notin {HostLine} \cup JailLine
  /\ Hosts \subseteq HostKind
  /\ Root # Peon /\ Host # Dir

HostPasswd == [u \in User |-> HostLine]

\* sed: the shell and the directory are replaced (mutated: only the latter).
SedDirOnly(line) == [uid |-> line.uid, dir |-> "mapped", shell |-> line.shell]
Sed(line) == [uid |-> line.uid, dir |-> "mapped", shell |-> "sh"]

\* What the jail looks like to a login.  The shell needs the libraries, and the
\* program that it is a link to.
LineOf(u) ==
  CASE passwd = "host" -> Sed(HostPasswd[u])
    [] passwd = "tar" /\ u \in TarUser -> [uid |-> Peon, dir |-> "own", shell |-> "sh"]
    [] OTHER -> None

Dirs == IF "dirs" \in files THEN TarHome ELSE {}
Runs == IF {"sh", "libs"} \cup (Progs \ {"tools"}) \subseteq files THEN {"sh"} ELSE {}

Jails == [j \in {Dir} |-> [exists |-> TRUE, passwd |-> [u \in User |-> LineOf(u)],
                            dirs |-> Dirs, progs |-> Runs]]

\* A login in order, LOGNAME included.
LoginCall(u) == [user |-> u, logname |-> u, uid |-> Peon,
                 argv0 |-> [dash |-> TRUE, name |-> "chrootshell"],
                 argc |-> 1, dashc |-> FALSE]

Login == INSTANCE ChrootShell WITH
  Session <- Process, Uid <- {Root, Peon}, Jail <- {Dir},
  Slashed <- Shell, HostLine <- {HostLine}, Call <- {LoginCall(u) : u \in User},
  JailView <- [exists : {TRUE}, passwd : [User -> JailLine \cup {None}],
               dirs : SUBSET Home, progs : SUBSET Shell],
  MaxEnv <- 20, MaxEdits <- 0, edits <- 0,
  pc <- step, hostPasswd <- HostPasswd, jail <- Jails

SystemInit ==
  /\ Init /\ host \in Hosts /\ Login!Init
  /\ ok = FALSE /\ whole = [s \in Process |-> FALSE]

-----------------------------------------------------------------------------
\* A run that is refused for its argument has touched nothing; any other makes
\* the jail incomplete until its end.
History ==
  /\ ok' = (pc' = "done" \/ (ok /\ pc' \notin Running \cup {"aborted"}))
  /\ whole' = [s \in Process |-> ok' /\ (step[s] = "fopen" \/ whole[s])]

\* The script, run by hand; nothing is left in the jail between its runs.
Administer == (Start \/ Script) /\ UNCHANGED loginVars /\ History

LoginStep(s) == Login!Step(s) /\ UNCHANGED vars /\ History

\* The logins S are over, however they ended; each may be tried again.
Anew(S) ==
  LET Reset(f, v) == [s \in Process |-> IF s \in S THEN v ELSE f[s]]
  IN  /\ step' = Reset(step, "fopen") /\ log' = Reset(log, FALSE)
      /\ stream' = Reset(stream, None) /\ pw' = Reset(pw, [from |-> None, line |-> None])
      /\ ruid' = Reset(ruid, Peon) /\ euid' = Reset(euid, Root)
      /\ root' = Reset(root, Host) /\ cwd' = Reset(cwd, Host)
      /\ myenv' = Reset(myenv, <<>>) /\ newargv' = Reset(newargv, <<>>)
      /\ why' = Reset(why, "") /\ UNCHANGED call

Again(s) ==
  /\ step[s] \in Login!Ended
  /\ Anew({s}) /\ procUsers' = procUsers \ {s}
  /\ UNCHANGED <<host, pc, faulty, files, passwd, procMounts, runs>> /\ History

\* Shells, and what they start, use the jail's /proc.
UseOrLeaveProc ==
  /\ UseProc \/ LeaveProc
  /\ \A s \in procUsers' : step[s] = "shell"
  /\ UNCHANGED loginVars /\ History

\* At boot rcS mounts what fstab lists, the jail's /proc not among it, and
\* starts telnetd and dropbear: logins are accepted again.
Boot == Reboot /\ Anew(Process) /\ History

SystemNext ==
  \/ Administer
  \/ \E s \in Process : LoginStep(s) \/ Again(s)
  \/ UseOrLeaveProc
  \/ Boot

SystemSpec == SystemInit /\ [][SystemNext]_systemVars

\* main() waits for nobody; the script may stop, and nobody need try again.
FairSystemSpec == SystemSpec /\ \A s \in Process : WF_systemVars(LoginStep(s))

-----------------------------------------------------------------------------
(***************************************************************************)
(* Safety and liveness                                                     *)
(***************************************************************************)

\* A jail that initjail has completed (initjail line 2), and that no run has
\* touched during a login, refuses that login nothing: the passwd file made by
\* sed, the links and the libraries are what chdir, getpwnam, chdir and execvp
\* of chrootshell.c (lines 155-208) need, however many runs failed or logins
\* were refused before, and after a reboot too.  (The tarball holds the homes.)
WholeJailAdmits ==
  "mapped" \in TarHome =>
    \A s \in Process : whole[s] /\ step[s] = "dead" => why[s] \in {"setuid", "malloc"}

\* A shell runs in the jail, at the home that the jail's own passwd file names,
\* under one user id and with no passwd file open (chrootshell.c lines 138-186),
\* also when initjail rebuilds that jail during the login, and after a reboot.
LoginsConfined == Login!ShellIsConfined

\* A login that begins in a completed jail comes to run its shell, whatever a
\* login before it met, unless memory or processes are short.
AdmittedAtLast ==
  "mapped" \in TarHome =>
    \A s \in Process :
      [](step[s] = "fopen" /\ [](pc = "done") => <>(step[s] = "shell" \/ Login!Starved(s)))

(***************************************************************************)
(* What the header asks of a jail and initjail does not do                 *)
(***************************************************************************)

\* "The jail's /etc/passwd file must include an entry for the jail user; this
\* entry should point to a real home directory and real shell" (chrootshell.c
\* lines 26-28), once initjail has completed the jail.
EntryIsReal ==
  ok => \A u \in User : LineOf(u) # None /\ LineOf(u).dir \in Dirs /\ LineOf(u).shell \in Runs
=============================================================================
