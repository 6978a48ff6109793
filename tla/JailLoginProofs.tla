--------------------------- MODULE JailLoginProofs ---------------------------
(***************************************************************************)
(* Proofs about JailLogin, for every set of users and processes, every     *)
(* kind of target and any number of runs, logins and reboots.              *)
(***************************************************************************)
EXTENDS JailLogin, InitJailProofs, SequenceTheorems

USE JailLoginAssumption

(***************************************************************************)
(* What a completed jail holds; nothing but a run of the script takes it   *)
(* away again.                                                             *)
(***************************************************************************)
JailWhole ==
  /\ {"dirs", "libs", "sh"} \cup Progs \subseteq files
  /\ passwd = "host"

OkInv == ok => pc \in {"idle", "refused", "done"} /\ JailWhole

\* The steps at which a login is outside, and inside, the jail.
Outside == {"fopen", "names", "lookup", "shellname", "chdir", "chroot"}
Inside == {"setuid", "jailLookup", "home", "env", "exec"}

EnvEntries == {"SHELL", "HOME", "PATH", "USER", "LOGNAME"}
                \X ({"sh", "mapped", "/bin:/usr/bin"} \cup User)

\* How far a login has come, and what it has in hand.
Track(s) ==
  /\ call[s] \in {LoginCall(u) : u \in User}
  /\ step[s] \in Outside => root[s] = Host /\ euid[s] = Root
  /\ step[s] \in {"fopen", "names", "lookup"} => stream[s] = None
  /\ step[s] \in {"shellname", "chdir", "chroot"} => pw[s].line = HostLine
  /\ step[s] = "setuid" => euid[s] = Root
  /\ step[s] \in Inside => root[s] = Dir
  /\ step[s] \in Outside \cup {"setuid", "jailLookup", "home"} => myenv[s] = <<>>
  /\ whole[s] /\ step[s] \in {"home", "env", "exec"} => pw[s].line = Sed(HostLine)
  /\ whole[s] /\ step[s] = "env" => myenv[s] \in Seq(EnvEntries)
  /\ whole[s] /\ step[s] = "dead" /\ "mapped" \in TarHome => why[s] \in {"setuid", "malloc"}
  /\ step[s] \in Outside \cup Inside \cup {"shell", "dead", "crashed"}

Domains ==
  /\ DOMAIN step = Process /\ DOMAIN stream = Process /\ DOMAIN pw = Process
  /\ DOMAIN euid = Process /\ DOMAIN root = Process /\ DOMAIN myenv = Process
  /\ DOMAIN why = Process

SInv ==
  /\ IInv
  /\ OkInv
  /\ \A s \in Process : whole[s] => ok
  /\ Domains
  /\ \A s \in Process : Track(s)

-----------------------------------------------------------------------------
\* Every step is one of the script's model, or leaves its variables alone.
LEMMA ScriptStep == SystemNext => [Next]_vars
<1> SUFFICES ASSUME SystemNext PROVE [Next]_vars
  OBVIOUS
<1>1. CASE Administer
  BY <1>1 DEF Administer, Next
<1>2. ASSUME NEW s \in Process, LoginStep(s) PROVE [Next]_vars
  BY <1>2 DEF LoginStep
<1>3. ASSUME NEW s \in Process, Again(s) PROVE [Next]_vars
  <2>1. procUsers' = procUsers \ {s} /\ UNCHANGED <<host, pc, faulty, files, passwd, procMounts, runs>>
    BY <1>3 DEF Again
  <2>2. CASE s \in procUsers
    BY <2>1, <2>2 DEF Next, LeaveProc
  <2>3. CASE s \notin procUsers
    BY <2>1, <2>3 DEF vars
  <2>. QED  BY <2>2, <2>3
<1>4. CASE UseOrLeaveProc
  BY <1>4 DEF UseOrLeaveProc, Next
<1>5. CASE Boot
  BY <1>5 DEF Boot, Next
<1>. QED  BY <1>1, <1>2, <1>3, <1>4, <1>5 DEF SystemNext

\* A jail stays whole until the script is started on it again.
LEMMA StaysWhole ==
  ASSUME SInv, SystemNext
  PROVE  IInv' /\ OkInv' /\ History
<1>1. IInv'
  BY ScriptStep, NextInv DEF SInv
<1>2. History
  BY DEF SystemNext, Administer, LoginStep, Again, UseOrLeaveProc, Boot
<1>3. ASSUME ok' PROVE pc' \in {"idle", "refused", "done"} /\ JailWhole'
  <2>1. CASE pc' = "done"
    BY <1>1, <2>1 DEF IInv, Installs, PasswdMade, JailWhole, Packed,
       FromTar, FromNodes, FromProgs, FromLn, FromEtc, FromInstall, Progs
  <2>2. CASE ok /\ pc' \notin Running \cup {"aborted"}
    <3>1. pc \in {"idle", "refused", "done"} /\ JailWhole
      BY <2>2 DEF SInv, OkInv
    <3>2. ~Script
      BY <3>1 DEF Script, Umount, Remove, Unpack, MakeNodes, CopyProgs, LinkShell, RewritePasswd,
         CopyEtc, CopyPam, CopyLibz, MountProc, InstallApplets, Abort, Running
    <3>3. files' = files /\ passwd' = passwd /\ host' = host
      BY <3>2 DEF SystemNext, Administer, Start, LoginStep, Again, UseOrLeaveProc, UseProc, LeaveProc,
         Boot, Reboot, vars
    <3>4. pc' \in Running \cup Ended
      BY <1>1 DEF IInv, TypeOK
    <3>. QED  BY <2>2, <3>1, <3>3, <3>4 DEF JailWhole, Progs, Ended
  <2>. QED  BY <1>2, <1>3, <2>1, <2>2 DEF History
<1>. QED  BY <1>1, <1>2, <1>3 DEF OkInv

\* A login begins.
LEMMA Begins ==
  ASSUME NEW s \in Process, call[s]' \in {LoginCall(u) : u \in User}, step[s]' = "fopen",
         stream[s]' = None, root[s]' = Host, euid[s]' = Root, myenv[s]' = <<>>
  PROVE  Track(s)'
BY DEF Track, Outside, Inside

\* Nothing happens to a login, and its jail is whole no more than before.
LEMMA Keeps ==
  ASSUME NEW s \in Process, Track(s), call[s]' = call[s], step[s]' = step[s],
         stream[s]' = stream[s], pw[s]' = pw[s], root[s]' = root[s], euid[s]' = euid[s],
         myenv[s]' = myenv[s], why[s]' = why[s],
         whole[s]' => whole[s] \/ step[s] = "fopen"
  PROVE  Track(s)'
<1>1. CASE step[s] = "fopen"
  BY <1>1, Begins DEF Track, Outside, Inside
<1>2. CASE step[s] # "fopen" /\ whole[s]'
  BY <1>2 DEF Track, Outside, Inside
<1>3. CASE step[s] # "fopen" /\ ~whole[s]'
  BY <1>3 DEF Track, Outside, Inside
<1>. QED  BY <1>1, <1>2, <1>3

LEMMA WholeStep ==
  ASSUME SInv, History
  PROVE  /\ \A s \in Process : whole'[s] => ok' /\ (whole[s] \/ step[s] = "fopen")
BY DEF History

\* A login whose jail is whole is not refused there.
LEMMA InsideWhole ==
  ASSUME JailWhole, NEW u \in User
  PROVE  /\ LineOf(u) = Sed(HostLine)
         /\ Jails[Dir].passwd[u] = Sed(HostLine)
         /\ "mapped" \in TarHome => "mapped" \in Jails[Dir].dirs
         /\ "sh" \in Jails[Dir].progs
<1>1. LineOf(u) = Sed(HostLine)
  BY DEF JailWhole, LineOf, HostPasswd
<1>2. "mapped" \in TarHome => "mapped" \in Dirs
  BY DEF JailWhole, Dirs
<1>3. "sh" \in Runs
  BY DEF JailWhole, Runs
<1>4. Jails[Dir] = [exists |-> TRUE, passwd |-> [v \in User |-> LineOf(v)], dirs |-> Dirs, progs |-> Runs]
  BY DEF Jails
<1>. QED  BY <1>1, <1>2, <1>3, <1>4

LEMMA JailExists == Jails[Dir].exists = TRUE
BY DEF Jails

(***************************************************************************)
(* The steps of a login: it keeps its track, and touches no other.         *)
(***************************************************************************)

LEMMA OthersKept ==
  ASSUME SInv, NEW s \in Process, Login!Step(s)
  PROVE  /\ Domains'
         /\ call' = call
         /\ \A t \in Process \ {s} :
              /\ step'[t] = step[t] /\ stream'[t] = stream[t] /\ pw'[t] = pw[t]
              /\ root'[t] = root[t] /\ euid'[t] = euid[t] /\ myenv'[t] = myenv[t]
              /\ why'[t] = why[t]
<1> USE DEF SInv, Domains, Login!Goto, Login!Die, Login!Proceed, Login!Crash, Login!Getpwnam
<1>1. CASE Login!OpenLog(s)
  BY <1>1 DEF Login!OpenLog
<1>2. CASE Login!CheckNames(s)
  BY <1>2 DEF Login!CheckNames
<1>3. CASE Login!LookupUser(s)
  BY <1>3 DEF Login!LookupUser
<1>4. CASE Login!CheckShell(s)
  BY <1>4 DEF Login!CheckShell
<1>5. CASE Login!EnterDir(s)
  BY <1>5 DEF Login!EnterDir
<1>6. CASE Login!EnterJail(s)
  BY <1>6 DEF Login!EnterJail
<1>7. CASE Login!DropRoot(s)
  BY <1>7 DEF Login!DropRoot
<1>8. CASE Login!LookupJailUser(s)
  BY <1>8 DEF Login!LookupJailUser
<1>9. CASE Login!GoHome(s)
  BY <1>9 DEF Login!GoHome
<1>10. CASE Login!FixEnvironment(s)
  BY <1>10 DEF Login!FixEnvironment
<1>11. CASE Login!Exec(s)
  BY <1>11 DEF Login!Exec
<1>. QED
  BY <1>1, <1>2, <1>3, <1>4, <1>5, <1>6, <1>7, <1>8, <1>9, <1>10, <1>11 DEF Login!Step

LEMMA OutsideStep ==
  ASSUME SInv, NEW s \in Process, History, step[s] \in Outside,
         Login!Step(s)
  PROVE  Track(s)'
<1> USE DEF SInv, Domains, Login!Goto, Login!Die, Login!Proceed, Login!Crash, Login!Getpwnam,
    Outside, Inside
<1>1. PICK u \in User : call[s] = LoginCall(u)
  BY DEF Track
<1>2. /\ call[s].user = u /\ call[s].logname = u /\ call[s].argv0.name = "chrootshell"
      /\ u # None
  BY <1>1 DEF LoginCall
<1>3. /\ HostLine.dir = Dir /\ HostLine.shell = "chrootshell" /\ "chrootshell" \in Shell
      /\ HostPasswd[u] = HostLine /\ HostLine # None
  BY DEF HostLine, HostPasswd, Shell
<1>4. call' = call /\ Domains'
  BY OthersKept
<1>5. CASE Login!OpenLog(s)
  <2>1. step' = [step EXCEPT ![s] = "names"] /\ UNCHANGED <<stream, root, euid, myenv>>
    BY <1>5 DEF Login!OpenLog
  <2>2. step[s] = "fopen"
    BY <1>5 DEF Login!OpenLog
  <2>. QED  BY <1>4, <2>1, <2>2 DEF Track
<1>6. CASE Login!CheckNames(s)
  <2>1. /\ step[s] = "names" /\ step' = [step EXCEPT ![s] = "lookup"]
        /\ UNCHANGED <<stream, root, euid, myenv>>
    BY <1>2, <1>6 DEF Login!CheckNames, Login!LognameAgrees
  <2>. QED  BY <1>4, <2>1 DEF Track
<1>7. CASE Login!LookupUser(s)
  <2>1. step[s] = "lookup" /\ root[s] = Host /\ stream[s] = None
    BY <1>7 DEF Login!LookupUser, Track
  <2>2. pw'[s].line = HostLine
    BY <1>2, <1>3, <1>7, <2>1 DEF Login!LookupUser, Login!PasswdUnder
  <2>3. step' = [step EXCEPT ![s] = "shellname"] /\ UNCHANGED <<root, euid, myenv>>
    BY <1>3, <1>7, <2>2 DEF Login!LookupUser
  <2>. QED  BY <1>4, <2>1, <2>2, <2>3 DEF Track
<1>8. CASE Login!CheckShell(s)
  <2>1. step[s] = "shellname" /\ pw[s].line = HostLine
    BY <1>8 DEF Login!CheckShell, Track
  <2>2. step' = [step EXCEPT ![s] = "chdir"] /\ UNCHANGED <<pw, root, euid, myenv>>
    BY <1>2, <1>3, <1>8, <2>1 DEF Login!CheckShell, Login!ShellMatches, Login!NameOf, Login!Line
  <2>. QED  BY <1>4, <2>1, <2>2 DEF Track
<1>9. CASE Login!EnterDir(s)
  <2>1. step[s] = "chdir" /\ pw[s].line = HostLine
    BY <1>9 DEF Login!EnterDir, Track
  <2>2. step' = [step EXCEPT ![s] = "chroot"] /\ UNCHANGED <<pw, root, euid, myenv>>
    BY <1>3, <1>9, <2>1, JailExists DEF Login!EnterDir, Login!Line
  <2>. QED  BY <1>4, <2>1, <2>2 DEF Track
<1>10. CASE Login!EnterJail(s)
  <2>1. step[s] = "chroot" /\ pw[s].line = HostLine /\ euid[s] = Root
    BY <1>10 DEF Login!EnterJail, Track
  <2>2. /\ step' = [step EXCEPT ![s] = "setuid"] /\ root' = [root EXCEPT ![s] = Dir]
        /\ UNCHANGED <<pw, euid, myenv>>
    BY <1>3, <1>10, <2>1, JailExists DEF Login!EnterJail, Login!Line
  <2>. QED  BY <1>4, <2>1, <2>2 DEF Track
<1>11. ~Login!DropRoot(s) /\ ~Login!LookupJailUser(s) /\ ~Login!GoHome(s)
       /\ ~Login!FixEnvironment(s) /\ ~Login!Exec(s)
  BY DEF Login!DropRoot, Login!LookupJailUser, Login!GoHome, Login!FixEnvironment, Login!Exec
<1>. QED  BY <1>5, <1>6, <1>7, <1>8, <1>9, <1>10, <1>11 DEF Login!Step

\* The environment that a login in order wants has five entries.
LEMMA FiveEntries ==
  ASSUME NEW s \in Process, NEW u \in User, call[s] = LoginCall(u), pw[s].line = Sed(HostLine)
  PROVE  /\ Len(Login!WantedEnv(s)) = 5
         /\ \A i \in 1..5 : Login!WantedEnv(s)[i] \in EnvEntries
<1>1. /\ pw[s].line.shell = "sh" /\ pw[s].line.dir = "mapped"
  BY DEF Sed
<1>2. call[s].user = u /\ call[s].logname = u /\ u # None
  BY DEF LoginCall
<1> DEFINE four == <<<<"SHELL", "sh">>, <<"HOME", "mapped">>, <<"PATH", "/bin:/usr/bin">>, <<"USER", u>>>>
           fifth == <<<<"LOGNAME", u>>>>
<1>3. Login!WantedEnv(s) = four \o fifth
  BY <1>1, <1>2 DEF Login!WantedEnv, Login!Line
<1>4. four \in Seq(EnvEntries) /\ Len(four) = 4
  BY DEF EnvEntries
<1>5. fifth \in Seq(EnvEntries) /\ Len(fifth) = 1
  BY DEF EnvEntries
<1>. HIDE DEF four, fifth
<1> HIDE DEF EnvEntries
<1>6. four \o fifth \in Seq(EnvEntries)
  BY <1>4, <1>5
<1>7. Len(four \o fifth) = Len(four) + Len(fifth)
  BY <1>4, <1>5, ConcatProperties, Zenon
<1>8. Login!WantedEnv(s) \in Seq(EnvEntries) /\ Len(Login!WantedEnv(s)) = 5
  <2>1. Len(four) + Len(fifth) = 5
    BY <1>4, <1>5
  <2>. QED  BY <1>3, <1>6, <1>7, <2>1, Zenon
<1>9. ASSUME NEW i \in 1..5 PROVE Login!WantedEnv(s)[i] \in EnvEntries
  <2>1. i \in 1..Len(Login!WantedEnv(s))
    BY <1>8
  <2>. QED  BY <1>8, <2>1, ElementOfSeq, Zenon
<1>. QED  BY <1>8, <1>9, Zenon

LEMMA InsideStep ==
  ASSUME SInv, NEW s \in Process, History, OkInv', UNCHANGED vars, step[s] \in Inside,
         Login!Step(s)
  PROVE  Track(s)'
<1> USE DEF SInv, Domains, Login!Goto, Login!Die, Login!Proceed, Login!Crash, Login!Getpwnam,
    Outside, Inside
<1>1. PICK u \in User : call[s] = LoginCall(u)
  BY DEF Track
<1>2. /\ call[s].user = u /\ call[s].argc = 1
  BY <1>1 DEF LoginCall
<1>3. /\ HostLine # None /\ Sed(HostLine) # None
      /\ Sed(HostLine).dir = "mapped" /\ Sed(HostLine).shell = "sh"
  BY DEF Sed, HostLine, JailLine, Home, Shell
<1>4. call' = call /\ Domains'
  BY OthersKept
<1>5. whole'[s] => whole[s] /\ JailWhole
  <2>1. whole'[s] => ok' /\ whole[s]
    BY WholeStep
  <2>2. JailWhole' = JailWhole
    BY DEF JailWhole, vars, Progs
  <2>. QED  BY <2>1, <2>2 DEF OkInv
<1>6. root[s] = Dir
  BY DEF Track
<1>7. CASE Login!DropRoot(s)
  <2>1. step[s] = "setuid" /\ euid[s] = Root /\ UNCHANGED <<pw, root, myenv>>
    BY <1>7 DEF Login!DropRoot, Track
  <2>2. CASE step' = [step EXCEPT ![s] = "jailLookup"]
    BY <1>4, <2>1, <2>2 DEF Track
  <2>3. CASE step' = [step EXCEPT ![s] = "dead"] /\ why' = [why EXCEPT ![s] = "setuid"]
    BY <1>4, <2>1, <2>3 DEF Track
  <2>. QED  BY <1>7, <2>2, <2>3 DEF Login!DropRoot
<1>8. CASE Login!LookupJailUser(s)
  <2>1. step[s] = "jailLookup" /\ UNCHANGED <<root, euid, myenv>>
    BY <1>8 DEF Login!LookupJailUser
  <2>2. whole'[s] => pw'[s].line = Sed(HostLine)
    <3>1. pw'[s].line = Jails[Dir].passwd[u]
      BY <1>2, <1>6, <1>8 DEF Login!LookupJailUser, Login!PasswdUnder, Login!AfterEndpwent
    <3>. QED  BY <1>5, <3>1, InsideWhole
  <2>3. CASE pw'[s].line = None
    <3>1. step' = [step EXCEPT ![s] = "dead"] /\ ~whole'[s]
      BY <1>3, <1>8, <2>2, <2>3 DEF Login!LookupJailUser
    <3>. QED  BY <1>4, <2>1, <3>1 DEF Track
  <2>4. CASE pw'[s].line # None
    <3>1. step' = [step EXCEPT ![s] = "home"]
      BY <1>8, <2>4 DEF Login!LookupJailUser
    <3>. QED  BY <1>4, <2>1, <2>2, <3>1 DEF Track
  <2>. QED  BY <2>3, <2>4
<1>9. CASE Login!GoHome(s)
  <2>1. step[s] = "home" /\ UNCHANGED <<pw, root, euid, myenv>>
    BY <1>9 DEF Login!GoHome
  <2>2. CASE step' = [step EXCEPT ![s] = "env"]
    <3>1. myenv'[s] = <<>>
      BY <2>1 DEF Track
    <3>2. <<>> \in Seq(EnvEntries)
      OBVIOUS
    <3>3. myenv'[s] \in Seq(EnvEntries)
      BY <3>1, <3>2, Zenon
    <3>. QED  BY <1>4, <1>5, <2>1, <2>2, <3>3 DEF Track
  <2>3. CASE step' = [step EXCEPT ![s] = "dead"] /\ "mapped" \notin Jails[Dir].dirs
    <3>1. whole'[s] => "mapped" \notin TarHome
      BY <1>5, <2>3, InsideWhole
    <3>. QED  BY <1>4, <2>1, <2>3, <3>1 DEF Track
  <2>4. CASE ~whole'[s] /\ step' = [step EXCEPT ![s] = "dead"]
    BY <1>4, <2>1, <2>4 DEF Track
  <2>5. whole'[s] => pw[s].line.dir = "mapped"
    BY <1>3, <1>5, <2>1 DEF Track
  <2>. QED  BY <1>6, <1>9, <2>2, <2>3, <2>4, <2>5 DEF Login!GoHome, Login!Line
<1>10. CASE Login!FixEnvironment(s)
  <2>1. step[s] = "env" /\ UNCHANGED <<pw, root, euid>>
    BY <1>10 DEF Login!FixEnvironment
  <2>2. CASE ~whole'[s]
    BY <1>4, <1>6, <1>10, <2>1, <2>2 DEF Login!FixEnvironment, Track
  <2>3. CASE whole'[s]
    <3>1. pw[s].line = Sed(HostLine) /\ myenv[s] \in Seq(EnvEntries)
      BY <1>5, <2>1, <2>3 DEF Track
    <3>2. Len(Login!WantedEnv(s)) = 5 /\ \A i \in 1..5 : Login!WantedEnv(s)[i] \in EnvEntries
      BY <1>1, <3>1, FiveEntries
    <3>3. Len(myenv[s]) \in Nat
      BY <3>1
    <3>4. CASE step' = [step EXCEPT ![s] = "dead"] /\ why' = [why EXCEPT ![s] = "malloc"]
      BY <1>4, <1>6, <2>1, <3>4 DEF Track
    <3>5. CASE /\ step' = step /\ Len(myenv[s]) < 5
               /\ myenv' = [myenv EXCEPT ![s] = Append(@, Login!WantedEnv(s)[Len(myenv[s]) + 1])]
      <4>1. Len(myenv[s]) + 1 \in 1..5
        BY <3>3, <3>5
      <4>2. myenv'[s] \in Seq(EnvEntries)
        BY <3>1, <3>2, <3>5, <4>1
      <4>. QED  BY <1>4, <1>5, <1>6, <2>1, <3>1, <3>5, <4>2 DEF Track
    <3>6. CASE step' = [step EXCEPT ![s] = "exec"]
      BY <1>4, <1>6, <2>1, <3>1, <3>6 DEF Track
    <3>7. ~(Len(myenv[s]) < 5 /\ Len(myenv[s]) >= 20)
      BY <3>3
    <3>. QED  BY <1>10, <3>2, <3>4, <3>5, <3>6, <3>7 DEF Login!FixEnvironment, Login!EnvFull
  <2>. QED  BY <2>2, <2>3
<1>11. CASE Login!Exec(s)
  <2>1. step[s] = "exec" /\ UNCHANGED <<pw, root, euid, myenv>>
    BY <1>11 DEF Login!Exec
  <2>2. CASE step' = [step EXCEPT ![s] = "shell"] \/ step' = [step EXCEPT ![s] = "crashed"]
    BY <1>4, <2>1, <2>2 DEF Track
  <2>3. CASE step' = [step EXCEPT ![s] = "dead"] /\ ~whole'[s]
    BY <1>4, <2>1, <2>3 DEF Track
  <2>4. CASE step' = [step EXCEPT ![s] = "dead"] /\ why' = [why EXCEPT ![s] = "malloc"]
    BY <1>4, <2>1, <2>4 DEF Track
  <2>5. Login!NewArgv(s) # <<>>
    BY <1>2 DEF Login!NewArgv
  <2>6. whole'[s] => pw[s].line.shell \in Jails[root[s]].progs
    <3>1. whole'[s] => pw[s].line = Sed(HostLine)
      BY <1>5, <2>1 DEF Track
    <3>. QED  BY <1>3, <1>5, <1>6, <3>1, InsideWhole
  <2>. QED  BY <1>11, <2>2, <2>3, <2>4, <2>5, <2>6 DEF Login!Exec, Login!Line
<1>12. ~Login!OpenLog(s) /\ ~Login!CheckNames(s) /\ ~Login!LookupUser(s) /\ ~Login!CheckShell(s)
       /\ ~Login!EnterDir(s) /\ ~Login!EnterJail(s)
  BY DEF Login!OpenLog, Login!CheckNames, Login!LookupUser, Login!CheckShell,
     Login!EnterDir, Login!EnterJail
<1>. QED  BY <1>7, <1>8, <1>9, <1>10, <1>11, <1>12 DEF Login!Step

-----------------------------------------------------------------------------
(***************************************************************************)
(* Every step of the system.                                               *)
(***************************************************************************)

LEMMA LoginKeeps ==
  ASSUME SInv, NEW s \in Process, LoginStep(s), History, OkInv'
  PROVE  Domains' /\ \A t \in Process : Track(t)'
<1>1. Login!Step(s) /\ UNCHANGED vars
  BY DEF LoginStep
<1>2. Domains'
  BY <1>1, OthersKept
<1>3. Track(s)'
  <2>1. step[s] \in Outside \cup Inside
    BY <1>1 DEF Login!Step, Login!OpenLog, Login!CheckNames, Login!LookupUser, Login!CheckShell,
       Login!EnterDir, Login!EnterJail, Login!DropRoot, Login!LookupJailUser, Login!GoHome,
       Login!FixEnvironment, Login!Exec, Outside, Inside
  <2>. QED  BY <1>1, <2>1, OutsideStep, InsideStep
<1>4. ASSUME NEW t \in Process \ {s} PROVE Track(t)'
  <2>1. /\ call' = call /\ step'[t] = step[t] /\ stream'[t] = stream[t] /\ pw'[t] = pw[t]
        /\ root'[t] = root[t] /\ euid'[t] = euid[t] /\ myenv'[t] = myenv[t] /\ why'[t] = why[t]
    BY <1>1, OthersKept
  <2>2. whole'[t] => whole[t] \/ step[t] = "fopen"
    BY WholeStep
  <2>3. Track(t)
    BY DEF SInv
  <2>. QED  BY <2>1, <2>2, <2>3, Keeps
<1>. QED  BY <1>2, <1>3, <1>4

\* The steps that leave every login as it is.
LEMMA UnchangedKeeps ==
  ASSUME SInv, UNCHANGED loginVars, History \/ UNCHANGED whole
  PROVE  Domains' /\ \A t \in Process : Track(t)'
<1>1. Domains'
  BY DEF SInv, Domains, loginVars
<1>2. ASSUME NEW t \in Process PROVE Track(t)'
  <2>1. whole'[t] => whole[t] \/ step[t] = "fopen"
    BY WholeStep
  <2>2. Track(t)
    BY DEF SInv
  <2>. QED  BY <2>1, <2>2, Keeps DEF loginVars
<1>. QED  BY <1>1, <1>2

\* The steps that begin some logins and leave the others as they are.
LEMMA AnewKeeps ==
  ASSUME SInv, NEW S \in SUBSET Process, Anew(S), History
  PROVE  Domains' /\ \A t \in Process : Track(t)'
<1>1. Domains'
  BY DEF Domains, Anew
<1>2. ASSUME NEW t \in S PROVE Track(t)'
  <2>1. call[t]' \in {LoginCall(u) : u \in User}
    BY DEF SInv, Track, Anew
  <2>2. /\ step[t]' = "fopen" /\ stream[t]' = None /\ root[t]' = Host /\ euid[t]' = Root
        /\ myenv[t]' = <<>>
    BY DEF Anew
  <2>. QED  BY <2>1, <2>2, Begins
<1>3. ASSUME NEW t \in Process \ S PROVE Track(t)'
  <2>1. /\ call' = call /\ step'[t] = step[t] /\ stream'[t] = stream[t] /\ pw'[t] = pw[t]
        /\ root'[t] = root[t] /\ euid'[t] = euid[t] /\ myenv'[t] = myenv[t] /\ why'[t] = why[t]
    BY DEF Anew
  <2>2. whole'[t] => whole[t] \/ step[t] = "fopen"
    BY WholeStep
  <2>3. Track(t)
    BY DEF SInv
  <2>. QED  BY <2>1, <2>2, <2>3, Keeps
<1>. QED  BY <1>1, <1>2, <1>3

LEMMA SystemInitInv == SystemInit => SInv
<1> SUFFICES ASSUME SystemInit PROVE SInv
  OBVIOUS
<1>1. IInv /\ ok = FALSE /\ whole = [s \in Process |-> FALSE]
  BY InitInv DEF SystemInit
<1>2. /\ call \in [Process -> {LoginCall(u) : u \in User}]
      /\ step = [s \in Process |-> "fopen"] /\ stream = [s \in Process |-> None]
      /\ pw = [s \in Process |-> [from |-> None, line |-> None]]
      /\ euid = [s \in Process |-> Root] /\ root = [s \in Process |-> Host]
      /\ myenv = [s \in Process |-> <<>>] /\ why = [s \in Process |-> ""]
  BY DEF SystemInit, Login!Init
<1>3. Domains
  BY <1>2 DEF Domains
<1>4. \A s \in Process : Track(s)
  BY <1>1, <1>2 DEF Track, Outside, Inside
<1>. QED  BY <1>1, <1>3, <1>4 DEF SInv, OkInv

LEMMA SystemNextInv == SInv /\ [SystemNext]_systemVars => SInv'
<1> SUFFICES ASSUME SInv, [SystemNext]_systemVars PROVE SInv'
  OBVIOUS
<1>1. CASE SystemNext
  <2>1. IInv' /\ OkInv' /\ History
    BY <1>1, StaysWhole
  <2>2. \A s \in Process : whole'[s] => ok'
    BY <2>1, WholeStep
  <2>3. Domains' /\ \A s \in Process : Track(s)'
    <3>1. CASE Administer \/ UseOrLeaveProc
      BY <2>1, <3>1, UnchangedKeeps DEF Administer, UseOrLeaveProc
    <3>2. ASSUME NEW s \in Process, LoginStep(s)
          PROVE  Domains' /\ \A t \in Process : Track(t)'
      BY <2>1, <3>2, LoginKeeps
    <3>3. ASSUME NEW s \in Process, Again(s)
          PROVE  Domains' /\ \A t \in Process : Track(t)'
      BY <2>1, <3>3, AnewKeeps DEF Again
    <3>4. CASE Boot
      BY <2>1, <3>4, AnewKeeps DEF Boot
    <3>. QED  BY <1>1, <3>1, <3>2, <3>3, <3>4 DEF SystemNext
  <2>. QED  BY <2>1, <2>2, <2>3 DEF SInv
<1>2. CASE UNCHANGED systemVars
  <2>1. IInv'
    BY <1>2, NextInv DEF SInv, systemVars
  <2>2. OkInv' /\ \A s \in Process : whole'[s] => ok'
    BY <1>2 DEF SInv, OkInv, JailWhole, Progs, systemVars, vars
  <2>3. Domains' /\ \A s \in Process : Track(s)'
    BY <1>2, UnchangedKeeps DEF systemVars
  <2>. QED  BY <2>1, <2>2, <2>3 DEF SInv
<1>. QED  BY <1>1, <1>2

LEMMA SystemInvariance == SystemSpec => []SInv
BY SystemInitInv, SystemNextInv, PTL DEF SystemSpec

\* On every kind of target, for any number of users, logins, runs of initjail
\* and reboots: a login that nobody disturbs by another run is refused nothing
\* in a jail that the last run has completed (initjail lines 28-71 against
\* chrootshell.c lines 109-208).
THEOREM WholeAdmits == SystemSpec => []WholeJailAdmits
<1>1. SInv => WholeJailAdmits
  BY DEF SInv, Track, WholeJailAdmits
<1>. QED  BY SystemInvariance, <1>1, PTL

\* The composition adds nothing to what the script does: every behaviour of the
\* system is one of initjail's own model, so the theorems of InitJailProofs hold
\* of a target with logins as well.
THEOREM ScriptUnchanged == SystemSpec => Spec
<1>1. SystemInit => Init
  BY DEF SystemInit
<1>2. [SystemNext]_systemVars => [Next]_vars
  BY ScriptStep DEF systemVars
<1>. QED  BY <1>1, <1>2, PTL DEF SystemSpec, Spec

-----------------------------------------------------------------------------
(***************************************************************************)
(* Confinement while the script may be at work.                            *)
(***************************************************************************)
Entered == {"jailLookup", "home", "env", "exec", "shell"}
AtHome == {"env", "exec", "shell"}

\* What a login has entered and read is the jail's own, whatever the script does.
Confined(s) ==
  /\ step[s] \in Entered => root[s] = Dir /\ ruid[s] = euid[s]
  /\ step[s] \in Entered \ {"jailLookup"} => pw[s].from = Dir
  /\ step[s] \in AtHome => cwd[s] = <<Dir, pw[s].line.dir>>
  /\ step[s] = "shell" => stream[s] = None

CInv == DOMAIN ruid = Process /\ DOMAIN cwd = Process /\ \A s \in Process : Confined(s)

\* A step of a login keeps it confined.
LEMMA ConfinedStep ==
  ASSUME SInv, CInv, NEW s \in Process, Login!Step(s)
  PROVE  Confined(s)'
<1> USE DEF SInv, Domains, CInv, Confined, Entered, AtHome, Login!Goto, Login!Die, Login!Proceed,
            Login!Crash, Login!Line
<1>1. CASE Login!OpenLog(s) \/ Login!CheckNames(s) \/ Login!CheckShell(s)
  BY <1>1 DEF Login!OpenLog, Login!CheckNames, Login!CheckShell
<1>2. CASE Login!LookupUser(s)
  BY <1>2 DEF Login!LookupUser
<1>3. CASE Login!EnterDir(s) \/ Login!EnterJail(s)
  BY <1>3 DEF Login!EnterDir, Login!EnterJail
<1>4. CASE Login!DropRoot(s)
  <2>1. root[s] = Dir BY <1>4 DEF Login!DropRoot, Track, Inside
  <2>. QED  BY <1>4, <2>1 DEF Login!DropRoot
<1>5. CASE Login!LookupJailUser(s)
  <2>1. root[s] = Dir /\ pw'[s].from = root[s]
    BY <1>5 DEF Login!LookupJailUser, Login!Getpwnam, Login!AfterEndpwent
  <2>2. UNCHANGED <<root, ruid, euid>> /\ step'[s] \in {"home", "dead"}
    BY <1>5 DEF Login!LookupJailUser
  <2>. QED  BY <1>5, <2>1, <2>2 DEF Login!LookupJailUser
<1>6. CASE Login!GoHome(s)
  BY <1>6 DEF Login!GoHome
<1>7. CASE Login!FixEnvironment(s)
  <2>1. UNCHANGED <<root, ruid, euid, pw, cwd>> /\ step[s] = "env" /\ step'[s] \in {"env", "exec", "dead"}
    BY <1>7 DEF Login!FixEnvironment
  <2>. QED  BY <2>1
<1>8. CASE Login!Exec(s)
  <2>1. UNCHANGED <<root, ruid, euid, pw, cwd>> /\ step[s] = "exec" /\ stream'[s] = None
        /\ step'[s] \in {"shell", "dead", "crashed"}
    BY <1>8 DEF Login!Exec, Login!AfterEndpwent
  <2>. QED  BY <2>1
<1>. QED  BY <1>1, <1>2, <1>3, <1>4, <1>5, <1>6, <1>7, <1>8 DEF Login!Step

\* It touches no other login's ids or directory.
LEMMA IdsKept ==
  ASSUME SInv, CInv, NEW s \in Process, Login!Step(s)
  PROVE  /\ DOMAIN ruid' = Process /\ DOMAIN cwd' = Process
         /\ \A t \in Process \ {s} : ruid'[t] = ruid[t] /\ cwd'[t] = cwd[t]
BY DEF CInv, Login!Step, Login!OpenLog, Login!CheckNames, Login!LookupUser, Login!CheckShell,
       Login!EnterDir, Login!EnterJail, Login!DropRoot, Login!LookupJailUser, Login!GoHome,
       Login!FixEnvironment, Login!Exec

LEMMA CNext == SInv /\ CInv /\ [SystemNext]_systemVars => CInv'
<1> SUFFICES ASSUME SInv, CInv, [SystemNext]_systemVars PROVE CInv'
  OBVIOUS
<1>1. ASSUME NEW s \in Process, LoginStep(s) PROVE CInv'
  <2>1. Login!Step(s) BY <1>1 DEF LoginStep
  <2>2. Confined(s)' BY <2>1, ConfinedStep
  <2>3. ASSUME NEW t \in Process \ {s} PROVE Confined(t)'
    <3>1. /\ step'[t] = step[t] /\ stream'[t] = stream[t] /\ pw'[t] = pw[t]
          /\ root'[t] = root[t] /\ euid'[t] = euid[t]
      BY <2>1, OthersKept
    <3>2. ruid'[t] = ruid[t] /\ cwd'[t] = cwd[t] BY <2>1, IdsKept
    <3>3. Confined(t) BY DEF CInv
    <3>. QED  BY <3>1, <3>2, <3>3 DEF Confined
  <2>. QED  BY <2>1, <2>2, <2>3, IdsKept DEF CInv
<1>2. ASSUME NEW S \in SUBSET Process, Anew(S) PROVE CInv'
  <2>0. /\ step' = [s \in Process |-> IF s \in S THEN "fopen" ELSE step[s]]
        /\ stream' = [s \in Process |-> IF s \in S THEN None ELSE stream[s]]
        /\ pw' = [s \in Process |-> IF s \in S THEN [from |-> None, line |-> None] ELSE pw[s]]
        /\ ruid' = [s \in Process |-> IF s \in S THEN Peon ELSE ruid[s]]
        /\ euid' = [s \in Process |-> IF s \in S THEN Root ELSE euid[s]]
        /\ root' = [s \in Process |-> IF s \in S THEN Host ELSE root[s]]
        /\ cwd' = [s \in Process |-> IF s \in S THEN Host ELSE cwd[s]]
    BY <1>2, Zenon DEF Anew
  <2>1. ASSUME NEW t \in S PROVE Confined(t)'
    <3>1. step'[t] = "fopen" BY <2>0, <2>1
    <3>. QED  BY <3>1 DEF Confined, Entered, AtHome
  <2>2. ASSUME NEW t \in Process \ S PROVE Confined(t)'
    <3>1. /\ step'[t] = step[t] /\ stream'[t] = stream[t] /\ pw'[t] = pw[t] /\ root'[t] = root[t]
          /\ euid'[t] = euid[t] /\ ruid'[t] = ruid[t] /\ cwd'[t] = cwd[t]
      BY <2>0
    <3>2. Confined(t) BY DEF CInv
    <3>. QED  BY <3>1, <3>2 DEF Confined
  <2>3. DOMAIN ruid' = Process /\ DOMAIN cwd' = Process BY <2>0
  <2>. QED  BY <2>1, <2>2, <2>3 DEF CInv
<1>3. CASE UNCHANGED loginVars
  BY <1>3 DEF loginVars, CInv, Confined
<1>. QED
  BY <1>1, <1>2, <1>3 DEF SystemNext, Administer, Again, UseOrLeaveProc, Boot, systemVars

\* However the script and the logins interleave, and for any number of users,
\* logins, runs and reboots: a shell is confined to the jail.
THEOREM ShellsConfined == SystemSpec => []LoginsConfined
<1>1. SystemInit => CInv
  <2> SUFFICES ASSUME SystemInit PROVE CInv
    OBVIOUS
  <2>1. /\ step = [s \in Process |-> "fopen"] /\ ruid = [s \in Process |-> call[s].uid]
        /\ cwd = [s \in Process |-> Host]
    BY Zenon DEF SystemInit, Login!Init
  <2>. QED  BY <2>1 DEF CInv, Confined, Entered, AtHome
<1>2. SInv /\ CInv /\ [SystemNext]_systemVars => CInv'
  BY CNext
<1>3. CInv => LoginsConfined
  BY DEF CInv, Confined, Entered, AtHome, LoginsConfined, Login!ShellIsConfined, Login!Line
<1>. QED  BY SystemInvariance, <1>1, <1>2, <1>3, PTL DEF SystemSpec


-----------------------------------------------------------------------------
(***************************************************************************)
(* A login ends, whatever initjail does meanwhile.                         *)
(***************************************************************************)

\* What a login has stored of its environment.
Stored(s) ==
  step[s] = "env" => (\E S : myenv[s] \in Seq(S)) /\ Len(myenv[s]) <= 5

StoredInv == SInv /\ \A s \in Process : Stored(s)

\* How many steps of its own a login can still make at most.
StepsLeft(s) ==
  CASE step[s] = "fopen" -> 16
    [] step[s] = "names" -> 15
    [] step[s] = "lookup" -> 14
    [] step[s] = "shellname" -> 13
    [] step[s] = "chdir" -> 12
    [] step[s] = "chroot" -> 11
    [] step[s] = "setuid" -> 10
    [] step[s] = "jailLookup" -> 9
    [] step[s] = "home" -> 8
    [] step[s] = "env" -> 7 - Len(myenv[s])
    [] step[s] = "exec" -> 1
    [] OTHER -> 0

\* LOGNAME is one of at most five variables.
LEMMA WantedFew ==
  ASSUME NEW s \in Process
  PROVE  Len(Login!WantedEnv(s)) \in {4, 5}
<1> DEFINE four == <<<<"SHELL", Login!Line(s).shell>>, <<"HOME", Login!Line(s).dir>>,
                     <<"PATH", "/bin:/usr/bin">>, <<"USER", call[s].user>>>>
           fifth == <<<<"LOGNAME", call[s].user>>>>
<1>1. CASE call[s].logname = None
  <2>1. Login!WantedEnv(s) = four \o <<>> BY <1>1 DEF Login!WantedEnv
  <2>2. Len(four \o <<>>) = 4 OBVIOUS
  <2>. QED  BY <2>1, <2>2
<1>2. CASE call[s].logname # None
  <2>1. Login!WantedEnv(s) = four \o fifth BY <1>2 DEF Login!WantedEnv
  <2>2. Len(four \o fifth) = 5 OBVIOUS
  <2>. QED  BY <2>1, <2>2
<1>. QED  BY <1>1, <1>2

\* A step of a login stores at most one variable more, and uses up a step.
LEMMA Fewer ==
  ASSUME StoredInv, NEW s \in Process, Login!Step(s)
  PROVE  Stored(s)' /\ StepsLeft(s)' < StepsLeft(s) /\ StepsLeft(s)' <= StepsLeft(s)
<1>0. Domains /\ Domains' /\ Track(s)
  BY OthersKept DEF StoredInv, SInv
<1>1. CASE ~Login!FixEnvironment(s)
  <2>1. \/ step[s] = "fopen" /\ step'[s] = "names"
        \/ step[s] = "names" /\ step'[s] \in {"lookup", "dead"}
        \/ step[s] = "lookup" /\ step'[s] \in {"shellname", "dead"}
        \/ step[s] = "shellname" /\ step'[s] \in {"chdir", "dead", "crashed"}
        \/ step[s] = "chdir" /\ step'[s] \in {"chroot", "dead"}
        \/ step[s] = "chroot" /\ step'[s] \in {"setuid", "dead"}
        \/ step[s] = "setuid" /\ step'[s] \in {"jailLookup", "dead"}
        \/ step[s] = "jailLookup" /\ step'[s] \in {"home", "dead"}
        \/ step[s] = "home" /\ step'[s] \in {"env", "dead"} /\ myenv' = myenv
        \/ step[s] = "exec" /\ step'[s] \in {"shell", "dead", "crashed"}
    BY <1>0, <1>1 DEF Login!Step, Login!OpenLog, Login!CheckNames, Login!LookupUser, Login!CheckShell,
       Login!EnterDir, Login!EnterJail, Login!DropRoot, Login!LookupJailUser, Login!GoHome, Login!Exec,
       Login!Goto, Login!Proceed, Login!Die, Login!Crash, Domains
  <2>2. step[s] = "home" => myenv[s] = <<>> BY <1>0 DEF Track
  <2>3. Len(<<>>) = 0 /\ <<>> \in Seq({}) OBVIOUS
  <2>4. CASE step[s] = "home" /\ step'[s] = "env" /\ myenv' = myenv
    <3>1. myenv'[s] = <<>> BY <2>2, <2>4
    <3>2. StepsLeft(s) = 8 /\ StepsLeft(s)' = 7 BY <2>3, <2>4, <3>1 DEF StepsLeft
    <3>. QED  BY <2>3, <3>1, <3>2 DEF Stored
  <2>5. CASE ~(step[s] = "home" /\ step'[s] = "env" /\ myenv' = myenv)
    <3>1. Stored(s)' BY <2>1, <2>5 DEF Stored
    <3>2. StepsLeft(s)' < StepsLeft(s) BY <2>1, <2>5 DEF StepsLeft
    <3>3. StepsLeft(s)' <= StepsLeft(s) BY <2>1, <2>5 DEF StepsLeft
    <3>. QED  BY <3>1, <3>2, <3>3
  <2>. QED  BY <2>4, <2>5
<1>2. CASE Login!FixEnvironment(s)
  <2>1. step[s] = "env" BY <1>2 DEF Login!FixEnvironment
  <2>2. PICK S : myenv[s] \in Seq(S) BY <2>1 DEF StoredInv, Stored
  <2>3. PICK used \in Nat : Len(myenv[s]) = used BY <2>2
  <2>4. PICK wanted \in 4..5 : Len(Login!WantedEnv(s)) = wanted BY WantedFew
  <2>5. used <= 5 BY <2>1, <2>3 DEF StoredInv, Stored
  <2>6. StepsLeft(s) = 7 - used BY <2>1, <2>3 DEF StepsLeft
  <2>7. \/ step'[s] \in {"dead", "exec"}
        \/ /\ used < wanted /\ step' = step
           /\ myenv' = [myenv EXCEPT ![s] = Append(@, Login!WantedEnv(s)[used + 1])]
    BY <1>0, <1>2, <2>3, <2>4 DEF Login!FixEnvironment, Login!Goto, Login!Proceed, Login!Die, Domains
  <2>8. CASE step'[s] \in {"dead", "exec"}
    <3>1. StepsLeft(s)' \in {0, 1} BY <2>8 DEF StepsLeft
    <3>. QED  BY <2>5, <2>6, <2>8, <3>1 DEF Stored
  <2>9. CASE /\ used < wanted /\ step' = step
             /\ myenv' = [myenv EXCEPT ![s] = Append(@, Login!WantedEnv(s)[used + 1])]
    <3> DEFINE v == Login!WantedEnv(s)[used + 1]
    <3>1. myenv'[s] = Append(myenv[s], v) BY <1>0, <2>9 DEF Domains
    <3> HIDE DEF v
    <3>2. myenv[s] \in Seq(S \cup {v}) BY <2>2
    <3>3. Len(myenv'[s]) = used + 1 /\ myenv'[s] \in Seq(S \cup {v})
      BY <2>3, <3>1, <3>2
    <3>4. StepsLeft(s)' = 7 - (used + 1) BY <2>1, <2>9, <3>3 DEF StepsLeft
    <3>5. Stored(s)' BY <2>9, <3>3 DEF Stored
    <3>. QED  BY <2>6, <3>4, <3>5
  <2>. QED  BY <2>7, <2>8, <2>9
<1>. QED  BY <1>1, <1>2

\* A login that has steps left has not ended, and the other way round.
LEMMA Counted ==
  ASSUME StoredInv, NEW s \in Process
  PROVE  StepsLeft(s) \in 0..16 /\ (StepsLeft(s) = 0 <=> step[s] \in Login!Ended)
<1>1. step[s] \in Outside \cup Inside \cup {"shell", "dead", "crashed"}
  BY DEF StoredInv, SInv, Track
<1>2. CASE step[s] = "env"
  <2>1. PICK S : myenv[s] \in Seq(S) BY <1>2 DEF StoredInv, Stored
  <2>2. PICK used \in Nat : Len(myenv[s]) = used BY <2>1
  <2>3. used <= 5 BY <1>2, <2>2 DEF StoredInv, Stored
  <2>4. StepsLeft(s) = 7 - used BY <1>2, <2>2 DEF StepsLeft
  <2>. QED  BY <1>2, <2>3, <2>4 DEF Login!Ended
<1>3. CASE step[s] \in (Outside \cup Inside) \ {"env"}
  <2>1. StepsLeft(s) \in {16, 15, 14, 13, 12, 11, 10, 9, 8, 1}
    BY <1>3 DEF StepsLeft, Outside, Inside
  <2>2. step[s] \notin Login!Ended BY <1>3 DEF Login!Ended, Outside, Inside
  <2>. QED  BY <2>1, <2>2
<1>4. CASE step[s] \in {"shell", "dead", "crashed"}
  <2>1. StepsLeft(s) = 0 BY <1>4 DEF StepsLeft
  <2>. QED  BY <1>4, <2>1 DEF Login!Ended
<1>. QED  BY <1>1, <1>2, <1>3, <1>4

\* No other login, no run of the script and no process in the jail changes what
\* a login has stored and where it stands; only a new try does.
LEMMA OnlyOwnSteps ==
  ASSUME StoredInv, SystemNext, NEW s \in Process, ~LoginStep(s)
  PROVE  /\ Stored(s)'
         /\ \/ step'[s] = step[s] /\ myenv'[s] = myenv[s]
            \/ Again(s) \/ Boot
<1>1. ASSUME NEW t \in Process \ {s}, LoginStep(t)
      PROVE  step'[s] = step[s] /\ myenv'[s] = myenv[s]
  BY <1>1, OthersKept DEF StoredInv, LoginStep
<1>2. ASSUME NEW S \in SUBSET Process, Anew(S)
      PROVE  /\ s \in S => step'[s] = "fopen"
             /\ s \notin S => step'[s] = step[s] /\ myenv'[s] = myenv[s]
  <2>1. /\ step' = [t \in Process |-> IF t \in S THEN "fopen" ELSE step[t]]
        /\ myenv' = [t \in Process |-> IF t \in S THEN <<>> ELSE myenv[t]]
    BY <1>2, Zenon DEF Anew
  <2>. QED  BY <2>1
<1>3. CASE step'[s] = step[s] /\ myenv'[s] = myenv[s]
  BY <1>3 DEF StoredInv, Stored
<1>4. CASE Again(s)
  <2>1. Anew({s}) /\ {s} \in SUBSET Process /\ s \in {s} BY <1>4 DEF Again
  <2>2. step'[s] = "fopen" BY <1>2, <2>1
  <2>. QED  BY <1>4, <2>2 DEF Stored
<1>5. CASE Boot
  <2>1. Anew(Process) /\ Process \in SUBSET Process BY <1>5 DEF Boot
  <2>2. step'[s] = "fopen" BY <1>2, <2>1
  <2>. QED  BY <1>5, <2>2 DEF Stored
<1>6. ASSUME NEW t \in Process \ {s}, Again(t)
      PROVE  step'[s] = step[s] /\ myenv'[s] = myenv[s]
  <2>1. Anew({t}) /\ {t} \in SUBSET Process /\ s \notin {t} BY <1>6 DEF Again
  <2>. QED  BY <1>2, <2>1
<1>7. CASE UNCHANGED loginVars
  BY <1>3, <1>7 DEF loginVars
<1>. QED  BY <1>1, <1>3, <1>4, <1>5, <1>6, <1>7 DEF SystemNext, Administer, UseOrLeaveProc

LEMMA StoredInvariance == SystemSpec => []StoredInv
<1>1. SystemInit => \A s \in Process : Stored(s)
  <2> SUFFICES ASSUME SystemInit PROVE \A s \in Process : Stored(s)
    OBVIOUS
  <2>1. step = [s \in Process |-> "fopen"] BY Zenon DEF SystemInit, Login!Init
  <2>. QED  BY <2>1 DEF Stored
<1>2. SInv /\ (\A s \in Process : Stored(s)) /\ [SystemNext]_systemVars
        => (\A s \in Process : Stored(s))'
  <2> SUFFICES ASSUME StoredInv, [SystemNext]_systemVars, NEW s \in Process
               PROVE  Stored(s)'
    BY DEF StoredInv
  <2>1. CASE LoginStep(s) BY <2>1, Fewer DEF LoginStep
  <2>2. CASE SystemNext /\ ~LoginStep(s) BY <2>2, OnlyOwnSteps
  <2>3. CASE UNCHANGED systemVars BY <2>3 DEF systemVars, loginVars, StoredInv, Stored
  <2>. QED  BY <2>1, <2>2, <2>3
<1>. QED  BY SystemInvariance, <1>1, <1>2, PTL DEF SystemSpec, StoredInv

\* A login takes at most sixteen steps of its own, and has none left only when
\* it has ended; nothing that initjail, the other logins or the jail's processes
\* do gives it one back, short of a new try or a reboot.
THEOREM LoginsEnd ==
  ASSUME NEW s \in Process
  PROVE  SystemSpec =>
           /\ [](StepsLeft(s) \in 0..16 /\ (StepsLeft(s) = 0 <=> step[s] \in Login!Ended))
           /\ [][/\ LoginStep(s) => StepsLeft(s)' < StepsLeft(s)
                 /\ Again(s) \/ Boot \/ StepsLeft(s)' <= StepsLeft(s)]_systemVars
<1>1. StoredInv /\ [SystemNext]_systemVars =>
        [/\ LoginStep(s) => StepsLeft(s)' < StepsLeft(s)
         /\ Again(s) \/ Boot \/ StepsLeft(s)' <= StepsLeft(s)]_systemVars
  <2> SUFFICES ASSUME StoredInv, SystemNext
               PROVE  /\ LoginStep(s) => StepsLeft(s)' < StepsLeft(s)
                      /\ Again(s) \/ Boot \/ StepsLeft(s)' <= StepsLeft(s)
    OBVIOUS
  <2>1. CASE LoginStep(s) BY <2>1, Fewer DEF LoginStep
  <2>2. CASE ~LoginStep(s) /\ step'[s] = step[s] /\ myenv'[s] = myenv[s]
    <3>1. StepsLeft(s)' = StepsLeft(s) BY <2>2 DEF StepsLeft
    <3>2. StepsLeft(s) \in 0..16 BY Counted
    <3>. QED  BY <2>2, <3>1, <3>2
  <2>3. CASE ~LoginStep(s) /\ (Again(s) \/ Boot) BY <2>3
  <2>. QED  BY <2>1, <2>2, <2>3, OnlyOwnSteps
<1>2. StoredInv => StepsLeft(s) \in 0..16 /\ (StepsLeft(s) = 0 <=> step[s] \in Login!Ended)
  BY Counted
<1>. QED  BY StoredInvariance, <1>1, <1>2, PTL DEF SystemSpec
=============================================================================
