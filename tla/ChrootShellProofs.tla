-------------------------- MODULE ChrootShellProofs --------------------------
(***************************************************************************)
(* Proofs about ChrootShell, for every set of sessions, users, jails and   *)
(* passwd lines, and every MAXENV.                                         *)
(***************************************************************************)
EXTENDS ChrootShell, TLAPS

(***************************************************************************)
(* The inductive invariant: what each step of main() may rely on because   *)
(* of the steps before it.                                                 *)
(***************************************************************************)
Unnamed == {"fopen", "names"}                       \* USER not yet checked
Outer == {"fopen", "names", "lookup"}               \* nothing looked up yet
Granted == {"shellname", "chdir", "chroot", "setuid"}
InJail == {"jailLookup", "home", "env", "exec", "shell"}
KnowsHome == {"home", "env", "exec", "shell"}
AtHome == {"env", "exec", "shell"}

NamesChecked(s) ==
  pc[s] \in {"lookup"} \cup Granted \cup InJail => call[s].user # None /\ LognameAgrees(s)

\* The first lookup reads the host's file: nothing is open, nothing entered.
OuterIsHost(s) ==
  /\ pc[s] \in Outer => stream[s] = None
  /\ pc[s] \in Outer \cup Granted /\ pc[s] # "setuid" => root[s] = Host
  /\ pc[s] \in Outer \cup Granted => euid[s] = Root

GrantHeld(s) ==
  /\ pc[s] \in Granted => Line(s) \in HostLine
  /\ pc[s] = "setuid" => root[s] = Line(s).dir

Dropped(s) == pc[s] \in InJail => root[s] \in Jail /\ ruid[s] = euid[s]

HomeKnown(s) ==
  /\ pc[s] \in KnowsHome => pw[s].from = root[s] /\ Line(s) \in JailLine
  /\ pc[s] \in AtHome => cwd[s] = <<root[s], Line(s).dir>>
  /\ pc[s] = "shell" => stream[s] = None

\* myenv is the part of the wanted environment stored so far.
EnvSoFar(s) ==
  /\ Len(myenv[s]) <= MaxEnv
  /\ pc[s] \in Outer \cup Granted \cup {"jailLookup", "home"} => myenv[s] = <<>>
  /\ pc[s] \in AtHome =>
       /\ Len(myenv[s]) <= Len(WantedEnv(s))
       /\ \A i \in 1 .. Len(myenv[s]) : myenv[s][i] = WantedEnv(s)[i]
  /\ pc[s] \in {"exec", "shell"} => myenv[s] = WantedEnv(s)

SessionInv(s) ==
  /\ NamesChecked(s) /\ OuterIsHost(s) /\ GrantHeld(s)
  /\ Dropped(s) /\ HomeKnown(s) /\ EnvSoFar(s)

IInv == TypeOK /\ \A s \in Session : SessionInv(s)

USE ConstantsAssumption
-----------------------------------------------------------------------------
\* What a step of one process leaves alone: everything of every other one.
Same(t) ==
  /\ call'[t] = call[t] /\ pc'[t] = pc[t] /\ stream'[t] = stream[t] /\ pw'[t] = pw[t]
  /\ ruid'[t] = ruid[t] /\ euid'[t] = euid[t] /\ root'[t] = root[t] /\ cwd'[t] = cwd[t]
  /\ myenv'[t] = myenv[t] /\ newargv'[t] = newargv[t]

\* A process reads and writes no state of another one (every variable of
\* main() is the process's own).
LEMMA OthersSame ==
  ASSUME TypeOK, NEW s \in Session, NEW t \in Session, t # s, Step(s)
  PROVE  Same(t)
<1>1. CASE OpenLog(s)
  BY <1>1 DEF TypeOK, Same, Goto, Die, Proceed, Crash, OpenLog
<1>2. CASE CheckNames(s)
  BY <1>2 DEF TypeOK, Same, Goto, Die, Proceed, Crash, CheckNames
<1>3. CASE LookupUser(s)
  BY <1>3 DEF TypeOK, Same, Goto, Die, Proceed, Crash, LookupUser, Getpwnam
<1>4. CASE CheckShell(s)
  BY <1>4 DEF TypeOK, Same, Goto, Die, Proceed, Crash, CheckShell
<1>5. CASE EnterDir(s)
  BY <1>5 DEF TypeOK, Same, Goto, Die, Proceed, Crash, EnterDir
<1>6. CASE EnterJail(s)
  BY <1>6 DEF TypeOK, Same, Goto, Die, Proceed, Crash, EnterJail
<1>7. CASE DropRoot(s)
  BY <1>7 DEF TypeOK, Same, Goto, Die, Proceed, Crash, DropRoot
<1>8. CASE LookupJailUser(s)
  BY <1>8 DEF TypeOK, Same, Goto, Die, Proceed, Crash, LookupJailUser, Getpwnam, AfterEndpwent
<1>9. CASE GoHome(s)
  BY <1>9 DEF TypeOK, Same, Goto, Die, Proceed, Crash, GoHome
<1>10. CASE FixEnvironment(s)
  BY <1>10 DEF TypeOK, Same, Goto, Die, Proceed, Crash, FixEnvironment
<1>11. CASE Exec(s)
  BY <1>11 DEF TypeOK, Same, Goto, Die, Proceed, Crash, Exec, AfterEndpwent
<1>. QED  BY <1>1, <1>2, <1>3, <1>4, <1>5, <1>6, <1>7, <1>8, <1>9, <1>10, <1>11 DEF Step

\* What is true of a process stays true while others move.
LEMMA SameInv ==
  ASSUME NEW t \in Session, Same(t), SessionInv(t)
  PROVE  SessionInv(t)'
<1>1. Line(t)' = Line(t) /\ WantedEnv(t)' = WantedEnv(t) /\ LognameAgrees(t)' = LognameAgrees(t)
  BY DEF Same, Line, WantedEnv, LognameAgrees
<1>. QED
  BY <1>1 DEF Same, SessionInv, NamesChecked, OuterIsHost, GrantHeld, Dropped, HomeKnown, EnvSoFar

-----------------------------------------------------------------------------
\* What a lookup returns: a host line from the host's file, a jail's line
\* from a jail's, or nothing.
LEMMA LookupType ==
  ASSUME TypeOK, NEW u \in User
  PROVE  /\ PasswdUnder(Host)[u] \in HostLine \cup {None}
         /\ \A j \in Jail : PasswdUnder(j)[u] \in JailLine \cup {None}
BY DEF TypeOK, PasswdUnder

\* The fields of the lines.
LEMMA LineFields ==
  /\ \A l \in HostLine : l \in [uid : Uid, dir : Jail, shell : Shell] /\ l # None
  /\ \A l \in JailLine : l.uid \in Uid /\ l.dir \in Home /\ l.shell \in Shell /\ l # None
BY DEF JailLine

EnvVar == {"SHELL", "HOME", "PATH", "USER", "LOGNAME"}
            \X (Shell \cup Home \cup User \cup {"/bin:/usr/bin"})

LEMMA WantedEnvType ==
  ASSUME NEW s \in Session, TypeOK, Line(s) \in JailLine, call[s].user \in User
  PROVE  WantedEnv(s) \in Seq(EnvVar)
<1>1. Line(s).shell \in Shell /\ Line(s).dir \in Home
  BY LineFields
<1> DEFINE four == <<<<"SHELL", Line(s).shell>>, <<"HOME", Line(s).dir>>,
                     <<"PATH", "/bin:/usr/bin">>, <<"USER", call[s].user>>>>
           fifth == <<<<"LOGNAME", call[s].user>>>>
<1>2. four \in Seq(EnvVar)
  BY <1>1 DEF EnvVar
<1>3. fifth \in Seq(EnvVar)
  BY DEF EnvVar
<1>4. WantedEnv(s) = four \o (IF call[s].logname = None THEN <<>> ELSE fifth)
  BY DEF WantedEnv
<1>5. CASE call[s].logname = None
  <2>1. WantedEnv(s) = four \o <<>>
    BY <1>4, <1>5
  <2> HIDE DEF four
  <2>. QED  BY <1>2, <2>1
<1>6. CASE call[s].logname # None
  <2>1. WantedEnv(s) = four \o fifth
    BY <1>4, <1>6
  <2> HIDE DEF four, fifth
  <2>. QED  BY <1>2, <1>3, <2>1
<1>. QED  BY <1>5, <1>6

\* A step keeps the types, given what holds of the process that makes it.
LEMMA TypeStep ==
  ASSUME TypeOK, NEW s \in Session, SessionInv(s), Step(s), UNCHANGED envVars
  PROVE  TypeOK'
<1> USE DEF envVars
<1>0. call[s].user \in User \cup {None} /\ call[s].argc \in Nat /\ call[s].argv0 \in Argv0
  BY DEF TypeOK
<1>1. CASE OpenLog(s)
  <2>1. log' \in [Session -> BOOLEAN]
    BY <1>1, Zenon DEF TypeOK, OpenLog
  <2>. QED  BY <1>1, <2>1 DEF TypeOK, Goto, Proceed, Steps, Ended, Reasons, OpenLog
<1>2. CASE CheckNames(s)
  BY <1>2 DEF TypeOK, Goto, Die, Proceed, Crash, Steps, Ended, Reasons, CheckNames
<1>3. CASE LookupUser(s)
  <2>1. root[s] \in {Host} /\ call[s].user \in User
    BY <1>0, <1>3 DEF LookupUser, TypeOK, SessionInv, NamesChecked, OuterIsHost, Outer
  <2>2. PICK keep \in {None, root[s]} :
          /\ stream' = [stream EXCEPT ![s] = keep]
          /\ pw' = [pw EXCEPT ![s] = [from |-> root[s], line |-> PasswdUnder(root[s])[call[s].user]]]
    BY <1>3 DEF LookupUser, Getpwnam, SessionInv, OuterIsHost, Outer
  <2>3. PasswdUnder(root[s])[call[s].user] \in HostLine \cup JailLine \cup {None}
    BY <2>1, LookupType
  <2>4. stream' \in [Session -> {None, Host} \cup Jail]
    BY <2>1, <2>2 DEF TypeOK
  <2>5. pw' \in [Session -> [from : {None, Host} \cup Jail,
                            line : HostLine \cup JailLine \cup {None}]]
    BY <2>1, <2>2, <2>3 DEF TypeOK
  <2>. QED
    BY <1>3, <2>4, <2>5 DEF TypeOK, Goto, Die, Proceed, Steps, Ended, Reasons, LookupUser
<1>4. CASE CheckShell(s)
  BY <1>4 DEF TypeOK, Goto, Die, Proceed, Crash, Steps, Ended, Reasons, CheckShell
<1>5. CASE EnterDir(s)
  BY LineFields, <1>5 DEF TypeOK, Goto, Die, Proceed, Crash, Steps, Ended, Reasons, EnterDir, GrantHeld, Granted, SessionInv
<1>6. CASE EnterJail(s)
  BY LineFields, <1>6 DEF TypeOK, Goto, Die, Proceed, Crash, Steps, Ended, Reasons, EnterJail, GrantHeld, Granted, SessionInv
<1>7. CASE DropRoot(s)
  BY LineFields, <1>7 DEF TypeOK, Goto, Die, Proceed, Crash, Steps, Ended, Reasons, DropRoot, GrantHeld, Granted, SessionInv
<1>8. CASE LookupJailUser(s)
  <2>1. root[s] \in Jail /\ call[s].user \in User
    BY <1>0, <1>8 DEF LookupJailUser, TypeOK, SessionInv, NamesChecked, Dropped, InJail
  <2>2. PICK keep \in {None, root[s]} :
          /\ stream' = [stream EXCEPT ![s] = keep]
          /\ pw' = [pw EXCEPT ![s] = [from |-> root[s], line |-> PasswdUnder(root[s])[call[s].user]]]
    BY <1>8 DEF LookupJailUser, Getpwnam, AfterEndpwent
  <2>3. PasswdUnder(root[s])[call[s].user] \in HostLine \cup JailLine \cup {None}
    BY <2>1, LookupType
  <2>4. stream' \in [Session -> {None, Host} \cup Jail]
    BY <2>1, <2>2 DEF TypeOK
  <2>5. pw' \in [Session -> [from : {None, Host} \cup Jail,
                            line : HostLine \cup JailLine \cup {None}]]
    BY <2>1, <2>2, <2>3 DEF TypeOK
  <2>. QED
    BY <1>8, <2>4, <2>5 DEF TypeOK, Goto, Die, Proceed, Steps, Ended, Reasons, LookupJailUser
<1>9. CASE GoHome(s)
  <2>1. root[s] \in Jail /\ Line(s).dir \in Home
    BY <1>9, LineFields DEF GoHome, SessionInv, HomeKnown, Dropped, KnowsHome, InJail
  <2>2. <<root[s], Line(s).dir>> \in Jail \X Home
    BY <2>1
  <2>3. cwd' = cwd \/ cwd' = [cwd EXCEPT ![s] = <<root[s], Line(s).dir>>]
    BY <1>9 DEF GoHome
  <2> DEFINE place == <<root[s], Line(s).dir>>
  <2> HIDE DEF place
  <2>4. cwd' \in [Session -> {Host} \cup Jail \cup (Jail \X Home)]
    BY <2>2, <2>3 DEF TypeOK, place
  <2>. QED  BY <1>9, <2>4 DEF TypeOK, Goto, Die, Proceed, Steps, Ended, Reasons, GoHome
<1>10. CASE FixEnvironment(s)
  <2>1. WantedEnv(s) \in Seq(EnvVar)
    BY <1>10, <1>0, WantedEnvType
    DEF FixEnvironment, SessionInv, HomeKnown, NamesChecked, KnowsHome, InJail
  <2>2. myenv[s] \in Seq(EnvVar)
    BY DEF TypeOK, EnvVar
  <2>3. myenv'[s] \in Seq(EnvVar)
    <3>1. CASE myenv' = myenv
      BY <2>2, <3>1
    <3>2. CASE /\ Len(myenv[s]) < Len(WantedEnv(s))
               /\ myenv' = [myenv EXCEPT ![s] = Append(@, WantedEnv(s)[Len(myenv[s]) + 1])]
      <4>1. Len(myenv[s]) + 1 \in 1 .. Len(WantedEnv(s))
        BY <2>1, <2>2, <3>2
      <4>2. WantedEnv(s)[Len(myenv[s]) + 1] \in EnvVar
        BY <2>1, <4>1
      <4>. QED  BY <2>2, <3>2, <4>2 DEF TypeOK
    <3>. QED  BY <1>10, <3>1, <3>2 DEF FixEnvironment
  <2>4. myenv' \in [Session -> Seq(EnvVar)]
    BY <1>10, <2>3 DEF FixEnvironment, TypeOK, EnvVar
  <2>5. pc' \in [Session -> Steps \cup Ended] /\ why' \in [Session -> Reasons]
    BY <1>10 DEF TypeOK, Goto, Die, Proceed, Steps, Ended, Reasons, FixEnvironment
  <2>. QED  BY <1>10, <2>4, <2>5 DEF TypeOK, FixEnvironment, EnvVar
<1>11. CASE Exec(s)
  <2>1. Line(s).shell \in Shell
    BY <1>11, LineFields DEF Exec, SessionInv, HomeKnown, KnowsHome
  <2>2. NewArgv(s) \in Seq(Word \cup {None})
    <3> DEFINE W == Word \cup {None}
               sh == Plain(Line(s).shell)
               dash == [dash |-> TRUE, name |-> Line(s).shell]
               last == IF call[s].argc = 2 THEN None ELSE Plain("command")
    <3>1. sh \in W /\ dash \in W /\ Plain("-c") \in W /\ last \in W /\ None \in W
      BY <2>1 DEF Plain, Word
    <3>2. NewArgv(s) \in {<<dash, None>>, <<sh, Plain("-c"), last, None>>, <<>>}
      BY DEF NewArgv
    <3> HIDE DEF W, sh, dash, last
    <3>3. /\ <<dash, None>> \in Seq(W)
          /\ <<sh, Plain("-c"), last, None>> \in Seq(W)
          /\ <<>> \in Seq(W)
      BY <3>1
    <3>4. NewArgv(s) \in Seq(W)
      BY <3>2, <3>3, Zenon
    <3>. QED  BY <3>4 DEF W
  <2>3. newargv' \in [Session -> Seq(Word \cup {None})]
    BY <1>11, <2>2 DEF Exec, TypeOK
  <2>4. \/ why' = why
        \/ \E reason \in {"malloc", "argv", "exec"} : why' = [why EXCEPT ![s] = reason]
    BY <1>11, Zenon DEF Exec, Die, Proceed, Crash
  <2>5. \E step \in {"dead", "crashed", "shell"} : pc' = [pc EXCEPT ![s] = step]
    BY <1>11, Zenon DEF Exec, Die, Proceed, Crash, Goto
  <2>6. why' \in [Session -> Reasons]
    BY <2>4 DEF TypeOK, Reasons
  <2>7. pc' \in [Session -> Steps \cup Ended]
    BY <2>5 DEF TypeOK, Ended
  <2>. QED  BY <1>11, <2>3, <2>6, <2>7 DEF TypeOK, Exec, AfterEndpwent
<1>. QED  BY <1>1, <1>2, <1>3, <1>4, <1>5, <1>6, <1>7, <1>8, <1>9, <1>10, <1>11 DEF Step

-----------------------------------------------------------------------------
\* WantedEnv depends on the process's line and call only.
LEMMA WantedEnvSame ==
  ASSUME NEW s \in Session, pw'[s] = pw[s], call'[s] = call[s]
  PROVE  WantedEnv(s)' = WantedEnv(s) /\ Line(s)' = Line(s) /\ LognameAgrees(s)' = LognameAgrees(s)
BY DEF WantedEnv, Line, LognameAgrees

\* A step of a process keeps what the later steps of that process rely on.
LEMMA SelfStep ==
  ASSUME TypeOK, NEW s \in Session, SessionInv(s), Step(s), UNCHANGED envVars
  PROVE  SessionInv(s)'
<1> USE DEF envVars
<1>1. CASE OpenLog(s)
  BY WantedEnvSame, <1>1 DEF TypeOK, Goto, Die, Proceed, Crash, OpenLog, SessionInv, NamesChecked, OuterIsHost, GrantHeld, Dropped, HomeKnown, Line, Outer, Granted, InJail, KnowsHome, AtHome, LognameAgrees, EnvSoFar
<1>2. CASE CheckNames(s)
  BY WantedEnvSame, <1>2 DEF TypeOK, Goto, Die, Proceed, Crash, CheckNames, SessionInv, NamesChecked, OuterIsHost, GrantHeld, Dropped, HomeKnown, Line, Outer, Granted, InJail, KnowsHome, AtHome, LognameAgrees, EnvSoFar
<1>3. CASE LookupUser(s)
  BY LookupType, <1>3 DEF TypeOK, Goto, Die, Proceed, Crash, LookupUser, Getpwnam, AfterEndpwent, SessionInv, NamesChecked, OuterIsHost, GrantHeld, Dropped, HomeKnown, Line, Outer, Granted, InJail, KnowsHome, AtHome, LognameAgrees, EnvSoFar
<1>4. CASE CheckShell(s)
  BY WantedEnvSame, <1>4 DEF TypeOK, Goto, Die, Proceed, Crash, CheckShell, SessionInv, NamesChecked, OuterIsHost, GrantHeld, Dropped, HomeKnown, Line, Outer, Granted, InJail, KnowsHome, AtHome, LognameAgrees, EnvSoFar
<1>5. CASE EnterDir(s)
  BY WantedEnvSame, <1>5 DEF TypeOK, Goto, Die, Proceed, Crash, EnterDir, SessionInv, NamesChecked, OuterIsHost, GrantHeld, Dropped, HomeKnown, Line, Outer, Granted, InJail, KnowsHome, AtHome, LognameAgrees, EnvSoFar
<1>6. CASE EnterJail(s)
  BY WantedEnvSame, <1>6 DEF TypeOK, Goto, Die, Proceed, Crash, EnterJail, SessionInv, NamesChecked, OuterIsHost, GrantHeld, Dropped, HomeKnown, Line, Outer, Granted, InJail, KnowsHome, AtHome, LognameAgrees, EnvSoFar
<1>7. CASE DropRoot(s)
  BY WantedEnvSame, <1>7 DEF TypeOK, Goto, Die, Proceed, Crash, DropRoot, SessionInv, NamesChecked, OuterIsHost, GrantHeld, Dropped, HomeKnown, Line, Outer, Granted, InJail, KnowsHome, AtHome, LognameAgrees, EnvSoFar
<1>8. CASE LookupJailUser(s)
  BY LookupType, <1>8 DEF TypeOK, Goto, Die, Proceed, Crash, LookupJailUser, Getpwnam, AfterEndpwent, SessionInv, NamesChecked, OuterIsHost, GrantHeld, Dropped, HomeKnown, Line, Outer, Granted, InJail, KnowsHome, AtHome, LognameAgrees, EnvSoFar
<1>9. CASE GoHome(s)
  BY WantedEnvSame, <1>9 DEF TypeOK, Goto, Die, Proceed, Crash, GoHome, SessionInv, NamesChecked, OuterIsHost, GrantHeld, Dropped, HomeKnown, Line, Outer, Granted, InJail, KnowsHome, AtHome, LognameAgrees, EnvSoFar
<1>10. CASE FixEnvironment(s)
  <2> DEFINE used == Len(myenv[s])
             wanted == WantedEnv(s)
  <2>0. pc[s] = "env"
    BY <1>10 DEF FixEnvironment
  <2>1. wanted' = wanted /\ Line(s)' = Line(s) /\ LognameAgrees(s)' = LognameAgrees(s)
    BY <1>10, WantedEnvSame DEF FixEnvironment
  <2>2. /\ used <= Len(wanted) /\ used <= MaxEnv
        /\ \A i \in 1 .. used : myenv[s][i] = wanted[i]
    BY <2>0 DEF SessionInv, EnvSoFar, AtHome
  <2>3. myenv[s] \in Seq(EnvVar) /\ wanted \in Seq(EnvVar)
    <3>1. myenv[s] \in Seq(EnvVar) /\ call[s].user \in User \cup {None}
      BY DEF TypeOK, EnvVar
    <3>2. Line(s) \in JailLine /\ call[s].user # None
      BY <2>0 DEF SessionInv, HomeKnown, NamesChecked, KnowsHome, InJail
    <3>. QED  BY <3>1, <3>2, WantedEnvType
  <2>4. EnvSoFar(s)'
    <3>1. CASE pc'[s] = "dead" /\ myenv' = myenv
      BY <2>2, <3>1 DEF EnvSoFar, Outer, Granted, AtHome
    <3>2. CASE /\ used < Len(wanted) /\ ~EnvFull(used) /\ pc' = pc
               /\ myenv' = [myenv EXCEPT ![s] = Append(@, wanted[used + 1])]
      <4>1. myenv'[s] = Append(myenv[s], wanted[used + 1])
        BY <3>2 DEF TypeOK
      <4> DEFINE old == myenv[s]
                 new == Append(myenv[s], wanted[used + 1])
      <4>2. wanted[used + 1] \in EnvVar
        BY <2>3, <3>2
      <4>3. Len(new) = used + 1 /\ new[used + 1] = wanted[used + 1]
            /\ \A i \in 1 .. used : new[i] = myenv[s][i]
        BY <2>3, <4>2
      <4>4. used + 1 <= Len(wanted) /\ used + 1 <= MaxEnv
        BY <2>3, <3>2 DEF EnvFull
      <4>5. \A i \in 1 .. used + 1 : new[i] = wanted[i]
        BY <2>2, <2>3, <4>3
      <4> HIDE DEF new, used, wanted
      <4>. QED
        BY <2>0, <2>1, <3>2, <4>1, <4>3, <4>4, <4>5 DEF EnvSoFar, Outer, Granted, AtHome, new, wanted
    <3>3. CASE used >= Len(wanted) /\ pc'[s] = "exec" /\ myenv' = myenv
      <4>1. myenv[s] = wanted
        BY <2>2, <2>3, <3>3
      <4>. QED  BY <2>1, <2>2, <3>3, <4>1 DEF EnvSoFar, Outer, Granted, AtHome
    <3>. QED
      BY <1>10, <3>1, <3>2, <3>3 DEF FixEnvironment, TypeOK, Goto, Die, Proceed
  <2>5. pc'[s] \in {"env", "exec", "dead"}
    BY <1>10, <2>0 DEF FixEnvironment, TypeOK, Goto, Die, Proceed
  <2>. QED
    BY <1>10, <2>0, <2>1, <2>4, <2>5 DEF FixEnvironment, SessionInv, NamesChecked, OuterIsHost,
       GrantHeld, Dropped, HomeKnown, Outer, Granted, InJail, KnowsHome, AtHome
<1>11. CASE Exec(s)
  BY WantedEnvSame, <1>11 DEF TypeOK, Goto, Die, Proceed, Crash, Exec, AfterEndpwent, SessionInv, NamesChecked, OuterIsHost, GrantHeld, Dropped, HomeKnown, Line, Outer, Granted, InJail, KnowsHome, AtHome, LognameAgrees, EnvSoFar
<1>. QED  BY <1>1, <1>2, <1>3, <1>4, <1>5, <1>6, <1>7, <1>8, <1>9, <1>10, <1>11 DEF Step

-----------------------------------------------------------------------------
\* A process starts with nothing entered, dropped, opened or stored.
LEMMA InitInv == Init => IInv
<1> SUFFICES ASSUME Init PROVE IInv
  OBVIOUS
<1>1. call \in [Session -> Call]
  BY DEF Init
<1>2. \A s \in Session : call[s].uid \in Uid
  BY <1>1
<1>3. /\ ruid \in [Session -> Uid]
      /\ myenv \in [Session -> Seq(EnvVar)]
      /\ newargv \in [Session -> Seq(Word \cup {None})]
  <2>1. ruid = [s \in Session |-> call[s].uid] /\ myenv = [s \in Session |-> <<>>]
        /\ newargv = [s \in Session |-> <<>>]
    BY DEF Init
  <2>2. <<>> \in Seq(EnvVar) /\ <<>> \in Seq(Word \cup {None})
    OBVIOUS
  <2>3. ruid \in [Session -> Uid]
    BY <1>2, <2>1
  <2>. QED  BY <2>1, <2>2, <2>3, Zenon
<1>4. /\ log \in [Session -> BOOLEAN]
      /\ why \in [Session -> Reasons]
      /\ pc \in [Session -> Steps \cup Ended]
      /\ pw \in [Session -> [from : {None, Host} \cup Jail,
                            line : HostLine \cup JailLine \cup {None}]]
  BY DEF Init, Reasons, Steps
<1>5. TypeOK
  BY <1>1, <1>3, <1>4 DEF Init, TypeOK, EnvVar
<1>6. ASSUME NEW s \in Session PROVE SessionInv(s)
  <2>1. /\ pc[s] = "fopen" /\ stream[s] = None /\ root[s] = Host /\ euid[s] = Root
        /\ myenv[s] = <<>>
    BY DEF Init
  <2>. QED
    BY <2>1 DEF SessionInv, NamesChecked, OuterIsHost, GrantHeld, Dropped, HomeKnown, EnvSoFar,
       Outer, Granted, InJail, KnowsHome, AtHome
<1>. QED  BY <1>5, <1>6 DEF IInv

\* Every step of a process and every edit keeps the invariant.
LEMMA NextInv == IInv /\ [Next]_vars => IInv'
<1> SUFFICES ASSUME IInv, [Next]_vars PROVE IInv'
  OBVIOUS
<1>1. ASSUME NEW s \in Session, Step(s), UNCHANGED envVars PROVE IInv'
  <2>1. TypeOK'
    BY <1>1, TypeStep DEF IInv
  <2>2. SessionInv(s)'
    BY <1>1, SelfStep DEF IInv
  <2>3. ASSUME NEW t \in Session, t # s PROVE SessionInv(t)'
    <3>1. Same(t)
      BY <1>1, <2>3, OthersSame DEF IInv
    <3>. QED  BY <3>1, SameInv DEF IInv
  <2>. QED  BY <2>1, <2>2, <2>3 DEF IInv
<1>2. ASSUME UNCHANGED sesVars, TypeOK' PROVE IInv'
  <2>1. ASSUME NEW t \in Session PROVE Same(t)
    BY <1>2 DEF sesVars, Same
  <2>. QED  BY <1>2, <2>1, SameInv DEF IInv
<1>3. CASE EditHost /\ UNCHANGED sesVars
  BY <1>2, <1>3 DEF EditHost, IInv, TypeOK, sesVars
<1>4. CASE EditJail /\ UNCHANGED sesVars
  BY <1>2, <1>4 DEF EditJail, IInv, TypeOK, sesVars
<1>5. CASE UNCHANGED vars
  BY <1>2, <1>5 DEF vars, sesVars, IInv, TypeOK
<1>. QED  BY <1>1, <1>3, <1>4, <1>5 DEF Next

LEMMA Invariance == Spec => []IInv
BY InitInv, NextInv, PTL DEF Spec

\* Every variable of every process keeps its type, however the passwd files and
\* the jails are edited.
THEOREM TypeCorrect == Spec => []TypeOK
BY Invariance, PTL DEF IInv

\* No field is read through a null pointer, or from the wrong file: a process
\* that has passed the first lookup (line 138) and not yet the second holds a
\* line of the host's file, and one that has passed the second (line 164) holds
\* a line of the file in its own root directory.
LinesProvided ==
  \A s \in Session :
    /\ pc[s] \in Granted => Line(s) \in HostLine
    /\ pc[s] \in KnowsHome => Line(s) \in JailLine /\ pw[s].from = root[s] /\ root[s] \in Jail

\* Every step that reads a user's line reads one that a lookup gave (LinesProvided).
THEOREM NoLineIsNull == Spec => []LinesProvided
<1>1. IInv => LinesProvided
  BY DEF IInv, SessionInv, GrantHeld, HomeKnown, Dropped, KnowsHome, InJail, LinesProvided
<1>. QED  BY Invariance, <1>1, PTL

\* Whatever the passwd files and the jails hold and however they are edited, a
\* shell runs only inside a jail, at the home its own passwd file names, under
\* one user id, with no passwd file open.
THEOREM Confinement == Spec => []ShellIsConfined
<1>1. IInv => ShellIsConfined
  BY DEF IInv, SessionInv, Dropped, HomeKnown, InJail, KnowsHome, AtHome, ShellIsConfined
<1>. QED  BY Invariance, <1>1, PTL

\* No login that the header's items 1 and 3 exclude runs a shell.
THEOREM ExcludedAbort == Spec => []DocumentedAborts
<1>1. IInv => DocumentedAborts
  BY LineFields DEF IInv, SessionInv, NamesChecked, HomeKnown, InJail, KnowsHome, LognameAgrees,
     DocumentedAborts
<1>. QED  BY Invariance, <1>1, PTL

\* For every value of MAXENV, mysetenv stores at most MAXENV variables, and a
\* shell has all of those wanted for it.
THEOREM EnvironmentFits == Spec => []EnvFits
<1>1. IInv => EnvFits
  BY DEF IInv, SessionInv, EnvSoFar, EnvFits
<1>. QED  BY Invariance, <1>1, PTL

-----------------------------------------------------------------------------
\* The vector built for the shell fits the memory allocated for it.
LEMMA NewArgvLen ==
  ASSUME NEW s \in Session, call[s].argc \in Nat \ {0}
  PROVE  Len(NewArgv(s)) <= Slots(s)
<1>1. CASE call[s].argc = 1
  <2>1. NewArgv(s) = <<[dash |-> TRUE, name |-> Line(s).shell], None>>
    BY <1>1 DEF NewArgv
  <2>2. Len(NewArgv(s)) = 2
    BY <2>1
  <2>. QED  BY <1>1, <2>2 DEF Slots
<1>2. CASE call[s].argc # 1 /\ call[s].dashc
  <2> DEFINE last == IF call[s].argc = 2 THEN None ELSE Plain("command")
             sh == Plain(Line(s).shell)
             dash == Plain("-c")
  <2>1. NewArgv(s) = <<sh, dash, last, None>>
    BY <1>2 DEF NewArgv
  <2> HIDE DEF last, sh, dash
  <2>2. Len(NewArgv(s)) = 4
    BY <2>1
  <2>. QED  BY <1>2, <2>2 DEF Slots
<1>3. CASE call[s].argc # 1 /\ ~call[s].dashc
  <2>1. Len(NewArgv(s)) = 0
    BY <1>3 DEF NewArgv
  <2>. QED  BY <2>1 DEF Slots
<1>. QED  BY <1>1, <1>2, <1>3

\* Whatever argument vector the program is started with, it stores no pointer
\* past the (argc + 3) it has allocated.
THEOREM ArgvBounded == Spec => []ArgvFits
<1>1. Init => ArgvFits
  <2> SUFFICES ASSUME Init, NEW s \in Session PROVE Len(newargv[s]) <= Slots(s)
    BY DEF ArgvFits
  <2>1. newargv[s] = <<>> /\ call \in [Session -> Call]
    BY DEF Init
  <2>2. call[s].argc \in Nat
    BY <2>1
  <2>. QED  BY <2>1, <2>2 DEF Slots
<1>2. TypeOK /\ ArgvFits /\ [Next]_vars => ArgvFits'
  <2> SUFFICES ASSUME TypeOK, ArgvFits, [Next]_vars, NEW t \in Session
               PROVE  Len(newargv'[t]) <= Slots(t)'
    BY DEF ArgvFits
  <2>1. call' = call
    BY DEF Next, vars, sesVars, Step, OpenLog, CheckNames, LookupUser, CheckShell, EnterDir,
       EnterJail, DropRoot, LookupJailUser, GoHome, FixEnvironment, Exec
  <2>2. Slots(t)' = Slots(t) /\ call[t].argc \in Nat \ {0}
    BY <2>1 DEF Slots, TypeOK
  <2>3. newargv' = newargv
        \/ \E s \in Session : newargv' = [newargv EXCEPT ![s] = NewArgv(s)]
    BY DEF Next, vars, sesVars, Step, OpenLog, CheckNames, LookupUser, CheckShell, EnterDir,
       EnterJail, DropRoot, LookupJailUser, GoHome, FixEnvironment, Exec
  <2>4. newargv'[t] \in {newargv[t], NewArgv(t)}
    BY <2>3 DEF TypeOK
  <2>. QED  BY <2>2, <2>4, NewArgvLen DEF ArgvFits
<1>. QED  BY TypeCorrect, <1>1, <1>2, PTL DEF Spec

-----------------------------------------------------------------------------
\* A running shell has the vector that was built for it.
HasVector(s) == pc[s] = "shell" => newargv[s] = NewArgv(s) /\ NewArgv(s) # <<>>

LEMMA VectorInv == Spec => [](\A s \in Session : HasVector(s))
<1>1. Init => \A s \in Session : HasVector(s)
  BY DEF Init, HasVector
<1>2. TypeOK /\ (\A s \in Session : HasVector(s)) /\ [Next]_vars => (\A s \in Session : HasVector(s))'
  <2> SUFFICES ASSUME TypeOK, \A s \in Session : HasVector(s), [Next]_vars, NEW t \in Session
               PROVE  HasVector(t)'
    OBVIOUS
  <2>1. CASE Same(t)
    <3>1. NewArgv(t)' = NewArgv(t)
      BY <2>1 DEF NewArgv, Line, Same
    <3>. QED  BY <2>1, <3>1 DEF HasVector, Same
  <2>2. CASE Step(t) /\ ~Exec(t)
    <3>1. pc'[t] # "shell"
      BY <2>2 DEF Step, OpenLog, CheckNames, LookupUser, CheckShell, EnterDir, EnterJail, DropRoot,
         LookupJailUser, GoHome, FixEnvironment, Goto, Proceed, Die, Crash, TypeOK
    <3>. QED  BY <3>1 DEF HasVector
  <2>3. CASE Exec(t)
    <3>1. pw' = pw /\ call' = call
      BY <2>3 DEF Exec
    <3>2. NewArgv(t)' = NewArgv(t)
      BY <3>1 DEF NewArgv, Line
    <3>3. pc'[t] = "shell" => newargv' = [newargv EXCEPT ![t] = NewArgv(t)] /\ NewArgv(t) # <<>>
      BY <2>3 DEF Exec, Goto, Proceed, Die, Crash, TypeOK
    <3>. QED  BY <3>2, <3>3 DEF HasVector, TypeOK
  <2>4. CASE UNCHANGED sesVars
    BY <2>1, <2>4 DEF sesVars, Same
  <2>. QED  BY <2>1, <2>2, <2>3, <2>4, OthersSame DEF Next, vars, sesVars
<1>. QED  BY TypeCorrect, <1>1, <1>2, PTL DEF Spec

\* HOME is the directory the shell runs in and SHELL the program it is, by
\* the jail's passwd file.
THEOREM EnvironmentAgrees == Spec => []EnvAgreesWithShell
<1>1. IInv /\ (\A s \in Session : HasVector(s)) => EnvAgreesWithShell
  <2> SUFFICES ASSUME IInv, NEW s \in Session, HasVector(s), pc[s] = "shell"
               PROVE  /\ \E i \in DOMAIN myenv[s] : myenv[s][i] = <<"HOME", cwd[s][2]>>
                      /\ \E i \in DOMAIN myenv[s] :
                           /\ myenv[s][i][1] = "SHELL"
                           /\ NameOf(newargv[s][1]) = myenv[s][i][2]
    BY DEF EnvAgreesWithShell
  <2>1. /\ myenv[s] = WantedEnv(s) /\ cwd[s] = <<root[s], Line(s).dir>>
        /\ newargv[s] = NewArgv(s) /\ NewArgv(s) # <<>>
    BY DEF IInv, SessionInv, EnvSoFar, HomeKnown, AtHome, HasVector
  <2>2. /\ 1 \in DOMAIN WantedEnv(s) /\ WantedEnv(s)[1] = <<"SHELL", Line(s).shell>>
        /\ 2 \in DOMAIN WantedEnv(s) /\ WantedEnv(s)[2] = <<"HOME", Line(s).dir>>
    <3> DEFINE Env(rest) == <<<<"SHELL", Line(s).shell>>, <<"HOME", Line(s).dir>>,
                              <<"PATH", "/bin:/usr/bin">>, <<"USER", call[s].user>>>> \o rest
    <3>1. \/ WantedEnv(s) = Env(<<>>)
          \/ WantedEnv(s) = Env(<<<<"LOGNAME", call[s].user>>>>)
      BY DEF WantedEnv
    <3>2. CASE WantedEnv(s) = Env(<<>>)
      BY <3>2
    <3>3. CASE WantedEnv(s) = Env(<<<<"LOGNAME", call[s].user>>>>)
      BY <3>3
    <3>. QED  BY <3>1, <3>2, <3>3
  <2>3. NewArgv(s)[1] \in {[dash |-> TRUE, name |-> Line(s).shell], Plain(Line(s).shell)}
    BY <2>1 DEF NewArgv
  <2>4. NameOf(NewArgv(s)[1]) = Line(s).shell
    BY <2>3 DEF NameOf, Plain
  <2>. QED  BY <2>1, <2>2, <2>4
<1>. QED  BY Invariance, VectorInv, <1>1, PTL

-----------------------------------------------------------------------------
(***************************************************************************)
(* Refinement                                                              *)
(***************************************************************************)
\* What the mapping shows of a process changes only with its own state and,
\* as long as it has not looked its user up, with the host's file.
LEMMA SameMapped ==
  ASSUME NEW t \in Session, Same(t)
  PROVE  /\ PhaseOf(t)' = PhaseOf(t) /\ GrantOf(t)' = GrantOf(t) /\ ViewOf(t)' = ViewOf(t)
         /\ hostPasswd' = hostPasswd => Offer(t)' = Offer(t)
<1>1. PhaseOf(t)' = PhaseOf(t)
  BY DEF Same, PhaseOf
<1>2. RunsAs(t)' = RunsAs(t) /\ Line(t)' = Line(t)
  BY DEF Same, RunsAs, Line
<1>3. GrantOf(t)' = GrantOf(t)
  BY <1>1, <1>2 DEF GrantOf, IdentityOf
<1>4. ViewOf(t)' = ViewOf(t)
  BY <1>1, <1>2 DEF ViewOf
<1>5. hostPasswd' = hostPasswd => Offer(t)' = Offer(t)
  BY DEF Same, Offer
<1>. QED  BY <1>1, <1>3, <1>4, <1>5

\* s moves in the abstract specification, no other process does, and the
\* host's file does not change.
OnlyMoves(s) ==
  /\ \A t \in Session : Offer(t)' = Offer(t)
  /\ \A t \in Session \ {s} :
       PhaseOf(t)' = PhaseOf(t) /\ GrantOf(t)' = GrantOf(t) /\ ViewOf(t)' = ViewOf(t)

Stays(s) == PhaseOf(s)' = PhaseOf(s) /\ GrantOf(s)' = GrantOf(s) /\ ViewOf(s)' = ViewOf(s)

LEMMA StepMovesOne ==
  ASSUME TypeOK, NEW s \in Session, Step(s), UNCHANGED envVars
  PROVE  OnlyMoves(s)
<1>1. ASSUME NEW t \in Session \ {s}
      PROVE  /\ PhaseOf(t)' = PhaseOf(t) /\ GrantOf(t)' = GrantOf(t) /\ ViewOf(t)' = ViewOf(t)
             /\ Offer(t)' = Offer(t)
  BY OthersSame, SameMapped DEF envVars
<1>2. call' = call
  BY DEF Step, OpenLog, CheckNames, LookupUser, CheckShell, EnterDir, EnterJail, DropRoot,
     LookupJailUser, GoHome, FixEnvironment, Exec
<1>3. Offer(s)' = Offer(s)
  BY <1>2 DEF Offer, envVars
<1>. QED  BY <1>1, <1>3 DEF OnlyMoves

\* The abstract actions, read through the mapping.
LEMMA MappedActions ==
  ASSUME NEW s \in Session, OnlyMoves(s)
  PROVE  /\ Stays(s) => UNCHANGED Gate!vars
         /\ /\ PhaseOf(s) = "host" /\ GrantOf(s)' \in Offer(s)
            /\ PhaseOf(s)' = "granted" /\ ViewOf(s)' = ViewOf(s)
            => Gate!Grant(s)
         /\ /\ PhaseOf(s) = "granted" /\ ViewOf(s)' = GrantOf(s)
            /\ PhaseOf(s)' = "confined" /\ GrantOf(s)' = GrantOf(s)
            => Gate!Confine(s)
         /\ /\ PhaseOf(s) = "confined" /\ PhaseOf(s)' = "shell"
            /\ GrantOf(s)' = GrantOf(s) /\ ViewOf(s)' = ViewOf(s)
            => Gate!Start(s)
         /\ /\ PhaseOf(s) \notin {"shell", "refused"} /\ PhaseOf(s)' = "refused"
            /\ GrantOf(s)' = None /\ ViewOf(s)' = [jail |-> Host, uid |-> Root]
            => Gate!Refuse(s)
<1> USE DEF OnlyMoves
<1>1. Stays(s) => UNCHANGED Gate!vars
  BY DEF Gate!vars, Stays
<1>2. /\ PhaseOf(s) = "host" /\ GrantOf(s)' \in Offer(s)
      /\ PhaseOf(s)' = "granted" /\ ViewOf(s)' = ViewOf(s)
      => Gate!Grant(s)
  BY DEF Gate!Grant
<1>3. /\ PhaseOf(s) = "granted" /\ ViewOf(s)' = GrantOf(s)
      /\ PhaseOf(s)' = "confined" /\ GrantOf(s)' = GrantOf(s)
      => Gate!Confine(s)
  BY DEF Gate!Confine
<1>4. /\ PhaseOf(s) = "confined" /\ PhaseOf(s)' = "shell"
      /\ GrantOf(s)' = GrantOf(s) /\ ViewOf(s)' = ViewOf(s)
      => Gate!Start(s)
  BY DEF Gate!Start
<1>5. /\ PhaseOf(s) \notin {"shell", "refused"} /\ PhaseOf(s)' = "refused"
      /\ GrantOf(s)' = None /\ ViewOf(s)' = [jail |-> Host, uid |-> Root]
      => Gate!Refuse(s)
  BY DEF Gate!Refuse, Gate!Outside
<1>. QED  BY <1>1, <1>2, <1>3, <1>4, <1>5

\* The phase that each step of main() belongs to.
LEMMA PhaseAt ==
  ASSUME NEW s \in Session
  PROVE  /\ pc[s] \in Outer => PhaseOf(s) = "host"
         /\ pc[s] \in Granted => PhaseOf(s) = "granted"
         /\ pc[s] \in {"jailLookup", "home", "env", "exec"} => PhaseOf(s) = "confined"
         /\ pc[s] = "shell" => PhaseOf(s) = "shell"
         /\ pc[s] \in {"dead", "crashed"} => PhaseOf(s) = "refused"
BY DEF PhaseOf, Outer, Granted

Quits(s) ==
  /\ PhaseOf(s) \notin {"shell", "refused"} /\ PhaseOf(s)' = "refused"
  /\ GrantOf(s)' = None /\ ViewOf(s)' = [jail |-> Host, uid |-> Root]

\* Ending early is a refusal.
LEMMA EndingQuits ==
  ASSUME NEW s \in Session, pc[s] \in Steps, pc'[s] \in {"dead", "crashed"}
  PROVE  Quits(s)
<1>1. PhaseOf(s) \in {"host", "granted", "confined"}
  BY PhaseAt DEF Steps, Outer, Granted
<1>2. PhaseOf(s)' = "refused"
  BY DEF PhaseOf
<1>. QED  BY <1>1, <1>2 DEF Quits, GrantOf, ViewOf

\* Every step of a process is a step of JailGate or leaves it unchanged.
LEMMA StepImplements ==
  ASSUME TypeOK, NEW s \in Session, SessionInv(s), Step(s), UNCHANGED envVars
  PROVE  \/ Gate!Grant(s) \/ Gate!Confine(s) \/ Gate!Start(s) \/ Gate!Refuse(s)
         \/ UNCHANGED Gate!vars
<1>0. OnlyMoves(s)
  BY StepMovesOne
<1> SUFFICES \/ Quits(s) \/ Stays(s)
             \/ /\ PhaseOf(s) = "host" /\ GrantOf(s)' \in Offer(s)
                /\ PhaseOf(s)' = "granted" /\ ViewOf(s)' = ViewOf(s)
             \/ /\ PhaseOf(s) = "granted" /\ ViewOf(s)' = GrantOf(s)
                /\ PhaseOf(s)' = "confined" /\ GrantOf(s)' = GrantOf(s)
             \/ /\ PhaseOf(s) = "confined" /\ PhaseOf(s)' = "shell"
                /\ GrantOf(s)' = GrantOf(s) /\ ViewOf(s)' = ViewOf(s)
  BY <1>0, MappedActions DEF Quits
<1>1. CASE pc'[s] \in {"dead", "crashed"}
  <2>1. pc[s] \in Steps
    BY DEF Step, Steps, OpenLog, CheckNames, LookupUser, CheckShell, EnterDir, EnterJail,
       DropRoot, LookupJailUser, GoHome, FixEnvironment, Exec
  <2>. QED  BY <1>1, <2>1, EndingQuits
<1>2. CASE OpenLog(s) \/ CheckNames(s)
  <2>1. pc[s] \in Outer /\ pc'[s] \in Outer \cup {"dead"}
    BY <1>2 DEF OpenLog, CheckNames, Goto, Proceed, Die, TypeOK, Outer
  <2>. QED  BY <1>1, <2>1 DEF Stays, PhaseOf, GrantOf, ViewOf, Outer
<1>3. CASE LookupUser(s) /\ pc'[s] # "dead"
  <2>1. pc[s] = "lookup" /\ pc'[s] = "shellname" /\ pw'[s].line # None
    BY <1>3 DEF LookupUser, Goto, Proceed, Die, TypeOK
  <2>2. pw'[s].line = hostPasswd[call[s].user]
    BY <1>3 DEF LookupUser, Getpwnam, PasswdUnder, TypeOK, SessionInv, OuterIsHost, Outer
  <2>3. call[s].user # None
    BY <2>1 DEF SessionInv, NamesChecked
  <2>4. Offer(s) = {IdentityOf(hostPasswd[call[s].user])}
    BY <2>1, <2>2, <2>3 DEF Offer
  <2>5. GrantOf(s)' = IdentityOf(pw'[s].line)
    BY <2>1 DEF GrantOf, PhaseOf, Line, IdentityOf
  <2>. QED  BY <2>1, <2>2, <2>4, <2>5 DEF PhaseOf, ViewOf
<1>4. CASE (CheckShell(s) \/ EnterDir(s) \/ EnterJail(s)) /\ pc'[s] \notin {"dead", "crashed"}
  <2>1. pc[s] \in Granted /\ pc'[s] \in Granted
    BY <1>4 DEF CheckShell, EnterDir, EnterJail, Goto, Proceed, Die, Crash, TypeOK, Granted
  <2>2. Line(s)' = Line(s)
    BY <1>4 DEF CheckShell, EnterDir, EnterJail, Line
  <2>. QED  BY <2>1, <2>2 DEF Stays, PhaseOf, GrantOf, ViewOf, IdentityOf, Granted
<1>5. CASE DropRoot(s) /\ pc'[s] # "dead"
  <2>1. /\ pc[s] = "setuid" /\ pc'[s] = "jailLookup"
        /\ root'[s] = root[s] /\ euid'[s] = Line(s).uid
    BY <1>5 DEF DropRoot, Goto, Proceed, Die, TypeOK
  <2>2. root[s] = Line(s).dir
    BY <2>1 DEF SessionInv, GrantHeld
  <2>. QED  BY <2>1, <2>2 DEF PhaseOf, GrantOf, ViewOf, RunsAs, IdentityOf
<1>6. CASE (LookupJailUser(s) \/ GoHome(s) \/ FixEnvironment(s)) /\ pc'[s] # "dead"
  <2>1. /\ pc[s] \in {"jailLookup", "home", "env"} /\ pc'[s] \in {"home", "env", "exec"}
        /\ root' = root /\ euid' = euid
    BY <1>6 DEF LookupJailUser, GoHome, FixEnvironment, Goto, Proceed, Die, TypeOK
  <2>. QED  BY <2>1 DEF Stays, PhaseOf, GrantOf, ViewOf, RunsAs
<1>7. CASE Exec(s) /\ pc'[s] \notin {"dead", "crashed"}
  <2>1. pc[s] = "exec" /\ pc'[s] = "shell" /\ root' = root /\ euid' = euid
    BY <1>7 DEF Exec, Goto, Proceed, Die, Crash, TypeOK
  <2>. QED  BY <2>1 DEF PhaseOf, GrantOf, ViewOf, RunsAs
<1>. QED  BY <1>1, <1>2, <1>3, <1>4, <1>5, <1>6, <1>7 DEF Step

\* An edit of the host's file changes the offers and nothing else.
LEMMA EditImplements ==
  ASSUME IInv', UNCHANGED sesVars
  PROVE  Gate!Edit
<1>1. ASSUME NEW t \in Session
      PROVE  PhaseOf(t)' = PhaseOf(t) /\ GrantOf(t)' = GrantOf(t) /\ ViewOf(t)' = ViewOf(t)
  BY SameMapped DEF sesVars, Same
<1>2. ASSUME NEW t \in Session PROVE Offer(t)' \in SUBSET Identity
  <2>1. call'[t].user \in User \cup {None} /\ hostPasswd' \in [User -> HostLine \cup {None}]
    BY DEF IInv, TypeOK
  <2>. QED  BY <2>1, LineFields DEF Offer, IdentityOf, Identity
<1>. QED  BY <1>1, <1>2 DEF Gate!Edit

\* For every number of logins, users and jails: ChrootShell implements
\* JailGate.  A login runs its shell under exactly one identity that the
\* host's passwd file named when it was read (lines 138 to 160).
THEOREM Refinement == Spec => ImplementsGate
<1>1. Init => Gate!Init
  <2> SUFFICES ASSUME Init PROVE Gate!Init
    OBVIOUS
  <2>1. ASSUME NEW t \in Session
        PROVE  PhaseOf(t) = "host" /\ GrantOf(t) = None
               /\ ViewOf(t) = [jail |-> Host, uid |-> Root]
    BY DEF Init, PhaseOf, GrantOf, ViewOf
  <2>2. ASSUME NEW t \in Session PROVE Offer(t) \in SUBSET Identity
    <3>1. call[t].user \in User \cup {None} /\ hostPasswd \in [User -> HostLine \cup {None}]
      BY InitInv DEF IInv, TypeOK
    <3>. QED  BY <3>1, LineFields DEF Offer, IdentityOf, Identity
  <2>. QED  BY <2>1, <2>2 DEF Gate!Init, Gate!Outside
<1>2. IInv /\ IInv' /\ [Next]_vars => [Gate!Next]_(Gate!vars)
  <2> SUFFICES ASSUME IInv, IInv', [Next]_vars PROVE [Gate!Next]_(Gate!vars)
    OBVIOUS
  <2>1. CASE \E s \in Session : Step(s) /\ UNCHANGED envVars
    BY <2>1, StepImplements DEF IInv, Gate!Next
  <2>2. CASE UNCHANGED sesVars
    BY <2>2, EditImplements DEF Gate!Next
  <2>. QED  BY <2>1, <2>2 DEF Next, vars, sesVars
<1>. QED  BY Invariance, <1>1, <1>2, PTL DEF Spec, ImplementsGate, Gate!Spec

-----------------------------------------------------------------------------
(***************************************************************************)
(* The two halves of ValidLoginSucceeds that are not about fairness: a     *)
(* login in order is not refused, and no login goes on for ever.           *)
(***************************************************************************)
\* What a login in order has found so far is what the files say.
Admitted(s, line, inner) ==
  /\ pc[s] \in Granted => Line(s) = line
  /\ pc[s] \in InJail \cup {"setuid", "crashed"} => root[s] = line.dir
  /\ pc[s] \in KnowsHome => Line(s) = inner
  /\ pc[s] = "dead" => why[s] \in {"setuid", "malloc"}

\* At most five variables are wanted.
LEMMA WantedEnvLen ==
  ASSUME NEW s \in Session
  PROVE  Len(WantedEnv(s)) \in {4, 5}
<1> DEFINE four == <<<<"SHELL", Line(s).shell>>, <<"HOME", Line(s).dir>>,
                     <<"PATH", "/bin:/usr/bin">>, <<"USER", call[s].user>>>>
           fifth == <<<<"LOGNAME", call[s].user>>>>
<1>1. CASE call[s].logname = None
  <2>1. WantedEnv(s) = four \o <<>> BY <1>1 DEF WantedEnv
  <2>2. Len(four \o <<>>) = 4 OBVIOUS
  <2>. QED  BY <2>1, <2>2
<1>2. CASE call[s].logname # None
  <2>1. WantedEnv(s) = four \o fifth BY <1>2 DEF WantedEnv
  <2>2. Len(four \o fifth) = 5 OBVIOUS
  <2>. QED  BY <2>1, <2>2
<1>. QED  BY <1>1, <1>2

LEMMA FewStored ==
  ASSUME NEW s \in Session, SessionInv(s), pc[s] = "env", Len(myenv[s]) \in Nat
  PROVE  Len(myenv[s]) <= 5
<1>1. Len(myenv[s]) <= Len(WantedEnv(s)) BY DEF SessionInv, EnvSoFar, AtHome
<1>2. PICK wanted \in 4..5 : Len(WantedEnv(s)) = wanted BY WantedEnvLen
<1>3. PICK used \in Nat : Len(myenv[s]) = used OBVIOUS
<1>. QED  BY <1>1, <1>2, <1>3

\* The five checks pass, one after the other.
LEMMA AdmittedStep ==
  ASSUME TypeOK, 5 <= MaxEnv, NEW s \in Session, NEW line \in HostLine, NEW inner \in InnerLine,
         SessionInv(s), InOrder(s, line, inner), Admitted(s, line, inner), Step(s), UNCHANGED envVars
  PROVE  Admitted(s, line, inner)'
<1> USE DEF Admitted, Granted, InJail, KnowsHome
<1>0. inner # None /\ line # None BY DEF InnerLine
<1>1. CASE OpenLog(s)
  BY <1>1 DEF OpenLog, Goto, Proceed, TypeOK
<1>2. CASE CheckNames(s)
  BY <1>2 DEF CheckNames, Goto, Proceed, Die, TypeOK, InOrder
<1>3. CASE LookupUser(s)
  <2>1. pw'[s].line = hostPasswd[call[s].user]
    BY <1>3 DEF LookupUser, Getpwnam, PasswdUnder, TypeOK, SessionInv, OuterIsHost, Outer
  <2>2. pw'[s].line = line BY <2>1 DEF InOrder
  <2>3. pc'[s] = "shellname" BY <1>0, <1>3, <2>2 DEF LookupUser, Goto, Proceed, TypeOK
  <2>. QED  BY <2>2, <2>3 DEF Line
<1>4. CASE CheckShell(s)
  <2>1. Line(s) = line /\ ShellMatches(s) /\ Line(s).shell \in Slashed
    BY <1>4 DEF CheckShell, InOrder, ShellMatches, NameOf
  <2>2. pc'[s] = "chdir" /\ pw' = pw BY <1>4, <2>1 DEF CheckShell, Goto, Proceed, TypeOK
  <2>. QED  BY <2>1, <2>2 DEF Line
<1>5. CASE EnterDir(s)
  <2>1. Line(s) = line /\ jail[Line(s).dir].exists BY <1>5 DEF EnterDir, InOrder
  <2>2. pc'[s] = "chroot" /\ pw' = pw BY <1>5, <2>1 DEF EnterDir, Goto, Proceed, TypeOK
  <2>. QED  BY <2>1, <2>2 DEF Line
<1>6. CASE EnterJail(s)
  <2>1. Line(s) = line /\ jail[Line(s).dir].exists /\ euid[s] = Root
    BY <1>6 DEF EnterJail, InOrder, SessionInv, OuterIsHost
  <2>2. pc'[s] = "setuid" /\ root'[s] = line.dir /\ pw' = pw
    BY <1>6, <2>1 DEF EnterJail, Goto, Proceed, TypeOK
  <2>. QED  BY <2>1, <2>2 DEF Line
<1>7. CASE DropRoot(s)
  <2>1. root' = root /\ root[s] = line.dir BY <1>7 DEF DropRoot
  <2>2. pc'[s] = "jailLookup" \/ (pc'[s] = "dead" /\ why'[s] = "setuid")
    BY <1>7 DEF DropRoot, Goto, Proceed, Die, TypeOK
  <2>. QED  BY <2>1, <2>2
<1>8. CASE LookupJailUser(s)
  <2>1. root[s] = line.dir /\ root' = root BY <1>8 DEF LookupJailUser
  <2>2. pw'[s].line = PasswdUnder(root[s])[call[s].user]
    BY <1>8 DEF LookupJailUser, Getpwnam, AfterEndpwent, TypeOK
  <2>3. line.dir # Host BY LineFields
  <2>4. pw'[s].line = inner BY <2>1, <2>2, <2>3 DEF PasswdUnder, InOrder
  <2>5. pc'[s] = "home" BY <1>0, <1>8, <2>4 DEF LookupJailUser, Goto, Proceed, TypeOK
  <2>. QED  BY <2>1, <2>4, <2>5 DEF Line
<1>9. CASE GoHome(s)
  <2>1. root[s] = line.dir /\ Line(s) = inner /\ Line(s).dir \in jail[root[s]].dirs
    BY <1>9 DEF GoHome, InOrder
  <2>2. pc'[s] = "env" /\ root' = root /\ pw' = pw BY <1>9, <2>1 DEF GoHome, Goto, Proceed, TypeOK
  <2>. QED  BY <2>1, <2>2 DEF Line
<1>10. CASE FixEnvironment(s)
  <2>1. root[s] = line.dir /\ Line(s) = inner /\ UNCHANGED <<root, pw>> BY <1>10 DEF FixEnvironment
  <2>2. Len(myenv[s]) \in Nat BY DEF TypeOK
  <2>3. Len(myenv[s]) < Len(WantedEnv(s)) => ~EnvFull(Len(myenv[s]))
    <3>1. PICK wanted \in 4..5 : Len(WantedEnv(s)) = wanted BY WantedEnvLen
    <3>2. PICK used \in Nat : Len(myenv[s]) = used BY <2>2
    <3>3. MaxEnv \in Nat /\ (used < wanted => ~(used >= MaxEnv)) OBVIOUS
    <3>. QED  BY <3>1, <3>2, <3>3 DEF EnvFull
  <2>4. pc'[s] \in {"env", "exec"} \/ (pc'[s] = "dead" /\ why'[s] = "malloc")
    BY <1>10, <2>3 DEF FixEnvironment, Goto, Proceed, Die, TypeOK
  <2>. QED  BY <2>1, <2>4 DEF Line
<1>11. CASE Exec(s)
  <2>1. root[s] = line.dir /\ Line(s) = inner /\ UNCHANGED <<root, pw>>
        /\ Line(s).shell \in jail[root[s]].progs
    BY <1>11 DEF Exec, InOrder
  <2>2. NewArgv(s) # <<>>
    <3>1. \A a, b, c, d : <<a, b>> # <<>> /\ <<a, b, c, d>> # <<>> OBVIOUS
    <3>. QED  BY <3>1, Zenon DEF NewArgv, InOrder
  <2>3. pc'[s] \in {"crashed", "shell"} \/ (pc'[s] = "dead" /\ why'[s] = "malloc")
    BY <1>11, <2>1, <2>2 DEF Exec, Goto, Proceed, Die, Crash, TypeOK
  <2>. QED  BY <2>1, <2>3 DEF Line
<1>. QED  BY <1>1, <1>2, <1>3, <1>4, <1>5, <1>6, <1>7, <1>8, <1>9, <1>10, <1>11 DEF Step

\* A login that was started correctly, whose two lines stay what they are and
\* whose jail keeps what they name, is refused for lack of processes or memory
\* only, and crashes only where the jail has been entered (lines 138 to 208).
THEOREM NoFalseRefusal ==
  ASSUME NEW s \in Session, NEW line \in HostLine, NEW inner \in InnerLine, 5 <= MaxEnv
  PROVE  Spec /\ []InOrder(s, line, inner) =>
           [](/\ pc[s] = "dead" => why[s] \in {"setuid", "malloc"}
              /\ pc[s] = "crashed" => root[s] = line.dir)
<1>1. Init => Admitted(s, line, inner)
  <2>1. Init => pc[s] = "fopen" BY Zenon DEF Init
  <2>. QED  BY <2>1 DEF Admitted, Granted, InJail, KnowsHome
<1>2. IInv /\ InOrder(s, line, inner) /\ Admitted(s, line, inner) /\ [Next]_vars
        => Admitted(s, line, inner)'
  <2> SUFFICES ASSUME IInv, InOrder(s, line, inner), Admitted(s, line, inner), [Next]_vars
               PROVE  Admitted(s, line, inner)'
    OBVIOUS
  <2>1. CASE Step(s) /\ UNCHANGED envVars BY <2>1, AdmittedStep DEF IInv
  <2>2. ASSUME NEW t \in Session, t # s, Step(t) PROVE Admitted(s, line, inner)'
    <3>1. Same(s) BY <2>2, OthersSame DEF IInv
    <3>2. why'[s] = why[s]
      BY <2>2 DEF IInv, TypeOK, Step, OpenLog, CheckNames, LookupUser, CheckShell, EnterDir, EnterJail,
                  DropRoot, LookupJailUser, GoHome, FixEnvironment, Exec, Proceed, Die, Crash
    <3>. QED  BY <3>1, <3>2 DEF Same, Admitted, Line
  <2>3. CASE UNCHANGED sesVars BY <2>3 DEF sesVars, Admitted, Line
  <2>. QED  BY <2>1, <2>2, <2>3 DEF Next, vars, sesVars
<1>3. Admitted(s, line, inner) =>
        /\ pc[s] = "dead" => why[s] \in {"setuid", "malloc"}
        /\ pc[s] = "crashed" => root[s] = line.dir
  BY DEF Admitted
<1>. QED  BY Invariance, <1>1, <1>2, <1>3, PTL DEF Spec

\* How many steps of its own a process can still make at most.
StepsLeft(s) ==
  CASE pc[s] = "fopen" -> 16
    [] pc[s] = "names" -> 15
    [] pc[s] = "lookup" -> 14
    [] pc[s] = "shellname" -> 13
    [] pc[s] = "chdir" -> 12
    [] pc[s] = "chroot" -> 11
    [] pc[s] = "setuid" -> 10
    [] pc[s] = "jailLookup" -> 9
    [] pc[s] = "home" -> 8
    [] pc[s] = "env" -> 7 - Len(myenv[s])
    [] pc[s] = "exec" -> 1
    [] OTHER -> 0

\* A process that is out of steps has run its shell, died or crashed; every
\* step brings it nearer to that.
LEMMA StepsFew ==
  ASSUME IInv, NEW s \in Session
  PROVE  /\ StepsLeft(s) \in 0..16
         /\ StepsLeft(s) = 0 <=> pc[s] \in Ended
<1>1. Len(myenv[s]) \in Nat /\ pc[s] \in Steps \cup Ended BY DEF IInv, TypeOK
<1>2. pc[s] = "env" => Len(myenv[s]) <= 5
  BY <1>1, FewStored DEF IInv
<1>3. PICK used \in Nat : Len(myenv[s]) = used BY <1>1
<1>4. CASE pc[s] = "env"
  <2>1. StepsLeft(s) = 7 - used BY <1>3, <1>4 DEF StepsLeft
  <2>. QED  BY <1>2, <1>3, <1>4, <2>1 DEF Ended
<1>5. CASE pc[s] \in Steps \ {"env"}
  <2>1. StepsLeft(s) \in {16, 15, 14, 13, 12, 11, 10, 9, 8, 1} BY <1>5 DEF StepsLeft, Steps
  <2>2. pc[s] \notin Ended BY <1>5 DEF Steps, Ended
  <2>. QED  BY <2>1, <2>2
<1>6. CASE pc[s] \in Ended
  <2>1. StepsLeft(s) = 0 BY <1>6 DEF StepsLeft, Ended
  <2>. QED  BY <1>6, <2>1
<1>. QED  BY <1>1, <1>4, <1>5, <1>6

LEMMA StepsFewer ==
  ASSUME TypeOK, NEW s \in Session, SessionInv(s), Step(s)
  PROVE  StepsLeft(s)' < StepsLeft(s) /\ StepsLeft(s)' <= StepsLeft(s)
<1> USE DEF StepsLeft
<1>1. CASE ~FixEnvironment(s)
  <2>1. \/ pc[s] = "fopen" /\ pc'[s] = "names"
        \/ pc[s] = "names" /\ pc'[s] \in {"lookup", "dead"}
        \/ pc[s] = "lookup" /\ pc'[s] \in {"shellname", "dead"}
        \/ pc[s] = "shellname" /\ pc'[s] \in {"chdir", "dead", "crashed"}
        \/ pc[s] = "chdir" /\ pc'[s] \in {"chroot", "dead"}
        \/ pc[s] = "chroot" /\ pc'[s] \in {"setuid", "dead"}
        \/ pc[s] = "setuid" /\ pc'[s] \in {"jailLookup", "dead"}
        \/ pc[s] = "jailLookup" /\ pc'[s] \in {"home", "dead"}
        \/ pc[s] = "home" /\ pc'[s] \in {"env", "dead"} /\ myenv' = myenv
        \/ pc[s] = "exec" /\ pc'[s] \in {"shell", "dead", "crashed"}
    BY <1>1 DEF Step, OpenLog, CheckNames, LookupUser, CheckShell, EnterDir, EnterJail, DropRoot,
                LookupJailUser, GoHome, Exec, Goto, Proceed, Die, Crash, TypeOK
  <2>2. pc[s] = "home" => Len(myenv[s]) = 0
    BY DEF SessionInv, EnvSoFar
  <2>. QED  BY <2>1, <2>2
<1>2. CASE FixEnvironment(s)
  <2>1. pc[s] = "env" /\ Len(myenv[s]) \in Nat /\ Len(myenv[s]) <= 5
    <3>1. pc[s] = "env" /\ Len(myenv[s]) \in Nat BY <1>2 DEF FixEnvironment, TypeOK
    <3>. QED  BY <3>1, FewStored
  <2>2. \/ pc'[s] \in {"dead", "exec"}
        \/ pc' = pc /\ myenv' = [myenv EXCEPT ![s] = Append(@, WantedEnv(s)[Len(myenv[s]) + 1])]
    BY <1>2 DEF FixEnvironment, Goto, Proceed, Die, TypeOK
  <2>3. CASE pc'[s] \in {"dead", "exec"} BY <2>1, <2>3
  <2>4. CASE pc' = pc /\ myenv' = [myenv EXCEPT ![s] = Append(@, WantedEnv(s)[Len(myenv[s]) + 1])]
    <3> DEFINE v == WantedEnv(s)[Len(myenv[s]) + 1]
    <3>1. myenv'[s] = Append(myenv[s], v) BY <2>4 DEF TypeOK
    <3> HIDE DEF v
    <3>2. Len(myenv'[s]) = Len(myenv[s]) + 1 BY <3>1 DEF TypeOK
    <3>. QED  BY <2>1, <2>4, <3>2
  <2>. QED  BY <2>2, <2>3, <2>4
<1>. QED  BY <1>1, <1>2

\* A login ends: whatever the files hold and however they are edited, a process
\* makes at most sixteen steps, no other process or edit gives it back a step,
\* and it is out of steps only when it has ended.
THEOREM LoginsEnd ==
  ASSUME NEW s \in Session
  PROVE  Spec => /\ [](StepsLeft(s) \in 0..16 /\ (StepsLeft(s) = 0 <=> pc[s] \in Ended))
                 /\ [][StepsLeft(s)' <= StepsLeft(s) /\ (Step(s) => StepsLeft(s)' < StepsLeft(s))]_vars
<1>1. IInv /\ [Next]_vars =>
        [StepsLeft(s)' <= StepsLeft(s) /\ (Step(s) => StepsLeft(s)' < StepsLeft(s))]_vars
  <2> SUFFICES ASSUME IInv, Next
               PROVE  StepsLeft(s)' <= StepsLeft(s) /\ (Step(s) => StepsLeft(s)' < StepsLeft(s))
    OBVIOUS
  <2>1. CASE Step(s) BY <2>1, StepsFewer DEF IInv
  <2>2. CASE ~Step(s)
    <3>1. Same(s) BY <2>2, OthersSame DEF IInv, Next, sesVars, Same
    <3>2. StepsLeft(s)' = StepsLeft(s) BY <3>1 DEF StepsLeft, Same
    <3>3. StepsLeft(s) \in 0..16 BY StepsFew
    <3>. QED  BY <2>2, <3>2, <3>3
  <2>. QED  BY <2>1, <2>2
<1>2. IInv => StepsLeft(s) \in 0..16 /\ (StepsLeft(s) = 0 <=> pc[s] \in Ended)
  BY StepsFew
<1>. QED  BY <1>1, <1>2, Invariance, PTL DEF Spec
=============================================================================
