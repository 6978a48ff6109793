----------------------------- MODULE ChrootShell -----------------------------
(***************************************************************************)
(* chrootshell.c: the set-user-id login shell that moves a login into its  *)
(* jail.  Every login is one process that runs main() once, one action per *)
(* system call or library call whose result it tests; the administrator    *)
(* edits the passwd files and the jails between any two of them.           *)
(*                                                                         *)
(* The environment's variables (hostPasswd, jail) are read and never       *)
(* written by the process, so the actions of a process do not mention      *)
(* their next values: Next does, and a composition may take its own.       *)
(***************************************************************************)
EXTENDS Naturals, Sequences

CONSTANTS
  Session,   \* the processes: one per login
  User,      \* login names
  Uid,       \* numeric user ids
  Root,      \* user id 0
  Jail,      \* host directories that serve as jails
  Host,      \* the root directory of the host
  Home,      \* directories inside a jail
  Shell,     \* what a shell field may hold; a path stands for its base name too
  Slashed,   \* the shell fields that contain a '/'
  None,      \* a NULL pointer
  HostLine,  \* the lines the host's passwd file may hold
  JailView,  \* the contents a jail may have
  Call,      \* the ways login, rshd or sshd may start the program
  MaxEnv,    \* MAXENV
  MaxEdits   \* bound: how often the administrator edits something

JailLine == [uid : Uid, dir : Home, shell : Shell]

\* A word of an argument vector: a name, and whether a dash was put before it.
Argv0 == [dash : BOOLEAN, name : Shell]
Word == [dash : BOOLEAN, name : Shell \cup {"-c", "command"}]
Plain(name) == [dash |-> FALSE, name |-> name]

ASSUME ConstantsAssumption ==
  /\ Root \in Uid
  /\ Host \notin Jail
  /\ None \notin User \cup Shell \cup Jail \cup {Host}
  /\ Slashed \subseteq Shell
  /\ HostLine \subseteq [uid : Uid, dir : Jail, shell : Shell]
  /\ None \notin HostLine
  /\ JailView \subseteq [exists : BOOLEAN, passwd : [User -> JailLine \cup {None}],
                         dirs : SUBSET Home, progs : SUBSET Shell]
  /\ None \notin JailLine
  /\ Call \subseteq [user : User \cup {None}, logname : User \cup {None},
                     uid : Uid, argv0 : Argv0, argc : Nat \ {0}, dashc : BOOLEAN]
  /\ MaxEnv \in Nat
  /\ MaxEdits \in Nat

VARIABLES
  hostPasswd,  \* the host's /etc/passwd
  jail,        \* jail[j]: what is in the directory j
  edits,       \* edits made so far (bounds the model only)
  call,        \* call[s]: environment and argument vector; logname None: unset or ""
  pc,          \* pc[s]: the next call of main()
  log,         \* log[s]: fp # NULL
  stream,      \* stream[s]: whose passwd file the C library keeps open, or None
  pw,          \* pw[s]: the static buffer of getpwnam: a line and where it was read
  ruid, euid,  \* real and effective user id
  root, cwd,   \* root directory and working directory
  myenv,       \* the new environment
  newargv,     \* the argument vector handed to execvp
  why          \* why[s]: the check that ended the process ("" while it has not)

envVars == <<hostPasswd, jail, edits>>
sesVars == <<call, pc, log, stream, pw, ruid, euid, root, cwd, myenv, newargv, why>>
vars == <<hostPasswd, jail, edits, call, pc, log, stream, pw, ruid, euid, root,
          cwd, myenv, newargv, why>>

Steps == {"fopen", "names", "lookup", "shellname", "chdir", "chroot", "setuid",
          "jailLookup", "home", "env", "exec"}
Ended == {"shell", "dead", "crashed"}
Reasons == {"", "user", "logname", "nouser", "noslash", "notshell", "chdir", "chroot",
            "setuid", "nojailuser", "home", "env", "malloc", "argv", "exec"}

TypeOK ==
  /\ hostPasswd \in [User -> HostLine \cup {None}]
  /\ jail \in [Jail -> JailView]
  /\ edits \in Nat
  /\ call \in [Session -> Call]
  /\ pc \in [Session -> Steps \cup Ended]
  /\ log \in [Session -> BOOLEAN]
  /\ stream \in [Session -> {None, Host} \cup Jail]
  /\ pw \in [Session -> [from : {None, Host} \cup Jail,
                         line : HostLine \cup JailLine \cup {None}]]
  /\ ruid \in [Session -> Uid]
  /\ euid \in [Session -> Uid]
  /\ root \in [Session -> {Host} \cup Jail]
  /\ cwd \in [Session -> {Host} \cup Jail \cup (Jail \X Home)]
  /\ myenv \in [Session -> Seq({"SHELL", "HOME", "PATH", "USER", "LOGNAME"}
                                 \X (Shell \cup Home \cup User \cup {"/bin:/usr/bin"}))]
  /\ newargv \in [Session -> Seq(Word \cup {None})]
  /\ why \in [Session -> Reasons]

(***************************************************************************)
(* The process starts as login leaves it: the program is set-user-id root, *)
(* so the effective id is Root and the real id is the caller's.            *)
(***************************************************************************)
Init ==
  /\ hostPasswd \in [User -> HostLine \cup {None}]
  /\ jail \in [Jail -> JailView]
  /\ edits = 0
  /\ call \in [Session -> Call]
  /\ pc = [s \in Session |-> "fopen"]
  /\ log = [s \in Session |-> FALSE]
  /\ stream = [s \in Session |-> None]
  /\ pw = [s \in Session |-> [from |-> None, line |-> None]]
  /\ ruid = [s \in Session |-> call[s].uid]
  /\ euid = [s \in Session |-> Root]
  /\ root = [s \in Session |-> Host]
  /\ cwd = [s \in Session |-> Host]
  /\ myenv = [s \in Session |-> <<>>]
  /\ newargv = [s \in Session |-> <<>>]
  /\ why = [s \in Session |-> ""]

Line(s) == pw[s].line
Goto(s, step) == pc' = [pc EXCEPT ![s] = step]

\* die(msg): report on stderr and, if it could be opened, in the log; exit(1).
Die(s, reason) ==
  /\ Goto(s, "dead")
  /\ why' = [why EXCEPT ![s] = reason]

\* A store or a stdio call through a NULL pointer.
Crash(s) == Goto(s, "crashed") /\ UNCHANGED why

Proceed(s, step) == Goto(s, step) /\ UNCHANGED why

(***************************************************************************)
(* getpwnam(user): reads the file the library still has open, otherwise    *)
(* the one that /etc/passwd names under the process's root directory; the  *)
(* library may keep it open.  The result replaces the static buffer.       *)
(***************************************************************************)
PasswdUnder(r) == IF r = Host THEN hostPasswd ELSE jail[r].passwd

Getpwnam(s, open) ==
  LET src == IF open = None THEN root[s] ELSE open
  IN  /\ pw' = [pw EXCEPT ![s] = [from |-> src, line |-> PasswdUnder(src)[call[s].user]]]
      /\ \E keep \in {None, src} : stream' = [stream EXCEPT ![s] = keep]

\* endpwent(): what getpwnam finds open afterwards (mutated: the call is missing).
EndpwentMissing(s) == stream[s]
AfterEndpwent(s) == None

-----------------------------------------------------------------------------
\* The log is opened for appending; failure is noticed only where fp is used.
OpenLog(s) ==
  /\ pc[s] = "fopen"
  /\ \E ok \in BOOLEAN : log' = [log EXCEPT ![s] = ok]
  /\ Proceed(s, "names")
  /\ UNCHANGED <<call, stream, pw, ruid, euid, root, cwd, myenv, newargv>>

\* USER must be set and must agree with LOGNAME, unless that is unset or ""
\* (mutated: the two are not compared).
LognameIgnored(s) == TRUE
LognameAgrees(s) == call[s].logname \in {None, call[s].user}

CheckNames(s) ==
  /\ pc[s] = "names"
  /\ \/ call[s].user = None /\ Die(s, "user")
     \/ call[s].user # None /\ ~LognameAgrees(s) /\ Die(s, "logname")
     \/ call[s].user # None /\ LognameAgrees(s) /\ Proceed(s, "lookup")
  /\ UNCHANGED <<call, log, stream, pw, ruid, euid, root, cwd, myenv, newargv>>

\* The user's line in the outer passwd file.
LookupUser(s) ==
  /\ pc[s] = "lookup"
  /\ Getpwnam(s, stream[s])
  /\ IF pw'[s].line = None THEN Die(s, "nouser") ELSE Proceed(s, "shellname")
  /\ UNCHANGED <<call, log, ruid, euid, root, cwd, myenv, newargv>>

\* The name the program was called by, one leading dash skipped (mutated: not).
DashedNameOf(argv0) == IF argv0.dash THEN "-" ELSE argv0.name
NameOf(argv0) == argv0.name
ShellMatches(s) == NameOf(call[s].argv0) = Line(s).shell

\* The base name of the shell field must be the name the program was called
\* by; a mismatch is first written to the log, opened or not.
CheckShell(s) ==
  /\ pc[s] = "shellname"
  /\ \/ Line(s).shell \notin Slashed /\ Die(s, "noslash")
     \/ /\ Line(s).shell \in Slashed /\ ~ShellMatches(s)
        /\ IF log[s] THEN Die(s, "notshell") ELSE Crash(s)
     \/ Line(s).shell \in Slashed /\ ShellMatches(s) /\ Proceed(s, "chdir")
  /\ UNCHANGED <<call, log, stream, pw, ruid, euid, root, cwd, myenv, newargv>>

EnterDir(s) ==
  /\ pc[s] = "chdir"
  /\ IF jail[Line(s).dir].exists
       THEN /\ cwd' = [cwd EXCEPT ![s] = Line(s).dir]
            /\ Proceed(s, "chroot")
       ELSE Die(s, "chdir") /\ UNCHANGED cwd
  /\ UNCHANGED <<call, log, stream, pw, ruid, euid, root, myenv, newargv>>

\* chroot(): for the superuser only.
EnterJail(s) ==
  /\ pc[s] = "chroot"
  /\ IF jail[Line(s).dir].exists /\ euid[s] = Root
       THEN /\ root' = [root EXCEPT ![s] = Line(s).dir]
            /\ Proceed(s, "setuid")
       ELSE Die(s, "chroot") /\ UNCHANGED root
  /\ UNCHANGED <<call, log, stream, pw, ruid, euid, cwd, myenv, newargv>>

\* setuid() by the superuser sets both ids; it may fail (process limit)
\* (mutated: only the real id is set).
DropRealId(s) ==
  /\ pc[s] = "setuid"
  /\ ruid' = [ruid EXCEPT ![s] = Line(s).uid]
  /\ Proceed(s, "jailLookup")
  /\ UNCHANGED <<euid, call, log, stream, pw, root, cwd, myenv, newargv>>

DropRoot(s) ==
  /\ pc[s] = "setuid"
  /\ \/ /\ euid[s] = Root
        /\ ruid' = [ruid EXCEPT ![s] = Line(s).uid]
        /\ euid' = [euid EXCEPT ![s] = Line(s).uid]
        /\ Proceed(s, "jailLookup")
     \/ Die(s, "setuid") /\ UNCHANGED <<ruid, euid>>
  /\ UNCHANGED <<call, log, stream, pw, root, cwd, myenv, newargv>>

\* endpwent(), then the user's line in the jail's own passwd file.
LookupJailUser(s) ==
  /\ pc[s] = "jailLookup"
  /\ Getpwnam(s, AfterEndpwent(s))
  /\ IF pw'[s].line = None THEN Die(s, "nojailuser") ELSE Proceed(s, "home")
  /\ UNCHANGED <<call, log, ruid, euid, root, cwd, myenv, newargv>>

GoHome(s) ==
  /\ pc[s] = "home"
  /\ IF Line(s).dir \in jail[root[s]].dirs
       THEN /\ cwd' = [cwd EXCEPT ![s] = <<root[s], Line(s).dir>>]
            /\ Proceed(s, "env")
       ELSE Die(s, "home") /\ UNCHANGED cwd
  /\ UNCHANGED <<call, log, stream, pw, ruid, euid, root, myenv, newargv>>

\* The environment to build, in the order of the mysetenv calls (mutated: USER
\* from LOGNAME, which may be NULL).
WantedEnvOfLogname(s) ==
  <<<<"SHELL", Line(s).shell>>, <<"HOME", Line(s).dir>>, <<"PATH", "/bin:/usr/bin">>,
    <<"USER", call[s].logname>>>>

WantedEnv(s) ==
  <<<<"SHELL", Line(s).shell>>, <<"HOME", Line(s).dir>>, <<"PATH", "/bin:/usr/bin">>,
    <<"USER", call[s].user>>>>
  \o IF call[s].logname = None THEN <<>> ELSE <<<<"LOGNAME", call[s].user>>>>

\* The guard of mysetenv: myenv has MAXENV slots and one for the terminator
\* (mutated: > for >=).
EnvOverfull(used) == used > MaxEnv
EnvFull(used) == used >= MaxEnv

\* One mysetenv call, or the end of them: the terminator is stored and the
\* old environment is replaced.
FixEnvironment(s) ==
  /\ pc[s] = "env"
  /\ LET used == Len(myenv[s])
     IN  \/ /\ used < Len(WantedEnv(s)) /\ EnvFull(used)
            /\ Die(s, "env") /\ UNCHANGED myenv
         \/ /\ used < Len(WantedEnv(s)) /\ ~EnvFull(used)
            /\ \/ Die(s, "malloc") /\ UNCHANGED myenv
               \/ /\ myenv' = [myenv EXCEPT ![s] = Append(@, WantedEnv(s)[used + 1])]
                  /\ UNCHANGED <<pc, why>>
         \/ used >= Len(WantedEnv(s)) /\ Proceed(s, "exec") /\ UNCHANGED myenv
  /\ UNCHANGED <<call, log, stream, pw, ruid, euid, root, cwd, newargv>>

\* The vector built for the shell, with its terminating NULL; <<>> when the
\* program refuses the way it was called.  argv[2] is NULL when argc is 2.
\* (Mutated: the login shell is called by the program's own name.)
OwnNameArgv(s) ==
  IF call[s].argc = 1 THEN <<[dash |-> TRUE, name |-> call[s].argv0.name], None>> ELSE <<>>

NewArgv(s) ==
  IF call[s].argc = 1
    THEN <<[dash |-> TRUE, name |-> Line(s).shell], None>>
  ELSE IF call[s].dashc
    THEN <<Plain(Line(s).shell), Plain("-c"),
           IF call[s].argc = 2 THEN None ELSE Plain("command"), None>>
  ELSE <<>>

\* The pointers malloc'ed for newargv (mutated: one for each argument and NULL).
ArgcSlots(s) == call[s].argc + 1
Slots(s) == call[s].argc + 3

\* endpwent(), building newargv in malloc'ed memory, and execvp.  The result
\* of the second malloc, for the login name "-sh", is not tested.
Exec(s) ==
  /\ pc[s] = "exec"
  /\ stream' = [stream EXCEPT ![s] = AfterEndpwent(s)]
  /\ \/ Die(s, "malloc") /\ UNCHANGED newargv
     \/ call[s].argc = 1 /\ Crash(s) /\ UNCHANGED newargv
     \/ NewArgv(s) = <<>> /\ Die(s, "argv") /\ UNCHANGED newargv
     \/ /\ NewArgv(s) # <<>>
        /\ newargv' = [newargv EXCEPT ![s] = NewArgv(s)]
        /\ IF Line(s).shell \in jail[root[s]].progs
             THEN Proceed(s, "shell") ELSE Die(s, "exec")
  /\ UNCHANGED <<call, log, pw, ruid, euid, root, cwd, myenv>>

\* The next step of process s.
Step(s) ==
  \/ OpenLog(s) \/ CheckNames(s) \/ LookupUser(s) \/ CheckShell(s)
  \/ EnterDir(s) \/ EnterJail(s) \/ DropRoot(s)
  \/ LookupJailUser(s) \/ GoHome(s) \/ FixEnvironment(s) \/ Exec(s)

-----------------------------------------------------------------------------
\* The administrator rewrites a line of the host's passwd file.
EditHost ==
  /\ edits < MaxEdits
  /\ \E u \in User, l \in HostLine \cup {None} :
       hostPasswd' = [hostPasswd EXCEPT ![u] = l]
  /\ edits' = edits + 1
  /\ UNCHANGED jail

\* The administrator changes what is in a jail.
EditJail ==
  /\ edits < MaxEdits
  /\ \E j \in Jail, v \in JailView : jail' = [jail EXCEPT ![j] = v]
  /\ edits' = edits + 1
  /\ UNCHANGED hostPasswd

Next ==
  \/ \E s \in Session : Step(s) /\ UNCHANGED envVars
  \/ (EditHost \/ EditJail) /\ UNCHANGED sesVars

Spec == Init /\ [][Next]_vars

\* Every process is scheduled: nothing in main() waits for another process.
FairSpec == Spec /\ \A s \in Session : WF_vars(Step(s) /\ UNCHANGED envVars)

-----------------------------------------------------------------------------
(***************************************************************************)
(* Safety                                                                  *)
(***************************************************************************)

\* A shell runs only inside a jail: the root directory is a jail, the line
\* that names its shell and home was read from that jail's own passwd file
\* (not from a host file the C library still had open), the working directory
\* is that home, real and effective id agree, and no passwd file is left open
\* (main, lines 154-186).  Editing the passwd files or the jail between any
\* two calls does not change this.
ShellIsConfined ==
  \A s \in Session : pc[s] = "shell" =>
    /\ root[s] \in Jail
    /\ pw[s].from = root[s]
    /\ cwd[s] = <<root[s], Line(s).dir>>
    /\ ruid[s] = euid[s]
    /\ stream[s] = None

\* What the header's list of aborts promises in items 1 and 3 (lines 36-39):
\* a login whose USER contradicts LOGNAME, or whom the passwd file of its own
\* jail did not list when it was consulted, never runs a shell.
DocumentedAborts ==
  \A s \in Session : pc[s] = "shell" =>
    /\ call[s].user # None /\ call[s].logname \in {None, call[s].user}
    /\ Line(s) # None /\ pw[s].from = root[s]

\* mysetenv never stores past myenv: however many variables are wanted, at
\* most MAXENV are stored, so that the terminator of line 181 has a slot, and
\* a process that would need more ends instead of running a shell with part
\* of its environment.
EnvFits ==
  \A s \in Session :
    /\ Len(myenv[s]) <= MaxEnv
    /\ pc[s] = "shell" => myenv[s] = WantedEnv(s)

\* The shell's environment agrees with the identity it runs under: HOME is
\* its working directory and SHELL is the program in its argument vector
\* (lines 174-179 against 168 and 192-203, with line 164 between the two
\* uses of the static buffer of getpwnam).
EnvAgreesWithShell ==
  \A s \in Session : pc[s] = "shell" =>
    /\ \E i \in DOMAIN myenv[s] : myenv[s][i] = <<"HOME", cwd[s][2]>>
    /\ \E i \in DOMAIN myenv[s] :
         /\ myenv[s][i][1] = "SHELL"
         /\ NameOf(newargv[s][1]) = myenv[s][i][2]

\* The memory of newargv (line 188) holds every pointer stored into it
\* (lines 192-206), the terminator included, for every argc.
ArgvFits == \A s \in Session : Len(newargv[s]) <= Slots(s)

(***************************************************************************)
(* Liveness                                                                *)
(***************************************************************************)

\* Login s was started correctly, its user's two lines are these, and the jail
\* has what they name.
InOrder(s, line, inner) ==
  /\ call[s].user # None /\ LognameAgrees(s)
  /\ call[s].argc = 1 \/ call[s].dashc
  /\ hostPasswd[call[s].user] = line
  /\ line.shell \in Slashed /\ line.shell = call[s].argv0.name
  /\ jail[line.dir].exists
  /\ jail[line.dir].passwd[call[s].user] = inner
  /\ inner.dir \in jail[line.dir].dirs /\ inner.shell \in jail[line.dir].progs

Starved(s) == pc[s] = "crashed" \/ why[s] \in {"setuid", "malloc"}

\* The lines that a jail's passwd file may hold.
InnerLine == {v.passwd[u] : v \in JailView, u \in User} \ {None}

\* The checks refuse nobody they should admit: while the user's two lines stay
\* what they are and the jail keeps what they name, a login that was started
\* correctly comes to run its shell, unless the system is short of memory or
\* processes.  (Lines that change from good to good are not enough: a login goes
\* on with the line it has read.)
ValidLoginSucceeds ==
  5 <= MaxEnv =>
    \A s \in Session, line \in HostLine, inner \in InnerLine :
      []InOrder(s, line, inner) => <>(pc[s] = "shell" \/ Starved(s))

(***************************************************************************)
(* What the documentation says and the code does not do                    *)
(***************************************************************************)

\* Item 2 of the header's list (line 38): a process whose real user id is not
\* the one in the user's passwd line aborts.
CallerOwnsLine == \A s \in Session : pc[s] = "shell" => call[s].uid = euid[s]

\* The test of line 88 (if (fp)) makes the log optional: that it could not be
\* opened never ends the process abnormally before it has entered the jail
\* (where an untested malloc can).
LogIsOptional == \A s \in Session : pc[s] = "crashed" /\ root[s] = Host => log[s]

(***************************************************************************)
(* Refinement: the process implements JailGate.                            *)
(***************************************************************************)
Identity == [jail : Jail, uid : Uid]
IdentityOf(line) == [jail |-> line.dir, uid |-> line.uid]
RunsAs(s) == [jail |-> root[s], uid |-> euid[s]]

Offer(s) ==
  IF call[s].user = None \/ hostPasswd[call[s].user] = None THEN {}
  ELSE {IdentityOf(hostPasswd[call[s].user])}

PhaseOf(s) ==
  CASE pc[s] \in {"fopen", "names", "lookup"} -> "host"
    [] pc[s] \in {"shellname", "chdir", "chroot", "setuid"} -> "granted"
    [] pc[s] \in {"jailLookup", "home", "env", "exec"} -> "confined"
    [] pc[s] = "shell" -> "shell"
    [] OTHER -> "refused"

GrantOf(s) ==
  CASE PhaseOf(s) = "granted" -> IdentityOf(Line(s))
    [] PhaseOf(s) \in {"confined", "shell"} -> RunsAs(s)
    [] OTHER -> None

ViewOf(s) ==
  IF PhaseOf(s) \in {"confined", "shell"} THEN RunsAs(s) ELSE [jail |-> Host, uid |-> Root]

Gate == INSTANCE JailGate WITH
          offer <- [s \in Session |-> Offer(s)],
          phase <- [s \in Session |-> PhaseOf(s)],
          grant <- [s \in Session |-> GrantOf(s)],
          view <- [s \in Session |-> ViewOf(s)]

\* A login runs its shell with exactly the root directory and the user id
\* that one line of the host's passwd file named when it was read, whatever
\* was edited since; until then it has neither (lines 138, 155-160).
ImplementsGate == Gate!Spec
=============================================================================
