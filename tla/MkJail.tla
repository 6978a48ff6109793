-------------------------------- MODULE MkJail --------------------------------
(***************************************************************************)
(* mkjail: the script of the build host that collects a toolchain's        *)
(* libraries in /tmp/mkjail.PID.tmp and packs them as jail.tar.gz.  It is  *)
(* killed, its commands fail, it is run again, several runs may be under   *)
(* way in one directory, and process ids come back while the working       *)
(* directories of killed runs stay.                                        *)
(***************************************************************************)
EXTENDS Naturals

CONSTANTS
  Pid,      \* process ids
  Prefix,   \* directories given as PREFIX or PREFIX2
  Usable,   \* those with a lib/libc.so.*, and with a strip in their ../bin
  Passwd,   \* files given as ETCPASSWD
  Libs, Tools, Box,  \* what of the names looked for each directory holds
  None,
  MaxRuns   \* bound: how often the script is started

ASSUME MkJailAssumption ==
  /\ Usable \subseteq Prefix /\ None \notin Prefix \cup Passwd
  /\ MaxRuns \in Nat

VARIABLES
  pc,       \* the command of each process that comes next
  call,     \* what it packs: PREFIX, ETCPASSWD and PREFIX2
  workdir,  \* what is in its working directory; None without one
  tarball,  \* the pieces of jail.tar.gz
  opener,   \* the process that created it last (history)
  crossed,  \* processes whose tar ran with another's (history)
  runs      \* starts of the script (bounds the model only)

vars == <<pc, call, workdir, tarball, opener, crossed, runs>>

Taring == {"half", "whole"}
Running == {"rm", "mkdir", "passwd", "dirs", "libs", "tools", "busybox", "tar", "clean"} \cup Taring
Ended == {"idle", "refused", "killed", "failed", "done"}

Call == [prefix : Usable, passwd : Passwd, prefix2 : Prefix \cup {None}]

\* Files with the place they come from.
From(kind, names, place) == {[kind |-> kind, name |-> n, place |-> place] : n \in names}
PasswdOf(c) == From("passwd", {"etc/passwd"}, c.passwd)
Dirs == From("dir", {"skeleton"}, None)
LibsOf(c) == From("lib", Libs[c.prefix], c.prefix)
ToolsOf(c) == From("tool", Tools[c.prefix], c.prefix)
BusyboxOf(c) == IF c.prefix2 = None THEN {} ELSE From("tool", Box[c.prefix2], c.prefix2)

\* What a run with these arguments is to pack.
Wanted(c) == PasswdOf(c) \cup Dirs \cup LibsOf(c) \cup ToolsOf(c) \cup BusyboxOf(c)

\* Any file a working directory may hold.
File == UNION {Wanted(c) : c \in Call}
Piece == [by : Pid, part : Taring, call : Call, files : SUBSET File]

TypeOK ==
  /\ pc \in [Pid -> Running \cup Ended]
  /\ call \in [Pid -> Call \cup {None}]
  /\ \A p \in Pid : pc[p] \in Running \cup {"done"} => call[p] \in Call
  /\ workdir \in [Pid -> (SUBSET File) \cup {None}]
  /\ tarball \subseteq Piece
  /\ opener \in Pid \cup {None} /\ crossed \subseteq Pid /\ runs \in Nat

Init ==
  /\ pc = [p \in Pid |-> "idle"] /\ call = [p \in Pid |-> None]
  /\ workdir = [p \in Pid |-> None] /\ tarball = {}
  /\ opener = None /\ crossed = {} /\ runs = 0

-----------------------------------------------------------------------------
To(p, step) == pc' = [pc EXCEPT ![p] = step]
Work(p, files) == workdir' = [workdir EXCEPT ![p] = files]
NoTar == UNCHANGED <<tarball, opener, crossed>>

\* Arguments are tested before anything is done (mutated: but for ETCPASSWD).
AcceptedAnyPasswd(argc, prefix, passwd, prefix2) ==
  argc >= 2 /\ prefix \in Usable /\ (argc = 3 => prefix2 # None)
Accepted(argc, prefix, passwd, prefix2) ==
  argc >= 2 /\ prefix \in Usable /\ passwd # None /\ (argc = 3 => prefix2 # None)

\* PREFIX2 is taken from exactly three arguments; with two, and with four, what
\* the environment holds stays.
Start(p) ==
  /\ pc[p] \in Ended /\ runs < MaxRuns /\ runs' = runs + 1
  /\ \E argc \in 1..4, prefix \in Prefix, passwd \in Passwd \cup {None} :
     \E prefix2, environment \in Prefix \cup {None} :
       IF Accepted(argc, prefix, passwd, prefix2)
       THEN /\ call' = [call EXCEPT ![p] = [prefix |-> prefix, passwd |-> passwd,
                          prefix2 |-> IF argc = 3 THEN prefix2 ELSE environment]]
            /\ To(p, "rm")
       ELSE To(p, "refused") /\ call' = [call EXCEPT ![p] = None]
  /\ UNCHANGED workdir /\ NoTar

\* rm -rf: one file after the other, then the directory.
Rm(p, step, next) ==
  /\ pc[p] = step
  /\ \/ /\ workdir[p] # None /\ \E f \in workdir[p] : Work(p, workdir[p] \ {f})
        /\ UNCHANGED pc
     \/ workdir[p] \in {None, {}} /\ Work(p, None) /\ To(p, next)
  /\ NoTar

\* A working directory of an earlier process with this id is removed (mutated:
\* used as it is); mkdir fails on a directory (mutated: which is not removed).
KeepWorkdir(p) ==
  /\ pc[p] = "rm" /\ To(p, "passwd") /\ NoTar
  /\ Work(p, IF workdir[p] = None THEN {} ELSE workdir[p])

Mkdir(p) ==
  /\ pc[p] = "mkdir" /\ NoTar
  /\ IF workdir[p] = None THEN Work(p, {}) /\ To(p, "passwd")
                          ELSE UNCHANGED workdir /\ To(p, "failed")

MkdirOnly(p) ==
  \/ pc[p] = "rm" /\ To(p, "mkdir") /\ UNCHANGED workdir /\ NoTar
  \/ Mkdir(p)

FreshWorkdir(p) == Rm(p, "rm", "mkdir") \/ Mkdir(p)

\* cp, mkdir and cpio, one file after the other.  The names that the directory
\* lacks are skipped (|| true).
Copy(p, step, files, next) ==
  /\ pc[p] = step /\ NoTar
  /\ \/ \E f \in files \ workdir[p] : Work(p, workdir[p] \cup {f}) /\ UNCHANGED pc
     \/ files \subseteq workdir[p] /\ To(p, next) /\ UNCHANGED workdir

Collect(p) ==
  \/ Copy(p, "passwd", PasswdOf(call[p]), "dirs")
  \/ Copy(p, "dirs", Dirs, "libs")
  \/ Copy(p, "libs", LibsOf(call[p]), "tools")
  \/ Copy(p, "tools", ToolsOf(call[p]), "busybox")
  \/ Copy(p, "busybox", BusyboxOf(call[p]), "tar")

\* tar creates jail.tar.gz in the directory the script was started in, and
\* writes it in pieces.
Others(p) == {q \in Pid \ {p} : pc[q] \in Taring}

TarCreate(p) ==
  /\ pc[p] = "tar" /\ To(p, "half")
  /\ tarball' = {} /\ opener' = p
  /\ crossed' = IF Others(p) = {} THEN crossed \ {p} ELSE crossed \cup {p} \cup Others(p)
  /\ UNCHANGED workdir

TarWrite(p) ==
  /\ pc[p] \in Taring /\ To(p, IF pc[p] = "half" THEN "whole" ELSE "clean")
  /\ tarball' = tarball \cup {[by |-> p, part |-> pc[p], call |-> call[p], files |-> workdir[p]]}
  /\ UNCHANGED <<workdir, opener, crossed>>

\* A command fails, and set -e ends the script (mutated: tar's failure does
\* not); or the script is killed.
StopsBut(p) ==
  /\ To(p, IF pc[p] \in Taring THEN "clean" ELSE "killed")
  /\ pc[p] \in Running /\ UNCHANGED workdir /\ NoTar
Stops(p) == pc[p] \in Running /\ To(p, "killed") /\ UNCHANGED workdir /\ NoTar

Script(p) ==
  /\ \/ FreshWorkdir(p) \/ Collect(p) \/ TarCreate(p) \/ TarWrite(p)
     \/ Rm(p, "clean", "done") \/ Stops(p)
  /\ UNCHANGED <<call, runs>>

Next == \E p \in Pid : Start(p) \/ Script(p)

Spec == Init /\ [][Next]_vars

-----------------------------------------------------------------------------
(***************************************************************************)
(* Safety                                                                  *)
(***************************************************************************)

\* Whatever was killed before with the same process id, and with whatever
\* arguments, each run packs what its own arguments name and nothing else
\* (mkjail lines 32-84): no library of another toolchain, none missing.
OwnContents == \A t \in tarball : t.files = Wanted(t.call)

\* Exit status 0 means that jail.tar.gz is this run's from beginning to end,
\* until another run creates it anew; unless two runs packed at one time in
\* one directory, which only the name of the working directory provides for.
DoneMeansWhole ==
  \A p \in Pid : pc[p] = "done" /\ opener = p /\ p \notin crossed =>
    tarball = {[by |-> p, part |-> k, call |-> call[p], files |-> Wanted(call[p])] : k \in Taring}

\* A run is never stopped by what another has left (mkdir at line 34 fails on a
\* directory that is there).
LeftoversDoNotStop == \A p \in Pid : pc[p] # "failed"
=============================================================================
