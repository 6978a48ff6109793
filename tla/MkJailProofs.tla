----------------------------- MODULE MkJailProofs -----------------------------
(***************************************************************************)
(* Proofs about MkJail, for all process ids, toolchains and any number of  *)
(* runs, one after the other or at the same time.                          *)
(***************************************************************************)
EXTENDS MkJail, TLAPS

USE MkJailAssumption

(***************************************************************************)
(* The inductive invariant: what each command has behind it.  Each set of  *)
(* steps is a suffix of the collection.                                    *)
(***************************************************************************)
FromTar == {"tar"} \cup Taring
FromBusybox == {"busybox"} \cup FromTar
FromTools == {"tools"} \cup FromBusybox
FromLibs == {"libs"} \cup FromTools
FromDirs == {"dirs"} \cup FromLibs
FromPasswd == {"passwd"} \cup FromDirs

\* What the working directory of a process holds.
Collected(p) ==
  /\ pc[p] = "mkdir" => workdir[p] = None
  /\ pc[p] \in FromPasswd => workdir[p] \subseteq Wanted(call[p])
  /\ pc[p] \in FromDirs => PasswdOf(call[p]) \subseteq workdir[p]
  /\ pc[p] \in FromLibs => Dirs \subseteq workdir[p]
  /\ pc[p] \in FromTools => LibsOf(call[p]) \subseteq workdir[p]
  /\ pc[p] \in FromBusybox => ToolsOf(call[p]) \subseteq workdir[p]
  /\ pc[p] \in FromTar => BusyboxOf(call[p]) \subseteq workdir[p]

PieceOf(p, k) == [by |-> p, part |-> k, call |-> call[p], files |-> Wanted(call[p])]

\* What is in jail.tar.gz when one process has written it alone.
Alone(p) ==
  opener = p /\ p \notin crossed =>
    /\ Others(p) = {}
    /\ pc[p] = "half" => tarball = {}
    /\ pc[p] = "whole" => tarball = {PieceOf(p, "half")}
    /\ pc[p] \in {"clean", "done"} => tarball = {PieceOf(p, "half"), PieceOf(p, "whole")}

IInv ==
  /\ TypeOK
  /\ \A p \in Pid : Collected(p)
  /\ \A p \in Pid : Alone(p)
  /\ OwnContents
  /\ LeftoversDoNotStop

LEMMA InitInv == Init => IInv
<1> SUFFICES ASSUME Init PROVE IInv
  OBVIOUS
<1>1. /\ pc = [p \in Pid |-> "idle"] /\ call = [p \in Pid |-> None]
      /\ workdir = [p \in Pid |-> None] /\ tarball = {}
      /\ opener = None /\ crossed = {} /\ runs = 0
  BY DEF Init
<1>2. TypeOK
  BY <1>1 DEF TypeOK, Running, Ended, Taring
<1>3. ASSUME NEW p \in Pid PROVE Collected(p) /\ Alone(p)
  BY <1>1 DEF Collected, Alone, Others, Taring,
     FromTar, FromBusybox, FromTools, FromLibs, FromDirs, FromPasswd
<1>4. OwnContents /\ LeftoversDoNotStop
  BY <1>1 DEF OwnContents, LeftoversDoNotStop
<1>. QED  BY <1>2, <1>3, <1>4 DEF IInv

\* A file that a run is to pack is one of those a working directory may hold.
LEMMA WantedIsFile ==
  ASSUME NEW c \in Call
  PROVE  Wanted(c) \subseteq File
BY DEF File

\* Before tar, a working directory is complete and holds nothing else.
LEMMA TarsWanted ==
  ASSUME NEW p \in Pid, Collected(p), pc[p] \in FromTar
  PROVE  workdir[p] = Wanted(call[p])
BY DEF Collected, Wanted, FromTar, FromBusybox, FromTools, FromLibs, FromDirs, FromPasswd

\* A step of one process before its tar leaves the others' working directories,
\* and jail.tar.gz, alone.
LEMMA Quiet ==
  ASSUME IInv, NEW p \in Pid, NEW step \in Running \cup Ended, step # "failed",
         To(p, step), NoTar,
         step \notin Taring \cup {"clean", "done"},
         call' \in [Pid -> Call \cup {None}],
         \A q \in Pid \ {p} : call'[q] = call[q],
         workdir' \in [Pid -> (SUBSET File) \cup {None}],
         \A q \in Pid \ {p} : workdir'[q] = workdir[q],
         step \in Running \cup {"done"} => call'[p] \in Call,
         runs' \in Nat, Collected(p)'
  PROVE  IInv'
<1> USE DEF IInv, TypeOK
<1>1. /\ pc' \in [Pid -> Running \cup Ended] /\ pc'[p] = step
      /\ \A q \in Pid \ {p} : pc'[q] = pc[q]
  BY DEF To
<1>2. TypeOK'
  BY <1>1 DEF NoTar
<1>3. ASSUME NEW q \in Pid PROVE Collected(q)'
  <2>1. CASE q # p
    <3>1. pc'[q] = pc[q] /\ workdir'[q] = workdir[q] /\ call'[q] = call[q]
      BY <1>1, <2>1
    <3>. QED  BY <3>1 DEF Collected, Wanted, PasswdOf, Dirs, LibsOf, ToolsOf, BusyboxOf, From
  <2>. QED  BY <2>1
<1>4. ASSUME NEW q \in Pid PROVE Alone(q)'
  <2>1. Others(q)' \subseteq Others(q)
    BY <1>1 DEF Others
  <2>2. pc'[q] \in {"half", "whole", "clean", "done"} => q # p
    BY <1>1 DEF Taring
  <2>3. q # p => pc'[q] = pc[q] /\ call'[q] = call[q]
    BY <1>1
  <2>4. q # p => PieceOf(q, "half")' = PieceOf(q, "half") /\ PieceOf(q, "whole")' = PieceOf(q, "whole")
    BY <2>3 DEF PieceOf, Wanted, PasswdOf, Dirs, LibsOf, ToolsOf, BusyboxOf, From
  <2>5. opener' = opener /\ crossed' = crossed /\ tarball' = tarball
    BY DEF NoTar
  <2>. QED  BY <2>1, <2>2, <2>3, <2>4, <2>5 DEF Alone
<1>5. OwnContents'
  BY DEF OwnContents, NoTar, Wanted, PasswdOf, Dirs, LibsOf, ToolsOf, BusyboxOf, From
<1>6. LeftoversDoNotStop'
  BY <1>1 DEF LeftoversDoNotStop
<1>. QED  BY <1>2, <1>3, <1>4, <1>5, <1>6

LEMMA StartInv ==
  ASSUME IInv, NEW p \in Pid, Start(p)
  PROVE  IInv'
<1>1. PICK step \in {"rm", "refused"} :
        /\ To(p, step)
        /\ call' \in [Pid -> Call \cup {None}]
        /\ \A q \in Pid \ {p} : call'[q] = call[q]
        /\ step = "rm" => call'[p] \in Call
  <2>1. PICK argc \in 1..4, prefix \in Prefix, passwd \in Passwd \cup {None},
             prefix2 \in Prefix \cup {None}, environment \in Prefix \cup {None} :
          IF Accepted(argc, prefix, passwd, prefix2)
          THEN /\ call' = [call EXCEPT ![p] = [prefix |-> prefix, passwd |-> passwd,
                             prefix2 |-> IF argc = 3 THEN prefix2 ELSE environment]]
               /\ To(p, "rm")
          ELSE To(p, "refused") /\ call' = [call EXCEPT ![p] = None]
    BY DEF Start
  <2>2. call \in [Pid -> Call \cup {None}]
    BY DEF IInv, TypeOK
  <2>3. CASE Accepted(argc, prefix, passwd, prefix2)
    <3> DEFINE c == [prefix |-> prefix, passwd |-> passwd,
                     prefix2 |-> IF argc = 3 THEN prefix2 ELSE environment]
    <3>1. c \in Call /\ c.prefix \in Prefix
      BY <2>3 DEF Accepted, Call
    <3>2. call' = [call EXCEPT ![p] = c] /\ To(p, "rm")
      BY <2>1, <2>3
    <3> HIDE DEF c
    <3>. QED  BY <2>2, <3>1, <3>2
  <2>4. CASE ~Accepted(argc, prefix, passwd, prefix2)
    <3>1. call' = [call EXCEPT ![p] = None] /\ To(p, "refused")
      BY <2>1, <2>4
    <3>. QED  BY <2>2, <3>1
  <2>. QED  BY <2>3, <2>4
<1>2. UNCHANGED workdir /\ NoTar /\ runs' \in Nat
  BY DEF Start, IInv, TypeOK
<1>3. Collected(p)'
  BY <1>1 DEF Collected, To, IInv, TypeOK,
     FromPasswd, FromDirs, FromLibs, FromTools, FromBusybox, FromTar, Taring
<1>4. /\ step \in Running \cup Ended /\ step # "failed" /\ step \notin Taring \cup {"clean", "done"}
      /\ step = "rm" \/ step \notin Running \cup {"done"}
  BY DEF Running, Ended, Taring
<1>. QED  BY <1>1, <1>2, <1>3, <1>4, Quiet DEF IInv, TypeOK

\* A command that leaves the arguments and what another process has alone.
LEMMA CommandInv ==
  ASSUME IInv, NEW p \in Pid, NEW step \in Running \cup Ended, step # "failed",
         To(p, step), NoTar, UNCHANGED <<call, runs>>,
         step \notin Taring \cup {"clean", "done"}, pc[p] \in Running,
         NEW files \in (SUBSET File) \cup {None}, Work(p, files), Collected(p)'
  PROVE  IInv'
<1>1. /\ workdir' \in [Pid -> (SUBSET File) \cup {None}]
      /\ \A q \in Pid \ {p} : workdir'[q] = workdir[q]
  BY DEF IInv, TypeOK, Work
<1>. QED  BY <1>1, Quiet DEF IInv, TypeOK

LEMMA FreshInv ==
  ASSUME IInv, NEW p \in Pid, FreshWorkdir(p), UNCHANGED <<call, runs>>
  PROVE  IInv'
<1> USE DEF IInv, TypeOK, Taring, Running, Ended, FromPasswd, FromDirs, FromLibs, FromTools,
    FromBusybox, FromTar
<1>1. CASE Rm(p, "rm", "mkdir")
  <2>1. pc[p] = "rm" /\ NoTar
    BY <1>1 DEF Rm
  <2>2. CASE workdir[p] # None /\ \E f \in workdir[p] : Work(p, workdir[p] \ {f}) /\ UNCHANGED pc
    <3>1. PICK f \in workdir[p] : Work(p, workdir[p] \ {f})
      BY <2>2
    <3>2. To(p, "rm")
      BY <2>1, <2>2 DEF To
    <3>3. workdir[p] \ {f} \in (SUBSET File) \cup {None}
      BY <2>2
    <3>4. Collected(p)'
      BY <2>1, <2>2 DEF Collected
    <3>. QED  BY <2>1, <3>1, <3>2, <3>3, <3>4, CommandInv
  <2>3. CASE Work(p, None) /\ To(p, "mkdir")
    <3>1. Collected(p)'
      BY <2>3 DEF Collected, Work, To
    <3>. QED  BY <2>1, <2>3, <3>1, CommandInv
  <2>. QED  BY <1>1, <2>2, <2>3 DEF Rm
<1>2. CASE Mkdir(p)
  <2>1. pc[p] = "mkdir" /\ workdir[p] = None
    BY <1>2 DEF Mkdir, Collected
  <2>2. NoTar /\ Work(p, {}) /\ To(p, "passwd")
    BY <1>2, <2>1 DEF Mkdir
  <2>3. Collected(p)'
    BY <2>2 DEF Collected, Work, To
  <2>4. {} \in (SUBSET File) \cup {None}
    OBVIOUS
  <2>. QED  BY <2>1, <2>2, <2>3, <2>4, CommandInv
<1>. QED  BY <1>1, <1>2 DEF FreshWorkdir

\* One file more, or all of them and the next command.
LEMMA CopyEffect ==
  ASSUME IInv, NEW p \in Pid, NEW step, NEW next, NEW files, Copy(p, step, files, next),
         step \in {"passwd", "dirs", "libs", "tools", "busybox"}, files \subseteq Wanted(call[p])
  PROVE  /\ pc[p] = step /\ NoTar
         /\ \E w \in SUBSET File :
              /\ Work(p, w) /\ workdir[p] \subseteq w /\ w \subseteq Wanted(call[p])
              /\ To(p, step) \/ (To(p, next) /\ files \subseteq w)
<1>1. pc[p] = step /\ NoTar
  BY DEF Copy
<1>2. call[p] \in Call /\ Wanted(call[p]) \subseteq File
  BY <1>1, WantedIsFile DEF IInv, TypeOK, Running
<1>3. workdir[p] \in SUBSET File /\ workdir[p] \subseteq Wanted(call[p])
  BY <1>1, <1>2 DEF IInv, Collected, FromPasswd, FromDirs, FromLibs, FromTools, FromBusybox
<1>4. CASE \E f \in files \ workdir[p] : Work(p, workdir[p] \cup {f}) /\ UNCHANGED pc
  <2>1. PICK f \in files \ workdir[p] : Work(p, workdir[p] \cup {f})
    BY <1>4
  <2>2. To(p, step)
    BY <1>1, <1>4 DEF To, IInv, TypeOK
  <2>. QED  BY <1>1, <1>2, <1>3, <2>1, <2>2
<1>5. CASE files \subseteq workdir[p] /\ To(p, next) /\ UNCHANGED workdir
  <2>1. Work(p, workdir[p])
    BY <1>5 DEF Work, IInv, TypeOK
  <2>. QED  BY <1>1, <1>3, <1>5, <2>1
<1>. QED  BY <1>1, <1>4, <1>5 DEF Copy

LEMMA CollectInv ==
  ASSUME IInv, NEW p \in Pid, Collect(p), UNCHANGED <<call, runs>>
  PROVE  IInv'
<1>1. PICK step \in FromPasswd, next \in FromPasswd, files \in SUBSET Wanted(call[p]) :
        /\ Copy(p, step, files, next)
        /\ \/ step = "passwd" /\ next = "dirs" /\ files = PasswdOf(call[p])
           \/ step = "dirs" /\ next = "libs" /\ files = Dirs
           \/ step = "libs" /\ next = "tools" /\ files = LibsOf(call[p])
           \/ step = "tools" /\ next = "busybox" /\ files = ToolsOf(call[p])
           \/ step = "busybox" /\ next = "tar" /\ files = BusyboxOf(call[p])
  <2>1. /\ PasswdOf(call[p]) \in SUBSET Wanted(call[p]) /\ Dirs \in SUBSET Wanted(call[p])
        /\ LibsOf(call[p]) \in SUBSET Wanted(call[p]) /\ ToolsOf(call[p]) \in SUBSET Wanted(call[p])
        /\ BusyboxOf(call[p]) \in SUBSET Wanted(call[p])
    BY DEF Wanted
  <2>2. {"passwd", "dirs", "libs", "tools", "busybox", "tar"} \subseteq FromPasswd
    BY DEF FromPasswd, FromDirs, FromLibs, FromTools, FromBusybox, FromTar
  <2>. QED  BY <2>1, <2>2 DEF Collect
<1>2. /\ pc[p] = step /\ NoTar
      /\ \E w \in SUBSET File :
           /\ Work(p, w) /\ workdir[p] \subseteq w /\ w \subseteq Wanted(call[p])
           /\ To(p, step) \/ (To(p, next) /\ files \subseteq w)
  BY <1>1, CopyEffect
<1>3. PICK w \in SUBSET File :
        /\ Work(p, w) /\ workdir[p] \subseteq w /\ w \subseteq Wanted(call[p])
        /\ To(p, step) \/ (To(p, next) /\ files \subseteq w)
  BY <1>2
<1>4. PICK reached \in {step, next} : To(p, reached) /\ (reached = next => files \subseteq w)
  BY <1>1, <1>3
<1>5. workdir'[p] = w /\ pc'[p] = reached /\ call' = call
  BY <1>3, <1>4 DEF Work, To, IInv, TypeOK
<1>6. Collected(p)'
  <2> USE DEF FromPasswd, FromDirs, FromLibs, FromTools, FromBusybox, FromTar, Taring
  <2>1. /\ reached \in FromDirs => PasswdOf(call[p]) \subseteq w
        /\ reached \in FromLibs => Dirs \subseteq w
        /\ reached \in FromTools => LibsOf(call[p]) \subseteq w
        /\ reached \in FromBusybox => ToolsOf(call[p]) \subseteq w
        /\ reached \in FromTar => BusyboxOf(call[p]) \subseteq w
    BY <1>1, <1>2, <1>3, <1>4 DEF IInv, Collected
  <2>2. reached \in FromPasswd \ {"mkdir"}
    BY <1>1, <1>4
  <2>. QED  BY <1>3, <1>5, <2>1, <2>2 DEF Collected, PasswdOf, Dirs, LibsOf, ToolsOf, BusyboxOf, Wanted, From
<1>7. /\ reached \in Running /\ reached # "failed" /\ pc[p] \in Running
      /\ reached \notin Taring \cup {"clean", "done"}
  BY <1>1, <1>2, <1>4 DEF Running, Taring
<1>. QED  BY <1>2, <1>3, <1>4, <1>6, <1>7, CommandInv

\* The script is stopped where it is.
LEMMA StopsInv ==
  ASSUME IInv, NEW p \in Pid, Stops(p), UNCHANGED <<call, runs>>
  PROVE  IInv'
<1>1. To(p, "killed") /\ NoTar /\ workdir' = workdir /\ pc[p] \in Running
  BY DEF Stops
<1>2. Collected(p)'
  BY <1>1 DEF Collected, To, IInv, TypeOK,
     FromPasswd, FromDirs, FromLibs, FromTools, FromBusybox, FromTar, Taring
<1>3. "killed" \in Ended /\ "killed" \notin Running /\ "killed" \notin Taring \cup {"clean", "done"}
  BY DEF Running, Ended, Taring
<1>. QED  BY <1>1, <1>2, <1>3, Quiet DEF IInv, TypeOK

\* tar makes an empty jail.tar.gz: nobody else's is whole any more.
LEMMA TarCreateInv ==
  ASSUME IInv, NEW p \in Pid, TarCreate(p), UNCHANGED <<call, runs>>
  PROVE  IInv'
<1> USE DEF IInv, TypeOK
<1>1. /\ pc[p] = "tar" /\ pc' = [pc EXCEPT ![p] = "half"]
      /\ tarball' = {} /\ opener' = p /\ workdir' = workdir
      /\ crossed' = IF Others(p) = {} THEN crossed \ {p} ELSE crossed \cup {p} \cup Others(p)
  BY DEF TarCreate, To
<1>2. call[p] \in Call
  BY <1>1 DEF Running
<1>3. TypeOK'
  <2>1. crossed' \subseteq Pid
    BY <1>1 DEF Others
  <2>. QED  BY <1>1, <1>2, <2>1 DEF Running, Taring
<1>4. ASSUME NEW q \in Pid PROVE Collected(q)'
  <2> USE DEF Collected, PasswdOf, Dirs, LibsOf, ToolsOf, BusyboxOf, Wanted, From,
      FromPasswd, FromDirs, FromLibs, FromTools, FromBusybox, FromTar, Taring
  <2>1. CASE q = p
    BY <1>1, <2>1
  <2>2. CASE q # p
    BY <1>1, <2>2
  <2>. QED  BY <2>1, <2>2
<1>5. ASSUME NEW q \in Pid PROVE Alone(q)'
  <2>1. CASE q = p /\ Others(p) = {}
    BY <1>1, <2>1 DEF Alone, Others, Taring
  <2>2. CASE q = p /\ Others(p) # {}
    BY <1>1, <2>2 DEF Alone
  <2>3. CASE q # p
    BY <1>1, <2>3 DEF Alone
  <2>. QED  BY <2>1, <2>2, <2>3
<1>6. OwnContents' /\ LeftoversDoNotStop'
  BY <1>1 DEF OwnContents, LeftoversDoNotStop
<1>. QED  BY <1>3, <1>4, <1>5, <1>6

\* A piece more, of exactly what the run is to pack.
LEMMA TarWriteInv ==
  ASSUME IInv, NEW p \in Pid, TarWrite(p), UNCHANGED <<call, runs>>
  PROVE  IInv'
<1> USE DEF IInv, TypeOK
<1> DEFINE k == pc[p]
           next == IF k = "half" THEN "whole" ELSE "clean"
<1>1. /\ k \in Taring /\ pc' = [pc EXCEPT ![p] = next]
      /\ UNCHANGED <<workdir, opener, crossed>>
  BY DEF TarWrite, To
<1>2. workdir[p] = Wanted(call[p])
  BY <1>1, TarsWanted DEF FromTar
<1>3. tarball' = tarball \cup {PieceOf(p, k)}
  BY <1>2 DEF TarWrite, PieceOf
<1>4. call[p] \in Call
  BY <1>1 DEF Running
<1>5. next \in {"whole", "clean"} /\ next \in Running
  BY DEF Running, Taring
<1>6. TypeOK'
  <2>1. PieceOf(p, k) \in Piece
    BY <1>1, <1>4, WantedIsFile DEF Piece, PieceOf
  <2>. QED  BY <1>1, <1>3, <1>4, <1>5, <2>1
<1>7. ASSUME NEW q \in Pid PROVE Collected(q)'
  <2> USE DEF Collected, PasswdOf, Dirs, LibsOf, ToolsOf, BusyboxOf, Wanted, From,
      FromPasswd, FromDirs, FromLibs, FromTools, FromBusybox, FromTar, Taring
  <2>1. CASE q = p
    BY <1>1, <2>1
  <2>2. CASE q # p
    BY <1>1, <2>2
  <2>. QED  BY <2>1, <2>2
<1>8. ASSUME NEW q \in Pid PROVE Alone(q)'
  <2>1. PieceOf(q, "half")' = PieceOf(q, "half") /\ PieceOf(q, "whole")' = PieceOf(q, "whole")
    BY DEF PieceOf, Wanted, PasswdOf, Dirs, LibsOf, ToolsOf, BusyboxOf, From
  <2>2. Others(q)' \subseteq Others(q)
    BY <1>1 DEF Others, Taring
  <2>3. CASE q = p
    <3>1. CASE k = "half"
      BY <1>1, <1>3, <2>1, <2>2, <2>3, <3>1 DEF Alone
    <3>2. CASE k = "whole"
      BY <1>1, <1>3, <2>1, <2>2, <2>3, <3>2 DEF Alone
    <3>. QED  BY <1>1, <3>1, <3>2 DEF Taring
  <2>4. CASE q # p
    <3>1. p \in Others(q)
      BY <1>1, <2>4 DEF Others
    <3>. QED  BY <1>1, <3>1 DEF Alone
  <2>. QED  BY <2>3, <2>4
<1>9. OwnContents'
  <2>1. OwnContents' = (\A t \in tarball' : t.files = Wanted(t.call))
    BY DEF OwnContents, Wanted, PasswdOf, Dirs, LibsOf, ToolsOf, BusyboxOf, From
  <2>2. PieceOf(p, k).files = Wanted(PieceOf(p, k).call)
    BY DEF PieceOf
  <2>. QED  BY <1>3, <2>1, <2>2 DEF OwnContents
<1>10. LeftoversDoNotStop'
  BY <1>1, <1>5 DEF LeftoversDoNotStop
<1>. QED  BY <1>6, <1>7, <1>8, <1>9, <1>10

\* The working directory is removed, and the run ends well.
LEMMA CleanInv ==
  ASSUME IInv, NEW p \in Pid, Rm(p, "clean", "done"), UNCHANGED <<call, runs>>
  PROVE  IInv'
<1> USE DEF IInv, TypeOK
<1>1. PICK step \in {"clean", "done"} : pc' = [pc EXCEPT ![p] = step]
  BY DEF Rm, To
<1>2. pc[p] = "clean" /\ NoTar
  BY DEF Rm
<1>3. PICK w \in (SUBSET File) \cup {None} : workdir' = [workdir EXCEPT ![p] = w]
  BY DEF Rm, Work
<1>4. step \in Running \cup Ended /\ step # "failed" /\ call[p] \in Call
  BY <1>2 DEF Running, Ended
<1>5. TypeOK'
  BY <1>1, <1>2, <1>3, <1>4 DEF NoTar
<1>6. ASSUME NEW q \in Pid PROVE Collected(q)'
  <2> USE DEF Collected, PasswdOf, Dirs, LibsOf, ToolsOf, BusyboxOf, Wanted, From,
      FromPasswd, FromDirs, FromLibs, FromTools, FromBusybox, FromTar, Taring
  <2>1. CASE q = p
    BY <1>1, <2>1
  <2>2. CASE q # p
    BY <1>1, <1>3, <2>2
  <2>. QED  BY <2>1, <2>2
<1>7. ASSUME NEW q \in Pid PROVE Alone(q)'
  <2>1. PieceOf(q, "half")' = PieceOf(q, "half") /\ PieceOf(q, "whole")' = PieceOf(q, "whole")
    BY DEF PieceOf, Wanted, PasswdOf, Dirs, LibsOf, ToolsOf, BusyboxOf, From
  <2>2. Others(q)' \subseteq Others(q)
    BY <1>1 DEF Others, Taring
  <2>3. /\ opener' = opener /\ crossed' = crossed /\ tarball' = tarball
    BY <1>2 DEF NoTar
  <2>4. pc'[q] = pc[q] \/ (pc[q] = "clean" /\ pc'[q] = step)
    BY <1>1, <1>2
  <2>. QED  BY <2>1, <2>2, <2>3, <2>4 DEF Alone
<1>8. OwnContents'
  BY <1>2 DEF OwnContents, NoTar, Wanted, PasswdOf, Dirs, LibsOf, ToolsOf, BusyboxOf, From
<1>9. LeftoversDoNotStop'
  BY <1>1, <1>4 DEF LeftoversDoNotStop
<1>. QED  BY <1>5, <1>6, <1>7, <1>8, <1>9

LEMMA NextInv == IInv /\ [Next]_vars => IInv'
<1> SUFFICES ASSUME IInv, [Next]_vars PROVE IInv'
  OBVIOUS
<1>1. ASSUME NEW p \in Pid, Script(p) PROVE IInv'
  BY <1>1, FreshInv, CollectInv, TarCreateInv, TarWriteInv, CleanInv, StopsInv DEF Script
<1>2. ASSUME UNCHANGED vars PROVE IInv'
  <2>1. /\ pc' = pc /\ call' = call /\ workdir' = workdir /\ tarball' = tarball
        /\ opener' = opener /\ crossed' = crossed /\ runs' = runs
    BY <1>2 DEF vars
  <2>2. TypeOK' /\ LeftoversDoNotStop'
    BY <2>1 DEF IInv, TypeOK, LeftoversDoNotStop
  <2>3. \A p \in Pid : Collected(p)'
    BY <2>1 DEF IInv, Collected, Wanted, PasswdOf, Dirs, LibsOf, ToolsOf, BusyboxOf, From
  <2>4. \A p \in Pid : Alone(p)'
    BY <2>1 DEF IInv, Alone, Others, PieceOf, Wanted, PasswdOf, Dirs, LibsOf, ToolsOf, BusyboxOf, From
  <2>5. OwnContents'
    BY <2>1 DEF IInv, OwnContents, Wanted, PasswdOf, Dirs, LibsOf, ToolsOf, BusyboxOf, From
  <2>. QED  BY <2>2, <2>3, <2>4, <2>5 DEF IInv
<1>. QED  BY <1>1, <1>2, StartInv DEF Next

LEMMA Invariance == Spec => []IInv
BY InitInv, NextInv, PTL DEF Spec

\* Every variable of the script's model keeps its type: no run past the tests
\* lacks a toolchain or a passwd file.
THEOREM TypeCorrect == Spec => []TypeOK
BY Invariance, PTL DEF IInv

\* However many runs were killed, whatever process ids come back, and however
\* many run at once: each run packs what its own arguments name (lines 32-84).
THEOREM PacksItsOwn == Spec => []OwnContents
BY Invariance, PTL DEF IInv

\* Status 0 means a whole jail.tar.gz, if no other run's tar crossed this one's.
THEOREM DoneWhole == Spec => []DoneMeansWhole
<1>1. IInv => DoneMeansWhole
  <2> SUFFICES ASSUME IInv, NEW p \in Pid, pc[p] = "done", opener = p, p \notin crossed
               PROVE  tarball = {[by |-> p, part |-> k, call |-> call[p],
                                  files |-> Wanted(call[p])] : k \in Taring}
    BY DEF DoneMeansWhole
  <2>1. tarball = {PieceOf(p, "half"), PieceOf(p, "whole")}
    BY DEF IInv, Alone
  <2>. QED  BY <2>1 DEF PieceOf, Taring
<1>. QED  BY Invariance, <1>1, PTL

\* mkdir (line 34) never meets a directory.
THEOREM NeverStopped == Spec => []LeftoversDoNotStop
BY Invariance, PTL DEF IInv
===============================================================================
