--------------------------- MODULE RootfsPackages ---------------------------
(***************************************************************************)
(* The Makefile's pattern rules that copy the packages into the jail, and  *)
(* the rule of lib/.done that collects the libraries their programs need,  *)
(* and those of the images: jail.cpio, and jail.tar.gz.                    *)
(* make -j; commands fail, make is killed or interrupted and run again;    *)
(* someone edits the packages, even while make runs.                       *)
(* Times are compared as make and cpio do, so that a torn copy is newer    *)
(* than what it is a copy of.  cpio's test and its creation of a file are  *)
(* one step.                                                               *)
(***************************************************************************)
EXTENDS Naturals, FiniteSets

CONSTANTS
  Package,   \* the skeleton and the binary packages
  Rank,      \* the place of each package's pattern rule in the Makefile
  Path,      \* the files of all packages
  Has,       \* the paths of each package
  Name,      \* the base name of each path
  Elf,       \* the paths of programs: mklibs and strip look at them
  Library,   \* the files that mklibs leaves in the jail's lib
  Dropped,   \* those that the rule of jail.cpio removes
  None,
  Jobs,      \* make -j: recipes at a time
  MaxFaults, \* bound: failures, kills and interruptions
  MaxEdits   \* bound: edits of the packages

\* Of the pattern rules, make takes the first whose prerequisite is there.
First(p, f) ==
  /\ p \in Package /\ f \in Has[p]
  /\ \A q \in Package : f \in Has[q] => Rank[p] <= Rank[q]

Copy == [from : Package, version : Nat, whole : BOOLEAN]

ASSUME PathsAssumption ==
  /\ Elf \subseteq Path /\ \A p \in Package : Has[p] \subseteq Path
  /\ None \notin Path /\ None \notin Copy /\ Dropped \subseteq Library
  /\ \A f \in Path : \E p \in Package : First(p, f)
  /\ MaxFaults \in Nat /\ MaxEdits \in Nat

Owner(f) == CHOOSE p \in Package : First(p, f)

\* What find names for the target t.
Listed(t) == {f \in Has[Owner(t)] : Name[f] = Name[t]}

\* Two files of one package with one name: no other package comes before it for
\* either.  (The packages have com_err.h and e2fsprogs.mo twice and more.)
ASSUME NoClashAssumption ==
  \A t \in Path : \A f \in Listed(t) : Owner(f) = Owner(t)

VARIABLES
  step,      \* "none" between runs; the rule, or the command of lib/.done's or of the
             \* image's, that make has come to
  todo,      \* files make has not considered yet
  busy,      \* files whose recipes run
  list,      \* what each recipe's cpio has not come to yet
  writing,   \* the file it has created and not finished
  changed,   \* files written since their own recipe began
  failed,    \* a command of this run failed
  jail,      \* the files of the jail: origin, version, whole or torn
  edited,    \* packages whose file was edited after the jail's was written
  version,   \* the version of each package's file
  libs,      \* the programs each library was collected for; None: not there, or torn
  done,      \* lib/.done: "new" while nothing it depends on is newer
  disturbed, \* files edited while make ran, since they were copied (history)
  broke,     \* something failed or was killed (history)
  bared,     \* a removal took the libraries, and left .done (history)
  faults, edits  \* bound the model only

run == <<step, todo, busy, list, writing, changed, failed>>
files == <<jail, edited, libs, done>>
history == <<disturbed, broke, bared>>
vars == <<run, files, version, history, faults, edits>>

Steps == {"none", "packages", "mklibs", "strip", "touch", "drop", "pack", "clean"}

RunOK ==
  /\ step \in Steps
  /\ todo \subseteq Path /\ busy \subseteq Path \ todo
  /\ changed \subseteq Path /\ failed \in BOOLEAN
  /\ faults \in Nat /\ edits \in Nat

RecipesOK ==
  /\ list \in [Path -> SUBSET Path] /\ writing \in [Path -> Path \cup {None}]
  /\ \A t \in Path : list[t] \subseteq Listed(t) /\ writing[t] \in (Listed(t) \ list[t]) \cup {None}
  /\ \A t \in Path \ busy : list[t] = {} /\ writing[t] = None

JailOK ==
  /\ jail \in [Path -> Copy \cup {None}]
  /\ \A f \in Path : jail[f] # None => f \in Has[jail[f].from]
  /\ edited \in [Path -> SUBSET Package]
  /\ version \in [Package -> [Path -> Nat]]
  /\ disturbed \subseteq Path /\ broke \in BOOLEAN

LibsOK ==
  /\ libs \in [Library -> [Elf -> Copy \cup {None}] \cup {None}]
  /\ done \in {"none", "old", "new"} /\ bared \in BOOLEAN

\* The types, and: only a recipe that runs has files before it or one half
\* written, all of them files that its find lists, and none of them twice.
TypeOK == RunOK /\ RecipesOK /\ JailOK /\ LibsOK

Nothing == [t \in Path |-> {}]
Nowhere == [t \in Path |-> None]
NoLibrary == [l \in Library |-> None]

Init ==
  /\ step = "none" /\ todo = {} /\ busy = {} /\ list = Nothing
  /\ writing = Nowhere /\ changed = {} /\ failed = FALSE
  /\ jail = Nowhere /\ edited = Nothing /\ libs = NoLibrary /\ done = "none"
  /\ version = [p \in Package |-> [f \in Path |-> 0]]
  /\ disturbed = {} /\ broke = FALSE /\ bared = FALSE /\ faults = 0 /\ edits = 0

-----------------------------------------------------------------------------
\* The run is over; recipes that were under way leave what they have written.
Over ==
  /\ step' = "none" /\ todo' = {} /\ busy' = {} /\ list' = Nothing
  /\ writing' = Nowhere /\ changed' = {} /\ failed' = FALSE

\* For jail-clean; or for rootfs, jail.cpio or jail.tar.gz: which of these, shows
\* only where their rules part.
Make ==
  /\ step = "none" /\ step' \in {"packages", "clean"}
  /\ todo' = IF step' = "packages" THEN Path ELSE {}
  /\ UNCHANGED <<busy, list, writing, changed, failed, files, version, history, faults, edits>>

\* The jail's file is not older than the package's (mutated: it is there).
Exists(f, p) == jail[f] # None
UpToDate(f, p) == jail[f] # None /\ p \notin edited[f]

\* Under -j, in any order.
Consider(t) ==
  /\ step = "packages" /\ ~failed /\ t \in todo /\ Cardinality(busy) < Jobs
  /\ todo' = todo \ {t}
  /\ IF UpToDate(t, Owner(t))
     THEN UNCHANGED <<busy, list, changed>>
     ELSE /\ busy' = busy \cup {t} /\ changed' = changed \ {t}
          /\ list' = [list EXCEPT ![t] = Listed(t)]
  /\ UNCHANGED <<step, writing, failed, files, version, history, faults, edits>>

\* cpio -pd: a file that is not older than its source is passed over; another is
\* unlinked and created, whoever may still write to it.
CreateFile(t) ==
  /\ t \in busy /\ writing[t] = None
  /\ \E f \in list[t] :
       /\ list' = [list EXCEPT ![t] = @ \ {f}]
       /\ IF UpToDate(f, Owner(t))
          THEN UNCHANGED <<writing, changed, files, disturbed>>
          ELSE /\ writing' = [u \in Path |-> IF u = t THEN f
                                             ELSE IF writing[u] = f THEN None ELSE writing[u]]
               /\ changed' = changed \cup {f}
               /\ jail' = [jail EXCEPT ![f] = [from |-> Owner(t), version |-> version[Owner(t)][f],
                                               whole |-> FALSE]]
               /\ edited' = [edited EXCEPT ![f] = {}]
               /\ disturbed' = disturbed \ {f}
               /\ done' = IF done = "new" THEN "old" ELSE done
               /\ UNCHANGED libs
  /\ UNCHANGED <<step, todo, busy, failed, version, broke, bared, faults, edits>>

\* The last write: the file's time is later than an edit since its creation.
FinishFile(t) ==
  /\ writing[t] # None
  /\ jail' = [jail EXCEPT ![writing[t]].whole = TRUE]
  /\ edited' = [edited EXCEPT ![writing[t]] = {}]
  /\ writing' = [writing EXCEPT ![t] = None]
  /\ UNCHANGED <<step, todo, busy, list, changed, failed, libs, done, version, history, faults, edits>>

\* The end of the recipe is cpio's (mutated: find's).
EndOfFind(t) == list[t] = {}
EndOfCpio(t) == list[t] = {} /\ writing[t] = None

EndRecipe(t) ==
  /\ t \in busy /\ EndOfCpio(t)
  /\ busy' = busy \ {t}
  /\ UNCHANGED <<step, todo, list, writing, changed, failed, files, version, history, faults, edits>>

-----------------------------------------------------------------------------
\* lib/.done depends on every package's files (mutated: on their existence).
DoneExists == done # "none"
DoneUpToDate == done = "new"

\* jail.cpio's rule removes libraries before it packs the jail; jail.tar.gz's does not.
AfterLibs == {"drop", "pack"}

EndPackages ==
  /\ step = "packages" /\ busy = {}
  /\ \/ (failed \/ todo = {}) /\ Over
     \/ /\ ~failed /\ todo = {}
        /\ step' \in IF DoneUpToDate THEN AfterLibs ELSE {"mklibs"}
        /\ UNCHANGED <<todo, busy, list, writing, changed, failed>>
  /\ UNCHANGED <<files, version, history, faults, edits>>

\* The programs in the jail.
Programs == [f \in Elf |-> jail[f]]

Mklibs ==
  /\ step = "mklibs" /\ step' = "strip"
  /\ libs' = [l \in Library |-> Programs] /\ bared' = FALSE
  /\ UNCHANGED <<todo, busy, list, writing, changed, failed, jail, edited, done, version,
                 disturbed, broke, faults, edits>>

\* strip writes each program anew, which makes it newer than an edit of its
\* package.
Strip ==
  /\ step = "strip"
  /\ \/ /\ \E f \in Elf : edited[f] # {} /\ edited' = [edited EXCEPT ![f] = {}]
        /\ UNCHANGED step
     \/ (\A f \in Elf : edited[f] = {}) /\ step' = "touch" /\ UNCHANGED edited
  /\ UNCHANGED <<todo, busy, list, writing, changed, failed, jail, libs, done, version, history, faults, edits>>

Touch ==
  /\ step = "touch" /\ step' \in AfterLibs /\ done' = "new"
  /\ UNCHANGED <<todo, busy, list, writing, changed, failed, jail, edited, libs, version, history, faults, edits>>

\* rm of the loader and of libm's copies; make ignores its failure, and lib/.done
\* stays newer than all it depends on.  (An rm that is killed is this step, and a
\* kill after it.)
Drop ==
  /\ step = "drop" /\ step' = "pack"
  /\ \E gone \in SUBSET Dropped : libs' = [l \in Library |-> IF l \in gone THEN None ELSE libs[l]]
  /\ UNCHANGED <<todo, busy, list, writing, changed, failed, jail, edited, done, version, history, faults, edits>>

\* The image, or the tarball, is made of what is in the jail.
Pack == step = "pack" /\ Over /\ UNCHANGED <<files, version, history, faults, edits>>

-----------------------------------------------------------------------------
Fault == faults < MaxFaults /\ faults' = faults + 1

\* cpio fails: the others end, and the file it was writing stays as it is.
FailCopy(t) ==
  /\ t \in busy /\ Fault /\ failed' = TRUE /\ broke' = TRUE
  /\ busy' = busy \ {t}
  /\ list' = [list EXCEPT ![t] = {}] /\ writing' = [writing EXCEPT ![t] = None]
  /\ UNCHANGED <<step, todo, changed, files, version, disturbed, bared, edits>>

\* mklibs is cut while it writes the libraries: each is the old one, the new one
\* or none that is whole.
LibsPerhapsTorn ==
  IF step = "mklibs" THEN \E new, torn \in SUBSET Library :
                            libs' = [l \in Library |-> IF l \in torn THEN None
                                                       ELSE IF l \in new THEN Programs ELSE libs[l]]
                     ELSE UNCHANGED libs

\* A command of lib/.done's or of the image's rule fails, or everything is killed.
FailOrKill ==
  /\ step # "none" /\ Fault /\ Over /\ broke' = TRUE
  /\ LibsPerhapsTorn
  /\ UNCHANGED <<jail, edited, done, version, disturbed, bared, edits>>

\* Interrupted from the keyboard, make removes the targets under way that have
\* changed (mutated: every target is .PRECIOUS, and not the directories only).
RemovedNever == {}
Removed == busy \cap changed

Interrupt ==
  /\ step \notin {"none", "clean"} /\ Fault /\ Over
  /\ LibsPerhapsTorn
  /\ jail' = [f \in Path |-> IF f \in Removed THEN None ELSE jail[f]]
  /\ UNCHANGED <<edited, done, version, history, edits>>

\* rm -r, in an order of its own, and perhaps not to its end.
Clean ==
  /\ step = "clean"
  /\ \/ /\ \E f \in Path : jail[f] # None /\ jail' = [jail EXCEPT ![f] = None]
        /\ UNCHANGED <<run, edited, libs, done, bared, faults>>
     \/ /\ \E l \in Library : libs[l] # None /\ libs' = [libs EXCEPT ![l] = None]
        /\ bared' = TRUE
        /\ UNCHANGED <<run, jail, edited, done, faults>>
     \/ /\ done # "none" /\ done' = "none"
        /\ UNCHANGED <<run, jail, edited, libs, bared, faults>>
     \/ /\ Over /\ bared' = (bared /\ done # "none")
        /\ \/ jail = Nowhere /\ libs = NoLibrary /\ done = "none" /\ UNCHANGED faults
           \/ Fault
        /\ UNCHANGED <<jail, edited, libs, done>>
  /\ UNCHANGED <<version, disturbed, broke, edits>>

\* A package's file is replaced by another version.
Edit ==
  /\ edits < MaxEdits /\ edits' = edits + 1
  /\ \E p \in Package : \E f \in Has[p] :
       /\ version' = [version EXCEPT ![p][f] = @ + 1]
       /\ edited' = [edited EXCEPT ![f] = @ \cup {p}]
       /\ disturbed' = IF step = "none" THEN disturbed ELSE disturbed \cup {f}
  /\ UNCHANGED <<run, jail, libs, done, broke, bared, faults>>

Next ==
  \/ Make
  \/ \E t \in Path : Consider(t) \/ CreateFile(t) \/ FinishFile(t) \/ EndRecipe(t) \/ FailCopy(t)
  \/ EndPackages \/ Mklibs \/ Strip \/ Touch \/ Drop \/ Pack
  \/ FailOrKill \/ Interrupt \/ Clean \/ Edit

Spec == Init /\ [][Next]_vars

-----------------------------------------------------------------------------
(***************************************************************************)
(* Safety                                                                  *)
(***************************************************************************)

\* What is packed is, path by path, the present version of the first package
\* that has it, although recipes copy each other's files, in any order, and
\* earlier runs were cut: unless the file was edited while make ran.  (Such an
\* edit is lost for good when strip writes the file after it, Makefile line 385.)
ImageIsCurrent ==
  step = "pack" => \A f \in Path \ disturbed :
    jail[f] # None /\ jail[f].from = Owner(f) /\ jail[f].version = version[Owner(f)][f]

\* The libraries in an image are those that mklibs collected for the very
\* programs in it, whichever runs failed in between: lib/.done is touched last
\* (line 386) and depends on all of them (line 374).  None is missing but those
\* that jail.cpio's rule removes (line 350): from jail.cpio, or from a jail.tar.gz
\* made of the same jail, for which lib/.done does not bring them back.  A
\* jail-clean that was stopped between the libraries and .done is not noticed.
LibsFit ==
  step = "pack" /\ ~bared =>
    \A l \in Library : libs[l] = Programs \/ (l \in Dropped /\ libs[l] = None)

\* Interruptions from the keyboard put no torn file in an image, but for files
\* that share their name with another of their package: those are written by
\* each other's recipes, and make removes the recipe's own target only.
InterruptsAreSafe ==
  step = "pack" /\ ~broke => \A f \in Path :
    jail[f].whole \/ \E g \in Listed(f) : g # f
=============================================================================
