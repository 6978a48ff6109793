---------------------------- MODULE RootfsProofs ----------------------------
(***************************************************************************)
(* Proofs about RootfsPackages, for every set of packages, any number of   *)
(* recipes at a time, and any number of runs, faults and edits.            *)
(***************************************************************************)
EXTENDS RootfsPackages, TLAPS

USE PathsAssumption, NoClashAssumption

(***************************************************************************)
(* The inductive invariant.                                                *)
(***************************************************************************)
Rules == {"mklibs", "strip", "touch", "drop", "pack"}

\* Recipes run in one step only.
Quiet == step # "packages" => busy = {} /\ todo = {}

\* The file is there, and make has no reason to copy it again.
InPlace(f) == jail[f] # None /\ (f \in disturbed \/ Owner(f) \notin edited[f])

Placed ==
  /\ step \in Rules => \A f \in Path : InPlace(f)
  /\ step = "packages" /\ ~failed => \A f \in Path \ (todo \cup busy) : InPlace(f)
  /\ \A f \in busy : f \in list[f] \/ InPlace(f)

\* A file comes from its owner; if it is not the present version, make sees it.
Origin ==
  \A f \in Path : jail[f] # None =>
    /\ jail[f].from = Owner(f)
    /\ f \in disturbed \/ Owner(f) \in edited[f] \/ jail[f].version = version[Owner(f)][f]

\* A file is written after its creation, and before lib/.done.
Writers ==
  \A t \in Path : writing[t] # None =>
    /\ jail[writing[t]] # None
    /\ writing[t] \in disturbed \/ edited[writing[t]] = {}
    /\ done # "new"

\* What a library was collected for is what is there, or is there no more; and
\* none is missing but those that an image's rule removes.
Fits(l) == libs[l] = [f \in Elf |-> libs[l][f]] /\ \A f \in Elf : jail[f] \in {None, libs[l][f]}

Collected ==
  /\ done = "new" /\ ~bared => \A l \in Library : Fits(l) \/ (l \in Dropped /\ libs[l] = None)
  /\ step \in {"strip", "touch"} => libs = [l \in Library |-> Programs]
  /\ step \in {"mklibs", "strip", "touch"} => done # "new"
  /\ step \in {"drop", "pack"} => done = "new"

\* Only its own recipe tears a file that has its name alone.
Alone(f) == \A g \in Listed(f) : g = f
TornIsOwn ==
  ~broke => \A f \in Path : jail[f] # None /\ ~jail[f].whole /\ Alone(f) =>
    writing[f] = f /\ f \in changed /\ f \in busy

IInv == TypeOK /\ Quiet /\ Placed /\ Origin /\ Writers /\ Collected /\ TornIsOwn

-----------------------------------------------------------------------------
LEMMA OwnerIs == ASSUME NEW f \in Path PROVE First(Owner(f), f)
BY DEF Owner

LEMMA ListedSym ==
  ASSUME NEW t \in Path
  PROVE  /\ Owner(t) \in Package /\ t \in Listed(t) /\ Listed(t) \subseteq Path
         /\ \A f \in Listed(t) : f \in Has[Owner(t)] /\ Owner(f) = Owner(t) /\ t \in Listed(f)
BY OwnerIs DEF Listed, First

LEMMA CopyIs == ASSUME NEW c \in Copy PROVE
  /\ c # None
  /\ [c EXCEPT !.whole = TRUE] \in Copy /\ [c EXCEPT !.whole = TRUE].from = c.from
BY DEF Copy

LEMMA FaultOK == ASSUME faults \in Nat, Fault PROVE faults' \in Nat
BY DEF Fault

LEMMA MakeInv == ASSUME IInv, Make PROVE IInv'
<1> USE DEF IInv, Make, files, history, run
<1>1. TypeOK'
  <2>1. RunOK' BY DEF TypeOK, RunOK, Quiet, Steps
  <2>2. RecipesOK' BY DEF TypeOK, RecipesOK
  <2>3. JailOK' BY DEF TypeOK, JailOK
  <2>4. LibsOK' BY DEF TypeOK, LibsOK
  <2> QED BY <2>1, <2>2, <2>3, <2>4 DEF TypeOK
<1>2. Quiet' BY DEF TypeOK, RunOK, Quiet
<1>3. Placed' BY DEF Placed, InPlace, Rules
<1>4. Origin' BY DEF Origin
<1>5. Writers' BY DEF Writers
<1>6. Collected' BY DEF Collected, Fits, Programs
<1>7. TornIsOwn' BY DEF TornIsOwn
<1> QED BY <1>1, <1>2, <1>3, <1>4, <1>5, <1>6, <1>7

LEMMA ConsiderInv == ASSUME IInv, NEW t \in Path, Consider(t) PROVE IInv'
<1> USE DEF IInv, Consider, UpToDate, files, history, run
<1>1. TypeOK'
  <2>1. RunOK' BY DEF TypeOK, RunOK
  <2>2. RecipesOK' BY ListedSym DEF TypeOK, RunOK, RecipesOK
  <2>3. JailOK' BY DEF TypeOK, JailOK
  <2>4. LibsOK' BY DEF TypeOK, LibsOK
  <2> QED BY <2>1, <2>2, <2>3, <2>4 DEF TypeOK
<1>2. Quiet' BY DEF Quiet
<1>3. Placed' BY ListedSym DEF TypeOK, RunOK, RecipesOK, Placed, InPlace
<1>4. Origin' BY DEF Origin
<1>5. Writers' BY DEF Writers
<1>6. Collected' BY DEF Collected, Fits, Programs
<1>7. TornIsOwn' BY DEF TypeOK, RunOK, TornIsOwn
<1> QED BY <1>1, <1>2, <1>3, <1>4, <1>5, <1>6, <1>7

LEMMA CreateFileInv == ASSUME IInv, NEW t \in Path, CreateFile(t) PROVE IInv'
<1> USE DEF IInv, files, history, run
<1>1. PICK f \in list[t] :
        /\ list' = [list EXCEPT ![t] = @ \ {f}]
        /\ \/ UpToDate(f, Owner(t)) /\ UNCHANGED <<writing, changed, files, disturbed>>
           \/ /\ writing' = [u \in Path |-> IF u = t THEN f
                                            ELSE IF writing[u] = f THEN None ELSE writing[u]]
              /\ changed' = changed \cup {f}
              /\ jail' = [jail EXCEPT ![f] = [from |-> Owner(t), version |-> version[Owner(t)][f],
                                              whole |-> FALSE]]
              /\ edited' = [edited EXCEPT ![f] = {}]
              /\ disturbed' = disturbed \ {f}
              /\ done' = IF done = "new" THEN "old" ELSE done
              /\ UNCHANGED libs
  BY DEF CreateFile
<1>2. /\ t \in busy /\ writing[t] = None
      /\ UNCHANGED <<step, todo, busy, failed, version, broke, bared, faults, edits>>
  BY DEF CreateFile
<1>3. /\ Owner(t) \in Package /\ f \in Path /\ f \in Listed(t) /\ f \in Has[Owner(t)]
      /\ Owner(f) = Owner(t) /\ t \in Listed(f) /\ f # None /\ step = "packages"
  BY <1>2, ListedSym DEF TypeOK, RecipesOK, Quiet
<1>4. CASE UpToDate(f, Owner(t)) /\ UNCHANGED <<writing, changed, files, disturbed>>
  <2> USE <1>1, <1>2, <1>3, <1>4
  <2>1. TypeOK' BY DEF TypeOK, RunOK, RecipesOK, JailOK, LibsOK
  <2>2. Placed' BY DEF Placed, InPlace, UpToDate
  <2>3. Quiet' /\ Origin' BY DEF Quiet, Origin
  <2>4. Writers' /\ Collected' BY DEF Writers, Collected, Fits, Programs
  <2>5. TornIsOwn' BY DEF TornIsOwn
  <2> QED BY <2>1, <2>2, <2>3, <2>4, <2>5
<1>5. CASE ~(UpToDate(f, Owner(t)) /\ UNCHANGED <<writing, changed, files, disturbed>>)
  <2> DEFINE copy == [from |-> Owner(t), version |-> version[Owner(t)][f], whole |-> FALSE]
  <2>1. /\ copy \in Copy /\ copy # None /\ copy.from = Owner(t)
        /\ copy.version = version[Owner(t)][f] /\ copy.whole = FALSE
    <3>1. version[Owner(t)] \in [Path -> Nat] BY <1>3 DEF TypeOK, JailOK
    <3>2. version[Owner(t)][f] \in Nat BY <1>3, <3>1
    <3>3. copy \in Copy BY <1>3, <3>2 DEF Copy
    <3> QED BY <3>3
  <2>2. /\ writing' = [u \in Path |-> IF u = t THEN f
                                      ELSE IF writing[u] = f THEN None ELSE writing[u]]
        /\ changed' = changed \cup {f} /\ jail' = [jail EXCEPT ![f] = copy]
        /\ edited' = [edited EXCEPT ![f] = {}] /\ disturbed' = disturbed \ {f}
        /\ done' = (IF done = "new" THEN "old" ELSE done) /\ UNCHANGED libs
    BY <1>1, <1>5
  <2> HIDE DEF copy
  <2> USE <1>2, <1>3, <2>1, <2>2
  <2>3. RunOK' BY DEF TypeOK, RunOK
  <2>4. RecipesOK' BY <1>1 DEF TypeOK, RecipesOK
  <2>5. JailOK' BY DEF TypeOK, JailOK
  <2>6. LibsOK' BY DEF TypeOK, LibsOK
  <2>7. Quiet' BY DEF Quiet
  <2>8. Placed' BY <1>1 DEF TypeOK, JailOK, Placed, InPlace
  <2>9. Origin' BY DEF TypeOK, JailOK, Origin
  <2>10. Writers' BY DEF TypeOK, RecipesOK, JailOK, Writers
  <2>11. Collected' BY DEF Collected, Fits, Programs
  <2>12. TornIsOwn' BY DEF TornIsOwn, Alone
  <2> QED BY <2>3, <2>4, <2>5, <2>6, <2>7, <2>8, <2>9, <2>10, <2>11, <2>12 DEF TypeOK
<1> QED BY <1>4, <1>5

LEMMA FinishFileInv == ASSUME IInv, NEW t \in Path, FinishFile(t) PROVE IInv'
<1> USE DEF IInv, FinishFile, files, history, run
<1>1. TypeOK'
  <2>1. RunOK' BY DEF TypeOK, RunOK
  <2>2. RecipesOK' BY ListedSym DEF TypeOK, RecipesOK
  <2>3. JailOK' BY CopyIs DEF TypeOK, RecipesOK, JailOK, Writers
  <2>4. LibsOK' BY DEF TypeOK, LibsOK
  <2> QED BY <2>1, <2>2, <2>3, <2>4 DEF TypeOK
<1>2. Quiet' BY DEF Quiet
<1>3. Placed' BY CopyIs DEF TypeOK, JailOK, Placed, InPlace, Writers
<1>4. Origin' BY CopyIs DEF Origin, Writers
<1>5. Writers' BY CopyIs DEF TypeOK, RecipesOK, JailOK, Writers
<1>6. Collected' BY CopyIs DEF TypeOK, RecipesOK, Quiet, Collected, Fits, Programs, Writers
<1>7. TornIsOwn' BY CopyIs DEF TypeOK, JailOK, TornIsOwn
<1> QED BY <1>1, <1>2, <1>3, <1>4, <1>5, <1>6, <1>7

LEMMA EndRecipeInv == ASSUME IInv, NEW t \in Path, EndRecipe(t) PROVE IInv'
<1> USE DEF IInv, EndRecipe, EndOfCpio, files, history, run
<1>1. TypeOK'
  <2>1. RunOK' BY DEF TypeOK, RunOK
  <2>2. RecipesOK' BY DEF TypeOK, RecipesOK
  <2>3. JailOK' BY DEF TypeOK, JailOK
  <2>4. LibsOK' BY DEF TypeOK, LibsOK
  <2> QED BY <2>1, <2>2, <2>3, <2>4 DEF TypeOK
<1>2. Quiet' BY DEF Quiet
<1>3. Placed' BY DEF Placed, InPlace
<1>4. Origin' BY DEF Origin
<1>5. Writers' BY DEF Writers
<1>6. Collected' BY DEF Collected, Fits, Programs
<1>7. TornIsOwn' BY DEF TornIsOwn
<1> QED BY <1>1, <1>2, <1>3, <1>4, <1>5, <1>6, <1>7

LEMMA FailCopyInv == ASSUME IInv, NEW t \in Path, FailCopy(t) PROVE IInv'
<1> USE DEF IInv, FailCopy, Fault, files, history, run
<1>1. TypeOK'
  <2>1. RunOK' BY DEF TypeOK, RunOK
  <2>2. RecipesOK' BY DEF TypeOK, RecipesOK
  <2>3. JailOK' BY DEF TypeOK, JailOK
  <2>4. LibsOK' BY DEF TypeOK, LibsOK
  <2> QED BY <2>1, <2>2, <2>3, <2>4 DEF TypeOK
<1>2. Quiet' BY DEF Quiet
<1>3. Placed' BY DEF Placed, InPlace
<1>4. Origin' BY DEF Origin
<1>5. Writers' BY DEF Writers
<1>6. Collected' BY DEF Collected, Fits, Programs
<1>7. TornIsOwn' BY DEF TornIsOwn
<1> QED BY <1>1, <1>2, <1>3, <1>4, <1>5, <1>6, <1>7

LEMMA EndPackagesInv == ASSUME IInv, EndPackages PROVE IInv'
<1> USE DEF IInv, EndPackages, Over, DoneUpToDate, AfterLibs, Nothing, Nowhere, files, history, run
<1>1. TypeOK'
  <2>1. RunOK' BY DEF TypeOK, RunOK, Steps
  <2>2. RecipesOK' BY DEF TypeOK, RecipesOK
  <2>3. JailOK' BY DEF TypeOK, JailOK
  <2>4. LibsOK' BY DEF TypeOK, LibsOK
  <2> QED BY <2>1, <2>2, <2>3, <2>4 DEF TypeOK
<1>2. Quiet' BY DEF Quiet
<1>3. Placed' BY DEF Placed, InPlace, Rules
<1>4. Origin' BY DEF Origin
<1>5. Writers' BY DEF Writers
<1>6. Collected' BY DEF Collected, Fits, Programs
<1>7. TornIsOwn' BY DEF TornIsOwn
<1> QED BY <1>1, <1>2, <1>3, <1>4, <1>5, <1>6, <1>7

LEMMA MklibsInv == ASSUME IInv, Mklibs PROVE IInv'
<1> USE DEF IInv, Mklibs, files, history, run
<1>1. TypeOK'
  <2>1. RunOK' BY DEF TypeOK, RunOK, Steps
  <2>2. RecipesOK' BY DEF TypeOK, RecipesOK
  <2>3. JailOK' BY DEF TypeOK, JailOK
  <2>4. LibsOK' BY DEF TypeOK, JailOK, LibsOK, Programs
  <2> QED BY <2>1, <2>2, <2>3, <2>4 DEF TypeOK
<1>2. Quiet' BY DEF Quiet
<1>3. Placed' BY DEF Placed, InPlace, Rules
<1>4. Origin' BY DEF Origin
<1>5. Writers' BY DEF Writers
<1>6. Collected' BY DEF Collected, Fits, Programs
<1>7. TornIsOwn' BY DEF TornIsOwn
<1> QED BY <1>1, <1>2, <1>3, <1>4, <1>5, <1>6, <1>7

LEMMA StripInv == ASSUME IInv, Strip PROVE IInv'
<1> USE DEF IInv, Strip, files, history, run
<1>1. TypeOK'
  <2>1. RunOK' BY DEF TypeOK, RunOK, Steps
  <2>2. RecipesOK' BY DEF TypeOK, RecipesOK
  <2>3. JailOK' BY DEF TypeOK, RunOK, JailOK
  <2>4. LibsOK' BY DEF TypeOK, LibsOK
  <2> QED BY <2>1, <2>2, <2>3, <2>4 DEF TypeOK
<1>2. Quiet' BY DEF Quiet
<1>3. Placed' BY DEF TypeOK, JailOK, Quiet, Placed, InPlace, Rules
<1>4. Origin' BY DEF Origin, Placed, InPlace, Rules
<1>5. Writers' BY DEF TypeOK, RecipesOK, Quiet, Writers
<1>6. Collected' BY DEF Collected, Fits, Programs
<1>7. TornIsOwn' BY DEF TornIsOwn
<1> QED BY <1>1, <1>2, <1>3, <1>4, <1>5, <1>6, <1>7

LEMMA TouchInv == ASSUME IInv, Touch PROVE IInv'
<1> USE DEF IInv, Touch, AfterLibs, files, history, run
<1>1. TypeOK'
  <2>1. RunOK' BY DEF TypeOK, RunOK, Steps
  <2>2. RecipesOK' BY DEF TypeOK, RecipesOK
  <2>3. JailOK' BY DEF TypeOK, JailOK
  <2>4. LibsOK' BY DEF TypeOK, LibsOK
  <2> QED BY <2>1, <2>2, <2>3, <2>4 DEF TypeOK
<1>2. Quiet' BY DEF Quiet
<1>3. Placed' BY DEF Placed, InPlace, Rules
<1>4. Origin' BY DEF Origin
<1>5. Writers' BY DEF TypeOK, RecipesOK, Quiet, Writers
<1>6. Collected' BY DEF Collected, Fits, Programs
<1>7. TornIsOwn' BY DEF TornIsOwn
<1> QED BY <1>1, <1>2, <1>3, <1>4, <1>5, <1>6, <1>7

LEMMA DropInv == ASSUME IInv, Drop PROVE IInv'
<1> USE DEF IInv, Drop, files, history, run
<1>1. TypeOK'
  <2>1. RunOK' BY DEF TypeOK, RunOK, Steps
  <2>2. RecipesOK' BY DEF TypeOK, RecipesOK
  <2>3. JailOK' BY DEF TypeOK, JailOK
  <2>4. LibsOK' BY DEF TypeOK, LibsOK
  <2> QED BY <2>1, <2>2, <2>3, <2>4 DEF TypeOK
<1>2. Quiet' BY DEF Quiet
<1>3. Placed' BY DEF Placed, InPlace, Rules
<1>4. Origin' BY DEF Origin
<1>5. Writers' BY DEF Writers
<1>6. Collected' BY DEF Collected, Fits, Programs
<1>7. TornIsOwn' BY DEF Quiet, TornIsOwn
<1> QED BY <1>1, <1>2, <1>3, <1>4, <1>5, <1>6, <1>7

LEMMA PackInv == ASSUME IInv, Pack PROVE IInv'
<1> USE DEF IInv, Pack, Over, Nothing, Nowhere, files, history, run
<1>1. TypeOK'
  <2>1. RunOK' BY DEF TypeOK, RunOK, Steps
  <2>2. RecipesOK' BY DEF RecipesOK
  <2>3. JailOK' BY DEF TypeOK, JailOK
  <2>4. LibsOK' BY DEF TypeOK, LibsOK
  <2> QED BY <2>1, <2>2, <2>3, <2>4 DEF TypeOK
<1>2. Quiet' BY DEF Quiet
<1>3. Placed' BY DEF Placed, Rules
<1>4. Origin' BY DEF Origin
<1>5. Writers' BY DEF Writers
<1>6. Collected' BY DEF Collected, Fits, Programs
<1>7. TornIsOwn' BY DEF Quiet, TornIsOwn
<1> QED BY <1>1, <1>2, <1>3, <1>4, <1>5, <1>6, <1>7

\* However mklibs is cut, and only mklibs tears libraries.
LEMMA CutLibs ==
  ASSUME IInv, LibsPerhapsTorn
  PROVE  /\ libs' \in [Library -> [Elf -> Copy \cup {None}] \cup {None}]
         /\ done = "new" => libs' = libs
<1>1. CASE step = "mklibs"
  <2>1. Programs \in [Elf -> Copy \cup {None}] BY DEF IInv, TypeOK, JailOK, Programs
  <2>2. PICK new \in SUBSET Library, torn \in SUBSET Library :
          libs' = [l \in Library |-> IF l \in torn THEN None ELSE IF l \in new THEN Programs ELSE libs[l]]
    BY <1>1 DEF LibsPerhapsTorn
  <2>3. done # "new" BY <1>1 DEF IInv, Collected
  <2> HIDE DEF Programs
  <2> QED BY <2>1, <2>2, <2>3 DEF IInv, TypeOK, LibsOK
<1>2. CASE step # "mklibs"
  BY <1>2 DEF LibsPerhapsTorn, IInv, TypeOK, LibsOK
<1> QED BY <1>1, <1>2

LEMMA FailOrKillInv == ASSUME IInv, FailOrKill PROVE IInv'
<1> USE DEF IInv, FailOrKill, Over, Nothing, Nowhere, files, history, run
<1>1. TypeOK'
  <2>1. RunOK' BY FaultOK DEF TypeOK, RunOK, Steps
  <2>2. RecipesOK' BY DEF RecipesOK
  <2>3. JailOK' BY DEF TypeOK, JailOK
  <2>4. LibsOK' BY CutLibs DEF TypeOK, LibsOK
  <2> QED BY <2>1, <2>2, <2>3, <2>4 DEF TypeOK
<1>2. Quiet' BY DEF Quiet
<1>3. Placed' BY DEF Placed, Rules
<1>4. Origin' BY DEF Origin
<1>5. Writers' BY DEF Writers
<1>6. Collected' BY CutLibs DEF Collected, Fits, Programs
<1>7. TornIsOwn' BY DEF TornIsOwn
<1> QED BY <1>1, <1>2, <1>3, <1>4, <1>5, <1>6, <1>7

LEMMA InterruptInv == ASSUME IInv, Interrupt PROVE IInv'
<1> USE DEF IInv, Interrupt, Over, Nothing, Nowhere, Removed, files, history, run
<1>1. TypeOK'
  <2>1. RunOK' BY FaultOK DEF TypeOK, RunOK, Steps
  <2>2. RecipesOK' BY DEF RecipesOK
  <2>3. JailOK' BY DEF TypeOK, JailOK
  <2>4. LibsOK' BY CutLibs DEF TypeOK, LibsOK
  <2> QED BY <2>1, <2>2, <2>3, <2>4 DEF TypeOK
<1>2. Quiet' BY DEF Quiet
<1>3. Placed' BY DEF Placed, Rules
<1>4. Origin' BY DEF Origin
<1>5. Writers' BY DEF Writers
<1>6. Collected' BY CutLibs DEF Collected, Fits, Programs
<1>7. TornIsOwn' BY DEF TornIsOwn
<1> QED BY <1>1, <1>2, <1>3, <1>4, <1>5, <1>6, <1>7

LEMMA CleanInv == ASSUME IInv, Clean PROVE IInv'
<1> USE DEF IInv, Clean, Over, Nothing, Nowhere, NoLibrary, files, history, run
<1>1. TypeOK'
  <2>1. RunOK' BY FaultOK DEF TypeOK, RunOK, Steps
  <2>2. RecipesOK' BY DEF TypeOK, RecipesOK
  <2>3. JailOK' BY DEF TypeOK, JailOK
  <2>4. LibsOK' BY DEF TypeOK, LibsOK
  <2> QED BY <2>1, <2>2, <2>3, <2>4 DEF TypeOK
<1>2. Quiet' BY DEF Quiet
<1>3. Placed' BY DEF Quiet, Placed, Rules
<1>4. Origin' BY DEF TypeOK, JailOK, Origin
<1>5. Writers' BY DEF TypeOK, RecipesOK, Quiet, Writers
<1>6. Collected' BY DEF TypeOK, JailOK, LibsOK, Collected, Fits, Programs
<1>7. TornIsOwn' BY DEF TypeOK, JailOK, Quiet, TornIsOwn
<1> QED BY <1>1, <1>2, <1>3, <1>4, <1>5, <1>6, <1>7

LEMMA EditInv == ASSUME IInv, Edit PROVE IInv'
<1> USE DEF IInv, Edit, files, history, run
<1>1. TypeOK'
  <2>1. RunOK' BY DEF TypeOK, RunOK
  <2>2. RecipesOK' BY DEF TypeOK, RecipesOK
  <2>3. JailOK' BY DEF TypeOK, JailOK
  <2>4. LibsOK' BY DEF TypeOK, LibsOK
  <2> QED BY <2>1, <2>2, <2>3, <2>4 DEF TypeOK
<1>2. Quiet' BY DEF Quiet
<1>3. Placed' BY DEF Quiet, Placed, InPlace, Rules
<1>4. Origin' BY DEF TypeOK, JailOK, Origin
<1>5. Writers' BY DEF TypeOK, RecipesOK, Quiet, Writers
<1>6. Collected' BY DEF Collected, Fits, Programs
<1>7. TornIsOwn' BY DEF TornIsOwn
<1> QED BY <1>1, <1>2, <1>3, <1>4, <1>5, <1>6, <1>7

LEMMA InitInv == Init => IInv
<1> SUFFICES ASSUME Init PROVE IInv OBVIOUS
<1> USE DEF Init, Nothing, Nowhere, NoLibrary
<1>1. TypeOK BY DEF TypeOK, RunOK, RecipesOK, JailOK, LibsOK, Steps
<1>2. Quiet /\ Origin /\ TornIsOwn BY DEF Quiet, Origin, TornIsOwn
<1>3. Placed BY DEF Placed, Rules
<1>4. Writers /\ Collected BY DEF Writers, Collected
<1> QED BY <1>1, <1>2, <1>3, <1>4 DEF IInv

LEMMA StepInv == IInv /\ [Next]_vars => IInv'
<1> SUFFICES ASSUME IInv, [Next]_vars PROVE IInv' OBVIOUS
<1>1. CASE UNCHANGED vars
  BY <1>1 DEF vars, run, files, history, IInv, TypeOK, RunOK, RecipesOK, JailOK, LibsOK, Quiet,
    Placed, InPlace, Origin, Writers, Collected, Fits, Programs, TornIsOwn
<1>2. ASSUME NEW t \in Path, Consider(t) \/ CreateFile(t) \/ FinishFile(t) \/ EndRecipe(t) \/ FailCopy(t)
      PROVE IInv'
  BY <1>2, ConsiderInv, CreateFileInv, FinishFileInv, EndRecipeInv, FailCopyInv
<1>3. CASE Make \/ EndPackages \/ Mklibs \/ Strip \/ Touch \/ Drop \/ Pack
  BY <1>3, MakeInv, EndPackagesInv, MklibsInv, StripInv, TouchInv, DropInv, PackInv
<1>4. CASE FailOrKill \/ Interrupt \/ Clean \/ Edit
  BY <1>4, FailOrKillInv, InterruptInv, CleanInv, EditInv
<1> QED BY <1>1, <1>2, <1>3, <1>4 DEF Next

LEMMA Invariance == Spec => []IInv
BY InitInv, StepInv, PTL DEF Spec

-----------------------------------------------------------------------------
\* Files are written by the recipes that list them and by no others, whichever
\* recipes make runs at a time.
THEOREM TypeCorrect == Spec => []TypeOK
<1>1. IInv => TypeOK BY DEF IInv
<1> QED BY <1>1, Invariance, PTL

\* The image gets the present version of each file, from the package whose rule
\* comes first: for any packages where no rule takes a file of a name from
\* another package, any interleaving of recipes, and any history of cut runs.
THEOREM ImageCurrent == Spec => []ImageIsCurrent
<1>1. IInv => ImageIsCurrent
  <2> SUFFICES ASSUME IInv, step = "pack", NEW f \in Path \ disturbed
               PROVE jail[f] # None /\ jail[f].from = Owner(f)
                     /\ jail[f].version = version[Owner(f)][f]
    BY DEF ImageIsCurrent
  <2>1. InPlace(f) BY DEF IInv, Placed, Rules
  <2> QED BY <2>1 DEF IInv, Origin, InPlace
<1> QED BY <1>1, Invariance, PTL

\* An image's libraries are those collected for the programs in it, and none is
\* missing but those that line 350 removes: lib/.done is touched after them, and
\* is older than whatever is copied later.
THEOREM LibrariesFit == Spec => []LibsFit
<1>1. IInv => LibsFit
  <2> SUFFICES ASSUME IInv, step = "pack", ~bared, NEW l \in Library,
                      ~(l \in Dropped /\ libs[l] = None)
               PROVE libs[l] = Programs
    BY DEF LibsFit
  <2>1. Fits(l) BY DEF IInv, Collected
  <2>2. \A f \in Elf : jail[f] # None BY DEF IInv, Placed, Rules, InPlace
  <2>3. \A f \in Elf : jail[f] = libs[l][f] BY <2>1, <2>2 DEF Fits
  <2> QED BY <2>1, <2>3 DEF Fits, Programs
<1> QED BY <1>1, Invariance, PTL

\* Of the files that have their name alone in their package, an interruption
\* leaves none torn that an image could hold.
THEOREM InterruptsSafe == Spec => []InterruptsAreSafe
<1>1. IInv => InterruptsAreSafe
  <2> SUFFICES ASSUME IInv, step = "pack", ~broke, NEW f \in Path, ~jail[f].whole, Alone(f)
               PROVE FALSE
    BY DEF InterruptsAreSafe, Alone
  <2>1. busy = {} BY DEF IInv, Quiet
  <2>2. jail[f] # None BY DEF IInv, Placed, Rules, InPlace
  <2> QED BY <2>1, <2>2 DEF IInv, TornIsOwn
<1> QED BY <1>1, Invariance, PTL
=============================================================================
