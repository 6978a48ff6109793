---------------------------- MODULE JailBuildProofs ---------------------------
(***************************************************************************)
(* Proofs about JailBuild, for any number of jobs, faults and runs: on one *)
(* file system the jail's passwd file is never torn, the image is made     *)
(* last and by the present tools, finished account files agree, and        *)
(* make -j1 packs none that an earlier run left torn.                      *)
(***************************************************************************)
EXTENDS JailBuild, SequenceTheorems, FiniteSetTheorems, TLAPS

Entry == {Lost, Line(Call["passwd"]["root"]), Line(Call["passwd"]["user"])}

\* The commands of the recipes other than passwd's: none touches the temporary file.
Elsewhere == {"rm", "create", "root", "user", "mknod", "gcc", "work"}

(***************************************************************************)
(* The temporary file has as many lines as the recipe has written, so that *)
(* the command that renames it finds both.                                 *)
(***************************************************************************)
Stage ==
  \/ left["passwd"] = <<>>
  \/ left["passwd"] = <<"mktemp", "root", "user", "mv">>
  \/ left["passwd"] = <<"root", "user", "mv">> /\ Len(tmp) = 0
  \/ left["passwd"] = <<"user", "mv">> /\ Len(tmp) = 1
  \/ left["passwd"] = <<"mv">> /\ Len(tmp) = 2

Shapes ==
  /\ left = [t \in Target |-> left[t]]
  /\ lines = [a \in Accounts |-> lines[a]]
  /\ tmp \in Seq(Entry)
  /\ \A t \in Target \ {"passwd"} : left[t] \in Seq(Elsewhere)

IInv == Shapes /\ (sameFs => Stage) /\ PasswdNeverTorn

\* A rule is one command line after the other.
LEMMA RecipeShape ==
  /\ sameFs => Recipe("passwd") = <<"mktemp", "root", "user", "mv">>
  /\ \A t \in Target \ {"passwd"} : Recipe(t) \in Seq(Elsewhere)
<1>1. sameFs => Recipe("passwd") = <<"mktemp", "root", "user", "mv">>
  BY DEF Recipe
<1>2. ASSUME NEW t \in Target \ {"passwd"} PROVE Recipe(t) \in Seq(Elsewhere)
  <2>1. <<"rm", "create", "root", "user">> \in Seq(Elsewhere)
    BY DEF Elsewhere
  <2>2. <<"mknod">> \in Seq(Elsewhere) /\ <<"gcc">> \in Seq(Elsewhere) /\ <<"work">> \in Seq(Elsewhere)
    BY DEF Elsewhere
  <2>3. t \in {"shadow", "group"} \/ t \notin {"passwd", "shadow", "group"}
    OBVIOUS
  <2>4. Recipe(t) \in {<<"rm", "create", "root", "user">>, <<"mknod">>, <<"gcc">>, <<"work">>}
    BY <1>2, <2>3 DEF Recipe
  <2>. QED  BY <2>1, <2>2, <2>4
<1>. QED  BY <1>1, <1>2

\* Append keeps a sequence over its set and makes it longer by one.
LEMMA AppendType ==
  ASSUME NEW S, NEW s \in Seq(S), NEW e \in S
  PROVE  Append(s, e) \in Seq(S) /\ Len(Append(s, e)) = Len(s) + 1
OBVIOUS

\* The build starts with nothing.
LEMMA InitInv == Init => IInv
BY DEF Init, IInv, Shapes, Stage, PasswdNeverTorn, Accounts, Target, Torn

\* The next target begins its recipe, or is up to date.
LEMMA ConsiderInv == IInv /\ Consider => IInv'
<1> SUFFICES ASSUME IInv, Consider PROVE IInv'
  OBVIOUS
<1>1. PICK i \in DOMAIN todo : \E r \in {<<>>, Recipe(todo[i])} : left' = [left EXCEPT ![todo[i]] = r]
  BY DEF Consider
<1>2. PICK r \in {<<>>, Recipe(todo[i])} : left' = [left EXCEPT ![todo[i]] = r]
  BY <1>1
<1>3. UNCHANGED <<sameFs, lines, tmp>>
  BY DEF Consider, files
<1>4. left' = [t \in Target |-> left'[t]] /\ \A t \in Target \ {"passwd"} : left'[t] \in Seq(Elsewhere)
  <2>1. <<>> \in Seq(Elsewhere)
    OBVIOUS
  <2>. QED  BY <1>2, <2>1, RecipeShape DEF IInv, Shapes
<1>5. left'["passwd"] \in {left["passwd"], <<>>, Recipe("passwd")}
  BY <1>2 DEF IInv, Shapes, Target, Accounts
<1>6. sameFs' => Stage'
  BY <1>3, <1>5, RecipeShape DEF IInv, Stage
<1>. QED  BY <1>3, <1>4, <1>6 DEF IInv, Shapes, PasswdNeverTorn, Torn

\* A command of passwd's own recipe, when /tmp and the jail are on one file
\* system: only mv touches the file.
LEMMA OwnCommand ==
  ASSUME IInv, Execute("passwd"), sameFs
  PROVE  /\ tmp' \in Seq(Entry)
         /\ Stage'
         /\ PasswdNeverTorn'
<1>1. /\ left["passwd"] # <<>> /\ left' = [left EXCEPT !["passwd"] = Tail(@)] /\ sameFs' = sameFs
      /\ Effect("passwd", Head(left["passwd"]))
  BY DEF Execute
<1>2. left'["passwd"] = Tail(left["passwd"])
  BY <1>1 DEF IInv, Shapes, Target, Accounts
<1>3. CASE left["passwd"] = <<"mktemp", "root", "user", "mv">>
  <2>1. Head(left["passwd"]) = "mktemp" /\ left'["passwd"] = <<"root", "user", "mv">>
    BY <1>2, <1>3
  <2>2. tmp' = <<>> /\ lines' = lines
    BY <1>1, <2>1 DEF Effect
  <2>. QED  BY <1>1, <2>1, <2>2 DEF IInv, Stage, PasswdNeverTorn
<1>4. CASE left["passwd"] = <<"root", "user", "mv">> /\ Len(tmp) = 0
  <2>1. Head(left["passwd"]) = "root" /\ left'["passwd"] = <<"user", "mv">>
    BY <1>2, <1>4
  <2>2. PICK l \in Entry : tmp' = Append(tmp, l) /\ lines' = lines
    BY <1>1, <2>1 DEF Effect, Generate, Entry
  <2>3. tmp' \in Seq(Entry) /\ Len(tmp') = 1
    <3>1. tmp \in Seq(Entry)
      BY DEF IInv, Shapes
    <3>2. tmp' \in Seq(Entry) /\ Len(tmp') = Len(tmp) + 1
      BY <2>2, <3>1, AppendType
    <3>. QED  BY <1>4, <3>2
  <2>. QED  BY <1>1, <2>1, <2>2, <2>3 DEF IInv, Stage, PasswdNeverTorn
<1>5. CASE left["passwd"] = <<"user", "mv">> /\ Len(tmp) = 1
  <2>1. Head(left["passwd"]) = "user" /\ left'["passwd"] = <<"mv">>
    BY <1>2, <1>5
  <2>2. PICK l \in Entry : tmp' = Append(tmp, l) /\ lines' = lines
    BY <1>1, <2>1 DEF Effect, Generate, Entry
  <2>3. tmp' \in Seq(Entry) /\ Len(tmp') = 2
    <3>1. tmp \in Seq(Entry)
      BY DEF IInv, Shapes
    <3>2. tmp' \in Seq(Entry) /\ Len(tmp') = Len(tmp) + 1
      BY <2>2, <3>1, AppendType
    <3>. QED  BY <1>5, <3>2
  <2>. QED  BY <1>1, <2>1, <2>2, <2>3 DEF IInv, Stage, PasswdNeverTorn
<1>6. CASE left["passwd"] = <<"mv">> /\ Len(tmp) = 2
  <2>1. Head(left["passwd"]) = "mv" /\ left'["passwd"] = <<>>
    BY <1>2, <1>6
  <2>2. tmp' = <<>> /\ lines' = [lines EXCEPT !["passwd"] = tmp]
    BY <1>1, <2>1 DEF Effect, SetLines
  <2>3. lines'["passwd"] = tmp
    BY <2>2 DEF IInv, Shapes, Accounts
  <2>4. ~Torn(lines'["passwd"])
    BY <1>6, <2>3 DEF Torn
  <2>. QED  BY <2>1, <2>2, <2>4 DEF Stage, PasswdNeverTorn
<1>. QED  BY <1>1, <1>3, <1>4, <1>5, <1>6 DEF IInv, Stage

\* A command of any recipe.
LEMMA ExecuteInv == ASSUME NEW t \in Target PROVE IInv /\ Execute(t) => IInv'
<1> SUFFICES ASSUME IInv, Execute(t) PROVE IInv'
  OBVIOUS
<1>1. /\ left[t] # <<>> /\ left' = [left EXCEPT ![t] = Tail(@)] /\ sameFs' = sameFs
      /\ Effect(t, Head(left[t]))
  BY DEF Execute
<1>2. /\ left' = [u \in Target |-> left'[u]]
      /\ \A u \in Target \ {"passwd"} : left'[u] \in Seq(Elsewhere)
  <2>1. t # "passwd" => Tail(left[t]) \in Seq(Elsewhere)
    BY <1>1 DEF IInv, Shapes
  <2>. QED  BY <1>1, <2>1 DEF IInv, Shapes
<1>3. /\ lines' = [a \in Accounts |-> lines'[a]]
      /\ t # "passwd" => lines'["passwd"] = lines["passwd"]
  BY <1>1 DEF IInv, Shapes, Effect, Generate, SetLines, files, Accounts
<1>4. CASE t # "passwd"
  <2>1. Head(left[t]) \in Elsewhere
    BY <1>1, <1>4 DEF IInv, Shapes
  <2>2. tmp' = tmp /\ left'["passwd"] = left["passwd"]
    BY <1>1, <1>4, <2>1 DEF IInv, Shapes, Effect, Generate, files, Elsewhere, Target, Accounts
  <2>. QED  BY <1>1, <1>2, <1>3, <1>4, <2>2 DEF IInv, Shapes, Stage, PasswdNeverTorn
<1>5. CASE t = "passwd" /\ sameFs
  BY <1>1, <1>2, <1>3, <1>5, OwnCommand DEF IInv, Shapes
<1>6. CASE t = "passwd" /\ ~sameFs
  <2>1. \/ tmp' \in {tmp, <<>>}
        \/ \E l \in Entry : tmp' = Append(tmp, l)
    BY <1>1, <1>6 DEF Effect, Generate, Entry, files
  <2>2. tmp' \in Seq(Entry)
    <3>1. tmp \in Seq(Entry)
      BY DEF IInv, Shapes
    <3>2. <<>> \in Seq(Entry)
      OBVIOUS
    <3>3. \A l \in Entry : Append(tmp, l) \in Seq(Entry)
      BY <3>1, AppendType
    <3>. QED  BY <2>1, <3>1, <3>2, <3>3
  <2>. QED  BY <1>1, <1>2, <1>3, <1>6, <2>2 DEF IInv, Shapes, PasswdNeverTorn
<1>. QED  BY <1>4, <1>5, <1>6

\* The end of recipes leaves the rest as it is.
LEMMA CutShortInv ==
  ASSUME NEW T \in SUBSET Target, IInv, CutShort(T), UNCHANGED <<sameFs, lines>>
  PROVE  IInv'
<1>1. /\ left' = [t \in Target |-> IF t \in T THEN <<>> ELSE left[t]]
      /\ tmp' = IF "passwd" \in T THEN <<>> ELSE tmp
  BY DEF CutShort
<1>2. left' = [t \in Target |-> left'[t]] /\ tmp' \in Seq(Entry)
  BY <1>1 DEF IInv, Shapes
<1>3. \A t \in Target \ {"passwd"} : left'[t] \in Seq(Elsewhere)
  <2>1. <<>> \in Seq(Elsewhere)
    OBVIOUS
  <2>. QED  BY <1>1, <2>1 DEF IInv, Shapes
<1>4. sameFs' => Stage'
  BY <1>1 DEF IInv, Stage, Target, Accounts
<1>. QED  BY <1>2, <1>3, <1>4 DEF IInv, Shapes, PasswdNeverTorn, Torn

\* Interruptions, cleaning and everything else only remove the file.
LEMMA OtherInv ==
  ASSUME IInv, UNCHANGED sameFs,
         lines' = [a \in Accounts |-> lines'[a]],
         lines'["passwd"] \in {lines["passwd"], NULL},
         \/ UNCHANGED <<left, tmp>>
         \/ left' = [t \in Target |-> <<>>] /\ tmp' = <<>>
  PROVE  IInv'
<1>1. <<>> \in Seq(Elsewhere) /\ <<>> \in Seq(Entry)
  OBVIOUS
<1>2. left' = [t \in Target |-> left'[t]] /\ tmp' \in Seq(Entry)
  BY <1>1 DEF IInv, Shapes
<1>3. \A t \in Target \ {"passwd"} : left'[t] \in Seq(Elsewhere)
  BY <1>1 DEF IInv, Shapes
<1>4. sameFs' => Stage'
  BY DEF IInv, Stage, Target, Accounts
<1>5. PasswdNeverTorn'
  BY DEF IInv, PasswdNeverTorn, Torn
<1>. QED  BY <1>2, <1>3, <1>4, <1>5 DEF IInv, Shapes

\* Every step.
LEMMA NextInv == IInv /\ [Next]_vars => IInv'
<1> SUFFICES ASSUME IInv, [Next]_vars PROVE IInv'
  OBVIOUS
<1>0. lines = [a \in Accounts |-> lines[a]]
  BY DEF IInv, Shapes
<1>1. CASE Make \/ EndOfRun \/ EndOfClean \/ EditSource \/ RemoveConsole \/ UNCHANGED vars
  BY <1>0, <1>1, OtherInv DEF Make, EndOfRun, EndOfClean, EditSource, RemoveConsole, files, vars
<1>2. CASE Consider
  BY <1>2, ConsiderInv
<1>3. ASSUME NEW t \in Target, Execute(t) PROVE IInv'
  BY <1>3, ExecuteInv
<1>4. ASSUME NEW t \in Target, Fail(t) PROVE IInv'
  BY <1>4, CutShortInv DEF Fail
<1>5. CASE Kill
  BY <1>5, CutShortInv DEF Kill
<1>6. CASE Interrupt
  <2>1. lines' = [a \in Accounts |-> IF a \in Changed THEN NULL ELSE lines[a]]
        /\ left' = [t \in Target |-> <<>>] /\ tmp' = <<>> /\ sameFs' = sameFs
    BY <1>6 DEF Interrupt
  <2>2. lines' = [a \in Accounts |-> lines'[a]] /\ lines'["passwd"] \in {lines["passwd"], NULL}
    BY <2>1 DEF Accounts
  <2>. QED  BY <2>1, <2>2, OtherInv
<1>7. CASE Clean
  <2>1. /\ lines' = [a \in Accounts |-> lines'[a]] /\ lines'["passwd"] \in {lines["passwd"], NULL}
        /\ UNCHANGED <<sameFs, left, tmp>>
    BY <1>0, <1>7 DEF Clean, SetLines, Accounts
  <2>. QED  BY <2>1, OtherInv
<1>. QED  BY <1>1, <1>2, <1>3, <1>4, <1>5, <1>6, <1>7 DEF Next

\* The jail's passwd file is absent or has every line, whenever make ends, by
\* a failure, an interruption or a crash, if renaming is not copying.
THEOREM PasswdAtomic == Spec => []PasswdNeverTorn
<1>1. IInv => PasswdNeverTorn
  BY DEF IInv
<1>. QED  BY <1>1, InitInv, NextInv, PTL DEF Spec

-----------------------------------------------------------------------------
(***************************************************************************)
(* The image's rule comes after all the others, under every number of      *)
(* jobs.  The inductive invariant: how far the account files are, and what *)
(* make's order of starting recipes leaves out.                            *)
(***************************************************************************)
USE NoFileAssumption

Tool == "make_jail_etc"
Idle(t) == left[t] = <<>>
Considered(t) == t \notin ToSet(todo)
Made(a) == lines[a] # NULL /\ fresh[a]

Kinds ==
  /\ left = [t \in Target |-> left[t]] /\ todo \in Seq(Target)
  /\ lines \in [Accounts -> Seq(AnyLine) \cup {NULL}] /\ fresh = [a \in Accounts |-> fresh[a]]
  /\ tmp \in Seq(AnyLine)

\* A file that its recipe has created is there until the recipe ends.
InPlaceStage(a) ==
  \/ left[a] \in {<<>>, <<"rm", "create", "root", "user">>, <<"create", "root", "user">>}
  \/ left[a] \in {<<"root", "user">>, <<"user">>} /\ Made(a)

PasswdStage ==
  left["passwd"] \in
    {<<>>, <<"mktemp", "root", "user", "mv">>, <<"root", "user", "mv">>, <<"user", "mv">>, <<"mv">>,
     <<"mktemp", "root", "user", "unlink", "create", "copy">>,
     <<"root", "user", "unlink", "create", "copy">>, <<"user", "unlink", "create", "copy">>,
     <<"unlink", "create", "copy">>, <<"create", "copy">>, <<"copy">>}

Stages ==
  /\ PasswdStage /\ InPlaceStage("shadow") /\ InPlaceStage("group")
  /\ left["console"] \in {<<>>, <<"mknod">>} /\ left[Tool] \in {<<>>, <<"gcc">>}
  /\ \A t \in {"packages", "libs", "image"} : left[t] \in {<<>>, <<"work">>}

Order ==
  /\ goal \in Cleaning \cup {"none"} => \A t \in Target : Idle(t) /\ Considered(t)
  /\ ~Idle("image") => ~failed /\ \A t \in Target \ {"image"} : Idle(t) /\ Considered(t)
  /\ \A a \in Accounts : ~Idle(a) => Idle(Tool) /\ Considered(Tool)
  /\ goal = "all" => \A a \in Accounts : Considered(a) => Idle(Tool) /\ Considered(Tool)

Results ==
  goal = "all" /\ ~failed =>
    /\ Idle(Tool) /\ Considered(Tool) => toolNew
    /\ \A a \in Accounts : Idle(a) /\ Considered(a) => Made(a)

JInv == Kinds /\ Stages /\ Order /\ Results

\* What is left when one target is taken out of a list.
LEMMA Removed ==
  ASSUME NEW s \in Seq(Target), NEW i \in DOMAIN s
  PROVE  /\ i \in 1..Len(s) /\ Len(s) \in Nat
         /\ RemoveAt(s, i) \in Seq(Target) /\ Len(RemoveAt(s, i)) = Len(s) - 1
         /\ \A j \in 1..(i - 1) : RemoveAt(s, i)[j] = s[j]
         /\ \A j \in i..(Len(s) - 1) : RemoveAt(s, i)[j] = s[j + 1]
<1> DEFINE r == RemoveAt(s, i)
           p == SubSeq(s, 1, i - 1)
           q == SubSeq(s, i + 1, Len(s))
<1>0. i \in 1..Len(s) /\ Len(s) \in Nat
  OBVIOUS
<1>1. /\ p \in Seq(Target) /\ Len(p) = i - 1
      /\ \A j \in 1..(i - 1) : p[j] = s[j]
  BY <1>0
<1>2. /\ q \in Seq(Target) /\ Len(q) = Len(s) - i
      /\ \A j \in 1..(Len(s) - i) : q[j] = s[i + j]
  BY <1>0
<1>3. r = p \o q
  BY DEF RemoveAt
<1> HIDE DEF p, q, r
<1>4. /\ p \o q \in Seq(Target) /\ Len(p \o q) = Len(p) + Len(q)
      /\ \A j \in 1..(Len(p) + Len(q)) :
           (p \o q)[j] = IF j <= Len(p) THEN p[j] ELSE q[j - Len(p)]
  BY <1>1, <1>2, ConcatProperties, Zenon
<1>5. ASSUME NEW j \in i..(Len(s) - 1) PROVE r[j] = s[j + 1]
  <2>1. /\ j \in 1..(Len(p) + Len(q)) /\ ~(j <= Len(p)) /\ j - Len(p) \in 1..(Len(s) - i)
        /\ i + (j - Len(p)) = j + 1
    BY <1>0, <1>1, <1>2
  <2> QED BY <1>2, <1>3, <1>4, <2>1
<1>6. ASSUME NEW j \in 1..(i - 1) PROVE r[j] = s[j]
  <2>1. j \in 1..(Len(p) + Len(q)) /\ j <= Len(p) BY <1>0, <1>1, <1>2
  <2> QED BY <1>1, <1>3, <1>4, <2>1
<1>7. Len(p) + Len(q) = Len(s) - 1 BY <1>0, <1>1, <1>2
<1> QED BY <1>0, <1>3, <1>4, <1>5, <1>6, <1>7 DEF r

\* Every target of a goal but the one taken stays to be considered.
LEMMA RemoveOne ==
  ASSUME NEW s \in Seq(Target), NEW i \in DOMAIN s
  PROVE  /\ RemoveAt(s, i) \in Seq(Target) /\ s[i] \in Target
         /\ ToSet(RemoveAt(s, i)) \subseteq ToSet(s) /\ s[i] \in ToSet(s)
         /\ ToSet(s) \subseteq ToSet(RemoveAt(s, i)) \cup {s[i]}
<1> DEFINE r == RemoveAt(s, i)
<1>1. i \in 1..Len(s) /\ Len(s) \in Nat
  OBVIOUS
<1>2. /\ r \in Seq(Target) /\ Len(r) = Len(s) - 1
      /\ \A j \in 1..(i - 1) : r[j] = s[j]
      /\ \A j \in i..(Len(s) - 1) : r[j] = s[j + 1]
  BY Removed
<1> HIDE DEF r
<1>3. ToSet(r) \subseteq ToSet(s)
  <2> SUFFICES ASSUME NEW j \in 1..(Len(s) - 1) PROVE \E k \in DOMAIN s : s[k] = r[j]
    BY <1>1, <1>2 DEF ToSet
  <2>1. CASE j <= i - 1 BY <1>1, <1>2, <2>1
  <2>2. CASE j >= i BY <1>1, <1>2, <2>2
  <2> QED BY <1>1, <2>1, <2>2
<1>4. ToSet(s) \subseteq ToSet(r) \cup {s[i]}
  <2> SUFFICES ASSUME NEW k \in 1..Len(s), k # i PROVE \E j \in DOMAIN r : r[j] = s[k]
    BY <1>1 DEF ToSet
  <2>1. CASE k < i BY <1>1, <1>2, <2>1
  <2>2. CASE k > i
    <3>1. k - 1 \in i..(Len(s) - 1) /\ (k - 1) + 1 = k BY <1>1, <2>2
    <3> QED BY <1>1, <1>2, <3>1
  <2> QED BY <1>1, <2>1, <2>2
<1>5. s[i] \in Target /\ s[i] \in ToSet(s)
  BY <1>1 DEF ToSet
<1> QED BY <1>2, <1>3, <1>4, <1>5 DEF r

LEMMA JInit == Init => JInv
<1> SUFFICES ASSUME Init PROVE JInv OBVIOUS
<1>1. Kinds BY DEF Init, Kinds, Accounts
<1>2. Stages BY DEF Init, Stages, PasswdStage, InPlaceStage, Target, Accounts, Tool
<1>3. Order BY DEF Init, Order, Idle, Considered, ToSet, Target, Accounts, Tool
<1>4. Results BY DEF Init, Results
<1> QED BY <1>1, <1>2, <1>3, <1>4 DEF JInv

\* make starts a recipe that has not to wait, or finds its target up to date.
LEMMA JConsider == JInv /\ Consider => JInv'
<1> SUFFICES ASSUME JInv, Consider PROVE JInv' OBVIOUS
<1>1. PICK i \in DOMAIN todo :
        /\ Ready(todo[i]) /\ todo' = RemoveAt(todo, i)
        /\ left' = [left EXCEPT ![todo[i]] = IF UpToDate(todo[i]) THEN <<>> ELSE Recipe(todo[i])]
  BY DEF Consider
<1>2. PICK t \in Target : t = todo[i] BY RemoveOne DEF JInv, Kinds
<1>3. /\ todo' \in Seq(Target) /\ ToSet(todo') \subseteq ToSet(todo) /\ t \in ToSet(todo)
      /\ ToSet(todo) \subseteq ToSet(todo') \cup {t}
  BY <1>1, <1>2, RemoveOne DEF JInv, Kinds
<1>4. /\ Ready(t) /\ left' = [left EXCEPT ![t] = IF UpToDate(t) THEN <<>> ELSE Recipe(t)]
      /\ ~failed /\ UNCHANGED <<sameFs, goal, failed, lines, fresh, tmp, console, toolNew>>
  BY <1>1, <1>2 DEF Consider, files
<1>5. \A u \in Target : left'[u] = IF u = t THEN IF UpToDate(t) THEN <<>> ELSE Recipe(t) ELSE left[u]
  BY <1>4 DEF JInv, Kinds
<1>6. Kinds' BY <1>3, <1>4 DEF JInv, Kinds
<1>7. Stages'
  <2>1. Recipe("passwd") \in {<<"mktemp", "root", "user", "mv">>,
                              <<"mktemp", "root", "user", "unlink", "create", "copy">>}
    BY DEF Recipe
  <2>2. /\ \A u \in {"shadow", "group"} : Recipe(u) = <<"rm", "create", "root", "user">>
        /\ Recipe("console") = <<"mknod">> /\ Recipe(Tool) = <<"gcc">>
        /\ \A u \in {"packages", "libs", "image"} : Recipe(u) = <<"work">>
    BY DEF Recipe, Tool
  <2>3. PasswdStage' BY <1>5, <2>1 DEF JInv, Stages, PasswdStage, Target, Accounts
  <2>4. InPlaceStage("shadow")' /\ InPlaceStage("group")'
    BY <1>4, <1>5, <2>2 DEF JInv, Stages, InPlaceStage, Made, Target, Accounts
  <2> QED BY <1>5, <2>2, <2>3, <2>4 DEF JInv, Stages, Target, Accounts, Tool
<1>8. Order'
  <2>1. Needs("image") = Target /\ \A a \in Accounts : Needs(a) = {Tool}
    BY DEF Needs, Accounts, Tool
  <2>2. t = "image" => \A u \in Target \ {"image"} : Idle(u) /\ Considered(u)
    BY <1>4, <2>1 DEF Ready, Busy, Idle, Considered
  <2>3. t \in Accounts => Idle(Tool) /\ Considered(Tool)
    BY <1>4, <2>1 DEF Ready, Busy, Idle, Considered, Target, Accounts, Tool
  <2>4. \A u \in Target : u # t => (Idle(u)' <=> Idle(u)) /\ (Considered(u)' <=> Considered(u))
    BY <1>3, <1>5 DEF Idle, Considered
  <2>5. ~Considered(t) /\ \A u \in Target : Considered(u) => Considered(u)'
    BY <1>3 DEF Considered
  <2>6. goal \notin Cleaning \cup {"none"}
    BY <1>2, <1>3 DEF JInv, Order, Considered
  <2> QED BY <1>4, <2>2, <2>3, <2>4, <2>5, <2>6 DEF JInv, Order, Target, Accounts, Tool
<1>9. Results'
  <2>1. \A u \in Target : u # t => (Idle(u)' <=> Idle(u)) /\ (Considered(u)' <=> Considered(u))
    BY <1>3, <1>5 DEF Idle, Considered
  <2>2. t = Tool /\ Idle(Tool)' => toolNew
    BY <1>5 DEF Idle, UpToDate, Recipe, Tool, Accounts
  <2>3. t \in Accounts /\ Idle(t)' => Made(t)
    BY <1>5 DEF Idle, UpToDate, Recipe, Accounts, Made
  <2> QED BY <1>4, <2>1, <2>2, <2>3 DEF JInv, Results, Made, Target, Accounts, Tool
<1> QED BY <1>6, <1>7, <1>8, <1>9 DEF JInv

\* The end of the rules in T, by a failure or because make ends.
LEMMA JCutShort ==
  ASSUME JInv, NEW T \in SUBSET Target, CutShort(T), UNCHANGED <<lines, fresh>>
  PROVE  /\ left' \in [Target -> {left[t] : t \in Target} \cup {<<>>}]
         /\ \A t \in Target : left'[t] = IF t \in T THEN <<>> ELSE left[t]
         /\ left' = [t \in Target |-> left'[t]] /\ tmp' \in Seq(AnyLine)
         /\ Stages'
<1>1. /\ left' = [t \in Target |-> IF t \in T THEN <<>> ELSE left[t]]
      /\ tmp' = IF "passwd" \in T THEN <<>> ELSE tmp
  BY DEF CutShort
<1>2. \A t \in Target : left'[t] \in {left[t], <<>>} BY <1>1
<1>3. tmp' \in Seq(AnyLine) BY <1>1 DEF JInv, Kinds
<1>4. Stages'
  BY <1>2 DEF JInv, Stages, PasswdStage, InPlaceStage, Made, Target, Accounts, Tool
<1> QED BY <1>1, <1>3, <1>4

LEMMA JFail == ASSUME JInv, NEW t \in Target, Fail(t) PROVE JInv'
<1>1. /\ left[t] # <<>> /\ failed' = TRUE /\ CutShort({t})
      /\ UNCHANGED <<goal, todo, lines, fresh>>
  BY DEF Fail
<1>2. Kinds' /\ Stages' BY <1>1, JCutShort DEF JInv, Kinds
<1>3. \A u \in Target : Idle(u)' <=> (Idle(u) \/ u = t) BY <1>1, JCutShort DEF Idle
<1>4. \A u \in Target : Considered(u)' <=> Considered(u) BY <1>1 DEF Considered
<1>5. Order'
  <2>1. Idle("image")' BY <1>1, <1>3 DEF JInv, Order, Idle, Target
  <2> QED BY <1>1, <1>3, <1>4, <2>1 DEF JInv, Order, Target, Accounts, Tool
<1>6. Results' BY <1>1 DEF Results
<1> QED BY <1>2, <1>5, <1>6 DEF JInv

\* make ends, or is ended, or has nothing to make.
LEMMA JQuiet ==
  ASSUME Kinds', goal' # "all", \A t \in Target : left'[t] = <<>>, todo' = <<>>
  PROVE  JInv'
<1>1. Stages' BY DEF Stages, PasswdStage, InPlaceStage, Target, Accounts, Tool
<1>2. Order' BY DEF Order, Idle, Considered, ToSet, Target, Accounts, Tool
<1>3. Results' BY DEF Results
<1> QED BY <1>1, <1>2, <1>3 DEF JInv

LEMMA JMake == JInv /\ Make => JInv'
<1> SUFFICES ASSUME JInv, Make PROVE JInv' OBVIOUS
<1>1. /\ goal = "none" /\ goal' \in Goal /\ UNCHANGED <<left, failed, lines, fresh, tmp, toolNew>>
      /\ todo' = IF goal' \in Cleaning THEN <<>> ELSE Prerequisites[goal']
  BY DEF Make, files
<1>2. \A t \in Target : left'[t] = <<>> BY <1>1 DEF JInv, Order, Idle
<1>3. todo' \in Seq(Target)
  <2>1. Target = {"passwd", "shadow", "group", "packages", "console", "libs", "make_jail_etc", "image"}
    BY DEF Target, Accounts
  <2>2. /\ Prerequisites.all \in Seq(Target) /\ Prerequisites.tar \in Seq(Target)
        /\ Prerequisites.users \in Seq(Target) /\ <<>> \in Seq(Target)
    BY <2>1 DEF Prerequisites
  <2>3. goal' \in Cleaning \/ goal' \in {"all", "tar", "users"}
    BY <1>1 DEF Goal, Prerequisites
  <2> QED BY <1>1, <2>2, <2>3
<1>4. Kinds' BY <1>1, <1>3 DEF JInv, Kinds
<1>5. Stages' BY <1>2 DEF Stages, PasswdStage, InPlaceStage, Target, Accounts, Tool
<1>6. goal' = "all" => \A t \in Accounts \cup {Tool} : ~Considered(t)'
  <2> SUFFICES ASSUME goal' = "all" PROVE \A t \in Accounts \cup {Tool} : t \in ToSet(todo')
    BY DEF Considered
  <2>1. todo' = <<"packages", "console", "libs", "make_jail_etc", "shadow", "passwd", "group", "image">>
    BY <1>1 DEF Cleaning, Prerequisites
  <2>2. Len(todo') = 8 /\ todo'[4] = Tool /\ todo'[5] = "shadow" /\ todo'[6] = "passwd" /\ todo'[7] = "group"
    BY <2>1 DEF Tool
  <2>3. \A i \in 1..8 : todo'[i] \in ToSet(todo')
    BY <2>2, <1>3 DEF ToSet
  <2> QED BY <2>2, <2>3 DEF Accounts
<1>7. goal' \in Cleaning => \A t \in Target : Considered(t)'
  BY <1>1 DEF Considered, ToSet
<1>8. Order'
  BY <1>1, <1>2, <1>6, <1>7 DEF Order, Idle, Target, Accounts, Tool, Goal, Cleaning, Prerequisites
<1>9. Results' BY <1>6 DEF Results
<1> QED BY <1>4, <1>5, <1>8, <1>9 DEF JInv

\* What a file holds after a command that writes it.
LEMMA Setting ==
  ASSUME Kinds, NEW a \in Accounts, NEW s \in Seq(AnyLine) \cup {NULL}, SetLines(a, s)
  PROVE  /\ lines' \in [Accounts -> Seq(AnyLine) \cup {NULL}] /\ fresh' = [b \in Accounts |-> fresh'[b]]
         /\ \A b \in Accounts \ {a} : Made(b)' <=> Made(b)
         /\ Made(a)' <=> s # NULL
BY DEF Kinds, SetLines, Made

LEMMA AccountCommand ==
  ASSUME Kinds, NEW t \in Accounts, NEW c \in {"rm", "create", "root", "user", "mktemp", "mv", "unlink", "copy"},
         Effect(t, c), c \in {"root", "user"} /\ t # "passwd" => lines[t] # NULL
  PROVE  /\ UNCHANGED toolNew /\ tmp' \in Seq(AnyLine)
         /\ lines' \in [Accounts -> Seq(AnyLine) \cup {NULL}] /\ fresh' = [b \in Accounts |-> fresh'[b]]
         /\ \A b \in Accounts \ {t} : Made(b)' <=> Made(b)
         /\ c \in {"create", "mv", "copy"} \/ (c \in {"root", "user"} /\ t # "passwd") => Made(t)'
<1>1. <<>> \in Seq(AnyLine) /\ NULL # <<>> /\ tmp \in Seq(AnyLine) /\ tmp # NULL
  <2>1. <<>> \in Seq(AnyLine) /\ tmp \in Seq(AnyLine) BY DEF Kinds
  <2> QED BY <2>1
<1>2. CASE c \in {"root", "user"}
  <2>1. PICK l \in {Line(Call[t][c]), Lost} :
          /\ IF t = "passwd" THEN tmp' = Append(tmp, l) /\ UNCHANGED <<lines, fresh>>
                             ELSE SetLines(t, Append(lines[t], l)) /\ UNCHANGED tmp
          /\ UNCHANGED toolNew
    BY <1>2 DEF Effect, Generate
  <2>2. l \in AnyLine BY <1>2, <2>1 DEF AnyLine
  <2>3. CASE t = "passwd"
    <3>1. Append(tmp, l) \in Seq(AnyLine) BY <1>1, <2>2, AppendType
    <3> QED BY <1>2, <2>1, <2>3, <3>1 DEF Kinds, Made
  <2>4. CASE t # "passwd"
    <3>1. lines[t] \in Seq(AnyLine) BY <1>2, <2>4 DEF Kinds
    <3>2. Append(lines[t], l) \in Seq(AnyLine) BY <2>2, <3>1, AppendType
    <3>3. Append(lines[t], l) # NULL BY <3>2
    <3> QED BY <1>1, <2>1, <2>4, <3>2, <3>3, Setting
  <2> QED BY <2>3, <2>4
<1>3. CASE c \in {"rm", "unlink"}
  <2>1. SetLines(t, NULL) /\ UNCHANGED <<tmp, toolNew>> BY <1>3 DEF Effect
  <2> QED BY <1>1, <1>3, <2>1, Setting
<1>4. CASE c = "create"
  <2>1. SetLines(t, <<>>) /\ UNCHANGED <<tmp, toolNew>> BY <1>4 DEF Effect
  <2> QED BY <1>1, <1>4, <2>1, Setting
<1>5. CASE c = "mktemp"
  <2>1. tmp' = <<>> /\ UNCHANGED <<lines, fresh, toolNew>> BY <1>5 DEF Effect
  <2> QED BY <1>1, <1>5, <2>1 DEF Kinds, Made
<1>6. CASE c \in {"mv", "copy"}
  <2>1. SetLines(t, tmp) /\ tmp' = <<>> /\ UNCHANGED toolNew BY <1>6 DEF Effect
  <2> QED BY <1>1, <1>6, <2>1, Setting
<1> QED BY <1>2, <1>3, <1>4, <1>5, <1>6

\* A command of an account file's recipe: the last one leaves the file made.
LEMMA JAccount ==
  ASSUME JInv, NEW t \in Accounts, Execute(t)
  PROVE  /\ UNCHANGED toolNew
         /\ lines' \in [Accounts -> Seq(AnyLine) \cup {NULL}] /\ fresh' = [a \in Accounts |-> fresh'[a]]
         /\ tmp' \in Seq(AnyLine)
         /\ \A a \in Accounts \ {t} : Made(a)' <=> Made(a)
         /\ Stages'
         /\ Tail(left[t]) = <<>> => Made(t)'
<1> DEFINE c == Head(left[t])
<1>1. /\ left[t] # <<>> /\ Effect(t, c)
      /\ \A u \in Target : left'[u] = IF u = t THEN Tail(left[t]) ELSE left[u]
  BY DEF Execute, JInv, Kinds, Target
<1>2. CASE t = "passwd"
  <2>1. /\ c \in {"mktemp", "root", "user", "mv", "unlink", "create", "copy"}
        /\ Tail(left[t]) = <<>> => c \in {"mv", "copy"}
        /\ PasswdStage'
    <3> HIDE DEF c
    <3>1. c = Head(left[t]) /\ left'["passwd"] = Tail(left[t]) BY <1>1, <1>2 DEF c, Target
    <3>2. CASE left[t] = <<"mktemp", "root", "user", "mv">> BY <3>1, <3>2 DEF PasswdStage
    <3>3. CASE left[t] = <<"root", "user", "mv">> BY <3>1, <3>3 DEF PasswdStage
    <3>4. CASE left[t] = <<"user", "mv">> BY <3>1, <3>4 DEF PasswdStage
    <3>5. CASE left[t] = <<"mv">> BY <3>1, <3>5 DEF PasswdStage
    <3>6. CASE left[t] = <<"mktemp", "root", "user", "unlink", "create", "copy">> BY <3>1, <3>6 DEF PasswdStage
    <3>7. CASE left[t] = <<"root", "user", "unlink", "create", "copy">> BY <3>1, <3>7 DEF PasswdStage
    <3>8. CASE left[t] = <<"user", "unlink", "create", "copy">> BY <3>1, <3>8 DEF PasswdStage
    <3>9. CASE left[t] = <<"unlink", "create", "copy">> BY <3>1, <3>9 DEF PasswdStage
    <3>10. CASE left[t] = <<"create", "copy">> BY <3>1, <3>10 DEF PasswdStage
    <3>11. CASE left[t] = <<"copy">> BY <3>1, <3>11 DEF PasswdStage
    <3> QED BY <1>1, <1>2, <3>2, <3>3, <3>4, <3>5, <3>6, <3>7, <3>8, <3>9, <3>10, <3>11 DEF JInv, Stages, PasswdStage
  <2> HIDE DEF c
  <2>2. /\ UNCHANGED toolNew /\ tmp' \in Seq(AnyLine)
        /\ lines' \in [Accounts -> Seq(AnyLine) \cup {NULL}] /\ fresh' = [b \in Accounts |-> fresh'[b]]
        /\ \A b \in Accounts \ {t} : Made(b)' <=> Made(b)
        /\ c \in {"create", "mv", "copy"} => Made(t)'
    BY <1>1, <1>2, <2>1, AccountCommand DEF JInv
  <2>3. Stages'
    BY <1>1, <1>2, <2>1, <2>2 DEF JInv, Stages, InPlaceStage, Target, Accounts, Tool
  <2> QED BY <2>1, <2>2, <2>3
<1>3. CASE t # "passwd"
  <2>1. t \in {"shadow", "group"} /\ InPlaceStage(t)
    BY <1>3 DEF JInv, Stages, Accounts
  <2>2. /\ c \in {"rm", "create", "root", "user"}
        /\ c \in {"root", "user"} => lines[t] # NULL
        /\ c = "rm" => Tail(left[t]) = <<"create", "root", "user">>
        /\ c = "create" => Tail(left[t]) = <<"root", "user">>
        /\ c \in {"root", "user"} => Tail(left[t]) \in {<<"user">>, <<>>}
    <3> HIDE DEF c
    <3>1. c = Head(left[t]) BY DEF c
    <3>2. CASE left[t] = <<"rm", "create", "root", "user">> BY <3>1, <3>2
    <3>3. CASE left[t] = <<"create", "root", "user">> BY <3>1, <3>3
    <3>4. CASE left[t] = <<"root", "user">> /\ lines[t] # NULL BY <3>1, <3>4
    <3>5. CASE left[t] = <<"user">> /\ lines[t] # NULL BY <3>1, <3>5
    <3> QED BY <1>1, <2>1, <3>2, <3>3, <3>4, <3>5 DEF InPlaceStage, Made
  <2> HIDE DEF c
  <2>3. /\ UNCHANGED toolNew /\ tmp' \in Seq(AnyLine)
        /\ lines' \in [Accounts -> Seq(AnyLine) \cup {NULL}] /\ fresh' = [b \in Accounts |-> fresh'[b]]
        /\ \A b \in Accounts \ {t} : Made(b)' <=> Made(b)
        /\ c \in {"create", "root", "user"} => Made(t)'
    BY <1>1, <1>3, <2>2, AccountCommand DEF JInv
  <2>4. InPlaceStage(t)'
    BY <1>1, <2>2, <2>3 DEF InPlaceStage, Target
  <2>5. \A a \in {"shadow", "group"} \ {t} : InPlaceStage(a)'
    BY <1>1, <2>1, <2>3 DEF JInv, Stages, InPlaceStage, Target, Accounts
  <2>6. Stages'
    BY <1>1, <2>1, <2>4, <2>5 DEF JInv, Stages, PasswdStage, Target, Accounts, Tool
  <2>7. Tail(left[t]) = <<>> => c \in {"create", "root", "user"}
    BY <2>2
  <2> QED BY <2>3, <2>6, <2>7
<1> QED BY <1>2, <1>3

\* A command of a recipe.
LEMMA JExecute == ASSUME JInv, NEW t \in Target, Execute(t) PROVE JInv'
<1>1. /\ left[t] # <<>> /\ Effect(t, Head(left[t])) /\ left' = [left EXCEPT ![t] = Tail(@)]
      /\ UNCHANGED <<sameFs, goal, todo, failed>>
  BY DEF Execute
<1>2. \A u \in Target : left'[u] = IF u = t THEN Tail(left[t]) ELSE left[u]
  BY <1>1 DEF JInv, Kinds
<1>3. \A u \in Target : /\ Considered(u)' <=> Considered(u)
                        /\ Idle(u) => Idle(u)' /\ u # t
                        /\ u # t => (Idle(u)' <=> Idle(u))
  BY <1>1, <1>2 DEF Considered, Idle
<1>4. Order'
  BY <1>1, <1>3 DEF JInv, Order, Idle, Target, Accounts, Tool
<1>5. CASE t \in Target \ (Accounts \cup {Tool})
  <2>1. Head(left[t]) \in {"mknod", "work"} /\ Tail(left[t]) = <<>>
    <3>1. left[t] = <<"mknod">> \/ left[t] = <<"work">>
      BY <1>1, <1>5 DEF JInv, Stages, Target, Accounts, Tool
    <3>2. CASE left[t] = <<"mknod">> BY <3>2
    <3>3. CASE left[t] = <<"work">> BY <3>3
    <3> QED BY <3>1, <3>2, <3>3
  <2>2. UNCHANGED <<lines, fresh, tmp, toolNew>>
    BY <1>1, <2>1 DEF Effect, files
  <2>3. Kinds' BY <1>1, <2>2 DEF JInv, Kinds
  <2>4. Stages'
    BY <1>2, <1>5, <2>1, <2>2 DEF JInv, Stages, PasswdStage, InPlaceStage, Made, Target, Accounts, Tool
  <2>5. Results'
    BY <1>1, <1>3, <1>5, <2>2 DEF JInv, Results, Made, Target, Accounts, Tool
  <2> QED BY <1>4, <2>3, <2>4, <2>5 DEF JInv
<1>6. CASE t = Tool
  <2>1. Head(left[t]) = "gcc" /\ Tail(left[t]) = <<>>
    <3>1. left[t] = <<"gcc">> BY <1>1, <1>6 DEF JInv, Stages
    <3> QED BY <3>1
  <2>2. toolNew' = TRUE /\ fresh' = [a \in Accounts |-> FALSE] /\ UNCHANGED <<lines, tmp>>
    BY <1>1, <2>1 DEF Effect
  <2>3. \A a \in Accounts : Idle(a)
    BY <1>1, <1>6 DEF JInv, Order, Idle
  <2>4. goal = "all" => \A a \in Accounts : ~Considered(a)
    BY <1>1, <1>6 DEF JInv, Order, Idle
  <2>5. Kinds' BY <1>1, <2>2 DEF JInv, Kinds
  <2>6. Stages'
    BY <1>2, <1>6, <2>1, <2>3 DEF JInv, Stages, PasswdStage, InPlaceStage, Idle, Target, Accounts, Tool
  <2>7. Results'
    BY <1>1, <1>3, <2>2, <2>4 DEF Results, Target, Accounts
  <2> QED BY <1>4, <2>5, <2>6, <2>7 DEF JInv
<1>7. CASE t \in Accounts
  <2>1. /\ UNCHANGED toolNew
        /\ lines' \in [Accounts -> Seq(AnyLine) \cup {NULL}] /\ fresh' = [a \in Accounts |-> fresh'[a]]
        /\ tmp' \in Seq(AnyLine)
        /\ \A a \in Accounts \ {t} : Made(a)' <=> Made(a)
        /\ Stages'
        /\ Tail(left[t]) = <<>> => Made(t)'
    BY <1>7, JAccount
  <2>2. Kinds' BY <1>1, <2>1 DEF JInv, Kinds
  <2>3. Results'
    BY <1>1, <1>2, <1>3, <1>7, <2>1 DEF JInv, Results, Idle, Target, Accounts, Tool
  <2> QED BY <1>4, <2>1, <2>2, <2>3 DEF JInv
<1> QED BY <1>5, <1>6, <1>7 DEF Target

\* Everything else happens while no recipe runs, or ends them all.
LEMMA JOther ==
  ASSUME JInv, EndOfRun \/ Kill \/ Interrupt \/ Clean \/ EndOfClean \/ EditSource \/ RemoveConsole
  PROVE  JInv'
<1>1. CASE EndOfRun
  <2>1. /\ goal' = "none" /\ todo' = <<>> /\ UNCHANGED <<left, lines, fresh, tmp>>
        /\ \A t \in Target : left[t] = <<>>
    BY <1>1 DEF EndOfRun, files, Busy
  <2>2. Kinds' BY <2>1 DEF JInv, Kinds
  <2> QED BY <2>1, <2>2, JQuiet
<1>2. CASE Kill
  <2>1. /\ goal' = "none" /\ todo' = <<>> /\ CutShort(Target) /\ UNCHANGED <<lines, fresh>>
    BY <1>2 DEF Kill
  <2>2. Kinds' BY <2>1, JCutShort DEF JInv, Kinds
  <2> QED BY <2>1, <2>2, JCutShort, JQuiet
<1>3. CASE Interrupt
  <2>1. /\ goal' = "none" /\ todo' = <<>> /\ left' = [t \in Target |-> <<>>] /\ tmp' = <<>>
        /\ lines' = [a \in Accounts |-> IF a \in Changed THEN NULL ELSE lines[a]]
        /\ fresh' = [a \in Accounts |-> fresh[a] /\ a \notin Changed]
    BY <1>3 DEF Interrupt
  <2>2. Kinds' BY <2>1 DEF JInv, Kinds
  <2> QED BY <2>1, <2>2, JQuiet
<1>4. CASE Clean
  <2>1. /\ goal \in Cleaning /\ goal' = goal /\ UNCHANGED <<todo, left, failed, tmp>>
        /\ UNCHANGED <<lines, fresh>> \/ \E a \in Accounts : SetLines(a, NULL)
    BY <1>4 DEF Clean
  <2>2. Kinds' BY <2>1, Setting DEF JInv, Kinds
  <2>3. \A t \in Target : left'[t] = <<>> /\ Considered(t)'
    BY <2>1 DEF JInv, Order, Idle, Considered
  <2>4. Stages' BY <2>3 DEF Stages, PasswdStage, InPlaceStage, Target, Accounts, Tool
  <2>5. goal' # "all" BY <2>1 DEF Cleaning
  <2>6. Order' BY <2>3, <2>5 DEF Order, Idle, Target, Accounts, Tool
  <2>7. Results' BY <2>5 DEF Results
  <2> QED BY <2>2, <2>4, <2>6, <2>7 DEF JInv
<1>5. CASE EndOfClean \/ EditSource \/ RemoveConsole
  <2>1. /\ goal \in Cleaning \cup {"none"} /\ goal' = "none"
        /\ UNCHANGED <<todo, left, failed, lines, fresh, tmp>>
    BY <1>5 DEF EndOfClean, EditSource, RemoveConsole, files
  <2>2. Kinds' BY <2>1 DEF JInv, Kinds
  <2>3. \A t \in Target : left'[t] = <<>> /\ Considered(t)'
    BY <2>1 DEF JInv, Order, Idle, Considered
  <2>4. Stages' BY <2>3 DEF Stages, PasswdStage, InPlaceStage, Target, Accounts, Tool
  <2>5. Order' BY <2>1, <2>3 DEF Order, Idle, Target, Accounts, Tool
  <2>6. Results' BY <2>1 DEF Results
  <2> QED BY <2>2, <2>4, <2>5, <2>6 DEF JInv
<1> QED BY <1>1, <1>2, <1>3, <1>4, <1>5

LEMMA JNext == JInv /\ [Next]_vars => JInv'
<1> SUFFICES ASSUME JInv, [Next]_vars PROVE JInv' OBVIOUS
<1>1. CASE UNCHANGED vars
  BY <1>1 DEF vars, files, JInv, Kinds, Stages, PasswdStage, InPlaceStage, Made, Order, Results,
    Idle, Considered
<1>2. CASE Next
  BY <1>2, JMake, JConsider, JExecute, JFail, JOther DEF Next
<1> QED BY <1>1, <1>2

\* jail.cpio is packed alone, when the account files are there and come from the
\* present make_jail_etc, however many recipes make runs at a time and however
\* earlier runs ended.
THEOREM PackedLast == Spec => []BuiltByPresentTool
<1>1. JInv => BuiltByPresentTool
  <2> SUFFICES ASSUME JInv, left["image"] # <<>>, goal = "all"
               PROVE /\ Busy = {"image"} /\ toolNew
                     /\ \A t \in Accounts : lines[t] # NULL /\ fresh[t]
    BY DEF BuiltByPresentTool, Packing
  <2>1. ~failed /\ \A t \in Target \ {"image"} : Idle(t) /\ Considered(t)
    BY DEF JInv, Order, Idle
  <2>2. Busy = {"image"} BY <2>1 DEF Busy, Idle, Target
  <2>3. toolNew /\ \A t \in Accounts : Made(t)
    BY <2>1 DEF JInv, Results, Target, Accounts, Tool
  <2> QED BY <2>2, <2>3 DEF Made
<1> QED BY <1>1, JInit, JNext, PTL DEF Spec

-----------------------------------------------------------------------------
(***************************************************************************)
(* The contents of the account files.  Before each command the file that   *)
(* its recipe writes has as many lines as the commands before it wrote.    *)
(***************************************************************************)
OneLine(t) == {<<a>> : a \in {Lost, Written(t)[1]}}
BothLines(t) == {<<a, b>> : a \in {Lost, Written(t)[1]}, b \in {Lost, Written(t)[2]}}

\* What the file of a recipe in place, or the temporary file, holds before the
\* rest of the recipe.
SoFar(t, rest, s) ==
  rest # <<>> =>
    /\ Head(rest) = "root" => s = <<>>
    /\ Head(rest) = "user" => s \in OneLine(t)
    /\ Head(rest) \in {"mv", "unlink", "copy"} => s \in BothLines(t)
    /\ rest = <<"create", "copy">> => s \in BothLines(t)

Filled ==
  /\ \A a \in {"shadow", "group"} : SoFar(a, left[a], lines[a])
  /\ SoFar("passwd", left["passwd"], tmp)
  /\ left["passwd"] = <<"copy">> => lines["passwd"] = <<>>

\* The conjuncts of TypeOK.
Fixed == sameFs \in BOOLEAN /\ jobs \in Jobs /\ faults \in 0..MaxFaults[jobs]
Run ==
  /\ goal \in Goal \cup {"none"} /\ failed \in BOOLEAN
  /\ todo = <<>> \/ (goal \in DOMAIN Prerequisites /\ InOrder(todo, Prerequisites[goal]))
Rests == \A t \in Target : IsSuffix(left[t], Recipe(t))
Held == (\A a \in Accounts : lines[a] \in Contents[a]) /\ tmp \in Contents["passwd"] \ {NULL}
Flags ==
  /\ fresh \in [Accounts -> BOOLEAN]
  /\ console \in BOOLEAN /\ toolNew \in BOOLEAN /\ bared \in BOOLEAN
  /\ cutBy \in [Accounts -> SUBSET DOMAIN Prerequisites]

TInv == JInv /\ Fixed /\ Run /\ Rests /\ Held /\ Flags /\ Filled

\* A suffix, position by position.
LEMMA SuffixAt ==
  ASSUME NEW S, NEW s \in Seq(S), NEW r \in Seq(S)
  PROVE  IsSuffix(s, r) <=>
           Len(s) <= Len(r) /\ \A i \in 1..Len(s) : s[i] = r[Len(r) - Len(s) + i]
<1> DEFINE m == Len(s)
           n == Len(r)
           rs == [i \in 1..m |-> s[(m - i) + 1]]
           rr == [i \in 1..n |-> r[(n - i) + 1]]
<1>1. m \in Nat /\ n \in Nat OBVIOUS
<1>2. Reverse(s) = rs /\ Reverse(r) = rr BY DEF Reverse
<1>3. rs \in Seq(S) /\ Len(rs) = m /\ rr \in Seq(S) /\ Len(rr) = n BY <1>1
<1>4. IsSuffix(s, r) <=> m <= n /\ SubSeq(rs, 1, m) = SubSeq(rr, 1, m)
  BY <1>2, <1>3 DEF IsSuffix, IsPrefix
<1>5. ASSUME m <= n
      PROVE (SubSeq(rs, 1, m) = SubSeq(rr, 1, m)) <=> \A i \in 1..m : s[i] = r[n - m + i]
  <2>1. /\ SubSeq(rs, 1, m) = [i \in 1..m |-> s[(m - i) + 1]]
        /\ SubSeq(rr, 1, m) = [i \in 1..m |-> r[(n - i) + 1]]
    BY <1>1, <1>3, <1>5
  <2>2. ASSUME \A i \in 1..m : s[(m - i) + 1] = r[(n - i) + 1], NEW i \in 1..m
        PROVE  s[i] = r[n - m + i]
    <3>1. (m - i) + 1 \in 1..m /\ (m - ((m - i) + 1)) + 1 = i /\ (n - ((m - i) + 1)) + 1 = n - m + i
      BY <1>1, <1>5
    <3> QED BY <2>2, <3>1
  <2>3. ASSUME \A i \in 1..m : s[i] = r[n - m + i], NEW i \in 1..m
        PROVE  s[(m - i) + 1] = r[(n - i) + 1]
    <3>1. (m - i) + 1 \in 1..m /\ n - m + ((m - i) + 1) = (n - i) + 1
      BY <1>1, <1>5
    <3> QED BY <2>3, <3>1
  <2> QED BY <2>1, <2>2, <2>3
<1> QED BY <1>4, <1>5

\* Nothing, the whole, and the tail of a suffix are suffixes.
LEMMA SuffixRules ==
  ASSUME NEW S, NEW s \in Seq(S), NEW r \in Seq(S)
  PROVE  /\ IsSuffix(<<>>, r) /\ IsSuffix(r, r)
         /\ IsSuffix(s, r) /\ s # <<>> => IsSuffix(Tail(s), r)
<1>1. IsSuffix(<<>>, r)
  <2>0. <<>> \in Seq(S) /\ Len(<<>>) = 0 OBVIOUS
  <2>1. PICK e \in Seq(S) : e = <<>> /\ Len(e) = 0 BY <2>0
  <2>2. Len(e) <= Len(r) /\ \A i \in 1..Len(e) : e[i] = r[Len(r) - Len(e) + i] BY <2>1
  <2> QED BY <2>1, <2>2, SuffixAt
<1>2. IsSuffix(r, r)
  BY SuffixAt
<1>3. ASSUME IsSuffix(s, r), s # <<>> PROVE IsSuffix(Tail(s), r)
  <2>1. /\ Tail(s) \in Seq(S) /\ Len(s) \in Nat \ {0} /\ Len(Tail(s)) = Len(s) - 1
        /\ \A i \in 1..(Len(s) - 1) : Tail(s)[i] = s[i + 1]
    BY <1>3
  <2>2. Len(s) <= Len(r) /\ \A i \in 1..Len(s) : s[i] = r[Len(r) - Len(s) + i]
    BY <1>3, SuffixAt
  <2>3. ASSUME NEW i \in 1..Len(Tail(s)) PROVE Tail(s)[i] = r[Len(r) - Len(Tail(s)) + i]
    <3>1. i + 1 \in 1..Len(s) /\ Len(r) - Len(s) + (i + 1) = Len(r) - Len(Tail(s)) + i
      BY <2>1
    <3> QED BY <2>1, <2>2, <3>1
  <2>4. PICK u \in Seq(S) : u = Tail(s) BY <2>1
  <2>5. Len(u) <= Len(r) /\ \A i \in 1..Len(u) : u[i] = r[Len(r) - Len(u) + i]
    BY <2>1, <2>2, <2>3, <2>4
  <2> QED BY <2>4, <2>5, SuffixAt
<1> QED BY <1>1, <1>2, <1>3

Command == {"rm", "create", "root", "user", "mknod", "gcc", "work", "mktemp", "mv", "unlink", "copy"}

\* Every recipe is a list of commands, and so is what is left of it.
LEMMA Commands ==
  /\ \A t \in Target : Recipe(t) \in Seq(Command)
  /\ Stages => \A t \in Target : left[t] \in Seq(Command)
<1>1. \A t \in Target \ {"passwd"} : Recipe(t) \in Seq(Command)
  <2>1. Elsewhere \subseteq Command BY DEF Elsewhere, Command
  <2>2. ASSUME NEW s \in Seq(Elsewhere) PROVE s \in Seq(Command) BY <2>1
  <2> QED BY <2>2, RecipeShape
<1>2. Recipe("passwd") \in {<<"mktemp", "root", "user", "mv">>,
                            <<"mktemp", "root", "user", "unlink", "create", "copy">>}
  BY DEF Recipe
<1>3. Recipe("passwd") \in Seq(Command)
  <2>1. <<"mktemp", "root", "user", "mv">> \in Seq(Command) BY DEF Command
  <2>2. <<"mktemp", "root", "user", "unlink", "create", "copy">> \in Seq(Command) BY DEF Command
  <2> QED BY <1>2, <2>1, <2>2
<1>4. ASSUME Stages, NEW t \in Target PROVE left[t] \in Seq(Command)
  <2>1. <<>> \in Seq(Command) /\ <<"mknod">> \in Seq(Command) /\ <<"gcc">> \in Seq(Command)
        /\ <<"work">> \in Seq(Command)
    BY DEF Command
  <2>2. /\ <<"rm", "create", "root", "user">> \in Seq(Command)
        /\ <<"create", "root", "user">> \in Seq(Command)
        /\ <<"root", "user">> \in Seq(Command) /\ <<"user">> \in Seq(Command)
    BY DEF Command
  <2>3. /\ <<"mktemp", "root", "user", "mv">> \in Seq(Command)
        /\ <<"root", "user", "mv">> \in Seq(Command) /\ <<"user", "mv">> \in Seq(Command)
        /\ <<"mv">> \in Seq(Command)
    BY DEF Command
  <2>4. /\ <<"mktemp", "root", "user", "unlink", "create", "copy">> \in Seq(Command)
        /\ <<"root", "user", "unlink", "create", "copy">> \in Seq(Command)
        /\ <<"user", "unlink", "create", "copy">> \in Seq(Command)
    BY DEF Command
  <2>5. /\ <<"unlink", "create", "copy">> \in Seq(Command) /\ <<"create", "copy">> \in Seq(Command)
        /\ <<"copy">> \in Seq(Command)
    BY DEF Command
  <2>6. CASE t = "passwd" BY <1>4, <2>1, <2>3, <2>4, <2>5, <2>6 DEF Stages, PasswdStage
  <2>7. CASE t \in {"shadow", "group"} BY <1>4, <2>1, <2>2, <2>7 DEF Stages, InPlaceStage
  <2>8. CASE t \in Target \ Accounts BY <1>4, <2>1, <2>8 DEF Stages, Target, Accounts, Tool
  <2> QED BY <2>6, <2>7, <2>8 DEF Target, Accounts
<1> QED BY <1>1, <1>3, <1>4

\* A recipe goes on, begins, or is cut short.
LEMMA RestsStep == TInv /\ [Next]_vars => Rests'
<1> SUFFICES ASSUME TInv, [Next]_vars PROVE Rests' OBVIOUS
<1>0. \A t \in Target : /\ left[t] \in Seq(Command) /\ Recipe(t) \in Seq(Command)
                        /\ IsSuffix(left[t], Recipe(t))
  BY Commands DEF TInv, JInv, Rests
<1>1. \A t \in Target : Recipe(t)' = Recipe(t)
  <2>1. UNCHANGED sameFs
    BY DEF Next, vars, Make, Consider, EndOfRun, Execute, Fail, Kill, Interrupt, Clean, EndOfClean,
      EditSource, RemoveConsole
  <2> QED BY <2>1 DEF Recipe
<1>2. ASSUME NEW t \in Target,
             \/ left'[t] \in {left[t], <<>>, Recipe(t)}
             \/ left[t] # <<>> /\ left'[t] = Tail(left[t])
      PROVE  IsSuffix(left'[t], Recipe(t))
  <2>1. PICK s \in Seq(Command), r \in Seq(Command) : s = left[t] /\ r = Recipe(t) BY <1>0
  <2>2. IsSuffix(s, r) BY <1>0, <2>1
  <2>3. /\ IsSuffix(<<>>, r) /\ IsSuffix(r, r)
        /\ s # <<>> => IsSuffix(Tail(s), r)
    BY <2>2, SuffixRules
  <2> QED BY <1>2, <2>1, <2>2, <2>3
<1>3. ASSUME NEW t \in Target
      PROVE  \/ left'[t] \in {left[t], <<>>, Recipe(t)}
             \/ left[t] # <<>> /\ left'[t] = Tail(left[t])
  <2> USE DEF TInv, JInv, Kinds
  <2>1. CASE Make \/ EndOfRun \/ EndOfClean \/ EditSource \/ RemoveConsole \/ Clean \/ UNCHANGED vars
    BY <2>1 DEF Make, EndOfRun, EndOfClean, EditSource, RemoveConsole, Clean, vars
  <2>2. CASE Consider
    BY <2>2 DEF Consider
  <2>3. ASSUME NEW u \in Target, Execute(u) PROVE left'[t] = left[t] \/ (left[t] # <<>> /\ left'[t] = Tail(left[t]))
    BY <2>3 DEF Execute
  <2>4. ASSUME NEW u \in Target, Fail(u) PROVE left'[t] \in {left[t], <<>>}
    BY <2>4 DEF Fail, CutShort
  <2>5. CASE Kill \/ Interrupt
    BY <2>5 DEF Kill, Interrupt, CutShort
  <2> QED BY <2>1, <2>2, <2>3, <2>4, <2>5 DEF Next
<1> QED BY <1>1, <1>2, <1>3 DEF Rests

\* The number of faults stays within its bound.
LEMMA FixedStep == TInv /\ [Next]_vars => Fixed'
<1> SUFFICES ASSUME TInv, [Next]_vars PROVE Fixed' OBVIOUS
<1>1. UNCHANGED <<sameFs, jobs>>
  BY DEF Next, vars, Make, Consider, EndOfRun, Execute, Fail, Kill, Interrupt, Clean, EndOfClean,
    EditSource, RemoveConsole
<1>2. faults' = faults \/ (faults < MaxFaults[jobs] /\ faults' = faults + 1)
  <2>1. ASSUME NEW t \in Target, Execute(t)
        PROVE  faults' = faults \/ (faults < MaxFaults[jobs] /\ faults' = faults + 1)
    BY <2>1 DEF Execute, Effect, Generate
  <2> QED BY <2>1 DEF Next, vars, Make, Consider, EndOfRun, Fail, Kill, Interrupt, Clean, EndOfClean,
    EditSource, RemoveConsole
<1>3. MaxFaults[jobs] \in Nat
  BY JailBuildAssumption DEF TInv, Fixed
<1> QED BY <1>1, <1>2, <1>3 DEF TInv, Fixed

\* Taking one target out of a list keeps the order of the others.
LEMMA RemovedInOrder ==
  ASSUME NEW s \in Seq(Target), NEW i \in DOMAIN s, NEW order, InOrder(s, order)
  PROVE  InOrder(RemoveAt(s, i), order)
<1> DEFINE r == RemoveAt(s, i)
           at(j) == IF j < i THEN j ELSE j + 1
<1>1. /\ i \in 1..Len(s) /\ Len(s) \in Nat /\ r \in Seq(Target) /\ Len(r) = Len(s) - 1
      /\ \A j \in 1..(i - 1) : r[j] = s[j]
      /\ \A j \in i..(Len(s) - 1) : r[j] = s[j + 1]
      /\ ToSet(r) \subseteq ToSet(s)
  BY Removed, RemoveOne
<1> HIDE DEF r
<1>2. DOMAIN r = 1..(Len(s) - 1) /\ DOMAIN s = 1..Len(s) BY <1>1
<1>3. \A j \in DOMAIN r : at(j) \in DOMAIN s /\ r[j] = s[at(j)]
  <2> TAKE j \in DOMAIN r
  <2>1. CASE j < i BY <1>1, <1>2, <2>1
  <2>2. CASE j >= i BY <1>1, <1>2, <2>2
  <2> QED BY <1>1, <1>2, <2>1, <2>2
<1>4. \A j, k \in DOMAIN r : j < k => at(j) < at(k) BY <1>1, <1>2
<1> HIDE DEF at
<1>5. ASSUME NEW j \in DOMAIN r, NEW k \in DOMAIN r, j < k
      PROVE  \E m, n \in DOMAIN order : m < n /\ order[m] = r[j] /\ order[n] = r[k]
  <2>1. at(j) \in DOMAIN s /\ at(k) \in DOMAIN s /\ at(j) < at(k) BY <1>3, <1>4, <1>5
  <2>2. \E m, n \in DOMAIN order : m < n /\ order[m] = s[at(j)] /\ order[n] = s[at(k)]
    BY <2>1 DEF InOrder
  <2> QED BY <1>3, <2>2
<1>6. InOrder(r, order) BY <1>1, <1>5 DEF InOrder
<1> QED BY <1>6 DEF r

\* make goes through the prerequisites of its goal in their order.
LEMMA RunStep == TInv /\ [Next]_vars => Run'
<1> SUFFICES ASSUME TInv, [Next]_vars PROVE Run' OBVIOUS
<1>1. goal' \in Goal \cup {"none"} /\ failed' \in BOOLEAN
  BY DEF TInv, Run, Next, vars, Make, Consider, EndOfRun, Execute, Fail, Kill, Interrupt, Clean,
    EndOfClean, EditSource, RemoveConsole
<1>2. todo' = <<>> \/ (goal' \in DOMAIN Prerequisites /\ InOrder(todo', Prerequisites[goal']))
  <2>1. CASE Make
    <3>1. CASE goal' \in Cleaning BY <2>1, <3>1 DEF Make
    <3>2. CASE goal' \notin Cleaning
      <4>1. goal' \in DOMAIN Prerequisites /\ todo' = Prerequisites[goal']
        BY <2>1, <3>2 DEF Make, Goal
      <4> QED BY <4>1 DEF InOrder
    <3> QED BY <3>1, <3>2
  <2>2. CASE Consider
    <3>1. PICK i \in DOMAIN todo : todo' = RemoveAt(todo, i) /\ goal' = goal
      BY <2>2 DEF Consider
    <3>2. goal \in DOMAIN Prerequisites /\ InOrder(todo, Prerequisites[goal]) /\ todo \in Seq(Target)
      BY <3>1 DEF TInv, Run, JInv, Kinds
    <3> QED BY <3>1, <3>2, RemovedInOrder
  <2>3. CASE EndOfRun \/ Kill \/ Interrupt
    BY <2>3 DEF EndOfRun, Kill, Interrupt
  <2>4. CASE Clean \/ UNCHANGED vars \/ \E t \in Target : Execute(t) \/ Fail(t)
    BY <2>4 DEF TInv, Run, Clean, vars, Execute, Fail
  <2>5. CASE EndOfClean \/ EditSource \/ RemoveConsole
    <3>1. goal \in Cleaning \cup {"none"} /\ todo' = todo
      BY <2>5 DEF EndOfClean, EditSource, RemoveConsole
    <3>2. goal \notin DOMAIN Prerequisites BY <3>1 DEF Cleaning, Prerequisites
    <3> QED BY <3>1, <3>2 DEF TInv, Run
  <2> QED BY <2>1, <2>2, <2>3, <2>4, <2>5 DEF Next
<1> QED BY <1>1, <1>2 DEF Run

\* Flags are flags, and a file is cut only by a run that makes something.
LEMMA FlagsStep == TInv /\ [Next]_vars => Flags'
<1> SUFFICES ASSUME TInv, [Next]_vars PROVE Flags' OBVIOUS
<1> USE DEF TInv, Flags
<1>1. /\ console' \in BOOLEAN /\ toolNew' \in BOOLEAN /\ bared' \in BOOLEAN
  <2>1. ASSUME NEW t \in Target, Execute(t) PROVE console' \in BOOLEAN /\ toolNew' \in BOOLEAN /\ bared' \in BOOLEAN
    BY <2>1 DEF Execute, Effect, Generate, files
  <2> QED BY <2>1 DEF Next, vars, files, Make, Consider, EndOfRun, Fail, Kill, Interrupt, Clean,
    EndOfClean, EditSource, RemoveConsole
<1>2. fresh' \in [Accounts -> BOOLEAN]
  <2>1. ASSUME NEW t \in Target, Execute(t) PROVE fresh' \in [Accounts -> BOOLEAN]
    BY <2>1 DEF Execute, Effect, Generate, SetLines, files
  <2> QED BY <2>1 DEF Next, vars, files, Make, Consider, EndOfRun, Fail, Kill, Interrupt, Clean,
    EndOfClean, EditSource, RemoveConsole, SetLines
<1>3. cutBy' \in [Accounts -> SUBSET DOMAIN Prerequisites]
  <2>1. ASSUME NEW T, CutShort(T), goal \in DOMAIN Prerequisites
        PROVE  cutBy' \in [Accounts -> SUBSET DOMAIN Prerequisites]
    BY <2>1 DEF CutShort
  <2>2. goal \notin Cleaning \cup {"none"} => goal \in DOMAIN Prerequisites
    BY DEF Run, Goal
  <2>3. ASSUME NEW t \in Target, Fail(t) PROVE cutBy' \in [Accounts -> SUBSET DOMAIN Prerequisites]
    <3>1. goal \notin Cleaning \cup {"none"} BY <2>3 DEF Fail, JInv, Order, Idle
    <3> QED BY <2>1, <2>2, <2>3, <3>1 DEF Fail
  <2>4. ASSUME NEW t \in Target, Execute(t) PROVE cutBy' \in [Accounts -> SUBSET DOMAIN Prerequisites]
    BY <2>4 DEF Execute
  <2>5. CASE Kill BY <2>1, <2>2, <2>5 DEF Kill
  <2>6. CASE Interrupt BY <2>6 DEF Interrupt
  <2>7. CASE Clean BY <2>7 DEF Clean
  <2> QED BY <2>3, <2>4, <2>5, <2>6, <2>7 DEF Next, vars, Make, Consider, EndOfRun, EndOfClean,
    EditSource, RemoveConsole
<1> QED BY <1>1, <1>2, <1>3

LEMMA AppendSecond ==
  ASSUME NEW S, NEW a \in S, NEW b \in S
  PROVE  Append(<<a>>, b) = <<a, b>>
<1>1. <<a>> \in Seq(S) /\ Len(<<a>>) = 1 OBVIOUS
<1>2. /\ Append(<<a>>, b) \in Seq(S) /\ Len(Append(<<a>>, b)) = 2
      /\ Append(<<a>>, b)[1] = a /\ Append(<<a>>, b)[2] = b
  BY <1>1
<1>3. <<a, b>> \in Seq(S) /\ Len(<<a, b>>) = 2 OBVIOUS
<1>4. \A i \in 1..2 : Append(<<a>>, b)[i] = <<a, b>>[i] BY <1>2
<1> QED BY <1>2, <1>3, <1>4, SeqEqual

\* Each call of make_jail_etc takes a file one line further.
LEMMA OneMore ==
  ASSUME NEW t \in Accounts
  PROVE  /\ \A l \in {Line(Call[t]["root"]), Lost} : Append(<<>>, l) \in OneLine(t)
         /\ \A s \in OneLine(t), l \in {Line(Call[t]["user"]), Lost} : Append(s, l) \in BothLines(t)
         /\ Contents[t] = {NULL, <<>>} \cup OneLine(t) \cup BothLines(t)
<1>1. Written(t)[1] = Line(Call[t]["root"]) /\ Written(t)[2] = Line(Call[t]["user"])
  BY DEF Written
<1>2. \A l \in {Line(Call[t]["root"]), Lost} : Append(<<>>, l) \in OneLine(t)
  BY <1>1 DEF OneLine
<1>3. ASSUME NEW s \in OneLine(t), NEW l \in {Line(Call[t]["user"]), Lost}
      PROVE  Append(s, l) \in BothLines(t)
  <2>1. PICK a \in {Lost, Written(t)[1]} : s = <<a>> BY DEF OneLine
  <2>2. Append(s, l) = <<a, l>>
    <3>1. PICK S : S = {a, l} OBVIOUS
    <3> QED BY <2>1, <3>1, AppendSecond
  <2> QED BY <1>1, <2>2 DEF BothLines
<1>4. Contents[t] = {NULL, <<>>} \cup OneLine(t) \cup BothLines(t)
  BY DEF Contents, OneLine, BothLines
<1> QED BY <1>2, <1>3, <1>4

\* A command of the recipe of shadow or group.
LEMMA InPlaceContents ==
  ASSUME TInv, NEW t \in {"shadow", "group"}, Execute(t)
  PROVE  /\ \A a \in Accounts \ {t} : lines'[a] = lines[a]
         /\ lines'[t] \in Contents[t] /\ SoFar(t, left'[t], lines'[t])
         /\ tmp' = tmp
<1>1. /\ t \in Accounts /\ lines \in [Accounts -> Seq(AnyLine) \cup {NULL}]
      /\ left[t] # <<>> /\ left'[t] = Tail(left[t]) /\ Effect(t, Head(left[t]))
      /\ SoFar(t, left[t], lines[t])
  BY DEF TInv, JInv, Kinds, Execute, Filled, Target, Accounts
<1>2. \A s : SetLines(t, s) => lines'[t] = s /\ \A a \in Accounts \ {t} : lines'[a] = lines[a]
  BY <1>1 DEF SetLines
<1>3. CASE left[t] = <<"rm", "create", "root", "user">>
  <2>1. Head(left[t]) = "rm" /\ left'[t] = <<"create", "root", "user">> BY <1>1, <1>3
  <2>2. SetLines(t, NULL) /\ tmp' = tmp BY <1>1, <2>1 DEF Effect
  <2>3. SoFar(t, left'[t], NULL) BY <2>1 DEF SoFar
  <2> QED BY <1>1, <1>2, <2>2, <2>3, OneMore
<1>4. CASE left[t] = <<"create", "root", "user">>
  <2>1. Head(left[t]) = "create" /\ left'[t] = <<"root", "user">> BY <1>1, <1>4
  <2>2. SetLines(t, <<>>) /\ tmp' = tmp BY <1>1, <2>1 DEF Effect
  <2>3. SoFar(t, left'[t], <<>>) BY <2>1 DEF SoFar
  <2> QED BY <1>1, <1>2, <2>2, <2>3, OneMore
<1>5. CASE left[t] = <<"root", "user">>
  <2>1. Head(left[t]) = "root" /\ left'[t] = <<"user">> BY <1>1, <1>5
  <2>2. lines[t] = <<>> BY <1>1, <1>5, <2>1 DEF SoFar
  <2>3. PICK l \in {Line(Call[t]["root"]), Lost} : SetLines(t, Append(<<>>, l)) /\ tmp' = tmp
    BY <1>1, <2>1, <2>2 DEF Effect, Generate
  <2>4. Append(<<>>, l) \in OneLine(t) BY <1>1, OneMore
  <2>5. SoFar(t, left'[t], Append(<<>>, l)) BY <2>1, <2>4 DEF SoFar
  <2>6. Append(<<>>, l) \in Contents[t] BY <1>1, <2>4, OneMore
  <2>7. lines'[t] = Append(<<>>, l) BY <1>2, <2>3
  <2> QED BY <1>2, <2>3, <2>5, <2>6, <2>7
<1>6. CASE left[t] = <<"user">>
  <2>1. Head(left[t]) = "user" /\ left'[t] = <<>> BY <1>1, <1>6
  <2>2. lines[t] \in OneLine(t) BY <1>1, <1>6, <2>1 DEF SoFar
  <2>3. PICK l \in {Line(Call[t]["user"]), Lost} : SetLines(t, Append(lines[t], l)) /\ tmp' = tmp
    BY <1>1, <2>1 DEF Effect, Generate
  <2>4. Append(lines[t], l) \in BothLines(t) BY <1>1, <2>2, OneMore
  <2>5. SoFar(t, left'[t], Append(lines[t], l)) BY <2>1 DEF SoFar
  <2>6. Append(lines[t], l) \in Contents[t] BY <1>1, <2>4, OneMore
  <2>7. lines'[t] = Append(lines[t], l) BY <1>2, <2>3
  <2> QED BY <1>2, <2>3, <2>5, <2>6, <2>7
<1> QED BY <1>1, <1>3, <1>4, <1>5, <1>6 DEF TInv, JInv, Stages, InPlaceStage

\* A command of the recipe of passwd, with a renaming or a copy at its end.
LEMMA PasswdContents ==
  ASSUME TInv, Execute("passwd")
  PROVE  /\ \A a \in Accounts \ {"passwd"} : lines'[a] = lines[a]
         /\ lines'["passwd"] \in Contents["passwd"]
         /\ tmp' \in {<<>>} \cup OneLine("passwd") \cup BothLines("passwd")
         /\ SoFar("passwd", left'["passwd"], tmp')
         /\ left'["passwd"] = <<"copy">> => lines'["passwd"] = <<>>
<1> DEFINE t == "passwd"
<1>1. /\ t \in Accounts /\ lines \in [Accounts -> Seq(AnyLine) \cup {NULL}]
      /\ left[t] # <<>> /\ left'[t] = Tail(left[t]) /\ Effect(t, Head(left[t]))
      /\ SoFar(t, left[t], tmp) /\ lines[t] \in Contents[t]
  BY DEF TInv, JInv, Kinds, Execute, Filled, Held, Target, Accounts
<1>2. \A s : SetLines(t, s) => lines'[t] = s /\ \A a \in Accounts \ {t} : lines'[a] = lines[a]
  BY <1>1 DEF SetLines
<1>3. Contents[t] = {NULL, <<>>} \cup OneLine(t) \cup BothLines(t)
  BY <1>1, OneMore
<1>4. ASSUME Head(left[t]) = "mktemp", left'[t] # <<>>, Head(left'[t]) = "root"
      PROVE  tmp' = <<>> /\ SoFar(t, left'[t], tmp') /\ lines' = lines
  <2>1. tmp' = <<>> /\ lines' = lines BY <1>1, <1>4 DEF Effect
  <2> QED BY <1>4, <2>1 DEF SoFar
<1>5. ASSUME Head(left[t]) = "root", left'[t] # <<>>, Head(left'[t]) = "user"
      PROVE  tmp' \in OneLine(t) /\ SoFar(t, left'[t], tmp') /\ lines' = lines
  <2>1. tmp = <<>> BY <1>1, <1>5 DEF SoFar
  <2>2. PICK l \in {Line(Call[t]["root"]), Lost} : tmp' = Append(<<>>, l) /\ lines' = lines
    BY <1>1, <1>5, <2>1 DEF Effect, Generate
  <2>3. tmp' \in OneLine(t) BY <1>1, <2>2, OneMore
  <2> QED BY <1>5, <2>2, <2>3 DEF SoFar
<1>6. ASSUME Head(left[t]) = "user", left'[t] # <<>>, Head(left'[t]) \in {"mv", "unlink"}
      PROVE  tmp' \in BothLines(t) /\ SoFar(t, left'[t], tmp') /\ lines' = lines
  <2>1. tmp \in OneLine(t) BY <1>1, <1>6 DEF SoFar
  <2>2. PICK l \in {Line(Call[t]["user"]), Lost} : tmp' = Append(tmp, l) /\ lines' = lines
    BY <1>1, <1>6 DEF Effect, Generate
  <2>3. tmp' \in BothLines(t) BY <1>1, <2>1, <2>2, OneMore
  <2> QED BY <1>6, <2>2, <2>3 DEF SoFar
<1>7. CASE left[t] = <<"mktemp", "root", "user", "mv">>
  <2>1. Head(left[t]) = "mktemp" /\ left'[t] = <<"root", "user", "mv">> BY <1>1, <1>7
  <2>2. left'[t] # <<>> /\ Head(left'[t]) = "root" /\ left'[t] # <<"copy">> BY <2>1
  <2> QED BY <1>1, <1>3, <1>4, <2>1, <2>2
<1>8. CASE left[t] = <<"mktemp", "root", "user", "unlink", "create", "copy">>
  <2>1. Head(left[t]) = "mktemp" /\ left'[t] = <<"root", "user", "unlink", "create", "copy">> BY <1>1, <1>8
  <2>2. left'[t] # <<>> /\ Head(left'[t]) = "root" /\ left'[t] # <<"copy">> BY <2>1
  <2> QED BY <1>1, <1>3, <1>4, <2>1, <2>2
<1>9. CASE left[t] = <<"root", "user", "mv">>
  <2>1. Head(left[t]) = "root" /\ left'[t] = <<"user", "mv">> BY <1>1, <1>9
  <2>2. left'[t] # <<>> /\ Head(left'[t]) = "user" /\ left'[t] # <<"copy">> BY <2>1
  <2> QED BY <1>1, <1>3, <1>5, <2>1, <2>2
<1>10. CASE left[t] = <<"root", "user", "unlink", "create", "copy">>
  <2>1. Head(left[t]) = "root" /\ left'[t] = <<"user", "unlink", "create", "copy">> BY <1>1, <1>10
  <2>2. left'[t] # <<>> /\ Head(left'[t]) = "user" /\ left'[t] # <<"copy">> BY <2>1
  <2> QED BY <1>1, <1>3, <1>5, <2>1, <2>2
<1>13. CASE left[t] = <<"user", "mv">>
  <2>1. Head(left[t]) = "user" /\ left'[t] = <<"mv">> BY <1>1, <1>13
  <2>2. left'[t] # <<>> /\ Head(left'[t]) = "mv" /\ left'[t] # <<"copy">> BY <2>1
  <2> QED BY <1>1, <1>3, <1>6, <2>1, <2>2
<1>14. CASE left[t] = <<"user", "unlink", "create", "copy">>
  <2>1. Head(left[t]) = "user" /\ left'[t] = <<"unlink", "create", "copy">> BY <1>1, <1>14
  <2>2. left'[t] # <<>> /\ Head(left'[t]) = "unlink" /\ left'[t] # <<"copy">> BY <2>1
  <2> QED BY <1>1, <1>3, <1>6, <2>1, <2>2
<1>15. ASSUME Head(left[t]) \in {"mv", "copy"}, left'[t] = <<>>
       PROVE  /\ \A a \in Accounts \ {"passwd"} : lines'[a] = lines[a]
              /\ lines'["passwd"] \in Contents["passwd"]
              /\ tmp' = <<>> /\ SoFar("passwd", left'["passwd"], tmp')
  <2>1. tmp \in BothLines(t) BY <1>1, <1>15 DEF SoFar
  <2>2. SetLines(t, tmp) /\ tmp' = <<>> BY <1>1, <1>15 DEF Effect
  <2>3. SoFar(t, left'[t], tmp') BY <1>15 DEF SoFar
  <2> QED BY <1>2, <1>3, <2>1, <2>2, <2>3
<1>16. CASE left[t] = <<"mv">>
  <2>1. Head(left[t]) = "mv" /\ left'[t] = <<>> BY <1>1, <1>16
  <2> QED BY <1>15, <2>1
<1>17. CASE left[t] = <<"copy">>
  <2>1. Head(left[t]) = "copy" /\ left'[t] = <<>> BY <1>1, <1>17
  <2> QED BY <1>15, <2>1
<1>11. CASE left[t] = <<"unlink", "create", "copy">>
  <2>1. Head(left[t]) = "unlink" /\ left'[t] = <<"create", "copy">> BY <1>1, <1>11
  <2>2. tmp \in BothLines(t) BY <1>1, <1>11, <2>1 DEF SoFar
  <2>3. SetLines(t, NULL) /\ tmp' = tmp BY <1>1, <2>1 DEF Effect
  <2>4. SoFar(t, left'[t], tmp') BY <2>1, <2>2, <2>3 DEF SoFar
  <2>5. left'[t] # <<"copy">> BY <2>1
  <2> QED BY <1>2, <1>3, <2>2, <2>3, <2>4, <2>5
<1>12. CASE left[t] = <<"create", "copy">>
  <2>1. Head(left[t]) = "create" /\ left'[t] = <<"copy">> BY <1>1, <1>12
  <2>2. tmp \in BothLines(t) BY <1>1, <1>12 DEF SoFar
  <2>3. SetLines(t, <<>>) /\ tmp' = tmp BY <1>1, <2>1 DEF Effect
  <2>4. SoFar(t, left'[t], tmp') BY <2>1, <2>2, <2>3 DEF SoFar
  <2> QED BY <1>2, <1>3, <2>2, <2>3, <2>4
<1> QED BY <1>1, <1>7, <1>8, <1>9, <1>10, <1>11, <1>12, <1>13, <1>14, <1>16, <1>17
    DEF TInv, JInv, Stages, PasswdStage

\* Only the commands of an account file's recipe give it contents.
LEMMA HeldStep == TInv /\ [Next]_vars => Held' /\ Filled'
<1> SUFFICES ASSUME TInv, [Next]_vars PROVE Held' /\ Filled' OBVIOUS
<1>0. /\ \A a \in Accounts : lines[a] \in Contents[a]
      /\ \A a \in Accounts : NULL \in Contents[a] /\ <<>> \in Contents[a]
      /\ tmp \in Contents["passwd"] /\ tmp' # NULL
  <2>1. tmp' \in Seq(AnyLine) BY JNext DEF TInv, JInv, Kinds
  <2> QED BY <2>1 DEF TInv, Held, Contents
<1>1. ASSUME NEW t \in Target, NEW s PROVE SoFar(t, <<>>, s)
  BY DEF SoFar
<1>2. ASSUME \A a \in Accounts : lines'[a] \in {lines[a], NULL},
             tmp' \in {tmp, <<>>},
             \A a \in {"shadow", "group"} :
               left'[a] = <<>> \/ (left'[a] = left[a] /\ lines'[a] = lines[a]),
             left'["passwd"] = <<>> \/
               (left'["passwd"] = left["passwd"] /\ tmp' = tmp /\ lines'["passwd"] = lines["passwd"])
      PROVE  Held' /\ Filled'
  <2>1. Held' BY <1>0, <1>2 DEF Held, Accounts
  <2>2. Filled'
    <3>1. \A a \in {"shadow", "group"} : SoFar(a, left'[a], lines'[a])
      BY <1>1, <1>2 DEF TInv, Filled, Target, Accounts
    <3>2. SoFar("passwd", left'["passwd"], tmp')
      BY <1>1, <1>2 DEF TInv, Filled, Target, Accounts
    <3>3. <<>> # <<"copy">> OBVIOUS
    <3> QED BY <1>2, <3>1, <3>2, <3>3 DEF TInv, Filled
  <2> QED BY <2>1, <2>2
<1>3. CASE Make \/ EndOfRun \/ EndOfClean \/ EditSource \/ RemoveConsole \/ UNCHANGED vars
  BY <1>2, <1>3 DEF Make, EndOfRun, EndOfClean, EditSource, RemoveConsole, vars, files
<1>4. CASE Consider
  <2>1. PICK u \in Target : \A t \in Target : left'[t] = IF t = u THEN left'[u] ELSE left[t]
    <3>1. PICK i \in DOMAIN todo :
            left' = [left EXCEPT ![todo[i]] = IF UpToDate(todo[i]) THEN <<>> ELSE Recipe(todo[i])]
      BY <1>4 DEF Consider
    <3>2. todo[i] \in Target BY RemoveOne DEF TInv, JInv, Kinds
    <3> QED BY <3>1, <3>2 DEF TInv, JInv, Kinds
  <2>2. \A t \in Target : left'[t] \in {left[t], <<>>, Recipe(t)}
    BY <1>4 DEF Consider, TInv, JInv, Kinds
  <2>3. lines' = lines /\ tmp' = tmp BY <1>4 DEF Consider, files
  <2>4. \A a \in {"shadow", "group"} : \A s : SoFar(a, Recipe(a), s)
    <3>1. \A a \in {"shadow", "group"} : Recipe(a) = <<"rm", "create", "root", "user">> BY DEF Recipe
    <3>2. Head(<<"rm", "create", "root", "user">>) = "rm"
          /\ <<"rm", "create", "root", "user">> # <<"create", "copy">>
      OBVIOUS
    <3> QED BY <3>1, <3>2 DEF SoFar
  <2>5. \A s : SoFar("passwd", Recipe("passwd"), s) /\ Recipe("passwd") # <<"copy">>
    <3>1. Recipe("passwd") \in {<<"mktemp", "root", "user", "mv">>,
                                <<"mktemp", "root", "user", "unlink", "create", "copy">>}
      BY DEF Recipe
    <3>2. Head(Recipe("passwd")) = "mktemp" /\ Recipe("passwd") # <<"create", "copy">>
          /\ Recipe("passwd") # <<"copy">>
      BY <3>1
    <3> QED BY <3>2 DEF SoFar
  <2>6. Held' BY <1>0, <2>3 DEF Held, TInv
  <2>7. \A a \in {"shadow", "group"} : SoFar(a, left'[a], lines'[a])
    BY <1>1, <2>2, <2>3, <2>4 DEF TInv, Filled, Target, Accounts
  <2>8. SoFar("passwd", left'["passwd"], tmp')
    BY <1>1, <2>2, <2>3, <2>5 DEF TInv, Filled, Target, Accounts
  <2>9. left'["passwd"] = <<"copy">> => lines'["passwd"] = <<>>
    <3>1. <<>> # <<"copy">> OBVIOUS
    <3> QED BY <2>2, <2>3, <2>5, <3>1 DEF TInv, Filled, Target, Accounts
  <2> QED BY <2>6, <2>7, <2>8, <2>9 DEF Filled
<1>5. ASSUME NEW t \in Target, Execute(t) PROVE Held' /\ Filled'
  <2>1. \A u \in Target \ {t} : left'[u] = left[u]
    BY <1>5 DEF Execute, TInv, JInv, Kinds
  <2>2. CASE t = "passwd"
    <3>1. /\ \A a \in Accounts \ {"passwd"} : lines'[a] = lines[a]
          /\ lines'["passwd"] \in Contents["passwd"]
          /\ tmp' \in {<<>>} \cup OneLine("passwd") \cup BothLines("passwd")
          /\ SoFar("passwd", left'["passwd"], tmp')
          /\ left'["passwd"] = <<"copy">> => lines'["passwd"] = <<>>
      BY <1>5, <2>2, PasswdContents
    <3>2. tmp' \in Contents["passwd"] BY <3>1, OneMore DEF Accounts
    <3> QED BY <1>0, <2>1, <2>2, <3>1, <3>2 DEF Held, TInv, Filled, Target, Accounts
  <2>3. CASE t \in {"shadow", "group"}
    <3>1. /\ \A a \in Accounts \ {t} : lines'[a] = lines[a]
          /\ lines'[t] \in Contents[t] /\ SoFar(t, left'[t], lines'[t])
          /\ tmp' = tmp
      BY <1>5, <2>3, InPlaceContents
    <3> QED BY <1>0, <2>1, <2>3, <3>1 DEF Held, TInv, Filled, Target, Accounts
  <2>4. CASE t \in Target \ Accounts
    <3>1. Head(left[t]) \in {"mknod", "gcc", "work"}
      <4>1. left[t] = <<"mknod">> \/ left[t] = <<"gcc">> \/ left[t] = <<"work">>
        BY <1>5, <2>4 DEF Execute, TInv, JInv, Stages, Target, Accounts, Tool
      <4> QED BY <4>1
    <3>2. lines' = lines /\ tmp' = tmp BY <1>5, <3>1 DEF Execute, Effect, files
    <3> QED BY <1>2, <2>1, <2>4, <3>2 DEF Accounts, Target
  <2> QED BY <2>2, <2>3, <2>4 DEF Target, Accounts
<1>6. ASSUME NEW T, T = Target \/ (\E t \in Target : T = {t}), CutShort(T), lines' = lines
      PROVE  Held' /\ Filled'
  <2>1. \A t \in Target : left'[t] = IF t \in T THEN <<>> ELSE left[t]
    BY <1>6 DEF CutShort
  <2>2. tmp' = IF "passwd" \in T THEN <<>> ELSE tmp BY <1>6 DEF CutShort
  <2> QED BY <1>2, <1>6, <2>1, <2>2 DEF Target, Accounts
<1>7. ASSUME NEW t \in Target, Fail(t) PROVE Held' /\ Filled'
  BY <1>6, <1>7 DEF Fail
<1>8. CASE Kill
  BY <1>6, <1>8 DEF Kill
<1>9. CASE Interrupt
  <2>1. /\ \A t \in Target : left'[t] = <<>>
        /\ tmp' = <<>> /\ \A a \in Accounts : lines'[a] \in {lines[a], NULL}
    BY <1>9 DEF Interrupt
  <2> QED BY <1>2, <2>1 DEF Target, Accounts
<1>10. CASE Clean
  <2>1. goal \in Cleaning /\ left' = left /\ tmp' = tmp BY <1>10 DEF Clean
  <2>2. \A t \in Target : left'[t] = <<>> BY <2>1 DEF TInv, JInv, Order, Idle
  <2>3. \A a \in Accounts : lines'[a] \in {lines[a], NULL}
    BY <1>10 DEF Clean, SetLines, TInv, JInv, Kinds
  <2> QED BY <1>2, <2>1, <2>2, <2>3 DEF Target, Accounts
<1> QED BY <1>3, <1>4, <1>5, <1>7, <1>8, <1>9, <1>10 DEF Next

LEMMA TInit == Init => TInv
<1> SUFFICES ASSUME Init PROVE TInv OBVIOUS
<1>1. JInv BY JInit
<1>2. Fixed
  <2>1. MaxFaults[jobs] \in Nat BY JailBuildAssumption DEF Init
  <2> QED BY <2>1 DEF Init, Fixed
<1>3. Run BY DEF Init, Run
<1>4. Rests
  <2> SUFFICES ASSUME NEW t \in Target PROVE IsSuffix(<<>>, Recipe(t))
    BY DEF Init, Rests
  <2>1. PICK r \in Seq(Command) : r = Recipe(t) BY Commands
  <2> QED BY <2>1, SuffixRules
<1>5. Held /\ Filled
  <2>1. <<>> # NULL
    <3>1. <<>> \in Seq(AnyLine) OBVIOUS
    <3> QED BY <3>1
  <2> QED BY <2>1 DEF Init, Held, Filled, Contents, SoFar, Target, Accounts
<1>6. Flags BY DEF Init, Flags
<1> QED BY <1>1, <1>2, <1>3, <1>4, <1>5, <1>6 DEF TInv

LEMMA TNext == TInv /\ [Next]_vars => TInv'
BY JNext, FixedStep, RunStep, RestsStep, HeldStep, FlagsStep DEF TInv

\* Under any number of jobs, faults and runs: what make has still to consider is
\* in its goal's order and none of it twice, what is left of a recipe is a final
\* part of it, and a file holds a beginning of what its two calls of
\* make_jail_etc print, with lines lost and none out of place.
THEOREM TypeCorrect == Spec => []TypeOK
<1>1. TInv => TypeOK
  BY DEF TInv, Fixed, Run, Rests, Held, Flags, TypeOK
<1> QED BY <1>1, TInit, TNext, PTL DEF Spec

\* The arguments by which the six calls can be told apart.
LEMMA CallArguments ==
  \A who \in {"root", "user"} :
    /\ Call["passwd"][who].output_kind = "P" /\ Call["shadow"][who].output_kind = "S"
    /\ Call["group"][who].output_kind = "G"
    /\ Call["passwd"][who].user_and_group_name = Call["shadow"][who].user_and_group_name
    /\ Call["passwd"][who].user_group_id = Call["group"][who].user_group_id
<1>1. DOMAIN NoArguments = {"output_kind", "output_file_name", "user_and_group_name",
                            "user_home_dir", "user_shell", "password", "user_group_id"}
  BY DEF NoArguments
<1>2. /\ Call["passwd"]["root"].output_kind = "P"
      /\ Call["passwd"]["root"].user_and_group_name = "root"
      /\ Call["passwd"]["root"].user_group_id = 0
  <2> DEFINE e == [NoArguments EXCEPT !.output_kind = "P", !.user_home_dir = "/root",
                     !.user_and_group_name = "root", !.user_group_id = 0, !.user_shell = "/bin/sh"]
  <2>1. Call["passwd"]["root"] = e BY DEF Call
  <2>2. e.output_kind = "P" /\ e.user_and_group_name = "root" /\ e.user_group_id = 0 BY <1>1
  <2> QED BY <2>1, <2>2
<1>3. /\ Call["passwd"]["user"].output_kind = "P"
      /\ Call["passwd"]["user"].user_and_group_name = "peon"
      /\ Call["passwd"]["user"].user_group_id = 1002
  <2> DEFINE e == [NoArguments EXCEPT !.output_kind = "P", !.user_home_dir = "/home/peon",
                     !.user_and_group_name = "peon", !.user_group_id = 1002, !.user_shell = "/bin/sh"]
  <2>1. Call["passwd"]["user"] = e BY DEF Call
  <2>2. e.output_kind = "P" /\ e.user_and_group_name = "peon" /\ e.user_group_id = 1002 BY <1>1
  <2> QED BY <2>1, <2>2
<1>4. Call["shadow"]["root"].output_kind = "S" /\ Call["shadow"]["root"].user_and_group_name = "root"
  <2> DEFINE e == [NoArguments EXCEPT !.output_kind = "S", !.user_and_group_name = "root", !.password = ""]
  <2>1. Call["shadow"]["root"] = e BY DEF Call
  <2>2. e.output_kind = "S" /\ e.user_and_group_name = "root" BY <1>1
  <2> QED BY <2>1, <2>2
<1>5. Call["shadow"]["user"].output_kind = "S" /\ Call["shadow"]["user"].user_and_group_name = "peon"
  <2> DEFINE e == [NoArguments EXCEPT !.output_kind = "S", !.user_and_group_name = "peon", !.password = "peon"]
  <2>1. Call["shadow"]["user"] = e BY DEF Call
  <2>2. e.output_kind = "S" /\ e.user_and_group_name = "peon" BY <1>1
  <2> QED BY <2>1, <2>2
<1>6. Call["group"]["root"].output_kind = "G" /\ Call["group"]["root"].user_group_id = 0
  <2> DEFINE e == [NoArguments EXCEPT !.output_kind = "G", !.user_and_group_name = "root"]
  <2>1. Call["group"]["root"] = e BY DEF Call
  <2>2. e.output_kind = "G" /\ e.user_group_id = 0
    <3>1. NoArguments.user_group_id = 0 BY DEF NoArguments
    <3> QED BY <1>1, <3>1
  <2> QED BY <2>1, <2>2
<1>7. Call["group"]["user"].output_kind = "G" /\ Call["group"]["user"].user_group_id = 1002
  <2> DEFINE e == [NoArguments EXCEPT !.output_kind = "G", !.user_and_group_name = "peon", !.user_group_id = 1002]
  <2>1. Call["group"]["user"] = e BY DEF Call
  <2>2. e.output_kind = "G" /\ e.user_group_id = 1002 BY <1>1
  <2> QED BY <2>1, <2>2
<1> QED BY <1>2, <1>3, <1>4, <1>5, <1>6, <1>7

\* Account files that are finished and lost no line agree about users and
\* groups, whichever run, goal and number of jobs made each of them.
THEOREM Agreement == Spec => []AccountsAgree
<1>1. TInv => AccountsAgree
  <2> SUFFICES ASSUME TInv, \A t \in Accounts : lines[t] # NULL /\ ~Torn(lines[t]) /\ ~Contains(lines[t], Lost),
                      NEW i \in 1..2
               PROVE  /\ \E j \in 1..2 : lines["shadow"][j].name = lines["passwd"][i].name
                      /\ \E j \in 1..2 : lines["group"][j].gid = lines["passwd"][i].gid
    BY DEF AccountsAgree
  <2>1. ASSUME NEW t \in Accounts
        PROVE  lines[t][1] = Line(Call[t]["root"]) /\ lines[t][2] = Line(Call[t]["user"])
    <3>1. lines[t] \in {NULL, <<>>} \cup OneLine(t) \cup BothLines(t)
      BY OneMore DEF TInv, Held
    <3>2. lines[t] \notin {NULL, <<>>} BY DEF Torn
    <3>3. ASSUME lines[t] \in OneLine(t) PROVE FALSE
      <4>1. PICK a \in {Lost, Written(t)[1]} : lines[t] = <<a>> BY <3>3 DEF OneLine
      <4>2. Len(lines[t]) = 1 BY <4>1
      <4>3. ~Torn(lines[t]) /\ lines[t] # NULL OBVIOUS
      <4> QED BY <4>2, <4>3 DEF Torn
    <3>4. PICK a \in {Lost, Written(t)[1]}, b \in {Lost, Written(t)[2]} : lines[t] = <<a, b>>
      BY <3>1, <3>2, <3>3 DEF BothLines
    <3>5. Len(lines[t]) = 2 /\ lines[t][1] = a /\ lines[t][2] = b BY <3>4
    <3>6. a # Lost /\ b # Lost BY <3>5 DEF Contains
    <3> QED BY <3>5, <3>6 DEF Written
  <2>2. ASSUME NEW args
        PROVE  /\ args.output_kind \in Kind => Line(args).name = args.user_and_group_name
               /\ args.output_kind \in {"P", "G"} => Line(args).gid = args.user_group_id
    BY DEF Line, PrintedLine, Kind
  <2>3. ASSUME NEW who \in {"root", "user"}
        PROVE  /\ Line(Call["passwd"][who]).name = Line(Call["shadow"][who]).name
               /\ Line(Call["passwd"][who]).gid = Line(Call["group"][who]).gid
    <3>1. /\ Call["passwd"][who].output_kind = "P" /\ Call["shadow"][who].output_kind = "S"
          /\ Call["group"][who].output_kind = "G"
          /\ Call["passwd"][who].user_and_group_name = Call["shadow"][who].user_and_group_name
          /\ Call["passwd"][who].user_group_id = Call["group"][who].user_group_id
      BY CallArguments
    <3> QED BY <2>2, <3>1 DEF Kind
  <2> QED BY <2>1, <2>2, <2>3 DEF Accounts
<1> QED BY <1>1, TInit, TNext, PTL DEF Spec

-----------------------------------------------------------------------------
(***************************************************************************)
(* make -j1.                                                               *)
(***************************************************************************)
\* A rule's commands after it has made the file, before the last line is in.
Filling(t) == left[t] \in {<<"root", "user">>, <<"user">>, <<"copy">>}

Excused(t) == bared \/ "users" \in cutBy[t]

\* One recipe at a time, none after a failure; jail-users has no image, and the
\* other goals make dev/console before the account files.
OneAtATime ==
  /\ \A t, u \in Target : ~Idle(t) /\ ~Idle(u) => t = u
  /\ failed => \A t \in Target : Idle(t)
  /\ goal = "users" => Idle("image")
  /\ goal \in {"all", "tar"} => \A a \in Accounts : ~Idle(a) => Considered("console")

\* A torn file has dev/console beside it until a run gets past mknod.
TornHasConsole ==
  \A a \in Accounts : Torn(lines[a]) =>
    console \/ Excused(a) \/ (goal = "users" /\ Filling(a))

\* A run that got past mknod found no torn file.
PastMknod ==
  goal \in {"all", "tar"} /\ ~failed /\ Considered("console") /\ Idle("console") =>
    /\ console
    /\ \A a \in Accounts : Torn(lines[a]) => Excused(a) \/ Filling(a)

SInv == jobs = 1 => OneAtATime /\ TornHasConsole /\ PastMknod

\* make -j1 starts a recipe when none runs.
LEMMA NoneBusy ==
  ASSUME Cardinality(Busy) < 1
  PROVE  Busy = {}
<1>1. IsFiniteSet({"passwd", "shadow", "group", "packages", "console", "libs", "make_jail_etc", "image"})
  <2>1. IsFiniteSet({"passwd", "shadow", "group"})
    <3>1. IsFiniteSet({} \cup {"passwd"}) BY FS_EmptySet, FS_AddElement
    <3>2. IsFiniteSet(({} \cup {"passwd"}) \cup {"shadow"}) BY <3>1, FS_AddElement
    <3>3. IsFiniteSet((({} \cup {"passwd"}) \cup {"shadow"}) \cup {"group"}) BY <3>2, FS_AddElement
    <3>4. (({} \cup {"passwd"}) \cup {"shadow"}) \cup {"group"} = {"passwd", "shadow", "group"} OBVIOUS
    <3> QED BY <3>3, <3>4
  <2>2. IsFiniteSet({"passwd", "shadow", "group"} \cup {"packages"}) BY <2>1, FS_AddElement
  <2>3. IsFiniteSet(({"passwd", "shadow", "group"} \cup {"packages"}) \cup {"console"}) BY <2>2, FS_AddElement
  <2>4. IsFiniteSet((({"passwd", "shadow", "group"} \cup {"packages"}) \cup {"console"}) \cup {"libs"})
    BY <2>3, FS_AddElement
  <2>5. {"passwd", "shadow", "group", "packages", "console", "libs"} =
          (({"passwd", "shadow", "group"} \cup {"packages"}) \cup {"console"}) \cup {"libs"}
    OBVIOUS
  <2>6. IsFiniteSet({"passwd", "shadow", "group", "packages", "console", "libs"} \cup {"make_jail_etc"})
    BY <2>4, <2>5, FS_AddElement
  <2>7. IsFiniteSet(({"passwd", "shadow", "group", "packages", "console", "libs"} \cup {"make_jail_etc"})
                      \cup {"image"})
    BY <2>6, FS_AddElement
  <2>8. {"passwd", "shadow", "group", "packages", "console", "libs", "make_jail_etc", "image"} =
          ({"passwd", "shadow", "group", "packages", "console", "libs"} \cup {"make_jail_etc"}) \cup {"image"}
    OBVIOUS
  <2> QED BY <2>7, <2>8
<1>2. Busy \subseteq {"passwd", "shadow", "group", "packages", "console", "libs", "make_jail_etc", "image"}
  BY DEF Busy, Target, Accounts
<1>3. IsFiniteSet(Busy) BY <1>1, <1>2, FS_Subset
<1>4. Cardinality(Busy) \in Nat BY <1>3, FS_CardinalityType
<1>5. Cardinality(Busy) = 0 BY <1>4
<1> QED BY <1>3, <1>5, FS_EmptySet

\* Until make -j1 has considered dev/console, it considers no account file.
LEMMA ConsoleFirst ==
  ASSUME TInv, goal \in {"all", "tar"}, NEW i \in DOMAIN todo, todo[i] \in Accounts,
         \A j \in 1..(i - 1) : ~Ready(todo[j])
  PROVE  Considered("console")
<1> SUFFICES ASSUME NEW j \in DOMAIN todo, todo[j] = "console" PROVE FALSE
  BY DEF Considered, ToSet
<1>1. Ready("console")
  BY DEF Ready, Needs, Accounts
<1>2. i \in 1..Len(todo) /\ j \in 1..Len(todo) /\ Len(todo) \in Nat
  BY DEF TInv, JInv, Kinds
<1>3. i # j BY DEF Accounts
<1>4. CASE j < i
  <2>1. j \in 1..(i - 1) BY <1>2, <1>4
  <2> QED BY <1>1, <2>1
<1>5. CASE i < j
  <2>1. todo # <<>> BY <1>2
  <2>2. InOrder(todo, Prerequisites[goal]) BY <2>1 DEF TInv, Run
  <2>3. PICK k \in DOMAIN Prerequisites[goal], l \in DOMAIN Prerequisites[goal] :
          k < l /\ Prerequisites[goal][k] \in Accounts /\ Prerequisites[goal][l] = "console"
    BY <1>5, <2>2 DEF InOrder
  <2>4. Prerequisites[goal] \in
          {<<"packages", "console", "libs", "make_jail_etc", "shadow", "passwd", "group", "image">>,
           <<"console", "packages", "libs", "make_jail_etc", "passwd", "group", "image">>}
    BY DEF Prerequisites
  <2>5. CASE Prerequisites[goal] =
          <<"packages", "console", "libs", "make_jail_etc", "shadow", "passwd", "group", "image">>
    <3>1. k \in 1..8 /\ l \in 1..8 BY <2>3, <2>5
    <3>2. l = 2 BY <2>3, <2>5, <3>1
    <3>3. k = 1 BY <2>3, <3>1, <3>2
    <3> QED BY <2>3, <2>5, <3>3 DEF Accounts
  <2>6. CASE Prerequisites[goal] =
          <<"console", "packages", "libs", "make_jail_etc", "passwd", "group", "image">>
    <3>1. k \in 1..7 /\ l \in 1..7 BY <2>3, <2>6
    <3>2. l = 1 BY <2>3, <2>6, <3>1
    <3> QED BY <2>3, <3>1, <3>2
  <2> QED BY <2>4, <2>5, <2>6
<1> QED BY <1>2, <1>3, <1>4, <1>5

\* What is left of a recipe that fills its file.
LEMMA FillingIs ==
  ASSUME NEW t, Filling(t)
  PROVE  /\ left[t] # <<>>
         /\ (Len(left[t]) = 2 /\ Head(left[t]) = "root") \/ Len(left[t]) = 1
<1>1. CASE left[t] = <<"root", "user">> BY <1>1
<1>2. CASE left[t] = <<"user">> BY <1>2
<1>3. CASE left[t] = <<"copy">> BY <1>3
<1> QED BY <1>1, <1>2, <1>3 DEF Filling

\* Nothing is torn but what is being written, or what was torn before.
LEMMA TornByExecute ==
  ASSUME TInv, NEW t \in Accounts, Execute(t), Torn(lines'[t])
  PROVE  Filling(t)' \/ (lines'[t] = lines[t] /\ ~Filling(t))
<1>1. /\ lines \in [Accounts -> Seq(AnyLine) \cup {NULL}]
      /\ left'[t] = Tail(left[t]) /\ Effect(t, Head(left[t]))
  BY DEF TInv, JInv, Kinds, Execute, Target, Accounts
<1>2. ASSUME NEW s, SetLines(t, s) PROVE lines'[t] = s
  BY <1>1, <1>2 DEF SetLines
<1>3. ASSUME NEW s \in BothLines(t) PROVE ~Torn(s)
  <2>1. PICK a \in {Lost, Written(t)[1]}, b \in {Lost, Written(t)[2]} : s = <<a, b>>
    BY <1>3 DEF BothLines
  <2>2. Len(s) = 2 BY <2>1
  <2> QED BY <2>2 DEF Torn
<1>4. CASE t = "passwd"
  <2>1. ASSUME Head(left[t]) \in {"mktemp", "root", "user"} PROVE lines'[t] = lines[t]
    BY <1>1, <1>4, <2>1 DEF Effect, Generate
  <2>2. ASSUME Head(left[t]) \in {"mv", "copy"}, left[t] # <<>> PROVE FALSE
    <3>1. tmp \in BothLines(t) BY <1>4, <2>2 DEF TInv, Filled, SoFar
    <3>2. lines'[t] = tmp BY <1>1, <1>2, <2>2 DEF Effect
    <3> QED BY <1>3, <3>1, <3>2
  <2>3. CASE left[t] \in {<<"mktemp", "root", "user", "mv">>,
                          <<"mktemp", "root", "user", "unlink", "create", "copy">>}
    <3>1. Head(left[t]) = "mktemp" BY <2>3
    <3> QED BY <2>1, <2>3, <3>1 DEF Filling
  <2>4. CASE Len(left[t]) \in {3, 5} /\ Head(left[t]) = "root"
    <3> QED BY <2>1, <2>4, FillingIs
  <2>5. CASE Len(left[t]) \in {2, 4} /\ Head(left[t]) = "user"
    <3>1. 2 # 1 /\ 4 # 1 /\ Head(left[t]) # "root" BY <2>5
    <3>4. ~(Len(left[t]) = 1) /\ ~(Head(left[t]) = "root") BY <2>5, <3>1
    <3>2. ~Filling(t) BY ONLY <3>4, FillingIs
    <3>3. lines'[t] = lines[t] BY <2>1, <2>5
    <3> QED BY <3>2, <3>3
  <2>10. ASSUME \/ left[t] = <<"root", "user", "mv">>
                \/ left[t] = <<"root", "user", "unlink", "create", "copy">>
         PROVE  Len(left[t]) \in {3, 5} /\ Head(left[t]) = "root"
    <3>1. CASE left[t] = <<"root", "user", "mv">> BY <3>1
    <3>2. CASE left[t] = <<"root", "user", "unlink", "create", "copy">> BY <3>2
    <3> QED BY <2>10, <3>1, <3>2
  <2>11. ASSUME left[t] = <<"user", "mv">> \/ left[t] = <<"user", "unlink", "create", "copy">>
         PROVE  Len(left[t]) \in {2, 4} /\ Head(left[t]) = "user"
    <3>1. CASE left[t] = <<"user", "mv">> BY <3>1
    <3>2. CASE left[t] = <<"user", "unlink", "create", "copy">> BY <3>2
    <3> QED BY <2>11, <3>1, <3>2
  <2>6. CASE left[t] = <<"mv">> \/ left[t] = <<"copy">>
    <3>1. Head(left[t]) \in {"mv", "copy"} /\ left[t] # <<>> BY <2>6
    <3> QED BY <2>2, <3>1
  <2>7. CASE left[t] = <<"unlink", "create", "copy">>
    <3>1. Head(left[t]) = "unlink" BY <2>7
    <3>2. lines'[t] = NULL BY <1>1, <1>2, <3>1 DEF Effect
    <3> QED BY <3>2 DEF Torn
  <2>8. CASE left[t] = <<"create", "copy">>
    <3>1. left'[t] = <<"copy">> BY <1>1, <2>8
    <3> QED BY <3>1 DEF Filling
  <2>9. left[t] # <<>> BY DEF Execute
  <2> QED BY <1>4, <2>3, <2>4, <2>5, <2>6, <2>7, <2>8, <2>9, <2>10, <2>11
          DEF TInv, JInv, Stages, PasswdStage
<1>5. CASE t \in {"shadow", "group"}
  <2>1. CASE left[t] = <<"rm", "create", "root", "user">>
    <3>1. Head(left[t]) = "rm" BY <2>1
    <3>2. lines'[t] = NULL BY <1>1, <1>2, <3>1 DEF Effect
    <3> QED BY <3>2 DEF Torn
  <2>2. CASE left[t] = <<"create", "root", "user">>
    <3>1. left'[t] = <<"root", "user">> BY <1>1, <2>2
    <3> QED BY <3>1 DEF Filling
  <2>3. CASE left[t] = <<"root", "user">>
    <3>1. left'[t] = <<"user">> BY <1>1, <2>3
    <3> QED BY <3>1 DEF Filling
  <2>4. CASE left[t] = <<"user">>
    <3>1. Head(left[t]) = "user" BY <2>4
    <3>2. lines[t] \in OneLine(t) BY <1>5, <2>4, <3>1 DEF TInv, Filled, SoFar
    <3>3. PICK l \in {Line(Call[t]["user"]), Lost} : SetLines(t, Append(lines[t], l))
      BY <1>1, <1>5, <3>1 DEF Effect, Generate
    <3>4. lines'[t] \in BothLines(t) BY <1>2, <3>2, <3>3, OneMore
    <3> QED BY <1>3, <3>4
  <2>5. left[t] # <<>> BY DEF Execute
  <2> QED BY <1>5, <2>1, <2>2, <2>3, <2>4, <2>5 DEF TInv, JInv, Stages, InPlaceStage
<1> QED BY <1>4, <1>5 DEF Accounts

\* What holds of torn files while nothing is being written keeps holding until
\* something is.
LEMMA SConsider ==
  ASSUME TInv, jobs = 1, SInv, Consider
  PROVE  OneAtATime' /\ TornHasConsole' /\ PastMknod'
<1>1. \A u \in Target : Idle(u)
  BY NoneBusy DEF Consider, Busy, Idle
<1>2. PICK i \in DOMAIN todo :
        /\ \A j \in 1..(i - 1) : ~Ready(todo[j])
        /\ todo' = RemoveAt(todo, i)
        /\ left' = [left EXCEPT ![todo[i]] = IF UpToDate(todo[i]) THEN <<>> ELSE Recipe(todo[i])]
  BY DEF Consider
<1>3. PICK t \in Target : t = todo[i] BY RemoveOne DEF TInv, JInv, Kinds
<1>4. /\ ToSet(todo') \subseteq ToSet(todo) /\ t \in ToSet(todo)
      /\ ToSet(todo) \subseteq ToSet(todo') \cup {t}
  BY <1>2, <1>3, RemoveOne DEF TInv, JInv, Kinds
<1>5. /\ ~failed /\ UNCHANGED <<goal, failed, lines, console, cutBy, bared>>
      /\ \A u \in Target : left'[u] = IF u = t THEN IF UpToDate(t) THEN <<>> ELSE Recipe(t) ELSE left[u]
  BY <1>2, <1>3 DEF Consider, files, TInv, JInv, Kinds
<1>6. \A u \in Target \ {t} : Idle(u)' BY <1>1, <1>5 DEF Idle
<1>7. \A a \in Accounts : ~Filling(a)
  <2>1. <<>> # <<"root", "user">> /\ <<>> # <<"user">> /\ <<>> # <<"copy">> OBVIOUS
  <2> QED BY <1>1, <2>1 DEF Filling, Idle, Target, Accounts
<1>8. OneAtATime'
  <2>1. goal = "users" => t # "image"
    <3> SUFFICES ASSUME goal = "users" PROVE t # "image" OBVIOUS
    <3>1. todo # <<>> BY <1>4 DEF ToSet
    <3>2. t \in ToSet(Prerequisites[goal]) BY <1>4, <3>1 DEF TInv, Run, InOrder
    <3>3. Prerequisites[goal] = <<"make_jail_etc", "passwd", "shadow", "group">> BY DEF Prerequisites
    <3>4. ToSet(<<"make_jail_etc", "passwd", "shadow", "group">>) =
            {"make_jail_etc", "passwd", "shadow", "group"}
      BY DEF ToSet
    <3> QED BY <3>2, <3>3, <3>4
  <2>2. goal \in {"all", "tar"} /\ t \in Accounts => Considered("console")'
    BY <1>2, <1>3, <1>4, ConsoleFirst DEF Considered
  <2> QED BY <1>5, <1>6, <2>1, <2>2 DEF OneAtATime, Target, Accounts
<1>9. TornHasConsole'
  BY <1>5, <1>7 DEF SInv, TornHasConsole, Excused
<1>10. PastMknod'
  <2> SUFFICES ASSUME goal \in {"all", "tar"}, Considered("console")', Idle("console")'
               PROVE  console /\ \A a \in Accounts : Torn(lines[a]) => Excused(a)
    BY <1>5 DEF PastMknod, Excused
  <2>1. t # "console"
    <3> SUFFICES ASSUME t = "console" PROVE FALSE OBVIOUS
    <3>1. left'["console"] = <<"mknod">> BY <1>5 DEF UpToDate, Recipe, Accounts
    <3>2. <<"mknod">> # <<>> OBVIOUS
    <3> QED BY <3>1, <3>2 DEF Idle
  <2>2. Considered("console") /\ Idle("console")
    BY <1>1, <1>4, <2>1 DEF Considered, Target
  <2> QED BY <1>5, <1>7, <2>2 DEF SInv, PastMknod
<1> QED BY <1>8, <1>9, <1>10

\* One command: a file is torn while its recipe fills it, or as it was before.
LEMMA SExecute ==
  ASSUME TInv, jobs = 1, SInv, NEW t \in Target, Execute(t)
  PROVE  OneAtATime' /\ TornHasConsole' /\ PastMknod'
<1>1. /\ left[t] # <<>> /\ ~Cannot(Head(left[t])) /\ Effect(t, Head(left[t]))
      /\ UNCHANGED <<goal, todo, failed, bared>>
      /\ \A u \in Target : left'[u] = IF u = t THEN Tail(left[t]) ELSE left[u]
      /\ cutBy' = [a \in Accounts |-> IF a = t /\ ~Torn(lines'[a]) THEN {} ELSE cutBy[a]]
  BY DEF Execute, TInv, JInv, Kinds
<1>2. \A u \in Target \ {t} : Idle(u) /\ Idle(u)'
  BY <1>1 DEF SInv, OneAtATime, Idle
<1>3. \A u \in Target : Considered(u)' <=> Considered(u) BY <1>1 DEF Considered
<1>4. \A a \in Accounts \ {t} : ~Filling(a)
  <2>1. <<>> # <<"root", "user">> /\ <<>> # <<"user">> /\ <<>> # <<"copy">> OBVIOUS
  <2> QED BY <1>2, <2>1 DEF Filling, Idle, Target, Accounts
<1>5. \A a \in Accounts \ {t} : lines'[a] = lines[a]
  BY <1>1 DEF Effect, Generate, SetLines, files, TInv, JInv, Kinds
<1>6. \A a \in Accounts : Torn(lines'[a]) =>
        /\ Excused(a) => Excused(a)'
        /\ (Filling(a)' /\ a = t) \/ (lines'[a] = lines[a] /\ ~Filling(a))
  BY <1>1, <1>4, <1>5, TornByExecute DEF Excused
<1>7. goal \in {"all", "tar", "users"} /\ ~failed
  <2>1. goal \notin Cleaning \cup {"none"} /\ ~failed
    BY <1>1 DEF TInv, JInv, Order, SInv, OneAtATime, Idle
  <2>2. DOMAIN Prerequisites = {"all", "tar", "users"} BY DEF Prerequisites
  <2> QED BY <2>1, <2>2 DEF TInv, Run, Goal
<1>8. console => console'
  BY <1>1 DEF Effect, Generate, files
<1>9. OneAtATime'
  BY <1>1, <1>2, <1>3 DEF SInv, OneAtATime, Idle, Target, Accounts
<1>10. TornHasConsole'
  <2> SUFFICES ASSUME NEW a \in Accounts, Torn(lines'[a])
               PROVE  console' \/ Excused(a)' \/ (goal = "users" /\ Filling(a)')
    BY <1>1 DEF TornHasConsole
  <2>1. CASE lines'[a] = lines[a] /\ ~Filling(a)
    BY <1>6, <1>8, <2>1 DEF SInv, TornHasConsole
  <2>2. CASE Filling(a)' /\ a = t /\ goal \in {"all", "tar"}
    <3>1. Considered("console") /\ Idle("console")
      BY <1>1, <1>2, <2>2 DEF SInv, OneAtATime, Idle, Target, Accounts
    <3> QED BY <1>7, <1>8, <2>2, <3>1 DEF SInv, PastMknod
  <2>3. CASE Filling(a)' /\ a = t /\ goal = "users" BY <2>3
  <2> QED BY <1>6, <1>7, <2>1, <2>2, <2>3
<1>11. PastMknod'
  <2> SUFFICES ASSUME goal \in {"all", "tar"}, Considered("console"), Idle("console")'
               PROVE  console' /\ \A a \in Accounts : Torn(lines'[a]) => Excused(a)' \/ Filling(a)'
    BY <1>1, <1>3 DEF PastMknod, Target
  <2>1. CASE t = "console"
    <3>1. left[t] = <<"mknod">> BY <1>1, <2>1 DEF TInv, JInv, Stages
    <3>2. Head(left[t]) = "mknod" BY <3>1
    <3>3. ~console /\ console' /\ lines' = lines
      BY <1>1, <3>2 DEF Cannot, Effect
    <3>4. goal # "users" OBVIOUS
    <3>5. \A a \in Accounts : a # t BY <2>1 DEF Accounts
    <3> QED BY <1>6, <3>3, <3>4, <3>5 DEF SInv, TornHasConsole
  <2>2. CASE t # "console"
    <3>1. Idle("console") BY <1>2, <2>2 DEF Target
    <3>2. console /\ \A a \in Accounts : Torn(lines[a]) => Excused(a) \/ Filling(a)
      BY <1>7, <3>1 DEF SInv, PastMknod
    <3> QED BY <1>6, <1>8, <3>2
  <2> QED BY <2>1, <2>2
<1> QED BY <1>9, <1>10, <1>11

\* Between recipes only TornHasConsole says something.
LEMMA SQuiet ==
  ASSUME \A u \in Target : Idle(u)',
         (goal \in {"all", "tar"})' => failed' \/ ~Considered("console")',
         \A a \in Accounts : Torn(lines'[a]) => console' \/ Excused(a)'
  PROVE  OneAtATime' /\ TornHasConsole' /\ PastMknod'
<1>1. OneAtATime' BY DEF OneAtATime, Target, Accounts
<1>2. TornHasConsole' BY DEF TornHasConsole
<1>3. PastMknod' BY DEF PastMknod
<1> QED BY <1>1, <1>2, <1>3

\* A goal whose run is cut short is remembered with the file it was filling.
LEMMA SCutShort ==
  ASSUME TInv, jobs = 1, SInv, NEW T \in SUBSET Target, CutShort(T), UNCHANGED <<lines, console, bared>>,
         \A a \in Accounts : ~Idle(a) => a \in T
  PROVE  \A a \in Accounts : Torn(lines'[a]) => console' \/ Excused(a)'
<1> SUFFICES ASSUME NEW a \in Accounts, Torn(lines[a]), ~console PROVE Excused(a)'
  OBVIOUS
<1>1. cutBy'[a] = IF a \in T THEN cutBy[a] \cup {goal} ELSE cutBy[a]
  BY DEF CutShort
<1>2. CASE Excused(a) BY <1>1, <1>2 DEF Excused
<1>3. CASE goal = "users" /\ Filling(a)
  <2>1. a \in T BY <1>3, FillingIs DEF Idle
  <2> QED BY <1>1, <1>3, <2>1 DEF Excused
<1> QED BY <1>2, <1>3 DEF SInv, TornHasConsole

LEMMA SFail ==
  ASSUME TInv, jobs = 1, SInv, NEW t \in Target, Fail(t)
  PROVE  OneAtATime' /\ TornHasConsole' /\ PastMknod'
<1>1. \A u \in Target : ~Idle(u) => u = t
  BY DEF Fail, SInv, OneAtATime, Idle
<1>2. \A u \in Target : Idle(u)'
  BY <1>1 DEF Fail, CutShort, Idle
<1>3. \A a \in Accounts : Torn(lines'[a]) => console' \/ Excused(a)'
  <2>1. \A a \in Accounts : ~Idle(a) => a \in {t} BY <1>1 DEF Target
  <2>2. CutShort({t}) /\ UNCHANGED <<lines, console, bared>> /\ {t} \in SUBSET Target BY DEF Fail
  <2> QED BY <2>1, <2>2, SCutShort
<1>4. failed' BY DEF Fail
<1> QED BY <1>2, <1>3, <1>4, SQuiet

LEMMA SKill ==
  ASSUME TInv, jobs = 1, SInv, Kill
  PROVE  OneAtATime' /\ TornHasConsole' /\ PastMknod'
<1>1. \A u \in Target : Idle(u)' BY DEF Kill, CutShort, Idle
<1>2. \A a \in Accounts : Torn(lines'[a]) => console' \/ Excused(a)'
  <2>1. \A a \in Accounts : ~Idle(a) => a \in Target BY DEF Target
  <2>2. CutShort(Target) /\ UNCHANGED <<lines, console, bared>> /\ Target \in SUBSET Target BY DEF Kill
  <2> QED BY <2>1, <2>2, SCutShort
<1>3. goal' = "none" BY DEF Kill
<1> QED BY <1>1, <1>2, <1>3, SQuiet

\* make removes the file that an interrupted recipe was filling.
LEMMA SInterrupt ==
  ASSUME TInv, jobs = 1, SInv, Interrupt
  PROVE  OneAtATime' /\ TornHasConsole' /\ PastMknod'
<1>1. \A u \in Target : Idle(u)' BY DEF Interrupt, Idle
<1>2. \A a \in Accounts : Torn(lines'[a]) => console' \/ Excused(a)'
  <2> SUFFICES ASSUME NEW a \in Accounts, Torn(lines'[a]) PROVE console' \/ Excused(a)'
    OBVIOUS
  <2>1. a \notin Changed /\ lines'[a] = lines[a] /\ cutBy'[a] = cutBy[a] /\ UNCHANGED <<console, bared>>
    BY DEF Interrupt, Torn
  <2>2. ASSUME Filling(a) PROVE FALSE
    <3>1. \A c \in {"create", "mv"} : ~Contains(left[a], c)
      <4>1. CASE left[a] = <<"root", "user">> BY <4>1 DEF Contains
      <4>2. CASE left[a] = <<"user">> BY <4>2 DEF Contains
      <4>3. CASE left[a] = <<"copy">> BY <4>3 DEF Contains
      <4> QED BY <2>2, <4>1, <4>2, <4>3 DEF Filling
    <3>2. left[a] # <<>> BY <2>2, FillingIs
    <3> QED BY <2>1, <3>1, <3>2 DEF Changed, Busy, Target
  <2> QED BY <2>1, <2>2 DEF SInv, TornHasConsole, Excused
<1>3. goal' = "none" BY DEF Interrupt
<1> QED BY <1>1, <1>2, <1>3, SQuiet

\* Nothing is filled while nothing is busy.
LEMMA SIdle ==
  ASSUME jobs = 1, SInv, \A u \in Target : Idle(u), NEW a \in Accounts, Torn(lines[a])
  PROVE  console \/ Excused(a)
<1>1. ~Filling(a) BY FillingIs DEF Idle, Target
<1> QED BY <1>1 DEF SInv, TornHasConsole

\* A new run has dev/console before it.
LEMMA SMake ==
  ASSUME TInv, jobs = 1, SInv, Make
  PROVE  OneAtATime' /\ TornHasConsole' /\ PastMknod'
<1>1. \A u \in Target : Idle(u) /\ Idle(u)' BY DEF Make, TInv, JInv, Order, Idle
<1>2. \A a \in Accounts : Torn(lines'[a]) => console' \/ Excused(a)'
  BY <1>1, SIdle DEF Make, files, Excused
<1>3. ASSUME (goal \in {"all", "tar"})' PROVE ~Considered("console")'
  <2>1. todo' = Prerequisites[goal'] BY <1>3 DEF Make, Cleaning
  <2>2. CASE goal' = "all"
    <3>1. todo' = <<"packages", "console", "libs", "make_jail_etc", "shadow", "passwd", "group", "image">>
      BY <2>1, <2>2 DEF Prerequisites
    <3> QED BY <3>1 DEF Considered, ToSet
  <2>3. CASE goal' = "tar"
    <3>1. todo' = <<"console", "packages", "libs", "make_jail_etc", "passwd", "group", "image">>
      BY <2>1, <2>3 DEF Prerequisites
    <3> QED BY <3>1 DEF Considered, ToSet
  <2> QED BY <1>3, <2>2, <2>3
<1> QED BY <1>1, <1>2, <1>3, SQuiet

LEMMA SEndOfRun ==
  ASSUME TInv, jobs = 1, SInv, EndOfRun
  PROVE  OneAtATime' /\ TornHasConsole' /\ PastMknod'
<1>1. \A u \in Target : Idle(u) /\ Idle(u)' BY DEF EndOfRun, Busy, Idle
<1>2. \A a \in Accounts : Torn(lines'[a]) => console' \/ Excused(a)'
  BY <1>1, SIdle DEF EndOfRun, files, Excused
<1> QED BY <1>1, <1>2, SQuiet DEF EndOfRun

\* dev/console goes away with the files, or that is remembered.
LEMMA SCleaning ==
  ASSUME TInv, jobs = 1, SInv, Clean \/ EndOfClean \/ EditSource \/ RemoveConsole
  PROVE  OneAtATime' /\ TornHasConsole' /\ PastMknod'
<1>1. \A u \in Target : Idle(u) /\ Idle(u)'
  BY DEF Clean, EndOfClean, EditSource, RemoveConsole, TInv, JInv, Order, Idle
<1>2. (goal \notin {"all", "tar"})'
  BY DEF Clean, EndOfClean, EditSource, RemoveConsole, Cleaning
<1>3. \A a \in Accounts : Torn(lines'[a]) => console' \/ Excused(a)'
  <2> SUFFICES ASSUME NEW a \in Accounts, Torn(lines'[a]), ~console' PROVE Excused(a)' OBVIOUS
  <2>1. CASE Clean
    <3>1. PICK b : \/ b \in Accounts /\ SetLines(b, NULL) /\ cutBy' = [cutBy EXCEPT ![b] = {}]
                      /\ UNCHANGED <<console, bared>>
                   \/ bared'
                   \/ UNCHANGED <<lines, console, bared, cutBy>>
      BY <2>1 DEF Clean
    <3>2. CASE b \in Accounts /\ SetLines(b, NULL) /\ cutBy' = [cutBy EXCEPT ![b] = {}]
               /\ UNCHANGED <<console, bared>>
      <4>1. lines' = [lines EXCEPT ![b] = NULL] BY <3>2 DEF SetLines
      <4>2. b # a BY <3>2, <4>1 DEF Torn, TInv, JInv, Kinds
      <4>3. lines'[a] = lines[a] /\ cutBy'[a] = cutBy[a] BY <3>2, <4>1, <4>2 DEF TInv, JInv, Kinds, Flags
      <4> QED BY <1>1, <3>2, <4>3, SIdle DEF Excused
    <3>3. CASE bared' BY <3>3 DEF Excused
    <3>4. CASE UNCHANGED <<lines, console, bared, cutBy>> BY <1>1, <3>4, SIdle DEF Excused
    <3> QED BY <3>1, <3>2, <3>3, <3>4
  <2>2. CASE EndOfClean
    <3>1. UNCHANGED <<lines, console, cutBy>> BY <2>2 DEF EndOfClean, files
    <3>2. UNCHANGED bared BY <2>2, <3>1 DEF EndOfClean, Torn
    <3> QED BY <1>1, <3>1, <3>2, SIdle DEF Excused
  <2>3. CASE EditSource
    <3>1. UNCHANGED <<lines, console, cutBy, bared>> BY <2>3 DEF EditSource
    <3> QED BY <1>1, <3>1, SIdle DEF Excused
  <2>4. CASE RemoveConsole BY <2>4 DEF RemoveConsole, Excused
  <2> QED BY <2>1, <2>2, <2>3, <2>4
<1> QED BY <1>1, <1>2, <1>3, SQuiet

LEMMA SInit == Init => SInv
<1> SUFFICES ASSUME Init PROVE OneAtATime /\ TornHasConsole /\ PastMknod BY DEF SInv
<1>1. \A u \in Target : Idle(u) BY DEF Init, Idle
<1>2. \A a \in Accounts : ~Torn(lines[a]) BY DEF Init, Torn
<1>3. goal = "none" BY DEF Init
<1> QED BY <1>1, <1>2, <1>3 DEF OneAtATime, TornHasConsole, PastMknod, Target, Accounts

LEMMA SNext ==
  ASSUME TInv, SInv, [Next]_vars
  PROVE  SInv'
<1>1. jobs' = jobs
  BY DEF vars, Next, Make, Consider, EndOfRun, Execute, Fail, Kill, Interrupt, Clean, EndOfClean,
         EditSource, RemoveConsole
<1> SUFFICES ASSUME jobs = 1 PROVE OneAtATime' /\ TornHasConsole' /\ PastMknod'
  BY <1>1 DEF SInv
<1>2. CASE Next
  BY <1>2, SMake, SConsider, SEndOfRun, SExecute, SFail, SKill, SInterrupt, SCleaning DEF Next
<1>3. CASE UNCHANGED vars
  BY <1>3 DEF vars, files, SInv, OneAtATime, TornHasConsole, PastMknod, Excused, Filling, Idle,
              Considered, Torn
<1> QED BY <1>2, <1>3

\* make -j1 packs no torn account file, for every number of faults: only
\* jail-users, -j or the removal of dev/console alone lead there (Makefile
\* lines 300 to 326).
THEOREM NotPackedTorn == Spec => []TornIsNotPacked
<1>1. Init => TInv /\ SInv BY TInit, SInit
<1>2. TInv /\ SInv /\ [Next]_vars => (TInv /\ SInv)' BY TNext, SNext
<1>3. TInv /\ SInv => TornIsNotPacked
  <2> SUFFICES ASSUME TInv, SInv, jobs = 1, Packing, NEW a \in Accounts, Torn(lines[a])
               PROVE  Excused(a)
    BY DEF TornIsNotPacked, Excused
  <2>1. /\ ~failed /\ goal \notin Cleaning \cup {"none", "users"}
        /\ \A u \in Target \ {"image"} : Idle(u) /\ Considered(u)
    BY DEF Packing, Idle, TInv, JInv, Order, SInv, OneAtATime, Target
  <2>2. goal \in {"all", "tar"}
    BY <2>1 DEF TInv, Run, Goal, Prerequisites
  <2>3. Torn(lines[a]) => Excused(a) \/ Filling(a)
    BY <2>1, <2>2 DEF SInv, PastMknod, Target
  <2>4. ~Filling(a) BY <2>1, FillingIs DEF Idle, Target, Accounts
  <2> QED BY <2>3, <2>4
<1> QED BY <1>1, <1>2, <1>3, PTL DEF Spec
=============================================================================
