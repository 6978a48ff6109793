------------------------------ MODULE JailBuild ------------------------------
(***************************************************************************)
(* The Makefile's rules that lead to the jail's images: a run of make goes *)
(* through its goal's prerequisites in order, at most jobs recipes at a    *)
(* time, and through each recipe command by command.  Commands fail, make  *)
(* is interrupted or killed, and is run again on what is left.             *)
(* The account files are written by make_jail_etc (AccountLines).          *)
(***************************************************************************)
EXTENDS AccountLines, FiniteSets, Sequences, SequencesExt

CONSTANTS
  Jobs,      \* make -j: recipes at a time
  MaxFaults, \* bound, for each of Jobs: commands that fail, writes lost, runs cut
  Lost       \* stands in a file for a line that is missing or, in shadow, has a
             \* null hash: make_jail_etc was called and ended with status 0

ASSUME JailBuildAssumption == Jobs \subseteq Nat \ {0} /\ MaxFaults \in [Jobs -> Nat]

VARIABLES
  sameFs,  \* /tmp and the build directory are on one file system: fixed
  jobs,    \* the number that make is given with -j: fixed
  goal,    \* what make was called for, "none" between runs
  todo,    \* targets make has not considered yet
  left,    \* what is left of each target's recipe
  failed,  \* a command of this run failed: make starts nothing more
  lines,   \* the lines of the jail's account files, NULL without a file
  fresh,   \* an account file is not older than make_jail_etc
  tmp,     \* the file that mktemp made for passwd
  console, \* the jail has its dev/console
  toolNew, \* make_jail_etc is there and not older than its source
  cutBy,   \* goals whose run ended inside a rule that wrote this file (history)
  bared,   \* dev/console went away without the rest of the jail (history)
  faults   \* bounds the model only

files == <<lines, fresh, tmp, console, toolNew>>
vars == <<sameFs, jobs, goal, todo, left, failed, files, cutBy, bared, faults>>

Accounts == {"passwd", "shadow", "group"}
Target == Accounts \cup {"packages", "console", "libs", "make_jail_etc", "image"}

\* The order in which make meets a goal's prerequisites.  "packages" are the
\* kernel, the packages and the directories.
Prerequisites ==
  [all |-> <<"packages", "console", "libs", "make_jail_etc", "shadow", "passwd", "group", "image">>,
   tar |-> <<"console", "packages", "libs", "make_jail_etc", "passwd", "group", "image">>,
   users |-> <<"make_jail_etc", "passwd", "shadow", "group">>]

\* Goals that remove files: jail-clean the jail, clean the whole build directory.
Cleaning == {"jail-clean", "clean"}
Goal == DOMAIN Prerequisites \cup Cleaning

\* Every command of a recipe; "root" and "user" are the two calls of
\* make_jail_etc.  Renaming over a file system boundary is unlinking and copying
\* (mutated: passwd is written like shadow; the second ">>" of shadow is ">").
InPlaceRecipe(t) ==
  CASE t \in Accounts -> <<"rm", "create", "root", "user">>
    [] t = "console" -> <<"mknod">>
    [] t = "make_jail_etc" -> <<"gcc">>
    [] OTHER -> <<"work">>

TwiceCreatedRecipe(t) ==
  CASE t \in Accounts -> <<"rm", "create", "root", "create", "user">>
    [] t = "console" -> <<"mknod">>
    [] t = "make_jail_etc" -> <<"gcc">>
    [] OTHER -> <<"work">>

Recipe(t) ==
  CASE t = "passwd" /\ sameFs -> <<"mktemp", "root", "user", "mv">>
    [] t = "passwd" /\ ~sameFs -> <<"mktemp", "root", "user", "unlink", "create", "copy">>
    [] t \in {"shadow", "group"} -> <<"rm", "create", "root", "user">>
    [] t = "console" -> <<"mknod">>
    [] t = "make_jail_etc" -> <<"gcc">>
    [] OTHER -> <<"work">>

\* The arguments of each call.
Call ==
  [passwd |-> [root |-> [NoArguments EXCEPT !.output_kind = "P", !.user_home_dir = "/root",
                           !.user_and_group_name = "root", !.user_group_id = 0,
                           !.user_shell = "/bin/sh"],
               user |-> [NoArguments EXCEPT !.output_kind = "P", !.user_home_dir = "/home/peon",
                           !.user_and_group_name = "peon", !.user_group_id = 1002,
                           !.user_shell = "/bin/sh"]],
   shadow |-> [root |-> [NoArguments EXCEPT !.output_kind = "S", !.user_and_group_name = "root",
                           !.password = ""],
               user |-> [NoArguments EXCEPT !.output_kind = "S", !.user_and_group_name = "peon",
                           !.password = "peon"]],
   group |->  [root |-> [NoArguments EXCEPT !.output_kind = "G", !.user_and_group_name = "root"],
               user |-> [NoArguments EXCEPT !.output_kind = "G", !.user_and_group_name = "peon",
                           !.user_group_id = 1002]]]

Written(t) == <<Line(Call[t].root), Line(Call[t].user)>>

\* What a file may hold, line by line; and no file is not an empty file.
AnyLine == {Lost} \cup {Line(Call[t][who]) : t \in Accounts, who \in {"root", "user"}}
ASSUME NoFileAssumption == NULL \notin Seq(AnyLine)

Torn(s) == s # NULL /\ Len(s) < 2

\* Beginnings of the finished file, with lost lines.
Contents ==
  [t \in Accounts |->
    {NULL, <<>>} \cup {<<a>> : a \in {Lost, Written(t)[1]}}
      \cup {<<a, b>> : a \in {Lost, Written(t)[1]}, b \in {Lost, Written(t)[2]}}]

\* s has some of the targets that order has, in that order and none twice.
InOrder(s, order) ==
  /\ ToSet(s) \subseteq ToSet(order)
  /\ \A i, j \in DOMAIN s : i < j =>
       \E k \in DOMAIN order :
         order[k] = s[i] /\ \E l \in DOMAIN order : k < l /\ order[l] = s[j]

TypeOK ==
  /\ sameFs \in BOOLEAN /\ jobs \in Jobs
  /\ goal \in Goal \cup {"none"}
  /\ todo = <<>> \/ (goal \in DOMAIN Prerequisites /\ InOrder(todo, Prerequisites[goal]))
  /\ \A t \in Target : left[t] # <<>> => IsSuffix(left[t], Recipe(t))
  /\ failed \in BOOLEAN
  /\ \A t \in Accounts : lines[t] \in Contents[t]
  /\ fresh \in [Accounts -> BOOLEAN]
  /\ tmp \in Contents["passwd"] \ {NULL}
  /\ console \in BOOLEAN /\ toolNew \in BOOLEAN /\ bared \in BOOLEAN
  /\ cutBy \in [Accounts -> SUBSET DOMAIN Prerequisites]
  /\ faults \in 0..MaxFaults[jobs]

Init ==
  /\ sameFs \in BOOLEAN /\ jobs \in Jobs
  /\ goal = "none" /\ todo = <<>> /\ left = [t \in Target |-> <<>>] /\ failed = FALSE
  /\ lines = [t \in Accounts |-> NULL] /\ fresh = [t \in Accounts |-> FALSE]
  /\ tmp = <<>> /\ console = FALSE /\ toolNew = FALSE
  /\ cutBy = [t \in Accounts |-> {}] /\ bared = FALSE /\ faults = 0

-----------------------------------------------------------------------------
Busy == {t \in Target : left[t] # <<>>}

Make ==
  /\ goal = "none"
  /\ goal' \in Goal
  /\ todo' = IF goal' \in Cleaning THEN <<>> ELSE Prerequisites[goal']
  /\ UNCHANGED <<sameFs, jobs, left, failed, files, cutBy, bared, faults>>

\* Phony targets, and those without a file here, are made every time.
UpToDate(t) ==
  \/ t \in Accounts /\ lines[t] # NULL /\ fresh[t]
  \/ t = "make_jail_etc" /\ toolNew

\* A recipe waits for its own prerequisites only: the account files for
\* make_jail_etc, the libraries for the packages they are collected from, the
\* image for everything (mutated: as if make_jail_etc were no prerequisite).
NeedsOfImageOnly(t) == IF t = "image" THEN Target ELSE {}
Needs(t) ==
  CASE t = "image" -> Target
    [] t \in Accounts -> {"make_jail_etc"}
    [] t = "libs" -> {"packages"}
    [] OTHER -> {}

Ready(t) == Needs(t) \cap (Busy \cup ToSet(todo)) \subseteq {t}

\* The first target that need not wait.
Consider ==
  /\ ~failed /\ Cardinality(Busy) < jobs
  /\ \E i \in DOMAIN todo :
       /\ Ready(todo[i]) /\ \A j \in 1..(i - 1) : ~Ready(todo[j])
       /\ todo' = RemoveAt(todo, i)
       /\ left' = [left EXCEPT ![todo[i]] = IF UpToDate(todo[i]) THEN <<>> ELSE Recipe(todo[i])]
  /\ UNCHANGED <<sameFs, jobs, goal, failed, files, cutBy, bared, faults>>

EndOfRun ==
  /\ goal \notin Cleaning \cup {"none"} /\ Busy = {} /\ (todo = <<>> \/ failed)
  /\ goal' = "none" /\ todo' = <<>> /\ failed' = FALSE
  /\ UNCHANGED <<sameFs, jobs, left, files, cutBy, bared, faults>>

-----------------------------------------------------------------------------
SetLines(t, s) ==
  /\ lines' = [lines EXCEPT ![t] = s]
  /\ fresh' = [fresh EXCEPT ![t] = s # NULL]

\* make_jail_etc ends with status 0 whether its line was written or not, and
\* whether crypt gave it a hash or not (MakeJailEtc, FailureOutcome).
Generate(t, who) ==
  \E l \in {Line(Call[t][who]), Lost} :
    /\ l = Lost => faults < MaxFaults[jobs]
    /\ faults' = IF l = Lost THEN faults + 1 ELSE faults
    /\ IF t = "passwd" THEN tmp' = Append(tmp, l) /\ UNCHANGED <<lines, fresh>>
                       ELSE SetLines(t, Append(lines[t], l)) /\ UNCHANGED tmp
    /\ UNCHANGED <<console, toolNew>>

\* What a command changes when it succeeds.
Effect(t, command) ==
  \/ command \in {"root", "user"} /\ Generate(t, command)
  \/ /\ \/ /\ command \in {"rm", "unlink"} /\ SetLines(t, NULL)
           /\ UNCHANGED <<tmp, console, toolNew>>
        \/ command = "create" /\ SetLines(t, <<>>) /\ UNCHANGED <<tmp, console, toolNew>>
        \/ command = "mktemp" /\ tmp' = <<>> /\ UNCHANGED <<lines, fresh, console, toolNew>>
        \/ /\ command \in {"mv", "copy"} /\ SetLines(t, tmp) /\ tmp' = <<>>
           /\ UNCHANGED <<console, toolNew>>
        \/ /\ command = "mknod" /\ console' = TRUE /\ UNCHANGED <<lines, fresh, tmp, toolNew>>
        \/ /\ command = "gcc" /\ toolNew' = TRUE /\ fresh' = [a \in Accounts |-> FALSE]
           /\ UNCHANGED <<lines, tmp, console>>
        \/ command = "work" /\ UNCHANGED files
     /\ UNCHANGED faults

\* mknod does not replace a node (mutated: its failure does not matter).
CannotNever(command) == FALSE
Cannot(command) == command = "mknod" /\ console

Execute(t) ==
  /\ left[t] # <<>> /\ ~Cannot(Head(left[t]))
  /\ Effect(t, Head(left[t]))
  /\ left' = [left EXCEPT ![t] = Tail(@)]
  /\ cutBy' = [a \in Accounts |-> IF a = t /\ ~Torn(lines'[a]) THEN {} ELSE cutBy[a]]
  /\ UNCHANGED <<sameFs, jobs, goal, todo, failed, bared>>

\* The rules of T end here; a temporary file they leave is used by no later run.
CutShort(T) ==
  /\ left' = [t \in Target |-> IF t \in T THEN <<>> ELSE left[t]]
  /\ cutBy' = [a \in Accounts |-> IF a \in T THEN cutBy[a] \cup {goal} ELSE cutBy[a]]
  /\ tmp' = IF "passwd" \in T THEN <<>> ELSE tmp

\* A command fails: make ends its target, lets the others end, keeps the files
\* (nothing asks for .DELETE_ON_ERROR).
Fail(t) ==
  /\ left[t] # <<>>
  /\ \/ Cannot(Head(left[t])) /\ UNCHANGED faults
     \/ faults < MaxFaults[jobs] /\ faults' = faults + 1
  /\ failed' = TRUE
  /\ CutShort({t})
  /\ UNCHANGED <<sameFs, jobs, goal, todo, lines, fresh, console, toolNew, bared>>

\* make and its commands are killed, or the host goes down.
Kill ==
  /\ goal \notin Cleaning \cup {"none"} /\ faults < MaxFaults[jobs] /\ faults' = faults + 1
  /\ goal' = "none" /\ todo' = <<>> /\ failed' = FALSE
  /\ CutShort(Target)
  /\ UNCHANGED <<sameFs, jobs, lines, fresh, console, toolNew, bared>>

\* make is interrupted from the keyboard: it removes the targets that their
\* recipes have changed.
Changed == {t \in Accounts \cap Busy : \A c \in {"create", "mv"} : ~Contains(left[t], c)}

Interrupt ==
  /\ goal \notin Cleaning \cup {"none"} /\ faults < MaxFaults[jobs] /\ faults' = faults + 1
  /\ goal' = "none" /\ todo' = <<>> /\ failed' = FALSE
  /\ left' = [t \in Target |-> <<>>] /\ tmp' = <<>>
  /\ lines' = [a \in Accounts |-> IF a \in Changed THEN NULL ELSE lines[a]]
  /\ fresh' = [a \in Accounts |-> fresh[a] /\ a \notin Changed]
  /\ cutBy' = [a \in Accounts |-> IF a \in Changed THEN {} ELSE cutBy[a]]
  /\ UNCHANGED <<sameFs, jobs, console, toolNew, bared>>

-----------------------------------------------------------------------------
\* rm -r: one file after the other, in an order of its own.
Clean ==
  /\ goal \in Cleaning
  /\ \/ /\ \E a \in Accounts : /\ lines[a] # NULL /\ SetLines(a, NULL)
                               /\ cutBy' = [cutBy EXCEPT ![a] = {}]
        /\ UNCHANGED <<console, toolNew, bared>>
     \/ /\ console /\ console' = FALSE /\ bared' = TRUE
        /\ UNCHANGED <<lines, fresh, toolNew, cutBy>>
     \/ /\ goal = "clean" /\ toolNew /\ toolNew' = FALSE
        /\ UNCHANGED <<lines, fresh, console, bared, cutBy>>
  /\ UNCHANGED <<sameFs, jobs, goal, todo, left, failed, tmp, faults>>

\* All is removed; or it is not, and rm was stopped.
EndOfClean ==
  /\ goal \in Cleaning /\ goal' = "none"
  /\ \/ /\ ~console /\ (\A a \in Accounts : lines[a] = NULL) /\ (goal = "clean" => ~toolNew)
        /\ bared' = FALSE /\ UNCHANGED faults
     \/ faults < MaxFaults[jobs] /\ faults' = faults + 1 /\ UNCHANGED bared
  /\ UNCHANGED <<sameFs, jobs, todo, left, failed, files, cutBy>>

\* Between runs someone edits make_jail_etc.c, or removes the node that mknod
\* complains about.
EditSource ==
  /\ goal = "none" /\ toolNew' = FALSE
  /\ UNCHANGED <<sameFs, jobs, goal, todo, left, failed, lines, fresh, tmp, console, cutBy, bared, faults>>

RemoveConsole ==
  /\ goal = "none" /\ console /\ console' = FALSE /\ bared' = TRUE
  /\ UNCHANGED <<sameFs, jobs, goal, todo, left, failed, lines, fresh, tmp, toolNew, cutBy, faults>>

Next ==
  \/ Make \/ Consider \/ EndOfRun
  \/ \E t \in Target : Execute(t) \/ Fail(t)
  \/ Kill \/ Interrupt
  \/ Clean \/ EndOfClean
  \/ EditSource \/ RemoveConsole

Spec == Init /\ [][Next]_vars

-----------------------------------------------------------------------------
(***************************************************************************)
(* Safety                                                                  *)
(***************************************************************************)

Packing == left["image"] # <<>>

\* Whatever stops make, and whenever, the jail has no passwd file or one with
\* every line that make_jail_etc could write: the rule writes a temporary file
\* and renames it (Makefile line 305), as long as that is a renaming.  The rules
\* of shadow and group have no such property.
PasswdNeverTorn == sameFs => ~Torn(lines["passwd"])

\* A file with some of its lines counts as made, and nothing but a later run's
\* failure at mknod (Makefile line 326) keeps it out of an image: a run of
\* make -j1 for an image that ends inside an account file's rule is followed by no image
\* with what it left, until jail-clean.  It takes the goal jail-users, -j, or
\* the removal of dev/console alone to pack such a file.
TornIsNotPacked ==
  jobs = 1 /\ Packing => \A t \in Accounts : Torn(lines[t]) => bared \/ "users" \in cutBy[t]

\* jail.cpio is packed when the three files are there, none being written, all
\* by the present make_jail_etc, under every number of jobs.
BuiltByPresentTool ==
  Packing /\ goal = "all" =>
    /\ Busy = {"image"}
    /\ toolNew
    /\ \A t \in Accounts : lines[t] # NULL /\ fresh[t]

\* Files that lost no line agree: every user of passwd has a line in shadow,
\* and a group with the number given there (root's is the default of -i).
Complete(t) == lines[t] = Written(t)
AccountsAgree ==
  (\A t \in Accounts : lines[t] # NULL /\ ~Torn(lines[t]) /\ ~Contains(lines[t], Lost)) =>
    \A i \in 1..2 :
      /\ \E j \in 1..2 : lines["shadow"][j].name = lines["passwd"][i].name
      /\ \E j \in 1..2 : lines["group"][j].gid = lines["passwd"][i].gid
=============================================================================
