# RootFs: a verification project

RootFs builds a root file system for an embedded target and, with it, jails:
directories of the target into which some users are moved when they log in.
This directory holds TLA+ models of its programs, the TLC runs that check them
and the proofs that TLAPS checks.

## 1. The system

| part | source | state it keeps | operations |
|---|---|---|---|
| login shell | `chrootshell.c` | one process per login: user ids, root and working directory, environment, argument vector | one `main()`, a chain of system calls with a check after each |
| jail completion | `initjail` | the jail directory, the `/proc` mounted on it | a shell script, run by hand on the target, again after a failure |
| jail tarball | `mkjail` | a work directory, `jail.tar.gz` | a shell script on the build host |
| account files | `make_jail_etc.c`, `use-crypt.c` | an output file | option parsing, validation, one line of passwd, shadow or group, salt |
| build | `Makefile`, `*.mk` | the build directory | rules: account files, packages, device nodes, images |
| boot | `skeleton-sysroot/etc/init.d/rcS`, `fstab` | mounts, daemons | nine commands without error handling |

How they interact. `mkjail` (or the Makefile) produces what `initjail` unpacks;
`initjail` derives the jail's `/etc/passwd` from the host's; `chrootshell` is the
shell that the host's passwd file names for a jail user: it looks the user up in
the host's file, enters the directory given there, drops root, looks the user up
again in the jail's file and runs the shell that file names. All of them
communicate through files only; nothing takes a lock.

What is hard here:

* *stale data*: `getpwnam` may keep a file open across `chroot` (`chrootshell.c:138,164`);
* *atomicity*: the administrator edits passwd files and jails between any two
  calls of a login; every fact is read once and used later;
* *ordering*: `chroot` needs root, `setuid` gives it up, the jail's files must be
  read after both;
* *partial failure*: `set -e`, `set +e`, `|| true` and and-lists decide which
  failing commands end `initjail` (lines 11, 25, 56, 64, 70);
* *crash recovery*: `initjail` is killed, the target is rebooted, the script is
  run again on what is left;
* *untested results*: `malloc`, `fopen` and `crypt` (`chrootshell.c:151,196`,
  `make_jail_etc.c:249,255`), and pointers counted from `argc` (`chrootshell.c:188`);
* *shared names*: `mkjail` runs share `jail.tar.gz` and reuse process ids; under
  `make -j` the recipes of files with one base name copy each other's files
  (`Makefile:158-180`), and a torn copy is newer than what it is a copy of;
* *time*: salts are drawn from the second and the process id with shifts and masks
  (`make_jail_etc.c:241-246`).

What makes each part correct:

| part | properties |
|---|---|
| login shell | jail and user id come from one line, a shell is confined, its environment and arguments fit, a login in order succeeds |
| jail completion | one `/proc`, status 0 means complete, a rerun gets past leftovers |
| login and completion | a complete jail refuses nobody, an incomplete one confines all the same |
| jail tarball | a run packs its own files, status 0 means a whole tarball, leftovers stop nobody |
| account files | a refusal touches nothing, one line or none, salts differ |
| build | images hold finished, present and agreeing files, whatever was cut short before |

`PROJECT.json` lists each of these at its line, with the properties that cover it.

## 2. Modules

| module | what it is |
|---|---|
| `JailGate` | abstract: a login is granted one pair (jail, uid) that the host's file offers, takes it on at once, and runs a shell with exactly that pair or is refused |
| `ChrootShell` | `chrootshell.c`, one action per tested call; refines `JailGate` |
| `MCChrootShell` | the small instances for TLC |
| `ChrootShellProofs` | its theorems |
| `InitJail` | `initjail`, one action per command; checked as it is |
| `InitJailProofs` | its theorems |
| `AccountLines` | `make_jail_etc.c` without its I/O: options, validation, the line printed |
| `MakeJailEtc` | one run of `make_jail_etc.c`; extends `AccountLines` |
| `MakeJailEtcProofs` | its theorems |
| `ShadowSalt`, `MCShadowSalt`, `ShadowSaltProofs` | the salts of `make_jail_etc -S` and `use-crypt`, over time and processes; instance; theorems |
| `MkJail`, `MCMkJail`, `MkJailProofs` | `mkjail`, runs side by side and one after the other; instance; theorems |
| `JailLogin`, `MCJailLogin`, `JailLoginProofs` | composition: extends `InitJail`, instantiates `ChrootShell`; instances; theorems |
| `JailBuild`, `MCJailBuild`, `JailBuildProofs` | the Makefile's rules for account files and images; calls `make_jail_etc` through `AccountLines`; instance; theorems |
| `RootfsPackages`, `MCRootfsPackages`, `RootfsProofs` | the Makefile's rules that copy packages, and `lib/.done`; instance; theorems |

`JailBuild` and `RootfsPackages` divide the Makefile: what is one command ("packages",
"libs") in the former is modelled in the latter, which leaves out the account files.

### ChrootShell

A process is a program counter `pc[s]` and the state `main()` changes: `log`
(is `fp` non-NULL), `stream` (whose passwd file the C library has open), `pw` (the
static buffer, with the place it was filled from), `ruid`/`euid`, `root`, `cwd`,
`myenv`, `newargv`. `call[s]` is what `login`, `rshd` or `sshd` hands over: USER,
LOGNAME, the real user id, `argv[0]`, `argc`, whether `argv[1]` is `-c`. The actions
`OpenLog`, `CheckNames`, `LookupUser`, `CheckShell`, `EnterDir`, `EnterJail`,
`DropRoot`, `LookupJailUser`, `GoHome`, `FixEnvironment` (one `mysetenv` a step) and
`Exec` follow the source line by line; `Die` is `_die`, `Crash` is a store or a stdio
call through NULL. `hostPasswd` and `jail` are the environment: `EditHost` and
`EditJail` change them between any two calls.

Abstractions. A path stands for its base name too; `Slashed` are the shell fields
that contain a slash. Directories inside a jail are a set; a program exists or
not. LOGNAME unset and LOGNAME empty are one value, as in the code. Messages are
left out. What the C library does is external: `Getpwnam` reads the file it still
has open or else the one under the process's root directory, and may or may not
keep it open; the code must be right for both. `argc = 0` is left out: every
caller passes `argv[0]`.

### InitJail

`pc` is the next command. `files` is the set of things in the jail, `passwd` the
state of its passwd file (none, the tarball's, truncated, derived from the
host's), `procMounts` how many `/proc` are stacked on it, `procUsers` the processes
that keep the topmost busy. `host` says what the target has (busybox, ash, shadow,
pam.d, libz) and is fixed at the start of a behaviour. `After` and `Make` give a
command's failure the effect it has under `set -e` and `set +e`.

A command fails when what it does is impossible (`rm` on a mounted `/proc`, `mknod`
and `ln` on a name that exists, `cp` of a missing libz) and, when `faulty` was chosen
at the start of the run, for any outside reason; a faulty run may also be killed
anywhere. So a run that is not faulty fails only for a reason the script or its
leftovers give. Files are left in the jail (`LeaveFile`) between runs only, one run
is under way at a time, and `rm` is free in its order. A host without `/etc/services` is a faulty
run; the tarball is one that `mkjail` makes (the Makefile's `jail.tar.gz`, which holds links to
busybox, is not covered), and `RetryWorks` leaves out the host without pam.d and libz by name.

### MakeJailEtc

`args` is `g_run_arguments`; `ParseInputArgs` takes options of any kind, in any order
and number, until the run ends or `ValidateInputArgs` is reached. `Open` is the call of
`get_output_file_stream` whose result is tested (there is none for group), `Reopen` the
one in the argument list of `fprintf`; each empties the file, and each may fail. `PrintLine`
is the line that leaves the buffer at `exit`, or does not. `CallCrypt` comes before all of them, for
shadow only: `password` is what `crypt` returned, a hash or the null pointer that nobody tests
and `fprintf` prints as a text of its own. `file` and `stdout` are what
the run leaves; `before` and `failures` are history. What `crypt` computes is external: `Hash` only says of
which password a hash is; the salt is in `ShadowSalt`.

### ShadowSalt

`now` is what `time` returns, and moves by any amount and either way; `used` are the
process ids given out in the present second; `lines` are the lines made so far.
`Seed1` and `Digit` are the integer arithmetic of lines 241-246, with division and
remainder for shifts and masks; `Line` is one process, of `make_jail_etc -S` or of
`use-crypt`. External: the clock, and a kernel that gives no process id twice in a second.

### MkJail

`pc[p]`, `call[p]` and `workdir[p]` are the next command, arguments and working directory of
process `p`; `tarball` is the list of pieces of `jail.tar.gz`, with the run that wrote
each. `Start` is lines 13-28: it takes any number of arguments, and `PREFIX2` from
the environment unless there are three. `Rm`, `Mkdir`, `Collect`, `TarCreate` and `TarWrite`
work file by file, so a kill or a failure (`Stops`: `set -e` makes them one) may come
between any two. A working directory stays until a process with the same id comes.

### JailLogin

The module extends `InitJail` and instantiates `ChrootShell` with every constant
that describes a jail replaced by what `initjail` makes of it: `Jails` reads a
login's view (lines of passwd, homes, programs) off `files` and `passwd`; the host's
passwd file names the jail for every user. `Administer` is the script, `LoginStep` a
step of `main()`, `Again` the end of a session and a new try, `UseOrLeaveProc` processes
of a shell that keep `/proc` busy, `Boot` a reboot and the daemons' start. `ok` and `whole[s]`
are history: the last run ended with status 0, and did so throughout the login `s`.
Nothing but the script changes the jail here: edits by hand are in `ChrootShell`.

### JailBuild

`Make` chooses a goal, `Consider` takes the next target of `todo` that need not wait and
starts its recipe or finds it up to date, `Execute` and `Fail` are a command of a recipe
that succeeds or fails. A recipe is a sequence of commands (`Recipe`), the two calls of
`make_jail_etc` among them (`Call` has their arguments). What make does is external: it
keeps the target of a failing recipe (there is no `.DELETE_ON_ERROR`), removes the
changed target on `Interrupt`, nothing on `Kill`. `lines` and `fresh` are the account
files and whether make finds them newer than the generator, `Lost` a line that a full
disk took or that has a null hash: in both cases the generator ended with status 0. The goals are `all` (`jail.cpio`), `tar` (`jail.tar.gz`), `users`
(`jail-users`), `jail-clean` and `clean`. Packages, libraries and kernel are commands
that work or fail. `EditSource` and `RemoveConsole` are the developer.

### RootfsPackages

Packages have files and a place in the order of the pattern rules; `Owner` is the first
that has a path. A recipe copies every file of that package with the target's base
name (`find . -depth -name $(*F)`): `list` is what its `cpio` has before it, `writing` the file
it has created and not finished. `jail[f]` records the package and version a file was
copied from and whether it is whole. Times are not numbers: `edited[f]` are the packages
whose file is newer than the jail's, `done` says whether `lib/.done` is newer than all.
`libs[l]` are the programs that the library `l` in the jail was collected for. One run of make
is for `rootfs`, `jail.cpio`, `jail.tar.gz` or `jail-clean`; the first three part only after the
packages and the libraries (`EndPackages`, `AfterLibs`): the rule of `jail.cpio` removes the
loader and copies of libm (`Dropped`, line 350) before it packs the jail (`Drop`, `Pack`), that of
`jail.tar.gz` does not. `FailCopy`,
`FailOrKill` and `Interrupt` differ in what make does: it waits for the other recipes, does
nothing, or removes the targets that have changed. `Edit` is the developer, at any time.
`disturbed`, `broke` and `bared` are history.

## 3. Runs

| run | question | bounds |
|---|---|---|
| `login` | is every shell confined, with the right environment and arguments, and does a login in order get one? | 1 session, 26 ways to call, 3 shells in the host's line, 6 kinds of jail, 1 edit, MAXENV 5 |
| `login_gate` | do jail and uid come from one line of the host's file; does the environment's table hold when it is too small? | 2 users, 2 jails, 2 edits, LOGNAME set and unset, MAXENV 4 |
| `initjail` | is one `/proc` mounted, is exit status 0 a complete jail, does a rerun work? | 32 hosts, 2 runs, 1 process using `/proc` |
| `make_jail_etc` | what does a run leave, refused, failed or well? | 2 names, 1 of the rest, any number of options; `crypt`, each `fopen` and the write may fail |
| `build` | which torn files can be in the jail, and in an image; is an image packed from finished, present and agreeing files? | make -j1 with 2 faults, -j3 with 1; 5 goals, any number of runs |
| `jail_login` | does a complete jail admit its user, after everything that came before, and is every shell confined whatever the script does meanwhile? | 1 user, 1 login at a time, any number of tries, 2 runs of `initjail`, a target with busybox |
| `salt` | which lines share a salt? | 2 lines, 10 times and 9 process ids at every boundary of the shifts |
| `mkjail` | does a run pack its own files, and all of them? | 2 process ids, 2 runs, 2 toolchains that differ in every kind of file |
| `rootfs` | is an image current, with libraries that fit and no torn file? | make -j2, 2 packages, 3 files (two of one name, one of both packages), 2 libraries, one of them removed for `jail.cpio`, 2 faults, 1 edit |
| `finding_*` | three statements of comments that the code does not keep | |

Why the bounds are enough. Processes share only files that they read, so a second
session adds no behaviour to the first: one session meets all of them, and the
theorems hold for any number. Two edits let both the line and the jail change
under a login. MAXENV 5 is the largest number of variables wanted, 4 the largest
that does not suffice; the real value is 20, and the theorem covers every value.
Two runs are enough for one to work on what the other left; a leftover survives a
run unchanged or not at all. In `MakeJailEtc` a second value matters only where the last
option wins. Two faults tear two files, or one file twice; three jobs let the three
account files be written at once. In `salt` any two lines meet, and the property
is about two. In `mkjail` two runs either share a process id or run side by side. `rootfs` needs
two recipes at a time for one to take the other's file, and a second fault to
tear a file again.
`CHECK_DEADLOCK` is off because processes end and the
number of runs is bounded.

`TornIsNotPacked` is stated for one job: with more there is a run killed after
shadow's first line and before `mknod`, and an image with that file in the next run.
That make `-j1` is safe is an accident of the order of prerequisites (`dev/console` before
the account files) and of `mknod`'s refusal to replace a node.

Mutants. Each checked property has a mutated definition in the module (its comment
says "mutated") that a plausible slip would produce, and the run finds the property
violated with it.

Fairness. `FairSpec` of `ChrootShell` assumes weak fairness of each process: `main()`
waits for nothing but the kernel, which schedules it. Nothing is assumed of the
administrator. `ValidLoginSucceeds` is about logins whose two lines stay what they are
in a jail that keeps what they name, and leaves out lack of memory or processes. It is not
enough that the lines are always good: a login that has read one goes on with it, and dies
at `home` when line and directory are changed together. `FairSystemSpec` of `JailLogin` assumes the same of each login and
nothing of the script or of users: `AdmittedAtLast` speaks of logins that begin when
`initjail` has ended for good.

What the properties leave out, they leave out by name, and each exception was checked to
be needed: `disturbed` (a package edited while make runs), `bared` (a `jail-clean` stopped between
the libraries and `lib/.done`), `broke` and files that share a name (`InterruptsAreSafe`),
`crossed` (two `mkjail` runs that pack at once), one file system (`PasswdNeverTorn`), one job
(`TornIsNotPacked`).

## 4. Findings

1. `CallerOwnsLine`: item 2 of the header's list of aborts (`chrootshell.c:38`) is not
   implemented.
2. `LogIsOptional`: without a log file a name mismatch writes through NULL (line 151).
3. `EntryIsReal`: the header asks for an entry with a "real home directory and real shell"
   (`chrootshell.c:26-28`); `sed` (`initjail:58`) maps `/home/fred/jail` to `/home/fred/`, and
   `mkjail` packs an empty `home` (line 38). A jail that is complete for `initjail` refuses its
   user until somebody makes that directory; `WholeJailAdmits` says that nothing else is missing.

Divergences from comments and messages that need no model to see: line 198 of
`chrootshell.c` tests less than the message of line 205 says (`argc` 2, or above 3, with `-c`);
names that start with a dot survive the removal of the jail (`initjail:28` against
line 6); `make_jail_etc` requires a shell for passwd (line 160 against lines 116-129) and
does not require the home directory (line 209 against lines 188-197).

Observed, but not against any statement of the sources:

* `jail.tar.gz` does not depend on `etc/shadow`; `make jailfs` names `$(BULID_ROOT)`; `make all` always
  fails at `mknod` when it is repeated;
* `modules_install` comes after `cpio` in the rule of `jail.cpio`: an image holds the modules
  of the build before;
* `strip` (Makefile:385) hides an edit made while make runs; a `jail-clean` stopped before
  `lib/.done` leaves a jail without libraries that make takes for finished; a failing `cpio`
  leaves a torn file that make takes for made;
* the rule of `jail.cpio` removes the loader and copies of libm that `mklibs` may have put into the jail
  (Makefile:350), and `lib/.done` stays: a `jail.tar.gz` made after a `jail.cpio` lacks them
  until the libraries are collected for another reason;
* `make_jail_etc` exits with 0 when it wrote nothing, and when `crypt` returned NULL (line 249): the
  shadow file then has the text that `fprintf` prints for a null pointer in place of a hash;
* `use-crypt` prints the password where the user's name belongs (line 114);
* `mkjail` takes `PREFIX2` and `STRIP` from the environment, ignores a fourth argument, and asks
  for a `strip` that it does not use;
* when a process keeps the jail's `/proc` busy, `initjail` empties the jail before it fails; after a
  reboot nothing mounts that `/proc` again.

## 5. Proofs

`ChrootShellProofs` assumes `ConstantsAssumption` only: the host's lines name
directories that may serve as jails and are not the host's root, `None` is none
of the values it stands for the absence of, numbers are natural.
The properties are not inductive: that a shell's line comes from its jail depends
on what was open and entered four steps earlier. `IInv` adds, per process, what each
step may rely on: USER and LOGNAME have been compared (`NamesChecked`); before the
first lookup nothing is open or entered, and root is held until `setuid`
(`OuterIsHost`); the line read from the host's file is kept until it is used
(`GrantHeld`); inside, the two ids agree (`Dropped`); the jail's line, and then the
working directory, belong to the root directory (`HomeKnown`); `myenv` is a prefix of
the wanted environment (`EnvSoFar`). `OthersSame` shows that a step of one process
leaves the others alone, `SelfStep` treats each action, `TypeStep` the types. `NoLineIsNull`
draws from it what `TypeCorrect` does not say: a field is read only of a line that a lookup gave.
`Refinement` shows that `LookupUser` is `Grant`, `DropRoot` is `Confine`, `Exec` is
`Start`, every early end is `Refuse`, an edit is `Edit`, and all else is a stutter.
`NoFalseRefusal` and `LoginsEnd` are what `ValidLoginSucceeds` needs beside fairness: a login in
order is refused for lack of memory or processes only (`Admitted` says what it has read is what
stays there), and a login has at most sixteen steps (`StepsLeft`). An earlier form of the
property, over lines that may change, held on the small instance only; the attempt to prove it
showed why.

`InitJailProofs` assumes that the tarball adds at most busybox. Its `IInv` says what
the commands so far have installed (`Installs`), that nothing is there when `mknod` and
`ln` need its absence (`Fresh`), and that from `tar` to `mount` no `/proc` is mounted
(`Mounts`): `umount` may fail, but `rm` then fails too and `set -e` ends the run.

`MakeJailEtcProofs` assumes that NULL is no argument and that numbers are integers. Its
`IInv` says that nothing has changed before the first `fopen` (`Untouched`), that the
arguments are valid after the validation, that what `crypt` returned is the hash asked for
unless it failed (`Encrypted`), and that the stream in use is of an empty file (`Emptied`).

`JailBuildProofs` assumes the types of the jobs and faults (`JailBuildAssumption`), and
that NULL, which also stands for the absence of a file, is no sequence of lines
(`NoFileAssumption`). `PasswdAtomic`'s `Stage` says that the temporary file has as many lines as passwd's recipe
has written, so that `mv` finds both; that no other recipe touches it follows from
`Shapes`. `PackedLast`'s `JInv` says what the order of starting recipes rules out (`Order`): no
account file is written while `make_jail_etc` may still be, nor considered before it, and nothing
runs beside the image; `Stages` follows each recipe to its last command, and
`Results` says that a target that was considered and has ended is made. `TInv` adds to it, for
`TypeCorrect` and `Agreement`, that what make has still to consider is in the goal's order and none
of it twice (under `-j` targets that wait are passed over, so it is no final part of it), that what
is left of each recipe is a final part of its list (`Run`, `Rests`), and that a file holds what its
own recipe printed so far, with lines lost and none out of place (`Held`, `Filled`). `SInv` is about one job: one recipe at a time
(`OneAtATime`), and a torn file of a run for an image means that `dev/console` was there already
(`TornHasConsole`), so that no later run gets past `mknod` (`PastMknod`).

`ShadowSaltProofs` assumes that times are integers and process ids natural. It proves
without bit operations that six-bit digits determine the number below their top (`SameDigits`),
so that two equal salts have times that agree modulo 2^30 and, the time being the
same, process ids that agree modulo 2^18.

`MkJailProofs` assumes that None stands for nothing else. Its `IInv` says, command by command,
what a working directory holds so far: at least the files of the commands that are
over, at most what this run wants; that is so because the directory was removed and made
again at lines 33-34. The tarball has pieces of the run that opened it last, and of those
that were packing then.

`JailLoginProofs` assumes the constants' types, and uses `InitJailProofs` through
`ScriptUnchanged`, the refinement from the composition to `InitJail`. A login's invariant says what
each passed check has found in the jail's files; `OkInv` says that those files do not change
between the script's end and its next start, so a login that is `whole` finds at its second
lookup, `chdir` and `execvp` what the script made. `ShellsConfined` is the other half: `CInv` holds
of every login, whole or not, since what a login has entered and read does not depend on
what the script does to it later. `LoginsEnd` counts a login's steps here as well: neither the
script nor another login gives it one back, only a new try or a reboot does.

`RootfsProofs` assumes that every path has a first package (`PathsAssumption`) and that two files of
one name in a package are both its own (`NoClashAssumption`; it holds for the packages of the
repository, where only `com_err.h` and `e2fsprogs.mo` occur twice). Its `IInv`: a file that is
neither to be considered nor being made is in place (`Placed`); a file that is not the
present version is seen to be older (`Origin`); a half-written file is newer than `lib/.done`
(`Writers`); `lib/.done` is new only over the programs the libraries were collected for, and none but the
removed ones is missing then (`Collected`);
a torn file is being written by its own recipe (`TornIsOwn`).

Only model-checked: `ValidLoginSucceeds` and `AdmittedAtLast`, the two liveness properties: fairness
is about ENABLED, which the provers cannot expand. Their safe halves are proved
(`NoFalseRefusal` and `LoginsEnd`; `WholeAdmits` and the `LoginsEnd` of `JailLoginProofs`). Every invariant and action property of a passing
run is a theorem. The invariants used in the proofs were checked with TLC on small
instances before they were proved.

## 6. Not modelled

* Vendored packages (headers, binaries, manual pages), which are most of the repository's lines,
  and the configurations of kernel and busybox: data of other projects, with no behaviour here.
* The Makefile's rules for the kernel and its modules, for building `mklibs`, and for the sysroot
  (the same rules as the jail's, with other directories); variables that change between runs
  of make: make compares times only, so files made with other values stay as they are.
* Two runs of `initjail` at one time: it takes no lock, and nothing says that it may be so used.
* `rcS` beyond what a boot means for logins: its commands have no error handling, and nothing
  else modelled depends on them.
* `test.cpp` (prints library constants), the option accessors of `use-crypt.c` that its `main()` does not
  call, `jailfs.mk` and `mklibs.mk` (included by no makefile), texts and colours of messages.
