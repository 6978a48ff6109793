---------------------------- MODULE MCChrootShell ----------------------------
(***************************************************************************)
(* Small instances of ChrootShell for TLC.                                 *)
(***************************************************************************)
EXTENDS ChrootShell

CONSTANTS fred, ann, h1, h2, j1, j2

\* The lines of the host's file, with a shell that is not the one called, or
\* that has no slash.
HostLines == [uid : {1}, dir : {j1}, shell : {"chrootshell", "sh", "bare"}]

Inner(u, h) == [uid |-> u, dir |-> h, shell |-> "sh"]
View(e, lines, dirs, progs) ==
  [exists |-> e, passwd |-> [u \in User |-> lines], dirs |-> dirs, progs |-> progs]

\* Two jails in order, one without the other's home; one without the user's line,
\* the home or the shell; none.
JailViews ==
  {View(TRUE, Inner(1, h1), {h1}, {"sh"}),
   View(TRUE, Inner(1, h2), {h2, h1}, {"sh"}),
   View(TRUE, None, {h1}, {"sh"}),
   View(TRUE, Inner(1, h1), {}, {"sh"}),
   View(TRUE, Inner(1, h1), {h1}, {}),
   View(FALSE, None, {}, {})}

\* Interactive, one command, a command that is missing, other arguments.
Args == {<<1, FALSE>>, <<2, TRUE>>, <<3, TRUE>>, <<3, FALSE>>, <<4, TRUE>>}
Good == [user |-> fred, logname |-> fred, uid |-> 1,
         argv0 |-> [dash |-> TRUE, name |-> "chrootshell"], argc |-> 1, dashc |-> FALSE]
Calls ==
  {[Good EXCEPT !.user = u, !.logname = l] : u \in {fred, None}, l \in {None, fred, ann}}
  \cup
  {[Good EXCEPT !.argv0 = n, !.argc = a[1], !.dashc = a[2]] :
     n \in [dash : BOOLEAN, name : {"chrootshell", "other"}], a \in Args}

\* Two users, two jails with different homes: the lines and the jails may be
\* exchanged while a login is under way.  LOGNAME takes a slot of its own.
PairLines == {[uid |-> 1, dir |-> j1, shell |-> "chrootshell"],
              [uid |-> 2, dir |-> j2, shell |-> "chrootshell"]}
PairViews == {View(TRUE, Inner(1, h1), {h1, h2}, {"sh"}),
              View(TRUE, Inner(2, h2), {h2}, {"sh"})}
PairCalls == {c \in {[Good EXCEPT !.user = u, !.logname = l] :
                       u \in {fred, ann}, l \in {fred, ann, None}} :
                c.logname \in {c.user, None}}

\* The caller's real id is not always the one of the line.
OtherCallers == {[c EXCEPT !.uid = x] : c \in PairCalls, x \in {1, 2}}
=============================================================================
