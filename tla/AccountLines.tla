---------------------------- MODULE AccountLines -----------------------------
(***************************************************************************)
(* make_jail_etc.c without its I/O: what an option does to the arguments   *)
(* of a run, when they are valid, and which line of passwd, shadow or      *)
(* group a run prints.  Strings are values of small sets; a line is the    *)
(* record of its fields.                                                   *)
(***************************************************************************)
EXTENDS Integers

CONSTANTS
  Name, Home, Shell, Password,  \* arguments of -u, -h, -s, -p
  Id,                           \* numbers that -i may be given
  FileName,                     \* arguments of -o
  NULL                          \* the null pointer (printf prints it as a text of its own)

ASSUME AccountLinesAssumption ==
  /\ Id \subseteq Int
  /\ NULL \notin Name \cup Home \cup Shell \cup Password \cup FileName
  /\ NULL \notin Id \cup {0} \cup [of : Password]

Kind == {"P", "S", "G"}  \* OUTPUT_ETC_PASSWD, _SHADOW, _GROUP; "0" is none of them

RunArguments ==
  [output_kind : Kind \cup {"0"}, output_file_name : FileName \cup {NULL},
   user_and_group_name : Name \cup {NULL}, user_home_dir : Home \cup {NULL},
   user_shell : Shell \cup {NULL}, password : Password \cup {NULL},
   user_group_id : Id \cup {0}]

\* g_run_arguments is static: all zero before the first option (mutated: the
\* number is not).
UnclearedArguments ==
  [output_kind |-> "0", output_file_name |-> NULL, user_and_group_name |-> NULL,
   user_home_dir |-> NULL, user_shell |-> NULL, password |-> NULL,
   user_group_id |-> 1]

NoArguments ==
  [output_kind |-> "0", output_file_name |-> NULL, user_and_group_name |-> NULL,
   user_home_dir |-> NULL, user_shell |-> NULL, password |-> NULL,
   user_group_id |-> 0]

\* The field that each option sets (mutated: two are swapped).
SwappedFieldOf == [o |-> "output_file_name", u |-> "user_and_group_name",
                   h |-> "user_shell", s |-> "user_home_dir", p |-> "password",
                   i |-> "user_group_id"]

FieldOf == [o |-> "output_file_name", u |-> "user_and_group_name",
            h |-> "user_home_dir", s |-> "user_shell", p |-> "password",
            i |-> "user_group_id"]

\* An option that getopt accepts; the argument of -i was read as a number.
Option ==
  [opt : Kind, arg : {NULL}] \cup [opt : {"o"}, arg : FileName]
  \cup [opt : {"u"}, arg : Name] \cup [opt : {"h"}, arg : Home]
  \cup [opt : {"s"}, arg : Shell] \cup [opt : {"p"}, arg : Password]
  \cup [opt : {"i"}, arg : Id]

\* The last option of a kind wins, whatever the order.
SetOption(args, o) ==
  IF o.opt \in Kind THEN [args EXCEPT !.output_kind = o.opt]
                    ELSE [args EXCEPT ![FieldOf[o.opt]] = o.arg]

\* validate_input_args.
Valid(args) ==
  /\ args.output_kind \in Kind
  /\ args.user_and_group_name # NULL
  /\ args.output_kind = "S" => args.password # NULL
  /\ args.output_kind = "P" => args.user_shell # NULL

\* What crypt returns: the hash of a password, or the null pointer.
Hash(password) == [of |-> password]
Crypt(password) == {Hash(password), NULL}

\* The line printed when crypt returned hash, which only shadow's has.  The "/"
\* that is printed after the home directory names the same directory.
PrintedLine(args, hash) ==
  LET name == args.user_and_group_name
      id == args.user_group_id
  IN  CASE args.output_kind = "P" ->
             [kind |-> "P", name |-> name, uid |-> id, gid |-> id,
              home |-> args.user_home_dir, shell |-> args.user_shell]
        [] args.output_kind = "S" -> [kind |-> "S", name |-> name, hash |-> hash]
        [] args.output_kind = "G" -> [kind |-> "G", name |-> name, gid |-> id]

\* The line that the arguments ask for.
Line(args) == PrintedLine(args, Hash(args.password))
=============================================================================
