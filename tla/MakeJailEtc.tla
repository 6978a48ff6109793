----------------------------- MODULE MakeJailEtc -----------------------------
(***************************************************************************)
(* make_jail_etc.c: one run of the generator, from its first option to its *)
(* exit status.  The output file is opened twice for a line of passwd or   *)
(* shadow, each time truncated, and no result of writing is tested.        *)
(***************************************************************************)
EXTENDS AccountLines, Sequences

CONSTANT Old  \* a line that the output file held before

VARIABLES
  pc,       \* where main() is
  args,     \* g_run_arguments
  file,     \* the lines of the file that -o names, or NULL when there is none
  password, \* what crypt returned
  stdout,   \* the lines printed on the standard output
  before,   \* file when the run began (history)
  failures  \* calls of crypt and fopen, and writes, that failed (history)

vars == <<pc, args, password, file, stdout, before, failures>>

Running == {"parse", "validate", "crypt", "open", "reopen", "print"}
Ended == {"usage", "failure", "success", "crashed"}  \* usage and success exit with 0

PossibleHash == {Hash(w) : w \in Password} \cup {NULL}
PossibleLine ==
  {PrintedLine(a, h) : a \in {r \in RunArguments : r.output_kind \in Kind}, h \in PossibleHash}

TypeOK ==
  /\ pc \in Running \cup Ended
  /\ args \in RunArguments /\ password \in PossibleHash
  /\ file \in {NULL, <<>>, <<Old>>} \cup {<<l>> : l \in PossibleLine}
  /\ stdout \in {<<>>} \cup {<<l>> : l \in PossibleLine}
  /\ before \in {NULL, <<>>, <<Old>>}
  /\ failures \subseteq {"crypt", "open", "reopen", "print"}

Init ==
  /\ pc = "parse" /\ args = NoArguments /\ password = NULL
  /\ file \in {NULL, <<>>, <<Old>>} /\ before = file
  /\ stdout = <<>> /\ failures = {}

-----------------------------------------------------------------------------
\* One option: it sets an argument, ends the run, or is an error (an unknown
\* option, a missing argument, no number after -i).  Mutated: -o opens the file.
ParseAndOpen ==
  /\ pc = "parse"
  /\ \/ \E o \in Option : /\ args' = SetOption(args, o) /\ UNCHANGED pc
                          /\ file' = IF o.opt = "o" THEN <<>> ELSE file
     \/ pc' \in {"usage", "failure", "validate"} /\ UNCHANGED <<args, file>>
  /\ UNCHANGED <<password, stdout, before, failures>>

ParseInputArgs ==
  /\ pc = "parse"
  /\ \/ \E o \in Option : args' = SetOption(args, o) /\ UNCHANGED pc
     \/ pc' \in {"usage", "failure", "validate"} /\ UNCHANGED args
  /\ UNCHANGED <<password, file, stdout, before, failures>>

\* Where each generator begins: generate_etc_group has no first call of
\* get_output_file_stream.
FirstCall == [P |-> "open", S |-> "crypt", G |-> "reopen"]

ValidateInputArgs ==
  /\ pc = "validate"
  /\ pc' = IF ~Valid(args) THEN "failure"
           ELSE FirstCall[args.output_kind]
  /\ UNCHANGED <<args, password, file, stdout, before, failures>>

\* The null pointer is kept like a hash: nobody tests it.
CallCrypt ==
  /\ pc = "crypt" /\ pc' = "open"
  /\ password' \in Crypt(args.password)
  /\ failures' = IF password' = NULL THEN failures \cup {"crypt"} ELSE failures
  /\ UNCHANGED <<args, file, stdout, before>>

\* get_output_file_stream: the standard output, or the file, emptied by mode
\* "w+"; fopen may fail, and then next is not reached (mutated: mode "a+").
AppendStream(ok, failed) ==
  /\ \/ pc' = ok /\ file' = (IF args.output_file_name = NULL \/ file # NULL THEN file ELSE <<>>)
        /\ UNCHANGED failures
     \/ args.output_file_name # NULL /\ pc' = failed /\ failures' = failures \cup {pc}
        /\ UNCHANGED file
  /\ UNCHANGED <<args, password, stdout, before>>

GetOutputFileStream(ok, failed) ==
  /\ \/ pc' = ok /\ file' = (IF args.output_file_name = NULL THEN file ELSE <<>>)
        /\ UNCHANGED failures
     \/ args.output_file_name # NULL /\ pc' = failed /\ failures' = failures \cup {pc}
        /\ UNCHANGED file
  /\ UNCHANGED <<args, password, stdout, before>>

\* The stream that is tested: when it is NULL, the generator returns -1, which
\* main() ignores.
Open == pc = "open" /\ GetOutputFileStream("reopen", "success")

\* The stream that is used: fprintf on NULL crashes.
Reopen == pc = "reopen" /\ GetOutputFileStream("print", "crashed")

Printed == PrintedLine(args, password)

\* The line leaves its buffer when the program exits; nobody looks whether it did.
PrintLine ==
  /\ pc = "print" /\ pc' = "success"
  /\ \/ /\ \/ args.output_file_name = NULL /\ stdout' = Append(stdout, Printed) /\ UNCHANGED file
           \/ args.output_file_name # NULL /\ file' = Append(file, Printed) /\ UNCHANGED stdout
        /\ UNCHANGED failures
     \/ failures' = failures \cup {"print"} /\ UNCHANGED <<file, stdout>>
  /\ UNCHANGED <<args, password, before>>

Next == ParseInputArgs \/ ValidateInputArgs \/ CallCrypt \/ Open \/ Reopen \/ PrintLine

Spec == Init /\ [][Next]_vars

-----------------------------------------------------------------------------
(***************************************************************************)
(* Safety                                                                  *)
(***************************************************************************)

\* A run that is refused, at an option (parse_input_args) or by the validation
\* (validate_input_args), has left the output file as it was, although the
\* same run would have emptied it: nothing is opened before everything is known.
RefusalTouchesNothing ==
  pc \in {"usage", "failure"} => file = before /\ stdout = <<>>

\* When no call fails, a run that ends with status 0 has printed the one line
\* its options ask for, and in one place: opening the file twice neither doubles
\* the line nor keeps an older one.
ExactlyOneLine ==
  pc = "success" /\ failures = {} =>
    IF args.output_file_name = NULL THEN file = before /\ stdout = <<Line(args)>>
                                    ELSE file = <<Line(args)>> /\ stdout = <<>>

\* What failed calls leave.  When the first fopen fails, the old file, old lines
\* included, and status 0 (lines 216, 358); when the second does, an empty file,
\* but for group, which has no first one (lines 209, 255, 275); when the line
\* is not written, an empty file and status 0; and when only crypt fails (line
\* 249), status 0 and the line, with the text of a null pointer for its hash.
FailureOutcome ==
  /\ pc = "crashed" => /\ failures \ {"crypt"} = {"reopen"} /\ stdout = <<>>
                       /\ file = IF args.output_kind = "G" THEN before ELSE <<>>
  /\ pc = "success" /\ "open" \in failures => file = before /\ stdout = <<>>
  /\ pc = "success" /\ "print" \in failures =>
       /\ stdout = <<>>
       /\ file = IF args.output_file_name = NULL THEN before ELSE <<>>
  /\ pc = "success" /\ failures = {"crypt"} =>
       IF args.output_file_name = NULL
       THEN file = before /\ stdout = <<PrintedLine(args, NULL)>>
       ELSE file = <<PrintedLine(args, NULL)>> /\ stdout = <<>>
=============================================================================
