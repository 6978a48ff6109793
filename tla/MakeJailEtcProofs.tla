--------------------------- MODULE MakeJailEtcProofs --------------------------
(***************************************************************************)
(* Proofs about MakeJailEtc, for every set of arguments: a refused run     *)
(* touches nothing, an undisturbed one prints exactly its line.            *)
(***************************************************************************)
EXTENDS MakeJailEtc, TLAPS

USE AccountLinesAssumption

(***************************************************************************)
(* What is known where: nothing has happened before the validation; after  *)
(* it the arguments are valid, and what crypt returned is what they ask for *)
(* unless it failed; the stream that is used is of an empty file.         *)
(***************************************************************************)
Untouched ==
  /\ pc \in {"parse", "validate", "usage", "failure", "crypt", "open"} =>
       file = before /\ stdout = <<>>
  /\ pc \in {"parse", "validate", "usage", "failure", "crypt"} => failures = {}

Validated == pc \in {"crypt", "open", "reopen", "print", "success"} => Valid(args)

Encrypted ==
  /\ pc = "crypt" => args.output_kind = "S"
  /\ pc \in {"open", "reopen", "print"} =>
       \/ failures = {} /\ (args.output_kind = "S" => password = Hash(args.password))
       \/ failures = {"crypt"} /\ args.output_kind = "S" /\ password = NULL

Emptied ==
  /\ pc \in {"reopen", "print"} => stdout = <<>>
  /\ pc \in {"reopen", "print"} /\ args.output_file_name = NULL => file = before
  /\ pc = "print" /\ args.output_file_name # NULL => file = <<>>
  /\ pc = "reopen" /\ args.output_kind = "G" => file = before
  /\ pc = "reopen" /\ args.output_kind # "G" /\ args.output_file_name # NULL => file = <<>>
  /\ pc = "open" => args.output_kind # "G"

IInv == TypeOK /\ Untouched /\ Validated /\ Encrypted /\ Emptied /\ ExactlyOneLine /\ FailureOutcome

\* An option leaves the arguments well-typed.
LEMMA SetOptionType ==
  ASSUME NEW a \in RunArguments, NEW o \in Option
  PROVE  SetOption(a, o) \in RunArguments
<1> USE DEF RunArguments, SetOption, Kind, FieldOf
<1>1. CASE o \in [opt : Kind, arg : {NULL}]
  BY <1>1
<1>2. CASE o \in [opt : {"o"}, arg : FileName]
  BY <1>2
<1>3. CASE o \in [opt : {"u"}, arg : Name]
  BY <1>3
<1>4. CASE o \in [opt : {"h"}, arg : Home]
  BY <1>4
<1>5. CASE o \in [opt : {"s"}, arg : Shell]
  BY <1>5
<1>6. CASE o \in [opt : {"p"}, arg : Password]
  BY <1>6
<1>7. CASE o \in [opt : {"i"}, arg : Id]
  BY <1>7
<1>. QED  BY <1>1, <1>2, <1>3, <1>4, <1>5, <1>6, <1>7 DEF Option

\* The run begins with no option read.
LEMMA InitInv == Init => IInv
<1> SUFFICES ASSUME Init PROVE IInv
  OBVIOUS
<1>1. args \in RunArguments /\ password \in PossibleHash
  BY DEF Init, NoArguments, RunArguments, PossibleHash
<1>2. TypeOK
  BY <1>1 DEF Init, TypeOK, Running, Ended
<1>3. Untouched /\ Validated /\ Encrypted /\ Emptied /\ ExactlyOneLine /\ FailureOutcome
  BY DEF Init, Untouched, Validated, Encrypted, Emptied, ExactlyOneLine, FailureOutcome
<1>. QED  BY <1>2, <1>3 DEF IInv

\* The types survive a step.
LEMMA TypeStep == IInv /\ [Next]_vars => TypeOK'
<1> SUFFICES ASSUME IInv, [Next]_vars PROVE TypeOK'
  OBVIOUS
<1> USE DEF IInv, TypeOK, Running, Ended
<1>1. CASE ParseInputArgs
  BY <1>1, SetOptionType DEF ParseInputArgs
<1>2. CASE ValidateInputArgs
  <2>1. Valid(args) => pc' \in {"open", "crypt", "reopen"}
    BY <1>2 DEF ValidateInputArgs, FirstCall, Valid, Kind
  <2>. QED  BY <1>2, <2>1 DEF ValidateInputArgs
<1>3. CASE Open
  BY <1>3 DEF Open, GetOutputFileStream
<1>4. CASE Reopen
  BY <1>4 DEF Reopen, GetOutputFileStream
<1>5. CASE PrintLine
  <2>1. /\ pc = "print" /\ pc' = "success" /\ args' = args /\ before' = before
        /\ failures' \in {failures, failures \cup {"print"}}
    BY <1>5 DEF PrintLine
  <2>2. Printed \in PossibleLine /\ password' = password
    BY <1>5, <2>1 DEF PrintLine, Validated, Valid, PossibleLine, Printed
  <2>3. Append(<<>>, Printed) = <<Printed>>
    OBVIOUS
  <2>4. file' \in {file, <<Printed>>} /\ stdout' \in {stdout, <<Printed>>}
    BY <1>5, <2>1, <2>3 DEF PrintLine, Emptied
  <2>. QED  BY <2>1, <2>2, <2>4
<1>6. CASE CallCrypt
  <2>1. Valid(args) /\ args.output_kind = "S"
    BY <1>6 DEF CallCrypt, Validated, Encrypted
  <2>2. args.password \in Password
    BY <2>1 DEF Valid, RunArguments
  <2>3. password' \in PossibleHash
    BY <1>6, <2>2 DEF CallCrypt, Crypt, PossibleHash
  <2>4. failures' \in {failures, failures \cup {"crypt"}}
    BY <1>6 DEF CallCrypt
  <2>. QED  BY <1>6, <2>3, <2>4 DEF CallCrypt
<1>7. CASE UNCHANGED vars
  BY <1>7 DEF vars
<1>. QED  BY <1>1, <1>2, <1>3, <1>4, <1>5, <1>6, <1>7 DEF Next

\* So does what is known where.
LEMMA NextInv == IInv /\ [Next]_vars => IInv'
<1> SUFFICES ASSUME IInv, [Next]_vars PROVE IInv'
  OBVIOUS
<1>0. TypeOK'
  BY TypeStep
<1> USE DEF IInv, Untouched, Validated, Encrypted, Emptied, ExactlyOneLine, FailureOutcome
<1>1. CASE ParseInputArgs
  BY <1>0, <1>1 DEF ParseInputArgs
<1>2. CASE ValidateInputArgs
  <2>1. Valid(args) => /\ args.output_kind = "P" => pc' = "open"
                       /\ args.output_kind = "S" => pc' = "crypt"
                       /\ args.output_kind = "G" => pc' = "reopen"
                       /\ args.output_kind \in {"P", "S", "G"}
    BY <1>2 DEF ValidateInputArgs, FirstCall, Valid, Kind
  <2>2. ~Valid(args) => pc' = "failure"
    BY <1>2 DEF ValidateInputArgs
  <2>. QED  BY <1>0, <1>2, <2>1, <2>2 DEF ValidateInputArgs
<1>3. CASE Open
  BY <1>0, <1>3 DEF Open, GetOutputFileStream
<1>4. CASE Reopen
  BY <1>0, <1>4 DEF Reopen, GetOutputFileStream
<1>5. CASE PrintLine
  <2>1. Append(<<>>, Printed) = <<Printed>>
    OBVIOUS
  <2>2. /\ pc = "print" /\ pc' = "success" /\ args' = args /\ before' = before
        /\ password' = password /\ failures' \in {failures, failures \cup {"print"}}
    BY <1>5 DEF PrintLine
  <2>3. \/ failures = {} /\ Printed = Line(args)
        \/ failures = {"crypt"} /\ Printed = PrintedLine(args, NULL)
    <3>1. args.output_kind \in Kind
      BY <2>2 DEF Valid
    <3>2. args.output_kind # "S" => Printed = Line(args)
      BY <3>1 DEF Printed, Line, PrintedLine, Kind
    <3>. QED  BY <2>2, <3>2 DEF Printed, Line
  <2>4. IF args.output_file_name = NULL
        THEN file' = before /\ stdout' \in {<<>>, <<Printed>>}
        ELSE file' \in {<<>>, <<Printed>>} /\ stdout' = <<>>
    BY <1>5, <2>1, <2>2 DEF PrintLine
  <2>5. failures' = failures =>
          IF args.output_file_name = NULL THEN stdout' = <<Printed>> ELSE file' = <<Printed>>
    BY <1>5, <2>1, <2>2, <2>3 DEF PrintLine
  <2>6. "print" \in failures' => stdout' = <<>> /\ file' = file
    BY <1>5, <2>2, <2>3 DEF PrintLine
  <2>7. ExactlyOneLine'
    BY <2>2, <2>3, <2>4, <2>5
  <2>8. FailureOutcome'
    BY <2>2, <2>3, <2>4, <2>5, <2>6
  <2>. QED  BY <1>0, <2>2, <2>7, <2>8
<1>6. CASE CallCrypt
  <2>1. password' = NULL => failures' = {"crypt"}
    BY <1>6 DEF CallCrypt
  <2>2. password' # NULL => password' = Hash(args.password) /\ failures' = {}
    BY <1>6 DEF CallCrypt, Crypt
  <2>3. Encrypted'
    BY <1>6, <2>1, <2>2 DEF CallCrypt
  <2>. QED  BY <1>0, <1>6, <2>3 DEF CallCrypt
<1>7. CASE UNCHANGED vars
  BY <1>0, <1>7 DEF vars, Printed
<1>. QED  BY <1>1, <1>2, <1>3, <1>4, <1>5, <1>6, <1>7 DEF Next

LEMMA Invariance == Spec => []IInv
BY InitInv, NextInv, PTL DEF Spec

\* The variables keep their types; the output file never holds more than one
\* line.
THEOREM TypeCorrect == Spec => []TypeOK
<1>1. IInv => TypeOK
  BY DEF IInv
<1>. QED  BY <1>1, Invariance, PTL

\* A run that ends at an option or at the validation has touched nothing.
THEOREM Refusal == Spec => []RefusalTouchesNothing
<1>1. IInv => RefusalTouchesNothing
  BY DEF IInv, Untouched, RefusalTouchesNothing
<1>. QED  BY <1>1, Invariance, PTL

\* A run with status 0 in which no call failed has printed its line, and once,
\* in the right place.
THEOREM OneLine == Spec => []ExactlyOneLine
<1>1. IInv => ExactlyOneLine
  BY DEF IInv
<1>. QED  BY <1>1, Invariance, PTL

\* Whichever calls fail, what is left is the old file, an empty one or, when only
\* crypt failed, this run's line with the text of a null pointer for its hash.
THEOREM Failures == Spec => []FailureOutcome
<1>1. IInv => FailureOutcome
  BY DEF IInv
<1>. QED  BY <1>1, Invariance, PTL
=============================================================================
