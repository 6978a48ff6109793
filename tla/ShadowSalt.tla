------------------------------ MODULE ShadowSalt -----------------------------
(***************************************************************************)
(* The salts of shadow lines: make_jail_etc -S and use-crypt draw eight    *)
(* characters of 64 from the time in seconds and the process id.  The      *)
(* programs are run at any time, many in one second.  A character stands   *)
(* for its place in seedchars, whose 64 characters all differ; division    *)
(* and remainder of a negative time (time() failed) are those of unsigned  *)
(* long, of which the bits below 2^32 are used.                            *)
(***************************************************************************)
EXTENDS Integers, FiniteSets

CONSTANTS
  Time,     \* what time(NULL) may return
  Pid,      \* process ids
  Word,     \* arguments: names and passwords
  MaxLines  \* bound: lines made

ASSUME ShadowSaltAssumption == Time \subseteq Int /\ Pid \subseteq Nat /\ MaxLines \in Nat

VARIABLES
  now,   \* the clock; it may be set back
  used,  \* the process ids given out in this second
  lines  \* the lines made: when, by which process, and what they say

vars == <<now, used, lines>>

Power == <<1, 64, 4096, 262144, 16777216>>

\* ^ on two bits.
Xor(a, b) == 2 * (((a \div 2) + (b \div 2)) % 2) + ((a + b) % 2)

\* seed[0] is the time; seed[1] the process id, with bits 30 and 31 of the
\* time put over its bits 16 and 17.
TimeBits(t) == (t \div 1073741824) % 4
Seed1(t, p) ==
  262144 * (p \div 262144) + 65536 * Xor((p \div 65536) % 4, TimeBits(t)) + (p % 65536)

\* The character i of the salt: six bits of seed[i / 5] (mutated: five bits, or
\* seven).
FiveBits(seed, i) == (seed \div Power[(i % 5) + 1]) % 32
SevenBits(seed, i) == (seed \div Power[(i % 5) + 1]) % 128
Digit(seed, i) == (seed \div Power[(i % 5) + 1]) % 64

Salt(t, p) == [i \in 0..7 |-> Digit(IF i \div 5 = 0 THEN t ELSE Seed1(t, p), i)]

TypeOK ==
  /\ now \in Time
  /\ used \subseteq Pid
  /\ lines \subseteq [time : Time, pid : Pid, name : Word, password : Word, salt : [0..7 -> 0..63]]

Init == now \in Time /\ used = {} /\ lines = {}

\* The clock moves, by any amount and either way.
Tick == now' \in Time \ {now} /\ used' = {} /\ UNCHANGED lines

\* A process makes its line.  The kernel gives no process id twice in a second.
Line(p, name, password) ==
  /\ p \notin used /\ Cardinality(lines) < MaxLines
  /\ used' = used \cup {p}
  /\ lines' = lines \cup {[time |-> now, pid |-> p, name |-> name, password |-> password,
                           salt |-> Salt(now, p)]}
  /\ UNCHANGED now

GenerateEtcShadow(p) == \E n, w \in Word : Line(p, n, w)

\* use-crypt takes a name and a password, and prints the latter as the name;
\* called with less or more, it ends without a line.
UseCrypt(p) == \E w \in Word : Line(p, w, w)

Next == Tick \/ \E p \in Pid : GenerateEtcShadow(p) \/ UseCrypt(p)

Spec == Init /\ [][Next]_vars

-----------------------------------------------------------------------------
(***************************************************************************)
(* Safety                                                                  *)
(***************************************************************************)

\* Lines made within 2^30 seconds (34 years) of each other have different
\* salts, so that equal passwords do not show, unless they were made in one
\* second by processes whose ids agree in their last 18 bits: the shifts of
\* make_jail_etc.c:242 and 246 drop no bit of the time below 2^30, and mix
\* the rest into the process id without loss.
Near(a, b) == a.time - b.time < 1073741824 /\ b.time - a.time < 1073741824

SaltsDiffer ==
  \A a, b \in lines :
    Near(a, b) /\ a.salt = b.salt => a.time = b.time /\ a.pid % 262144 = b.pid % 262144
=============================================================================
