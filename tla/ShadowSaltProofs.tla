--------------------------- MODULE ShadowSaltProofs ---------------------------
(***************************************************************************)
(* Proofs about ShadowSalt, for all times, all process ids and any number  *)
(* of lines.                                                               *)
(***************************************************************************)
EXTENDS ShadowSalt, TLAPS

USE ShadowSaltAssumption

\* A shift by six bits after another.
LEMMA Shift ==
  ASSUME NEW x \in Int
  PROVE  /\ x \div 4096 = (x \div 64) \div 64
         /\ x \div 262144 = (x \div 4096) \div 64
         /\ x \div 16777216 = (x \div 262144) \div 64
         /\ x \div 1073741824 = (x \div 16777216) \div 64
<1>1. x \div 4096 = (x \div 64) \div 64
  BY SMT
<1>2. x \div 262144 = (x \div 4096) \div 64
  BY SMT
<1>3. x \div 16777216 = (x \div 262144) \div 64
  BY SMT
<1>4. x \div 1073741824 = (x \div 16777216) \div 64
  BY SMT
<1>. QED  BY SMT, <1>1, <1>2, <1>3, <1>4

\* A number is its last six bits and the rest.
LEMMA Split ==
  ASSUME NEW x \in Int
  PROVE  x = 64 * (x \div 64) + (x % 64) /\ x \div 64 \in Int /\ x % 64 \in 0..63
BY SMT

\* The six-bit parts of a number below 2^18, and from there to 2^30.
LowBits(x) == <<x % 64, (x \div 64) % 64, (x \div 4096) % 64>>
HighBits(x) == <<(x \div 262144) % 64, (x \div 16777216) % 64>>
Above18(x) == x \div 262144
Above30(x) == x \div 1073741824

\* Numbers with the same low parts differ by a multiple of 2^18.
LEMMA SameLowBits ==
  ASSUME NEW x \in Int, NEW y \in Int, LowBits(x) = LowBits(y)
  PROVE  x - y = 262144 * (Above18(x) - Above18(y))
<1> USE DEF LowBits, Above18
<1>1. x - y = 64 * ((x \div 64) - (y \div 64))
  BY SMT
<1>2. (x \div 64) - (y \div 64) = 64 * ((x \div 4096) - (y \div 4096))
  BY SMT
<1>3. (x \div 4096) - (y \div 4096) = 64 * ((x \div 262144) - (y \div 262144))
  BY SMT
<1>. QED  BY SMT, <1>1, <1>2, <1>3

LEMMA SameHighBits ==
  ASSUME NEW x \in Int, NEW y \in Int, HighBits(x) = HighBits(y)
  PROVE  Above18(x) - Above18(y) = 4096 * (Above30(x) - Above30(y))
<1> USE DEF HighBits, Above18, Above30
<1>1. (x \div 262144) - (y \div 262144) = 64 * ((x \div 16777216) - (y \div 16777216))
  BY SMT
<1>2. (x \div 16777216) - (y \div 16777216) = 64 * ((x \div 1073741824) - (y \div 1073741824))
  BY SMT
<1>. QED  BY SMT, <1>1, <1>2

LEMMA PartTypes ==
  ASSUME NEW x \in Int
  PROVE  Above18(x) \in Int /\ Above30(x) \in Int
BY SMT DEF Above18, Above30

\* ^ with one number can be undone.
LEMMA XorCancels ==
  ASSUME NEW a \in 0..3, NEW b \in 0..3, NEW c \in 0..3
  PROVE  Xor(a, c) \in 0..3 /\ (Xor(a, c) = Xor(b, c) => a = b)
<1>1. a \in {0, 1, 2, 3} /\ b \in {0, 1, 2, 3} /\ c \in {0, 1, 2, 3}
  BY SMT
<1>. QED  BY SMT, <1>1 DEF Xor

LEMMA DigitType ==
  ASSUME NEW x \in Int, NEW i \in 0..7
  PROVE  Digit(x, i) \in 0..63
<1>1. (i % 5) + 1 \in 1..5
  BY SMT
<1>2. Power[(i % 5) + 1] \in Nat \ {0}
  BY SMT, <1>1 DEF Power
<1>3. \A d \in Nat \ {0} : (x \div d) % 64 \in 0..63
  BY SMT
<1>. QED  BY SMT, <1>2, <1>3 DEF Digit

LEMMA Seed1Type ==
  ASSUME NEW t \in Int, NEW p \in Nat
  PROVE  Seed1(t, p) \in Int
<1>1. (p \div 65536) % 4 \in 0..3 /\ TimeBits(t) \in 0..3
  BY SMT DEF TimeBits
<1>2. Xor((p \div 65536) % 4, TimeBits(t)) \in 0..3
  BY SMT, <1>1, XorCancels
<1>. QED  BY SMT, <1>2 DEF Seed1

\* The six bits each character of the salt shows.
LEMMA SaltDigits ==
  ASSUME NEW t \in Int, NEW p \in Nat
  PROVE  LET s == Salt(t, p)
         IN  /\ LowBits(t) = <<s[0], s[1], s[2]>>
             /\ HighBits(t) = <<s[3], s[4]>>
             /\ LowBits(Seed1(t, p)) = <<s[5], s[6], s[7]>>
<1>1. \A i \in 0..4 : Salt(t, p)[i] = (t \div Power[i + 1]) % 64
  <2>1. \A i \in 0..4 : i \in 0..7 /\ i \div 5 = 0 /\ i % 5 = i
    BY SMT
  <2>. QED  BY SMT, <2>1 DEF Salt, Digit
<1>2. \A i \in 5..7 : Salt(t, p)[i] = (Seed1(t, p) \div Power[i - 4]) % 64
  <2>1. \A i \in 5..7 : i \in 0..7 /\ i \div 5 # 0 /\ (i % 5) + 1 = i - 4
    BY SMT
  <2>. QED  BY SMT, <2>1 DEF Salt, Digit
<1>3. t \div 1 = t /\ Seed1(t, p) \div 1 = Seed1(t, p)
  BY SMT, Seed1Type
<1>. QED  BY SMT, <1>1, <1>2, <1>3 DEF Power, LowBits, HighBits

LEMMA SameDigits ==
  ASSUME NEW t \in Int, NEW p \in Nat, NEW u \in Int, NEW q \in Nat, Salt(t, p) = Salt(u, q)
  PROVE  /\ LowBits(t) = LowBits(u) /\ HighBits(t) = HighBits(u)
         /\ LowBits(Seed1(t, p)) = LowBits(Seed1(u, q))
<1>1. /\ LowBits(t) = <<Salt(t, p)[0], Salt(t, p)[1], Salt(t, p)[2]>>
      /\ HighBits(t) = <<Salt(t, p)[3], Salt(t, p)[4]>>
      /\ LowBits(Seed1(t, p)) = <<Salt(t, p)[5], Salt(t, p)[6], Salt(t, p)[7]>>
  BY SaltDigits
<1>2. /\ LowBits(u) = <<Salt(u, q)[0], Salt(u, q)[1], Salt(u, q)[2]>>
      /\ HighBits(u) = <<Salt(u, q)[3], Salt(u, q)[4]>>
      /\ LowBits(Seed1(u, q)) = <<Salt(u, q)[5], Salt(u, q)[6], Salt(u, q)[7]>>
  BY SaltDigits
<1>. QED  BY <1>1, <1>2

\* Times within 2^30 seconds are told apart by their low thirty bits.
LEMMA SameTime ==
  ASSUME NEW t \in Int, NEW u \in Int, LowBits(t) = LowBits(u), HighBits(t) = HighBits(u),
         t - u < 1073741824, u - t < 1073741824
  PROVE  t = u
<1>1. t - u = 262144 * (Above18(t) - Above18(u))
  BY SMT, SameLowBits
<1>2. Above18(t) - Above18(u) = 4096 * (Above30(t) - Above30(u))
  BY SMT, SameHighBits
<1>3. Above18(t) \in Int /\ Above18(u) \in Int /\ Above30(t) \in Int /\ Above30(u) \in Int
  BY SMT, PartTypes
<1>. QED  BY SMT, <1>1, <1>2, <1>3

Below(n, x) == x \in Int /\ 0 <= x /\ x < n

\* A process id in parts: its bits 16 and 17, those below, and all of these.
Bits16(p) == (p \div 65536) % 4
Low16(p) == p % 65536
Low18(p) == p % 262144

LEMMA PidParts ==
  ASSUME NEW p \in Nat
  PROVE  /\ Bits16(p) \in 0..3 /\ Below(65536, Low16(p))
         /\ Low18(p) = 65536 * Bits16(p) + Low16(p)
BY SMT DEF Bits16, Low16, Low18, Below

\* A remainder, and two digits of one, are determined by the number.
LEMMA OneQuotient ==
  ASSUME NEW a \in Int, NEW b \in Int, NEW k \in Int, NEW m \in Int, NEW x, NEW y,
         Below(262144, x), Below(262144, y),
         (262144 * a + x) - (262144 * b + y) = 262144 * (k - m)
  PROVE  x = y
BY SMT DEF Below

LEMMA OneRemainder ==
  ASSUME NEW x \in 0..3, NEW y \in 0..3, NEW v, NEW w,
         Below(65536, v), Below(65536, w),
         65536 * x + v = 65536 * y + w
  PROVE  x = y /\ v = w
BY SMT DEF Below

LEMMA Seed1Parts ==
  ASSUME NEW t \in Int, NEW p \in Nat
  PROVE  /\ Seed1(t, p) \in Int
         /\ Xor(Bits16(p), TimeBits(t)) \in 0..3
         /\ Seed1(t, p) = 262144 * Above18(p)
                          + (65536 * Xor(Bits16(p), TimeBits(t)) + Low16(p))
<1>1. Bits16(p) \in 0..3 /\ Below(65536, Low16(p))
  BY PidParts
<1>2. TimeBits(t) \in 0..3
  BY SMT DEF TimeBits
<1>3. Xor(Bits16(p), TimeBits(t)) \in 0..3
  BY <1>1, <1>2, XorCancels
<1>4. Seed1(t, p) = 262144 * Above18(p) + 65536 * Xor(Bits16(p), TimeBits(t)) + Low16(p)
  BY DEF Seed1, Above18, Bits16, Low16
<1>5. Above18(p) \in Int
  BY PartTypes
<1>. QED  BY SMT, <1>1, <1>3, <1>4, <1>5 DEF Below

\* With the time, the seed's low 18 bits give back the process id's.
LEMMA SamePid ==
  ASSUME NEW t \in Int, NEW p \in Nat, NEW q \in Nat,
         LowBits(Seed1(t, p)) = LowBits(Seed1(t, q))
  PROVE  Low18(p) = Low18(q)
<1> DEFINE d == Seed1(t, p)
           e == Seed1(t, q)
           v == Xor(Bits16(p), TimeBits(t))
           w == Xor(Bits16(q), TimeBits(t))
           x == 65536 * v + Low16(p)
           y == 65536 * w + Low16(q)
<1>1. d \in Int /\ e \in Int /\ v \in 0..3 /\ w \in 0..3
  BY Seed1Parts
<1>2. Below(65536, Low16(p)) /\ Below(65536, Low16(q))
  BY PidParts
<1>3. d = 262144 * Above18(p) + x /\ e = 262144 * Above18(q) + y
  BY Seed1Parts
<1>4. d - e = 262144 * (Above18(d) - Above18(e))
  BY <1>1, SameLowBits
<1>5. /\ Above18(p) \in Int /\ Above18(q) \in Int
      /\ Above18(d) \in Int /\ Above18(e) \in Int
  BY <1>1, PartTypes
<1> HIDE DEF d, e, v, w
<1>6. Below(262144, x) /\ Below(262144, y)
  BY SMT, <1>1, <1>2 DEF Below
<1> HIDE DEF x, y
<1>7. (262144 * Above18(p) + x) - (262144 * Above18(q) + y) = 262144 * (Above18(d) - Above18(e))
  BY <1>3, <1>4
<1>8. x = y
  BY SMT, <1>5, <1>6, <1>7, OneQuotient
<1>9. v = w /\ Low16(p) = Low16(q)
  BY SMT, <1>1, <1>2, <1>8, OneRemainder DEF x, y
<1>10. Bits16(p) = Bits16(q)
  <2>1. Bits16(p) \in 0..3 /\ Bits16(q) \in 0..3 /\ TimeBits(t) \in 0..3
    BY SMT, PidParts DEF TimeBits
  <2>. QED  BY <1>9, <2>1, XorCancels DEF v, w
<1>. QED  BY <1>9, <1>10, PidParts

\* The salt gives back the time, within 2^30 seconds, and then the process id's
\* last 18 bits.
LEMMA SaltTells ==
  ASSUME NEW t \in Int, NEW p \in Nat, NEW u \in Int, NEW q \in Nat,
         Salt(t, p) = Salt(u, q), t - u < 1073741824, u - t < 1073741824
  PROVE  t = u /\ p % 262144 = q % 262144
<1>1. t = u
  BY SMT, SameDigits, SameTime
<1>2. Low18(p) = Low18(q)
  BY SMT, <1>1, SameDigits, SamePid
<1>. QED  BY <1>1, <1>2 DEF Low18

-----------------------------------------------------------------------------
\* Every line's salt is that of its time and process.
SaltOfLine == \A l \in lines : l.salt = Salt(l.time, l.pid)

SInv == TypeOK /\ SaltOfLine

LEMMA SaltType ==
  ASSUME NEW t \in Int, NEW p \in Nat
  PROVE  Salt(t, p) \in [0..7 -> 0..63]
<1>1. \A i \in 0..7 : Digit(IF i \div 5 = 0 THEN t ELSE Seed1(t, p), i) \in 0..63
  BY Seed1Type, DigitType
<1>. QED  BY <1>1 DEF Salt

LEMMA LineInv ==
  ASSUME SInv, NEW p \in Pid, NEW n \in Word, NEW w \in Word, Line(p, n, w)
  PROVE  SInv'
<1> DEFINE l == [time |-> now, pid |-> p, name |-> n, password |-> w, salt |-> Salt(now, p)]
<1>1. l \in [time : Time, pid : Pid, name : Word, password : Word, salt : [0..7 -> 0..63]]
  BY SaltType DEF SInv, TypeOK
<1>2. lines' = lines \cup {l} /\ now' = now /\ used' = used \cup {p}
  BY DEF Line
<1>3. l.time = now /\ l.pid = p /\ l.salt = Salt(now, p)
  OBVIOUS
<1> HIDE DEF l
<1>4. TypeOK'
  BY <1>1, <1>2 DEF SInv, TypeOK
<1>5. SaltOfLine'
  BY <1>2, <1>3 DEF SInv, SaltOfLine
<1>. QED  BY <1>4, <1>5 DEF SInv

LEMMA Invariance == Spec => []SInv
<1>1. Init => SInv
  BY DEF Init, SInv, TypeOK, SaltOfLine
<1>2. SInv /\ [Next]_vars => SInv'
  <2> SUFFICES ASSUME SInv, [Next]_vars PROVE SInv'
    OBVIOUS
  <2>1. CASE Tick
    BY <2>1 DEF Tick, SInv, TypeOK, SaltOfLine
  <2>2. CASE \E p \in Pid : GenerateEtcShadow(p) \/ UseCrypt(p)
    BY <2>2, LineInv DEF GenerateEtcShadow, UseCrypt
  <2>3. CASE UNCHANGED vars
    BY <2>3 DEF vars, SInv, TypeOK, SaltOfLine
  <2>. QED  BY <2>1, <2>2, <2>3 DEF Next
<1>. QED  BY <1>1, <1>2, PTL DEF Spec

\* Every character of a salt is one of the 64 (make_jail_etc.c:246): the index
\* stays inside seedchars for every time and process id.
THEOREM TypeCorrect == Spec => []TypeOK
BY Invariance, PTL DEF SInv

\* Whatever the clock shows and however it is set, two lines made within 2^30
\* seconds share a salt only if they were made in one second by processes whose
\* ids agree in 18 bits.
THEOREM DifferentSalts == Spec => []SaltsDiffer
<1>1. SInv => SaltsDiffer
  <2> SUFFICES ASSUME SInv, NEW a \in lines, NEW b \in lines, Near(a, b), a.salt = b.salt
               PROVE  a.time = b.time /\ a.pid % 262144 = b.pid % 262144
    BY DEF SaltsDiffer
  <2>1. /\ a.time \in Int /\ b.time \in Int /\ a.pid \in Nat /\ b.pid \in Nat
    BY DEF SInv, TypeOK
  <2>2. Salt(a.time, a.pid) = Salt(b.time, b.pid)
    BY DEF SInv, SaltOfLine
  <2>. QED  BY SMT, <2>1, <2>2, SaltTells DEF Near
<1>. QED  BY Invariance, <1>1, PTL
===============================================================================
