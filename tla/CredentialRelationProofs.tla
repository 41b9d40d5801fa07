----------------------- MODULE CredentialRelationProofs -----------------------
(***************************************************************************)
(* What the credential relations guarantee, for every prime field whose    *)
(* seventh power is invertible, every word size that fits it, any number   *)
(* of rounds, every workload and every witness.                            *)
(*                                                                         *)
(* First the gadgets: each leaves a prover no value but the native one.    *)
(* Then the order of the builder's calls and what each call's rows say.    *)
(* The invariant puts these together call by call: which wires there are,  *)
(* what the rows so far say of whatever satisfies them, and what the       *)
(* builder's own witness, mutated or not, has done to them.                *)
(***************************************************************************)
EXTENDS CredentialRelation, FiniteSums, SequenceTheorems, TLAPS

-------------------------------------------------------------------------------
(* Arithmetic of the field *)

\* The remainder of a division by a positive number.
LEMMA ModIs ==
  ASSUME NEW n \in Nat \ {0}, NEW a \in Int, 0 <= a, a < n
  PROVE  a % n = a
OBVIOUS

\* Adding the divisor does not change the remainder.
LEMMA ModShift ==
  ASSUME NEW n \in Nat \ {0}, NEW a \in Int, 0 <= a, a < n
  PROVE  (a + n) % n = a /\ (a - n) % n = a
OBVIOUS

\* A quotient is known by the remainder it leaves.
LEMMA QuotientIs ==
  ASSUME NEW n \in Nat \ {0}, NEW q \in Int, NEW r \in 0 .. n - 1
  PROVE  (r + n * q) \div n = q
OBVIOUS

\* Sums, differences and products of field elements are field elements.
LEMMA FieldOps ==
  ASSUME NEW x \in Field, NEW y \in Field
  PROVE  Plus(x, y) \in Field /\ Minus(x, y) \in Field /\ Times(x, y) \in Field
BY FieldAssumption DEF Field, Plus, Minus, Times

\* A sum wraps at P.
LEMMA PlusIs ==
  ASSUME NEW x \in Field, NEW y \in Field
  PROVE  Plus(x, y) = IF x + y < P THEN x + y ELSE x + y - P
BY FieldAssumption DEF Field, Plus

\* A difference wraps at 0.
LEMMA MinusIs ==
  ASSUME NEW x \in Field, NEW y \in Field
  PROVE  Minus(x, y) = IF x >= y THEN x - y ELSE x - y + P
BY FieldAssumption DEF Field, Minus

\* Multiplication by 0 and by 1.
LEMMA TimesUnit ==
  ASSUME NEW x \in Field
  PROVE  Times(0, x) = 0 /\ Times(1, x) = x /\ Times(x, 0) = 0
BY FieldAssumption DEF Field, Times

-------------------------------------------------------------------------------
(* Powers of two *)

\* The recursion of TwoTo.
PowersOfTwo(p, n) == p = [i \in 0 .. n |-> IF i = 0 THEN 1 ELSE 2 * p[i - 1]]

\* The recursion of TwoTo runs through the powers of two.
LEMMA TwoToRun ==
  ASSUME NEW n \in Nat
  PROVE  \E p \in [0 .. n -> Nat] :
           p[0] = 1 /\ (\A i \in 1 .. n : p[i] = 2 * p[i - 1]) /\ TwoTo(n) = p[n]
<1> DEFINE step == [t \in (1 .. n) \X Nat |-> 2 * t[2]]
           p == CHOOSE q : PowersOfTwo(q, n)
<1>1. step \in [(1 .. n) \X Nat -> Nat]
  OBVIOUS
<1>2. \E q : PowersOfTwo(q, n)
  <2>1. PICK f \in [0 .. n -> Nat] : IsRun(f, n, 1, step)
    <3> HIDE DEF step
    <3>. QED
      BY <1>1, RunExists
  <2>2. \A i \in 0 .. n : i # 0 => i - 1 \in 0 .. n /\ step[<<i, f[i - 1]>>] = 2 * f[i - 1]
    OBVIOUS
  <2> HIDE DEF step
  <2>3. PowersOfTwo(f, n)
    BY <2>1, <2>2 DEF PowersOfTwo, IsRun
  <2>. QED
    BY <2>3
<1>3. PowersOfTwo(p, n)
  BY <1>2, Zenon
<1>4. TwoTo(n) = p[n]
  BY DEF TwoTo, PowersOfTwo
<1> HIDE DEF p
<1>5. p[0] = 1 /\ \A i \in 1 .. n : p[i] = 2 * p[i - 1]
  BY <1>3 DEF PowersOfTwo
<1>6. \A i \in 0 .. n : p[i] \in Nat
  <2>1. Staying(p, n, Nat)
    BY <1>5 DEF Staying
  <2>. QED
    BY <2>1, RunStays
<1>7. p = [i \in 0 .. n |-> p[i]]
  BY <1>3 DEF PowersOfTwo
<1>. QED
  BY <1>4, <1>5, <1>6, <1>7

\* The powers of two double from one to the next, and grow.
LEMMA TwoToPowers ==
  /\ TwoTo(0) = 1
  /\ \A n \in Nat : TwoTo(n) \in Nat \ {0} /\ TwoTo(n + 1) = 2 * TwoTo(n)
<1>1. TwoTo(0) = 1
  BY TwoToRun
<1>2. ASSUME NEW n \in Nat
      PROVE  TwoTo(n) \in Nat \ {0} /\ TwoTo(n + 1) = 2 * TwoTo(n)
  <2>1. PICK p \in [0 .. n -> Nat] :
          p[0] = 1 /\ (\A i \in 1 .. n : p[i] = 2 * p[i - 1]) /\ TwoTo(n) = p[n]
    BY TwoToRun
  <2>. n + 1 \in Nat
    OBVIOUS
  <2>2. PICK q \in [0 .. n + 1 -> Nat] :
          q[0] = 1 /\ (\A i \in 1 .. n + 1 : q[i] = 2 * q[i - 1]) /\ TwoTo(n + 1) = q[n + 1]
    BY TwoToRun, Zenon
  <2>3. \A i \in 0 .. n : p[i] = q[i]
    <3>1. InStep(p, q, n)
      BY <2>1, <2>2 DEF InStep
    <3>. QED
      BY ONLY n \in Nat, <3>1, RunsAgree
  <2>4. \A i \in 0 .. n : p[i] \in Nat \ {0}
    <3>1. Staying(p, n, Nat \ {0})
      <4> SUFFICES ASSUME NEW i \in 1 .. n, p[i - 1] \in Nat \ {0} PROVE p[i] \in Nat \ {0}
        BY <2>1 DEF Staying
      <4>1. p[i] = 2 * p[i - 1]
        BY <2>1
      <4>. QED
        BY <4>1
    <3>. QED
      BY <3>1, RunStays, Zenon
  <2>5. n \in 0 .. n /\ n + 1 \in 1 .. n + 1 /\ (n + 1) - 1 = n
    OBVIOUS
  <2>6. q[n + 1] = 2 * q[n]
    BY <2>2, <2>5
  <2>. QED
    BY <2>1, <2>2, <2>3, <2>4, <2>5, <2>6
<1>. QED
  BY <1>1, <1>2

\* Powers of two do not shrink.
LEMMA TwoToGrows ==
  ASSUME NEW n \in Nat, NEW i \in 0 .. n
  PROVE  TwoTo(i) <= TwoTo(n)
<1> DEFINE S == {k \in 0 .. n - i : TwoTo(i) <= TwoTo(i + k)}
<1>1. n - i \in Nat /\ i \in Nat
  OBVIOUS
<1>2. 0 \in S
  BY <1>1, TwoToPowers
<1>3. \A k \in 0 .. (n - i) - 1 : k \in S => k + 1 \in S
  <2> SUFFICES ASSUME NEW k \in 0 .. (n - i) - 1, TwoTo(i) <= TwoTo(i + k)
               PROVE  TwoTo(i) <= TwoTo(i + (k + 1)) /\ k + 1 \in 0 .. n - i
    OBVIOUS
  <2>1. i + k \in Nat /\ i + (k + 1) = (i + k) + 1
    OBVIOUS
  <2>2. TwoTo(i + k) \in Nat \ {0} /\ TwoTo((i + k) + 1) = 2 * TwoTo(i + k) /\ TwoTo(i) \in Nat
    BY <1>1, <2>1, TwoToPowers
  <2>. QED
    BY <2>1, <2>2
<1>4. \A k \in 0 .. n - i : k \in S
  <2> HIDE DEF S
  <2>. QED
    BY <1>1, <1>2, <1>3, InductionUpTo
<1>5. n - i \in 0 .. n - i /\ i + (n - i) = n
  OBVIOUS
<1>. QED
  BY <1>4, <1>5

-------------------------------------------------------------------------------
(* Words and their bits *)

\* Halving a quotient by a power of two gives the quotient by the next one.
LEMMA HalvedQuotient ==
  ASSUME NEW v \in Nat, NEW i \in Nat
  PROVE  /\ v \div TwoTo(i) \in Nat
         /\ v - TwoTo(i) * (v \div TwoTo(i)) \in 0 .. TwoTo(i) - 1
         /\ (v \div TwoTo(i)) \div 2 = v \div TwoTo(i + 1)
<1> DEFINE n == TwoTo(i)
           q == v \div n
           h == q \div 2
           b == q % 2
           r == v - n * q
<1>1. n \in Nat \ {0} /\ TwoTo(i + 1) = 2 * n
  BY TwoToPowers
<1> HIDE DEF n
<1>2. q \in Nat /\ r \in 0 .. n - 1
  BY <1>1
<1> HIDE DEF q
<1>3. h \in Nat /\ b \in 0 .. 1 /\ q = 2 * h + b
  BY <1>2
<1> HIDE DEF h, b
<1>4. v = (r + n * b) + (2 * n) * h
  <2>1. n * q = n * b + (2 * n) * h
    BY <1>1, <1>2, <1>3
  <2>2. n * q \in Int /\ n * b \in Int /\ (2 * n) * h \in Int
    BY <1>1, <1>2, <1>3
  <2>. QED
    BY <2>1, <2>2
<1>5. r + n * b \in 0 .. 2 * n - 1
  <2>1. n * b = 0 \/ n * b = n
    BY <1>1, <1>3
  <2> HIDE DEF r
  <2>. QED
    BY <1>1, <1>2, <2>1
<1>6. v \div (2 * n) = h
  <2> HIDE DEF r
  <2> DEFINE m == 2 * n
             a == r + n * b
  <2>1. m \in Nat \ {0} /\ a \in 0 .. m - 1 /\ h \in Int /\ v = a + m * h
    BY <1>1, <1>3, <1>4, <1>5
  <2> HIDE DEF m, a
  <2>2. v \div m = h
    BY <2>1, QuotientIs
  <2>. QED
    BY <2>2 DEF m
<1>. QED
  BY <1>1, <1>2, <1>6 DEF n, q, h

\* The powers of two of the bits of a word are field elements.
LEMMA PowersInField ==
  \A i \in 0 .. W : TwoTo(i) \in Field /\ TwoTo(i) \in Nat \ {0} /\ 2 * TwoTo(i) <= P
<1> SUFFICES ASSUME NEW i \in 0 .. W
             PROVE  TwoTo(i) \in Field /\ TwoTo(i) \in Nat \ {0} /\ 2 * TwoTo(i) <= P
  OBVIOUS
<1>1. W \in Nat /\ i \in Nat
  BY FieldAssumption
<1>2. TwoTo(i) <= TwoTo(W) /\ TwoTo(i) \in Nat \ {0} /\ TwoTo(W) \in Nat
  BY <1>1, TwoToGrows, TwoToPowers
<1>. QED
  BY <1>2, FieldAssumption DEF Field, WordSize

\* The partial sums of a packing.
Sums(s, bits) ==
  s = [i \in 0 .. W |-> IF i = 0 THEN 0 ELSE Plus(s[i - 1], Times(bits[i - 1], TwoTo(i - 1)))]

\* Packed is the last of the sums of weighted bits.
LEMMA PackedRun ==
  ASSUME NEW bits \in [0 .. W - 1 -> Field]
  PROVE  \E s \in [0 .. W -> Field] : Sums(s, bits) /\ Packed(bits) = s[W]
<1> DEFINE step == [t \in (1 .. W) \X Field |-> Plus(t[2], Times(bits[t[1] - 1], TwoTo(t[1] - 1)))]
           s == CHOOSE q : Sums(q, bits)
<1>1. W \in Nat /\ 0 \in Field
  BY FieldAssumption DEF Field
<1>2. \A i \in 1 .. W, x \in Field :
        step[<<i, x>>] = Plus(x, Times(bits[i - 1], TwoTo(i - 1))) /\ step[<<i, x>>] \in Field
  <2> SUFFICES ASSUME NEW i \in 1 .. W, NEW x \in Field
               PROVE  /\ step[<<i, x>>] = Plus(x, Times(bits[i - 1], TwoTo(i - 1)))
                      /\ step[<<i, x>>] \in Field
    OBVIOUS
  <2>1. i - 1 \in 0 .. W - 1 /\ i - 1 \in 0 .. W
    BY <1>1
  <2>2. bits[i - 1] \in Field /\ TwoTo(i - 1) \in Field
    BY <2>1, PowersInField
  <2>3. Plus(x, Times(bits[i - 1], TwoTo(i - 1))) \in Field
    BY <2>2, FieldOps
  <2>. QED
    BY <2>3
<1>3. step \in [(1 .. W) \X Field -> Field]
  <2>1. \A t \in (1 .. W) \X Field : t[1] \in 1 .. W /\ t[2] \in Field /\ t = <<t[1], t[2]>>
    OBVIOUS
  <2>2. \A t \in (1 .. W) \X Field : step[t] \in Field
    BY <1>2, <2>1
  <2>3. step = [t \in (1 .. W) \X Field |-> step[t]]
    OBVIOUS
  <2> HIDE DEF step
  <2>. QED
    BY <2>2, <2>3
<1> HIDE DEF step
<1>4. PICK f \in [0 .. W -> Field] : IsRun(f, W, 0, step)
  BY <1>1, <1>3, RunExists
<1>5. Sums(f, bits)
  <2>1. \A i \in 0 .. W : i # 0 => i - 1 \in 0 .. W /\ i \in 1 .. W
    BY <1>1
  <2>2. \A i \in 0 .. W : i # 0 =>
          step[<<i, f[i - 1]>>] = Plus(f[i - 1], Times(bits[i - 1], TwoTo(i - 1)))
    BY <1>2, <2>1
  <2>. QED
    BY <1>4, <2>2 DEF Sums, IsRun
<1>6. Sums(s, bits)
  BY <1>5, Zenon
<1>7. Packed(bits) = s[W]
  BY DEF Packed, Sums
<1> HIDE DEF s
<1>8. \A i \in 0 .. W : f[i] = s[i]
  <2>1. InStep(f, s, W)
    BY <1>1, <1>5, <1>6 DEF InStep, Sums
  <2>. QED
    BY <1>1, <2>1, RunsAgree
<1>9. s = [i \in 0 .. W |-> s[i]]
  BY <1>6 DEF Sums
<1>. QED
  BY <1>6, <1>7, <1>8, <1>9

\* What the partial sums of bits are: they do not wrap.
LEMMA SumsOfBits ==
  ASSUME NEW bits \in [0 .. W - 1 -> {0, 1}], NEW s \in [0 .. W -> Field], Sums(s, bits)
  PROVE  /\ \A i \in 0 .. W : s[i] \in 0 .. TwoTo(i) - 1
         /\ s[0] = 0
         /\ \A i \in 1 .. W : s[i] = s[i - 1] + (IF bits[i - 1] = 1 THEN TwoTo(i - 1) ELSE 0)
<1>1. W \in Nat /\ TwoTo(0) = 1
  BY FieldAssumption, TwoToPowers
<1>2. s[0] = 0 /\ \A i \in 1 .. W : s[i] = Plus(s[i - 1], Times(bits[i - 1], TwoTo(i - 1)))
  BY <1>1 DEF Sums
<1>3. ASSUME NEW i \in 1 .. W, s[i - 1] \in 0 .. TwoTo(i - 1) - 1
      PROVE  /\ s[i] = s[i - 1] + (IF bits[i - 1] = 1 THEN TwoTo(i - 1) ELSE 0)
             /\ s[i] \in 0 .. TwoTo(i) - 1
  <2>1. i - 1 \in 0 .. W - 1 /\ i - 1 \in Nat /\ (i - 1) + 1 = i /\ i \in 0 .. W /\ i - 1 \in 0 .. W
    BY <1>1
  <2>2. /\ TwoTo(i) = 2 * TwoTo(i - 1) /\ TwoTo(i - 1) \in Field /\ TwoTo(i - 1) \in Nat
        /\ 2 * TwoTo(i) <= P /\ P \in Nat
    BY <2>1, PowersInField, TwoToPowers, FieldAssumption
  <2>3. bits[i - 1] \in {0, 1}
    BY <2>1
  <2>4. Times(bits[i - 1], TwoTo(i - 1)) = IF bits[i - 1] = 1 THEN TwoTo(i - 1) ELSE 0
    BY <2>2, <2>3, TimesUnit
  <2>5. s[i - 1] \in Field /\ 0 \in Field
    BY <2>1, FieldAssumption DEF Field
  <2> DEFINE x == s[i - 1]
             y == IF bits[i - 1] = 1 THEN TwoTo(i - 1) ELSE 0
  <2>6. s[i] = Plus(x, y) /\ x \in Field /\ y \in Field /\ y \in 0 .. TwoTo(i - 1)
    BY <1>2, <2>2, <2>4, <2>5
  <2>7. x + y < P /\ x + y \in 0 .. TwoTo(i) - 1
    <3> HIDE DEF y
    <3>. QED
      BY <1>3, <2>2, <2>6
  <2>8. s[i] = x + y
    <3> HIDE DEF x, y
    <3>. QED
      BY <2>6, <2>7, PlusIs
  <2>. QED
    BY <2>7, <2>8
<1>4. \A i \in 0 .. W : s[i] \in 0 .. TwoTo(i) - 1
  <2> DEFINE S == {i \in 0 .. W : s[i] \in 0 .. TwoTo(i) - 1}
  <2>1. 0 \in S
    BY <1>1, <1>2
  <2>2. \A i \in 0 .. W - 1 : i \in S => i + 1 \in S
    <3> SUFFICES ASSUME NEW i \in 0 .. W - 1, s[i] \in 0 .. TwoTo(i) - 1 PROVE i + 1 \in S
      OBVIOUS
    <3>1. i + 1 \in 1 .. W /\ i + 1 \in 0 .. W /\ (i + 1) - 1 = i
      BY <1>1
    <3>2. s[(i + 1) - 1] \in 0 .. TwoTo((i + 1) - 1) - 1
      BY <3>1
    <3>3. s[i + 1] \in 0 .. TwoTo(i + 1) - 1
      BY <1>3, <3>1, <3>2
    <3>. QED
      BY <3>1, <3>3
  <2> HIDE DEF S
  <2>3. \A i \in 0 .. W : i \in S
    BY <1>1, <2>1, <2>2, InductionUpTo
  <2>. QED
    BY <2>3 DEF S
<1>5. \A i \in 1 .. W : s[i - 1] \in 0 .. TwoTo(i - 1) - 1
  <2>1. \A i \in 1 .. W : i - 1 \in 0 .. W
    BY <1>1
  <2>. QED
    BY <1>4, <2>1
<1>. QED
  BY <1>2, <1>3, <1>4, <1>5

\* The builder's bits of a number are bits, and their sums approach it from below.
LEMMA BuiltBitsAre ==
  ASSUME NEW v \in Nat
  PROVE  /\ BuiltBits(v) \in [0 .. W - 1 -> {0, 1}]
         /\ \A i \in 0 .. W - 1 :
              v \div TwoTo(i) = 2 * (v \div TwoTo(i + 1)) + BuiltBits(v)[i]
<1>1. \A i \in 0 .. W - 1 : /\ BuiltBits(v)[i] = (v \div TwoTo(i)) % 2
                            /\ v \div TwoTo(i) \in Nat
                            /\ (v \div TwoTo(i)) \div 2 = v \div TwoTo(i + 1)
  <2>1. \A i \in 0 .. W - 1 : BuiltBits(v)[i] = (v \div TwoTo(i)) % 2
    BY DEF BuiltBits
  <2>2. \A i \in 0 .. W - 1 : i \in Nat
    BY FieldAssumption
  <2>. QED
    BY <2>1, <2>2, HalvedQuotient
<1>2. ASSUME NEW q \in Nat PROVE q % 2 \in {0, 1} /\ q = 2 * (q \div 2) + (q % 2)
  OBVIOUS
<1>3. BuiltBits(v) \in [0 .. W - 1 -> {0, 1}]
  <2>1. BuiltBits(v) = [i \in 0 .. W - 1 |-> BuiltBits(v)[i]]
    BY DEF BuiltBits
  <2>. QED
    BY <1>1, <1>2, <2>1
<1>. QED
  BY <1>1, <1>2, <1>3

\* A bit wire holds a bit: the field has no divisors of zero.
LEMMA BitRowIs ==
  ASSUME NEW bit \in Field
  PROVE  BitRow(bit) <=> bit \in {0, 1}
<1>1. 0 \in Field /\ 1 \in Field
  BY FieldAssumption DEF Field
<1>2. Minus(1, bit) \in Field /\ (Minus(1, bit) = 0 <=> bit = 1)
  <2>1. Minus(1, bit) = IF 1 >= bit THEN 1 - bit ELSE 1 - bit + P
    BY <1>1, MinusIs
  <2>2. Minus(1, bit) \in Field
    BY <1>1, FieldOps
  <2>3. P \in Nat /\ bit \in Nat /\ bit < P
    BY FieldAssumption DEF Field
  <2>. QED
    BY <2>1, <2>2, <2>3
<1>3. bit = 0 \/ Minus(1, bit) = 0 => BitRow(bit)
  BY <1>1, <1>2, TimesUnit DEF BitRow
<1>4. BitRow(bit) => bit = 0 \/ Minus(1, bit) = 0
  BY <1>2, NoZeroDivisors DEF BitRow, Times
<1>. QED
  BY <1>2, <1>3, <1>4

\* The bits of a word pack to it.
LEMMA BuiltDecompose ==
  ASSUME NEW v \in Word
  PROVE  DecomposeRows(BuiltBits(v), v)
<1> DEFINE bits == BuiltBits(v)
<1>1. W \in Nat /\ v \in Nat /\ TwoTo(0) = 1 /\ WordSize \in Nat /\ v < WordSize
  BY FieldAssumption, TwoToPowers DEF Word, WordSize
<1>2. /\ bits \in [0 .. W - 1 -> {0, 1}]
      /\ \A i \in 0 .. W - 1 : v \div TwoTo(i) = 2 * (v \div TwoTo(i + 1)) + bits[i]
  BY <1>1, BuiltBitsAre
<1> HIDE DEF bits
<1>3. {0, 1} \subseteq Field
  BY FieldAssumption DEF Field
<1>4. bits \in [0 .. W - 1 -> Field]
  BY <1>2, <1>3
<1>5. PICK s \in [0 .. W -> Field] : Sums(s, bits) /\ Packed(bits) = s[W]
  BY <1>4, PackedRun
<1>6. /\ s[0] = 0
      /\ \A i \in 1 .. W : s[i] = s[i - 1] + (IF bits[i - 1] = 1 THEN TwoTo(i - 1) ELSE 0)
      /\ \A i \in 0 .. W : s[i] \in 0 .. TwoTo(i) - 1
  BY <1>2, <1>5, SumsOfBits
<1> DEFINE S == {i \in 0 .. W : v = s[i] + TwoTo(i) * (v \div TwoTo(i))}
<1>7. 0 \in S
  <2>1. v \div 1 = v
    BY <1>1
  <2>. QED
    BY <1>1, <1>6, <2>1
<1>8. \A i \in 0 .. W - 1 : i \in S => i + 1 \in S
  <2> SUFFICES ASSUME NEW i \in 0 .. W - 1, v = s[i] + TwoTo(i) * (v \div TwoTo(i)) PROVE i + 1 \in S
    OBVIOUS
  <2>1. i \in Nat /\ i + 1 \in 1 .. W /\ i + 1 \in 0 .. W /\ (i + 1) - 1 = i /\ i \in 0 .. W
    BY <1>1
  <2> DEFINE n == TwoTo(i)
             q == v \div n
             h == v \div TwoTo(i + 1)
             b == bits[i]
             y == IF b = 1 THEN n ELSE 0
  <2>2. n \in Nat \ {0} /\ TwoTo(i + 1) = 2 * n /\ q \in Nat /\ q = 2 * h + b /\ b \in {0, 1} /\ h \in Int
    BY <1>1, <1>2, <2>1, TwoToPowers, HalvedQuotient
  <2>3. s[i + 1] = s[i] + y
    BY <1>6, <2>1
  <2>4. s[i] \in Int
    BY <1>6, <2>1, <2>2
  <2>5. v = s[i] + n * q
    OBVIOUS
  <2> HIDE DEF n, q, h, b
  <2>6. y = n * b
    BY <2>2
  <2>7. n * q = n * b + (2 * n) * h /\ n * b \in Int /\ (2 * n) * h \in Int
    BY <2>2
  <2> HIDE DEF y
  <2>8. v = s[i + 1] + (2 * n) * h
    BY <2>3, <2>4, <2>5, <2>6, <2>7
  <2>. QED
    BY <2>1, <2>2, <2>8 DEF h
<1>9. W \in S
  <2> HIDE DEF S
  <2>1. \A i \in 0 .. W : i \in S
    BY <1>1, <1>7, <1>8, InductionUpTo
  <2>. QED
    BY <1>1, <2>1
<1>10. v \div TwoTo(W) = 0
  <2> DEFINE n == TwoTo(W)
  <2>1. n \in Nat \ {0} /\ v \in 0 .. n - 1
    BY <1>1, TwoToPowers DEF WordSize
  <2> HIDE DEF n
  <2>2. v \div n = 0
    BY <2>1
  <2>. QED
    BY <2>2 DEF n
<1>11. s[W] = v
  BY <1>1, <1>6, <1>9, <1>10, TwoToPowers
<1>12. \A i \in 0 .. W - 1 : BitRow(bits[i])
  BY <1>2, <1>4, BitRowIs
<1>. QED
  BY <1>5, <1>11, <1>12 DEF DecomposeRows, bits

\* Bits that pack to the same number are the same bits.
LEMMA PackingUnique ==
  ASSUME NEW a \in [0 .. W - 1 -> {0, 1}], NEW b \in [0 .. W - 1 -> {0, 1}], Packed(a) = Packed(b)
  PROVE  a = b
<1>1. W \in Nat /\ {0, 1} \subseteq Field
  BY FieldAssumption DEF Field
<1>2. a \in [0 .. W - 1 -> Field] /\ b \in [0 .. W - 1 -> Field]
  BY <1>1
<1>3. PICK s \in [0 .. W -> Field] : Sums(s, a) /\ Packed(a) = s[W]
  BY <1>2, PackedRun
<1>4. PICK t \in [0 .. W -> Field] : Sums(t, b) /\ Packed(b) = t[W]
  BY <1>2, PackedRun
<1>5. /\ \A i \in 0 .. W : s[i] \in 0 .. TwoTo(i) - 1 /\ t[i] \in 0 .. TwoTo(i) - 1
      /\ \A i \in 1 .. W : /\ s[i] = s[i - 1] + (IF a[i - 1] = 1 THEN TwoTo(i - 1) ELSE 0)
                           /\ t[i] = t[i - 1] + (IF b[i - 1] = 1 THEN TwoTo(i - 1) ELSE 0)
  BY <1>3, <1>4, SumsOfBits
<1>6. ASSUME NEW i \in 1 .. W, s[i] = t[i]
      PROVE  s[i - 1] = t[i - 1] /\ a[i - 1] = b[i - 1]
  <2>1. i - 1 \in 0 .. W /\ i - 1 \in 0 .. W - 1 /\ i - 1 \in Nat
    BY <1>1
  <2>0. TwoTo(i - 1) \in Nat
    BY <2>1, TwoToPowers
  <2> DEFINE n == TwoTo(i - 1)
             x == s[i - 1]
             y == t[i - 1]
             c == a[i - 1]
             d == b[i - 1]
  <2>2. /\ x + (IF c = 1 THEN n ELSE 0) = y + (IF d = 1 THEN n ELSE 0)
        /\ x \in 0 .. n - 1 /\ y \in 0 .. n - 1 /\ c \in {0, 1} /\ d \in {0, 1} /\ n \in Nat
    BY <1>5, <1>6, <2>0, <2>1
  <2> HIDE DEF n, x, y, c, d
  <2>3. x = y /\ c = d
    BY <2>2
  <2>. QED
    BY <2>3 DEF x, y, c, d
<1> DEFINE S == {j \in 0 .. W : s[W - j] = t[W - j]}
<1>7. 0 \in S
  <2>1. s[W] = t[W]
    BY <1>3, <1>4, Zenon
  <2>2. W - 0 = W /\ 0 \in 0 .. W
    BY <1>1
  <2>. QED
    BY <2>1, <2>2
<1>8. \A j \in 0 .. W - 1 : j \in S => j + 1 \in S
  <2> SUFFICES ASSUME NEW j \in 0 .. W - 1, s[W - j] = t[W - j] PROVE j + 1 \in S
    OBVIOUS
  <2>1. W - j \in 1 .. W /\ (W - j) - 1 = W - (j + 1) /\ j + 1 \in 0 .. W
    BY <1>1
  <2>. QED
    BY <1>6, <2>1
<1>9. \A j \in 0 .. W : j \in S
  <2> HIDE DEF S
  <2>. QED
    BY <1>1, <1>7, <1>8, InductionUpTo
<1>10. \A i \in 0 .. W - 1 : a[i] = b[i]
  <2> SUFFICES ASSUME NEW i \in 0 .. W - 1 PROVE a[i] = b[i]
    OBVIOUS
  <2>1. i + 1 \in 1 .. W /\ (i + 1) - 1 = i /\ W - (i + 1) \in 0 .. W /\ W - (W - (i + 1)) = i + 1
    BY <1>1
  <2>2. s[i + 1] = t[i + 1]
    BY <1>9, <2>1
  <2>3. a[(i + 1) - 1] = b[(i + 1) - 1]
    BY <1>6, <2>1, <2>2
  <2>. QED
    BY <2>1, <2>3
<1>11. a = [i \in 0 .. W - 1 |-> a[i]] /\ b = [i \in 0 .. W - 1 |-> b[i]]
  OBVIOUS
<1>. QED
  BY <1>10, <1>11

\* Bit wires that satisfy the rows of decompose_u32 hold the bits of the source,
\* and the source is a word.
THEOREM DecomposeSound ==
  ASSUME NEW source \in Field, NEW bits \in [0 .. W - 1 -> Field], DecomposeRows(bits, source)
  PROVE  source \in Word /\ bits = BuiltBits(source)
<1>1. W \in Nat /\ W \in 0 .. W
  BY FieldAssumption
<1>2. bits \in [0 .. W - 1 -> {0, 1}]
  <2>1. \A i \in 0 .. W - 1 : bits[i] \in {0, 1}
    BY BitRowIs DEF DecomposeRows
  <2>. QED
    BY <2>1
<1>3. PICK s \in [0 .. W -> Field] : Sums(s, bits) /\ Packed(bits) = s[W]
  BY PackedRun
<1>4. source = s[W] /\ s[W] \in 0 .. TwoTo(W) - 1
  BY <1>1, <1>2, <1>3, SumsOfBits DEF DecomposeRows
<1>5. source \in Word /\ source \in Nat
  BY <1>4 DEF Word, WordSize
<1>6. Packed(BuiltBits(source)) = Packed(bits)
  BY <1>5, BuiltDecompose DEF DecomposeRows
<1>7. BuiltBits(source) \in [0 .. W - 1 -> {0, 1}]
  BY <1>5, BuiltBitsAre
<1>. QED
  BY <1>2, <1>5, <1>6, <1>7, PackingUnique

\* So decompose_u32 leaves a prover no choice.
LEMMA DecompositionsAre ==
  ASSUME NEW source \in Field
  PROVE  Decompositions[source] = IF source \in Word THEN {BuiltBits(source)} ELSE {}
<1>1. \A bits \in Decompositions[source] :
        bits \in [0 .. W - 1 -> Field] /\ DecomposeRows(bits, source)
  BY DEF Decompositions
<1>2. \A bits \in [0 .. W - 1 -> Field] :
        DecomposeRows(bits, source) => bits \in Decompositions[source]
  BY DEF Decompositions
<1>3. \A bits \in Decompositions[source] : source \in Word /\ bits = BuiltBits(source)
  BY <1>1, DecomposeSound
<1>4. source \in Word => BuiltBits(source) \in Decompositions[source]
  <2> SUFFICES ASSUME source \in Word PROVE BuiltBits(source) \in Decompositions[source]
    OBVIOUS
  <2>1. source \in Nat /\ {0, 1} \subseteq Field
    BY FieldAssumption DEF Field
  <2>2. BuiltBits(source) \in [0 .. W - 1 -> {0, 1}]
    BY <2>1, BuiltBitsAre
  <2>3. BuiltBits(source) \in [0 .. W - 1 -> Field]
    BY <2>1, <2>2
  <2>. QED
    BY <1>2, <2>3, BuiltDecompose
<1>. QED
  BY <1>3, <1>4

\* The bits of a word from d upwards are zero exactly if it is below 2 ^ d.
LEMMA HighBitsZero ==
  ASSUME NEW v \in Word, NEW d \in 0 .. W
  PROVE  (\A l \in d .. W - 1 : BuiltBits(v)[l] = 0) <=> v < TwoTo(d)
<1>1. W \in Nat /\ v \in Nat /\ d \in Nat /\ WordSize \in Nat /\ v < WordSize
  BY FieldAssumption, TwoToPowers DEF Word, WordSize
<1>2. /\ BuiltBits(v) \in [0 .. W - 1 -> {0, 1}]
      /\ \A i \in 0 .. W - 1 :
           v \div TwoTo(i) = 2 * (v \div TwoTo(i + 1)) + BuiltBits(v)[i]
  BY <1>1, BuiltBitsAre
<1>3. ASSUME NEW i \in Nat PROVE v < TwoTo(i) <=> v \div TwoTo(i) = 0
  <2> DEFINE n == TwoTo(i)
  <2>1. n \in Nat \ {0}
    BY TwoToPowers
  <2> HIDE DEF n
  <2>2. v < n <=> v \div n = 0
    <3>1. v < n => v \div n = 0
      BY <1>1, <2>1
    <3>2. v \div n = 0 => v < n
      BY <1>1, <2>1
    <3>. QED
      BY <3>1, <3>2
  <2>. QED
    BY <2>2 DEF n
<1>4. ASSUME v < TwoTo(d) PROVE \A l \in d .. W - 1 : BuiltBits(v)[l] = 0
  <2> SUFFICES ASSUME NEW l \in d .. W - 1 PROVE BuiltBits(v)[l] = 0
    OBVIOUS
  <2>1. l \in Nat /\ d \in 0 .. l /\ l \in 0 .. W - 1
    BY <1>1
  <2>2. TwoTo(d) <= TwoTo(l) /\ TwoTo(d) \in Nat /\ TwoTo(l) \in Nat
    BY <1>1, <2>1, TwoToGrows, TwoToPowers
  <2>3. v \div TwoTo(l) = 0
    BY <1>1, <1>3, <1>4, <2>1, <2>2
  <2>4. BuiltBits(v)[l] \in {0, 1}
    BY <1>2, <2>1
  <2>5. v \div TwoTo(l + 1) \in Nat
    <3>1. l + 1 \in Nat
      BY <2>1
    <3>. QED
      BY <1>1, <3>1, HalvedQuotient
  <2>. QED
    BY <1>2, <2>1, <2>3, <2>4, <2>5
<1>5. ASSUME \A l \in d .. W - 1 : BuiltBits(v)[l] = 0 PROVE v < TwoTo(d)
  <2> DEFINE S == {j \in 0 .. W - d : v \div TwoTo(W - j) = 0}
  <2>1. W - d \in Nat
    BY <1>1
  <2>2. 0 \in S
    BY <1>1, <1>3, <2>1 DEF WordSize
  <2>3. \A j \in 0 .. (W - d) - 1 : j \in S => j + 1 \in S
    <3> SUFFICES ASSUME NEW j \in 0 .. (W - d) - 1, v \div TwoTo(W - j) = 0 PROVE j + 1 \in S
      OBVIOUS
    <3> DEFINE i == W - (j + 1)
    <3>1. i \in d .. W - 1 /\ i \in 0 .. W - 1 /\ i + 1 = W - j /\ j + 1 \in 0 .. W - d
      BY <1>1
    <3>2. v \div TwoTo(i) = 0
      BY <1>2, <1>5, <3>1
    <3>. QED
      BY <3>1, <3>2
  <2>4. \A j \in 0 .. W - d : j \in S
    <3> HIDE DEF S
    <3>. QED
      BY <2>1, <2>2, <2>3, InductionUpTo
  <2>5. W - d \in 0 .. W - d /\ W - (W - d) = d
    BY <1>1
  <2>6. v \div TwoTo(d) = 0
    BY <2>4, <2>5
  <2>. QED
    BY <1>1, <1>3, <2>6
<1>. QED
  BY <1>4, <1>5

\* The comparison's rows can be satisfied exactly when the words compare as
\* integers: a difference that wraps is not a word.
THEOREM LessEqualOpenIs ==
  ASSUME NEW left \in Field, NEW right \in Field
  PROVE  LessEqualOpen(left, right) <=> left \in Word /\ right \in Word /\ left <= right
<1>1. P \in Nat /\ WordSize \in Nat /\ 2 * WordSize <= P
  BY FieldAssumption, TwoToPowers DEF WordSize
<1>2. \A x \in Field : Decompositions[x] # {} <=> x \in Word
  BY DecompositionsAre
<1>3. \A d \in Field : DifferenceRow(left, right, d)
                         <=> left = IF right >= d THEN right - d ELSE right - d + P
  BY MinusIs DEF DifferenceRow
<1>4. ASSUME LessEqualOpen(left, right) PROVE left \in Word /\ right \in Word /\ left <= right
  <2>1. left \in Word /\ right \in Word
    BY <1>2, <1>4 DEF LessEqualOpen
  <2>2. PICK d \in Field : d \in Word /\ DifferenceRow(left, right, d)
    BY <1>2, <1>4 DEF LessEqualOpen
  <2>3. left = IF right >= d THEN right - d ELSE right - d + P
    BY <1>3, <2>2
  <2>. QED
    BY <1>1, <2>1, <2>2, <2>3 DEF Word
<1>5. ASSUME left \in Word, right \in Word, left <= right PROVE LessEqualOpen(left, right)
  <2> DEFINE d == right - left
  <2>1. d \in Field /\ d \in Word /\ right >= d /\ left = right - d
    BY <1>1, <1>5 DEF Field, Word
  <2> HIDE DEF d
  <2>2. DifferenceRow(left, right, d)
    BY <1>3, <2>1
  <2>. QED
    BY <1>2, <1>5, <2>1, <2>2 DEF LessEqualOpen
<1>. QED
  BY <1>4, <1>5

\* The builder's witness satisfies them in the same cases.
LEMMA LessEqualBuiltIs ==
  ASSUME NEW left \in Field, NEW right \in Field
  PROVE  LessEqualBuilt(left, right) <=> left \in Word /\ right \in Word /\ left <= right
<1>1. P \in Nat /\ WordSize \in Nat /\ 2 * WordSize <= P
  BY FieldAssumption, TwoToPowers DEF WordSize
<1> DEFINE d == IF right >= left THEN right - left ELSE 0
<1>2. d \in Field
  BY <1>1 DEF Field
<1>3. DifferenceRow(left, right, d) <=> left = IF right >= d THEN right - d ELSE right - d + P
  BY <1>2, MinusIs DEF DifferenceRow
<1>4. LessEqualBuilt(left, right) <=>
        /\ DecomposeRows(BuiltBits(left), left)
        /\ DecomposeRows(BuiltBits(right), right)
        /\ DecomposeRows(BuiltBits(d), d)
        /\ DifferenceRow(left, right, d)
  BY DEF LessEqualBuilt
<1>5. \A x \in Field : DecomposeRows(BuiltBits(x), x) <=> x \in Word
  <2>1. \A x \in Field : BuiltBits(x) \in [0 .. W - 1 -> Field]
    <3>1. \A x \in Field : x \in Nat
      BY DEF Field
    <3>2. {0, 1} \subseteq Field
      BY FieldAssumption DEF Field
    <3>3. \A x \in Field : BuiltBits(x) \in [0 .. W - 1 -> {0, 1}]
      BY <3>1, BuiltBitsAre
    <3>. QED
      BY <3>2, <3>3
  <2>. QED
    BY <2>1, DecomposeSound, BuiltDecompose
<1>6. LessEqualBuilt(left, right) <=>
        left \in Word /\ right \in Word /\ d \in Word /\ DifferenceRow(left, right, d)
  BY <1>2, <1>4, <1>5
<1>7. DifferenceRow(left, right, d) <=> right >= left
  BY <1>1, <1>2, <1>3 DEF Field
<1>8. left \in Word /\ right \in Word => d \in Word
  BY <1>1 DEF Word
<1>. QED
  <2>1. right >= left <=> left <= right
    BY <1>1 DEF Field
  <2>. QED
    BY <1>6, <1>7, <1>8, <2>1

-------------------------------------------------------------------------------
(* Hashing *)

\* The four product rows of a round leave one value.
LEMMA RoundOutputsAre ==
  ASSUME NEW x \in Field
  PROVE  Seventh(x) \in Field /\ RoundOutputs[x] = {Seventh(x)}
<1> DEFINE x2 == Times(x, x)
           x4 == Times(x2, x2)
           x6 == Times(x4, x2)
           x7 == Times(x6, x)
<1>1. x2 \in Field /\ x4 \in Field /\ x6 \in Field /\ x7 \in Field
  BY FieldOps
<1>2. Seventh(x) = x7
  BY DEF Seventh
<1>3. RoundOutputs[x] = {o \in Field : \E y2, y4, y6 \in Field : RoundRows(x, y2, y4, y6, o)}
  BY DEF RoundOutputs
<1>4. RoundRows(x, x2, x4, x6, x7)
  BY DEF RoundRows
<1>5. \A o, y2, y4, y6 \in Field : RoundRows(x, y2, y4, y6, o) => o = x7
  BY DEF RoundRows
<1> HIDE DEF x2, x4, x6, x7
<1>. QED
  BY <1>1, <1>2, <1>3, <1>4, <1>5

\* The rounds of a permutation.
Permuting(v, state, key) ==
  v = [r \in 0 .. Rounds |->
         IF r = 0 THEN state ELSE Seventh(Plus(Plus(v[r - 1], key), RoundConstant[r - 1]))]

\* One round.
Round(r, x, key) == Seventh(Plus(Plus(x, key), RoundConstant[r - 1]))

\* A round takes a field element to a field element.
LEMMA RoundTyped ==
  ASSUME NEW r \in 1 .. Rounds, NEW x \in Field, NEW key \in Field
  PROVE  Plus(Plus(x, key), RoundConstant[r - 1]) \in Field /\ Round(r, x, key) \in Field
<1>1. RoundConstant[r - 1] \in Field
  BY RoundAssumption
<1>2. Plus(Plus(x, key), RoundConstant[r - 1]) \in Field
  BY <1>1, FieldOps
<1>. QED
  BY <1>2, RoundOutputsAre DEF Round

\* The native permutation is the last of the rounds' values.
LEMMA NativePermuteRun ==
  ASSUME NEW state \in Field, NEW key \in Field
  PROVE  \E v \in [0 .. Rounds -> Field] :
           /\ v[0] = state
           /\ \A r \in 1 .. Rounds : v[r] = Round(r, v[r - 1], key)
           /\ NativePermute[state][key] = Plus(v[Rounds], key)
<1> DEFINE step == [t \in (1 .. Rounds) \X Field |-> Round(t[1], t[2], key)]
           v == CHOOSE u : Permuting(u, state, key)
<1>1. Rounds \in Nat
  BY RoundAssumption
<1>2. \A r \in 1 .. Rounds, x \in Field : step[<<r, x>>] = Round(r, x, key)
  OBVIOUS
<1>3. step \in [(1 .. Rounds) \X Field -> Field]
  BY RoundTyped
<1> HIDE DEF step
<1>4. PICK f \in [0 .. Rounds -> Field] : IsRun(f, Rounds, state, step)
  BY <1>1, <1>3, RunExists
<1>5. Permuting(f, state, key)
  <2>1. \A r \in 0 .. Rounds : r # 0 => r - 1 \in 0 .. Rounds /\ r \in 1 .. Rounds
    BY <1>1
  <2>2. \A r \in 0 .. Rounds : r # 0 =>
          step[<<r, f[r - 1]>>] = Seventh(Plus(Plus(f[r - 1], key), RoundConstant[r - 1]))
    BY <1>2, <2>1 DEF Round
  <2>. QED
    BY <1>4, <2>2 DEF Permuting, IsRun
<1>6. Permuting(v, state, key)
  BY <1>5, Zenon
<1>7. NativePermute[state][key] = Plus(v[Rounds], key)
  BY DEF NativePermute, Permuting
<1> HIDE DEF v
<1>8. v[0] = state /\ \A r \in 1 .. Rounds : v[r] = Round(r, v[r - 1], key)
  BY <1>1, <1>6 DEF Permuting, Round
<1>9. \A r \in 0 .. Rounds : v[r] \in Field
  <2>1. Staying(v, Rounds, Field)
    BY <1>8, RoundTyped DEF Staying
  <2>. QED
    BY <1>1, <2>1, RunStays
<1>10. v = [r \in 0 .. Rounds |-> v[r]]
  BY <1>6 DEF Permuting
<1>. QED
  BY <1>7, <1>8, <1>9, <1>10

\* The permutation of a field element is a field element.
LEMMA NativePermuteTyped ==
  ASSUME NEW state \in Field, NEW key \in Field
  PROVE  NativePermute[state][key] \in Field
<1>1. PICK v \in [0 .. Rounds -> Field] : NativePermute[state][key] = Plus(v[Rounds], key)
  BY NativePermuteRun
<1>2. v[Rounds] \in Field
  BY RoundAssumption
<1>. QED
  BY <1>1, <1>2, FieldOps

\* The sets of values after the rounds of the circuit.
Spreading(v, state, key) ==
  v = [r \in 0 .. Rounds |->
         IF r = 0 THEN {state}
         ELSE UNION {RoundOutputs[Plus(Plus(x, key), RoundConstant[r - 1])] : x \in v[r - 1]}]

\* The circuit's permutation leaves a prover the native value only.
LEMMA CircuitPermuteIs ==
  ASSUME NEW state \in Field, NEW key \in Field
  PROVE  CircuitPermute[state][key] = {NativePermute[state][key]}
<1>1. Rounds \in Nat /\ \A r \in 0 .. Rounds : r # 0 => r - 1 \in 0 .. Rounds /\ r \in 1 .. Rounds
  BY RoundAssumption
<1>2. PICK v \in [0 .. Rounds -> Field] :
           /\ v[0] = state
           /\ \A r \in 1 .. Rounds : v[r] = Round(r, v[r - 1], key)
           /\ NativePermute[state][key] = Plus(v[Rounds], key)
  BY NativePermuteRun
<1> DEFINE g == [r \in 0 .. Rounds |-> {v[r]}]
           s == CHOOSE u : Spreading(u, state, key)
<1>3. \A r \in 1 .. Rounds, x \in Field :
        UNION {RoundOutputs[Plus(Plus(y, key), RoundConstant[r - 1])] : y \in {x}} = {Round(r, x, key)}
  <2> SUFFICES ASSUME NEW r \in 1 .. Rounds, NEW x \in Field
               PROVE  UNION {RoundOutputs[Plus(Plus(y, key), RoundConstant[r - 1])] : y \in {x}}
                        = {Round(r, x, key)}
    OBVIOUS
  <2>1. RoundOutputs[Plus(Plus(x, key), RoundConstant[r - 1])] = {Round(r, x, key)}
    BY RoundTyped, RoundOutputsAre DEF Round
  <2>. QED
    BY <2>1
<1>4. Spreading(g, state, key)
  <2>1. \A r \in 0 .. Rounds :
          g[r] = IF r = 0 THEN {state}
                 ELSE UNION {RoundOutputs[Plus(Plus(x, key), RoundConstant[r - 1])] : x \in g[r - 1]}
    <3> SUFFICES ASSUME NEW r \in 0 .. Rounds
                 PROVE  g[r] = IF r = 0 THEN {state}
                               ELSE UNION {RoundOutputs[Plus(Plus(x, key), RoundConstant[r - 1])] :
                                             x \in g[r - 1]}
      OBVIOUS
    <3>1. CASE r = 0
      BY <1>2, <3>1
    <3>2. CASE r # 0
      <4>1. g[r - 1] = {v[r - 1]} /\ v[r - 1] \in Field /\ g[r] = {Round(r, v[r - 1], key)}
        BY <1>1, <1>2, <3>2
      <4> HIDE DEF g
      <4>. QED
        BY <1>1, <1>3, <3>2, <4>1
    <3>. QED
      BY <3>1, <3>2
  <2>2. g = [r \in 0 .. Rounds |-> g[r]]
    OBVIOUS
  <2> HIDE DEF g
  <2>. QED
    BY <2>1, <2>2 DEF Spreading
<1>5. Spreading(s, state, key)
  BY <1>4, Zenon
<1>6. CircuitPermute[state][key] = {Plus(x, key) : x \in s[Rounds]}
  BY DEF CircuitPermute, Spreading
<1> HIDE DEF s
<1>7. \A r \in 0 .. Rounds : s[r] = g[r]
  <2> HIDE DEF g
  <2>1. InStep(s, g, Rounds)
    <3>1. s[0] = g[0]
      BY <1>1, <1>4, <1>5 DEF Spreading
    <3>2. ASSUME NEW r \in 1 .. Rounds, s[r - 1] = g[r - 1] PROVE s[r] = g[r]
      <4>1. r \in 0 .. Rounds /\ r # 0
        BY <1>1
      <4>2. s[r] = UNION {RoundOutputs[Plus(Plus(x, key), RoundConstant[r - 1])] : x \in s[r - 1]}
        BY <1>5, <4>1 DEF Spreading
      <4>3. g[r] = UNION {RoundOutputs[Plus(Plus(x, key), RoundConstant[r - 1])] : x \in g[r - 1]}
        BY <1>4, <4>1 DEF Spreading
      <4>. QED
        BY <3>2, <4>2, <4>3
    <3>. QED
      BY <3>1, <3>2 DEF InStep
  <2>. QED
    BY <1>1, <2>1, RunsAgree
<1>8. s[Rounds] = {v[Rounds]}
  BY <1>1, <1>7
<1>. QED
  BY <1>2, <1>6, <1>8

\* One block goes into the state of a hash.
Absorb(x, block, key) == NativePermute[Plus(x, block)][key]

\* So does absorbing a block.
LEMMA AbsorbTyped ==
  ASSUME NEW x \in Field, NEW block \in Field, NEW key \in Field
  PROVE  Plus(x, block) \in Field /\ Absorb(x, block, key) \in Field
BY FieldOps, NativePermuteTyped DEF Absorb

\* The states of a hash.
Absorbing(v, blocks, key, domain) ==
  v = [i \in 0 .. Len(blocks) |->
         IF i = 0 THEN domain ELSE NativePermute[Plus(v[i - 1], blocks[i])][key]]

\* The native hash is the last of the values after each block.
LEMMA NativeHashRun ==
  ASSUME NEW blocks \in Seq(Field), NEW key \in Field, NEW domain \in Field
  PROVE  \E v \in [0 .. Len(blocks) -> Field] :
           /\ v[0] = domain
           /\ \A i \in 1 .. Len(blocks) : v[i] = Absorb(v[i - 1], blocks[i], key)
           /\ NativeHash(blocks, key, domain) = v[Len(blocks)]
<1> DEFINE n == Len(blocks)
           step == [t \in (1 .. n) \X Field |-> Absorb(t[2], blocks[t[1]], key)]
           v == CHOOSE u : Absorbing(u, blocks, key, domain)
<1>1. /\ n \in Nat /\ \A i \in 1 .. n : blocks[i] \in Field
      /\ \A i \in 0 .. n : i # 0 => i - 1 \in 0 .. n /\ i \in 1 .. n
  OBVIOUS
<1>2. \A i \in 1 .. n, x \in Field : step[<<i, x>>] = Absorb(x, blocks[i], key)
  OBVIOUS
<1>3. step \in [(1 .. n) \X Field -> Field]
  BY <1>1, AbsorbTyped
<1> HIDE DEF step
<1>4. PICK f \in [0 .. n -> Field] : IsRun(f, n, domain, step)
  <2> HIDE DEF n
  <2>. QED
    BY <1>1, <1>3, RunExists
<1>5. Absorbing(f, blocks, key, domain)
  <2>1. \A i \in 0 .. n : i # 0 =>
          step[<<i, f[i - 1]>>] = NativePermute[Plus(f[i - 1], blocks[i])][key]
    BY <1>1, <1>2 DEF Absorb
  <2>. QED
    BY <1>4, <2>1 DEF Absorbing, IsRun
<1>6. Absorbing(v, blocks, key, domain)
  BY <1>5, Zenon
<1>7. NativeHash(blocks, key, domain) = v[n]
  BY DEF NativeHash, Absorbing
<1> HIDE DEF v
<1>8. v[0] = domain /\ \A i \in 1 .. n : v[i] = Absorb(v[i - 1], blocks[i], key)
  BY <1>1, <1>6 DEF Absorbing, Absorb
<1>9. \A i \in 0 .. n : v[i] \in Field
  <2> HIDE DEF n
  <2>1. ASSUME NEW i \in 1 .. n, v[i - 1] \in Field PROVE v[i] \in Field
    <3>1. v[i] = Absorb(v[i - 1], blocks[i], key) /\ blocks[i] \in Field
      BY <1>1, <1>8
    <3> DEFINE x == v[i - 1]
               b == blocks[i]
    <3>2. x \in Field /\ b \in Field /\ v[i] = Absorb(x, b, key)
      BY <2>1, <3>1
    <3> HIDE DEF x, b
    <3>3. Absorb(x, b, key) \in Field
      BY <3>2, AbsorbTyped
    <3>. QED
      BY <3>2, <3>3
  <2>2. Staying(v, n, Field)
    BY <1>8, <2>1 DEF Staying
  <2>. QED
    BY <1>1, <2>2, RunStays
<1>10. v = [i \in 0 .. n |-> v[i]]
  BY <1>6 DEF Absorbing
<1>. QED
  BY <1>7, <1>8, <1>9, <1>10

\* A hash of field elements is a field element.
LEMMA NativeHashTyped ==
  ASSUME NEW blocks \in Seq(Field), NEW key \in Field, NEW domain \in Field
  PROVE  NativeHash(blocks, key, domain) \in Field
<1>1. PICK v \in [0 .. Len(blocks) -> Field] : NativeHash(blocks, key, domain) = v[Len(blocks)]
  BY NativeHashRun
<1>2. Len(blocks) \in 0 .. Len(blocks)
  OBVIOUS
<1>. QED
  BY <1>1, <1>2

\* The sets of states of a hash in the circuit.
Soaking(v, blocks, key, domain) ==
  v = [i \in 0 .. Len(blocks) |->
         IF i = 0 THEN {domain}
         ELSE UNION {CircuitPermute[Plus(x, blocks[i])][key] : x \in v[i - 1]}]

\* The circuit's hash leaves a prover the native value only.
THEOREM CircuitHashIs ==
  ASSUME NEW blocks \in Seq(Field), NEW key \in Field, NEW domain \in Field
  PROVE  CircuitHash(blocks, key, domain) = {NativeHash(blocks, key, domain)}
<1> DEFINE n == Len(blocks)
<1>1. /\ n \in Nat /\ \A i \in 1 .. n : blocks[i] \in Field
      /\ \A i \in 0 .. n : i # 0 => i - 1 \in 0 .. n /\ i \in 1 .. n
  OBVIOUS
<1>2. PICK v \in [0 .. n -> Field] :
           /\ v[0] = domain
           /\ \A i \in 1 .. n : v[i] = Absorb(v[i - 1], blocks[i], key)
           /\ NativeHash(blocks, key, domain) = v[n]
  BY NativeHashRun
<1> DEFINE g == [i \in 0 .. n |-> {v[i]}]
           s == CHOOSE u : Soaking(u, blocks, key, domain)
<1>3. \A i \in 1 .. n, x \in Field :
        UNION {CircuitPermute[Plus(y, blocks[i])][key] : y \in {x}} = {Absorb(x, blocks[i], key)}
  <2> SUFFICES ASSUME NEW i \in 1 .. n, NEW x \in Field
               PROVE  UNION {CircuitPermute[Plus(y, blocks[i])][key] : y \in {x}}
                        = {Absorb(x, blocks[i], key)}
    OBVIOUS
  <2>1. CircuitPermute[Plus(x, blocks[i])][key] = {Absorb(x, blocks[i], key)}
    BY <1>1, AbsorbTyped, CircuitPermuteIs DEF Absorb
  <2>. QED
    BY <2>1
<1>4. Soaking(g, blocks, key, domain)
  <2>1. \A i \in 0 .. n :
          g[i] = IF i = 0 THEN {domain}
                 ELSE UNION {CircuitPermute[Plus(x, blocks[i])][key] : x \in g[i - 1]}
    <3> SUFFICES ASSUME NEW i \in 0 .. n
                 PROVE  g[i] = IF i = 0 THEN {domain}
                               ELSE UNION {CircuitPermute[Plus(x, blocks[i])][key] : x \in g[i - 1]}
      OBVIOUS
    <3>1. CASE i = 0
      BY <1>2, <3>1
    <3>2. CASE i # 0
      <4>1. g[i - 1] = {v[i - 1]} /\ v[i - 1] \in Field /\ g[i] = {Absorb(v[i - 1], blocks[i], key)}
        BY <1>1, <1>2, <3>2
      <4> HIDE DEF g
      <4>. QED
        BY <1>1, <1>3, <3>2, <4>1
    <3>. QED
      BY <3>1, <3>2
  <2>2. g = [i \in 0 .. n |-> g[i]]
    OBVIOUS
  <2> HIDE DEF g
  <2>. QED
    BY <2>1, <2>2 DEF Soaking
<1>5. Soaking(s, blocks, key, domain)
  BY <1>4, Zenon
<1>6. CircuitHash(blocks, key, domain) = s[n]
  BY DEF CircuitHash, Soaking
<1> HIDE DEF s
<1>7. \A i \in 0 .. n : s[i] = g[i]
  <2> HIDE DEF g
  <2>1. InStep(s, g, n)
    <3>1. s[0] = g[0]
      BY <1>1, <1>4, <1>5 DEF Soaking
    <3>2. ASSUME NEW i \in 1 .. n, s[i - 1] = g[i - 1] PROVE s[i] = g[i]
      <4>1. i \in 0 .. n /\ i # 0
        BY <1>1
      <4>2. s[i] = UNION {CircuitPermute[Plus(x, blocks[i])][key] : x \in s[i - 1]}
        BY <1>5, <4>1 DEF Soaking
      <4>3. g[i] = UNION {CircuitPermute[Plus(x, blocks[i])][key] : x \in g[i - 1]}
        BY <1>4, <4>1 DEF Soaking
      <4>. QED
        BY <3>2, <4>2, <4>3
    <3>. QED
      BY <3>1, <3>2 DEF InStep
  <2> HIDE DEF n
  <2>. QED
    BY <1>1, <2>1, RunsAgree
<1>8. n \in 0 .. n
  BY <1>1
<1>. QED
  BY <1>2, <1>6, <1>7, <1>8

-------------------------------------------------------------------------------
(* No two inputs of a permutation have the same output *)

\* Addition of a field element loses nothing.
LEMMA PlusCancel ==
  ASSUME NEW x \in Field, NEW y \in Field, NEW a \in Field
  PROVE  /\ Plus(x, a) = Plus(y, a) => x = y
         /\ Plus(a, x) = Plus(a, y) => x = y
<1>1. /\ Plus(x, a) = (IF x + a < P THEN x + a ELSE x + a - P)
      /\ Plus(y, a) = (IF y + a < P THEN y + a ELSE y + a - P)
      /\ Plus(a, x) = (IF a + x < P THEN a + x ELSE a + x - P)
      /\ Plus(a, y) = (IF a + y < P THEN a + y ELSE a + y - P)
  BY PlusIs
<1>2. P \in Nat /\ x \in 0 .. P - 1 /\ y \in 0 .. P - 1 /\ a \in 0 .. P - 1
  BY FieldAssumption DEF Field
<1>. QED
  BY <1>1, <1>2

\* No two inputs of a round have the same output: the seventh power is invertible.
LEMMA RoundInjective ==
  ASSUME NEW r \in 1 .. Rounds, NEW x \in Field, NEW y \in Field, NEW key \in Field,
         Round(r, x, key) = Round(r, y, key)
  PROVE  x = y
<1>1. RoundConstant[r - 1] \in Field /\ Plus(x, key) \in Field /\ Plus(y, key) \in Field
  BY RoundAssumption, FieldOps
<1>2. Plus(Plus(x, key), RoundConstant[r - 1]) = Plus(Plus(y, key), RoundConstant[r - 1])
  BY RoundTyped, SeventhAssumption DEF Round
<1>3. Plus(x, key) = Plus(y, key)
  BY <1>1, <1>2, PlusCancel
<1>. QED
  BY <1>3, PlusCancel

\* Nor have two inputs of the permutation under one key.
LEMMA PermuteInjective ==
  ASSUME NEW x \in Field, NEW y \in Field, NEW key \in Field,
         NativePermute[x][key] = NativePermute[y][key]
  PROVE  x = y
<1>1. Rounds \in Nat /\ Rounds \in 0 .. Rounds
  BY RoundAssumption
<1>2. PICK v \in [0 .. Rounds -> Field] :
           /\ v[0] = x
           /\ \A r \in 1 .. Rounds : v[r] = Round(r, v[r - 1], key)
           /\ NativePermute[x][key] = Plus(v[Rounds], key)
  BY NativePermuteRun
<1>3. PICK u \in [0 .. Rounds -> Field] :
           /\ u[0] = y
           /\ \A r \in 1 .. Rounds : u[r] = Round(r, u[r - 1], key)
           /\ NativePermute[y][key] = Plus(u[Rounds], key)
  BY NativePermuteRun
<1> DEFINE S == {j \in 0 .. Rounds : v[Rounds - j] = u[Rounds - j]}
<1>4. 0 \in S
  <2>1. v[Rounds] \in Field /\ u[Rounds] \in Field /\ Plus(v[Rounds], key) = Plus(u[Rounds], key)
    BY <1>1, <1>2, <1>3
  <2>2. v[Rounds] = u[Rounds]
    BY <2>1, PlusCancel
  <2>. QED
    BY <1>1, <2>2
<1>5. \A j \in 0 .. Rounds - 1 : j \in S => j + 1 \in S
  <2> SUFFICES ASSUME NEW j \in 0 .. Rounds - 1, v[Rounds - j] = u[Rounds - j] PROVE j + 1 \in S
    OBVIOUS
  <2> DEFINE r == Rounds - j
  <2>1. r \in 1 .. Rounds /\ r - 1 = Rounds - (j + 1) /\ r - 1 \in 0 .. Rounds /\ j + 1 \in 0 .. Rounds
    BY <1>1
  <2>2. v[r] = Round(r, v[r - 1], key) /\ u[r] = Round(r, u[r - 1], key) /\ v[r] = u[r]
    BY <1>2, <1>3, <2>1
  <2>3. v[r - 1] \in Field /\ u[r - 1] \in Field
    BY <2>1
  <2> DEFINE a == v[r - 1]
             b == u[r - 1]
  <2>4. a \in Field /\ b \in Field /\ r \in 1 .. Rounds /\ Round(r, a, key) = Round(r, b, key)
    BY <2>1, <2>2, <2>3
  <2> HIDE DEF a, b, r
  <2>5. a = b
    BY <2>4, RoundInjective
  <2>. QED
    BY <2>1, <2>5 DEF a, b, r
<1>6. Rounds \in S
  <2> HIDE DEF S
  <2>1. \A j \in 0 .. Rounds : j \in S
    BY <1>1, <1>4, <1>5, InductionUpTo
  <2>. QED
    BY <1>1, <2>1
<1>7. v[0] = u[0]
  BY <1>1, <1>6
<1>. QED
  BY <1>2, <1>3, <1>7

\* Different states stay different, and so do equal states that absorb
\* different blocks.
LEMMA AbsorbInjective ==
  ASSUME NEW x \in Field, NEW y \in Field, NEW b \in Field, NEW c \in Field, NEW key \in Field
  PROVE  /\ x # y => Absorb(x, b, key) # Absorb(y, b, key)
         /\ b # c => Absorb(x, b, key) # Absorb(x, c, key)
<1>1. Plus(x, b) \in Field /\ Plus(y, b) \in Field /\ Plus(x, c) \in Field
  BY FieldOps
<1>2. x # y => Plus(x, b) # Plus(y, b)
  BY PlusCancel
<1>3. b # c => Plus(x, b) # Plus(x, c)
  BY PlusCancel
<1>. QED
  BY <1>1, <1>2, <1>3, PermuteInjective DEF Absorb

\* Changing one block changes the hash.
LEMMA HashDiffers ==
  ASSUME NEW a \in Seq(Field), NEW b \in Seq(Field), NEW key \in Field, NEW domain \in Field,
         Len(a) = Len(b), NEW j \in 1 .. Len(a), a[j] # b[j],
         \A i \in 1 .. Len(a) : i # j => a[i] = b[i]
  PROVE  NativeHash(a, key, domain) # NativeHash(b, key, domain)
<1> DEFINE n == Len(a)
<1>1. n \in Nat /\ j \in 1 .. n /\ \A i \in 1 .. n : a[i] \in Field /\ b[i] \in Field
  OBVIOUS
<1>2. PICK v \in [0 .. n -> Field] :
           /\ v[0] = domain
           /\ \A i \in 1 .. n : v[i] = Absorb(v[i - 1], a[i], key)
           /\ NativeHash(a, key, domain) = v[n]
  BY NativeHashRun
<1>3. PICK u \in [0 .. n -> Field] :
           /\ u[0] = domain
           /\ \A i \in 1 .. n : u[i] = Absorb(u[i - 1], b[i], key)
           /\ NativeHash(b, key, domain) = u[n]
  <2>1. \E u \in [0 .. Len(b) -> Field] :
           /\ u[0] = domain
           /\ \A i \in 1 .. Len(b) : u[i] = Absorb(u[i - 1], b[i], key)
           /\ NativeHash(b, key, domain) = u[Len(b)]
    BY NativeHashRun
  <2>2. Len(b) = n
    OBVIOUS
  <2>. QED
    BY <2>1, <2>2, Zenon
<1>4. \A i \in 1 .. n : i # j => a[i] = b[i]
  OBVIOUS
<1> HIDE DEF n
<1>5. v[j - 1] = u[j - 1]
  <2>1. j - 1 \in Nat /\ j - 1 \in 0 .. j - 1
    BY <1>1
  <2>2. InStep(v, u, j - 1)
    <3>1. ASSUME NEW i \in 1 .. j - 1, v[i - 1] = u[i - 1] PROVE v[i] = u[i]
      <4>1. i \in 1 .. n /\ a[i] = b[i]
        BY <1>1, <1>4
      <4>. QED
        BY <1>2, <1>3, <3>1, <4>1
    <3>. QED
      BY <1>2, <1>3, <3>1 DEF InStep
  <2> DEFINE k == j - 1
  <2> HIDE DEF k
  <2>3. k \in Nat
    BY <2>1 DEF k
  <2>4. InStep(v, u, k)
    BY <2>2 DEF k
  <2>5. \A i \in 0 .. k : v[i] = u[i]
    BY ONLY <2>3, <2>4, RunsAgree
  <2>. QED
    BY <2>1, <2>5 DEF k
<1>6. v[j] # u[j]
  <2>1. j - 1 \in 0 .. n
    BY <1>1
  <2>2. v[j - 1] \in Field /\ v[j] = Absorb(v[j - 1], a[j], key) /\ u[j] = Absorb(v[j - 1], b[j], key)
    BY <1>1, <1>2, <1>3, <1>5, <2>1
  <2>3. a[j] \in Field /\ b[j] \in Field /\ key \in Field /\ a[j] # b[j]
    BY <1>1
  <2>4. Absorb(v[j - 1], a[j], key) # Absorb(v[j - 1], b[j], key)
    BY <2>2, <2>3, AbsorbInjective
  <2>. QED
    BY <2>2, <2>4
<1> DEFINE S == {k \in 0 .. n - j : v[j + k] # u[j + k]}
<1>7. n - j \in Nat /\ n - j \in 0 .. n - j /\ j + (n - j) = n /\ j + 0 = j
  BY <1>1
<1>8. 0 \in S
  BY <1>6, <1>7
<1>9. \A k \in 0 .. (n - j) - 1 : k \in S => k + 1 \in S
  <2> SUFFICES ASSUME NEW k \in 0 .. (n - j) - 1, v[j + k] # u[j + k] PROVE k + 1 \in S
    OBVIOUS
  <2> DEFINE i == j + (k + 1)
  <2>1. i \in 1 .. n /\ i # j /\ i - 1 = j + k /\ i - 1 \in 0 .. n /\ k + 1 \in 0 .. n - j
    BY <1>1
  <2>2. v[i - 1] \in Field /\ u[i - 1] \in Field /\ v[i - 1] # u[i - 1]
    BY <2>1
  <2>3. v[i] = Absorb(v[i - 1], a[i], key) /\ u[i] = Absorb(u[i - 1], a[i], key) /\ a[i] \in Field
    BY <1>1, <1>2, <1>3, <1>4, <2>1
  <2> DEFINE x == v[i - 1]
             y == u[i - 1]
             c == a[i]
  <2>4. /\ x \in Field /\ y \in Field /\ x # y /\ c \in Field
        /\ v[i] = Absorb(x, c, key) /\ u[i] = Absorb(y, c, key)
    BY <2>2, <2>3
  <2> HIDE DEF x, y, c, i
  <2>5. v[i] # u[i]
    BY <2>4, AbsorbInjective
  <2>. QED
    BY <2>1, <2>5 DEF i
<1>10. n - j \in S
  <2> HIDE DEF S
  <2>1. \A k \in 0 .. n - j : k \in S
    <3> DEFINE m == n - j
    <3>1. m \in Nat /\ \A k \in 0 .. m - 1 : k \in S => k + 1 \in S
      BY <1>7, <1>9
    <3> HIDE DEF m
    <3>2. \A k \in 0 .. m : k \in S
      BY <1>8, <3>1, InductionUpTo
    <3>. QED
      BY <3>2 DEF m
  <2>. QED
    BY <1>7, <2>1
<1>11. v[n] # u[n]
  BY <1>7, <1>10
<1>. QED
  BY <1>2, <1>3, <1>11

-------------------------------------------------------------------------------
(* Merkle paths *)

\* The two children of a node: the current hash is the right one if bit is 1.
Pair(bit, sibling, current) ==
  IF bit = 0 THEN <<current, sibling>> ELSE <<sibling, current>>

\* The parent of a node and its sibling.
Level(bit, sibling, current, domain) == NativeHash(Pair(bit, sibling, current), 0, domain)

\* The parent of two field elements is one.
LEMMA LevelTyped ==
  ASSUME NEW bit, NEW sibling \in Field, NEW current \in Field, NEW domain \in Field
  PROVE  Pair(bit, sibling, current) \in Seq(Field) /\ Level(bit, sibling, current, domain) \in Field
<1>1. Pair(bit, sibling, current) \in Seq(Field)
  BY DEF Pair
<1>2. 0 \in Field
  BY FieldAssumption DEF Field
<1>. QED
  BY <1>1, <1>2, NativeHashTyped DEF Level

\* The selection row orders a level's two children as the bit says.
LEMMA ChildrenAre ==
  ASSUME NEW bit \in {0, 1}, NEW sibling \in Field, NEW current \in Field,
         NEW s \in Field, SelectionRow(bit, sibling, current, s)
  PROVE  Children(sibling, current, s) = Pair(bit, sibling, current)
<1>1. s = Times(bit, Minus(sibling, current)) /\ Minus(sibling, current) \in Field /\ 0 \in Field
  BY FieldOps, FieldAssumption DEF SelectionRow, Field
<1>2. s = IF bit = 0 THEN 0 ELSE Minus(sibling, current)
  BY <1>1, TimesUnit
<1>3. /\ Plus(current, s) = (IF current + s < P THEN current + s ELSE current + s - P)
      /\ Minus(sibling, s) = (IF sibling >= s THEN sibling - s ELSE sibling - s + P)
      /\ Minus(sibling, current)
           = (IF sibling >= current THEN sibling - current ELSE sibling - current + P)
  BY PlusIs, MinusIs
<1>4. P \in Nat /\ sibling \in 0 .. P - 1 /\ current \in 0 .. P - 1
  BY FieldAssumption DEF Field
<1>5. CASE bit = 0
  <2>1. s = 0
    BY <1>2, <1>5
  <2>2. Plus(current, s) = current /\ Minus(sibling, s) = sibling
    BY <1>3, <1>4, <2>1
  <2>. QED
    BY <1>5, <2>2 DEF Children, Pair
<1>6. CASE bit = 1
  <2>1. s = IF sibling >= current THEN sibling - current ELSE sibling - current + P
    BY <1>2, <1>3, <1>6
  <2>2. Plus(current, s) = sibling /\ Minus(sibling, s) = current
    BY <1>3, <1>4, <2>1
  <2>. QED
    BY <1>6, <2>2 DEF Children, Pair
<1>. QED
  BY <1>5, <1>6

\* With a bit on its wire, a level's rows leave a prover the parent only.
LEMMA LevelOutputsAre ==
  ASSUME NEW bit \in {0, 1}, NEW sibling \in Field, NEW current \in Field, NEW domain \in Field
  PROVE  LevelOutputs(bit, sibling, current, domain) = {Level(bit, sibling, current, domain)}
<1> DEFINE T == {s \in Field : SelectionRow(bit, sibling, current, s)}
<1>1. 0 \in Field
  BY FieldAssumption DEF Field
<1>2. \E s \in T : TRUE
  <2>1. Times(bit, Minus(sibling, current)) \in Field
    <3>1. bit \in Field
      BY FieldAssumption DEF Field
    <3>. QED
      BY <3>1, FieldOps
  <2>. QED
    BY <2>1 DEF SelectionRow
<1>3. \A s \in T : CircuitHash(Children(sibling, current, s), 0, domain)
                     = {Level(bit, sibling, current, domain)}
  <2> SUFFICES ASSUME NEW s \in T
               PROVE  CircuitHash(Children(sibling, current, s), 0, domain)
                        = {Level(bit, sibling, current, domain)}
    OBVIOUS
  <2>1. Children(sibling, current, s) = Pair(bit, sibling, current)
    BY ChildrenAre
  <2>2. Pair(bit, sibling, current) \in Seq(Field)
    BY LevelTyped
  <2>. QED
    BY <1>1, <2>1, <2>2, CircuitHashIs DEF Level
<1>4. LevelOutputs(bit, sibling, current, domain)
        = UNION {CircuitHash(Children(sibling, current, s), 0, domain) : s \in T}
  BY DEF LevelOutputs
<1> HIDE DEF T
<1>. QED
  BY <1>2, <1>3, <1>4

\* The bit of an index that picks the side at a level.
Side(index, l) == (index \div TwoTo(l - 1)) % 2

\* The nodes on the way to the root.
Climbing(v, index, path, leaf, domain) ==
  v = [l \in 0 .. Len(path) |->
         IF l = 0 THEN leaf
         ELSE NativeHash(IF (index \div TwoTo(l - 1)) % 2 = 0
                         THEN <<v[l - 1], path[l]>>
                         ELSE <<path[l], v[l - 1]>>, 0, domain)]

\* v holds the nodes from the leaf to the root.
Nodes(v, index, path, leaf, domain) ==
  /\ v \in [0 .. Len(path) -> Field]
  /\ v[0] = leaf
  /\ \A l \in 1 .. Len(path) : v[l] = Level(Side(index, l), path[l], v[l - 1], domain)
  /\ MerkleRoot(index, path, leaf, domain) = v[Len(path)]

\* The root is the last of the nodes of a climb.
LEMMA MerkleRun ==
  ASSUME NEW index, NEW path \in Seq(Field), NEW leaf \in Field, NEW domain \in Field
  PROVE  \E v : Nodes(v, index, path, leaf, domain)
<1> DEFINE n == Len(path)
           step == [t \in (1 .. n) \X Field |-> Level(Side(index, t[1]), path[t[1]], t[2], domain)]
           v == CHOOSE u : Climbing(u, index, path, leaf, domain)
<1>1. /\ n \in Nat /\ \A l \in 1 .. n : path[l] \in Field
      /\ \A l \in 0 .. n : l # 0 => l - 1 \in 0 .. n /\ l \in 1 .. n
  OBVIOUS
<1>2. \A l \in 1 .. n, x \in Field : step[<<l, x>>] = Level(Side(index, l), path[l], x, domain)
  OBVIOUS
<1>3. step \in [(1 .. n) \X Field -> Field]
  BY <1>1, LevelTyped
<1> HIDE DEF step
<1>4. PICK f \in [0 .. n -> Field] : IsRun(f, n, leaf, step)
  <2> HIDE DEF n
  <2>. QED
    BY <1>1, <1>3, RunExists
<1>5. Climbing(f, index, path, leaf, domain)
  <2>1. \A l \in 0 .. n : l # 0 =>
          step[<<l, f[l - 1]>>] = NativeHash(IF (index \div TwoTo(l - 1)) % 2 = 0
                                             THEN <<f[l - 1], path[l]>>
                                             ELSE <<path[l], f[l - 1]>>, 0, domain)
    BY <1>1, <1>2 DEF Level, Pair, Side
  <2>. QED
    BY <1>4, <2>1 DEF Climbing, IsRun
<1>6. Climbing(v, index, path, leaf, domain)
  BY <1>5, Zenon
<1>7. MerkleRoot(index, path, leaf, domain) = v[n]
  BY DEF MerkleRoot, Climbing
<1> HIDE DEF v
<1>8. v[0] = leaf /\ \A l \in 1 .. n : v[l] = Level(Side(index, l), path[l], v[l - 1], domain)
  BY <1>1, <1>6 DEF Climbing, Level, Pair, Side
<1>9. \A l \in 0 .. n : v[l] \in Field
  <2>1. ASSUME NEW l \in 1 .. n, v[l - 1] \in Field PROVE v[l] \in Field
    <3> DEFINE x == v[l - 1]
               b == path[l]
               c == Side(index, l)
    <3>1. x \in Field /\ b \in Field /\ v[l] = Level(c, b, x, domain)
      BY <1>1, <1>8, <2>1
    <3> HIDE DEF x, b, c
    <3>2. Level(c, b, x, domain) \in Field
      BY <3>1, LevelTyped
    <3>. QED
      BY <3>1, <3>2
  <2>2. Staying(v, n, Field)
    BY <1>8, <2>1 DEF Staying
  <2> HIDE DEF n
  <2>. QED
    BY <1>1, <2>2, RunStays
<1>10. v = [l \in 0 .. n |-> v[l]]
  BY <1>6 DEF Climbing
<1>11. Nodes(v, index, path, leaf, domain)
  BY <1>7, <1>8, <1>9, <1>10 DEF Nodes
<1>. QED
  BY <1>11

\* The root over a path of field elements is a field element.
LEMMA MerkleRootTyped ==
  ASSUME NEW index, NEW path \in Seq(Field), NEW leaf \in Field, NEW domain \in Field
  PROVE  MerkleRoot(index, path, leaf, domain) \in Field
<1>1. PICK v : Nodes(v, index, path, leaf, domain)
  BY MerkleRun
<1>2. Len(path) \in 0 .. Len(path)
  OBVIOUS
<1>. QED
  BY <1>1, <1>2 DEF Nodes

\* The sets of nodes in the circuit.
Branching(v, bits, path, leaf, domain) ==
  v = [l \in 0 .. Len(path) |->
         IF l = 0 THEN {leaf}
         ELSE UNION {LevelOutputs(bits[l - 1], path[l], node, domain) : node \in v[l - 1]}]

\* With the bits of the index, the circuit's path leaves a prover the root only.
THEOREM MerkleOutputsAre ==
  ASSUME NEW index, NEW path \in Seq(Field), NEW leaf \in Field, NEW domain \in Field, NEW bits,
         \A l \in 1 .. Len(path) : bits[l - 1] \in {0, 1} /\ bits[l - 1] = Side(index, l)
  PROVE  MerkleOutputs(bits, path, leaf, domain) = {MerkleRoot(index, path, leaf, domain)}
<1> DEFINE n == Len(path)
<1>1. /\ n \in Nat /\ \A l \in 1 .. n : path[l] \in Field
      /\ \A l \in 0 .. n : l # 0 => l - 1 \in 0 .. n /\ l \in 1 .. n
  OBVIOUS
<1>0. PICK v : Nodes(v, index, path, leaf, domain)
  BY MerkleRun
<1>2. /\ v \in [0 .. n -> Field] /\ v[0] = leaf
      /\ \A l \in 1 .. n : v[l] = Level(Side(index, l), path[l], v[l - 1], domain)
      /\ MerkleRoot(index, path, leaf, domain) = v[n]
  BY <1>0 DEF Nodes
<1> DEFINE g == [l \in 0 .. n |-> {v[l]}]
           s == CHOOSE u : Branching(u, bits, path, leaf, domain)
<1>3. \A l \in 1 .. n, x \in Field :
        UNION {LevelOutputs(bits[l - 1], path[l], node, domain) : node \in {x}}
          = {Level(Side(index, l), path[l], x, domain)}
  <2> SUFFICES ASSUME NEW l \in 1 .. n, NEW x \in Field
               PROVE  UNION {LevelOutputs(bits[l - 1], path[l], node, domain) : node \in {x}}
                        = {Level(Side(index, l), path[l], x, domain)}
    OBVIOUS
  <2>1. LevelOutputs(bits[l - 1], path[l], x, domain) = {Level(Side(index, l), path[l], x, domain)}
    BY <1>1, LevelOutputsAre
  <2>. QED
    BY <2>1
<1>4. Branching(g, bits, path, leaf, domain)
  <2>1. \A l \in 0 .. n :
          g[l] = IF l = 0 THEN {leaf}
                 ELSE UNION {LevelOutputs(bits[l - 1], path[l], node, domain) : node \in g[l - 1]}
    <3> SUFFICES ASSUME NEW l \in 0 .. n
                 PROVE  g[l] = IF l = 0 THEN {leaf}
                               ELSE UNION {LevelOutputs(bits[l - 1], path[l], node, domain) :
                                             node \in g[l - 1]}
      OBVIOUS
    <3>1. CASE l = 0
      BY <1>2, <3>1
    <3>2. CASE l # 0
      <4>1. /\ g[l - 1] = {v[l - 1]} /\ v[l - 1] \in Field
            /\ g[l] = {Level(Side(index, l), path[l], v[l - 1], domain)}
        BY <1>1, <1>2, <3>2
      <4> HIDE DEF g
      <4>. QED
        BY <1>1, <1>3, <3>2, <4>1
    <3>. QED
      BY <3>1, <3>2
  <2>2. g = [l \in 0 .. n |-> g[l]]
    OBVIOUS
  <2> HIDE DEF g
  <2>. QED
    BY <2>1, <2>2 DEF Branching
<1>5. Branching(s, bits, path, leaf, domain)
  BY <1>4, Zenon
<1>6. MerkleOutputs(bits, path, leaf, domain) = s[n]
  BY DEF MerkleOutputs, Branching
<1> HIDE DEF s
<1>7. \A l \in 0 .. n : s[l] = g[l]
  <2> HIDE DEF g
  <2>1. InStep(s, g, n)
    <3>1. s[0] = g[0]
      BY <1>1, <1>4, <1>5 DEF Branching
    <3>2. ASSUME NEW l \in 1 .. n, s[l - 1] = g[l - 1] PROVE s[l] = g[l]
      <4>1. l \in 0 .. n /\ l # 0
        BY <1>1
      <4>2. s[l] = UNION {LevelOutputs(bits[l - 1], path[l], node, domain) : node \in s[l - 1]}
        BY <1>5, <4>1 DEF Branching
      <4>3. g[l] = UNION {LevelOutputs(bits[l - 1], path[l], node, domain) : node \in g[l - 1]}
        BY <1>4, <4>1 DEF Branching
      <4>. QED
        BY <3>2, <4>2, <4>3
    <3>. QED
      BY <3>1, <3>2 DEF InStep
  <2>2. n \in Nat
    OBVIOUS
  <2> HIDE DEF n
  <2>. QED
    BY ONLY <2>2, <2>1, RunsAgree
<1>8. n \in 0 .. n
  BY <1>1
<1>. QED
  BY <1>2, <1>6, <1>7, <1>8

\* Another child has another parent.
LEMMA LevelInjective ==
  ASSUME NEW bit, NEW s \in Field, NEW t \in Field, NEW x \in Field, NEW y \in Field,
         NEW domain \in Field
  PROVE  /\ x # y => Level(bit, s, x, domain) # Level(bit, s, y, domain)
         /\ s # t => Level(bit, s, x, domain) # Level(bit, t, x, domain)
<1>1. 0 \in Field
  BY FieldAssumption DEF Field
<1>2. ASSUME NEW a \in Field, NEW b \in Field, NEW c \in Field, a # b
      PROVE  /\ NativeHash(<<a, c>>, 0, domain) # NativeHash(<<b, c>>, 0, domain)
             /\ NativeHash(<<c, a>>, 0, domain) # NativeHash(<<c, b>>, 0, domain)
  <2>1. /\ <<a, c>> \in Seq(Field) /\ <<b, c>> \in Seq(Field) /\ Len(<<a, c>>) = 2 /\ Len(<<b, c>>) = 2
        /\ 1 \in 1 .. 2 /\ <<a, c>>[1] # <<b, c>>[1]
        /\ \A i \in 1 .. 2 : i # 1 => <<a, c>>[i] = <<b, c>>[i]
    BY <1>2
  <2>2. /\ <<c, a>> \in Seq(Field) /\ <<c, b>> \in Seq(Field) /\ Len(<<c, a>>) = 2 /\ Len(<<c, b>>) = 2
        /\ 2 \in 1 .. 2 /\ <<c, a>>[2] # <<c, b>>[2]
        /\ \A i \in 1 .. 2 : i # 2 => <<c, a>>[i] = <<c, b>>[i]
    BY <1>2
  <2> DEFINE p == <<a, c>>
             q == <<b, c>>
             r == <<c, a>>
             u == <<c, b>>
  <2>3. /\ p \in Seq(Field) /\ q \in Seq(Field) /\ Len(p) = Len(q) /\ 1 \in 1 .. Len(p) /\ p[1] # q[1]
        /\ \A i \in 1 .. Len(p) : i # 1 => p[i] = q[i]
    BY <2>1
  <2>4. /\ r \in Seq(Field) /\ u \in Seq(Field) /\ Len(r) = Len(u) /\ 2 \in 1 .. Len(r) /\ r[2] # u[2]
        /\ \A i \in 1 .. Len(r) : i # 2 => r[i] = u[i]
    BY <2>2
  <2> HIDE DEF p, q, r, u
  <2>5. NativeHash(p, 0, domain) # NativeHash(q, 0, domain)
    BY <1>1, <2>3, HashDiffers
  <2>6. NativeHash(r, 0, domain) # NativeHash(u, 0, domain)
    BY <1>1, <2>4, HashDiffers
  <2>. QED
    BY <2>5, <2>6 DEF p, q, r, u
<1>. QED
  BY <1>2 DEF Level, Pair

\* Two paths of one length have the same siblings above level k.
SameAbove(a, b, k) == Len(a) = Len(b) /\ \A l \in k + 1 .. Len(a) : a[l] = b[l]

\* Two climbs that differ at a level, with the same siblings above it, lead to
\* different roots.
LEMMA RootsDiffer ==
  ASSUME NEW index, NEW a \in Seq(Field), NEW b \in Seq(Field),
         NEW x \in Field, NEW y \in Field, NEW domain \in Field,
         NEW v, Nodes(v, index, a, x, domain), NEW u, Nodes(u, index, b, y, domain),
         NEW k \in 0 .. Len(a), v[k] # u[k], SameAbove(a, b, k)
  PROVE  MerkleRoot(index, a, x, domain) # MerkleRoot(index, b, y, domain)
<1> DEFINE n == Len(a)
<1>1. n \in Nat /\ k \in 0 .. n /\ \A l \in 1 .. n : a[l] \in Field
  OBVIOUS
<1>2. /\ v \in [0 .. n -> Field] /\ u \in [0 .. n -> Field]
      /\ \A l \in 1 .. n : v[l] = Level(Side(index, l), a[l], v[l - 1], domain)
      /\ \A l \in 1 .. n : u[l] = Level(Side(index, l), b[l], u[l - 1], domain)
      /\ MerkleRoot(index, a, x, domain) = v[n]
      /\ MerkleRoot(index, b, y, domain) = u[n]
  BY DEF Nodes, SameAbove
<1>3. \A l \in k + 1 .. n : a[l] = b[l]
  BY DEF SameAbove
<1> HIDE DEF n
<1> DEFINE S == {j \in 0 .. n - k : v[k + j] # u[k + j]}
<1>4. n - k \in Nat /\ n - k \in 0 .. n - k /\ k + (n - k) = n /\ k + 0 = k
  BY <1>1
<1>5. 0 \in S
  BY <1>4
<1>6. \A j \in 0 .. (n - k) - 1 : j \in S => j + 1 \in S
  <2> SUFFICES ASSUME NEW j \in 0 .. (n - k) - 1, v[k + j] # u[k + j] PROVE j + 1 \in S
    OBVIOUS
  <2> DEFINE l == k + (j + 1)
  <2>1. l \in 1 .. n /\ l \in k + 1 .. n /\ l - 1 = k + j /\ l - 1 \in 0 .. n /\ j + 1 \in 0 .. n - k
    BY <1>1
  <2> DEFINE p == v[l - 1]
             q == u[l - 1]
             s == a[l]
             bit == Side(index, l)
  <2>2. /\ p \in Field /\ q \in Field /\ p # q /\ s \in Field
        /\ v[l] = Level(bit, s, p, domain) /\ u[l] = Level(bit, s, q, domain)
    BY <1>1, <1>2, <1>3, <2>1
  <2> HIDE DEF p, q, s, bit, l
  <2>3. v[l] # u[l]
    BY <2>2, LevelInjective
  <2>. QED
    BY <2>1, <2>3 DEF l
<1>7. n - k \in S
  <2> DEFINE m == n - k
  <2>1. m \in Nat /\ \A j \in 0 .. m - 1 : j \in S => j + 1 \in S
    BY <1>4, <1>6
  <2> HIDE DEF m, S
  <2>2. \A j \in 0 .. m : j \in S
    BY <1>5, <2>1, InductionUpTo
  <2>. QED
    BY <1>4, <2>2 DEF m
<1>. QED
  BY <1>2, <1>4, <1>7

\* Another leaf leads to another root.
LEMMA LeafDiffers ==
  ASSUME NEW index, NEW path \in Seq(Field), NEW x \in Field, NEW y \in Field, x # y,
         NEW domain \in Field
  PROVE  MerkleRoot(index, path, x, domain) # MerkleRoot(index, path, y, domain)
<1>1. PICK v : Nodes(v, index, path, x, domain)
  BY MerkleRun
<1>2. PICK u : Nodes(u, index, path, y, domain)
  BY MerkleRun
<1>3. v[0] # u[0]
  BY <1>1, <1>2 DEF Nodes
<1>4. 0 \in 0 .. Len(path) /\ SameAbove(path, path, 0)
  BY DEF SameAbove
<1>. QED
  BY <1>1, <1>2, <1>3, <1>4, RootsDiffer

\* Another sibling at the lowest level leads to another root.
LEMMA SiblingDiffers ==
  ASSUME NEW index, NEW a \in Seq(Field), NEW b \in Seq(Field), Len(a) = Len(b), Len(a) # 0,
         a[1] # b[1], \A l \in 2 .. Len(a) : a[l] = b[l],
         NEW leaf \in Field, NEW domain \in Field
  PROVE  MerkleRoot(index, a, leaf, domain) # MerkleRoot(index, b, leaf, domain)
<1>1. PICK v : Nodes(v, index, a, leaf, domain)
  BY MerkleRun
<1>2. PICK u : Nodes(u, index, b, leaf, domain)
  BY MerkleRun
<1>3. 1 \in 1 .. Len(a) /\ 1 \in 1 .. Len(b) /\ a[1] \in Field /\ b[1] \in Field /\ 1 - 1 = 0
  OBVIOUS
<1> DEFINE bit == Side(index, 1)
           p == a[1]
           q == b[1]
<1>4. v[1] = Level(bit, p, leaf, domain)
  BY <1>1, <1>3 DEF Nodes
<1>5. u[1] = Level(bit, q, leaf, domain)
  BY <1>2, <1>3 DEF Nodes
<1>6. p \in Field /\ q \in Field /\ p # q
  BY <1>3
<1>7. v[1] # u[1]
  <2> HIDE DEF bit, p, q
  <2>. QED
    BY <1>4, <1>5, <1>6, LevelInjective
<1>8. 1 \in 0 .. Len(a) /\ SameAbove(a, b, 1)
  BY <1>3 DEF SameAbove
<1>. QED
  BY <1>1, <1>2, <1>7, <1>8, RootsDiffer

-------------------------------------------------------------------------------
(* The order of the builder's calls *)

\* A WK whose parameters do not fit together is refused.
Fit(b) == ~(b.wk /\ ~WkAccepted(b))

\* Credentials opened before the request.
First(b) == IF b.profile = "mac" THEN 1 ELSE b.shape.count

\* Whether the relation has the range call.
Ranged(b) == IF b.shape.range THEN 1 ELSE 0

\* The calls between the first credentials and the others.
Middle(b) == 2 + Ranged(b) + b.shape.revocations

\* Two credentials that are not one of the scaling workload are bound to each other.
Crosses(b) == b.shape.count = 2 /\ ~b.wk

\* How many calls the builder makes.
Total(b) == b.shape.count + Middle(b) + (IF Crosses(b) THEN 1 ELSE 0)

\* What the parameters of a relation that is built satisfy.
LEMMA ShapeFacts ==
  ASSUME NEW b \in Builds, Fit(b)
  PROVE  /\ b.profile \in {"mac", "sig"} /\ b.wk \in BOOLEAN /\ b.shape.range \in BOOLEAN
         /\ b.prover \in {"code", "any"} /\ b.mutation \in Mutations[b.profile]
         /\ b.prover = "any" => b.mutation = "Valid"
         /\ b.wk => b.profile = "sig" /\ b.mutation = "Valid"
         /\ b.shape.count \in Nat \ {0} /\ b.shape.depth \in Nat
         /\ b.shape.revocations \in 0 .. b.shape.count
         /\ b.shape.revocations # 0 => b.shape.depth # 0
         /\ b.shape.mask \in 0 .. 2
         /\ ~b.wk => b.shape.count \in 1 .. 2 /\ b.shape.revocations \in 0 .. 1
<1>1. /\ b.profile \in {"mac", "sig"} /\ b.wk \in BOOLEAN /\ b.shape \in Shape
      /\ b.prover \in {"code", "any"} /\ b.mutation \in Mutations[b.profile]
      /\ b.prover = "any" => b.mutation = "Valid"
      /\ IF b.wk
         THEN /\ b.profile = "sig"
              /\ b.shape = WkShape(b.shape.count, b.shape.revocations, b.shape.depth, b.shape.backend)
         ELSE \E workload \in Standard : b.shape = StandardShape(workload)
  BY BuildAssumption DEF Build
<1>2. /\ b.shape.range \in BOOLEAN /\ b.shape.count \in Nat /\ b.shape.depth \in Nat
      /\ b.shape.revocations \in Nat /\ b.shape.mask \in 0 .. 2
  BY <1>1 DEF Shape
<1>3. CASE b.wk
  <2>1. WkAccepted(b)
    BY <1>3 DEF Fit
  <2>2. /\ b.shape.count # 0 /\ b.shape.revocations <= b.shape.count /\ b.mutation = "Valid"
        /\ b.shape.revocations # 0 => b.shape.depth # 0
    BY <1>2, <2>1 DEF WkAccepted
  <2>. QED
    BY <1>1, <1>2, <1>3, <2>2
<1>4. CASE ~b.wk
  <2>1. PICK workload \in Standard : b.shape = StandardShape(workload)
    BY <1>1, <1>4
  <2>2. /\ b.shape.count = IF workload = "W4" THEN 2 ELSE 1
        /\ b.shape.revocations = IF workload \in {"W3", "W4"} THEN 1 ELSE 0
        /\ b.shape.depth = IF workload \in {"W3", "W4"} THEN 2 ELSE 0
    BY <2>1 DEF StandardShape, StandardDepth
  <2>3. /\ b.shape.count \in 1 .. 2 /\ b.shape.revocations \in 0 .. 1
        /\ b.shape.revocations # 0 => b.shape.depth # 0
    BY <2>2
  <2>. QED
    BY <1>1, <1>2, <1>4, <2>3
<1>. QED
  BY <1>3, <1>4

\* The elements of two sequences in a row.
LEMMA ConcatIs ==
  ASSUME NEW T, NEW s \in Seq(T), NEW t \in Seq(T), NEW k, NEW l, Len(s) = k, Len(t) = l
  PROVE  /\ s \o t \in Seq(T) /\ Len(s \o t) = k + l
         /\ \A n \in 1 .. k : (s \o t)[n] = s[n]
         /\ \A n \in 1 .. l : (s \o t)[k + n] = t[n]
OBVIOUS

\* The call at a position.
StepAt(b, n) ==
  IF n <= First(b) THEN <<"credential", n>>
  ELSE IF n = First(b) + 1 THEN <<"request", 0>>
  ELSE IF n = First(b) + 2 THEN <<"disclosure", 0>>
  ELSE IF n <= First(b) + 2 + Ranged(b) THEN <<"range", 0>>
  ELSE IF n <= First(b) + Middle(b) THEN <<"revocation", n - (First(b) + 2 + Ranged(b))>>
  ELSE IF n <= b.shape.count + Middle(b) THEN <<"credential", n - Middle(b)>>
  ELSE <<"cross", 0>>

\* The builder's calls, one by one, as credential_workloads.rs and profile_s.rs order them.
LEMMA StepsAre ==
  ASSUME NEW b \in Builds, Fit(b)
  PROVE  Len(Steps(b)) = Total(b) /\ \A n \in 1 .. Total(b) : Steps(b)[n] = StepAt(b, n)
<1> DEFINE T == {"credential", "request", "disclosure", "range", "revocation", "cross"} \X Int
           s == b.shape
           f == First(b)
           A == Openings(1, f)
           B1 == <<<<"request", 0>>, <<"disclosure", 0>>>>
           B2 == IF s.range THEN <<<<"range", 0>>>> ELSE <<>>
           B3 == [i \in 1 .. s.revocations |-> <<"revocation", i>>]
           C == Openings(f + 1, s.count)
           D == IF Crosses(b) THEN <<<<"cross", 0>>>> ELSE <<>>
<1>1. /\ s.count \in Nat \ {0} /\ s.revocations \in Nat /\ f \in 1 .. s.count
      /\ s.range \in BOOLEAN /\ Ranged(b) \in 0 .. 1 /\ Ranged(b) = IF s.range THEN 1 ELSE 0
  BY ShapeFacts DEF First, Ranged
<1>2. Steps(b) = A \o (B1 \o B2 \o B3) \o C \o D
  BY DEF Steps, First, Crosses
<1>3. A \in Seq(T) /\ Len(A) = f /\ \A n \in 1 .. f : A[n] = <<"credential", n>>
  <2>1. (f - 1) + 1 = f /\ \A n \in 1 .. f : (1 + n) - 1 = n
    BY <1>1
  <2>2. A = [n \in 1 .. f |-> <<"credential", n>>]
    BY <1>1, <2>1 DEF Openings
  <2>. QED
    BY <1>1, <2>2
<1>4. B1 \in Seq(T) /\ Len(B1) = 2 /\ B1[1] = <<"request", 0>> /\ B1[2] = <<"disclosure", 0>>
  OBVIOUS
<1>5. B2 \in Seq(T) /\ Len(B2) = Ranged(b) /\ (Ranged(b) = 1 => B2[1] = <<"range", 0>>)
  <2>1. CASE s.range
    <3>1. B2 = <<<<"range", 0>>>>
      BY <2>1
    <3>2. <<"range", 0>> \in T
      OBVIOUS
    <3>. QED
      BY <1>1, <2>1, <3>1, <3>2
  <2>2. CASE ~s.range
    <3>1. B2 = <<>>
      BY <2>2
    <3>. QED
      BY <1>1, <2>2, <3>1
  <2>. QED
    BY <2>1, <2>2
<1>6. /\ B3 \in Seq(T) /\ Len(B3) = s.revocations
      /\ \A n \in 1 .. s.revocations : B3[n] = <<"revocation", n>>
  BY <1>1
<1>7. /\ C \in Seq(T) /\ Len(C) = s.count - f
      /\ \A n \in 1 .. s.count - f : C[n] = <<"credential", f + n>>
  <2>1. (s.count - (f + 1)) + 1 = s.count - f /\ \A n \in 1 .. s.count - f : ((f + 1) + n) - 1 = f + n
    BY <1>1
  <2>2. C = [n \in 1 .. s.count - f |-> <<"credential", f + n>>]
    BY <1>1, <2>1 DEF Openings
  <2>3. s.count - f \in Nat /\ f \in Int
    BY <1>1
  <2>. QED
    BY <1>1, <2>2, <2>3
<1>8. D \in Seq(T) /\ Len(D) = (IF Crosses(b) THEN 1 ELSE 0) /\ (Crosses(b) => D[1] = <<"cross", 0>>)
  <2>1. CASE Crosses(b)
    <3>1. D = <<<<"cross", 0>>>> /\ <<"cross", 0>> \in T
      BY <2>1
    <3>. QED
      BY <2>1, <3>1
  <2>2. CASE ~Crosses(b)
    <3>1. D = <<>>
      BY <2>2
    <3>. QED
      BY <2>2, <3>1
  <2>. QED
    BY <2>1, <2>2
<1> DEFINE c == s.count
           r == s.revocations
           g == Ranged(b)
           x == IF Crosses(b) THEN 1 ELSE 0
<1>9. /\ Middle(b) = 2 + g + r /\ Total(b) = c + (2 + g + r) + x
      /\ c \in Nat /\ r \in Nat /\ f \in 1 .. c /\ g \in 0 .. 1 /\ x \in 0 .. 1
  BY <1>1 DEF Middle, Total
<1>10. \A n \in 1 .. c + (2 + g + r) + x :
         StepAt(b, n) = IF n <= f THEN <<"credential", n>>
                        ELSE IF n = f + 1 THEN <<"request", 0>>
                        ELSE IF n = f + 2 THEN <<"disclosure", 0>>
                        ELSE IF n <= f + 2 + g THEN <<"range", 0>>
                        ELSE IF n <= f + (2 + g + r) THEN <<"revocation", n - (f + 2 + g)>>
                        ELSE IF n <= c + (2 + g + r) THEN <<"credential", n - (2 + g + r)>>
                        ELSE <<"cross", 0>>
  BY <1>9 DEF StepAt
<1>11. x = 1 => Crosses(b)
  OBVIOUS
<1>12. /\ B2 \in Seq(T) /\ Len(B2) = g /\ (g = 1 => B2[1] = <<"range", 0>>)
       /\ B3 \in Seq(T) /\ Len(B3) = r /\ \A n \in 1 .. r : B3[n] = <<"revocation", n>>
       /\ C \in Seq(T) /\ Len(C) = c - f /\ \A n \in 1 .. c - f : C[n] = <<"credential", f + n>>
       /\ D \in Seq(T) /\ Len(D) = x /\ (x = 1 => D[1] = <<"cross", 0>>)
  BY <1>5, <1>6, <1>7, <1>8, <1>11
<1> HIDE DEF A, B1, B2, B3, C, D, T, c, r, g, x, f, s
<1> DEFINE M == B1 \o B2 \o B3
<1>13. /\ M \in Seq(T) /\ Len(M) = 2 + g + r
       /\ M[1] = <<"request", 0>> /\ M[2] = <<"disclosure", 0>> /\ (g = 1 => M[3] = <<"range", 0>>)
       /\ \A n \in 1 .. r : M[2 + g + n] = <<"revocation", n>>
  <2> DEFINE E == B1 \o B2
  <2>1. /\ E \in Seq(T) /\ Len(E) = 2 + g /\ E[1] = <<"request", 0>> /\ E[2] = <<"disclosure", 0>>
        /\ g = 1 => E[3] = <<"range", 0>>
    <3>1. /\ B1 \o B2 \in Seq(T) /\ Len(B1 \o B2) = 2 + g
          /\ \A n \in 1 .. 2 : (B1 \o B2)[n] = B1[n]
          /\ \A n \in 1 .. g : (B1 \o B2)[2 + n] = B2[n]
      <4> DEFINE k == 2
      <4>1. B1 \in Seq(T) /\ Len(B1) = k /\ B2 \in Seq(T) /\ Len(B2) = g
        BY <1>4, <1>12
      <4> HIDE DEF k
      <4>2. /\ B1 \o B2 \in Seq(T) /\ Len(B1 \o B2) = k + g
            /\ \A n \in 1 .. k : (B1 \o B2)[n] = B1[n]
            /\ \A n \in 1 .. g : (B1 \o B2)[k + n] = B2[n]
        BY <4>1, ConcatIs
      <4>. QED
        BY <4>2 DEF k
    <3>2. 1 \in 1 .. 2 /\ 2 \in 1 .. 2 /\ (g = 1 => 1 \in 1 .. g) /\ 2 + 1 = 3
      BY <1>9
    <3>. QED
      BY <1>4, <1>12, <3>1, <3>2
  <2> HIDE DEF E
  <2>2. /\ E \o B3 \in Seq(T) /\ Len(E \o B3) = 2 + g + r
        /\ \A n \in 1 .. 2 + g : (E \o B3)[n] = E[n]
        /\ \A n \in 1 .. r : (E \o B3)[2 + g + n] = B3[n]
    BY <1>12, <2>1, ConcatIs
  <2>3. 1 \in 1 .. 2 + g /\ 2 \in 1 .. 2 + g /\ (g = 1 => 3 \in 1 .. 2 + g)
    BY <1>9
  <2>. QED
    BY <1>12, <2>1, <2>2, <2>3 DEF E
<1> HIDE DEF M
<1> DEFINE m == 2 + g + r
<1>14. Len(M) = m /\ m \in Nat
  BY <1>9, <1>13
<1> DEFINE E == A \o M
<1>15. /\ E \in Seq(T) /\ Len(E) = f + m
       /\ \A n \in 1 .. f : E[n] = A[n]
       /\ \A n \in 1 .. m : E[f + n] = M[n]
  <2> HIDE DEF m
  <2>. QED
    BY <1>3, <1>13, <1>14, ConcatIs DEF E
<1> HIDE DEF E
<1> DEFINE G == E \o C
<1>16. /\ G \in Seq(T) /\ Len(G) = c + m
       /\ \A n \in 1 .. f + m : G[n] = E[n]
       /\ \A n \in 1 .. c - f : G[f + m + n] = C[n]
  <2> DEFINE k == f + m
             l == c - f
  <2>1. k + l = c + m
    BY <1>9, <1>14
  <2>2. E \in Seq(T) /\ Len(E) = k /\ C \in Seq(T) /\ Len(C) = l
    BY <1>12, <1>15
  <2> HIDE DEF m, k, l
  <2>3. /\ E \o C \in Seq(T) /\ Len(E \o C) = k + l
        /\ \A n \in 1 .. k : (E \o C)[n] = E[n]
        /\ \A n \in 1 .. l : (E \o C)[k + n] = C[n]
    BY <2>2, ConcatIs
  <2>. QED
    BY <2>1, <2>3 DEF G, k, l
<1> HIDE DEF G
<1>17. /\ Len(G \o D) = c + m + x
       /\ \A n \in 1 .. c + m : (G \o D)[n] = G[n]
       /\ x = 1 => (G \o D)[c + m + 1] = D[1]
  <2> DEFINE k == c + m
  <2>1. G \in Seq(T) /\ Len(G) = k /\ D \in Seq(T) /\ Len(D) = x
    BY <1>12, <1>16
  <2> HIDE DEF m, k
  <2>2. /\ Len(G \o D) = k + x
        /\ \A n \in 1 .. k : (G \o D)[n] = G[n]
        /\ \A n \in 1 .. x : (G \o D)[k + n] = D[n]
    BY <2>1, ConcatIs
  <2>3. x = 1 => 1 \in 1 .. x
    BY <1>9
  <2>. QED
    BY <2>2, <2>3 DEF k
<1>18. Steps(b) = G \o D
  BY <1>2 DEF G, E, M
<1>19. ASSUME NEW n \in 1 .. c + m + x PROVE (G \o D)[n] = StepAt(b, n)
  <2>1. CASE n <= f
    <3>1. n \in 1 .. f /\ n \in 1 .. f + m /\ n \in 1 .. c + m
      BY <1>9, <1>14, <2>1
    <3>2. (G \o D)[n] = G[n] /\ G[n] = E[n] /\ E[n] = A[n] /\ A[n] = <<"credential", n>>
      BY <1>3, <1>15, <1>16, <1>17, <3>1
    <3>3. StepAt(b, n) = <<"credential", n>>
      BY <1>10, <2>1
    <3>. QED
      BY <3>2, <3>3
  <2>2. CASE n \in f + 1 .. f + m
    <3> DEFINE k == n - f
    <3>1. k \in 1 .. m /\ n = f + k /\ n \in 1 .. f + m /\ n \in 1 .. c + m
      BY <1>9, <1>14, <2>2
    <3>2. (G \o D)[n] = M[k]
      BY <1>15, <1>16, <1>17, <3>1
    <3>3. CASE k <= 2 + g
      <4>1. k = 1 \/ k = 2 \/ (k = 3 /\ g = 1)
        BY <1>9, <3>1, <3>3
      <4>2. /\ k = 1 => StepAt(b, n) = <<"request", 0>>
            /\ k = 2 => StepAt(b, n) = <<"disclosure", 0>>
            /\ k = 3 /\ g = 1 => StepAt(b, n) = <<"range", 0>>
        BY <1>9, <1>10, <3>1
      <4>. QED
        BY <1>13, <3>2, <4>1, <4>2
    <3>4. CASE k > 2 + g
      <4>1. k - (2 + g) \in 1 .. r /\ k = (2 + g) + (k - (2 + g)) /\ n - (f + 2 + g) = k - (2 + g)
        BY <1>9, <3>1, <3>4
      <4>2. M[k] = <<"revocation", k - (2 + g)>>
        BY <1>13, <4>1
      <4>3. StepAt(b, n) = <<"revocation", n - (f + 2 + g)>>
        BY <1>9, <1>10, <3>1, <3>4
      <4>. QED
        BY <3>2, <4>1, <4>2, <4>3
    <3>5. k <= 2 + g \/ k > 2 + g
      BY <1>9, <3>1
    <3>. QED
      BY <3>3, <3>4, <3>5
  <2>3. CASE n \in f + m + 1 .. c + m
    <3> DEFINE k == n - (f + m)
    <3>1. k \in 1 .. c - f /\ n = f + m + k /\ n \in 1 .. c + m /\ f + k = n - m
      BY <1>9, <1>14, <2>3
    <3>2. (G \o D)[n] = <<"credential", n - m>>
      <4>1. (G \o D)[n] = G[n]
        BY <1>17, <3>1
      <4>2. G[f + m + k] = C[k]
        BY <1>16, <3>1
      <4>3. C[k] = <<"credential", f + k>>
        BY <1>12, <3>1
      <4>. QED
        BY <3>1, <4>1, <4>2, <4>3
    <3>3. StepAt(b, n) = <<"credential", n - m>>
      BY <1>9, <1>10, <2>3
    <3>. QED
      BY <3>2, <3>3
  <2>4. CASE n > c + m
    <3>1. x = 1 /\ n = c + m + 1
      BY <1>9, <1>14, <2>4
    <3>2. StepAt(b, n) = <<"cross", 0>>
      BY <1>9, <1>10, <3>1
    <3>. QED
      BY <1>12, <1>17, <3>1, <3>2
  <2>5. n <= f \/ n \in f + 1 .. f + m \/ n \in f + m + 1 .. c + m \/ n > c + m
    BY <1>9, <1>14
  <2>. QED
    BY <2>1, <2>2, <2>3, <2>4, <2>5
<1>. QED
  BY <1>9, <1>17, <1>18, <1>19

-------------------------------------------------------------------------------
(* Credentials and their claims *)

\* A credential's fields as wires.
Opening ==
  [type : Field, issuer : Field, schema : Field, id : Field, holder : Field, age : Field,
   country : Field, expiry : Field, rid : Field, epoch : Field, salt : Field, key : Field]

\* The values of the fixtures are field elements.
LEMMA FieldValues ==
  /\ P \in Nat /\ 0 \in Field /\ 1 \in Field /\ Word \subseteq Field /\ Word \subseteq Nat
  /\ \A x \in Word : x + 1 \in Field
  /\ Domain.holder \in Field /\ Domain.key \in Field /\ Domain.mac \in Field /\ Domain.sig \in Field
  /\ Domain.request \in Field /\ Domain.merkle \in Field /\ Domain.sibling \in Field
<1>1. P \in Nat \ {0, 1} /\ WordSize \in Nat /\ 2 * WordSize <= P /\ WordSize >= 1
  BY FieldAssumption, TwoToPowers DEF WordSize
<1>2. /\ Domain.holder \in Field /\ Domain.key \in Field /\ Domain.mac \in Field
      /\ Domain.sig \in Field /\ Domain.request \in Field /\ Domain.merkle \in Field
      /\ Domain.sibling \in Field
  BY ValueAssumption
<1>. QED
  BY <1>1, <1>2 DEF Field, Word

\* A fixture's credential, mutated or not, has field elements in all fields.
LEMMA FixtureTyped ==
  ASSUME NEW b \in Builds, NEW i \in 1 .. b.shape.count
  PROVE  /\ Fixture(b.profile, i) \in Opening
         /\ Boundary(b, i) \in Opening
         /\ Mutated(b, i) \in Opening
<1>1. /\ b.shape.count + 9 \in Field /\ FirstRid + b.shape.count \in Field /\ FirstRid \in Nat
      /\ Age \in Word /\ MinAge \in Word /\ Expiry \in Word
  BY ValueAssumption
<1>2. b.shape.count \in Nat
  BY BuildAssumption DEF Build, Shape
<1>3. P \in Nat /\ Age \in Field /\ MinAge \in Field /\ Expiry \in Field /\ Age + 1 \in Field
      /\ MinAge + 1 \in Field
  BY <1>1, FieldValues
<1>4. \A k \in 0 .. b.shape.count + 9 : k \in Field
  BY <1>1, <1>2, <1>3 DEF Field
<1>5. /\ {3, 4, 5, 6, i, i + 1, 4 + i, 5 + i, 6 + i, 8 + i} \subseteq Field
      /\ FirstRid \in Field /\ FirstRid + i - 1 \in Field
  <2>1. \A k \in {3, 4, 5, 6, i, i + 1, 4 + i, 5 + i, 6 + i, 8 + i} : k \in 0 .. b.shape.count + 9
    BY <1>2
  <2>2. FirstRid \in Field /\ FirstRid + i - 1 \in Field
    BY <1>1, <1>2, <1>3 DEF Field
  <2>. QED
    BY <1>4, <2>1, <2>2
<1>6. Fixture(b.profile, i) \in Opening
  BY <1>3, <1>5 DEF Fixture, Opening
<1>7. Boundary(b, i) \in Opening
  BY <1>3, <1>6 DEF Boundary, Opening
<1>8. /\ Boundary(b, i).age + 1 \in Field /\ Boundary(b, i).issuer + 1 \in Field
      /\ Boundary(b, i).type + 1 \in Field /\ Boundary(b, i).epoch + 1 \in Field
      /\ Boundary(b, i).holder + 1 \in Field
  <2>1. /\ Boundary(b, i).age \in {Age, MinAge} /\ Boundary(b, i).issuer = 4 + i
        /\ Boundary(b, i).type = 3 /\ Boundary(b, i).epoch = 4 /\ Boundary(b, i).holder = 5
    BY DEF Boundary, Fixture
  <2>2. 4 + i + 1 = 5 + i /\ 3 + 1 = 4 /\ 4 + 1 = 5 /\ 5 + 1 = 6
    BY <1>2
  <2>. QED
    BY <1>3, <1>5, <2>1, <2>2
<1>9. Mutated(b, i) \in Opening
  BY <1>7, <1>8 DEF Mutated, Opening
<1>. QED
  BY <1>6, <1>7, <1>9

\* A commitment to a credential's holder.
HolderHash(c) == NativeHash(<<c.holder>>, 0, Domain.holder)

\* What a claim is a hash of are field elements, as many as the profile has.
LEMMA BlocksTyped ==
  ASSUME NEW profile \in {"mac", "sig"}, NEW c \in Opening, NEW h \in Field
  PROVE  /\ Blocks(profile, c, h) \in Seq(Field)
         /\ Len(Blocks(profile, c, h)) = (IF profile = "mac" THEN 8 ELSE 11)
         /\ BlockKey(profile, c) \in Field /\ Domain[profile] \in Field
<1>1. /\ c.type \in Field /\ c.issuer \in Field /\ c.schema \in Field /\ c.id \in Field
      /\ c.age \in Field /\ c.country \in Field /\ c.expiry \in Field /\ c.rid \in Field
      /\ c.epoch \in Field /\ c.salt \in Field /\ c.key \in Field
  BY DEF Opening
<1>2. BlockKey(profile, c) \in Field /\ Domain[profile] \in Field
  BY <1>1, FieldValues DEF BlockKey
<1>3. CASE profile = "mac"
  <2>1. Blocks(profile, c, h)
          = <<c.issuer, c.schema, c.id, h, c.age, c.country, c.expiry, c.rid>>
    BY <1>3 DEF Blocks
  <2>2. Blocks(profile, c, h) \in Seq(Field) /\ Len(Blocks(profile, c, h)) = 8
    BY <1>1, <2>1
  <2>. QED
    BY <1>2, <1>3, <2>2
<1>4. CASE profile = "sig"
  <2>1. Blocks(profile, c, h)
          = <<c.type, c.issuer, c.id, h, c.schema, c.age, c.country, c.expiry, c.rid, c.epoch, c.salt>>
    BY <1>4 DEF Blocks
  <2>2. Blocks(profile, c, h) \in Seq(Field) /\ Len(Blocks(profile, c, h)) = 11
    BY <1>1, <2>1
  <2>. QED
    BY <1>2, <1>4, <2>2
<1>. QED
  BY <1>3, <1>4

\* The commitment rows leave a prover the native commitment only.
LEMMA HolderHashTyped ==
  ASSUME NEW c \in Opening
  PROVE  /\ <<c.holder>> \in Seq(Field) /\ HolderHash(c) \in Field
         /\ CircuitHash(<<c.holder>>, 0, Domain.holder) = {HolderHash(c)}
<1>1. c.holder \in Field
  BY DEF Opening
<1>2. <<c.holder>> \in Seq(Field)
  BY <1>1
<1>. QED
  BY <1>2, FieldValues, NativeHashTyped, CircuitHashIs DEF HolderHash

\* The rows of an opening leave the credential's native claim only, and the key
\* commitment they add is the native one.
LEMMA ClaimIs ==
  ASSUME NEW profile \in {"mac", "sig"}, NEW c \in Opening
  PROVE  /\ NativeClaim(profile, c) \in Field
         /\ OpenedClaims(profile, c) = {NativeClaim(profile, c)}
         /\ KeyCommitmentRow(profile, c)
<1> DEFINE h == HolderHash(c)
           x == Blocks(profile, c, h)
           k == BlockKey(profile, c)
           d == Domain[profile]
<1>1. h \in Field /\ CircuitHash(<<c.holder>>, 0, Domain.holder) = {h}
  BY HolderHashTyped
<1>2. x \in Seq(Field) /\ k \in Field /\ d \in Field
  BY <1>1, BlocksTyped
<1>3. NativeClaim(profile, c) = NativeHash(x, k, d)
  BY DEF NativeClaim, HolderHash
<1>4. OpenedClaims(profile, c) = CircuitHash(x, k, d)
  BY <1>1 DEF OpenedClaims
<1>5. NativeHash(x, k, d) \in Field /\ CircuitHash(x, k, d) = {NativeHash(x, k, d)}
  <2> HIDE DEF x, k, d
  <2>. QED
    BY <1>2, NativeHashTyped, CircuitHashIs
<1>6. KeyCommitmentRow(profile, c)
  <2> DEFINE y == <<c.key, c.issuer>>
  <2>1. y \in Seq(Field)
    <3>1. c.key \in Field /\ c.issuer \in Field
      BY DEF Opening
    <3>. QED
      BY <3>1
  <2> HIDE DEF y
  <2>2. CircuitHash(y, 0, Domain.key) = {NativeHash(y, 0, Domain.key)}
    BY <2>1, FieldValues, CircuitHashIs
  <2>. QED
    BY <2>2 DEF KeyCommitmentRow, y
<1>. QED
  BY <1>3, <1>4, <1>5, <1>6

\* The claims of two credentials differ if one block does, and the keys agree.
LEMMA ClaimsDiffer ==
  ASSUME NEW profile \in {"mac", "sig"}, NEW c \in Opening, NEW d \in Opening,
         BlockKey(profile, c) = BlockKey(profile, d),
         NEW j \in 1 .. (IF profile = "mac" THEN 8 ELSE 11),
         Blocks(profile, c, HolderHash(c))[j] # Blocks(profile, d, HolderHash(d))[j],
         \A i \in 1 .. (IF profile = "mac" THEN 8 ELSE 11) :
           i # j => Blocks(profile, c, HolderHash(c))[i] = Blocks(profile, d, HolderHash(d))[i]
  PROVE  NativeClaim(profile, c) # NativeClaim(profile, d)
<1> DEFINE x == Blocks(profile, c, HolderHash(c))
           y == Blocks(profile, d, HolderHash(d))
           k == BlockKey(profile, c)
           e == Domain[profile]
           n == IF profile = "mac" THEN 8 ELSE 11
<1>1. HolderHash(c) \in Field /\ HolderHash(d) \in Field
  BY HolderHashTyped
<1>2. x \in Seq(Field) /\ y \in Seq(Field) /\ Len(x) = n /\ Len(y) = n /\ k \in Field /\ e \in Field
  BY <1>1, BlocksTyped
<1>3. j \in 1 .. n /\ x[j] # y[j] /\ \A i \in 1 .. n : i # j => x[i] = y[i]
  OBVIOUS
<1>4. NativeClaim(profile, c) = NativeHash(x, k, e) /\ NativeClaim(profile, d) = NativeHash(y, k, e)
  BY DEF NativeClaim, HolderHash
<1> HIDE DEF x, y, k, e, n
<1>5. j \in 1 .. Len(x) /\ Len(x) = Len(y) /\ \A i \in 1 .. Len(x) : i # j => x[i] = y[i]
  BY <1>2, <1>3
<1>6. NativeHash(x, k, e) # NativeHash(y, k, e)
  BY <1>2, <1>3, <1>5, HashDiffers
<1>. QED
  BY <1>4, <1>6

\* The mutations that change what the claim of credential i is a hash of.
Broken(b, i) ==
  \/ (i = 1 /\ b.mutation \in {"Attribute", "Issuer", "Holder", "CredentialType", "IssuanceEpoch"})
  \/ (i = 2 /\ b.mutation = "CrossCredential")

\* The mutated credential, field by field.
LEMMA MutatedIs ==
  ASSUME NEW b \in Builds, NEW i \in 1 .. b.shape.count
  PROVE  LET c == Mutated(b, i)
             d == Boundary(b, i)
         IN  /\ c.schema = d.schema /\ c.id = d.id /\ c.country = d.country /\ c.expiry = d.expiry
             /\ c.rid = d.rid /\ c.salt = d.salt /\ c.key = d.key
             /\ c.age = (IF b.mutation = "Attribute" /\ (i = 1 \/ b.profile = "mac")
                         THEN d.age + 1 ELSE d.age)
             /\ c.issuer = (IF i = 1 /\ b.mutation = "Issuer" THEN d.issuer + 1 ELSE d.issuer)
             /\ c.type = (IF i = 1 /\ b.mutation = "CredentialType" THEN d.type + 1 ELSE d.type)
             /\ c.epoch = (IF i = 1 /\ b.mutation = "IssuanceEpoch" THEN d.epoch + 1 ELSE d.epoch)
             /\ c.holder = (IF (i = 1 /\ b.mutation = "Holder")
                               \/ (i = 2 /\ b.mutation = "CrossCredential")
                            THEN d.holder + 1 ELSE d.holder)
<1> DEFINE d == Boundary(b, i)
           is(m) == i = 1 /\ b.mutation = m
           age == IF b.mutation = "Attribute" /\ (i = 1 \/ b.profile = "mac")
                  THEN d.age + 1 ELSE d.age
           issuer == IF is("Issuer") THEN d.issuer + 1 ELSE d.issuer
           type == IF is("CredentialType") THEN d.type + 1 ELSE d.type
           epoch == IF is("IssuanceEpoch") THEN d.epoch + 1 ELSE d.epoch
           holder == IF is("Holder") \/ (i = 2 /\ b.mutation = "CrossCredential")
                     THEN d.holder + 1 ELSE d.holder
<1>1. d \in Opening
  BY FixtureTyped
<1>2. Mutated(b, i) = [d EXCEPT !.age = age, !.issuer = issuer, !.type = type,
                                !.epoch = epoch, !.holder = holder]
  BY <1>1 DEF Mutated, Opening
<1> HIDE DEF d, age, issuer, type, epoch, holder
<1>3. LET c == Mutated(b, i)
      IN  /\ c.schema = d.schema /\ c.id = d.id /\ c.country = d.country /\ c.expiry = d.expiry
          /\ c.rid = d.rid /\ c.salt = d.salt /\ c.key = d.key
          /\ c.age = age /\ c.issuer = issuer /\ c.type = type /\ c.epoch = epoch
          /\ c.holder = holder
  BY <1>1, <1>2 DEF Opening
<1>. QED
  BY <1>3 DEF age, issuer, type, epoch, holder, d

\* Another holder has another commitment.
LEMMA HoldersDiffer ==
  ASSUME NEW c \in Opening, NEW d \in Opening, c.holder # d.holder
  PROVE  HolderHash(c) # HolderHash(d)
<1> DEFINE x == <<c.holder>>
           y == <<d.holder>>
<1>1. c.holder \in Field /\ d.holder \in Field
  BY DEF Opening
<1>2. x \in Seq(Field) /\ y \in Seq(Field) /\ Len(x) = 1 /\ Len(y) = 1 /\ x[1] # y[1]
  BY <1>1
<1> HIDE DEF x, y
<1>3. Len(x) = Len(y) /\ 1 \in 1 .. Len(x) /\ \A i \in 1 .. Len(x) : i # 1 => x[i] = y[i]
  BY <1>2
<1>4. NativeHash(x, 0, Domain.holder) # NativeHash(y, 0, Domain.holder)
  BY <1>2, <1>3, FieldValues, HashDiffers
<1>. QED
  BY <1>4 DEF HolderHash, x, y

\* Such a mutation changes the claim.
LEMMA ClaimBroken ==
  ASSUME NEW b \in Builds, NEW i \in 1 .. b.shape.count, Broken(b, i)
  PROVE  NativeClaim(b.profile, Mutated(b, i)) # NativeClaim(b.profile, Boundary(b, i))
<1> DEFINE c == Mutated(b, i)
           d == Boundary(b, i)
           m == b.mutation
           n == IF b.profile = "mac" THEN 8 ELSE 11
           x == Blocks(b.profile, c, HolderHash(c))
           y == Blocks(b.profile, d, HolderHash(d))
<1>1. c \in Opening /\ d \in Opening /\ b.profile \in {"mac", "sig"}
  BY FixtureTyped, BuildAssumption DEF Build
<1>2. /\ d.type \in Nat /\ d.issuer \in Nat /\ d.epoch \in Nat /\ d.holder \in Nat /\ d.age \in Nat
  BY <1>1 DEF Opening, Field
<1>3. /\ c.schema = d.schema /\ c.id = d.id /\ c.country = d.country /\ c.expiry = d.expiry
      /\ c.rid = d.rid /\ c.salt = d.salt /\ c.key = d.key
      /\ c.age = (IF m = "Attribute" /\ (i = 1 \/ b.profile = "mac") THEN d.age + 1 ELSE d.age)
      /\ c.issuer = (IF i = 1 /\ m = "Issuer" THEN d.issuer + 1 ELSE d.issuer)
      /\ c.type = (IF i = 1 /\ m = "CredentialType" THEN d.type + 1 ELSE d.type)
      /\ c.epoch = (IF i = 1 /\ m = "IssuanceEpoch" THEN d.epoch + 1 ELSE d.epoch)
      /\ c.holder = (IF (i = 1 /\ m = "Holder") \/ (i = 2 /\ m = "CrossCredential")
                     THEN d.holder + 1 ELSE d.holder)
  BY MutatedIs
<1>4. /\ \/ i = 1 /\ m \in {"Attribute", "Issuer", "Holder", "CredentialType", "IssuanceEpoch"}
         \/ i = 2 /\ m = "CrossCredential"
      /\ m \in {"CredentialType", "IssuanceEpoch"} => b.profile = "sig"
  <2>1. m \in Mutations[b.profile]
    BY BuildAssumption
  <2>2. b.profile = "mac" => m \in Mutations.mac
    BY <2>1
  <2>. QED
    BY <1>1, <2>2 DEF Broken, Mutations
<1>5. BlockKey(b.profile, c) = BlockKey(b.profile, d)
  BY <1>3 DEF BlockKey
<1>6. b.profile = "mac" =>
        /\ x = <<c.issuer, c.schema, c.id, HolderHash(c), c.age, c.country, c.expiry, c.rid>>
        /\ y = <<d.issuer, d.schema, d.id, HolderHash(d), d.age, d.country, d.expiry, d.rid>>
  BY DEF Blocks
<1>7. b.profile = "sig" =>
        /\ x = <<c.type, c.issuer, c.id, HolderHash(c), c.schema, c.age, c.country, c.expiry,
                 c.rid, c.epoch, c.salt>>
        /\ y = <<d.type, d.issuer, d.id, HolderHash(d), d.schema, d.age, d.country, d.expiry,
                 d.rid, d.epoch, d.salt>>
  BY DEF Blocks
<1>8. /\ c.holder = d.holder => HolderHash(c) = HolderHash(d)
      /\ c.holder # d.holder => HolderHash(c) # HolderHash(d)
  BY <1>1, HoldersDiffer DEF HolderHash
<1> HIDE DEF c, d, m, x, y
<1>9. \E j \in 1 .. n : x[j] # y[j] /\ \A k \in 1 .. n : k # j => x[k] = y[k]
  <2>1. CASE m = "Attribute"
    <3>1. /\ c.age # d.age /\ c.issuer = d.issuer /\ c.type = d.type /\ c.epoch = d.epoch
          /\ c.holder = d.holder
      BY <1>2, <1>3, <1>4, <2>1
    <3>2. CASE b.profile = "mac"
      <4>1. x[5] # y[5] /\ \A k \in 1 .. 8 : k # 5 => x[k] = y[k]
        BY <1>3, <1>6, <1>8, <3>1, <3>2
      <4>. QED
        BY <3>2, <4>1
    <3>3. CASE b.profile = "sig"
      <4>1. x[6] # y[6] /\ \A k \in 1 .. 11 : k # 6 => x[k] = y[k]
        BY <1>3, <1>7, <1>8, <3>1, <3>3
      <4>. QED
        BY <3>3, <4>1
    <3>. QED
      BY <1>1, <3>2, <3>3
  <2>2. CASE m = "Issuer"
    <3>1. /\ c.issuer # d.issuer /\ c.age = d.age /\ c.type = d.type /\ c.epoch = d.epoch
          /\ c.holder = d.holder
      BY <1>2, <1>3, <1>4, <2>2
    <3>2. CASE b.profile = "mac"
      <4>1. x[1] # y[1] /\ \A k \in 1 .. 8 : k # 1 => x[k] = y[k]
        BY <1>3, <1>6, <1>8, <3>1, <3>2
      <4>. QED
        BY <3>2, <4>1
    <3>3. CASE b.profile = "sig"
      <4>1. x[2] # y[2] /\ \A k \in 1 .. 11 : k # 2 => x[k] = y[k]
        BY <1>3, <1>7, <1>8, <3>1, <3>3
      <4>. QED
        BY <3>3, <4>1
    <3>. QED
      BY <1>1, <3>2, <3>3
  <2>3. CASE m \in {"Holder", "CrossCredential"}
    <3>1. /\ c.holder # d.holder /\ c.age = d.age /\ c.type = d.type /\ c.epoch = d.epoch
          /\ c.issuer = d.issuer
      BY <1>2, <1>3, <1>4, <2>3
    <3>2. CASE b.profile = "mac"
      <4>1. x[4] # y[4] /\ \A k \in 1 .. 8 : k # 4 => x[k] = y[k]
        BY <1>3, <1>6, <1>8, <3>1, <3>2
      <4>. QED
        BY <3>2, <4>1
    <3>3. CASE b.profile = "sig"
      <4>1. x[4] # y[4] /\ \A k \in 1 .. 11 : k # 4 => x[k] = y[k]
        BY <1>3, <1>7, <1>8, <3>1, <3>3
      <4>. QED
        BY <3>3, <4>1
    <3>. QED
      BY <1>1, <3>2, <3>3
  <2>4. CASE m = "CredentialType"
    <3>1. /\ c.type # d.type /\ c.age = d.age /\ c.holder = d.holder /\ c.epoch = d.epoch
          /\ c.issuer = d.issuer /\ b.profile = "sig"
      BY <1>2, <1>3, <1>4, <2>4
    <3>2. x[1] # y[1] /\ \A k \in 1 .. 11 : k # 1 => x[k] = y[k]
      BY <1>3, <1>7, <1>8, <3>1
    <3>. QED
      BY <3>1, <3>2
  <2>5. CASE m = "IssuanceEpoch"
    <3>1. /\ c.epoch # d.epoch /\ c.age = d.age /\ c.holder = d.holder /\ c.type = d.type
          /\ c.issuer = d.issuer /\ b.profile = "sig"
      BY <1>2, <1>3, <1>4, <2>5
    <3>2. x[10] # y[10] /\ \A k \in 1 .. 11 : k # 10 => x[k] = y[k]
      BY <1>3, <1>7, <1>8, <3>1
    <3>. QED
      BY <3>1, <3>2
  <2>. QED
    BY <1>4, <2>1, <2>2, <2>3, <2>4, <2>5
<1>10. PICK j \in 1 .. n : x[j] # y[j] /\ \A k \in 1 .. n : k # j => x[k] = y[k]
  BY <1>9
<1>11. NativeClaim(b.profile, c) # NativeClaim(b.profile, d)
  BY <1>1, <1>5, <1>10, ClaimsDiffer DEF x, y
<1>. QED
  BY <1>11 DEF c, d

-------------------------------------------------------------------------------
(* The siblings the builder supplies *)

\* A level of a path no longer than a word is a field element.
LEMMA LevelsInField ==
  ASSUME NEW l \in 0 .. W
  PROVE  l \in Field
<1> DEFINE S == {k \in 0 .. W : k < TwoTo(k)}
<1>1. W \in Nat /\ P \in Nat /\ TwoTo(W) \in Nat /\ 2 * TwoTo(W) <= P
  BY FieldAssumption, TwoToPowers DEF WordSize
<1>2. 0 \in S
  BY <1>1, TwoToPowers
<1>3. \A k \in 0 .. W - 1 : k \in S => k + 1 \in S
  <2> SUFFICES ASSUME NEW k \in 0 .. W - 1, k < TwoTo(k) PROVE k + 1 < TwoTo(k + 1) /\ k + 1 \in 0 .. W
    OBVIOUS
  <2>1. k \in Nat /\ TwoTo(k) \in Nat \ {0} /\ TwoTo(k + 1) = 2 * TwoTo(k)
    BY TwoToPowers
  <2>. QED
    BY <1>1, <2>1
<1>4. \A k \in 0 .. W : k \in S
  <2> HIDE DEF S
  <2>. QED
    BY <1>1, <1>2, <1>3, InductionUpTo
<1>5. W < TwoTo(W)
  BY <1>1, <1>4
<1>. QED
  BY <1>1, <1>5 DEF Field

\* The roots of empty trees, from the leaf up.
Emptying(e, n) ==
  e = [l \in 0 .. n |-> IF l = 0 THEN 0 ELSE NativeHash(<<e[l - 1], e[l - 1]>>, 0, Domain.merkle)]

\* Every level of an empty tree has a field element as its root.
LEMMA EmptyRun ==
  ASSUME NEW n \in Nat
  PROVE  \A l \in 0 .. n : (CHOOSE e : Emptying(e, n))[l] \in Field
<1> DEFINE parent(x) == NativeHash(<<x, x>>, 0, Domain.merkle)
           step == [t \in (1 .. n) \X Field |-> parent(t[2])]
           v == CHOOSE e : Emptying(e, n)
<1>1. ASSUME NEW x \in Field PROVE parent(x) \in Field
  <2> DEFINE p == <<x, x>>
  <2>1. p \in Seq(Field)
    OBVIOUS
  <2> HIDE DEF p
  <2>2. NativeHash(p, 0, Domain.merkle) \in Field
    BY <2>1, FieldValues, NativeHashTyped
  <2>. QED
    BY <2>2 DEF p
<1>2. \A l \in 1 .. n, x \in Field : step[<<l, x>>] = parent(x)
  OBVIOUS
<1>3. step \in [(1 .. n) \X Field -> Field]
  BY <1>1
<1>4. 0 \in Field /\ \A l \in 0 .. n : l # 0 => l - 1 \in 0 .. n /\ l \in 1 .. n
  BY FieldValues
<1> HIDE DEF step
<1>5. PICK f \in [0 .. n -> Field] : IsRun(f, n, 0, step)
  BY <1>3, <1>4, RunExists
<1>6. Emptying(f, n)
  <2>1. \A l \in 0 .. n : l # 0 => step[<<l, f[l - 1]>>] = parent(f[l - 1])
    BY <1>2, <1>4
  <2>. QED
    BY <1>5, <2>1 DEF Emptying, IsRun
<1>7. Emptying(v, n)
  BY <1>6, Zenon
<1> HIDE DEF v
<1>8. v[0] = 0 /\ \A l \in 1 .. n : v[l] = parent(v[l - 1])
  <2>1. v = [l \in 0 .. n |-> IF l = 0 THEN 0 ELSE parent(v[l - 1])]
    BY <1>7 DEF Emptying
  <2>2. 0 \in 0 .. n /\ \A l \in 1 .. n : l \in 0 .. n /\ l # 0
    OBVIOUS
  <2> HIDE DEF parent
  <2>. QED
    BY <2>1, <2>2
<1> HIDE DEF parent
<1>9. Staying(v, n, Field)
  BY <1>1, <1>4, <1>8 DEF Staying
<1>10. \A l \in 0 .. n : v[l] \in Field
  BY <1>9, RunStays
<1>. QED
  BY <1>10 DEF v

\* The builder's paths have one field element for every level.
LEMMA PathTyped ==
  ASSUME NEW b \in Builds, b.shape.depth \in 0 .. W
  PROVE  /\ BuiltPath(b) \in Seq(Field) /\ Len(BuiltPath(b)) = b.shape.depth
         /\ WitnessPath(b) \in Seq(Field) /\ Len(WitnessPath(b)) = b.shape.depth
         /\ b.mutation # "MerklePath" => WitnessPath(b) = BuiltPath(b)
         /\ b.mutation = "MerklePath" /\ b.shape.depth # 0
              => /\ WitnessPath(b)[1] # BuiltPath(b)[1]
                 /\ \A l \in 2 .. b.shape.depth : WitnessPath(b)[l] = BuiltPath(b)[l]
<1> DEFINE n == b.shape.depth
           empty == CHOOSE e : Emptying(e, n)
           path == [l \in 1 .. n |-> IF b.wk /\ b.shape.revocations > 1 THEN empty[l - 1]
                                     ELSE NativeHash(<<l>>, 0, Domain.sibling)]
<1>1. n \in Nat /\ n \in 0 .. W /\ W \in Nat
  BY FieldAssumption
<1>2. BuiltPath(b) = path
  BY DEF BuiltPath, Emptying
<1>3. \A l \in 0 .. n : empty[l] \in Field
  <2> HIDE DEF n
  <2>. QED
    BY <1>1, EmptyRun
<1>4. ASSUME NEW l \in 1 .. n PROVE path[l] \in Field
  <2>1. l - 1 \in 0 .. n /\ l \in 0 .. W
    BY <1>1
  <2>2. l \in Field
    BY <2>1, LevelsInField
  <2> DEFINE p == <<l>>
  <2>3. p \in Seq(Field)
    BY <2>2
  <2> HIDE DEF p
  <2>4. NativeHash(p, 0, Domain.sibling) \in Field
    BY <2>3, FieldValues, NativeHashTyped
  <2>5. NativeHash(<<l>>, 0, Domain.sibling) \in Field
    BY <2>4 DEF p
  <2> HIDE DEF empty
  <2>. QED
    BY <1>3, <2>1, <2>5
<1>5. path = [l \in 1 .. n |-> path[l]]
  OBVIOUS
<1> HIDE DEF path
<1>6. path \in Seq(Field) /\ Len(path) = n
  <2>1. path \in [1 .. n -> Field]
    BY <1>4, <1>5
  <2>. QED
    BY <1>1, <2>1
<1>7. WitnessPath(b) = [l \in 1 .. n |-> IF l = 1 /\ b.mutation = "MerklePath"
                                        THEN Plus(path[l], 1) ELSE path[l]]
  BY <1>2 DEF WitnessPath
<1>8. ASSUME NEW x \in Field PROVE Plus(x, 1) \in Field /\ Plus(x, 1) # x
  <2>1. 1 \in Field
    BY FieldValues
  <2>2. Plus(x, 1) \in Field /\ Plus(x, 1) = (IF x + 1 < P THEN x + 1 ELSE x + 1 - P)
    BY <2>1, FieldOps, PlusIs
  <2>3. P \in Nat \ {0, 1} /\ x \in Nat
    BY FieldAssumption DEF Field
  <2>. QED
    BY <2>2, <2>3
<1>9. WitnessPath(b) \in [1 .. n -> Field]
  BY <1>4, <1>7, <1>8
<1>10. WitnessPath(b) \in Seq(Field) /\ Len(WitnessPath(b)) = n
  BY <1>1, <1>9
<1>11. b.mutation # "MerklePath" => WitnessPath(b) = path
  BY <1>5, <1>7
<1>12. b.mutation = "MerklePath" /\ n # 0
         => WitnessPath(b)[1] # path[1] /\ \A l \in 2 .. n : WitnessPath(b)[l] = path[l]
  <2> SUFFICES ASSUME b.mutation = "MerklePath", n # 0
               PROVE  WitnessPath(b)[1] # path[1] /\ \A l \in 2 .. n : WitnessPath(b)[l] = path[l]
    OBVIOUS
  <2>1. 1 \in 1 .. n /\ \A l \in 2 .. n : l \in 1 .. n /\ l # 1
    BY <1>1
  <2>2. path[1] \in Field /\ WitnessPath(b)[1] = Plus(path[1], 1)
    BY <1>4, <1>7, <2>1
  <2>. QED
    BY <1>7, <1>8, <2>1, <2>2
<1>. QED
  BY <1>2, <1>6, <1>10, <1>11, <1>12


-------------------------------------------------------------------------------
(* What is done when the n-th call is due *)

\* The credentials opened before the n-th call.
CredentialsDone(b, n) ==
  IF n <= First(b) + 1 THEN n - 1
  ELSE IF n <= First(b) + Middle(b) + 1 THEN First(b)
  ELSE IF n <= b.shape.count + Middle(b) + 1 THEN n - 1 - Middle(b)
  ELSE b.shape.count

\* The revocation trees checked before the n-th call.
TreesDone(b, n) ==
  IF n <= First(b) + 3 + Ranged(b) THEN 0
  ELSE IF n <= First(b) + Middle(b) + 1 THEN n - (First(b) + 3 + Ranged(b))
  ELSE b.shape.revocations

\* The calls that were made before the n-th one.
Asked(b, n) == n > First(b) + 1

Disclosed(b, n) == n > First(b) + 2

Compared(b, n) == b.shape.range /\ n > First(b) + 3

Crossed(b, n) == Crosses(b) /\ n > b.shape.count + Middle(b) + 1

\* Nothing is done before the first call; after the last one, everything is.
LEMMA DoneEnds ==
  ASSUME NEW b \in Builds
  PROVE  /\ CredentialsDone(b, 1) = 0 /\ TreesDone(b, 1) = 0
         /\ ~Asked(b, 1) /\ ~Disclosed(b, 1) /\ ~Compared(b, 1) /\ ~Crossed(b, 1)
         /\ Fit(b) => LET n == Total(b) + 1
                      IN  /\ Total(b) \in Nat /\ n \in Nat
                          /\ CredentialsDone(b, n) = b.shape.count
                          /\ TreesDone(b, n) = b.shape.revocations
                          /\ Asked(b, n) /\ Disclosed(b, n)
                          /\ Compared(b, n) = b.shape.range
                          /\ Crossed(b, n) = Crosses(b)
<1>1. First(b) \in Nat /\ Ranged(b) \in 0 .. 1 /\ b.shape.revocations \in Nat /\ b.shape.count \in Nat
      /\ b.shape.range \in BOOLEAN
  BY BuildAssumption DEF Build, Shape, First, Ranged
<1>2. Middle(b) = 2 + Ranged(b) + b.shape.revocations /\ Middle(b) \in Nat
  BY <1>1 DEF Middle
<1>3. /\ CredentialsDone(b, 1) = 0 /\ TreesDone(b, 1) = 0
      /\ ~Asked(b, 1) /\ ~Disclosed(b, 1) /\ ~Compared(b, 1) /\ ~Crossed(b, 1)
  BY <1>1, <1>2 DEF CredentialsDone, TreesDone, Asked, Disclosed, Compared, Crossed
<1>4. ASSUME Fit(b)
      PROVE  LET n == Total(b) + 1
             IN  /\ Total(b) \in Nat /\ n \in Nat
                 /\ CredentialsDone(b, n) = b.shape.count
                 /\ TreesDone(b, n) = b.shape.revocations
                 /\ Asked(b, n) /\ Disclosed(b, n)
                 /\ Compared(b, n) = b.shape.range
                 /\ Crossed(b, n) = Crosses(b)
  <2>1. First(b) \in 1 .. b.shape.count /\ Crosses(b) \in BOOLEAN
        /\ (b.shape.range => Ranged(b) = 1)
    BY <1>4, ShapeFacts DEF First, Crosses, Ranged
  <2>2. Total(b) = b.shape.count + Middle(b) + (IF Crosses(b) THEN 1 ELSE 0)
    BY DEF Total
  <2>. QED
    BY <1>1, <1>2, <2>1, <2>2 DEF CredentialsDone, TreesDone, Asked, Disclosed, Compared, Crossed
<1>. QED
  BY <1>3, <1>4

\* None of these calls is the n-th.
Unchanged(b, n) ==
  /\ Asked(b, n + 1) <=> Asked(b, n)
  /\ Disclosed(b, n + 1) <=> Disclosed(b, n)
  /\ Compared(b, n + 1) <=> Compared(b, n)
  /\ Crossed(b, n + 1) <=> Crossed(b, n)

\* What a call finds done and what it adds.
StepAdds(b, n, kind, i) ==
  /\ kind = "credential" =>
       /\ i \in 1 .. b.shape.count /\ CredentialsDone(b, n) = i - 1
       /\ CredentialsDone(b, n + 1) = i /\ TreesDone(b, n + 1) = TreesDone(b, n)
       /\ Unchanged(b, n)
       /\ Asked(b, n) \/ Disclosed(b, n) \/ Compared(b, n) => i # 1
       /\ TreesDone(b, n) \in 0 .. i - 1
       /\ ~Crossed(b, n)
  /\ kind # "credential" =>
       /\ CredentialsDone(b, n) \in 1 .. b.shape.count
       /\ CredentialsDone(b, n + 1) = CredentialsDone(b, n)
  /\ kind # "revocation" => TreesDone(b, n + 1) = TreesDone(b, n)
  /\ kind = "request" =>
       /\ ~Asked(b, n) /\ ~Disclosed(b, n) /\ ~Compared(b, n) /\ ~Crossed(b, n)
       /\ Asked(b, n + 1) /\ ~Disclosed(b, n + 1) /\ ~Compared(b, n + 1) /\ ~Crossed(b, n + 1)
  /\ kind = "disclosure" =>
       /\ Asked(b, n) /\ ~Disclosed(b, n) /\ ~Compared(b, n) /\ ~Crossed(b, n)
       /\ Asked(b, n + 1) /\ Disclosed(b, n + 1) /\ ~Compared(b, n + 1) /\ ~Crossed(b, n + 1)
  /\ kind = "range" =>
       /\ Asked(b, n) /\ Disclosed(b, n) /\ ~Compared(b, n) /\ ~Crossed(b, n) /\ b.shape.range
       /\ Asked(b, n + 1) /\ Disclosed(b, n + 1) /\ Compared(b, n + 1) /\ ~Crossed(b, n + 1)
  /\ kind = "revocation" =>
       /\ i \in 1 .. b.shape.revocations /\ TreesDone(b, n) = i - 1 /\ TreesDone(b, n + 1) = i
       /\ i <= CredentialsDone(b, n)
       /\ Unchanged(b, n)
  /\ kind = "cross" =>
       /\ Crosses(b) /\ CredentialsDone(b, n) = 2
       /\ Asked(b, n) /\ Disclosed(b, n) /\ (b.shape.range => Compared(b, n))
       /\ Asked(b, n + 1) /\ Disclosed(b, n + 1)
       /\ ~Crossed(b, n) /\ Crossed(b, n + 1)

\* The n-th call finds done what the calls before it do, and adds its own.
LEMMA StepsAdd ==
  ASSUME NEW b \in Builds, Fit(b), NEW n \in 1 .. Len(Steps(b)), NEW kind, NEW i,
         Steps(b)[n] = <<kind, i>>
  PROVE  n \in 1 .. Total(b) /\ StepAdds(b, n, kind, i)
<1> DEFINE c == b.shape.count
           r == b.shape.revocations
           f == First(b)
           g == Ranged(b)
           m == Middle(b)
<1>1. /\ f \in 1 .. c /\ c \in Nat /\ r \in 0 .. c /\ g \in 0 .. 1 /\ m = 2 + g + r /\ m \in Nat
      /\ b.shape.range \in BOOLEAN /\ (b.shape.range <=> g = 1)
      /\ Crosses(b) \in BOOLEAN /\ (Crosses(b) => c = 2)
      /\ f # c => r <= 1 /\ f = 1
  BY ShapeFacts DEF First, Ranged, Middle, Crosses
<1>2. /\ n \in 1 .. Total(b) /\ StepAt(b, n) = <<kind, i>>
      /\ Total(b) = c + m + (IF Crosses(b) THEN 1 ELSE 0)
  BY StepsAre DEF Total
<1>3. n \in Nat /\ n + 1 \in Nat /\ n >= 1 /\ n <= c + m + 1 /\ (n = c + m + 1 => Crosses(b))
  BY <1>1, <1>2
<1>4. \/ kind = "credential" /\ i = n /\ n <= f
      \/ kind = "request" /\ n = f + 1
      \/ kind = "disclosure" /\ n = f + 2
      \/ kind = "range" /\ n = f + 3 /\ g = 1
      \/ kind = "revocation" /\ i = n - (f + 2 + g) /\ n > f + 2 + g /\ n <= f + m
      \/ kind = "credential" /\ i = n - m /\ n > f + m /\ n <= c + m
      \/ kind = "cross" /\ n = c + m + 1
  <2>1. /\ n <= f => <<kind, i>> = <<"credential", n>>
        /\ n = f + 1 => <<kind, i>> = <<"request", 0>>
        /\ n = f + 2 => <<kind, i>> = <<"disclosure", 0>>
        /\ n = f + 3 /\ g = 1 => <<kind, i>> = <<"range", 0>>
        /\ n > f + 2 + g /\ n <= f + m => <<kind, i>> = <<"revocation", n - (f + 2 + g)>>
        /\ n > f + m /\ n <= c + m => <<kind, i>> = <<"credential", n - m>>
        /\ n = c + m + 1 => <<kind, i>> = <<"cross", 0>>
    <3> DEFINE s == <<kind, i>>
    <3>1. s = IF n <= f THEN <<"credential", n>>
              ELSE IF n = f + 1 THEN <<"request", 0>>
              ELSE IF n = f + 2 THEN <<"disclosure", 0>>
              ELSE IF n <= f + 2 + g THEN <<"range", 0>>
              ELSE IF n <= f + m THEN <<"revocation", n - (f + 2 + g)>>
              ELSE IF n <= c + m THEN <<"credential", n - m>>
              ELSE <<"cross", 0>>
      BY <1>2 DEF StepAt
    <3>2. f \in Nat /\ g \in 0 .. 1 /\ m \in Nat /\ c \in Nat /\ f <= c /\ 2 + g <= m
      BY <1>1
    <3> HIDE DEF s, f, g, m, c, r
    <3>3. n <= f => s = <<"credential", n>>
      BY <3>1
    <3>4. n = f + 1 => s = <<"request", 0>>
      BY <1>3, <3>1, <3>2
    <3>5. n = f + 2 => s = <<"disclosure", 0>>
      BY <1>3, <3>1, <3>2
    <3>6. n = f + 3 /\ g = 1 => s = <<"range", 0>>
      BY <1>3, <3>1, <3>2
    <3>7. n > f + 2 + g /\ n <= f + m => s = <<"revocation", n - (f + 2 + g)>>
      BY <1>3, <3>1, <3>2
    <3>8. n > f + m /\ n <= c + m => s = <<"credential", n - m>>
      BY <1>3, <3>1, <3>2
    <3>9. n = c + m + 1 => s = <<"cross", 0>>
      BY <1>3, <3>1, <3>2
    <3>. QED
      BY <3>3, <3>4, <3>5, <3>6, <3>7, <3>8, <3>9 DEF s
  <2>2. \A x, y : <<kind, i>> = <<x, y>> => kind = x /\ i = y
    OBVIOUS
  <2> DEFINE s == <<kind, i>>
  <2>3. /\ s = <<"credential", n>> => kind = "credential" /\ i = n
        /\ s = <<"request", 0>> => kind = "request"
        /\ s = <<"disclosure", 0>> => kind = "disclosure"
        /\ s = <<"range", 0>> => kind = "range"
        /\ s = <<"revocation", n - (f + 2 + g)>> => kind = "revocation" /\ i = n - (f + 2 + g)
        /\ s = <<"credential", n - m>> => kind = "credential" /\ i = n - m
        /\ s = <<"cross", 0>> => kind = "cross"
    BY <2>2
  <2>4. \/ n <= f \/ n = f + 1 \/ n = f + 2 \/ (n = f + 3 /\ g = 1)
        \/ (n > f + 2 + g /\ n <= f + m) \/ (n > f + m /\ n <= c + m) \/ n = c + m + 1
    <3>1. f \in Nat /\ g \in 0 .. 1 /\ m \in Nat /\ c \in Nat
      BY <1>1
    <3> HIDE DEF f, g, m, c, r
    <3>. QED
      BY <1>3, <3>1
  <2> HIDE DEF s, f, g, m, c, r
  <2>5. /\ n <= f => kind = "credential" /\ i = n
        /\ n = f + 1 => kind = "request"
        /\ n = f + 2 => kind = "disclosure"
        /\ (n = f + 3 /\ g = 1) => kind = "range"
        /\ (n > f + 2 + g /\ n <= f + m) => kind = "revocation" /\ i = n - (f + 2 + g)
        /\ (n > f + m /\ n <= c + m) => kind = "credential" /\ i = n - m
        /\ n = c + m + 1 => kind = "cross"
    BY <2>1, <2>3 DEF s
  <2>. QED
    BY <2>4, <2>5
<1> HIDE DEF c, r, f, g, m
<1>5. ASSUME NEW k \in Nat
      PROVE  /\ k <= f + 1 => CredentialsDone(b, k) = k - 1
             /\ k > f + 1 /\ k <= f + m + 1 => CredentialsDone(b, k) = f
             /\ k > f + m + 1 /\ k <= c + m + 1 => CredentialsDone(b, k) = k - 1 - m
             /\ k > c + m + 1 => CredentialsDone(b, k) = c
             /\ k <= f + 3 + g => TreesDone(b, k) = 0
             /\ k > f + 3 + g /\ k <= f + m + 1 => TreesDone(b, k) = k - (f + 3 + g)
             /\ k > f + 3 + g /\ k > f + m + 1 => TreesDone(b, k) = r
             /\ Asked(b, k) <=> k > f + 1
             /\ Disclosed(b, k) <=> k > f + 2
             /\ Compared(b, k) <=> b.shape.range /\ k > f + 3
             /\ Crossed(b, k) <=> Crosses(b) /\ k > c + m + 1
  <2>1. /\ CredentialsDone(b, k) = (IF k <= f + 1 THEN k - 1
                                   ELSE IF k <= f + m + 1 THEN f
                                   ELSE IF k <= c + m + 1 THEN k - 1 - m
                                   ELSE c)
        /\ TreesDone(b, k) = (IF k <= f + 3 + g THEN 0
                             ELSE IF k <= f + m + 1 THEN k - (f + 3 + g)
                             ELSE r)
    BY Zenon DEF CredentialsDone, TreesDone, c, r, f, g, m
  <2>2. f <= c
    BY <1>1
  <2>3. /\ k <= f + 1 => CredentialsDone(b, k) = k - 1
        /\ k > f + 1 /\ k <= f + m + 1 => CredentialsDone(b, k) = f
        /\ k > f + m + 1 /\ k <= c + m + 1 => CredentialsDone(b, k) = k - 1 - m
        /\ k > c + m + 1 => CredentialsDone(b, k) = c
    BY <1>1, <2>1, <2>2
  <2>4. /\ k <= f + 3 + g => TreesDone(b, k) = 0
        /\ k > f + 3 + g /\ k <= f + m + 1 => TreesDone(b, k) = k - (f + 3 + g)
        /\ k > f + 3 + g /\ k > f + m + 1 => TreesDone(b, k) = r
    BY <1>1, <2>1
  <2>5. /\ Asked(b, k) <=> k > f + 1
        /\ Disclosed(b, k) <=> k > f + 2
        /\ Compared(b, k) <=> b.shape.range /\ k > f + 3
        /\ Crossed(b, k) <=> Crosses(b) /\ k > c + m + 1
    BY DEF Asked, Disclosed, Compared, Crossed, c, r, f, g, m
  <2>. QED
    BY <2>3, <2>4, <2>5
<1>6. b.shape.count = c /\ b.shape.revocations = r
  BY DEF c, r
<1>7. /\ f \in Nat /\ f >= 1 /\ g \in Nat /\ r \in Nat /\ m = 2 + g + r /\ m \in Nat
      /\ c \in Nat /\ f <= c /\ r <= c /\ n \in Nat /\ n >= 1
  BY <1>1, <1>3
<1>8. /\ Asked(b, n + 1) <=> n > f
      /\ Disclosed(b, n + 1) <=> n > f + 1
      /\ Compared(b, n + 1) <=> b.shape.range /\ n > f + 2
      /\ Crossed(b, n + 1) <=> Crosses(b) /\ n > c + m
  <2> DEFINE k == n + 1
  <2>1. /\ k \in Nat /\ (k > f + 1 <=> n > f) /\ (k > f + 2 <=> n > f + 1)
        /\ (k > f + 3 <=> n > f + 2) /\ (k > c + m + 1 <=> n > c + m)
    BY <1>7
  <2>2. /\ Asked(b, k) <=> n > f
        /\ Disclosed(b, k) <=> n > f + 1
        /\ Compared(b, k) <=> b.shape.range /\ n > f + 2
        /\ Crossed(b, k) <=> Crosses(b) /\ n > c + m
    <3> HIDE DEF k
    <3>. QED
      BY <1>5, <2>1
  <2>. QED
    BY <2>2
<1>9. /\ Asked(b, n) <=> n > f + 1
      /\ Disclosed(b, n) <=> n > f + 2
      /\ Compared(b, n) <=> b.shape.range /\ n > f + 3
      /\ Crossed(b, n) <=> Crosses(b) /\ n > c + m + 1
  BY <1>3, <1>5
<1>10. /\ n <= f => CredentialsDone(b, n + 1) = n
       /\ n > f /\ n <= f + m => CredentialsDone(b, n + 1) = f
       /\ n > f + m /\ n <= c + m => CredentialsDone(b, n + 1) = n - m
       /\ n > c + m => CredentialsDone(b, n + 1) = c
  <2> DEFINE k == n + 1
  <2>1. /\ k \in Nat /\ (k <= f + 1 <=> n <= f) /\ (k > f + 1 <=> n > f)
        /\ (k > f + m + 1 <=> n > f + m) /\ (k <= f + m + 1 <=> n <= f + m)
        /\ (k > c + m + 1 <=> n > c + m) /\ (k <= c + m + 1 <=> n <= c + m)
        /\ k - 1 = n /\ k - 1 - m = n - m
    BY <1>7
  <2>2. /\ n <= f => CredentialsDone(b, k) = n
        /\ n > f /\ n <= f + m => CredentialsDone(b, k) = f
        /\ n > f + m /\ n <= c + m => CredentialsDone(b, k) = n - m
        /\ n > c + m => CredentialsDone(b, k) = c
    <3> HIDE DEF k
    <3>. QED
      BY <1>5, <2>1
  <2>. QED
    BY <2>2
<1>11. /\ n <= f + 2 + g => TreesDone(b, n + 1) = 0
       /\ n > f + 2 + g /\ n <= f + m => TreesDone(b, n + 1) = n - (f + 2 + g)
       /\ n > f + 2 + g /\ n > f + m => TreesDone(b, n + 1) = r
  <2> DEFINE k == n + 1
  <2>1. /\ k \in Nat /\ (k <= f + 3 + g <=> n <= f + 2 + g) /\ (k > f + 3 + g <=> n > f + 2 + g)
        /\ (k > f + m + 1 <=> n > f + m) /\ (k <= f + m + 1 <=> n <= f + m)
        /\ k - (f + 3 + g) = n - (f + 2 + g)
    BY <1>7
  <2>2. /\ n <= f + 2 + g => TreesDone(b, k) = 0
        /\ n > f + 2 + g /\ n <= f + m => TreesDone(b, k) = n - (f + 2 + g)
        /\ n > f + 2 + g /\ n > f + m => TreesDone(b, k) = r
    <3> HIDE DEF k
    <3>. QED
      BY <1>5, <2>1
  <2>. QED
    BY <2>2
<1>12. /\ n <= f + 1 => CredentialsDone(b, n) = n - 1
       /\ n > f /\ n <= f + m + 1 => CredentialsDone(b, n) = f
       /\ n > f + m /\ n <= c + m + 1 => CredentialsDone(b, n) = n - 1 - m
  <2>1. /\ n <= f + 1 => CredentialsDone(b, n) = n - 1
        /\ n > f + 1 /\ n <= f + m + 1 => CredentialsDone(b, n) = f
        /\ n > f + m + 1 /\ n <= c + m + 1 => CredentialsDone(b, n) = n - 1 - m
    BY <1>3, <1>5
  <2>2. n = f + 1 => n - 1 = f /\ n <= f + 1
    BY <1>7
  <2>3. n = f + m + 1 => n - 1 - m = f /\ n > f + 1 /\ n <= f + m + 1
    BY <1>7
  <2>4. (n > f => n = f + 1 \/ n > f + 1) /\ (n > f + m => n = f + m + 1 \/ n > f + m + 1)
    BY <1>7
  <2>. QED
    BY <2>1, <2>2, <2>3, <2>4
<1>13. /\ n <= f + 3 + g => TreesDone(b, n) = 0
       /\ n > f + 2 + g /\ n <= f + m + 1 => TreesDone(b, n) = n - (f + 3 + g)
       /\ n > f + m => TreesDone(b, n) = r
  <2>1. /\ n <= f + 3 + g => TreesDone(b, n) = 0
        /\ n > f + 3 + g /\ n <= f + m + 1 => TreesDone(b, n) = n - (f + 3 + g)
        /\ n > f + 3 + g /\ n > f + m + 1 => TreesDone(b, n) = r
    BY <1>3, <1>5
  <2>2. n = f + 3 + g => n - (f + 3 + g) = 0 /\ n <= f + 3 + g
    BY <1>7
  <2>3. n = f + m + 1 => n - (f + 3 + g) = r /\ n <= f + m + 1 /\ n > f + 2 + g
    BY <1>7
  <2>4. /\ n > f + 2 + g => n = f + 3 + g \/ n > f + 3 + g
        /\ n > f + m => n = f + m + 1 \/ (n > f + m + 1 /\ n > f + 3 + g)
    BY <1>7
  <2>5. n > f + 2 + g /\ n <= f + m + 1 => TreesDone(b, n) = n - (f + 3 + g)
    BY <2>1, <2>2, <2>4
  <2>. QED
    BY <2>1, <2>3, <2>4, <2>5
<1>14. ASSUME kind = "credential", i = n, n <= f PROVE StepAdds(b, n, kind, i)
  <2>1. /\ CredentialsDone(b, n) = n - 1 /\ CredentialsDone(b, n + 1) = n
        /\ TreesDone(b, n) = 0 /\ TreesDone(b, n + 1) = 0
    BY <1>14, <1>7, <1>10, <1>11, <1>12, <1>13
  <2>2. /\ ~Asked(b, n) /\ ~Disclosed(b, n) /\ ~Compared(b, n) /\ ~Crossed(b, n)
    BY <1>14, <1>7, <1>9
  <2>3. /\ ~Asked(b, n + 1) /\ ~Disclosed(b, n + 1) /\ ~Compared(b, n + 1) /\ ~Crossed(b, n + 1)
    BY <1>14, <1>7, <1>8
  <2>4. i \in 1 .. c /\ 0 \in 0 .. i - 1
    BY <1>14, <1>7
  <2>. QED
    BY <1>6, <1>14, <2>1, <2>2, <2>3, <2>4 DEF StepAdds, Unchanged
<1>15. ASSUME kind = "credential", i = n - m, n > f + m, n <= c + m PROVE StepAdds(b, n, kind, i)
  <2>1. /\ CredentialsDone(b, n) = i - 1 /\ CredentialsDone(b, n + 1) = i
    <3>1. n <= c + m + 1 /\ n - 1 - m = i - 1
      BY <1>15, <1>7
    <3>. QED
      BY <1>15, <1>10, <1>12, <3>1
  <2>2. TreesDone(b, n) = r /\ TreesDone(b, n + 1) = r
    BY <1>15, <1>7, <1>11, <1>13
  <2>3. /\ Asked(b, n) /\ Disclosed(b, n) /\ (Compared(b, n) <=> b.shape.range) /\ ~Crossed(b, n)
    <3>1. n > f + 1 /\ n > f + 2 /\ (b.shape.range => n > f + 3) /\ ~(n > c + m + 1)
      BY <1>1, <1>15, <1>7
    <3>. QED
      BY <1>9, <3>1
  <2>4. /\ Asked(b, n + 1) /\ Disclosed(b, n + 1) /\ (Compared(b, n + 1) <=> b.shape.range)
        /\ ~Crossed(b, n + 1)
    <3>1. n > f /\ n > f + 1 /\ n > f + 2 /\ ~(n > c + m)
      BY <1>15, <1>7
    <3>2. b.shape.range => n > f + 2
      BY <3>1
    <3>. QED
      BY <1>8, <3>1, <3>2
  <2>5. i \in 1 .. c /\ i # 1 /\ r \in 0 .. i - 1
    <3>1. i \in Nat /\ i > f /\ i <= c
      BY <1>15, <1>7
    <3>2. f # c
      BY <1>7, <3>1
    <3>. QED
      BY <1>1, <3>1, <3>2
  <2>. QED
    BY <1>6, <1>15, <2>1, <2>2, <2>3, <2>4, <2>5 DEF StepAdds, Unchanged
<1>16. ASSUME kind = "request", n = f + 1 PROVE StepAdds(b, n, kind, i)
  <2>1. CredentialsDone(b, n) = f /\ CredentialsDone(b, n + 1) = f
    BY <1>16, <1>7, <1>10, <1>12
  <2>2. TreesDone(b, n) = 0 /\ TreesDone(b, n + 1) = 0
    BY <1>16, <1>7, <1>11, <1>13
  <2>3. ~Asked(b, n) /\ ~Disclosed(b, n) /\ ~Compared(b, n) /\ ~Crossed(b, n)
    BY <1>16, <1>7, <1>9
  <2>4. Asked(b, n + 1) /\ ~Disclosed(b, n + 1) /\ ~Compared(b, n + 1) /\ ~Crossed(b, n + 1)
    BY <1>16, <1>7, <1>8
  <2>5. f \in 1 .. c
    BY <1>1
  <2>. QED
    BY <1>6, <1>16, <2>1, <2>2, <2>3, <2>4, <2>5 DEF StepAdds
<1>17. ASSUME kind = "disclosure", n = f + 2 PROVE StepAdds(b, n, kind, i)
  <2>1. CredentialsDone(b, n) = f /\ CredentialsDone(b, n + 1) = f
    BY <1>17, <1>7, <1>10, <1>12
  <2>2. TreesDone(b, n) = 0 /\ TreesDone(b, n + 1) = 0
    BY <1>17, <1>7, <1>11, <1>13
  <2>3. Asked(b, n) /\ ~Disclosed(b, n) /\ ~Compared(b, n) /\ ~Crossed(b, n)
    BY <1>17, <1>7, <1>9
  <2>4. Asked(b, n + 1) /\ Disclosed(b, n + 1) /\ ~Compared(b, n + 1) /\ ~Crossed(b, n + 1)
    BY <1>17, <1>7, <1>8
  <2>5. f \in 1 .. c
    BY <1>1
  <2>. QED
    BY <1>6, <1>17, <2>1, <2>2, <2>3, <2>4, <2>5 DEF StepAdds
<1>18. ASSUME kind = "range", n = f + 3, g = 1 PROVE StepAdds(b, n, kind, i)
  <2>1. CredentialsDone(b, n) = f /\ CredentialsDone(b, n + 1) = f
    BY <1>18, <1>7, <1>10, <1>12
  <2>2. TreesDone(b, n) = 0 /\ TreesDone(b, n + 1) = 0
    BY <1>18, <1>7, <1>11, <1>13
  <2>3. b.shape.range /\ f \in 1 .. c
    BY <1>1, <1>18
  <2>4. Asked(b, n) /\ Disclosed(b, n) /\ ~Compared(b, n) /\ ~Crossed(b, n)
    BY <1>18, <1>7, <1>9
  <2>5. Asked(b, n + 1) /\ Disclosed(b, n + 1) /\ Compared(b, n + 1) /\ ~Crossed(b, n + 1)
    BY <1>18, <1>7, <1>8, <2>3
  <2>. QED
    BY <1>6, <1>18, <2>1, <2>2, <2>3, <2>4, <2>5 DEF StepAdds
<1>19. ASSUME kind = "revocation", i = n - (f + 2 + g), n > f + 2 + g, n <= f + m
       PROVE  StepAdds(b, n, kind, i)
  <2>1. CredentialsDone(b, n) = f /\ CredentialsDone(b, n + 1) = f
    BY <1>19, <1>7, <1>10, <1>12
  <2>2. TreesDone(b, n) = i - 1 /\ TreesDone(b, n + 1) = i
    <3>1. n <= f + m + 1 /\ n - (f + 3 + g) = i - 1
      BY <1>19, <1>7
    <3>. QED
      BY <1>19, <1>11, <1>13, <3>1
  <2>3. i \in 1 .. r /\ f \in 1 .. c
    BY <1>1, <1>19, <1>7
  <2>4. i <= f
    <3>1. CASE f = c
      BY <1>7, <2>3, <3>1
    <3>2. CASE f # c
      BY <1>1, <2>3, <3>2
    <3>. QED
      BY <3>1, <3>2
  <2>5. /\ Asked(b, n) /\ Disclosed(b, n) /\ (Compared(b, n) <=> b.shape.range) /\ ~Crossed(b, n)
    <3>1. n > f + 1 /\ n > f + 2 /\ (b.shape.range => n > f + 3) /\ ~(n > c + m + 1)
      BY <1>1, <1>19, <1>7
    <3>. QED
      BY <1>9, <3>1
  <2>6. /\ Asked(b, n + 1) /\ Disclosed(b, n + 1) /\ (Compared(b, n + 1) <=> b.shape.range)
        /\ ~Crossed(b, n + 1)
    <3>1. n > f /\ n > f + 1 /\ n > f + 2 /\ ~(n > c + m)
      BY <1>19, <1>7
    <3>. QED
      BY <1>8, <3>1
  <2>. QED
    BY <1>6, <1>19, <2>1, <2>2, <2>3, <2>4, <2>5, <2>6 DEF StepAdds, Unchanged
<1>20. ASSUME kind = "cross", n = c + m + 1 PROVE StepAdds(b, n, kind, i)
  <2>1. CredentialsDone(b, n) = c /\ CredentialsDone(b, n + 1) = c
    BY <1>20, <1>7, <1>10, <1>12
  <2>2. TreesDone(b, n) = r /\ TreesDone(b, n + 1) = r
    BY <1>20, <1>7, <1>11, <1>13
  <2>3. Crosses(b) /\ c = 2
    BY <1>1, <1>3, <1>20
  <2>4. Asked(b, n) /\ Disclosed(b, n) /\ (b.shape.range => Compared(b, n)) /\ ~Crossed(b, n)
    <3>1. n > f + 1 /\ n > f + 2 /\ (b.shape.range => n > f + 3) /\ ~(n > c + m + 1)
      BY <1>1, <1>20, <1>7
    <3>. QED
      BY <1>9, <3>1
  <2>5. Asked(b, n + 1) /\ Disclosed(b, n + 1) /\ Crossed(b, n + 1)
    <3>1. n > f /\ n > f + 1 /\ n > c + m
      BY <1>20, <1>7
    <3>. QED
      BY <1>8, <2>3, <3>1
  <2>. QED
    BY <1>6, <1>20, <2>1, <2>2, <2>3, <2>4, <2>5 DEF StepAdds
<1>. QED
  BY <1>2, <1>4, <1>14, <1>15, <1>16, <1>17, <1>18, <1>19, <1>20


-------------------------------------------------------------------------------
(* What each call's rows say *)

\* A credential a mutation does not concern is the fixture's.
LEMMA MutatedSame ==
  ASSUME NEW b \in Builds, NEW i \in 1 .. b.shape.count, ~Broken(b, i),
         b.mutation = "Attribute" => i # 1 /\ b.profile # "mac"
  PROVE  Mutated(b, i) = Boundary(b, i)
<1> DEFINE c == Mutated(b, i)
           d == Boundary(b, i)
<1>1. c \in Opening /\ d \in Opening
  BY FixtureTyped
<1>2. /\ c.schema = d.schema /\ c.id = d.id /\ c.country = d.country /\ c.expiry = d.expiry
      /\ c.rid = d.rid /\ c.salt = d.salt /\ c.key = d.key
      /\ c.age = d.age /\ c.issuer = d.issuer /\ c.type = d.type /\ c.epoch = d.epoch
      /\ c.holder = d.holder
  BY MutatedIs DEF Broken
<1> HIDE DEF c, d
<1>3. c = d
  BY <1>1, <1>2 DEF Opening
<1>. QED
  BY <1>3 DEF c, d

\* Every credential of the fixture carries the identifier and the expiry it was
\* issued with, whatever the mutation.
LEMMA FixtureKept ==
  ASSUME NEW b \in Builds, NEW i \in 1 .. b.shape.count
  PROVE  /\ Mutated(b, i).rid = Fixture(b.profile, i).rid
         /\ Mutated(b, i).expiry = Expiry
         /\ Mutated(b, i).country = 6
         /\ Boundary(b, i).holder = 5
         /\ Boundary(b, i).age = (IF b.mutation = "Boundary" THEN MinAge ELSE Age)
<1> DEFINE d == Boundary(b, i)
<1>1. Mutated(b, i).rid = d.rid /\ Mutated(b, i).expiry = d.expiry /\ Mutated(b, i).country = d.country
  BY MutatedIs
<1>2. /\ d.rid = Fixture(b.profile, i).rid /\ d.expiry = Fixture(b.profile, i).expiry
      /\ d.holder = Fixture(b.profile, i).holder /\ d.country = Fixture(b.profile, i).country
      /\ d.age = (IF b.mutation = "Boundary" THEN MinAge ELSE Fixture(b.profile, i).age)
  BY FixtureTyped DEF Boundary, Opening
<1>3. /\ Fixture(b.profile, i).expiry = Expiry /\ Fixture(b.profile, i).holder = 5
      /\ Fixture(b.profile, i).age = Age /\ Fixture(b.profile, i).country = 6
  BY DEF Fixture
<1>. QED
  BY <1>1, <1>2, <1>3

\* The request's digest binds the holder, the nonce and the mask.
RequestHash(holder, nonce, mask) == NativeHash(<<holder, nonce, mask>>, 0, Domain.request)

\* The digest's rows leave the native digest only, and another nonce has another digest.
LEMMA RequestHashIs ==
  ASSUME NEW holder \in Field, NEW nonce \in Field, NEW mask \in Field
  PROVE  /\ RequestHash(holder, nonce, mask) \in Field
         /\ CircuitHash(<<holder, nonce, mask>>, 0, Domain.request) = {RequestHash(holder, nonce, mask)}
         /\ \A n \in Field : n # nonce => RequestHash(holder, n, mask) # RequestHash(holder, nonce, mask)
<1> DEFINE x == <<holder, nonce, mask>>
<1>1. x \in Seq(Field) /\ Len(x) = 3
  OBVIOUS
<1>2. NativeHash(x, 0, Domain.request) \in Field
      /\ CircuitHash(x, 0, Domain.request) = {NativeHash(x, 0, Domain.request)}
  <2> HIDE DEF x
  <2>. QED
    BY <1>1, FieldValues, NativeHashTyped, CircuitHashIs
<1>3. ASSUME NEW n \in Field, n # nonce
      PROVE  RequestHash(holder, n, mask) # RequestHash(holder, nonce, mask)
  <2> DEFINE y == <<holder, n, mask>>
             j == 2
  <2>1. /\ y \in Seq(Field) /\ Len(y) = Len(x) /\ j \in 1 .. Len(y) /\ y[j] # x[j]
        /\ \A i \in 1 .. Len(y) : i # j => y[i] = x[i]
    BY <1>3
  <2> HIDE DEF x, y, j
  <2>2. x \in Seq(Field) /\ 0 \in Field /\ Domain.request \in Field
    BY <1>1, FieldValues
  <2>3. NativeHash(y, 0, Domain.request) # NativeHash(x, 0, Domain.request)
    BY <2>1, <2>2, HashDiffers
  <2>. QED
    BY <2>3 DEF x, y, RequestHash
<1>. QED
  BY <1>2, <1>3 DEF RequestHash

\* Whoever supplies the witness, the comparison compares integers.
LEMMA LessEqualRowsIs ==
  ASSUME NEW left \in Field, NEW right \in Field
  PROVE  LessEqualRows(left, right) <=> left \in Word /\ right \in Word /\ left <= right
BY LessEqualOpenIs, LessEqualBuiltIs DEF LessEqualRows

\* A mask whose upper bits are zero selects among the two attributes.
LEMMA MaskBits ==
  ASSUME NEW mask \in Field
  PROVE  /\ \A bits \in [0 .. W - 1 -> Field] :
              DecomposeRows(bits, mask) /\ (\A i \in 2 .. W - 1 : bits[i] = 0)
                => /\ mask \in 0 .. 3
                   /\ bits[0] = mask % 2 /\ bits[1] = mask \div 2
         /\ mask \in 0 .. 3
              => /\ DecomposeRows(BuiltBits(mask), mask)
                 /\ \A i \in 2 .. W - 1 : BuiltBits(mask)[i] = 0
                 /\ BuiltBits(mask)[0] = mask % 2 /\ BuiltBits(mask)[1] = mask \div 2
                 /\ mask % 2 \in {0, 1} /\ mask \div 2 \in {0, 1}
                 /\ (mask \div 1) % 2 = mask % 2 /\ (mask \div 2) % 2 = mask \div 2
<1> DEFINE two == 2
<1>1. W \in Nat /\ W >= 2 /\ P \in Nat /\ TwoTo(0) = 1 /\ TwoTo(1) = 2 /\ TwoTo(two) = 4
  <2>1. TwoTo(0) = 1 /\ TwoTo(0 + 1) = 2 * TwoTo(0) /\ TwoTo(1 + 1) = 2 * TwoTo(1)
    BY TwoToPowers
  <2>. QED
    BY <2>1, FieldAssumption
<1>2. two \in 0 .. W /\ 0 \in 0 .. W - 1 /\ 1 \in 0 .. W - 1 /\ mask \in Nat
  BY <1>1 DEF Field
<1>3. 4 <= WordSize /\ WordSize \in Nat
  <2>1. TwoTo(two) <= TwoTo(W) /\ TwoTo(W) \in Nat
    <3> HIDE DEF two
    <3>. QED
      BY <1>1, <1>2, TwoToGrows, TwoToPowers
  <2>. QED
    BY <1>1, <2>1 DEF WordSize
<1>4. BuiltBits(mask)[0] = (mask \div 1) % 2 /\ BuiltBits(mask)[1] = (mask \div 2) % 2
  BY <1>1, <1>2 DEF BuiltBits
<1>5. mask \in 0 .. 3 => /\ mask % 2 \in {0, 1} /\ mask \div 2 \in {0, 1}
                         /\ (mask \div 1) % 2 = mask % 2 /\ (mask \div 2) % 2 = mask \div 2
  OBVIOUS
<1>6. mask \in Word => ((\A i \in 2 .. W - 1 : BuiltBits(mask)[i] = 0) <=> mask < 4)
  <2>1. mask \in Word => ((\A i \in two .. W - 1 : BuiltBits(mask)[i] = 0) <=> mask < TwoTo(two))
    <3> HIDE DEF two
    <3>. QED
      BY <1>2, HighBitsZero
  <2>. QED
    BY <1>1, <2>1
<1>7. ASSUME mask \in 0 .. 3
      PROVE  DecomposeRows(BuiltBits(mask), mask) /\ \A i \in 2 .. W - 1 : BuiltBits(mask)[i] = 0
  <2>1. mask \in Word /\ mask < 4
    BY <1>3, <1>7 DEF Word
  <2>. QED
    BY <1>6, <2>1, BuiltDecompose
<1>8. ASSUME NEW bits \in [0 .. W - 1 -> Field], DecomposeRows(bits, mask),
             \A i \in 2 .. W - 1 : bits[i] = 0
      PROVE  mask \in 0 .. 3 /\ bits[0] = mask % 2 /\ bits[1] = mask \div 2
  <2>1. mask \in Word /\ bits = BuiltBits(mask)
    BY <1>8, DecomposeSound
  <2>2. mask < 4
    BY <1>6, <1>8, <2>1
  <2>3. mask \in 0 .. 3
    BY <1>2, <2>2
  <2>. QED
    BY <1>4, <1>5, <2>1, <2>3
<1>. QED
  BY <1>4, <1>5, <1>7, <1>8

\* A selected attribute is the disclosed one.
LEMMA DisclosureRowIs ==
  ASSUME NEW bit \in {0, 1}, NEW value \in Field, NEW public \in Field
  PROVE  Times(bit, Minus(value, public)) = 0 <=> bit = 0 \/ public = value
<1>1. Minus(value, public) \in Field /\ (Minus(value, public) = 0 <=> public = value)
  <2>1. P \in Nat /\ value \in Nat /\ public \in Nat /\ value < P /\ public < P
    BY FieldAssumption DEF Field
  <2>. QED
    BY <2>1, FieldOps, MinusIs
<1>. QED
  BY <1>1, TimesUnit

\* With the bits of the identifier, the path's rows leave its root only; they
\* hold for an identifier that fits the tree.
LEMMA RevocationRows ==
  ASSUME NEW rid \in Field, NEW path \in Seq(Field), Len(path) \in 0 .. W, NEW leaf \in Field
  PROVE  /\ MerkleOutputs(BuiltBits(rid), path, leaf, Domain.merkle)
              = {MerkleRoot(rid, path, leaf, Domain.merkle)}
         /\ MerkleRoot(rid, path, leaf, Domain.merkle) \in Field
         /\ \A bits \in [0 .. W - 1 -> Field] :
              DecomposeRows(bits, rid) /\ (\A l \in Len(path) .. W - 1 : bits[l] = 0)
                => bits = BuiltBits(rid) /\ rid < TwoTo(Len(path))
         /\ rid < TwoTo(Len(path))
              => /\ DecomposeRows(BuiltBits(rid), rid)
                 /\ \A l \in Len(path) .. W - 1 : BuiltBits(rid)[l] = 0
<1> DEFINE d == Len(path)
<1>1. d \in 0 .. W /\ W \in Nat /\ rid \in Nat
  BY FieldAssumption DEF Field
<1>2. \A l \in 1 .. d : BuiltBits(rid)[l - 1] \in {0, 1} /\ BuiltBits(rid)[l - 1] = Side(rid, l)
  <2>1. \A l \in 1 .. d : l - 1 \in 0 .. W - 1
    BY <1>1
  <2>2. BuiltBits(rid) \in [0 .. W - 1 -> {0, 1}]
    BY <1>1, BuiltBitsAre
  <2>. QED
    BY <2>1, <2>2 DEF BuiltBits, Side
<1>3. MerkleOutputs(BuiltBits(rid), path, leaf, Domain.merkle)
        = {MerkleRoot(rid, path, leaf, Domain.merkle)}
  <2> DEFINE bits == BuiltBits(rid)
             domain == Domain.merkle
  <2>1. \A l \in 1 .. Len(path) : bits[l - 1] \in {0, 1} /\ bits[l - 1] = Side(rid, l)
    BY <1>2
  <2>2. domain \in Field
    BY FieldValues
  <2> HIDE DEF bits, domain
  <2>3. MerkleOutputs(bits, path, leaf, domain) = {MerkleRoot(rid, path, leaf, domain)}
    BY <2>1, <2>2, MerkleOutputsAre
  <2>. QED
    BY <2>3 DEF bits, domain
<1>4. MerkleRoot(rid, path, leaf, Domain.merkle) \in Field
  BY FieldValues, MerkleRootTyped
<1>5. rid \in Word => ((\A l \in d .. W - 1 : BuiltBits(rid)[l] = 0) <=> rid < TwoTo(d))
  <2> HIDE DEF d
  <2>. QED
    BY <1>1, HighBitsZero
<1>6. \A bits \in [0 .. W - 1 -> Field] :
        DecomposeRows(bits, rid) => rid \in Word /\ bits = BuiltBits(rid)
  BY DecomposeSound
<1>7. rid < TwoTo(d) => rid \in Word
  <2>1. TwoTo(d) <= TwoTo(W) /\ TwoTo(d) \in Nat /\ TwoTo(W) \in Nat
    <3>1. d \in Nat
      BY <1>1
    <3> HIDE DEF d
    <3>2. TwoTo(d) <= TwoTo(W)
      BY <1>1, TwoToGrows
    <3>. QED
      BY <1>1, <3>1, <3>2, TwoToPowers
  <2>. QED
    BY <1>1, <2>1 DEF Word, WordSize
<1>. QED
  BY <1>3, <1>4, <1>5, <1>6, <1>7, BuiltDecompose


\* The supplied claim opens the mutated credential unless a mutation concerns it.
LEMMA BuiltClaimIs ==
  ASSUME NEW b \in Builds, NEW i \in 1 .. b.shape.count
  PROVE  /\ BuiltClaim(b, i) \in Field
         /\ Broken(b, i) \/ (i = 1 /\ b.mutation = "Claim")
              => BuiltClaim(b, i) # NativeClaim(b.profile, Mutated(b, i))
         /\ b.mutation \notin {"Attribute", "Claim"} /\ ~Broken(b, i)
              => BuiltClaim(b, i) = NativeClaim(b.profile, Mutated(b, i))
<1> DEFINE valid == NativeClaim(b.profile, Boundary(b, i))
<1>1. b.profile \in {"mac", "sig"} /\ Boundary(b, i) \in Opening
  BY BuildAssumption, FixtureTyped DEF Build
<1>2. valid \in Field
  BY <1>1, ClaimIs
<1>3. BuiltClaim(b, i) = IF b.mutation = "Claim" /\ i = 1 THEN Plus(valid, 1) ELSE valid
  BY DEF BuiltClaim
<1>4. Plus(valid, 1) \in Field /\ Plus(valid, 1) # valid
  <2> HIDE DEF valid
  <2>1. 1 \in Field
    BY FieldValues
  <2>2. Plus(valid, 1) \in Field /\ Plus(valid, 1) = (IF valid + 1 < P THEN valid + 1 ELSE valid + 1 - P)
    BY <1>2, <2>1, FieldOps, PlusIs
  <2>3. P \in Nat \ {0, 1} /\ valid \in Nat
    BY <1>2, FieldAssumption DEF Field
  <2>. QED
    BY <2>2, <2>3
<1>5. Broken(b, i) => b.mutation # "Claim" /\ NativeClaim(b.profile, Mutated(b, i)) # valid
  BY ClaimBroken DEF Broken
<1>6. b.mutation # "Attribute" /\ ~Broken(b, i) => NativeClaim(b.profile, Mutated(b, i)) = valid
  BY MutatedSame
<1>7. b.mutation = "Claim" => ~Broken(b, i) /\ b.mutation # "Attribute"
  BY DEF Broken
<1> HIDE DEF valid
<1>. QED
  BY <1>2, <1>3, <1>4, <1>5, <1>6, <1>7

-------------------------------------------------------------------------------
(* The inductive invariant *)

\* What the request call and the disclosure have allocated, and what a revocation has.
Request == [nonce : Field, mask : Field, digest : Field, age : Field, country : Field]

Tree == [path : Seq(Field), root : Field]

\* The types of the wires and of the build.
RelationTypeOK ==
  /\ build \in Builds
  /\ creds \in Seq(Opening)
  /\ claims \in Seq(Field)
  /\ request \in Request
  /\ today \in Field
  /\ trees \in Seq(Tree)
  /\ sat \in BOOLEAN
  /\ size \in [rows : Nat, vars : Nat]
  /\ outcome \in {"building", "refused", "panicked", "built", "tooSmall"}

\* The wires there are follow from the calls that have been made.
Progress ==
  /\ ~Fit(build) => at = 1 /\ outcome \in {"building", "refused"}
  /\ Fit(build) => /\ at \in 1 .. Total(build) + 1
                   /\ outcome \in {"built", "tooSmall"} => at = Total(build) + 1
                   /\ outcome # "refused"
  /\ Len(creds) = CredentialsDone(build, at)
  /\ Len(claims) = Len(creds)
  /\ Len(trees) = TreesDone(build, at)

\* What the rows so far say of whatever satisfies them.
RowsSay ==
  sat /\ build.mutation = "Valid" =>
    /\ OpeningsTrue
    /\ build.wk => SameHolder
    /\ Asked(build, at) =>
         request.digest = NativeHash(<<creds[1].holder, request.nonce, request.mask>>, 0, Domain.request)
    /\ Disclosed(build, at) => RequestTrue
    /\ Compared(build, at) => RangeTrue
    /\ RevocationTrue
    /\ Crossed(build, at) => creds[1].holder = creds[2].holder /\ creds[1].age = creds[2].age

\* The wires of the builder's own witness.
WitnessKnown ==
  Code => /\ \A i \in 1 .. Len(creds) : creds[i] = Mutated(build, i)
          /\ Asked(build, at) => request.mask = build.shape.mask

\* A witness no audit expects to be rejected has broken no row.
NothingBroken == Code /\ ~Rejected(build) /\ Reachable(build) => sat

\* The call a mutation concerns has broken a row.
MutationSeen ==
  LET m == build.mutation
  IN  Code /\ sat =>
        /\ m \in {"Attribute", "Issuer", "Holder", "CredentialType", "IssuanceEpoch", "Claim"}
             => Len(creds) = 0
        /\ m = "CrossCredential" => Len(creds) < 2
        /\ m = "Nonce" => ~Asked(build, at)
        /\ m = "Expired" => ~Compared(build, at)
        /\ m \in {"Revoked", "StaleRoot", "MerklePath"} => Len(trees) = 0
        /\ \A i \in 1 .. Len(trees) : Fixture(build.profile, i).rid < TwoTo(build.shape.depth)

\* The inductive invariant.
RelationInv ==
  /\ RelationTypeOK
  /\ Progress
  /\ RowsSay
  /\ WitnessKnown
  /\ NothingBroken
  /\ MutationSeen

\* A sequence with one element more.
LEMMA AppendIs ==
  ASSUME NEW T, NEW s \in Seq(T), NEW x \in T
  PROVE  /\ Append(s, x) \in Seq(T) /\ Len(Append(s, x)) = Len(s) + 1
         /\ \A j \in 1 .. Len(s) : Append(s, x)[j] = s[j]
         /\ Append(s, x)[Len(s) + 1] = x
OBVIOUS

\* Rows and variables are counted in natural numbers.
LEMMA PerHashTyped ==
  ASSUME NEW blocks \in Nat
  PROVE  PerHash(blocks) \in Nat
<1>1. 4 * Rounds + 1 \in Nat
  BY RoundAssumption
<1> DEFINE each == 4 * Rounds + 1
<1>2. blocks * each \in Nat
  <2> HIDE DEF each
  <2>. QED
    BY <1>1 DEF each
<1>. QED
  BY <1>2 DEF PerHash

\* A call adds to the sizes.
LEMMA AddsTyped ==
  ASSUME RelationTypeOK, NEW rows \in Nat, NEW variables \in Nat, Adds(rows, variables)
  PROVE  size' \in [rows : Nat, vars : Nat]
<1>1. size.rows \in Nat /\ size.vars \in Nat
  BY DEF RelationTypeOK
<1>. QED
  BY <1>1 DEF Adds

\* What is known when a call is due.
LEMMA DueIs ==
  ASSUME RelationInv, NEW kind, NEW i, Due(kind, i)
  PROVE  /\ build \in Builds /\ Fit(build) /\ outcome = "building"
         /\ at \in 1 .. Total(build)
         /\ StepAdds(build, at, kind, i)
         /\ Len(creds) = CredentialsDone(build, at)
         /\ Len(claims) = Len(creds)
         /\ Len(trees) = TreesDone(build, at)
<1>1. build \in Builds /\ Fit(build) /\ outcome = "building"
  BY DEF RelationInv, RelationTypeOK, Due, Fit
<1>2. at \in 1 .. Total(build) + 1 /\ at <= Len(Steps(build)) /\ Steps(build)[at] = <<kind, i>>
  BY <1>1 DEF RelationInv, Progress, Due
<1>3. at \in 1 .. Len(Steps(build))
  <2>1. Len(Steps(build)) = Total(build) /\ Total(build) \in Nat
    BY <1>1, StepsAre, DoneEnds
  <2>. QED
    BY <1>2, <2>1
<1>4. at \in 1 .. Total(build) /\ StepAdds(build, at, kind, i)
  BY <1>1, <1>2, <1>3, StepsAdd
<1>. QED
  BY <1>1, <1>4 DEF RelationInv, Progress


\* A call that is made leads on to the next one.
LEMMA ProgressKept ==
  ASSUME RelationInv, NEW kind, NEW i, Due(kind, i), UNCHANGED <<build, outcome>>, at' = at + 1,
         Len(creds') = CredentialsDone(build, at + 1), Len(claims') = Len(creds'),
         Len(trees') = TreesDone(build, at + 1)
  PROVE  Progress'
<1>1. /\ build \in Builds /\ Fit(build) /\ outcome = "building" /\ at \in 1 .. Total(build)
      /\ Total(build) \in Nat
  BY DueIs, DoneEnds
<1>2. at + 1 \in 1 .. Total(build) + 1
  BY <1>1
<1>. QED
  BY <1>1, <1>2 DEF Progress

\* A credential is opened: its claim is its native claim unless a row breaks.
LEMMA CredentialKeeps ==
  ASSUME RelationInv, NEW i \in 1 .. build.shape.count, Credential(i)
  PROVE  RelationInv'
<1> DEFINE p == build.profile
           hold(c, claim) ==
             /\ claim \in OpenedClaims(p, c)
             /\ KeyCommitmentRow(p, c)
             /\ ~(build.wk /\ i > 1 /\ <<c.holder, c.age>> # <<creds[1].holder, creds[1].age>>)
<1>1. /\ Due("credential", i)
      /\ UNCHANGED <<build, request, today, trees, outcome>>
  BY DEF Credential
<1>2. PICK c \in OpenedBy(i) :
        \E claim \in IF Code THEN {BuiltClaim(build, i)} ELSE OpenedClaims(p, c) :
          /\ creds' = Append(creds, c)
          /\ claims' = Append(claims, claim)
          /\ Rows(hold(c, claim))
  BY DEF Credential
<1>3. PICK claim \in IF Code THEN {BuiltClaim(build, i)} ELSE OpenedClaims(p, c) :
          /\ creds' = Append(creds, c)
          /\ claims' = Append(claims, claim)
          /\ Rows(hold(c, claim))
  BY <1>2
<1>4. /\ build \in Builds /\ Fit(build) /\ p \in {"mac", "sig"} /\ at \in 1 .. Total(build)
      /\ Len(creds) = i - 1 /\ Len(claims) = i - 1 /\ i \in Nat
      /\ CredentialsDone(build, at + 1) = i /\ TreesDone(build, at + 1) = Len(trees)
      /\ Unchanged(build, at)
      /\ Asked(build, at) \/ Disclosed(build, at) \/ Compared(build, at) => i # 1
      /\ Len(trees) \in 0 .. i - 1 /\ ~Crossed(build, at)
  <2>1. /\ build \in Builds /\ Fit(build) /\ at \in 1 .. Total(build)
        /\ StepAdds(build, at, "credential", i)
        /\ Len(creds) = CredentialsDone(build, at)
        /\ Len(claims) = Len(creds) /\ Len(trees) = TreesDone(build, at)
    BY <1>1, DueIs
  <2>2. p \in {"mac", "sig"}
    BY <2>1, ShapeFacts
  <2>. QED
    BY <2>1, <2>2 DEF StepAdds
<1>5. c \in Opening /\ (Code => c = Mutated(build, i))
  <2>1. CASE Code
    BY <1>2, <1>4, <2>1, FixtureTyped DEF OpenedBy
  <2>2. CASE ~Code
    <3>1. PICK a \in FieldChoices.age, e \in FieldChoices.expiry,
               r \in FieldChoices.rid, h \in FieldChoices.holder :
            c = Chosen(Fixture(p, i), a, e, r, h)
      BY <1>2, <2>2 DEF OpenedBy
    <3>2. a \in Field /\ e \in Field /\ r \in Field /\ h \in Field
      BY ValueAssumption
    <3>3. Fixture(p, i) \in Opening
      BY <1>4, FixtureTyped
    <3>. QED
      BY <2>2, <3>1, <3>2, <3>3 DEF Chosen, Opening
  <2>. QED
    BY <2>1, <2>2
<1>6. /\ NativeClaim(p, c) \in Field /\ OpenedClaims(p, c) = {NativeClaim(p, c)}
      /\ KeyCommitmentRow(p, c)
  BY <1>4, <1>5, ClaimIs
<1>7. claim \in Field /\ (Code => claim = BuiltClaim(build, i))
  BY <1>3, <1>4, <1>6, BuiltClaimIs
<1>8. /\ at' = at + 1 /\ sat' = (sat /\ hold(c, claim))
      /\ hold(c, claim) \in BOOLEAN
      /\ hold(c, claim) <=>
           /\ claim = NativeClaim(p, c)
           /\ build.wk /\ i > 1 => c.holder = creds[1].holder /\ c.age = creds[1].age
  BY <1>3, <1>6 DEF Rows
<1> HIDE DEF hold
<1>9. /\ creds' \in Seq(Opening) /\ Len(creds') = i
      /\ \A j \in 1 .. i - 1 : creds'[j] = creds[j]
      /\ creds'[i] = c
  <2>1. creds \in Seq(Opening) /\ (i - 1) + 1 = i
    BY <1>4 DEF RelationInv, RelationTypeOK
  <2>. QED
    BY <1>3, <1>4, <1>5, <2>1, AppendIs
<1>10. /\ claims' \in Seq(Field) /\ Len(claims') = i
       /\ \A j \in 1 .. i - 1 : claims'[j] = claims[j]
       /\ claims'[i] = claim
  <2>1. claims \in Seq(Field) /\ (i - 1) + 1 = i
    BY <1>4 DEF RelationInv, RelationTypeOK
  <2>. QED
    BY <1>3, <1>4, <1>7, <2>1, AppendIs
<1>11. \A j \in 1 .. i : j = i \/ j \in 1 .. i - 1
  BY <1>4
<1>12. sat \in BOOLEAN /\ sat' \in BOOLEAN /\ (sat' <=> sat /\ hold(c, claim))
  BY <1>8 DEF RelationInv, RelationTypeOK
<1>13. RelationTypeOK'
  <2>1. size' \in [rows : Nat, vars : Nat]
    <3>1. PerHash(11) \in Nat /\ PerHash(12) \in Nat
      BY PerHashTyped
    <3>2. PICK rows \in Nat, variables \in Nat : Adds(rows, variables)
      <4>1. \/ Adds(PerHash(11) + 2, PerHash(11) + 7)
            \/ Adds(PerHash(12) + 2 + (IF build.wk /\ i > 1 THEN 2 ELSE 0), PerHash(12) + 8)
        BY DEF Credential
      <4>2. /\ PerHash(11) + 2 \in Nat /\ PerHash(11) + 7 \in Nat
            /\ PerHash(12) + 2 + (IF build.wk /\ i > 1 THEN 2 ELSE 0) \in Nat /\ PerHash(12) + 8 \in Nat
        BY <3>1
      <4>. QED
        BY <4>1, <4>2
    <3>3. RelationTypeOK
      BY DEF RelationInv
    <3>. QED
      BY <3>2, <3>3, AddsTyped
  <2>. QED
    BY <1>1, <1>9, <1>10, <1>12, <2>1 DEF RelationInv, RelationTypeOK
<1>14. Progress'
  <2>1. Len(trees') = TreesDone(build, at + 1)
    BY <1>1, <1>4
  <2>. QED
    BY <1>1, <1>4, <1>8, <1>9, <1>10, <2>1, ProgressKept
<1>15. RowsSay'
  <2> SUFFICES ASSUME sat', build.mutation = "Valid"
               PROVE  /\ OpeningsTrue'
                      /\ build.wk => SameHolder'
                      /\ Asked(build, at + 1) =>
                           request.digest = NativeHash(<<creds'[1].holder, request.nonce, request.mask>>,
                                                       0, Domain.request)
                      /\ Disclosed(build, at + 1) => RequestTrue'
                      /\ Compared(build, at + 1) => RangeTrue'
                      /\ RevocationTrue'
                      /\ ~Crossed(build, at + 1)
    BY <1>1, <1>8 DEF RowsSay
  <2>1. /\ OpeningsTrue
        /\ build.wk => SameHolder
        /\ Asked(build, at) =>
             request.digest = NativeHash(<<creds[1].holder, request.nonce, request.mask>>, 0, Domain.request)
        /\ Disclosed(build, at) => RequestTrue
        /\ Compared(build, at) => RangeTrue
        /\ RevocationTrue
    BY <1>12 DEF RelationInv, RowsSay
  <2>2. /\ claim = NativeClaim(p, c)
        /\ build.wk /\ i > 1 => c.holder = creds[1].holder /\ c.age = creds[1].age
    BY <1>8, <1>12
  <2>3. OpeningsTrue'
    <3>1. \A j \in 1 .. i - 1 : claims[j] = NativeClaim(p, creds[j])
      BY <1>4, <2>1 DEF OpeningsTrue
    <3>2. \A j \in 1 .. i : claims'[j] = NativeClaim(p, creds'[j])
      BY <1>9, <1>10, <1>11, <2>2, <3>1
    <3>. QED
      BY <1>1, <1>9, <3>2 DEF OpeningsTrue
  <2>4. build.wk => SameHolder'
    <3>1. CASE i = 1
      BY <1>9, <3>1 DEF SameHolder
    <3>2. CASE i > 1
      <4>1. 1 \in 1 .. i - 1 /\ creds'[1] = creds[1]
        BY <1>4, <1>9, <3>2
      <4>2. build.wk => \A j \in 1 .. i - 1 : creds[j].holder = creds[1].holder /\ creds[j].age = creds[1].age
        BY <1>4, <2>1 DEF SameHolder
      <4>3. build.wk => \A j \in 1 .. i : creds'[j].holder = creds'[1].holder /\ creds'[j].age = creds'[1].age
        BY <1>9, <1>11, <2>2, <3>2, <4>1, <4>2
      <4>. QED
        BY <1>9, <4>3 DEF SameHolder
    <3>. QED
      BY <1>4, <3>1, <3>2
  <2>5. i # 1 => creds'[1] = creds[1]
    BY <1>4, <1>9
  <2>6. Asked(build, at + 1) => creds'[1] = creds[1] /\ Asked(build, at)
    BY <1>4, <2>5 DEF Unchanged
  <2>7. Disclosed(build, at + 1) => RequestTrue'
    BY <1>1, <1>4, <2>1, <2>5 DEF Unchanged, RequestTrue
  <2>8. Compared(build, at + 1) => RangeTrue'
    BY <1>1, <1>4, <2>1, <2>5 DEF Unchanged, RangeTrue
  <2>9. RevocationTrue'
    <3>1. \A j \in 1 .. Len(trees) : creds'[j] = creds[j]
      BY <1>4, <1>9
    <3>. QED
      BY <1>1, <2>1, <3>1 DEF RevocationTrue
  <2>10. ~Crossed(build, at + 1)
    BY <1>4 DEF Unchanged
  <2>. QED
    BY <2>1, <2>3, <2>4, <2>6, <2>7, <2>8, <2>9, <2>10
<1>16. WitnessKnown'
  <2>1. Code => \A j \in 1 .. i - 1 : creds[j] = Mutated(build, j)
    BY <1>4 DEF RelationInv, WitnessKnown
  <2>2. Code => \A j \in 1 .. i : creds'[j] = Mutated(build, j)
    BY <1>5, <1>9, <1>11, <2>1
  <2>3. Code /\ Asked(build, at + 1) => request.mask = build.shape.mask
    BY <1>4 DEF RelationInv, WitnessKnown, Unchanged
  <2>. QED
    BY <1>1, <1>8, <1>9, <2>2, <2>3 DEF WitnessKnown, Code
<1>17. NothingBroken'
  <2> SUFFICES ASSUME Code, ~Rejected(build), Reachable(build) PROVE sat'
    BY <1>1 DEF NothingBroken, Code
  <2>1. sat
    BY DEF RelationInv, NothingBroken
  <2>2. build.mutation \notin {"Attribute", "Claim"} /\ ~Broken(build, i)
    BY <1>4, ShapeFacts DEF Rejected, Broken
  <2>3. claim = NativeClaim(p, c)
    BY <1>4, <1>5, <1>7, <2>2, BuiltClaimIs
  <2>4. build.wk /\ i > 1 => c.holder = creds[1].holder /\ c.age = creds[1].age
    <3> SUFFICES ASSUME build.wk, i > 1 PROVE c.holder = creds[1].holder /\ c.age = creds[1].age
      OBVIOUS
    <3>1. build.mutation = "Valid" /\ 1 \in 1 .. build.shape.count /\ 1 \in 1 .. i - 1
      BY <1>4, ShapeFacts
    <3>2. creds[1] = Mutated(build, 1) /\ c = Mutated(build, i)
      BY <1>4, <1>5, <3>1 DEF RelationInv, WitnessKnown
    <3>3. ~Broken(build, 1)
      BY <3>1 DEF Broken
    <3>4. Mutated(build, 1) = Boundary(build, 1) /\ Mutated(build, i) = Boundary(build, i)
      BY <1>4, <2>2, <3>1, <3>3, MutatedSame
    <3>. QED
      BY <1>4, <3>1, <3>2, <3>4, FixtureKept
  <2>. QED
    BY <1>8, <1>12, <2>1, <2>3, <2>4
<1>18. MutationSeen'
  <2> DEFINE m == build.mutation
  <2> SUFFICES ASSUME Code, sat'
               PROVE  /\ m \notin {"Attribute", "Issuer", "Holder", "CredentialType", "IssuanceEpoch", "Claim"}
                      /\ m = "CrossCredential" => i < 2
                      /\ m = "Nonce" => ~Asked(build, at + 1)
                      /\ m = "Expired" => ~Compared(build, at + 1)
                      /\ m \in {"Revoked", "StaleRoot", "MerklePath"} => Len(trees) = 0
                      /\ \A j \in 1 .. Len(trees) :
                           Fixture(p, j).rid < TwoTo(build.shape.depth)
    BY <1>1, <1>8, <1>9 DEF MutationSeen, Code
  <2>1. /\ sat
        /\ m \in {"Attribute", "Issuer", "Holder", "CredentialType", "IssuanceEpoch", "Claim"} => i - 1 = 0
        /\ m = "CrossCredential" => i - 1 < 2
        /\ m = "Nonce" => ~Asked(build, at)
        /\ m = "Expired" => ~Compared(build, at)
        /\ m \in {"Revoked", "StaleRoot", "MerklePath"} => Len(trees) = 0
        /\ \A j \in 1 .. Len(trees) : Fixture(p, j).rid < TwoTo(build.shape.depth)
    BY <1>4, <1>12 DEF RelationInv, MutationSeen
  <2>2. BuiltClaim(build, i) = NativeClaim(p, Mutated(build, i))
    BY <1>5, <1>7, <1>8, <1>12
  <2>3. ~Broken(build, i) /\ ~(i = 1 /\ m = "Claim")
    BY <1>4, <2>2, BuiltClaimIs
  <2>4. i - 1 = 0 => m \notin {"Attribute", "Issuer", "Holder", "CredentialType", "IssuanceEpoch", "Claim"}
    BY <1>4, <2>3 DEF Broken
  <2>5. m = "CrossCredential" => i < 2
    BY <1>4, <2>1, <2>3 DEF Broken
  <2>. QED
    BY <1>4, <2>1, <2>4, <2>5 DEF Unchanged
<1>. QED
  BY <1>13, <1>14, <1>15, <1>16, <1>17, <1>18 DEF RelationInv


\* The first credential, once there is one.
LEMMA FirstCredential ==
  ASSUME RelationInv, Len(creds) \in Nat \ {0}, build.shape.count \in Nat \ {0}
  PROVE  /\ creds[1] \in Opening
         /\ Code => creds[1] = Mutated(build, 1)
<1>1. creds \in Seq(Opening) /\ 1 \in 1 .. Len(creds)
  BY DEF RelationInv, RelationTypeOK
<1>. QED
  BY <1>1 DEF RelationInv, WitnessKnown

\* The request is bound to the first credential's holder, the nonce and the mask.
LEMMA RequestKeeps ==
  ASSUME RelationInv, RequestBinding
  PROVE  RelationInv'
<1> DEFINE sent == IF build.mutation = "Nonce" THEN Nonce + 1 ELSE Nonce
           h == creds[1].holder
           valid == RequestHash(Boundary(build, 1).holder, Nonce, build.shape.mask)
<1>1. /\ Due("request", 0)
      /\ UNCHANGED <<build, creds, claims, today, trees, outcome>>
      /\ Adds(PerHash(3) + 1, PerHash(3))
  BY DEF RequestBinding
<1>0. PICK mask \in (IF Code THEN {build.shape.mask} ELSE FieldChoices.mask) :
        \E digest \in (IF Code THEN {valid} ELSE CircuitHash(<<h, sent, mask>>, 0, Domain.request)) :
          /\ request' = [request EXCEPT !.nonce = sent, !.mask = mask, !.digest = digest]
          /\ Rows(digest \in CircuitHash(<<h, sent, mask>>, 0, Domain.request))
  BY DEF RequestBinding, RequestHash
<1>2. PICK digest \in (IF Code THEN {valid} ELSE CircuitHash(<<h, sent, mask>>, 0, Domain.request)) :
        /\ request' = [request EXCEPT !.nonce = sent, !.mask = mask, !.digest = digest]
        /\ Rows(digest \in CircuitHash(<<h, sent, mask>>, 0, Domain.request))
  BY <1>0
<1>3. /\ build \in Builds /\ Fit(build) /\ at \in 1 .. Total(build)
      /\ Len(creds) \in 1 .. build.shape.count /\ build.shape.count \in Nat
      /\ CredentialsDone(build, at + 1) = Len(creds) /\ TreesDone(build, at + 1) = Len(trees)
      /\ Len(claims) = Len(creds)
      /\ Asked(build, at + 1) /\ ~Disclosed(build, at + 1) /\ ~Compared(build, at + 1)
      /\ ~Crossed(build, at + 1)
  <2>1. /\ build \in Builds /\ Fit(build) /\ at \in 1 .. Total(build)
        /\ StepAdds(build, at, "request", 0)
        /\ Len(creds) = CredentialsDone(build, at)
        /\ Len(claims) = Len(creds) /\ Len(trees) = TreesDone(build, at)
    BY <1>1, DueIs
  <2>2. build.shape.count \in Nat
    BY <2>1, ShapeFacts
  <2>. QED
    BY <2>1, <2>2 DEF StepAdds
<1>4. creds[1] \in Opening /\ (Code => creds[1] = Mutated(build, 1)) /\ 1 \in 1 .. build.shape.count
  BY <1>3, FirstCredential
<1>5. h \in Field /\ Boundary(build, 1).holder \in Field /\ Nonce \in Field /\ Nonce + 1 \in Field
      /\ Nonce + 1 # Nonce /\ sent \in Field
  <2>1. Boundary(build, 1) \in Opening
    BY <1>3, <1>4, FixtureTyped
  <2>2. Nonce \in Field /\ Nonce + 1 \in Field
    BY ValueAssumption
  <2>3. Nonce + 1 # Nonce
    BY <2>2, FieldAssumption DEF Field
  <2>. QED
    BY <1>4, <2>1, <2>2, <2>3 DEF Opening
<1>6. mask \in Field /\ build.shape.mask \in Field /\ (Code => mask = build.shape.mask)
  <2>1. build.shape.mask \in Field
    <3>1. build.shape.mask \in 0 .. 2 /\ build.shape.count + 9 \in Field
      BY <1>3, ShapeFacts, ValueAssumption
    <3>2. build.shape.count \in Nat
      BY <1>3, ShapeFacts
    <3> DEFINE n == build.shape.count
               k == build.shape.mask
    <3> HIDE DEF n, k
    <3>3. n \in Nat /\ n + 9 \in 0 .. P - 1 /\ k \in 0 .. 2 => k \in 0 .. P - 1
      BY FieldAssumption
    <3>. QED
      BY <3>1, <3>2, <3>3 DEF n, k, Field
  <2>2. FieldChoices.mask \subseteq Field
    BY ValueAssumption
  <2>. QED
    BY <1>0, <2>1, <2>2
<1>7. /\ RequestHash(h, sent, mask) \in Field
      /\ CircuitHash(<<h, sent, mask>>, 0, Domain.request) = {RequestHash(h, sent, mask)}
  <2> HIDE DEF h, sent
  <2>. QED
    BY <1>5, <1>6, RequestHashIs
<1>8. valid \in Field
  BY <1>5, <1>6, RequestHashIs
<1>9. digest \in Field /\ (Code => digest = valid)
  BY <1>2, <1>7, <1>8
<1>10. at' = at + 1 /\ sat' = (sat /\ digest = RequestHash(h, sent, mask))
  BY <1>2, <1>7 DEF Rows
<1>11. sat \in BOOLEAN /\ sat' \in BOOLEAN /\ (sat' <=> sat /\ digest = RequestHash(h, sent, mask))
  BY <1>10 DEF RelationInv, RelationTypeOK
<1>12. request' \in Request /\ request'.nonce = sent /\ request'.mask = mask /\ request'.digest = digest
  <2>1. request \in Request
    BY DEF RelationInv, RelationTypeOK
  <2> HIDE DEF sent
  <2>. QED
    BY <1>2, <1>5, <1>6, <1>9, <2>1 DEF Request
<1>13. RelationTypeOK'
  <2>1. size' \in [rows : Nat, vars : Nat]
    <3>1. PerHash(3) + 1 \in Nat /\ PerHash(3) \in Nat
      BY PerHashTyped
    <3>. QED
      BY <1>1, <3>1, AddsTyped DEF RelationInv
  <2>. QED
    BY <1>1, <1>11, <1>12, <2>1 DEF RelationInv, RelationTypeOK
<1>14. Progress'
  BY <1>1, <1>3, <1>10, ProgressKept
<1>15. RowsSay'
  <2> SUFFICES ASSUME sat', build.mutation = "Valid"
               PROVE  /\ OpeningsTrue'
                      /\ build.wk => SameHolder'
                      /\ request'.digest = NativeHash(<<creds[1].holder, request'.nonce, request'.mask>>,
                                                      0, Domain.request)
                      /\ RevocationTrue'
    BY <1>1, <1>3, <1>10 DEF RowsSay
  <2>1. OpeningsTrue /\ (build.wk => SameHolder) /\ RevocationTrue
    BY <1>11 DEF RelationInv, RowsSay
  <2>2. OpeningsTrue' /\ (build.wk => SameHolder') /\ RevocationTrue'
    BY <1>1, <2>1 DEF OpeningsTrue, SameHolder, RevocationTrue
  <2>3. request'.digest = RequestHash(h, request'.nonce, request'.mask)
    BY <1>11, <1>12
  <2>. QED
    BY <2>2, <2>3 DEF RequestHash
<1>16. WitnessKnown'
  BY <1>1, <1>6, <1>12 DEF RelationInv, WitnessKnown, Code
<1>17. Code /\ ~Broken(build, 1) /\ build.mutation # "Attribute" => h = Boundary(build, 1).holder
  BY <1>3, <1>4, MutatedSame
<1>18. NothingBroken'
  <2> SUFFICES ASSUME Code, ~Rejected(build), Reachable(build) PROVE sat'
    BY <1>1 DEF NothingBroken, Code
  <2>1. sat
    BY DEF RelationInv, NothingBroken
  <2>2. build.mutation \notin {"Attribute", "Nonce"} /\ ~Broken(build, 1)
    BY DEF Rejected, Broken
  <2>3. digest = RequestHash(h, sent, mask)
    BY <1>6, <1>9, <1>17, <2>2
  <2>. QED
    BY <1>11, <2>1, <2>3
<1>19. MutationSeen'
  <2> DEFINE m == build.mutation
  <2> SUFFICES ASSUME Code, sat'
               PROVE  /\ m \in {"Attribute", "Issuer", "Holder", "CredentialType", "IssuanceEpoch", "Claim"}
                           => Len(creds) = 0
                      /\ m = "CrossCredential" => Len(creds) < 2
                      /\ m # "Nonce"
                      /\ m \in {"Revoked", "StaleRoot", "MerklePath"} => Len(trees) = 0
                      /\ \A j \in 1 .. Len(trees) :
                           Fixture(build.profile, j).rid < TwoTo(build.shape.depth)
    BY <1>1, <1>3, <1>10 DEF MutationSeen, Code
  <2>1. m # "Nonce"
    <3> SUFFICES ASSUME m = "Nonce" PROVE FALSE
      OBVIOUS
    <3>1. h = Boundary(build, 1).holder
      BY <1>17 DEF Broken
    <3>2. RequestHash(h, Nonce, mask) = RequestHash(h, Nonce + 1, mask)
      BY <1>6, <1>9, <1>11, <3>1
    <3> HIDE DEF h
    <3>. QED
      BY <1>5, <1>6, <3>2, RequestHashIs
  <2>. QED
    BY <1>11, <2>1 DEF RelationInv, MutationSeen
<1>. QED
  BY <1>13, <1>14, <1>15, <1>16, <1>18, <1>19 DEF RelationInv


\* The bits of the mask are rows; those that are set disclose the first
\* credential's attributes.
LEMMA DisclosureKeeps ==
  ASSUME RelationInv, Disclosure
  PROVE  RelationInv'
<1> DEFINE mask == request.mask
           shown(bit, value) == IF Code THEN {IF (mask \div bit) % 2 = 1 THEN value ELSE 0}
                                ELSE DisclosedChoices \cup {value}
           row(bit, value, public) == Times(bit, Minus(value, public)) = 0
           x == creds[1].age
           y == creds[1].country
           hold(bits, age, country) ==
             /\ DecomposeRows(bits, mask)
             /\ \A i \in 2 .. W - 1 : bits[i] = 0
             /\ row(bits[0], x, age)
             /\ row(bits[1], y, country)
<1>1. /\ Due("disclosure", 0)
      /\ UNCHANGED <<build, creds, claims, today, trees, outcome>>
      /\ Adds(2 * W + 1, W)
  BY DEF Disclosure
<1>2. PICK bits \in (IF Code THEN {BuiltBits(mask)} ELSE Decompositions[mask]),
           age \in shown(1, x), country \in shown(2, y) :
        /\ request' = [request EXCEPT !.age = age, !.country = country]
        /\ Rows(hold(bits, age, country))
  BY DEF Disclosure
<1>3. /\ build \in Builds /\ Fit(build) /\ at \in 1 .. Total(build)
      /\ Len(creds) \in 1 .. build.shape.count /\ build.shape.count \in Nat
      /\ CredentialsDone(build, at + 1) = Len(creds) /\ TreesDone(build, at + 1) = Len(trees)
      /\ Len(claims) = Len(creds)
      /\ Asked(build, at) /\ Asked(build, at + 1) /\ Disclosed(build, at + 1)
      /\ ~Compared(build, at + 1) /\ ~Crossed(build, at + 1)
  <2>1. /\ build \in Builds /\ Fit(build) /\ at \in 1 .. Total(build)
        /\ StepAdds(build, at, "disclosure", 0)
        /\ Len(creds) = CredentialsDone(build, at)
        /\ Len(claims) = Len(creds) /\ Len(trees) = TreesDone(build, at)
    BY <1>1, DueIs
  <2>2. build.shape.count \in Nat
    BY <2>1, ShapeFacts
  <2>. QED
    BY <2>1, <2>2 DEF StepAdds
<1>4. creds[1] \in Opening /\ request \in Request
  BY <1>3, FirstCredential DEF RelationInv, RelationTypeOK
<1>5. x \in Field /\ y \in Field /\ mask \in Field /\ mask \in Nat /\ 0 \in Field
  <2>1. x \in Field /\ y \in Field /\ mask \in Field
    BY <1>4 DEF Opening, Request
  <2>. QED
    BY <2>1, FieldAssumption DEF Field
<1>6. bits \in [0 .. W - 1 -> Field] /\ (Code => bits = BuiltBits(mask))
  <2>1. BuiltBits(mask) \in [0 .. W - 1 -> {0, 1}] /\ {0, 1} \subseteq Field
    BY <1>5, BuiltBitsAre, FieldValues
  <2>2. Decompositions[mask] \subseteq [0 .. W - 1 -> Field]
    BY <1>5 DEF Decompositions
  <2>. QED
    BY <1>2, <2>1, <2>2
<1>7. /\ age \in Field /\ country \in Field
      /\ Code => /\ age = (IF (mask \div 1) % 2 = 1 THEN x ELSE 0)
                 /\ country = (IF (mask \div 2) % 2 = 1 THEN y ELSE 0)
  <2>1. DisclosedChoices \subseteq Field
    BY ValueAssumption
  <2>2. CASE Code
    BY <1>2, <1>5, <2>2
  <2>3. CASE ~Code
    BY <1>2, <1>5, <2>1, <2>3
  <2>. QED
    BY <2>2, <2>3
<1>8. hold(bits, age, country) =>
        /\ mask \in 0 .. 3
        /\ mask % 2 = 1 => age = x
        /\ mask \div 2 = 1 => country = y
  <2> SUFFICES ASSUME hold(bits, age, country)
               PROVE  /\ mask \in 0 .. 3
                      /\ mask % 2 = 1 => age = x
                      /\ mask \div 2 = 1 => country = y
    OBVIOUS
  <2>1. mask \in 0 .. 3 /\ bits[0] = mask % 2 /\ bits[1] = mask \div 2
    <3> HIDE DEF mask
    <3>. QED
      BY <1>5, <1>6, MaskBits
  <2>2. mask % 2 \in {0, 1} /\ mask \div 2 \in {0, 1}
    BY <2>1
  <2>3. row(mask % 2, x, age) /\ row(mask \div 2, y, country)
    BY <2>1
  <2> DEFINE s == mask % 2
             t == mask \div 2
  <2>4. (s = 0 \/ age = x) /\ (t = 0 \/ country = y)
    <3>1. Times(s, Minus(x, age)) = 0 /\ Times(t, Minus(y, country)) = 0 /\ s \in {0, 1} /\ t \in {0, 1}
      BY <2>2, <2>3
    <3> HIDE DEF s, t, x, y
    <3>. QED
      BY <1>5, <1>7, <3>1, DisclosureRowIs
  <2>. QED
    BY <2>1, <2>4
<1>9. Code /\ mask \in 0 .. 3 => hold(bits, age, country)
  <2> SUFFICES ASSUME Code, mask \in 0 .. 3 PROVE hold(bits, age, country)
    OBVIOUS
  <2> DEFINE s == mask % 2
             t == mask \div 2
  <2>1. /\ DecomposeRows(bits, mask) /\ \A i \in 2 .. W - 1 : bits[i] = 0
        /\ bits[0] = s /\ bits[1] = t /\ s \in {0, 1} /\ t \in {0, 1}
        /\ (mask \div 1) % 2 = s /\ (mask \div 2) % 2 = t
    <3> HIDE DEF mask
    <3>1. /\ DecomposeRows(BuiltBits(mask), mask)
          /\ \A i \in 2 .. W - 1 : BuiltBits(mask)[i] = 0
          /\ BuiltBits(mask)[0] = s /\ BuiltBits(mask)[1] = t /\ s \in {0, 1} /\ t \in {0, 1}
          /\ (mask \div 1) % 2 = s /\ (mask \div 2) % 2 = t
      BY <1>5, MaskBits
    <3>2. bits = BuiltBits(mask)
      BY <1>6
    <3>. QED
      BY <3>1, <3>2
  <2>2. age = (IF s = 1 THEN x ELSE 0) /\ country = (IF t = 1 THEN y ELSE 0)
    BY <1>7, <2>1
  <2>3. Times(s, Minus(x, age)) = 0 /\ Times(t, Minus(y, country)) = 0
    <3> HIDE DEF s, t, x, y
    <3>. QED
      BY <1>5, <1>7, <2>1, <2>2, DisclosureRowIs
  <2>. QED
    BY <2>1, <2>3
<1>10. at' = at + 1 /\ sat' = (sat /\ hold(bits, age, country)) /\ hold(bits, age, country) \in BOOLEAN
  BY <1>2 DEF Rows, DecomposeRows
<1> HIDE DEF hold
<1>11. sat \in BOOLEAN /\ sat' \in BOOLEAN /\ (sat' <=> sat /\ hold(bits, age, country))
  BY <1>10 DEF RelationInv, RelationTypeOK
<1>12. /\ request' \in Request /\ request'.nonce = request.nonce /\ request'.mask = request.mask
       /\ request'.digest = request.digest /\ request'.age = age /\ request'.country = country
  BY <1>2, <1>4, <1>7 DEF Request
<1>13. RelationTypeOK'
  <2>1. size' \in [rows : Nat, vars : Nat]
    <3>1. 2 * W + 1 \in Nat /\ W \in Nat
      BY FieldAssumption
    <3>. QED
      BY <1>1, <3>1, AddsTyped DEF RelationInv
  <2>. QED
    BY <1>1, <1>11, <1>12, <2>1 DEF RelationInv, RelationTypeOK
<1>14. Progress'
  BY <1>1, <1>3, <1>10, ProgressKept
<1>15. RowsSay'
  <2> SUFFICES ASSUME sat', build.mutation = "Valid"
               PROVE  /\ OpeningsTrue'
                      /\ build.wk => SameHolder'
                      /\ RequestTrue'
                      /\ RevocationTrue'
    BY <1>1, <1>3, <1>10 DEF RowsSay, RequestTrue
  <2>1. /\ OpeningsTrue /\ (build.wk => SameHolder) /\ RevocationTrue
        /\ request.digest = NativeHash(<<creds[1].holder, request.nonce, request.mask>>, 0, Domain.request)
    BY <1>3, <1>11 DEF RelationInv, RowsSay
  <2>2. OpeningsTrue' /\ (build.wk => SameHolder') /\ RevocationTrue'
    BY <1>1, <2>1 DEF OpeningsTrue, SameHolder, RevocationTrue
  <2>3. RequestTrue'
    BY <1>1, <1>8, <1>11, <1>12, <2>1 DEF RequestTrue
  <2>. QED
    BY <2>2, <2>3
<1>16. WitnessKnown'
  BY <1>1, <1>3, <1>12 DEF RelationInv, WitnessKnown, Code
<1>17. NothingBroken'
  <2> SUFFICES ASSUME Code, ~Rejected(build), Reachable(build) PROVE sat'
    BY <1>1 DEF NothingBroken, Code
  <2>1. sat
    BY DEF RelationInv, NothingBroken
  <2>2. mask \in 0 .. 3
    <3>1. mask = build.shape.mask /\ build.shape.mask \in 0 .. 2
      BY <1>3, ShapeFacts DEF RelationInv, WitnessKnown
    <3>. QED
      BY <3>1
  <2>. QED
    BY <1>9, <1>11, <2>1, <2>2
<1>18. MutationSeen'
  <2> DEFINE m == build.mutation
  <2> SUFFICES ASSUME Code, sat'
               PROVE  /\ m \in {"Attribute", "Issuer", "Holder", "CredentialType", "IssuanceEpoch", "Claim"}
                           => Len(creds) = 0
                      /\ m = "CrossCredential" => Len(creds) < 2
                      /\ m # "Nonce"
                      /\ m \in {"Revoked", "StaleRoot", "MerklePath"} => Len(trees) = 0
                      /\ \A j \in 1 .. Len(trees) :
                           Fixture(build.profile, j).rid < TwoTo(build.shape.depth)
    BY <1>1, <1>3, <1>10 DEF MutationSeen, Code
  <2>. QED
    BY <1>3, <1>11 DEF RelationInv, MutationSeen
<1>. QED
  BY <1>13, <1>14, <1>15, <1>16, <1>17, <1>18 DEF RelationInv


\* The first credential is compared with the range and the day.
LEMMA RangeKeeps ==
  ASSUME RelationInv, RangeAndExpiry
  PROVE  RelationInv'
<1> DEFINE x == creds[1].age
           e == creds[1].expiry
           hold(day) == /\ LessEqualRows(MinAge, x)
                        /\ LessEqualRows(x, MaxAge)
                        /\ LessEqualRows(day, e)
<1>1. /\ Due("range", 0)
      /\ UNCHANGED <<build, creds, claims, request, trees, outcome>>
      /\ Adds(9 * (W + 1) + 3, 9 * W + 3)
  BY DEF RangeAndExpiry
<1>2. PICK day \in (IF Code THEN {IF build.mutation = "Expired" THEN LateDay ELSE Today}
                    ELSE FieldChoices.day) :
        today' = day /\ Rows(hold(day))
  BY DEF RangeAndExpiry
<1>3. /\ build \in Builds /\ Fit(build) /\ at \in 1 .. Total(build)
      /\ Len(creds) \in 1 .. build.shape.count /\ build.shape.count \in Nat
      /\ CredentialsDone(build, at + 1) = Len(creds) /\ TreesDone(build, at + 1) = Len(trees)
      /\ Len(claims) = Len(creds)
      /\ Asked(build, at) /\ Disclosed(build, at) /\ build.shape.range
      /\ Asked(build, at + 1) /\ Disclosed(build, at + 1) /\ Compared(build, at + 1)
      /\ ~Crossed(build, at + 1)
  <2>1. /\ build \in Builds /\ Fit(build) /\ at \in 1 .. Total(build)
        /\ StepAdds(build, at, "range", 0)
        /\ Len(creds) = CredentialsDone(build, at)
        /\ Len(claims) = Len(creds) /\ Len(trees) = TreesDone(build, at)
    BY <1>1, DueIs
  <2>2. build.shape.count \in Nat
    BY <2>1, ShapeFacts
  <2>. QED
    BY <2>1, <2>2 DEF StepAdds
<1>4. creds[1] \in Opening /\ (Code => creds[1] = Mutated(build, 1)) /\ 1 \in 1 .. build.shape.count
  BY <1>3, FirstCredential
<1>5. /\ MinAge \in Word /\ Age \in Word /\ MaxAge \in Word /\ Today \in Word /\ Expiry \in Word
      /\ LateDay \in Word /\ Word \subseteq Field /\ Word \subseteq Nat
      /\ MinAge <= Age /\ Age <= MaxAge /\ Today <= Expiry /\ Expiry < LateDay
  BY ValueAssumption, FieldValues
<1>6. x \in Field /\ e \in Field /\ day \in Field
      /\ (Code => day = IF build.mutation = "Expired" THEN LateDay ELSE Today)
  <2>1. FieldChoices.day \subseteq Field
    BY ValueAssumption
  <2>. QED
    BY <1>2, <1>4, <1>5, <2>1 DEF Opening
<1>7. hold(day) <=> /\ MinAge <= x /\ x <= MaxAge /\ day <= e
                    /\ x \in Word /\ e \in Word /\ day \in Word
  <2> HIDE DEF x, e
  <2>1. LessEqualRows(MinAge, x) <=> MinAge \in Word /\ x \in Word /\ MinAge <= x
    BY <1>5, <1>6, LessEqualRowsIs
  <2>2. LessEqualRows(x, MaxAge) <=> x \in Word /\ MaxAge \in Word /\ x <= MaxAge
    BY <1>5, <1>6, LessEqualRowsIs
  <2>3. LessEqualRows(day, e) <=> day \in Word /\ e \in Word /\ day <= e
    BY <1>6, LessEqualRowsIs
  <2>. QED
    BY <1>5, <2>1, <2>2, <2>3
<1> HIDE DEF hold
<1>8. at' = at + 1 /\ sat' = (sat /\ hold(day)) /\ sat \in BOOLEAN
  BY <1>2 DEF Rows, RelationInv, RelationTypeOK
<1>9. sat' \in BOOLEAN /\ (sat' <=> sat /\ hold(day))
  BY <1>8
<1>10. RelationTypeOK'
  <2>1. size' \in [rows : Nat, vars : Nat]
    <3>1. 9 * (W + 1) + 3 \in Nat /\ 9 * W + 3 \in Nat
      BY FieldAssumption
    <3>. QED
      BY <1>1, <3>1, AddsTyped DEF RelationInv
  <2>. QED
    BY <1>1, <1>2, <1>6, <1>9, <2>1 DEF RelationInv, RelationTypeOK
<1>11. Progress'
  BY <1>1, <1>3, <1>8, ProgressKept
<1>12. RowsSay'
  <2> SUFFICES ASSUME sat', build.mutation = "Valid"
               PROVE  /\ OpeningsTrue'
                      /\ build.wk => SameHolder'
                      /\ RequestTrue'
                      /\ RangeTrue'
                      /\ RevocationTrue'
    BY <1>1, <1>3, <1>8 DEF RowsSay, RequestTrue
  <2>1. OpeningsTrue /\ (build.wk => SameHolder) /\ RevocationTrue /\ RequestTrue
    BY <1>3, <1>9 DEF RelationInv, RowsSay
  <2>2. OpeningsTrue' /\ (build.wk => SameHolder') /\ RevocationTrue' /\ RequestTrue'
    BY <1>1, <2>1 DEF OpeningsTrue, SameHolder, RevocationTrue, RequestTrue
  <2>3. RangeTrue'
    BY <1>1, <1>2, <1>7, <1>9 DEF RangeTrue
  <2>. QED
    BY <2>2, <2>3
<1>13. WitnessKnown'
  BY <1>1, <1>3 DEF RelationInv, WitnessKnown, Code
<1>14. NothingBroken'
  <2> SUFFICES ASSUME Code, ~Rejected(build), Reachable(build) PROVE sat'
    BY <1>1 DEF NothingBroken, Code
  <2>1. sat
    BY DEF RelationInv, NothingBroken
  <2>2. build.mutation \notin {"Attribute", "Expired"} /\ ~Broken(build, 1)
    BY <1>3 DEF Rejected, Broken
  <2>3. creds[1] = Boundary(build, 1) /\ creds[1] = Mutated(build, 1)
    BY <1>3, <1>4, <2>2, MutatedSame
  <2>4. x \in {MinAge, Age} /\ e = Expiry /\ day = Today
    BY <1>3, <1>4, <1>6, <2>2, <2>3, FixtureKept
  <2>5. hold(day)
    <3> HIDE DEF x, e
    <3>1. MinAge <= x /\ x <= MaxAge
      BY <1>5, <2>4
    <3>. QED
      BY <1>5, <1>7, <2>4, <3>1
  <2>. QED
    BY <1>9, <2>1, <2>5
<1>15. MutationSeen'
  <2> DEFINE m == build.mutation
  <2> SUFFICES ASSUME Code, sat'
               PROVE  /\ m \in {"Attribute", "Issuer", "Holder", "CredentialType", "IssuanceEpoch", "Claim"}
                           => Len(creds) = 0
                      /\ m = "CrossCredential" => Len(creds) < 2
                      /\ m # "Nonce"
                      /\ m # "Expired"
                      /\ m \in {"Revoked", "StaleRoot", "MerklePath"} => Len(trees) = 0
                      /\ \A j \in 1 .. Len(trees) :
                           Fixture(build.profile, j).rid < TwoTo(build.shape.depth)
    BY <1>1, <1>3, <1>8 DEF MutationSeen, Code
  <2>1. m # "Expired"
    <3> SUFFICES ASSUME m = "Expired" PROVE FALSE
      OBVIOUS
    <3>1. day = LateDay /\ e = Expiry
      BY <1>3, <1>4, <1>6, FixtureKept
    <3>2. day <= e
      BY <1>7, <1>9
    <3>. QED
      BY <1>5, <3>1, <3>2
  <2>. QED
    BY <1>3, <1>9, <2>1 DEF RelationInv, MutationSeen
<1>. QED
  BY <1>10, <1>11, <1>12, <1>13, <1>14, <1>15 DEF RelationInv

\* Two credentials of one holder agree on holder and age.
LEMMA CrossKeeps ==
  ASSUME RelationInv, CrossBinding
  PROVE  RelationInv'
<1> DEFINE hold == creds[1].holder = creds[2].holder /\ creds[1].age = creds[2].age
<1>1. /\ Due("cross", 0)
      /\ UNCHANGED <<build, creds, claims, request, today, trees, outcome>>
      /\ Adds(2, 0)
      /\ Rows(hold)
  BY DEF CrossBinding
<1>2. /\ build \in Builds /\ Fit(build) /\ at \in 1 .. Total(build)
      /\ Len(creds) = 2 /\ build.shape.count = 2 /\ ~build.wk
      /\ CredentialsDone(build, at + 1) = Len(creds) /\ TreesDone(build, at + 1) = Len(trees)
      /\ Len(claims) = Len(creds)
      /\ Asked(build, at) /\ Disclosed(build, at) /\ (build.shape.range => Compared(build, at))
      /\ Asked(build, at + 1) /\ Disclosed(build, at + 1)
      /\ Crossed(build, at + 1)
  <2>1. /\ build \in Builds /\ Fit(build) /\ at \in 1 .. Total(build)
        /\ StepAdds(build, at, "cross", 0)
        /\ Len(creds) = CredentialsDone(build, at)
        /\ Len(claims) = Len(creds) /\ Len(trees) = TreesDone(build, at)
    BY <1>1, DueIs
  <2>. QED
    BY <2>1 DEF StepAdds, Crosses
<1>3. at' = at + 1 /\ sat' = (sat /\ hold) /\ sat \in BOOLEAN
  BY <1>1 DEF Rows, RelationInv, RelationTypeOK
<1> HIDE DEF hold
<1>4. sat' \in BOOLEAN /\ (sat' <=> sat /\ hold)
  BY <1>3
<1>5. RelationTypeOK'
  <2>1. size' \in [rows : Nat, vars : Nat]
    BY <1>1, AddsTyped DEF RelationInv
  <2>. QED
    BY <1>1, <1>4, <2>1 DEF RelationInv, RelationTypeOK
<1>6. Progress'
  BY <1>1, <1>2, <1>3, ProgressKept
<1>7. Compared(build, at + 1) => Compared(build, at)
  BY <1>2 DEF Compared
<1>8. RowsSay'
  <2> SUFFICES ASSUME sat', build.mutation = "Valid"
               PROVE  /\ OpeningsTrue'
                      /\ RequestTrue'
                      /\ Compared(build, at + 1) => RangeTrue'
                      /\ RevocationTrue'
                      /\ creds[1].holder = creds[2].holder /\ creds[1].age = creds[2].age
    BY <1>1, <1>2, <1>3 DEF RowsSay, RequestTrue
  <2>1. OpeningsTrue /\ RevocationTrue /\ RequestTrue /\ (Compared(build, at) => RangeTrue)
    BY <1>2, <1>4 DEF RelationInv, RowsSay
  <2>2. OpeningsTrue' /\ RevocationTrue' /\ RequestTrue' /\ (Compared(build, at) => RangeTrue')
    BY <1>1, <2>1 DEF OpeningsTrue, RevocationTrue, RequestTrue, RangeTrue
  <2>3. hold
    BY <1>4
  <2>. QED
    BY <1>7, <2>2, <2>3 DEF hold
<1>9. WitnessKnown'
  BY <1>1, <1>2 DEF RelationInv, WitnessKnown, Code
<1>10. NothingBroken'
  <2> SUFFICES ASSUME Code, ~Rejected(build), Reachable(build) PROVE sat'
    BY <1>1 DEF NothingBroken, Code
  <2>1. sat
    BY DEF RelationInv, NothingBroken
  <2>2. /\ build.mutation # "Attribute" /\ ~Broken(build, 1) /\ ~Broken(build, 2)
        /\ 1 \in 1 .. build.shape.count /\ 2 \in 1 .. build.shape.count
    BY <1>2 DEF Rejected, Broken
  <2>3. creds[1] = Mutated(build, 1) /\ creds[2] = Mutated(build, 2)
    BY <1>2 DEF RelationInv, WitnessKnown
  <2>4. Mutated(build, 1) = Boundary(build, 1) /\ Mutated(build, 2) = Boundary(build, 2)
    BY <1>2, <2>2, MutatedSame
  <2>5. hold
    BY <1>2, <2>2, <2>3, <2>4, FixtureKept DEF hold
  <2>. QED
    BY <1>4, <2>1, <2>5
<1>11. MutationSeen'
  <2>1. Code /\ sat' => sat
    BY <1>4
  <2>. QED
    BY <1>1, <1>2, <1>3, <1>7, <2>1 DEF RelationInv, MutationSeen, Code
<1>. QED
  BY <1>5, <1>6, <1>8, <1>9, <1>10, <1>11 DEF RelationInv


\* A product of natural numbers is one.
LEMMA ProductTyped ==
  ASSUME NEW x \in Nat, NEW y \in Nat
  PROVE  x * y \in Nat
OBVIOUS

\* A revocation identifier's path leads to the published root.
LEMMA RevocationKeeps ==
  ASSUME RelationInv, NEW i, Revocation(i)
  PROVE  RelationInv'
<1> DEFINE depth == build.shape.depth
           leaf == IF build.mutation = "Revoked" THEN 1 ELSE 0
           rid == creds[i].rid
           dm == Domain.merkle
           hold(epoch, bits, path, root) ==
             /\ epoch = RootEpoch
             /\ DecomposeRows(bits, rid)
             /\ \A l \in depth .. W - 1 : bits[l] = 0
             /\ root \in MerkleOutputs(bits, path, leaf, dm)
<1>1. /\ Due("revocation", i) /\ depth <= W
      /\ UNCHANGED <<build, creds, claims, request, today, outcome>>
      /\ Adds(W + 3 + (IF build.profile = "sig" THEN 1 ELSE 0) + (W - depth) + depth * (1 + PerHash(2)),
              W + depth * (2 + PerHash(2)))
  BY DEF Revocation
<1>2. PICK epoch \in (IF Code THEN {IF build.mutation = "StaleRoot" THEN RootEpoch - 1 ELSE RootEpoch}
                      ELSE {RootEpoch - 1, RootEpoch}),
           bits \in (IF Code THEN {BuiltBits(rid)} ELSE Decompositions[rid]),
           path \in (IF Code THEN {WitnessPath(build)} ELSE [1 .. depth -> SiblingChoices]) :
        \E root \in (IF Code THEN {MerkleRoot(rid, BuiltPath(build), 0, dm)}
                     ELSE MerkleOutputs(bits, path, leaf, dm)) :
          /\ trees' = Append(trees, [path |-> path, root |-> root])
          /\ Rows(hold(epoch, bits, path, root))
  BY DEF Revocation
<1>3. PICK root \in (IF Code THEN {MerkleRoot(rid, BuiltPath(build), 0, dm)}
                     ELSE MerkleOutputs(bits, path, leaf, dm)) :
          /\ trees' = Append(trees, [path |-> path, root |-> root])
          /\ Rows(hold(epoch, bits, path, root))
  BY <1>2
<1>4. /\ build \in Builds /\ Fit(build) /\ at \in 1 .. Total(build)
      /\ build.shape.count \in Nat
      /\ CredentialsDone(build, at + 1) = Len(creds) /\ TreesDone(build, at + 1) = i
      /\ Len(claims) = Len(creds) /\ Len(trees) = i - 1
      /\ i \in 1 .. build.shape.revocations /\ build.shape.revocations \in Nat /\ i \in Nat
      /\ i \in 1 .. Len(creds) /\ i \in 1 .. build.shape.count
      /\ Unchanged(build, at)
  <2>1. /\ build \in Builds /\ Fit(build) /\ at \in 1 .. Total(build)
        /\ StepAdds(build, at, "revocation", i)
        /\ Len(creds) = CredentialsDone(build, at)
        /\ Len(claims) = Len(creds) /\ Len(trees) = TreesDone(build, at)
    BY <1>1, DueIs
  <2>2. build.shape.count \in Nat /\ build.shape.revocations \in 0 .. build.shape.count
    BY <2>1, ShapeFacts
  <2>3. /\ i \in 1 .. build.shape.revocations /\ TreesDone(build, at) = i - 1
        /\ TreesDone(build, at + 1) = i /\ i <= CredentialsDone(build, at) /\ Unchanged(build, at)
        /\ CredentialsDone(build, at) \in 1 .. build.shape.count
        /\ CredentialsDone(build, at + 1) = CredentialsDone(build, at)
    BY <2>1 DEF StepAdds
  <2>. QED
    BY <2>1, <2>2, <2>3
<1>5. depth \in 0 .. W /\ depth # 0 /\ W \in Nat
  <2>1. depth \in Nat /\ depth # 0
    BY <1>4, ShapeFacts
  <2>. QED
    BY <1>1, <2>1, FieldAssumption
<1>6. creds[i] \in Opening /\ rid \in Field /\ (Code => rid = Fixture(build.profile, i).rid)
  <2>1. creds \in Seq(Opening)
    BY DEF RelationInv, RelationTypeOK
  <2>2. creds[i] \in Opening /\ rid \in Field
    <3>1. creds[i] \in Opening
      BY <1>4, <2>1
    <3>. QED
      BY <3>1 DEF Opening
  <2>3. Code => creds[i] = Mutated(build, i)
    BY <1>4 DEF RelationInv, WitnessKnown
  <2>. QED
    BY <1>4, <2>2, <2>3, FixtureKept
<1>7. leaf \in Field /\ 0 \in Field /\ 1 \in Field /\ dm \in Field
  BY FieldValues
<1>8. /\ BuiltPath(build) \in Seq(Field) /\ Len(BuiltPath(build)) = depth
      /\ WitnessPath(build) \in Seq(Field) /\ Len(WitnessPath(build)) = depth
      /\ build.mutation # "MerklePath" => WitnessPath(build) = BuiltPath(build)
      /\ build.mutation = "MerklePath" =>
           /\ WitnessPath(build)[1] # BuiltPath(build)[1]
           /\ \A l \in 2 .. depth : WitnessPath(build)[l] = BuiltPath(build)[l]
  BY <1>4, <1>5, PathTyped
<1>9. path \in Seq(Field) /\ Len(path) = depth /\ (Code => path = WitnessPath(build))
  <2>1. CASE Code
    BY <1>2, <1>8, <2>1
  <2>2. CASE ~Code
    <3>1. path \in [1 .. depth -> Field] /\ depth \in Nat
      BY <1>2, <1>5, <2>2, ValueAssumption
    <3>. QED
      BY <2>2, <3>1
  <2>. QED
    BY <2>1, <2>2
<1>10. bits = BuiltBits(rid) /\ bits \in [0 .. W - 1 -> Field]
  <2>1. bits = BuiltBits(rid)
    <3>1. CASE Code
      BY <1>2, <3>1
    <3>2. CASE ~Code
      <4>1. bits \in Decompositions[rid]
        BY <1>2, <3>2
      <4>2. Decompositions[rid] = IF rid \in Word THEN {BuiltBits(rid)} ELSE {}
        BY <1>6, DecompositionsAre
      <4>. QED
        BY <4>1, <4>2
    <3>. QED
      BY <3>1, <3>2
  <2>2. rid \in Nat
    BY <1>6, FieldAssumption DEF Field
  <2>3. BuiltBits(rid) \in [0 .. W - 1 -> {0, 1}]
    BY <2>2, BuiltBitsAre
  <2>. QED
    BY <1>7, <2>1, <2>3
<1>11. /\ MerkleOutputs(bits, path, leaf, dm) = {MerkleRoot(rid, path, leaf, dm)}
       /\ MerkleRoot(rid, path, leaf, dm) \in Field
       /\ DecomposeRows(bits, rid) /\ (\A l \in depth .. W - 1 : bits[l] = 0) <=> rid < TwoTo(depth)
  <2>1. rid \in Field /\ path \in Seq(Field) /\ Len(path) \in 0 .. W /\ leaf \in Field
    BY <1>5, <1>6, <1>7, <1>9
  <2> HIDE DEF rid, leaf
  <2>. QED
    BY <1>9, <1>10, <2>1, RevocationRows
<1>12. root \in Field /\ (Code => root = MerkleRoot(rid, BuiltPath(build), 0, dm))
  <2>1. MerkleRoot(rid, BuiltPath(build), 0, dm) \in Field
    BY <1>7, <1>8, MerkleRootTyped
  <2>. QED
    BY <1>3, <1>11, <2>1
<1>13. at' = at + 1 /\ sat' = (sat /\ hold(epoch, bits, path, root)) /\ sat \in BOOLEAN
  BY <1>3 DEF Rows, RelationInv, RelationTypeOK
<1>14. hold(epoch, bits, path, root) <=>
         epoch = RootEpoch /\ rid < TwoTo(depth) /\ root = MerkleRoot(rid, path, leaf, dm)
  BY <1>11
<1> HIDE DEF hold
<1>15. sat' \in BOOLEAN /\ (sat' <=> sat /\ hold(epoch, bits, path, root))
  BY <1>13
<1> DEFINE tree == [path |-> path, root |-> root]
<1>16. /\ trees' \in Seq(Tree) /\ Len(trees') = i
       /\ \A j \in 1 .. i - 1 : trees'[j] = trees[j]
       /\ trees'[i].path = path /\ trees'[i].root = root
  <2>1. tree \in Tree /\ trees \in Seq(Tree) /\ (i - 1) + 1 = i
    BY <1>4, <1>9, <1>12 DEF RelationInv, RelationTypeOK, Tree
  <2>2. tree.path = path /\ tree.root = root /\ trees' = Append(trees, tree)
    BY <1>3
  <2> HIDE DEF tree
  <2>3. /\ trees' \in Seq(Tree) /\ Len(trees') = Len(trees) + 1
        /\ \A j \in 1 .. Len(trees) : trees'[j] = trees[j]
        /\ trees'[Len(trees) + 1] = tree
    BY <2>1, <2>2, AppendIs
  <2>. QED
    BY <1>4, <2>1, <2>2, <2>3
<1>17. \A j \in 1 .. i : j = i \/ j \in 1 .. i - 1
  BY <1>4
<1>18. RelationTypeOK'
  <2>1. size' \in [rows : Nat, vars : Nat]
    <3> DEFINE a == depth * (1 + PerHash(2))
               b == depth * (2 + PerHash(2))
    <3>1. a \in Nat /\ b \in Nat
      <4> DEFINE u == 1 + PerHash(2)
                 v == 2 + PerHash(2)
      <4>1. depth \in Nat /\ u \in Nat /\ v \in Nat
        <5>1. PerHash(2) \in Nat
          BY PerHashTyped
        <5>. QED
          BY <1>5, <5>1
      <4> HIDE DEF u, v, depth
      <4>2. depth * u \in Nat /\ depth * v \in Nat
        BY <4>1, ProductTyped
      <4>. QED
        BY <4>2 DEF u, v
    <3>2. Adds(W + 3 + (IF build.profile = "sig" THEN 1 ELSE 0) + (W - depth) + a, W + b)
      BY <1>1
    <3> HIDE DEF a, b
    <3>3. /\ W + 3 + (IF build.profile = "sig" THEN 1 ELSE 0) + (W - depth) + a \in Nat
          /\ W + b \in Nat
      <4> DEFINE extra == IF build.profile = "sig" THEN 1 ELSE 0
      <4>1. extra \in Nat
        OBVIOUS
      <4> HIDE DEF extra, depth
      <4>2. W + 3 + extra + (W - depth) + a \in Nat /\ W + b \in Nat
        BY <1>5, <3>1, <4>1
      <4>. QED
        BY <4>2 DEF extra
    <3>. QED
      BY <3>2, <3>3, AddsTyped DEF RelationInv
  <2>. QED
    BY <1>1, <1>15, <1>16, <2>1 DEF RelationInv, RelationTypeOK
<1>19. Progress'
  BY <1>1, <1>4, <1>13, <1>16, ProgressKept
<1>20. RowsSay'
  <2> SUFFICES ASSUME sat', build.mutation = "Valid"
               PROVE  /\ OpeningsTrue'
                      /\ build.wk => SameHolder'
                      /\ Asked(build, at + 1) =>
                           request.digest = NativeHash(<<creds[1].holder, request.nonce, request.mask>>,
                                                       0, Domain.request)
                      /\ Disclosed(build, at + 1) => RequestTrue'
                      /\ Compared(build, at + 1) => RangeTrue'
                      /\ RevocationTrue'
                      /\ Crossed(build, at + 1) =>
                           creds[1].holder = creds[2].holder /\ creds[1].age = creds[2].age
    BY <1>1, <1>13 DEF RowsSay
  <2>1. /\ OpeningsTrue
        /\ build.wk => SameHolder
        /\ Asked(build, at) =>
             request.digest = NativeHash(<<creds[1].holder, request.nonce, request.mask>>, 0, Domain.request)
        /\ Disclosed(build, at) => RequestTrue
        /\ Compared(build, at) => RangeTrue
        /\ RevocationTrue
        /\ Crossed(build, at) => creds[1].holder = creds[2].holder /\ creds[1].age = creds[2].age
    BY <1>15 DEF RelationInv, RowsSay
  <2>2. OpeningsTrue' /\ (build.wk => SameHolder') /\ (Disclosed(build, at) => RequestTrue')
        /\ (Compared(build, at) => RangeTrue')
    BY <1>1, <2>1 DEF OpeningsTrue, SameHolder, RequestTrue, RangeTrue
  <2>3. RevocationTrue'
    <3>1. \A j \in 1 .. i - 1 : /\ creds[j].rid < TwoTo(depth)
                                /\ trees[j].root = MerkleRoot(creds[j].rid, trees[j].path, 0, dm)
      BY <1>4, <2>1 DEF RevocationTrue
    <3>2. rid < TwoTo(depth) /\ root = MerkleRoot(rid, path, 0, dm)
      BY <1>14, <1>15
    <3> HIDE DEF dm, depth
    <3>3. \A j \in 1 .. i : /\ creds[j].rid < TwoTo(depth)
                            /\ trees'[j].root = MerkleRoot(creds[j].rid, trees'[j].path, 0, dm)
      BY <1>16, <1>17, <3>1, <3>2
    <3>. QED
      BY <1>1, <1>16, <3>3 DEF RevocationTrue, dm, depth
  <2>. QED
    BY <1>4, <2>1, <2>2, <2>3 DEF Unchanged
<1>21. WitnessKnown'
  BY <1>1, <1>4, <1>13 DEF RelationInv, WitnessKnown, Code, Unchanged
<1>22. NothingBroken'
  <2> SUFFICES ASSUME Code, ~Rejected(build), Reachable(build) PROVE sat'
    BY <1>1 DEF NothingBroken, Code
  <2>1. sat
    BY DEF RelationInv, NothingBroken
  <2>2. build.mutation \notin {"Revoked", "StaleRoot", "MerklePath"}
    BY <1>4 DEF Rejected
  <2>3. epoch = RootEpoch /\ leaf = 0 /\ path = BuiltPath(build)
    BY <1>2, <1>8, <1>9, <2>2
  <2>4. rid < TwoTo(depth)
    BY <1>4, <1>6 DEF Reachable
  <2>. QED
    BY <1>12, <1>14, <1>15, <2>1, <2>3, <2>4
<1>23. MutationSeen'
  <2> DEFINE m == build.mutation
  <2> SUFFICES ASSUME Code, sat'
               PROVE  /\ m \in {"Attribute", "Issuer", "Holder", "CredentialType", "IssuanceEpoch", "Claim"}
                           => Len(creds) = 0
                      /\ m = "CrossCredential" => Len(creds) < 2
                      /\ m = "Nonce" => ~Asked(build, at + 1)
                      /\ m = "Expired" => ~Compared(build, at + 1)
                      /\ m \notin {"Revoked", "StaleRoot", "MerklePath"}
                      /\ \A j \in 1 .. i :
                           Fixture(build.profile, j).rid < TwoTo(build.shape.depth)
    BY <1>1, <1>13, <1>16 DEF MutationSeen, Code
  <2>1. /\ m \in {"Attribute", "Issuer", "Holder", "CredentialType", "IssuanceEpoch", "Claim"}
             => Len(creds) = 0
        /\ m = "CrossCredential" => Len(creds) < 2
        /\ m = "Nonce" => ~Asked(build, at)
        /\ m = "Expired" => ~Compared(build, at)
        /\ \A j \in 1 .. i - 1 :
             Fixture(build.profile, j).rid < TwoTo(build.shape.depth)
    BY <1>4, <1>15 DEF RelationInv, MutationSeen
  <2>2. /\ epoch = RootEpoch /\ rid < TwoTo(depth)
        /\ MerkleRoot(rid, BuiltPath(build), 0, dm) = MerkleRoot(rid, WitnessPath(build), leaf, dm)
    BY <1>9, <1>12, <1>14, <1>15
  <2>3. m # "StaleRoot"
    <3>1. RootEpoch - 1 # RootEpoch
      BY ValueAssumption
    <3>. QED
      BY <1>2, <2>2, <3>1
  <2>4. m # "Revoked"
    <3> SUFFICES ASSUME m = "Revoked" PROVE FALSE
      OBVIOUS
    <3> DEFINE s == BuiltPath(build)
    <3>1. MerkleRoot(rid, s, 0, dm) = MerkleRoot(rid, s, 1, dm)
      BY <1>8, <2>2
    <3>2. s \in Seq(Field)
      BY <1>8
    <3> HIDE DEF s, rid, dm
    <3>. QED
      BY <1>7, <3>1, <3>2, LeafDiffers
  <2>5. m # "MerklePath"
    <3> SUFFICES ASSUME m = "MerklePath" PROVE FALSE
      OBVIOUS
    <3> DEFINE s == BuiltPath(build)
               t == WitnessPath(build)
    <3>1. MerkleRoot(rid, s, 0, dm) = MerkleRoot(rid, t, 0, dm)
      BY <2>2
    <3>2. /\ t \in Seq(Field) /\ s \in Seq(Field) /\ Len(t) = Len(s) /\ Len(t) # 0 /\ t[1] # s[1]
          /\ \A l \in 2 .. Len(t) : t[l] = s[l]
      BY <1>5, <1>8
    <3> HIDE DEF s, t, rid, dm
    <3>3. MerkleRoot(rid, t, 0, dm) # MerkleRoot(rid, s, 0, dm)
      BY <1>7, <3>2, SiblingDiffers
    <3>. QED
      BY <3>1, <3>3
  <2>6. \A j \in 1 .. i : Fixture(build.profile, j).rid < TwoTo(build.shape.depth)
    BY <1>6, <1>17, <2>1, <2>2
  <2>. QED
    BY <1>4, <2>1, <2>3, <2>4, <2>5, <2>6 DEF Unchanged
<1>. QED
  BY <1>18, <1>19, <1>20, <1>21, <1>22, <1>23 DEF RelationInv


\* The invariant holds before the first call.
LEMMA RelationInvInit ==
  ASSUME Init
  PROVE  RelationInv
<1>1. /\ build \in Builds /\ at = 1 /\ creds = <<>> /\ claims = <<>> /\ trees = <<>>
      /\ sat = TRUE /\ outcome = "building" /\ today = 0
      /\ request = [nonce |-> 0, mask |-> 0, digest |-> 0, age |-> 0, country |-> 0]
      /\ size = [rows |-> 0, vars |-> 0]
  BY DEF Init
<1>2. RelationTypeOK
  BY <1>1, FieldValues DEF RelationTypeOK, Request
<1>3. /\ CredentialsDone(build, 1) = 0 /\ TreesDone(build, 1) = 0
      /\ ~Asked(build, 1) /\ ~Disclosed(build, 1) /\ ~Compared(build, 1) /\ ~Crossed(build, 1)
      /\ Fit(build) => Total(build) \in Nat
  BY <1>1, DoneEnds
<1>4. Len(creds) = 0 /\ Len(claims) = 0 /\ Len(trees) = 0
  BY <1>1
<1>5. Progress
  <2>1. Fit(build) => at \in 1 .. Total(build) + 1
    BY <1>1, <1>3
  <2>. QED
    BY <1>1, <1>3, <1>4, <2>1 DEF Progress
<1>6. RowsSay
  BY <1>1, <1>3, <1>4 DEF RowsSay, OpeningsTrue, SameHolder, RevocationTrue
<1>7. WitnessKnown /\ NothingBroken /\ MutationSeen
  BY <1>1, <1>3, <1>4 DEF WitnessKnown, NothingBroken, MutationSeen
<1>. QED
  BY <1>2, <1>5, <1>6, <1>7 DEF RelationInv

\* A build that ends, one way or the other, keeps its wires.
LEMMA EndKeeps ==
  ASSUME RelationInv, RefuseShape \/ Resolve \/ \E i \in 1 .. build.shape.count : DeepPath(i)
  PROVE  RelationInv'
<1>1. UNCHANGED <<build, at, creds, claims, request, today, trees, sat, size>>
  BY DEF RefuseShape, Resolve, DeepPath
<1>2. outcome' \in {"building", "refused", "panicked", "built", "tooSmall"}
  BY DEF RefuseShape, Resolve, DeepPath
<1>3. Progress'
  <2>1. CASE RefuseShape
    BY <1>1, <2>1 DEF RefuseShape, RelationInv, Progress, Fit
  <2>2. CASE Resolve
    <3>1. /\ outcome = "building" /\ at = Len(Steps(build)) + 1 /\ outcome' \in {"built", "tooSmall"}
          /\ build \in Builds
      BY <2>2 DEF Resolve, RelationInv, RelationTypeOK
    <3>2. Fit(build)
      BY <2>2 DEF Resolve, Fit
    <3>3. at = Total(build) + 1
      BY <3>1, <3>2, StepsAre
    <3>. QED
      BY <1>1, <3>1, <3>2, <3>3 DEF RelationInv, Progress
  <2>3. CASE \E i \in 1 .. build.shape.count : DeepPath(i)
    <3>1. Fit(build) /\ outcome' = "panicked"
      BY <2>3 DEF DeepPath, Due, Fit
    <3>. QED
      BY <1>1, <3>1 DEF RelationInv, Progress
  <2>. QED
    BY <2>1, <2>2, <2>3
<1>4. RelationTypeOK'
  BY <1>1, <1>2 DEF RelationInv, RelationTypeOK
<1>5. RowsSay'
  BY <1>1 DEF RelationInv, RowsSay, OpeningsTrue, SameHolder, RequestTrue, RangeTrue, RevocationTrue
<1>6. WitnessKnown' /\ NothingBroken' /\ MutationSeen'
  BY <1>1 DEF RelationInv, WitnessKnown, NothingBroken, MutationSeen, Code
<1>. QED
  BY <1>3, <1>4, <1>5, <1>6 DEF RelationInv


\* Every step keeps the invariant.
LEMMA RelationInvStep ==
  ASSUME RelationInv, [Next]_relationVars
  PROVE  RelationInv'
<1>1. CASE \E i \in 1 .. build.shape.count : Credential(i)
  BY <1>1, CredentialKeeps
<1>2. CASE \E i \in 1 .. build.shape.count : Revocation(i)
  BY <1>2, RevocationKeeps
<1>3. CASE RequestBinding
  BY <1>3, RequestKeeps
<1>4. CASE Disclosure
  BY <1>4, DisclosureKeeps
<1>5. CASE RangeAndExpiry
  BY <1>5, RangeKeeps
<1>6. CASE CrossBinding
  BY <1>6, CrossKeeps
<1>7. CASE RefuseShape \/ Resolve \/ \E i \in 1 .. build.shape.count : DeepPath(i)
  BY <1>7, EndKeeps
<1>8. CASE UNCHANGED relationVars
  <2>1. UNCHANGED <<build, at, creds, claims, request, today, trees, sat, size, outcome>>
    BY <1>8 DEF relationVars
  <2>2. RelationTypeOK' /\ Progress'
    BY <2>1 DEF RelationInv, RelationTypeOK, Progress
  <2>3. RowsSay'
    BY <2>1 DEF RelationInv, RowsSay, OpeningsTrue, SameHolder, RequestTrue, RangeTrue, RevocationTrue
  <2>4. WitnessKnown' /\ NothingBroken' /\ MutationSeen'
    BY <2>1 DEF RelationInv, WitnessKnown, NothingBroken, MutationSeen, Code
  <2>. QED
    BY <2>2, <2>3, <2>4 DEF RelationInv
<1>. QED
  BY <1>1, <1>2, <1>3, <1>4, <1>5, <1>6, <1>7, <1>8 DEF Next

-------------------------------------------------------------------------------
(* The theorems *)

\* The invariant the two theorems below rest on: which calls have been made, what
\* their rows say of any witness, and what the builder's own witness does to them.
THEOREM RelationInvariant == RelationSpec => []RelationInv
<1>1. Init => RelationInv
  BY RelationInvInit
<1>2. RelationInv /\ [Next]_relationVars => RelationInv'
  BY RelationInvStep
<1>. QED
  BY <1>1, <1>2, PTL DEF RelationSpec

\* What a finished build has done.
LEMMA BuiltIs ==
  ASSUME RelationInv, outcome = "built"
  PROVE  /\ build \in Builds /\ Fit(build) /\ Len(creds) = build.shape.count
         /\ Len(trees) = build.shape.revocations
         /\ Asked(build, at) /\ Disclosed(build, at) /\ Compared(build, at) = build.shape.range
         /\ Crossed(build, at) = Crosses(build)
<1>1. build \in Builds /\ Fit(build) /\ at = Total(build) + 1
  BY DEF RelationInv, RelationTypeOK, Progress
<1>. QED
  BY <1>1, DoneEnds DEF RelationInv, Progress

\* Soundness of the relations of credential_workloads.rs and profile_s.rs: for
\* every field, word size, number of rounds and workload, a witness that satisfies
\* all rows of a finished build opens the claims of its credentials, belongs to one
\* holder, discloses what the mask says, is in range and unexpired as integers, and
\* leads to the published revocation roots.
THEOREM RelationSound == RelationSpec => []SatisfiedMeansTrue
<1>1. RelationInv => SatisfiedMeansTrue
  <2> SUFFICES ASSUME RelationInv, outcome = "built", sat, build.mutation = "Valid"
               PROVE  OpeningsTrue /\ SameHolder /\ RequestTrue /\ RangeTrue /\ RevocationTrue
    BY DEF SatisfiedMeansTrue
  <2>1. /\ build \in Builds /\ Fit(build) /\ Len(creds) = build.shape.count
        /\ Asked(build, at) /\ Disclosed(build, at) /\ Compared(build, at) = build.shape.range
        /\ Crossed(build, at) = Crosses(build)
    BY BuiltIs
  <2>2. /\ OpeningsTrue /\ (build.wk => SameHolder) /\ RequestTrue
        /\ (build.shape.range => RangeTrue) /\ RevocationTrue
        /\ Crosses(build) => creds[1].holder = creds[2].holder /\ creds[1].age = creds[2].age
    BY <2>1 DEF RelationInv, RowsSay
  <2>3. RangeTrue
    BY <2>2 DEF RangeTrue
  <2>4. SameHolder
    <3>1. CASE build.wk
      BY <2>2, <3>1
    <3>2. CASE ~build.wk
      <4>1. build.shape.count \in 1 .. 2 /\ (build.shape.count = 2 => Crosses(build))
        BY <2>1, <3>2, ShapeFacts DEF Crosses
      <4>2. \A i \in 1 .. build.shape.count : i = 1 \/ (i = 2 /\ build.shape.count = 2)
        BY <4>1
      <4>. QED
        BY <2>1, <2>2, <4>1, <4>2 DEF SameHolder
    <3>. QED
      BY <3>1, <3>2
  <2>. QED
    BY <2>2, <2>3, <2>4
<1>. QED
  BY <1>1, RelationInvariant, PTL

\* Completeness and the audits of audit_sigma_mac and audit_profile_s: the
\* builder's own witness satisfies a finished relation exactly when no audit
\* expects its mutation to be rejected and every revocation identifier fits its
\* tree.
THEOREM AuditsCorrect == RelationSpec => []AuditVerdicts
<1>1. RelationInv => AuditVerdicts
  <2> SUFFICES ASSUME RelationInv, outcome = "built", Code
               PROVE  sat = (~Rejected(build) /\ Reachable(build))
    BY DEF AuditVerdicts
  <2>1. /\ build \in Builds /\ Fit(build) /\ Len(creds) = build.shape.count
        /\ Len(trees) = build.shape.revocations
        /\ Asked(build, at) /\ Disclosed(build, at) /\ Compared(build, at) = build.shape.range
    BY BuiltIs
  <2>2. build.shape.count \in Nat \ {0} /\ build.shape.revocations \in Nat
    BY <2>1, ShapeFacts
  <2>3. sat \in BOOLEAN
    BY DEF RelationInv, RelationTypeOK
  <2>4. ~Rejected(build) /\ Reachable(build) => sat
    BY DEF RelationInv, NothingBroken
  <2>5. ASSUME sat PROVE ~Rejected(build) /\ Reachable(build)
    <3> DEFINE m == build.mutation
    <3>1. /\ m \in {"Attribute", "Issuer", "Holder", "CredentialType", "IssuanceEpoch", "Claim"}
               => Len(creds) = 0
          /\ m = "CrossCredential" => Len(creds) < 2
          /\ m = "Nonce" => ~Asked(build, at)
          /\ m = "Expired" => ~Compared(build, at)
          /\ m \in {"Revoked", "StaleRoot", "MerklePath"} => Len(trees) = 0
          /\ \A i \in 1 .. Len(trees) : Fixture(build.profile, i).rid < TwoTo(build.shape.depth)
      BY <2>5 DEF RelationInv, MutationSeen
    <3>2. Reachable(build)
      BY <2>1, <3>1 DEF Reachable
    <3>3. m \notin {"Attribute", "Issuer", "Holder", "Claim", "Nonce", "CredentialType", "IssuanceEpoch"}
      BY <2>1, <2>2, <3>1
    <3>4. ~(m = "Expired" /\ build.shape.range)
      BY <2>1, <3>1
    <3>5. ~(m \in {"Revoked", "StaleRoot", "MerklePath"} /\ build.shape.revocations > 0)
      BY <2>1, <2>2, <3>1
    <3>6. ~(m = "CrossCredential" /\ build.shape.count > 1)
      BY <2>1, <2>2, <3>1
    <3>. QED
      BY <3>2, <3>3, <3>4, <3>5, <3>6 DEF Rejected
  <2>6. (~Rejected(build) /\ Reachable(build)) \in BOOLEAN
    BY DEF Rejected, Reachable
  <2>. QED
    BY <2>3, <2>4, <2>5, <2>6
<1>. QED
  BY <1>1, RelationInvariant, PTL


===============================================================================
