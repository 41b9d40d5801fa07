------------------------------- MODULE FiniteSums -------------------------------
(***************************************************************************)
(* Sums over finite sets: what SumFunctionOnSet of the community modules   *)
(* computes.                                                               *)
(*                                                                         *)
(* The operator is a recursive function on the subsets of the set.  That   *)
(* there is such a function, and what follows for the sums, is shown by    *)
(* minimal counterexamples: a family of subsets of a finite set has a      *)
(* minimal one, because strict inclusion of finite sets is well-founded.   *)
(***************************************************************************)
EXTENDS Integers, Functions, FiniteSetTheorems, WellFoundedInduction, TLAPS

-------------------------------------------------------------------------------
(* Minimal and maximal elements *)

\* In a family of subsets of a finite set there is one that contains no other.
LEMMA MinimalSet ==
  ASSUME NEW S, IsFiniteSet(S), NEW Bad \in SUBSET (SUBSET S), Bad # {}
  PROVE  \E m \in Bad : \A n \in Bad : n \subseteq m => n = m
<1>1. IsWellFoundedOn(StrictSubsetOrdering(S), SUBSET S)
  BY FS_StrictSubsetOrderingWellFounded, FS_FiniteSubsetsOfFinite
<1>2. \E m \in Bad : \A n \in Bad : ~(<<n, m>> \in StrictSubsetOrdering(S))
  BY <1>1, WFMin
<1>. QED
  BY <1>2 DEF StrictSubsetOrdering

\* A finite set of integers has a largest element.
LEMMA LargestExists ==
  ASSUME NEW S, IsFiniteSet(S), S # {}, \A x \in S : x \in Int
  PROVE  \E x \in S : \A y \in S : x >= y
<1> DEFINE Bad == {T \in SUBSET S : T # {} /\ ~\E x \in T : \A y \in T : x >= y}
<1>1. SUFFICES ASSUME Bad # {} PROVE FALSE
  OBVIOUS
<1>2. Bad \in SUBSET (SUBSET S)
  OBVIOUS
<1> HIDE DEF Bad
<1>3. PICK m \in Bad : \A n \in Bad : n \subseteq m => n = m
  BY <1>1, <1>2, MinimalSet
<1>4. m \in SUBSET S /\ m # {} /\ ~\E x \in m : \A y \in m : x >= y
  BY DEF Bad
<1>5. PICK x : x \in m
  BY <1>4
<1> DEFINE less == m \ {x}
<1>6. \A y \in m : y \in Int
  BY <1>4
<1>7. \E y \in less : TRUE
  BY <1>4, <1>5, <1>6
<1>8. less \in SUBSET S /\ less # {} /\ less \notin Bad
  BY <1>3, <1>4, <1>5, <1>7
<1> HIDE DEF less
<1>9. PICK y \in less : \A z \in less : y >= z
  BY <1>8 DEF Bad
<1>. QED
  BY <1>4, <1>5, <1>6, <1>9 DEF less

-------------------------------------------------------------------------------
(* Induction and recursion over 0 .. n *)

\* What holds of 0 and of the successor of each number it holds of, up to n,
\* holds of all numbers up to n.
LEMMA InductionUpTo ==
  ASSUME NEW n \in Nat, NEW S, 0 \in S, \A i \in 0 .. n - 1 : i \in S => i + 1 \in S
  PROVE  \A i \in 0 .. n : i \in S
<1> DEFINE T == {m \in 0 .. n : \A i \in 0 .. m : i \in S}
<1>1. IsFiniteSet(T) /\ T # {} /\ \A m \in T : m \in Int
  <2>1. IsFiniteSet(0 .. n)
    BY FS_Interval
  <2>2. 0 \in T /\ T \subseteq 0 .. n /\ \A m \in T : m \in Int
    OBVIOUS
  <2> HIDE DEF T
  <2>. QED
    BY <2>1, <2>2, FS_Subset
<1> HIDE DEF T
<1>2. PICK m \in T : \A k \in T : m >= k
  BY <1>1, LargestExists
<1>3. m \in 0 .. n /\ \A i \in 0 .. m : i \in S
  BY DEF T
<1>4. CASE m = n
  BY <1>3, <1>4
<1>5. CASE m # n
  <2>1. m \in S /\ m \in 0 .. n - 1
    BY <1>3, <1>5
  <2>2. m + 1 \in S
    BY <2>1
  <2>3. \A i \in 0 .. m + 1 : i \in S
    <3>1. \A i \in 0 .. m + 1 : i \in 0 .. m \/ i = m + 1
      BY <2>1
    <3>. QED
      BY <1>3, <2>2, <3>1
  <2>4. m + 1 \in T
    BY <2>1, <2>3 DEF T
  <2>5. m >= m + 1
    BY <1>2, <2>4
  <2>. QED
    BY <2>1, <2>5
<1>. QED
  BY <1>4, <1>5

\* A function is defined by its value at 0 and the step from i - 1 to i.
IsRun(f, n, base, step) ==
  f = [i \in 0 .. n |-> IF i = 0 THEN base ELSE step[<<i, f[i - 1]>>]]

\* There is such a function for every length, base and step.
LEMMA RunExists ==
  ASSUME NEW n \in Nat, NEW V, NEW base \in V, NEW step \in [(1 .. n) \X V -> V]
  PROVE  \E f \in [0 .. n -> V] : IsRun(f, n, base, step)
<1> DEFINE S == {m \in 0 .. n : \E f \in [0 .. m -> V] : IsRun(f, m, base, step)}
<1>1. 0 \in S
  <2> DEFINE f == [i \in 0 .. 0 |-> base]
  <2>1. f \in [0 .. 0 -> V] /\ IsRun(f, 0, base, step)
    BY DEF IsRun
  <2>. QED
    BY <2>1
<1>2. \A m \in 0 .. n - 1 : m \in S => m + 1 \in S
  <2> SUFFICES ASSUME NEW m \in 0 .. n - 1, m \in S PROVE m + 1 \in S
    OBVIOUS
  <2>1. PICK f \in [0 .. m -> V] : IsRun(f, m, base, step)
    OBVIOUS
  <2> DEFINE g == [i \in 0 .. m + 1 |-> IF i = m + 1 THEN step[<<m + 1, f[m]>>] ELSE f[i]]
  <2>2. f[m] \in V /\ step[<<m + 1, f[m]>>] \in V /\ m + 1 \in 0 .. n
    OBVIOUS
  <2>3. \A i \in 0 .. m + 1 : i = m + 1 \/ i \in 0 .. m
    OBVIOUS
  <2>4. g \in [0 .. m + 1 -> V]
    BY <2>2, <2>3
  <2>5. \A i \in 0 .. m + 1 : g[i] = IF i = 0 THEN base ELSE step[<<i, g[i - 1]>>]
    <3> SUFFICES ASSUME NEW i \in 0 .. m + 1
                 PROVE  g[i] = IF i = 0 THEN base ELSE step[<<i, g[i - 1]>>]
      OBVIOUS
    <3>1. CASE i = m + 1
      <4>1. i # 0 /\ i - 1 = m /\ m # m + 1 /\ m \in 0 .. m + 1
        BY <3>1
      <4>2. g[i - 1] = f[m] /\ g[i] = step[<<m + 1, f[m]>>]
        BY <3>1, <4>1
      <4> HIDE DEF g
      <4>. QED
        BY <3>1, <4>1, <4>2
    <3>2. CASE i \in 0 .. m /\ i # 0
      <4>1. i # m + 1 /\ i - 1 # m + 1 /\ i - 1 \in 0 .. m
        BY <3>2
      <4>2. g[i] = f[i] /\ g[i - 1] = f[i - 1]
        BY <4>1
      <4>3. f[i] = step[<<i, f[i - 1]>>]
        BY <2>1, <3>2 DEF IsRun
      <4> HIDE DEF g
      <4>. QED
        BY <3>2, <4>2, <4>3
    <3>3. CASE i = 0
      <4>1. f[0] = base
        BY <2>1 DEF IsRun
      <4>. QED
        BY <3>3, <4>1
    <3>. QED
      BY <2>3, <3>1, <3>2, <3>3
  <2> HIDE DEF g
  <2>6. IsRun(g, m + 1, base, step)
    BY <2>4, <2>5 DEF IsRun
  <2>. QED
    BY <2>2, <2>4, <2>6
<1> HIDE DEF S
<1>3. n \in S
  BY <1>1, <1>2, InductionUpTo
<1>. QED
  BY <1>3 DEF S

\* The step of f from each of 0 .. n - 1 to the next keeps it in V.
Staying(f, n, V) ==
  f[0] \in V /\ \A i \in 1 .. n : f[i - 1] \in V => f[i] \in V

\* What holds at 0 and is kept by every step holds throughout.
LEMMA RunStays ==
  ASSUME NEW n \in Nat, NEW V, NEW f, Staying(f, n, V)
  PROVE  \A i \in 0 .. n : f[i] \in V
<1> DEFINE S == {i \in 0 .. n : f[i] \in V}
<1>1. 0 \in S
  BY DEF Staying
<1>2. \A i \in 0 .. n - 1 : i \in S => i + 1 \in S
  <2> SUFFICES ASSUME NEW i \in 0 .. n - 1, f[i] \in V PROVE f[i + 1] \in V /\ i + 1 \in 0 .. n
    OBVIOUS
  <2>1. i + 1 \in 1 .. n /\ (i + 1) - 1 = i /\ i + 1 \in 0 .. n
    OBVIOUS
  <2>2. f[(i + 1) - 1] \in V => f[i + 1] \in V
    BY <2>1 DEF Staying
  <2>. QED
    BY <2>1, <2>2
<1>3. \A i \in 0 .. n : i \in S
  <2> HIDE DEF S
  <2>. QED
    BY <1>1, <1>2, InductionUpTo
<1>. QED
  BY <1>3

\* Two functions take the same step from equal values.
InStep(f, g, n) ==
  f[0] = g[0] /\ \A i \in 1 .. n : f[i - 1] = g[i - 1] => f[i] = g[i]

\* Two functions that start alike and step alike are alike.
LEMMA RunsAgree ==
  ASSUME NEW n \in Nat, NEW f, NEW g, InStep(f, g, n)
  PROVE  \A i \in 0 .. n : f[i] = g[i]
<1> DEFINE S == {i \in 0 .. n : f[i] = g[i]}
<1>1. 0 \in S
  BY DEF InStep
<1>2. \A i \in 0 .. n - 1 : i \in S => i + 1 \in S
  <2> SUFFICES ASSUME NEW i \in 0 .. n - 1, f[i] = g[i] PROVE f[i + 1] = g[i + 1] /\ i + 1 \in 0 .. n
    OBVIOUS
  <2>1. i + 1 \in 1 .. n /\ (i + 1) - 1 = i /\ i + 1 \in 0 .. n
    OBVIOUS
  <2>2. f[(i + 1) - 1] = g[(i + 1) - 1] => f[i + 1] = g[i + 1]
    BY <2>1 DEF InStep
  <2>. QED
    BY <2>1, <2>2
<1>3. \A i \in 0 .. n : i \in S
  <2> HIDE DEF S
  <2>. QED
    BY <1>1, <1>2, InductionUpTo
<1>. QED
  BY <1>3

-------------------------------------------------------------------------------
(* The recursion *)

\* The element that a sum takes first, and the recursion it follows.
Pick(s) == CHOOSE x \in s : TRUE

IsIter(it, fun, S) ==
  it = [s \in SUBSET S |-> IF s = {} THEN 0 ELSE fun[Pick(s)] + it[s \ {Pick(s)}]]

\* A sum is the value of the recursion for the whole set.
LEMMA SumIs ==
  ASSUME NEW fun, NEW S
  PROVE  SumFunctionOnSet(fun, S) = (CHOOSE it : IsIter(it, fun, S))[S]
BY DEF SumFunctionOnSet, FoldFunctionOnSet, MapThenFoldSet, IsIter, Pick

\* Two runs of the recursion agree where both are defined.
LEMMA IterUnique ==
  ASSUME NEW S, IsFiniteSet(S), NEW T, NEW fun, NEW a, NEW b,
         IsIter(a, fun, S), IsIter(b, fun, T), NEW s \in SUBSET S, s \in SUBSET T
  PROVE  a[s] = b[s]
<1> DEFINE Bad == {r \in SUBSET S : r \subseteq T /\ a[r] # b[r]}
<1>1. SUFFICES ASSUME Bad # {} PROVE FALSE
  OBVIOUS
<1>2. Bad \in SUBSET (SUBSET S)
  OBVIOUS
<1> HIDE DEF Bad
<1>3. PICK m \in Bad : \A n \in Bad : n \subseteq m => n = m
  BY <1>1, <1>2, MinimalSet
<1>4. m \in SUBSET S /\ m \in SUBSET T /\ a[m] # b[m]
  BY DEF Bad
<1>5. m # {}
  BY <1>4 DEF IsIter
<1>6. Pick(m) \in m
  BY <1>5 DEF Pick
<1> DEFINE less == m \ {Pick(m)}
<1>7. less \in SUBSET S /\ less \in SUBSET T /\ less \notin Bad
  BY <1>3, <1>4, <1>6
<1>8. a[less] = b[less]
  BY <1>7 DEF Bad
<1>9. a[m] = fun[Pick(m)] + a[less] /\ b[m] = fun[Pick(m)] + b[less]
  BY <1>4, <1>5 DEF IsIter
<1>. QED
  BY <1>4, <1>8, <1>9

\* The recursion is defined on every finite set.
LEMMA IterExists ==
  ASSUME NEW S, IsFiniteSet(S), NEW fun
  PROVE  \E it : IsIter(it, fun, S)
<1> DEFINE Bad == {A \in SUBSET S : ~\E it : IsIter(it, fun, A)}
<1>1. SUFFICES ASSUME Bad # {} PROVE FALSE
  OBVIOUS
<1>2. Bad \in SUBSET (SUBSET S)
  OBVIOUS
<1> HIDE DEF Bad
<1>3. PICK m \in Bad : \A n \in Bad : n \subseteq m => n = m
  BY <1>1, <1>2, MinimalSet
<1> DEFINE G(A) == CHOOSE it : IsIter(it, fun, A)
           less(A) == A \ {Pick(A)}
           val(A) == IF A = {} THEN 0 ELSE fun[Pick(A)] + G(less(A))[less(A)]
           it == [A \in SUBSET m |-> val(A)]
<1>4. m \in SUBSET S /\ ~\E j : IsIter(j, fun, m)
  BY DEF Bad
<1>5. ASSUME NEW A \in SUBSET m, A # m PROVE IsIter(G(A), fun, A)
  <2>1. A \notin Bad /\ A \in SUBSET S
    BY <1>3, <1>4, <1>5
  <2>2. \E j : IsIter(j, fun, A)
    BY <2>1 DEF Bad
  <2>. QED
    BY <2>2
<1>6. ASSUME NEW A \in SUBSET m, A # {}
      PROVE  less(A) \in SUBSET A /\ less(A) # A /\ less(A) # m
  <2>1. Pick(A) \in A
    BY <1>6 DEF Pick
  <2>. QED
    BY <2>1
<1> HIDE DEF G
<1>7. ASSUME NEW A \in SUBSET m, A # m PROVE val(A) = G(A)[A]
  <2>1. IsIter(G(A), fun, A)
    BY <1>5, <1>7
  <2>2. CASE A = {}
    BY <2>1, <2>2 DEF IsIter
  <2>3. CASE A # {}
    <3> DEFINE B == less(A)
    <3>1. B \in SUBSET A /\ B # m /\ B \in SUBSET m
      BY <1>6, <2>3
    <3>2. IsIter(G(B), fun, B)
      BY <1>5, <3>1
    <3>3. IsFiniteSet(A) /\ B \in SUBSET B
      BY <1>4, FS_Subset
    <3>4. G(A)[A] = fun[Pick(A)] + G(A)[B]
      BY <2>1, <2>3 DEF IsIter
    <3> HIDE DEF B
    <3>5. G(A)[B] = G(B)[B]
      BY <2>1, <3>1, <3>2, <3>3, IterUnique
    <3>. QED
      BY <2>3, <3>4, <3>5 DEF B
  <2>. QED
    BY <2>2, <2>3
<1>8. \A A \in SUBSET m : it[A] = IF A = {} THEN 0 ELSE fun[Pick(A)] + it[less(A)]
  <2> SUFFICES ASSUME NEW A \in SUBSET m, A # {}
               PROVE  val(A) = fun[Pick(A)] + val(less(A))
    BY <1>6
  <2>1. val(A) = fun[Pick(A)] + G(less(A))[less(A)]
    OBVIOUS
  <2>2. val(less(A)) = G(less(A))[less(A)]
    BY <1>6, <1>7
  <2>. QED
    BY <2>1, <2>2
<1>9. IsIter(it, fun, m)
  BY <1>8 DEF IsIter
<1>. QED
  BY <1>4, <1>9

\* A sum is the element that is picked and the sum of the others.
LEMMA SumUnfolds ==
  ASSUME NEW S, IsFiniteSet(S), NEW fun
  PROVE  SumFunctionOnSet(fun, S) =
           IF S = {} THEN 0 ELSE fun[Pick(S)] + SumFunctionOnSet(fun, S \ {Pick(S)})
<1> DEFINE it(A) == CHOOSE i : IsIter(i, fun, A)
           T == S \ {Pick(S)}
<1>1. IsFiniteSet(T) /\ T \subseteq S
  BY FS_Subset
<1> HIDE DEF T
<1>2. IsIter(it(S), fun, S) /\ IsIter(it(T), fun, T)
  BY <1>1, IterExists
<1>3. SumFunctionOnSet(fun, S) = it(S)[S] /\ SumFunctionOnSet(fun, T) = it(T)[T]
  BY SumIs
<1> HIDE DEF it
<1>4. it(S)[S] = IF S = {} THEN 0 ELSE fun[Pick(S)] + it(S)[T]
  BY <1>2 DEF IsIter, T
<1>5. it(S)[T] = it(T)[T]
  <2>1. T \in SUBSET S /\ T \in SUBSET T
    BY <1>1
  <2>. QED
    BY <1>2, <2>1, IterUnique
<1>. QED
  BY <1>3, <1>4, <1>5 DEF T

-------------------------------------------------------------------------------
(* Sums *)

\* A sum of naturals is a natural.
LEMMA SumType ==
  ASSUME NEW S, IsFiniteSet(S), NEW fun, \A x \in S : fun[x] \in Nat
  PROVE  SumFunctionOnSet(fun, S) \in Nat
<1> DEFINE sum(A) == SumFunctionOnSet(fun, A)
           Bad == {A \in SUBSET S : sum(A) \notin Nat}
<1>1. SUFFICES ASSUME Bad # {} PROVE FALSE
  BY DEF Bad
<1>2. Bad \in SUBSET (SUBSET S)
  OBVIOUS
<1> HIDE DEF Bad, sum
<1>3. PICK m \in Bad : \A n \in Bad : n \subseteq m => n = m
  BY <1>1, <1>2, MinimalSet
<1> DEFINE less == m \ {Pick(m)}
<1>4. m \in SUBSET S /\ sum(m) \notin Nat /\ IsFiniteSet(m)
  BY FS_Subset DEF Bad
<1>5. sum(m) = IF m = {} THEN 0 ELSE fun[Pick(m)] + sum(less)
  BY <1>4, SumUnfolds DEF sum
<1>6. m # {} /\ Pick(m) \in m
  BY <1>4, <1>5 DEF Pick
<1>7. less \subseteq m /\ less # m /\ less \in SUBSET S
  BY <1>4, <1>6
<1>8. sum(less) \in Nat
  BY <1>3, <1>7 DEF Bad
<1>. QED
  BY <1>4, <1>5, <1>6, <1>8

\* Any element can be taken out of a sum.
LEMMA SumTake ==
  ASSUME NEW S, IsFiniteSet(S), NEW fun, \A x \in S : fun[x] \in Nat, NEW y \in S
  PROVE  SumFunctionOnSet(fun, S) = fun[y] + SumFunctionOnSet(fun, S \ {y})
<1> DEFINE sum(A) == SumFunctionOnSet(fun, A)
           Bad == {A \in SUBSET S : \E x \in A : sum(A) # fun[x] + sum(A \ {x})}
<1>1. SUFFICES ASSUME Bad # {} PROVE FALSE
  OBVIOUS
<1>2. Bad \in SUBSET (SUBSET S)
  OBVIOUS
<1>3. ASSUME NEW A \in SUBSET S PROVE sum(A) \in Nat
  <2>1. IsFiniteSet(A)
    BY FS_Subset
  <2>. QED
    BY <2>1, SumType
<1>4. ASSUME NEW A \in SUBSET S, A # {} PROVE sum(A) = fun[Pick(A)] + sum(A \ {Pick(A)})
  <2>1. IsFiniteSet(A)
    BY FS_Subset
  <2>. QED
    BY <1>4, <2>1, SumUnfolds
<1> HIDE DEF Bad, sum
<1>5. PICK m \in Bad : \A n \in Bad : n \subseteq m => n = m
  BY <1>1, <1>2, MinimalSet
<1>6. PICK x \in m : sum(m) # fun[x] + sum(m \ {x})
  BY DEF Bad
<1>7. m \in SUBSET S
  BY <1>2
<1> DEFINE p == Pick(m)
<1>8. p \in m /\ sum(m) = fun[p] + sum(m \ {p})
  BY <1>4, <1>7 DEF Pick
<1> HIDE DEF p
<1>9. p # x
  BY <1>6, <1>8
<1>10. m \ {p} \notin Bad /\ m \ {x} \notin Bad /\ m \ {p} \in SUBSET S /\ m \ {x} \in SUBSET S
  BY <1>5, <1>7, <1>8
<1> DEFINE rest == (m \ {p}) \ {x}
<1>11. rest = (m \ {x}) \ {p} /\ rest \in SUBSET S
  BY <1>7
<1>12. sum(m \ {p}) = fun[x] + sum(rest)
  BY <1>9, <1>10 DEF Bad
<1>13. sum(m \ {x}) = fun[p] + sum(rest)
  BY <1>8, <1>9, <1>10, <1>11 DEF Bad
<1> HIDE DEF rest
<1>14. fun[p] \in Nat /\ fun[x] \in Nat /\ sum(rest) \in Nat
  BY <1>3, <1>7, <1>8, <1>11
<1>. QED
  BY <1>6, <1>8, <1>12, <1>13, <1>14

\* A sum depends on the values that are added up.
LEMMA SumSame ==
  ASSUME NEW S, IsFiniteSet(S), NEW fun, NEW gun, \A x \in S : fun[x] = gun[x]
  PROVE  SumFunctionOnSet(fun, S) = SumFunctionOnSet(gun, S)
<1> DEFINE f(A) == SumFunctionOnSet(fun, A)
           g(A) == SumFunctionOnSet(gun, A)
           Bad == {A \in SUBSET S : f(A) # g(A)}
<1>1. SUFFICES ASSUME Bad # {} PROVE FALSE
  OBVIOUS
<1>2. Bad \in SUBSET (SUBSET S)
  OBVIOUS
<1> HIDE DEF Bad, f, g
<1>3. PICK m \in Bad : \A n \in Bad : n \subseteq m => n = m
  BY <1>1, <1>2, MinimalSet
<1> DEFINE less == m \ {Pick(m)}
<1>4. m \in SUBSET S /\ f(m) # g(m) /\ IsFiniteSet(m)
  BY FS_Subset DEF Bad
<1>5. /\ f(m) = IF m = {} THEN 0 ELSE fun[Pick(m)] + f(less)
      /\ g(m) = IF m = {} THEN 0 ELSE gun[Pick(m)] + g(less)
  BY <1>4, SumUnfolds DEF f, g
<1>6. m # {} /\ Pick(m) \in m
  BY <1>4, <1>5 DEF Pick
<1>7. less \subseteq m /\ less # m /\ less \in SUBSET S
  BY <1>4, <1>6
<1>8. f(less) = g(less)
  BY <1>3, <1>7 DEF Bad
<1>. QED
  BY <1>4, <1>5, <1>6, <1>8

\* A sum in which one value changes.
LEMMA SumChange ==
  ASSUME NEW S, IsFiniteSet(S), NEW fun, \A x \in S : fun[x] \in Nat,
         NEW gun, \A x \in S : gun[x] \in Nat,
         NEW y \in S, \A x \in S \ {y} : gun[x] = fun[x]
  PROVE  SumFunctionOnSet(gun, S) = SumFunctionOnSet(fun, S) - fun[y] + gun[y]
<1>1. /\ SumFunctionOnSet(fun, S) = fun[y] + SumFunctionOnSet(fun, S \ {y})
      /\ SumFunctionOnSet(gun, S) = gun[y] + SumFunctionOnSet(gun, S \ {y})
  BY SumTake
<1>2. IsFiniteSet(S \ {y})
  BY FS_Subset
<1>3. SumFunctionOnSet(gun, S \ {y}) = SumFunctionOnSet(fun, S \ {y})
  BY <1>2, SumSame
<1>4. SumFunctionOnSet(fun, S \ {y}) \in Nat
  BY <1>2, SumType
<1>. QED
  BY <1>1, <1>3, <1>4

\* A sum over some of the elements is not larger.
LEMMA SumPart ==
  ASSUME NEW S, IsFiniteSet(S), NEW fun, \A x \in S : fun[x] \in Nat, NEW T \in SUBSET S
  PROVE  SumFunctionOnSet(fun, T) <= SumFunctionOnSet(fun, S)
<1> DEFINE sum(A) == SumFunctionOnSet(fun, A)
           Bad == {A \in SUBSET S : ~(sum(A \cap T) <= sum(A))}
<1>1. SUFFICES ASSUME Bad # {} PROVE FALSE
  <2>1. S \cap T = T
    OBVIOUS
  <2>. QED
    BY <2>1
<1>2. Bad \in SUBSET (SUBSET S)
  OBVIOUS
<1>3. ASSUME NEW A \in SUBSET S
      PROVE  sum(A) \in Nat /\ \A x \in A : sum(A) = fun[x] + sum(A \ {x})
  <2>1. IsFiniteSet(A)
    BY FS_Subset
  <2>. QED
    BY <2>1, SumType, SumTake
<1> HIDE DEF Bad, sum
<1>4. PICK m \in Bad : \A n \in Bad : n \subseteq m => n = m
  BY <1>1, <1>2, MinimalSet
<1>5. m \in SUBSET S /\ ~(sum(m \cap T) <= sum(m))
  BY DEF Bad
<1>6. CASE m \subseteq T
  <2>1. m \cap T = m
    BY <1>6
  <2>2. sum(m \cap T) = sum(m)
    BY <2>1
  <2>3. sum(m) \in Nat
    BY <1>3, <1>5
  <2>. QED
    BY <1>5, <2>2, <2>3
<1>7. CASE ~(m \subseteq T)
  <2>1. PICK x \in m : x \notin T
    BY <1>7
  <2> DEFINE less == m \ {x}
  <2>2. less \in SUBSET S /\ less \notin Bad /\ less \cap T = m \cap T /\ m \cap T \in SUBSET S
    BY <1>4, <1>5, <2>1
  <2>3. sum(m \cap T) <= sum(less)
    BY <2>2 DEF Bad
  <2>4. sum(m) = fun[x] + sum(less)
    BY <1>3, <1>5
  <2>. QED
    BY <1>3, <1>5, <2>2, <2>3, <2>4
<1>. QED
  BY <1>6, <1>7

\* What counts for nothing can be left out of a sum.
LEMMA SumCounts ==
  ASSUME NEW S, IsFiniteSet(S), NEW fun, \A x \in S : fun[x] \in Nat, NEW T \in SUBSET S,
         \A x \in S \ T : fun[x] = 0
  PROVE  SumFunctionOnSet(fun, T) = SumFunctionOnSet(fun, S)
<1> DEFINE sum(A) == SumFunctionOnSet(fun, A)
           Bad == {A \in SUBSET S : sum(A \cap T) # sum(A)}
<1>1. SUFFICES ASSUME Bad # {} PROVE FALSE
  <2>1. S \cap T = T
    OBVIOUS
  <2>. QED
    BY <2>1
<1>2. Bad \in SUBSET (SUBSET S)
  OBVIOUS
<1>3. ASSUME NEW A \in SUBSET S
      PROVE  sum(A) \in Nat /\ \A x \in A : sum(A) = fun[x] + sum(A \ {x})
  <2>1. IsFiniteSet(A)
    BY FS_Subset
  <2>. QED
    BY <2>1, SumType, SumTake
<1> HIDE DEF Bad, sum
<1>4. PICK m \in Bad : \A n \in Bad : n \subseteq m => n = m
  BY <1>1, <1>2, MinimalSet
<1>5. m \in SUBSET S /\ sum(m \cap T) # sum(m)
  BY DEF Bad
<1>6. CASE m \subseteq T
  <2>1. m \cap T = m
    BY <1>6
  <2>. QED
    BY <1>5, <2>1
<1>7. CASE ~(m \subseteq T)
  <2>1. PICK x \in m : x \notin T
    BY <1>7
  <2> DEFINE less == m \ {x}
  <2>2. less \in SUBSET S /\ less \notin Bad /\ less \cap T = m \cap T
    BY <1>4, <1>5, <2>1
  <2>3. sum(m \cap T) = sum(less)
    BY <2>2 DEF Bad
  <2>4. sum(m) = fun[x] + sum(less) /\ fun[x] = 0
    BY <1>3, <1>5, <2>1
  <2>. QED
    BY <1>3, <1>5, <2>2, <2>3, <2>4
<1>. QED
  BY <1>6, <1>7

\* A sum of smaller values is not larger.
LEMMA SumLess ==
  ASSUME NEW S, IsFiniteSet(S), NEW fun, NEW gun,
         \A x \in S : fun[x] \in Nat /\ gun[x] \in Nat /\ fun[x] <= gun[x]
  PROVE  SumFunctionOnSet(fun, S) <= SumFunctionOnSet(gun, S)
<1> DEFINE f(A) == SumFunctionOnSet(fun, A)
           g(A) == SumFunctionOnSet(gun, A)
           Bad == {A \in SUBSET S : ~(f(A) <= g(A))}
<1>1. SUFFICES ASSUME Bad # {} PROVE FALSE
  OBVIOUS
<1>2. Bad \in SUBSET (SUBSET S)
  OBVIOUS
<1>3. ASSUME NEW A \in SUBSET S
      PROVE  /\ f(A) \in Nat /\ g(A) \in Nat
             /\ f(A) = IF A = {} THEN 0 ELSE fun[Pick(A)] + f(A \ {Pick(A)})
             /\ g(A) = IF A = {} THEN 0 ELSE gun[Pick(A)] + g(A \ {Pick(A)})
  <2>1. IsFiniteSet(A)
    BY FS_Subset
  <2>. QED
    BY <2>1, SumType, SumUnfolds
<1> HIDE DEF Bad, f, g
<1>4. PICK m \in Bad : \A n \in Bad : n \subseteq m => n = m
  BY <1>1, <1>2, MinimalSet
<1> DEFINE less == m \ {Pick(m)}
<1>5. m \in SUBSET S /\ ~(f(m) <= g(m))
  BY DEF Bad
<1>6. m # {} /\ Pick(m) \in m
  BY <1>3, <1>5 DEF Pick
<1>7. less \subseteq m /\ less # m /\ less \in SUBSET S
  BY <1>5, <1>6
<1>8. f(less) <= g(less)
  BY <1>4, <1>7 DEF Bad
<1>9. f(m) = fun[Pick(m)] + f(less) /\ g(m) = gun[Pick(m)] + g(less)
  BY <1>3, <1>5, <1>6
<1>10. /\ fun[Pick(m)] \in Nat /\ gun[Pick(m)] \in Nat /\ fun[Pick(m)] <= gun[Pick(m)]
       /\ f(less) \in Nat /\ g(less) \in Nat
  BY <1>3, <1>5, <1>6, <1>7
<1> HIDE DEF less
<1>. QED
  BY <1>5, <1>8, <1>9, <1>10

\* A sum of zeros is zero.
LEMMA SumZero ==
  ASSUME NEW S, IsFiniteSet(S), NEW fun, \A x \in S : fun[x] = 0
  PROVE  SumFunctionOnSet(fun, S) = 0
<1>1. SumFunctionOnSet(fun, {}) = 0
  BY FS_EmptySet, SumUnfolds
<1>2. SumFunctionOnSet(fun, {}) = SumFunctionOnSet(fun, S)
  <2>1. \A x \in S : fun[x] \in Nat
    OBVIOUS
  <2>2. {} \in SUBSET S
    OBVIOUS
  <2>. QED
    BY <2>1, <2>2, SumCounts
<1>. QED
  BY <1>1, <1>2

\* If every element that counts has an owner of its own that is as large, the
\* sum over the owners is as large.
LEMMA SumOwned ==
  ASSUME NEW D, IsFiniteSet(D), NEW fun, \A x \in D : fun[x] \in Nat,
         NEW O, IsFiniteSet(O), NEW gun, \A o \in O : gun[o] \in Nat,
         NEW own, \A x \in D : fun[x] # 0 => own[x] \in O /\ fun[x] = gun[own[x]],
         \A x, y \in D : fun[x] # 0 /\ fun[y] # 0 /\ own[x] = own[y] => x = y
  PROVE  SumFunctionOnSet(fun, D) <= SumFunctionOnSet(gun, O)
<1> DEFINE f(A) == SumFunctionOnSet(fun, A)
           g(A) == SumFunctionOnSet(gun, A)
           owners(A) == {own[x] : x \in {y \in A : fun[y] # 0}}
           Bad == {A \in SUBSET D : f(A) # g(owners(A))}
<1>1. ASSUME NEW A \in SUBSET D
      PROVE  f(A) = IF A = {} THEN 0 ELSE fun[Pick(A)] + f(A \ {Pick(A)})
  <2>1. IsFiniteSet(A)
    BY FS_Subset
  <2>. QED
    BY <2>1, SumUnfolds
<1>2. ASSUME NEW A \in SUBSET O
      PROVE  g(A) \in Nat /\ \A o \in A : g(A) = gun[o] + g(A \ {o})
  <2>1. IsFiniteSet(A)
    BY FS_Subset
  <2>. QED
    BY <2>1, SumType, SumTake
<1>3. g({}) = 0
  BY FS_EmptySet, SumUnfolds
<1>4. \A A \in SUBSET D : owners(A) \in SUBSET O
  OBVIOUS
<1>5. Bad = {}
  <2> SUFFICES ASSUME Bad # {} PROVE FALSE
    OBVIOUS
  <2>1. Bad \in SUBSET (SUBSET D)
    OBVIOUS
  <2> HIDE DEF Bad, f, g
  <2>2. PICK m \in Bad : \A n \in Bad : n \subseteq m => n = m
    BY <2>1, MinimalSet
  <2>3. m \in SUBSET D /\ f(m) # g(owners(m))
    BY DEF Bad
  <2>4. m # {}
    BY <1>1, <1>3, <2>3
  <2> DEFINE p == Pick(m)
             less == m \ {p}
  <2>5. p \in m
    BY <2>4 DEF Pick
  <2>6. f(m) = fun[p] + f(less)
    BY <1>1, <2>3, <2>4
  <2> HIDE DEF p
  <2>7. less \in SUBSET D /\ f(less) = g(owners(less))
    BY <2>2, <2>3, <2>5 DEF Bad
  <2>8. g(owners(less)) \in Nat /\ fun[p] \in Nat
    BY <1>2, <1>4, <2>3, <2>5, <2>7
  <2>9. CASE fun[p] = 0
    <3>1. owners(m) = owners(less)
      BY <2>9
    <3> HIDE DEF owners
    <3>. QED
      BY <2>3, <2>6, <2>7, <2>8, <2>9, <3>1
  <2>10. CASE fun[p] # 0
    <3>1. own[p] \in owners(m) /\ own[p] \in O /\ gun[own[p]] = fun[p]
      BY <2>3, <2>5, <2>10
    <3>2. owners(m) \ {own[p]} = owners(less)
      BY <2>3, <2>5, <2>10
    <3>3. owners(m) \in SUBSET O
      BY <1>4, <2>3
    <3> HIDE DEF owners
    <3>4. g(owners(m)) = gun[own[p]] + g(owners(m) \ {own[p]})
      BY <1>2, <3>1, <3>3
    <3>. QED
      BY <2>3, <2>6, <2>7, <3>1, <3>2, <3>4
  <2>. QED
    BY <2>9, <2>10
<1>6. f(D) = g(owners(D))
  BY <1>5
<1>7. g(owners(D)) <= g(O)
  <2>1. owners(D) \in SUBSET O
    BY <1>4
  <2> HIDE DEF owners
  <2>. QED
    BY <2>1, SumPart
<1>. QED
  BY <1>6, <1>7

===============================================================================
