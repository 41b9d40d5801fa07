---------------------------- MODULE CircuitGadgets ----------------------------
(***************************************************************************)
(* The gadgets the credential relations are built from                     *)
(* (credential_workloads.rs): words cut into bits, the comparison of two   *)
(* words, MiMC7 hashing and one level of a Merkle path.                    *)
(*                                                                         *)
(* The code works in the Ristretto scalar field with 32-bit words and 91   *)
(* rounds; P, W and Rounds stand for these numbers.  A gadget is modelled  *)
(* by the set of values its rows leave open to a prover, so a row that is  *)
(* missing shows as a value too many.                                      *)
(***************************************************************************)
EXTENDS Integers, Sequences

CONSTANTS
  P,              \* the order of the field
  W,              \* bits of a word
  Rounds,         \* rounds of the permutation
  RoundConstant   \* its round constants

Field == 0 .. P - 1

\* 2 ^ n
TwoTo(n) ==
  LET power[i \in 0 .. n] == IF i = 0 THEN 1 ELSE 2 * power[i - 1]
  IN  power[n]

WordSize == TwoTo(W)

Word == 0 .. WordSize - 1

\* A word and a difference of words have to fit in the field without wrapping,
\* and a word has a bit for each of the two attributes of a disclosure mask.
ASSUME FieldAssumption ==
  /\ P \in Nat \ {0, 1}
  /\ W \in Nat \ {0, 1}
  /\ 2 * WordSize <= P

\* P is prime: a product is zero only if a factor is.
ASSUME NoZeroDivisors ==
  \A x, y \in Field : (x * y) % P = 0 => x = 0 \/ y = 0

ASSUME RoundAssumption ==
  /\ Rounds \in Nat \ {0}
  /\ RoundConstant \in [0 .. Rounds - 1 -> Field]

Plus(x, y) == (x + y) % P

Minus(x, y) == (x - y) % P

Times(x, y) == (x * y) % P

(***************************************************************************)
(* Bits and comparison                                                     *)
(***************************************************************************)

BitRow(bit) == Times(bit, Minus(1, bit)) = 0

Packed(bits) ==
  LET sum[i \in 0 .. W] == IF i = 0 THEN 0
                           ELSE Plus(sum[i - 1], Times(bits[i - 1], TwoTo(i - 1)))
  IN  sum[W]

DecomposeRows(bits, source) ==
  /\ \A i \in 0 .. W - 1 : BitRow(bits[i])
  /\ Packed(bits) = source

\* Every choice of bit wires that satisfies the rows of decompose_u32.
Decompositions ==
  [source \in Field |-> {bits \in [0 .. W - 1 -> Field] : DecomposeRows(bits, source)}]

\* The bits the builder assigns.
BuiltBits(value) == [i \in 0 .. W - 1 |-> (value \div TwoTo(i)) % 2]

\* left = right - difference, the row that ties the three words together.
DifferenceRow(left, right, difference) == left = Minus(right, difference)

\* A bug less_equal_u32 could have: the difference is never cut into bits.
LessEqualUnbounded(left, right) ==
  /\ Decompositions[left] # {}
  /\ Decompositions[right] # {}
  /\ \E difference \in Field : DifferenceRow(left, right, difference)

\* Some prover satisfies the rows of less_equal_u32.
LessEqualOpen(left, right) ==
  /\ Decompositions[left] # {}
  /\ Decompositions[right] # {}
  /\ \E difference \in Field :
       /\ Decompositions[difference] # {}
       /\ DifferenceRow(left, right, difference)

\* The builder's own witness satisfies them.
LessEqualBuilt(left, right) ==
  LET difference == IF right >= left THEN right - left ELSE 0
  IN  /\ DecomposeRows(BuiltBits(left), left)
      /\ DecomposeRows(BuiltBits(right), right)
      /\ DecomposeRows(BuiltBits(difference), difference)
      /\ DifferenceRow(left, right, difference)

(***************************************************************************)
(* Hashing                                                                 *)
(***************************************************************************)

Seventh(x) ==
  LET x2 == Times(x, x)
      x4 == Times(x2, x2)
  IN  Times(Times(x4, x2), x)

\* The seventh power is invertible, for 7 does not divide P - 1: this makes
\* MiMC7 a permutation.
ASSUME SeventhAssumption ==
  \A x, y \in Field : Seventh(x) = Seventh(y) => x = y

NativePermute ==
  [state \in Field |-> [key \in Field |->
     LET value[r \in 0 .. Rounds] ==
           IF r = 0 THEN state
           ELSE Seventh(Plus(Plus(value[r - 1], key), RoundConstant[r - 1]))
     IN  Plus(value[Rounds], key)]]

NativeHash(blocks, key, domain) ==
  LET value[i \in 0 .. Len(blocks)] ==
        IF i = 0 THEN domain
        ELSE NativePermute[Plus(value[i - 1], blocks[i])][key]
  IN  value[Len(blocks)]

\* The four product rows of a round.
RoundRows(x, x2, x4, x6, x7) ==
  /\ Times(x, x) = x2
  /\ Times(x2, x2) = x4
  /\ Times(x4, x2) = x6
  /\ Times(x6, x) = x7

RoundOutputs ==
  [x \in Field |-> {x7 \in Field : \E x2, x4, x6 \in Field : RoundRows(x, x2, x4, x6, x7)}]

CircuitPermute ==
  [state \in Field |-> [key \in Field |->
     LET values[r \in 0 .. Rounds] ==
           IF r = 0 THEN {state}
           ELSE UNION {RoundOutputs[Plus(Plus(v, key), RoundConstant[r - 1])] : v \in values[r - 1]}
     IN  {Plus(v, key) : v \in values[Rounds]}]]

CircuitHash(blocks, key, domain) ==
  LET values[i \in 0 .. Len(blocks)] ==
        IF i = 0 THEN {domain}
        ELSE UNION {CircuitPermute[Plus(v, blocks[i])][key] : v \in values[i - 1]}
  IN  values[Len(blocks)]

(***************************************************************************)
(* Merkle paths: bit 0 of the index picks the side of the lowest level     *)
(***************************************************************************)

MerkleRoot(index, path, leaf, domain) ==
  LET node[l \in 0 .. Len(path)] ==
        IF l = 0 THEN leaf
        ELSE LET pair == IF (index \div TwoTo(l - 1)) % 2 = 0
                         THEN <<node[l - 1], path[l]>>
                         ELSE <<path[l], node[l - 1]>>
             IN  NativeHash(pair, 0, domain)
  IN  node[Len(path)]

\* One product selects the order of a level's two children.
SelectionRow(bit, sibling, current, selected) ==
  Times(bit, Minus(sibling, current)) = selected

\* A bug: the children in the order of the opposite bit.
SwappedChildren(sibling, current, selected) ==
  <<Minus(sibling, selected), Plus(current, selected)>>

Children(sibling, current, selected) ==
  <<Plus(current, selected), Minus(sibling, selected)>>

LevelOutputs(bit, sibling, current, domain) ==
  UNION {CircuitHash(Children(sibling, current, selected), 0, domain) :
           selected \in {s \in Field : SelectionRow(bit, sibling, current, s)}}

MerkleOutputs(bits, path, leaf, domain) ==
  LET nodes[l \in 0 .. Len(path)] ==
        IF l = 0 THEN {leaf}
        ELSE UNION {LevelOutputs(bits[l - 1], path[l], node, domain) : node \in nodes[l - 1]}
  IN  nodes[Len(path)]

===============================================================================
