-------------------------- MODULE CredentialRelation --------------------------
(***************************************************************************)
(* The relations a credential proof is about: the MAC workloads W1-W4 of   *)
(* credential_workloads.rs and Profile S (W1-W4 and the scaling workload   *)
(* WK) of profile_s.rs.  The builder adds its gadgets one after another;   *)
(* a step of this module is one call of an add_* function.                 *)
(*                                                                         *)
(* build.prover tells whose values the witness wires get: "code" is the    *)
(* builder's own witness, mutated or not, which may break rows; "any" is   *)
(* whatever assignment satisfies the rows, which is what a verifier of the *)
(* relation may rely on.  Field elements other than those of the fixtures  *)
(* come from small sets of choices.                                        *)
(***************************************************************************)
EXTENDS CircuitGadgets

CONSTANTS
  Builds,             \* the relations to build: see Build
  Domain,             \* domain separators of the hashes
  Age, MinAge, MaxAge, Expiry, Today, LateDay, FirstRid, Nonce, RootEpoch,
  FieldChoices,       \* values another prover may give a credential's fields
  DisclosedChoices,   \* and the public disclosed attributes
  SiblingChoices,     \* and the siblings of a Merkle path
  PaddedSizes,        \* padded sizes a caller may ask for
  MaxLog              \* bound: sizes are at most 2 ^ MaxLog

VARIABLES
  build,     \* the relation under construction
  at,        \* the step of Steps(build) that is due
  creds,     \* credential wires, in the order they were opened
  claims,    \* per credential, the supplied MAC or the public commitment
  request,   \* public inputs of the request and the disclosure
  today,     \* public input of the expiry comparison
  trees,     \* per revocation proof: path wires and public root
  sat,       \* no row is broken so far
  size,      \* rows and variables so far
  outcome    \* "building", or how the build ended

relationVars == <<build, at, creds, claims, request, today, trees, sat, size, outcome>>

(***************************************************************************)
(* Workloads and fixtures                                                  *)
(***************************************************************************)

Shape == [count : Nat, mask : {0, 1, 2}, range : BOOLEAN,
          revocations : Nat, depth : Nat, backend : {"None", "ExpiryOnly", "SparseMerkle"}]

Build == [profile : {"mac", "sig"}, wk : BOOLEAN, shape : Shape,
          mutation : STRING, prover : {"code", "any"}]

StandardDepth == 2

Standard == {"W1", "W2", "W3", "W4"}

StandardShape(workload) ==
  LET revocable == workload \in {"W3", "W4"}
  IN  [count |-> IF workload = "W4" THEN 2 ELSE 1,
       mask |-> [W1 |-> 1, W2 |-> 2, W3 |-> 2, W4 |-> 0][workload],
       range |-> workload # "W1",
       revocations |-> IF revocable THEN 1 ELSE 0,
       depth |-> IF revocable THEN StandardDepth ELSE 0,
       backend |-> IF revocable THEN "SparseMerkle" ELSE "None"]

WkShape(count, revocations, depth, backend) ==
  [count |-> count, mask |-> 0, range |-> TRUE,
   revocations |-> revocations, depth |-> depth, backend |-> backend]

\* The mutations a fixture of each profile knows.
Mutations ==
  [mac |-> {"Valid", "Boundary", "Attribute", "Issuer", "Holder", "Claim", "Nonce", "Expired",
            "Revoked", "StaleRoot", "MerklePath", "CrossCredential"},
   sig |-> {"Valid", "Claim", "Issuer", "CredentialType", "IssuanceEpoch", "Attribute", "Holder",
            "Nonce", "Expired", "Revoked", "StaleRoot", "MerklePath", "CrossCredential"}]

\* WK belongs to Profile S; the other workloads have one shape each.
ASSUME BuildAssumption ==
  /\ Builds \subseteq Build
  /\ \A b \in Builds :
       /\ b.mutation \in Mutations[b.profile]
       /\ b.prover = "any" => b.mutation = "Valid"
       /\ IF b.wk
          THEN /\ b.profile = "sig"
               /\ b.shape = WkShape(b.shape.count, b.shape.revocations, b.shape.depth, b.shape.backend)
          ELSE \E workload \in Standard : b.shape = StandardShape(workload)

\* What WK asks of its parameters.
WkAccepted(b) ==
  LET s == b.shape
      sparse == s.backend = "SparseMerkle" /\ s.revocations > 0 /\ s.depth > 0
      plain == s.backend # "SparseMerkle" /\ s.revocations = 0 /\ s.depth = 0
  IN  /\ s.count # 0
      /\ s.revocations <= s.count
      /\ sparse \/ plain
      /\ b.mutation = "Valid"

\* The credential a fixture starts from; i counts from 1.
Fixture(profile, i) ==
  [type |-> 3, issuer |-> 4 + i, schema |-> 6 + i, id |-> 8 + i, holder |-> 5,
   age |-> Age, country |-> 6, expiry |-> Expiry,
   rid |-> IF profile = "mac" THEN FirstRid ELSE FirstRid + i - 1,
   epoch |-> 4, salt |-> i, key |-> i + 1]

Boundary(b, i) ==
  LET c == Fixture(b.profile, i)
  IN  IF b.mutation = "Boundary" THEN [c EXCEPT !.age = MinAge] ELSE c

\* The credential the builder opens, with the fixture's mutation applied.
Mutated(b, i) ==
  LET c == Boundary(b, i)
      is(m) == i = 1 /\ b.mutation = m
      aged == b.mutation = "Attribute" /\ (i = 1 \/ b.profile = "mac")
  IN  [c EXCEPT !.age = IF aged THEN @ + 1 ELSE @,
                !.issuer = IF is("Issuer") THEN @ + 1 ELSE @,
                !.type = IF is("CredentialType") THEN @ + 1 ELSE @,
                !.epoch = IF is("IssuanceEpoch") THEN @ + 1 ELSE @,
                !.holder = IF is("Holder") \/ (i = 2 /\ b.mutation = "CrossCredential")
                           THEN @ + 1 ELSE @]

\* The values of the fixtures, of their mutations and of the choices are field
\* elements; the fixture's age is in range and its credential unexpired on the
\* day of the fixture, but not on the late day.
ASSUME ValueAssumption ==
  /\ Domain \in [{"holder", "key", "mac", "sig", "request", "merkle", "sibling"} -> Field]
  /\ FieldChoices \in [{"age", "expiry", "rid", "holder", "mask", "day"} -> SUBSET Field]
  /\ DisclosedChoices \subseteq Field
  /\ SiblingChoices \subseteq Field
  /\ {Nonce, Nonce + 1} \subseteq Field
  /\ RootEpoch \in Nat
  /\ FirstRid \in Nat
  /\ \A b \in Builds : {b.shape.count + 9, FirstRid + b.shape.count} \subseteq Field
  /\ {MinAge, Age, MaxAge, Today, Expiry, LateDay} \subseteq Word
  /\ MinAge <= Age /\ Age <= MaxAge
  /\ Today <= Expiry /\ Expiry < LateDay

(***************************************************************************)
(* Credential openings                                                     *)
(***************************************************************************)

\* What the issuer's MAC, or the issuer's commitment, is a hash of.
Blocks(profile, c, holderCommitment) ==
  IF profile = "mac"
  THEN <<c.issuer, c.schema, c.id, holderCommitment, c.age, c.country, c.expiry, c.rid>>
  ELSE <<c.type, c.issuer, c.id, holderCommitment, c.schema, c.age, c.country, c.expiry,
         c.rid, c.epoch, c.salt>>

BlockKey(profile, c) == IF profile = "mac" THEN c.key ELSE 0

NativeClaim(profile, c) ==
  NativeHash(Blocks(profile, c, NativeHash(<<c.holder>>, 0, Domain.holder)),
             BlockKey(profile, c), Domain[profile])

OpenedClaims(profile, c) ==
  UNION {CircuitHash(Blocks(profile, c, h), BlockKey(profile, c), Domain[profile]) :
           h \in CircuitHash(<<c.holder>>, 0, Domain.holder)}

\* The claim the builder supplies is always the unmutated credential's.
BuiltClaim(b, i) ==
  LET valid == NativeClaim(b.profile, Boundary(b, i))
  IN  IF b.mutation = "Claim" /\ i = 1 THEN Plus(valid, 1) ELSE valid

KeyCommitmentRow(profile, c) ==
  profile = "mac" =>
    NativeHash(<<c.key, c.issuer>>, 0, Domain.key) \in CircuitHash(<<c.key, c.issuer>>, 0, Domain.key)

(***************************************************************************)
(* The order of the builder's calls                                        *)
(***************************************************************************)

Openings(from, to) == [n \in 1 .. to - from + 1 |-> <<"credential", from + n - 1>>]

Steps(b) ==
  LET s == b.shape
      first == IF b.profile = "mac" THEN 1 ELSE s.count
      middle == <<<<"request", 0>>, <<"disclosure", 0>>>>
                \o (IF s.range THEN <<<<"range", 0>>>> ELSE <<>>)
                \o [i \in 1 .. s.revocations |-> <<"revocation", i>>]
      cross == IF s.count = 2 /\ ~b.wk THEN <<<<"cross", 0>>>> ELSE <<>>
  IN  Openings(1, first) \o middle \o Openings(first + 1, s.count) \o cross

Due(kind, i) ==
  /\ outcome = "building"
  /\ ~(build.wk /\ ~WkAccepted(build))
  /\ at <= Len(Steps(build))
  /\ Steps(build)[at] = <<kind, i>>

Code == build.prover = "code"

\* Rows of a step: the builder's witness may break them, another's may not.
Rows(hold) ==
  /\ ~(~Code /\ ~hold)
  /\ sat' = (sat /\ hold)
  /\ at' = at + 1

(***************************************************************************)
(* Sizes: rows and variables a call adds                                   *)
(***************************************************************************)

PerHash(blocks) == blocks * (4 * Rounds + 1)

Adds(rows, variables) ==
  size' = [rows |-> size.rows + rows, vars |-> size.vars + variables]

(***************************************************************************)
(* Actions                                                                 *)
(***************************************************************************)

Init ==
  /\ build \in Builds
  /\ at = 1
  /\ creds = <<>>
  /\ claims = <<>>
  /\ request = [nonce |-> 0, mask |-> 0, digest |-> 0, age |-> 0, country |-> 0]
  /\ today = 0
  /\ trees = <<>>
  /\ sat = TRUE
  /\ size = [rows |-> 0, vars |-> 0]
  /\ outcome = "building"

\* build_profile_s_inner refuses a WK whose parameters do not fit together.
RefuseShape ==
  /\ outcome = "building"
  /\ at = 1
  /\ build.wk /\ ~WkAccepted(build)
  /\ outcome' = "refused"
  /\ UNCHANGED <<build, at, creds, claims, request, today, trees, sat, size>>

\* A credential with the fields another prover chooses.
Chosen(c, age, expiry, rid, holder) ==
  [c EXCEPT !.age = age, !.expiry = expiry, !.rid = rid, !.holder = holder]

OpenedBy(i) ==
  IF Code THEN {Mutated(build, i)}
  ELSE {Chosen(Fixture(build.profile, i), age, expiry, rid, holder) :
          age \in FieldChoices.age, expiry \in FieldChoices.expiry,
          rid \in FieldChoices.rid, holder \in FieldChoices.holder}

Credential(i) ==
  /\ Due("credential", i)
  /\ \E c \in OpenedBy(i) :
       \E claim \in IF Code THEN {BuiltClaim(build, i)} ELSE OpenedClaims(build.profile, c) :
         /\ creds' = Append(creds, c)
         /\ claims' = Append(claims, claim)
         /\ Rows(/\ claim \in OpenedClaims(build.profile, c)
                 /\ KeyCommitmentRow(build.profile, c)
                 /\ ~(build.wk /\ i > 1 /\ <<c.holder, c.age>> # <<creds[1].holder, creds[1].age>>))
  /\ IF build.profile = "mac" THEN Adds(PerHash(11) + 2, PerHash(11) + 7)
     ELSE Adds(PerHash(12) + 2 + (IF build.wk /\ i > 1 THEN 2 ELSE 0), PerHash(12) + 8)
  /\ UNCHANGED <<build, request, today, trees, outcome>>

RequestBinding ==
  /\ Due("request", 0)
  /\ LET blocks(nonce, mask) == <<creds[1].holder, nonce, mask>>
         sentNonce == IF build.mutation = "Nonce" THEN Nonce + 1 ELSE Nonce
         valid == NativeHash(<<Boundary(build, 1).holder, Nonce, build.shape.mask>>, 0, Domain.request)
     IN  \E mask \in IF Code THEN {build.shape.mask} ELSE FieldChoices.mask :
           \E digest \in IF Code THEN {valid}
                         ELSE CircuitHash(blocks(sentNonce, mask), 0, Domain.request) :
             /\ request' = [request EXCEPT !.nonce = sentNonce, !.mask = mask, !.digest = digest]
             /\ Rows(digest \in CircuitHash(blocks(sentNonce, mask), 0, Domain.request))
  /\ Adds(PerHash(3) + 1, PerHash(3))
  /\ UNCHANGED <<build, creds, claims, today, trees, outcome>>

\* A bit of the mask set in the public inputs opens the attribute it stands for.
Disclosure ==
  /\ Due("disclosure", 0)
  /\ LET shown(bit, value) == IF Code THEN {IF (request.mask \div bit) % 2 = 1 THEN value ELSE 0}
                              ELSE DisclosedChoices \cup {value}
         row(bit, value, public) == Times(bit, Minus(value, public)) = 0
     IN  \E bits \in IF Code THEN {BuiltBits(request.mask)} ELSE Decompositions[request.mask],
            age \in shown(1, creds[1].age), country \in shown(2, creds[1].country) :
           /\ request' = [request EXCEPT !.age = age, !.country = country]
           /\ Rows(/\ DecomposeRows(bits, request.mask)
                   /\ \A i \in 2 .. W - 1 : bits[i] = 0
                   /\ row(bits[0], creds[1].age, age)
                   /\ row(bits[1], creds[1].country, country))
  /\ Adds(2 * W + 1, W)
  /\ UNCHANGED <<build, creds, claims, today, trees, outcome>>

LessEqualRows(left, right) ==
  IF Code THEN LessEqualBuilt(left, right) ELSE LessEqualOpen(left, right)

RangeAndExpiry ==
  /\ Due("range", 0)
  /\ \E day \in IF Code THEN {IF build.mutation = "Expired" THEN LateDay ELSE Today}
                ELSE FieldChoices.day :
       /\ today' = day
       /\ Rows(/\ LessEqualRows(MinAge, creds[1].age)
               /\ LessEqualRows(creds[1].age, MaxAge)
               /\ LessEqualRows(day, creds[1].expiry))
  /\ Adds(9 * (W + 1) + 3, 9 * W + 3)
  /\ UNCHANGED <<build, creds, claims, request, trees, outcome>>

\* Siblings of the fixture: an otherwise empty tree when several credentials of
\* WK have to share a root, arbitrary ones else.
BuiltPath(b) ==
  LET s == b.shape
      empty[l \in 0 .. s.depth] ==
        IF l = 0 THEN 0 ELSE NativeHash(<<empty[l - 1], empty[l - 1]>>, 0, Domain.merkle)
  IN  [l \in 1 .. s.depth |-> IF b.wk /\ s.revocations > 1 THEN empty[l - 1]
                              ELSE NativeHash(<<l>>, 0, Domain.sibling)]

WitnessPath(b) ==
  [l \in 1 .. b.shape.depth |->
     IF l = 1 /\ b.mutation = "MerklePath" THEN Plus(BuiltPath(b)[l], 1) ELSE BuiltPath(b)[l]]

Revocation(i) ==
  /\ Due("revocation", i)
  /\ build.shape.depth <= W
  /\ LET c == creds[i]
         depth == build.shape.depth
         leaf == IF build.mutation = "Revoked" THEN 1 ELSE 0
     IN  \E epoch \in IF Code THEN {IF build.mutation = "StaleRoot" THEN RootEpoch - 1 ELSE RootEpoch}
                      ELSE {RootEpoch - 1, RootEpoch},
            bits \in IF Code THEN {BuiltBits(c.rid)} ELSE Decompositions[c.rid],
            path \in IF Code THEN {WitnessPath(build)} ELSE [1 .. depth -> SiblingChoices] :
           \E root \in IF Code THEN {MerkleRoot(c.rid, BuiltPath(build), 0, Domain.merkle)}
                       ELSE MerkleOutputs(bits, path, leaf, Domain.merkle) :
             /\ trees' = Append(trees, [path |-> path, root |-> root])
             /\ Rows(/\ epoch = RootEpoch
                     /\ DecomposeRows(bits, c.rid)
                     /\ \A l \in depth .. W - 1 : bits[l] = 0
                     /\ root \in MerkleOutputs(bits, path, leaf, Domain.merkle))
  /\ LET depth == build.shape.depth
     IN  Adds(W + 3 + (IF build.profile = "sig" THEN 1 ELSE 0) + (W - depth) + depth * (1 + PerHash(2)),
              W + depth * (2 + PerHash(2)))
  /\ UNCHANGED <<build, creds, claims, request, today, outcome>>

\* A path longer than a word indexes past the bits of the identifier.
DeepPath(i) ==
  /\ Due("revocation", i)
  /\ build.shape.depth > W
  /\ outcome' = "panicked"
  /\ UNCHANGED <<build, at, creds, claims, request, today, trees, sat, size>>

CrossBinding ==
  /\ Due("cross", 0)
  /\ Rows(creds[1].holder = creds[2].holder /\ creds[1].age = creds[2].age)
  /\ Adds(2, 0)
  /\ UNCHANGED <<build, creds, claims, request, today, trees, outcome>>

\* The rows become matrices of the padded size, or do not fit it.
Resolve ==
  /\ outcome = "building"
  /\ ~(build.wk /\ ~WkAccepted(build))
  /\ at = Len(Steps(build)) + 1
  /\ \E padded \in PaddedSizes :
       outcome' = IF /\ \E e \in 0 .. MaxLog : padded = TwoTo(e)
                     /\ size.rows <= padded /\ size.vars <= padded
                  THEN "built" ELSE "tooSmall"
  /\ UNCHANGED <<build, at, creds, claims, request, today, trees, sat, size>>

Next ==
  \/ RefuseShape
  \/ \E i \in 1 .. build.shape.count : Credential(i) \/ Revocation(i) \/ DeepPath(i)
  \/ RequestBinding
  \/ Disclosure
  \/ RangeAndExpiry
  \/ CrossBinding
  \/ Resolve

RelationSpec == Init /\ [][Next]_relationVars

(***************************************************************************)
(* Properties                                                              *)
(***************************************************************************)

\* What the relation states about its witness, in integers and native hashes.
OpeningsTrue ==
  \A i \in 1 .. Len(creds) : claims[i] = NativeClaim(build.profile, creds[i])

SameHolder ==
  \A i \in 1 .. Len(creds) : creds[i].holder = creds[1].holder /\ creds[i].age = creds[1].age

RequestTrue ==
  /\ request.digest = NativeHash(<<creds[1].holder, request.nonce, request.mask>>, 0, Domain.request)
  /\ request.mask \in 0 .. 3
  /\ request.mask % 2 = 1 => request.age = creds[1].age
  /\ request.mask \div 2 = 1 => request.country = creds[1].country

RangeTrue ==
  build.shape.range =>
    /\ MinAge <= creds[1].age /\ creds[1].age <= MaxAge
    /\ today <= creds[1].expiry

RevocationTrue ==
  \A i \in 1 .. Len(trees) :
    /\ creds[i].rid < TwoTo(build.shape.depth)
    /\ trees[i].root = MerkleRoot(creds[i].rid, trees[i].path, 0, Domain.merkle)

\* Soundness: whatever witness satisfies all rows, its credentials open their
\* claims, belong to one holder, disclose what the mask says, are in range and
\* unexpired as integers (not only modulo the field), and their revocation
\* identifiers lead to the published roots.
SatisfiedMeansTrue ==
  outcome = "built" /\ sat /\ build.mutation = "Valid" =>
    OpeningsTrue /\ SameHolder /\ RequestTrue /\ RangeTrue /\ RevocationTrue

\* Which mutations the audits of both profiles expect to be rejected, by workload.
Rejected(b) ==
  \/ b.mutation \in {"Attribute", "Issuer", "Holder", "Claim", "Nonce", "CredentialType", "IssuanceEpoch"}
  \/ b.mutation = "Expired" /\ b.shape.range
  \/ b.mutation \in {"Revoked", "StaleRoot", "MerklePath"} /\ b.shape.revocations > 0
  \/ b.mutation = "CrossCredential" /\ b.shape.count > 1

\* An identifier that needs more bits than the tree is deep has no path.
Reachable(b) ==
  \A i \in 1 .. b.shape.revocations : Fixture(b.profile, i).rid < TwoTo(b.shape.depth)

\* Completeness and the audits' verdicts: the builder's own witness satisfies
\* the relation exactly when the fixture is valid and every revocation
\* identifier fits its tree; each mutation an audit expects to be rejected
\* breaks a row, and no mutation breaks one it does not concern.
AuditVerdicts ==
  outcome = "built" /\ Code => sat = (~Rejected(build) /\ Reachable(build))

===============================================================================
