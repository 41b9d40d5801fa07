------------------------- MODULE MCCredentialRelation -------------------------
(* Small instances of CredentialRelation for TLC: 17 elements, 3-bit words. *)
EXTENDS CredentialRelation, TLC

MCRoundConstant == [r \in 0 .. 1 |-> 3 + 4 * r]

MCDomain == [holder |-> 1, key |-> 2, mac |-> 3, sig |-> 4, request |-> 5, merkle |-> 6, sibling |-> 7]

MCFieldChoices ==
  [age |-> {1, 2, 5, 6, 16}, expiry |-> {0, 6, 16}, rid |-> {2, 4, 16},
   holder |-> {5, 6}, mask |-> {0, 1, 3, 4}, day |-> {0, 7}]

CodeBuild(profile, wk, shape, mutation) ==
  [profile |-> profile, wk |-> wk, shape |-> shape, mutation |-> mutation, prover |-> "code"]

AnyBuild(profile, wk, shape) ==
  [profile |-> profile, wk |-> wk, shape |-> shape, mutation |-> "Valid", prover |-> "any"]

WkShapes ==
  {WkShape(k, r, d, backend) :
     k \in 0 .. 3, r \in 0 .. 2, d \in 0 .. 4, backend \in {"None", "SparseMerkle"}}

MCBuilds ==
  {CodeBuild("mac", FALSE, StandardShape(w), m) : w \in Standard, m \in Mutations.mac}
  \cup {CodeBuild("sig", FALSE, StandardShape(w), m) : w \in Standard, m \in Mutations.sig}
  \cup {CodeBuild("sig", TRUE, s, m) : s \in WkShapes, m \in {"Valid", "Issuer"}}
  \cup {AnyBuild("mac", FALSE, StandardShape(w)) : w \in {"W1", "W3"}}
  \cup {AnyBuild("sig", FALSE, StandardShape(w)) : w \in {"W2"}}
  \cup {AnyBuild("sig", TRUE, WkShape(2, 1, 2, "SparseMerkle"))}

===============================================================================
