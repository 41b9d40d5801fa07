-------------------------- MODULE MCCredentialSource --------------------------
(* Small instances of CredentialSource for TLC. *)
EXTENDS CredentialSource, TLC

CONSTANTS a1, a2, p1, s1, s2

MCRoundConstant == [r \in 0 .. 1 |-> 3 + 4 * r]

\* Two runs of the audit program take their nonce from the same seed.
MCNonceOf == [a \in Audits |-> "n1"]

\* One workload with two sessions: a second audit replaces the first one's source.
MCWorkloads ==
  {[credentials |-> 2, revocations |-> 1, depth |-> 1, session |-> s] : s \in {s1, s2}}

SourceSymmetry == Permutations({s1, s2}) \cup Permutations(Audits)

===============================================================================
