------------------------- MODULE OutsourcedCommitment -------------------------
(***************************************************************************)
(* What a PBMO session promises its caller                                 *)
(* (experiments/preprocessed-pbmo/src/provider.rs,                         *)
(* PreprocessedPbmoProvider): it ends once, either with the commitments of *)
(* the rows the caller pushed and its token spent, or without outputs.     *)
(***************************************************************************)
CONSTANT Sessions

VARIABLES
  outcome,  \* "open", "failed", or what was returned: "right" or "wrong"
  token     \* the session's one-time token

commitVars == <<outcome, token>>

CommitInit ==
  /\ outcome = [c \in Sessions |-> "open"]
  /\ token = [c \in Sessions |-> "reserved"]

\* An error while the session is open burns the token, at once or on the way
\* to the caller.
BurnToken(c) ==
  /\ outcome[c] = "open"
  /\ token[c] = "reserved"
  /\ token' = [token EXCEPT ![c] = "burned"]
  /\ outcome' = outcome

ReturnRight(c) ==
  /\ outcome[c] = "open"
  /\ token[c] = "reserved"
  /\ outcome' = [outcome EXCEPT ![c] = "right"]
  /\ token' = [token EXCEPT ![c] = "spent"]

\* A session that never began leaves its token alone.
EndWithoutOutputs(c) ==
  /\ outcome[c] = "open"
  /\ outcome' = [outcome EXCEPT ![c] = "failed"]
  /\ token' \in {token, [token EXCEPT ![c] = "burned"]}

CommitNext ==
  \E c \in Sessions : BurnToken(c) \/ ReturnRight(c) \/ EndWithoutOutputs(c)

CommitSpec == CommitInit /\ [][CommitNext]_commitVars

===============================================================================
