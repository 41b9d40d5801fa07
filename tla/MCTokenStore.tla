----------------------------- MODULE MCTokenStore -----------------------------
(* Small instances of TokenStore for TLC. *)
EXTENDS TokenStore, TLC

CONSTANTS t1, t2, t3, h1, h2, c1, c2

MCTokenCtx == [t \in Tokens |-> c1]

\* Two requests that share an invocation id, one with an id of its own and one
\* for another context.
MCBindings ==
  {[ctx |-> c1, iid |-> "i1", req |-> "a"],
   [ctx |-> c1, iid |-> "i1", req |-> "b"],
   [ctx |-> c1, iid |-> "i2", req |-> "a"],
   [ctx |-> c2, iid |-> "i2", req |-> "a"]}

Symmetry == Permutations(Handles) \cup Permutations(Tokens)

===============================================================================
