------------------------------ MODULE MCProofRun ------------------------------
(* Small instances of ProofRun for TLC. *)
EXTENDS ProofRun, TLC

CONSTANTS t1, t2, h1, h2, c1

MCTokenCtx == [t \in Tokens |-> c1]

\* An invocation id is never given to a second token, so two ids are two live
\* reservations, and a third attempt finds both in use.
MCBindings == {[ctx |-> c1, iid |-> "i1", req |-> "a"], [ctx |-> c1, iid |-> "i2", req |-> "a"]}

\* Tokens and processes are interchangeable, so that one stands for all.  No
\* reservation of a token lasts for ever (ActiveTokenReservation::drop, and
\* recover_reserved for what it missed).
ReservationsResolved == ReservationResolved(t1)

\* Every attempt of a process ends (patched_run returns), whatever the other
\* process does to the store.
AttemptsEnd == AttemptEnds(h1)

===============================================================================
