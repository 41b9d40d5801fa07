------------------------------- MODULE ProofRun -------------------------------
(***************************************************************************)
(* One proof attempt per process over a shared token store:                *)
(* experiments/libspartan/src/bin/phase_v2_pbmo.rs, patched_run and its    *)
(* guard ActiveTokenReservation.  A process opens the store, takes a       *)
(* pre-generated token or inserts a fresh one, reserves it, proves and     *)
(* verifies, marks the token spent and only then writes the proof.  Every  *)
(* error while the guard is armed drops it, which burns the token; the     *)
(* phase markers written between reserve and the guard, and between        *)
(* mark_spent and the proof, can fail too.  Processes may be started again *)
(* without bound.                                                          *)
(***************************************************************************)
EXTENDS TokenStore

VARIABLES
  run,      \* the attempt of each process
  released, \* history: how many proofs left a process under each token
  orphans   \* history: reservations dropped between reserve and the guard

runVars == <<vars, run, released, orphans>>

\* "failclosed": the guard printed TOKEN_FAIL_CLOSED.
Ended  == {"ended", "released", "burned", "failclosed"}
Phases == {"start", "opened", "ready", "reserved", "proving", "accepted", "dropping", "spent"}
            \cup Ended

Runs == [phase : Phases, tid : Tokens \cup {NoToken},
         bind : Bindings \cup {NoBinding}, gen : Generations]

Idle == [phase |-> "start", tid |-> NoToken, bind |-> NoBinding, gen |-> 0]

RunInit ==
  /\ Init
  /\ run = [h \in Handles |-> Idle]
  /\ released = [t \in Tokens |-> 0]
  /\ orphans = {}

At(h, phase) == run[h].phase = phase /\ ~Busy(h)
Goto(h, phase) == run' = [run EXCEPT ![h] = [@ EXCEPT !.phase = phase]]

\* The reservation that reserve returned to the attempt.
Attempt(h) == [tid |-> run[h].tid, bind |-> run[h].bind, gen |-> run[h].gen]

-------------------------------------------------------------------------------

RunOpen(h) ==
  /\ At(h, "start")
  /\ \/ OpenClean(h) /\ Goto(h, "opened")
     \/ OpenRecovering(h) /\ UNCHANGED run
  /\ UNCHANGED <<released, orphans>>

\* A pre-generated token is looked up in the records installed by open.
SelectPregenerated(h, t) ==
  /\ At(h, "opened")
  /\ cache[h].rec[t].state = "available"
  /\ run' = [run EXCEPT ![h] = [phase |-> "ready", tid |-> t, bind |-> @.bind, gen |-> @.gen]]
  /\ UNCHANGED <<vars, released, orphans>>

InsertFresh(h, t) ==
  /\ At(h, "opened")
  /\ Insert(h, t)
  /\ run' = [run EXCEPT ![h] = [@ EXCEPT !.tid = t]]
  /\ UNCHANGED <<released, orphans>>

\* The token is not available, or insert is refused; inspect_token_store too
\* opens the store and then ends.
NoTokenFound(h) ==
  /\ At(h, "opened")
  /\ \E t \in Tokens : \/ cache[h].rec[t].state # "available"
                       \/ lock = NoHandle /\ ~InsertAccepted(journal, file, t)
  /\ Goto(h, "ended")
  /\ UNCHANGED <<vars, released, orphans>>

RunReserve(h, b) ==
  /\ At(h, "ready")
  /\ \/ Reserve(h, run[h].tid, b) /\ UNCHANGED run
     \/ /\ lock = NoHandle
        /\ ~ReserveAccepted(journal, file, run[h].tid, b)
        /\ Goto(h, "ended")
        /\ UNCHANGED vars
  /\ UNCHANGED <<released, orphans>>

\* The RESERVE_DURABLE marker is written and the guard created; if the marker
\* cannot be written the attempt ends with the token reserved.
Guard(h) ==
  /\ At(h, "reserved")
  /\ \/ Goto(h, "proving") /\ UNCHANGED orphans
     \/ Goto(h, "ended") /\ orphans' = orphans \cup {Attempt(h)}
  /\ UNCHANGED <<vars, released>>

\* Mutant of Prove: an error path that does not reach the guard.
ProveForgetting(h) ==
  /\ At(h, "proving")
  /\ Goto(h, "accepted") \/ Goto(h, "ended")
  /\ UNCHANGED <<vars, released, orphans>>

\* Proving, masked upload and both verifications: they end with a proof the
\* unchanged verifier accepts, or with an error that drops the guard.
Prove(h) ==
  /\ At(h, "proving")
  /\ Goto(h, "accepted") \/ Goto(h, "dropping")
  /\ UNCHANGED <<vars, released, orphans>>

\* ActiveTokenReservation::mark_spent; refused when another process has
\* burned the reservation meanwhile.
Spend(h) ==
  /\ At(h, "accepted")
  /\ \/ MarkTerminal(h, Attempt(h), "spent") /\ UNCHANGED run
     \/ /\ lock = NoHandle
        /\ ~TerminalAccepted(journal, run[h].tid, run[h].bind, run[h].gen)
        /\ Goto(h, "dropping")
        /\ UNCHANGED vars
  /\ UNCHANGED <<released, orphans>>

\* Drop of an armed guard.
Burn(h) ==
  /\ At(h, "dropping")
  /\ \/ MarkTerminal(h, Attempt(h), "burned") /\ UNCHANGED run
     \/ /\ lock = NoHandle
        /\ ~TerminalAccepted(journal, run[h].tid, run[h].bind, run[h].gen)
        /\ Goto(h, "failclosed")
        /\ UNCHANGED vars
  /\ UNCHANGED <<released, orphans>>

\* Mutant of AfterCall: the proof is written although mark_spent failed.
AfterCallUnchecked(h, ok) ==
  CASE op[h].kind = "open"    -> IF ok THEN "opened" ELSE "start"
    [] op[h].kind = "insert"  -> IF ok THEN "ready" ELSE "ended"
    [] op[h].kind = "reserve" -> IF ok THEN "reserved" ELSE "ended"
    [] op[h].kind = "mark" /\ run[h].phase = "accepted" -> "spent"
    [] op[h].kind = "mark" /\ run[h].phase = "dropping" -> IF ok THEN "burned" ELSE "failclosed"

\* What the caller does when its store call returns.
AfterCall(h, ok) ==
  CASE op[h].kind = "open"    -> IF ok THEN "opened" ELSE "start"
    [] op[h].kind = "insert"  -> IF ok THEN "ready" ELSE "ended"
    [] op[h].kind = "reserve" -> IF ok THEN "reserved" ELSE "ended"
    [] op[h].kind = "mark" /\ run[h].phase = "accepted" -> IF ok THEN "spent" ELSE "dropping"
    [] op[h].kind = "mark" /\ run[h].phase = "dropping" -> IF ok THEN "burned" ELSE "failclosed"

\* The store's own steps.  A call that returns without a fault, and not
\* because its snapshot was refused, has succeeded.
StoreWork(h) ==
  /\ Work(h)
  /\ IF Busy(h)'
       THEN UNCHANGED run
       ELSE LET phase == AfterCall(h, faults' = faults /\ pc[h] # "putJournal")
            IN run' = [run EXCEPT ![h] =
                 IF phase = "reserved"
                   THEN [phase |-> phase, tid |-> Reservation(h).tid,
                         bind |-> Reservation(h).bind, gen |-> Reservation(h).gen]
                   ELSE [@ EXCEPT !.phase = phase]]
  /\ UNCHANGED <<released, orphans>>

\* The markers after mark_spent and the proof itself are written; one of the
\* writes may fail, and then no proof leaves the process.
Release(h) ==
  /\ At(h, "spent")
  /\ \/ /\ Goto(h, "released")
        /\ released' = [released EXCEPT ![run[h].tid] = @ + 1]
     \/ /\ Goto(h, "ended")
        /\ UNCHANGED released
  /\ UNCHANGED <<vars, orphans>>

\* The process returns and may be started again.
Quit(h) ==
  /\ run[h].phase \in Ended
  /\ Close(h)
  /\ run' = [run EXCEPT ![h] = Idle]
  /\ UNCHANGED <<released, orphans>>

Killed(h) ==
  /\ Exit(h)
  /\ run' = [run EXCEPT ![h] = Idle]
  /\ UNCHANGED <<released, orphans>>

MachineDown ==
  /\ PowerLoss
  /\ run' = [h \in Handles |-> Idle]
  /\ UNCHANGED <<released, orphans>>

Proceed(h) ==
  \/ \E t \in Tokens : SelectPregenerated(h, t) \/ InsertFresh(h, t)
  \/ NoTokenFound(h)
  \/ \E b \in Bindings : RunReserve(h, b)
  \/ Guard(h)
  \/ Prove(h)
  \/ Spend(h)
  \/ Burn(h)
  \/ StoreWork(h)
  \/ Release(h)
  \/ Quit(h)

RunNext ==
  \/ \E h \in Handles : RunOpen(h) \/ Proceed(h) \/ Killed(h)
  \/ MachineDown

RunSpec == RunInit /\ [][RunNext]_runVars

\* A live process goes on with its attempt; the wallet is started again.
FairRunSpec == RunSpec /\ \A h \in Handles : WF_runVars(RunOpen(h) \/ Proceed(h))

-------------------------------------------------------------------------------
(* Properties *)

RunTypeOK ==
  /\ TypeOK
  /\ run \in [Handles -> Runs]
  /\ released \in [Tokens -> Nat]
  /\ orphans \subseteq granted

\* A proof is written only under a token that every journal a loss of power
\* can leave records as spent, and at most one proof per token, over any
\* number of attempts, crashes and concurrent processes (patched_run writes
\* THINWALLET_PROOF_OUT after mark_spent).
ProofNeedsSpentToken ==
  \A t \in Tokens :
    /\ released[t] <= 1
    /\ released[t] = 1 => \A s \in images : s.rec[t].state = "spent"

\* The attempt works under a token it has reserved and not yet settled.
Holding(h) == run[h].phase \in {"reserved", "proving", "accepted", "dropping"}

\* While no fault has happened and the generations are not exhausted, a
\* reserved record has a process that works under it, or was left by the marker
\* that lies between reserve and the guard: no other error path of an attempt
\* forgets its reservation.
NoForgottenReservation ==
  \A r \in granted :
    journal.rec[r.tid].state = "reserved" /\ HasNextGeneration(journal) /\ faults = 0 =>
      r \in orphans \/ \E h \in Handles : Holding(h) /\ Attempt(h) = r

\* Two processes never work under the same token, even when one of them lost
\* its reservation to the recovery of another process.
ExclusiveAttempts ==
  \A h1, h2 \in Handles :
    Holding(h1) /\ Holding(h2) /\ h1 # h2 => run[h1].tid # run[h2].tid

\* A record does not stay reserved: its own attempt, the guard, or the recovery
\* of the next process that opens the store moves it on, also when reserve failed
\* after its commit and nobody holds the token.
ReservationResolved(t) ==
  (journal.rec[t].state = "reserved") ~> (journal.rec[t].state # "reserved")

\* An attempt ends, whoever else uses the store.
AttemptEnds(h) == (run[h].phase # "start") ~> (run[h].phase = "start")

===============================================================================
