------------------------------ MODULE TokenStore ------------------------------
(***************************************************************************)
(* The durable token store of preprocessed PBMO                            *)
(* (experiments/preprocessed-pbmo/src/token.rs, TokenStore).               *)
(*                                                                         *)
(* Several processes hold handles on one store directory.  The directory   *)
(* holds lifecycle.journal (one snapshot of every token's record, replaced *)
(* by rename), one file per token under tokens/ (replaced by rename) and   *)
(* lifecycle.lock (an exclusive advisory lock, released when its holder's  *)
(* file handle is dropped, its process dies or the machine stops).         *)
(*                                                                         *)
(* A rename is visible at once but survives a loss of power only after the *)
(* directory is fsynced: "images" and "fileImages" hold what the machine   *)
(* may find after such a loss.  Each operation is cut at every place where *)
(* it changes the directory; what lies between two cuts runs under the     *)
(* lock and only reads.  A call that is rejected before its first write    *)
(* changes nothing and is not a step.                                      *)
(***************************************************************************)
EXTENDS Integers, FiniteSets

CONSTANTS
  Handles,        \* processes, each with one TokenStore handle
  Tokens,         \* token identifiers (tid)
  Contexts,       \* context digests
  TokenCtx,       \* the context a token was generated for
  Bindings,       \* reservation bindings [ctx, iid, req]; req stands for (sid, request_digest)
  MaxGeneration,  \* the largest store_generation (u64::MAX in the code)
  MaxRecords,     \* MAX_LIFECYCLE_RECORDS
  MaxFaults,      \* bound on I/O errors, process exits and power losses
  NoHandle, NoToken, NoBinding

ASSUME ConstantsOK ==
  /\ TokenCtx \in [Tokens -> Contexts]
  /\ \A b \in Bindings : b.ctx \in Contexts
  /\ MaxGeneration \in Nat
  /\ MaxRecords \in Nat
  /\ MaxFaults \in Nat
  /\ NoHandle \notin Handles
  /\ NoToken \notin Tokens
  /\ NoBinding \notin Bindings

VARIABLES
  journal,     \* the snapshot load_snapshot reads: the visible lifecycle.journal
  images,      \* the snapshots a loss of power may leave in its place
  file,        \* the state in each visible token file, "none" when there is no file
  fileImages,  \* the token files a loss of power may leave
  lock,        \* the holder of lifecycle.lock
  pc,          \* where each process is in its store call
  op,          \* the call in progress: its kind, its token and the snapshot it computed
  cache,       \* the snapshot each handle installed last (its records and sequence)
  granted,     \* history: reservations that reserve returned to a caller
  settled,     \* history: terminal transitions that mark_* reported as done
  faults       \* I/O errors, process exits and power losses so far

dirVars == <<journal, images, file, fileImages>>
vars == <<journal, images, file, fileImages, lock, pc, op, cache, granted, settled, faults>>

-------------------------------------------------------------------------------
(* Records and snapshots *)

Live     == {"reserved", "spent", "burned"}
Terminal == {"spent", "burned"}
States   == {"absent", "available"} \cup Live

Generations == 0..MaxGeneration

Record   == [state : States, gen : Generations, bind : Bindings \cup {NoBinding}]
Snapshot == [gen : Generations, rec : [Tokens -> Record]]

NoRecord      == [state |-> "absent", gen |-> 0, bind |-> NoBinding]
EmptySnapshot == [gen |-> 0, rec |-> [t \in Tokens |-> NoRecord]]

Recorded(s) == {t \in Tokens : s.rec[t].state # "absent"}

\* Mutant of HasReserved: recovery asks for all instead of any.
HasReservedOnly(s) ==
  Recorded(s) # {} /\ \A t \in Recorded(s) : s.rec[t].state = "reserved"

HasReserved(s) == \E t \in Tokens : s.rec[t].state = "reserved"

\* next_generation: the u64 counter is never wrapped, the call fails instead.
HasNextGeneration(s) == s.gen < MaxGeneration

\* The snapshot with token t's record replaced, at the next generation.
WithRecord(s, t, st, b) ==
  [gen |-> s.gen + 1,
   rec |-> [s.rec EXCEPT ![t] = [state |-> st, gen |-> s.gen + 1, bind |-> b]]]

\* Mutants of Recovered: recovery gives the token back instead of burning it;
\* it burns whatever has been reserved once.
RecoveredAsAvailable(s) ==
  [gen |-> s.gen + 1,
   rec |-> [t \in Tokens |->
             IF s.rec[t].state = "reserved"
               THEN [state |-> "available", gen |-> s.gen + 1, bind |-> NoBinding]
               ELSE s.rec[t]]]

RecoveredAllLive(s) ==
  [gen |-> s.gen + 1,
   rec |-> [t \in Tokens |->
             IF s.rec[t].state \in Live
               THEN [state |-> "burned", gen |-> s.gen + 1, bind |-> s.rec[t].bind]
               ELSE s.rec[t]]]

\* Recovery: every reserved record becomes burned, at one new generation.
Recovered(s) ==
  [gen |-> s.gen + 1,
   rec |-> [t \in Tokens |->
             IF s.rec[t].state = "reserved"
               THEN [state |-> "burned", gen |-> s.gen + 1, bind |-> s.rec[t].bind]
               ELSE s.rec[t]]]

\* Mutant of WithinLimit: the limit is applied to the tokens in use, off by one.
WithinLimitOfLive(s) == Cardinality({t \in Tokens : s.rec[t].state \in Live}) < MaxRecords

\* validate_snapshot: the record limit, and the shape of what it accepts.
WithinLimit(s) == Cardinality(Recorded(s)) <= MaxRecords

WellFormed(s) ==
  /\ \A t \in Recorded(s) :
       /\ s.rec[t].gen \in 1..s.gen
       /\ s.rec[t].state = "available" <=> s.rec[t].bind = NoBinding
  /\ Recorded(s) = {} => s.gen = 0

ValidSnapshot(s) == WithinLimit(s) /\ WellFormed(s)

\* validate_available_token_files: what open requires of tokens/.
AvailableFilesValid(s, f) ==
  \A t \in Tokens : s.rec[t].state = "available" => f[t] = "available"

-------------------------------------------------------------------------------
(* What each call checks after it has the lock and has loaded the snapshot *)

InsertAccepted(s, f, t) ==
  /\ s.rec[t].state = "absent"
  /\ f[t] = "none"
  /\ HasNextGeneration(s)

\* Mutant of ReserveAccepted: an invocation id may be used again.
ReserveAcceptedAnyIid(s, f, t, b) ==
  /\ s.rec[t].state = "available"
  /\ b.ctx = TokenCtx[t]
  /\ f[t] # "none"
  /\ HasNextGeneration(s)

ReserveAccepted(s, f, t, b) ==
  /\ \A u \in Tokens : s.rec[u].state \in Live => s.rec[u].bind.iid # b.iid
  /\ s.rec[t].state = "available"
  /\ b.ctx = TokenCtx[t]
  /\ f[t] # "none"
  /\ HasNextGeneration(s)

TerminalAccepted(s, t, b, g) ==
  /\ s.rec[t].state # "absent"
  /\ s.rec[t].gen = g
  /\ s.rec[t].state = "reserved"
  /\ s.rec[t].bind = b
  /\ HasNextGeneration(s)

-------------------------------------------------------------------------------
(* Calls in progress *)

Kinds == {"none", "open", "recover", "insert", "reserve", "mark"}
Calls == [kind : Kinds, tid : Tokens \cup {NoToken}, snap : Snapshot]

NoCall == [kind |-> "none", tid |-> NoToken, snap |-> EmptySnapshot]

Busy(h) == pc[h] \notin {"closed", "idle"}

\* Mutant of Begin: the call does not wait for the lock.
BeginUnlocked(h, kind, t, snap, next) ==
  /\ lock' = h
  /\ op' = [op EXCEPT ![h] = [kind |-> kind, tid |-> t, snap |-> snap]]
  /\ pc' = [pc EXCEPT ![h] = next]
  /\ UNCHANGED <<dirVars, cache, granted, settled, faults>>

\* acquire_exclusive_lock succeeds, load_snapshot has been validated and the
\* call has computed the snapshot it is going to commit.
Begin(h, kind, t, snap, next) ==
  /\ lock = NoHandle
  /\ lock' = h
  /\ op' = [op EXCEPT ![h] = [kind |-> kind, tid |-> t, snap |-> snap]]
  /\ pc' = [pc EXCEPT ![h] = next]
  /\ UNCHANGED <<dirVars, cache, granted, settled, faults>>

\* Mutant of Return: the lock is leaked.
ReturnLocked(h, state) ==
  /\ UNCHANGED lock
  /\ op' = [op EXCEPT ![h] = NoCall]
  /\ pc' = [pc EXCEPT ![h] = state]

\* The call returns and drops the lock.
Return(h, state) ==
  /\ lock' = NoHandle
  /\ op' = [op EXCEPT ![h] = NoCall]
  /\ pc' = [pc EXCEPT ![h] = state]

\* An I/O error ends the call.  A handle that was being opened does not exist.
Fail(h) ==
  /\ faults < MaxFaults
  /\ faults' = faults + 1
  /\ Return(h, IF op[h].kind = "open" THEN "closed" ELSE "idle")
  /\ UNCHANGED <<dirVars, cache, granted, settled>>

-------------------------------------------------------------------------------
(* The calls *)

Init ==
  /\ journal = EmptySnapshot
  /\ images = {EmptySnapshot}
  /\ file = [t \in Tokens |-> "none"]
  /\ fileImages = [t \in Tokens |-> {"none"}]
  /\ lock = NoHandle
  /\ pc = [h \in Handles |-> "closed"]
  /\ op = [h \in Handles |-> NoCall]
  /\ cache = [h \in Handles |-> EmptySnapshot]
  /\ granted = {}
  /\ settled = {}
  /\ faults = 0

\* TokenStore::open with nothing to recover: it only reads.
OpenClean(h) ==
  /\ pc[h] = "closed"
  /\ lock = NoHandle
  /\ AvailableFilesValid(journal, file)
  /\ ~HasReserved(journal)
  /\ cache' = [cache EXCEPT ![h] = journal]
  /\ pc' = [pc EXCEPT ![h] = "idle"]
  /\ UNCHANGED <<dirVars, lock, op, granted, settled, faults>>

\* TokenStore::open on a journal with reserved records.
OpenRecovering(h) ==
  /\ pc[h] = "closed"
  /\ AvailableFilesValid(journal, file)
  /\ HasReserved(journal)
  /\ HasNextGeneration(journal)
  /\ Begin(h, "open", NoToken, Recovered(journal), "putJournal")

\* TokenLifecycle::recover_after_crash on an open handle, nothing to recover.
RecoverClean(h) ==
  /\ pc[h] = "idle"
  /\ lock = NoHandle
  /\ ~HasReserved(journal)
  /\ cache' = [cache EXCEPT ![h] = journal]
  /\ UNCHANGED <<dirVars, lock, pc, op, granted, settled, faults>>

\* TokenLifecycle::recover_after_crash with reserved records.
RecoverReserved(h) ==
  /\ pc[h] = "idle"
  /\ HasReserved(journal)
  /\ HasNextGeneration(journal)
  /\ Begin(h, "recover", NoToken, Recovered(journal), "putJournal")

\* insert writes the token file before the journal.
Insert(h, t) ==
  /\ pc[h] = "idle"
  /\ InsertAccepted(journal, file, t)
  /\ Begin(h, "insert", t, WithRecord(journal, t, "available", NoBinding), "putFile")

Reserve(h, t, b) ==
  /\ pc[h] = "idle"
  /\ ReserveAccepted(journal, file, t, b)
  /\ Begin(h, "reserve", t, WithRecord(journal, t, "reserved", b), "putJournal")

\* mark_spent and mark_burned, called with what some reserve returned.
MarkTerminal(h, r, target) ==
  /\ pc[h] = "idle"
  /\ TerminalAccepted(journal, r.tid, r.bind, r.gen)
  /\ Begin(h, "mark", r.tid, WithRecord(journal, r.tid, target, r.bind), "putJournal")

-------------------------------------------------------------------------------
(* The writes of a call *)

\* commit_snapshot up to the rename of the temporary file over the journal.
PutJournal(h) ==
  /\ pc[h] = "putJournal"
  /\ \/ /\ ValidSnapshot(op[h].snap)
        /\ journal' = op[h].snap
        /\ images' = images \cup {op[h].snap}
        /\ pc' = [pc EXCEPT ![h] = "syncJournal"]
        /\ UNCHANGED <<file, fileImages, lock, op, cache, granted, settled, faults>>
     \/ Fail(h)

\* Too many records: commit_snapshot rejects the snapshot before it writes.
RejectSnapshot(h) ==
  /\ pc[h] = "putJournal"
  /\ ~ValidSnapshot(op[h].snap)
  /\ Return(h, IF op[h].kind = "open" THEN "closed" ELSE "idle")
  /\ UNCHANGED <<dirVars, cache, granted, settled, faults>>

\* reserve and mark_* rewrite the token file after the commit; mark_* only
\* when there is a file.
WritesFileAfterCommit(h) ==
  \/ op[h].kind = "reserve"
  \/ op[h].kind = "mark" /\ file[op[h].tid] # "none"

Settlement(h) ==
  [tid |-> op[h].tid,
   bind |-> op[h].snap.rec[op[h].tid].bind,
   state |-> op[h].snap.rec[op[h].tid].state]

Reservation(h) ==
  [tid |-> op[h].tid,
   bind |-> op[h].snap.rec[op[h].tid].bind,
   gen |-> op[h].snap.gen]

\* Mutants of SyncedImages and SyncedFile: the directory is not fsynced.
UnsyncedImages == images
UnsyncedFile(t) == fileImages[t]

\* What can be found after the fsync of the root directory, and of tokens/.
SyncedImages  == {journal}
SyncedFile(t) == {file[t]}

\* The fsync of the root directory, then install_snapshot.
SyncJournal(h) ==
  /\ pc[h] = "syncJournal"
  /\ \/ /\ images' = SyncedImages
        /\ cache' = [cache EXCEPT ![h] = op[h].snap]
        /\ IF WritesFileAfterCommit(h)
             THEN /\ pc' = [pc EXCEPT ![h] = "putFile"]
                  /\ UNCHANGED <<lock, op, settled>>
             ELSE /\ Return(h, "idle")
                  /\ settled' = settled \cup (IF op[h].kind = "mark" THEN {Settlement(h)} ELSE {})
        /\ UNCHANGED <<journal, file, fileImages, granted, faults>>
     \/ Fail(h)

\* persist_token up to the rename of the temporary file over the token file.
PutFile(h) ==
  /\ pc[h] = "putFile"
  /\ \/ LET t  == op[h].tid
            st == op[h].snap.rec[t].state
        IN /\ file' = [file EXCEPT ![t] = st]
           /\ fileImages' = [fileImages EXCEPT ![t] = @ \cup {st}]
           /\ pc' = [pc EXCEPT ![h] = "syncFile"]
           /\ UNCHANGED <<journal, images, lock, op, cache, granted, settled, faults>>
     \/ Fail(h)

\* The fsync of tokens/.  insert goes on to the journal, reserve returns the
\* token to its caller, mark_* reports the terminal state.
SyncFile(h) ==
  /\ pc[h] = "syncFile"
  /\ \/ /\ fileImages' = [fileImages EXCEPT ![op[h].tid] = SyncedFile(op[h].tid)]
        /\ IF op[h].kind = "insert"
             THEN /\ pc' = [pc EXCEPT ![h] = "putJournal"]
                  /\ UNCHANGED <<lock, op>>
             ELSE Return(h, "idle")
        /\ granted' = granted \cup (IF op[h].kind = "reserve" THEN {Reservation(h)} ELSE {})
        /\ settled' = settled \cup (IF op[h].kind = "mark" THEN {Settlement(h)} ELSE {})
        /\ UNCHANGED <<journal, images, file, cache, faults>>
     \/ Fail(h)

-------------------------------------------------------------------------------
(* Closing, and faults *)

\* The TokenStore value is dropped between two calls.
Close(h) ==
  /\ pc[h] = "idle"
  /\ pc' = [pc EXCEPT ![h] = "closed"]
  /\ cache' = [cache EXCEPT ![h] = EmptySnapshot]
  /\ UNCHANGED <<dirVars, lock, op, granted, settled, faults>>

\* The process is killed or aborts: its handle and its lock are gone, what it
\* renamed stays visible.
Exit(h) ==
  /\ pc[h] # "closed"
  /\ faults < MaxFaults
  /\ faults' = faults + 1
  /\ pc' = [pc EXCEPT ![h] = "closed"]
  /\ op' = [op EXCEPT ![h] = NoCall]
  /\ cache' = [cache EXCEPT ![h] = EmptySnapshot]
  /\ lock' = IF lock = h THEN NoHandle ELSE lock
  /\ UNCHANGED <<dirVars, granted, settled>>

\* The machine loses power: every process ends and each renamed file is found
\* in one of the versions the disk may hold.
PowerLoss ==
  /\ faults < MaxFaults
  /\ faults' = faults + 1
  /\ journal' \in images
  /\ images' = {journal'}
  /\ file' \in [Tokens -> States \cup {"none"}]
  /\ \A t \in Tokens : file'[t] \in fileImages[t]
  /\ fileImages' = [t \in Tokens |-> {file'[t]}]
  /\ lock' = NoHandle
  /\ pc' = [h \in Handles |-> "closed"]
  /\ op' = [h \in Handles |-> NoCall]
  /\ cache' = [h \in Handles |-> EmptySnapshot]
  /\ UNCHANGED <<granted, settled>>

-------------------------------------------------------------------------------

Work(h) ==
  \/ PutJournal(h)
  \/ RejectSnapshot(h)
  \/ SyncJournal(h)
  \/ PutFile(h)
  \/ SyncFile(h)

Call(h) ==
  \/ OpenClean(h)
  \/ OpenRecovering(h)
  \/ RecoverClean(h)
  \/ RecoverReserved(h)
  \/ \E t \in Tokens : Insert(h, t)
  \/ \E t \in Tokens, b \in Bindings : Reserve(h, t, b)
  \/ \E r \in granted, target \in Terminal : MarkTerminal(h, r, target)

Next ==
  \/ \E h \in Handles : Call(h) \/ Work(h) \/ Close(h) \/ Exit(h)
  \/ PowerLoss

Spec == Init /\ [][Next]_vars

-------------------------------------------------------------------------------
(* Properties *)

TypeOK ==
  /\ journal \in Snapshot
  /\ images \in SUBSET Snapshot
  /\ file \in [Tokens -> States \cup {"none"}]
  /\ fileImages \in [Tokens -> SUBSET (States \cup {"none"})]
  /\ lock \in Handles \cup {NoHandle}
  /\ pc \in [Handles -> {"closed", "idle", "putFile", "syncFile", "putJournal", "syncJournal"}]
  /\ op \in [Handles -> Calls]
  /\ cache \in [Handles -> Snapshot]
  /\ granted \in SUBSET [tid : Tokens, bind : Bindings, gen : Generations]
  /\ settled \in SUBSET [tid : Tokens, bind : Bindings, state : Terminal]
  /\ faults \in 0..MaxFaults

\* A token's mask leaves the store at most once, and no invocation id is used
\* for two of them, whatever crashed, failed or lost power in between
\* (reserve; "the same masked material cannot be used to resume or restart").
SingleUse ==
  \A r1, r2 \in granted :
    r1.tid = r2.tid \/ r1.bind.iid = r2.bind.iid => r1 = r2

\* Once reserve has returned, no journal a loss of power can leave offers the
\* token again, gives its reservation to another caller, or moves it to a
\* context it was not made for (the fsyncs of commit_snapshot come before the
\* return of reserve).
GrantDurable ==
  \A r \in granted, s \in images :
    /\ s.rec[r.tid].state \in Live
    /\ s.rec[r.tid].bind = r.bind
    /\ s.rec[r.tid].state = "reserved" => s.rec[r.tid].gen = r.gen
    /\ r.bind.ctx = TokenCtx[r.tid]

\* A terminal state that mark_spent or mark_burned reported is the token's
\* state in every journal a loss of power can leave; two reports about one
\* token never disagree.
SettledDurable ==
  \A a \in settled, s \in images :
    /\ s.rec[a.tid].state = a.state
    /\ s.rec[a.tid].bind = a.bind

\* validate_available_token_files accepts every combination of journal and
\* token files that a loss of power or a crash can leave: the order in which
\* insert, reserve and mark_* write the two never locks the store.
Reopenable ==
  \A s \in images, t \in Tokens :
    s.rec[t].state = "available" => fileImages[t] = {"available"} /\ file[t] = "available"

\* validate_snapshot never rejects the shape of a snapshot that the store
\* itself computed or wrote: a call is only ever refused by the record limit.
SnapshotsWellFormed ==
  /\ \A s \in images : WellFormed(s)
  /\ \A h \in Handles : Busy(h) => WellFormed(op[h].snap)

\* One step of a record: unchanged, or one move along
\* absent -> available -> reserved -> spent | burned that keeps the binding.
RecordAdvances(old, new) ==
  \/ new = old
  \/ old.state = "absent" /\ new.state = "available"
  \/ old.state = "available" /\ new.state = "reserved"
  \/ old.state = "reserved" /\ new.state \in Terminal /\ new.bind = old.bind

\* The visible journal moves one generation and one legal record step at a
\* time, or returns to a snapshot that was still unsynced when power was lost.
\* No concurrent handle ever overwrites the commit of another one.
LifecycleOneWay ==
  [][\/ journal' \in images
     \/ /\ journal'.gen = journal.gen + 1
        /\ \A t \in Tokens : RecordAdvances(journal.rec[t], journal'.rec[t])]_journal

\* Stage of a record along its life.
Stage(r) ==
  CASE r.state = "absent" -> 0
    [] r.state = "available" -> 1
    [] r.state = "reserved" -> 2
    [] r.state \in Terminal -> 3

\* A record that may be an earlier version of another one.
Precedes(old, new) ==
  /\ Stage(old) <= Stage(new)
  /\ old.state \in Live => old.bind = new.bind
  /\ old.state \in Terminal => old = new

\* What state(), record() and load() answer from a handle's cache is never
\* ahead of the journal, and a cache with the journal's sequence number is the
\* journal: a stale handle lags, it does not diverge.
CacheCoherent ==
  \A h \in Handles :
    /\ cache[h].gen <= journal.gen
    /\ cache[h].gen = journal.gen => cache[h] = journal
    /\ \A t \in Tokens : Precedes(cache[h].rec[t], journal.rec[t])

\* At the record limit the store only refuses new tokens: it still recovers,
\* reserves and settles the ones it has.
OnlyInsertsRefused ==
  \A h \in Handles :
    pc[h] = "putJournal" /\ ~ValidSnapshot(op[h].snap) => op[h].kind = "insert"

-------------------------------------------------------------------------------
(* What the store promises: see OneTimeToken *)

HeldBy(t) == {r \in granted : r.tid = t}

AnyBinding(rs) == (CHOOSE r \in rs : TRUE).bind

\* A token's promise is settled when every journal that can be found says so.
PromisedStatus ==
  [t \in Tokens |->
    IF HeldBy(t) = {} THEN "unused"
    ELSE IF \A s \in images : s.rec[t].state = "spent" THEN "spent"
    ELSE IF \A s \in images : s.rec[t].state = "burned" THEN "burned"
    ELSE "granted"]

PromisedHolder ==
  [t \in Tokens |->
    IF HeldBy(t) = {} THEN NoBinding ELSE AnyBinding(HeldBy(t))]

Promise == INSTANCE OneTimeToken WITH status <- PromisedStatus, holder <- PromisedHolder

\* Every behaviour of the store, faults included, is one of the abstract
\* one-time token.
ImplementsOneTimeToken == Promise!Spec

===============================================================================
