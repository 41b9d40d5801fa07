# ThinWallet in TLA+

ThinWallet is a research prototype of private SNARK proving on a phone with the help of one
untrusted server. The wallet runs a Spartan prover whose state is bounded in memory (it spills
sealed objects to disk), and outsources the large multi-scalar multiplications of its private
witness commitments to a server that only sees masked rows: *preprocessed PBMO*. The masks come from
one-time *tokens* made in advance and kept in a durable store. What is proved is a credential
relation over a witness that an authenticated source replays. Using a token twice, or losing the
order of chunks, breaks the privacy or the correctness of a commitment, so most of the code that is
hard to test is about a token's life, about the session that spends it and about the server's
connection protocol; around these stand the files the programs share and the relations they prove.

Paths below are relative to `src/`; `E/` stands for `experiments/`.

## 1. Inventory

| Component | Source | State it keeps | Operations |
|---|---|---|---|
| Durable token store | `E/preprocessed-pbmo/src/token.rs` | `lifecycle.journal` (a snapshot: generation, one record per token), `tokens/*.token`, an advisory lock, a cached snapshot per open handle | `open` (recovers), `recover_reserved`, `insert`, `reserve`, `mark_spent`, `mark_burned`, `load`, `state`, `record`, `inspect_token_store` |
| Proof attempt | `E/libspartan/src/bin/phase_v2_pbmo.rs` (`patched_run`, `ActiveTokenReservation`) | the reservation it holds, whether its guard is armed, the proof file | open, select or insert, reserve, prove and verify, spend, release; `Drop` burns |
| Token batches | same file, phase 5B | a manifest (CREATING, then AVAILABLE) that lists the tokens of a batch with their files' checksums | `prepare_phase5b_tokens`, `write_phase5b_manifest`, `validate_phase5b_token_context`, use by a run |
| PBMO session | `E/preprocessed-pbmo/src/provider.rs`, adapter `pbmo_commitment.rs` | columns reached per row, accumulators, transport, spool, token guard | `begin`, `push_private_row_chunk`, `finalize`, `Drop` |
| Masked-row spool | `E/preprocessed-pbmo/src/secure_spool.rs` | up to four files, a running checksum, counts | `create`, `append`, `seal_and_open_verified`, `open_verified`, `remove`, `Drop` |
| PBMO transport and server | `E/preprocessed-pbmo/src/transport.rs`, `E/libspartan/src/bin/pbmo_tcp_server.rs` | per connection: the request read so far, its digest; the accept loop's counter | frames, validators, `handle_server_connection`, accept loop, metrics, loopback |
| Prover state objects | `E/libspartan/vendor/spartan-0.9.0/src/{multi_state_store,state_store,secure_temp}.rs` | files of sealed, chunked objects per proof session, bytes in use | create, append, seal, scan, range read, delete, abort cleanup |
| Credential relations | `E/libspartan/src/credential_workloads.rs`, `credential_workloads/profile_s.rs` | rows, wires and witness of a circuit under construction | the `add_*` gadgets, workload builders, the mutations of the audits |
| Credential source | `E/libspartan/src/credential_source/mod.rs`, `bin/phase_v4e_credential_source.rs` | a file of authenticated, counted frames behind one name | author, publish, replay in passes, validate |
| Profile S issuance | `E/libspartan/src/profile_s_issuance.rs` | none that outlives a call | issue, verify a package |
| Instrumentation | `E/thinwallet-instrumentation/src/lib.rs` | phase stack and events, artifact records and byte counts, a measurement scope, a sampler thread | phase guards, `record_artifact_*`, `observe_temp_storage`, scopes, final report |
| Memory budget and planner | `.../{memory_budget,budget_planner}.rs` | an atomic byte counter and its peak; an admission decision | reserve, drop, plan |
| Remote evaluation | `.../remote_eval.rs` | server: provisioned circuits, completed (invocation, nonce) pairs | probe, provision, eval |
| Prover MSM, streaming folds, modified Spartan prover | `.../{prover_msm,streaming_sumcheck_fold,dense_mlpoly,...}.rs` | vectors of field and group elements | algebra |
| Field helpers, benchmark binaries | `E/preprocessed-pbmo/src/field.rs`, `.../bin/*`, ... | none that outlives a call | parsing, drivers |

`PROJECT.json` lists the same components with the modules that model them.

**How they interact.** `token-prepare` fills the store with a batch and publishes its manifest. `patched_run`
checks the manifest, opens the store (which burns every reservation left by an earlier process), reserves a
token and arms a guard; it builds the credential relation from the records the source replays. The prover
calls the adapter, which begins a session with the token, pushes every row chunk by chunk (masked, into the
spool and then to the server) and finalizes. The server validates each frame, multiplies after `finish` and
answers with one point per row. A malicious-mode session reads its spool back and checks a random combination of the
outputs against it. When the proof has been verified by the unchanged verifier the token is marked
spent, and only then is the proof written. Any error drops the session and the guard; both fail
closed by burning. The spool and the state stores report every file operation to the instrumentation, whose
sampler scans the same directory.

**What is hard.** Two processes over one store; I/O errors at each write of a store call; a kill or
a loss of power between `rename` and the directory's `fsync`; an error after a call has committed; a check
made before a lock is taken; a server that handles one connection at a time; frames lost or torn, clients that vanish;
cleanup that stops half-way; a caller that repeats a push; a file replaced between two passes of its reader; threads
that share one phase stack. Section 5 names the properties, `PROJECT.json` ("hazards") the lines where each of these bites.

**What makes each component correct.**

- Token store: a token is handed out once, an invocation id is used once, what was reported survives
  any crash, the store can always be opened again, records move one way.
- Proof attempt: a proof leaves only under a durably spent token and at most once per token; no
  reservation is forgotten; every attempt ends.
- Token batches: only a published token of the run's own context is used; a live token is always listed.
- Session: the outputs are the commitments of the rows, or there are none; the token ends spent or
  burned accordingly; no file is left; honest outputs are accepted.
- Server: a multiplication starts on complete requests only, the answer is in row order, metrics say
  what happened, and no client holds the server for ever.
- State objects: what a scan delivers is what was appended and sealed; a crashed session is purged
  and never resumed; bytes in use never exceed the limit.
- Credential relations: a satisfying assignment exists only for a true statement, and the audits' mutations break it.
- Credential source: what a replay accepts was authored, complete and for this session.
- Instrumentation: each recorded phase has its two events once; byte counts are those of the disk; a scope's report is true.
- Budget: reservations add up to the counter and never exceed the budget.
- Remote evaluation: a response is accepted only for the request, circuit and server build it was
  made for; a cache is never replaced.

## 2. Modules

```
OneTimeToken            <- implemented by -  TokenStore -> TokenStoreInv -> TokenStoreProofs
                                                 |
                                                 v
                                             ProofRun (the proofs of TokenStoreProofs cover both)
                        TokenBatch -> TokenBatchProofs
OutsourcedCommitment    <- implemented by -  PbmoSession -------------> PbmoProofs
                                              /       \                  |
                                       SecureSpool   PbmoServer          |
                                                        |                |
                                                   PbmoTraffic ----------+  (one server, any clients)
TempArtifacts -> Instrumentation, FiniteSums -> InstrumentationProofs
CircuitGadgets -> CredentialRelation, FiniteSums -> CredentialRelationProofs
CircuitGadgets -> CredentialSource -> CredentialSourceProofs
StateObjectStore, FiniteSums -> StateObjectStoreProofs
```

`StateObjectStore` stands alone: the prover's spill has no call in common with the rest. `FiniteSums` models nothing: it holds lemmas
about the sums of the community modules and about recursive functions over an interval. A module `MCX` instantiates
`X` for TLC. Operators whose comment begins "Mutant of" are plausible bugs: with one in the place of the definition named,
TLC finds the property that `PROJECT.json` ("mutants") gives for it violated.

**TokenStore** (`token.rs`). A call is `Call` (take the lock, read the journal, decide, compute the
new snapshot: one step, since the lock excludes every other writer) followed by its writes as
separate steps: `PutJournal` (temporary file and rename), `SyncJournal` (fsync of the directory),
`PutFile`, `SyncFile` for the token file, in the order the call has them; `insert` writes its file first.

| TLA+ | code |
|---|---|
| `journal`, `file` | what a reader finds now under `lifecycle.journal`, `tokens/<id>.token` |
| `images`, `fileImages` | what may be found after a loss of power: every version renamed since the last fsync of the directory |
| `lock`, `op`, `pc`, `cache` | the advisory lock, the call in progress, its next write, `self.snapshot` |
| `granted`, `settled` | history: reservations and terminal states reported to a caller |
| `OpenClean`, `OpenRecovering`, `RecoverClean`, `RecoverReserved`, `Insert`, `Reserve`, `MarkTerminal` | the public calls, accepted (a refused call returns the lock and changes nothing) |
| `RejectSnapshot` | `validate_snapshot` refuses the new snapshot before anything is renamed |
| `Fail`, `Exit`, `PowerLoss`, `Close` | an I/O error at any write, a killed process, a machine that goes down, the end of a handle |

Token contents, their authentication and the encodings are data: a token file is the state written in it.

**ProofRun** (`phase_v2_pbmo.rs`) adds one attempt per process to TokenStore: `RunOpen`, `SelectPregenerated` or
`InsertFresh`, `RunReserve`, `Guard` (the marker between `reserve` and the guard), `Prove` (proving and both verifications, two outcomes), `Spend`, `Burn`
(drop of the armed guard), `Release`, `Quit`, `Killed`, `MachineDown`. `AfterCall` is what the caller does with each result.

**TokenBatch** (`phase_v2_pbmo.rs`, phase 5B). `prep[p]` is a `token-prepare` command, `load[l]` a proof run in
pre-generated mode. `manifest` is what a reader sees, `synced` what a loss of power leaves, `tmp` the temporary file, whose name
all preparers share, and `open[p]` the name that the file a preparer has open goes by now. Writing a manifest is
`CreateTemporary`, which truncates whatever has the shared name, `WriteTemporary` into the open file and its fsync,
`Rename` and `SyncRoot`. The store appears as what TokenStore is shown to keep, one status per token changed at a commit; `file`
counts the rewrites of a token's file, which is what the manifest's checksum tells apart. A run validates the manifest
(`Validate`), the file (`ReadFile`), and only then opens the store (`OpenStore`) and reserves (`Reserve`).

**PbmoServer** (`transport.rs`, `pbmo_tcp_server.rs`). `wire[c]` holds frames on their way to the server, `answer[c]` those
back, `stage[c]` where the server is with the connection, `req[c]` the request it has read, `log[c]`
what it did. One action per blocking call or frame: `Accept`, `TakeHeader`, `TakeChunk`,
`TakeFinish`, `RefuseFrame`, `ReadFails`, `SendResponseHeader`, `SendResponseBody`, `WriteMetrics`, `ServerKilled`. A write of the
response fails when the client is gone, and may fail when it is there: at the write timeout, or on a body larger than a frame. A group
element is the sequence of masked scalars added up in it and the digest is the sequence of chunks hashed,
so equality of the model's values is what the hash and the group give except with negligible probability.

**PbmoTraffic** puts the server among clients that may write any frame next, right or wrong in one
place, which is the list of `run_transport_rejection_suite` in every order and from any state.

**SecureSpool** gives what each spool call leaves behind, whole or stopped by an error. **PbmoSession**
(`provider.rs`) is the real client over PbmoServer and SecureSpool: native, plain, semi-honest or malicious, with
local accumulators, over the loopback or over TCP, with every corruption hook of the code. `Begin` may refuse: a session "refused" has taken
no token, and its spool, if it had one, was removed once, by the spool's own drop. `Retries` lets the caller push again
after an error, as the interface allows (the repository's adapter panics instead); `RowMajor` is the
adapter's order, FALSE is what `push_chunk` accepts.

**StateObjectStore** (`multi_state_store.rs`, `secure_temp.rs`).

| TLA+ | code |
|---|---|
| `session` | the directory that the session's name stands for |
| `files[d]` | what is under each name of directory d, which is named here after the store that made it |
| `store[s]`, `objects[s]` | a store, with the handle of the directory it works in (`fd`), and its map of objects |
| `robbed` | history: directories that another process has purged |
| `shared` | history: directories opened by a store that had not made them |
| `MakeDirectory`, `OpenDirectory` | the `mkdirat` and the `openat` of `create_child_exclusive`: another process may purge the new directory and make its own in between, and the `openat` then opens that one |
| `PurgeOpen`, `PurgeList`, `PurgeUnlink`, `PurgeRmdir` | a create that finds the directory opens it, lists it by its name, unlinks, removes it and is rejected |
| `CreateObject`, `AppendChunk`, `AppendTorn` | an append whole, or a `write_all` that stops inside its chunk |
| `SealManifest`, `SealData`, `SealMeta`, `SealStops` | the manifest and the two renames of a seal, and a seal that stops before them |
| `DeleteObject` (`DeletionStops`) | a deletion, whole or stopped after any of its steps |
| `CleanupDeletes`, `CleanupList`, `CleanupUnlink`, `CleanupRmdir` | an abort cleanup, called or from `Drop` |

The path, which purge and cleanup list and remove, and the handle, in which they unlink, come apart in the model as they do in
the code. An element is (store, nonce of the object, position), a checksum is the bytes
it was taken of. `Retries` lets the caller go on with a store after a call that failed; the provers of the repository
drop it (they unwind). `FullChunks` is what every caller in the repository does. `Alone(s)` says that s works in the directory it made and that no
other store opened that one; section 8 says what two stores in one directory do to each other.

**CircuitGadgets** gives each gadget of `credential_workloads.rs` as the set of values its rows leave open to a prover (bits, comparison,
MiMC7, a Merkle level), over a field of P elements with W-bit words. Recursions are functions over intervals (`TwoTo` is 2^n), so that they can be reasoned about. **CredentialRelation** builds the relations of the MAC workloads and of
Profile S from them, one step per call of an `add_*` function; `build.prover` is "code" for the builder's own
witness, mutated or not, and "any" for whatever assignment satisfies the rows. `outcome` is the audit's verdict.

**CredentialSource** (`credential_source/mod.rs`). `files` are the source files ever created, `dir` the one the name stands for, `images` the
directories a loss of power may leave, `proc` the audits (which author a source, publish it and replay it)
and the proof runs (which replay what they find). A reader goes through the file once per pass and opens it by name for each,
so an audit may replace it in between. The temporary name of a writer comes from its nonce, and writers may share one (`NonceOf`): the seeds of the
audit program are constants. `Abandon` is the error path of a write: it takes the temporary name away, whoever created the file, or fails to.
`robbed` (history) are the nonces whose name was taken from a writer at work, `orphans` the files whose writer was stopped or could not
remove them. `Measurements` are the audits that write only. A frame opens under the nonce, counter and associated data it was made with and no others.

**TempArtifacts** is the byte accounting of the instrumentation with its two kinds of writer, the request spool and the state
objects: a writer changes the file first and reports it afterwards by a path, and the accounting asks the file system for its size.
A file has four names, its temporary and its final one and those of the manifest that its seal writes. The manifest is in the directory that
is scanned (`OnDisk`) and is registered by nobody; `DataOnDisk` leaves it out. The removal of a spool is recorded first and may then
stop at any of the names; the spool still counts as sealed when its session is dropped, which takes its bytes off again. A deletion of an object
is recorded last. `failures` (history) keeps the kinds of operation that failed: append, seal, remove, delete. `Sweep` is the store's own
cleanup, which records nothing.
**Instrumentation** adds the phase guards of the threads (`thr`, `stack`, `buffer`, `log`), the measurement scope with its
sampler, and the final report, in the perf and the audit profile. Abstractions: a directory scan reads all sizes at once; a phase thread's
scan and store are one step, only the sampler's and the final report's are two; the baseline and the
first sample are one observation.

## 3. Abstract specifications

- **OneTimeToken**: `Grant` hands an unused token to a binding whose invocation id is fresh; `Settle` moves
  granted tokens to spent or burned. `TokenStore!ImplementsOneTimeToken` maps a token to what *every* journal that a
  loss of power can leave says of it, which is why an unsynced commit is a stutter and a lost one loses nothing.
- **OutsourcedCommitment**: a session ends once, with the right outputs and a spent token or with
  none. `PbmoSession!ImplementsCommitment` is the mapping.
- The statements of CredentialRelation (`RangeTrue`, `RevocationTrue`, `OpeningsTrue`, `RequestTrue`, `SameHolder`) are a reference
  definition of what each relation is meant to say, in terms of the fields and not of rows.

## 4. Runs

A run's bounds are named constants of its cfg. `MaxGeneration`, `MaxFaults`, `MaxConnections`,
`MaxPayload`, `MaxFiles`, `MaxNonce`, `MaxSize` and `Expected`/`Total` are the only bounds on counters that are unbounded, or bounded by an
integer's width, in the code.

| Run | Question | Instance | States |
|---|---|---|---|
| `store_safety` | Does any sequence of calls of two processes, with I/O errors, kills and losses of power anywhere, use a token twice, lose what was reported, lock the store, let the record limit refuse anything but an insert, or leave the one-time token's behaviour? | 2 handles, 3 tokens, `MaxRecords` 2, `MaxGeneration` 6, 2 faults | 811 k |
| `run_safety` | Can a proof leave under a token that is not durably spent, two under one token, or an error path forget a reservation? Does every reservation get resolved and every attempt end? | 2 processes, 2 tokens, 2 bindings, `MaxGeneration` 6, 1 fault | 493 k |
| `token_batch` | Is every token a run uses published for its context, and every live token listed and loadable, wherever a preparation is stopped? | 1 preparer, 2 runs, 3 ids, 2 contexts, 2 faults | 198 k |
| `token_batch_pair` | Does the check for live tokens keep two preparations apart? **No** | 2 preparers, 2 ids, no fault | |
| `credential_relation` | Does a satisfying assignment exist for true statements only, and do the audits' mutations give the verdict they should? | P = 17, W = 3, 2 rounds | 25 k |
| `credential_source` | Can a replay accept records that were not authored for it, or a stopped writer leave a half source under the name? | 2 audits with one nonce that write, 1 proof run, 2 sessions, 2 files, 1 fault | 989 k |
| `instrumentation` | Do phases, byte counts, scans, scopes and the final report agree with what happened? | 2 threads, a sampler, 3 files of at most 2 units with manifests of 1, 2 profiles, 4 kinds of run | 3.7 M |
| `server_traffic` | Whatever frames come in whatever order, is only a complete request multiplied and are the metrics true? | 2 clients, Q = M = 2, 3 chunks, 1 fault | 778 k |
| `session_faults` | One session of every mode and link, with retried pushes and every corruption hook: right outputs and a spent token, or none, a burned token and no file? | Q = M = 2, chunks of 1 or 2, 2 faults, spool of at most 6 scalars | 1.03 M |
| `session_contention` | Do two sessions that compete for the one-thread server end, whatever the one before does? | 2 sessions, Q = 1, M = 2, 1 fault | 203 k |
| `row_order` | Are honest outputs accepted in whatever order rows are pushed? **No** | Q = M = 2, no fault | |
| `state_objects` | Can a scan ever deliver anything but what was appended, the disk outgrow the budget, a cleanup or a purge leave something behind? | 2 stores of one session, 1 object of 3 elements in chunks of 2, budget 3, 4 names per store, 1 I/O error, kills anywhere | 5.5 M |

**Why the bounds are enough.** *Store and attempts*: two processes make every race on the lock and on a stale cache; two bindings
with different invocation ids let two reservations live at once, and three tokens under a limit of two records reach the limit with a token left
over; the longest story of one token, with the recovery of another process in between, takes five generations. Two faults are an
error after a commit and a failing recovery of it or a loss of power; the attempts, whose store calls are those of
`store_safety`, add one fault at any of their own steps. Tokens and processes are interchangeable, so the liveness properties are
stated for one token and one process. *Batches*: three ids are two batches, one of them of two tokens. *Server and session*: two rows of two columns are the smallest shape in
which rows may be swapped, interleaved, overlapped or left incomplete with the right count; three chunks make rows
of unequal chunking. Two faults are what an upload needs to fail in, and its cleanup as well. *State objects*: two stores make every race
between a purge and an owner, and two that meet in one directory; three elements in chunks of two
have a short last chunk; four names per store are an object
created, sealed, deleted, created and sealed again. With two objects the run is out of reach: that several objects of one store are
kept apart and share its budget, whose refusal one object alone never meets, is covered by the theorems only. *Relations*: a field of 17 with words of three bits keeps the code's order of sizes (words, their differences and
the field) and lets a wrap-around at its edge be enumerated. *Source*: two files are the one a pass began with and the one that replaces it, and two writers with one nonce are what takes a temporary name from a
writer at work; an audit that also reads back what it wrote beside a second writer is too large for a run, and there the theorems stand alone. *Instrumentation*: two threads that share
the stack, and a scope with a sampler of its own; the four kinds of run each press one of the parts.

`CHECK_DEADLOCK FALSE` stands where the system may stop: batches when the ids are used up, the server after its last connection,
sessions, audits, builds and runs after they have ended, the stores when both have been dropped.
The runs of TokenStore and ProofRun check for deadlock: somebody can always open, close or be killed.

**Fairness.** `FairRunSpec`: a live process goes on with its attempt (`Proceed`, one thread that never waits for another
attempt except for the advisory lock) and the wallet is started again (`RunOpen`). Faults, kills and losses of
power have no fairness. `FairSessionSpec`: the server's thread runs on; a blocked read or write ends
after 120 seconds (`pbmo_tcp_server.rs:78-79`), so `ReadFails` is part of `ServerWork`. Clients get none: they may
fall silent for ever, and `QueuedConnectionsEnd` holds all the same. `SessionsEnd` assumes in its own
statement that the caller of the session goes on with what it has begun (the client's io timeout is `ReceiveFails`).

## 5. Properties

- *Token store*: `SingleUse`, `GrantDurable`, `SettledDurable` (what was reported is in every journal a loss
  of power may leave), `Reopenable` (no crash between the two files of `insert` locks the store),
  `OnlyInsertsRefused`, `ImplementsOneTimeToken`.
- *Proof attempt*: `ProofNeedsSpentToken`, `ExclusiveAttempts`, `NoForgottenReservation`, `ReservationsResolved`, `AttemptsEnd`.
  `NoForgottenReservation` excepts one place that the code really has: the RESERVE_DURABLE marker lies between
  `reserve` and the guard (`phase_v2_pbmo.rs:1244`); if it cannot be written the token stays reserved until the next open.
- *Token batches*: `UsedTokensPublished` (the manifest is checked once, before the store is opened, and that is enough),
  `LiveTokensListed` (after any crash), `PublishedTokensLoadable`, `OneLiveBatch`.
- *Server*: `MsmAfterCompleteRequest`, `MetricsMatchAnswer`, `QueuedConnectionsEnd`.
- *Session*: `ReturnedOutputsRight`, `MsmAfterFinalize`, `TokenSettled`, `SpoolDeleted` (a session that ended leaves a file behind only after two errors, one that
  was refused at its begin only after one), `HonestOutputsAccepted`, `SessionsEnd`, `ImplementsCommitment`.
- *State objects*: `ScansRight`, `SealedReadable`, `DiskWithinBudget` (until a call has failed: torn bytes, and those a stopped deletion leaves,
  are counted by nobody), each of a store that is `Alone` in its directory, and `CleanedMeansGone` of every store.
- *Credentials*: `SatisfiedMeansTrue` (no assignment satisfies the rows of a false statement), `AuditVerdicts`
  (every mutation of the audits gets the verdict its table promises); `RecordsAuthored`, `ReplayedAsWanted`, `PublishedWhole` (the published file is whole unless the temporary name
  of its nonce was taken from a writer at work; that it is not older than the last one reported is said of every file), `TemporariesOwned`.
- *Instrumentation*: `StackIsLiveGuards`, `EventsOnce` (an event is written once, though the lock is released between taking
  and writing it), `ScopeReportsTrue`, `DirectMatchesDisk` (between operations the direct count is the data on disk, without the manifests: exactly, until
  something other than a seal has failed, and at most that, until a deletion has), `FinalBytesCurrent` (the audit profile's final size is the whole disk, the perf profile's
  is the data without the manifests, under the same conditions).

## 6. Findings

1. `token_batch_pair`: `token-prepare` looks for live tokens in the journal it read when it opened the store and holds no lock until it
   inserts (`phase_v2_pbmo.rs:1681`). Two preparations both pass the check, overwrite each other's manifest and leave live tokens of
   two batches. No run uses a token that was never published (`UsedTokensPublished` holds for any number of preparers),
   but the tokens of the batch whose manifest was lost stay live and block every later preparation. With one preparer at a time the check is enough, which is proved.
2. `row_order`: `push_chunk` takes rows in any order and spools in push order, `finish` reads the spool row
   after row. A caller that interleaves rows has honest outputs rejected and its token burned, although
   `theory/preprocessed_pbmo_correctness.md:11,25` promises otherwise. The one caller in the repository pushes row after row, and with that
   order `session_faults` shows the promise kept.

Three more disagreements, without a run. `theory/preprocessed_pbmo_protocol.md:78` and
`E/libspartan/docs/phase_v2_preprocessed_pbmo.md:64` call finalisation to the same state idempotent; `mark_terminal` (`token.rs:1045`)
refuses the second call, and the repository's own test asserts the refusal. The `durability` field of a state store is never read: every
object is fsynced, although `theory/thinwallet_durability_classes.md:12,26` says that ephemeral objects are not. And `range_read`
(`multi_state_store.rs:748`) compares no lengths, as the two other readers do: after a torn append that is
repeated it would return shifted bytes. No caller in the repository repeats an append.

## 7. Proofs

Proved with TLAPS, for any number of processes, tokens, bindings, faults, clients, rows, columns, preparers, threads, files and workloads:

| Theorem | What it says |
|---|---|
| `TokenStoreProofs!TypeCorrect`, `TokensUsedOnce`, `GrantsSurvive`, `SettlementsSurvive`, `AlwaysReopenable` | the type invariant and the invariants of `store_safety` |
| `TokenStoreProofs!CachesLag`, `ShapesAccepted`, `JournalMovesOneWay`, `LimitRefusesOnlyInserts` | `CacheCoherent`, `SnapshotsWellFormed`, `LifecycleOneWay` (no lost update between processes), `OnlyInsertsRefused` |
| `TokenStoreProofs!StoreKeepsPromise` | TokenStore implements OneTimeToken |
| `TokenStoreProofs!RunUsesStore` | every behaviour of the attempts is one of the store: all of the above holds of them |
| `TokenStoreProofs!RunTypeCorrect`, `ReleasedUnderSpent`, `OneProcessPerToken`, `NoneForgotten` | `RunTypeOK`, `ProofNeedsSpentToken`, `ExclusiveAttempts`, `NoForgottenReservation` |
| `TokenBatchProofs!UsedTokensPublishedHolds`, `PublishedLoadable` | `UsedTokensPublished`, `PublishedTokensLoadable`, for any number of preparers |
| `TokenBatchProofs!LiveListed`, `OneBatchAlone` | `LiveTokensListed`, `OneLiveBatch`, while one preparer runs at a time |
| `PbmoProofs!CompleteBeforeMsm`, `SingleConnection`, `MetricsTrue` | `MsmAfterCompleteRequest`, `OneConnectionAtATime`, `MetricsMatchAnswer` |
| `PbmoProofs!SessionInvariance`, `TokensSettle`, `SpoolsDeleted`, `MsmOnlyAfterFinalize` | the inductive invariant of the sessions, `TokenSettled`, `SpoolDeleted`, `MsmAfterFinalize` |
| `PbmoProofs!ReturnsRight`, `SessionCommits` | `ReturnedOutputsRight` and that a session implements OutsourcedCommitment, without a corruption hook or with rows in order (`Undisturbed`) |
| `PbmoProofs!HonestAccepted` | `HonestOutputsAccepted`, for a caller that pushes row after row |
| `PbmoProofs!SessionsServedOneByOne` | `OneConnectionAtATime` and `MsmAfterCompleteRequest` with the real clients |
| `StateObjectStoreProofs!StateScans`, `StateSealed`, `StateBudget`, `StateCleaned` | `ScansRight`, `SealedReadable` (for full chunks but for the last), `DiskWithinBudget`, `CleanedMeansGone` |
| `CredentialSourceProofs!ConsumersSeeAuthored`, `ReplaysWanted`, `PublishesWhole`, `TemporariesCleared` | `RecordsAuthored`, `ReplayedAsWanted`, `PublishedWhole`, `TemporariesOwned` |
| `CredentialRelationProofs!RelationSound` | `SatisfiedMeansTrue`: whatever satisfies the rows of a finished relation makes its statement true |
| `CredentialRelationProofs!AuditsCorrect` | `AuditVerdicts`: the builder's witness satisfies a finished relation exactly when the audits say so |
| `CredentialRelationProofs!DecomposeSound`, `LessEqualOpenIs`, `CircuitHashIs`, `MerkleOutputsAre` | bit decomposition, comparison, MiMC hash and Merkle path leave a prover the native value and no other |
| `InstrumentationProofs!ScopesTrue`, `DirectCountRight` | `ScopeReportsTrue`, `DirectMatchesDisk` |
| `InstrumentationProofs!EventsNeverLost`, `StackTrue`, `FinalBytesRight` | `EventsOnce`, `StackIsLiveGuards`, `FinalBytesCurrent` |

**Assumptions.** `ConstantsOK` (TokenStore): tokens have contexts, limits are naturals, the three "none" values are none of
the others. `ServerConstantsOK`, `SessionConstantsOK`, `StateConstantsOK`: sizes are positive, limits naturals. `NoBatchAssumption`,
`NoManifestAssumption` (TokenBatch): no batch is the value that stands for none, and no manifest is one of those for none, an empty and a torn one.
`TemporaryAssumption` (CredentialSource): a temporary name, whose extension is the nonce, is not the
destination's (that writers have nonces of their own is assumed nowhere), `WorkloadAssumption`: a fixture has a credential. `FieldAssumption`, `NoZeroDivisors`: P behaves like a prime (a product is
zero only if a factor is) and the field holds two words, as the scalar field, of about 2^252, holds two 32-bit words. `SeventhAssumption`: the seventh power is
injective, which is so because 7 does not divide P - 1 (checked for the order of the Ristretto group, which is the P of the code): without it MiMC7 is no permutation and a changed
attribute might keep its hash. `RoundAssumption`: the rounds have constants. `BuildAssumption`: a build is a workload of the two enums with a mutation its
profile knows, or WK with any counts, depth and backend. `ValueAssumption`: fixtures and choices are field elements, and the fixture's age, expiry and two days
compare as those of the code do. `ArtAssumption`, `InstrAssumption`: the sampler is a thread of
its own, a run has finitely many files and threads, and a workload is two naturals and some of the files. TLC evaluates each on every run of its module.

**The arguments.** *Store*: none of the invariants is inductive alone. A call commits a snapshot that it computed several
steps earlier, so `TokenStoreInv!IInv` says what a call in progress will write (`PlanInv`: the next generation, one legal record step),
that the lock is held by exactly the busy process (`LockInv`, so the plan cannot be stale), that every image a loss of
power may leave is an earlier version of the journal (`ImagesInv`), and that after the directory's fsync the journal is the only image
(`CallInv`). `GrantDurable` holds because `granted` grows only after that fsync; `Reopenable` because `insert`'s file is
fsynced before its record is written (`FileInv`). `NextInv` has one lemma per action. *Refinement*: under `IInv` the fsync of a `reserve` is a `Grant` at
the moment it returns, an fsync or loss of power that decides terminal states is a `Settle`, everything else a stutter.
*Attempts*: `RunInv` ties the phase of an attempt to the call it is in (`CallOf`) and keeps "spent and about to be
written", "written" apart (`ReleaseInv`), so that a second process can neither spend nor write under the same token. `NoneForgotten` rests on two
facts: no step makes a granted token reserved again, so what was settled stays so; and without a fault a mark call that returns has committed a terminal record,
because only inserts are refused and generations are left.
*Batches*: publication and the draw of an id are never taken back, so what a run saw in the manifest stays true although nothing
locks it (`LoadRight`). A record is taken of a token's file once the token is in the journal, and from then on the file changes
only with the status (`RecordedStays`, `LInv`). With one preparer `Quarantine` says that live tokens are the running preparation's own, that none is live
before the CREATING manifest is synced, and which of the three manifests lists them at each step; nobody else touches its open file. With several, what
a preparer publishes may be another's manifest, or a torn one, which the loader refuses: `Announced` of it is then nothing, or what its owner has published.
*Server*: `ServerInv` says that a row holds exactly the columns before the next expected one (`Prefixes`), whatever was refused; with
the finish check this makes rows complete before `MsmInv` allows a multiplication. `AnswerInv` ties answers to
stages and metrics. *Sessions*: the client pushes frames that the server reads later, so `SessionInv` says which frames a
session can have on the wire (`Sent`: its header, its chunks in order, its finish frame only once it has finished, and halves of frames) and that
the server's request is a prefix of what was sent (`Taken`); what the server multiplies is then what the client pushed. A reply on its way is an error, a
header or the right outputs (`OutputsOK`). `PayloadOK` is about the spool of a row-by-row caller: repeated and torn appends make it too long
for good, and a spool of the right length holds the rows in their order, so the check compares each output with its own row. `FilesOK` counts the
faults that a file left behind has cost. The hypotheses are needed. Without the order of the rows honest outputs are rejected (`row_order`), and a hook
that swaps two outputs passes when the caller has swapped the rows in the spool as well; the hooks are for the tests of the code.
*Refinement of a session*: what no step of a client undoes (`Fate`: an end, a burned token, returned outputs) and `LifeOK` make every step burn the token, return
the right outputs, end without any, or stutter; steps of the server stutter. *Scopes*: the flags of the scope and the history of verifier work say the same while a thread owns the scope, and each step that gives a scope back is
taken by its owner (`ScopeInv`).
*State objects*: `LifeInv` says which directory a store holds in each phase, `MadeInv` that nobody but its maker puts a file into a directory that is not shared,
and `DirectoriesInv` that a directory without a name is empty, so that a cleanup,
which unlinks by name what it listed under the session's name, has left nothing when it reports success, also when another store's purge came between
or works in the same directory. The other parts speak of a store that is `Alone`; once it is not it never is again, and a store elsewhere cannot reach its files.
`ContentsInv` says what may be under the names of an object whatever was torn, stopped, retried or purged: a file of the counted length holds what was appended, and
a torn append makes it too long for good (`Grown`), so a scan that compares lengths is right or an error. `IntactInv` says what is there for certain
while none of that has happened. `CountedInv` says that every data file then has one object of the map that is as long, that no two files share one, and that the
lengths of the map add up to `used`: the sum on the disk is a sum over different objects.
*Credential source*: a source is written, damaged, replaced and read by different processes, and every pass of a reader opens the name again. `DiskInv` says that
every frame of every file was made by some writer or is torn, whatever was appended, cut or exchanged since. A frame opens only
under the nonce, the header and the index it was made with, so what opens as a header was authored and what opens as its record i is its record i (`GotOK`,
also half-way through a pass). A proof run compares no layout digest of its own: the layout follows from the fields it does compare and from the
relation it rebuilds, because an authored header is the fixture of some workload, and equal bindings mean equal fixtures (`BoundLayout`).
`PublishedInv` says that a renamed file whose nonce was not robbed was synced and is whole until damaged, `ImagesInv` which names a loss of power may leave. `HasFile` says that a writer's
temporary name stands for its own file until the nonce is robbed: a second writer of the nonce finds the name taken, and what it does about that is what robs it.
*Instrumentation*: `FileOK` says what the accounting has of a file at every step of its writer: its size, but for a chunk being
written, nothing of it under another name, and something too small only after a failed append. `CountInv` says that the direct count is the sum of what is
recorded of the files that are held, each under the one data name it has (`HeldBytes`), while nothing but a seal has failed (`Exact`), and at most that while no deletion has; each operation of a writer
changes one term of that sum, and manifests are in none. *Events*: an event is due from its
guard's begin or end on, and `PlaceInv` says that a due event is at exactly one of the file, the buffer and the hands of threads; guards are of one thread (`LiveInv`).
*The report*: the sampler runs only between the grant of a scope and its owner's wait (`SamplerInv`), and a run ends when no scope is open, so the only scan still
under way is the report's own (`ScanInv`), and nothing is written after it. *The stack*: a phase is on the stack as often as the threads together have it open
(`StackInv`, a sum over the threads); so a thread that ends a phase finds its name, and which of several entries of that name it takes makes no difference to the count.
*Credential relations*: the gadgets first. A row of a bit leaves 0 and 1 only (`NoZeroDivisors`), the packing row then the source's own bits, because sums of different bits differ and
none of them wraps. A wrapped difference is at least P less a word, and that is no word (`LessEqualOpenIs`). The rows of a MiMC round have one solution, so a circuit's outputs are a
set of one element through every round, block and level (`CircuitHashIs`, `MerkleOutputsAre`). The relation is built call by call, and `Progress` says which wires exist after each
call (`StepsAdd`: the n-th call of any workload finds done what the calls before it do). `RowsSay` adds what each call's rows say of any witness; together they are the statement once all calls
have been made. `WitnessKnown`, `NothingBroken` and `MutationSeen` follow the builder's own witness: a mutation changes a compared word, a holder, a root or one input of a hash, and where blocks of equal length differ
in one place the hashes differ (`HashDiffers`, from `SeventhAssumption`), so a row of that call breaks.
No collision resistance is assumed or needed: the statements say that the hash of the opened fields is the claim, not that no other fields have it.
*Sums and runs*: what a recursive sum computes is shown in `FiniteSums` without an induction theorem: of the subsets of a finite set for which a claim fails there is a minimal one, because strict
inclusion of finite subsets is well-founded, and the recursion contradicts it. A recursion over 0 .. n is shown in the same way to have one run (`RunExists`, `RunsAgree`) and to keep
what each step keeps (`RunStays`); the gadgets are written so that these apply.

**Only model-checked.** Liveness and anything with ENABLED is out of the prover's reach: `ReservationsResolved`, `AttemptsEnd`,
`QueuedConnectionsEnd`, `SessionsEnd`. Every invariant of a passing run is stated by a theorem, with the hypotheses the table names.

## 8. Not modelled, and why

- Field and group arithmetic, the Fiat-Shamir transcript, HMAC and encodings: algebra and data. The aggregate check is
  modelled by what it decides, equality of rows, which holds except with probability 1/|Fr|.
- The unmodified upstream mode of `phase_v2_pbmo.rs`, its measurement loops, the benchmark binaries and the Android scripts: drivers without a token.
- Of the credentials: the Poseidon permutation (an injective stand-in), the sizes of the deployed circuits, the synthetic workload W0, key material and
  `load_full_prover_identity`, `CredentialSourceJournal` (nothing constructs it) and the build that prints replayed records.
- Profile S issuance: each call is a list of comparisons around one signature check. Planned as a composition with CredentialRelation.
- Of the instrumentation: the off profile, the trace schema, the audit streams of transcript and commitments, network bytes, peaks, and allocated sizes.
  The last are worth a remark: a removal does not clear a file's allocated size, so a file reported removed twice is taken off twice; the single-object
  store registers its temporary name and reports writes under the final one, so its bytes are not counted before it is
  sealed; and a verification that is already running when a scope begins is not seen by the scope.
- Directory checks of `SecureDirectory` (owner, mode, symlinks): properties of the file system.
- Of the state stores: range reads, the in-memory store, the single-object store of `state_store.rs`, and statistics. A
  loss of power: nothing of a session is meant to outlive its process.
- The memory budget and remote evaluation: planned, below.

Four things the models do contain, and the properties leave out:

- *Two stores in one directory.* `create_child_exclusive` makes the directory (`secure_temp.rs:66`) and opens it by name (72). When another process purges
  the session and creates it again in between, both stores hold the same directory, and because the keys of the manifests depend on the session alone, each accepts the
  other's objects. It takes two processes with one session name, as `V3B_STATE_SESSION` or a fixed name of a test gives them, and the code means to reject it ("reused proof session was
  purged and rejected"). Without the condition `Alone` TLC violates `ScansRight` in 15 states, `SealedReadable` in 14 and `DiskWithinBudget` in 11.
- *Two writers with one nonce.* The audit program seeds its generator with constants (`phase_v4e_credential_source.rs:123`, `484`, `625`), so two runs of it
  draw the same nonce and hence the same temporary name. The second finds the name taken and its error path removes it (`credential_source/mod.rs:212`); a third write creates it again,
  and the first, which has synced its own file, renames the empty one into place. TLC finds this, without the condition on `robbed`, in 12 states, although
  `theory/authenticated_credential_source.md:25` promises a uniquely named temporary file. A replay refuses such a file (`RecordsAuthored`).
- *Manifests and removals in the byte counts.* The manifest of a sealed object or spool (`multi_state_store.rs:685-693`, `secure_spool.rs:337-346`) is registered by nobody:
  the direct count is below the size of the directory after any seal, and so is the final size of the perf profile. A spool's removal is taken off before
  it happens (`provider.rs:728-741`, `171-172`): when it stops, what is left is in no count, and the drop takes its bytes off a second time.
- *Two preparers.* The truncating create of one (`phase_v2_pbmo.rs:560`) can empty the file that the other is about to rename. Proof runs refuse such a manifest; that
  is part of what `UsedTokensPublished` says.

## 9. Plan

Done, in this order: TokenStore with OneTimeToken and their proofs; ProofRun over it; PbmoServer and PbmoTraffic; SecureSpool,
PbmoSession and OutsourcedCommitment with every provider and link; StateObjectStore; TokenBatch and its proofs; the
credential relations and their source; the instrumentation. Next:

1. **RemoteEval** (`remote_eval.rs`): clients that probe, provision and evaluate, each call a connection of its own to a one-thread server with
   its cache and completed set; restarts, lost responses, races between probe and provision. Abstract specification: at
   most one accepted evaluation per invocation and nonce, for the circuit the client meant.
2. **BudgetArena** (`memory_budget.rs`): the compare-and-swap loop of `reserve`, the separate maximum of the peak, `Drop`; small and provable as
   a whole. Then the planner's admission rule as operators over bounded inputs.
3. **Issuance** (`profile_s_issuance.rs`): packages issued, carried and presented, composed with CredentialRelation.
4. **StateObjectStore**, the rest: range reads, and `state_store.rs` (one object per directory, chunks shorter than
   the chunk size).
5. Proofs of the new modules as they come.
