------------------------------ MODULE TokenBatch ------------------------------
(***************************************************************************)
(* Batches of tokens made ahead of the proofs that use them                *)
(* (experiments/libspartan/src/bin/phase_v2_pbmo.rs): token-prepare opens  *)
(* the store, quarantines a new batch behind a CREATING manifest, inserts  *)
(* its tokens and publishes an AVAILABLE manifest; a proof run in          *)
(* pre-generated mode checks the manifest and the token file, and only     *)
(* then opens the store and reserves the token it was told to use.         *)
(*                                                                         *)
(* The store appears as what TokenStore is shown to keep: one status per   *)
(* token, changed at the commit of the journal; file counts the rewrites   *)
(* of a token's file, which is what the manifest's checksum tells apart.   *)
(***************************************************************************)
EXTENDS Naturals, FiniteSets

CONSTANTS
  Ids,         \* token ids the random generator may draw
  Contexts,    \* workload, descriptors, bindings and build hash of a batch
  Preparers, Loaders,
  BatchSizes,  \* the --count values used
  NoManifest,
  Empty,       \* a file that was created and not written yet
  Torn,        \* a file that fails the manifest's integrity check
  MaxFaults    \* bound: I/O errors, kills and losses of power

ASSUME NoBatchAssumption ==
  \A c \in Contexts, s \in SUBSET Ids : [context |-> c, ids |-> s] # NoManifest

ASSUME NoManifestAssumption ==
  \A x \in {NoManifest, Empty, Torn} :
    x \notin [state : {"CREATING", "AVAILABLE"}, context : Contexts,
             records : UNION {[S -> Nat] : S \in SUBSET Ids}]

VARIABLES
  status,    \* of each token, in the journal
  file,      \* version of each token's file, 0 without a file
  tmp,       \* content of the manifest's temporary file
  manifest,  \* the manifest a reader sees
  synced,    \* the manifest a loss of power cannot take back
  open,      \* the name each preparer's open file has, "none" without either
  prep,      \* the preparation each preparer is at
  load,      \* the proof run each loader is at
  batch,     \* history: the batch each id was drawn for
  published, \* history: ids an AVAILABLE manifest has listed
  grants,    \* history: tokens reserved, with the context of the run
  faults

manifests == <<tmp, manifest, synced, open>>
disk == <<status, file, manifests>>
history == <<batch, published, grants>>
batchVars == <<disk, prep, load, history, faults>>

States == {"none", "available", "reserved", "spent", "burned"}

Manifest(state, context, records) ==
  [state |-> state, context |-> context, records |-> records]

IsManifest(m) == m \notin {NoManifest, Empty, Torn}

\* The ids a manifest offers to proof runs.
Announced(m) ==
  {t \in Ids : IsManifest(m) /\ m.state = "AVAILABLE" /\ t \in DOMAIN m.records}

IdlePrep == [phase |-> "idle"]
IdleLoad == [phase |-> "idle"]

\* Opening a store burns what a run before left reserved, or has reserved now.
Recovered == [t \in Ids |-> IF status[t] = "reserved" THEN "burned" ELSE status[t]]

Live == {t \in Ids : status[t] = "available"}

Fault == faults < MaxFaults /\ faults' = faults + 1

Init ==
  /\ status = [t \in Ids |-> "none"]
  /\ file = [t \in Ids |-> 0]
  /\ tmp = NoManifest /\ manifest = NoManifest /\ synced = NoManifest
  /\ open = [p \in Preparers |-> "none"]
  /\ prep = [p \in Preparers |-> IdlePrep]
  /\ load = [l \in Loaders |-> IdleLoad]
  /\ batch = [t \in Ids |-> NoManifest]
  /\ published = {}
  /\ grants = {}
  /\ faults = 0

-------------------------------------------------------------------------------
(* token-prepare *)

\* Mutant of PrepareOpen: live tokens are not looked for.
PrepareOpenAnyway(p, context, drawn) ==
  /\ prep[p].phase = "idle"
  /\ \A t \in drawn : batch[t] = NoManifest
  /\ status' = Recovered
  /\ prep' = [prep EXCEPT ![p] =
       [phase |-> "creating", step |-> "write", context |-> context,
        records |-> [t \in drawn |-> 0]]]
  /\ batch' = [t \in Ids |-> IF t \in drawn THEN [context |-> context, ids |-> drawn] ELSE batch[t]]
  /\ UNCHANGED <<file, manifests, load, published, grants, faults>>

\* The store is opened; while a token in it is live the preparation ends,
\* otherwise new ids are drawn.
PrepareOpen(p, context, drawn) ==
  /\ prep[p].phase = "idle"
  /\ \A t \in drawn : batch[t] = NoManifest
  /\ status' = Recovered
  /\ IF Live # {}
       THEN UNCHANGED <<prep, batch>>
       ELSE /\ prep' = [prep EXCEPT ![p] =
                 [phase |-> "creating", step |-> "write", context |-> context,
                  records |-> [t \in drawn |-> 0]]]
            /\ batch' = [t \in Ids |-> IF t \in drawn THEN [context |-> context, ids |-> drawn] ELSE batch[t]]
  /\ UNCHANGED <<file, manifests, load, published, grants, faults>>

Writing(p, step) ==
  /\ prep[p].phase \in {"creating", "publishing"}
  /\ prep[p].step = step

PublicationState(p) == IF prep[p].phase = "creating" THEN "CREATING" ELSE "AVAILABLE"

Step(p, step) == prep' = [prep EXCEPT ![p].step = step]

Stop(p) == prep' = [prep EXCEPT ![p] = IdlePrep]

Own(p) == Manifest(PublicationState(p), prep[p].context, prep[p].records)

\* The temporary file is created; its name is the same for every preparer, and
\* a file that has it is truncated.
CreateTemporary(p) ==
  /\ Writing(p, "write")
  /\ \/ /\ tmp' = Empty
        /\ open' = [open EXCEPT ![p] = "temporary"]
        /\ Step(p, "fill")
        /\ UNCHANGED faults
     \/ UNCHANGED <<tmp, open>> /\ Stop(p) /\ Fault
  /\ UNCHANGED <<status, file, manifest, synced, load, history>>

\* What p's open file holds; one that has lost both names is at most what a
\* loss of power would show.
Held(p) ==
  IF open[p] = "temporary" THEN tmp ELSE IF open[p] = "manifest" THEN manifest ELSE synced

\* What is left when p has written its manifest: the end of a longer one that
\* another preparer wrote may stay behind it.
Written(p) == {Own(p)} \cup IF Held(p) = Empty THEN {} ELSE {Torn}

\* The write and its sync go to the open file, whatever names another preparer
\* has given it since.
WriteTemporary(p) ==
  /\ Writing(p, "fill")
  /\ \E content \in Written(p) \cup {Held(p), Torn} :
       /\ \/ content \in Written(p) /\ Step(p, "rename") /\ UNCHANGED faults
          \/ Stop(p) /\ Fault
       /\ tmp' = IF open[p] = "temporary" THEN content ELSE tmp
       /\ manifest' = IF open[p] = "manifest" THEN content ELSE manifest
       /\ synced' \in {synced} \cup IF open[p] = "temporary" THEN {} ELSE {content}
  /\ open' = [open EXCEPT ![p] = "none"]
  /\ published' = published \cup Announced(manifest') \cup Announced(synced')
  /\ UNCHANGED <<status, file, load, batch, grants>>

Rename(p) ==
  /\ Writing(p, "rename")
  /\ IF tmp = NoManifest
       THEN Stop(p) /\ UNCHANGED <<manifest, tmp, open, published>>
       ELSE /\ manifest' = tmp
            /\ tmp' = NoManifest
            /\ open' = [r \in Preparers |-> IF open[r] = "temporary" THEN "manifest" ELSE "none"]
            /\ published' = published \cup Announced(tmp)
            /\ Step(p, "sync")
  /\ UNCHANGED <<status, file, synced, load, batch, grants, faults>>

AfterManifest(p) ==
  prep' = [prep EXCEPT ![p] = IF @.phase = "creating" THEN [@ EXCEPT !.phase = "inserting"]
                              ELSE IdlePrep]

\* Mutant of SyncRoot: the directory is not synced.
SyncRootSkipped(p) ==
  /\ Writing(p, "sync")
  /\ AfterManifest(p)
  /\ UNCHANGED <<disk, load, history, faults>>

SyncRoot(p) ==
  /\ Writing(p, "sync")
  /\ \/ synced' = manifest /\ AfterManifest(p) /\ UNCHANGED faults
     \/ UNCHANGED synced /\ Stop(p) /\ Fault
  /\ UNCHANGED <<status, file, tmp, manifest, open, load, history>>

Unrecorded(p) == {t \in DOMAIN prep[p].records : prep[p].records[t] = 0}

\* Mutant of InsertFails: the error is not propagated.
InsertFailsUnseen(p, t) ==
  /\ prep[p].phase = "inserting"
  /\ t \in Unrecorded(p) /\ status[t] = "none"
  /\ prep' = [prep EXCEPT ![p].records[t] = 1]
  /\ Fault
  /\ UNCHANGED <<disk, load, history>>

\* An error of insert leaves the token out of the journal, or in it.
InsertFails(p, t) ==
  /\ prep[p].phase = "inserting"
  /\ t \in Unrecorded(p) /\ status[t] = "none"
  /\ \E committed \in BOOLEAN :
       status' = [status EXCEPT ![t] = IF committed THEN "available" ELSE @]
  /\ file' = [file EXCEPT ![t] = 1]
  /\ Stop(p)
  /\ Fault
  /\ UNCHANGED <<manifests, load, history>>

InsertToken(p, t) ==
  /\ prep[p].phase = "inserting"
  /\ t \in Unrecorded(p) /\ status[t] = "none"
  /\ \A u \in Unrecorded(p) : status[u] = "none"
  /\ status' = [status EXCEPT ![t] = "available"]
  /\ file' = [file EXCEPT ![t] = 1]
  /\ UNCHANGED <<manifests, prep, load, history, faults>>

\* The new token's file is read back for its size and checksum.
RecordToken(p, t) ==
  /\ prep[p].phase = "inserting"
  /\ t \in Unrecorded(p) /\ status[t] # "none"
  /\ \/ prep' = [prep EXCEPT ![p].records[t] = file[t]] /\ UNCHANGED faults
     \/ Stop(p) /\ Fault
  /\ UNCHANGED <<disk, load, history>>

Publish(p) ==
  /\ prep[p].phase = "inserting"
  /\ Unrecorded(p) = {}
  /\ prep' = [prep EXCEPT ![p] = [@ EXCEPT !.phase = "publishing", !.step = "write"]]
  /\ UNCHANGED <<disk, load, history, faults>>

-------------------------------------------------------------------------------
(* a proof run in pre-generated mode *)

\* Mutant of Validate: the manifest's publication state is not looked at.
ValidateUnpublished(l, context, t) ==
  /\ load[l].phase = "idle"
  /\ IsManifest(manifest)
  /\ manifest.context = context
  /\ t \in DOMAIN manifest.records
  /\ load' = [load EXCEPT ![l] =
       [phase |-> "validated", context |-> context, id |-> t, version |-> 1]]
  /\ UNCHANGED <<disk, prep, history, faults>>

\* validate_phase5b_token_context up to the manifest's record of the token; a
\* run that any of its conditions stops has changed nothing.
Validate(l, context, t) ==
  /\ load[l].phase = "idle"
  /\ IsManifest(manifest)
  /\ manifest.context = context
  /\ manifest.state = "AVAILABLE"
  /\ t \in DOMAIN manifest.records
  /\ load' = [load EXCEPT ![l] =
       [phase |-> "validated", context |-> context, id |-> t, version |-> manifest.records[t]]]
  /\ UNCHANGED <<disk, prep, history, faults>>

Leave(l) == load' = [load EXCEPT ![l] = IdleLoad]

Advance(l, phase) == load' = [load EXCEPT ![l].phase = phase]

ReadFile(l) ==
  /\ load[l].phase = "validated"
  /\ IF file[load[l].id] = load[l].version THEN Advance(l, "selected") ELSE Leave(l)
  /\ UNCHANGED <<disk, prep, history, faults>>

OpenStore(l) ==
  /\ load[l].phase = "selected"
  /\ status' = Recovered
  /\ IF status[load[l].id] = "available" THEN Advance(l, "opened") ELSE Leave(l)
  /\ UNCHANGED <<file, manifests, prep, history, faults>>

\* The journal is read again under the lock; its commit comes before the
\* token's file is rewritten, and an error may come between.
Reserve(l) ==
  /\ load[l].phase = "opened"
  /\ LET t == load[l].id
     IN  IF status[t] = "available"
           THEN /\ status' = [status EXCEPT ![t] = "reserved"]
                /\ \/ /\ file' = [file EXCEPT ![t] = @ + 1]
                      /\ Advance(l, "holding")
                      /\ grants' = grants \cup {[id |-> t, context |-> load[l].context]}
                      /\ UNCHANGED faults
                   \/ UNCHANGED <<file, grants>> /\ Leave(l) /\ Fault
           ELSE Leave(l) /\ UNCHANGED <<status, file, grants, faults>>
  /\ UNCHANGED <<manifests, prep, batch, published>>

\* mark_spent, or the guard's burn; refused if another open has burned it.
Settle(l) ==
  /\ load[l].phase = "holding"
  /\ LET t == load[l].id
     IN  IF status[t] = "reserved"
           THEN /\ status' \in {[status EXCEPT ![t] = s] : s \in {"spent", "burned"}}
                /\ file' = [file EXCEPT ![t] = @ + 1]
           ELSE UNCHANGED <<status, file>>
  /\ Leave(l)
  /\ UNCHANGED <<manifests, prep, history, faults>>

-------------------------------------------------------------------------------
(* crashes *)

KillPreparer(p) ==
  /\ prep[p].phase # "idle"
  /\ Stop(p)
  /\ open' = [open EXCEPT ![p] = "none"]
  /\ Fault
  /\ UNCHANGED <<status, file, tmp, manifest, synced, load, history>>

KillLoader(l) ==
  /\ load[l].phase # "idle"
  /\ Leave(l)
  /\ Fault
  /\ UNCHANGED <<disk, prep, history>>

\* A rename whose directory was not synced may be taken back.
PowerLoss ==
  /\ manifest' \in {manifest, synced}
  /\ synced' = manifest'
  /\ tmp' \in {tmp, NoManifest}
  /\ open' = [p \in Preparers |-> "none"]
  /\ prep' = [p \in Preparers |-> IdlePrep]
  /\ load' = [l \in Loaders |-> IdleLoad]
  /\ Fault
  /\ UNCHANGED <<status, file, history>>

PrepareStep(p) ==
  \/ \E context \in Contexts, drawn \in SUBSET Ids :
       Cardinality(drawn) \in BatchSizes /\ PrepareOpen(p, context, drawn)
  \/ CreateTemporary(p)
  \/ WriteTemporary(p)
  \/ Rename(p)
  \/ SyncRoot(p)
  \/ \E t \in Ids : InsertToken(p, t) \/ InsertFails(p, t) \/ RecordToken(p, t)
  \/ Publish(p)

LoadStep(l) ==
  \/ \E context \in Contexts, t \in Ids : Validate(l, context, t)
  \/ ReadFile(l)
  \/ OpenStore(l)
  \/ Reserve(l)
  \/ Settle(l)

Next ==
  \/ \E p \in Preparers : PrepareStep(p) \/ KillPreparer(p)
  \/ \E l \in Loaders : LoadStep(l) \/ KillLoader(l)
  \/ PowerLoss

BatchSpec == Init /\ [][Next]_batchVars

-------------------------------------------------------------------------------
(* Properties *)

\* The comment of prepare_phase5b_tokens: only the final AVAILABLE manifest is
\* accepted online.  A token is reserved only by a run whose context is the one
\* its batch was prepared for, and only after its batch was published, however
\* checks, crashes and later batches interleave: the manifest is checked before
\* the store is opened and not again.
UsedTokensPublished ==
  \A g \in grants : g.id \in published /\ batch[g.id].context = g.context

\* A CREATING manifest quarantines a partially generated batch: whenever a
\* token is live, the manifest of its batch is on disk, also after a loss of
\* power, so no live token is outside the last batch's list.
LiveTokensListed ==
  \A t \in Live : \A m \in {manifest, synced} :
    IsManifest(m) /\ t \in DOMAIN m.records /\ m.context = batch[t].context

\* A published token that was not used yet has the file the manifest knows: no
\* token is published that its loader would find missing or changed.
PublishedTokensLoadable ==
  IsManifest(manifest) =>
    (manifest.state = "AVAILABLE" =>
       \A t \in DOMAIN manifest.records :
         /\ status[t] # "none"
         /\ status[t] = "available" => file[t] = manifest.records[t])

\* token-prepare refuses to append to a store that contains live tokens: live
\* tokens always belong to one batch.
OneLiveBatch == \A t, u \in Live : batch[t] = batch[u]

===============================================================================
