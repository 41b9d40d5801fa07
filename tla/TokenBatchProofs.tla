--------------------------- MODULE TokenBatchProofs ---------------------------
(***************************************************************************)
(* A run never reserves a token outside a batch that was published for the *)
(* run's context, for any number of preparers, runs, errors and crashes.   *)
(* Every manifest on disk, temporary, visible or synced, lists only ids    *)
(* drawn for its context, and an id is drawn once; a run that has passed   *)
(* the manifest's check keeps what it saw, because neither publication nor *)
(* the draw of an id is ever taken back.                                   *)
(***************************************************************************)
EXTENDS TokenBatch, TLAPS

Records == UNION {[S -> Nat] : S \in SUBSET Ids}

PrepRecords ==
  [phase : {"creating", "inserting", "publishing"}, step : {"write", "fill", "rename", "sync"},
   context : Contexts, records : Records]

LoadRecords ==
  [phase : {"validated", "selected", "opened", "holding"}, context : Contexts,
   id : Ids, version : Nat]

Manifests ==
  [state : {"CREATING", "AVAILABLE"}, context : Contexts, records : Records]

\* A kind of type correctness, as far as the steps of the argument need it.
Typed ==
  /\ file \in [Ids -> Nat]
  /\ prep \in [Preparers -> {IdlePrep} \cup PrepRecords]
  /\ load \in [Loaders -> {IdleLoad} \cup LoadRecords]
  /\ tmp \in Manifests \cup {NoManifest, Empty, Torn}
  /\ manifest \in Manifests \cup {NoManifest, Empty, Torn}
  /\ synced \in Manifests \cup {NoManifest, Empty, Torn}
  /\ batch \in [Ids -> {NoManifest} \cup [context : Contexts, ids : SUBSET Ids]]
  /\ published \subseteq Ids
  /\ grants \subseteq [id : Ids, context : Contexts]

\* The id was drawn for a batch of context c.
Drawn(t, c) == batch[t] # NoManifest /\ batch[t].context = c

Lists(records, c) == \A t \in DOMAIN records : Drawn(t, c)

PrepRight == \A p \in Preparers : prep[p] \in PrepRecords => Lists(prep[p].records, prep[p].context)

ManifestRight(m) == IsManifest(m) => Lists(m.records, m.context)

PublishedRight(m) ==
  IsManifest(m) /\ m.state = "AVAILABLE" => DOMAIN m.records \subseteq published

LoadRight ==
  \A l \in Loaders : load[l] \in LoadRecords =>
    load[l].id \in published /\ Drawn(load[l].id, load[l].context)

GrantsRight == \A g \in grants : g.id \in published /\ Drawn(g.id, g.context)

IInv ==
  /\ Typed
  /\ PrepRight
  /\ ManifestRight(tmp) /\ ManifestRight(manifest) /\ ManifestRight(synced)
  /\ PublishedRight(manifest) /\ PublishedRight(synced)
  /\ LoadRight
  /\ GrantsRight

-------------------------------------------------------------------------------

\* What the idle records are not.
LEMMA IdleDistinct == IdlePrep \notin PrepRecords /\ IdleLoad \notin LoadRecords
  BY DEF IdlePrep, IdleLoad, PrepRecords, LoadRecords

\* The invariant holds initially.
LEMMA InitInv == Init => IInv
  <1> SUFFICES ASSUME Init PROVE IInv OBVIOUS
  <1>1. Typed BY DEF Init, Typed
  <1>2. PrepRight /\ LoadRight BY IdleDistinct DEF Init, PrepRight, LoadRight
  <1>3. /\ ManifestRight(tmp) /\ ManifestRight(manifest) /\ ManifestRight(synced)
        /\ PublishedRight(manifest) /\ PublishedRight(synced)
    BY DEF Init, ManifestRight, PublishedRight, IsManifest
  <1>4. GrantsRight BY DEF Init, GrantsRight
  <1> QED BY <1>1, <1>2, <1>3, <1>4 DEF IInv

\* A draw leaves alone what was drawn before, and nothing is listed before.
LEMMA DrawKeeps ==
  ASSUME NEW p \in Preparers, NEW context \in Contexts, NEW drawn \in SUBSET Ids,
         Typed, PrepareOpen(p, context, drawn),
         NEW t \in Ids, NEW c, Drawn(t, c)
  PROVE  Drawn(t, c)'
  BY NoBatchAssumption DEF PrepareOpen, Typed, Drawn

\* Opening, drawing and the live check of token-prepare.
LEMMA PrepareOpenInv ==
  ASSUME IInv, NEW p \in Preparers, NEW context \in Contexts, NEW drawn \in SUBSET Ids,
         PrepareOpen(p, context, drawn)
  PROVE  IInv'
  <1> USE DEF IInv
  <1>0. Typed OBVIOUS
  <1>a. \A t \in Ids : \A c : Drawn(t, c) => Drawn(t, c)' BY <1>0, DrawKeeps
  <1>b. UNCHANGED <<file, tmp, manifest, synced, load, published, grants>>
    BY DEF PrepareOpen, manifests
  <1>c. CASE Live # {}
    <2>1. UNCHANGED <<prep, batch>> BY <1>c DEF PrepareOpen
    <2> QED BY <2>1, <1>b DEF Typed, PrepRight, ManifestRight, PublishedRight, LoadRight,
              GrantsRight, Lists, Drawn
  <1>d. CASE Live = {}
    <2> DEFINE new == [phase |-> "creating", step |-> "write", context |-> context,
                       records |-> [t \in drawn |-> 0]]
    <2>1. prep' = [prep EXCEPT ![p] = new] BY <1>d DEF PrepareOpen
    <2>2. batch' = [t \in Ids |-> IF t \in drawn THEN [context |-> context, ids |-> drawn] ELSE batch[t]]
      BY <1>d DEF PrepareOpen
    <2>3. new \in PrepRecords
      <3>1. [t \in drawn |-> 0] \in Records BY DEF Records
      <3> QED BY <3>1 DEF PrepRecords
    <2>4. Typed'
      <3>1. batch' \in [Ids -> {NoManifest} \cup [context : Contexts, ids : SUBSET Ids]]
        BY <2>2 DEF Typed
      <3>2. prep' \in [Preparers -> {IdlePrep} \cup PrepRecords] BY <2>1, <2>3 DEF Typed
      <3> QED BY <3>1, <3>2, <1>b DEF Typed
    <2>5. PrepRight'
      <3> SUFFICES ASSUME NEW r \in Preparers, prep'[r] \in PrepRecords,
                          NEW t \in DOMAIN prep'[r].records
                   PROVE  Drawn(t, prep[r].context)'
        BY DEF PrepRight, Lists
      <3>1. CASE r = p
        <4>1. prep'[r] = new BY <3>1, <2>1 DEF Typed
        <4>2. t \in drawn /\ prep'[r].context = context BY <4>1
        <4> QED BY <4>2, <2>2, NoBatchAssumption DEF Drawn
      <3>2. CASE r # p
        <4>1. prep'[r] = prep[r] BY <3>2, <2>1 DEF Typed
        <4>2. Drawn(t, prep[r].context) BY <4>1 DEF PrepRight, Lists
        <4>3. t \in Ids BY <4>1 DEF PrepRecords, Records
        <4> QED BY <4>1, <4>2, <4>3, <1>a
      <3> QED BY <3>1, <3>2
    <2>6. ASSUME NEW m \in Manifests \cup {NoManifest, Empty, Torn}, ManifestRight(m)
          PROVE  IsManifest(m) => Lists(m.records, m.context)'
      BY <2>6, <1>a DEF ManifestRight, Lists, IsManifest, Manifests, Records
    <2>7. ManifestRight(tmp)' /\ ManifestRight(manifest)' /\ ManifestRight(synced)'
      BY <2>6, <1>b DEF ManifestRight, Typed, Lists
    <2>8. LoadRight'
      BY <1>a, <1>b DEF LoadRight, LoadRecords
    <2>9. GrantsRight'
      BY <1>a, <1>b DEF GrantsRight, Typed
    <2> QED BY <2>4, <2>5, <2>7, <2>8, <2>9, <1>b DEF PublishedRight
  <1> QED BY <1>c, <1>d

\* A preparation that goes on keeps its context and its ids.
LEMMA PrepGoesOn ==
  ASSUME IInv, NEW p \in Preparers, NEW new, batch' = batch,
         prep' = [prep EXCEPT ![p] = new],
         \/ new = IdlePrep
         \/ /\ new \in PrepRecords /\ prep[p] \in PrepRecords
            /\ DOMAIN new.records = DOMAIN prep[p].records
            /\ new.context = prep[p].context
  PROVE  prep' \in [Preparers -> {IdlePrep} \cup PrepRecords] /\ PrepRight'
  <1>1. prep \in [Preparers -> {IdlePrep} \cup PrepRecords] /\ PrepRight BY DEF IInv, Typed
  <1>2. prep' \in [Preparers -> {IdlePrep} \cup PrepRecords] BY <1>1
  <1>3. PrepRight'
    <2> SUFFICES ASSUME NEW r \in Preparers, prep'[r] \in PrepRecords,
                        NEW t \in DOMAIN prep'[r].records
                 PROVE  Drawn(t, prep[r].context)'
      BY DEF PrepRight, Lists
    <2>1. prep[r] \in PrepRecords /\ t \in DOMAIN prep[r].records /\ prep'[r].context = prep[r].context
      BY <1>1, IdleDistinct
    <2>2. Drawn(t, prep[r].context) BY <2>1, <1>1 DEF PrepRight, Lists
    <2> QED BY <2>1, <2>2 DEF Drawn
  <1> QED BY <1>2, <1>3

\* A run that goes on has, or has just seen, a published id of its context.
LEMMA LoadGoesOn ==
  ASSUME IInv, NEW l \in Loaders, NEW new, batch' = batch, published \subseteq published',
         load' = [load EXCEPT ![l] = new],
         new = IdleLoad \/ (new \in LoadRecords /\ new.id \in published /\ Drawn(new.id, new.context))
  PROVE  load' \in [Loaders -> {IdleLoad} \cup LoadRecords] /\ LoadRight'
  <1>1. load \in [Loaders -> {IdleLoad} \cup LoadRecords] /\ LoadRight BY DEF IInv, Typed
  <1>2. load' \in [Loaders -> {IdleLoad} \cup LoadRecords] BY <1>1
  <1>3. LoadRight' BY <1>1, IdleDistinct DEF LoadRight, Drawn
  <1> QED BY <1>2, <1>3

\* The parts that do not name what changed.
LEMMA SameLoads ==
  ASSUME IInv, batch' = batch, published \subseteq published', load' = load, grants' = grants
  PROVE  LoadRight' /\ GrantsRight'
  BY DEF IInv, LoadRight, GrantsRight, Drawn

\* The same for the manifests.
LEMMA SameManifests ==
  ASSUME IInv, UNCHANGED <<batch, tmp, manifest, synced, published>>
  PROVE  /\ ManifestRight(tmp)' /\ ManifestRight(manifest)' /\ ManifestRight(synced)'
         /\ PublishedRight(manifest)' /\ PublishedRight(synced)'
  BY DEF IInv, ManifestRight, PublishedRight, Lists, Drawn

\* The file is created empty.
LEMMA CreateTemporaryInv ==
  ASSUME IInv, NEW p \in Preparers, CreateTemporary(p)
  PROVE  IInv'
  <1>1. UNCHANGED <<status, file, manifest, synced, load, batch, published, grants>>
    BY DEF CreateTemporary, history
  <1>2. prep[p] \in PrepRecords BY DEF IInv, CreateTemporary, Writing, Typed, IdlePrep
  <1>3. tmp' \in {tmp, Empty} BY DEF CreateTemporary
  <1>4. PICK new : /\ prep' = [prep EXCEPT ![p] = new]
                   /\ new \in {IdlePrep, [prep[p] EXCEPT !.step = "fill"]}
    BY DEF CreateTemporary, Step, Stop
  <1>5. \/ new = IdlePrep
        \/ new \in PrepRecords /\ new.records = prep[p].records /\ new.context = prep[p].context
    BY <1>2, <1>4 DEF PrepRecords
  <1>6. prep' \in [Preparers -> {IdlePrep} \cup PrepRecords] /\ PrepRight'
    BY <1>4, <1>5, <1>1, <1>2, PrepGoesOn
  <1>7. /\ ManifestRight(tmp)' /\ ManifestRight(manifest)' /\ ManifestRight(synced)'
        /\ PublishedRight(manifest)' /\ PublishedRight(synced)'
    BY <1>1, <1>3 DEF IInv, ManifestRight, PublishedRight, IsManifest, Lists, Drawn
  <1> QED BY <1>1, <1>3, <1>6, <1>7, SameLoads DEF IInv, Typed

\* What a write may put into a file: what it is to hold, or what it held, or
\* nothing a reader accepts.
Outcomes(p) == {Own(p), tmp, manifest, synced, Torn}

\* Where a write goes.
LEMMA WriteGoes ==
  ASSUME NEW p \in Preparers, WriteTemporary(p)
  PROVE  tmp' \in Outcomes(p) /\ manifest' \in Outcomes(p) /\ synced' \in Outcomes(p)
  <1>1. PICK content \in Written(p) \cup {Held(p), Torn} :
          /\ tmp' \in {tmp, content} /\ manifest' \in {manifest, content}
          /\ synced' \in {synced, content}
    BY DEF WriteTemporary
  <1>2. content \in Outcomes(p) BY DEF Written, Held, Outcomes
  <1> QED BY <1>1, <1>2 DEF Outcomes

\* The manifest a preparation writes is one of its context and ids.
LEMMA OwnRight ==
  ASSUME IInv, NEW p \in Preparers, prep[p] \in PrepRecords
  PROVE  Own(p) \in Manifests /\ ManifestRight(Own(p))
  BY DEF IInv, PrepRight, Own, Manifest, Manifests, PublicationState, PrepRecords, ManifestRight, Lists

\* A write puts the preparation's own context and ids into the open file, and
\* what a reader may see of it is published.
LEMMA WriteTemporaryInv ==
  ASSUME IInv, NEW p \in Preparers, WriteTemporary(p)
  PROVE  IInv'
  <1>1. UNCHANGED <<status, file, load, batch, grants>> BY DEF WriteTemporary
  <1>2. prep[p] \in PrepRecords BY DEF IInv, WriteTemporary, Writing, Typed, IdlePrep
  <1>3. ASSUME NEW m \in Outcomes(p)
        PROVE  /\ m \in Manifests \cup {NoManifest, Empty, Torn}
               /\ IsManifest(m) => Lists(m.records, m.context)'
    <2>1. m \in Manifests \cup {NoManifest, Empty, Torn}
      BY <1>2, OwnRight DEF IInv, Typed, Outcomes
    <2>2. ManifestRight(m) BY <1>2, OwnRight DEF IInv, Outcomes, ManifestRight, IsManifest
    <2> QED BY <2>1, <2>2, <1>1 DEF ManifestRight, Lists, Drawn
  <1>4. ManifestRight(tmp)' /\ ManifestRight(manifest)' /\ ManifestRight(synced)'
    BY <1>3, WriteGoes DEF ManifestRight, Lists, Drawn
  <1>5. /\ tmp' \in Manifests \cup {NoManifest, Empty, Torn}
        /\ manifest' \in Manifests \cup {NoManifest, Empty, Torn}
        /\ synced' \in Manifests \cup {NoManifest, Empty, Torn}
    BY <1>3, WriteGoes
  <1>6. published' = published \cup Announced(manifest') \cup Announced(synced')
    BY DEF WriteTemporary
  <1>7. published \subseteq published' /\ published' \subseteq Ids
    BY <1>6 DEF Announced, IInv, Typed
  <1>8. ASSUME NEW m \in Manifests \cup {NoManifest, Empty, Torn}, IsManifest(m), m.state = "AVAILABLE"
        PROVE  DOMAIN m.records \subseteq Announced(m)
    BY <1>8 DEF Announced, IsManifest, Manifests, Records
  <1>9. PublishedRight(manifest)' /\ PublishedRight(synced)'
    BY <1>5, <1>6, <1>8 DEF PublishedRight, IsManifest
  <1>10. prep' \in [Preparers -> {IdlePrep} \cup PrepRecords] /\ PrepRight'
    <2>1. PICK new : /\ prep' = [prep EXCEPT ![p] = new]
                     /\ new \in {IdlePrep, [prep[p] EXCEPT !.step = "rename"]}
      BY DEF WriteTemporary, Step, Stop
    <2>2. \/ new = IdlePrep
          \/ new \in PrepRecords /\ new.records = prep[p].records /\ new.context = prep[p].context
      BY <1>2, <2>1 DEF PrepRecords
    <2> QED BY <2>1, <2>2, <1>1, <1>2, PrepGoesOn
  <1>11. LoadRight' /\ GrantsRight' BY <1>1, <1>7, SameLoads
  <1> QED BY <1>1, <1>4, <1>5, <1>7, <1>9, <1>10, <1>11 DEF IInv, Typed

\* The rename shows what the temporary file holds, and records a publication.
LEMMA RenameInv ==
  ASSUME IInv, NEW p \in Preparers, Rename(p)
  PROVE  IInv'
  <1>1. UNCHANGED <<status, file, synced, load, batch, grants>> BY DEF Rename
  <1>2. prep[p] \in PrepRecords BY DEF IInv, Rename, Writing, Typed, IdlePrep
  <1>3. CASE tmp = NoManifest
    <2>1. Stop(p) /\ UNCHANGED <<manifest, tmp, published>> BY <1>3 DEF Rename
    <2>2. prep' \in [Preparers -> {IdlePrep} \cup PrepRecords] /\ PrepRight'
      BY <2>1, <1>1, PrepGoesOn DEF Stop
    <2> QED BY <2>1, <2>2, <1>1, SameLoads, SameManifests DEF IInv, Typed
  <1>4. CASE tmp # NoManifest
    <2>1. /\ manifest' = tmp /\ tmp' = NoManifest /\ Step(p, "sync")
          /\ published' = published \cup Announced(tmp)
      BY <1>4 DEF Rename
    <2>2. published \subseteq published' /\ published' \subseteq Ids
      BY <2>1 DEF IInv, Typed, Announced
    <2>3. prep' \in [Preparers -> {IdlePrep} \cup PrepRecords] /\ PrepRight'
      <3> DEFINE new == [prep[p] EXCEPT !.step = "sync"]
      <3>1. prep' = [prep EXCEPT ![p] = new] BY <2>1 DEF Step
      <3>2. new \in PrepRecords /\ new.records = prep[p].records /\ new.context = prep[p].context
        BY <1>2 DEF PrepRecords
      <3> HIDE DEF new
      <3> QED BY <3>1, <3>2, <1>1, <1>2, PrepGoesOn
    <2>4. ManifestRight(tmp)' /\ ManifestRight(manifest)' /\ ManifestRight(synced)'
      BY <2>1, <1>1 DEF IInv, ManifestRight, IsManifest, Lists, Drawn
    <2>5. PublishedRight(manifest)'
      BY <2>1 DEF IInv, Typed, PublishedRight, Announced, IsManifest, Manifests, Records
    <2>6. PublishedRight(synced)' BY <2>2, <1>1 DEF IInv, PublishedRight
    <2>7. LoadRight' /\ GrantsRight' BY <2>2, <1>1, SameLoads
    <2> QED BY <2>1, <2>2, <2>3, <2>4, <2>5, <2>6, <2>7, <1>1 DEF IInv, Typed
  <1> QED BY <1>3, <1>4

\* The synced manifest is the visible one.
LEMMA SyncRootInv ==
  ASSUME IInv, NEW p \in Preparers, SyncRoot(p)
  PROVE  IInv'
  <1>1. UNCHANGED <<status, file, tmp, manifest, load, batch, published, grants>>
    BY DEF SyncRoot, history
  <1>2. prep[p] \in PrepRecords BY DEF IInv, SyncRoot, Writing, Typed, IdlePrep
  <1>3. synced' \in {manifest, synced} BY DEF SyncRoot
  <1>4. PICK new : /\ prep' = [prep EXCEPT ![p] = new]
                   /\ new \in {IdlePrep, [prep[p] EXCEPT !.phase = "inserting"]}
    <2>1. CASE AfterManifest(p) BY <2>1 DEF AfterManifest
    <2>2. CASE Stop(p) BY <2>2 DEF Stop
    <2> QED BY <2>1, <2>2 DEF SyncRoot
  <1>5. \/ new = IdlePrep
        \/ new \in PrepRecords /\ new.records = prep[p].records /\ new.context = prep[p].context
    BY <1>2, <1>4 DEF PrepRecords
  <1>6. prep' \in [Preparers -> {IdlePrep} \cup PrepRecords] /\ PrepRight'
    BY <1>4, <1>5, <1>1, <1>2, PrepGoesOn
  <1>7. /\ ManifestRight(tmp)' /\ ManifestRight(manifest)' /\ ManifestRight(synced)'
        /\ PublishedRight(manifest)' /\ PublishedRight(synced)'
    BY <1>1, <1>3 DEF IInv, ManifestRight, PublishedRight, Lists, Drawn
  <1> QED BY <1>1, <1>3, <1>6, <1>7, SameLoads DEF IInv, Typed

\* Inserting and recording keep a preparation's ids.
LEMMA InsertingInv ==
  ASSUME IInv, NEW p \in Preparers, NEW t \in Ids,
         InsertToken(p, t) \/ InsertFails(p, t) \/ RecordToken(p, t)
  PROVE  IInv'
  <1>1. UNCHANGED <<tmp, manifest, synced, load, batch, published, grants>>
    BY DEF InsertToken, InsertFails, RecordToken, history, disk, manifests
  <1>2. prep[p] \in PrepRecords
    BY DEF IInv, InsertToken, InsertFails, RecordToken, Typed, IdlePrep
  <1>3. file' \in [Ids -> Nat]
    BY DEF IInv, Typed, InsertToken, InsertFails, RecordToken, disk, manifests
  <1>4. PICK new : /\ prep' = [prep EXCEPT ![p] = new]
                   /\ new \in {IdlePrep, prep[p], [prep[p] EXCEPT !.records = [@ EXCEPT ![t] = file[t]]]}
    <2>1. CASE InsertToken(p, t) BY <2>1 DEF InsertToken, IInv, Typed
    <2>2. CASE InsertFails(p, t) BY <2>2 DEF InsertFails, Stop
    <2>3. CASE RecordToken(p, t) BY <2>3 DEF RecordToken, Stop
    <2> QED BY <2>1, <2>2, <2>3
  <1>5. [prep[p].records EXCEPT ![t] = file[t]] \in Records
        /\ DOMAIN [prep[p].records EXCEPT ![t] = file[t]] = DOMAIN prep[p].records
    <2>1. PICK S \in SUBSET Ids : prep[p].records \in [S -> Nat]
      BY <1>2 DEF PrepRecords, Records
    <2>2. file[t] \in Nat BY DEF IInv, Typed
    <2>3. [prep[p].records EXCEPT ![t] = file[t]] \in [S -> Nat] BY <2>1, <2>2
    <2> QED BY <2>1, <2>3 DEF Records
  <1>6. \/ new = IdlePrep
        \/ /\ new \in PrepRecords /\ DOMAIN new.records = DOMAIN prep[p].records
           /\ new.context = prep[p].context
    BY <1>2, <1>4, <1>5 DEF PrepRecords
  <1>7. prep' \in [Preparers -> {IdlePrep} \cup PrepRecords] /\ PrepRight'
    BY <1>4, <1>6, <1>1, <1>2, PrepGoesOn
  <1> QED BY <1>1, <1>3, <1>7, SameLoads, SameManifests DEF IInv, Typed

\* So do publishing and dying.
LEMMA PublishInv ==
  ASSUME IInv, NEW p \in Preparers, Publish(p) \/ KillPreparer(p)
  PROVE  IInv'
  <1>1. UNCHANGED <<status, file, tmp, manifest, synced, load, batch, published, grants>>
    BY DEF Publish, KillPreparer, history, disk, manifests
  <1>2. prep[p] \in PrepRecords BY DEF IInv, Publish, KillPreparer, Typed, IdlePrep
  <1>3. PICK new : /\ prep' = [prep EXCEPT ![p] = new]
                   /\ new \in {IdlePrep, [prep[p] EXCEPT !.phase = "publishing", !.step = "write"]}
    BY DEF Publish, KillPreparer, Stop
  <1>4. \/ new = IdlePrep
        \/ /\ new \in PrepRecords /\ new.records = prep[p].records
           /\ new.context = prep[p].context
    BY <1>2, <1>3 DEF PrepRecords
  <1>5. prep' \in [Preparers -> {IdlePrep} \cup PrepRecords] /\ PrepRight'
    BY <1>3, <1>4, <1>1, <1>2, PrepGoesOn
  <1> QED BY <1>1, <1>5, SameLoads, SameManifests DEF IInv, Typed

\* What a run reads in an AVAILABLE manifest is published, for its context.
LEMMA ValidateInv ==
  ASSUME IInv, NEW l \in Loaders, NEW context \in Contexts, NEW t \in Ids,
         Validate(l, context, t)
  PROVE  IInv'
  <1>1. UNCHANGED <<status, file, tmp, manifest, synced, prep, batch, published, grants>>
    BY DEF Validate, disk, manifests, history
  <1> DEFINE new == [phase |-> "validated", context |-> context, id |-> t, version |-> manifest.records[t]]
  <1>2. load' = [load EXCEPT ![l] = new] BY DEF Validate
  <1>3. manifest \in Manifests /\ t \in DOMAIN manifest.records /\ manifest.context = context
        /\ manifest.state = "AVAILABLE" /\ IsManifest(manifest)
    BY DEF Validate, IInv, Typed, IsManifest
  <1>4. t \in published /\ Drawn(t, context)
    BY <1>3 DEF IInv, PublishedRight, ManifestRight, Lists
  <1>5. manifest.records[t] \in Nat BY <1>3 DEF Manifests, Records
  <1>6. new \in LoadRecords /\ new.id = t /\ new.context = context BY <1>5 DEF LoadRecords
  <1> HIDE DEF new
  <1>7. load' \in [Loaders -> {IdleLoad} \cup LoadRecords] /\ LoadRight'
    BY <1>1, <1>2, <1>4, <1>6, LoadGoesOn
  <1>8. PrepRight' /\ GrantsRight' BY <1>1 DEF IInv, PrepRight, GrantsRight, Lists, Drawn
  <1> QED BY <1>1, <1>7, <1>8, SameManifests DEF IInv, Typed

\* A run that goes on keeps the id and the context it has validated; a grant
\* is given for these.
LEMMA LoadingInv ==
  ASSUME IInv, NEW l \in Loaders,
         ReadFile(l) \/ OpenStore(l) \/ Reserve(l) \/ Settle(l) \/ KillLoader(l)
  PROVE  IInv'
  <1>1. UNCHANGED <<tmp, manifest, synced, prep, batch, published>>
    BY DEF ReadFile, OpenStore, Reserve, Settle, KillLoader, disk, manifests, history
  <1>2. load[l] \in LoadRecords
    BY DEF IInv, ReadFile, OpenStore, Reserve, Settle, KillLoader, Typed, IdleLoad
  <1>3. load[l].id \in published /\ Drawn(load[l].id, load[l].context) /\ load[l].id \in Ids
        /\ load[l].context \in Contexts
    BY <1>2 DEF IInv, LoadRight, LoadRecords
  <1>4. PICK new : /\ load' = [load EXCEPT ![l] = new]
                   /\ \/ new = IdleLoad
                      \/ \E phase \in {"selected", "opened", "holding"} :
                           new = [load[l] EXCEPT !.phase = phase]
    <2>1. CASE ReadFile(l) BY <2>1 DEF ReadFile, Advance, Leave
    <2>2. CASE OpenStore(l) BY <2>2 DEF OpenStore, Advance, Leave
    <2>3. CASE Reserve(l) BY <2>3 DEF Reserve, Advance, Leave
    <2>4. CASE Settle(l) BY <2>4 DEF Settle, Leave
    <2>5. CASE KillLoader(l) BY <2>5 DEF KillLoader, Leave
    <2> QED BY <2>1, <2>2, <2>3, <2>4, <2>5
  <1>5. new = IdleLoad \/ (new \in LoadRecords /\ new.id = load[l].id /\ new.context = load[l].context)
    BY <1>2, <1>4 DEF LoadRecords
  <1>6. load' \in [Loaders -> {IdleLoad} \cup LoadRecords] /\ LoadRight'
    BY <1>1, <1>3, <1>4, <1>5, LoadGoesOn
  <1>7. file' \in [Ids -> Nat]
    BY <1>3 DEF IInv, Typed, ReadFile, OpenStore, Reserve, Settle, KillLoader, disk, manifests
  <1>8. grants' \in {grants, grants \cup {[id |-> load[l].id, context |-> load[l].context]}}
    BY DEF ReadFile, OpenStore, Reserve, Settle, KillLoader, history
  <1>9. GrantsRight' /\ grants' \subseteq [id : Ids, context : Contexts]
    BY <1>1, <1>3, <1>8 DEF IInv, Typed, GrantsRight, Drawn
  <1>10. PrepRight' BY <1>1 DEF IInv, PrepRight, Lists, Drawn
  <1> QED BY <1>1, <1>6, <1>7, <1>9, <1>10, SameManifests DEF IInv, Typed

\* A loss of power shows an older manifest and ends every process.
LEMMA PowerLossInv ==
  ASSUME IInv, PowerLoss
  PROVE  IInv'
  <1>1. UNCHANGED <<status, file, batch, published, grants>> BY DEF PowerLoss, history
  <1>2. /\ manifest' \in {manifest, synced} /\ synced' \in {manifest, synced}
        /\ tmp' \in {tmp, NoManifest}
        /\ prep' = [p \in Preparers |-> IdlePrep]
        /\ load' = [l \in Loaders |-> IdleLoad]
    BY DEF PowerLoss
  <1>3. PrepRight' /\ LoadRight' BY <1>2, IdleDistinct DEF PrepRight, LoadRight
  <1>4. /\ ManifestRight(tmp)' /\ ManifestRight(manifest)' /\ ManifestRight(synced)'
        /\ PublishedRight(manifest)' /\ PublishedRight(synced)'
    BY <1>1, <1>2 DEF IInv, ManifestRight, PublishedRight, IsManifest, Lists, Drawn
  <1>5. GrantsRight' BY <1>1 DEF IInv, GrantsRight, Drawn
  <1> QED BY <1>1, <1>2, <1>3, <1>4, <1>5 DEF IInv, Typed

\* Every step keeps the invariant.
LEMMA NextInv == IInv /\ [Next]_batchVars => IInv'
  <1> SUFFICES ASSUME IInv, [Next]_batchVars PROVE IInv' OBVIOUS
  <1>1. ASSUME NEW p \in Preparers, PrepareStep(p) PROVE IInv'
    BY <1>1, PrepareOpenInv, CreateTemporaryInv, WriteTemporaryInv, RenameInv, SyncRootInv,
       InsertingInv, PublishInv
       DEF PrepareStep
  <1>2. ASSUME NEW l \in Loaders, LoadStep(l) PROVE IInv'
    BY <1>2, ValidateInv, LoadingInv DEF LoadStep
  <1>3. ASSUME NEW p \in Preparers, KillPreparer(p) PROVE IInv' BY <1>3, PublishInv
  <1>4. ASSUME NEW l \in Loaders, KillLoader(l) PROVE IInv' BY <1>4, LoadingInv
  <1>5. CASE UNCHANGED batchVars
    BY <1>5 DEF batchVars, disk, manifests, history, IInv, Typed, PrepRight, ManifestRight, PublishedRight, LoadRight,
       GrantsRight, Lists, Drawn
  <1> QED BY <1>1, <1>2, <1>3, <1>4, <1>5, PowerLossInv DEF Next

\* The whole invariant holds for every set of ids, preparers and runs.
THEOREM BatchInvariant == BatchSpec => []IInv
  BY InitInv, NextInv, PTL DEF BatchSpec

\* UsedTokensPublished, the comment of prepare_phase5b_tokens about quarantined
\* batches, for any number of preparations and runs at once.
THEOREM UsedTokensPublishedHolds == BatchSpec => []UsedTokensPublished
  <1>1. IInv => UsedTokensPublished BY DEF IInv, GrantsRight, UsedTokensPublished, Drawn
  <1> QED BY <1>1, BatchInvariant, PTL

-------------------------------------------------------------------------------
(* What the manifest of a batch promises of the tokens that are live.      *)
(*                                                                         *)
(* A published token that was not used has the file the manifest knows,    *)
(* for any number of preparers: a record is taken of the token's file when *)
(* the token is in the journal, and from then on its file changes only     *)
(* with its status.                                                        *)
(*                                                                         *)
(* That live tokens belong to one batch, which the manifest lists, holds   *)
(* while one preparer runs at a time (OnePreparer): token-prepare looks    *)
(* for live tokens before it draws its own, in two steps that another      *)
(* preparer can come between.                                              *)

-------------------------------------------------------------------------------
(* Published tokens are loadable. *)

StatusTyped == status \in [Ids -> States]

\* The token is in the journal and, as long as it is unused, its file is v.
Recorded(t, v) == status[t] # "none" /\ (status[t] = "available" => file[t] = v)

Loadable(m) ==
  IsManifest(m) /\ m.state = "AVAILABLE" =>
    \A t \in DOMAIN m.records : Recorded(t, m.records[t])

\* A preparation's records that are filled in are right, and all of them are
\* when it publishes.
RecordsRight(rec) ==
  rec \in PrepRecords =>
    /\ \A t \in DOMAIN rec.records : rec.records[t] # 0 => Recorded(t, rec.records[t])
    /\ rec.phase = "publishing" => \A t \in DOMAIN rec.records : rec.records[t] # 0

LInv ==
  /\ StatusTyped
  /\ Loadable(tmp) /\ Loadable(manifest) /\ Loadable(synced)
  /\ \A p \in Preparers : RecordsRight(prep[p])

\* A step leaves what is recorded of a token true: a token enters the journal
\* once, and its file is rewritten only when it is no longer available.
LEMMA RecordedStays ==
  ASSUME IInv, StatusTyped, [Next]_batchVars
  PROVE  /\ StatusTyped'
         /\ \A t \in Ids : \A v : Recorded(t, v) => Recorded(t, v)'
  <1> USE DEF StatusTyped, Recorded
  <1>a. file \in [Ids -> Nat] BY DEF IInv, Typed
  <1>1. ASSUME NEW p \in Preparers, NEW context, NEW drawn, PrepareOpen(p, context, drawn)
        PROVE  /\ StatusTyped' /\ \A t \in Ids : \A v : Recorded(t, v) => Recorded(t, v)'
    BY <1>1 DEF PrepareOpen, Recovered, States
  <1>2. ASSUME NEW p \in Preparers, CreateTemporary(p) \/ WriteTemporary(p) \/ Rename(p) \/ SyncRoot(p)
               \/ Publish(p) \/ KillPreparer(p)
        PROVE  UNCHANGED <<status, file>>
    BY <1>2 DEF CreateTemporary, WriteTemporary, Rename, SyncRoot, Publish, KillPreparer, disk, manifests
  <1>3. ASSUME NEW p \in Preparers, NEW t \in Ids, InsertToken(p, t) \/ InsertFails(p, t) \/ RecordToken(p, t)
        PROVE  /\ StatusTyped' /\ \A u \in Ids : \A v : Recorded(u, v) => Recorded(u, v)'
    BY <1>3, <1>a DEF InsertToken, InsertFails, RecordToken, disk, manifests, States
  <1>4. ASSUME NEW l \in Loaders, NEW context, NEW t, Validate(l, context, t)
        PROVE  UNCHANGED <<status, file>>
    BY <1>4 DEF Validate, disk, manifests
  <1>5. ASSUME NEW l \in Loaders, ReadFile(l) \/ KillLoader(l)
        PROVE  UNCHANGED <<status, file>>
    BY <1>5 DEF ReadFile, KillLoader, disk, manifests
  <1>6. ASSUME NEW l \in Loaders, OpenStore(l)
        PROVE  /\ StatusTyped' /\ \A t \in Ids : \A v : Recorded(t, v) => Recorded(t, v)'
    BY <1>6 DEF OpenStore, Recovered, States
  <1>7. ASSUME NEW l \in Loaders, Reserve(l)
        PROVE  /\ StatusTyped' /\ \A t \in Ids : \A v : Recorded(t, v) => Recorded(t, v)'
    <2>1. \/ UNCHANGED <<status, file>>
          \/ /\ status' = [status EXCEPT ![load[l].id] = "reserved"]
             /\ file' \in {file, [file EXCEPT ![load[l].id] = @ + 1]}
      BY <1>7 DEF Reserve
    <2> QED BY <2>1, <1>a DEF States
  <1>8. ASSUME NEW l \in Loaders, Settle(l)
        PROVE  /\ StatusTyped' /\ \A t \in Ids : \A v : Recorded(t, v) => Recorded(t, v)'
    <2>1. \/ UNCHANGED <<status, file>>
          \/ /\ status' \in {[status EXCEPT ![load[l].id] = s] : s \in {"spent", "burned"}}
             /\ file' = [file EXCEPT ![load[l].id] = @ + 1]
      BY <1>8 DEF Settle
    <2> QED BY <2>1, <1>a DEF States
  <1>9. CASE PowerLoss \/ UNCHANGED batchVars
    BY <1>9 DEF PowerLoss, batchVars, disk
  <1> QED BY <1>1, <1>2, <1>3, <1>4, <1>5, <1>6, <1>7, <1>8, <1>9
      DEF Next, PrepareStep, LoadStep

\* What a step does to one preparation.
LEMMA PrepMoves ==
  ASSUME IInv, [Next]_batchVars, NEW r \in Preparers
  PROVE  \/ prep'[r] \in {prep[r], IdlePrep}
         \/ /\ prep'[r].phase = "creating"
            /\ \E S \in SUBSET Ids : prep'[r].records = [t \in S |-> 0]
         \/ /\ prep[r] \in PrepRecords
            /\ prep'[r].records = prep[r].records
            /\ prep'[r].phase = "publishing" => prep[r].phase = "publishing" \/ Unrecorded(r) = {}
         \/ /\ prep[r] \in PrepRecords /\ prep[r].phase = "inserting"
            /\ \E t \in DOMAIN prep[r].records :
                 /\ status[t] # "none"
                 /\ prep'[r] = [prep[r] EXCEPT !.records[t] = file[t]]
  <1> DEFINE Goal ==
         \/ prep'[r] \in {prep[r], IdlePrep}
         \/ /\ prep'[r].phase = "creating"
            /\ \E S \in SUBSET Ids : prep'[r].records = [t \in S |-> 0]
         \/ /\ prep[r] \in PrepRecords
            /\ prep'[r].records = prep[r].records
            /\ prep'[r].phase = "publishing" => prep[r].phase = "publishing" \/ Unrecorded(r) = {}
         \/ /\ prep[r] \in PrepRecords /\ prep[r].phase = "inserting"
            /\ \E t \in DOMAIN prep[r].records :
                 /\ status[t] # "none"
                 /\ prep'[r] = [prep[r] EXCEPT !.records[t] = file[t]]
  <1>a. prep \in [Preparers -> {IdlePrep} \cup PrepRecords] BY DEF IInv, Typed
  <1>b. ASSUME prep[r].phase # "idle" PROVE prep[r] \in PrepRecords BY <1>a, <1>b DEF IdlePrep
  <1>1. ASSUME NEW p \in Preparers, NEW context \in Contexts, NEW drawn \in SUBSET Ids, PrepareOpen(p, context, drawn)
        PROVE  Goal
    BY <1>1, <1>a DEF PrepareOpen
  <1>2. ASSUME NEW p \in Preparers, CreateTemporary(p) \/ WriteTemporary(p) \/ Rename(p) \/ SyncRoot(p)
               \/ KillPreparer(p)
        PROVE  Goal
    <2>1. CASE p # r
      <3>1. prep'[r] = prep[r]
        BY <1>2, <2>1, <1>a DEF CreateTemporary, WriteTemporary, Rename, SyncRoot, KillPreparer, Step, Stop,
               AfterManifest
      <3> QED BY <3>1
    <2>2. CASE p = r
      <3>1. prep[r] \in PrepRecords
        BY <1>2, <2>2, <1>b DEF CreateTemporary, WriteTemporary, Rename, SyncRoot, KillPreparer, Writing
      <3>2. \/ prep'[r] = IdlePrep
            \/ /\ prep'[r].records = prep[r].records
               /\ prep'[r].phase \in {prep[r].phase, "inserting"}
        BY <1>2, <2>2, <3>1, <1>a
           DEF CreateTemporary, WriteTemporary, Rename, SyncRoot, KillPreparer, Step, Stop,
               AfterManifest, PrepRecords
      <3> QED BY <3>1, <3>2
    <2> QED BY <2>1, <2>2
  <1>3. ASSUME NEW p \in Preparers, NEW t \in Ids, InsertToken(p, t) \/ InsertFails(p, t)
        PROVE  Goal
    <2>1. prep'[r] \in {prep[r], IdlePrep} BY <1>3, <1>a DEF InsertToken, InsertFails, Stop
    <2> QED BY <2>1
  <1>4. ASSUME NEW p \in Preparers, NEW t \in Ids, RecordToken(p, t)
        PROVE  Goal
    <2>1. CASE p # r \/ Stop(p)
      <3>1. prep'[r] \in {prep[r], IdlePrep} BY <2>1, <1>4, <1>a DEF RecordToken, Stop
      <3> QED BY <3>1
    <2>2. CASE p = r /\ ~Stop(p)
      <3>1. prep[r] \in PrepRecords BY <1>4, <2>2, <1>b DEF RecordToken
      <3>2. t \in DOMAIN prep[r].records /\ status[t] # "none" /\ prep[r].phase = "inserting"
        BY <1>4, <2>2 DEF RecordToken, Unrecorded
      <3>3. prep'[r] = [prep[r] EXCEPT !.records[t] = file[t]]
        BY <1>4, <2>2, <1>a DEF RecordToken
      <3> QED BY <3>1, <3>2, <3>3
    <2> QED BY <2>1, <2>2
  <1>5. ASSUME NEW p \in Preparers, Publish(p) PROVE Goal
    <2>1. CASE p # r
      <3>1. prep'[r] = prep[r] BY <2>1, <1>5, <1>a DEF Publish
      <3> QED BY <3>1
    <2>2. CASE p = r
      <3>1. prep[r] \in PrepRecords BY <1>5, <2>2, <1>b DEF Publish
      <3>2. prep'[r].records = prep[r].records /\ Unrecorded(r) = {}
        BY <1>5, <2>2, <3>1, <1>a DEF Publish, PrepRecords
      <3> QED BY <3>1, <3>2
    <2> QED BY <2>1, <2>2
  <1>6. ASSUME NEW l \in Loaders, LoadStep(l) \/ KillLoader(l) PROVE prep' = prep
    BY <1>6 DEF LoadStep, KillLoader, Validate, ReadFile, OpenStore, Reserve, Settle
  <1>7. ASSUME PowerLoss PROVE Goal
    <2>1. prep'[r] = IdlePrep BY <1>7 DEF PowerLoss
    <2> QED BY <2>1
  <1>8. ASSUME UNCHANGED batchVars PROVE Goal
    <2>1. prep'[r] = prep[r] BY <1>8 DEF batchVars
    <2> QED BY <2>1
  <1>9. ASSUME NEW p \in Preparers, PrepareStep(p) PROVE Goal
    <2> HIDE DEF Goal
    <2> QED BY <1>9, <1>1, <1>2, <1>3, <1>4, <1>5 DEF PrepareStep
  <1>10. Goal
    <2>1. (\E l \in Loaders : LoadStep(l) \/ KillLoader(l)) => Goal BY <1>6
    <2> HIDE DEF Goal
    <2> QED BY <2>1, <1>2, <1>7, <1>8, <1>9 DEF Next
  <1> QED BY <1>10

\* What a step does to the three manifests.
Moved(m) ==
  \/ m \in {tmp, manifest, synced, NoManifest, Empty, Torn}
  \/ \E p \in Preparers :
       prep[p] \in PrepRecords /\ prep[p].phase \in {"creating", "publishing"} /\ m = Own(p)

LEMMA ManifestMoves ==
  ASSUME IInv, [Next]_batchVars
  PROVE  Moved(tmp') /\ Moved(manifest') /\ Moved(synced')
  <1> DEFINE Goal == Moved(tmp') /\ Moved(manifest') /\ Moved(synced')
  <1>1. ASSUME NEW p \in Preparers, WriteTemporary(p) PROVE Goal
    <2>1. prep[p] \in PrepRecords /\ prep[p].phase \in {"creating", "publishing"}
      BY <1>1 DEF WriteTemporary, Writing, IInv, Typed, IdlePrep
    <2> QED BY <1>1, <2>1, WriteGoes DEF Outcomes, Moved
  <1>2. ASSUME NEW p \in Preparers, CreateTemporary(p) \/ Rename(p) \/ SyncRoot(p) PROVE Goal
    BY <1>2 DEF CreateTemporary, Rename, SyncRoot, Moved
  <1>3. ASSUME NEW p \in Preparers, Publish(p) \/ KillPreparer(p)
               \/ (\E c \in Contexts, drawn \in SUBSET Ids : PrepareOpen(p, c, drawn))
               \/ (\E t \in Ids : InsertToken(p, t) \/ InsertFails(p, t) \/ RecordToken(p, t))
        PROVE UNCHANGED <<tmp, manifest, synced>>
    BY <1>3 DEF Publish, KillPreparer, PrepareOpen, InsertToken, InsertFails, RecordToken, disk, manifests
  <1>4. ASSUME NEW l \in Loaders, LoadStep(l) \/ KillLoader(l) PROVE UNCHANGED <<tmp, manifest, synced>>
    BY <1>4 DEF LoadStep, KillLoader, Validate, ReadFile, OpenStore, Reserve, Settle, disk, manifests
  <1>5. ASSUME PowerLoss \/ UNCHANGED batchVars PROVE Goal
    BY <1>5 DEF PowerLoss, batchVars, disk, manifests, Moved
  <1>6. UNCHANGED <<tmp, manifest, synced>> => Goal BY DEF Moved
  <1>7. ASSUME NEW p \in Preparers, PrepareStep(p) PROVE Goal
    <2> HIDE DEF Goal
    <2> QED BY <1>7, <1>1, <1>2, <1>3, <1>6 DEF PrepareStep
  <1>8. Goal
    <2> HIDE DEF Goal
    <2> QED BY <1>7, <1>3, <1>4, <1>5, <1>6 DEF Next
  <1> QED BY <1>8

\* Records that are right stay right, filled in or published.
LEMMA RecordsRightInv ==
  ASSUME IInv, LInv, [Next]_batchVars, NEW r \in Preparers
  PROVE  RecordsRight(prep[r])'
  <1> SUFFICES ASSUME prep'[r] \in PrepRecords PROVE RecordsRight(prep[r])'
    BY DEF RecordsRight
  <1> DEFINE old == prep[r]  new == prep'[r]
  <1>1. RecordsRight(old) BY DEF LInv
  <1>2. \A t \in Ids : \A v : Recorded(t, v) => Recorded(t, v)' BY RecordedStays DEF LInv
  <1>3. DOMAIN new.records \subseteq Ids BY DEF PrepRecords, Records
  <1>4. /\ \A t \in DOMAIN new.records : new.records[t] # 0 => Recorded(t, new.records[t])
        /\ new.phase = "publishing" => \A t \in DOMAIN new.records : new.records[t] # 0
    <2>1. CASE new \in {old, IdlePrep}
      BY <2>1, <1>1, IdleDistinct DEF RecordsRight
    <2>2. CASE new.phase = "creating" /\ \E S \in SUBSET Ids : new.records = [t \in S |-> 0]
      BY <2>2
    <2>3. CASE /\ old \in PrepRecords /\ new.records = old.records
               /\ new.phase = "publishing" => old.phase = "publishing" \/ Unrecorded(r) = {}
      BY <2>3, <1>1 DEF RecordsRight, Unrecorded
    <2>4. CASE /\ old \in PrepRecords /\ old.phase = "inserting"
               /\ \E t \in DOMAIN old.records :
                    /\ status[t] # "none"
                    /\ new = [old EXCEPT !.records[t] = file[t]]
      <3>1. PICK t \in DOMAIN old.records :
              status[t] # "none" /\ new = [old EXCEPT !.records[t] = file[t]]
        BY <2>4
      <3>2. new.phase = "inserting" /\ new.records = [old.records EXCEPT ![t] = file[t]]
        BY <2>4, <3>1 DEF PrepRecords
      <3>3. PICK S \in SUBSET Ids : old.records \in [S -> Nat] BY <2>4 DEF PrepRecords, Records
      <3>4. ASSUME NEW u \in DOMAIN new.records, new.records[u] # 0
            PROVE  Recorded(u, new.records[u])
        <4>1. CASE u = t
          <5>1. new.records[u] = file[u] BY <3>2, <3>3, <4>1
          <5> QED BY <5>1, <3>1, <4>1 DEF Recorded
        <4>2. CASE u # t
          <5>1. u \in DOMAIN old.records /\ new.records[u] = old.records[u] BY <3>2, <3>3, <4>2
          <5> QED BY <5>1, <3>4, <2>4, <1>1 DEF RecordsRight
        <4> QED BY <4>1, <4>2
      <3> QED BY <3>2, <3>4
    <2> QED BY <2>1, <2>2, <2>3, <2>4, PrepMoves
  <1>5. ASSUME NEW t \in DOMAIN new.records, new.records[t] # 0
        PROVE  Recorded(t, prep[r].records[t])'
    <2>1. Recorded(t, new.records[t]) BY <1>5, <1>4
    <2>2. t \in Ids BY <1>3
    <2>3. \A v : v = new.records[t] => Recorded(t, v)'
      <3> HIDE DEF new
      <3> QED BY <2>1, <2>2, <1>2
    <2> QED BY <2>3 DEF Recorded
  <1> QED BY <1>4, <1>5 DEF RecordsRight

\* A manifest stays loadable.
LEMMA LoadableStays ==
  ASSUME IInv, StatusTyped, [Next]_batchVars,
         NEW m \in Manifests \cup {NoManifest, Empty, Torn}, Loadable(m)
  PROVE  Loadable(m)'
  <1> SUFFICES ASSUME IsManifest(m), m.state = "AVAILABLE", NEW t \in DOMAIN m.records
               PROVE  Recorded(t, m.records[t])'
    BY DEF Loadable
  <1>1. t \in Ids BY DEF IsManifest, Manifests, Records
  <1>2. Recorded(t, m.records[t]) BY DEF Loadable
  <1> QED BY <1>1, <1>2, RecordedStays

\* Every step keeps the published tokens loadable.
LEMMA LoadableInv == IInv /\ LInv /\ [Next]_batchVars => LInv'
  <1> SUFFICES ASSUME IInv, LInv, [Next]_batchVars PROVE LInv' OBVIOUS
  <1>0. StatusTyped BY DEF LInv
  <1>a. /\ tmp \in Manifests \cup {NoManifest, Empty, Torn}
        /\ manifest \in Manifests \cup {NoManifest, Empty, Torn}
        /\ synced \in Manifests \cup {NoManifest, Empty, Torn}
    BY DEF IInv, Typed
  <1>1. StatusTyped' BY <1>0, RecordedStays
  <1>2. ASSUME NEW p \in Preparers, prep[p] \in PrepRecords, prep[p].phase \in {"creating", "publishing"}
        PROVE  Own(p) \in Manifests /\ Loadable(Own(p))
    <2>1. Own(p) \in Manifests BY <1>2, OwnRight
    <2>2. Own(p).state = "AVAILABLE" => prep[p].phase = "publishing"
      BY <1>2 DEF Own, Manifest, PublicationState
    <2>3. Own(p).records = prep[p].records BY DEF Own, Manifest
    <2> QED BY <1>2, <2>1, <2>2, <2>3 DEF LInv, RecordsRight, Loadable
  <1>3. ASSUME NEW m, Moved(m)
        PROVE  m \in Manifests \cup {NoManifest, Empty, Torn} /\ Loadable(m)
    BY <1>3, <1>2, <1>a DEF Moved, LInv, Loadable, IsManifest
  <1>4. ASSUME NEW m, Moved(m)
        PROVE  IsManifest(m) /\ m.state = "AVAILABLE" =>
                 \A t \in DOMAIN m.records : Recorded(t, m.records[t])'
    <2>1. Loadable(m)' BY <1>3, <1>4, <1>0, LoadableStays
    <2> QED BY <2>1 DEF Loadable
  <1>5. Loadable(tmp)' /\ Loadable(manifest)' /\ Loadable(synced)'
    <2>1. Moved(tmp') /\ Moved(manifest') /\ Moved(synced') BY ManifestMoves
    <2> QED BY <2>1, <1>4 DEF Loadable, Recorded
  <1>6. ASSUME NEW p \in Preparers PROVE RecordsRight(prep[p])' BY RecordsRightInv
  <1> QED BY <1>1, <1>5, <1>6 DEF LInv

\* Records and manifests are right in every reachable state.
THEOREM LoadableInvariant == BatchSpec => []LInv
  <1>1. Init => LInv
    BY IdleDistinct DEF Init, LInv, StatusTyped, States, Loadable, IsManifest, RecordsRight
  <1> QED BY <1>1, LoadableInv, BatchInvariant, PTL DEF BatchSpec

\* PublishedTokensLoadable, for any number of preparers and runs, errors, kills
\* and losses of power.
THEOREM PublishedLoadable == BatchSpec => []PublishedTokensLoadable
  <1>1. LInv => PublishedTokensLoadable
    BY DEF LInv, Loadable, Recorded, PublishedTokensLoadable
  <1> QED BY <1>1, LoadableInvariant, PTL

-------------------------------------------------------------------------------
(* One preparer at a time. *)

OnePreparer == \A p, q \in Preparers : p = q

\* The manifest names the preparation's context and ids.
Owns(rec, m) ==
  IsManifest(m) /\ m.context = rec.context /\ DOMAIN m.records = DOMAIN rec.records

\* Of the preparation that runs: live tokens are its own, and none is live
\* before the CREATING manifest lists it.  Nobody else touches the temporary
\* file it has open.
Quarantine(rec) ==
  /\ Live \subseteq DOMAIN rec.records
  /\ \A t \in DOMAIN rec.records :
       batch[t] = [context |-> rec.context, ids |-> DOMAIN rec.records]
  /\ rec.phase = "creating" => Live = {}
  /\ rec.phase # "creating" => Owns(rec, manifest) /\ Owns(rec, synced)
  /\ rec.phase \in {"creating", "publishing"} /\ rec.step = "fill" =>
       tmp = Empty /\ \A p \in Preparers : open[p] = "temporary"
  /\ rec.phase \in {"creating", "publishing"} /\ rec.step = "rename" => Owns(rec, tmp)
  /\ rec.phase \in {"creating", "publishing"} /\ rec.step = "sync" => Owns(rec, manifest)

Quarantined == \A p \in Preparers : prep[p] \in PrepRecords => Quarantine(prep[p])

OpenTyped == open \in [Preparers -> {"none", "temporary", "manifest"}]

QInv == OpenTyped /\ OneLiveBatch /\ LiveTokensListed /\ Quarantined

\* Tokens that cease to be live, and preparations that end, disturb nothing.
LEMMA LessIsFine ==
  ASSUME QInv, Live' \subseteq Live, batch' = batch, OpenTyped',
         manifest' \in {manifest, synced}, synced' \in {manifest, synced},
         \/ \A p \in Preparers : prep'[p] = IdlePrep
         \/ prep' = prep /\ UNCHANGED <<tmp, manifest, synced, open>>
  PROVE  QInv'
  <1>1. OneLiveBatch' BY DEF QInv, OneLiveBatch
  <1>2. LiveTokensListed' BY DEF QInv, LiveTokensListed, IsManifest
  <1>3. Quarantined'
    <2>1. CASE \A p \in Preparers : prep'[p] = IdlePrep
      BY <2>1, IdleDistinct DEF Quarantined
    <2>2. CASE prep' = prep /\ UNCHANGED <<tmp, manifest, synced, open>>
      BY <2>2 DEF QInv, Quarantined, Quarantine, Owns, IsManifest
    <2> QED BY <2>1, <2>2
  <1> QED BY <1>1, <1>2, <1>3 DEF QInv

\* With one preparer, its own preparation is all there is to look at.
LEMMA OnlyOne ==
  ASSUME OnePreparer, NEW p \in Preparers, NEW new, prep' = [prep EXCEPT ![p] = new],
         prep \in [Preparers -> {IdlePrep} \cup PrepRecords],
         new \in PrepRecords => Quarantine(prep[p])'
  PROVE  Quarantined'
  BY DEF OnePreparer, Quarantined

\* A preparation ends only its own record.
LEMMA StopEnds ==
  ASSUME OnePreparer, IInv, NEW p \in Preparers, Stop(p)
  PROVE  \A r \in Preparers : prep'[r] = IdlePrep
  BY DEF OnePreparer, IInv, Typed, Stop

\* A draw is made while nothing is live.
LEMMA PrepareOpenQ ==
  ASSUME OnePreparer, IInv, QInv, NEW p \in Preparers, NEW context \in Contexts,
         NEW drawn \in SUBSET Ids, PrepareOpen(p, context, drawn)
  PROVE  QInv'
  <1>1. Live' = Live BY DEF PrepareOpen, Recovered, Live
  <1>2. UNCHANGED <<tmp, manifest, synced, open>> /\ OpenTyped'
    BY DEF PrepareOpen, manifests, QInv, OpenTyped
  <1>3. CASE Live # {}
    <2>1. prep' = prep /\ batch' = batch BY <1>3 DEF PrepareOpen
    <2> QED BY <2>1, <1>1, <1>2, LessIsFine
  <1>4. CASE Live = {}
    <2>1. OneLiveBatch' /\ LiveTokensListed' BY <1>1, <1>4 DEF OneLiveBatch, LiveTokensListed
    <2> DEFINE new == [phase |-> "creating", step |-> "write", context |-> context,
                       records |-> [t \in drawn |-> 0]]
    <2>2. /\ prep' = [prep EXCEPT ![p] = new]
          /\ batch' = [t \in Ids |-> IF t \in drawn THEN [context |-> context, ids |-> drawn] ELSE batch[t]]
      BY <1>4 DEF PrepareOpen
    <2>3. prep \in [Preparers -> {IdlePrep} \cup PrepRecords] BY DEF IInv, Typed
    <2>4. prep'[p] = new BY <2>2, <2>3
    <2>5. Quarantine(prep[p])' BY <1>1, <1>4, <2>2, <2>4 DEF Quarantine
    <2> HIDE DEF new
    <2>6. Quarantined' BY <2>2, <2>3, <2>5, OnlyOne
    <2> QED BY <2>1, <2>6, <1>2 DEF QInv
  <1> QED BY <1>3, <1>4

\* The four steps of writing a manifest.
LEMMA ManifestStepQ ==
  ASSUME OnePreparer, IInv, QInv, NEW p \in Preparers,
         CreateTemporary(p) \/ WriteTemporary(p) \/ Rename(p) \/ SyncRoot(p)
  PROVE  QInv'
  <1>1. UNCHANGED <<status, batch>> /\ Live' = Live
    BY DEF CreateTemporary, WriteTemporary, Rename, SyncRoot, history, Live
  <1>2. prep \in [Preparers -> {IdlePrep} \cup PrepRecords] BY DEF IInv, Typed
  <1>3. prep[p] \in PrepRecords /\ prep[p].phase \in {"creating", "publishing"}
    BY <1>2 DEF CreateTemporary, WriteTemporary, Rename, SyncRoot, Writing, IdlePrep
  <1>4. Quarantine(prep[p]) BY <1>3 DEF QInv, Quarantined
  <1>5. OneLiveBatch' /\ OpenTyped'
    BY <1>1 DEF QInv, OneLiveBatch, OpenTyped, CreateTemporary, WriteTemporary, Rename, SyncRoot
  <1>6. CASE CreateTemporary(p)
    <2>1. UNCHANGED <<manifest, synced>> BY <1>6 DEF CreateTemporary
    <2>2. CASE Stop(p) BY <2>2, <2>1, <1>1, <1>5, StopEnds, LessIsFine
    <2>3. CASE Step(p, "fill") /\ tmp' = Empty /\ open' = [open EXCEPT ![p] = "temporary"]
      <3> DEFINE new == [prep[p] EXCEPT !.step = "fill"]
      <3>1. prep' = [prep EXCEPT ![p] = new] /\ prep'[p] = new BY <2>3, <1>2 DEF Step
      <3>2. new.phase = prep[p].phase /\ new.step = "fill" /\ new.records = prep[p].records
            /\ new.context = prep[p].context
        BY <1>3 DEF PrepRecords
      <3> HIDE DEF new
      <3>3. \A r \in Preparers : open'[r] = "temporary"
        BY <2>3 DEF OnePreparer, QInv, OpenTyped
      <3>4. Quarantine(prep[p])'
        BY <3>1, <3>2, <3>3, <1>1, <1>4, <2>1, <2>3 DEF Quarantine, Owns, IsManifest
      <3>5. Quarantined' BY <3>1, <3>4, <1>2, OnlyOne
      <3>6. LiveTokensListed' BY <1>1, <2>1 DEF QInv, LiveTokensListed, IsManifest
      <3> QED BY <3>5, <3>6, <1>5 DEF QInv
    <2> QED BY <1>6, <2>2, <2>3 DEF CreateTemporary
  <1>7. CASE WriteTemporary(p)
    <2>1. open[p] = "temporary" /\ tmp = Empty
      BY <1>7, <1>3, <1>4 DEF WriteTemporary, Writing, Quarantine
    <2>2. UNCHANGED <<manifest, synced>> BY <1>7, <2>1 DEF WriteTemporary
    <2>3. Written(p) = {Own(p)} BY <2>1 DEF Written, Held
    <2>4. CASE Stop(p) BY <2>4, <2>2, <1>1, <1>5, StopEnds, LessIsFine
    <2>5. CASE Step(p, "rename") /\ tmp' = Own(p)
      <3> DEFINE new == [prep[p] EXCEPT !.step = "rename"]
      <3>1. prep' = [prep EXCEPT ![p] = new] /\ prep'[p] = new BY <2>5, <1>2 DEF Step
      <3>2. new.phase = prep[p].phase /\ new.step = "rename" /\ new.records = prep[p].records
            /\ new.context = prep[p].context
        BY <1>3 DEF PrepRecords
      <3>3. Owns(new, tmp')
        <4>1. tmp' \in Manifests BY <2>5, <1>3, OwnRight
        <4>2. IsManifest(tmp') BY <4>1, NoManifestAssumption DEF IsManifest, Manifests, Records
        <4> QED BY <2>5, <3>2, <4>2 DEF Owns, Own, Manifest
      <3> HIDE DEF new
      <3>4. Quarantine(prep[p])'
        BY <3>1, <3>2, <3>3, <1>1, <1>4, <2>2 DEF Quarantine, Owns, IsManifest
      <3>5. Quarantined' BY <3>1, <3>4, <1>2, OnlyOne
      <3>6. LiveTokensListed' BY <1>1, <2>2 DEF QInv, LiveTokensListed, IsManifest
      <3> QED BY <3>5, <3>6, <1>5 DEF QInv
    <2> QED BY <1>7, <2>1, <2>3, <2>4, <2>5 DEF WriteTemporary
  <1>8. CASE Rename(p)
    <2>1. Owns(prep[p], tmp) BY <1>3, <1>4, <1>8 DEF Rename, Writing, Quarantine
    <2>2. manifest' = tmp /\ synced' = synced /\ Step(p, "sync")
      BY <2>1, <1>8 DEF Rename, Owns, IsManifest
    <2> DEFINE new == [prep[p] EXCEPT !.step = "sync"]
    <2>3. prep' = [prep EXCEPT ![p] = new] /\ prep'[p] = new BY <2>2, <1>2 DEF Step
    <2>4. new.phase = prep[p].phase /\ new.step = "sync" /\ new.records = prep[p].records
          /\ new.context = prep[p].context
      BY <1>3 DEF PrepRecords
    <2> HIDE DEF new
    <2>5. Quarantine(prep[p])'
      BY <2>1, <2>2, <2>3, <2>4, <1>1, <1>4 DEF Quarantine, Owns, IsManifest
    <2>6. Quarantined' BY <2>3, <2>5, <1>2, OnlyOne
    <2>7. LiveTokensListed'
      BY <2>1, <2>2, <1>1, <1>4 DEF QInv, LiveTokensListed, Quarantine, Owns, IsManifest
    <2> QED BY <2>6, <2>7, <1>5 DEF QInv
  <1>9. CASE SyncRoot(p)
    <2>1. UNCHANGED <<tmp, manifest>> /\ synced' \in {manifest, synced} BY <1>9 DEF SyncRoot
    <2>2. CASE Stop(p) BY <2>2, <2>1, <1>1, <1>5, StopEnds, LessIsFine
    <2>3. CASE synced' = manifest /\ AfterManifest(p) /\ prep[p].phase = "publishing"
      <3>1. Stop(p) BY <2>3, <1>2 DEF AfterManifest, Stop
      <3> QED BY <3>1, <2>2
    <2>4. CASE synced' = manifest /\ AfterManifest(p) /\ prep[p].phase = "creating"
      <3> DEFINE new == [prep[p] EXCEPT !.phase = "inserting"]
      <3>1. prep' = [prep EXCEPT ![p] = new] /\ prep'[p] = new BY <2>4, <1>2 DEF AfterManifest
      <3>2. new.phase = "inserting" /\ new.records = prep[p].records /\ new.context = prep[p].context
        BY <1>3 DEF PrepRecords
      <3> HIDE DEF new
      <3>3. Owns(prep[p], manifest) BY <1>9, <1>4, <1>3 DEF SyncRoot, Writing, Quarantine
      <3>4. Quarantine(prep[p])'
        BY <3>1, <3>2, <3>3, <2>1, <2>4, <1>1, <1>4 DEF Quarantine, Owns, IsManifest
      <3>5. Quarantined' BY <3>1, <3>4, <1>2, OnlyOne
      <3>6. LiveTokensListed' BY <1>1, <2>1, <2>4 DEF QInv, LiveTokensListed, IsManifest
      <3> QED BY <3>5, <3>6, <1>5 DEF QInv
    <2> QED BY <1>3, <1>9, <2>2, <2>3, <2>4 DEF SyncRoot
  <1> QED BY <1>6, <1>7, <1>8, <1>9

\* Inserting makes a listed token live; an error of insert may, and ends.
LEMMA InsertQ ==
  ASSUME OnePreparer, IInv, StatusTyped, QInv, NEW p \in Preparers, NEW t \in Ids,
         InsertToken(p, t) \/ InsertFails(p, t)
  PROVE  QInv'
  <1>0. OpenTyped'
    BY DEF InsertToken, InsertFails, manifests, QInv, OpenTyped
  <1>1. UNCHANGED <<tmp, manifest, synced, open, batch>> /\ prep[p].phase = "inserting"
        /\ t \in DOMAIN prep[p].records /\ Live' \subseteq Live \cup {t}
    BY DEF InsertToken, InsertFails, manifests, history, Unrecorded, Live, StatusTyped
  <1>2. prep \in [Preparers -> {IdlePrep} \cup PrepRecords] BY DEF IInv, Typed
  <1>3. prep[p] \in PrepRecords BY <1>1, <1>2 DEF IdlePrep
  <1>4. Quarantine(prep[p]) BY <1>3 DEF QInv, Quarantined
  <1>5. Owns(prep[p], manifest) /\ Owns(prep[p], synced) BY <1>1, <1>4 DEF Quarantine
  <1>6. Live' \subseteq DOMAIN prep[p].records BY <1>1, <1>4 DEF Quarantine
  <1>7. OneLiveBatch' BY <1>1, <1>4, <1>6 DEF OneLiveBatch, Quarantine
  <1>8. LiveTokensListed'
    BY <1>1, <1>4, <1>5, <1>6 DEF LiveTokensListed, Quarantine, Owns, IsManifest
  <1>9. Quarantined'
    <2>1. CASE InsertToken(p, t)
      <3>1. prep' = prep BY <2>1 DEF InsertToken, history
      <3>2. Quarantine(prep[p])'
        BY <3>1, <1>1, <1>4, <1>6 DEF Quarantine, Owns, IsManifest
      <3> QED BY <3>1, <3>2 DEF OnePreparer, Quarantined
    <2>2. CASE InsertFails(p, t)
      <3>1. \A r \in Preparers : prep'[r] = IdlePrep BY <2>2, StopEnds DEF InsertFails
      <3> QED BY <3>1, IdleDistinct DEF Quarantined
    <2> QED BY <2>1, <2>2
  <1> QED BY <1>0, <1>7, <1>8, <1>9 DEF QInv

\* Recording and publishing keep the context and the ids.
LEMMA RecordQ ==
  ASSUME OnePreparer, IInv, QInv, NEW p \in Preparers, NEW t,
         RecordToken(p, t) \/ Publish(p)
  PROVE  QInv'
  <1>0. OpenTyped'
    BY DEF RecordToken, Publish, disk, manifests, QInv, OpenTyped
  <1>1. UNCHANGED <<tmp, manifest, synced, batch>> /\ prep[p].phase = "inserting" /\ Live' = Live
    BY DEF RecordToken, Publish, disk, manifests, history, Live
  <1>2. prep \in [Preparers -> {IdlePrep} \cup PrepRecords] BY DEF IInv, Typed
  <1>3. prep[p] \in PrepRecords BY <1>1, <1>2 DEF IdlePrep
  <1>4. Quarantine(prep[p]) BY <1>3 DEF QInv, Quarantined
  <1>5. CASE Stop(p) BY <1>0, <1>5, <1>1, StopEnds, LessIsFine
  <1>6. CASE ~Stop(p)
    <2>1. PICK new : /\ prep' = [prep EXCEPT ![p] = new]
                     /\ \/ new = [prep[p] EXCEPT !.phase = "publishing", !.step = "write"]
                        \/ new = [prep[p] EXCEPT !.records = [@ EXCEPT ![t] = file[t]]]
      BY <1>6 DEF RecordToken, Publish
    <2>2. new.context = prep[p].context /\ DOMAIN new.records = DOMAIN prep[p].records
          /\ \/ new.phase = "publishing" /\ new.step = "write"
             \/ new.phase = "inserting"
      BY <2>1, <1>1, <1>3 DEF PrepRecords
    <2>3. prep'[p] = new BY <2>1, <1>2
    <2>4. Quarantine(prep[p])'
      BY <2>2, <2>3, <1>1, <1>4 DEF Quarantine, Owns, IsManifest
    <2>5. Quarantined' BY <2>1, <2>4, <1>2, OnlyOne
    <2>6. OneLiveBatch' /\ LiveTokensListed'
      BY <1>1 DEF QInv, OneLiveBatch, LiveTokensListed, IsManifest
    <2> QED BY <1>0, <2>5, <2>6 DEF QInv
  <1> QED BY <1>5, <1>6

\* A run makes no token live.
LEMMA LoadingQ ==
  ASSUME IInv, StatusTyped, QInv, NEW l \in Loaders, LoadStep(l) \/ KillLoader(l)
  PROVE  QInv'
  <1>1. UNCHANGED <<tmp, manifest, synced, open, prep, batch>>
    BY DEF LoadStep, KillLoader, Validate, ReadFile, OpenStore, Reserve, Settle, disk, manifests, history
  <1>2. \A t \in Ids : status'[t] = "available" => status[t] = "available"
    <2>1. CASE UNCHANGED status BY <2>1
    <2>2. CASE status' = Recovered BY <2>2 DEF Recovered
    <2>3. CASE \E t \in Ids, s \in {"reserved", "spent", "burned"} : status' = [status EXCEPT ![t] = s]
      BY <2>3 DEF StatusTyped
    <2>4. ASSUME Reserve(l) \/ Settle(l)
          PROVE  \/ UNCHANGED status
                 \/ \E s \in {"reserved", "spent", "burned"} : status' = [status EXCEPT ![load[l].id] = s]
      BY <2>4 DEF Reserve, Settle
    <2>5. ASSUME Reserve(l) \/ Settle(l) PROVE load[l].id \in Ids
      BY <2>5 DEF Reserve, Settle, IInv, Typed, IdleLoad, LoadRecords
    <2>6. CASE Reserve(l) \/ Settle(l) BY <2>1, <2>3, <2>4, <2>5, <2>6
    <2> QED BY <2>1, <2>2, <2>6 DEF LoadStep, KillLoader, Validate, ReadFile, OpenStore, disk, manifests
  <1>3. Live' \subseteq Live BY <1>2 DEF Live
  <1>4. OpenTyped' BY <1>1 DEF QInv, OpenTyped
  <1> QED BY <1>1, <1>3, <1>4, LessIsFine

\* Every step keeps the quarantine while one preparer runs.
LEMMA QuarantineInv ==
  ASSUME OnePreparer, IInv, LInv, QInv, [Next]_batchVars
  PROVE  QInv'
  <1>0. StatusTyped BY DEF LInv
  <1>1. ASSUME NEW p \in Preparers, PrepareStep(p) PROVE QInv'
    BY <1>0, <1>1, PrepareOpenQ, ManifestStepQ, InsertQ, RecordQ DEF PrepareStep
  <1>2. ASSUME NEW p \in Preparers, KillPreparer(p) PROVE QInv'
    <2>1. UNCHANGED <<status, manifest, synced, batch>> /\ Live' = Live /\ Stop(p)
          /\ OpenTyped'
      BY <1>2 DEF KillPreparer, history, Live, QInv, OpenTyped
    <2> QED BY <2>1, StopEnds, LessIsFine
  <1>3. ASSUME NEW l \in Loaders, LoadStep(l) \/ KillLoader(l) PROVE QInv' BY <1>0, <1>3, LoadingQ
  <1>4. CASE PowerLoss
    <2>1. Live' = Live /\ batch' = batch BY <1>4 DEF PowerLoss, history, Live
    <2>2. /\ manifest' \in {manifest, synced} /\ synced' \in {manifest, synced}
          /\ \A p \in Preparers : prep'[p] = IdlePrep
          /\ OpenTyped'
      BY <1>4 DEF PowerLoss, OpenTyped
    <2> QED BY <2>1, <2>2, LessIsFine
  <1>5. CASE UNCHANGED batchVars
    <2>1. Live' = Live /\ batch' = batch /\ prep' = prep
          /\ UNCHANGED <<tmp, manifest, synced, open>> /\ OpenTyped'
      BY <1>5 DEF batchVars, disk, manifests, history, Live, QInv, OpenTyped
    <2> QED BY <2>1, LessIsFine
  <1> QED BY <1>1, <1>2, <1>3, <1>4, <1>5 DEF Next

\* The quarantine holds of every behaviour with one preparer.
THEOREM QuarantineHolds ==
  ASSUME OnePreparer
  PROVE  BatchSpec => []QInv
  <1>1. Init => QInv
    BY IdleDistinct DEF Init, QInv, OpenTyped, OneLiveBatch, LiveTokensListed, Live, Quarantined
  <1>2. IInv /\ LInv /\ QInv /\ [Next]_batchVars => QInv' BY QuarantineInv
  <1> QED BY <1>1, <1>2, BatchInvariant, LoadableInvariant, PTL DEF BatchSpec

\* LiveTokensListed: whatever errors, kills and losses of power stop a
\* preparation, a live token is listed by the manifest that is on disk.
THEOREM LiveListed ==
  ASSUME OnePreparer
  PROVE  BatchSpec => []LiveTokensListed
  <1>1. QInv => LiveTokensListed BY DEF QInv
  <1> QED BY <1>1, QuarantineHolds, PTL

\* OneLiveBatch, the refusal of token-prepare to append to a store that holds
\* live tokens: with one preparer it is enough, with two it is not.
THEOREM OneBatchAlone ==
  ASSUME OnePreparer
  PROVE  BatchSpec => []OneLiveBatch
  <1>1. QInv => OneLiveBatch BY DEF QInv
  <1> QED BY <1>1, QuarantineHolds, PTL

===============================================================================
