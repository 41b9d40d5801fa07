---------------------------- MODULE CredentialSource ----------------------------
(***************************************************************************)
(* The authenticated credential source                                     *)
(* (experiments/libspartan/src/credential_source/mod.rs) and the programs  *)
(* around it.  An audit (bin/phase_v4e_credential_source.rs) writes the    *)
(* records of a workload to a file and replays it; a proof run             *)
(* (authenticated_replay_fixture of bin/phase_v2_pbmo.rs) builds its       *)
(* relation from the records of the file another process wrote.  A reader  *)
(* goes through the file once per pass and opens it by name for each one,  *)
(* while audits replace it.                                                *)
(*                                                                         *)
(* A frame is what authenticated encryption makes of a plaintext: it opens *)
(* under the nonce, counter and associated data it was made with, and      *)
(* under no others.  A digest is the tuple of what it digests.  There is   *)
(* one key, and one path all writers publish to.  The nonce, which names   *)
(* the temporary file, comes from a generator the audits seed with         *)
(* constants: writers may share it.                                        *)
(***************************************************************************)
EXTENDS CircuitGadgets, FiniteSets

CONSTANTS
  Audits,      \* runs of the audit program
  Measurements, \* those that only write, to measure the source
  Proofs,      \* proof runs that replay the source
  NonceOf,     \* the nonce the generator of an audit yields
  Workloads,   \* WK parameters, with the expected session of a proof run
  FirstId,     \* revocation identifier of the first credential
  MerkleDomain,
  Torn,        \* a frame whose bytes were damaged or not all written
  MaxFiles,    \* bound: files ever created
  MaxFaults    \* bound: I/O errors, damages, kills and losses of power

\* A fixture has a credential; of its credentials the first ones are revocable.
ASSUME WorkloadAssumption ==
  \A w \in Workloads : w.credentials \in Nat \ {0} /\ w.revocations \in Nat

VARIABLES
  files,     \* the files created, in order: their nonce and frames
  dir,       \* the file a name stands for, 0 when there is none
  images,    \* directories a loss of power may leave
  synced,    \* files whose content a loss of power cannot touch
  proc,      \* what each audit and proof run is at
  authored,  \* history: sources whose writing began
  damaged,   \* history: files that were damaged
  orphans,   \* history: temporary files whose writer was stopped or could not remove them
  robbed,    \* history: nonces whose temporary name was taken from a writer at work
  renamed,   \* history: files in the order they were published
  acked,     \* history: how many of them writers have reported as written
  faults

diskVars == <<files, dir, images, synced>>
historyVars == <<authored, damaged, orphans, robbed, renamed, acked>>
sourceVars == <<diskVars, proc, historyVars, faults>>

Nonces == {NonceOf[a] : a \in Audits}
Source == "source"

\* temporary_path: the nonce makes the extension of the temporary name.
ASSUME TemporaryAssumption == Source \notin Nonces

Fault == faults < MaxFaults /\ faults' = faults + 1

-------------------------------------------------------------------------------
(* Headers and records *)

\* The path of a fixture: an empty tree if several credentials share the root.
EmptyPath(depth) ==
  LET sibling[l \in 1 .. depth] ==
        IF l = 1 THEN 0 ELSE NativeHash(<<sibling[l - 1], sibling[l - 1]>>, 0, MerkleDomain)
  IN  [l \in 1 .. depth |-> sibling[l]]

FixturePath(w) == IF w.revocations > 1 THEN EmptyPath(w.depth) ELSE [l \in 1 .. w.depth |-> l]

PathRoot(index, leaf, path) == MerkleRoot(index, path, leaf, MerkleDomain)

\* credential_package_digest digests every field but the digest itself.
PackageDigest(r) == [r EXCEPT !.package = 0]

WithPackage(r) == [r EXCEPT !.package = PackageDigest(r)]

\* source_fixture: index counts from 0; credential stands for the attributes,
\* the holder, the issuer and the commitment of one credential.
FixtureRecord(w, i) ==
  LET selected == i < w.revocations
  IN  WithPackage([index |-> i, package |-> 0, credential |-> i + 1, id |-> FirstId + i,
                   policy |-> selected, leaf |-> IF selected THEN <<0>> ELSE <<>>,
                   at |-> IF selected THEN <<FirstId + i>> ELSE <<>>,
                   path |-> IF selected THEN FixturePath(w) ELSE <<>>])

FixtureRecords(w) == [n \in 1 .. w.credentials |-> FixtureRecord(w, n - 1)]

\* build_profile_s_from_records: the relation and its witness are a function
\* of the workload and of these fields of the records.
Relation(w, records) ==
  [shape |-> <<w.credentials, w.revocations, w.depth>>,
   wires |-> [n \in 1 .. Len(records) |-> <<records[n].credential, records[n].id>>],
   paths |-> [n \in 1 .. w.revocations |-> records[n].path]]

FixtureHeader(w) ==
  [session |-> w.session, count |-> w.credentials,
   revset |-> [n \in 1 .. w.revocations |-> n - 1], depth |-> w.depth,
   root |-> IF w.revocations = 0 THEN 0 ELSE PathRoot(FirstId, 0, FixturePath(w)),
   layout |-> Relation(w, FixtureRecords(w)), digest |-> <<>>]

SourceDigest(h, records) == <<[h EXCEPT !.digest = <<>>], records>>

Canonical(revset) == \A m, n \in 1 .. Len(revset) : m < n => revset[m] < revset[n]

Selected(h, i) == \E n \in 1 .. Len(h.revset) : h.revset[n] = i

\* The path starts at the credential's own identifier.
PathBound(h, r) ==
  /\ r.leaf # <<>> /\ r.at = <<r.id>>
  /\ Len(r.path) = h.depth
  /\ PathRoot(r.at[1], r.leaf[1], r.path) = h.root

ValidRecord(h, r) ==
  /\ r.package = PackageDigest(r)
  /\ r.policy = Selected(h, r.index)
  /\ IF r.policy THEN PathBound(h, r) ELSE r.leaf = <<>> /\ r.at = <<>> /\ r.path = <<>>

ValidRecords(h, records) ==
  /\ Len(records) = h.count
  /\ Canonical(h.revset)
  /\ \A n \in 1 .. Len(records) : records[n].index = n - 1 /\ ValidRecord(h, records[n])

\* The records a writer is given: those of a workload, or changed as
\* run_security_tests changes them, with or without a new package digest.
Changed(rs, n, r) == {[rs EXCEPT ![n] = r], [rs EXCEPT ![n] = WithPackage(r)]}

Altered(rs) ==
  LET r == rs[1]
  IN  Changed(rs, 1, [r EXCEPT !.at = <<FirstId + 1>>])
      \cup Changed(rs, 1, [r EXCEPT !.at = <<FirstId + 4>>])
      \cup Changed(rs, 1, [r EXCEPT !.id = @ + 1])
      \cup Changed(rs, 1, [r EXCEPT !.id = @ + 4])
      \cup Changed(rs, 1, [r EXCEPT !.leaf = <<1>>])
      \cup Changed(rs, 1, [r EXCEPT !.credential = @ + 1])
      \cup Changed(rs, 1, [r EXCEPT !.path = <<9>>])
      \cup Changed(rs, 1, [r EXCEPT !.path = Append(@, 0)])
      \cup {Tail(rs)} \cup {[n \in 1 .. Len(rs) |-> rs[1]]}
      \cup {[n \in 1 .. Len(rs) |-> rs[Len(rs) + 1 - n]]}

-------------------------------------------------------------------------------
(* Frames *)

\* Mutant of RecordAad: the source is left out.
IndexOnly(h, i) == <<"record", <<>>, i>>

RecordAad(h, i) == <<"record", h.digest, i>>

HeaderAad == <<"header", <<>>, 0>>

Encrypt(nonce, counter, aad, plain) ==
  [nonce |-> nonce, counter |-> counter, aad |-> aad, plain |-> plain]

\* decrypt: the frame was made under these parameters.
Decrypts(frame, nonce, counter, aad) ==
  ~(frame = Torn) /\ frame = Encrypt(nonce, counter, aad, frame.plain)

Frames(h, records, nonce) ==
  [n \in 1 .. Len(records) + 1 |->
     IF n = 1 THEN Encrypt(nonce, 0, HeaderAad, h)
     ELSE Encrypt(nonce, n - 1, RecordAad(h, n - 2), records[n - 1])]

Idle == [phase |-> "idle"]

Init ==
  /\ files = <<>>
  /\ dir = [name \in Nonces \cup {Source} |-> 0]
  /\ images = {dir}
  /\ synced = {}
  /\ proc = [p \in Audits \cup Proofs |-> Idle]
  /\ authored = {}
  /\ damaged = {}
  /\ orphans = {}
  /\ robbed = {}
  /\ renamed = <<>>
  /\ acked = 0
  /\ faults = 0

Goto(p, phase) == proc' = [proc EXCEPT ![p].phase = phase]

Rebind(d) == dir' = d /\ images' = images \cup {d}

-------------------------------------------------------------------------------
(* CredentialSourceWriter::write *)

\* The file a writer has open.
HoldingPhases == {"write", "sync", "rename"}

Held(p) == IF proc[p].phase \in HoldingPhases THEN {proc[p].file} ELSE {}

\* The records are validated before anything touches the disk.
StartWrite(a) ==
  /\ proc[a].phase = "idle"
  /\ Len(files) < MaxFiles
  /\ \E w \in Workloads : \E records \in {FixtureRecords(w)} \cup Altered(FixtureRecords(w)) :
       LET header == FixtureHeader(w)
           h == [header EXCEPT !.digest = SourceDigest(header, records)]
       IN /\ ValidRecords(header, records)
          /\ proc' = [proc EXCEPT ![a] =
               [phase |-> "create", workload |-> w, header |-> h, records |-> records, file |-> 0]]
          /\ authored' = authored \cup {h}
  /\ UNCHANGED <<diskVars, damaged, orphans, robbed, renamed, acked, faults>>

\* Another writer is at work on the file that has the temporary name of a.
InUse(a) == \E b \in Audits \ {a} : dir[NonceOf[a]] \in Held(b)

\* Mutant of Abandon: the error returns past the removal.
AbandonKeeps(a) ==
  /\ proc' = [proc EXCEPT ![a] = Idle]
  /\ UNCHANGED <<dir, images, robbed, orphans>>

\* The name is taken away, whoever created the file; an error of doing so is
\* ignored.
Abandon(a) ==
  /\ proc' = [proc EXCEPT ![a] = Idle]
  /\ \/ /\ Rebind([dir EXCEPT ![NonceOf[a]] = 0])
        /\ robbed' = IF InUse(a) THEN robbed \cup {NonceOf[a]} ELSE robbed
        /\ UNCHANGED orphans
     \/ /\ orphans' = orphans \cup Held(a)
        /\ UNCHANGED <<dir, images, robbed>>

Create(a) ==
  /\ proc[a].phase = "create"
  /\ Len(files) < MaxFiles
  /\ dir[NonceOf[a]] = 0
  /\ files' = Append(files, [nonce |-> NonceOf[a], frames |-> <<>>])
  /\ Rebind([dir EXCEPT ![NonceOf[a]] = Len(files) + 1])
  /\ proc' = [proc EXCEPT ![a].phase = "write", ![a].file = Len(files) + 1]
  /\ UNCHANGED <<synced, historyVars, faults>>

\* The name is there, of a writer that was stopped or is at work, or another
\* error.
CreateFails(a) ==
  /\ proc[a].phase = "create"
  /\ \/ dir[NonceOf[a]] # 0 /\ UNCHANGED faults
     \/ Fault
  /\ Abandon(a)
  /\ UNCHANGED <<files, synced, authored, damaged, renamed, acked>>

WriteFrame(a) ==
  /\ proc[a].phase = "write"
  /\ LET f == proc[a].file
         all == Frames(proc[a].header, proc[a].records, NonceOf[a])
         n == Len(files[f].frames)
     IN \/ /\ files' = [files EXCEPT ![f].frames = Append(@, all[n + 1])]
           /\ IF n + 1 = Len(all) THEN Goto(a, "sync") ELSE UNCHANGED proc
           /\ UNCHANGED <<dir, images, orphans, robbed, faults>>
        \/ /\ files' = [files EXCEPT ![f].frames = Append(@, Torn)]
           /\ Abandon(a)
           /\ Fault
  /\ UNCHANGED <<synced, authored, damaged, renamed, acked>>

\* Mutant of SyncFile: the content is not synced before the rename.
SyncFileSkipped(a) ==
  /\ proc[a].phase = "sync"
  /\ Goto(a, "rename")
  /\ UNCHANGED <<diskVars, historyVars, faults>>

SyncFile(a) ==
  /\ proc[a].phase = "sync"
  /\ \/ synced' = synced \cup {proc[a].file} /\ Goto(a, "rename")
        /\ UNCHANGED <<dir, images, orphans, robbed, faults>>
     \/ Abandon(a) /\ Fault /\ UNCHANGED synced
  /\ UNCHANGED <<files, authored, damaged, renamed, acked>>

\* It publishes the file that has the temporary name now, its own or another's.
Rename(a) ==
  /\ proc[a].phase = "rename"
  /\ \/ /\ dir[NonceOf[a]] # 0
        /\ Rebind([dir EXCEPT ![Source] = dir[NonceOf[a]], ![NonceOf[a]] = 0])
        /\ renamed' = Append(renamed, dir[NonceOf[a]])
        /\ proc' = [proc EXCEPT ![a].phase = "syncParent", ![a].file = dir[NonceOf[a]]]
        /\ UNCHANGED <<orphans, robbed, faults>>
     \/ /\ \/ dir[NonceOf[a]] = 0 /\ UNCHANGED faults
           \/ Fault
        /\ Abandon(a)
        /\ UNCHANGED renamed
  /\ UNCHANGED <<files, synced, authored, damaged, acked>>

\* The write is reported as done.
Acknowledged(a) ==
  LET n == CHOOSE n \in 1 .. Len(renamed) : renamed[n] = proc[a].file
  IN  IF n > acked THEN n ELSE acked

\* An audit goes on to read what it wrote; a measurement ends here.
Written(a) ==
  proc' = [proc EXCEPT ![a] =
    IF a \in Measurements THEN Idle
    ELSE [phase |-> "open", workload |-> @.workload, want |-> @.header]]

SyncParent(a) ==
  /\ proc[a].phase = "syncParent"
  /\ \/ images' = {dir} /\ acked' = Acknowledged(a) /\ Written(a)
        /\ UNCHANGED <<dir, orphans, robbed, faults>>
     \/ Abandon(a) /\ Fault /\ UNCHANGED acked
  /\ UNCHANGED <<files, synced, authored, damaged, renamed>>

-------------------------------------------------------------------------------
(* CredentialSourceReader *)

\* A proof run knows its workload, an audit the header it has written.
StartProof(p) ==
  /\ proc[p].phase = "idle"
  /\ \E w \in Workloads : proc' = [proc EXCEPT ![p] = [phase |-> "open", workload |-> w, want |-> FixtureHeader(w)]]
  /\ UNCHANGED <<diskVars, historyVars, faults>>

GiveUp(p) == proc' = [proc EXCEPT ![p] = Idle]

\* read_prefix: the file's nonce and the frame of its header.
Prefix == IF dir[Source] = 0 THEN <<>> ELSE files[dir[Source]].frames

\* open_authenticated: what it keeps is the path, the nonce and the header.
OpenSource(p) ==
  /\ proc[p].phase = "open"
  /\ IF /\ Prefix # <<>>
        /\ Decrypts(Prefix[1], files[dir[Source]].nonce, 0, HeaderAad)
       THEN proc' = [proc EXCEPT ![p] =
              [phase |-> "begin", workload |-> @.workload, want |-> @.want, header |-> Prefix[1].plain,
               nonce |-> files[dir[Source]].nonce, goal |-> "validate", file |-> 0, got |-> <<>>]]
       ELSE GiveUp(p)
  /\ UNCHANGED <<diskVars, historyVars, faults>>

\* for_each_record opens the path again; only the shape of the prefix is looked at.
BeginPass(p) ==
  /\ proc[p].phase = "begin"
  /\ IF Prefix # <<>>
       THEN proc' = [proc EXCEPT ![p].phase = "read", ![p].file = dir[Source], ![p].got = <<>>]
       ELSE GiveUp(p)
  /\ UNCHANGED <<diskVars, historyVars, faults>>

Reading(p) == proc[p].phase = "read"

\* The record is given to the consumer before the pass is known to be complete.
ReadRecord(p) ==
  /\ Reading(p)
  /\ LET h == proc[p].header
         i == Len(proc[p].got)
         frames == files[proc[p].file].frames
     IN /\ i < h.count
        /\ IF /\ Len(frames) > i + 1
              /\ Decrypts(frames[i + 2], proc[p].nonce, i + 1, RecordAad(h, i))
              /\ frames[i + 2].plain.index = i
              /\ ValidRecord(h, frames[i + 2].plain)
             THEN proc' = [proc EXCEPT ![p].got = Append(@, frames[i + 2].plain)]
             ELSE GiveUp(p)
  /\ UNCHANGED <<diskVars, historyVars, faults>>

\* Mutant of SameBinding: the session is not compared.
AnySession(p) ==
  LET h == proc[p].header  want == proc[p].want
  IN  \A field \in {"count", "revset", "depth", "root"} : h[field] = want[field]

\* validate_binding, and the checks of a proof run on its workload, session
\* and registry: everything but the generation and the digest.
SameBinding(p) ==
  LET h == proc[p].header  want == proc[p].want
  IN  \A field \in {"session", "count", "revset", "depth", "root"} : h[field] = want[field]

\* replay_relation and authenticated_replay_fixture rebuild the relation.
Rebuilt(p) == Relation(proc[p].workload, proc[p].got)

\* An audit replays the source for its relation and then twice for the digests
\* of its relation and witness passes.
NextGoals(p) ==
  CASE proc[p].goal = "validate" -> {"replay"}
    [] proc[p].goal = "replay" -> IF p \in Proofs THEN {"done"} ELSE {"digest"}
    [] proc[p].goal = "digest" -> {"digest", "done"}

Wanted(p) ==
  CASE proc[p].goal = "validate" -> SameBinding(p) /\ (p \in Audits => proc[p].header.layout = proc[p].want.layout)
    [] proc[p].goal = "replay" -> Rebuilt(p) = proc[p].header.layout
    [] OTHER -> TRUE

FinishPass(p) ==
  /\ Reading(p)
  /\ Len(proc[p].got) = proc[p].header.count
  /\ IF /\ Len(files[proc[p].file].frames) = proc[p].header.count + 1
        /\ SourceDigest(proc[p].header, proc[p].got) = proc[p].header.digest
        /\ Wanted(p)
       THEN \E goal \in NextGoals(p) :
              proc' = [proc EXCEPT ![p].goal = goal,
                                   ![p].phase = IF goal = "done" THEN "done" ELSE "begin"]
       ELSE GiveUp(p)
  /\ UNCHANGED <<diskVars, historyVars, faults>>

Leave(p) ==
  /\ proc[p].phase = "done"
  /\ GiveUp(p)
  /\ UNCHANGED <<diskVars, historyVars, faults>>

-------------------------------------------------------------------------------
(* Failures *)

\* A process is killed; a writer's temporary file stays.
Kill(p) ==
  /\ proc[p].phase # "idle"
  /\ proc' = [proc EXCEPT ![p] = Idle]
  /\ orphans' = orphans \cup Held(p)
  /\ Fault
  /\ UNCHANGED <<diskVars, authored, damaged, robbed, renamed, acked>>

\* A loss of power leaves one of the directories since the last sync, and of
\* an unsynced file a part.
PowerLoss ==
  /\ \E d \in images : dir' = d /\ images' = {d}
  /\ \E kept \in [DOMAIN files \ synced -> 0 .. 1] :
       files' = [f \in DOMAIN files |->
                   IF f \in synced \/ kept[f] = 1 THEN files[f] ELSE [files[f] EXCEPT !.frames = <<>>]]
  /\ proc' = [p \in DOMAIN proc |-> Idle]
  /\ orphans' = DOMAIN files
  /\ Fault
  /\ UNCHANGED <<synced, authored, damaged, robbed, renamed, acked>>

\* The damages of run_security_tests: a byte, a truncation, an extra frame, and
\* frames in another order; of a file nobody writes to any more.
Damage ==
  /\ dir[Source] # 0
  /\ \A a \in Audits : dir[Source] \notin Held(a)
  /\ LET f == dir[Source]
         frames == files[f].frames
         n == Len(frames)
     IN /\ n > 0
        /\ \E after \in {Append(frames, Torn), SubSeq(frames, 1, n - 1)}
                        \cup {[frames EXCEPT ![k] = Torn] : k \in 1 .. n}
                        \cup {[frames EXCEPT ![k] = frames[n], ![n] = frames[k]] : k \in 2 .. n - 1} :
             files' = [files EXCEPT ![f].frames = after]
        /\ damaged' = damaged \cup {f}
  /\ Fault
  /\ UNCHANGED <<dir, images, synced, proc, authored, orphans, robbed, renamed, acked>>

Next ==
  \/ \E a \in Audits :
       \/ StartWrite(a) \/ Create(a) \/ CreateFails(a) \/ WriteFrame(a)
       \/ SyncFile(a) \/ Rename(a) \/ SyncParent(a)
  \/ \E p \in Proofs : StartProof(p)
  \/ \E p \in Audits \cup Proofs :
       OpenSource(p) \/ BeginPass(p) \/ ReadRecord(p) \/ FinishPass(p) \/ Leave(p) \/ Kill(p)
  \/ PowerLoss
  \/ Damage

SourceSpec == Init /\ [][Next]_sourceVars

-------------------------------------------------------------------------------
(* Properties *)

Passing(p) == proc[p].phase \in {"read", "done"}

\* Every record a consumer sees, in any pass, is the one its writer put at
\* that index of the source the reader has authenticated, also when the file
\* was replaced or damaged between the passes: a pass that fails half-way has
\* not shown its consumer a record of another source.
RecordsAuthored ==
  \A p \in Audits \cup Proofs : Passing(p) =>
    /\ proc[p].header \in authored
    /\ LET records == proc[p].header.digest[2]
       IN  proc[p].got = SubSeq(records, 1, Len(proc[p].got))

\* The relation a run goes on with is the fixture of the workload and session
\* it was started for, and each credential whose revocation matters comes with
\* a path from its own identifier to the registry root.
ReplayedAsWanted ==
  \A p \in Audits \cup Proofs : proc[p].phase = "done" =>
    /\ Rebuilt(p) = proc[p].want.layout
    /\ proc[p].header.session = proc[p].want.session
    /\ \A n \in 1 .. Len(proc[p].got) :
         LET r == proc[p].got[n]
         IN  Selected(proc[p].want, r.index) =>
               PathRoot(r.id, r.leaf[1], r.path) = proc[p].want.root

Whole(f) ==
  \E h \in authored : files[f].frames = Frames(h, h.digest[2], files[f].nonce)

\* Whatever a crash leaves under the destination's name is a whole source, if
\* the temporary name of its nonce was never taken from a writer at work; and,
\* whoever wrote it, it is not older than the last one a writer has reported
\* as written.
PublishedWhole ==
  \A d \in images :
    /\ d[Source] # 0 /\ d[Source] \notin damaged /\ files[d[Source]].nonce \notin robbed =>
         Whole(d[Source]) /\ d[Source] \in synced
    /\ acked # 0 => \E n \in acked .. Len(renamed) : d[Source] = renamed[n]

\* A temporary name stands for the file of a writer at work, or of one that was
\* stopped or could not remove it, also when several writers have one name:
\* whatever they do to each other, none of their errors leaves a file behind.
TemporariesOwned ==
  \A n \in Nonces :
    dir[n] # 0 =>
      dir[n] \in orphans \/ \E a \in Audits : NonceOf[a] = n /\ dir[n] \in Held(a)

===============================================================================
