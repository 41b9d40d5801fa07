----------------------------- MODULE TempArtifacts -----------------------------
(***************************************************************************)
(* The byte accounting of temporary files                                  *)
(* (experiments/thinwallet-instrumentation/src/lib.rs), with the two       *)
(* writers that drive it: the request spool of a PBMO session              *)
(* (experiments/preprocessed-pbmo/src/provider.rs, secure_spool.rs) and    *)
(* the state objects of the multi-state store.                             *)
(*                                                                         *)
(* A writer changes the file first and tells the accounting afterwards, by *)
(* a path: the temporary name until the file is sealed, the final name     *)
(* later.  The accounting never trusts the sizes it is told: it asks the   *)
(* file system for the path, and keeps the last size when there is no such *)
(* file.  The manifest a seal writes beside the file is told to nobody.    *)
(* Beside the accounting, observers scan the directory, manifests and all, *)
(* and then store what they saw.                                           *)
(***************************************************************************)
EXTENDS Naturals, Sequences, FiniteSets, FiniteSetsExt, Functions

CONSTANTS
  Spools, Objects,  \* the files the writers make
  Observers,        \* threads that scan the directory
  NoFile,
  ManifestSize,     \* bytes of a manifest
  MaxSize           \* bound: units appended to a file

ASSUME ArtAssumption ==
  /\ NoFile \notin Nat /\ MaxSize \in Nat \ {0} /\ ManifestSize \in Nat
  /\ IsFiniteSet(Spools) /\ IsFiniteSet(Objects)

VARIABLES
  disk,      \* size of the file at each path, or NoFile
  recorded,  \* final_logical_size of each path's ArtifactRecord
  current,   \* direct_current_bytes
  job,       \* what the writer of each file is at
  latest,    \* temp_latest
  scan,      \* an observer's scan not yet stored, or NoFile
  failures   \* history: the kinds of file operation that have failed

artVars == <<disk, recorded, current, job, latest, scan, failures>>

Files == Spools \cup Objects
Path(f, name) == [file |-> f, name |-> name]
Tmp(f) == Path(f, "temporary")
Final(f) == Path(f, "final")
DataNames == {"temporary", "final"}
Names == DataNames \cup {"temporary manifest", "manifest"}
Paths == {Path(f, n) : f \in Files, n \in Names}

Bytes(size) == IF size = NoFile THEN 0 ELSE size
OnDisk == SumFunctionOnSet([p \in Paths |-> Bytes(disk[p])], Paths)
DataOnDisk ==
  SumFunctionOnSet([p \in Paths |-> IF p.name \in DataNames THEN Bytes(disk[p]) ELSE 0], Paths)

SaturatingSub(a, b) == IF a > b THEN a - b ELSE 0

ArtInit ==
  /\ disk = [p \in Paths |-> NoFile]
  /\ recorded = [p \in Paths |-> 0]
  /\ current = 0
  /\ job = [f \in Files |-> "none"]
  /\ latest = 0
  /\ scan = [o \in Observers |-> NoFile]
  /\ failures = {}

-------------------------------------------------------------------------------
(* The accounting: each under the lock of the audit state *)

\* refresh_artifact: the size of the file, the last known one without a file.
Refreshed(p) == IF disk[p] = NoFile THEN recorded[p] ELSE disk[p]

\* Mutant of Count: the size counted before is not taken off.
CountAgain(p) ==
  /\ recorded' = [recorded EXCEPT ![p] = Refreshed(p)]
  /\ current' = current + Refreshed(p)

\* register_temp_artifact, record_artifact_write and record_artifact_truncate
\* count alike.
Count(p) ==
  /\ recorded' = [recorded EXCEPT ![p] = Refreshed(p)]
  /\ current' = SaturatingSub(current, recorded[p]) + Refreshed(p)

\* record_artifact_remove takes off the size the file has now.
Discount(p) ==
  /\ recorded' = [recorded EXCEPT ![p] = 0]
  /\ current' = SaturatingSub(current, Refreshed(p))

\* Scan the directory outside the lock ...
Scan(o) ==
  /\ scan[o] = NoFile
  /\ scan' = [scan EXCEPT ![o] = OnDisk]

\* ... and store the result under it: the last to store wins.
Store(o) ==
  /\ scan[o] # NoFile
  /\ latest' = scan[o]
  /\ scan' = [scan EXCEPT ![o] = NoFile]

-------------------------------------------------------------------------------
(* Both writers *)

Goto(f, from, to) == job[f] = from /\ job' = [job EXCEPT ![f] = to]

Observing == <<latest, scan>>
Accounts == <<recorded, current>>

\* A chunk reaches the file whole ...
AppendChunk(f) ==
  /\ Goto(f, "writing", "written")
  /\ disk' = [disk EXCEPT ![Tmp(f)] = @ + 1]
  /\ UNCHANGED <<Accounts, Observing, failures>>

\* ... or in part: the error leaves before the write is recorded.
AppendTorn(f) ==
  /\ Goto(f, "writing", "failed")
  /\ \E part \in 0..1 : disk' = [disk EXCEPT ![Tmp(f)] = @ + part]
  /\ failures' = failures \cup {"append"}
  /\ UNCHANGED <<Accounts, Observing>>

RecordWrite(f) ==
  /\ Goto(f, "written", "open")
  /\ Count(Tmp(f))
  /\ UNCHANGED <<disk, Observing, failures>>

\* Where the file and its manifest are once it is sealed, or a seal stopped.
\* A spool is sealed when it holds every row.
PlacedAs(f, data, manifest, size) ==
  /\ f \in Spools => disk[Tmp(f)] = MaxSize
  /\ disk' = [disk EXCEPT ![Tmp(f)] = NoFile, ![Path(f, data)] = disk[Tmp(f)],
                          ![Path(f, manifest)] = size]

\* Sealing writes a manifest under a temporary name, then gives the file and
\* the manifest their final names.  Nothing of it is recorded.
Seal(f) ==
  /\ Goto(f, "open", "sealed")
  /\ PlacedAs(f, "final", "manifest", ManifestSize)
  /\ UNCHANGED <<Accounts, Observing, failures>>

\* A seal that stops on the way: at the manifest, written in part or not at
\* all, at either rename or at the sync of the directory.
SealStops(f) ==
  /\ Goto(f, "open", "unsealed")
  /\ \/ \E part \in {NoFile} \cup 0..ManifestSize :
           PlacedAs(f, "temporary", "temporary manifest", part)
     \/ \E manifest \in {"temporary manifest", "manifest"} :
           PlacedAs(f, "final", manifest, ManifestSize)
  /\ failures' = failures \cup {"seal"}
  /\ UNCHANGED <<Accounts, Observing>>

\* Names go one after the other; the first that will not go ends it.
FirstOf(names) == {{names[i] : i \in 1..n} : n \in 0..Len(names)}
Unlinked(sizes, f, names) ==
  [p \in Paths |-> IF p.file = f /\ p.name \in names THEN NoFile ELSE sizes[p]]

-------------------------------------------------------------------------------
(* The spool of a session *)

CreateSpool(f) ==
  /\ f \in Spools
  /\ Goto(f, "none", "open")
  /\ disk' = [disk EXCEPT ![Tmp(f)] = 0]
  /\ UNCHANGED <<Accounts, Observing, failures>>

\* push_chunk registers the file at every chunk, before it appends.
RegisterChunk(f) ==
  /\ f \in Spools
  /\ Goto(f, "open", "writing")
  /\ disk[Tmp(f)] < MaxSize
  /\ Count(Tmp(f))
  /\ UNCHANGED <<disk, Observing, failures>>

\* finalize records the removal under the name the file had before the seal.
RecordChecked(f) ==
  /\ f \in Spools
  /\ \E outcome \in {"accepted", "refused"} : Goto(f, "sealed", outcome)
  /\ Discount(Tmp(f))
  /\ UNCHANGED <<disk, Observing, failures>>

\* The spool goes; a session whose check failed is still to be dropped.
RemoveChecked(f) ==
  /\ Goto(f, "accepted", "gone") \/ Goto(f, "refused", "unsealed")
  /\ disk' = Unlinked(disk, f, Names)
  /\ UNCHANGED <<Accounts, Observing, failures>>

\* PbmoSession::drop before finalization records the removal under the
\* spool's active name.
RecordDropped(f) ==
  /\ f \in Spools
  /\ \E from \in {"open", "failed", "sealed", "unsealed", "ending"} : Goto(f, from, "dropped")
  /\ Discount(IF job[f] \in {"sealed", "ending"} THEN Final(f) ELSE Tmp(f))
  /\ UNCHANGED <<disk, Observing, failures>>

RemoveDropped(f) ==
  /\ Goto(f, "dropped", "gone")
  /\ disk' = Unlinked(disk, f, Names)
  /\ UNCHANGED <<Accounts, Observing, failures>>

SpoolNames == <<"temporary", "temporary manifest", "final", "manifest">>

\* The removal stops, though it is recorded already: the spool still counts as
\* sealed when its session is dropped, which tries again, the last time.
RemovalStops(f) ==
  /\ Goto(f, "accepted", "ending") \/ Goto(f, "refused", "ending") \/ Goto(f, "dropped", "gone")
  /\ \E gone \in FirstOf(SpoolNames) : disk' = Unlinked(disk, f, gone)
  /\ failures' = failures \cup {"remove"}
  /\ UNCHANGED <<Accounts, Observing>>

-------------------------------------------------------------------------------
(* An object of the multi-state store *)

CreateObject(f) ==
  /\ f \in Objects
  /\ Goto(f, "none", "created")
  /\ disk' = [disk EXCEPT ![Tmp(f)] = 0]
  /\ UNCHANGED <<Accounts, Observing, failures>>

RegisterObject(f) ==
  /\ Goto(f, "created", "open")
  /\ Count(Tmp(f))
  /\ UNCHANGED <<disk, Observing, failures>>

AppendObject(f) ==
  /\ f \in Objects
  /\ Goto(f, "open", "writing")
  /\ disk[Tmp(f)] < MaxSize
  /\ UNCHANGED <<disk, Accounts, Observing, failures>>

ObjectNames == <<"temporary", "final", "manifest">>

\* delete_object removes the names of the object, then records it.  The
\* temporary manifest of a seal that stopped is none of them.
DeleteObject(f) ==
  /\ f \in Objects
  /\ \E from \in {"open", "failed", "sealed", "unsealed"} : Goto(f, from, "deleted")
  /\ disk' = Unlinked(disk, f, Range(ObjectNames))
  /\ UNCHANGED <<Accounts, Observing, failures>>

Emptied(f) ==
  [p \in Paths |-> IF p.file = f /\ p.name \in DataNames /\ disk[p] # NoFile THEN 0 ELSE disk[p]]

\* A name would not go: the error leaves before the removal is recorded.  The
\* file was emptied before, or not.
DeleteFails(f) ==
  /\ f \in Objects
  /\ \E from \in {"open", "failed", "sealed", "unsealed"} : Goto(f, from, "gone")
  /\ \E gone \in FirstOf(ObjectNames), left \in {disk, Emptied(f)} : disk' = Unlinked(left, f, gone)
  /\ failures' = failures \cup {"delete"}
  /\ UNCHANGED <<Accounts, Observing>>

\* Truncation and removal of the temporary name; the final name was never
\* counted.
RecordDeleted(f) ==
  /\ Goto(f, "deleted", "gone")
  /\ Discount(Tmp(f))
  /\ UNCHANGED <<disk, Observing, failures>>

\* The store's own cleanup, when it is dropped, empties its directory and
\* records nothing.
Sweep(f) ==
  /\ f \in Objects /\ job[f] = "gone"
  /\ disk' = Unlinked(disk, f, Names)
  /\ UNCHANGED <<job, Accounts, Observing, failures>>

-------------------------------------------------------------------------------
WriteStep(f) ==
  \/ AppendChunk(f) \/ AppendTorn(f) \/ RecordWrite(f) \/ Seal(f)
  \/ SealStops(f) \/ CreateSpool(f) \/ RegisterChunk(f) \/ RecordChecked(f)
  \/ RemoveChecked(f) \/ RecordDropped(f) \/ RemoveDropped(f) \/ RemovalStops(f)
  \/ CreateObject(f) \/ RegisterObject(f) \/ AppendObject(f) \/ DeleteObject(f)
  \/ DeleteFails(f) \/ RecordDeleted(f) \/ Sweep(f)

\* Between the operations of a file's writer.
QuietFile(f) ==
  job[f] \in {"none", "open", "failed", "sealed", "unsealed", "ending", "gone"}
Quiet == \A f \in Files : QuietFile(f)

-------------------------------------------------------------------------------
(* Properties *)

\* Between two operations the direct count is the number of bytes of the
\* files themselves, their manifests left out, whatever the order in which
\* several files are written, sealed, removed and dropped, wherever a seal
\* stopped and whichever name each report used (record_artifact_write,
\* record_artifact_remove).  A partly written chunk, or a spool whose removal
\* stopped after it was recorded, can only make the count too low; an object
\* whose name would not go can also leave it too high.
DirectMatchesDisk ==
  Quiet => /\ failures \subseteq {"seal"} => current = DataOnDisk
           /\ "delete" \notin failures => current <= DataOnDisk

===============================================================================
