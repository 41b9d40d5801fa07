--------------------------- MODULE StateObjectStore ---------------------------
(***************************************************************************)
(* The prover's spilled state:                                             *)
(* experiments/libspartan/vendor/spartan-0.9.0/src/multi_state_store.rs,   *)
(* MultiObjectFileBackedStateStore, over the directories of secure_temp.rs.*)
(*                                                                         *)
(* A store makes the directory of its proof session, opens what has that   *)
(* name then and keeps the handle; objects are appended in chunks under a  *)
(* temporary name, sealed by a manifest and two renames, scanned, deleted. *)
(* There is no lock: a create that finds the directory purges it by name   *)
(* and is rejected, also when another process is still using it.  A        *)
(* directory is named here after the store that made it; one that was      *)
(* removed stays open in a store's hands but takes no new file.  Between   *)
(* the making and the opening another process can purge the directory and  *)
(* make its own, which both then work in; every manifest of the session    *)
(* verifies there.  A call that is refused before it changes anything is   *)
(* not a step.                                                             *)
(***************************************************************************)
EXTENDS Integers, Sequences, FiniteSets, Functions

CONSTANTS
  Stores,      \* the stores of one proof session, each created once
  Objects,     \* object ids
  ChunkSize,   \* maximum_chunk_bytes, and the chunk_size of the descriptors
  Logical,     \* logical_element_count of the descriptors
  MaxBytes,    \* maximum_temporary_storage_bytes
  FullChunks,  \* the caller's chunks are full but for the last of an object
  Retries,     \* the caller may go on with a store after a call that failed
  MaxNonce,    \* bound on the temporary names a store uses (TEMP_NONCE)
  MaxFaults,   \* bound on I/O errors
  None         \* no directory, no bytes

ASSUME StateConstantsOK ==
  /\ ChunkSize \in Nat \ {0}
  /\ Logical \in Nat \ {0}
  /\ MaxBytes \in Nat
  /\ MaxNonce \in Nat
  /\ MaxFaults \in Nat
  /\ FullChunks \in BOOLEAN
  /\ Retries \in BOOLEAN
  /\ None \notin Stores

VARIABLES
  session,  \* the directory that the session's name stands for
  files,    \* what is under each name of a directory
  store,    \* the stores
  objects,  \* their maps of objects
  robbed,   \* history: directories another process has purged
  shared,   \* history: directories taken by a store that had not made them
  faults    \* I/O errors so far

stateVars == <<session, files, store, objects, robbed, shared, faults>>

-------------------------------------------------------------------------------
(* Names and contents *)

\* Final names have nonce 0.
Data(o) == [obj |-> o, kind |-> "state", nonce |-> 0]
Meta(o) == [obj |-> o, kind |-> "meta", nonce |-> 0]
TempData(o, n) == [obj |-> o, kind |-> "state", nonce |-> n]
TempMeta(o, n) == [obj |-> o, kind |-> "meta", nonce |-> n]

\* Element i of the object that store s began under nonce n.
Element(s, n, i) == <<s, n, i>>
Elements(s, n, from, len) == [i \in 1..len |-> Element(s, n, from + i)]
Whole(s, n) == Elements(s, n, 0, Logical)

Torn == [length |-> 0, chunks |-> 0, sum |-> <<>>, whole |-> FALSE]

NoObject == [state |-> "absent", length |-> 0, chunks |-> 0, nonce |-> 0]

Unmade ==
  [phase |-> "new", fd |-> None, used |-> 0, nonce |-> 0, obj |-> "none", plan |-> {},
   dropped |-> FALSE, again |-> FALSE, cleaned |-> FALSE]

\* A store that is dropped or whose process is killed, and what it knew.
Over(s, phase) ==
  [Unmade EXCEPT !.phase = phase, !.fd = store[s].fd, !.cleaned = store[s].cleaned]

Nothing == [o \in Objects |-> NoObject]

Put(d, name, content) ==
  [files EXCEPT ![d] = [x \in DOMAIN @ \cup {name} |-> IF x = name THEN content ELSE @[x]]]

Without(f, names) == Restrict(f, DOMAIN f \ names)

\* A rename within a directory.
Renamed(f, from, to) ==
  [x \in (DOMAIN f \ {from}) \cup {to} |-> IF x = to THEN f[from] ELSE f[x]]

Dir(s) == files[store[s].fd]
Has(s, name) == name \in DOMAIN Dir(s)
Linked(s) == session = store[s].fd

At(s, phase) == store[s].phase = phase

Fault == faults < MaxFaults /\ faults' = faults + 1

\* The caller drops the store after an error (the provers unwind), or goes on.
Stumbles(s, r) ==
  \/ store' = [store EXCEPT ![s] = [r EXCEPT !.phase = "failed"]]
  \/ Retries /\ store' = [store EXCEPT ![s] = [r EXCEPT !.phase = "live", !.again = TRUE]]

StateInit ==
  /\ session = None
  /\ files = [d \in Stores |-> <<>>]
  /\ store = [s \in Stores |-> Unmade]
  /\ objects = [s \in Stores |-> Nothing]
  /\ robbed = {}
  /\ shared = {}
  /\ faults = 0

-------------------------------------------------------------------------------
(* create *)

\* mkdirat.
MakeDirectory(s) ==
  /\ At(s, "new")
  /\ session = None
  /\ session' = s
  /\ store' = [store EXCEPT ![s].phase = "made"]
  /\ UNCHANGED <<files, objects, robbed, shared, faults>>

\* openat of the name, which may be gone or another's by now; then the fsync of
\* the parent, which may fail.
OpenDirectory(s) ==
  /\ At(s, "made")
  /\ \/ /\ session # None
        /\ store' = [store EXCEPT ![s].phase = "live", ![s].fd = session]
        /\ shared' = shared \cup ({session} \ {s})
        /\ UNCHANGED faults
     \/ /\ (session = None /\ UNCHANGED faults) \/ Fault
        /\ store' = [store EXCEPT ![s].phase = "ended"]
        /\ UNCHANGED shared
  /\ UNCHANGED <<session, files, objects, robbed>>

\* It is there already, and is opened.
PurgeOpen(s) ==
  /\ At(s, "new")
  /\ session # None
  /\ store' = [store EXCEPT ![s].phase = "opened", ![s].fd = session]
  /\ UNCHANGED <<session, files, objects, robbed, shared, faults>>

\* The names are listed by the path, in whatever directory has it now.
PurgeList(s) ==
  /\ At(s, "opened")
  /\ store' = [store EXCEPT ![s] =
       IF session = None THEN Unmade
       ELSE [@ EXCEPT !.phase = "purging", !.plan = DOMAIN files[session]]]
  /\ UNCHANGED <<session, files, objects, robbed, shared, faults>>

\* A listed name is gone from the directory that has the session's name now.
Vanished(s) ==
  /\ store[s].plan # {}
  /\ ~(session \in Stores /\ store[s].plan \subseteq DOMAIN files[session])

\* cleanup_files_only: every listed name is looked up by its path and unlinked
\* in the open directory, all of them or, with an error, some.
Unlink(s, done, stopped) ==
  \/ /\ files' = [files EXCEPT ![store[s].fd] = Without(@, store[s].plan)]
     /\ store' = [store EXCEPT ![s] = done]
     /\ UNCHANGED faults
  \/ /\ Fault \/ (Vanished(s) /\ UNCHANGED faults)
     /\ \E names \in SUBSET store[s].plan :
          files' = [files EXCEPT ![store[s].fd] = Without(@, names)]
     /\ store' = [store EXCEPT ![s] = stopped]

PurgeUnlink(s) ==
  /\ At(s, "purging")
  /\ Unlink(s, [store[s] EXCEPT !.phase = "purged"], Unmade)
  /\ robbed' = robbed \cup {store[s].fd}
  /\ UNCHANGED <<session, objects, shared>>

\* The directory that has the name now is removed when it is empty.
RemoveEmptyChild ==
  session' = IF session # None /\ DOMAIN files[session] = {} THEN None ELSE session

\* The create is rejected whether or not the directory could be removed; the
\* caller may try again.
PurgeRmdir(s) ==
  /\ At(s, "purged")
  /\ (RemoveEmptyChild /\ UNCHANGED faults) \/ (Fault /\ UNCHANGED session)
  /\ store' = [store EXCEPT ![s] = Unmade]
  /\ UNCHANGED <<files, objects, robbed, shared>>

-------------------------------------------------------------------------------
(* Objects *)

\* A nonce is used also when a name is there already or the directory has lost
\* its own.
CreateObject(s, o) ==
  LET n    == store[s].nonce + 1
      free == Linked(s) /\ \A name \in {Data(o), Meta(o), TempData(o, n)} : ~Has(s, name)
  IN /\ At(s, "live")
     /\ n <= MaxNonce
     /\ objects[s][o].state = "absent"
     /\ \/ /\ free
           /\ files' = Put(store[s].fd, TempData(o, n), <<>>)
           /\ objects' = [objects EXCEPT ![s][o] = [NoObject EXCEPT !.state = "open", !.nonce = n]]
        \/ /\ ~free
           /\ UNCHANGED <<files, objects>>
     /\ store' = [store EXCEPT ![s].nonce = n]
     /\ UNCHANGED <<session, robbed, shared, faults>>

Fits(s, n) == store[s].used + n <= MaxBytes

\* The chunks the caller may append next.  That an object does not outgrow its
\* logical count is the caller's doing.
Appends(s, o, n) ==
  /\ At(s, "live")
  /\ objects[s][o].state = "open"
  /\ Fits(s, n)
  /\ objects[s][o].length + n <= Logical
  /\ FullChunks => n = ChunkSize \/ objects[s][o].length + n = Logical

\* The name of an object's open file.  In a shared directory another store's
\* calls may have taken or changed it: it is then known by its first element.
NameNow(s, o) ==
  LET own  == TempData(o, objects[s][o].nonce)
      mine == {x \in {own, Data(o)} :
                 Has(s, x) /\ Element(s, objects[s][o].nonce, 1) \in Range(Dir(s)[x])}
  IN IF store[s].fd \notin shared THEN {own}
     ELSE IF mine # {} THEN mine
     ELSE IF objects[s][o].length > 0 THEN {None}
     ELSE {own, Data(o), None}

\* n elements reach the end of the file called name, unless it has none.
Written(s, o, n, name) ==
  IF Has(s, name)
    THEN Put(store[s].fd, name,
             Dir(s)[name] \o Elements(s, objects[s][o].nonce, objects[s][o].length, n))
    ELSE files

AppendChunk(s, o, n) ==
  /\ Appends(s, o, n)
  /\ \E name \in NameNow(s, o) : files' = Written(s, o, n, name)
  /\ objects' = [objects EXCEPT ![s][o].length = @ + n, ![s][o].chunks = @ + 1]
  /\ store' = [store EXCEPT ![s].used = @ + n]
  /\ UNCHANGED <<session, robbed, shared, faults>>

\* write_all stops after k of the chunk's n elements, which nothing counts.
AppendTorn(s, o, n) ==
  /\ Appends(s, o, n)
  /\ Fault
  /\ \E k \in 0..(n - 1), name \in NameNow(s, o) : files' = Written(s, o, k, name)
  /\ Stumbles(s, store[s])
  /\ UNCHANGED <<session, objects, robbed, shared>>

\* Mutant of Manifest: the chunk count starts at one.
ManifestOneMore(s, o, name) ==
  [length |-> objects[s][o].length, chunks |-> objects[s][o].chunks + 1,
   sum |-> IF Has(s, name) THEN Dir(s)[name] ELSE <<>>, whole |-> TRUE]

\* The counts of the store and the checksum of the file.  A file without a name
\* has a checksum too, which no file with a name agrees with.
Manifest(s, o, name) ==
  [length |-> objects[s][o].length, chunks |-> objects[s][o].chunks,
   sum |-> IF Has(s, name) THEN Dir(s)[name] ELSE <<>>, whole |-> TRUE]

\* The data is synced and read first, which may fail.
SealStops(s, o) ==
  /\ At(s, "live")
  /\ objects[s][o].state = "open"
  /\ Fault
  /\ Stumbles(s, store[s])
  /\ UNCHANGED <<session, files, objects, robbed, shared>>

\* The object counts as sealed before its manifest is written.
SealManifest(s, o) ==
  LET n    == store[s].nonce + 1
      temp == TempMeta(o, n)
      free == Linked(s) /\ ~Has(s, temp)
      r    == [store[s] EXCEPT !.nonce = n, !.obj = o]
  IN /\ At(s, "live")
     /\ n <= MaxNonce
     /\ objects[s][o].state = "open"
     /\ objects' = [objects EXCEPT ![s][o].state = "sealed"]
     /\ \/ /\ free
           /\ \E name \in NameNow(s, o) : files' = Put(store[s].fd, temp, Manifest(s, o, name))
           /\ store' = [store EXCEPT ![s] = [r EXCEPT !.phase = "sealing"]]
           /\ UNCHANGED faults
        \/ /\ ~free
           /\ Stumbles(s, r)
           /\ UNCHANGED <<files, faults>>
        \/ /\ free
           /\ Fault
           /\ files' \in {files, Put(store[s].fd, temp, Torn)}
           /\ Stumbles(s, r)
     /\ UNCHANGED <<session, robbed, shared>>

\* One of the two renames; the name may have been purged.
SealRename(s, from, to, r) ==
  \/ /\ Has(s, from)
     /\ files' = [files EXCEPT ![store[s].fd] = Renamed(@, from, to)]
     /\ store' = [store EXCEPT ![s] = r]
     /\ UNCHANGED faults
  \/ /\ (~Has(s, from) /\ UNCHANGED faults) \/ Fault
     /\ Stumbles(s, store[s])
     /\ UNCHANGED files

SealData(s) ==
  LET o == store[s].obj
  IN /\ At(s, "sealing")
     /\ SealRename(s, TempData(o, objects[s][o].nonce), Data(o),
                   [store[s] EXCEPT !.phase = "renamed"])
     /\ UNCHANGED <<session, objects, robbed, shared>>

\* After the second one the directory is synced.
SealMeta(s) ==
  LET o    == store[s].obj
      temp == TempMeta(o, store[s].nonce)
  IN /\ At(s, "renamed")
     /\ \/ SealRename(s, temp, Meta(o), [store[s] EXCEPT !.phase = "live"])
        \/ /\ Has(s, temp)
           /\ Fault
           /\ files' = [files EXCEPT ![store[s].fd] = Renamed(@, temp, Meta(o))]
           /\ Stumbles(s, store[s])
     /\ UNCHANGED <<session, objects, robbed, shared>>

\* delete_object of an object of the map: the bytes are given back first, then
\* the file is truncated and its names are unlinked.
NamesOf(s, o) == <<TempData(o, objects[s][o].nonce), Data(o), Meta(o)>>

Truncated(f, names) == [x \in DOMAIN f |-> IF x \in names THEN <<>> ELSE f[x]]

\* What a stopped deletion leaves of the directory.
DeletionStops(s, o) ==
  LET names == NamesOf(s, o)
      data  == {names[1], names[2]}
  IN {Without(Truncated(Dir(s), open), {names[j] : j \in 1..i}) : i \in 0..3, open \in SUBSET data}

\* Mutant of DeleteObject: only the final names are unlinked.
DeleteKeepsTemporary(s, o) ==
  /\ At(s, "live")
  /\ objects' = [objects EXCEPT ![s][o] = NoObject]
  /\ files' = [files EXCEPT ![store[s].fd] = Without(@, {Data(o), Meta(o)})]
  /\ store' = [store EXCEPT ![s].used = @ - objects[s][o].length]
  /\ UNCHANGED <<session, robbed, shared, faults>>

DeleteObject(s, o) ==
  LET r == [store[s] EXCEPT !.used = @ - objects[s][o].length]
  IN /\ At(s, "live")
     /\ objects' = [objects EXCEPT ![s][o] = NoObject]
     /\ \/ /\ files' = [files EXCEPT ![store[s].fd] =
                         Without(@, {NamesOf(s, o)[j] : j \in 1..3})]
           /\ store' = [store EXCEPT ![s] = r]
           /\ UNCHANGED faults
        \/ /\ Fault
           /\ \E f \in DeletionStops(s, o) : files' = [files EXCEPT ![store[s].fd] = f]
           /\ Stumbles(s, r)
     /\ UNCHANGED <<session, robbed, shared>>

-------------------------------------------------------------------------------
(* Reading *)

Error == None

\* verified_metadata of a scalar object, and the data file is there.
Verified(s, o) ==
  /\ Has(s, Meta(o)) /\ Has(s, Data(o))
  /\ Dir(s)[Meta(o)].whole
  /\ Dir(s)[Meta(o)].length = Logical

\* Mutant of Scan: the length of the file is not compared.
ScanAnyLength(s, o) ==
  LET m == Dir(s)[Meta(o)]
      d == Dir(s)[Data(o)]
  IN IF Verified(s, o) /\ (m.chunks - 1) * ChunkSize <= m.length /\ d = m.sum
       THEN SubSeq(d, 1, m.length) ELSE Error

\* sequential_scan: chunk_count slots of chunk_size bytes are read, and an
\* object with more chunks than slots has no length left for the last one.
Scan(s, o) ==
  LET m == Dir(s)[Meta(o)]
      d == Dir(s)[Data(o)]
  IN IF /\ Verified(s, o)
        /\ Len(d) = m.length
        /\ (m.chunks - 1) * ChunkSize <= m.length
        /\ d = m.sum
       THEN d ELSE Error

-------------------------------------------------------------------------------
(* abort_session_cleanup *)

\* An aborted cleanup: the caller panics and Drop tries again; after Drop there
\* is nobody left.
GiveUp(s) == IF store[s].dropped THEN Over(s, "ended") ELSE [store[s] EXCEPT !.phase = "failed"]

Ends(s, phase) ==
  /\ store' = [store EXCEPT ![s] = Over(s, phase)]
  /\ objects' = [objects EXCEPT ![s] = Nothing]

\* The objects of the map are deleted, all or up to the one that fails.
CleanupDeletes(s, drop) ==
  LET held  == {o \in Objects : objects[s][o].state # "absent"}
      names(os) == UNION {{NamesOf(s, o)[j] : j \in 1..3} : o \in os}
      r(os) == [store[s] EXCEPT !.dropped = drop,
                  !.used = @ - SumFunctionOnSet([o \in Objects |-> objects[s][o].length], os)]
      forget(os) == [objects EXCEPT ![s] = [o \in Objects |-> IF o \in os THEN NoObject ELSE @[o]]]
  IN /\ store[s].phase \in {"live"} \cup (IF drop THEN {"cleaned", "failed"} ELSE {})
     /\ \/ /\ files' = [files EXCEPT ![store[s].fd] = Without(@, names(held))]
           /\ objects' = forget(held)
           /\ store' = [store EXCEPT ![s] = [r(held) EXCEPT !.phase = "deleted"]]
           /\ UNCHANGED faults
        \/ /\ Fault
           /\ \E os \in SUBSET held : \E o \in held \ os :
                /\ \E f \in DeletionStops(s, o) :
                     files' = [files EXCEPT ![store[s].fd] = Without(f, names(os))]
                /\ IF drop
                     THEN Ends(s, "ended")
                     ELSE /\ objects' = forget(os \cup {o})
                          /\ store' = [store EXCEPT ![s] =
                               [r(os \cup {o}) EXCEPT !.phase = "failed"]]
     /\ UNCHANGED <<session, robbed, shared>>

\* cleanup_files_only lists whatever directory has the session's name.
CleanupList(s) ==
  /\ At(s, "deleted")
  /\ store' = [store EXCEPT ![s] =
       IF session = None THEN GiveUp(s)
       ELSE [@ EXCEPT !.phase = "listed", !.plan = DOMAIN files[session]]]
  /\ UNCHANGED <<session, files, objects, robbed, shared, faults>>

\* It unlinks those names in the store's own directory.
CleanupUnlink(s) ==
  /\ At(s, "listed")
  /\ Unlink(s, [store[s] EXCEPT !.phase = "unlinked", !.plan = {}],
               [GiveUp(s) EXCEPT !.plan = {}])
  /\ UNCHANGED <<session, objects, robbed, shared>>

Cleaned(s) ==
  store' = [store EXCEPT ![s] =
    [(IF store[s].dropped THEN Over(s, "ended") ELSE [@ EXCEPT !.phase = "cleaned"])
       EXCEPT !.cleaned = TRUE]]

\* Mutant of CleanupRmdir: an error of the removal is dropped.
CleanupRmdirUnchecked(s) ==
  /\ At(s, "unlinked")
  /\ (RemoveEmptyChild /\ UNCHANGED faults) \/ (Fault /\ UNCHANGED session)
  /\ Cleaned(s)
  /\ UNCHANGED <<files, objects, robbed, shared>>

\* The name is removed, and the parent synced.
CleanupRmdir(s) ==
  /\ At(s, "unlinked")
  /\ \/ /\ RemoveEmptyChild
        /\ session' = None
        /\ Cleaned(s)
        /\ UNCHANGED faults
     \/ /\ (session # None /\ DOMAIN files[session] # {} /\ UNCHANGED <<session, faults>>)
             \/ (Fault /\ (RemoveEmptyChild \/ UNCHANGED session))
        /\ store' = [store EXCEPT ![s] = GiveUp(s)]
  /\ UNCHANGED <<files, objects, robbed, shared>>

-------------------------------------------------------------------------------

Dead(s) == store[s].phase \in {"ended", "killed"}

\* The process is killed: nothing is dropped.
Kill(s) ==
  /\ ~Dead(s)
  /\ ~At(s, "new")
  /\ Ends(s, "killed")
  /\ UNCHANGED <<session, files, robbed, shared, faults>>

\* A caller that wants a store.
Opening(s) ==
  MakeDirectory(s) \/ OpenDirectory(s) \/ PurgeOpen(s) \/ PurgeList(s) \/ PurgeUnlink(s) \/ PurgeRmdir(s)

StateNext ==
  \E s \in Stores :
    \/ Opening(s)
    \/ \E o \in Objects :
         \/ CreateObject(s, o)
         \/ \E n \in 1..ChunkSize : AppendChunk(s, o, n) \/ AppendTorn(s, o, n)
         \/ SealStops(s, o)
         \/ SealManifest(s, o)
         \/ DeleteObject(s, o)
    \/ SealData(s)
    \/ SealMeta(s)
    \/ \E drop \in BOOLEAN : CleanupDeletes(s, drop)
    \/ CleanupList(s)
    \/ CleanupUnlink(s)
    \/ CleanupRmdir(s)
    \/ Kill(s)

StateSpec == StateInit /\ [][StateNext]_stateVars

-------------------------------------------------------------------------------
(* Properties *)

\* The store works in the directory it has made, and no other store does.
Alone(s) == store[s].fd = s /\ s \notin shared

\* A scan hands out all the elements this store appended to the object, in
\* their order, and never a byte of another store's run, of an object that had
\* the name before or of an append that failed (multi_state_store.rs
\* sequential_scan); whatever was purged, torn, left by a killed process or
\* retried, the only other answer is an error.  Two stores that opened one
\* directory are the exception: nothing keeps their objects apart.
ScansRight ==
  \A s \in Stores, o \in Objects :
    At(s, "live") /\ Alone(s) /\ Scan(s, o) # Error =>
      \E n \in 1..MaxNonce :
        /\ Scan(s, o) = Whole(s, n)
        /\ objects[s][o].state # "absent" => n = objects[s][o].nonce

\* An object sealed at its full length can be read by the store that wrote it,
\* unless a call of this store failed before, another process has purged the
\* directory or works in it too; no other process's cleanup does it any harm.
SealedReadable ==
  \A s \in Stores, o \in Objects :
    At(s, "live") /\ Alone(s) /\ ~store[s].again /\ store[s].fd \notin robbed
      /\ objects[s][o].state = "sealed" /\ objects[s][o].length = Logical =>
        Scan(s, o) = Whole(s, objects[s][o].nonce)

DataBytes(s) ==
  SumFunctionOnSet([x \in DOMAIN Dir(s) |-> IF x.kind = "state" THEN Len(Dir(s)[x]) ELSE 0],
                   DOMAIN Dir(s))

\* The data on the disk is what current_bytes counts, within the bound on
\* temporary storage, until a call of a store has failed or two stores have
\* opened one directory (append_chunk, delete_object).
DiskWithinBudget ==
  \A s \in Stores :
    store[s].phase \in {"live", "sealing", "renamed"} /\ Alone(s) /\ ~store[s].again =>
      DataBytes(s) <= store[s].used /\ store[s].used <= MaxBytes

\* A cleanup that reported success has left neither the directory nor a file,
\* also where two stores have worked in it.
CleanedMeansGone ==
  \A s \in Stores : store[s].cleaned => session # store[s].fd /\ DOMAIN Dir(s) = {}

===============================================================================
