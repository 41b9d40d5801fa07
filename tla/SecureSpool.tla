------------------------------ MODULE SecureSpool ------------------------------
(***************************************************************************)
(* The spool of masked rows,                                               *)
(* experiments/preprocessed-pbmo/src/secure_spool.rs: a payload written    *)
(* under a temporary name, sealed once by a manifest and two renames, read *)
(* back for the aggregate check and removed.  A spool belongs to one       *)
(* session; its names are its own (process id and counter).  The operators *)
(* say what a call leaves behind, whole or stopped by an I/O error.        *)
(***************************************************************************)
EXTENDS Integers, Sequences

Names == {"temp", "manifestTemp", "final", "manifest"}

\* The order in which remove unlinks them.
RemoveOrder == <<"temp", "manifestTemp", "final", "manifest">>

NoSpool == [files |-> {}, payload |-> <<>>, written |-> 0, open |-> FALSE, sealed |-> FALSE]

\* SecureSpool::create.
Created == [files |-> {"temp"}, payload |-> <<>>, written |-> 0, open |-> TRUE, sealed |-> FALSE]

\* Mutant of AfterAppend: the file is written from its start.
AfterAppendFront(s, cells) ==
  [s EXCEPT !.payload = cells \o @, !.written = @ + Len(cells)]

\* append: the scalars reach the payload one by one and are counted together.
AfterAppend(s, cells) ==
  [s EXCEPT !.payload = @ \o cells, !.written = @ + Len(cells)]

\* append that stopped after n scalars; a torn one counts as written.
AfterTornAppend(s, cells, n) ==
  [s EXCEPT !.payload = @ \o SubSeq(cells, 1, n)]

\* What seal_and_open_verified and open_verified require of the contents.
Sealable(s, elements) ==
  /\ s.open
  /\ ~s.sealed
  /\ s.written = elements
  /\ Len(s.payload) = elements

\* seal_and_open_verified: the payload handle is gone, the renames are done.
Sealed(s) == [s EXCEPT !.files = {"final", "manifest"}, !.open = FALSE, !.sealed = TRUE]

\* Its stops: before or after the manifest is created, between the renames,
\* before and after the directory is synced.
SealStops(s) ==
  {[s EXCEPT !.open = FALSE, !.files = {"temp"}],
   [s EXCEPT !.open = FALSE, !.files = {"temp", "manifestTemp"}],
   [s EXCEPT !.open = FALSE, !.files = {"final", "manifestTemp"}],
   [s EXCEPT !.open = FALSE, !.files = {"final", "manifest"}],
   Sealed(s)}

\* Mutant of Removed: the sealed names are forgotten.
RemovedUnsealedOnly(s) ==
  [s EXCEPT !.files = @ \ {"temp", "manifestTemp"}, !.open = FALSE, !.sealed = FALSE]

\* remove.
Removed(s) == [s EXCEPT !.files = {}, !.open = FALSE, !.sealed = FALSE]

\* remove stopped by an error: the names before it are gone.
RemoveStops(s) ==
  {[s EXCEPT !.open = FALSE, !.files = @ \ {RemoveOrder[j] : j \in 1..i}] : i \in 0..4}

===============================================================================
