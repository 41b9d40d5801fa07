---------------------------- MODULE TokenStoreInv ----------------------------
(***************************************************************************)
(* The inductive invariant of TokenStore: what holds between any two steps *)
(* and is strong enough to carry the properties through every one of them. *)
(***************************************************************************)
EXTENDS TokenStore

\* The lock is held by exactly the process that is inside a writing call.
LockInv ==
  \A h \in Handles :
    /\ Busy(h) <=> lock = h
    /\ ~Busy(h) => op[h] = NoCall

\* A token without a record has the blank record.
Blank(s) == \A t \in Tokens : s.rec[t].state = "absent" => s.rec[t] = NoRecord

\* Every journal that can be found is an earlier version of the visible one.
Earlier(s1, s2) ==
  /\ s1.gen <= s2.gen
  /\ \A t \in Tokens : Precedes(s1.rec[t], s2.rec[t])

ImagesInv ==
  /\ journal \in images
  /\ \A s \in images : WellFormed(s) /\ Blank(s) /\ Earlier(s, journal)

\* The call has not renamed its snapshot over the journal yet.
BeforeCommit(h) ==
  \/ pc[h] = "putJournal"
  \/ pc[h] \in {"putFile", "syncFile"} /\ op[h].kind = "insert"

\* The call's snapshot is the journal and has been fsynced.
AfterCommit(h) == pc[h] \in {"putFile", "syncFile"} /\ op[h].kind # "insert"

\* The record a call writes.
Target(h) == op[h].snap.rec[op[h].tid]

\* What a call in progress writes, by its kind.
KindInv(h) ==
  /\ op[h].kind # "none"
  /\ op[h].kind \in {"open", "recover"} => pc[h] \in {"putJournal", "syncJournal"}
  /\ op[h].kind \in {"insert", "reserve", "mark"} => op[h].tid \in Tokens
  /\ op[h].kind = "insert" => Target(h).state = "available"
  /\ op[h].kind = "reserve" =>
       /\ Target(h).state = "reserved"
       /\ Target(h).gen = op[h].snap.gen
       /\ Target(h).bind \in Bindings
       /\ Target(h).bind.ctx = TokenCtx[op[h].tid]
  /\ op[h].kind = "mark" =>
       /\ Target(h).state \in Terminal
       /\ Target(h).bind \in Bindings

\* The snapshot of a call that has not committed is the next version of the
\* journal, and moves no record in a way its kind does not.
PlanInv(h) ==
  LET snap == op[h].snap
  IN /\ snap.gen = journal.gen + 1
     /\ \A t \in Tokens : RecordAdvances(journal.rec[t], snap.rec[t])
     /\ \A t \in Tokens :
          snap.rec[t].state = "available" /\ journal.rec[t].state = "absent" =>
            op[h].kind = "insert" /\ t = op[h].tid
     /\ op[h].kind = "insert" => journal.rec[op[h].tid].state = "absent"

\* A token that is being reserved, and its invocation id, have not been
\* granted before.
FreshInv(h) ==
  op[h].kind = "reserve" =>
    \A r \in granted : r.tid # op[h].tid /\ r.bind.iid # Target(h).bind.iid

\* insert publishes a record only for a token file that cannot be lost.
FileInv(h) ==
  op[h].kind = "insert" =>
    /\ pc[h] = "syncFile" => file[op[h].tid] = "available"
    /\ pc[h] \in {"putJournal", "syncJournal"} =>
         file[op[h].tid] = "available" /\ fileImages[op[h].tid] = {"available"}

\* mark_* and reserve leave the file in the state of the record.
WriteInv(h) ==
  pc[h] = "syncFile" => file[op[h].tid] = Target(h).state

CallInv ==
  \A h \in Handles :
    Busy(h) =>
      /\ WellFormed(op[h].snap)
      /\ Blank(op[h].snap)
      /\ KindInv(h)
      /\ BeforeCommit(h) => PlanInv(h)
      /\ pc[h] = "syncJournal" => journal = op[h].snap
      /\ AfterCommit(h) => journal = op[h].snap /\ images = {journal}
      /\ FreshInv(h)
      /\ FileInv(h)
      /\ WriteInv(h)

\* The inductive invariant.
IInv ==
  /\ TypeOK
  /\ LockInv
  /\ ImagesInv
  /\ CallInv
  /\ SingleUse
  /\ GrantDurable
  /\ SettledDurable
  /\ Reopenable
  /\ CacheCoherent

===============================================================================
