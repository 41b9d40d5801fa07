--------------------------- MODULE TokenStoreProofs ---------------------------
(***************************************************************************)
(* The safety of TokenStore for any number of processes, tokens, bindings  *)
(* and faults, and then that of the proof attempts of ProofRun, which only *)
(* use the store through its calls: what is proved of TokenStore holds of  *)
(* them.                                                                   *)
(***************************************************************************)
EXTENDS ProofRun, TokenStoreInv, FiniteSetTheorems, TLAPS

-------------------------------------------------------------------------------
(* Records and snapshots *)

\* The empty snapshot has the type of a snapshot.
LEMMA EmptySnapshotOK ==
  /\ EmptySnapshot \in Snapshot
  /\ WellFormed(EmptySnapshot)
  /\ Blank(EmptySnapshot)
  /\ Recorded(EmptySnapshot) = {}
BY ConstantsOK DEF EmptySnapshot, Snapshot, Record, States, Live, Generations, NoRecord,
                   WellFormed, Recorded, Blank

\* A record precedes itself.
LEMMA PrecedesReflexive ==
  ASSUME NEW r \in Record
  PROVE  Precedes(r, r)
BY DEF Precedes, Stage, Record, States, Live, Terminal

\* Earlier versions of earlier versions are earlier versions.
LEMMA PrecedesTransitive ==
  ASSUME NEW r1 \in Record, NEW r2 \in Record, NEW r3 \in Record,
         Precedes(r1, r2), Precedes(r2, r3)
  PROVE  Precedes(r1, r3)
BY DEF Precedes, Stage, Record, States, Live, Terminal

\* A legal move leads to a later version.
LEMMA AdvancePrecedes ==
  ASSUME NEW r1 \in Record, NEW r2 \in Record, RecordAdvances(r1, r2)
  PROVE  Precedes(r1, r2)
BY PrecedesReflexive DEF RecordAdvances, Precedes, Stage, Record, States, Live, Terminal

\* Every token is as early as itself.
LEMMA EarlierReflexive ==
  ASSUME NEW s \in Snapshot
  PROVE  Earlier(s, s)
BY PrecedesReflexive DEF Earlier, Snapshot, Generations

\* The order of a token's life is transitive.
LEMMA EarlierTransitive ==
  ASSUME NEW s1 \in Snapshot, NEW s2 \in Snapshot, NEW s3 \in Snapshot,
         Earlier(s1, s2), Earlier(s2, s3)
  PROVE  Earlier(s1, s3)
<1>1. s1.gen <= s3.gen
  BY ConstantsOK DEF Earlier, Snapshot, Generations
<1>2. ASSUME NEW t \in Tokens
      PROVE  Precedes(s1.rec[t], s3.rec[t])
  BY PrecedesTransitive DEF Earlier, Snapshot
<1> QED BY <1>1, <1>2 DEF Earlier

\* The snapshot with one record replaced is a snapshot, and differs only there.
LEMMA WithRecordOK ==
  ASSUME NEW s \in Snapshot, HasNextGeneration(s), NEW t \in Tokens,
         NEW st \in States \ {"absent"}, NEW b \in Bindings \cup {NoBinding},
         st = "available" <=> b = NoBinding,
         WellFormed(s), Blank(s)
  PROVE  LET n == WithRecord(s, t, st, b)
         IN /\ n \in Snapshot
            /\ n.gen = s.gen + 1
            /\ n.rec[t] = [state |-> st, gen |-> s.gen + 1, bind |-> b]
            /\ \A u \in Tokens : u # t => n.rec[u] = s.rec[u]
            /\ WellFormed(n)
            /\ Blank(n)
<1> DEFINE n == WithRecord(s, t, st, b)
<1>1. s.gen + 1 \in Generations /\ s.gen \in Nat
  BY ConstantsOK DEF HasNextGeneration, Snapshot, Generations
<1>2. /\ n.gen = s.gen + 1
      /\ n.rec = [s.rec EXCEPT ![t] = [state |-> st, gen |-> s.gen + 1, bind |-> b]]
  BY DEF WithRecord
<1>3. n \in Snapshot
  BY <1>1, <1>2 DEF WithRecord, Snapshot, Record
<1>4. n.rec[t] = [state |-> st, gen |-> s.gen + 1, bind |-> b]
  BY <1>2 DEF Snapshot
<1>5. \A u \in Tokens : u # t => n.rec[u] = s.rec[u]
  BY <1>2 DEF Snapshot
<1>6. WellFormed(n)
  <2>1. ASSUME NEW u \in Recorded(n)
        PROVE  /\ n.rec[u].gen \in 1..n.gen
               /\ n.rec[u].state = "available" <=> n.rec[u].bind = NoBinding
    <3>1. CASE u = t
      BY <3>1, <1>1, <1>2, <1>4
    <3>2. CASE u # t
      <4>1. u \in Recorded(s) /\ n.rec[u] = s.rec[u]
        BY <3>2, <1>5 DEF Recorded
      <4>2. s.rec[u].gen \in 1..s.gen
        BY <4>1 DEF WellFormed
      <4> QED BY <4>1, <4>2, <1>1, <1>2 DEF WellFormed
    <3> QED BY <3>1, <3>2
  <2>2. t \in Recorded(n)
    BY <1>4 DEF Recorded
  <2> QED BY <2>1, <2>2 DEF WellFormed
<1>7. Blank(n)
  BY <1>4, <1>5 DEF Blank
<1> QED BY <1>2, <1>3, <1>4, <1>5, <1>6, <1>7

\* Recovery yields a snapshot in which every reserved record is burned and no
\* other record has changed.
LEMMA RecoveredOK ==
  ASSUME NEW s \in Snapshot, HasNextGeneration(s), HasReserved(s),
         WellFormed(s), Blank(s)
  PROVE  LET n == Recovered(s)
         IN /\ n \in Snapshot
            /\ n.gen = s.gen + 1
            /\ \A t \in Tokens : \/ n.rec[t] = s.rec[t]
                                 \/ /\ s.rec[t].state = "reserved"
                                    /\ n.rec[t].state = "burned"
                                    /\ n.rec[t].bind = s.rec[t].bind
            /\ WellFormed(n)
            /\ Blank(n)
<1> DEFINE n == Recovered(s)
<1>1. s.gen + 1 \in Generations /\ s.gen \in Nat
  BY ConstantsOK DEF HasNextGeneration, Snapshot, Generations
<1>2. n.gen = s.gen + 1
  BY DEF Recovered
<1>3. \A t \in Tokens :
        s.rec[t].state = "reserved" =>
          n.rec[t] = [state |-> "burned", gen |-> s.gen + 1, bind |-> s.rec[t].bind]
  BY DEF Recovered
<1>4. \A t \in Tokens : s.rec[t].state # "reserved" => n.rec[t] = s.rec[t]
  BY DEF Recovered
<1>5. n \in Snapshot
  BY <1>1 DEF Recovered, Snapshot, Record, States, Live
<1> HIDE DEF n
<1>6. \A t \in Tokens :
        s.rec[t].state = "reserved" =>
          n.rec[t].state = "burned" /\ n.rec[t].gen = s.gen + 1 /\ n.rec[t].bind = s.rec[t].bind
  <2>1. ASSUME NEW t \in Tokens, s.rec[t].state = "reserved"
        PROVE  n.rec[t].state = "burned" /\ n.rec[t].gen = s.gen + 1 /\ n.rec[t].bind = s.rec[t].bind
    <3>1. n.rec[t] = [state |-> "burned", gen |-> s.gen + 1, bind |-> s.rec[t].bind]
      BY <2>1, <1>3
    <3> QED BY <3>1
  <2> QED BY <2>1
<1>7. \A t \in Tokens : \/ n.rec[t] = s.rec[t]
                         \/ /\ s.rec[t].state = "reserved"
                            /\ n.rec[t].state = "burned"
                            /\ n.rec[t].bind = s.rec[t].bind
  BY <1>4, <1>6
<1>8. WellFormed(n)
  <2>1. ASSUME NEW u \in Recorded(n)
        PROVE  /\ n.rec[u].gen \in 1..n.gen
               /\ n.rec[u].state = "available" <=> n.rec[u].bind = NoBinding
    <3>1. u \in Tokens /\ u \in Recorded(s)
      BY <1>4, <1>6 DEF Recorded
    <3>2. /\ s.rec[u].gen \in 1..s.gen
          /\ s.rec[u].state = "available" <=> s.rec[u].bind = NoBinding
      BY <3>1 DEF WellFormed
    <3>3. CASE s.rec[u].state = "reserved"
      BY <3>1, <3>2, <3>3, <1>1, <1>2, <1>6
    <3>4. CASE s.rec[u].state # "reserved"
      <4>1. n.rec[u] = s.rec[u]
        BY <3>1, <3>4, <1>4
      <4> QED BY <4>1, <3>2, <1>1, <1>2
    <3> QED BY <3>3, <3>4
  <2>2. PICK t \in Tokens : s.rec[t].state = "reserved"
    BY DEF HasReserved
  <2>3. t \in Recorded(n)
    BY <2>2, <1>6 DEF Recorded
  <2> QED BY <2>1, <2>3 DEF WellFormed
<1>9. Blank(n)
  BY <1>4, <1>6 DEF Blank
<1> QED BY <1>2, <1>5, <1>7, <1>8, <1>9 DEF n

-------------------------------------------------------------------------------
(* The initial state *)

\* The snapshot no journal has been written for is a version of every one.
LEMMA EmptySnapshotEarlier ==
  ASSUME NEW s \in Snapshot, WellFormed(s), Blank(s)
  PROVE  /\ Earlier(EmptySnapshot, s)
         /\ s.gen = 0 => s = EmptySnapshot
<1>1. /\ EmptySnapshot.gen = 0
      /\ \A t \in Tokens : EmptySnapshot.rec[t] = NoRecord
  BY DEF EmptySnapshot
<1>2. ASSUME NEW t \in Tokens
      PROVE  Precedes(NoRecord, s.rec[t])
  BY DEF Precedes, Stage, NoRecord, Snapshot, Record, States, Live, Terminal
<1>3. s.gen \in Nat /\ 0 <= s.gen
  BY ConstantsOK DEF Snapshot, Generations
<1>4. Earlier(EmptySnapshot, s)
  BY <1>1, <1>2, <1>3 DEF Earlier
<1>5. ASSUME s.gen = 0
      PROVE  s = EmptySnapshot
  <2>1. \A t \in Tokens : s.rec[t].state = "absent"
    BY <1>5 DEF WellFormed, Recorded
  <2>2. \A t \in Tokens : s.rec[t] = NoRecord
    BY <2>1 DEF Blank
  <2>3. s.rec = [t \in Tokens |-> NoRecord]
    BY <2>2 DEF Snapshot
  <2> QED BY <1>5, <2>3 DEF EmptySnapshot, Snapshot
<1> QED BY <1>4, <1>5

\* The store starts with the invariant.
LEMMA InitInv == Init => IInv
<1> SUFFICES ASSUME Init PROVE IInv
  OBVIOUS
<1> USE DEF Init
<1>1. TypeOK
  <2>1. NoCall \in Calls
    BY EmptySnapshotOK DEF NoCall, Calls, Kinds
  <2> QED BY <2>1, ConstantsOK, EmptySnapshotOK DEF TypeOK, States
<1>2. LockInv
  BY ConstantsOK DEF LockInv, Busy
<1>3. ImagesInv
  BY EmptySnapshotOK, EarlierReflexive DEF ImagesInv
<1>4. CallInv
  BY DEF CallInv, Busy
<1>5. SingleUse /\ GrantDurable /\ SettledDurable
  BY DEF SingleUse, GrantDurable, SettledDurable
<1>6. Reopenable
  BY DEF Reopenable, EmptySnapshot, NoRecord
<1>7. CacheCoherent
  <2>1. Earlier(EmptySnapshot, EmptySnapshot)
    BY EmptySnapshotOK, EarlierReflexive
  <2> QED BY <2>1 DEF CacheCoherent, Earlier
<1> QED BY <1>1, <1>2, <1>3, <1>4, <1>5, <1>6, <1>7 DEF IInv

-------------------------------------------------------------------------------
(* The steps that leave the directory alone *)

\* A call returns, a process ends or a handle installs the journal: nothing in
\* the directory or in the histories changes.
LEMMA EndsCall ==
  ASSUME IInv, NEW h \in Handles, NEW st \in {"closed", "idle"},
         NEW c \in {cache[h], journal, EmptySnapshot},
         lock' = IF lock = h THEN NoHandle ELSE lock,
         pc' = [pc EXCEPT ![h] = st],
         op' = [op EXCEPT ![h] = NoCall],
         cache' = [cache EXCEPT ![h] = c],
         faults' \in 0..MaxFaults,
         UNCHANGED <<dirVars, granted, settled>>
  PROVE  IInv'
<1> USE DEF IInv, dirVars
<1>1. TypeOK'
  <2>1. NoCall \in Calls
    BY EmptySnapshotOK DEF NoCall, Calls, Kinds
  <2>2. c \in Snapshot
    BY EmptySnapshotOK DEF TypeOK
  <2> QED BY <2>1, <2>2 DEF TypeOK
<1>2. ASSUME NEW k \in Handles, k # h
      PROVE  pc'[k] = pc[k] /\ op'[k] = op[k] /\ cache'[k] = cache[k]
  BY <1>2 DEF TypeOK
<1>3. pc'[h] = st /\ op'[h] = NoCall /\ cache'[h] = c
  BY DEF TypeOK
<1>4. LockInv'
  BY <1>2, <1>3, ConstantsOK DEF LockInv, Busy
<1>5. ImagesInv'
  BY DEF ImagesInv, Earlier
<1>6. CallInv'
  <2> SUFFICES ASSUME NEW k \in Handles, Busy(k)'
               PROVE  (/\ WellFormed(op[k].snap)
                       /\ Blank(op[k].snap)
                       /\ KindInv(k)
                       /\ BeforeCommit(k) => PlanInv(k)
                       /\ pc[k] = "syncJournal" => journal = op[k].snap
                       /\ AfterCommit(k) => journal = op[k].snap /\ images = {journal}
                       /\ FreshInv(k)
                       /\ FileInv(k)
                       /\ WriteInv(k))'
    BY DEF CallInv
  <2>1. k # h
    BY <1>3 DEF Busy
  <2>2. pc'[k] = pc[k] /\ op'[k] = op[k] /\ Busy(k)
    BY <1>2, <2>1 DEF Busy
  <2>3. (/\ WellFormed(op[k].snap)
         /\ Blank(op[k].snap)
         /\ KindInv(k)
         /\ BeforeCommit(k) => PlanInv(k))'
    BY <2>2 DEF CallInv, KindInv, Target, BeforeCommit, PlanInv
  <2>4. (/\ pc[k] = "syncJournal" => journal = op[k].snap
         /\ AfterCommit(k) => journal = op[k].snap /\ images = {journal}
         /\ FreshInv(k))'
    BY <2>2 DEF CallInv, Target, AfterCommit, FreshInv
  <2>5. (FileInv(k) /\ WriteInv(k))'
    BY <2>2 DEF CallInv, Target, BeforeCommit, AfterCommit, FileInv, WriteInv
  <2> QED BY <2>3, <2>4, <2>5
<1>7. SingleUse' /\ GrantDurable' /\ SettledDurable'
  BY DEF SingleUse, GrantDurable, SettledDurable
<1>8. Reopenable'
  BY DEF Reopenable
<1>9. CacheCoherent'
  <2>1. Earlier(c, journal) /\ (c.gen = journal.gen => c = journal)
    <3>1. CASE c = cache[h]
      BY <3>1 DEF CacheCoherent, Earlier
    <3>2. CASE c = journal
      BY <3>2, EarlierReflexive DEF TypeOK
    <3>3. CASE c = EmptySnapshot
      <4>1. WellFormed(journal) /\ Blank(journal) /\ journal \in Snapshot
        BY DEF ImagesInv, TypeOK
      <4>2. EmptySnapshot.gen = 0
        BY DEF EmptySnapshot
      <4> QED BY <3>3, <4>1, <4>2, EmptySnapshotEarlier
    <3> QED BY <3>1, <3>2, <3>3
  <2> QED BY <1>2, <1>3, <2>1 DEF CacheCoherent, Earlier
<1> QED BY <1>1, <1>4, <1>5, <1>6, <1>7, <1>8, <1>9

\* What CallInv says of one process.
CallOK(h) ==
  /\ WellFormed(op[h].snap)
  /\ Blank(op[h].snap)
  /\ KindInv(h)
  /\ BeforeCommit(h) => PlanInv(h)
  /\ pc[h] = "syncJournal" => journal = op[h].snap
  /\ AfterCommit(h) => journal = op[h].snap /\ images = {journal}
  /\ FreshInv(h)
  /\ FileInv(h)
  /\ WriteInv(h)

\* Under the lock no other process is inside a writing call.
LEMMA OnlyOneBusy ==
  ASSUME TypeOK, LockInv, NEW h \in Handles, Busy(h)
  PROVE  /\ lock = h
         /\ \A k \in Handles \ {h} : ~Busy(k) /\ op[k] = NoCall
BY DEF LockInv

\* A call that takes the lock and has computed its snapshot.
LEMMA BeginsCall ==
  ASSUME IInv, NEW h \in Handles, NEW kind \in Kinds, NEW t \in Tokens \cup {NoToken},
         NEW snap \in Snapshot, NEW next \in {"putJournal", "putFile"},
         Begin(h, kind, t, snap, next),
         CallOK(h)'
  PROVE  IInv'
<1> USE DEF IInv, Begin, dirVars
<1>0. /\ lock = NoHandle
      /\ lock' = h
      /\ pc' = [pc EXCEPT ![h] = next]
      /\ op' = [op EXCEPT ![h] = [kind |-> kind, tid |-> t, snap |-> snap]]
  OBVIOUS
<1>1. TypeOK'
  <2>1. [kind |-> kind, tid |-> t, snap |-> snap] \in Calls
    BY DEF Calls
  <2> QED BY <2>1, <1>0 DEF TypeOK
<1>2. \A k \in Handles \ {h} : pc'[k] = pc[k] /\ op'[k] = op[k]
  BY DEF TypeOK
<1>3. pc'[h] = next
  BY DEF TypeOK
<1>4. \A k \in Handles : ~Busy(k)
  BY ConstantsOK DEF LockInv
<1>5. LockInv'
  BY <1>0, <1>2, <1>3, <1>4 DEF LockInv, Busy
<1>6. ImagesInv'
  BY DEF ImagesInv, Earlier
<1>7. CallInv'
  BY <1>2, <1>4 DEF CallInv, Busy, CallOK
<1>8. SingleUse' /\ GrantDurable' /\ SettledDurable'
  BY DEF SingleUse, GrantDurable, SettledDurable
<1>9. Reopenable' /\ CacheCoherent'
  BY DEF Reopenable, CacheCoherent
<1> QED BY <1>1, <1>5, <1>6, <1>7, <1>8, <1>9

-------------------------------------------------------------------------------
(* The calls that begin *)

\* Opening with a journal starts the recovery with the invariant.
LEMMA RecoveringBegins ==
  ASSUME IInv, NEW h \in Handles, NEW kind \in {"open", "recover"},
         HasReserved(journal), HasNextGeneration(journal),
         Begin(h, kind, NoToken, Recovered(journal), "putJournal")
  PROVE  IInv'
<1> DEFINE n == Recovered(journal)
<1>1. journal \in Snapshot /\ WellFormed(journal) /\ Blank(journal)
  BY DEF IInv, TypeOK, ImagesInv
<1>2. /\ n \in Snapshot
      /\ n.gen = journal.gen + 1
      /\ \A t \in Tokens : \/ n.rec[t] = journal.rec[t]
                           \/ /\ journal.rec[t].state = "reserved"
                              /\ n.rec[t].state = "burned"
                              /\ n.rec[t].bind = journal.rec[t].bind
      /\ WellFormed(n)
      /\ Blank(n)
  BY <1>1, RecoveredOK
<1>3. Begin(h, kind, NoToken, n, "putJournal")
  OBVIOUS
<1> HIDE DEF n
<1>4. /\ op'[h] = [kind |-> kind, tid |-> NoToken, snap |-> n]
      /\ pc'[h] = "putJournal"
      /\ journal' = journal
  BY <1>3 DEF Begin, IInv, TypeOK, dirVars
<1>5. KindInv(h)'
  BY <1>4 DEF KindInv
<1>6. PlanInv(h)'
  <2>1. \A t \in Tokens : RecordAdvances(journal.rec[t], n.rec[t])
    BY <1>2 DEF RecordAdvances, Terminal
  <2>2. \A t \in Tokens : n.rec[t].state = "available" => journal.rec[t].state = "available"
    BY <1>2
  <2> QED BY <1>2, <1>4, <2>1, <2>2 DEF PlanInv
<1>7. CallOK(h)'
  BY <1>2, <1>4, <1>5, <1>6 DEF CallOK, AfterCommit, FreshInv, FileInv, WriteInv
<1>8. kind \in Kinds
  BY DEF Kinds
<1> QED BY <1>2, <1>3, <1>7, <1>8, BeginsCall

\* Starting an insertion keeps the invariant.
LEMMA InsertInv ==
  ASSUME IInv, NEW h \in Handles, NEW t \in Tokens, Insert(h, t)
  PROVE  IInv'
<1> DEFINE n == WithRecord(journal, t, "available", NoBinding)
<1>1. journal \in Snapshot /\ WellFormed(journal) /\ Blank(journal)
  BY DEF IInv, TypeOK, ImagesInv
<1>2. /\ n \in Snapshot
      /\ n.gen = journal.gen + 1
      /\ n.rec[t] = [state |-> "available", gen |-> journal.gen + 1, bind |-> NoBinding]
      /\ \A u \in Tokens : u # t => n.rec[u] = journal.rec[u]
      /\ WellFormed(n)
      /\ Blank(n)
  BY <1>1, WithRecordOK DEF Insert, InsertAccepted, States
<1>3. Begin(h, "insert", t, n, "putFile")
  BY DEF Insert
<1>4. journal.rec[t].state = "absent"
  BY DEF Insert, InsertAccepted
<1> HIDE DEF n
<1>5. /\ op'[h] = [kind |-> "insert", tid |-> t, snap |-> n]
      /\ pc'[h] = "putFile"
      /\ journal' = journal
  BY <1>3 DEF Begin, IInv, TypeOK, dirVars
<1>6. KindInv(h)'
  BY <1>2, <1>5 DEF KindInv, Target
<1>7. PlanInv(h)'
  <2>1. \A u \in Tokens : RecordAdvances(journal.rec[u], n.rec[u])
    BY <1>2, <1>4 DEF RecordAdvances
  <2> QED BY <1>2, <1>4, <1>5, <2>1 DEF PlanInv
<1>8. CallOK(h)'
  BY <1>2, <1>5, <1>6, <1>7 DEF CallOK, AfterCommit, FreshInv, FileInv, WriteInv
<1>9. "insert" \in Kinds
  BY DEF Kinds
<1> QED BY <1>2, <1>3, <1>8, <1>9, BeginsCall

\* Starting a reservation keeps the invariant.
LEMMA ReserveInv ==
  ASSUME IInv, NEW h \in Handles, NEW t \in Tokens, NEW b \in Bindings, Reserve(h, t, b)
  PROVE  IInv'
<1> DEFINE n == WithRecord(journal, t, "reserved", b)
<1>1. journal \in Snapshot /\ WellFormed(journal) /\ Blank(journal)
  BY DEF IInv, TypeOK, ImagesInv
<1>2. /\ n \in Snapshot
      /\ n.gen = journal.gen + 1
      /\ n.rec[t] = [state |-> "reserved", gen |-> journal.gen + 1, bind |-> b]
      /\ \A u \in Tokens : u # t => n.rec[u] = journal.rec[u]
      /\ WellFormed(n)
      /\ Blank(n)
  BY <1>1, WithRecordOK, ConstantsOK DEF Reserve, ReserveAccepted, States, Live
<1>3. Begin(h, "reserve", t, n, "putJournal")
  BY DEF Reserve
<1>4. /\ journal.rec[t].state = "available"
      /\ b.ctx = TokenCtx[t]
      /\ \A u \in Tokens : journal.rec[u].state \in Live => journal.rec[u].bind.iid # b.iid
  BY DEF Reserve, ReserveAccepted
<1> HIDE DEF n
<1>5. /\ op'[h] = [kind |-> "reserve", tid |-> t, snap |-> n]
      /\ pc'[h] = "putJournal"
      /\ journal' = journal /\ granted' = granted
  BY <1>3 DEF Begin, IInv, TypeOK, dirVars
<1>6. KindInv(h)'
  BY <1>2, <1>4, <1>5 DEF KindInv, Target
<1>7. PlanInv(h)'
  <2>1. \A u \in Tokens : RecordAdvances(journal.rec[u], n.rec[u])
    BY <1>2, <1>4 DEF RecordAdvances
  <2>2. \A u \in Tokens : n.rec[u].state = "available" => journal.rec[u].state = "available"
    BY <1>2
  <2> QED BY <1>2, <1>5, <2>1, <2>2 DEF PlanInv
<1>8. FreshInv(h)'
  <2> SUFFICES ASSUME NEW r \in granted
               PROVE  r.tid # t /\ r.bind.iid # b.iid
    BY <1>2, <1>5 DEF FreshInv, Target
  <2>1. /\ r.tid \in Tokens
        /\ journal.rec[r.tid].state \in Live
        /\ journal.rec[r.tid].bind = r.bind
    BY DEF IInv, GrantDurable, ImagesInv, TypeOK
  <2> QED BY <2>1, <1>4 DEF Live
<1>9. CallOK(h)'
  BY <1>2, <1>5, <1>6, <1>7, <1>8 DEF CallOK, AfterCommit, FileInv, WriteInv
<1>10. "reserve" \in Kinds
  BY DEF Kinds
<1> QED BY <1>2, <1>3, <1>9, <1>10, BeginsCall

\* Starting to spend or burn a token keeps the invariant.
LEMMA MarkTerminalInv ==
  ASSUME IInv, NEW h \in Handles, NEW r \in granted, NEW target \in Terminal,
         MarkTerminal(h, r, target)
  PROVE  IInv'
<1> DEFINE n == WithRecord(journal, r.tid, target, r.bind)
<1>0. r.tid \in Tokens /\ r.bind \in Bindings
  BY DEF IInv, TypeOK
<1>1. journal \in Snapshot /\ WellFormed(journal) /\ Blank(journal)
  BY DEF IInv, TypeOK, ImagesInv
<1>2. /\ n \in Snapshot
      /\ n.gen = journal.gen + 1
      /\ n.rec[r.tid] = [state |-> target, gen |-> journal.gen + 1, bind |-> r.bind]
      /\ \A u \in Tokens : u # r.tid => n.rec[u] = journal.rec[u]
      /\ WellFormed(n)
      /\ Blank(n)
  <2>1. target \in States \ {"absent"} /\ target # "available" /\ r.bind # NoBinding
    BY <1>0, ConstantsOK DEF Terminal, States, Live
  <2>2. HasNextGeneration(journal)
    BY DEF MarkTerminal, TerminalAccepted
  <2> QED BY <1>0, <1>1, <2>1, <2>2, WithRecordOK
<1>3. Begin(h, "mark", r.tid, n, "putJournal")
  BY DEF MarkTerminal
<1>4. journal.rec[r.tid].state = "reserved" /\ journal.rec[r.tid].bind = r.bind
  BY DEF MarkTerminal, TerminalAccepted
<1> HIDE DEF n
<1>5. /\ op'[h] = [kind |-> "mark", tid |-> r.tid, snap |-> n]
      /\ pc'[h] = "putJournal"
      /\ journal' = journal
  BY <1>3 DEF Begin, IInv, TypeOK, dirVars
<1>6. KindInv(h)'
  BY <1>0, <1>2, <1>5 DEF KindInv, Target
<1>7. PlanInv(h)'
  <2>1. \A u \in Tokens : RecordAdvances(journal.rec[u], n.rec[u])
    BY <1>2, <1>4 DEF RecordAdvances
  <2>2. \A u \in Tokens : n.rec[u].state = "available" => journal.rec[u].state = "available"
    BY <1>2 DEF Terminal
  <2> QED BY <1>2, <1>5, <2>1, <2>2 DEF PlanInv
<1>8. CallOK(h)'
  BY <1>2, <1>5, <1>6, <1>7 DEF CallOK, AfterCommit, FreshInv, FileInv, WriteInv
<1>9. "mark" \in Kinds
  BY DEF Kinds
<1> QED BY <1>0, <1>2, <1>3, <1>8, <1>9, BeginsCall

\* Each action, from its definition.
LEMMA OpenCleanInv ==
  ASSUME IInv, NEW h \in Handles, OpenClean(h)
  PROVE  IInv'
<1>1. op[h] = NoCall /\ lock # h
  BY ConstantsOK DEF OpenClean, IInv, LockInv, Busy
<1>2. op' = [op EXCEPT ![h] = NoCall] /\ lock' = IF lock = h THEN NoHandle ELSE lock
  BY <1>1 DEF OpenClean, IInv, TypeOK
<1>3. /\ pc' = [pc EXCEPT ![h] = "idle"]
      /\ cache' = [cache EXCEPT ![h] = journal]
      /\ UNCHANGED <<dirVars, granted, settled>>
      /\ faults' \in 0..MaxFaults
  BY DEF OpenClean, IInv, TypeOK
<1> QED BY <1>2, <1>3, EndsCall

\* A recovery that finds nothing to do keeps the invariant.
LEMMA RecoverCleanInv ==
  ASSUME IInv, NEW h \in Handles, RecoverClean(h)
  PROVE  IInv'
<1>1. op[h] = NoCall /\ lock # h
  BY ConstantsOK DEF RecoverClean, IInv, LockInv, Busy
<1>2. op' = [op EXCEPT ![h] = NoCall] /\ lock' = IF lock = h THEN NoHandle ELSE lock
  BY <1>1 DEF RecoverClean, IInv, TypeOK
<1>3. /\ pc' = [pc EXCEPT ![h] = "idle"]
      /\ cache' = [cache EXCEPT ![h] = journal]
      /\ UNCHANGED <<dirVars, granted, settled>>
      /\ faults' \in 0..MaxFaults
  BY DEF RecoverClean, IInv, TypeOK
<1> QED BY <1>2, <1>3, EndsCall

\* Closing the store keeps the invariant.
LEMMA CloseInv ==
  ASSUME IInv, NEW h \in Handles, Close(h)
  PROVE  IInv'
<1>1. op[h] = NoCall /\ lock # h
  BY DEF Close, IInv, LockInv, Busy
<1>2. op' = [op EXCEPT ![h] = NoCall] /\ lock' = IF lock = h THEN NoHandle ELSE lock
  BY <1>1 DEF Close, IInv, TypeOK
<1>3. /\ pc' = [pc EXCEPT ![h] = "closed"]
      /\ cache' = [cache EXCEPT ![h] = EmptySnapshot]
      /\ UNCHANGED <<dirVars, granted, settled>>
      /\ faults' \in 0..MaxFaults
  BY DEF Close, IInv, TypeOK
<1> QED BY <1>2, <1>3, EndsCall

\* The counter of faults stays within its bound.
LEMMA OneMoreFault ==
  ASSUME TypeOK, faults < MaxFaults, faults' = faults + 1
  PROVE  faults' \in 0..MaxFaults
BY ConstantsOK DEF TypeOK

\* The exit of a process keeps the invariant.
LEMMA ExitInv ==
  ASSUME IInv, NEW h \in Handles, Exit(h)
  PROVE  IInv'
<1>1. faults' \in 0..MaxFaults
  BY OneMoreFault DEF Exit, IInv
<1>2. /\ pc' = [pc EXCEPT ![h] = "closed"]
      /\ op' = [op EXCEPT ![h] = NoCall]
      /\ cache' = [cache EXCEPT ![h] = EmptySnapshot]
      /\ lock' = IF lock = h THEN NoHandle ELSE lock
      /\ UNCHANGED <<dirVars, granted, settled>>
  BY DEF Exit
<1> QED BY <1>1, <1>2, EndsCall

\* A writing call ends without a further change, by an error or a refusal.
LEMMA AbandonInv ==
  ASSUME IInv, NEW h \in Handles, NEW st \in {"closed", "idle"}, Busy(h), Return(h, st),
         faults' \in 0..MaxFaults, UNCHANGED <<dirVars, cache, granted, settled>>
  PROVE  IInv'
<1>1. lock = h
  BY DEF IInv, LockInv
<1>2. cache' = [cache EXCEPT ![h] = cache[h]]
  BY DEF IInv, TypeOK
<1>3. /\ lock' = IF lock = h THEN NoHandle ELSE lock
      /\ pc' = [pc EXCEPT ![h] = st]
      /\ op' = [op EXCEPT ![h] = NoCall]
      /\ UNCHANGED <<dirVars, granted, settled>>
  BY <1>1 DEF Return
<1> QED BY <1>2, <1>3, EndsCall

\* A call that fails keeps the invariant.
LEMMA FailInv ==
  ASSUME IInv, NEW h \in Handles, Busy(h), Fail(h)
  PROVE  IInv'
<1>1. faults' \in 0..MaxFaults
  BY OneMoreFault DEF Fail, IInv
<1>2. PICK st \in {"closed", "idle"} : Return(h, st)
  BY DEF Fail
<1> QED BY <1>1, <1>2, AbandonInv DEF Fail

\* Refusing a directory that is inconsistent keeps the invariant.
LEMMA RejectSnapshotInv ==
  ASSUME IInv, NEW h \in Handles, RejectSnapshot(h)
  PROVE  IInv'
<1>1. PICK st \in {"closed", "idle"} : Return(h, st)
  BY DEF RejectSnapshot
<1>2. Busy(h)
  BY DEF RejectSnapshot, Busy
<1>3. faults' \in 0..MaxFaults /\ UNCHANGED <<dirVars, cache, granted, settled>>
  BY DEF RejectSnapshot, IInv, TypeOK
<1> QED BY <1>1, <1>2, <1>3, AbandonInv

\* Opening over a journal keeps the invariant.
LEMMA OpenRecoveringInv ==
  ASSUME IInv, NEW h \in Handles, OpenRecovering(h)
  PROVE  IInv'
BY RecoveringBegins DEF OpenRecovering

\* Burning a reserved token during recovery keeps the invariant.
LEMMA RecoverReservedInv ==
  ASSUME IInv, NEW h \in Handles, RecoverReserved(h)
  PROVE  IInv'
BY RecoveringBegins DEF RecoverReserved

-------------------------------------------------------------------------------
(* The writes *)

\* A step of the call that has the lock concerns no other process.
LEMMA HolderSteps ==
  ASSUME TypeOK, LockInv, NEW h \in Handles, Busy(h),
         NEW st \in {"idle", "putFile", "syncFile", "putJournal", "syncJournal"},
         pc' = [pc EXCEPT ![h] = st],
         \/ st # "idle" /\ UNCHANGED <<lock, op>>
         \/ st = "idle" /\ lock' = NoHandle /\ op' = [op EXCEPT ![h] = NoCall],
         st # "idle" => CallOK(h)'
  PROVE  LockInv' /\ CallInv'
<1>1. \A k \in Handles \ {h} : ~Busy(k) /\ op[k] = NoCall /\ lock # k
  BY OnlyOneBusy, ConstantsOK DEF LockInv
<1>2. \A k \in Handles \ {h} : pc'[k] = pc[k] /\ op'[k] = op[k]
  BY DEF TypeOK
<1>3. pc'[h] = st /\ lock = h
  BY OnlyOneBusy DEF TypeOK
<1>4. st = "idle" => op'[h] = NoCall
  BY DEF TypeOK
<1>5. LockInv'
  BY <1>1, <1>2, <1>3, <1>4, ConstantsOK DEF LockInv, Busy
<1>6. CallInv'
  BY <1>1, <1>2, <1>3 DEF CallInv, CallOK, Busy
<1> QED BY <1>5, <1>6

\* commit_snapshot renames the next version of the journal over it.
LEMMA PutJournalInv ==
  ASSUME IInv, NEW h \in Handles, PutJournal(h)
  PROVE  IInv'
<1>1. Busy(h)
  BY DEF PutJournal, Busy
<1>2. CASE Fail(h)
  BY <1>1, <1>2, FailInv
<1>3. CASE ~Fail(h)
  <2> DEFINE n == op[h].snap
  <2>1. /\ pc[h] = "putJournal"
        /\ journal' = n
        /\ images' = images \cup {n}
        /\ pc' = [pc EXCEPT ![h] = "syncJournal"]
        /\ UNCHANGED <<file, fileImages, lock, op, cache, granted, settled, faults>>
    BY <1>3 DEF PutJournal
  <2>2. /\ CallOK(h)
        /\ PlanInv(h)
    BY <1>1, <2>1 DEF IInv, CallInv, CallOK, BeforeCommit
  <2>3. /\ n \in Snapshot
        /\ WellFormed(n)
        /\ Blank(n)
        /\ n.gen = journal.gen + 1
        /\ \A t \in Tokens : RecordAdvances(journal.rec[t], n.rec[t])
    BY <2>2 DEF IInv, TypeOK, Calls, CallOK, PlanInv
  <2>4. /\ journal \in Snapshot
        /\ journal \in images
        /\ \A s \in images : s \in Snapshot /\ WellFormed(s) /\ Blank(s) /\ Earlier(s, journal)
    BY DEF IInv, TypeOK, ImagesInv
  <2>5. Earlier(journal, n)
    <3>1. \A t \in Tokens : Precedes(journal.rec[t], n.rec[t])
      BY <2>3, <2>4, AdvancePrecedes DEF Snapshot
    <3>2. journal.gen <= n.gen
      BY <2>3, <2>4, ConstantsOK DEF Snapshot, Generations
    <3> QED BY <3>1, <3>2 DEF Earlier
  <2>6. TypeOK'
    BY <2>1, <2>3 DEF IInv, TypeOK
  <2>7. ImagesInv'
    <3>1. \A s \in images : Earlier(s, n)
      BY <2>3, <2>4, <2>5, EarlierTransitive
    <3>2. Earlier(n, n)
      BY <2>3, EarlierReflexive
    <3>3. \A s \in images \cup {n} : WellFormed(s) /\ Blank(s) /\ Earlier(s, n)
      BY <3>1, <3>2, <2>3, <2>4
    <3> QED BY <2>1, <3>3 DEF ImagesInv
  <2>8. CallOK(h)'
    BY <2>1, <2>2 DEF CallOK, KindInv, Target, BeforeCommit, AfterCommit, FreshInv, FileInv,
                      WriteInv, IInv, TypeOK
  <2>9. LockInv' /\ CallInv'
    BY <1>1, <2>1, <2>8, HolderSteps DEF IInv
  <2>10. SingleUse'
    BY <2>1 DEF IInv, SingleUse
  <2>11. GrantDurable'
    <3>1. ASSUME NEW r \in granted
          PROVE  /\ n.rec[r.tid].state \in Live
                 /\ n.rec[r.tid].bind = r.bind
                 /\ n.rec[r.tid].state = "reserved" => n.rec[r.tid].gen = r.gen
                 /\ r.bind.ctx = TokenCtx[r.tid]
      <4>1. /\ r.tid \in Tokens
            /\ journal.rec[r.tid].state \in Live
            /\ journal.rec[r.tid].bind = r.bind
            /\ journal.rec[r.tid].state = "reserved" => journal.rec[r.tid].gen = r.gen
            /\ r.bind.ctx = TokenCtx[r.tid]
        BY <2>4 DEF IInv, GrantDurable, TypeOK
      <4> QED BY <4>1, <2>3 DEF RecordAdvances, Live, Terminal
    <3> QED BY <3>1, <2>1 DEF IInv, GrantDurable
  <2>12. SettledDurable'
    <3>1. ASSUME NEW a \in settled
          PROVE  n.rec[a.tid].state = a.state /\ n.rec[a.tid].bind = a.bind
      <4>1. /\ a.tid \in Tokens /\ a.state \in Terminal
            /\ journal.rec[a.tid].state = a.state
            /\ journal.rec[a.tid].bind = a.bind
        BY <2>4 DEF IInv, SettledDurable, TypeOK
      <4> QED BY <4>1, <2>3 DEF RecordAdvances, Terminal
    <3> QED BY <3>1, <2>1 DEF IInv, SettledDurable
  <2>13. Reopenable'
    <3>1. ASSUME NEW t \in Tokens, n.rec[t].state = "available"
          PROVE  fileImages[t] = {"available"} /\ file[t] = "available"
      <4>1. CASE journal.rec[t].state = "available"
        BY <4>1, <2>4 DEF IInv, Reopenable
      <4>2. CASE journal.rec[t].state # "available"
        <5>1. journal.rec[t].state = "absent"
          BY <3>1, <4>2, <2>3 DEF RecordAdvances, Terminal
        <5>2. op[h].kind = "insert" /\ t = op[h].tid
          BY <3>1, <5>1, <2>2 DEF PlanInv
        <5> QED BY <5>2, <2>1, <2>2 DEF CallOK, FileInv
      <4> QED BY <4>1, <4>2
    <3> QED BY <3>1, <2>1 DEF IInv, Reopenable
  <2>14. CacheCoherent'
    <3>1. ASSUME NEW k \in Handles
          PROVE  cache[k].gen < n.gen /\ \A t \in Tokens : Precedes(cache[k].rec[t], n.rec[t])
      <4>1. cache[k] \in Snapshot /\ Earlier(cache[k], journal)
        BY DEF IInv, TypeOK, CacheCoherent, Earlier
      <4>2. Earlier(cache[k], n)
        BY <4>1, <2>3, <2>4, <2>5, EarlierTransitive
      <4>3. cache[k].gen < n.gen
        BY <4>1, <2>3, <2>4, ConstantsOK DEF Earlier, Snapshot, Generations
      <4> QED BY <4>2, <4>3 DEF Earlier
    <3>2. \A k \in Handles : cache[k].gen \in Nat
      BY DEF IInv, TypeOK, Snapshot, Generations
    <3>3. n.gen \in Nat
      BY <2>3 DEF Snapshot, Generations
    <3> QED BY <3>1, <3>2, <3>3, <2>1 DEF CacheCoherent
  <2> QED BY <2>6, <2>7, <2>9, <2>10, <2>11, <2>12, <2>13, <2>14 DEF IInv
<1> QED BY <1>2, <1>3

\* The settlement that a finished mark_* reports.
LEMMA SettlementOK ==
  ASSUME IInv, NEW h \in Handles, Busy(h), op[h].kind = "mark",
         journal = op[h].snap
  PROVE  /\ Settlement(h) \in [tid : Tokens, bind : Bindings, state : Terminal]
         /\ journal.rec[Settlement(h).tid].state = Settlement(h).state
         /\ journal.rec[Settlement(h).tid].bind = Settlement(h).bind
<1>1. KindInv(h)
  BY DEF IInv, CallInv
<1> QED BY <1>1 DEF KindInv, Target, Settlement

\* What mark_* reports is what the only journal left says.
LEMMA SettlesDurably ==
  ASSUME IInv, NEW h \in Handles, Busy(h), journal = op[h].snap,
         journal' = journal, images' = {journal},
         \/ settled' = settled
         \/ op[h].kind = "mark" /\ settled' = settled \cup {Settlement(h)}
  PROVE  /\ settled' \in SUBSET [tid : Tokens, bind : Bindings, state : Terminal]
         /\ SettledDurable'
<1>1. /\ settled \in SUBSET [tid : Tokens, bind : Bindings, state : Terminal]
      /\ \A a \in settled : /\ journal.rec[a.tid].state = a.state
                            /\ journal.rec[a.tid].bind = a.bind
  BY DEF IInv, TypeOK, ImagesInv, SettledDurable
<1>2. op[h].kind = "mark" =>
        /\ Settlement(h) \in [tid : Tokens, bind : Bindings, state : Terminal]
        /\ journal.rec[Settlement(h).tid].state = Settlement(h).state
        /\ journal.rec[Settlement(h).tid].bind = Settlement(h).bind
  BY SettlementOK
<1> QED BY <1>1, <1>2 DEF SettledDurable

\* The fsync after the rename: no earlier journal can come back.
LEMMA SyncJournalInv ==
  ASSUME IInv, NEW h \in Handles, SyncJournal(h)
  PROVE  IInv'
<1>1. Busy(h)
  BY DEF SyncJournal, Busy
<1>2. CASE Fail(h)
  BY <1>1, <1>2, FailInv
<1>3. CASE ~Fail(h)
  <2>1. /\ pc[h] = "syncJournal"
        /\ images' = {journal}
        /\ cache' = [cache EXCEPT ![h] = op[h].snap]
        /\ UNCHANGED <<journal, file, fileImages, granted, faults>>
    BY <1>3 DEF SyncJournal, SyncedImages
  <2>2. \/ /\ WritesFileAfterCommit(h)
           /\ pc' = [pc EXCEPT ![h] = "putFile"]
           /\ UNCHANGED <<lock, op, settled>>
        \/ /\ Return(h, "idle")
           /\ \/ settled' = settled
              \/ op[h].kind = "mark" /\ settled' = settled \cup {Settlement(h)}
    BY <1>3 DEF SyncJournal
  <2>3. CallOK(h)
    BY <1>1 DEF IInv, CallInv, CallOK
  <2>4. /\ journal = op[h].snap
        /\ journal \in Snapshot
        /\ journal \in images
        /\ WellFormed(journal) /\ Blank(journal)
    BY <2>1, <2>3 DEF CallOK, IInv, TypeOK, ImagesInv
  <2>5. settled' \in SUBSET [tid : Tokens, bind : Bindings, state : Terminal] /\ SettledDurable'
    <3>1. \/ settled' = settled
          \/ op[h].kind = "mark" /\ settled' = settled \cup {Settlement(h)}
      BY <2>2
    <3> QED BY <1>1, <2>1, <2>4, <3>1, SettlesDurably
  <2>6. TypeOK'
    <3>1. NoCall \in Calls
      BY EmptySnapshotOK DEF NoCall, Calls, Kinds
    <3> QED BY <2>1, <2>2, <2>4, <2>5, <3>1 DEF IInv, TypeOK, Return
  <2>7. ImagesInv'
    BY <2>1, <2>4, EarlierReflexive DEF ImagesInv
  <2>8. LockInv' /\ CallInv'
    <3>1. CASE WritesFileAfterCommit(h) /\ pc' = [pc EXCEPT ![h] = "putFile"]
                 /\ UNCHANGED <<lock, op, settled>>
      <4>1. pc'[h] = "putFile" /\ op'[h] = op[h] /\ op[h].kind \in {"reserve", "mark"}
        BY <3>1 DEF IInv, TypeOK, WritesFileAfterCommit
      <4>2. CallOK(h)'
        BY <4>1, <2>1, <2>3, <2>4 DEF CallOK, KindInv, Target, BeforeCommit, AfterCommit,
                                      FreshInv, FileInv, WriteInv
      <4> QED BY <1>1, <3>1, <4>2, HolderSteps DEF IInv
    <3>2. CASE Return(h, "idle")
      BY <1>1, <3>2, HolderSteps DEF IInv, Return
    <3> QED BY <2>2, <3>1, <3>2
  <2>9. SingleUse'
    BY <2>1 DEF IInv, SingleUse
  <2>10. GrantDurable'
    BY <2>1, <2>4 DEF IInv, GrantDurable
  <2>11. Reopenable'
    BY <2>1, <2>4 DEF IInv, Reopenable
  <2>12. CacheCoherent'
    <3>1. \A k \in Handles : cache'[k] = cache[k] \/ cache'[k] = journal
      BY <2>1, <2>4 DEF IInv, TypeOK
    <3>2. Earlier(journal, journal)
      BY <2>4, EarlierReflexive
    <3>3. ASSUME NEW k \in Handles
          PROVE  /\ cache'[k].gen <= journal.gen
                 /\ cache'[k].gen = journal.gen => cache'[k] = journal
                 /\ \A t \in Tokens : Precedes(cache'[k].rec[t], journal.rec[t])
      <4>1. CASE cache'[k] = cache[k]
        BY <4>1 DEF IInv, CacheCoherent
      <4>2. CASE cache'[k] = journal
        BY <4>2, <3>2 DEF Earlier
      <4> QED BY <3>1, <4>1, <4>2
    <3> QED BY <2>1, <3>3 DEF CacheCoherent
  <2> QED BY <2>5, <2>6, <2>7, <2>8, <2>9, <2>10, <2>11, <2>12 DEF IInv
<1> QED BY <1>2, <1>3

\* A file is only written for a token that no journal offers at that time.
LEMMA NotOfferedWhileWritten ==
  ASSUME IInv, NEW h \in Handles, pc[h] \in {"putFile", "syncFile"}
  PROVE  /\ op[h].tid \in Tokens
         /\ \A s \in images : s.rec[op[h].tid].state # "available"
<1>1. CallOK(h)
  BY DEF IInv, CallInv, CallOK, Busy
<1>2. op[h].kind \in {"insert", "reserve", "mark"} /\ op[h].tid \in Tokens
  BY <1>1 DEF CallOK, KindInv, IInv, TypeOK, Calls, Kinds
<1>3. CASE op[h].kind = "insert"
  <2>1. journal.rec[op[h].tid].state = "absent"
    BY <1>1, <1>3 DEF CallOK, BeforeCommit, PlanInv
  <2>2. \A s \in images : Precedes(s.rec[op[h].tid], journal.rec[op[h].tid])
    BY <1>2 DEF IInv, ImagesInv, Earlier
  <2>3. ASSUME NEW s \in images, s.rec[op[h].tid].state = "available"
        PROVE  FALSE
    <3>1. Stage(s.rec[op[h].tid]) <= Stage(journal.rec[op[h].tid])
      BY <2>2 DEF Precedes
    <3>2. Stage(journal.rec[op[h].tid]) = 0 /\ Stage(s.rec[op[h].tid]) = 1
      BY <2>1, <2>3 DEF Stage, Terminal
    <3> QED BY <3>1, <3>2
  <2> QED BY <1>2, <2>3
<1>4. CASE op[h].kind \in {"reserve", "mark"}
  <2>1. images = {op[h].snap}
    <3>1. AfterCommit(h)
      BY <1>4 DEF AfterCommit
    <3> QED BY <1>1, <3>1 DEF CallOK
  <2>2. Target(h).state # "available"
    BY <1>1, <1>4 DEF CallOK, KindInv, Terminal
  <2> QED BY <1>2, <2>1, <2>2 DEF Target
<1> QED BY <1>2, <1>3, <1>4

\* persist_token renames the new token file over the old one.
LEMMA PutFileInv ==
  ASSUME IInv, NEW h \in Handles, PutFile(h)
  PROVE  IInv'
<1>1. Busy(h)
  BY DEF PutFile, Busy
<1>2. CASE Fail(h)
  BY <1>1, <1>2, FailInv
<1>3. CASE ~Fail(h)
  <2> DEFINE t  == op[h].tid
             st == op[h].snap.rec[t].state
  <2>1. /\ pc[h] = "putFile"
        /\ file' = [file EXCEPT ![t] = st]
        /\ fileImages' = [fileImages EXCEPT ![t] = @ \cup {st}]
        /\ pc' = [pc EXCEPT ![h] = "syncFile"]
        /\ UNCHANGED <<journal, images, lock, op, cache, granted, settled, faults>>
    BY <1>3 DEF PutFile
  <2>2. CallOK(h)
    BY <1>1 DEF IInv, CallInv, CallOK
  <2>3. t \in Tokens /\ \A s \in images : s.rec[t].state # "available"
    BY <2>1, NotOfferedWhileWritten
  <2>4. st \in States
    BY <2>3 DEF IInv, TypeOK, Calls, Snapshot, Record
  <2>5. TypeOK'
    BY <2>1, <2>3, <2>4 DEF IInv, TypeOK
  <2>6. ImagesInv'
    BY <2>1 DEF IInv, ImagesInv
  <2>7. pc'[h] = "syncFile" /\ op'[h] = op[h] /\ file'[t] = st
    BY <2>1, <2>3 DEF IInv, TypeOK
  <2>8. KindInv(h)' /\ FreshInv(h)'
    BY <2>1, <2>2, <2>7 DEF CallOK, KindInv, FreshInv, Target
  <2>9. BeforeCommit(h)' => PlanInv(h)'
    BY <2>1, <2>2, <2>7 DEF CallOK, BeforeCommit, PlanInv
  <2>10. FileInv(h)' /\ WriteInv(h)'
    BY <2>2, <2>7 DEF CallOK, KindInv, FileInv, WriteInv, Target
  <2>11. CallOK(h)'
    BY <2>1, <2>2, <2>7, <2>8, <2>9, <2>10 DEF CallOK, AfterCommit
  <2>12. LockInv' /\ CallInv'
    BY <1>1, <2>1, <2>11, HolderSteps DEF IInv
  <2>13. SingleUse' /\ GrantDurable' /\ SettledDurable' /\ CacheCoherent'
    BY <2>1 DEF IInv, SingleUse, GrantDurable, SettledDurable, CacheCoherent
  <2>14. Reopenable'
    <3>1. \A u \in Tokens \ {t} : file'[u] = file[u] /\ fileImages'[u] = fileImages[u]
      BY <2>1 DEF IInv, TypeOK
    <3> QED BY <2>1, <2>3, <3>1 DEF IInv, Reopenable
  <2> QED BY <2>5, <2>6, <2>12, <2>13, <2>14 DEF IInv
<1> QED BY <1>2, <1>3

\* The fsync of tokens/: only now does a caller get the token or the report.
LEMMA SyncFileInv ==
  ASSUME IInv, NEW h \in Handles, SyncFile(h)
  PROVE  IInv'
<1>1. Busy(h)
  BY DEF SyncFile, Busy
<1>2. CASE Fail(h)
  BY <1>1, <1>2, FailInv
<1>3. CASE ~Fail(h)
  <2> DEFINE t == op[h].tid
             g == Reservation(h)
  <2>1. /\ pc[h] = "syncFile"
        /\ fileImages' = [fileImages EXCEPT ![t] = {file[t]}]
        /\ \/ /\ op[h].kind = "insert"
              /\ pc' = [pc EXCEPT ![h] = "putJournal"]
              /\ UNCHANGED <<lock, op>>
           \/ /\ op[h].kind # "insert"
              /\ Return(h, "idle")
        /\ granted' = granted \cup (IF op[h].kind = "reserve" THEN {g} ELSE {})
        /\ settled' = settled \cup (IF op[h].kind = "mark" THEN {Settlement(h)} ELSE {})
        /\ UNCHANGED <<journal, images, file, cache, faults>>
    BY <1>3 DEF SyncFile, SyncedFile
  <2>2. CallOK(h)
    BY <1>1 DEF IInv, CallInv, CallOK
  <2>3. t \in Tokens /\ \A s \in images : s.rec[t].state # "available"
    BY <2>1, NotOfferedWhileWritten
  <2>4. op[h].kind # "insert" => journal = op[h].snap /\ images = {journal}
    BY <2>1, <2>2 DEF CallOK, AfterCommit
  <2>5. op[h].kind = "reserve" =>
          /\ g \in [tid : Tokens, bind : Bindings, gen : Generations]
          /\ journal.rec[g.tid].state = "reserved"
          /\ journal.rec[g.tid].bind = g.bind
          /\ journal.rec[g.tid].gen = g.gen
          /\ g.bind.ctx = TokenCtx[g.tid]
          /\ \A r \in granted : r.tid # g.tid /\ r.bind.iid # g.bind.iid
    <3>1. op[h].snap.gen \in Generations
      BY DEF IInv, TypeOK, Calls, Snapshot
    <3> QED BY <2>2, <2>3, <2>4, <3>1 DEF CallOK, KindInv, FreshInv, Target, Reservation
  <2>6. settled' \in SUBSET [tid : Tokens, bind : Bindings, state : Terminal] /\ SettledDurable'
    <3>1. CASE op[h].kind = "mark"
      BY <1>1, <2>1, <2>4, <3>1, SettlesDurably
    <3>2. CASE op[h].kind # "mark"
      BY <2>1, <3>2 DEF IInv, TypeOK, SettledDurable
    <3> QED BY <3>1, <3>2
  <2>7. TypeOK'
    <3>1. NoCall \in Calls
      BY EmptySnapshotOK DEF NoCall, Calls, Kinds
    <3>2. granted' \in SUBSET [tid : Tokens, bind : Bindings, gen : Generations]
      BY <2>1, <2>5 DEF IInv, TypeOK
    <3>3. fileImages' \in [Tokens -> SUBSET (States \cup {"none"})]
      BY <2>1, <2>3 DEF IInv, TypeOK
    <3> QED BY <2>1, <2>6, <3>1, <3>2, <3>3 DEF IInv, TypeOK, Return
  <2>8. ImagesInv'
    BY <2>1 DEF IInv, ImagesInv
  <2>9. LockInv' /\ CallInv'
    <3>1. CASE op[h].kind = "insert"
      <4>1. pc'[h] = "putJournal" /\ op'[h] = op[h] /\ fileImages'[t] = {file[t]}
        BY <2>1, <2>3, <3>1 DEF IInv, TypeOK
      <4>2. CallOK(h)'
        BY <2>1, <2>2, <3>1, <4>1 DEF CallOK, KindInv, Target, BeforeCommit, AfterCommit, PlanInv,
                                      FreshInv, FileInv, WriteInv
      <4> QED BY <1>1, <2>1, <3>1, <4>2, HolderSteps DEF IInv
    <3>2. CASE op[h].kind # "insert"
      BY <1>1, <2>1, <3>2, HolderSteps DEF IInv, Return
    <3> QED BY <3>1, <3>2
  <2>10. SingleUse'
    BY <2>1, <2>5 DEF IInv, SingleUse
  <2>11. GrantDurable'
    <3>1. CASE op[h].kind = "reserve"
      <4>1. granted' = granted \cup {g} /\ images' = {journal} /\ images = {journal}
        BY <2>1, <2>4, <3>1
      <4>2. /\ journal.rec[g.tid].state \in Live
            /\ journal.rec[g.tid].bind = g.bind
            /\ journal.rec[g.tid].state = "reserved" => journal.rec[g.tid].gen = g.gen
            /\ g.bind.ctx = TokenCtx[g.tid]
        BY <2>5, <3>1 DEF Live
      <4> HIDE DEF g
      <4> QED BY <4>1, <4>2 DEF IInv, GrantDurable
    <3>2. CASE op[h].kind # "reserve"
      BY <2>1, <3>2 DEF IInv, GrantDurable
    <3> QED BY <3>1, <3>2
  <2>12. Reopenable'
    <3>1. \A u \in Tokens \ {t} : fileImages'[u] = fileImages[u]
      BY <2>1 DEF IInv, TypeOK
    <3> QED BY <2>1, <2>3, <3>1 DEF IInv, Reopenable
  <2>13. CacheCoherent'
    BY <2>1 DEF IInv, CacheCoherent
  <2> QED BY <2>6, <2>7, <2>8, <2>9, <2>10, <2>11, <2>12, <2>13 DEF IInv
<1> QED BY <1>2, <1>3

-------------------------------------------------------------------------------
(* A loss of power, and all steps *)

\* A loss of power keeps the invariant.
LEMMA PowerLossInv ==
  ASSUME IInv, PowerLoss
  PROVE  IInv'
<1> USE DEF IInv, PowerLoss
<1>1. journal' \in images /\ images' = {journal'}
  OBVIOUS
<1>2. journal' \in Snapshot /\ WellFormed(journal') /\ Blank(journal')
  BY <1>1 DEF TypeOK, ImagesInv
<1>3. TypeOK'
  <2>1. NoCall \in Calls
    BY EmptySnapshotOK DEF NoCall, Calls, Kinds
  <2>2. faults' \in 0..MaxFaults
    BY OneMoreFault
  <2>3. fileImages' \in [Tokens -> SUBSET (States \cup {"none"})]
    OBVIOUS
  <2> QED BY <1>1, <1>2, <2>1, <2>2, <2>3, EmptySnapshotOK DEF TypeOK
<1>4. \A h \in Handles : pc'[h] = "closed" /\ op'[h] = NoCall /\ cache'[h] = EmptySnapshot
  OBVIOUS
<1>5. LockInv' /\ CallInv'
  BY <1>4, ConstantsOK DEF LockInv, CallInv, Busy
<1>6. ImagesInv'
  BY <1>1, <1>2, EarlierReflexive DEF ImagesInv
<1>7. SingleUse' /\ GrantDurable' /\ SettledDurable'
  BY <1>1 DEF SingleUse, GrantDurable, SettledDurable
<1>8. Reopenable'
  <2> SUFFICES ASSUME NEW t \in Tokens, journal'.rec[t].state = "available"
               PROVE  fileImages'[t] = {"available"} /\ file'[t] = "available"
    BY <1>1 DEF Reopenable
  <2>1. fileImages[t] = {"available"}
    BY <1>1 DEF Reopenable
  <2>2. file'[t] \in fileImages[t] /\ fileImages'[t] = {file'[t]}
    OBVIOUS
  <2> QED BY <2>1, <2>2
<1>9. CacheCoherent'
  <2>1. Earlier(EmptySnapshot, journal') /\ (journal'.gen = 0 => journal' = EmptySnapshot)
    BY <1>2, EmptySnapshotEarlier
  <2>2. EmptySnapshot.gen = 0
    BY DEF EmptySnapshot
  <2> QED BY <1>4, <2>1, <2>2 DEF CacheCoherent, Earlier
<1> QED BY <1>3, <1>5, <1>6, <1>7, <1>8, <1>9

\* A step that changes nothing keeps the invariant.
LEMMA StutterInv ==
  ASSUME IInv, UNCHANGED vars
  PROVE  IInv'
BY DEF IInv, vars, TypeOK, LockInv, Busy, ImagesInv, Earlier, CallInv, KindInv, Target,
       BeforeCommit, AfterCommit, PlanInv, FreshInv, FileInv, WriteInv, SingleUse, GrantDurable,
       SettledDurable, Reopenable, CacheCoherent

\* Every step of the store keeps the invariant.
LEMMA NextInv == IInv /\ [Next]_vars => IInv'
<1> SUFFICES ASSUME IInv, [Next]_vars PROVE IInv'
  OBVIOUS
<1>1. ASSUME NEW h \in Handles, Call(h) PROVE IInv'
  BY <1>1, OpenCleanInv, OpenRecoveringInv, RecoverCleanInv, RecoverReservedInv, InsertInv,
     ReserveInv, MarkTerminalInv DEF Call
<1>2. ASSUME NEW h \in Handles, Work(h) PROVE IInv'
  BY <1>2, PutJournalInv, RejectSnapshotInv, SyncJournalInv, PutFileInv, SyncFileInv DEF Work
<1>3. ASSUME NEW h \in Handles, Close(h) \/ Exit(h) PROVE IInv'
  BY <1>3, CloseInv, ExitInv
<1>4. CASE PowerLoss
  BY <1>4, PowerLossInv
<1>5. CASE UNCHANGED vars
  BY <1>5, StutterInv
<1> QED BY <1>1, <1>2, <1>3, <1>4, <1>5 DEF Next

-------------------------------------------------------------------------------
(* The theorems *)

\* The inductive invariant holds in every behaviour of the store.
THEOREM Invariance == Spec => []IInv
BY InitInv, NextInv, PTL DEF Spec

\* Every variable keeps its type.
THEOREM TypeCorrect == Spec => []TypeOK
BY Invariance, PTL DEF IInv

\* A token is handed out once, and an invocation id is used for one token
\* (reserve).
THEOREM TokensUsedOnce == Spec => []SingleUse
BY Invariance, PTL DEF IInv

\* A returned reservation is never lost or given away (reserve,
\* commit_snapshot).
THEOREM GrantsSurvive == Spec => []GrantDurable
BY Invariance, PTL DEF IInv

\* A reported terminal state is final (mark_spent, mark_burned).
THEOREM SettlementsSurvive == Spec => []SettledDurable
BY Invariance, PTL DEF IInv

\* open never finds token files that contradict the journal (insert,
\* validate_available_token_files).
THEOREM AlwaysReopenable == Spec => []Reopenable
BY Invariance, PTL DEF IInv

\* A stale handle only lags behind the journal (install_snapshot).
THEOREM CachesLag == Spec => []CacheCoherent
BY Invariance, PTL DEF IInv

\* Every snapshot the store computes or writes has the shape that
\* validate_snapshot accepts.
THEOREM ShapesAccepted == Spec => []SnapshotsWellFormed
<1>1. IInv => SnapshotsWellFormed
  BY DEF IInv, ImagesInv, CallInv, SnapshotsWellFormed
<1> QED BY <1>1, Invariance, PTL

-------------------------------------------------------------------------------
(* How the journal moves *)

\* A step leaves the journal, returns to a snapshot that was not yet synced,
\* or commits the next version.
LEMMA JournalStep ==
  ASSUME IInv, [Next]_vars
  PROVE  \/ journal' \in images
         \/ /\ journal'.gen = journal.gen + 1
            /\ \A t \in Tokens : RecordAdvances(journal.rec[t], journal'.rec[t])
<1>0. journal \in images
  BY DEF IInv, ImagesInv
<1>1. ASSUME NEW h \in Handles, PutJournal(h), journal' # journal
      PROVE  /\ journal'.gen = journal.gen + 1
             /\ \A t \in Tokens : RecordAdvances(journal.rec[t], journal'.rec[t])
  <2>1. pc[h] = "putJournal" /\ journal' = op[h].snap
    BY <1>1 DEF PutJournal, Fail, dirVars
  <2>2. PlanInv(h)
    BY <2>1 DEF IInv, CallInv, Busy, BeforeCommit
  <2> QED BY <2>1, <2>2 DEF PlanInv
<1>2. ASSUME NEW h \in Handles, Call(h) PROVE journal' = journal
  BY <1>2 DEF Call, OpenClean, OpenRecovering, RecoverClean, RecoverReserved, Insert, Reserve,
              MarkTerminal, Begin, dirVars
<1>3. ASSUME NEW h \in Handles, Work(h), ~PutJournal(h) PROVE journal' = journal
  BY <1>3 DEF Work, RejectSnapshot, SyncJournal, PutFile, SyncFile, Fail, dirVars
<1>4. ASSUME NEW h \in Handles, Close(h) \/ Exit(h) PROVE journal' = journal
  BY <1>4 DEF Close, Exit, dirVars
<1>5. CASE PowerLoss
  BY <1>5 DEF PowerLoss
<1>6. CASE UNCHANGED vars
  BY <1>0, <1>6 DEF vars
<1> QED BY <1>0, <1>1, <1>2, <1>3, <1>4, <1>5, <1>6 DEF Next

\* The journal moves one version at a time (commit_snapshot under the lock).
THEOREM JournalMovesOneWay == Spec => LifecycleOneWay
<1>1. IInv /\ [Next]_vars =>
        [\/ journal' \in images
         \/ /\ journal'.gen = journal.gen + 1
            /\ \A t \in Tokens : RecordAdvances(journal.rec[t], journal'.rec[t])]_journal
  BY JournalStep
<1> QED BY <1>1, Invariance, PTL DEF Spec, LifecycleOneWay

-------------------------------------------------------------------------------
(* The record limit *)

\* No journal that can be found is beyond the limit.
LimitInv == \A s \in images : WithinLimit(s)

\* Every step keeps the records within their limit.
LEMMA LimitStep ==
  ASSUME IInv, LimitInv, [Next]_vars
  PROVE  LimitInv'
<1>0. journal \in images
  BY DEF IInv, ImagesInv
<1>1. ASSUME NEW h \in Handles, PutJournal(h) PROVE LimitInv'
  BY <1>1 DEF PutJournal, Fail, dirVars, LimitInv, ValidSnapshot, WithinLimit, Recorded
<1>2. ASSUME NEW h \in Handles, SyncJournal(h) PROVE LimitInv'
  BY <1>0, <1>2 DEF SyncJournal, SyncedImages, Fail, dirVars, LimitInv
<1>3. ASSUME NEW h \in Handles, RejectSnapshot(h) \/ PutFile(h) \/ SyncFile(h) PROVE LimitInv'
  BY <1>3 DEF RejectSnapshot, PutFile, SyncFile, Fail, dirVars, LimitInv
<1>4. ASSUME NEW h \in Handles, Call(h) PROVE LimitInv'
  BY <1>4 DEF Call, OpenClean, OpenRecovering, RecoverClean, RecoverReserved, Insert, Reserve,
              MarkTerminal, Begin, dirVars, LimitInv
<1>5. ASSUME NEW h \in Handles, Close(h) \/ Exit(h) PROVE LimitInv'
  BY <1>5 DEF Close, Exit, dirVars, LimitInv
<1>6. CASE PowerLoss
  BY <1>6 DEF PowerLoss, LimitInv
<1>7. CASE UNCHANGED vars
  BY <1>7 DEF vars, LimitInv
<1> QED BY <1>1, <1>2, <1>3, <1>4, <1>5, <1>6, <1>7 DEF Next, Work

\* At first there are no records.
LEMMA LimitInit == Init => LimitInv
<1>1. Recorded(EmptySnapshot) = {} /\ Cardinality({}) = 0
  BY EmptySnapshotOK, FS_EmptySet
<1>2. WithinLimit(EmptySnapshot)
  <2>1. MaxRecords \in Nat
    BY ConstantsOK
  <2> QED BY <1>1, <2>1 DEF WithinLimit
<1>3. Init => images = {EmptySnapshot}
  BY DEF Init
<1> QED BY <1>2, <1>3 DEF LimitInv

\* A call that inserts nothing keeps the number of records.
LEMMA RefusesOnlyInserts == IInv /\ LimitInv => OnlyInsertsRefused
<1> SUFFICES ASSUME IInv, LimitInv, NEW h \in Handles,
                    pc[h] = "putJournal", op[h].kind # "insert"
             PROVE  ValidSnapshot(op[h].snap)
  BY DEF OnlyInsertsRefused
<1>1. WellFormed(op[h].snap) /\ PlanInv(h)
  BY DEF IInv, CallInv, Busy, BeforeCommit
<1>2. Recorded(op[h].snap) = Recorded(journal)
  BY <1>1 DEF PlanInv, RecordAdvances, Recorded, Terminal
<1>3. WithinLimit(journal)
  BY DEF LimitInv, IInv, ImagesInv
<1> QED BY <1>1, <1>2, <1>3 DEF ValidSnapshot, WithinLimit

\* At the record limit only insert is refused (validate_snapshot).
THEOREM LimitRefusesOnlyInserts == Spec => []OnlyInsertsRefused
<1>1. Spec => []LimitInv
  BY LimitInit, LimitStep, Invariance, PTL DEF Spec
<1> QED BY <1>1, RefusesOnlyInserts, Invariance, PTL

-------------------------------------------------------------------------------
(* TokenStore implements OneTimeToken: the promise a caller relies on is   *)
(* kept by every step, failed calls and losses of power included.          *)

\* What a step does to the journals that may be found, and to the histories.
QuietStep ==
  /\ granted' = granted
  /\ \A s \in images' :
       \/ s \in images
       \/ \A t \in Tokens : RecordAdvances(journal.rec[t], s.rec[t])

GrantStep ==
  \E g \in [tid : Tokens, bind : Bindings, gen : Generations] :
    /\ granted' = granted \cup {g}
    /\ images' = images
    /\ \A s \in images : s.rec[g.tid].state = "reserved"
    /\ \A r \in granted : r.tid # g.tid /\ r.bind.iid # g.bind.iid

\* Syncing a file changes nothing that was promised.
LEMMA SyncFileStep ==
  ASSUME IInv, NEW h \in Handles, SyncFile(h)
  PROVE  QuietStep \/ GrantStep
<1>1. CASE op[h].kind # "reserve" \/ Fail(h)
  BY <1>1 DEF SyncFile, Fail, QuietStep, dirVars
<1>2. CASE op[h].kind = "reserve" /\ ~Fail(h)
  <2> DEFINE g == Reservation(h)
  <2>1. pc[h] = "syncFile" /\ granted' = granted \cup {g} /\ images' = images
    BY <1>2 DEF SyncFile
  <2>2. CallOK(h) /\ op[h].tid \in Tokens
    BY <2>1, NotOfferedWhileWritten DEF IInv, CallInv, CallOK, Busy
  <2>3. images = {op[h].snap}
    BY <1>2, <2>1, <2>2 DEF CallOK, AfterCommit
  <2>4. op[h].snap.gen \in Generations
    BY DEF IInv, TypeOK, Calls, Snapshot
  <2>5. /\ g \in [tid : Tokens, bind : Bindings, gen : Generations]
        /\ \A s \in images : s.rec[g.tid].state = "reserved"
        /\ \A r \in granted : r.tid # g.tid /\ r.bind.iid # g.bind.iid
    BY <1>2, <2>2, <2>3, <2>4 DEF CallOK, KindInv, FreshInv, Target, Reservation
  <2> HIDE DEF g
  <2> QED BY <2>1, <2>5 DEF GrantStep
<1> QED BY <1>1, <1>2

\* Writing a journal changes nothing that was promised.
LEMMA PutJournalStep ==
  ASSUME IInv, NEW h \in Handles, PutJournal(h)
  PROVE  QuietStep
<1>1. CASE Fail(h)
  BY <1>1 DEF Fail, QuietStep, dirVars
<1>2. CASE ~Fail(h)
  <2>1. /\ pc[h] = "putJournal"
        /\ granted' = granted
        /\ images' = images \cup {op[h].snap}
    BY <1>2 DEF PutJournal
  <2>2. PlanInv(h)
    BY <2>1 DEF IInv, CallInv, Busy, BeforeCommit
  <2> QED BY <2>1, <2>2 DEF PlanInv, QuietStep
<1> QED BY <1>1, <1>2

\* Every step of the store is a step of the promise or a stutter.
LEMMA EveryStep ==
  ASSUME IInv, [Next]_vars
  PROVE  QuietStep \/ GrantStep
<1>0. journal \in images
  BY DEF IInv, ImagesInv
<1>1. ASSUME NEW h \in Handles, Call(h) PROVE QuietStep
  BY <1>1 DEF Call, OpenClean, OpenRecovering, RecoverClean, RecoverReserved, Insert, Reserve,
              MarkTerminal, Begin, dirVars, QuietStep
<1>2. ASSUME NEW h \in Handles, SyncJournal(h) PROVE QuietStep
  BY <1>0, <1>2 DEF SyncJournal, SyncedImages, Fail, dirVars, QuietStep
<1>3. ASSUME NEW h \in Handles, RejectSnapshot(h) \/ PutFile(h) PROVE QuietStep
  BY <1>3 DEF RejectSnapshot, PutFile, Fail, dirVars, QuietStep
<1>4. ASSUME NEW h \in Handles, Work(h) PROVE QuietStep \/ GrantStep
  BY <1>2, <1>3, <1>4, SyncFileStep, PutJournalStep DEF Work
<1>5. ASSUME NEW h \in Handles, Close(h) \/ Exit(h) PROVE QuietStep
  BY <1>5 DEF Close, Exit, dirVars, QuietStep
<1>6. CASE PowerLoss
  BY <1>6 DEF PowerLoss, QuietStep
<1>7. CASE UNCHANGED vars
  BY <1>7 DEF vars, QuietStep
<1> QED BY <1>1, <1>4, <1>5, <1>6, <1>7 DEF Next

-------------------------------------------------------------------------------

\* A token that was handed out has one holder, the binding of its reservation.
LEMMA HolderOf ==
  ASSUME NEW t \in Tokens
  PROVE  /\ HeldBy(t) = {} => PromisedHolder[t] = NoBinding
         /\ HeldBy(t) # {} => \E r \in granted : r.tid = t /\ PromisedHolder[t] = r.bind
<1>1. PromisedHolder[t] = IF HeldBy(t) = {} THEN NoBinding
                                            ELSE AnyBinding(HeldBy(t))
  BY DEF PromisedHolder
<1>2. HeldBy(t) # {} => \E r \in HeldBy(t) : AnyBinding(HeldBy(t)) = r.bind
  BY DEF AnyBinding
<1>3. \A r \in HeldBy(t) : r \in granted /\ r.tid = t
  BY DEF HeldBy
<1> QED BY <1>1, <1>2, <1>3

\* What is final stays final, and what was handed out stays handed out.
LEMMA QuietStepSettles ==
  ASSUME IInv, IInv', QuietStep
  PROVE  Promise!Settle
<1>1. \A t \in Tokens : HeldBy(t)' = HeldBy(t)
  BY DEF QuietStep, HeldBy
<1>2. PromisedHolder' = PromisedHolder
  BY <1>1 DEF PromisedHolder
<1>3. PromisedStatus' \in [Tokens -> {"unused", "granted", "spent", "burned"}]
  BY DEF PromisedStatus
<1>4. ASSUME NEW t \in Tokens, PromisedStatus'[t] # PromisedStatus[t]
      PROVE  PromisedStatus[t] = "granted" /\ PromisedStatus'[t] \in {"spent", "burned"}
  <2>1. journal \in images
    BY DEF IInv, ImagesInv
  <2>2. ASSUME NEW st \in Terminal, \A s \in images : s.rec[t].state = st
        PROVE  \A s \in images' : s.rec[t].state = st
    BY <2>1, <2>2 DEF QuietStep, RecordAdvances, Terminal
  <2>3. \E s \in images' : TRUE
    BY DEF IInv, ImagesInv
  <2>4. PromisedStatus[t] = IF HeldBy(t) = {} THEN "unused"
                            ELSE IF \A s \in images : s.rec[t].state = "spent" THEN "spent"
                            ELSE IF \A s \in images : s.rec[t].state = "burned" THEN "burned"
                            ELSE "granted"
    BY DEF PromisedStatus
  <2>5. PromisedStatus'[t] = IF HeldBy(t) = {} THEN "unused"
                             ELSE IF \A s \in images' : s.rec[t].state = "spent" THEN "spent"
                             ELSE IF \A s \in images' : s.rec[t].state = "burned" THEN "burned"
                             ELSE "granted"
    BY <1>1 DEF PromisedStatus
  <2> QED BY <1>4, <2>2, <2>3, <2>4, <2>5 DEF Terminal
<1> QED BY <1>2, <1>3, <1>4 DEF Promise!Settle

\* The step that grants a token is the promised grant.
LEMMA GrantStepGrants ==
  ASSUME IInv, GrantStep
  PROVE  \E t \in Tokens, b \in Bindings : Promise!Grant(t, b)
<1>1. PICK g \in [tid : Tokens, bind : Bindings, gen : Generations] :
        /\ granted' = granted \cup {g}
        /\ images' = images
        /\ \A s \in images : s.rec[g.tid].state = "reserved"
        /\ \A r \in granted : r.tid # g.tid /\ r.bind.iid # g.bind.iid
  BY DEF GrantStep
<1>2. g.tid \in Tokens /\ g.bind \in Bindings
  OBVIOUS
<1>3. HeldBy(g.tid) = {} /\ HeldBy(g.tid)' = {g}
  BY <1>1 DEF HeldBy
<1>4. \A u \in Tokens \ {g.tid} : HeldBy(u)' = HeldBy(u)
  BY <1>1 DEF HeldBy
<1>5. PromisedStatus[g.tid] = "unused"
  BY <1>2, <1>3 DEF PromisedStatus
<1>6. \A u \in Tokens : PromisedHolder[u] # NoBinding => PromisedHolder[u].iid # g.bind.iid
  BY <1>1, HolderOf
<1>7. PromisedStatus' = [PromisedStatus EXCEPT ![g.tid] = "granted"]
  <2>1. \E s \in images : s.rec[g.tid].state = "reserved"
    BY <1>1 DEF IInv, ImagesInv
  <2>2. PromisedStatus'[g.tid] = "granted"
    BY <1>1, <1>2, <1>3, <2>1 DEF PromisedStatus
  <2>3. \A u \in Tokens \ {g.tid} : PromisedStatus'[u] = PromisedStatus[u]
    BY <1>1, <1>4 DEF PromisedStatus
  <2> QED BY <2>2, <2>3 DEF PromisedStatus
<1>8. PromisedHolder' = [PromisedHolder EXCEPT ![g.tid] = g.bind]
  <2>1. PromisedHolder'[g.tid] = g.bind
    <3>1. AnyBinding({g}) = g.bind
      BY DEF AnyBinding
    <3> QED BY <1>2, <1>3, <3>1 DEF PromisedHolder
  <2>2. \A u \in Tokens \ {g.tid} : PromisedHolder'[u] = PromisedHolder[u]
    BY <1>4 DEF PromisedHolder
  <2> QED BY <2>1, <2>2 DEF PromisedHolder
<1>9. Promise!Grant(g.tid, g.bind)
  BY <1>5, <1>6, <1>7, <1>8 DEF Promise!Grant
<1> QED BY <1>2, <1>9

\* The store starts where the promise starts.
LEMMA InitPromised == Init => Promise!Init
<1> SUFFICES ASSUME Init PROVE Promise!Init
  OBVIOUS
<1>1. \A t \in Tokens : HeldBy(t) = {}
  BY DEF Init, HeldBy
<1> QED BY <1>1 DEF Promise!Init, PromisedStatus, PromisedHolder

\* The store implements the one-time token, for every number of processes,
\* tokens, bindings and faults (reserve, mark_spent, mark_burned, open).
THEOREM StoreKeepsPromise == Spec => ImplementsOneTimeToken
<1>1. IInv /\ IInv' /\ [Next]_vars => [Promise!Next]_(Promise!promise)
  BY EveryStep, QuietStepSettles, GrantStepGrants DEF Promise!Next
<1> QED BY <1>1, InitPromised, Invariance, PTL DEF Spec, ImplementsOneTimeToken, Promise!Spec

-------------------------------------------------------------------------------
(* Proof attempts *)

\* A settled token that was spent.
SpentSettled(t) == \E a \in settled : a.tid = t /\ a.state = "spent"

\* No proof has left under the token, and none is about to.
Unreleased(t) ==
  /\ released[t] = 0
  /\ \A k \in Handles : run[k].phase = "spent" => run[k].tid # t

\* What a process inside a store call is doing for its attempt.
CallOf(h) ==
  /\ op[h].kind = "open" => run[h].phase = "start"
  /\ op[h].kind = "insert" => run[h].phase = "opened" /\ op[h].tid = run[h].tid
  /\ op[h].kind = "reserve" => run[h].phase = "ready"
  /\ op[h].kind = "mark" =>
       /\ run[h].phase \in {"accepted", "dropping"}
       /\ op[h].tid = run[h].tid
       /\ Target(h).bind = run[h].bind
       /\ run[h].phase = "accepted" => Target(h).state = "spent"
       /\ Unreleased(op[h].tid)

\* A process that works under a token was granted it; one that is about to
\* reserve has selected it.
AttemptInv ==
  \A h \in Handles :
    /\ Holding(h) => Attempt(h) \in granted
    /\ run[h].phase = "ready" => run[h].tid \in Tokens

BusyInv ==
  \A h \in Handles :
    Busy(h) => op[h].kind \in {"open", "insert", "reserve", "mark"} /\ CallOf(h)

\* The proofs that have left and the one a process is about to write.
ReleaseInv ==
  /\ \A t \in Tokens : released[t] \in {0, 1} /\ (released[t] = 1 => SpentSettled(t))
  /\ \A h \in Handles :
       run[h].phase = "spent" =>
         /\ run[h].tid \in Tokens
         /\ SpentSettled(run[h].tid)
         /\ released[run[h].tid] = 0
  /\ \A h, k \in Handles :
       run[h].phase = "spent" /\ run[k].phase = "spent" /\ h # k => run[h].tid # run[k].tid

\* What an attempt adds to the store.
runOwn == <<run, released, orphans>>

RunInv == RunTypeOK /\ AttemptInv /\ BusyInv /\ ReleaseInv /\ ExclusiveAttempts

-------------------------------------------------------------------------------
(* Every step of an attempt is a step of the store, or none *)

\* Every step of the attempts is a step of the token store or leaves it alone.
LEMMA RunStepIsStoreStep ==
  ASSUME RunInv, [RunNext]_runVars
  PROVE  [Next]_vars
<1>1. ASSUME NEW h \in Handles, RunOpen(h) PROVE [Next]_vars
  BY <1>1 DEF RunOpen, Next, Call
<1>2. ASSUME NEW h \in Handles, NEW t \in Tokens, SelectPregenerated(h, t) \/ InsertFresh(h, t)
      PROVE  [Next]_vars
  BY <1>2 DEF SelectPregenerated, InsertFresh, Next, Call
<1>3. ASSUME NEW h \in Handles, NoTokenFound(h) \/ Guard(h) \/ Prove(h) \/ Release(h)
      PROVE  [Next]_vars
  BY <1>3 DEF NoTokenFound, Guard, Prove, Release
<1>4. ASSUME NEW h \in Handles, NEW b \in Bindings, RunReserve(h, b) PROVE [Next]_vars
  <2>1. CASE UNCHANGED vars
    BY <2>1
  <2>2. CASE Reserve(h, run[h].tid, b)
    <3>1. run[h].tid \in Tokens
      BY <1>4 DEF RunInv, AttemptInv, RunReserve, At
    <3> QED BY <2>2, <3>1 DEF Next, Call
  <2> QED BY <1>4, <2>1, <2>2 DEF RunReserve
<1>5. ASSUME NEW h \in Handles, Spend(h) \/ Burn(h) PROVE [Next]_vars
  <2>1. CASE UNCHANGED vars
    BY <2>1
  <2>2. CASE \E target \in Terminal : MarkTerminal(h, Attempt(h), target)
    <3>1. Attempt(h) \in granted
      BY <1>5 DEF RunInv, AttemptInv, Spend, Burn, At, Holding
    <3> QED BY <2>2, <3>1 DEF Next, Call
  <2> QED BY <1>5, <2>1, <2>2 DEF Spend, Burn, Terminal
<1>6. ASSUME NEW h \in Handles, StoreWork(h) PROVE [Next]_vars
  BY <1>6 DEF StoreWork, Next
<1>7. ASSUME NEW h \in Handles, Quit(h) \/ Killed(h) PROVE [Next]_vars
  BY <1>7 DEF Quit, Killed, Next
<1>8. CASE MachineDown
  BY <1>8 DEF MachineDown, Next
<1>9. CASE UNCHANGED runVars
  BY <1>9 DEF runVars
<1> QED BY <1>1, <1>2, <1>3, <1>4, <1>5, <1>6, <1>7, <1>8, <1>9 DEF RunNext, Proceed

-------------------------------------------------------------------------------
(* The steps that neither grant, settle nor release *)

\* Only process h moves, and it takes nothing new into its attempt.
LEMMA OneMoves ==
  ASSUME RunInv, RunTypeOK', NEW h \in Handles,
         UNCHANGED <<granted, settled, released>>,
         \A k \in Handles \ {h} : run'[k] = run[k] /\ op'[k] = op[k] /\ (Busy(k)' => Busy(k)),
         Holding(h)' => Holding(h) /\ Attempt(h)' = Attempt(h),
         run'[h].phase # "spent",
         run'[h].phase = "ready" => run'[h].tid \in Tokens,
         Busy(h)' => op'[h].kind \in {"open", "insert", "reserve", "mark"} /\ CallOf(h)'
  PROVE  RunInv'
<1> USE DEF RunInv
<1>1. AttemptInv'
  BY DEF AttemptInv, Holding, Attempt
<1>2. \A t : Unreleased(t) => Unreleased(t)'
  BY DEF Unreleased
<1>3. BusyInv'
  <2>1. ASSUME NEW k \in Handles \ {h}, Busy(k)'
        PROVE  op'[k].kind \in {"open", "insert", "reserve", "mark"} /\ CallOf(k)'
    BY <1>2, <2>1 DEF BusyInv, CallOf, Target
  <2> QED BY <2>1 DEF BusyInv
<1>4. ReleaseInv'
  BY DEF ReleaseInv, SpentSettled
<1>5. ExclusiveAttempts'
  BY DEF ExclusiveAttempts, Holding, Attempt
<1> QED BY <1>1, <1>3, <1>4, <1>5

\* A step of the attempt outside the store.
LEMMA OutsideStore ==
  ASSUME IInv, RunInv, NEW h \in Handles, NEW phase \in Phases, NEW t \in Tokens \cup {NoToken},
         ~Busy(h), UNCHANGED <<vars, released>>, orphans' \subseteq granted,
         run' = [run EXCEPT ![h] = [phase |-> phase, tid |-> t,
                                    bind |-> run[h].bind, gen |-> run[h].gen]],
         phase \in {"reserved", "proving", "accepted", "dropping"} => Holding(h) /\ t = run[h].tid,
         phase # "spent",
         phase = "ready" => t \in Tokens
  PROVE  RunInv'
<1>1. TypeOK'
  BY DEF IInv, TypeOK, vars
<1>2. run'[h] = [phase |-> phase, tid |-> t, bind |-> run[h].bind, gen |-> run[h].gen]
  BY DEF RunInv, RunTypeOK
<1>3. RunTypeOK'
  BY <1>1, <1>2 DEF RunInv, RunTypeOK, Runs, vars
<1>4. Holding(h)' => Holding(h) /\ Attempt(h)' = Attempt(h)
  BY <1>2 DEF Holding, Attempt
<1>5. \A k \in Handles : op'[k] = op[k] /\ (Busy(k)' <=> Busy(k))
  BY DEF Busy, vars
<1>6. \A k \in Handles \ {h} : run'[k] = run[k]
  BY DEF RunInv, RunTypeOK
<1>7. UNCHANGED <<granted, settled, released>>
  BY DEF vars
<1>8. run'[h].phase # "spent" /\ (run'[h].phase = "ready" => run'[h].tid \in Tokens)
  BY <1>2
<1>9. ~Busy(h)'
  BY <1>5
<1> HIDE DEF vars
<1> QED BY <1>3, <1>4, <1>5, <1>6, <1>7, <1>8, <1>9, OneMoves

\* Goto changes only the phase.
LEMMA GotoIs ==
  ASSUME RunInv, NEW h \in Handles, NEW phase \in Phases, Goto(h, phase)
  PROVE  run' = [run EXCEPT ![h] = [phase |-> phase, tid |-> run[h].tid,
                                    bind |-> run[h].bind, gen |-> run[h].gen]]
<1>1. run' = [run EXCEPT ![h] = [run[h] EXCEPT !.phase = phase]]
  BY DEF Goto
<1>2. run[h] \in Runs
  BY DEF RunInv, RunTypeOK
<1>3. [run[h] EXCEPT !.phase = phase]
        = [phase |-> phase, tid |-> run[h].tid, bind |-> run[h].bind, gen |-> run[h].gen]
  BY <1>2 DEF Runs
<1> QED BY <1>1, <1>3

\* Steps between the calls of an attempt keep the invariant.
LEMMA WaitingSteps ==
  ASSUME IInv, RunInv, NEW h \in Handles,
         \/ \E t \in Tokens : SelectPregenerated(h, t)
         \/ NoTokenFound(h)
         \/ \E b \in Bindings : RunReserve(h, b) /\ UNCHANGED vars
         \/ Guard(h)
         \/ Prove(h)
         \/ (Spend(h) \/ Burn(h)) /\ UNCHANGED vars
         \/ Release(h) /\ UNCHANGED released
  PROVE  RunInv'
<1> USE DEF At
<1>0. orphans \subseteq granted /\ run[h].tid \in Tokens \cup {NoToken}
  BY DEF RunInv, RunTypeOK, Runs
<1>1. ASSUME NEW t \in Tokens, SelectPregenerated(h, t) PROVE RunInv'
  <2>1. run' = [run EXCEPT ![h] = [phase |-> "ready", tid |-> t,
                                   bind |-> run[h].bind, gen |-> run[h].gen]]
    BY <1>1 DEF SelectPregenerated
  <2>2. "ready" \in Phases /\ t \in Tokens \cup {NoToken}
    BY DEF Phases
  <2>3. ~Busy(h) /\ UNCHANGED <<vars, released>> /\ orphans' \subseteq granted
    BY <1>0, <1>1 DEF SelectPregenerated
  <2> QED BY <2>1, <2>2, <2>3, OutsideStore
<1>2. ASSUME NEW phase \in {"ended", "failclosed", "proving", "accepted", "dropping"},
             ~Busy(h), UNCHANGED <<vars, released>>, orphans' \subseteq granted,
             Goto(h, phase),
             phase \in {"proving", "accepted", "dropping"} => Holding(h)
      PROVE  RunInv'
  <2>1. phase \in Phases /\ phase # "spent" /\ phase # "ready" /\ phase # "reserved"
    BY DEF Phases, Ended
  <2>2. run' = [run EXCEPT ![h] = [phase |-> phase, tid |-> run[h].tid,
                                   bind |-> run[h].bind, gen |-> run[h].gen]]
    BY <1>2, <2>1, GotoIs
  <2> QED BY <1>0, <1>2, <2>1, <2>2, OutsideStore
<1>3. CASE NoTokenFound(h)
  BY <1>0, <1>2, <1>3 DEF NoTokenFound
<1>4. ASSUME NEW b \in Bindings, RunReserve(h, b), UNCHANGED vars PROVE RunInv'
  <2>1. pc[h] \notin {"putJournal"} /\ pc' = pc
    BY <1>4 DEF RunReserve, Busy, vars
  <2>2. ~Reserve(h, run[h].tid, b)
    BY <2>1, <1>4 DEF Reserve, Begin, IInv, TypeOK
  <2> QED BY <1>0, <1>2, <1>4, <2>2 DEF RunReserve
<1>5. CASE Guard(h)
  <2>1. Holding(h) /\ Attempt(h) \in granted
    BY <1>5 DEF Guard, Holding, RunInv, AttemptInv
  <2> QED BY <1>0, <1>2, <1>5, <2>1 DEF Guard
<1>6. CASE Prove(h)
  <2>1. Holding(h)
    BY <1>6 DEF Prove, Holding
  <2> QED BY <1>0, <1>2, <1>6, <2>1 DEF Prove
<1>7. CASE (Spend(h) \/ Burn(h)) /\ UNCHANGED vars
  <2>1. pc[h] \notin {"putJournal"} /\ pc' = pc /\ Holding(h)
    BY <1>7 DEF Spend, Burn, Busy, vars, Holding
  <2>2. \A r, target : ~MarkTerminal(h, r, target)
    BY <2>1 DEF MarkTerminal, Begin, IInv, TypeOK
  <2> QED BY <1>0, <1>2, <1>7, <2>1, <2>2 DEF Spend, Burn
<1>8. CASE Release(h) /\ UNCHANGED released
  <2>1. released[run[h].tid] \in Nat /\ run[h].tid \in Tokens
    BY <1>8 DEF Release, RunInv, RunTypeOK, ReleaseInv
  <2>2. released' # [released EXCEPT ![run[h].tid] = @ + 1]
    BY <1>8, <2>1 DEF RunInv, RunTypeOK
  <2> QED BY <1>0, <1>2, <1>8, <2>2 DEF Release
<1> QED BY <1>1, <1>3, <1>4, <1>5, <1>6, <1>7, <1>8

-------------------------------------------------------------------------------
(* The beginning of a store call *)

\* An attempt that calls the store waits for that call.
LEMMA BeginsRunCall ==
  ASSUME IInv, RunInv, TypeOK', NEW h \in Handles,
         NEW kind \in {"open", "insert", "reserve", "mark"}, NEW t, NEW snap,
         NEW next \in {"putJournal", "putFile"}, NEW r \in Runs,
         Begin(h, kind, t, snap, next),
         run' = [run EXCEPT ![h] = r], UNCHANGED <<released, orphans>>,
         r.phase = run[h].phase, r.phase # "spent", r.phase = "opened" \/ r = run[h],
         CallOf(h)'
  PROVE  RunInv'
<1>1. run'[h] = r /\ \A k \in Handles \ {h} : run'[k] = run[k]
  BY DEF RunInv, RunTypeOK
<1>2. UNCHANGED <<granted, settled, released>>
  BY DEF Begin
<1>3. RunTypeOK'
  BY <1>2 DEF RunInv, RunTypeOK
<1>4. /\ op'[h].kind = kind
      /\ \A k \in Handles \ {h} : op'[k] = op[k] /\ (Busy(k)' => Busy(k))
  BY DEF Begin, Busy, IInv, TypeOK
<1>5. Holding(h)' => Holding(h) /\ Attempt(h)' = Attempt(h)
  BY <1>1 DEF Holding, Attempt
<1>6. run'[h].phase = "ready" => run'[h].tid \in Tokens
  BY <1>1 DEF RunInv, AttemptInv
<1> QED BY <1>1, <1>2, <1>3, <1>4, <1>5, <1>6, OneMoves

\* Opening the store starts an attempt.
LEMMA RunOpenRunInv ==
  ASSUME IInv, RunInv, TypeOK', NEW h \in Handles, RunOpen(h)
  PROVE  RunInv'
<1> USE DEF At
<1>1. CASE OpenRecovering(h) /\ UNCHANGED run
  <2>1. /\ run[h] \in Runs /\ run' = [run EXCEPT ![h] = run[h]]
        /\ run[h].phase = "start" /\ UNCHANGED <<released, orphans>>
    BY <1>1 DEF RunInv, RunTypeOK, RunOpen
  <2>2. Begin(h, "open", NoToken, Recovered(journal), "putJournal")
    BY <1>1 DEF OpenRecovering
  <2>3. CallOf(h)'
    BY <2>1, <2>2 DEF Begin, CallOf, IInv, TypeOK, RunInv, RunTypeOK
  <2> QED BY <2>1, <2>2, <2>3, BeginsRunCall
<1>2. CASE OpenClean(h) /\ Goto(h, "opened")
  <2>1. "opened" \in Phases
    BY DEF Phases
  <2>2. run' = [run EXCEPT ![h] = [phase |-> "opened", tid |-> run[h].tid,
                                   bind |-> run[h].bind, gen |-> run[h].gen]]
    BY <1>2, <2>1, GotoIs
  <2>3. /\ run'[h].phase = "opened" /\ run' \in [Handles -> Runs]
        /\ \A k \in Handles \ {h} : run'[k] = run[k]
    BY <2>1, <2>2 DEF RunInv, RunTypeOK, Runs
  <2>4. /\ UNCHANGED <<granted, settled, released, orphans, op>> /\ ~Busy(h)'
        /\ \A k \in Handles \ {h} : Busy(k)' => Busy(k)
    BY <1>2 DEF OpenClean, RunOpen, Busy, IInv, TypeOK
  <2>5. RunTypeOK'
    BY <2>3, <2>4 DEF RunInv, RunTypeOK
  <2>6. ~Holding(h)'
    BY <2>3 DEF Holding
  <2> QED BY <2>3, <2>4, <2>5, <2>6, OneMoves
<1> QED BY <1>1, <1>2 DEF RunOpen

\* Inserting a fresh token keeps the invariant.
LEMMA InsertFreshRunInv ==
  ASSUME IInv, RunInv, TypeOK', NEW h \in Handles, NEW t \in Tokens, InsertFresh(h, t)
  PROVE  RunInv'
<1> USE DEF At
<1>1. run[h] \in Runs /\ run[h].phase = "opened"
  BY DEF RunInv, RunTypeOK, InsertFresh
<1> DEFINE r == [run[h] EXCEPT !.tid = t]
<1>2. r \in Runs /\ r.phase = "opened" /\ r.tid = t
  BY <1>1 DEF Runs
<1>3. run' = [run EXCEPT ![h] = r] /\ UNCHANGED <<released, orphans>>
  BY DEF InsertFresh
<1>4. Begin(h, "insert", t, WithRecord(journal, t, "available", NoBinding), "putFile")
  BY DEF InsertFresh, Insert
<1>5. op'[h].kind = "insert" /\ op'[h].tid = t /\ run'[h] = r
  BY <1>3, <1>4 DEF Begin, IInv, TypeOK, RunInv, RunTypeOK
<1>6. CallOf(h)'
  BY <1>2, <1>5 DEF CallOf
<1> HIDE DEF r
<1> QED BY <1>1, <1>2, <1>3, <1>4, <1>6, BeginsRunCall

\* Reserving a token keeps the invariant.
LEMMA ReserveBegins ==
  ASSUME IInv, RunInv, TypeOK', NEW h \in Handles, NEW b \in Bindings, RunReserve(h, b),
         Reserve(h, run[h].tid, b), UNCHANGED run
  PROVE  RunInv'
<1>1. /\ run[h] \in Runs /\ run' = [run EXCEPT ![h] = run[h]]
      /\ run[h].phase = "ready" /\ UNCHANGED <<released, orphans>>
  BY DEF RunInv, RunTypeOK, RunReserve, At
<1>2. Begin(h, "reserve", run[h].tid, WithRecord(journal, run[h].tid, "reserved", b), "putJournal")
  BY DEF Reserve
<1>3. CallOf(h)'
  BY <1>1, <1>2 DEF Begin, CallOf, IInv, TypeOK, RunInv, RunTypeOK
<1> QED BY <1>1, <1>2, <1>3, BeginsRunCall

\* A token that is still reserved has neither been released nor is it about to be.
LEMMA ReservedUnreleased ==
  ASSUME IInv, RunInv, NEW t \in Tokens, journal.rec[t].state = "reserved"
  PROVE  Unreleased(t)
<1>1. ~SpentSettled(t)
  BY DEF SpentSettled, IInv, SettledDurable, ImagesInv
<1> QED BY <1>1 DEF Unreleased, RunInv, ReleaseInv

\* Marking a reserved token keeps the invariant.
LEMMA MarkBegins ==
  ASSUME IInv, RunInv, TypeOK', NEW h \in Handles, NEW target \in Terminal,
         MarkTerminal(h, Attempt(h), target), run[h].phase \in {"accepted", "dropping"},
         run[h].phase = "accepted" => target = "spent",
         UNCHANGED <<run, released, orphans>>
  PROVE  RunInv'
<1> DEFINE t == run[h].tid
           n == WithRecord(journal, t, target, run[h].bind)
<1>1. run[h] \in Runs /\ run' = [run EXCEPT ![h] = run[h]]
  BY DEF RunInv, RunTypeOK
<1>2. Begin(h, "mark", t, n, "putJournal") /\ TerminalAccepted(journal, t, run[h].bind, run[h].gen)
  BY DEF MarkTerminal, Attempt
<1>3. Attempt(h) \in granted /\ Attempt(h).tid = t
  BY DEF RunInv, AttemptInv, Holding, Attempt
<1>4. t \in Tokens
  BY <1>3 DEF IInv, TypeOK
<1>5. Unreleased(t)
  BY <1>2, <1>4, ReservedUnreleased DEF TerminalAccepted
<1>6. op'[h] = [kind |-> "mark", tid |-> t, snap |-> n]
  BY <1>2 DEF Begin, IInv, TypeOK
<1>7. n.rec[t].state = target /\ n.rec[t].bind = run[h].bind
  BY <1>4 DEF WithRecord, IInv, TypeOK, Snapshot
<1> HIDE DEF n
<1>8. CallOf(h)'
  BY <1>5, <1>6, <1>7 DEF CallOf, Target, Unreleased
<1> QED BY <1>1, <1>2, <1>8, BeginsRunCall

-------------------------------------------------------------------------------
(* The end of a process *)

\* The idle attempt is a value of its type.
LEMMA IdleIsRun == Idle \in Runs
BY ConstantsOK DEF Idle, Runs, Phases, Generations

\* The end of a process forgets its attempt and keeps the others.
LEMMA EndsProcess ==
  ASSUME IInv, RunInv, TypeOK', NEW h \in Handles, Quit(h) \/ Killed(h)
  PROVE  RunInv'
<1>1. /\ run'[h] = Idle
      /\ run' \in [Handles -> Runs]
      /\ \A k \in Handles \ {h} : run'[k] = run[k]
  BY IdleIsRun DEF Quit, Killed, RunInv, RunTypeOK
<1>2. /\ UNCHANGED <<granted, settled, released, orphans>>
      /\ ~Busy(h)'
      /\ \A k \in Handles \ {h} : op'[k] = op[k] /\ (Busy(k)' => Busy(k))
  BY DEF Quit, Killed, Close, Exit, Busy, IInv, TypeOK
<1>3. RunTypeOK'
  BY <1>1, <1>2 DEF RunInv, RunTypeOK
<1>4. run'[h].phase = "start" /\ ~Holding(h)'
  BY <1>1 DEF Idle, Holding
<1> QED BY <1>1, <1>2, <1>3, <1>4, OneMoves

\* A loss of power ends every attempt.
LEMMA MachineDownRunInv ==
  ASSUME IInv, RunInv, TypeOK', MachineDown
  PROVE  RunInv'
<1>1. run' \in [Handles -> Runs] /\ \A k \in Handles : run'[k].phase = "start"
  BY IdleIsRun DEF MachineDown, Idle
<1>2. UNCHANGED <<granted, settled, released, orphans>> /\ \A k \in Handles : ~Busy(k)'
  BY DEF MachineDown, PowerLoss, Busy
<1>3. RunTypeOK'
  BY <1>1, <1>2 DEF RunInv, RunTypeOK
<1>4. AttemptInv' /\ BusyInv' /\ ExclusiveAttempts'
  BY <1>1, <1>2 DEF AttemptInv, BusyInv, ExclusiveAttempts, Holding
<1>5. ReleaseInv'
  BY <1>1, <1>2 DEF RunInv, ReleaseInv, SpentSettled
<1> QED BY <1>3, <1>4, <1>5 DEF RunInv

-------------------------------------------------------------------------------
(* The steps inside a store call *)

\* The store's work inside a call leaves the attempt where it waits.
LEMMA WorkGoesOn ==
  ASSUME IInv, RunInv, TypeOK', NEW h \in Handles, Work(h), Busy(h)', UNCHANGED runOwn
  PROVE  RunInv'
<1> USE DEF runOwn
<1>1. Busy(h)
  BY DEF Work, PutJournal, RejectSnapshot, SyncJournal, PutFile, SyncFile, Busy
<1>2. /\ UNCHANGED <<op, granted, settled>>
      /\ \A k \in Handles \ {h} : Busy(k)' => Busy(k)
  <2>1. /\ ~Return(h, "idle")
        /\ ~Return(h, "closed")
    BY DEF Return, Busy, IInv, TypeOK
  <2>2. ~Fail(h) /\ ~RejectSnapshot(h)
    BY <2>1 DEF Fail, RejectSnapshot
  <2>3. CASE PutJournal(h) \/ PutFile(h)
    BY <2>2, <2>3 DEF PutJournal, PutFile, Busy, IInv, TypeOK
  <2>4. CASE SyncJournal(h)
    BY <2>1, <2>2, <2>4 DEF SyncJournal, Busy, IInv, TypeOK
  <2>5. CASE SyncFile(h)
    BY <2>1, <2>2, <2>5 DEF SyncFile, Busy, IInv, TypeOK
  <2> QED BY <2>2, <2>3, <2>4, <2>5 DEF Work
<1>3. RunTypeOK'
  BY <1>2 DEF RunInv, RunTypeOK
<1>4. op[h].kind \in {"open", "insert", "reserve", "mark"} /\ CallOf(h)
  BY <1>1 DEF RunInv, BusyInv
<1>5. CallOf(h)'
  BY <1>2, <1>4 DEF CallOf, Target, Unreleased
<1>6. run[h].phase # "spent" /\ (run[h].phase = "ready" => run[h].tid \in Tokens)
  BY <1>4 DEF CallOf, RunInv, AttemptInv
<1>7. Holding(h)' => Holding(h) /\ Attempt(h)' = Attempt(h)
  BY DEF Holding, Attempt
<1> QED BY <1>2, <1>3, <1>4, <1>5, <1>6, <1>7, OneMoves

\* A call that returns has granted or settled what it was made for, or failed.
LEMMA WorkEnds ==
  ASSUME IInv, NEW h \in Handles, Work(h), ~Busy(h)'
  PROVE  /\ Busy(h)
         /\ \A k \in Handles : ~Busy(k)'
         /\ \/ /\ ~(faults' = faults /\ pc[h] # "putJournal")
               /\ UNCHANGED <<granted, settled>>
            \/ /\ faults' = faults /\ pc[h] # "putJournal"
               /\ granted' = granted \cup (IF op[h].kind = "reserve" THEN {Reservation(h)} ELSE {})
               /\ settled' = settled \cup (IF op[h].kind = "mark" THEN {Settlement(h)} ELSE {})
<1>1. Busy(h)
  BY DEF Work, PutJournal, RejectSnapshot, SyncJournal, PutFile, SyncFile, Busy
<1>2. \A k \in Handles \ {h} : ~Busy(k) /\ pc'[k] = pc[k]
  <2>1. \A k \in Handles \ {h} : ~Busy(k)
    BY <1>1, OnlyOneBusy DEF IInv
  <2>2. \A k \in Handles \ {h} : pc'[k] = pc[k]
    BY DEF Work, PutJournal, RejectSnapshot, SyncJournal, PutFile, SyncFile, Fail, Return, IInv, TypeOK
  <2> QED BY <2>1, <2>2
<1>3. \A k \in Handles : ~Busy(k)'
  BY <1>2 DEF Busy
<1>4. CASE Fail(h)
  <2>1. faults' # faults
    BY <1>4 DEF Fail, IInv, TypeOK
  <2> QED BY <1>1, <1>3, <1>4, <2>1 DEF Fail
<1>5. CASE PutJournal(h) \/ RejectSnapshot(h) \/ PutFile(h)
  <2>1. CASE RejectSnapshot(h)
    BY <1>1, <1>3, <2>1 DEF RejectSnapshot
  <2>2. CASE PutJournal(h) \/ PutFile(h)
    <3>1. Fail(h)
      BY <2>2 DEF PutJournal, PutFile, Busy, IInv, TypeOK
    <3> QED BY <3>1, <1>4
  <2> QED BY <1>5, <2>1, <2>2
<1>6. CASE SyncJournal(h) /\ ~Fail(h)
  <2>1. pc[h] = "syncJournal" /\ UNCHANGED <<granted, faults>>
    BY <1>6 DEF SyncJournal
  <2>2. ~WritesFileAfterCommit(h)
    BY <1>6 DEF SyncJournal, Busy, IInv, TypeOK
  <2>3. /\ op[h].kind # "reserve"
        /\ settled' = settled \cup (IF op[h].kind = "mark" THEN {Settlement(h)} ELSE {})
    BY <1>6, <2>2 DEF SyncJournal, WritesFileAfterCommit
  <2> QED BY <1>1, <1>3, <2>1, <2>3
<1>7. CASE SyncFile(h) /\ ~Fail(h)
  BY <1>1, <1>3, <1>7 DEF SyncFile
<1> QED BY <1>4, <1>5, <1>6, <1>7 DEF Work

\* The attempt after its call has returned.
LEMMA AfterCallIs ==
  ASSUME RunInv, NEW h \in Handles, StoreWork(h), ~Busy(h)', Busy(h), NEW ok \in BOOLEAN,
         ok <=> faults' = faults /\ pc[h] # "putJournal"
  PROVE  /\ \A k \in Handles \ {h} : run'[k] = run[k]
         /\ AfterCall(h, ok) \in Phases
         /\ AfterCall(h, ok) = "reserved" =>
              run'[h] = [phase |-> "reserved", tid |-> Reservation(h).tid,
                         bind |-> Reservation(h).bind, gen |-> Reservation(h).gen]
         /\ AfterCall(h, ok) # "reserved" =>
              run'[h] = [phase |-> AfterCall(h, ok), tid |-> run[h].tid,
                         bind |-> run[h].bind, gen |-> run[h].gen]
<1>1. op[h].kind \in {"open", "insert", "reserve", "mark"} /\ CallOf(h)
  BY DEF RunInv, BusyInv
<1> DEFINE phase == AfterCall(h, ok)
<1>2. phase \in Phases
  BY <1>1 DEF CallOf, AfterCall, Phases, Ended
<1>3. AfterCall(h, faults' = faults /\ pc[h] # "putJournal") = phase
  BY DEF AfterCall
<1>4. run' = [run EXCEPT ![h] =
                 IF phase = "reserved"
                   THEN [phase |-> phase, tid |-> Reservation(h).tid,
                         bind |-> Reservation(h).bind, gen |-> Reservation(h).gen]
                   ELSE [run[h] EXCEPT !.phase = phase]]
  BY <1>3 DEF StoreWork
<1>5. run[h] \in Runs
  BY DEF RunInv, RunTypeOK
<1> HIDE DEF phase
<1>6. [run[h] EXCEPT !.phase = phase]
        = [phase |-> phase, tid |-> run[h].tid, bind |-> run[h].bind, gen |-> run[h].gen]
  BY <1>5 DEF Runs
<1>7. \A k \in Handles \ {h} : run'[k] = run[k]
  BY <1>4 DEF RunInv, RunTypeOK
<1>8. run'[h] = IF phase = "reserved"
                  THEN [phase |-> phase, tid |-> Reservation(h).tid,
                        bind |-> Reservation(h).bind, gen |-> Reservation(h).gen]
                  ELSE [phase |-> phase, tid |-> run[h].tid, bind |-> run[h].bind,
                        gen |-> run[h].gen]
  BY <1>4, <1>6 DEF RunInv, RunTypeOK
<1> QED BY <1>2, <1>7, <1>8 DEF phase

\* A call returns, and the attempt holds nothing it did not hold before.
LEMMA ReturnsWithout ==
  ASSUME IInv, RunInv, TypeOK', NEW h \in Handles, \A k \in Handles : ~Busy(k)',
         granted' = granted, settled \subseteq settled', UNCHANGED <<released, orphans>>,
         run' \in [Handles -> Runs], \A k \in Handles \ {h} : run'[k] = run[k],
         Holding(h)' => Holding(h) /\ Attempt(h)' = Attempt(h),
         run'[h].phase = "ready" => run'[h].tid \in Tokens,
         run'[h].phase = "spent" =>
           run'[h].tid \in Tokens /\ SpentSettled(run[h].tid)' /\ Unreleased(run'[h].tid)
  PROVE  RunInv'
<1> USE DEF RunInv
<1>1. RunTypeOK'
  BY DEF RunTypeOK
<1>2. AttemptInv'
  BY DEF AttemptInv, Holding, Attempt
<1>3. BusyInv'
  BY DEF BusyInv
<1>4. ExclusiveAttempts'
  BY DEF ExclusiveAttempts, Holding, Attempt
<1>5. \A t : SpentSettled(t) => SpentSettled(t)'
  BY DEF SpentSettled
<1>6. ReleaseInv'
  <2>1. \A t \in Tokens : released'[t] \in {0, 1} /\ (released'[t] = 1 => SpentSettled(t)')
    BY <1>5 DEF ReleaseInv
  <2>2. ASSUME NEW k \in Handles, run'[k].phase = "spent"
        PROVE  /\ run'[k].tid \in Tokens
               /\ SpentSettled(run[k].tid)'
               /\ released'[run'[k].tid] = 0
    <3>1. CASE k = h
      BY <2>2, <3>1 DEF Unreleased
    <3>2. CASE k # h
      BY <2>2, <3>2, <1>5 DEF ReleaseInv
    <3> QED BY <3>1, <3>2
  <2>3. ASSUME NEW k \in Handles, NEW j \in Handles, run'[k].phase = "spent",
               run'[j].phase = "spent", k # j
        PROVE  run'[k].tid # run'[j].tid
    <3>1. CASE k # h /\ j # h
      BY <2>3, <3>1 DEF ReleaseInv
    <3>2. CASE k = h
      BY <2>3, <3>2 DEF Unreleased
    <3>3. CASE j = h
      BY <2>3, <3>3 DEF Unreleased
    <3> QED BY <3>1, <3>2, <3>3
  <2> HIDE DEF SpentSettled
  <2> QED BY <2>1, <2>2, <2>3 DEF ReleaseInv
<1> QED BY <1>1, <1>2, <1>3, <1>4, <1>6

\* reserve returns a token nobody has been granted before.
LEMMA ReserveReturns ==
  ASSUME IInv, RunInv, TypeOK', NEW h \in Handles, Busy(h), op[h].kind = "reserve",
         \A k \in Handles : ~Busy(k)',
         granted' = granted \cup {Reservation(h)}, settled' = settled,
         UNCHANGED <<released, orphans>>,
         \A k \in Handles \ {h} : run'[k] = run[k], run' \in [Handles -> Runs],
         run'[h] = [phase |-> "reserved", tid |-> Reservation(h).tid,
                    bind |-> Reservation(h).bind, gen |-> Reservation(h).gen]
  PROVE  RunInv'
<1> USE DEF RunInv
<1>1. RunTypeOK'
  BY DEF RunTypeOK
<1>2. Attempt(h)' = Reservation(h)
  BY DEF Attempt, Reservation
<1>3. AttemptInv'
  BY <1>2 DEF AttemptInv, Holding, Attempt
<1>4. BusyInv'
  BY DEF BusyInv
<1>5. \A r \in granted : r.tid # Reservation(h).tid
  BY DEF IInv, CallInv, FreshInv, Reservation
<1>6. \A k \in Handles : Holding(k) => run[k].tid # Reservation(h).tid
  BY <1>5 DEF AttemptInv, Attempt
<1>7. ExclusiveAttempts'
  BY <1>6 DEF ExclusiveAttempts, Holding
<1>8. ReleaseInv'
  BY DEF ReleaseInv, SpentSettled
<1> QED BY <1>1, <1>3, <1>4, <1>7, <1>8

\* A call of the store that returns keeps the invariant.
LEMMA StoreWorkReturns ==
  ASSUME IInv, RunInv, TypeOK', NEW h \in Handles, StoreWork(h), ~Busy(h)'
  PROVE  RunInv'
<1>1. Work(h) /\ UNCHANGED <<released, orphans>>
  BY DEF StoreWork
<1>2. /\ Busy(h)
      /\ \A k \in Handles : ~Busy(k)'
  BY <1>1, WorkEnds
<1>3. op[h].kind \in {"open", "insert", "reserve", "mark"} /\ CallOf(h) /\ KindInv(h)
  BY <1>2 DEF RunInv, BusyInv, IInv, CallInv
<1>4. \A k \in Handles \ {h} : run'[k] = run[k]
  BY <1>2, AfterCallIs
<1>5. ASSUME NEW ok \in BOOLEAN, ok <=> faults' = faults /\ pc[h] # "putJournal",
             AfterCall(h, ok) # "reserved"
      PROVE  /\ run'[h] = [phase |-> AfterCall(h, ok), tid |-> run[h].tid,
                           bind |-> run[h].bind, gen |-> run[h].gen]
             /\ run' \in [Handles -> Runs]
  <2>1. /\ run'[h] = [phase |-> AfterCall(h, ok), tid |-> run[h].tid,
                      bind |-> run[h].bind, gen |-> run[h].gen]
        /\ AfterCall(h, ok) \in Phases
    BY <1>2, <1>5, AfterCallIs
  <2>2. run[h] \in Runs /\ run'[h] \in Runs
    BY <2>1 DEF RunInv, RunTypeOK, Runs
  <2>3. run' = [run EXCEPT ![h] = run'[h]]
    BY <1>4 DEF StoreWork, RunInv, RunTypeOK
  <2> QED BY <2>1, <2>2, <2>3 DEF RunInv, RunTypeOK
<1>6. CASE ~(faults' = faults /\ pc[h] # "putJournal")
  <2>1. granted' = granted /\ settled' = settled
    BY <1>1, <1>6, WorkEnds
  <2> DEFINE phase == AfterCall(h, FALSE)
  <2>2. /\ phase \in {"start", "ended", "dropping", "failclosed"}
        /\ phase = "dropping" => run[h].phase = "accepted"
    BY <1>3 DEF AfterCall, CallOf
  <2>3. /\ run'[h] = [phase |-> phase, tid |-> run[h].tid,
                      bind |-> run[h].bind, gen |-> run[h].gen]
        /\ run' \in [Handles -> Runs]
    BY <1>5, <1>6, <2>2
  <2> HIDE DEF phase
  <2>4. Holding(h)' => Holding(h) /\ Attempt(h)' = Attempt(h)
    BY <2>2, <2>3 DEF Holding, Attempt
  <2>5. run'[h].phase # "ready" /\ run'[h].phase # "spent"
    BY <2>2, <2>3
  <2> QED BY <1>1, <1>2, <1>4, <2>1, <2>3, <2>4, <2>5, ReturnsWithout
<1>7. CASE faults' = faults /\ pc[h] # "putJournal"
  <2>1. /\ granted' = granted \cup (IF op[h].kind = "reserve" THEN {Reservation(h)} ELSE {})
        /\ settled' = settled \cup (IF op[h].kind = "mark" THEN {Settlement(h)} ELSE {})
    BY <1>1, <1>2, <1>7, WorkEnds
  <2>2. CASE op[h].kind = "reserve"
    <3>1. AfterCall(h, TRUE) = "reserved"
      BY <2>2 DEF AfterCall
    <3>2. run'[h] = [phase |-> "reserved", tid |-> Reservation(h).tid,
                     bind |-> Reservation(h).bind, gen |-> Reservation(h).gen]
      BY <1>2, <1>7, <3>1, AfterCallIs
    <3>3. Reservation(h).tid \in Tokens /\ Reservation(h).bind \in Bindings
          /\ Reservation(h).gen \in Generations
      BY <1>3, <2>2 DEF KindInv, Reservation, Target, IInv, TypeOK, Calls, Snapshot
    <3>4. run'[h] \in Runs
      BY <3>2, <3>3 DEF Runs, Phases
    <3>5. run' = [run EXCEPT ![h] = run'[h]]
      BY <1>4 DEF StoreWork, RunInv, RunTypeOK
    <3>6. run' \in [Handles -> Runs]
      BY <3>4, <3>5 DEF RunInv, RunTypeOK
    <3>7. granted' = granted \cup {Reservation(h)} /\ settled' = settled
      BY <2>1, <2>2
    <3> QED BY <1>1, <1>2, <1>4, <2>2, <3>2, <3>6, <3>7, ReserveReturns
  <2>3. CASE op[h].kind \in {"open", "insert"}
    <3> DEFINE phase == AfterCall(h, TRUE)
    <3>1. /\ phase \in {"opened", "ready"}
          /\ phase = "ready" => op[h].kind = "insert"
      BY <2>3 DEF AfterCall
    <3>2. /\ run'[h] = [phase |-> phase, tid |-> run[h].tid,
                        bind |-> run[h].bind, gen |-> run[h].gen]
          /\ run' \in [Handles -> Runs]
      BY <1>5, <1>7, <3>1
    <3>3. granted' = granted /\ settled' = settled
      BY <2>1, <2>3
    <3> HIDE DEF phase
    <3>4. run'[h].phase = "ready" => run'[h].tid \in Tokens
      BY <1>3, <3>1, <3>2 DEF CallOf, KindInv
    <3>5. ~Holding(h)' /\ run'[h].phase # "spent"
      BY <3>1, <3>2 DEF Holding
    <3> QED BY <1>1, <1>2, <1>4, <3>2, <3>3, <3>4, <3>5, ReturnsWithout
  <2>4. CASE op[h].kind = "mark"
    <3> DEFINE phase == AfterCall(h, TRUE)
    <3>1. phase = IF run[h].phase = "accepted" THEN "spent" ELSE "burned"
      BY <1>3, <2>4 DEF AfterCall, CallOf
    <3>2. /\ run'[h] = [phase |-> phase, tid |-> run[h].tid,
                        bind |-> run[h].bind, gen |-> run[h].gen]
          /\ run' \in [Handles -> Runs]
      BY <1>5, <1>7, <3>1
    <3>3. granted' = granted /\ settled' = settled \cup {Settlement(h)}
      BY <2>1, <2>4
    <3> HIDE DEF phase
    <3>4. ~Holding(h)' /\ run'[h].phase # "ready"
      BY <3>1, <3>2 DEF Holding
    <3>5. ASSUME run'[h].phase = "spent"
          PROVE  /\ run'[h].tid \in Tokens
                 /\ SpentSettled(run[h].tid)'
                 /\ Unreleased(run'[h].tid)
      <4>1. run[h].phase = "accepted" /\ run'[h].tid = op[h].tid /\ Target(h).state = "spent"
        BY <1>3, <2>4, <3>1, <3>2, <3>5 DEF CallOf
      <4>2. Settlement(h).tid = op[h].tid /\ Settlement(h).state = "spent"
        BY <4>1 DEF Settlement, Target
      <4> QED BY <1>3, <2>4, <3>3, <4>1, <4>2 DEF SpentSettled, CallOf, KindInv
    <3> QED BY <1>1, <1>2, <1>4, <3>2, <3>3, <3>4, <3>5, ReturnsWithout
  <2> QED BY <1>3, <2>2, <2>3, <2>4
<1> QED BY <1>6, <1>7

-------------------------------------------------------------------------------
(* The proof leaves the process *)

\* Closing the store at the end of an attempt keeps the invariant.
LEMMA ReleaseRunInv ==
  ASSUME IInv, RunInv, TypeOK', NEW h \in Handles, Release(h),
         released' = [released EXCEPT ![run[h].tid] = @ + 1], Goto(h, "released")
  PROVE  RunInv'
<1> DEFINE t == run[h].tid
<1>1. run[h].phase = "spent" /\ ~Busy(h) /\ UNCHANGED <<vars, orphans>>
  BY DEF Release, At
<1>2. t \in Tokens /\ SpentSettled(t) /\ released[t] = 0
  BY <1>1 DEF RunInv, ReleaseInv
<1>3. released' \in [Tokens -> Nat] /\ released'[t] = 1
      /\ \A u \in Tokens \ {t} : released'[u] = released[u]
  BY <1>2 DEF RunInv, RunTypeOK
<1>4. run' = [run EXCEPT ![h] = [phase |-> "released", tid |-> run[h].tid,
                                 bind |-> run[h].bind, gen |-> run[h].gen]]
  BY GotoIs DEF Phases, Ended
<1>5. /\ run'[h].phase = "released" /\ run' \in [Handles -> Runs]
      /\ \A k \in Handles \ {h} : run'[k] = run[k]
  BY <1>4 DEF RunInv, RunTypeOK, Runs, Phases, Ended
<1>6. UNCHANGED <<granted, settled, op, pc>>
  BY <1>1 DEF vars
<1>7. RunTypeOK'
  BY <1>1, <1>3, <1>5, <1>6 DEF RunInv, RunTypeOK
<1>8. AttemptInv' /\ ExclusiveAttempts'
  BY <1>5, <1>6 DEF RunInv, AttemptInv, ExclusiveAttempts, Holding, Attempt
<1>9. BusyInv'
  <2>1. ASSUME NEW k \in Handles, Busy(k)'
        PROVE  op'[k].kind \in {"open", "insert", "reserve", "mark"} /\ CallOf(k)'
    <3>1. Busy(k) /\ k # h
      BY <1>1, <1>6, <2>1 DEF Busy
    <3>2. op[k].kind \in {"open", "insert", "reserve", "mark"} /\ CallOf(k)
      BY <3>1 DEF RunInv, BusyInv
    <3>3. ASSUME op[k].kind = "mark" PROVE Unreleased(op[k].tid)'
      <4>1. Unreleased(op[k].tid) /\ op[k].tid # t /\ op[k].tid \in Tokens
        BY <1>1, <3>1, <3>2, <3>3 DEF CallOf, Unreleased, IInv, CallInv, KindInv
      <4> QED BY <1>3, <1>5, <1>6, <4>1 DEF Unreleased
    <3> QED BY <1>5, <1>6, <3>1, <3>2, <3>3 DEF CallOf, Target
  <2> QED BY <2>1 DEF BusyInv
<1>10. ReleaseInv'
  BY <1>1, <1>2, <1>3, <1>5, <1>6 DEF RunInv, ReleaseInv, SpentSettled
<1> QED BY <1>7, <1>8, <1>9, <1>10 DEF RunInv

-------------------------------------------------------------------------------
(* The invariant, and what it implies *)

\* The attempts start with both invariants.
LEMMA RunInitInv == RunInit => IInv /\ RunInv
<1> SUFFICES ASSUME RunInit PROVE IInv /\ RunInv
  OBVIOUS
<1>1. IInv
  BY InitInv DEF RunInit
<1>2. run \in [Handles -> Runs] /\ \A h \in Handles : run[h].phase = "start"
  BY IdleIsRun DEF RunInit, Idle
<1>3. RunTypeOK
  BY <1>1, <1>2 DEF RunInit, RunTypeOK, IInv
<1>4. \A h \in Handles : ~Busy(h)
  BY DEF RunInit, Init, Busy
<1>5. AttemptInv /\ BusyInv /\ ReleaseInv /\ ExclusiveAttempts
  BY <1>2, <1>4 DEF RunInit, AttemptInv, BusyInv, ReleaseInv, ExclusiveAttempts, Holding
<1> QED BY <1>1, <1>3, <1>5 DEF RunInv

\* Every step of the attempts keeps both invariants.
LEMMA RunNextInv == IInv /\ RunInv /\ [RunNext]_runVars => IInv' /\ RunInv'
<1> SUFFICES ASSUME IInv, RunInv, [RunNext]_runVars PROVE IInv' /\ RunInv'
  OBVIOUS
<1>1. IInv'
  BY RunStepIsStoreStep, NextInv
<1>2. TypeOK'
  BY <1>1 DEF IInv
<1>3. ASSUME NEW h \in Handles, RunOpen(h) PROVE RunInv'
  BY <1>2, <1>3, RunOpenRunInv
<1>4. ASSUME NEW h \in Handles, NEW t \in Tokens, SelectPregenerated(h, t) PROVE RunInv'
  BY <1>4, WaitingSteps
<1>5. ASSUME NEW h \in Handles, NEW t \in Tokens, InsertFresh(h, t) PROVE RunInv'
  BY <1>2, <1>5, InsertFreshRunInv
<1>6. ASSUME NEW h \in Handles, NoTokenFound(h) \/ Guard(h) \/ Prove(h) PROVE RunInv'
  BY <1>6, WaitingSteps
<1>7. ASSUME NEW h \in Handles, NEW b \in Bindings, RunReserve(h, b) PROVE RunInv'
  <2>1. CASE UNCHANGED vars
    BY <1>7, <2>1, WaitingSteps
  <2>2. CASE Reserve(h, run[h].tid, b) /\ UNCHANGED run
    BY <1>2, <1>7, <2>2, ReserveBegins
  <2> QED BY <1>7, <2>1, <2>2 DEF RunReserve
<1>8. ASSUME NEW h \in Handles, Spend(h) \/ Burn(h) PROVE RunInv'
  <2>1. CASE UNCHANGED vars
    BY <1>8, <2>1, WaitingSteps
  <2>2. CASE Spend(h) /\ MarkTerminal(h, Attempt(h), "spent") /\ UNCHANGED run
    BY <1>2, <2>2, MarkBegins DEF Spend, At, Terminal
  <2>3. CASE Burn(h) /\ MarkTerminal(h, Attempt(h), "burned") /\ UNCHANGED run
    BY <1>2, <2>3, MarkBegins DEF Burn, At, Terminal
  <2> QED BY <1>8, <2>1, <2>2, <2>3 DEF Spend, Burn
<1>9. ASSUME NEW h \in Handles, StoreWork(h) PROVE RunInv'
  <2>1. CASE Busy(h)'
    BY <1>2, <1>9, <2>1, WorkGoesOn DEF StoreWork, runOwn
  <2>2. CASE ~Busy(h)'
    BY <1>2, <1>9, <2>2, StoreWorkReturns
  <2> QED BY <2>1, <2>2
<1>10. ASSUME NEW h \in Handles, Release(h) PROVE RunInv'
  <2>1. CASE UNCHANGED released
    BY <1>10, <2>1, WaitingSteps
  <2>2. CASE Goto(h, "released") /\ released' = [released EXCEPT ![run[h].tid] = @ + 1]
    BY <1>2, <1>10, <2>2, ReleaseRunInv
  <2> QED BY <1>10, <2>1, <2>2 DEF Release
<1>11. ASSUME NEW h \in Handles, Quit(h) \/ Killed(h) PROVE RunInv'
  BY <1>2, <1>11, EndsProcess
<1>12. CASE MachineDown
  BY <1>1, <1>2, <1>12, MachineDownRunInv
<1>13. CASE UNCHANGED runVars
  <2>1. UNCHANGED <<vars, run, released, orphans>>
    BY <1>13 DEF runVars
  <2>2. UNCHANGED <<journal, images, file, fileImages, lock, pc, op, cache, granted, settled, faults>>
    BY <2>1 DEF vars
  <2> QED
    BY <1>1, <1>2, <2>1, <2>2
    DEF RunInv, RunTypeOK, AttemptInv, BusyInv, ReleaseInv, ExclusiveAttempts, Holding, Attempt,
        Busy, CallOf, Target, Unreleased, SpentSettled
<1> QED BY <1>1, <1>3, <1>4, <1>5, <1>6, <1>7, <1>8, <1>9, <1>10, <1>11, <1>12, <1>13
        DEF RunNext, Proceed

\* Both invariants hold in every state of the attempts.
LEMMA RunInvariance == RunSpec => [](IInv /\ RunInv)
<1>1. RunInit => IInv /\ RunInv
  BY RunInitInv
<1>2. IInv /\ RunInv /\ [RunNext]_runVars => IInv' /\ RunInv'
  BY RunNextInv
<1> QED BY <1>1, <1>2, PTL DEF RunSpec

\* A proof attempt is a user of the store: what is proved of TokenStore holds
\* of every behaviour of ProofRun.
THEOREM RunUsesStore == RunSpec => Spec
<1>1. RunInit => Init
  BY DEF RunInit
<1>2. IInv /\ RunInv /\ [RunNext]_runVars => [Next]_vars
  BY RunStepIsStoreStep
<1> QED BY <1>1, <1>2, RunInvariance, PTL DEF RunSpec, Spec

\* Type correctness of ProofRun.
THEOREM RunTypeCorrect == RunSpec => []RunTypeOK
<1>1. RunInv => RunTypeOK
  BY DEF RunInv
<1> QED BY <1>1, RunInvariance, PTL

\* A proof leaves a process only under a token that is durably spent, and at
\* most one proof leaves under each token, for any number of attempts,
\* processes, tokens, faults and losses of power.
THEOREM ReleasedUnderSpent == RunSpec => []ProofNeedsSpentToken
<1>1. IInv /\ RunInv => ProofNeedsSpentToken
  <2> SUFFICES ASSUME IInv, RunInv, NEW t \in Tokens
               PROVE  /\ released[t] <= 1
                      /\ released[t] = 1 => \A s \in images : s.rec[t].state = "spent"
    BY DEF ProofNeedsSpentToken
  <2>1. released[t] \in {0, 1} /\ (released[t] = 1 => SpentSettled(t))
    BY DEF RunInv, ReleaseInv
  <2> QED BY <2>1 DEF SpentSettled, IInv, SettledDurable
<1> QED BY <1>1, RunInvariance, PTL

\* No two processes ever work under the same token.
THEOREM OneProcessPerToken == RunSpec => []ExclusiveAttempts
<1>1. RunInv => ExclusiveAttempts
  BY DEF RunInv
<1> QED BY <1>1, RunInvariance, PTL

-------------------------------------------------------------------------------
(* No reservation is forgotten *)

\* The reservation still has to be settled, and can be.
Due(r) ==
  journal.rec[r.tid].state = "reserved" /\ HasNextGeneration(journal) /\ faults = 0

\* A process works under the reservation.
Held(r) == \E h \in Handles : Holding(h) /\ Attempt(h) = r

\* Nothing makes a granted token reserved again, so what is due was due before.
LEMMA DueBefore ==
  ASSUME IInv, [Next]_vars, NEW r \in granted, Due(r)'
  PROVE  Due(r) /\ faults' = faults
<1>0. /\ r.tid \in Tokens /\ journal.rec[r.tid].state \in Live
      /\ journal.gen \in Nat /\ faults \in Nat /\ MaxGeneration \in Nat
  BY ConstantsOK DEF IInv, TypeOK, ImagesInv, GrantDurable, Snapshot, Generations
<1>1. ASSUME NEW h \in Handles, PutJournal(h), ~Fail(h) PROVE Due(r) /\ faults' = faults
  <2>1. journal' = op[h].snap /\ faults' = faults /\ PlanInv(h)
    BY <1>1 DEF PutJournal, IInv, CallInv, Busy, BeforeCommit
  <2>2. RecordAdvances(journal.rec[r.tid], journal'.rec[r.tid]) /\ journal'.gen = journal.gen + 1
    BY <1>0, <2>1 DEF PlanInv
  <2>3. journal.rec[r.tid].state = "reserved"
    BY <1>0, <2>2 DEF Due, RecordAdvances, Live, Terminal
  <2>4. HasNextGeneration(journal)
    BY <1>0, <2>2 DEF Due, HasNextGeneration
  <2> QED BY <2>1, <2>3, <2>4 DEF Due
<1>2. ASSUME NEW h \in Handles, Call(h) \/ Close(h) PROVE UNCHANGED <<journal, faults>>
  BY <1>2 DEF Call, OpenClean, OpenRecovering, RecoverClean, RecoverReserved, Insert, Reserve,
              MarkTerminal, Begin, Close, dirVars
<1>3. ASSUME NEW h \in Handles, Work(h), ~PutJournal(h), ~Fail(h) PROVE UNCHANGED <<journal, faults>>
  BY <1>3 DEF Work, RejectSnapshot, SyncJournal, PutFile, SyncFile, dirVars
<1>4. ASSUME NEW h \in Handles, Fail(h) \/ Exit(h) \/ PowerLoss PROVE FALSE
  BY <1>0, <1>4 DEF Fail, Exit, PowerLoss, Due
<1>5. CASE UNCHANGED <<journal, faults>>
  BY <1>5 DEF Due, HasNextGeneration
<1>6. PowerLoss => FALSE
  BY <1>0 DEF PowerLoss, Due
<1>7. UNCHANGED vars => UNCHANGED <<journal, faults>>
  BY DEF vars
<1>8. ASSUME NEW h \in Handles, Work(h) PROVE Due(r) /\ faults' = faults
  BY <1>1, <1>3, <1>4, <1>5, <1>8
<1> QED BY <1>2, <1>4, <1>5, <1>6, <1>7, <1>8 DEF Next

\* A process that goes on keeps its reservation, hands it to the history of
\* lost markers, or has settled it.
LEMMA HolderGoesOn ==
  ASSUME IInv, RunInv, OnlyInsertsRefused, NEW h \in Handles, NEW r \in granted,
         Holding(h), Attempt(h) = r, Due(r), faults' = faults, Proceed(h)
  PROVE  Held(r)' \/ r \in orphans'
<1>0. /\ run[h] \in Runs /\ h \in DOMAIN run
      /\ run[h].phase \in {"reserved", "proving", "accepted", "dropping"}
  BY DEF RunInv, RunTypeOK, Holding
<1>1. ASSUME NEW phase \in {"proving", "accepted", "dropping"}, Goto(h, phase) PROVE Held(r)'
  <2>1. run'[h] = [phase |-> phase, tid |-> run[h].tid, bind |-> run[h].bind, gen |-> run[h].gen]
    BY <1>0, <1>1, GotoIs DEF Phases
  <2> QED BY <2>1 DEF Held, Holding, Attempt
<1>2. UNCHANGED run => Held(r)'
  BY DEF Held, Holding, Attempt
<1>3. CASE Guard(h)
  BY <1>1, <1>3 DEF Guard
<1>4. CASE Prove(h)
  BY <1>1, <1>4 DEF Prove
<1>5. CASE Spend(h)
  BY <1>1, <1>2, <1>5 DEF Spend
<1>6. CASE Burn(h)
  <2>1. TerminalAccepted(journal, run[h].tid, run[h].bind, run[h].gen)
    <3>1. journal \in images
      BY DEF IInv, ImagesInv
    <3>2. journal.rec[r.tid].bind = r.bind /\ journal.rec[r.tid].gen = r.gen
      BY <3>1 DEF IInv, GrantDurable, Due
    <3> QED BY <3>2 DEF TerminalAccepted, Due, Attempt
  <2> QED BY <1>2, <1>6, <2>1 DEF Burn
<1>7. CASE StoreWork(h)
  <2>1. CASE Busy(h)'
    BY <1>2, <1>7, <2>1 DEF StoreWork
  <2>2. CASE ~Busy(h)'
    <3>1. Work(h) BY <1>7 DEF StoreWork
    <3>2. Busy(h) BY <2>2, <3>1, WorkEnds
    <3>3. op[h].kind = "mark" /\ op[h].tid = run[h].tid
      BY <1>0, <3>2 DEF RunInv, BusyInv, CallOf
    <3>4. ~Fail(h)
      BY DEF Fail, IInv, TypeOK
    <3>5. pc[h] # "putJournal"
      <4>1. ASSUME pc[h] = "putJournal" PROVE FALSE
        <5>1. ValidSnapshot(op[h].snap) BY <3>3, <4>1 DEF OnlyInsertsRefused
        <5>2. PutJournal(h) BY <3>1, <4>1, <5>1 DEF Work, RejectSnapshot, SyncJournal, PutFile, SyncFile
        <5>3. pc'[h] = "syncJournal" BY <3>4, <5>2 DEF PutJournal, IInv, TypeOK
        <5> QED BY <2>2, <5>3 DEF Busy
      <4> QED BY <4>1
    <3>6. journal = op[h].snap /\ Target(h).state \in Terminal
      BY <3>1, <3>2, <3>3, <3>5
      DEF IInv, CallInv, KindInv, AfterCommit, Work, PutJournal, RejectSnapshot, SyncJournal, PutFile,
          SyncFile
    <3> QED BY <3>3, <3>6 DEF Target, Terminal, Due, Attempt
  <2> QED BY <2>1, <2>2
<1> QED BY <1>0, <1>3, <1>4, <1>5, <1>6, <1>7
        DEF Proceed, SelectPregenerated, InsertFresh, NoTokenFound, RunReserve, Release, Quit, At, Ended

\* The steps of one process leave the attempts of the others alone.
LEMMA OthersStand ==
  ASSUME RunInv, NEW k \in Handles, RunOpen(k) \/ Proceed(k) \/ Killed(k),
         NEW h \in Handles \ {k}
  PROVE  run'[h] = run[h]
<1>1. ASSUME NEW r, run' = [run EXCEPT ![k] = r] PROVE run'[h] = run[h]
  BY <1>1 DEF RunInv, RunTypeOK
<1>2. ASSUME NEW phase, Goto(k, phase) PROVE run'[h] = run[h]
  BY <1>1, <1>2 DEF Goto
<1>3. CASE StoreWork(k)
  BY <1>1, <1>3 DEF StoreWork
<1>4. CASE RunOpen(k)
  BY <1>2, <1>4 DEF RunOpen
<1>5. ASSUME NEW t \in Tokens, SelectPregenerated(k, t) \/ InsertFresh(k, t) PROVE run'[h] = run[h]
  BY <1>1, <1>5 DEF SelectPregenerated, InsertFresh
<1>6. ASSUME NEW b \in Bindings, RunReserve(k, b) PROVE run'[h] = run[h]
  BY <1>2, <1>6 DEF RunReserve
<1>7. CASE NoTokenFound(k) \/ Guard(k) \/ Prove(k) \/ Spend(k) \/ Burn(k) \/ Release(k)
  BY <1>2, <1>7 DEF NoTokenFound, Guard, Prove, Spend, Burn, Release
<1>8. CASE Quit(k) \/ Killed(k)
  BY <1>1, <1>8 DEF Quit, Killed
<1> QED BY <1>3, <1>4, <1>5, <1>6, <1>7, <1>8 DEF Proceed

\* A token that reserve hands out is held by its caller.
LEMMA NewGrantHeld ==
  ASSUME IInv, RunInv, [RunNext]_runVars, NEW r \in granted' \ granted
  PROVE  Held(r)'
<1>1. ASSUME NEW h \in Handles, StoreWork(h) PROVE Held(r)'
  <2>1. Work(h) BY <1>1 DEF StoreWork
  <2>2. SyncFile(h) /\ ~Fail(h) /\ op[h].kind = "reserve" /\ r = Reservation(h)
    BY <2>1 DEF Work, PutJournal, RejectSnapshot, SyncJournal, PutFile, SyncFile, Fail
  <2>3. ~Busy(h)' /\ Busy(h) /\ faults' = faults /\ pc[h] # "putJournal"
    BY <2>2 DEF SyncFile, Return, Busy, IInv, TypeOK
  <2>4. AfterCall(h, TRUE) = "reserved" BY <2>2 DEF AfterCall
  <2>5. run'[h] = [phase |-> "reserved", tid |-> Reservation(h).tid,
                   bind |-> Reservation(h).bind, gen |-> Reservation(h).gen]
    BY <1>1, <2>3, <2>4, AfterCallIs
  <2> QED BY <2>2, <2>5 DEF Held, Holding, Attempt, Reservation
<1>2. ASSUME NEW h \in Handles, RunOpen(h) \/ Quit(h) \/ Killed(h) PROVE FALSE
  BY <1>2 DEF RunOpen, OpenClean, OpenRecovering, Begin, Quit, Killed, Close, Exit
<1>3. ASSUME NEW h \in Handles, NEW t \in Tokens, SelectPregenerated(h, t) \/ InsertFresh(h, t)
      PROVE  FALSE
  BY <1>3 DEF SelectPregenerated, InsertFresh, Insert, Begin, vars
<1>4. ASSUME NEW h \in Handles, NEW b \in Bindings, RunReserve(h, b) PROVE FALSE
  BY <1>4 DEF RunReserve, Reserve, Begin, vars
<1>5. ASSUME NEW h \in Handles, \/ NoTokenFound(h) \/ Guard(h) \/ Prove(h) \/ Release(h)
                               \/ Spend(h) \/ Burn(h)
      PROVE  FALSE
  BY <1>5 DEF NoTokenFound, Guard, Prove, Release, Spend, Burn, MarkTerminal, Begin, vars
<1>6. ~MachineDown /\ ~UNCHANGED runVars
  BY DEF MachineDown, PowerLoss, runVars, vars
<1> QED BY <1>1, <1>2, <1>3, <1>4, <1>5, <1>6 DEF RunNext, Proceed

\* Each step keeps track of every reservation that is still due.
LEMMA NothingForgotten ==
  ASSUME IInv, RunInv, OnlyInsertsRefused, NoForgottenReservation, [RunNext]_runVars
  PROVE  NoForgottenReservation'
<1> SUFFICES ASSUME NEW r \in granted', Due(r)' PROVE Held(r)' \/ r \in orphans'
  BY DEF NoForgottenReservation, Due, Held
<1>1. CASE r \notin granted
  BY <1>1, NewGrantHeld
<1>2. CASE r \in granted
  <2>1. Due(r) /\ faults' = faults
    BY <1>2, DueBefore, RunStepIsStoreStep
  <2>2. orphans \subseteq orphans'
    BY DEF RunNext, Proceed, RunOpen, SelectPregenerated, InsertFresh, NoTokenFound, RunReserve, Guard,
           Prove, Spend, Burn, StoreWork, Release, Quit, Killed, MachineDown, runVars
  <2>3. SUFFICES ASSUME NEW h \in Handles, Holding(h), Attempt(h) = r PROVE Held(r)' \/ r \in orphans'
    BY <1>2, <2>1, <2>2 DEF NoForgottenReservation, Due
  <2>4. ASSUME run'[h] = run[h] PROVE Held(r)'
    BY <2>3, <2>4 DEF Held, Holding, Attempt
  <2>5. ASSUME NEW k \in Handles, k # h, RunOpen(k) \/ Proceed(k) \/ Killed(k) PROVE Held(r)'
    BY <2>4, <2>5, OthersStand
  <2>6. CASE Proceed(h)
    BY <1>2, <2>1, <2>3, <2>6, HolderGoesOn
  <2>7. ~RunOpen(h) /\ ~Killed(h) /\ ~MachineDown
    <3>1. ~RunOpen(h) BY <2>3 DEF RunOpen, At, Holding
    <3>2. ~Killed(h) /\ ~MachineDown
      BY <2>1 DEF Killed, Exit, MachineDown, PowerLoss, Due, IInv, TypeOK
    <3> QED BY <3>1, <3>2
  <2>8. CASE UNCHANGED runVars
    BY <2>4, <2>8 DEF runVars
  <2> QED BY <2>5, <2>6, <2>7, <2>8 DEF RunNext
<1> QED BY <1>1, <1>2

\* While nothing has failed, no error path of an attempt leaves a token
\* reserved with nobody working under it, except for the marker between
\* reserve and the guard (ActiveTokenReservation).
THEOREM NoneForgotten == RunSpec => []NoForgottenReservation
<1>1. RunSpec => []OnlyInsertsRefused
  BY RunUsesStore, LimitRefusesOnlyInserts, PTL
<1>2. RunInit => NoForgottenReservation
  BY DEF RunInit, Init, NoForgottenReservation
<1>3. IInv /\ RunInv /\ OnlyInsertsRefused /\ NoForgottenReservation /\ [RunNext]_runVars
        => NoForgottenReservation'
  BY NothingForgotten
<1> QED BY <1>1, <1>2, <1>3, RunInvariance, PTL DEF RunSpec

===============================================================================
