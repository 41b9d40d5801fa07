------------------------- MODULE CredentialSourceProofs -------------------------
(***************************************************************************)
(* What the credential source guarantees, for any number of audits and     *)
(* proof runs, any workloads, files and faults.                            *)
(*                                                                         *)
(* The invariant has five parts: the types of the disk, whose frames were  *)
(* all made by a writer; the sources whose writing began; the files that   *)
(* were published; the directories a loss of power may leave; and what     *)
(* every audit and proof run is at.                                        *)
(***************************************************************************)
EXTENDS CredentialSource, SequenceTheorems, TLAPS

-------------------------------------------------------------------------------
(* The invariant *)

\* A sequence of whatever it holds.
IsSeq(s) == s \in Seq({s[n] : n \in DOMAIN s})

\* The records a header was made for.
RecordsOf(h) == h.digest[2]

\* The header of a workload and of records that are valid under it.
Genuine(h) ==
  /\ IsSeq(RecordsOf(h))
  /\ \E w \in Workloads :
       /\ h = [FixtureHeader(w) EXCEPT !.digest = SourceDigest(FixtureHeader(w), RecordsOf(h))]
       /\ ValidRecords(FixtureHeader(w), RecordsOf(h))

AuthoredInv == \A h \in authored : Genuine(h)

\* The frames writers make, and a damaged one.
FramesOf(h) ==
  {Frames(h, RecordsOf(h), n)[k] : n \in Nonces, k \in 1 .. Len(RecordsOf(h)) + 1}

AllFrames == {Torn} \cup UNION {FramesOf(h) : h \in authored}

FileSet == [nonce : Nonces, frames : Seq(AllFrames)]

Names == Nonces \cup {Source}

Dirs == [Names -> 0 .. Len(files)]

DiskInv ==
  /\ files \in Seq(FileSet)
  /\ images \subseteq Dirs
  /\ dir \in images
  /\ synced \subseteq 1 .. Len(files)
  /\ renamed \in Seq(1 .. Len(files))
  /\ acked \in 0 .. Len(renamed)
  /\ proc = [p \in Audits \cup Proofs |-> proc[p]]

\* A published file is synced, and whole until it is damaged.
PublishedRight(f) == f \in synced /\ (f \notin damaged => Whole(f))

PublishedInv ==
  \A n \in 1 .. Len(renamed) :
    files[renamed[n]].nonce \notin robbed => PublishedRight(renamed[n])

\* A directory has the source under its name that was published last, or after
\* the last one that was reported.
Lists(d) ==
  /\ d[Source] # 0 => \E n \in 1 .. Len(renamed) : d[Source] = renamed[n]
  /\ acked # 0 => \E n \in acked .. Len(renamed) : d[Source] = renamed[n]

\* It has a file of the nonce under each temporary name.
Named(d) == \A n \in Nonces : d[n] # 0 => files[d[n]].nonce = n

ImagesInv == \A d \in images : Lists(d) /\ Named(d)

-------------------------------------------------------------------------------
(* Audits and proof runs *)

WriterPhases == {"create", "write", "sync", "rename", "syncParent"}

\* The temporary file of a writer, under its name until another takes that away.
HasFile(q, n) ==
  /\ q.file \in 1 .. Len(files)
  /\ files[q.file].nonce = n
  /\ n \notin robbed => dir[n] = q.file /\ \A m \in 1 .. Len(renamed) : renamed[m] # q.file

Begins(s, t) == Len(s) < Len(t) /\ \A k \in 1 .. Len(s) : s[k] = t[k]

PublishedLast(f) ==
  /\ dir[Source] = renamed[Len(renamed)]
  /\ \E n \in 1 .. Len(renamed) : renamed[n] = f

\* A writer q with nonce n.
WriterOK(q, n) ==
  /\ q.phase \in WriterPhases
  /\ q = [phase |-> q.phase, workload |-> q.workload, header |-> q.header,
          records |-> q.records, file |-> q.file]
  /\ q.workload \in Workloads
  /\ q.header \in authored
  /\ q.records = RecordsOf(q.header)
  /\ q.phase \in HoldingPhases => HasFile(q, n)
  /\ q.phase = "write" => Begins(files[q.file].frames, Frames(q.header, q.records, n))
  /\ q.phase \in {"sync", "rename"} => files[q.file].frames = Frames(q.header, q.records, n)
  /\ q.phase = "rename" => q.file \in synced
  /\ q.phase = "syncParent" => PublishedLast(q.file)

\* What process p wants: a proof run the fixture of its workload.
WantOK(q, p) == p \notin Audits => q.workload \in Workloads /\ q.want = FixtureHeader(q.workload)

OpenOK(q, p) ==
  /\ q.phase = "open"
  /\ q = [phase |-> "open", workload |-> q.workload, want |-> q.want]
  /\ WantOK(q, p)

BindingFields == {"session", "count", "revset", "depth", "root"}

\* The binding was compared, and for an audit the layout.
Bound(q, p) ==
  /\ \A field \in BindingFields : q.header[field] = q.want[field]
  /\ p \in Audits => q.header.layout = q.want.layout

\* What earlier passes have established.
PassedOK(q, p) ==
  /\ q.goal # "validate" => Bound(q, p)
  /\ q.goal \in {"digest", "done"} => Relation(q.workload, RecordsOf(q.header)) = q.header.layout

\* The records of the pass so far.
GotOK(q) ==
  /\ q.file \in 1 .. Len(files)
  /\ Len(q.got) \in 0 .. q.header.count
  /\ q.got = SubSeq(RecordsOf(q.header), 1, Len(q.got))

ReaderOK(q, p) ==
  /\ q.phase \in {"begin", "read", "done"}
  /\ q = [phase |-> q.phase, workload |-> q.workload, want |-> q.want, header |-> q.header,
          nonce |-> q.nonce, goal |-> q.goal, file |-> q.file, got |-> q.got]
  /\ q.goal \in {"validate", "replay", "digest", "done"}
  /\ q.phase = "done" <=> q.goal = "done"
  /\ WantOK(q, p)
  /\ q.header \in authored
  /\ PassedOK(q, p)
  /\ q.phase \in {"read", "done"} => GotOK(q)
  /\ q.phase = "done" => Len(q.got) = q.header.count

ProcOK(p, q) ==
  \/ q = Idle
  \/ p \in Audits /\ WriterOK(q, NonceOf[p])
  \/ OpenOK(q, p)
  \/ ReaderOK(q, p)

ProcsInv == \A p \in Audits \cup Proofs : \A q \in {proc[p]} : ProcOK(p, q)

\* No two writers have one file open.
ApartInv == \A a, b \in Audits : a # b => Held(a) \cap Held(b) = {}

SourceInv ==
  /\ DiskInv
  /\ AuthoredInv
  /\ PublishedInv
  /\ ImagesInv
  /\ TemporariesOwned
  /\ ProcsInv
  /\ ApartInv

-------------------------------------------------------------------------------
(* Sequences *)

\* What a sequence of whatever it holds is.
LEMMA SeqFacts ==
  ASSUME NEW s, IsSeq(s)
  PROVE  /\ Len(s) \in Nat /\ DOMAIN s = 1 .. Len(s)
         /\ SubSeq(s, 1, Len(s)) = s
         /\ \A i \in 0 .. Len(s) : Len(SubSeq(s, 1, i)) = i
         /\ \A i \in 0 .. Len(s) : \A n \in 1 .. i : SubSeq(s, 1, i)[n] = s[n]
<1> DEFINE S == {s[n] : n \in DOMAIN s}
<1>1. s \in Seq(S)
  BY DEF IsSeq
<1>2. Len(s) \in Nat /\ DOMAIN s = 1 .. Len(s) /\ SubSeq(s, 1, Len(s)) = s
  BY <1>1, LenProperties, SubSeqFull
<1>3. ASSUME NEW i \in 0 .. Len(s)
      PROVE  Len(SubSeq(s, 1, i)) = i /\ \A n \in 1 .. i : SubSeq(s, 1, i)[n] = s[n]
  <2>1. \A n \in 1 .. i : s[n] \in S
    BY <1>2
  <2>2. i \in Int /\ 1 \in Int
    BY <1>2
  <2> HIDE DEF S
  <2>3. /\ Len(SubSeq(s, 1, i)) = IF 1 <= i THEN i - 1 + 1 ELSE 0
        /\ \A n \in 1 .. i - 1 + 1 : SubSeq(s, 1, i)[n] = s[1 + n - 1]
    BY <2>1, <2>2, SubSeqProperties
  <2> QED BY <2>2, <2>3
<1> QED BY <1>2, <1>3

\* A sequence of anything is one of what it holds.
LEMMA SeqIsSeq ==
  ASSUME NEW S, NEW s \in Seq(S)
  PROVE  IsSeq(s)
<1>1. Len(s) \in Nat /\ s \in [1 .. Len(s) -> S]
  BY LenProperties
<1>2. s \in [1 .. Len(s) -> {s[n] : n \in DOMAIN s}]
  BY <1>1
<1>3. s \in UNION {[1 .. n -> {s[m] : m \in DOMAIN s}] : n \in Nat}
  BY <1>1, <1>2
<1> QED BY <1>3, SeqDef DEF IsSeq

\* A function on 1 .. k is a sequence of length k.
LEMMA FunctionIsSeq ==
  ASSUME NEW k \in Nat, NEW s, s = [n \in 1 .. k |-> s[n]]
  PROVE  IsSeq(s) /\ Len(s) = k
<1> DEFINE S == {s[n] : n \in DOMAIN s}
<1>1. DOMAIN s = 1 .. k
  OBVIOUS
<1>2. s \in [1 .. k -> S]
  BY <1>1
<1>3. s \in Seq(S)
  BY <1>2, SeqDef
<1>4. DOMAIN s = 1 .. Len(s) /\ Len(s) \in Nat
  BY <1>3, LenProperties
<1>5. Len(s) = k
  BY <1>1, <1>4
<1> QED BY <1>3, <1>5 DEF IsSeq

\* The first i elements and the next one are the first i + 1.
LEMMA SubSeqGrows ==
  ASSUME NEW s, IsSeq(s), NEW i \in 0 .. Len(s) - 1
  PROVE  Append(SubSeq(s, 1, i), s[i + 1]) = SubSeq(s, 1, i + 1)
<1> DEFINE S == {s[n] : n \in DOMAIN s}
<1>1. s \in Seq(S)
  BY DEF IsSeq
<1>2. Len(s) \in Nat /\ DOMAIN s = 1 .. Len(s)
  BY SeqFacts
<1>3. i \in 0 .. Len(s) /\ i + 1 \in 0 .. Len(s) /\ i + 1 \in 1 .. Len(s)
  BY <1>2
<1>4. s[i + 1] \in S /\ \A n \in 1 .. i + 1 : s[n] \in S
  BY <1>2, <1>3
<1> HIDE DEF S
<1>5. SubSeq(s, 1, i) \in Seq(S) /\ SubSeq(s, 1, i + 1) \in Seq(S)
  BY <1>3, <1>4, SubSeqProperties
<1>6. /\ Len(SubSeq(s, 1, i)) = i /\ Len(SubSeq(s, 1, i + 1)) = i + 1
      /\ \A n \in 1 .. i : SubSeq(s, 1, i)[n] = s[n]
      /\ \A n \in 1 .. i + 1 : SubSeq(s, 1, i + 1)[n] = s[n]
  BY <1>3, SeqFacts
<1> DEFINE a == SubSeq(s, 1, i)
           b == SubSeq(s, 1, i + 1)
           t == Append(a, s[i + 1])
<1>7. /\ t \in Seq(S) /\ Len(t) = Len(a) + 1
      /\ \A n \in 1 .. Len(a) : t[n] = a[n]
      /\ t[Len(a) + 1] = s[i + 1]
  BY <1>4, <1>5, AppendProperties
<1>8. \A n \in 1 .. Len(t) : t[n] = b[n]
  BY <1>3, <1>6, <1>7
<1>9. t \in Seq(S) /\ b \in Seq(S) /\ Len(t) = Len(b)
  BY <1>3, <1>5, <1>6, <1>7
<1> HIDE DEF t, b
<1>10. t = b
  BY <1>8, <1>9, SeqEqual
<1> QED BY <1>10 DEF t, b

-------------------------------------------------------------------------------
(* Headers, records and frames *)

\* Another digest changes no other field of a header.
LEMMA HeaderFields ==
  ASSUME NEW w, NEW d, NEW h, h = [FixtureHeader(w) EXCEPT !.digest = d]
  PROVE  /\ h.session = w.session /\ h.count = w.credentials
         /\ h.revset = [n \in 1 .. w.revocations |-> n - 1] /\ h.depth = w.depth
         /\ h.root = FixtureHeader(w).root /\ h.layout = Relation(w, FixtureRecords(w))
         /\ h.digest = d
         /\ \A r : ValidRecord(h, r) <=> ValidRecord(FixtureHeader(w), r)
<1>1. /\ h.session = w.session /\ h.count = w.credentials
      /\ h.revset = [n \in 1 .. w.revocations |-> n - 1] /\ h.depth = w.depth
      /\ h.root = FixtureHeader(w).root /\ h.layout = Relation(w, FixtureRecords(w))
      /\ h.digest = d
  BY DEF FixtureHeader
<1>2. h.revset = FixtureHeader(w).revset /\ h.depth = FixtureHeader(w).depth
  BY <1>1 DEF FixtureHeader
<1> QED BY <1>1, <1>2 DEF ValidRecord, Selected, PathBound

\* The same of the header itself.
LEMMA FixtureFields ==
  ASSUME NEW w
  PROVE  /\ FixtureHeader(w).session = w.session /\ FixtureHeader(w).count = w.credentials
         /\ FixtureHeader(w).revset = [n \in 1 .. w.revocations |-> n - 1]
         /\ FixtureHeader(w).depth = w.depth
         /\ FixtureHeader(w).layout = Relation(w, FixtureRecords(w))
BY DEF FixtureHeader

\* The records of an authored source are as many as its header says, and valid under it.
LEMMA AuthoredFacts ==
  ASSUME AuthoredInv, NEW h \in authored
  PROVE  /\ IsSeq(RecordsOf(h)) /\ h.count \in Nat /\ Len(RecordsOf(h)) = h.count
         /\ DOMAIN RecordsOf(h) = 1 .. h.count
         /\ \A n \in 1 .. h.count : RecordsOf(h)[n].index = n - 1 /\ ValidRecord(h, RecordsOf(h)[n])
<1>1. IsSeq(RecordsOf(h))
  BY DEF AuthoredInv, Genuine
<1>2. PICK w \in Workloads :
        /\ h = [FixtureHeader(w) EXCEPT !.digest = SourceDigest(FixtureHeader(w), RecordsOf(h))]
        /\ ValidRecords(FixtureHeader(w), RecordsOf(h))
  BY DEF AuthoredInv, Genuine
<1>3. h.count = FixtureHeader(w).count
      /\ \A r : ValidRecord(h, r) <=> ValidRecord(FixtureHeader(w), r)
  <2> DEFINE d == SourceDigest(FixtureHeader(w), RecordsOf(h))
  <2>1. h = [FixtureHeader(w) EXCEPT !.digest = d]
    BY <1>2
  <2> HIDE DEF d
  <2>2. h.count = w.credentials
    BY <2>1 DEF FixtureHeader
  <2>3. ASSUME NEW r PROVE ValidRecord(h, r) <=> ValidRecord(FixtureHeader(w), r)
    BY <2>1, HeaderFields
  <2>4. FixtureHeader(w).count = w.credentials
    BY FixtureFields
  <2> QED BY <2>2, <2>3, <2>4
<1>4. /\ Len(RecordsOf(h)) = h.count
      /\ \A n \in 1 .. Len(RecordsOf(h)) :
           RecordsOf(h)[n].index = n - 1 /\ ValidRecord(FixtureHeader(w), RecordsOf(h)[n])
  BY <1>2, <1>3 DEF ValidRecords
<1>5. Len(RecordsOf(h)) \in Nat /\ DOMAIN RecordsOf(h) = 1 .. Len(RecordsOf(h))
  BY <1>1, SeqFacts
<1> QED BY <1>1, <1>3, <1>4, <1>5

\* Two workloads with the same sizes have the same relation.
LEMMA SameRelation ==
  ASSUME NEW v \in Workloads, NEW w \in Workloads,
         v.credentials = w.credentials, v.depth = w.depth,
         [n \in 1 .. v.revocations |-> n - 1] = [n \in 1 .. w.revocations |-> n - 1]
  PROVE  Relation(v, FixtureRecords(v)) = Relation(w, FixtureRecords(w))
<1>1. v.revocations \in Nat /\ w.revocations \in Nat
  BY WorkloadAssumption
<1>2. 1 .. v.revocations = 1 .. w.revocations
  <2>1. DOMAIN [n \in 1 .. v.revocations |-> n - 1] = DOMAIN [n \in 1 .. w.revocations |-> n - 1]
    OBVIOUS
  <2> QED BY <2>1
<1>3. v.revocations = w.revocations
  BY <1>1, <1>2
<1>4. FixturePath(v) = FixturePath(w)
  BY <1>3 DEF FixturePath
<1>5. \A i : FixtureRecord(v, i) = FixtureRecord(w, i)
  BY <1>3, <1>4 DEF FixtureRecord
<1>6. FixtureRecords(v) = FixtureRecords(w)
  BY <1>5 DEF FixtureRecords
<1> QED BY <1>3, <1>6 DEF Relation

\* An authored source with the binding of a fixture has its layout.
LEMMA BoundLayout ==
  ASSUME AuthoredInv, NEW h \in authored, NEW w \in Workloads,
         \A field \in BindingFields : h[field] = FixtureHeader(w)[field]
  PROVE  h.layout = FixtureHeader(w).layout
<1>1. PICK v \in Workloads :
        h = [FixtureHeader(v) EXCEPT !.digest = SourceDigest(FixtureHeader(v), RecordsOf(h))]
  BY DEF AuthoredInv, Genuine
<1>2. h["count"] = FixtureHeader(w)["count"] /\ h["revset"] = FixtureHeader(w)["revset"]
      /\ h["depth"] = FixtureHeader(w)["depth"]
  BY DEF BindingFields
<1>3. h.count = FixtureHeader(w).count /\ h.revset = FixtureHeader(w).revset
      /\ h.depth = FixtureHeader(w).depth
  BY <1>2
<1>4. h.count = v.credentials /\ h.depth = v.depth
      /\ h.revset = [n \in 1 .. v.revocations |-> n - 1] /\ h.layout = Relation(v, FixtureRecords(v))
  BY <1>1, HeaderFields
<1>5. /\ FixtureHeader(w).count = w.credentials /\ FixtureHeader(w).depth = w.depth
      /\ FixtureHeader(w).revset = [n \in 1 .. w.revocations |-> n - 1]
      /\ FixtureHeader(w).layout = Relation(w, FixtureRecords(w))
  BY FixtureFields
<1>6. /\ v.credentials = w.credentials /\ v.depth = w.depth
      /\ [n \in 1 .. v.revocations |-> n - 1] = [n \in 1 .. w.revocations |-> n - 1]
  BY <1>3, <1>4, <1>5
<1>7. Relation(v, FixtureRecords(v)) = Relation(w, FixtureRecords(w))
  BY <1>6, SameRelation
<1> QED BY <1>4, <1>5, <1>7

\* The frames of an authored source.
LEMMA FramesFacts ==
  ASSUME AuthoredInv, NEW h \in authored, NEW n
  PROVE  /\ IsSeq(Frames(h, RecordsOf(h), n))
         /\ Len(Frames(h, RecordsOf(h), n)) = h.count + 1
         /\ Frames(h, RecordsOf(h), n)[1] = Encrypt(n, 0, HeaderAad, h)
         /\ \A k \in 2 .. h.count + 1 :
              Frames(h, RecordsOf(h), n)[k]
                = Encrypt(n, k - 1, RecordAad(h, k - 2), RecordsOf(h)[k - 1])
<1> DEFINE s == Frames(h, RecordsOf(h), n)
<1>1. h.count \in Nat /\ Len(RecordsOf(h)) = h.count
  BY AuthoredFacts
<1>2. s = [k \in 1 .. h.count + 1 |->
             IF k = 1 THEN Encrypt(n, 0, HeaderAad, h)
             ELSE Encrypt(n, k - 1, RecordAad(h, k - 2), RecordsOf(h)[k - 1])]
  BY <1>1 DEF Frames
<1>3. h.count + 1 \in Nat /\ 1 \in 1 .. h.count + 1
  BY <1>1
<1>4. s = [k \in 1 .. h.count + 1 |-> s[k]]
  BY <1>2
<1>5. s[1] = Encrypt(n, 0, HeaderAad, h)
  BY <1>2, <1>3
<1>6. \A k \in 2 .. h.count + 1 : s[k] = Encrypt(n, k - 1, RecordAad(h, k - 2), RecordsOf(h)[k - 1])
  BY <1>1, <1>2
<1> HIDE DEF s
<1>7. IsSeq(s) /\ Len(s) = h.count + 1
  BY <1>3, <1>4, FunctionIsSeq
<1> QED BY <1>5, <1>6, <1>7 DEF s

\* They are frames of writers.
LEMMA FramesKnown ==
  ASSUME AuthoredInv, NEW h \in authored, NEW n \in Nonces
  PROVE  /\ Frames(h, RecordsOf(h), n) \in Seq(AllFrames)
         /\ \A k \in 1 .. h.count + 1 : Frames(h, RecordsOf(h), n)[k] \in AllFrames
<1> DEFINE s == Frames(h, RecordsOf(h), n)
<1>1. IsSeq(s) /\ Len(s) = h.count + 1 /\ Len(RecordsOf(h)) = h.count
  BY FramesFacts, AuthoredFacts
<1>2. \A k \in 1 .. h.count + 1 : s[k] \in FramesOf(h)
  BY <1>1 DEF FramesOf
<1>3. \A k \in 1 .. h.count + 1 : s[k] \in AllFrames
  BY <1>2 DEF AllFrames
<1>4. DOMAIN s = 1 .. h.count + 1 /\ s \in Seq({s[k] : k \in DOMAIN s})
  BY <1>1, SeqFacts DEF IsSeq
<1>5. {s[k] : k \in DOMAIN s} \subseteq AllFrames
  BY <1>3, <1>4
<1>6. s \in Seq(AllFrames)
  <2> DEFINE S == {s[k] : k \in DOMAIN s}
  <2>1. s \in Seq(S) /\ S \subseteq AllFrames
    BY <1>4, <1>5
  <2> HIDE DEF s, S
  <2> QED BY <2>1, SeqMonotonic
<1> QED BY <1>3, <1>6

\* A frame of a writer is its header's or one record's.
LEMMA KnownFrame ==
  ASSUME AuthoredInv, NEW x \in AllFrames, x # Torn
  PROVE  \E h \in authored, n \in Nonces :
           \/ x = Encrypt(n, 0, HeaderAad, h)
           \/ \E k \in 1 .. h.count : x = Encrypt(n, k, RecordAad(h, k - 1), RecordsOf(h)[k])
<1>1. PICK h \in authored : x \in FramesOf(h)
  BY DEF AllFrames
<1>2. h.count \in Nat /\ Len(RecordsOf(h)) = h.count
  BY AuthoredFacts
<1>3. PICK n \in Nonces, k \in 1 .. h.count + 1 : x = Frames(h, RecordsOf(h), n)[k]
  BY <1>1, <1>2 DEF FramesOf
<1>4. CASE k = 1
  BY <1>3, <1>4, FramesFacts
<1>5. CASE k # 1
  <2>1. k \in 2 .. h.count + 1 /\ k - 1 \in 1 .. h.count /\ (k - 1) - 1 = k - 2
    BY <1>2, <1>3, <1>5
  <2>2. x = Encrypt(n, k - 1, RecordAad(h, k - 2), RecordsOf(h)[k - 1])
    BY <1>3, <2>1, FramesFacts
  <2> QED BY <2>1, <2>2
<1> QED BY <1>4, <1>5

\* What opens as a header is the header of an authored source.
LEMMA OpensHeader ==
  ASSUME AuthoredInv, NEW x \in AllFrames, NEW n, NEW c, Decrypts(x, n, c, HeaderAad)
  PROVE  x.plain \in authored
<1>1. x # Torn /\ x = Encrypt(n, c, HeaderAad, x.plain)
  BY DEF Decrypts
<1>2. PICK h \in authored, m \in Nonces :
        \/ x = Encrypt(m, 0, HeaderAad, h)
        \/ \E k \in 1 .. h.count : x = Encrypt(m, k, RecordAad(h, k - 1), RecordsOf(h)[k])
  BY <1>1, KnownFrame
<1>3. x.aad = HeaderAad
  BY <1>1 DEF Encrypt
<1>4. x = Encrypt(m, 0, HeaderAad, h)
  BY <1>2, <1>3 DEF Encrypt, HeaderAad, RecordAad
<1> QED BY <1>4 DEF Encrypt

\* What opens as record i of an authored source is its record i.
LEMMA OpensRecord ==
  ASSUME AuthoredInv, NEW x \in AllFrames, NEW h \in authored, NEW i \in Nat, NEW n, NEW c,
         Decrypts(x, n, c, RecordAad(h, i))
  PROVE  x.plain = RecordsOf(h)[i + 1]
<1>1. x # Torn /\ x = Encrypt(n, c, RecordAad(h, i), x.plain)
  BY DEF Decrypts
<1>2. PICK g \in authored, m \in Nonces :
        \/ x = Encrypt(m, 0, HeaderAad, g)
        \/ \E k \in 1 .. g.count : x = Encrypt(m, k, RecordAad(g, k - 1), RecordsOf(g)[k])
  BY <1>1, KnownFrame
<1>3. x.aad = RecordAad(h, i)
  BY <1>1 DEF Encrypt
<1>4. PICK k \in 1 .. g.count : x = Encrypt(m, k, RecordAad(g, k - 1), RecordsOf(g)[k])
  BY <1>2, <1>3 DEF Encrypt, HeaderAad, RecordAad
<1>5. RecordAad(g, k - 1) = RecordAad(h, i) /\ x.plain = RecordsOf(g)[k]
  BY <1>3, <1>4 DEF Encrypt
<1>6. g.digest = h.digest /\ k - 1 = i
  BY <1>5 DEF RecordAad
<1>7. g.count \in Nat
  BY AuthoredFacts
<1>8. k = i + 1
  BY <1>4, <1>6, <1>7
<1> QED BY <1>5, <1>6, <1>8 DEF RecordsOf

-------------------------------------------------------------------------------
(* What a step leaves as it was *)

\* At first there is nothing.
LEMMA InitInv == Init => SourceInv
<1> SUFFICES ASSUME Init PROVE SourceInv
  OBVIOUS
<1> USE DEF Init
<1>1. Len(files) = 0 /\ files \in Seq(FileSet)
  BY EmptySeq
<1>2. Len(renamed) = 0 /\ renamed \in Seq(1 .. Len(files))
  BY EmptySeq
<1>3. DiskInv
  BY <1>1, <1>2 DEF DiskInv, Dirs, Names
<1>4. AuthoredInv /\ PublishedInv
  BY <1>2 DEF AuthoredInv, PublishedInv
<1>5. ImagesInv
  BY DEF ImagesInv, Lists, Named
<1>6. TemporariesOwned
  BY DEF TemporariesOwned, Nonces
<1>7. ProcsInv
  BY DEF ProcsInv, ProcOK
<1>8. ApartInv
  BY DEF ApartInv, Held, HoldingPhases, Idle
<1> QED BY <1>3, <1>4, <1>5, <1>6, <1>7, <1>8 DEF SourceInv

\* The processes by the phase they are in.
LEMMA PhaseFacts ==
  ASSUME ProcsInv, NEW p \in Audits \cup Proofs, NEW q, q = proc[p]
  PROVE  /\ q.phase \in WriterPhases => p \in Audits /\ WriterOK(q, NonceOf[p])
         /\ q.phase = "open" => OpenOK(q, p)
         /\ q.phase \in {"begin", "read", "done"} => ReaderOK(q, p)
         /\ q.phase = "idle" \/ q.phase \in WriterPhases \cup {"open", "begin", "read", "done"}
<1>1. ProcOK(p, q)
  BY DEF ProcsInv
<1> QED BY <1>1 DEF ProcOK, WriterOK, OpenOK, ReaderOK, WriterPhases, Idle

\* The file a writer has open is its alone, also its name unless that was taken;
\* and what it has published stays last.
Undisturbed(q, n) ==
  /\ q.phase \in HoldingPhases =>
       /\ files'[q.file] = files[q.file]
       /\ n \notin robbed' =>
            dir'[n] = dir[n] /\ \A m \in 1 .. Len(renamed') : renamed'[m] # q.file
  /\ q.phase = "syncParent" =>
       /\ dir'[Source] = renamed'[Len(renamed')]
       /\ \E m \in 1 .. Len(renamed') : renamed'[m] = q.file

Grows ==
  /\ authored \subseteq authored'
  /\ synced \subseteq synced'
  /\ robbed \subseteq robbed'
  /\ 1 .. Len(files) \subseteq 1 .. Len(files')

\* A writer that is left alone stays as it is.
LEMMA WriterKept ==
  ASSUME NEW q, NEW n, WriterOK(q, n), Undisturbed(q, n), Grows
  PROVE  WriterOK(q, n)'
BY DEF WriterOK, Undisturbed, Grows, HasFile, PublishedLast, HoldingPhases

\* A reader stays as it is.
LEMMA ReaderKept ==
  ASSUME NEW q, NEW p, Grows
  PROVE  /\ ReaderOK(q, p) => ReaderOK(q, p)'
         /\ OpenOK(q, p) => OpenOK(q, p)'
<1>1. ReaderOK(q, p) => ReaderOK(q, p)'
  BY DEF ReaderOK, WantOK, PassedOK, GotOK, Grows, Bound
<1>2. OpenOK(q, p) => OpenOK(q, p)'
  BY DEF OpenOK, WantOK
<1> QED BY <1>1, <1>2

\* So does whatever process.
LEMMA ProcKept ==
  ASSUME NEW p, NEW q, ProcOK(p, q), Grows, p \in Audits => Undisturbed(q, NonceOf[p])
  PROVE  ProcOK(p, q)'
<1>1. CASE q = Idle
  BY <1>1 DEF ProcOK, Idle
<1>2. CASE p \in Audits /\ WriterOK(q, NonceOf[p])
  <2>1. WriterOK(q, NonceOf[p])'
    BY <1>2, WriterKept
  <2> QED BY <1>2, <2>1 DEF ProcOK
<1>3. CASE OpenOK(q, p) \/ ReaderOK(q, p)
  BY <1>3, ReaderKept DEF ProcOK
<1> QED BY <1>1, <1>2, <1>3 DEF ProcOK

\* Facts about the sets the types are made of.
LEMMA DiskFacts ==
  ASSUME DiskInv
  PROVE  /\ Len(files) \in Nat /\ DOMAIN files = 1 .. Len(files)
         /\ \A f \in 1 .. Len(files) : files[f] \in FileSet
         /\ Len(renamed) \in Nat /\ DOMAIN renamed = 1 .. Len(renamed)
         /\ \A n \in 1 .. Len(renamed) : renamed[n] \in 1 .. Len(files)
         /\ dir \in Dirs /\ Source \in Names /\ dir[Source] \in 0 .. Len(files)
         /\ \A a \in Audits : NonceOf[a] \in Nonces /\ NonceOf[a] \in Names /\ NonceOf[a] # Source
<1>1. Len(files) \in Nat /\ DOMAIN files = 1 .. Len(files)
      /\ \A f \in 1 .. Len(files) : files[f] \in FileSet
  BY LenProperties, ElementOfSeq DEF DiskInv
<1>2. Len(renamed) \in Nat /\ DOMAIN renamed = 1 .. Len(renamed)
      /\ \A n \in 1 .. Len(renamed) : renamed[n] \in 1 .. Len(files)
  <2> PICK S : S = 1 .. Len(files)
    OBVIOUS
  <2>1. renamed \in Seq(S)
    BY DEF DiskInv
  <2>2. Len(renamed) \in Nat /\ DOMAIN renamed = 1 .. Len(renamed)
        /\ \A n \in 1 .. Len(renamed) : renamed[n] \in S
    BY <2>1, LenProperties, ElementOfSeq
  <2> QED BY <2>2
<1>4. dir \in Dirs /\ Source \in Names
  BY DEF DiskInv, Names
<1>5. dir[Source] \in 0 .. Len(files)
  BY <1>4 DEF Dirs
<1>6. \A a \in Audits : NonceOf[a] \in Nonces /\ NonceOf[a] \in Names /\ NonceOf[a] # Source
  BY TemporaryAssumption DEF Nonces, Names
<1> QED BY <1>1, <1>2, <1>4, <1>5, <1>6

\* More authored sources make no file wrong.
LEMMA FilesGrow ==
  ASSUME authored \subseteq authored', files \in Seq(FileSet)
  PROVE  files \in Seq(FileSet')
<1> DEFINE S == AllFrames
           T == AllFrames'
<1>1. S \subseteq T
  BY DEF AllFrames, FramesOf
<1>2. \A s \in Seq(S) : s \in Seq(T)
  <2> HIDE DEF S, T
  <2> QED BY <1>1, SeqMonotonic
<1>3. FileSet \subseteq FileSet'
  <2>1. FileSet = [nonce : Nonces, frames : Seq(S)] /\ FileSet' = [nonce : Nonces, frames : Seq(T)]
    BY DEF FileSet
  <2> HIDE DEF S, T
  <2> QED BY <1>2, <2>1
<1> DEFINE F == FileSet
           G == FileSet'
<1>4. files \in Seq(F) /\ F \subseteq G
  BY <1>3
<1> HIDE DEF F, G
<1>5. files \in Seq(G)
  BY <1>4, SeqMonotonic
<1> QED BY <1>5 DEF G

\* A whole file stays whole while it is not written to.
LEMMA WholeKept ==
  ASSUME NEW f, Whole(f), authored \subseteq authored', files'[f] = files[f]
  PROVE  Whole(f)'
BY DEF Whole

-------------------------------------------------------------------------------
(* The steps of readers *)

\* A step that writes nothing keeps the invariant if its process is right after it.
LEMMA ReaderStep ==
  ASSUME SourceInv, NEW p \in Audits \cup Proofs, NEW r, proc' = [proc EXCEPT ![p] = r],
         UNCHANGED <<files, dir, images, synced>>, UNCHANGED <<damaged, robbed, renamed, acked>>,
         authored \subseteq authored', AuthoredInv', orphans \subseteq orphans',
         p \in Audits => Held(p) \subseteq orphans',
         ProcOK(p, r)', r.phase \notin HoldingPhases
  PROVE  SourceInv'
<1> USE DEF SourceInv
<1>0. Grows
  BY DEF Grows
<1>1. DiskInv'
  <2>1. files \in Seq(FileSet')
    BY FilesGrow DEF DiskInv
  <2>2. proc' = [q \in Audits \cup Proofs |-> proc'[q]]
    BY DEF DiskInv
  <2>3. (files \in Seq(FileSet))'
    BY <2>1
  <2> QED BY <2>2, <2>3 DEF DiskInv, Dirs
<1>2. PublishedInv'
  <2> SUFFICES ASSUME NEW n \in 1 .. Len(renamed), files[renamed[n]].nonce \notin robbed
               PROVE  PublishedRight(renamed[n])'
    BY DEF PublishedInv
  <2> PICK f : f = renamed[n]
    OBVIOUS
  <2>1. f \in synced /\ (f \notin damaged => Whole(f))
    BY DEF PublishedInv, PublishedRight
  <2>2. f \notin damaged => Whole(f)'
    BY <2>1, WholeKept
  <2> QED BY <2>1, <2>2 DEF PublishedRight, Whole
<1>3. ImagesInv'
  BY DEF ImagesInv, Lists, Named
<1>4. \A a \in Audits : proc'[a] = IF a = p THEN r ELSE proc[a]
  BY DEF DiskInv
<1>5. \A a \in Audits : Held(a)' = IF a = p THEN {} ELSE Held(a)
  BY <1>4 DEF Held
<1>6. TemporariesOwned'
  BY <1>5 DEF TemporariesOwned
<1>7. ApartInv'
  BY <1>5 DEF ApartInv
<1>8. ProcsInv'
  <2> SUFFICES ASSUME NEW s \in Audits \cup Proofs, NEW q, q = proc'[s]
               PROVE  ProcOK(s, q)'
    BY DEF ProcsInv
  <2>1. CASE s = p
    BY <2>1 DEF DiskInv
  <2>2. CASE s # p
    <3>1. q = proc[s]
      BY <2>2 DEF DiskInv
    <3>2. ProcOK(s, q)
      BY <3>1 DEF ProcsInv
    <3>3. s \in Audits => Undisturbed(q, NonceOf[s])
      <4>1. ASSUME s \in Audits, q.phase \in WriterPhases PROVE WriterOK(q, NonceOf[s])
        BY <3>1, <4>1, PhaseFacts
      <4> QED BY <4>1 DEF Undisturbed, WriterOK, HasFile, PublishedLast, WriterPhases, HoldingPhases
    <3> QED BY <1>0, <3>2, <3>3, ProcKept
  <2> QED BY <2>1, <2>2
<1> QED BY <1>1, <1>2, <1>3, <1>6, <1>7, <1>8

\* A step that also leaves the history alone.
LEMMA QuietStep ==
  ASSUME SourceInv, NEW p \in Audits \cup Proofs, NEW r, proc' = [proc EXCEPT ![p] = r],
         UNCHANGED <<diskVars, historyVars>>, proc[p].phase \notin HoldingPhases,
         r = Idle \/ OpenOK(r, p)' \/ ReaderOK(r, p)'
  PROVE  SourceInv'
<1>1. UNCHANGED <<files, dir, images, synced>> /\ UNCHANGED <<damaged, robbed, renamed, acked>>
      /\ authored' = authored /\ orphans' = orphans
  BY DEF diskVars, historyVars
<1>2. AuthoredInv'
  BY <1>1 DEF SourceInv, AuthoredInv
<1>3. Held(p) \subseteq orphans'
  BY DEF Held
<1>4. ProcOK(p, r)' /\ r.phase \notin HoldingPhases
  <2>1. CASE r = Idle
    BY <2>1 DEF ProcOK, Idle, HoldingPhases
  <2>2. CASE OpenOK(r, p)' \/ ReaderOK(r, p)'
    BY <2>2 DEF ProcOK, OpenOK, ReaderOK, HoldingPhases
  <2> QED BY <2>1, <2>2
<1> QED BY <1>1, <1>2, <1>3, <1>4, ReaderStep

\* A process may always be given up that has no temporary file.
LEMMA GiveUpStep ==
  ASSUME SourceInv, NEW p \in Audits \cup Proofs, GiveUp(p),
         UNCHANGED <<diskVars, historyVars>>, proc[p].phase \notin HoldingPhases
  PROVE  SourceInv'
<1> PICK r : r = Idle
  OBVIOUS
<1>1. proc' = [proc EXCEPT ![p] = r]
  BY DEF GiveUp
<1> QED BY <1>1, QuietStep

\* The frames of a file were made by writers.
LEMMA FileFrames ==
  ASSUME DiskInv, NEW f \in 1 .. Len(files)
  PROVE  /\ files[f] = [nonce |-> files[f].nonce, frames |-> files[f].frames]
         /\ files[f].nonce \in Nonces /\ files[f].frames \in Seq(AllFrames)
         /\ Len(files[f].frames) \in Nat /\ DOMAIN files[f].frames = 1 .. Len(files[f].frames)
         /\ \A k \in 1 .. Len(files[f].frames) : files[f].frames[k] \in AllFrames
<1>1. /\ files[f] = [nonce |-> files[f].nonce, frames |-> files[f].frames]
      /\ files[f].nonce \in Nonces /\ files[f].frames \in Seq(AllFrames)
  BY DiskFacts DEF FileSet
<1> PICK s : s = files[f].frames
  OBVIOUS
<1> DEFINE S == AllFrames
<1>2. s \in Seq(S)
  BY <1>1
<1> HIDE DEF S
<1>3. Len(s) \in Nat /\ DOMAIN s = 1 .. Len(s) /\ \A k \in 1 .. Len(s) : s[k] \in S
  BY <1>2, LenProperties, ElementOfSeq
<1> QED BY <1>1, <1>3 DEF S

\* A prefix that is there is one of a file.
LEMMA PrefixFacts ==
  ASSUME DiskInv, Prefix # <<>>
  PROVE  /\ dir[Source] \in 1 .. Len(files) /\ Prefix = files[dir[Source]].frames
         /\ Prefix[1] \in AllFrames
<1>1. dir[Source] # 0 /\ Prefix = files[dir[Source]].frames
  BY DEF Prefix
<1>2. dir[Source] \in 1 .. Len(files)
  BY <1>1, DiskFacts
<1> PICK f \in 1 .. Len(files) : f = dir[Source]
  BY <1>2
<1>3. Prefix \in Seq(AllFrames) /\ \A k \in 1 .. Len(Prefix) : Prefix[k] \in AllFrames
  BY <1>1, FileFrames
<1>4. Len(Prefix) \in Nat \ {0}
  BY <1>3, EmptySeq
<1> QED BY <1>1, <1>2, <1>3, <1>4

\* A run that starts wants the fixture of its workload.
LEMMA StartProofInv ==
  ASSUME SourceInv, NEW p \in Proofs, StartProof(p)
  PROVE  SourceInv'
<1>1. PICK w \in Workloads :
        proc' = [proc EXCEPT ![p] = [phase |-> "open", workload |-> w, want |-> FixtureHeader(w)]]
  BY DEF StartProof
<1> PICK r : r = [phase |-> "open", workload |-> w, want |-> FixtureHeader(w)]
  OBVIOUS
<1>2. OpenOK(r, p)'
  BY DEF OpenOK, WantOK
<1>3. UNCHANGED <<diskVars, historyVars>> /\ proc[p].phase \notin HoldingPhases
  BY DEF StartProof, HoldingPhases
<1> QED BY <1>1, <1>2, <1>3, QuietStep

\* What a run opens is an authored source.
LEMMA OpenSourceInv ==
  ASSUME SourceInv, NEW p \in Audits \cup Proofs, OpenSource(p)
  PROVE  SourceInv'
<1> USE DEF SourceInv
<1>0. UNCHANGED <<diskVars, historyVars>> /\ proc[p].phase = "open"
  BY DEF OpenSource
<1>1. proc[p].phase \notin HoldingPhases
  BY <1>0 DEF HoldingPhases
<1>2. CASE ~(Prefix # <<>> /\ Decrypts(Prefix[1], files[dir[Source]].nonce, 0, HeaderAad))
  <2>1. GiveUp(p)
    BY <1>2 DEF OpenSource
  <2> QED BY <1>0, <1>1, <2>1, GiveUpStep
<1>3. CASE Prefix # <<>> /\ Decrypts(Prefix[1], files[dir[Source]].nonce, 0, HeaderAad)
  <2> PICK q : q = proc[p]
    OBVIOUS
  <2> PICK h, n : h = Prefix[1].plain /\ n = files[dir[Source]].nonce
    OBVIOUS
  <2> PICK r : r = [phase |-> "begin", workload |-> q.workload, want |-> q.want, header |-> h,
                    nonce |-> n, goal |-> "validate", file |-> 0, got |-> <<>>]
    OBVIOUS
  <2>1. proc' = [proc EXCEPT ![p] = r]
    BY <1>3 DEF OpenSource, DiskInv
  <2>2. h \in authored /\ authored' = authored
    BY <1>0, <1>3, PrefixFacts, OpensHeader DEF historyVars
  <2>3. OpenOK(q, p)
    BY <1>0, PhaseFacts
  <2>4. ReaderOK(r, p)'
    BY <2>2, <2>3 DEF ReaderOK, OpenOK, WantOK, PassedOK
  <2> QED BY <1>0, <1>1, <2>1, <2>4, QuietStep
<1> QED BY <1>2, <1>3

\* A pass starts with no records.
LEMMA BeginPassInv ==
  ASSUME SourceInv, NEW p \in Audits \cup Proofs, BeginPass(p)
  PROVE  SourceInv'
<1> USE DEF SourceInv
<1>0. UNCHANGED <<diskVars, historyVars>> /\ proc[p].phase = "begin"
  BY DEF BeginPass
<1>1. proc[p].phase \notin HoldingPhases
  BY <1>0 DEF HoldingPhases
<1>2. CASE Prefix = <<>>
  <2>1. GiveUp(p)
    BY <1>2 DEF BeginPass
  <2> QED BY <1>0, <1>1, <2>1, GiveUpStep
<1>3. CASE Prefix # <<>>
  <2> PICK q : q = proc[p]
    OBVIOUS
  <2>1. ReaderOK(q, p)
    BY <1>0, PhaseFacts
  <2> PICK f : f = dir[Source]
    OBVIOUS
  <2> PICK r : r = [q EXCEPT !.phase = "read", !.file = f, !.got = <<>>]
    OBVIOUS
  <2>2. /\ r = [phase |-> r.phase, workload |-> r.workload, want |-> r.want, header |-> r.header,
                nonce |-> r.nonce, goal |-> r.goal, file |-> r.file, got |-> r.got]
        /\ r.phase = "read" /\ r.workload = q.workload /\ r.want = q.want
        /\ r.header = q.header /\ r.goal = q.goal /\ r.file = f /\ r.got = <<>>
    BY <2>1 DEF ReaderOK
  <2>3. proc' = [proc EXCEPT ![p] = r]
    BY <1>3 DEF BeginPass, DiskInv
  <2>4. q.header \in authored /\ authored' = authored /\ files' = files
    BY <1>0, <2>1 DEF ReaderOK, historyVars, diskVars
  <2>5. GotOK(r)'
    <3>1. f \in 1 .. Len(files)
      BY <1>3, PrefixFacts
    <3>2. q.header.count \in Nat /\ IsSeq(RecordsOf(q.header)) /\ Len(RecordsOf(q.header)) \in Nat
      BY <2>4, AuthoredFacts
    <3>3. SubSeq(RecordsOf(q.header), 1, 0) = <<>> /\ Len(<<>>) = 0
      BY <3>2, SubSeqEmpty
    <3> QED BY <2>2, <2>4, <3>1, <3>2, <3>3 DEF GotOK
  <2>6. ReaderOK(r, p)'
    BY <1>0, <2>1, <2>2, <2>4, <2>5 DEF ReaderOK, WantOK, PassedOK, Bound
  <2> QED BY <1>0, <1>1, <2>3, <2>6, QuietStep
<1> QED BY <1>2, <1>3

\* A record that is given to the consumer is the next one of the source.
LEMMA ReadRecordInv ==
  ASSUME SourceInv, NEW p \in Audits \cup Proofs, ReadRecord(p)
  PROVE  SourceInv'
<1>0. UNCHANGED <<diskVars, historyVars>> /\ proc[p].phase = "read"
      /\ DiskInv /\ AuthoredInv /\ ProcsInv
  BY DEF ReadRecord, Reading, SourceInv
<1>1. proc[p].phase \notin HoldingPhases
  BY <1>0 DEF HoldingPhases
<1> PICK q : q = proc[p]
  OBVIOUS
<1> PICK h, i, frames : h = q.header /\ i = Len(q.got) /\ frames = files[q.file].frames
  OBVIOUS
<1> DEFINE Good == /\ Len(frames) > i + 1
                   /\ Decrypts(frames[i + 2], q.nonce, i + 1, RecordAad(h, i))
                   /\ frames[i + 2].plain.index = i
                   /\ ValidRecord(h, frames[i + 2].plain)
<1>2. /\ i < h.count
      /\ IF Good THEN proc' = [proc EXCEPT ![p].got = Append(@, frames[i + 2].plain)] ELSE GiveUp(p)
  BY DEF ReadRecord
<1>3. CASE ~Good
  <2>1. GiveUp(p)
    BY <1>2, <1>3
  <2> QED BY <1>0, <1>1, <2>1, GiveUpStep
<1>4. CASE Good
  <2>1. ReaderOK(q, p) /\ GotOK(q) /\ h \in authored
    BY <1>0, PhaseFacts DEF ReaderOK
  <2>2. h.count \in Nat /\ IsSeq(RecordsOf(h)) /\ Len(RecordsOf(h)) = h.count
    BY <1>0, <2>1, AuthoredFacts
  <2>3. i \in 0 .. h.count - 1 /\ i \in Nat /\ q.file \in 1 .. Len(files)
        /\ q.got = SubSeq(RecordsOf(h), 1, i)
    <3>1. /\ q.file \in 1 .. Len(files) /\ i \in 0 .. h.count
          /\ q.got = SubSeq(RecordsOf(h), 1, i)
      BY <2>1 DEF GotOK
    <3>2. i < h.count
      BY <1>2
    <3> HIDE DEF Good
    <3> QED BY <2>2, <3>1, <3>2
  <2>4. frames[i + 2] \in AllFrames
    <3>1. Len(frames) \in Nat /\ \A k \in 1 .. Len(frames) : frames[k] \in AllFrames
      BY <1>0, <2>3, FileFrames
    <3>2. Len(frames) > i + 1
      BY <1>4
    <3>3. i \in Nat
      BY <2>3
    <3> HIDE DEF Good
    <3> PICK k : k = Len(frames)
      OBVIOUS
    <3>4. i + 2 \in 1 .. k
      BY <3>1, <3>2, <3>3
    <3> QED BY <3>1, <3>4
  <2> PICK x : x = frames[i + 2].plain
    OBVIOUS
  <2>5. x = RecordsOf(h)[i + 1]
    BY <1>0, <1>4, <2>1, <2>3, <2>4, OpensRecord
  <2> PICK r : r = [q EXCEPT !.got = Append(@, x)]
    OBVIOUS
  <2>6. /\ r = [phase |-> r.phase, workload |-> r.workload, want |-> r.want, header |-> r.header,
                nonce |-> r.nonce, goal |-> r.goal, file |-> r.file, got |-> r.got]
        /\ r.phase = q.phase /\ r.workload = q.workload /\ r.want = q.want
        /\ r.header = h /\ r.goal = q.goal /\ r.file = q.file /\ r.got = Append(q.got, x)
    BY <2>1 DEF ReaderOK
  <2>7. proc' = [proc EXCEPT ![p] = r]
    BY <1>0, <1>2, <1>4 DEF DiskInv
  <2>8. r.got = SubSeq(RecordsOf(h), 1, i + 1) /\ Len(r.got) = i + 1
    <3>1. r.got = SubSeq(RecordsOf(h), 1, i + 1)
      <4> PICK s : s = RecordsOf(h)
        OBVIOUS
      <4>1. IsSeq(s) /\ i \in 0 .. Len(s) - 1
        BY <2>2, <2>3
      <4>2. Append(SubSeq(s, 1, i), s[i + 1]) = SubSeq(s, 1, i + 1)
        BY <4>1, SubSeqGrows
      <4>3. r.got = Append(SubSeq(s, 1, i), s[i + 1])
        BY <2>3, <2>5, <2>6
      <4> QED BY <4>2, <4>3
    <3>2. i + 1 \in 0 .. Len(RecordsOf(h))
      BY <2>2, <2>3
    <3> QED BY <2>2, <3>1, <3>2, SeqFacts
  <2>9. GotOK(r)'
    <3>1. files' = files /\ i + 1 \in 0 .. h.count
      BY <1>0, <2>2, <2>3 DEF diskVars
    <3> QED BY <2>3, <2>6, <2>8, <3>1 DEF GotOK
  <2>10. ReaderOK(r, p)'
    <3>1. authored' = authored
      BY <1>0 DEF historyVars
    <3> QED BY <1>0, <2>1, <2>6, <2>9, <3>1 DEF ReaderOK, WantOK, PassedOK, Bound
  <2> QED BY <1>0, <1>1, <2>7, <2>10, QuietStep
<1> QED BY <1>3, <1>4

\* A pass that is complete has established what it was for.
LEMMA FinishPassInv ==
  ASSUME SourceInv, NEW p \in Audits \cup Proofs, FinishPass(p)
  PROVE  SourceInv'
<1>0. UNCHANGED <<diskVars, historyVars>> /\ proc[p].phase = "read"
      /\ DiskInv /\ AuthoredInv /\ ProcsInv
  BY DEF FinishPass, Reading, SourceInv
<1>1. proc[p].phase \notin HoldingPhases
  BY <1>0 DEF HoldingPhases
<1> DEFINE Good == /\ Len(files[proc[p].file].frames) = proc[p].header.count + 1
                   /\ SourceDigest(proc[p].header, proc[p].got) = proc[p].header.digest
                   /\ Wanted(p)
<1>2. CASE ~Good
  <2>1. GiveUp(p)
    BY <1>2 DEF FinishPass
  <2> QED BY <1>0, <1>1, <2>1, GiveUpStep
<1>3. CASE Good
  <2> PICK q : q = proc[p]
    OBVIOUS
  <2>1. ReaderOK(q, p) /\ GotOK(q) /\ q.header \in authored /\ Len(q.got) = q.header.count
    BY <1>0, PhaseFacts DEF ReaderOK, FinishPass
  <2>2. q.got = RecordsOf(q.header)
    <3>1. IsSeq(RecordsOf(q.header)) /\ Len(RecordsOf(q.header)) = q.header.count
      BY <1>0, <2>1, AuthoredFacts
    <3>2. SubSeq(RecordsOf(q.header), 1, Len(RecordsOf(q.header))) = RecordsOf(q.header)
      BY <3>1, SeqFacts
    <3> QED BY <2>1, <3>1, <3>2 DEF GotOK
  <2>3. q.goal \in {"validate", "replay", "digest"}
    BY <1>0, <2>1 DEF ReaderOK
  <2>4. PICK goal \in NextGoals(p) :
          proc' = [proc EXCEPT ![p].goal = goal,
                               ![p].phase = IF goal = "done" THEN "done" ELSE "begin"]
    BY <1>3 DEF FinishPass
  <2>5. /\ q.goal = "validate" => goal = "replay" /\ Bound(q, p)
        /\ q.goal = "replay" => goal \in {"digest", "done"}
                                /\ Relation(q.workload, q.got) = q.header.layout
        /\ q.goal = "digest" => goal \in {"digest", "done"}
    BY <1>3, <2>3, <2>4 DEF NextGoals, Wanted, SameBinding, Bound, BindingFields, Rebuilt
  <2> PICK phase : phase = IF goal = "done" THEN "done" ELSE "begin"
    OBVIOUS
  <2> PICK r : r = [q EXCEPT !.goal = goal, !.phase = phase]
    OBVIOUS
  <2>6. /\ r = [phase |-> r.phase, workload |-> r.workload, want |-> r.want, header |-> r.header,
                nonce |-> r.nonce, goal |-> r.goal, file |-> r.file, got |-> r.got]
        /\ r.phase = phase /\ r.workload = q.workload /\ r.want = q.want
        /\ r.header = q.header /\ r.goal = goal /\ r.file = q.file /\ r.got = q.got
    BY <2>1 DEF ReaderOK
  <2>7. proc' = [proc EXCEPT ![p] = r]
    BY <1>0, <2>4 DEF DiskInv
  <2>8. authored' = authored /\ files' = files
    BY <1>0 DEF historyVars, diskVars
  <2>9. PassedOK(r, p)
    <3>1. CASE q.goal = "validate"
      BY <2>5, <2>6, <3>1 DEF PassedOK, Bound
    <3>2. CASE q.goal \in {"replay", "digest"}
      <4>1. Bound(q, p) /\ Bound(r, p)
        BY <2>1, <2>6, <3>2 DEF ReaderOK, PassedOK, Bound
      <4>2. Relation(q.workload, RecordsOf(q.header)) = q.header.layout
        BY <2>1, <2>2, <2>5, <3>2 DEF ReaderOK, PassedOK
      <4> QED BY <2>6, <4>1, <4>2 DEF PassedOK
    <3> QED BY <2>3, <3>1, <3>2
  <2>10. PassedOK(r, p)' /\ GotOK(r)'
    BY <2>1, <2>6, <2>8, <2>9 DEF PassedOK, GotOK, Bound
  <2>11. goal \in {"validate", "replay", "digest", "done"} /\ phase \in {"begin", "done"}
         /\ (phase = "done" <=> goal = "done")
    BY <2>3, <2>5
  <2>12. ReaderOK(r, p)'
    BY <2>1, <2>6, <2>8, <2>10, <2>11 DEF ReaderOK, WantOK
  <2> QED BY <1>0, <1>1, <2>7, <2>12, QuietStep
<1> QED BY <1>2, <1>3

\* A run that is done ends.
LEMMA LeaveInv ==
  ASSUME SourceInv, NEW p \in Audits \cup Proofs, Leave(p)
  PROVE  SourceInv'
<1>1. GiveUp(p) /\ UNCHANGED <<diskVars, historyVars>> /\ proc[p].phase = "done"
  BY DEF Leave
<1>2. proc[p].phase \notin HoldingPhases
  BY <1>1 DEF HoldingPhases
<1> QED BY <1>1, <1>2, GiveUpStep

\* A process that is killed leaves its temporary file to nobody.
LEMMA KillInv ==
  ASSUME SourceInv, NEW p \in Audits \cup Proofs, Kill(p)
  PROVE  SourceInv'
<1> PICK r : r = Idle
  OBVIOUS
<1>1. proc' = [proc EXCEPT ![p] = r] /\ UNCHANGED <<files, dir, images, synced>>
      /\ UNCHANGED <<damaged, robbed, renamed, acked>> /\ authored' = authored
  BY DEF Kill, diskVars
<1>2. orphans \subseteq orphans' /\ Held(p) \subseteq orphans'
  BY DEF Kill
<1>3. AuthoredInv'
  BY <1>1 DEF SourceInv, AuthoredInv
<1>4. ProcOK(p, r)' /\ r.phase \notin HoldingPhases
  BY DEF ProcOK, Idle, HoldingPhases
<1> QED BY <1>1, <1>2, <1>3, <1>4, ReaderStep

-------------------------------------------------------------------------------
(* The steps of writers *)

\* Altered records: one was changed, or left out, repeated or turned round.
LEMMA AlteredFacts ==
  ASSUME NEW rs, NEW x \in Altered(rs)
  PROVE  \/ \E r : x \in Changed(rs, 1, r)
         \/ x = Tail(rs)
         \/ x = [n \in 1 .. Len(rs) |-> rs[1]]
         \/ x = [n \in 1 .. Len(rs) |-> rs[Len(rs) + 1 - n]]
BY Zenon DEF Altered

\* What a writer is given is a sequence.
LEMMA GivenRecords ==
  ASSUME NEW w \in Workloads,
         NEW records \in {FixtureRecords(w)} \cup Altered(FixtureRecords(w))
  PROVE  IsSeq(records)
<1> PICK rs : rs = FixtureRecords(w)
  OBVIOUS
<1> PICK k : k = w.credentials
  OBVIOUS
<1>1. k \in Nat \ {0}
  BY WorkloadAssumption
<1>2. rs = [n \in 1 .. k |-> rs[n]]
  BY DEF FixtureRecords
<1>3. IsSeq(rs) /\ Len(rs) = k
  BY <1>1, <1>2, FunctionIsSeq
<1>4. ASSUME NEW x PROVE IsSeq([rs EXCEPT ![1] = x])
  <2> PICK s : s = [rs EXCEPT ![1] = x]
    OBVIOUS
  <2>1. s = [n \in 1 .. k |-> s[n]]
    BY <1>2
  <2> QED BY <1>1, <2>1, FunctionIsSeq
<1>5. IsSeq(Tail(rs))
  <2> DEFINE S == {rs[n] : n \in DOMAIN rs}
  <2>1. rs \in Seq(S) /\ rs # <<>>
    <3>1. Len(<<>>) = 0
      BY EmptySeq
    <3> QED BY <1>1, <1>3, <3>1 DEF IsSeq
  <2> HIDE DEF S
  <2>2. Tail(rs) \in Seq(S)
    BY <2>1, HeadTailProperties
  <2> QED BY <2>2, SeqIsSeq
<1>6. IsSeq([n \in 1 .. Len(rs) |-> rs[1]])
  <2> PICK s : s = [n \in 1 .. Len(rs) |-> rs[1]]
    OBVIOUS
  <2>1. s = [n \in 1 .. k |-> s[n]]
    BY <1>3
  <2> QED BY <1>1, <2>1, FunctionIsSeq
<1>7. IsSeq([n \in 1 .. Len(rs) |-> rs[Len(rs) + 1 - n]])
  <2> PICK s : s = [n \in 1 .. Len(rs) |-> rs[Len(rs) + 1 - n]]
    OBVIOUS
  <2>1. s = [n \in 1 .. k |-> s[n]]
    BY <1>3
  <2> QED BY <1>1, <2>1, FunctionIsSeq
<1>8. \A r : \A x \in Changed(rs, 1, r) : IsSeq(x)
  BY <1>4 DEF Changed
<1>9. ASSUME NEW x \in Altered(rs) PROVE IsSeq(x)
  <2>1. \/ \E r : x \in Changed(rs, 1, r)
        \/ x = Tail(rs)
        \/ x = [n \in 1 .. Len(rs) |-> rs[1]]
        \/ x = [n \in 1 .. Len(rs) |-> rs[Len(rs) + 1 - n]]
    BY <1>9, AlteredFacts
  <2>2. CASE \E r : x \in Changed(rs, 1, r)
    <3> PICK r : x \in Changed(rs, 1, r)
      BY <2>2
    <3> QED BY <1>8
  <2> QED BY <1>5, <1>6, <1>7, <2>1, <2>2
<1> QED BY <1>3, <1>9

\* The source whose writing begins is genuine.
LEMMA StartWriteInv ==
  ASSUME SourceInv, NEW a \in Audits, StartWrite(a)
  PROVE  SourceInv'
<1>0. PICK w \in Workloads :
        \E records \in {FixtureRecords(w)} \cup Altered(FixtureRecords(w)) :
          LET header == FixtureHeader(w)
              h == [header EXCEPT !.digest = SourceDigest(header, records)]
          IN /\ ValidRecords(header, records)
             /\ proc' = [proc EXCEPT ![a] =
                  [phase |-> "create", workload |-> w, header |-> h, records |-> records, file |-> 0]]
             /\ authored' = authored \cup {h}
  BY DEF StartWrite
<1>1. PICK records \in {FixtureRecords(w)} \cup Altered(FixtureRecords(w)) :
        LET header == FixtureHeader(w)
            h == [header EXCEPT !.digest = SourceDigest(header, records)]
        IN /\ ValidRecords(header, records)
           /\ proc' = [proc EXCEPT ![a] =
                [phase |-> "create", workload |-> w, header |-> h, records |-> records, file |-> 0]]
           /\ authored' = authored \cup {h}
  BY <1>0
<1> PICK d : d = SourceDigest(FixtureHeader(w), records)
  OBVIOUS
<1> PICK h : h = [FixtureHeader(w) EXCEPT !.digest = d]
  OBVIOUS
<1> PICK r : r = [phase |-> "create", workload |-> w, header |-> h, records |-> records, file |-> 0]
  OBVIOUS
<1>2. /\ ValidRecords(FixtureHeader(w), records)
      /\ proc' = [proc EXCEPT ![a] = r] /\ authored' = authored \cup {h}
  BY <1>1
<1>3. RecordsOf(h) = records
  <2>1. h.digest = d
    BY HeaderFields
  <2> QED BY <2>1 DEF SourceDigest, RecordsOf
<1>4. Genuine(h)
  <2>1. IsSeq(records)
    BY GivenRecords
  <2> QED BY <1>2, <1>3, <2>1 DEF Genuine
<1>5. AuthoredInv'
  BY <1>2, <1>4 DEF AuthoredInv, SourceInv
<1>6. UNCHANGED <<files, dir, images, synced>> /\ UNCHANGED <<damaged, robbed, renamed, acked>>
      /\ orphans' = orphans /\ proc[a].phase = "idle"
  BY DEF StartWrite, diskVars
<1>7. authored \subseteq authored' /\ Held(a) \subseteq orphans' /\ r.phase \notin HoldingPhases
  BY <1>2, <1>6 DEF HoldingPhases, Held
<1>8. WriterOK(r, NonceOf[a])'
  BY <1>2, <1>3 DEF WriterOK, WriterPhases, HoldingPhases
<1>9. ProcOK(a, r)'
  BY <1>8 DEF ProcOK
<1> QED BY <1>2, <1>5, <1>6, <1>7, <1>9, ReaderStep

\* A step of writer a writes only to the file it has open, which is not published
\* as long as its name was not taken.
OwnFiles(a) ==
  \A f \in 1 .. Len(files) :
    \/ files'[f] = files[f]
    \/ /\ f \in Held(a) /\ files'[f].nonce = files[f].nonce /\ files[f].nonce = NonceOf[a]
       /\ NonceOf[a] \notin robbed => \A m \in 1 .. Len(renamed) : renamed[m] # f

\* It touches only its own name, which it takes from another writer only if that
\* is recorded.
OwnName(a) ==
  /\ \A m \in Names : m \notin {NonceOf[a], Source} => dir'[m] = dir[m]
  /\ dir'[NonceOf[a]] = dir[NonceOf[a]] \/ NonceOf[a] \in robbed' \/ ~InUse(a)

\* It publishes nothing, or the file of its name.
OwnSource(a) ==
  \/ renamed' = renamed /\ dir'[Source] = dir[Source]
  \/ \E f \in 1 .. Len(files) :
       /\ renamed' = Append(renamed, f) /\ dir'[Source] = f /\ files[f].nonce = NonceOf[a]
       /\ NonceOf[a] \in robbed \/ f \in Held(a)

\* What a sequence with one more element holds.
LEMMA AppendOne ==
  ASSUME NEW S, NEW t \in Seq(S), NEW f \in S
  PROVE  /\ Append(t, f) \in Seq(S) /\ Len(Append(t, f)) = Len(t) + 1
         /\ Append(t, f)[Len(t) + 1] = f
         /\ \A m \in 1 .. Len(t) : Append(t, f)[m] = t[m] /\ m \in 1 .. Len(Append(t, f))
         /\ Len(t) + 1 \in 1 .. Len(Append(t, f))
         /\ \A m \in 1 .. Len(Append(t, f)) : m \in 1 .. Len(t) \/ m = Len(t) + 1
<1>1. /\ Append(t, f) \in Seq(S) /\ Len(Append(t, f)) = Len(t) + 1
      /\ Append(t, f)[Len(t) + 1] = f
      /\ \A m \in 1 .. Len(t) : Append(t, f)[m] = t[m]
  BY AppendProperties
<1>2. Len(t) \in Nat
  BY LenProperties
<1> QED BY <1>1, <1>2

\* The other processes do not notice.
LEMMA OthersKept ==
  ASSUME SourceInv, NEW a \in Audits, NEW r, proc' = [proc EXCEPT ![a] = r], Grows,
         OwnFiles(a), OwnName(a), OwnSource(a), ProcOK(a, r)'
  PROVE  ProcsInv'
<1> SUFFICES ASSUME NEW p \in Audits \cup Proofs, NEW q, q = proc'[p]
             PROVE  ProcOK(p, q)'
  BY DEF ProcsInv
<1>0. DiskInv /\ ProcsInv /\ ApartInv
  BY DEF SourceInv
<1>1. CASE p = a
  BY <1>0, <1>1 DEF DiskInv
<1>2. CASE p # a
  <2>1. q = proc[p]
    BY <1>0, <1>2 DEF DiskInv
  <2>2. ProcOK(p, q)
    BY <1>0, <2>1 DEF ProcsInv
  <2>3. ASSUME p \in Audits PROVE Undisturbed(q, NonceOf[p])
    <3> PICK n : n = NonceOf[p]
      OBVIOUS
    <3>1. n \in Names /\ n # Source
      BY <1>0, <2>3, DiskFacts
    <3>2. Len(renamed) \in Nat
      BY <1>0, DiskFacts
    <3>3. ASSUME NEW f \in 1 .. Len(files), renamed' = Append(renamed, f) PROVE
            /\ renamed'[Len(renamed')] = f
            /\ \A m \in 1 .. Len(renamed) : renamed'[m] = renamed[m] /\ m \in 1 .. Len(renamed')
            /\ \A m \in 1 .. Len(renamed') : m \in 1 .. Len(renamed) \/ renamed'[m] = f
      <4> PICK S : S = 1 .. Len(files)
        OBVIOUS
      <4>1. renamed \in Seq(S) /\ f \in S
        BY <1>0 DEF DiskInv
      <4> QED BY <3>3, <4>1, AppendOne
    <3>4. CASE q.phase \in HoldingPhases
      <4>1. HasFile(q, n)
        BY <1>0, <2>1, <2>3, <3>4, PhaseFacts DEF WriterOK, HoldingPhases, WriterPhases
      <4>2. Held(p) = {q.file}
        BY <2>1, <3>4 DEF Held
      <4>3. q.file \notin Held(a)
        BY <1>0, <1>2, <2>3, <4>2 DEF ApartInv
      <4>4. files'[q.file] = files[q.file]
        BY <4>1, <4>3 DEF HasFile, OwnFiles
      <4>5. ASSUME n \notin robbed' PROVE dir'[n] = dir[n] /\ \A m \in 1 .. Len(renamed') : renamed'[m] # q.file
        <5>1. n \notin robbed
          BY <4>5 DEF Grows
        <5>2. dir[n] = q.file /\ files[q.file].nonce = n /\ \A m \in 1 .. Len(renamed) : renamed[m] # q.file
          BY <4>1, <5>1 DEF HasFile
        <5>3. dir'[n] = dir[n]
          <6>1. CASE n = NonceOf[a]
            <7>1. InUse(a)
              BY <1>2, <2>3, <4>2, <5>2, <6>1 DEF InUse
            <7> QED BY <4>5, <6>1, <7>1 DEF OwnName
          <6>2. CASE n # NonceOf[a]
            BY <3>1, <6>2 DEF OwnName
          <6> QED BY <6>1, <6>2
        <5>4. CASE renamed' = renamed
          BY <5>2, <5>3, <5>4
        <5>5. ASSUME NEW f \in 1 .. Len(files), renamed' = Append(renamed, f), files[f].nonce = NonceOf[a],
                     NonceOf[a] \in robbed \/ f \in Held(a)
              PROVE  \A m \in 1 .. Len(renamed') : renamed'[m] # q.file
          <6>1. f # q.file
            BY <4>3, <5>1, <5>2, <5>5
          <6> QED BY <3>3, <5>2, <5>5, <6>1
        <5> QED BY <5>3, <5>4, <5>5 DEF OwnSource
      <4> QED BY <3>4, <4>4, <4>5 DEF Undisturbed, HoldingPhases
    <3>5. CASE q.phase = "syncParent"
      <4>1. PublishedLast(q.file)
        BY <1>0, <2>1, <2>3, <3>5, PhaseFacts DEF WriterOK, WriterPhases
      <4>2. PICK m \in 1 .. Len(renamed) : renamed[m] = q.file
        BY <4>1 DEF PublishedLast
      <4>3. /\ dir'[Source] = renamed'[Len(renamed')]
            /\ m \in 1 .. Len(renamed') /\ renamed'[m] = q.file
        <5>1. CASE renamed' = renamed /\ dir'[Source] = dir[Source]
          BY <4>1, <4>2, <5>1 DEF PublishedLast
        <5>2. ASSUME NEW f \in 1 .. Len(files), renamed' = Append(renamed, f), dir'[Source] = f
              PROVE  /\ dir'[Source] = renamed'[Len(renamed')]
                     /\ m \in 1 .. Len(renamed') /\ renamed'[m] = q.file
          BY <3>3, <4>2, <5>2
        <5> QED BY <5>1, <5>2 DEF OwnSource
      <4> QED BY <3>5, <4>3 DEF Undisturbed, HoldingPhases
    <3> QED BY <3>4, <3>5 DEF Undisturbed
  <2> QED BY <2>2, <2>3, ProcKept
<1> QED BY <1>1, <1>2

\* A directory keeps a file of the nonce under each temporary name.
LEMMA NamedKept ==
  ASSUME NEW d, d \in Dirs, Named(d), \A f \in 1 .. Len(files) : files'[f].nonce = files[f].nonce
  PROVE  \A n \in Nonces : d[n] # 0 => files'[d[n]].nonce = n
<1> SUFFICES ASSUME NEW n \in Nonces, d[n] # 0 PROVE files'[d[n]].nonce = n
  OBVIOUS
<1>1. d[n] \in 0 .. Len(files)
  BY DEF Dirs, Names
<1>2. d[n] \in 1 .. Len(files)
  BY <1>1
<1> QED BY <1>2 DEF Named

\* The files writers have open are there.
LEMMA HeldFacts ==
  ASSUME SourceInv, NEW b \in Audits
  PROVE  Held(b) \subseteq 1 .. Len(files)
<1>1. CASE proc[b].phase \in HoldingPhases
  <2> PICK q : q = proc[b]
    OBVIOUS
  <2>1. WriterOK(q, NonceOf[b])
    BY <1>1, PhaseFacts DEF SourceInv, HoldingPhases, WriterPhases
  <2> QED BY <1>1, <2>1 DEF WriterOK, HasFile, Held
<1> QED BY <1>1 DEF Held

\* Larger bounds admit the directories there were.
LEMMA DirsGrow ==
  ASSUME DiskInv, Len(files') \in Nat, 1 .. Len(files) \subseteq 1 .. Len(files')
  PROVE  \A d \in Dirs : d \in [Names -> 0 .. Len(files')]
<1>1. Len(files) \in Nat
  BY DiskFacts
<1>2. 0 .. Len(files) \subseteq 0 .. Len(files')
  <2>1. CASE Len(files) = 0
    BY <2>1
  <2>2. CASE Len(files) # 0
    <3>1. Len(files) \in 1 .. Len(files)
      BY <1>1, <2>2
    <3>2. Len(files) <= Len(files')
      BY <3>1
    <3> QED BY <1>1, <3>2
  <2> QED BY <2>1, <2>2
<1> QED BY <1>2 DEF Dirs

\* A step of a writer that publishes nothing keeps the invariant if the writer is right after it.
LEMMA WriterStep ==
  ASSUME SourceInv, NEW a \in Audits, NEW r, proc' = [proc EXCEPT ![a] = r],
         authored' = authored, damaged' = damaged, renamed' = renamed, acked' = acked,
         robbed \subseteq robbed', orphans \subseteq orphans',
         files' \in Seq(FileSet), 1 .. Len(files) \subseteq 1 .. Len(files'), OwnFiles(a),
         dir' \in [Names -> 0 .. Len(files')], OwnName(a), dir'[Source] = dir[Source],
         images' \subseteq images \cup {dir'}, dir' \in images',
         synced \subseteq synced', synced' \subseteq 1 .. Len(files'),
         dir'[NonceOf[a]] # 0 => files'[dir'[NonceOf[a]]].nonce = NonceOf[a],
         dir'[NonceOf[a]] # 0 =>
           \/ dir'[NonceOf[a]] \in orphans'
           \/ r.phase \in HoldingPhases /\ r.file = dir'[NonceOf[a]]
           \/ dir'[NonceOf[a]] = dir[NonceOf[a]] /\ dir[NonceOf[a]] \notin Held(a),
         r.phase \in HoldingPhases => r.file \in Held(a) \/ r.file \notin 1 .. Len(files),
         ProcOK(a, r)'
  PROVE  SourceInv'
<1> USE DEF SourceInv
<1>0. Grows /\ OwnSource(a)
  BY DEF Grows, OwnSource
<1>1. DiskInv'
  <2>1. FileSet' = FileSet
    BY DEF FileSet, AllFrames, FramesOf
  <2> PICK S : S = FileSet
    OBVIOUS
  <2>2. files' \in Seq(S) /\ Len(files') \in Nat
    BY LenProperties
  <2>3. (files \in Seq(FileSet))'
    BY <2>1, <2>2
  <2>4. images' \subseteq [Names -> 0 .. Len(files')]
    BY <2>2, DirsGrow DEF DiskInv
  <2>5. renamed \in Seq(1 .. Len(files'))
    BY SeqMonotonic DEF DiskInv
  <2>6. proc' = [q \in Audits \cup Proofs |-> proc'[q]]
    BY DEF DiskInv
  <2> QED BY <2>3, <2>4, <2>5, <2>6 DEF DiskInv, Dirs
<1>2. \A f \in 1 .. Len(files) : files'[f].nonce = files[f].nonce
  BY DEF OwnFiles
<1>3. PublishedInv'
  <2> SUFFICES ASSUME NEW n \in 1 .. Len(renamed), files'[renamed[n]].nonce \notin robbed'
               PROVE  PublishedRight(renamed[n])'
    BY DEF PublishedInv
  <2> PICK f : f = renamed[n]
    OBVIOUS
  <2>1. f \in 1 .. Len(files) /\ files[f].nonce \notin robbed
    BY <1>2, DiskFacts
  <2>2. f \in synced /\ (f \notin damaged => Whole(f))
    BY <2>1 DEF PublishedInv, PublishedRight
  <2>3. files'[f] = files[f]
    BY <2>1 DEF OwnFiles
  <2>4. f \notin damaged => Whole(f)'
    BY <2>2, <2>3, WholeKept
  <2> QED BY <2>2, <2>4 DEF PublishedRight, Whole
<1>4. ImagesInv'
  <2>1. Lists(dir) /\ Named(dir)
    BY DEF ImagesInv, DiskInv
  <2>2. \A d \in images' : Lists(d)'
    BY <2>1 DEF ImagesInv, Lists
  <2>3. ASSUME NEW d \in images' PROVE Named(d)'
    <3>1. CASE d \in images
      <4>1. d \in Dirs /\ Named(d)
        BY <3>1 DEF ImagesInv, DiskInv
      <4> QED BY <1>2, <4>1, NamedKept DEF Named
    <3>2. CASE d = dir'
      <4> SUFFICES ASSUME NEW n \in Nonces, dir'[n] # 0 PROVE files'[dir'[n]].nonce = n
        BY <3>2 DEF Named
      <4>1. CASE n = NonceOf[a]
        BY <4>1
      <4>2. CASE n # NonceOf[a]
        <5>1. dir'[n] = dir[n] /\ dir \in Dirs
          BY <4>2, TemporaryAssumption DEF OwnName, Names, DiskInv
        <5> QED BY <1>2, <2>1, <5>1, NamedKept
      <4> QED BY <4>1, <4>2
    <3> QED BY <3>1, <3>2
  <2> QED BY <2>2, <2>3 DEF ImagesInv
<1>5. \A b \in Audits : proc'[b] = IF b = a THEN r ELSE proc[b]
  BY DEF DiskInv
<1>6. /\ \A b \in Audits \ {a} : Held(b)' = Held(b)
      /\ Held(a)' = IF r.phase \in HoldingPhases THEN {r.file} ELSE {}
  BY <1>5 DEF Held
<1>7. TemporariesOwned'
  <2> SUFFICES ASSUME NEW n \in Nonces, dir'[n] # 0
               PROVE  dir'[n] \in orphans' \/ \E b \in Audits : NonceOf[b] = n /\ dir'[n] \in Held(b)'
    BY DEF TemporariesOwned
  <2>1. CASE dir'[n] = dir[n] /\ (n = NonceOf[a] => dir[n] \notin Held(a))
    <3>1. dir[n] \in orphans \/ \E b \in Audits : NonceOf[b] = n /\ dir[n] \in Held(b)
      BY <2>1 DEF TemporariesOwned
    <3> QED BY <1>6, <2>1, <3>1
  <2>2. CASE n # NonceOf[a]
    <3>1. dir'[n] = dir[n]
      BY <2>2, TemporaryAssumption DEF OwnName, Names
    <3> QED BY <2>1, <2>2, <3>1
  <2>3. CASE n = NonceOf[a]
    BY <1>6, <2>1, <2>3
  <2> QED BY <2>2, <2>3
<1>8. ApartInv'
  <2>1. \A b \in Audits : Held(b) \subseteq 1 .. Len(files)
    BY HeldFacts
  <2> QED BY <1>6, <2>1 DEF ApartInv
<1>9. ProcsInv'
  BY <1>0, OthersKept
<1>10. AuthoredInv'
  BY DEF AuthoredInv
<1> QED BY <1>1, <1>3, <1>4, <1>7, <1>8, <1>9, <1>10

\* A writer that gives up takes its temporary name away, or fails to.
LEMMA AbandonStep ==
  ASSUME SourceInv, NEW a \in Audits, Abandon(a),
         UNCHANGED <<synced, authored, damaged, renamed, acked>>,
         files' \in Seq(FileSet), 1 .. Len(files) \subseteq 1 .. Len(files'), OwnFiles(a)
  PROVE  SourceInv'
<1> PICK r : r = Idle
  OBVIOUS
<1>0. DiskInv /\ ImagesInv
  BY DEF SourceInv
<1>1. proc' = [proc EXCEPT ![a] = r] /\ r.phase \notin HoldingPhases
  BY DEF Abandon, Idle, HoldingPhases
<1>2. dir \in Dirs /\ NonceOf[a] \in Nonces /\ NonceOf[a] \in Names /\ NonceOf[a] # Source
      /\ Source \in Names
  BY <1>0, DiskFacts
<1>3. Len(files') \in Nat
  BY LenProperties
<1>4. dir \in [Names -> 0 .. Len(files')] /\ 0 \in 0 .. Len(files')
  BY <1>0, <1>2, <1>3, DirsGrow
<1>5. synced \subseteq synced' /\ synced' \subseteq 1 .. Len(files')
  BY <1>0 DEF DiskInv
<1>6. ProcOK(a, r)'
  BY DEF ProcOK, Idle
<1>7. CASE /\ Rebind([dir EXCEPT ![NonceOf[a]] = 0])
           /\ robbed' = IF InUse(a) THEN robbed \cup {NonceOf[a]} ELSE robbed
           /\ UNCHANGED orphans
  <2>1. dir' = [dir EXCEPT ![NonceOf[a]] = 0] /\ images' = images \cup {dir'}
    BY <1>7 DEF Rebind
  <2>2. dir' \in [Names -> 0 .. Len(files')] /\ dir'[NonceOf[a]] = 0 /\ dir'[Source] = dir[Source]
    BY <1>2, <1>4, <2>1
  <2>3. OwnName(a)
    BY <1>2, <1>4, <1>7, <2>1 DEF OwnName
  <2>4. robbed \subseteq robbed' /\ orphans \subseteq orphans'
    BY <1>7
  <2> QED BY <1>1, <1>5, <1>6, <2>1, <2>2, <2>3, <2>4, WriterStep
<1>8. CASE orphans' = orphans \cup Held(a) /\ UNCHANGED <<dir, images, robbed>>
  <2>1. OwnName(a) /\ dir' = dir /\ dir' \in images' /\ images' \subseteq images \cup {dir'}
    BY <1>0, <1>8 DEF OwnName, DiskInv
  <2>2. Named(dir) /\ \A f \in 1 .. Len(files) : files'[f].nonce = files[f].nonce
    BY <1>0 DEF ImagesInv, DiskInv, OwnFiles
  <2>3. \A n \in Nonces : dir[n] # 0 => files'[dir[n]].nonce = n
    BY <1>2, <2>2, NamedKept
  <2>4. dir'[NonceOf[a]] # 0 => files'[dir'[NonceOf[a]]].nonce = NonceOf[a]
    BY <1>2, <2>1, <2>3
  <2>5. dir'[NonceOf[a]] \in orphans' \/ dir[NonceOf[a]] \notin Held(a)
    BY <1>8
  <2> QED BY <1>1, <1>4, <1>5, <1>6, <1>8, <2>1, <2>4, <2>5, WriterStep
<1> QED BY <1>7, <1>8 DEF Abandon

\* A name that is left alone has a file of its nonce.
LEMMA NameKept ==
  ASSUME DiskInv, ImagesInv, NEW a \in Audits, OwnFiles(a), dir' = dir
  PROVE  dir'[NonceOf[a]] # 0 => files'[dir'[NonceOf[a]]].nonce = NonceOf[a]
<1>1. Named(dir) /\ dir \in Dirs /\ \A f \in 1 .. Len(files) : files'[f].nonce = files[f].nonce
  BY DEF ImagesInv, DiskInv, OwnFiles
<1>2. \A n \in Nonces : dir[n] # 0 => files'[dir[n]].nonce = n
  BY <1>1, NamedKept
<1> QED BY <1>2 DEF Nonces

\* Files that are not written to are right as they are.
LEMMA FilesKept ==
  ASSUME DiskInv, NEW a, files' = files
  PROVE  /\ files' \in Seq(FileSet) /\ 1 .. Len(files) \subseteq 1 .. Len(files') /\ OwnFiles(a)
BY DEF DiskInv, OwnFiles

\* A file is created under a name that nobody uses.
LEMMA CreateInv ==
  ASSUME SourceInv, NEW a \in Audits, Create(a)
  PROVE  SourceInv'
<1>0. DiskInv /\ ProcsInv
  BY DEF SourceInv
<1>1. proc[a].phase = "create" /\ dir[NonceOf[a]] = 0
  BY DEF Create
<1> PICK q : q = proc[a]
  OBVIOUS
<1>2. WriterOK(q, NonceOf[a])
  BY <1>0, <1>1, PhaseFacts DEF WriterPhases
<1> PICK n, f, x : n = NonceOf[a] /\ f = Len(files) + 1 /\ x = [nonce |-> n, frames |-> <<>>]
  OBVIOUS
<1>3. /\ files' = Append(files, x) /\ dir' = [dir EXCEPT ![n] = f] /\ images' = images \cup {dir'}
      /\ synced' = synced /\ authored' = authored /\ damaged' = damaged /\ orphans' = orphans
      /\ robbed' = robbed /\ renamed' = renamed /\ acked' = acked
  BY DEF Create, Rebind, historyVars
<1>4. Len(files) \in Nat /\ dir \in Dirs /\ n \in Nonces /\ n \in Names /\ n # Source /\ Source \in Names
      /\ Len(renamed) \in Nat /\ \A m \in 1 .. Len(renamed) : renamed[m] \in 1 .. Len(files)
  BY <1>0, DiskFacts
<1>5. x \in FileSet
  BY <1>4, EmptySeq DEF FileSet
<1>6. /\ files' \in Seq(FileSet) /\ Len(files') = f /\ files'[f] = x
      /\ \A g \in 1 .. Len(files) : files'[g] = files[g]
  <2> PICK S : S = FileSet
    OBVIOUS
  <2>1. files \in Seq(S) /\ x \in S
    BY <1>0, <1>5 DEF DiskInv
  <2> QED BY <1>3, <2>1, AppendProperties
<1>7. 1 .. Len(files) \subseteq 1 .. Len(files') /\ f \in 1 .. Len(files') /\ f \notin 1 .. Len(files)
      /\ Len(files') \in Nat
  BY <1>4, <1>6
<1>8. OwnFiles(a) /\ OwnName(a)
  <2>1. \A b \in Audits : 0 \notin Held(b)
    BY HeldFacts
  <2>2. OwnFiles(a)
    BY <1>6 DEF OwnFiles
  <2> QED BY <1>1, <1>3, <1>4, <2>1, <2>2 DEF OwnName, InUse, Dirs
<1>9. dir \in [Names -> 0 .. Len(files')]
  BY <1>0, <1>4, <1>7, DirsGrow
<1>10. dir' \in [Names -> 0 .. Len(files')] /\ dir'[n] = f /\ dir'[Source] = dir[Source]
  BY <1>3, <1>4, <1>7, <1>9
<1> PICK r : r = [q EXCEPT !.phase = "write", !.file = f]
  OBVIOUS
<1>11. /\ r = [phase |-> r.phase, workload |-> r.workload, header |-> r.header,
               records |-> r.records, file |-> r.file]
       /\ r.phase = "write" /\ r.workload = q.workload /\ r.header = q.header
       /\ r.records = q.records /\ r.file = f
  BY <1>2 DEF WriterOK
<1>12. proc' = [proc EXCEPT ![a] = r]
  BY <1>0 DEF Create, DiskInv
<1>13. WriterOK(r, n)'
  <2>1. HasFile(r, n)'
    BY <1>3, <1>4, <1>6, <1>7, <1>10, <1>11 DEF HasFile
  <2>2. Begins(files[r.file].frames, Frames(r.header, r.records, n))'
    <3>1. files'[r.file].frames = <<>> /\ Len(<<>>) = 0
      BY <1>6, <1>11, EmptySeq
    <3>2. Len(Frames(q.header, RecordsOf(q.header), n)) = q.header.count + 1 /\ q.header.count \in Nat
      BY <1>2, FramesFacts, AuthoredFacts DEF WriterOK, SourceInv
    <3>3. Frames(r.header, r.records, n) = Frames(q.header, RecordsOf(q.header), n)
      BY <1>2, <1>11 DEF WriterOK
    <3>4. Begins(files'[r.file].frames, Frames(r.header, r.records, n))
      BY <3>1, <3>2, <3>3 DEF Begins
    <3> QED BY <3>4
  <2> QED BY <1>2, <1>3, <1>11, <2>1, <2>2 DEF WriterOK, WriterPhases
<1>14. ProcOK(a, r)'
  BY <1>13 DEF ProcOK
<1>15. synced' \subseteq 1 .. Len(files')
  BY <1>0, <1>3, <1>7 DEF DiskInv
<1>16. r.phase \in HoldingPhases /\ r.file = dir'[n] /\ r.file \notin 1 .. Len(files)
  BY <1>7, <1>10, <1>11 DEF HoldingPhases
<1>17. files'[dir'[n]].nonce = n
  BY <1>6, <1>10
<1> QED BY <1>3, <1>6, <1>7, <1>8, <1>10, <1>12, <1>14, <1>15, <1>16, <1>17, WriterStep

\* A name that is there, or an error, ends the write.
LEMMA CreateFailsInv ==
  ASSUME SourceInv, NEW a \in Audits, CreateFails(a)
  PROVE  SourceInv'
<1>1. Abandon(a) /\ UNCHANGED <<synced, authored, damaged, renamed, acked>> /\ files' = files
  BY DEF CreateFails
<1>2. DiskInv
  BY DEF SourceInv
<1> QED BY <1>1, <1>2, FilesKept, AbandonStep

\* With its next element a part of a sequence is a longer part, or all of it.
LEMMA BeginsGrows ==
  ASSUME NEW S, NEW s \in Seq(S), NEW all \in Seq(S), Begins(s, all)
  PROVE  /\ all[Len(s) + 1] \in S
         /\ Append(s, all[Len(s) + 1]) \in Seq(S)
         /\ IF Len(s) + 1 = Len(all) THEN Append(s, all[Len(s) + 1]) = all
            ELSE Begins(Append(s, all[Len(s) + 1]), all)
<1> PICK i, x, t : i = Len(s) /\ x = all[i + 1] /\ t = Append(s, x)
  OBVIOUS
<1>1. i \in Nat /\ Len(all) \in Nat
  BY LenProperties
<1>2. i < Len(all) /\ \A k \in 1 .. i : s[k] = all[k]
  BY DEF Begins
<1>3. i + 1 \in 1 .. Len(all)
  BY <1>1, <1>2
<1>4. x \in S
  BY <1>3, ElementOfSeq
<1>5. t \in Seq(S) /\ Len(t) = i + 1 /\ t[i + 1] = x /\ \A k \in 1 .. i : t[k] = s[k]
  BY <1>4, AppendProperties
<1>6. ASSUME NEW k \in 1 .. Len(t) PROVE t[k] = all[k]
  <2>1. k \in 1 .. i \/ k = i + 1
    BY <1>1, <1>5
  <2> QED BY <1>2, <1>5, <2>1
<1>7. CASE i + 1 = Len(all)
  <2>1. t = all
    BY <1>5, <1>6, <1>7, SeqEqual
  <2> QED BY <1>4, <1>5, <1>7, <2>1
<1>8. CASE i + 1 # Len(all)
  <2>1. Len(t) < Len(all)
    BY <1>1, <1>2, <1>5, <1>8
  <2>2. Begins(t, all)
    BY <1>6, <2>1 DEF Begins
  <2> QED BY <1>4, <1>5, <1>8, <2>2
<1> QED BY <1>7, <1>8

\* A file of given parts.
LEMMA FileOfParts ==
  ASSUME NEW n, NEW s, NEW z \in [nonce : {n}, frames : {s}]
  PROVE  z = [nonce |-> n, frames |-> s]
OBVIOUS

\* A file with other frames.
LEMMA FramesReplaced ==
  ASSUME NEW N, NEW F, NEW z \in [nonce : N, frames : F], NEW G, NEW t \in G
  PROVE  [z EXCEPT !.frames = t] \in [nonce : {z.nonce}, frames : G]
<1> PICK M : M = {z.nonce}
  OBVIOUS
<1>1. z \in [nonce : M, frames : F]
  OBVIOUS
<1>2. [z EXCEPT !.frames = t] \in [nonce : M, frames : G]
  BY <1>1
<1> QED BY <1>2

\* An element of a sequence.
LEMMA ElementIn ==
  ASSUME NEW S, NEW s \in Seq(S), NEW k \in 1 .. Len(s)
  PROVE  s[k] \in S
OBVIOUS

\* A file a frame is appended to keeps its nonce, and the other files stay.
LEMMA FileGrows ==
  ASSUME DiskInv, NEW f \in 1 .. Len(files), NEW x \in AllFrames,
         files' = [files EXCEPT ![f].frames = Append(@, x)]
  PROVE  /\ files' \in Seq(FileSet) /\ Len(files') = Len(files)
         /\ files'[f] = [nonce |-> files[f].nonce, frames |-> Append(files[f].frames, x)]
         /\ \A g \in 1 .. Len(files) : g # f => files'[g] = files[g]
<1> PICK z : z = files[f]
  OBVIOUS
<1> PICK S : S = AllFrames
  OBVIOUS
<1>1. files \in Seq(FileSet)
  BY DEF DiskInv
<1>2. z \in [nonce : Nonces, frames : Seq(S)]
  <2>1. z \in FileSet
    BY <1>1, ElementIn
  <2> QED BY <2>1 DEF FileSet
<1> PICK t : t = Append(z.frames, x)
  OBVIOUS
<1>3. t \in Seq(S)
  BY <1>2, AppendProperties
<1> PICK r : r = [z EXCEPT !.frames = t]
  OBVIOUS
<1>4. r \in [nonce : {z.nonce}, frames : {t}]
  <2> PICK T : T = {t}
    OBVIOUS
  <2>1. [z EXCEPT !.frames = t] \in [nonce : {z.nonce}, frames : T]
    BY <1>2, FramesReplaced
  <2> QED BY <2>1
<1>5. r = [nonce |-> z.nonce, frames |-> t]
  BY <1>4, FileOfParts
<1>6. files' = [files EXCEPT ![f] = [z EXCEPT !.frames = Append(z.frames, x)]]
  BY Zenon
<1>7. files' = [files EXCEPT ![f] = r]
  BY Zenon, <1>6
<1>8. r \in FileSet
  <2>1. r \in [nonce : Nonces, frames : Seq(S)]
    BY <1>2, <1>3, <1>4
  <2> QED BY <2>1 DEF FileSet
<1>9. /\ files' \in Seq(FileSet) /\ Len(files') = Len(files)
      /\ \A g \in 1 .. Len(files) : files'[g] = IF g = f THEN r ELSE files[g]
  BY <1>1, <1>7, <1>8, ExceptSeq
<1> QED BY <1>5, <1>9

\* The next frame is written, or a part of it and the write ends.
LEMMA WriteFrameInv ==
  ASSUME SourceInv, NEW a \in Audits, WriteFrame(a)
  PROVE  SourceInv'
<1>0. DiskInv /\ ProcsInv /\ AuthoredInv /\ ImagesInv
  BY DEF SourceInv
<1>1. proc[a].phase = "write"
  BY DEF WriteFrame
<1> PICK q, m : q = proc[a] /\ m = NonceOf[a]
  OBVIOUS
<1>2. WriterOK(q, m)
  BY <1>0, <1>1, PhaseFacts DEF WriterPhases
<1>3. HasFile(q, m) /\ Begins(files[q.file].frames, Frames(q.header, q.records, m))
      /\ q.header \in authored /\ q.records = RecordsOf(q.header) /\ q.phase = "write"
  BY <1>1, <1>2 DEF WriterOK, HoldingPhases
<1> PICK f, all, s : f = q.file /\ all = Frames(q.header, q.records, m) /\ s = files[q.file].frames
  OBVIOUS
<1>4. /\ f \in 1 .. Len(files) /\ files[f].nonce = m /\ Held(a) = {f}
      /\ m \notin robbed => dir[m] = f /\ \A k \in 1 .. Len(renamed) : renamed[k] # f
  BY <1>1, <1>3 DEF HasFile, Held, HoldingPhases
<1>5. /\ s \in Seq(AllFrames) /\ Len(s) \in Nat /\ files[f] = [nonce |-> m, frames |-> s]
  BY <1>0, <1>4, FileFrames
<1>6. m \in Nonces /\ dir \in Dirs /\ m \in Names /\ Source \in Names /\ m # Source
  BY <1>0, DiskFacts
<1>7. /\ all \in Seq(AllFrames) /\ Len(all) = q.header.count + 1 /\ q.header.count \in Nat
      /\ \A k \in 1 .. q.header.count + 1 : all[k] \in AllFrames
  BY <1>0, <1>3, <1>6, FramesFacts, FramesKnown, AuthoredFacts
<1>8. Begins(s, all)
  BY <1>3
<1>9. ASSUME NEW x \in AllFrames, files' = [files EXCEPT ![f].frames = Append(@, x)]
      PROVE  /\ files' \in Seq(FileSet) /\ Len(files') = Len(files) /\ OwnFiles(a)
             /\ files'[f] = [nonce |-> m, frames |-> Append(s, x)]
  <2>1. /\ files' \in Seq(FileSet) /\ Len(files') = Len(files)
        /\ files'[f] = [nonce |-> files[f].nonce, frames |-> Append(files[f].frames, x)]
        /\ \A g \in 1 .. Len(files) : g # f => files'[g] = files[g]
    BY <1>0, <1>4, <1>9, FileGrows
  <2>2. files'[f].nonce = m
    BY <1>4, <2>1
  <2>3. OwnFiles(a)
    BY <1>4, <2>1, <2>2 DEF OwnFiles
  <2> QED BY <1>4, <2>1, <2>3
<1>10. CASE /\ files' = [files EXCEPT ![f].frames = Append(@, Torn)]
            /\ Abandon(a)
  <2>1. Torn \in AllFrames
    BY DEF AllFrames
  <2>2. files' \in Seq(FileSet) /\ 1 .. Len(files) \subseteq 1 .. Len(files') /\ OwnFiles(a)
    BY <1>9, <1>10, <2>1
  <2>3. UNCHANGED <<synced, authored, damaged, renamed, acked>>
    BY DEF WriteFrame
  <2> QED BY <1>10, <2>2, <2>3, AbandonStep
<1>11. CASE /\ files' = [files EXCEPT ![f].frames = Append(@, all[Len(s) + 1])]
            /\ IF Len(s) + 1 = Len(all) THEN Goto(a, "sync") ELSE UNCHANGED proc
            /\ UNCHANGED <<dir, images, orphans, robbed, faults>>
  <2> PICK x, t : x = all[Len(s) + 1] /\ t = Append(s, x)
    OBVIOUS
  <2>1. /\ x \in AllFrames
        /\ IF Len(s) + 1 = Len(all) THEN t = all ELSE Begins(t, all)
    <3> PICK S : S = AllFrames
      OBVIOUS
    <3>1. s \in Seq(S) /\ all \in Seq(S)
      BY <1>5, <1>7
    <3> QED BY <1>8, <3>1, BeginsGrows
  <2>2. /\ files' \in Seq(FileSet) /\ Len(files') = Len(files) /\ OwnFiles(a)
        /\ files'[f] = [nonce |-> m, frames |-> t]
    BY <1>9, <1>11, <2>1
  <2> PICK r : r = IF Len(s) + 1 = Len(all) THEN [q EXCEPT !.phase = "sync"] ELSE q
    OBVIOUS
  <2>4. /\ r = [phase |-> r.phase, workload |-> r.workload, header |-> r.header,
                records |-> r.records, file |-> r.file]
        /\ r.workload = q.workload /\ r.header = q.header /\ r.records = q.records /\ r.file = f
        /\ r.phase = IF Len(s) + 1 = Len(all) THEN "sync" ELSE "write"
    BY <1>2, <1>3 DEF WriterOK
  <2>5. proc' = [proc EXCEPT ![a] = r]
    <3>1. CASE Len(s) + 1 = Len(all)
      BY <1>0, <1>11, <3>1 DEF Goto, DiskInv
    <3>2. CASE Len(s) + 1 # Len(all)
      BY <1>0, <1>11, <3>2 DEF DiskInv
    <3> QED BY <3>1, <3>2
  <2>6. synced' = synced /\ authored' = authored /\ damaged' = damaged /\ renamed' = renamed
        /\ acked' = acked /\ dir' = dir /\ images' = images /\ orphans' = orphans
        /\ robbed' = robbed
    <3>1. UNCHANGED <<synced, authored, damaged, renamed, acked>>
      BY DEF WriteFrame
    <3>2. UNCHANGED <<dir, images, orphans, robbed, faults>>
      BY <1>11
    <3> QED BY <3>1, <3>2
  <2>7. HasFile(r, m)'
    <3>1. r.file = f
      BY <2>4
    <3>2. [nonce |-> m, frames |-> t].nonce = m
      OBVIOUS
    <3>3. files'[f].nonce = m /\ Len(files') = Len(files)
      BY <2>2, <3>2
    <3>4. dir' = dir /\ renamed' = renamed /\ robbed' = robbed
      BY <2>6
    <3> QED BY <1>4, <3>1, <3>3, <3>4 DEF HasFile
  <2>8. Frames(r.header, r.records, m) = all /\ files'[r.file].frames = t
    <3>1. r.header = q.header /\ r.records = q.records /\ r.file = f
      BY <2>4
    <3>2. [nonce |-> m, frames |-> t].frames = t
      OBVIOUS
    <3>3. files'[f].frames = t
      BY <2>2, <3>2
    <3> QED BY <3>1, <3>3
  <2>9. WriterOK(r, m)'
    <3>1. CASE Len(s) + 1 = Len(all)
      <4>1. t = all
        BY <2>1, <3>1
      <4>2. r.phase = "sync"
        BY <2>4, <3>1
      <4> QED BY <1>2, <2>4, <2>6, <2>7, <2>8, <4>1, <4>2 DEF WriterOK, WriterPhases
    <3>2. CASE Len(s) + 1 # Len(all)
      <4>1. Begins(files'[r.file].frames, Frames(r.header, r.records, m))
        BY <2>1, <2>8, <3>2
      <4>2. r.phase = "write" /\ Begins(files[r.file].frames, Frames(r.header, r.records, m))'
        BY <2>4, <3>2, <4>1
      <4> QED BY <1>2, <2>4, <2>6, <2>7, <4>2 DEF WriterOK, WriterPhases
    <3> QED BY <3>1, <3>2
  <2>10. ProcOK(a, r)' /\ r.phase \in HoldingPhases /\ r.file \in Held(a)
    BY <1>4, <2>4, <2>9 DEF ProcOK, HoldingPhases
  <2>11. OwnName(a) /\ dir' \in [Names -> 0 .. Len(files')] /\ synced' \subseteq 1 .. Len(files')
         /\ dir' \in images' /\ images' \subseteq images \cup {dir'}
    BY <1>0, <1>6, <2>2, <2>6 DEF OwnName, Dirs, DiskInv
  <2>12. dir'[m] # 0 => files'[dir'[m]].nonce = m
    BY <1>0, <1>6, <2>2, <2>6, NameKept
  <2>13. dir'[m] = dir[m] /\ (dir[m] \in Held(a) => r.file = dir'[m])
    BY <1>4, <2>4, <2>6
  <2> QED BY <2>2, <2>5, <2>6, <2>10, <2>11, <2>12, <2>13, WriterStep
<1> QED BY <1>10, <1>11 DEF WriteFrame

\* The file is synced whole, or the write ends.
LEMMA SyncFileInv ==
  ASSUME SourceInv, NEW a \in Audits, SyncFile(a)
  PROVE  SourceInv'
<1>0. DiskInv /\ ProcsInv /\ ImagesInv
  BY DEF SourceInv
<1>1. proc[a].phase = "sync" /\ files' = files /\ UNCHANGED <<authored, damaged, renamed, acked>>
  BY DEF SyncFile
<1> PICK q, m : q = proc[a] /\ m = NonceOf[a]
  OBVIOUS
<1>2. WriterOK(q, m)
  BY <1>0, <1>1, PhaseFacts DEF WriterPhases
<1>3. CASE Abandon(a) /\ UNCHANGED synced
  BY <1>0, <1>1, <1>3, FilesKept, AbandonStep
<1>4. CASE /\ synced' = synced \cup {proc[a].file} /\ Goto(a, "rename")
           /\ UNCHANGED <<dir, images, orphans, robbed, faults>>
  <2>1. HasFile(q, m) /\ q.file \in 1 .. Len(files) /\ Held(a) = {q.file}
    BY <1>1, <1>2 DEF WriterOK, HasFile, HoldingPhases, Held
  <2> PICK r : r = [q EXCEPT !.phase = "rename"]
    OBVIOUS
  <2>2. /\ r = [phase |-> r.phase, workload |-> r.workload, header |-> r.header,
                records |-> r.records, file |-> r.file]
        /\ r.phase = "rename" /\ r.workload = q.workload /\ r.header = q.header
        /\ r.records = q.records /\ r.file = q.file
    BY <1>2 DEF WriterOK
  <2>3. proc' = [proc EXCEPT ![a] = r]
    BY <1>0, <1>4 DEF Goto, DiskInv
  <2>4. HasFile(r, m)'
    BY <1>1, <1>4, <2>1, <2>2 DEF HasFile
  <2>5. WriterOK(r, m)'
    BY <1>1, <1>2, <1>4, <2>2, <2>4 DEF WriterOK, WriterPhases
  <2>6. ProcOK(a, r)' /\ r.phase \in HoldingPhases /\ r.file \in Held(a)
    BY <2>1, <2>2, <2>5 DEF ProcOK, HoldingPhases
  <2>7. OwnName(a) /\ dir' \in [Names -> 0 .. Len(files')] /\ synced' \subseteq 1 .. Len(files')
        /\ dir' \in images' /\ images' \subseteq images \cup {dir'} /\ synced \subseteq synced'
    BY <1>0, <1>1, <1>4, <2>1, DiskFacts DEF OwnName, Dirs, DiskInv
  <2>8. files' \in Seq(FileSet) /\ 1 .. Len(files) \subseteq 1 .. Len(files') /\ OwnFiles(a)
    BY <1>0, <1>1, FilesKept
  <2>9. dir'[m] # 0 => files'[dir'[m]].nonce = m
    BY <1>0, <1>4, <2>8, NameKept
  <2>10. dir'[m] = dir[m] /\ (dir[m] \in Held(a) => r.file = dir'[m])
    BY <1>4, <2>1, <2>2
  <2> QED BY <1>1, <1>4, <2>3, <2>6, <2>7, <2>8, <2>9, <2>10, WriterStep
<1> QED BY <1>3, <1>4 DEF SyncFile

\* What is renamed to the destination is a whole file, and synced, as long as the
\* name was not taken.
LEMMA RenameInv ==
  ASSUME SourceInv, NEW a \in Audits, Rename(a)
  PROVE  SourceInv'
<1>0. DiskInv /\ ProcsInv /\ AuthoredInv /\ PublishedInv /\ ImagesInv /\ TemporariesOwned /\ ApartInv
  BY DEF SourceInv
<1>1. proc[a].phase = "rename" /\ files' = files /\ UNCHANGED <<synced, authored, damaged, acked>>
  BY DEF Rename
<1>2. CASE Abandon(a) /\ UNCHANGED renamed
  BY <1>0, <1>1, <1>2, FilesKept, AbandonStep
<1>3. CASE /\ dir[NonceOf[a]] # 0
           /\ Rebind([dir EXCEPT ![Source] = dir[NonceOf[a]], ![NonceOf[a]] = 0])
           /\ renamed' = Append(renamed, dir[NonceOf[a]])
           /\ proc' = [proc EXCEPT ![a].phase = "syncParent", ![a].file = dir[NonceOf[a]]]
           /\ UNCHANGED <<orphans, robbed, faults>>
  <2> PICK q, m : q = proc[a] /\ m = NonceOf[a]
    OBVIOUS
  <2>1. WriterOK(q, m)
    BY <1>0, <1>1, PhaseFacts DEF WriterPhases
  <2> PICK f : f = dir[m]
    OBVIOUS
  <2>2. m \in Nonces /\ dir \in Dirs /\ m \in Names /\ Source \in Names /\ m # Source
        /\ Len(files) \in Nat /\ Len(renamed) \in Nat
    BY <1>0, DiskFacts
  <2>3. f \in 1 .. Len(files) /\ files[f].nonce = m
    <3>1. f \in 0 .. Len(files) /\ f # 0
      BY <1>3, <2>2 DEF Dirs
    <3>2. files[f].nonce = m
      BY <1>0, <2>2, <3>1 DEF ImagesInv, DiskInv, Named
    <3> QED BY <3>1, <3>2
  <2>4. m \notin robbed => /\ f \in synced /\ f \in Held(a)
                          /\ files[f].frames = Frames(q.header, RecordsOf(q.header), m)
                          /\ q.header \in authored
    BY <1>1, <2>1 DEF WriterOK, HasFile, HoldingPhases, Held
  <2>5. renamed' = Append(renamed, f) /\ dir' = [dir EXCEPT ![Source] = f, ![m] = 0]
        /\ images' = images \cup {dir'} /\ orphans' = orphans /\ robbed' = robbed
    BY <1>3 DEF Rebind
  <2>6. /\ dir' \in Dirs /\ dir'[Source] = f /\ dir'[m] = 0
        /\ \A n \in Names : n \notin {m, Source} => dir'[n] = dir[n]
    BY <2>2, <2>3, <2>5 DEF Dirs
  <2>7. /\ renamed' \in Seq(1 .. Len(files)) /\ Len(renamed') = Len(renamed) + 1
        /\ renamed'[Len(renamed) + 1] = f
        /\ \A n \in 1 .. Len(renamed) : renamed'[n] = renamed[n] /\ n \in 1 .. Len(renamed')
        /\ Len(renamed) + 1 \in 1 .. Len(renamed')
        /\ \A n \in 1 .. Len(renamed') : n \in 1 .. Len(renamed) \/ n = Len(renamed) + 1
    <3> PICK S : S = 1 .. Len(files)
      OBVIOUS
    <3>1. renamed \in Seq(S) /\ f \in S
      BY <1>0, <2>3 DEF DiskInv
    <3>2. /\ Append(renamed, f) \in Seq(S) /\ Len(Append(renamed, f)) = Len(renamed) + 1
          /\ Append(renamed, f)[Len(renamed) + 1] = f
          /\ \A n \in 1 .. Len(renamed) : Append(renamed, f)[n] = renamed[n]
                                          /\ n \in 1 .. Len(Append(renamed, f))
          /\ Len(renamed) + 1 \in 1 .. Len(Append(renamed, f))
          /\ \A n \in 1 .. Len(Append(renamed, f)) : n \in 1 .. Len(renamed) \/ n = Len(renamed) + 1
      BY <3>1, AppendOne
    <3> QED BY <2>5, <3>2
  <2> PICK r : r = [q EXCEPT !.phase = "syncParent", !.file = f]
    OBVIOUS
  <2>8. /\ r = [phase |-> r.phase, workload |-> r.workload, header |-> r.header,
                records |-> r.records, file |-> r.file]
        /\ r.phase = "syncParent" /\ r.workload = q.workload /\ r.header = q.header
        /\ r.records = q.records /\ r.file = f
    BY <2>1 DEF WriterOK
  <2>9. proc' = [proc EXCEPT ![a] = r]
    BY <1>0, <1>3 DEF DiskInv
  <2>10. WriterOK(r, m)'
    <3>1. PublishedLast(r.file)'
      BY <2>6, <2>7, <2>8 DEF PublishedLast
    <3> QED BY <1>1, <2>1, <2>8, <3>1 DEF WriterOK, WriterPhases, HoldingPhases
  <2>11. ProcOK(a, r)'
    BY <2>10 DEF ProcOK
  <2>12. ProcsInv'
    <3>1. Grows /\ OwnFiles(a)
      BY <1>1, <2>5 DEF Grows, OwnFiles
    <3>2. m \in robbed \/ ~InUse(a)
      BY <1>0, <2>4 DEF InUse, ApartInv
    <3>3. OwnName(a) /\ OwnSource(a)
      BY <2>3, <2>4, <2>5, <2>6, <3>2 DEF OwnName, OwnSource
    <3> QED BY <2>9, <2>11, <3>1, <3>3, OthersKept
  <2>13. DiskInv'
    <3>1. (files \in Seq(FileSet))'
      BY <1>0, <1>1 DEF DiskInv, FileSet, AllFrames, FramesOf
    <3>2. acked \in 0 .. Len(renamed')
      BY <1>0, <2>2, <2>7 DEF DiskInv
    <3>3. proc' = [p \in Audits \cup Proofs |-> proc'[p]]
      BY <1>0, <2>9 DEF DiskInv
    <3>4. Dirs' = Dirs
      BY <1>1 DEF Dirs
    <3>5. images' \subseteq Dirs /\ dir' \in images'
      BY <1>0, <2>5, <2>6 DEF DiskInv
    <3> QED BY <1>0, <1>1, <2>7, <3>1, <3>2, <3>3, <3>4, <3>5 DEF DiskInv
  <2>14. PublishedInv'
    <3> SUFFICES ASSUME NEW n \in 1 .. Len(renamed'), files[renamed'[n]].nonce \notin robbed
                 PROVE  PublishedRight(renamed'[n])
      BY <1>1, <2>5 DEF PublishedInv, PublishedRight, Whole
    <3>1. CASE n \in 1 .. Len(renamed)
      BY <1>0, <2>7, <3>1 DEF PublishedInv
    <3>2. CASE n = Len(renamed) + 1
      BY <2>3, <2>4, <2>7, <3>2 DEF PublishedRight, Whole, RecordsOf
    <3> QED BY <2>7, <3>1, <3>2
  <2>15. ImagesInv'
    <3> SUFFICES ASSUME NEW d \in images' PROVE Lists(d)' /\ Named(d)
      BY <1>1 DEF ImagesInv, Named
    <3>1. CASE d = dir'
      <4>1. acked <= Len(renamed) + 1 /\ acked \in Nat
        BY <1>0, <2>2 DEF DiskInv
      <4>2. Len(renamed) + 1 \in acked .. Len(renamed')
        BY <2>2, <2>7, <4>1
      <4>3. Lists(d)'
        BY <1>1, <2>6, <2>7, <3>1, <4>2 DEF Lists
      <4>4. Named(dir)
        BY <1>0 DEF ImagesInv, DiskInv
      <4>5. Named(d)
        BY <2>6, <3>1, <4>4, TemporaryAssumption DEF Named, Names
      <4> QED BY <4>3, <4>5
    <3>2. CASE d \in images
      <4>1. Lists(d) /\ Named(d)
        BY <1>0, <3>2 DEF ImagesInv
      <4>2. d[Source] # 0 => \E n \in 1 .. Len(renamed') : d[Source] = renamed'[n]
        BY <2>7, <4>1 DEF Lists
      <4>3. ASSUME acked # 0 PROVE \E n \in acked .. Len(renamed') : d[Source] = renamed'[n]
        <5>1. PICK n \in acked .. Len(renamed) : d[Source] = renamed[n]
          BY <4>1, <4>3 DEF Lists
        <5>2. n \in 1 .. Len(renamed) /\ n \in acked .. Len(renamed')
          BY <1>0, <2>2, <2>7, <4>3, <5>1 DEF DiskInv
        <5> QED BY <2>7, <5>1, <5>2
      <4> QED BY <1>1, <4>1, <4>2, <4>3 DEF Lists
    <3> QED BY <2>5, <3>1, <3>2
  <2>16. /\ \A b \in Audits \ {a} : Held(b)' = Held(b)
         /\ Held(a)' = {}
    BY <1>0, <2>8, <2>9 DEF Held, DiskInv, HoldingPhases
  <2>17. TemporariesOwned'
    <3> SUFFICES ASSUME NEW n \in Nonces, dir'[n] # 0
                 PROVE  dir'[n] \in orphans \/ \E b \in Audits : NonceOf[b] = n /\ dir'[n] \in Held(b)'
      BY <2>5 DEF TemporariesOwned
    <3>1. n # m /\ dir'[n] = dir[n]
      BY <2>6, TemporaryAssumption DEF Names
    <3>2. dir[n] \in orphans \/ \E b \in Audits : NonceOf[b] = n /\ dir[n] \in Held(b)
      BY <1>0, <3>1 DEF TemporariesOwned
    <3> QED BY <2>16, <3>1, <3>2
  <2>18. ApartInv' /\ AuthoredInv'
    BY <1>0, <1>1, <2>16 DEF ApartInv, AuthoredInv
  <2> QED BY <2>12, <2>13, <2>14, <2>15, <2>17, <2>18 DEF SourceInv
<1> QED BY <1>2, <1>3 DEF Rename

\* What is reported as written is under its name for good.
LEMMA SyncParentInv ==
  ASSUME SourceInv, NEW a \in Audits, SyncParent(a)
  PROVE  SourceInv'
<1>0. DiskInv /\ ProcsInv /\ AuthoredInv /\ PublishedInv /\ ImagesInv /\ TemporariesOwned /\ ApartInv
  BY DEF SourceInv
<1>1. proc[a].phase = "syncParent" /\ UNCHANGED <<files, synced, authored, damaged, renamed>>
  BY DEF SyncParent
<1>2. CASE Abandon(a) /\ Fault /\ UNCHANGED acked
  BY <1>0, <1>1, <1>2, FilesKept, AbandonStep
<1>3. CASE images' = {dir} /\ acked' = Acknowledged(a) /\ Written(a)
           /\ UNCHANGED <<dir, orphans, robbed, faults>>
  <2> PICK q, m : q = proc[a] /\ m = NonceOf[a]
    OBVIOUS
  <2>1. PublishedLast(q.file)
    BY <1>0, <1>1, PhaseFacts DEF WriterPhases, WriterOK
  <2>2. Len(renamed) \in Nat
    BY <1>0, DiskFacts
  <2>3. acked' \in 1 .. Len(renamed)
    <3> DEFINE n == CHOOSE n \in 1 .. Len(renamed) : renamed[n] = q.file
    <3>1. n \in 1 .. Len(renamed)
      BY <2>1 DEF PublishedLast
    <3>2. acked' = IF n > acked THEN n ELSE acked
      BY <1>3 DEF Acknowledged
    <3> HIDE DEF n
    <3> QED BY <1>0, <2>2, <3>1, <3>2 DEF DiskInv
  <2>4. PICK r : proc' = [proc EXCEPT ![a] = r] /\ ProcOK(a, r)' /\ r.phase \notin HoldingPhases
    <3>1. CASE a \in Measurements
      <4> PICK r : r = Idle
        OBVIOUS
      <4>1. ProcOK(a, r)' /\ r.phase \notin HoldingPhases
        BY DEF ProcOK, Idle, HoldingPhases
      <4>2. proc' = [proc EXCEPT ![a] = r]
        BY <1>3, <3>1 DEF Written
      <4> QED BY <4>1, <4>2
    <3>2. CASE a \notin Measurements
      <4> PICK r : r = [phase |-> "open", workload |-> q.workload, want |-> q.header]
        OBVIOUS
      <4>1. ProcOK(a, r)' /\ r.phase \notin HoldingPhases
        BY DEF ProcOK, OpenOK, WantOK, HoldingPhases
      <4>2. proc' = [proc EXCEPT ![a] = r]
        BY <1>0, <1>3, <3>2 DEF Written, DiskInv
      <4> QED BY <4>1, <4>2
    <3> QED BY <3>1, <3>2
  <2>5. ProcsInv'
    <3>1. Grows /\ OwnFiles(a) /\ OwnName(a) /\ OwnSource(a)
      BY <1>1, <1>3 DEF Grows, OwnFiles, OwnName, OwnSource
    <3> QED BY <2>4, <3>1, OthersKept
  <2>6. DiskInv'
    <3>1. (files \in Seq(FileSet))'
      BY <1>0, <1>1 DEF DiskInv, FileSet, AllFrames, FramesOf
    <3>2. proc' = [p \in Audits \cup Proofs |-> proc'[p]]
      BY <1>0, <2>4 DEF DiskInv
    <3>3. Dirs' = Dirs
      BY <1>1 DEF Dirs
    <3>4. acked' \in 0 .. Len(renamed')
      BY <1>1, <2>2, <2>3
    <3>5. images' \subseteq Dirs /\ dir' \in images'
      BY <1>0, <1>3 DEF DiskInv
    <3> QED BY <1>0, <1>1, <3>1, <3>2, <3>3, <3>4, <3>5 DEF DiskInv
  <2>7. PublishedInv'
    BY <1>0, <1>1, <1>3 DEF PublishedInv, PublishedRight, Whole
  <2>8. ImagesInv'
    <3>1. dir \in images
      BY <1>0 DEF DiskInv
    <3>2. dir[Source] # 0 => \E n \in 1 .. Len(renamed) : dir[Source] = renamed[n]
      BY <1>0, <3>1 DEF ImagesInv, Lists
    <3>3. Len(renamed) \in acked' .. Len(renamed) /\ dir[Source] = renamed[Len(renamed)]
      BY <2>1, <2>2, <2>3 DEF PublishedLast
    <3> PICK d : d = dir
      OBVIOUS
    <3>4. Lists(d)'
      BY <1>1, <3>2, <3>3 DEF Lists
    <3>5. Named(d)'
      BY <1>0, <1>1, <3>1 DEF ImagesInv, Named
    <3> QED BY <1>3, <3>4, <3>5 DEF ImagesInv
  <2>9. TemporariesOwned' /\ ApartInv'
    <3>1. \A b \in Audits : Held(b)' = Held(b)
      BY <1>0, <1>1, <2>4 DEF Held, DiskInv, HoldingPhases
    <3> QED BY <1>0, <1>3, <3>1 DEF TemporariesOwned, ApartInv
  <2>10. AuthoredInv'
    BY <1>0, <1>1 DEF AuthoredInv
  <2> QED BY <2>5, <2>6, <2>7, <2>8, <2>9, <2>10 DEF SourceInv
<1> QED BY <1>2, <1>3 DEF SyncParent

-------------------------------------------------------------------------------
(* Failures *)

\* What a loss of power leaves was published whole, and synced.
LEMMA PowerLossInv ==
  ASSUME SourceInv, PowerLoss
  PROVE  SourceInv'
<1>0. DiskInv /\ AuthoredInv /\ PublishedInv /\ ImagesInv
  BY DEF SourceInv
<1>1. PICK d \in images : dir' = d /\ images' = {d}
  BY DEF PowerLoss
<1>2. PICK kept \in [DOMAIN files \ synced -> 0 .. 1] :
        files' = [f \in DOMAIN files |->
                    IF f \in synced \/ kept[f] = 1 THEN files[f] ELSE [files[f] EXCEPT !.frames = <<>>]]
  BY DEF PowerLoss
<1>3. /\ proc' = [p \in DOMAIN proc |-> Idle] /\ orphans' = DOMAIN files
      /\ UNCHANGED <<synced, authored, damaged, robbed, renamed, acked>>
  BY DEF PowerLoss
<1>4. Len(files) \in Nat /\ DOMAIN files = 1 .. Len(files)
      /\ \A f \in 1 .. Len(files) : files[f] \in FileSet
  BY <1>0, DiskFacts
<1>5. ASSUME NEW f \in 1 .. Len(files) PROVE files'[f] \in FileSet
  <2>1. [files[f] EXCEPT !.frames = <<>>] \in FileSet
    <3> PICK S : S = AllFrames
      OBVIOUS
    <3> PICK z : z = files[f]
      OBVIOUS
    <3>1. <<>> \in Seq(S)
      BY EmptySeq
    <3>2. z \in [nonce : Nonces, frames : Seq(S)]
      BY <1>4 DEF FileSet
    <3>3. [z EXCEPT !.frames = <<>>] \in [nonce : Nonces, frames : Seq(S)]
      BY <3>1, <3>2
    <3> QED BY <3>3 DEF FileSet
  <2>2. files'[f] = files[f] \/ files'[f] = [files[f] EXCEPT !.frames = <<>>]
    BY <1>2, <1>4
  <2> QED BY <1>4, <2>1, <2>2
<1>6. files' \in Seq(FileSet) /\ Len(files') = Len(files)
  <2> PICK S, t, k : S = FileSet /\ t = files' /\ k = Len(files)
    OBVIOUS
  <2>1. t = [f \in 1 .. k |-> t[f]] /\ k \in Nat /\ \A f \in 1 .. k : t[f] \in S
    BY <1>2, <1>4, <1>5
  <2>2. t \in [1 .. k -> S]
    BY <2>1
  <2>3. t \in Seq(S)
    BY <2>1, <2>2, SeqDef
  <2>4. Len(t) = k
    BY <2>1, FunctionIsSeq
  <2> QED BY <2>3, <2>4
<1>7. \A f \in synced : files'[f] = files[f]
  BY <1>0, <1>2, <1>4 DEF DiskInv
<1>14. \A f \in 1 .. Len(files) : files'[f].nonce = files[f].nonce
  BY <1>2, <1>4
<1>8. DiskInv'
  <2>1. (files \in Seq(FileSet))'
    BY <1>3, <1>6 DEF FileSet, AllFrames, FramesOf
  <2>2. Dirs' = Dirs
    BY <1>6 DEF Dirs
  <2>3. proc' = [p \in Audits \cup Proofs |-> proc'[p]]
    BY <1>0, <1>3 DEF DiskInv
  <2>4. images' \subseteq Dirs /\ dir' \in images'
    BY <1>0, <1>1 DEF DiskInv
  <2> QED BY <1>0, <1>3, <1>6, <2>1, <2>2, <2>3, <2>4 DEF DiskInv
<1>9. PublishedInv'
  <2> SUFFICES ASSUME NEW n \in 1 .. Len(renamed), files'[renamed[n]].nonce \notin robbed
               PROVE  PublishedRight(renamed[n])'
    BY <1>3 DEF PublishedInv
  <2> PICK f : f = renamed[n]
    OBVIOUS
  <2>1. files[f].nonce \notin robbed
    BY <1>0, <1>14, DiskFacts
  <2>2. f \in synced /\ (f \notin damaged => Whole(f))
    BY <1>0, <2>1 DEF PublishedInv, PublishedRight
  <2>3. f \notin damaged => Whole(f)'
    BY <1>3, <1>7, <2>2, WholeKept
  <2> QED BY <1>3, <2>2, <2>3 DEF PublishedRight, Whole
<1>10. ImagesInv'
  <2>1. \A after \in images' : Lists(after)'
    BY <1>0, <1>1, <1>3 DEF ImagesInv, Lists
  <2>2. \A after \in images' : Named(after)'
    <3> SUFFICES ASSUME NEW after \in images' PROVE Named(after)'
      OBVIOUS
    <3>1. after \in Dirs /\ Named(after)
      BY <1>0, <1>1 DEF ImagesInv, DiskInv
    <3> QED BY <1>14, <3>1, NamedKept DEF Named
  <2> QED BY <2>1, <2>2 DEF ImagesInv
<1>11. TemporariesOwned' /\ ApartInv'
  <2>1. \A b \in Audits : Held(b)' = {}
    BY <1>0, <1>3 DEF Held, DiskInv, Idle, HoldingPhases
  <2>2. dir' \in Dirs
    BY <1>0, <1>1 DEF DiskInv
  <2>3. \A n \in Nonces : dir'[n] # 0 => dir'[n] \in orphans'
    BY <1>3, <1>4, <2>2 DEF Dirs, Names
  <2> QED BY <2>1, <2>3 DEF TemporariesOwned, ApartInv
<1>12. ProcsInv'
  BY <1>0, <1>3 DEF ProcsInv, ProcOK, DiskInv
<1>13. AuthoredInv'
  BY <1>0, <1>3 DEF AuthoredInv
<1> QED BY <1>8, <1>9, <1>10, <1>11, <1>12, <1>13 DEF SourceInv

\* Damage makes no frame that a writer has not made, and hits a published file.
LEMMA DamageInv ==
  ASSUME SourceInv, Damage
  PROVE  SourceInv'
<1>0. DiskInv /\ AuthoredInv /\ PublishedInv /\ ImagesInv /\ ProcsInv /\ TemporariesOwned /\ ApartInv
  BY DEF SourceInv
<1>1. /\ dir[Source] # 0 /\ \A a \in Audits : dir[Source] \notin Held(a)
      /\ UNCHANGED <<dir, images, synced, proc, authored, orphans, robbed, renamed, acked>>
  BY DEF Damage
<1> PICK f : f = dir[Source]
  OBVIOUS
<1> PICK s, n : s = files[f].frames /\ n = Len(s)
  OBVIOUS
<1>2. f \in 1 .. Len(files) /\ Len(files) \in Nat
  BY <1>0, <1>1, DiskFacts
<1>3. /\ s \in Seq(AllFrames) /\ n \in Nat /\ files[f] = [nonce |-> files[f].nonce, frames |-> s]
      /\ files[f].nonce \in Nonces
      /\ \A k \in 1 .. n : s[k] \in AllFrames
  BY <1>0, <1>2, FileFrames
<1> DEFINE Worse(t, m) ==
      {Append(t, Torn), SubSeq(t, 1, m - 1)}
        \cup {[t EXCEPT ![k] = Torn] : k \in 1 .. m}
        \cup {[t EXCEPT ![k] = t[m], ![m] = t[k]] : k \in 2 .. m - 1}
<1>4. n > 0 /\ damaged' = damaged \cup {f}
  BY DEF Damage
<1>5. \E after \in Worse(s, n) : files' = [files EXCEPT ![f].frames = after]
  <2>1. \E after \in Worse(files[dir[Source]].frames, Len(files[dir[Source]].frames)) :
          files' = [files EXCEPT ![dir[Source]].frames = after]
    BY Zenon DEF Damage
  <2> HIDE DEF Worse
  <2> QED BY <2>1
<1>6. PICK after \in Seq(AllFrames) : files' = [files EXCEPT ![f].frames = after]
  <2> PICK S : S = AllFrames
    OBVIOUS
  <2>1. Torn \in S /\ s \in Seq(S) /\ n = Len(s) /\ \A k \in 1 .. n : s[k] \in S
    BY <1>3 DEF AllFrames
  <2>2. Append(s, Torn) \in Seq(S)
    BY <2>1, AppendProperties
  <2>3. SubSeq(s, 1, n - 1) \in Seq(S)
    <3>1. n - 1 \in Int /\ 1 \in Int /\ \A k \in 1 .. n - 1 : s[k] \in S
      BY <1>3, <2>1
    <3> QED BY <3>1, SubSeqProperties
  <2>4. ASSUME NEW k \in 1 .. n PROVE [s EXCEPT ![k] = Torn] \in Seq(S)
    BY <2>1, ExceptSeq
  <2>5. ASSUME NEW k \in 2 .. n - 1 PROVE [s EXCEPT ![k] = s[n], ![n] = s[k]] \in Seq(S)
    <3>1. k \in 1 .. n /\ n \in 1 .. n
      BY <1>3, <1>4
    <3> PICK x, y, t : x = s[n] /\ y = s[k] /\ t = [s EXCEPT ![k] = x]
      OBVIOUS
    <3>2. x \in S /\ y \in S
      BY <2>1, <3>1
    <3>3. t \in Seq(S) /\ Len(t) = n
      BY <2>1, <3>1, <3>2, ExceptSeq
    <3>4. [t EXCEPT ![n] = y] \in Seq(S)
      BY <3>1, <3>2, <3>3, ExceptSeq
    <3>5. [t EXCEPT ![n] = y] = [s EXCEPT ![k] = s[n], ![n] = s[k]]
      OBVIOUS
    <3> QED BY <3>4, <3>5
  <2>6. PICK after \in Worse(s, n) : files' = [files EXCEPT ![f].frames = after]
    BY <1>5
  <2>7. \/ after \in {Append(s, Torn), SubSeq(s, 1, n - 1)}
        \/ \E k \in 1 .. n : after = [s EXCEPT ![k] = Torn]
        \/ \E k \in 2 .. n - 1 : after = [s EXCEPT ![k] = s[n], ![n] = s[k]]
    OBVIOUS
  <2> HIDE DEF Worse
  <2>8. after \in Seq(S)
    <3>1. CASE after \in {Append(s, Torn), SubSeq(s, 1, n - 1)}
      BY <3>1, <2>2, <2>3
    <3>2. CASE \E k \in 1 .. n : after = [s EXCEPT ![k] = Torn]
      <4> PICK k \in 1 .. n : after = [s EXCEPT ![k] = Torn]
        BY <3>2
      <4> QED BY <2>4
    <3>3. CASE \E k \in 2 .. n - 1 :
                 after = [s EXCEPT ![k] = s[n], ![n] = s[k]]
      <4> PICK k \in 2 .. n - 1 : after = [s EXCEPT ![k] = s[n], ![n] = s[k]]
        BY <3>3
      <4> QED BY <2>5
    <3> QED BY <2>7, <3>1, <3>2, <3>3
  <2> QED BY <2>6, <2>8
<1> PICK y : y = [nonce |-> files[f].nonce, frames |-> after]
  OBVIOUS
<1>7. y \in FileSet
  BY <1>3, <1>6 DEF FileSet
<1>8. files' = [files EXCEPT ![f] = y]
  <2> PICK z : z = files[f]
    OBVIOUS
  <2>1. [z EXCEPT !.frames = after] = y
    BY <1>3
  <2>2. files' = [files EXCEPT ![f] = [z EXCEPT !.frames = after]]
    BY <1>6
  <2> QED BY <2>1, <2>2
<1>9. /\ files' \in Seq(FileSet) /\ Len(files') = Len(files)
      /\ \A g \in 1 .. Len(files) : g # f => files'[g] = files[g]
  <2> PICK S : S = FileSet
    OBVIOUS
  <2>1. files \in Seq(S) /\ y \in S
    BY <1>0, <1>7 DEF DiskInv
  <2> QED BY <1>2, <1>8, <2>1, ExceptSeq
<1>10. \A g \in 1 .. Len(files) : files'[g].nonce = files[g].nonce
  <2> PICK S : S = FileSet
    OBVIOUS
  <2>1. files \in Seq(S) /\ y \in S
    BY <1>0, <1>7 DEF DiskInv
  <2>2. files'[f] = y
    BY <1>2, <1>8, <2>1, ExceptSeq
  <2> QED BY <1>9, <2>2
<1>11. DiskInv'
  <2>1. (files \in Seq(FileSet))'
    BY <1>1, <1>9 DEF FileSet, AllFrames, FramesOf
  <2>2. Dirs' = Dirs
    BY <1>9 DEF Dirs
  <2> QED BY <1>0, <1>1, <1>9, <2>1, <2>2 DEF DiskInv
<1>12. PublishedInv'
  <2> SUFFICES ASSUME NEW m \in 1 .. Len(renamed), files'[renamed[m]].nonce \notin robbed
               PROVE  PublishedRight(renamed[m])'
    BY <1>1 DEF PublishedInv
  <2> PICK g : g = renamed[m]
    OBVIOUS
  <2>1. g \in 1 .. Len(files) /\ g \in synced /\ (g \notin damaged => Whole(g))
    BY <1>0, <1>10, DiskFacts DEF PublishedInv, PublishedRight
  <2>2. ASSUME g \notin damaged' PROVE Whole(g)'
    BY <1>1, <1>4, <1>9, <2>1, <2>2, WholeKept
  <2> QED BY <1>1, <2>1, <2>2 DEF PublishedRight, Whole
<1>13. ImagesInv' /\ TemporariesOwned' /\ AuthoredInv' /\ ApartInv'
  <2>1. \A d \in images : Named(d)'
    <3> SUFFICES ASSUME NEW d \in images PROVE Named(d)'
      OBVIOUS
    <3>1. d \in Dirs /\ Named(d)
      BY <1>0 DEF ImagesInv, DiskInv
    <3> QED BY <1>10, <3>1, NamedKept DEF Named
  <2>2. \A b \in Audits : Held(b)' = Held(b)
    BY <1>1 DEF Held
  <2> QED BY <1>0, <1>1, <2>1, <2>2 DEF ImagesInv, Lists, TemporariesOwned, AuthoredInv, ApartInv
<1>14. ProcsInv'
  <2> SUFFICES ASSUME NEW p \in Audits \cup Proofs, NEW q, q = proc[p]
               PROVE  ProcOK(p, q)'
    BY <1>1 DEF ProcsInv
  <2>1. ProcOK(p, q) /\ Grows
    BY <1>0, <1>1, <1>9 DEF ProcsInv, Grows
  <2>2. ASSUME p \in Audits PROVE Undisturbed(q, NonceOf[p])
    <3>1. CASE q.phase \in HoldingPhases
      <4>1. HasFile(q, NonceOf[p])
        BY <1>0, <2>2, <3>1, PhaseFacts DEF WriterOK, HoldingPhases, WriterPhases
      <4>2. q.file # f
        BY <1>1, <2>2, <3>1 DEF Held
      <4> QED BY <1>1, <1>9, <3>1, <4>1, <4>2 DEF Undisturbed, HasFile, HoldingPhases
    <3>2. CASE q.phase = "syncParent"
      <4>1. PublishedLast(q.file)
        BY <1>0, <2>2, <3>2, PhaseFacts DEF WriterOK, WriterPhases
      <4> QED BY <1>1, <3>2, <4>1 DEF Undisturbed, PublishedLast, HoldingPhases
    <3> QED BY <3>1, <3>2 DEF Undisturbed
  <2> QED BY <2>1, <2>2, ProcKept
<1> QED BY <1>11, <1>12, <1>13, <1>14 DEF SourceInv

-------------------------------------------------------------------------------
(* Theorems *)

\* Every step keeps the invariant.
LEMMA NextInv == SourceInv /\ [Next]_sourceVars => SourceInv'
<1> SUFFICES ASSUME SourceInv, [Next]_sourceVars PROVE SourceInv'
  OBVIOUS
<1>1. ASSUME NEW a \in Audits,
             \/ StartWrite(a) \/ Create(a) \/ CreateFails(a) \/ WriteFrame(a)
             \/ SyncFile(a) \/ Rename(a) \/ SyncParent(a)
      PROVE  SourceInv'
  BY <1>1, StartWriteInv, CreateInv, CreateFailsInv, WriteFrameInv, SyncFileInv, RenameInv,
     SyncParentInv
<1>2. ASSUME NEW p \in Proofs, StartProof(p) PROVE SourceInv'
  BY <1>2, StartProofInv
<1>3. ASSUME NEW p \in Audits \cup Proofs,
             OpenSource(p) \/ BeginPass(p) \/ ReadRecord(p) \/ FinishPass(p) \/ Leave(p) \/ Kill(p)
      PROVE  SourceInv'
  BY <1>3, OpenSourceInv, BeginPassInv, ReadRecordInv, FinishPassInv, LeaveInv, KillInv
<1>4. CASE PowerLoss
  BY <1>4, PowerLossInv
<1>5. CASE Damage
  BY <1>5, DamageInv
<1>6. CASE UNCHANGED sourceVars
  <2>1. /\ UNCHANGED <<files, dir, images, synced, proc>>
        /\ UNCHANGED <<authored, damaged, orphans, robbed, renamed, acked>>
    BY <1>6 DEF sourceVars, diskVars, historyVars
  <2>2. DiskInv' /\ AuthoredInv'
    BY <2>1 DEF SourceInv, DiskInv, Dirs, FileSet, AllFrames, FramesOf, AuthoredInv
  <2>3. PublishedInv'
    BY <2>1 DEF SourceInv, PublishedInv, PublishedRight, Whole, FramesOf
  <2>4. ImagesInv'
    BY <2>1 DEF SourceInv, ImagesInv, Lists, Named
  <2>5. TemporariesOwned' /\ ApartInv'
    BY <2>1 DEF SourceInv, TemporariesOwned, ApartInv, Held
  <2>6. ProcsInv'
    <3> SUFFICES ASSUME NEW p \in Audits \cup Proofs, NEW q, q = proc[p]
                 PROVE  ProcOK(p, q)'
      BY <2>1 DEF ProcsInv
    <3>1. ProcOK(p, q)
      BY DEF SourceInv, ProcsInv
    <3>2. Grows
      BY <2>1 DEF Grows
    <3>3. p \in Audits => Undisturbed(q, NonceOf[p])
      <4>1. ASSUME p \in Audits, q.phase \in WriterPhases PROVE WriterOK(q, NonceOf[p])
        BY <4>1, PhaseFacts DEF SourceInv
      <4> QED BY <2>1, <4>1 DEF Undisturbed, WriterOK, HasFile, PublishedLast, WriterPhases, HoldingPhases
    <3> QED BY <3>1, <3>2, <3>3, ProcKept
  <2> QED BY <2>2, <2>3, <2>4, <2>5, <2>6 DEF SourceInv
<1> QED BY <1>1, <1>2, <1>3, <1>4, <1>5, <1>6 DEF Next

\* The invariant holds of every behaviour.
THEOREM SourceInvariance == SourceSpec => []SourceInv
<1> QED BY InitInv, NextInv, PTL DEF SourceSpec

\* The records a consumer is given, in any pass and also of a pass that fails
\* half-way, are those the writer of the authenticated source put there.
THEOREM ConsumersSeeAuthored == SourceSpec => []RecordsAuthored
<1>1. SourceInv => RecordsAuthored
  <2> SUFFICES ASSUME SourceInv, NEW p \in Audits \cup Proofs, Passing(p)
               PROVE  /\ proc[p].header \in authored
                      /\ proc[p].got = SubSeq(RecordsOf(proc[p].header), 1, Len(proc[p].got))
    BY DEF RecordsAuthored, RecordsOf
  <2> PICK q : q = proc[p]
    OBVIOUS
  <2>1. q.phase \in {"read", "done"}
    BY DEF Passing
  <2>2. ReaderOK(q, p)
    BY <2>1, PhaseFacts DEF SourceInv
  <2> QED BY <2>1, <2>2 DEF ReaderOK, GotOK
<1> QED BY <1>1, SourceInvariance, PTL

\* The relation a run goes on with is the fixture of its workload and session.
THEOREM ReplaysWanted == SourceSpec => []ReplayedAsWanted
<1>1. SourceInv => ReplayedAsWanted
  <2> SUFFICES ASSUME SourceInv, NEW p \in Audits \cup Proofs, proc[p].phase = "done"
               PROVE  /\ Rebuilt(p) = proc[p].want.layout
                      /\ proc[p].header.session = proc[p].want.session
                      /\ \A n \in 1 .. Len(proc[p].got) :
                           LET r == proc[p].got[n]
                           IN  Selected(proc[p].want, r.index) =>
                                 PathRoot(r.id, r.leaf[1], r.path) = proc[p].want.root
    BY DEF ReplayedAsWanted
  <2> PICK q : q = proc[p]
    OBVIOUS
  <2> PICK h : h = q.header
    OBVIOUS
  <2>0. AuthoredInv
    BY DEF SourceInv
  <2>1. /\ ReaderOK(q, p) /\ q.goal = "done" /\ h \in authored /\ GotOK(q)
        /\ Len(q.got) = h.count /\ WantOK(q, p) /\ Bound(q, p)
        /\ Relation(q.workload, RecordsOf(h)) = h.layout
    BY PhaseFacts DEF SourceInv, ReaderOK, PassedOK
  <2>2. q.got = RecordsOf(h)
    <3>1. IsSeq(RecordsOf(h)) /\ Len(RecordsOf(h)) = h.count
      BY <2>0, <2>1, AuthoredFacts
    <3>2. SubSeq(RecordsOf(h), 1, Len(RecordsOf(h))) = RecordsOf(h)
      BY <3>1, SeqFacts
    <3> QED BY <2>1, <3>1, <3>2 DEF GotOK
  <2>3. \A field \in BindingFields : h[field] = q.want[field]
    BY <2>1 DEF Bound
  <2>4. h.layout = q.want.layout
    <3>1. CASE p \in Audits
      BY <2>1, <3>1 DEF Bound
    <3>2. CASE p \notin Audits
      <4>1. q.workload \in Workloads /\ q.want = FixtureHeader(q.workload)
        BY <2>1, <3>2 DEF WantOK
      <4> QED BY <2>0, <2>1, <2>3, <4>1, BoundLayout
    <3> QED BY <3>1, <3>2
  <2>5. h["session"] = q.want["session"] /\ h["revset"] = q.want["revset"] /\ h["root"] = q.want["root"]
    BY <2>3 DEF BindingFields
  <2>6. h.session = q.want.session /\ h.revset = q.want.revset /\ h.root = q.want.root
    BY <2>5
  <2>7. ASSUME NEW n \in 1 .. Len(q.got), NEW r, r = q.got[n], Selected(q.want, r.index)
        PROVE  PathRoot(r.id, r.leaf[1], r.path) = q.want.root
    <3>1. ValidRecord(h, r)
      BY <2>0, <2>1, <2>2, <2>7, AuthoredFacts
    <3>2. Selected(h, r.index)
      BY <2>6, <2>7 DEF Selected
    <3>3. PathBound(h, r)
      BY <3>1, <3>2 DEF ValidRecord
    <3>4. r.at[1] = r.id /\ PathRoot(r.at[1], r.leaf[1], r.path) = h.root
      BY <3>3 DEF PathBound
    <3> QED BY <2>6, <3>4
  <2> QED BY <2>1, <2>2, <2>4, <2>6, <2>7 DEF Rebuilt
<1> QED BY <1>1, SourceInvariance, PTL

\* A crash leaves a whole source under the destination's name, unless a second
\* writer took the temporary name of its nonce from one at work, and never one
\* older than the last that was reported as written.
THEOREM PublishesWhole == SourceSpec => []PublishedWhole
<1>1. SourceInv => PublishedWhole
  <2> SUFFICES ASSUME SourceInv, NEW d \in images
               PROVE  /\ d[Source] # 0 /\ d[Source] \notin damaged
                           /\ files[d[Source]].nonce \notin robbed =>
                           Whole(d[Source]) /\ d[Source] \in synced
                      /\ acked # 0 => \E n \in acked .. Len(renamed) : d[Source] = renamed[n]
    BY DEF PublishedWhole
  <2>1. Lists(d) /\ DiskInv /\ PublishedInv
    BY DEF SourceInv, ImagesInv
  <2>2. ASSUME d[Source] # 0, d[Source] \notin damaged, files[d[Source]].nonce \notin robbed
        PROVE  Whole(d[Source]) /\ d[Source] \in synced
    BY <2>1, <2>2, DiskFacts DEF Lists, PublishedInv, PublishedRight
  <2> QED BY <2>1, <2>2 DEF Lists
<1> QED BY <1>1, SourceInvariance, PTL

\* A temporary name stands for the file of a writer at work, or of one that was
\* stopped or could not remove it, however many writers share the name.
THEOREM TemporariesCleared == SourceSpec => []TemporariesOwned
<1>1. SourceInv => TemporariesOwned
  BY DEF SourceInv
<1> QED BY <1>1, SourceInvariance, PTL

===============================================================================
