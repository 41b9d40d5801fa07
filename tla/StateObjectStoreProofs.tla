------------------------- MODULE StateObjectStoreProofs -------------------------
(***************************************************************************)
(* What the prover's stores on disk guarantee, for any number of stores of *)
(* one session, objects, chunk sizes, names and I/O errors.                *)
(*                                                                         *)
(* The invariant has four parts: where a store is in its life and which    *)
(* directory it holds; that a directory without a name is empty and that   *)
(* nobody holds one that was never made; what may be under the names of an *)
(* object, whatever was torn, stopped, retried or purged; and what is      *)
(* there for certain when none of that has happened.  The last two speak   *)
(* of a store that is alone in the directory it has made.                  *)
(***************************************************************************)
EXTENDS StateObjectStore, FiniteSums, SequenceTheorems, TLAPS

-------------------------------------------------------------------------------
(* The invariant *)

\* A store that has not made a directory.
Fresh == {"new", "opened", "purging", "purged"}

\* A store whose caller uses its objects.
Active == {"live", "sealing", "renamed"}

\* A store that holds a directory: the one it has made, or a shared one.
Holding == Active \cup {"deleted", "listed", "unlinked", "cleaned", "failed"}

Phases == Fresh \cup Holding \cup {"made", "ended", "killed"}

ObjectType ==
  [state : {"absent", "open", "sealed"}, length : Nat, chunks : Nat, nonce : Nat]

Cells == Stores \X Nat \X Nat

StoreFields ==
  {"phase", "fd", "used", "nonce", "obj", "plan", "dropped", "again", "cleaned"}

IsStore(r) == DOMAIN r = StoreFields

\* The life of store s: its record, its objects, the shared directories and
\* the directory that has the session's name.
LifeOK(s, r, m, others, ses) ==
  /\ IsStore(r)
  /\ r.phase \in Phases
  /\ r.fd \in Stores \cup {None}
  /\ r.nonce \in 0..MaxNonce
  /\ r.again \in BOOLEAN /\ r.cleaned \in BOOLEAN
  /\ r.phase \in Fresh \cup {"made"} => ~r.cleaned /\ r.nonce = 0 /\ r.used = 0 /\ m = Nothing
  /\ r.phase \in Fresh => ses # s
  /\ r.phase \in {"opened", "purging", "purged"} => r.fd \in Stores
  /\ r.phase \in Holding => r.fd = s \/ (r.fd \in Stores /\ r.fd \in others)
  /\ r.cleaned => r.fd \in Stores /\ ses # r.fd

\* A file of the counted length holds what was appended.
Right(d, s, n, len) == Len(d) = len => d = Elements(s, n, 0, len)

\* A torn append makes the file too long for good.
Grown(d, s, n, len) == d \in Seq(Cells) /\ Len(d) >= len /\ Right(d, s, n, len)

\* What may be under the names of object o, whose entry in the map is k.
ObjectOK(s, o, k, f) ==
  /\ k.state # "absent" =>
       /\ k.nonce \in 1..MaxNonce
       /\ TempData(o, k.nonce) \in DOMAIN f => Grown(f[TempData(o, k.nonce)], s, k.nonce, k.length)
       /\ Data(o) \in DOMAIN f => k.state = "sealed" /\ Right(f[Data(o)], s, k.nonce, k.length)
       /\ Meta(o) \in DOMAIN f => k.state = "sealed" /\ f[Meta(o)].length = k.length
  /\ k.state = "absent" /\ Data(o) \in DOMAIN f /\ Meta(o) \in DOMAIN f =>
       \E n \in 1..MaxNonce : Right(f[Data(o)], s, n, f[Meta(o)].length)

\* The object that is being sealed.
SealingOK(r, m, f) ==
  r.phase \in {"sealing", "renamed"} =>
    /\ r.obj \in Objects
    /\ m[r.obj].state = "sealed"
    /\ r.nonce >= 1
    /\ TempMeta(r.obj, r.nonce) \in DOMAIN f =>
         f[TempMeta(r.obj, r.nonce)].length = m[r.obj].length

ContentsOK(s, r, m, f) ==
  r.phase \in Active => (\A o \in Objects : ObjectOK(s, o, m[o], f)) /\ SealingOK(r, m, f)

\* What a name holds, if it is there.
Under(f, x, content) == x \in DOMAIN f /\ f[x] = content

\* The data of an object and its manifest.
All(s, k) == Elements(s, k.nonce, 0, k.length)

ManifestOf(s, k) == [length |-> k.length, chunks |-> k.chunks, sum |-> All(s, k), whole |-> TRUE]

\* The object's files between calls and in the middle of a seal.
Filed(s, r, o, k, f) ==
  /\ k.state = "open" => Under(f, TempData(o, k.nonce), All(s, k))
  /\ k.state = "sealed" =>
       IF o # r.obj \/ r.phase = "live"
         THEN Under(f, Data(o), All(s, k)) /\ Under(f, Meta(o), ManifestOf(s, k))
       ELSE IF r.phase = "sealing"
         THEN Under(f, TempData(o, k.nonce), All(s, k))
                /\ Under(f, TempMeta(o, r.nonce), ManifestOf(s, k))
       ELSE Under(f, Data(o), All(s, k)) /\ Under(f, TempMeta(o, r.nonce), ManifestOf(s, k))

\* Full chunks but for the last.
ChunksOK(k) ==
  /\ k.length <= Logical
  /\ FullChunks =>
       \/ k.length = k.chunks * ChunkSize
       \/ /\ k.length = Logical
          /\ k.chunks >= 1
          /\ (k.chunks - 1) * ChunkSize <= Logical

\* Without an error or a purge every object has its files.
IntactOK(s, r, m, f, purged) ==
  r.phase \in Active =>
    /\ \A o \in Objects : m[o].state # "absent" => ChunksOK(m[o])
    /\ ~r.again /\ ~purged => \A o \in Objects : Filed(s, r, o, m[o], f)

\* Object o accounts for the data file x.
Accounts(s, o, k, f, x) ==
  /\ x \in DOMAIN f
  /\ k.state # "absent"
  /\ x = TempData(o, k.nonce) \/ (x = Data(o) /\ TempData(o, k.nonce) \notin DOMAIN f)
  /\ Len(f[x]) = k.length

\* The bytes of the objects of the map are counted.
Held(m) == {o \in Objects : m[o].state # "absent"}

Lengths(m) == SumFunctionOnSet([o \in Objects |-> m[o].length], Held(m))

UsedOK(used, m) ==
  /\ IsFiniteSet(Held(m))
  /\ \A o \in Objects : m[o].state = "absent" => m[o].length = 0
  /\ used = Lengths(m)

\* Without an error every data file is the one file of an object of the map
\* and as long as the map says; what the map says is counted, within the bound.
CountedOK(s, r, m, f) ==
  r.phase \in Active =>
    /\ IsFiniteSet(DOMAIN f)
    /\ UsedOK(r.used, m) /\ r.used <= MaxBytes
    /\ ~r.again => \A x \in DOMAIN f : x.kind = "state" => \E o \in Objects : Accounts(s, o, m[o], f, x)

DirectoriesInv ==
  /\ session \in Stores \cup {None}
  /\ files = [d \in Stores |-> files[d]]
  /\ store = [s \in Stores |-> store[s]]
  /\ objects \in [Stores -> [Objects -> ObjectType]]
  /\ faults \in Nat
  /\ \A d \in Stores : d # session => DOMAIN files[d] = {}

\* Nobody holds a directory that was never made, and nobody but its maker puts a
\* file into one that is not shared.
MadeInv ==
  \A d \in Stores :
    /\ store[d].phase \in Fresh => d \notin shared /\ \A s \in Stores : store[s].fd # d
    /\ store[d].phase = "made" /\ d \notin shared => DOMAIN files[d] = {}

LifeInv == \A s \in Stores : LifeOK(s, store[s], objects[s], shared, session)

ContentsInv == \A s \in Stores : Alone(s) => ContentsOK(s, store[s], objects[s], files[s])

IntactInv ==
  \A s \in Stores : Alone(s) => IntactOK(s, store[s], objects[s], files[s], s \in robbed)

CountedInv == \A s \in Stores : Alone(s) => CountedOK(s, store[s], objects[s], files[s])

StateInv ==
  /\ DirectoriesInv
  /\ MadeInv
  /\ LifeInv
  /\ ContentsInv
  /\ IntactInv
  /\ CountedInv

-------------------------------------------------------------------------------
(* Names and contents *)

\* Final names are temporary names of nonce 0; different names differ in their
\* object, their kind or their nonce.
LEMMA NamesDiffer ==
  /\ \A o : Data(o) = TempData(o, 0) /\ Meta(o) = TempMeta(o, 0)
  /\ \A o, p, n, k : TempData(o, n) = TempData(p, k) => o = p /\ n = k
  /\ \A o, p, n, k : TempMeta(o, n) = TempMeta(p, k) => o = p /\ n = k
  /\ \A o, p, n, k : TempData(o, n) # TempMeta(p, k)
  /\ \A o, n : TempData(o, n).kind = "state" /\ TempMeta(o, n).kind = "meta"
<1>1. \A o : Data(o) = TempData(o, 0) /\ Meta(o) = TempMeta(o, 0)
  BY DEF Data, Meta, TempData, TempMeta
<1>2. \A o, n : /\ TempData(o, n).kind = "state" /\ TempMeta(o, n).kind = "meta"
                /\ TempData(o, n).obj = o /\ TempData(o, n).nonce = n
                /\ TempMeta(o, n).obj = o /\ TempMeta(o, n).nonce = n
  BY DEF TempData, TempMeta
<1>. QED
  BY <1>1, <1>2

\* The elements of an object from one place on, as a sequence.
LEMMA ElementsAre ==
  ASSUME NEW s \in Stores, NEW n \in Nat, NEW a \in Nat, NEW b \in Nat
  PROVE  /\ Elements(s, n, a, b) \in Seq(Cells)
         /\ Len(Elements(s, n, a, b)) = b
         /\ \A i \in 1..b : Elements(s, n, a, b)[i] = Element(s, n, a + i)
<1>1. \A i \in Nat : Element(s, n, i) \in Cells
  BY DEF Element, Cells
<1>2. \A i \in 1..b : Element(s, n, a + i) \in Cells
  BY <1>1
<1>. QED
  BY <1>2 DEF Elements

\* No elements.
LEMMA NoElements == \A s, n, a : Elements(s, n, a, 0) = <<>>
  BY DEF Elements

\* Adjacent elements concatenate.
LEMMA ElementsConcatenate ==
  ASSUME NEW s \in Stores, NEW n \in Nat, NEW a \in Nat, NEW b \in Nat
  PROVE  Elements(s, n, 0, a) \o Elements(s, n, a, b) = Elements(s, n, 0, a + b)
<1>0. \A c \in Nat : /\ Elements(s, n, 0, c) \in Seq(Cells) /\ Len(Elements(s, n, 0, c)) = c
                    /\ \A i \in 1..c : Elements(s, n, 0, c)[i] = Element(s, n, 0 + i)
  BY ZenonT(40), ElementsAre, 0 \in Nat
<1> DEFINE x == Elements(s, n, 0, a)
           y == Elements(s, n, a, b)
           z == Elements(s, n, 0, a + b)
<1>1. x \in Seq(Cells) /\ Len(x) = a /\ \A i \in 1..a : x[i] = Element(s, n, 0 + i)
  BY <1>0
<1>2. y \in Seq(Cells) /\ Len(y) = b /\ \A i \in 1..b : y[i] = Element(s, n, a + i)
  BY ElementsAre
<1>3. /\ z \in Seq(Cells) /\ Len(z) = a + b
      /\ \A i \in 1..(a + b) : z[i] = Element(s, n, 0 + i)
  <2>1. a + b \in Nat
    OBVIOUS
  <2>. QED
    BY <1>0, <2>1
<1> HIDE DEF x, y, z
<1>4. x \o y \in Seq(Cells) /\ Len(x \o y) = a + b
  BY <1>1, <1>2
<1>5. \A i \in 1..Len(x \o y) : (x \o y)[i] = z[i]
  <2> SUFFICES ASSUME NEW i \in 1..(a + b) PROVE (x \o y)[i] = z[i]
    BY <1>4
  <2>1. CASE i <= a
    BY <1>1, <1>2, <1>3, <2>1
  <2>2. CASE i > a
    <3>1. i - a \in 1..b /\ a + (i - a) = i
      BY <2>2
    <3>2. (x \o y)[i] = y[i - a]
      BY <1>1, <1>2, <2>2
    <3>3. y[i - a] = Element(s, n, a + (i - a))
      BY <1>2, <3>1
    <3>. QED
      BY <1>3, <3>1, <3>2, <3>3
  <2>3. i <= a \/ i > a
    OBVIOUS
  <2>. QED
    BY <2>1, <2>2, <2>3
<1>6. x \o y = z
  BY <1>3, <1>4, <1>5, SeqEqual
<1>. QED
  BY <1>6 DEF x, y, z

\* An append of n elements keeps what the file says of the count; a torn one
\* makes it too long.
LEMMA GrownOnward ==
  ASSUME NEW s \in Stores, NEW n \in Nat, NEW len \in Nat, NEW d, Grown(d, s, n, len),
         NEW k \in Nat
  PROVE  /\ Grown(d \o Elements(s, n, len, k), s, n, len + k)
         /\ Grown(d \o Elements(s, n, len, k), s, n, len)
<1> DEFINE e == Elements(s, n, len, k)
<1>1. e \in Seq(Cells) /\ Len(e) = k
  BY ElementsAre
<1>2. d \in Seq(Cells) /\ Len(d) >= len /\ (Len(d) = len => d = Elements(s, n, 0, len))
  BY DEF Grown, Right
<1>3. Elements(s, n, 0, len) \o e = Elements(s, n, 0, len + k)
  BY ElementsConcatenate
<1>4. k = 0 => e = <<>>
  BY NoElements
<1> HIDE DEF e
<1>5. d \o e \in Seq(Cells) /\ Len(d \o e) = Len(d) + k
  BY <1>1, <1>2
<1>6. Grown(d \o e, s, n, len + k)
  <2>1. Len(d) \in Nat
    BY <1>2
  <2>2. Len(d \o e) >= len + k
    BY <1>2, <1>5, <2>1
  <2>3. Len(d \o e) = len + k => Len(d) = len
    BY <1>5, <2>1
  <2>. QED
    BY <1>2, <1>3, <1>5, <2>2, <2>3 DEF Grown, Right
<1>7. Grown(d \o e, s, n, len)
  <2>1. CASE k = 0
    <3>1. len + k = len
      BY <2>1
    <3>. QED
      BY <1>6, <3>1
  <2>2. CASE k # 0
    BY <1>2, <1>5, <2>2 DEF Grown, Right
  <2>. QED
    BY <2>1, <2>2
<1>. QED
  BY <1>6, <1>7 DEF e

-------------------------------------------------------------------------------
(* Steps of one store *)

\* Names that went away.
Less(g, f) == DOMAIN g \subseteq DOMAIN f /\ \A x \in DOMAIN g : g[x] = f[x]

\* What is known of the contents of a directory survives a removal of names.
LEMMA FewerContents ==
  ASSUME NEW s, NEW r, NEW m, NEW f, NEW g, Less(g, f)
  PROVE  /\ ContentsOK(s, r, m, f) => ContentsOK(s, r, m, g)
         /\ CountedOK(s, r, m, f) => CountedOK(s, r, m, g)
<1>1. ASSUME NEW o, ObjectOK(s, o, m[o], f) PROVE ObjectOK(s, o, m[o], g)
  BY <1>1 DEF ObjectOK, Less
<1>2. SealingOK(r, m, f) => SealingOK(r, m, g)
  BY DEF SealingOK, Less
<1>3. ContentsOK(s, r, m, f) => ContentsOK(s, r, m, g)
  BY <1>1, <1>2 DEF ContentsOK
<1>4. ASSUME NEW o, NEW x \in DOMAIN g, Accounts(s, o, m[o], f, x)
      PROVE  Accounts(s, o, m[o], g, x)
  BY <1>4 DEF Accounts, Less
<1>5. CountedOK(s, r, m, f) => CountedOK(s, r, m, g)
  <2>1. IsFiniteSet(DOMAIN f) => IsFiniteSet(DOMAIN g)
    BY FS_Subset DEF Less
  <2>. QED
    BY <1>4, <2>1 DEF CountedOK, Less
<1>. QED
  BY <1>3, <1>5

\* A step of store t: the other stores may lose names, which counts as a purge,
\* but in a directory that is shared.
LEMMA StoreStep ==
  ASSUME StateInv, NEW t \in Stores, NEW r, NEW m \in [Objects -> ObjectType],
         store' = [store EXCEPT ![t] = r], objects' = [objects EXCEPT ![t] = m],
         faults' \in Nat, robbed \subseteq robbed',
         shared \subseteq shared', shared' \subseteq shared \cup {session},
         r.fd \in {store[t].fd, session, None},
         r.phase \in Fresh => store[t].phase \in Fresh,
         r.phase = "made" => DOMAIN files'[t] = {},
         files' = [d \in Stores |-> files'[d]],
         session' \in {session, None} \/ (session' = t /\ store[t].phase \in Fresh),
         \A d \in Stores \ {t} :
           d \in shared' \/ (Less(files'[d], files[d]) /\ (files'[d] = files[d] \/ d \in robbed')),
         \A d \in Stores : d # session' => DOMAIN files'[d] = {},
         LifeOK(t, r, m, shared', session'),
         r.fd = t /\ t \notin shared' => /\ ContentsOK(t, r, m, files'[t])
                                         /\ IntactOK(t, r, m, files'[t], t \in robbed')
                                         /\ CountedOK(t, r, m, files'[t])
  PROVE  StateInv'
<1>1. \A d \in Stores : /\ store'[d] = IF d = t THEN r ELSE store[d]
                        /\ objects'[d] = IF d = t THEN m ELSE objects[d]
  BY DEF StateInv, DirectoriesInv
<1>2. DirectoriesInv'
  <2>1. session' \in Stores \cup {None}
    BY DEF StateInv, DirectoriesInv
  <2>2. store' = [d \in Stores |-> store'[d]]
    BY DEF StateInv, DirectoriesInv
  <2>3. objects' \in [Stores -> [Objects -> ObjectType]]
    BY DEF StateInv, DirectoriesInv
  <2>. QED
    BY <2>1, <2>2, <2>3 DEF DirectoriesInv
<1>3. ASSUME NEW d \in Stores, store[d].phase \in Fresh
      PROVE  d # session /\ d \notin shared /\ \A s \in Stores : store[s].fd # d
  BY <1>3 DEF StateInv, LifeInv, LifeOK, MadeInv
<1>4. MadeInv'
  <2>1. ASSUME NEW d \in Stores, store'[d].phase \in Fresh
        PROVE  d \notin shared' /\ \A s \in Stores : store'[s].fd # d
    <3>1. store[d].phase \in Fresh
      BY <1>1, <2>1
    <3>2. d \notin shared'
      BY <1>3, <3>1
    <3>3. r.fd # d
      BY <1>3, <3>1, StateConstantsOK
    <3>. QED
      BY <1>1, <1>3, <3>1, <3>2, <3>3
  <2>2. ASSUME NEW d \in Stores, store'[d].phase = "made", d \notin shared'
        PROVE  DOMAIN files'[d] = {}
    <3>1. CASE d = t
      BY <1>1, <2>2, <3>1
    <3>2. CASE d # t
      <4>1. store[d].phase = "made" /\ d \notin shared
        BY <1>1, <2>2, <3>2
      <4>2. DOMAIN files[d] = {}
        BY <4>1 DEF StateInv, MadeInv
      <4>. QED
        BY <2>2, <3>2, <4>2 DEF Less
    <3>. QED
      BY <3>1, <3>2
  <2>. QED
    BY <2>1, <2>2 DEF MadeInv
<1>5. LifeInv'
  <2> SUFFICES ASSUME NEW d \in Stores, d # t
               PROVE  LifeOK(d, store[d], objects[d], shared', session')
    BY <1>1 DEF LifeInv
  <2>1. LifeOK(d, store[d], objects[d], shared, session)
    BY DEF StateInv, LifeInv
  <2>2. store[d].phase \in Fresh => session' # d
    BY <2>1, StateConstantsOK DEF LifeOK
  <2>3. store[d].cleaned => session' # store[d].fd
    BY <1>3, <2>1, StateConstantsOK DEF LifeOK
  <2>. QED
    BY <2>1, <2>2, <2>3 DEF LifeOK
<1>6. ASSUME NEW d \in Stores, d # t, Alone(d)'
      PROVE  /\ Alone(d) /\ d \notin shared'
             /\ Less(files'[d], files[d]) /\ (files'[d] = files[d] \/ d \in robbed')
  BY <1>1, <1>6 DEF Alone
<1>7. Alone(t)' => r.fd = t /\ t \notin shared'
  BY <1>1 DEF Alone
<1>8. ContentsInv' /\ CountedInv'
  <2> SUFFICES ASSUME NEW d \in Stores, Alone(d)', d # t
               PROVE  /\ ContentsOK(d, store[d], objects[d], files'[d])
                      /\ CountedOK(d, store[d], objects[d], files'[d])
    BY <1>1, <1>7 DEF ContentsInv, CountedInv
  <2>1. /\ ContentsOK(d, store[d], objects[d], files[d])
        /\ CountedOK(d, store[d], objects[d], files[d])
    BY <1>6 DEF StateInv, ContentsInv, CountedInv
  <2>. QED
    BY <1>6, <2>1, FewerContents
<1>9. IntactInv'
  <2> SUFFICES ASSUME NEW d \in Stores, Alone(d)', d # t
               PROVE  IntactOK(d, store[d], objects[d], files'[d], d \in robbed')
    BY <1>1, <1>7 DEF IntactInv
  <2>1. IntactOK(d, store[d], objects[d], files[d], d \in robbed)
    BY <1>6 DEF StateInv, IntactInv
  <2>2. CASE d \in robbed'
    BY <2>1, <2>2 DEF IntactOK
  <2>3. CASE d \notin robbed'
    BY <1>6, <2>1, <2>3 DEF IntactOK
  <2>. QED
    BY <2>2, <2>3
<1>. QED
  BY <1>2, <1>4, <1>5, <1>8, <1>9 DEF StateInv

\* What is known of one store.
LEMMA StoreFacts ==
  ASSUME StateInv, NEW t \in Stores
  PROVE  /\ LifeOK(t, store[t], objects[t], shared, session)
         /\ Alone(t) => /\ ContentsOK(t, store[t], objects[t], files[t])
                        /\ IntactOK(t, store[t], objects[t], files[t], t \in robbed)
                        /\ CountedOK(t, store[t], objects[t], files[t])
         /\ objects[t] \in [Objects -> ObjectType]
         /\ objects = [d \in Stores |-> objects[d]]
         /\ store = [d \in Stores |-> store[d]]
         /\ files = [d \in Stores |-> files[d]]
         /\ session \in Stores \cup {None} /\ None \notin Stores
         /\ faults \in Nat
         /\ \A d \in Stores : d # session => DOMAIN files[d] = {}
  BY StateConstantsOK DEF StateInv, LifeInv, ContentsInv, IntactInv, CountedInv, DirectoriesInv

\* A step of a store in the directory it holds.
LEMMA HeldStep ==
  ASSUME StateInv, NEW t \in Stores, NEW r, NEW m \in [Objects -> ObjectType], NEW g, NEW e,
         e = store[t].fd, e \in Stores, r.fd = e, e = t \/ e \in shared,
         r.phase \notin Fresh \cup {"made"},
         store' = [store EXCEPT ![t] = r], objects' = [objects EXCEPT ![t] = m],
         files' = [files EXCEPT ![e] = g],
         faults' \in Nat, UNCHANGED <<session, robbed, shared>>,
         e # session => DOMAIN g = {},
         LifeOK(t, r, m, shared, session),
         Alone(t) => /\ ContentsOK(t, r, m, g)
                     /\ IntactOK(t, r, m, g, t \in robbed)
                     /\ CountedOK(t, r, m, g)
  PROVE  StateInv'
<1>1. files = [d \in Stores |-> files[d]] /\ \A d \in Stores : d # session => DOMAIN files[d] = {}
  BY StoreFacts
<1>2. files' = [d \in Stores |-> files'[d]]
  BY <1>1
<1>3. \A d \in Stores : files'[d] = IF d = e THEN g ELSE files[d]
  BY <1>1
<1>4. \A d \in Stores \ {t} :
        d \in shared' \/ (Less(files'[d], files[d]) /\ (files'[d] = files[d] \/ d \in robbed'))
  BY <1>3 DEF Less
<1>5. \A d \in Stores : d # session' => DOMAIN files'[d] = {}
  BY <1>1, <1>3
<1>6. r.fd = t /\ t \notin shared' => /\ ContentsOK(t, r, m, files'[t])
                                      /\ IntactOK(t, r, m, files'[t], t \in robbed')
                                      /\ CountedOK(t, r, m, files'[t])
  BY <1>3 DEF Alone
<1>7. LifeOK(t, r, m, shared', session')
  OBVIOUS
<1>. QED
  BY <1>2, <1>4, <1>5, <1>6, <1>7, StoreStep

\* A step of a store that is alone in its own directory.
LEMMA OwnStep ==
  ASSUME StateInv, NEW t \in Stores, NEW r, NEW m \in [Objects -> ObjectType], NEW g,
         Alone(t), r.fd = t, r.phase \notin Fresh \cup {"made"},
         store' = [store EXCEPT ![t] = r], objects' = [objects EXCEPT ![t] = m],
         files' = [files EXCEPT ![t] = g],
         faults' \in Nat, UNCHANGED <<session, robbed, shared>>,
         t # session => DOMAIN g = {},
         LifeOK(t, r, m, shared, session),
         ContentsOK(t, r, m, g),
         IntactOK(t, r, m, g, t \in robbed),
         CountedOK(t, r, m, g)
  PROVE  StateInv'
BY HeldStep DEF Alone

\* A step of a store that leaves the files alone and does not use its objects.
LEMMA QuietStep ==
  ASSUME StateInv, NEW t \in Stores, NEW r, NEW m \in [Objects -> ObjectType],
         store' = [store EXCEPT ![t] = r], objects' = [objects EXCEPT ![t] = m],
         UNCHANGED files, faults' \in Nat, UNCHANGED <<robbed, shared>>,
         r.fd \in {store[t].fd, session, None},
         r.phase \in Fresh => store[t].phase \in Fresh,
         r.phase = "made" => DOMAIN files[t] = {},
         session' \in {session, None} \/ (session' = t /\ store[t].phase \in Fresh),
         \A d \in Stores : d # session' => DOMAIN files[d] = {},
         LifeOK(t, r, m, shared, session'),
         r.phase \notin Active
  PROVE  StateInv'
<1>1. files = [d \in Stores |-> files[d]]
  BY StoreFacts
<1>2. \A d \in Stores \ {t} :
        Less(files'[d], files[d]) /\ (files'[d] = files[d] \/ d \in robbed')
  BY DEF Less
<1>3. /\ ContentsOK(t, r, m, files'[t]) /\ CountedOK(t, r, m, files'[t])
      /\ IntactOK(t, r, m, files'[t], t \in robbed')
  BY DEF ContentsOK, CountedOK, IntactOK
<1>4. LifeOK(t, r, m, shared', session')
  OBVIOUS
<1>. QED
  BY <1>1, <1>2, <1>3, <1>4, StoreStep

-------------------------------------------------------------------------------
(* The bytes that are counted *)

\* Nothing is counted for no object.
LEMMA NothingUsed == UsedOK(0, Nothing)
<1>1. \A o \in Objects : Nothing[o].state = "absent" /\ Nothing[o].length = 0
  BY DEF Nothing, NoObject
<1>2. Held(Nothing) = {}
  BY <1>1 DEF Held
<1>3. IsFiniteSet({})
  BY FS_EmptySet
<1> DEFINE fun == [o \in Objects |-> Nothing[o].length]
<1> HIDE DEF fun
<1>4. SumFunctionOnSet(fun, {}) = 0
  BY <1>3, SumUnfolds
<1>. QED
  BY <1>1, <1>2, <1>3, <1>4 DEF UsedOK, Lengths, fun

\* What is counted is a number of bytes.
LEMMA UsedIsNat ==
  ASSUME NEW m \in [Objects -> ObjectType], NEW used, UsedOK(used, m)
  PROVE  used \in Nat
<1> DEFINE fun == [o \in Objects |-> m[o].length]
<1>1. \A o \in Held(m) : fun[o] \in Nat
  BY DEF Held, ObjectType
<1>2. IsFiniteSet(Held(m)) /\ used = SumFunctionOnSet(fun, Held(m))
  BY DEF UsedOK, Lengths
<1> HIDE DEF fun
<1>. QED
  BY <1>1, <1>2, SumType

\* An entry of the map changes: its old length is no longer counted and its
\* new one is.
LEMMA UsedChanges ==
  ASSUME NEW m \in [Objects -> ObjectType], NEW used, UsedOK(used, m),
         NEW o \in Objects, NEW k \in ObjectType, k.state = "absent" => k.length = 0
  PROVE  UsedOK(used - m[o].length + k.length, [m EXCEPT ![o] = k])
<1> DEFINE m2 == [m EXCEPT ![o] = k]
           fun == [p \in Objects |-> m[p].length]
           gun == [p \in Objects |-> m2[p].length]
           all == Held(m) \cup {o}
<1>1. /\ m2 \in [Objects -> ObjectType] /\ m2[o] = k
      /\ \A p \in Objects \ {o} : m2[p] = m[p]
  OBVIOUS
<1>2. \A p \in Objects : m[p].state = "absent" => m[p].length = 0
  BY DEF UsedOK
<1>3. \A p \in Objects : m2[p].state = "absent" => m2[p].length = 0
  BY <1>1, <1>2
<1>4. IsFiniteSet(Held(m)) /\ used = SumFunctionOnSet(fun, Held(m))
  BY DEF UsedOK, Lengths
<1>5. IsFiniteSet(all) /\ all \subseteq Objects
  BY <1>4, FS_AddElement DEF Held
<1>6. Held(m2) \subseteq all
  BY <1>1 DEF Held
<1>7. IsFiniteSet(Held(m2))
  BY <1>5, <1>6, FS_Subset
<1>8. fun \in [Objects -> Nat] /\ gun \in [Objects -> Nat]
  BY <1>1 DEF ObjectType
<1>9. /\ fun[o] = m[o].length /\ gun[o] = k.length
      /\ \A p \in all \ {o} : gun[p] = fun[p]
  BY <1>1, <1>5
<1>10. /\ \A p \in all \ Held(m) : fun[p] = 0
       /\ \A p \in all \ Held(m2) : gun[p] = 0
  BY <1>2, <1>3, <1>5 DEF Held
<1> HIDE DEF fun, gun, m2, all
<1>11. SumFunctionOnSet(fun, Held(m)) = SumFunctionOnSet(fun, all)
  BY <1>5, <1>8, <1>10, SumCounts DEF all
<1>12. SumFunctionOnSet(gun, Held(m2)) = SumFunctionOnSet(gun, all)
  BY <1>5, <1>6, <1>8, <1>10, SumCounts
<1>13. SumFunctionOnSet(gun, all) = SumFunctionOnSet(fun, all) - fun[o] + gun[o]
  BY <1>5, <1>8, <1>9, SumChange DEF all
<1>14. Lengths(m2) = used - m[o].length + k.length
  BY <1>4, <1>9, <1>11, <1>12, <1>13 DEF Lengths, gun
<1>15. UsedOK(used - m[o].length + k.length, m2)
  BY <1>3, <1>7, <1>14 DEF UsedOK
<1>. QED
  BY <1>15 DEF m2

\* A directory that gets at most one more name.
LEMMA FewNames ==
  ASSUME NEW D, IsFiniteSet(D), NEW x, NEW E, E \subseteq D \cup {x}
  PROVE  IsFiniteSet(E)
BY FS_AddElement, FS_Subset

-------------------------------------------------------------------------------
(* create, and the end of a store *)

\* The record a store begins with.
LEMMA OutOfLife ==
  /\ Nothing \in [Objects -> ObjectType]
  /\ \A t, others, ses : ses # t => LifeOK(t, Unmade, Nothing, others, ses)
  /\ Unmade.phase \notin Active
  /\ Unmade.phase \in Fresh /\ Unmade.fd = None
<1>1. NoObject \in ObjectType
  BY DEF NoObject, ObjectType
<1>2. Nothing \in [Objects -> ObjectType]
  BY <1>1 DEF Nothing
<1>3. 0 \in 0..MaxNonce
  BY StateConstantsOK
<1>4. /\ Unmade.phase = "new" /\ Unmade.nonce = 0 /\ Unmade.used = 0 /\ Unmade.fd = None
      /\ Unmade.again = FALSE /\ Unmade.cleaned = FALSE
  BY DEF Unmade
<1>5. Unmade.phase \notin Active /\ Unmade.phase \in Fresh
  BY <1>4 DEF Active, Fresh
<1>6. \A t, others, ses : ses # t => LifeOK(t, Unmade, Nothing, others, ses)
  <2>1. IsStore(Unmade)
    BY DEF IsStore, StoreFields, Unmade
  <2>2. Unmade.phase \in Phases /\ Unmade.phase \notin Holding
    BY <1>4 DEF Phases, Fresh, Holding, Active
  <2>3. SUFFICES ASSUME NEW t, NEW others, NEW ses, ses # t
                 PROVE  LifeOK(t, Unmade, Nothing, others, ses)
    OBVIOUS
  <2>. QED
    BY <1>3, <1>4, <2>1, <2>2, <2>3 DEF LifeOK
<1>. QED
  BY <1>2, <1>4, <1>5, <1>6

\* A store that is over remembers its directory and whether its cleanup has
\* succeeded.
LEMMA OverIs ==
  ASSUME NEW t \in Stores, NEW p \in {"ended", "killed"}, NEW others, NEW m, NEW ses,
         store[t].cleaned \in BOOLEAN, store[t].fd \in Stores \cup {None},
         store[t].cleaned => store[t].fd \in Stores /\ ses # store[t].fd
  PROVE  /\ LifeOK(t, Over(t, p), m, others, ses) /\ Over(t, p).phase \notin Active
         /\ Over(t, p).phase \notin Fresh \cup {"made"} /\ Over(t, p).fd = store[t].fd
<1> DEFINE q == Over(t, p)
<1>1. /\ IsStore(q) /\ q.phase = p /\ q.fd = store[t].fd /\ q.nonce = 0
      /\ q.again = FALSE /\ q.cleaned = store[t].cleaned
  BY DEF Over, Unmade, IsStore, StoreFields
<1>2. 0 \in 0..MaxNonce
  BY StateConstantsOK
<1> HIDE DEF q
<1>3. /\ LifeOK(t, q, m, others, ses) /\ q.phase \notin Active
      /\ q.phase \notin Fresh \cup {"made"}
  BY <1>1, <1>2 DEF LifeOK, Phases, Fresh, Holding, Active
<1>. QED
  BY <1>1, <1>3 DEF q

\* An I/O error is counted.
LEMMA FaultCounts == StateInv /\ (UNCHANGED faults \/ Fault) => faults' \in Nat
<1> SUFFICES ASSUME StateInv, UNCHANGED faults \/ Fault PROVE faults' \in Nat
  OBVIOUS
<1>1. faults \in Nat
  BY DEF StateInv, DirectoriesInv
<1>. QED
  BY <1>1 DEF Fault

\* The name of the session is taken from an empty directory only.
LEMMA Nameless ==
  ASSUME StateInv, RemoveEmptyChild \/ UNCHANGED session
  PROVE  /\ session' \in {session, None}
         /\ \A d \in Stores : d # session' => DOMAIN files[d] = {}
<1>1. session \in Stores \cup {None} /\ \A d \in Stores : d # session => DOMAIN files[d] = {}
  BY DEF StateInv, DirectoriesInv
<1>. QED
  BY <1>1, StateConstantsOK DEF RemoveEmptyChild

\* A store that has no directory yet.
LEMMA EarlyFacts ==
  ASSUME StateInv, NEW t \in Stores, store[t].phase \in Fresh \cup {"made"}
  PROVE  /\ IsStore(store[t]) /\ store[t].cleaned = FALSE
         /\ store[t].nonce = 0 /\ store[t].used = 0 /\ 0 \in 0..MaxNonce
         /\ store[t].again \in BOOLEAN /\ store[t].fd \in Stores \cup {None}
         /\ store[t].phase \in Fresh => session # t
         /\ objects[t] = Nothing /\ Nothing \in [Objects -> ObjectType]
         /\ objects = [objects EXCEPT ![t] = Nothing]
<1>1. LifeOK(t, store[t], objects[t], shared, session)
  BY StoreFacts
<1>2. /\ IsStore(store[t]) /\ store[t].cleaned = FALSE
      /\ store[t].nonce = 0 /\ store[t].used = 0
      /\ store[t].again \in BOOLEAN /\ store[t].fd \in Stores \cup {None}
      /\ store[t].phase \in Fresh => session # t
      /\ objects[t] = Nothing
  BY <1>1 DEF LifeOK
<1>3. objects = [objects EXCEPT ![t] = Nothing]
  BY <1>2, StoreFacts
<1>4. 0 \in 0..MaxNonce
  BY StateConstantsOK
<1>. QED
  BY <1>2, <1>3, <1>4, OutOfLife

\* A directory is made.
LEMMA MakeDirectoryInv ==
  ASSUME StateInv, NEW t \in Stores, MakeDirectory(t)
  PROVE  StateInv'
<1>1. /\ store[t].phase = "new" /\ session = None /\ session' = t
      /\ UNCHANGED <<files, objects, robbed, shared, faults>>
  BY DEF MakeDirectory, At
<1>2. store[t].phase \in Fresh
  BY <1>1 DEF Fresh
<1> DEFINE q == [store[t] EXCEPT !.phase = "made"]
<1>3. store' = [store EXCEPT ![t] = q]
  BY DEF MakeDirectory
<1>4. /\ IsStore(q) /\ q.phase = "made" /\ q.fd = store[t].fd /\ q.used = 0 /\ q.nonce = 0
      /\ q.again \in BOOLEAN /\ q.cleaned = FALSE
  BY <1>2, EarlyFacts DEF IsStore, StoreFields
<1> HIDE DEF q
<1>5. LifeOK(t, q, Nothing, shared, t) /\ q.phase \notin Active /\ q.phase \notin Fresh
  BY <1>2, <1>4, EarlyFacts DEF LifeOK, Phases, Holding, Active, Fresh
<1>6. objects' = [objects EXCEPT ![t] = Nothing] /\ Nothing \in [Objects -> ObjectType]
  BY <1>1, <1>2, EarlyFacts
<1>7. \A d \in Stores : DOMAIN files[d] = {}
  BY <1>1, StoreFacts
<1>8. faults' \in Nat
  BY <1>1, StoreFacts
<1>. QED
  BY <1>1, <1>2, <1>3, <1>4, <1>5, <1>6, <1>7, <1>8, QuietStep

\* What has the name is opened.
LEMMA OpenDirectoryInv ==
  ASSUME StateInv, NEW t \in Stores, OpenDirectory(t)
  PROVE  StateInv'
<1>1. store[t].phase = "made" /\ UNCHANGED <<session, files, objects, robbed>>
  BY DEF OpenDirectory, At
<1>2. store[t].phase \in Fresh \cup {"made"} /\ store[t].phase \notin Fresh
  BY <1>1 DEF Fresh
<1>3. objects' = [objects EXCEPT ![t] = Nothing] /\ Nothing \in [Objects -> ObjectType]
  BY <1>1, <1>2, EarlyFacts
<1>4. CASE /\ session # None
           /\ store' = [store EXCEPT ![t].phase = "live", ![t].fd = session]
           /\ shared' = shared \cup ({session} \ {t})
           /\ UNCHANGED faults
  <2> DEFINE q == [store[t] EXCEPT !.phase = "live", !.fd = session]
  <2>1. store' = [store EXCEPT ![t] = q] /\ session \in Stores
    BY <1>4, StoreFacts
  <2>2. /\ IsStore(q) /\ q.phase = "live" /\ q.fd = session /\ q.used = 0 /\ q.nonce = 0
        /\ q.again \in BOOLEAN /\ q.cleaned = FALSE
    BY <1>2, EarlyFacts DEF IsStore, StoreFields
  <2> HIDE DEF q
  <2>3. session = t \/ session \in shared'
    BY <1>4
  <2>4. /\ LifeOK(t, q, Nothing, shared', session)
        /\ q.phase \notin Fresh /\ q.phase # "made"
    BY <1>2, <2>1, <2>2, <2>3, EarlyFacts DEF LifeOK, Phases, Holding, Active, Fresh
  <2>5. ASSUME q.fd = t, t \notin shared'
        PROVE  /\ ContentsOK(t, q, Nothing, files[t]) /\ CountedOK(t, q, Nothing, files[t])
               /\ IntactOK(t, q, Nothing, files[t], t \in robbed)
    <3>1. \A o \in Objects : Nothing[o].state = "absent"
      BY DEF Nothing, NoObject
    <3>2. DOMAIN files[t] = {}
      BY <1>1, <1>4, <2>5 DEF StateInv, MadeInv
    <3>3. ContentsOK(t, q, Nothing, files[t])
      BY <2>2, <3>1, <3>2 DEF ContentsOK, ObjectOK, SealingOK
    <3>4. IntactOK(t, q, Nothing, files[t], t \in robbed)
      BY <3>1 DEF IntactOK, Filed
    <3>5. CountedOK(t, q, Nothing, files[t])
      BY <2>2, <3>2, StateConstantsOK, NothingUsed, FS_EmptySet DEF CountedOK
    <3>. QED
      BY <3>3, <3>4, <3>5
  <2>6. /\ files = [d \in Stores |-> files[d]] /\ faults' \in Nat
        /\ \A d \in Stores : d # session => DOMAIN files[d] = {}
    BY <1>4, StoreFacts
  <2>7. \A d \in Stores \ {t} :
          d \in shared' \/ (Less(files'[d], files[d]) /\ (files'[d] = files[d] \/ d \in robbed'))
    BY <1>1 DEF Less
  <2>8. shared \subseteq shared' /\ shared' \subseteq shared \cup {session}
    BY <1>4
  <2>. QED
    BY <1>1, <1>3, <2>1, <2>2, <2>3, <2>4, <2>5, <2>6, <2>7, <2>8, StoreStep
<1>5. CASE /\ (session = None /\ UNCHANGED faults) \/ Fault
           /\ store' = [store EXCEPT ![t].phase = "ended"]
           /\ UNCHANGED shared
  <2> DEFINE q == [store[t] EXCEPT !.phase = "ended"]
  <2>1. store' = [store EXCEPT ![t] = q]
    BY <1>5
  <2>2. /\ IsStore(q) /\ q.phase = "ended" /\ q.fd = store[t].fd /\ q.nonce = 0
        /\ q.again \in BOOLEAN /\ q.cleaned = FALSE
    BY <1>2, EarlyFacts DEF IsStore, StoreFields
  <2> HIDE DEF q
  <2>3. LifeOK(t, q, Nothing, shared, session) /\ q.phase \notin Active /\ q.phase \notin Fresh
    BY <1>2, <2>2, EarlyFacts DEF LifeOK, Phases, Holding, Active, Fresh
  <2>4. faults' \in Nat
    BY <1>5, FaultCounts
  <2>5. \A d \in Stores : d # session => DOMAIN files[d] = {}
    BY StoreFacts
  <2>. QED
    BY <1>1, <1>3, <1>5, <2>1, <2>2, <2>3, <2>4, <2>5, QuietStep
<1>. QED
  BY <1>4, <1>5 DEF OpenDirectory

\* A purge looks at the directory that is there, and ends without a store.
LEMMA PurgeQuiet ==
  ASSUME StateInv, NEW t \in Stores, PurgeOpen(t) \/ PurgeList(t) \/ PurgeRmdir(t)
  PROVE  StateInv'
<1>1. store[t].phase \in Fresh
  BY DEF PurgeOpen, PurgeList, PurgeRmdir, At, Fresh
<1>2. objects' = [objects EXCEPT ![t] = Nothing] /\ Nothing \in [Objects -> ObjectType]
  BY <1>1, EarlyFacts DEF PurgeOpen, PurgeList, PurgeRmdir
<1>3. files' = files /\ robbed' = robbed /\ shared' = shared /\ faults' \in Nat
  BY FaultCounts DEF PurgeOpen, PurgeList, PurgeRmdir
<1>4. \A d \in Stores : d # session => DOMAIN files[d] = {}
  BY StoreFacts
<1>5. ASSUME NEW q, store' = [store EXCEPT ![t] = q], UNCHANGED session,
             IsStore(q), q.phase \in {"opened", "purging"}, q.fd \in Stores,
             q.fd \in {store[t].fd, session}, q.used = 0, q.nonce = 0,
             q.again \in BOOLEAN, q.cleaned = FALSE
      PROVE  StateInv'
  <2>1. LifeOK(t, q, Nothing, shared, session) /\ q.phase \notin Active
        /\ q.phase # "made"
    BY <1>1, <1>5, EarlyFacts DEF LifeOK, Phases, Holding, Active, Fresh
  <2>. QED
    BY <1>1, <1>2, <1>3, <1>4, <1>5, <2>1, QuietStep
<1>6. ASSUME store' = [store EXCEPT ![t] = Unmade], session' \in {session, None},
             \A d \in Stores : d # session' => DOMAIN files[d] = {}
      PROVE  StateInv'
  <2>1. session' # t
    BY <1>1, <1>6, EarlyFacts, StateConstantsOK
  <2>2. LifeOK(t, Unmade, Nothing, shared, session') /\ Unmade.phase \notin Active
        /\ Unmade.fd = None /\ Unmade.phase # "made"
    BY <2>1, OutOfLife DEF Unmade
  <2>. QED
    BY <1>1, <1>2, <1>3, <1>6, <2>2, QuietStep
<1>7. CASE PurgeOpen(t)
  <2> DEFINE q == [store[t] EXCEPT !.phase = "opened", !.fd = session]
  <2>1. /\ IsStore(q) /\ q.phase = "opened" /\ q.fd = session /\ q.used = 0 /\ q.nonce = 0
        /\ q.again \in BOOLEAN /\ q.cleaned = FALSE
    BY <1>1, EarlyFacts DEF IsStore, StoreFields
  <2>2. store' = [store EXCEPT ![t] = q] /\ UNCHANGED session /\ session \in Stores
    BY <1>7, StoreFacts DEF PurgeOpen
  <2> HIDE DEF q
  <2>. QED
    BY <1>5, <2>1, <2>2
<1>8. CASE PurgeList(t)
  <2>1. CASE session = None
    BY <1>4, <1>6, <1>8, <2>1 DEF PurgeList
  <2>2. CASE session # None
    <3> DEFINE q == [store[t] EXCEPT !.phase = "purging", !.plan = DOMAIN files[session]]
    <3>1. store' = [store EXCEPT ![t] = q] /\ UNCHANGED session
      BY <1>8, <2>2, StoreFacts DEF PurgeList
    <3>2. /\ IsStore(q) /\ q.phase = "purging" /\ q.fd = store[t].fd /\ q.used = 0 /\ q.nonce = 0
          /\ q.again \in BOOLEAN /\ q.cleaned = FALSE
      BY <1>1, EarlyFacts DEF IsStore, StoreFields
    <3>3. store[t].fd \in Stores
      BY <1>8, StoreFacts DEF PurgeList, At, LifeOK
    <3> HIDE DEF q
    <3>. QED
      BY <1>5, <3>1, <3>2, <3>3
  <2>. QED
    BY <2>1, <2>2
<1>9. CASE PurgeRmdir(t)
  <2>1. RemoveEmptyChild \/ UNCHANGED session
    BY <1>9 DEF PurgeRmdir
  <2>2. store' = [store EXCEPT ![t] = Unmade]
    BY <1>9 DEF PurgeRmdir
  <2>. QED
    BY <1>6, <2>1, <2>2, Nameless
<1>. QED
  BY <1>7, <1>8, <1>9

\* What is left of a directory.
LEMMA WithoutIs ==
  \A f, names : /\ DOMAIN Without(f, names) = DOMAIN f \ names
                /\ Less(Without(f, names), f)
  BY DEF Without, Restrict, Less

\* Names are unlinked, all of the plan or some.
LEMMA UnlinkLeaves ==
  ASSUME NEW t \in Stores, NEW done, NEW stopped, Unlink(t, done, stopped)
  PROVE  /\ UNCHANGED faults \/ Fault
         /\ \E names :
              /\ files' = [files EXCEPT ![store[t].fd] = Without(files[store[t].fd], names)]
              /\ \/ store' = [store EXCEPT ![t] = done] /\ names = store[t].plan
                 \/ store' = [store EXCEPT ![t] = stopped]
  BY DEF Unlink

\* Another process purges the directory that it has found.
LEMMA PurgeUnlinkInv ==
  ASSUME StateInv, NEW t \in Stores, PurgeUnlink(t)
  PROVE  StateInv'
<1> DEFINE e == store[t].fd
           done == [store[t] EXCEPT !.phase = "purged"]
<1>1. LifeOK(t, store[t], objects[t], shared, session) /\ store[t].phase = "purging"
  BY StoreFacts DEF PurgeUnlink, At
<1>2. store[t].phase \in Fresh /\ e \in Stores
  BY <1>1 DEF LifeOK, Fresh
<1>3. objects' = [objects EXCEPT ![t] = Nothing] /\ Nothing \in [Objects -> ObjectType]
  BY <1>2, EarlyFacts DEF PurgeUnlink
<1>4. session' = session /\ shared' = shared /\ robbed' = robbed \cup {e}
  BY DEF PurgeUnlink
<1>5. PICK names :
        /\ files' = [files EXCEPT ![e] = Without(files[e], names)]
        /\ \/ store' = [store EXCEPT ![t] = done]
           \/ store' = [store EXCEPT ![t] = Unmade]
  <2>1. Unlink(t, done, Unmade)
    BY DEF PurgeUnlink
  <2> HIDE DEF done
  <2>. QED
    BY <2>1, UnlinkLeaves
<1>6. faults' \in Nat
  <2>1. Unlink(t, done, Unmade)
    BY DEF PurgeUnlink
  <2> HIDE DEF done
  <2>. QED
    BY <2>1, UnlinkLeaves, FaultCounts
<1>7. /\ files = [d \in Stores |-> files[d]]
      /\ \A d \in Stores : d # session => DOMAIN files[d] = {}
  BY StoreFacts
<1>8. /\ files' = [d \in Stores |-> files'[d]]
      /\ \A d \in Stores : files'[d] = IF d = e THEN Without(files[e], names) ELSE files[d]
  BY <1>2, <1>5, <1>7
<1>9. \A d \in Stores : Less(files'[d], files[d]) /\ (files'[d] = files[d] \/ d \in robbed')
  BY <1>4, <1>8, WithoutIs DEF Less
<1>10. \A d \in Stores : d # session' => DOMAIN files'[d] = {}
  BY <1>4, <1>7, <1>9 DEF Less
<1>11. ASSUME NEW q, store' = [store EXCEPT ![t] = q], q.fd \in {e, None}, q.phase # "made",
              LifeOK(t, q, Nothing, shared, session), q.phase \notin Active
       PROVE  StateInv'
  <2>1. /\ ContentsOK(t, q, Nothing, files'[t]) /\ CountedOK(t, q, Nothing, files'[t])
        /\ IntactOK(t, q, Nothing, files'[t], t \in robbed')
    BY <1>11 DEF ContentsOK, CountedOK, IntactOK
  <2>2. robbed \subseteq robbed' /\ LifeOK(t, q, Nothing, shared', session')
    BY <1>4, <1>11
  <2>. QED
    BY <1>2, <1>3, <1>4, <1>6, <1>8, <1>9, <1>10, <1>11, <2>1, <2>2, StoreStep
<1>12. LifeOK(t, done, Nothing, shared, session) /\ done.phase \notin Active
       /\ done.fd = e /\ done.phase # "made"
  <2>1. /\ IsStore(done) /\ done.phase = "purged" /\ done.fd = e /\ done.used = 0
        /\ done.nonce = 0 /\ done.again \in BOOLEAN /\ done.cleaned = FALSE
    BY <1>2, EarlyFacts DEF IsStore, StoreFields
  <2> HIDE DEF done
  <2>. QED
    BY <1>2, <2>1, EarlyFacts DEF LifeOK, Phases, Holding, Active, Fresh
<1>13. LifeOK(t, Unmade, Nothing, shared, session) /\ Unmade.phase \notin Active
       /\ Unmade.fd = None /\ Unmade.phase # "made"
  BY <1>2, EarlyFacts, OutOfLife DEF Unmade
<1> HIDE DEF done
<1>. QED
  BY <1>5, <1>11, <1>12, <1>13

\* A killed process.
LEMMA KillInv ==
  ASSUME StateInv, NEW t \in Stores, Kill(t)
  PROVE  StateInv'
<1>1. LifeOK(t, store[t], objects[t], shared, session)
  BY StoreFacts
<1>2. /\ store' = [store EXCEPT ![t] = Over(t, "killed")]
      /\ objects' = [objects EXCEPT ![t] = Nothing]
      /\ UNCHANGED <<session, files, robbed, shared, faults>>
  BY DEF Kill, Ends
<1>3. /\ LifeOK(t, Over(t, "killed"), Nothing, shared, session)
      /\ Over(t, "killed").phase \notin Active /\ Over(t, "killed").phase \notin Fresh
      /\ Over(t, "killed").fd = store[t].fd /\ Over(t, "killed").phase # "made"
  <2>1. /\ store[t].cleaned \in BOOLEAN /\ store[t].fd \in Stores \cup {None}
        /\ store[t].cleaned => store[t].fd \in Stores /\ session # store[t].fd
    BY <1>1 DEF LifeOK
  <2>. QED
    BY <2>1, OverIs
<1>4. faults' \in Nat /\ \A d \in Stores : d # session' => DOMAIN files[d] = {}
  BY <1>2, StoreFacts
<1>. QED
  BY <1>2, <1>3, <1>4, OutOfLife, QuietStep

-------------------------------------------------------------------------------
(* abort_session_cleanup *)

\* A store at work or at its cleanup, in whatever directory it holds.
LEMMA HolderFacts ==
  ASSUME StateInv, NEW t \in Stores, store[t].phase \in Holding
  PROVE  /\ IsStore(store[t]) /\ store[t].fd \in Stores
         /\ store[t].fd = t \/ store[t].fd \in shared
         /\ Alone(t) \/ store[t].fd \in shared
         /\ store[t].nonce \in 0..MaxNonce
         /\ store[t].again \in BOOLEAN /\ store[t].cleaned \in BOOLEAN
         /\ store[t].cleaned => session # store[t].fd
         /\ objects[t] \in [Objects -> ObjectType]
BY StoreFacts DEF LifeOK, Alone

\* What is to be shown of a record that holds the same directory.
LEMMA HolderLife ==
  ASSUME StateInv, NEW t \in Stores, store[t].phase \in Holding, NEW m, NEW q, NEW next,
         IsStore(q), q.phase \in Holding \cup {"ended", "killed"}, q.fd = store[t].fd,
         q.nonce \in 0..MaxNonce, q.again \in BOOLEAN, q.cleaned \in BOOLEAN,
         q.cleaned => next # store[t].fd
  PROVE  LifeOK(t, q, m, shared, next) /\ q.phase \notin Fresh \cup {"made"}
BY HolderFacts DEF LifeOK, Phases, Fresh, Holding, Active

\* A store whose cleanup has stopped.
LEMMA GiveUpIs ==
  ASSUME StateInv, NEW t \in Stores, NEW m, store[t].phase \in {"deleted", "listed", "unlinked"},
         NEW next, next \in {session, None},
         NEW q, q = GiveUp(t) \/ q = [GiveUp(t) EXCEPT !.plan = {}]
  PROVE  /\ LifeOK(t, q, m, shared, next) /\ q.fd = store[t].fd
         /\ q.phase \notin Active /\ q.phase \notin Fresh \cup {"made"}
<1>0. store[t].phase \in Holding
  BY DEF Holding
<1>1. /\ IsStore(store[t]) /\ store[t].fd \in Stores
      /\ store[t].nonce \in 0..MaxNonce /\ store[t].again \in BOOLEAN
      /\ store[t].cleaned \in BOOLEAN /\ (store[t].cleaned => next # store[t].fd)
  BY <1>0, HolderFacts, StateConstantsOK
<1>2. 0 \in 0..MaxNonce
  BY StateConstantsOK
<1>3. ASSUME NEW x, IsStore(x), x.phase \in {"ended", "failed"}, x.fd = store[t].fd,
             x.nonce \in 0..MaxNonce, x.again \in BOOLEAN, x.cleaned = store[t].cleaned
      PROVE  /\ LifeOK(t, x, m, shared, next)
             /\ x.phase \notin Active /\ x.phase \notin Fresh \cup {"made"}
  <2>1. x.phase \in Holding \cup {"ended", "killed"} /\ x.phase \notin Active
    BY <1>3 DEF Holding, Active
  <2>. QED
    BY <1>0, <1>1, <1>3, <2>1, HolderLife
<1> DEFINE q1 == GiveUp(t)
           q2 == [GiveUp(t) EXCEPT !.plan = {}]
<1>5. /\ IsStore(q1) /\ q1.phase \in {"ended", "failed"} /\ q1.fd = store[t].fd
      /\ q1.nonce \in 0..MaxNonce /\ q1.again \in BOOLEAN /\ q1.cleaned = store[t].cleaned
  <2>1. CASE store[t].dropped
    <3>1. q1 = Over(t, "ended")
      BY <2>1 DEF GiveUp
    <3> HIDE DEF q1
    <3>. QED
      BY <1>1, <1>2, <3>1 DEF Over, Unmade, IsStore, StoreFields
  <2>2. CASE ~store[t].dropped
    <3>1. q1 = [store[t] EXCEPT !.phase = "failed"]
      BY <2>2 DEF GiveUp
    <3> HIDE DEF q1
    <3>. QED
      BY <1>1, <3>1 DEF IsStore, StoreFields
  <2>. QED
    BY <2>1, <2>2
<1>6. /\ IsStore(q2) /\ q2.phase \in {"ended", "failed"} /\ q2.fd = store[t].fd
      /\ q2.nonce \in 0..MaxNonce /\ q2.again \in BOOLEAN /\ q2.cleaned = store[t].cleaned
  <2>1. q2 = [q1 EXCEPT !.plan = {}]
    OBVIOUS
  <2> HIDE DEF q1, q2
  <2>. QED
    BY <1>5, <2>1 DEF IsStore, StoreFields
<1> HIDE DEF q1, q2
<1>7. /\ LifeOK(t, q1, m, shared, next)
      /\ q1.phase \notin Active /\ q1.phase \notin Fresh \cup {"made"}
  BY <1>3, <1>5
<1>8. /\ LifeOK(t, q2, m, shared, next)
      /\ q2.phase \notin Active /\ q2.phase \notin Fresh \cup {"made"}
  BY <1>3, <1>6
<1>. QED
  BY <1>5, <1>6, <1>7, <1>8 DEF q1, q2

\* The names of the directory that has the session's name are listed.
LEMMA CleanupListInv ==
  ASSUME StateInv, NEW t \in Stores, CleanupList(t)
  PROVE  StateInv'
<1> DEFINE r == store[t]
           q == IF session = None THEN GiveUp(t)
                ELSE [store[t] EXCEPT !.phase = "listed", !.plan = DOMAIN files[session]]
<1>0. store[t].phase \in {"deleted", "listed", "unlinked"}
  BY DEF CleanupList, At
<1>1. r.phase = "deleted" /\ r.phase \in Holding
  BY DEF CleanupList, At, Holding
<1>2. /\ IsStore(r) /\ r.nonce \in 0..MaxNonce
      /\ r.again \in BOOLEAN /\ r.cleaned \in BOOLEAN /\ (r.cleaned => session # r.fd)
  BY <1>1, HolderFacts
<1>3. /\ store' = [store EXCEPT ![t] = q]
      /\ UNCHANGED <<session, files, objects, robbed, shared, faults>>
  BY DEF CleanupList
<1>4. /\ LifeOK(t, q, objects[t], shared, session) /\ q.fd = r.fd
      /\ q.phase \notin Active /\ q.phase \notin Fresh \cup {"made"}
  <2>1. CASE session = None
    <3>1. q = GiveUp(t)
      BY <2>1
    <3> HIDE DEF q
    <3>. QED
      BY <1>0, <3>1, GiveUpIs
  <2>2. CASE session # None
    <3>1. /\ IsStore(q) /\ q.phase = "listed" /\ q.fd = r.fd /\ q.nonce = r.nonce
          /\ q.again = r.again /\ q.cleaned = r.cleaned
      BY <1>2, <2>2 DEF IsStore, StoreFields
    <3>2. q.phase \notin Active /\ q.phase \in Holding
      BY <3>1 DEF Holding, Active
    <3> HIDE DEF q
    <3>3. /\ LifeOK(t, q, objects[t], shared, session)
          /\ q.phase \notin Fresh \cup {"made"}
      BY <1>1, <1>2, <3>1, <3>2, HolderLife
    <3>. QED
      BY <3>1, <3>2, <3>3
  <2>. QED
    BY <2>1, <2>2
<1>5. /\ objects' = [objects EXCEPT ![t] = objects[t]]
      /\ objects[t] \in [Objects -> ObjectType]
      /\ faults' \in Nat /\ \A d \in Stores : d # session' => DOMAIN files[d] = {}
  BY <1>3, StoreFacts
<1> HIDE DEF q
<1>. QED
  BY <1>3, <1>4, <1>5, QuietStep

\* The listed names are unlinked: all that there are, or what an error leaves.
LEMMA CleanupUnlinkInv ==
  ASSUME StateInv, NEW t \in Stores, CleanupUnlink(t)
  PROVE  StateInv'
<1> DEFINE r == store[t]
           e == store[t].fd
           done == [store[t] EXCEPT !.phase = "unlinked", !.plan = {}]
           stopped == [GiveUp(t) EXCEPT !.plan = {}]
<1>0. store[t].phase \in {"deleted", "listed", "unlinked"}
  BY DEF CleanupUnlink, At
<1>1. r.phase = "listed" /\ r.phase \in Holding
  BY DEF CleanupUnlink, At, Holding
<1>2. /\ IsStore(r) /\ e \in Stores /\ (e = t \/ e \in shared) /\ r.nonce \in 0..MaxNonce
      /\ r.again \in BOOLEAN /\ r.cleaned \in BOOLEAN /\ (r.cleaned => session # e)
  BY <1>1, HolderFacts
<1>3. Unlink(t, done, stopped) /\ UNCHANGED <<session, objects, robbed, shared>>
  BY DEF CleanupUnlink
<1>4. /\ IsStore(done) /\ done.phase = "unlinked" /\ done.fd = e /\ done.nonce = r.nonce
      /\ done.again = r.again /\ done.cleaned = r.cleaned
  BY <1>2 DEF IsStore, StoreFields
<1>5. /\ LifeOK(t, stopped, objects[t], shared, session) /\ stopped.fd = e
      /\ stopped.phase \notin Active /\ stopped.phase \notin Fresh \cup {"made"}
  <2>1. stopped = [GiveUp(t) EXCEPT !.plan = {}]
    OBVIOUS
  <2> HIDE DEF stopped
  <2>. QED
    BY <1>0, <2>1, GiveUpIs
<1> HIDE DEF done, stopped
<1>6. faults' \in Nat
  BY <1>3, UnlinkLeaves, FaultCounts
<1>7. PICK names :
        /\ files' = [files EXCEPT ![e] = Without(files[e], names)]
        /\ \/ store' = [store EXCEPT ![t] = done]
           \/ store' = [store EXCEPT ![t] = stopped]
  BY <1>3, UnlinkLeaves
<1> DEFINE g == Without(files[e], names)
<1>8. files' = [files EXCEPT ![e] = g] /\ DOMAIN g \subseteq DOMAIN files[e]
  <2>1. DOMAIN g = DOMAIN files[e] \ names
    BY WithoutIs
  <2>. QED
    BY <1>7, <2>1
<1> HIDE DEF g
<1>9. objects' = [objects EXCEPT ![t] = objects[t]] /\ objects[t] \in [Objects -> ObjectType]
  BY <1>3, StoreFacts
<1>10. e # session => DOMAIN g = {}
  BY <1>2, <1>8, StoreFacts
<1>11. ASSUME NEW q, store' = [store EXCEPT ![t] = q], q.fd = e,
              LifeOK(t, q, objects[t], shared, session), q.phase \notin Active,
              q.phase \notin Fresh \cup {"made"}
       PROVE  StateInv'
  <2>1. /\ ContentsOK(t, q, objects[t], g) /\ CountedOK(t, q, objects[t], g)
        /\ IntactOK(t, q, objects[t], g, t \in robbed)
    BY <1>11 DEF ContentsOK, CountedOK, IntactOK
  <2>. QED
    BY <1>2, <1>3, <1>6, <1>8, <1>9, <1>10, <1>11, <2>1, HeldStep
<1>12. /\ LifeOK(t, done, objects[t], shared, session)
       /\ done.phase \notin Active /\ done.phase \notin Fresh \cup {"made"}
  <2>1. done.phase \notin Active /\ done.phase \in Holding
    BY <1>4 DEF Holding, Active
  <2> HIDE DEF r
  <2>. QED
    BY <1>1, <1>2, <1>4, <2>1, HolderLife DEF r
<1>. QED
  BY <1>4, <1>5, <1>7, <1>11, <1>12

\* The empty directory is removed.
LEMMA CleanupRmdirInv ==
  ASSUME StateInv, NEW t \in Stores, CleanupRmdir(t)
  PROVE  StateInv'
<1> DEFINE r == store[t]
           done == [(IF store[t].dropped THEN Over(t, "ended")
                     ELSE [store[t] EXCEPT !.phase = "cleaned"]) EXCEPT !.cleaned = TRUE]
<1>0. store[t].phase \in {"deleted", "listed", "unlinked"}
  BY DEF CleanupRmdir, At
<1>1. r.phase = "unlinked" /\ r.phase \in Holding
  BY DEF CleanupRmdir, At, Holding
<1>2. /\ IsStore(r) /\ r.fd \in Stores /\ r.nonce \in 0..MaxNonce
      /\ r.again \in BOOLEAN /\ r.cleaned \in BOOLEAN
  BY <1>1, HolderFacts
<1>3. RemoveEmptyChild \/ UNCHANGED session
  BY DEF CleanupRmdir
<1>4. /\ session' \in {session, None}
      /\ \A d \in Stores : d # session' => DOMAIN files[d] = {}
  BY <1>3, Nameless
<1>5. (UNCHANGED faults \/ Fault) /\ UNCHANGED <<files, objects, robbed, shared>>
  BY DEF CleanupRmdir
<1>6. faults' \in Nat
  BY <1>5, FaultCounts
<1>7. objects' = [objects EXCEPT ![t] = objects[t]] /\ objects[t] \in [Objects -> ObjectType]
  BY <1>5, StoreFacts
<1>8. ASSUME NEW q, q = GiveUp(t)
      PROVE  /\ LifeOK(t, q, objects[t], shared, session') /\ q.fd = store[t].fd
             /\ q.phase \notin Active /\ q.phase \notin Fresh \cup {"made"}
  BY <1>0, <1>4, <1>8, GiveUpIs
<1>9. session' = None =>
        /\ LifeOK(t, done, objects[t], shared, session') /\ done.fd = store[t].fd
        /\ done.phase \notin Active /\ done.phase \notin Fresh \cup {"made"}
  <2>1. /\ IsStore(done) /\ done.phase \in {"ended", "cleaned"} /\ done.fd = r.fd
        /\ done.nonce \in 0..MaxNonce /\ done.again \in BOOLEAN /\ done.cleaned = TRUE
    <3>1. CASE r.dropped
      <4>1. done = [Over(t, "ended") EXCEPT !.cleaned = TRUE]
        BY <3>1
      <4>2. 0 \in 0..MaxNonce
        BY StateConstantsOK
      <4>. QED
        BY <1>2, <4>1, <4>2 DEF Over, Unmade, IsStore, StoreFields
    <3>2. CASE ~r.dropped
      <4>1. done = [[store[t] EXCEPT !.phase = "cleaned"] EXCEPT !.cleaned = TRUE]
        BY <3>2
      <4>. QED
        BY <1>2, <4>1 DEF IsStore, StoreFields
    <3>. QED
      BY <3>1, <3>2
  <2>2. None # store[t].fd
    BY <1>2, StateConstantsOK
  <2> HIDE DEF done
  <2>3. done.phase \notin Active /\ done.phase \in Holding \cup {"ended", "killed"}
    BY <2>1 DEF Holding, Active
  <2>. QED
    BY <1>1, <2>1, <2>2, <2>3, HolderLife
<1>10. \/ session' = None /\ store' = [store EXCEPT ![t] = done]
       \/ store' = [store EXCEPT ![t] = GiveUp(t)]
  <2>1. CASE session' = None /\ Cleaned(t)
    BY <2>1, StoreFacts DEF Cleaned
  <2>2. CASE store' = [store EXCEPT ![t] = GiveUp(t)]
    BY <2>2
  <2>. QED
    BY <2>1, <2>2 DEF CleanupRmdir
<1> HIDE DEF done
<1>11. ASSUME NEW q, store' = [store EXCEPT ![t] = q], q.fd = store[t].fd,
              LifeOK(t, q, objects[t], shared, session'), q.phase \notin Active,
              q.phase \notin Fresh \cup {"made"}
       PROVE  StateInv'
  BY <1>4, <1>5, <1>6, <1>7, <1>11, QuietStep
<1>. QED
  BY <1>8, <1>9, <1>10, <1>11

\* A deletion that stops leaves no new name, and no data longer than it was.
LEMMA StopsIs ==
  ASSUME NEW t \in Stores, NEW o \in Objects, NEW g \in DeletionStops(t, o)
  PROVE  DOMAIN g \subseteq DOMAIN Dir(t)
<1> DEFINE data == {NamesOf(t, o)[1], NamesOf(t, o)[2]}
           G(i, open) == Without(Truncated(Dir(t), open), {NamesOf(t, o)[j] : j \in 1..i})
<1>0. DeletionStops(t, o) = {G(i, open) : i \in 0..3, open \in SUBSET data}
  BY DEF DeletionStops
<1> HIDE DEF G, data
<1>1. PICK i \in 0..3, open \in SUBSET data : g = G(i, open)
  BY <1>0
<1> DEFINE f == Truncated(Dir(t), open)
<1>2. DOMAIN f = DOMAIN Dir(t)
  BY DEF Truncated
<1> DEFINE names == {NamesOf(t, o)[j] : j \in 1..i}
<1>3. g = Without(f, names)
  BY <1>1 DEF G
<1> HIDE DEF names, f
<1>4. DOMAIN Without(f, names) = DOMAIN f \ names
  BY WithoutIs
<1>. QED
  BY <1>2, <1>3, <1>4

\* The objects of the map that a cleanup forgets.
LEMMA ForgottenType ==
  ASSUME StateInv, NEW t \in Stores, NEW os
  PROVE  [o \in Objects |-> IF o \in os THEN NoObject ELSE objects[t][o]] \in [Objects -> ObjectType]
<1>1. NoObject \in ObjectType
  BY DEF NoObject, ObjectType
<1>2. objects[t] \in [Objects -> ObjectType]
  BY StoreFacts
<1>. QED
  BY <1>1, <1>2

\* A cleanup deletes the objects of the map: whatever is left of the directory,
\* the store is not used any more.
LEMMA CleanupDeletesInv ==
  ASSUME StateInv, NEW t \in Stores, NEW drop \in BOOLEAN, CleanupDeletes(t, drop)
  PROVE  StateInv'
<1> DEFINE held == {o \in Objects : objects[t][o].state # "absent"}
           names(os) == UNION {{NamesOf(t, o)[j] : j \in 1..3} : o \in os}
           r(os) == [store[t] EXCEPT !.dropped = drop,
                       !.used = @ - SumFunctionOnSet([o \in Objects |-> objects[t][o].length], os)]
           left(os) == [o \in Objects |-> IF o \in os THEN NoObject ELSE objects[t][o]]
           deleted(os) == [r(os) EXCEPT !.phase = "deleted"]
           failed(os) == [r(os) EXCEPT !.phase = "failed"]
           e == store[t].fd
<1>1. store[t].phase \in Holding
  <2>1. store[t].phase \in {"live"} \cup (IF drop THEN {"cleaned", "failed"} ELSE {})
    BY DEF CleanupDeletes
  <2>. QED
    BY <2>1 DEF Holding, Active
<1>2. /\ IsStore(store[t]) /\ store[t].nonce \in 0..MaxNonce
      /\ e \in Stores /\ (e = t \/ e \in shared)
      /\ store[t].again \in BOOLEAN /\ store[t].cleaned \in BOOLEAN
      /\ (store[t].cleaned => session # e)
  BY <1>1, HolderFacts
<1>3. UNCHANGED <<session, robbed, shared>> /\ (UNCHANGED faults \/ Fault)
  BY DEF CleanupDeletes
<1>4. faults' \in Nat
  BY <1>3, FaultCounts
<1>5. ASSUME NEW q, NEW m \in [Objects -> ObjectType], NEW g,
             IsStore(q), q.phase \in {"deleted", "failed", "ended"}, q.fd = e,
             q.nonce \in 0..MaxNonce, q.again \in BOOLEAN, q.cleaned = store[t].cleaned,
             store' = [store EXCEPT ![t] = q], objects' = [objects EXCEPT ![t] = m],
             files' = [files EXCEPT ![e] = g], DOMAIN g \subseteq DOMAIN files[e]
      PROVE  StateInv'
  <2>0. q.phase \notin Active /\ q.phase \in Holding \cup {"ended", "killed"}
    BY <1>5 DEF Holding, Active
  <2>1. LifeOK(t, q, m, shared, session) /\ q.phase \notin Fresh \cup {"made"}
    BY <1>1, <1>2, <1>5, <2>0, HolderLife
  <2>2. /\ ContentsOK(t, q, m, g) /\ CountedOK(t, q, m, g) /\ IntactOK(t, q, m, g, t \in robbed)
    BY <2>0 DEF ContentsOK, CountedOK, IntactOK
  <2>3. e # session => DOMAIN g = {}
    BY <1>2, <1>5, StoreFacts
  <2>. QED
    BY <1>2, <1>3, <1>4, <1>5, <2>1, <2>2, <2>3, HeldStep
<1>6. ASSUME NEW os
      PROVE  /\ IsStore(deleted(os)) /\ deleted(os).phase = "deleted" /\ deleted(os).fd = e
             /\ deleted(os).nonce \in 0..MaxNonce /\ deleted(os).again \in BOOLEAN
             /\ deleted(os).cleaned = store[t].cleaned
             /\ IsStore(failed(os)) /\ failed(os).phase = "failed" /\ failed(os).fd = e
             /\ failed(os).nonce \in 0..MaxNonce /\ failed(os).again \in BOOLEAN
             /\ failed(os).cleaned = store[t].cleaned
  <2> DEFINE q == r(os)
  <2>1. /\ IsStore(q) /\ q.fd = e /\ q.nonce \in 0..MaxNonce /\ q.again \in BOOLEAN
        /\ q.cleaned = store[t].cleaned
    BY <1>2 DEF IsStore, StoreFields
  <2>2. deleted(os) = [q EXCEPT !.phase = "deleted"] /\ failed(os) = [q EXCEPT !.phase = "failed"]
    OBVIOUS
  <2> HIDE DEF q, r, deleted, failed
  <2>. QED
    BY <2>1, <2>2 DEF IsStore, StoreFields
<1>7. \A os : left(os) \in [Objects -> ObjectType]
  BY ForgottenType
<1>8. Dir(t) = files[e]
  BY DEF Dir
<1>9. CASE /\ files' = [files EXCEPT ![store[t].fd] = Without(@, names(held))]
           /\ objects' = [objects EXCEPT ![t] = left(held)]
           /\ store' = [store EXCEPT ![t] = deleted(held)]
  <2> DEFINE g == Without(files[e], names(held))
  <2>1. files' = [files EXCEPT ![e] = g] /\ DOMAIN g \subseteq DOMAIN files[e]
    <3> HIDE DEF names
    <3>1. DOMAIN g = DOMAIN files[e] \ names(held)
      BY WithoutIs
    <3>2. files' = [files EXCEPT ![e] = g]
      BY <1>2, <1>9
    <3>. QED
      BY <3>1, <3>2
  <2> HIDE DEF g, held, r, left, deleted, failed
  <2>2. IsStore(deleted(held)) /\ deleted(held).phase = "deleted" /\ deleted(held).fd = e
        /\ deleted(held).nonce \in 0..MaxNonce /\ deleted(held).again \in BOOLEAN
        /\ deleted(held).cleaned = store[t].cleaned
    BY <1>6
  <2>3. left(held) \in [Objects -> ObjectType]
    BY <1>7
  <2>. QED
    BY <1>5, <1>9, <2>1, <2>2, <2>3
<1>10. ASSUME NEW os \in SUBSET held, NEW o \in held \ os, NEW f \in DeletionStops(t, o),
              files' = [files EXCEPT ![store[t].fd] = Without(f, names(os))],
              IF drop THEN Ends(t, "ended")
              ELSE /\ objects' = [objects EXCEPT ![t] = left(os \cup {o})]
                   /\ store' = [store EXCEPT ![t] = failed(os \cup {o})]
       PROVE  StateInv'
  <2> DEFINE g == Without(f, names(os))
             op == os \cup {o}
  <2>1. files' = [files EXCEPT ![e] = g] /\ DOMAIN g \subseteq DOMAIN files[e]
    <3> HIDE DEF names
    <3>1. DOMAIN g = DOMAIN f \ names(os)
      BY WithoutIs
    <3>2. files' = [files EXCEPT ![e] = g]
      BY <1>2, <1>10
    <3>3. DOMAIN f \subseteq DOMAIN files[e]
      BY <1>8, StopsIs
    <3>. QED
      BY <3>1, <3>2, <3>3
  <2>2. CASE drop
    <3>1. /\ store' = [store EXCEPT ![t] = Over(t, "ended")]
          /\ objects' = [objects EXCEPT ![t] = Nothing]
      BY <1>10, <2>2 DEF Ends
    <3> DEFINE q == Over(t, "ended")
    <3>2. 0 \in 0..MaxNonce
      BY StateConstantsOK
    <3>3. IsStore(q) /\ q.phase = "ended" /\ q.fd = e /\ q.nonce \in 0..MaxNonce
          /\ q.again \in BOOLEAN /\ q.cleaned = store[t].cleaned
      BY <1>2, <3>2 DEF Over, Unmade, IsStore, StoreFields
    <3>4. Nothing \in [Objects -> ObjectType]
      BY OutOfLife
    <3> HIDE DEF q, g
    <3>. QED
      BY <1>5, <2>1, <3>1, <3>3, <3>4 DEF q
  <2>3. CASE ~drop
    <3>1. /\ store' = [store EXCEPT ![t] = failed(op)]
          /\ objects' = [objects EXCEPT ![t] = left(op)]
      BY <1>10, <2>3
    <3> HIDE DEF g, held, r, left, deleted, failed, op
    <3>2. IsStore(failed(op)) /\ failed(op).phase = "failed" /\ failed(op).fd = e
          /\ failed(op).nonce \in 0..MaxNonce /\ failed(op).again \in BOOLEAN
          /\ failed(op).cleaned = store[t].cleaned
      BY <1>6
    <3>3. left(op) \in [Objects -> ObjectType]
      BY <1>7
    <3>. QED
      BY <1>5, <2>1, <3>1, <3>2, <3>3
  <2>. QED
    BY <2>2, <2>3
<1>11. \/ /\ files' = [files EXCEPT ![store[t].fd] = Without(@, names(held))]
          /\ objects' = [objects EXCEPT ![t] = left(held)]
          /\ store' = [store EXCEPT ![t] = deleted(held)]
       \/ \E os \in SUBSET held : \E o \in held \ os : \E f \in DeletionStops(t, o) :
            /\ files' = [files EXCEPT ![store[t].fd] = Without(f, names(os))]
            /\ IF drop THEN Ends(t, "ended")
               ELSE /\ objects' = [objects EXCEPT ![t] = left(os \cup {o})]
                    /\ store' = [store EXCEPT ![t] = failed(os \cup {o})]
  BY StoreFacts DEF CleanupDeletes
<1> HIDE DEF held, names, left, deleted, failed, r
<1>. QED
  BY <1>9, <1>10, <1>11

-------------------------------------------------------------------------------
(* The names of other objects *)

\* The same content under a name, or none.
Same(f, g, x) == (x \in DOMAIN f <=> x \in DOMAIN g) /\ (x \in DOMAIN f => g[x] = f[x])

\* Only the names of object o are touched.
Elsewhere(f, g, o) == \A x : x.obj # o => Same(f, g, x)

\* What is known of an object lasts while its names are not touched.
LEMMA OthersKeep ==
  ASSUME NEW s, NEW o, NEW p, o # p, NEW f, NEW g, Elsewhere(f, g, o), NEW k, NEW r
  PROVE  /\ ObjectOK(s, p, k, f) => ObjectOK(s, p, k, g)
         /\ Filed(s, r, p, k, f) => Filed(s, r, p, k, g)
         /\ \A x : Accounts(s, p, k, f, x) => Accounts(s, p, k, g, x)
<1>1. \A n : Same(f, g, TempData(p, n)) /\ Same(f, g, TempMeta(p, n))
  <2>1. \A n : TempData(p, n).obj = p /\ TempMeta(p, n).obj = p
    BY DEF TempData, TempMeta
  <2>. QED
    BY <2>1 DEF Elsewhere
<1>2. Same(f, g, Data(p)) /\ Same(f, g, Meta(p))
  BY <1>1, NamesDiffer
<1>3. ObjectOK(s, p, k, f) => ObjectOK(s, p, k, g)
  BY <1>1, <1>2 DEF ObjectOK, Same
<1>4. Filed(s, r, p, k, f) => Filed(s, r, p, k, g)
  BY <1>1, <1>2 DEF Filed, Under, Same
<1>5. ASSUME NEW x, Accounts(s, p, k, f, x) PROVE Accounts(s, p, k, g, x)
  BY <1>1, <1>2, <1>5 DEF Accounts, Same
<1>. QED
  BY <1>3, <1>4, <1>5

\* What is known of a store whose caller uses it.
LEMMA ActiveFacts ==
  ASSUME StateInv, NEW t \in Stores, Alone(t), store[t].phase \in Active
  PROVE  /\ IsStore(store[t]) /\ store[t].fd = t /\ store[t].nonce \in 0..MaxNonce
         /\ store[t].again \in BOOLEAN /\ store[t].cleaned \in BOOLEAN
         /\ (store[t].cleaned => session # t)
         /\ store[t].used \in Int /\ store[t].used <= MaxBytes
         /\ UsedOK(store[t].used, objects[t]) /\ IsFiniteSet(DOMAIN files[t])
         /\ Dir(t) = files[t]
         /\ \A o \in Objects : /\ objects[t][o] \in ObjectType
                               /\ ObjectOK(t, o, objects[t][o], files[t])
                               /\ objects[t][o].state # "absent" => ChunksOK(objects[t][o])
                               /\ ~store[t].again /\ t \notin robbed =>
                                    Filed(t, store[t], o, objects[t][o], files[t])
         /\ SealingOK(store[t], objects[t], files[t])
         /\ ~store[t].again => \A x \in DOMAIN files[t] :
              x.kind = "state" => \E o \in Objects : Accounts(t, o, objects[t][o], files[t], x)
<1>1. /\ LifeOK(t, store[t], objects[t], shared, session)
      /\ ContentsOK(t, store[t], objects[t], files[t])
      /\ IntactOK(t, store[t], objects[t], files[t], t \in robbed)
      /\ CountedOK(t, store[t], objects[t], files[t])
      /\ objects[t] \in [Objects -> ObjectType]
  BY StoreFacts
<1>2. store[t].fd = t
  BY DEF Alone
<1>3. /\ IsStore(store[t]) /\ store[t].nonce \in 0..MaxNonce
      /\ store[t].again \in BOOLEAN /\ store[t].cleaned \in BOOLEAN
      /\ (store[t].cleaned => session # t)
  BY <1>1, <1>2 DEF LifeOK
<1>4. \A o \in Objects : objects[t][o] \in ObjectType
  BY <1>1
<1>5. (\A o \in Objects : ObjectOK(t, o, objects[t][o], files[t]))
      /\ SealingOK(store[t], objects[t], files[t])
  BY <1>1 DEF ContentsOK
<1>6. \A o \in Objects : /\ objects[t][o].state # "absent" => ChunksOK(objects[t][o])
                         /\ ~store[t].again /\ t \notin robbed =>
                              Filed(t, store[t], o, objects[t][o], files[t])
  BY <1>1 DEF IntactOK
<1>7. /\ UsedOK(store[t].used, objects[t]) /\ store[t].used <= MaxBytes
      /\ IsFiniteSet(DOMAIN files[t])
      /\ ~store[t].again => \A x \in DOMAIN files[t] :
           x.kind = "state" => \E o \in Objects : Accounts(t, o, objects[t][o], files[t], x)
  BY <1>1 DEF CountedOK
<1>8. Dir(t) = files[t]
  BY <1>2 DEF Dir
<1>9. store[t].used \in Nat
  BY <1>1, <1>7, UsedIsNat
<1>. QED
  BY <1>2, <1>3, <1>4, <1>5, <1>6, <1>7, <1>8, <1>9

\* A step of an active store on object o, for which the rest is to be shown.
LEMMA ObjectStep ==
  ASSUME StateInv, NEW t \in Stores, Alone(t), NEW o \in Objects, store[t].phase \in Active,
         store[t].phase = "live" \/ store[t].obj = o,
         NEW q, NEW k \in ObjectType, NEW g,
         store' = [store EXCEPT ![t] = q], objects' = [objects EXCEPT ![t][o] = k],
         files' = [files EXCEPT ![t] = g], Elsewhere(files[t], g, o),
         faults' \in Nat, UNCHANGED <<session, robbed, shared>>,
         t # session => DOMAIN g = {},
         IsStore(q), q.phase \in Active, q.phase = "live" \/ q.obj = o,
         q.fd = t, q.nonce \in 0..MaxNonce, q.again = store[t].again,
         q.cleaned = store[t].cleaned, q.used <= MaxBytes,
         q.used = store[t].used - objects[t][o].length + k.length,
         k.state = "absent" => k.length = 0, IsFiniteSet(DOMAIN g),
         ObjectOK(t, o, k, g),
         SealingOK(q, [objects[t] EXCEPT ![o] = k], g),
         k.state # "absent" => ChunksOK(k),
         ~q.again /\ t \notin robbed => Filed(t, q, o, k, g),
         ~q.again => \A x \in DOMAIN g : x.kind = "state" =>
           Accounts(t, o, k, g, x)
             \/ (x \in DOMAIN files[t] /\ ~Accounts(t, o, objects[t][o], files[t], x))
  PROVE  StateInv'
<1> DEFINE m == [objects[t] EXCEPT ![o] = k]
           f == files[t]
<1>1. objects[t] \in [Objects -> ObjectType]
  BY StoreFacts
<1>2. /\ m \in [Objects -> ObjectType] /\ objects' = [objects EXCEPT ![t] = m]
      /\ m[o] = k /\ \A p \in Objects \ {o} : m[p] = objects[t][p]
  BY <1>1
<1>3. SealingOK(q, m, g) /\ UsedOK(q.used, m)
  BY <1>1, ActiveFacts, UsedChanges
<1> HIDE DEF m
<1>4. LifeOK(t, q, m, shared, session)
  BY ActiveFacts DEF LifeOK, Phases, Holding, Active, Fresh
<1>5. ContentsOK(t, q, m, g)
  <2>1. ASSUME NEW p \in Objects, p # o PROVE ObjectOK(t, p, m[p], g)
    BY <1>2, <2>1, ActiveFacts, OthersKeep
  <2>. QED
    BY <1>2, <1>3, <2>1 DEF ContentsOK
<1>6. IntactOK(t, q, m, g, t \in robbed)
  <2>1. ASSUME NEW p \in Objects, p # o
        PROVE  /\ m[p].state # "absent" => ChunksOK(m[p])
               /\ ~q.again /\ t \notin robbed => Filed(t, q, p, m[p], g)
    <3>1. m[p].state # "absent" => ChunksOK(m[p])
      BY <1>2, <2>1, ActiveFacts
    <3>2. ASSUME ~q.again, t \notin robbed PROVE Filed(t, q, p, m[p], g)
      <4>1. Filed(t, store[t], p, m[p], f)
        BY <1>2, <2>1, <3>2, ActiveFacts
      <4>2. Filed(t, store[t], p, m[p], g)
        BY <2>1, <4>1, OthersKeep
      <4>. QED
        BY <2>1, <4>2 DEF Filed
    <3>. QED
      BY <3>1, <3>2
  <2>. QED
    BY <1>2, <2>1 DEF IntactOK
<1>7. CountedOK(t, q, m, g)
  <2>1. ASSUME ~q.again, NEW x \in DOMAIN g, x.kind = "state"
        PROVE  \E p \in Objects : Accounts(t, p, m[p], g, x)
    <3>1. CASE Accounts(t, o, k, g, x)
      BY <1>2, <3>1
    <3>2. CASE x \in DOMAIN f /\ ~Accounts(t, o, objects[t][o], f, x)
      <4>1. PICK p \in Objects : Accounts(t, p, objects[t][p], f, x)
        BY <2>1, <3>2, ActiveFacts
      <4>2. p # o
        BY <3>2, <4>1
      <4>3. Accounts(t, p, objects[t][p], g, x)
        BY <4>1, <4>2, OthersKeep
      <4>. QED
        BY <1>2, <4>2, <4>3
    <3>. QED
      BY <2>1, <3>1, <3>2
  <2>. QED
    BY <1>3, <2>1 DEF CountedOK
<1>8. q.phase \notin Fresh \cup {"made"}
  BY DEF Active, Fresh
<1>. QED
  BY <1>2, <1>4, <1>5, <1>6, <1>7, <1>8, OwnStep

\* A call on object o that has failed: nothing is certain of the names but
\* what may be under them.
LEMMA StumbleStep ==
  ASSUME StateInv, NEW t \in Stores, Alone(t), NEW o \in Objects, store[t].phase \in Active,
         NEW r, NEW k \in ObjectType, NEW g, Stumbles(t, r),
         objects' = [objects EXCEPT ![t][o] = k],
         files' = [files EXCEPT ![t] = g], Elsewhere(files[t], g, o),
         faults' \in Nat, UNCHANGED <<session, robbed, shared>>,
         t # session => DOMAIN g = {},
         IsStore(r), r.fd = t, r.nonce \in 0..MaxNonce, r.again \in BOOLEAN,
         r.cleaned = store[t].cleaned, r.used <= MaxBytes,
         r.used = store[t].used - objects[t][o].length + k.length,
         k.state = "absent" => k.length = 0, IsFiniteSet(DOMAIN g),
         ObjectOK(t, o, k, g),
         k.state # "absent" => ChunksOK(k)
  PROVE  StateInv'
<1> DEFINE m == [objects[t] EXCEPT ![o] = k]
           q1 == [r EXCEPT !.phase = "failed"]
           q2 == [r EXCEPT !.phase = "live", !.again = TRUE]
<1>1. objects[t] \in [Objects -> ObjectType]
  BY StoreFacts
<1>2. /\ m \in [Objects -> ObjectType] /\ objects' = [objects EXCEPT ![t] = m]
      /\ m[o] = k /\ \A p \in Objects \ {o} : m[p] = objects[t][p]
  BY <1>1
<1>11. UsedOK(r.used, m)
  BY <1>1, ActiveFacts, UsedChanges
<1> HIDE DEF m
<1>3. /\ IsStore(q1) /\ q1.phase = "failed" /\ q1.fd = t /\ q1.nonce = r.nonce
      /\ q1.again = r.again /\ q1.cleaned = r.cleaned
      /\ IsStore(q2) /\ q2.phase = "live" /\ q2.fd = t /\ q2.nonce = r.nonce
      /\ q2.again = TRUE /\ q2.cleaned = r.cleaned /\ q2.used = r.used
  BY DEF IsStore, StoreFields
<1>4. store' = [store EXCEPT ![t] = q1] \/ store' = [store EXCEPT ![t] = q2]
  BY DEF Stumbles
<1> HIDE DEF q1, q2
<1>5. store[t].cleaned \in BOOLEAN /\ (store[t].cleaned => session # t)
  BY ActiveFacts
<1>6. LifeOK(t, q1, m, shared, session) /\ LifeOK(t, q2, m, shared, session)
  BY <1>3, <1>5 DEF LifeOK, Phases, Holding, Active, Fresh
<1>7. /\ ContentsOK(t, q1, m, g) /\ CountedOK(t, q1, m, g)
      /\ IntactOK(t, q1, m, g, t \in robbed)
  BY <1>3 DEF ContentsOK, CountedOK, IntactOK, Active
<1>8. /\ ContentsOK(t, q2, m, g) /\ CountedOK(t, q2, m, g)
      /\ IntactOK(t, q2, m, g, t \in robbed)
  <2>1. ASSUME NEW p \in Objects
        PROVE  ObjectOK(t, p, m[p], g) /\ (m[p].state # "absent" => ChunksOK(m[p]))
    <3>1. CASE p = o
      BY <1>2, <3>1
    <3>2. CASE p # o
      <4>1. m[p] = objects[t][p] /\ ObjectOK(t, p, m[p], files[t])
            /\ (m[p].state # "absent" => ChunksOK(m[p]))
        BY <1>2, <3>2, ActiveFacts
      <4>. QED
        BY <3>2, <4>1, OthersKeep
    <3>. QED
      BY <3>1, <3>2
  <2>2. SealingOK(q2, m, g)
    BY <1>3 DEF SealingOK
  <2>. QED
    BY <1>3, <1>11, <2>1, <2>2 DEF ContentsOK, CountedOK, IntactOK
<1>12. q1.phase \notin Fresh \cup {"made"} /\ q2.phase \notin Fresh \cup {"made"}
  BY <1>3 DEF Fresh
<1>9. CASE store' = [store EXCEPT ![t] = q1]
  BY <1>2, <1>3, <1>12, <1>6, <1>7, <1>9, OwnStep
<1>10. CASE store' = [store EXCEPT ![t] = q2]
  BY <1>2, <1>3, <1>12, <1>6, <1>8, <1>10, OwnStep
<1>. QED
  BY <1>4, <1>9, <1>10

-------------------------------------------------------------------------------
(* Objects *)

\* A name of object o is written.
PutIn(f, x, content) == [y \in DOMAIN f \cup {x} |-> IF y = x THEN content ELSE f[y]]

LEMMA PutIs ==
  \A f, x, content :
    /\ DOMAIN PutIn(f, x, content) = DOMAIN f \cup {x}
    /\ PutIn(f, x, content)[x] = content
    /\ \A y \in DOMAIN f \ {x} : PutIn(f, x, content)[y] = f[y]
    /\ Elsewhere(f, PutIn(f, x, content), x.obj)
<1> TAKE f, x, content
<1> DEFINE g == PutIn(f, x, content)
<1>1. /\ DOMAIN g = DOMAIN f \cup {x}
      /\ g[x] = content /\ \A y \in DOMAIN f \ {x} : g[y] = f[y]
  BY DEF PutIn
<1> HIDE DEF g
<1>2. Elsewhere(f, g, x.obj)
  BY <1>1 DEF Elsewhere, Same
<1>. QED
  BY <1>1, <1>2 DEF g

\* What the model calls a write is a write of one directory.
LEMMA PutHere ==
  ASSUME NEW t, NEW x, NEW content
  PROVE  Put(t, x, content) = [files EXCEPT ![t] = PutIn(files[t], x, content)]
BY DEF Put, PutIn

\* A name of object o is renamed to another one of it.
LEMMA RenamedIs ==
  ASSUME NEW f, NEW o, NEW from \in DOMAIN f, NEW to, from.obj = o, to.obj = o, from # to
  PROVE  /\ DOMAIN Renamed(f, from, to) = (DOMAIN f \ {from}) \cup {to}
         /\ Renamed(f, from, to)[to] = f[from]
         /\ \A x \in DOMAIN f \ {from, to} : Renamed(f, from, to)[x] = f[x]
         /\ Elsewhere(f, Renamed(f, from, to), o)
<1> DEFINE g == Renamed(f, from, to)
<1>1. /\ DOMAIN g = (DOMAIN f \ {from}) \cup {to}
      /\ \A x \in DOMAIN g : g[x] = IF x = to THEN f[from] ELSE f[x]
  BY DEF Renamed
<1> HIDE DEF g
<1>2. Elsewhere(f, g, o)
  BY <1>1 DEF Elsewhere, Same
<1>3. g[to] = f[from] /\ \A x \in DOMAIN f \ {from, to} : g[x] = f[x]
  BY <1>1
<1>. QED
  BY <1>1, <1>2, <1>3 DEF g

\* Names of object o, and the field that says so.
LEMMA NamesOfObject ==
  \A o, n : /\ TempData(o, n).obj = o /\ TempMeta(o, n).obj = o
            /\ Data(o).obj = o /\ Meta(o).obj = o
  BY DEF TempData, TempMeta, Data, Meta

\* An open file has its name as long as the store is alone in the directory.
LEMMA NameIsOwn ==
  \A t, o : Alone(t) => NameNow(t, o) = {TempData(o, objects[t][o].nonce)}
BY DEF NameNow, Alone

\* A new object: an empty file under a name that was never used; or only the
\* name's number is spent.
LEMMA CreateObjectInv ==
  ASSUME StateInv, NEW t \in Stores, Alone(t), NEW o \in Objects, CreateObject(t, o)
  PROVE  StateInv'
<1> DEFINE n == store[t].nonce + 1
           f == files[t]
           old == objects[t][o]
           k == [NoObject EXCEPT !.state = "open", !.nonce = n]
           q == [store[t] EXCEPT !.nonce = n]
           x == TempData(o, n)
<1>1. /\ store[t].phase = "live" /\ n <= MaxNonce /\ old.state = "absent"
      /\ store' = [store EXCEPT ![t] = q]
      /\ UNCHANGED <<session, robbed, shared, faults>>
  BY DEF CreateObject, At
<1>2. \/ /\ session = store[t].fd /\ ~Has(t, Data(o)) /\ ~Has(t, Meta(o))
         /\ files' = Put(store[t].fd, x, <<>>)
         /\ objects' = [objects EXCEPT ![t][o] = k]
      \/ UNCHANGED <<files, objects>>
  BY DEF CreateObject, Linked
<1>3. store[t].phase \in Active
  BY <1>1 DEF Active
<1>4. /\ IsStore(store[t]) /\ store[t].fd = t /\ store[t].nonce \in 0..MaxNonce
      /\ store[t].used \in Int /\ store[t].used <= MaxBytes /\ Dir(t) = f
      /\ UsedOK(store[t].used, objects[t]) /\ IsFiniteSet(DOMAIN f)
      /\ old \in ObjectType /\ ObjectOK(t, o, old, f)
  BY <1>3, ActiveFacts
<1>5. n \in 1..MaxNonce /\ n \in Nat
  BY <1>1, <1>4, StateConstantsOK
<1>6. /\ IsStore(q) /\ q.phase = "live" /\ q.fd = t /\ q.nonce = n
      /\ q.again = store[t].again /\ q.cleaned = store[t].cleaned /\ q.used = store[t].used
  BY <1>1, <1>4 DEF IsStore, StoreFields
<1>7. /\ k \in ObjectType /\ k.state = "open" /\ k.length = 0 /\ k.chunks = 0 /\ k.nonce = n
  BY <1>5 DEF NoObject, ObjectType
<1>8. x.obj = o
  BY NamesOfObject
<1>9. faults' \in Nat
  BY <1>1, StoreFacts
<1>10. old.length = 0
  BY <1>1, <1>4 DEF UsedOK
<1> HIDE DEF n, k, q, x
<1>11. q.phase \in Active /\ q.nonce \in 0..MaxNonce /\ q.used <= MaxBytes
  BY <1>4, <1>5, <1>6 DEF Active
<1>12. \A m, g : SealingOK(q, m, g)
  BY <1>6 DEF SealingOK
<1>13. UNCHANGED session /\ UNCHANGED robbed /\ UNCHANGED shared
  BY <1>1
<1>14. store[t].phase = "live" /\ store' = [store EXCEPT ![t] = q]
  BY <1>1
<1>15. CASE UNCHANGED <<files, objects>>
  <2>1. files' = [files EXCEPT ![t] = f] /\ objects' = [objects EXCEPT ![t][o] = old]
    BY <1>15, StoreFacts
  <2>2. Elsewhere(f, f, o) /\ (t # session => DOMAIN f = {})
    BY StoreFacts DEF Elsewhere, Same
  <2>3. \A y \in DOMAIN f : ~Accounts(t, o, old, f, y)
    BY <1>1 DEF Accounts
  <2>4. Filed(t, q, o, old, f)
    BY <1>1 DEF Filed
  <2>5. q.used = store[t].used - old.length + old.length
    BY <1>4, <1>6, <1>10
  <2> HIDE DEF old, f
  <2>6. objects[t][o] = old /\ files[t] = f
    BY DEF old, f
  <2>. QED
    BY <1>1, <1>3, <1>4, <1>6, <1>9, <1>10, <1>11, <1>12, <1>13, <1>14, <2>1, <2>2, <2>3, <2>4,
       <2>5, <2>6, ObjectStep
<1>16. CASE /\ session = store[t].fd /\ ~Has(t, Data(o)) /\ ~Has(t, Meta(o))
            /\ files' = Put(store[t].fd, x, <<>>)
            /\ objects' = [objects EXCEPT ![t][o] = k]
  <2> DEFINE g == PutIn(f, x, <<>>)
  <2>1. Data(o) \notin DOMAIN f /\ Meta(o) \notin DOMAIN f /\ session = t
    BY <1>4, <1>16 DEF Has
  <2>2. /\ files' = [files EXCEPT ![t] = g]
        /\ DOMAIN g = DOMAIN f \cup {x}
        /\ g[x] = <<>> /\ \A y \in DOMAIN f \ {x} : g[y] = f[y]
        /\ Elsewhere(f, g, o)
    <3>1. files' = [files EXCEPT ![t] = g]
      BY <1>4, <1>16, PutHere
    <3>2. DOMAIN PutIn(f, x, <<>>) = DOMAIN f \cup {x}
      BY PutIs
    <3>3. PutIn(f, x, <<>>)[x] = <<>>
      BY PutIs
    <3>4. \A y \in DOMAIN f \ {x} : PutIn(f, x, <<>>)[y] = f[y]
      BY PutIs
    <3>5. Elsewhere(f, PutIn(f, x, <<>>), x.obj)
      BY PutIs
    <3> HIDE DEF f
    <3>. QED
      BY <1>8, <3>1, <3>2, <3>3, <3>4, <3>5
  <2> HIDE DEF g
  <2>3. x # Data(o) /\ x # Meta(o)
    BY <1>5, NamesDiffer DEF x
  <2>4. Right(<<>>, t, n, 0) /\ Grown(<<>>, t, n, 0)
    BY NoElements DEF Right, Grown
  <2>5. ObjectOK(t, o, k, g)
    BY <1>5, <1>7, <2>1, <2>2, <2>3, <2>4 DEF ObjectOK, x
  <2>6. ChunksOK(k)
    BY <1>7, StateConstantsOK DEF ChunksOK
  <2>7. Filed(t, q, o, k, g)
    <3>1. All(t, k) = <<>>
      BY <1>7, NoElements DEF All
    <3>. QED
      BY <1>7, <2>2, <3>1 DEF Filed, Under, x
  <2>8. ASSUME NEW y \in DOMAIN g, y.kind = "state"
        PROVE  Accounts(t, o, k, g, y) \/ (y \in DOMAIN f /\ ~Accounts(t, o, old, f, y))
    <3>1. CASE y = x
      BY <1>7, <2>2, <3>1 DEF Accounts, x
    <3>2. CASE y # x
      BY <1>1, <2>2, <3>2 DEF Accounts
    <3>. QED
      BY <3>1, <3>2
  <2>9. IsFiniteSet(DOMAIN g) /\ (t # session => DOMAIN g = {})
    BY <1>4, <2>1, <2>2, FewNames
  <2>10. q.used = store[t].used - old.length + k.length
    BY <1>4, <1>6, <1>7, <1>10
  <2>. QED
    BY <1>3, <1>6, <1>7, <1>9, <1>11, <1>12, <1>13, <1>14, <1>16, <2>2, <2>5, <2>6, <2>7, <2>8,
       <2>9, <2>10, ObjectStep
<1>. QED
  BY <1>2, <1>15, <1>16

\* Elements reach the end of the file, if its name is still there.
WrittenIn(f, o, t, k, j) ==
  IF TempData(o, k.nonce) \in DOMAIN f
    THEN PutIn(f, TempData(o, k.nonce),
               f[TempData(o, k.nonce)] \o Elements(t, k.nonce, k.length, j))
  ELSE f

IsWritten(g, f, o, t, k, j) ==
  /\ DOMAIN g = DOMAIN f
  /\ TempData(o, k.nonce) \in DOMAIN f =>
       g[TempData(o, k.nonce)] = f[TempData(o, k.nonce)] \o Elements(t, k.nonce, k.length, j)
  /\ \A y \in DOMAIN f \ {TempData(o, k.nonce)} : g[y] = f[y]
  /\ Elsewhere(f, g, o)

\* An append changes one file of the object, if it is there.
LEMMA WrittenIs == \A f, o, t, k, j : IsWritten(WrittenIn(f, o, t, k, j), f, o, t, k, j)
<1> TAKE f, o, t, k, j
<1> DEFINE x == TempData(o, k.nonce)
           content == f[x] \o Elements(t, k.nonce, k.length, j)
           g == WrittenIn(f, o, t, k, j)
<1>1. g = IF x \in DOMAIN f THEN PutIn(f, x, content) ELSE f
  BY DEF WrittenIn
<1>2. x.obj = o
  BY NamesOfObject
<1> HIDE DEF x, content, g
<1>4. /\ DOMAIN g = DOMAIN f
      /\ x \in DOMAIN f => g[x] = content
      /\ \A y \in DOMAIN f \ {x} : g[y] = f[y]
      /\ Elsewhere(f, g, o)
  <2>1. CASE x \in DOMAIN f
    <3>1. g = PutIn(f, x, content)
      BY <1>1, <2>1
    <3>2. DOMAIN PutIn(f, x, content) = DOMAIN f \cup {x}
      BY PutIs
    <3>3. PutIn(f, x, content)[x] = content
      BY PutIs
    <3>4. \A y \in DOMAIN f \ {x} : PutIn(f, x, content)[y] = f[y]
      BY PutIs
    <3>5. Elsewhere(f, PutIn(f, x, content), x.obj)
      BY PutIs
    <3>. QED
      BY <1>2, <2>1, <3>1, <3>2, <3>3, <3>4, <3>5
  <2>2. CASE x \notin DOMAIN f
    BY <1>1, <2>2 DEF Elsewhere, Same
  <2>. QED
    BY <2>1, <2>2
<1>. QED
  BY <1>4 DEF IsWritten, g, x, content

\* What the model calls an append is an append in one directory.
LEMMA WrittenHere ==
  ASSUME StateInv, NEW t \in Stores, Alone(t), NEW o \in Objects, store[t].phase = "live", NEW j
  PROVE  Written(t, o, j, TempData(o, objects[t][o].nonce))
           = [files EXCEPT ![t] = WrittenIn(files[t], o, t, objects[t][o], j)]
<1>1. store[t].phase \in Active
  BY DEF Active
<1>2. Dir(t) = files[t] /\ store[t].fd = t /\ files = [d \in Stores |-> files[d]]
  BY <1>1, ActiveFacts, StoreFacts
<1>3. CASE Has(t, TempData(o, objects[t][o].nonce))
  <2>1. Written(t, o, j, TempData(o, objects[t][o].nonce)) =
          Put(t, TempData(o, objects[t][o].nonce),
              files[t][TempData(o, objects[t][o].nonce)]
                \o Elements(t, objects[t][o].nonce, objects[t][o].length, j))
    BY <1>2, <1>3 DEF Written
  <2>. QED
    BY <1>2, <1>3, <2>1, PutHere DEF WrittenIn, Has
<1>4. CASE ~Has(t, TempData(o, objects[t][o].nonce))
  BY <1>2, <1>4 DEF WrittenIn, Has, Written
<1>. QED
  BY <1>3, <1>4

\* A chunk is counted.
LEMMA CountedOnward ==
  ASSUME NEW d \in ObjectType, NEW n \in Nat
  PROVE  LET k == [d EXCEPT !.length = @ + n, !.chunks = @ + 1]
         IN  /\ k \in ObjectType /\ k.state = d.state /\ k.length = d.length + n
             /\ k.chunks = d.chunks + 1 /\ k.nonce = d.nonce
<1> DEFINE len == d.length + n
           c == d.chunks + 1
           k == [d EXCEPT !.length = len, !.chunks = c]
<1>1. len \in Nat /\ c \in Nat
  BY DEF ObjectType
<1> HIDE DEF len, c
<1>2. /\ k \in ObjectType /\ k.state = d.state /\ k.length = len
      /\ k.chunks = c /\ k.nonce = d.nonce
  BY <1>1 DEF ObjectType
<1>. QED
  BY <1>2 DEF len, c

\* The chunks of an object are full but for its last one.
LEMMA NextChunk ==
  ASSUME NEW k \in ObjectType, ChunksOK(k), NEW n \in 1..ChunkSize,
         k.length + n <= Logical, FullChunks => n = ChunkSize \/ k.length + n = Logical,
         NEW k2, k2.length = k.length + n, k2.chunks = k.chunks + 1
  PROVE  ChunksOK(k2)
<1> DEFINE c == k.chunks
           full == c * ChunkSize
           more == (c + 1) * ChunkSize
<1>1. k.length \in Nat /\ c \in Nat /\ n \in Nat \ {0} /\ ChunkSize \in Nat /\ Logical \in Nat
  BY StateConstantsOK DEF ObjectType
<1>2. more = full + ChunkSize /\ full \in Nat /\ more \in Nat
  BY <1>1
<1>3. k2.chunks = c + 1 /\ (c + 1) - 1 = c /\ c + 1 >= 1
  BY <1>1
<1>4. FullChunks => k.length = full \/ k.length = Logical
  BY DEF ChunksOK
<1> HIDE DEF c, full, more
<1>5. FullChunks => k2.length = more \/ (k2.length = Logical /\ full <= Logical)
  BY <1>1, <1>2, <1>4
<1>6. FullChunks => \/ k2.length = k2.chunks * ChunkSize
                    \/ /\ k2.length = Logical
                       /\ k2.chunks >= 1
                       /\ (k2.chunks - 1) * ChunkSize <= Logical
  BY <1>3, <1>5 DEF full, more
<1>. QED
  BY <1>6 DEF ChunksOK

\* What an append leaves of the names of its object.
LEMMA AppendLeaves ==
  ASSUME StateInv, NEW t \in Stores, Alone(t), NEW o \in Objects, store[t].phase = "live",
         objects[t][o].state = "open", NEW j \in Nat, NEW k \in ObjectType,
         k.state = "open", k.nonce = objects[t][o].nonce,
         k.length \in {objects[t][o].length, objects[t][o].length + j}
  PROVE  ObjectOK(t, o, k, WrittenIn(files[t], o, t, objects[t][o], j))
<1> DEFINE f == files[t]
           old == objects[t][o]
           g == WrittenIn(f, o, t, old, j)
           x == TempData(o, old.nonce)
<1>1. store[t].phase \in Active
  BY DEF Active
<1>2. ObjectOK(t, o, old, f) /\ old \in ObjectType
  BY <1>1, ActiveFacts
<1>3. IsWritten(g, f, o, t, old, j)
  BY WrittenIs
<1> HIDE DEF g
<1>4. /\ DOMAIN g = DOMAIN f
      /\ x \in DOMAIN f => g[x] = f[x] \o Elements(t, old.nonce, old.length, j)
  BY <1>3 DEF IsWritten
<1>5. /\ old.nonce \in 1..MaxNonce /\ old.nonce \in Nat /\ old.length \in Nat
      /\ x \in DOMAIN f => Grown(f[x], t, old.nonce, old.length)
      /\ Data(o) \notin DOMAIN f /\ Meta(o) \notin DOMAIN f
  BY <1>2 DEF ObjectOK, ObjectType
<1>6. x \in DOMAIN f => /\ Grown(g[x], t, old.nonce, old.length + j)
                        /\ Grown(g[x], t, old.nonce, old.length)
  BY <1>4, <1>5, GrownOnward
<1>7. ObjectOK(t, o, k, g)
  BY <1>4, <1>5, <1>6 DEF ObjectOK, x
<1>. QED
  BY <1>7 DEF g

\* A chunk is appended and counted.
LEMMA AppendChunkInv ==
  ASSUME StateInv, NEW t \in Stores, Alone(t), NEW o \in Objects, NEW n \in 1..ChunkSize,
         AppendChunk(t, o, n)
  PROVE  StateInv'
<1> DEFINE f == files[t]
           old == objects[t][o]
           k == [old EXCEPT !.length = @ + n, !.chunks = @ + 1]
           q == [store[t] EXCEPT !.used = @ + n]
           x == TempData(o, old.nonce)
           g == WrittenIn(f, o, t, old, n)
<1>1. /\ store[t].phase = "live" /\ old.state = "open"
      /\ store[t].used + n <= MaxBytes /\ old.length + n <= Logical
      /\ FullChunks => n = ChunkSize \/ old.length + n = Logical
      /\ \E name \in NameNow(t, o) : files' = Written(t, o, n, name)
      /\ UNCHANGED <<session, robbed, shared, faults>>
  BY DEF AppendChunk, Appends, At, Fits
<1>2. store[t].phase \in Active
  BY <1>1 DEF Active
<1>3. /\ IsStore(store[t]) /\ store[t].fd = t /\ store[t].nonce \in 0..MaxNonce
      /\ store[t].used \in Int /\ old \in ObjectType /\ IsFiniteSet(DOMAIN f)
      /\ ObjectOK(t, o, old, f) /\ ChunksOK(old)
      /\ ~store[t].again /\ t \notin robbed => Filed(t, store[t], o, old, f)
  BY <1>1, <1>2, ActiveFacts
<1>4. n \in Nat /\ n >= 1 /\ old.length \in Nat /\ old.chunks \in Nat /\ old.nonce \in Nat
  BY <1>3, StateConstantsOK DEF ObjectType
<1>5. /\ objects' = [objects EXCEPT ![t][o] = k] /\ store' = [store EXCEPT ![t] = q]
  BY DEF AppendChunk
<1>6. /\ k \in ObjectType /\ k.state = "open" /\ k.length = old.length + n
      /\ k.chunks = old.chunks + 1 /\ k.nonce = old.nonce
  BY <1>1, <1>3, <1>4, CountedOnward
<1>7. /\ IsStore(q) /\ q.phase = "live" /\ q.fd = t /\ q.nonce = store[t].nonce
      /\ q.again = store[t].again /\ q.cleaned = store[t].cleaned /\ q.used = store[t].used + n
  BY <1>1, <1>3 DEF IsStore, StoreFields
<1>8. files' = [files EXCEPT ![t] = g]
  <2>1. files' = Written(t, o, n, x)
    BY <1>1, NameIsOwn
  <2> HIDE DEF g
  <2>3. Written(t, o, n, x) = [files EXCEPT ![t] = g]
    BY <1>1, WrittenHere DEF g
  <2>. QED
    BY <2>1, <2>3
<1>9. IsWritten(g, f, o, t, old, n)
  BY WrittenIs
<1> HIDE DEF k, q
<1>10. ObjectOK(t, o, k, g)
  BY <1>1, <1>4, <1>6, AppendLeaves
<1> HIDE DEF g
<1>11. /\ DOMAIN g = DOMAIN f
       /\ x \in DOMAIN f => g[x] = f[x] \o Elements(t, old.nonce, old.length, n)
       /\ Elsewhere(f, g, o)
  BY <1>9 DEF IsWritten
<1>14. ChunksOK(k)
  BY <1>1, <1>3, <1>6, NextChunk
<1>15. SealingOK(q, [objects[t] EXCEPT ![o] = k], g)
  BY <1>7 DEF SealingOK
<1>16. /\ Data(o) \notin DOMAIN f
       /\ x \in DOMAIN f => f[x] \in Seq(Cells)
  BY <1>1, <1>3 DEF ObjectOK, Grown
<1> HIDE DEF x
<1>17. ~q.again /\ t \notin robbed => Filed(t, q, o, k, g)
  <2> SUFFICES ASSUME ~q.again, t \notin robbed PROVE Filed(t, q, o, k, g)
    OBVIOUS
  <2>1. Under(f, x, All(t, old))
    BY <1>1, <1>3, <1>7 DEF Filed, x
  <2>2. g[x] = Elements(t, old.nonce, 0, old.length) \o Elements(t, old.nonce, old.length, n)
    BY <1>11, <2>1 DEF Under, All
  <2>3. g[x] = All(t, k)
    <3>1. All(t, k) = Elements(t, old.nonce, 0, old.length + n)
      BY <1>6 DEF All
    <3>2. Elements(t, old.nonce, 0, old.length) \o Elements(t, old.nonce, old.length, n)
            = Elements(t, old.nonce, 0, old.length + n)
      BY <1>4, ElementsConcatenate
    <3>. QED
      BY <2>2, <3>1, <3>2
  <2>. QED
    BY <1>6, <1>11, <2>1, <2>3 DEF Filed, Under, x
<1>18. ASSUME NEW y \in DOMAIN g, y.kind = "state"
       PROVE  Accounts(t, o, k, g, y) \/ (y \in DOMAIN f /\ ~Accounts(t, o, old, f, y))
  <2>1. SUFFICES ASSUME Accounts(t, o, old, f, y) PROVE Accounts(t, o, k, g, y)
    BY <1>11
  <2>2. y = x /\ Len(f[x]) = old.length /\ x \in DOMAIN f
    BY <1>16, <2>1 DEF Accounts, x
  <2>3. /\ Elements(t, old.nonce, old.length, n) \in Seq(Cells)
        /\ Len(Elements(t, old.nonce, old.length, n)) = n
    <3> DEFINE c == old.nonce
               l == old.length
    <3>1. c \in Nat /\ l \in Nat /\ n \in Nat
      BY <1>4
    <3> HIDE DEF c, l
    <3>2. Elements(t, c, l, n) \in Seq(Cells) /\ Len(Elements(t, c, l, n)) = n
      BY <3>1, ElementsAre
    <3>. QED
      BY <3>2 DEF c, l
  <2>4. Len(g[x]) = old.length + n
    <3> DEFINE a == f[x]
               b == Elements(t, old.nonce, old.length, n)
    <3>1. g[x] = a \o b /\ a \in Seq(Cells) /\ b \in Seq(Cells) /\ Len(a) = old.length /\ Len(b) = n
      BY <1>11, <1>16, <2>2, <2>3
    <3> HIDE DEF a, b
    <3>. QED
      BY <1>4, <3>1
  <2>. QED
    BY <1>6, <1>11, <2>2, <2>4 DEF Accounts, x
<1>19. /\ q.phase \in Active /\ q.nonce \in 0..MaxNonce /\ q.used <= MaxBytes
       /\ (t # session => DOMAIN g = {}) /\ faults' \in Nat
  BY <1>1, <1>3, <1>4, <1>7, <1>11, StoreFacts DEF Active
<1>22. q.used = store[t].used - old.length + k.length /\ IsFiniteSet(DOMAIN g)
  BY <1>3, <1>4, <1>6, <1>7, <1>11
<1>20. UNCHANGED <<session, robbed, shared>>
  BY <1>1
<1>21. store[t].phase = "live"
  BY <1>1
<1>. QED
  BY <1>2, <1>5, <1>6, <1>7, <1>8, <1>10, <1>11, <1>14, <1>15, <1>17, <1>18, <1>19, <1>20,
     <1>21, <1>22, ObjectStep

\* A write that stops: some of the chunk is in the file and nothing is counted.
LEMMA AppendTornInv ==
  ASSUME StateInv, NEW t \in Stores, Alone(t), NEW o \in Objects, NEW n \in 1..ChunkSize,
         AppendTorn(t, o, n)
  PROVE  StateInv'
<1> DEFINE f == files[t]
           old == objects[t][o]
<1>1. /\ store[t].phase = "live" /\ old.state = "open"
      /\ Fault /\ Stumbles(t, store[t])
      /\ UNCHANGED <<session, objects, robbed, shared>>
  BY DEF AppendTorn, Appends, At
<1>2. PICK j \in 0..(n - 1) : files' = Written(t, o, j, TempData(o, old.nonce))
  BY NameIsOwn DEF AppendTorn
<1>3. j \in Nat
  BY <1>2, StateConstantsOK
<1>4. store[t].phase \in Active
  BY <1>1 DEF Active
<1>5. /\ IsStore(store[t]) /\ store[t].fd = t /\ store[t].nonce \in 0..MaxNonce
      /\ store[t].used \in Int /\ store[t].used <= MaxBytes /\ store[t].again \in BOOLEAN
      /\ old \in ObjectType /\ ChunksOK(old) /\ IsFiniteSet(DOMAIN f)
  BY <1>1, <1>4, ActiveFacts
<1> DEFINE g == WrittenIn(f, o, t, old, j)
<1>6. files' = [files EXCEPT ![t] = g]
  BY <1>1, <1>2, WrittenHere
<1>7. IsWritten(g, f, o, t, old, j)
  BY WrittenIs
<1>9. ObjectOK(t, o, old, g)
  BY <1>1, <1>3, <1>5, AppendLeaves
<1> HIDE DEF g
<1>8. DOMAIN g = DOMAIN f /\ Elsewhere(f, g, o)
  BY <1>7 DEF IsWritten
<1>10. faults' \in Nat
  BY <1>1, FaultCounts
<1>11. objects' = [objects EXCEPT ![t][o] = old]
  BY <1>1, StoreFacts
<1>12. t # session => DOMAIN g = {}
  BY <1>8, StoreFacts
<1>13. UNCHANGED <<session, robbed, shared>>
  BY <1>1
<1>14. store[t].used = store[t].used - old.length + old.length /\ IsFiniteSet(DOMAIN g)
  BY <1>5, <1>8 DEF ObjectType
<1>. QED
  BY <1>1, <1>4, <1>5, <1>6, <1>8, <1>9, <1>10, <1>11, <1>12, <1>13, <1>14, StumbleStep

\* The data cannot be synced or read.
LEMMA SealStopsInv ==
  ASSUME StateInv, NEW t \in Stores, Alone(t), NEW o \in Objects, SealStops(t, o)
  PROVE  StateInv'
<1> DEFINE f == files[t]
           old == objects[t][o]
<1>1. /\ store[t].phase = "live" /\ Fault /\ Stumbles(t, store[t])
      /\ UNCHANGED <<session, files, objects, robbed, shared>>
  BY DEF SealStops, At
<1>2. store[t].phase \in Active
  BY <1>1 DEF Active
<1>3. /\ IsStore(store[t]) /\ store[t].fd = t /\ store[t].nonce \in 0..MaxNonce
      /\ store[t].used \in Int /\ store[t].used <= MaxBytes /\ store[t].again \in BOOLEAN
      /\ old \in ObjectType /\ ObjectOK(t, o, old, f) /\ IsFiniteSet(DOMAIN f)
      /\ UsedOK(store[t].used, objects[t])
      /\ old.state # "absent" => ChunksOK(old)
  BY <1>2, ActiveFacts
<1>4. files' = [files EXCEPT ![t] = f] /\ objects' = [objects EXCEPT ![t][o] = old]
  BY <1>1, StoreFacts
<1>5. Elsewhere(f, f, o) /\ (t # session => DOMAIN f = {})
  BY StoreFacts DEF Elsewhere, Same
<1>6. faults' \in Nat
  BY <1>1, FaultCounts
<1>7. /\ store[t].used = store[t].used - old.length + old.length
      /\ old.state = "absent" => old.length = 0
  BY <1>3 DEF ObjectType, UsedOK
<1>8. UNCHANGED <<session, robbed, shared>>
  BY <1>1
<1>. QED
  BY <1>1, <1>2, <1>3, <1>4, <1>5, <1>6, <1>7, <1>8, StumbleStep

\* What sealing an object leaves of its names: its data under the temporary
\* name, and maybe something under a name that only a manifest may have.
LEMMA SealLeaves ==
  ASSUME NEW t, NEW o, NEW f, NEW g, NEW old \in ObjectType, NEW k, NEW n \in 1..MaxNonce,
         ObjectOK(t, o, old, f), old.state = "open",
         k.state = "sealed", k.length = old.length, k.nonce = old.nonce,
         DOMAIN g \subseteq DOMAIN f \cup {TempMeta(o, n)},
         \A x \in DOMAIN g \ {TempMeta(o, n)} : g[x] = f[x]
  PROVE  ObjectOK(t, o, k, g)
<1>1. /\ old.nonce \in 1..MaxNonce
      /\ TempData(o, old.nonce) \in DOMAIN f =>
           Grown(f[TempData(o, old.nonce)], t, old.nonce, old.length)
      /\ Data(o) \notin DOMAIN f /\ Meta(o) \notin DOMAIN f
  BY DEF ObjectOK
<1>2. n # 0
  BY StateConstantsOK
<1>3. /\ Meta(o) # TempMeta(o, n) /\ Data(o) # TempMeta(o, n)
      /\ TempData(o, old.nonce) # TempMeta(o, n)
  BY <1>2, NamesDiffer
<1>. QED
  BY <1>1, <1>3 DEF ObjectOK

\* The object counts as sealed; its manifest is written, or not.
LEMMA SealManifestInv ==
  ASSUME StateInv, NEW t \in Stores, Alone(t), NEW o \in Objects, SealManifest(t, o)
  PROVE  StateInv'
<1> DEFINE n == store[t].nonce + 1
           f == files[t]
           old == objects[t][o]
           k == [old EXCEPT !.state = "sealed"]
           r == [store[t] EXCEPT !.nonce = n, !.obj = o]
           q == [r EXCEPT !.phase = "sealing"]
           x == TempMeta(o, n)
           content == Manifest(t, o, TempData(o, old.nonce))
           write(c) == PutIn(f, x, c)
<1>1. /\ store[t].phase = "live" /\ n <= MaxNonce /\ old.state = "open"
      /\ UNCHANGED <<session, robbed, shared>>
  BY DEF SealManifest, At
<1>2. \/ /\ session = store[t].fd
         /\ files' = Put(store[t].fd, x, content)
         /\ store' = [store EXCEPT ![t] = q]
         /\ UNCHANGED faults
      \/ /\ files' = files \/ (session = store[t].fd /\ files' = Put(store[t].fd, x, Torn))
         /\ Stumbles(t, r)
         /\ UNCHANGED faults \/ Fault
  BY NameIsOwn DEF SealManifest, Linked
<1>3. store[t].phase \in Active
  BY <1>1 DEF Active
<1>4. /\ IsStore(store[t]) /\ store[t].fd = t /\ store[t].nonce \in 0..MaxNonce
      /\ store[t].again \in BOOLEAN
      /\ store[t].used \in Int /\ store[t].used <= MaxBytes /\ IsFiniteSet(DOMAIN f)
      /\ old \in ObjectType /\ ObjectOK(t, o, old, f) /\ ChunksOK(old) /\ Dir(t) = f
      /\ ~store[t].again /\ t \notin robbed => Filed(t, store[t], o, old, f)
  BY <1>1, <1>3, ActiveFacts
<1>5. n \in 1..MaxNonce
  BY <1>1, <1>4, StateConstantsOK
<1>6. /\ k \in ObjectType /\ k.state = "sealed" /\ k.length = old.length
      /\ k.nonce = old.nonce /\ k.chunks = old.chunks
  <2> DEFINE d == old
  <2>1. d \in ObjectType
    BY <1>4
  <2> HIDE DEF d
  <2>2. LET e == [d EXCEPT !.state = "sealed"]
        IN  /\ e \in ObjectType /\ e.state = "sealed" /\ e.length = d.length
            /\ e.nonce = d.nonce /\ e.chunks = d.chunks
    BY <2>1 DEF ObjectType
  <2>. QED
    BY <2>2 DEF d
<1>7. objects' = [objects EXCEPT ![t][o] = k]
  BY DEF SealManifest
<1>8. /\ IsStore(r) /\ r.fd = t /\ r.nonce = n /\ r.again = store[t].again
      /\ r.cleaned = store[t].cleaned /\ r.used = store[t].used
      /\ IsStore(q) /\ q.fd = t /\ q.nonce = n /\ q.again = store[t].again
      /\ q.cleaned = store[t].cleaned /\ q.used = store[t].used /\ q.obj = o
      /\ q.phase = "sealing"
  <2> HIDE DEF n
  <2>1. /\ IsStore(r) /\ r.fd = t /\ r.nonce = n /\ r.again = store[t].again
        /\ r.cleaned = store[t].cleaned /\ r.used = store[t].used /\ r.obj = o
    BY <1>4 DEF IsStore, StoreFields
  <2> HIDE DEF r
  <2>. QED
    BY <2>1 DEF IsStore, StoreFields
<1>9. ChunksOK(k)
  BY <1>1, <1>4, <1>6 DEF ChunksOK
<1>10. faults' \in Nat
  BY <1>2, FaultCounts
<1>11. content = [length |-> old.length, chunks |-> old.chunks,
                  sum |-> IF TempData(o, old.nonce) \in DOMAIN f THEN f[TempData(o, old.nonce)]
                          ELSE <<>>, whole |-> TRUE]
  BY <1>4 DEF Manifest, Has
<1>12. x.obj = o
  BY NamesOfObject
<1> HIDE DEF n, k, r, q, content
<1>13. ASSUME NEW c
       PROVE  /\ DOMAIN write(c) = DOMAIN f \cup {x} /\ write(c)[x] = c
              /\ \A y \in DOMAIN f \ {x} : write(c)[y] = f[y]
              /\ Elsewhere(f, write(c), o)
  <2>1. DOMAIN PutIn(f, x, c) = DOMAIN f \cup {x}
    BY PutIs
  <2>2. PutIn(f, x, c)[x] = c
    BY PutIs
  <2>3. \A y \in DOMAIN f \ {x} : PutIn(f, x, c)[y] = f[y]
    BY PutIs
  <2>4. Elsewhere(f, PutIn(f, x, c), x.obj)
    BY PutIs
  <2>. QED
    BY <1>12, <2>1, <2>2, <2>3, <2>4
<1>14. \A c : Put(store[t].fd, x, c) = [files EXCEPT ![t] = write(c)]
  BY <1>4, PutHere
<1>15. ASSUME NEW c PROVE ObjectOK(t, o, k, write(c))
  <2> DEFINE g == write(c)
  <2>1. DOMAIN g = DOMAIN f \cup {x} /\ \A y \in DOMAIN f \ {x} : g[y] = f[y]
    BY <1>13
  <2> HIDE DEF write
  <2>. QED
    BY <1>1, <1>4, <1>5, <1>6, <2>1, SealLeaves
<1>16. ObjectOK(t, o, k, f)
  BY <1>1, <1>4, <1>5, <1>6, SealLeaves
<1>17. UNCHANGED session /\ UNCHANGED robbed /\ UNCHANGED shared /\ store[t].phase = "live"
  BY <1>1
<1>20. \A c : IsFiniteSet(DOMAIN write(c))
  BY <1>4, <1>13, FewNames
<1>21. old.length \in Nat
  BY <1>4 DEF ObjectType
<1>22. /\ q.used = store[t].used - old.length + k.length
       /\ r.used = store[t].used - old.length + k.length
  BY <1>4, <1>6, <1>8, <1>21
<1> HIDE DEF write
<1>18. CASE /\ session = store[t].fd
            /\ files' = Put(store[t].fd, x, content)
            /\ store' = [store EXCEPT ![t] = q]
  <2> DEFINE g == write(content)
  <2>1. files' = [files EXCEPT ![t] = g] /\ session = t
    BY <1>4, <1>14, <1>18
  <2>2. /\ DOMAIN g = DOMAIN f \cup {x} /\ g[x] = content
        /\ \A y \in DOMAIN f \ {x} : g[y] = f[y]
        /\ Elsewhere(f, g, o)
    BY <1>13
  <2>3. ObjectOK(t, o, k, g)
    BY <1>15
  <2> HIDE DEF g
  <2>4. x # TempData(o, old.nonce) /\ x.kind = "meta" /\ x # Data(o)
    BY NamesDiffer
  <2>5. SealingOK(q, [objects[t] EXCEPT ![o] = k], g)
    <3>1. [objects[t] EXCEPT ![o] = k][o] = k
      BY StoreFacts
    <3>2. content.length = k.length /\ n >= 1
      BY <1>5, <1>6, <1>11, StateConstantsOK
    <3>. QED
      BY <1>6, <1>8, <2>2, <3>1, <3>2 DEF SealingOK
  <2>6. ~q.again /\ t \notin robbed => Filed(t, q, o, k, g)
    <3> SUFFICES ASSUME ~q.again, t \notin robbed PROVE Filed(t, q, o, k, g)
      OBVIOUS
    <3>1. Under(f, TempData(o, old.nonce), All(t, old))
      BY <1>1, <1>4, <1>8 DEF Filed
    <3>2. All(t, k) = All(t, old)
      BY <1>6 DEF All
    <3>3. Under(g, TempData(o, k.nonce), All(t, k))
      BY <1>6, <2>2, <2>4, <3>1, <3>2 DEF Under
    <3>4. content = ManifestOf(t, k)
      BY <1>6, <1>11, <3>1, <3>2 DEF Under, ManifestOf
    <3>5. Under(g, TempMeta(o, q.nonce), ManifestOf(t, k))
      BY <1>8, <2>2, <3>4 DEF Under
    <3>. QED
      BY <1>6, <1>8, <3>3, <3>5 DEF Filed
  <2>7. ASSUME NEW y \in DOMAIN g, y.kind = "state"
        PROVE  Accounts(t, o, k, g, y) \/ (y \in DOMAIN f /\ ~Accounts(t, o, old, f, y))
    <3>1. y \in DOMAIN f /\ g[y] = f[y]
      BY <2>2, <2>4, <2>7
    <3>2. TempData(o, k.nonce) \in DOMAIN g <=> TempData(o, old.nonce) \in DOMAIN f
      BY <1>6, <2>2, <2>4
    <3>. QED
      BY <1>6, <2>7, <3>1, <3>2 DEF Accounts
  <2>8. /\ q.phase \in Active /\ q.nonce \in 0..MaxNonce /\ q.used <= MaxBytes
        /\ (t # session => DOMAIN g = {})
        /\ IsFiniteSet(DOMAIN g)
    BY <1>4, <1>5, <1>8, <1>20, <2>1 DEF Active, g
  <2>9. store' = [store EXCEPT ![t] = q] /\ UNCHANGED <<session, robbed, shared>>
    BY <1>1, <1>18
  <2>. QED
    BY <1>3, <1>6, <1>7, <1>8, <1>9, <1>10, <1>17, <1>22, <2>1, <2>2, <2>3, <2>5, <2>6, <2>7,
       <2>8, <2>9, ObjectStep
<1>19. CASE /\ files' = files \/ (session = store[t].fd /\ files' = Put(store[t].fd, x, Torn))
            /\ Stumbles(t, r)
  <2>1. /\ r.nonce \in 0..MaxNonce /\ r.again \in BOOLEAN /\ r.used <= MaxBytes
        /\ Stumbles(t, r) /\ UNCHANGED <<session, robbed, shared>>
    BY <1>1, <1>4, <1>5, <1>8, <1>19
  <2>2. ASSUME NEW g, files' = [files EXCEPT ![t] = g], Elsewhere(f, g, o),
               t # session => DOMAIN g = {}, IsFiniteSet(DOMAIN g), ObjectOK(t, o, k, g)
        PROVE  StateInv'
    BY <1>3, <1>6, <1>7, <1>8, <1>9, <1>10, <1>22, <2>1, <2>2, StumbleStep
  <2>3. CASE files' = files
    <3>1. /\ files' = [files EXCEPT ![t] = f] /\ Elsewhere(f, f, o)
          /\ (t # session => DOMAIN f = {})
      BY <2>3, StoreFacts DEF Elsewhere, Same
    <3>. QED
      BY <1>4, <1>16, <2>2, <3>1
  <2>4. CASE session = store[t].fd /\ files' = Put(store[t].fd, x, Torn)
    <3> DEFINE g == write(Torn)
    <3>1. files' = [files EXCEPT ![t] = g] /\ t = session
      BY <1>4, <1>14, <2>4
    <3>2. Elsewhere(f, g, o) /\ ObjectOK(t, o, k, g) /\ IsFiniteSet(DOMAIN g)
      BY <1>13, <1>15, <1>20
    <3> HIDE DEF g
    <3>. QED
      BY <2>2, <3>1, <3>2
  <2>. QED
    BY <1>19, <2>3, <2>4
<1>. QED
  BY <1>2, <1>18, <1>19

\* An object that is being sealed.
LEMMA SealingFacts ==
  ASSUME StateInv, NEW t \in Stores, Alone(t), store[t].phase \in {"sealing", "renamed"}
  PROVE  /\ store[t].phase \in Active /\ store[t].obj \in Objects
         /\ objects[t][store[t].obj].state = "sealed" /\ store[t].nonce >= 1
         /\ objects[t][store[t].obj].nonce \in 1..MaxNonce
         /\ store[t].nonce # 0 /\ objects[t][store[t].obj].nonce # 0
<1>1. store[t].phase \in Active
  BY DEF Active
<1>2. /\ SealingOK(store[t], objects[t], files[t]) /\ store[t].nonce \in 0..MaxNonce
      /\ \A o \in Objects : ObjectOK(t, o, objects[t][o], files[t])
  BY <1>1, ActiveFacts
<1>3. /\ store[t].obj \in Objects /\ objects[t][store[t].obj].state = "sealed"
      /\ store[t].nonce >= 1
  BY <1>2 DEF SealingOK
<1>4. objects[t][store[t].obj].nonce \in 1..MaxNonce
  BY <1>2, <1>3 DEF ObjectOK
<1>. QED
  BY <1>1, <1>2, <1>3, <1>4, StateConstantsOK

\* A rename that fails.
LEMMA SealStumbles ==
  ASSUME StateInv, NEW t \in Stores, Alone(t), store[t].phase \in {"sealing", "renamed"},
         Stumbles(t, store[t]), UNCHANGED <<session, objects, robbed, shared>>, faults' \in Nat,
         NEW g, files' = [files EXCEPT ![t] = g], Elsewhere(files[t], g, store[t].obj),
         t # session => DOMAIN g = {}, IsFiniteSet(DOMAIN g),
         ObjectOK(t, store[t].obj, objects[t][store[t].obj], g)
  PROVE  StateInv'
<1> DEFINE o == store[t].obj
<1>1. store[t].phase \in Active /\ o \in Objects /\ objects[t][o].state = "sealed"
  BY SealingFacts
<1>2. /\ IsStore(store[t]) /\ store[t].fd = t /\ store[t].nonce \in 0..MaxNonce
      /\ store[t].again \in BOOLEAN /\ store[t].used \in Int /\ store[t].used <= MaxBytes
      /\ objects[t][o] \in ObjectType /\ ChunksOK(objects[t][o])
  BY <1>1, ActiveFacts
<1>3. objects' = [objects EXCEPT ![t][o] = objects[t][o]]
  BY StoreFacts
<1>4. store[t].used = store[t].used - objects[t][o].length + objects[t][o].length
  BY <1>2 DEF ObjectType
<1>. QED
  BY <1>1, <1>2, <1>3, <1>4, StumbleStep

\* The data takes its final name.
LEMMA SealDataInv ==
  ASSUME StateInv, NEW t \in Stores, Alone(t), SealData(t)
  PROVE  StateInv'
<1> DEFINE f == files[t]
           o == store[t].obj
           k == objects[t][o]
           q == [store[t] EXCEPT !.phase = "renamed"]
           from == TempData(o, k.nonce)
           to == Data(o)
<1>1. /\ store[t].phase = "sealing" /\ SealRename(t, from, to, q)
      /\ UNCHANGED <<session, objects, robbed, shared>>
  BY DEF SealData, At
<1>2. /\ store[t].phase \in Active /\ o \in Objects /\ k.state = "sealed"
      /\ store[t].nonce >= 1 /\ k.nonce \in 1..MaxNonce /\ k.nonce # 0
  BY <1>1, SealingFacts
<1>3. /\ IsStore(store[t]) /\ store[t].fd = t /\ store[t].nonce \in 0..MaxNonce
      /\ store[t].again \in BOOLEAN
      /\ store[t].used \in Int /\ store[t].used <= MaxBytes /\ IsFiniteSet(DOMAIN f)
      /\ k \in ObjectType /\ ObjectOK(t, o, k, f) /\ ChunksOK(k) /\ Dir(t) = f
      /\ SealingOK(store[t], objects[t], f)
      /\ ~store[t].again /\ t \notin robbed => Filed(t, store[t], o, k, f)
      /\ ~store[t].again => \A x \in DOMAIN f :
           x.kind = "state" => \E p \in Objects : Accounts(t, p, objects[t][p], f, x)
  BY <1>2, ActiveFacts
<1>4. /\ IsStore(q) /\ q.fd = t /\ q.nonce = store[t].nonce /\ q.again = store[t].again
      /\ q.cleaned = store[t].cleaned /\ q.used = store[t].used /\ q.obj = o
      /\ q.phase = "renamed"
  BY <1>3 DEF IsStore, StoreFields
<1>5. objects' = [objects EXCEPT ![t][o] = k]
  BY <1>1, StoreFacts
<1>6. from.obj = o /\ to.obj = o
  BY NamesOfObject
<1>7. /\ from # to /\ from # Meta(o) /\ from # TempMeta(o, store[t].nonce)
      /\ to # Meta(o) /\ to # TempMeta(o, store[t].nonce)
      /\ from.kind = "state" /\ to.kind = "state"
  BY <1>2, NamesDiffer
<1>8. \/ /\ from \in DOMAIN f
         /\ files' = [files EXCEPT ![t] = Renamed(f, from, to)]
         /\ store' = [store EXCEPT ![t] = q]
         /\ UNCHANGED faults
      \/ /\ Stumbles(t, store[t]) /\ UNCHANGED files
         /\ UNCHANGED faults \/ Fault
  BY <1>1, <1>3 DEF SealRename, Has
<1>9. faults' \in Nat
  BY <1>8, FaultCounts
<1> DEFINE g == Renamed(f, from, to)
<1>10. ASSUME from \in DOMAIN f
       PROVE  /\ DOMAIN g = (DOMAIN f \ {from}) \cup {to}
              /\ g[to] = f[from]
              /\ \A x \in DOMAIN f \ {from, to} : g[x] = f[x]
              /\ Elsewhere(f, g, o)
  <2> HIDE DEF from, to, f, o
  <2>. QED
    BY <1>6, <1>7, <1>10, RenamedIs
<1>11. UNCHANGED session /\ UNCHANGED robbed /\ UNCHANGED shared
  BY <1>1
<1>12. SealingOK(q, objects[t], g) <=> SealingOK(q, [objects[t] EXCEPT ![o] = k], g)
  <2>1. objects[t] = [objects[t] EXCEPT ![o] = k]
    BY StoreFacts
  <2>. QED
    BY <2>1
<1> HIDE DEF q, g
<1>13. CASE /\ from \in DOMAIN f
            /\ files' = [files EXCEPT ![t] = g]
            /\ store' = [store EXCEPT ![t] = q]
  <2>1. /\ DOMAIN g = (DOMAIN f \ {from}) \cup {to}
        /\ g[to] = f[from]
        /\ \A x \in DOMAIN f \ {from, to} : g[x] = f[x]
        /\ Elsewhere(f, g, o)
    BY <1>10, <1>13
  <2>2. from \notin DOMAIN g
    BY <1>7, <2>1
  <2>3. ObjectOK(t, o, k, g)
    BY <1>2, <1>3, <1>7, <1>13, <2>1, <2>2 DEF ObjectOK, Grown
  <2>4. SealingOK(q, objects[t], g)
    <3>1. TempMeta(o, q.nonce) \in DOMAIN g =>
            /\ TempMeta(o, q.nonce) \in DOMAIN f
            /\ g[TempMeta(o, q.nonce)] = f[TempMeta(o, q.nonce)]
      BY <1>4, <1>7, <2>1
    <3>. QED
      BY <1>1, <1>2, <1>3, <1>4, <3>1 DEF SealingOK
  <2>5. ~q.again /\ t \notin robbed => Filed(t, q, o, k, g)
    <3> SUFFICES ASSUME ~q.again, t \notin robbed PROVE Filed(t, q, o, k, g)
      OBVIOUS
    <3>1. /\ Under(f, from, All(t, k))
          /\ Under(f, TempMeta(o, store[t].nonce), ManifestOf(t, k))
      BY <1>1, <1>2, <1>3, <1>4 DEF Filed
    <3>2. Under(g, to, All(t, k))
      BY <2>1, <3>1 DEF Under
    <3>3. Under(g, TempMeta(o, q.nonce), ManifestOf(t, k))
      <4> DEFINE z == TempMeta(o, store[t].nonce)
      <4>1. z \in DOMAIN f /\ f[z] = ManifestOf(t, k) /\ z # from /\ z # to
        BY <1>7, <3>1 DEF Under
      <4> HIDE DEF z
      <4>2. z \in DOMAIN g /\ g[z] = f[z]
        BY <2>1, <4>1
      <4>3. TempMeta(o, q.nonce) = z
        BY <1>4 DEF z
      <4>. QED
        BY <4>1, <4>2, <4>3 DEF Under
    <3>. QED
      BY <1>2, <1>4, <3>2, <3>3 DEF Filed
  <2>6. ASSUME ~q.again, NEW y \in DOMAIN g, y.kind = "state"
        PROVE  Accounts(t, o, k, g, y) \/ (y \in DOMAIN f /\ ~Accounts(t, o, k, f, y))
    <3>1. CASE y = to
      <4>1. PICK p \in Objects : Accounts(t, p, objects[t][p], f, from)
        BY <1>3, <1>4, <1>7, <1>13, <2>6
      <4>2. p = o
        BY <4>1, NamesDiffer DEF Accounts
      <4>3. Len(f[from]) = k.length
        BY <4>1, <4>2 DEF Accounts
      <4>. QED
        BY <1>2, <2>1, <2>2, <3>1, <4>3 DEF Accounts
    <3>2. CASE y # to
      BY <2>1, <2>2, <3>2 DEF Accounts
    <3>. QED
      BY <3>1, <3>2
  <2>7. /\ q.phase \in Active /\ q.nonce \in 0..MaxNonce /\ q.used <= MaxBytes
        /\ (t # session => DOMAIN g = {})
    <3>1. t = session
      BY <1>13, StoreFacts
    <3>. QED
      BY <1>3, <1>4, <3>1 DEF Active
  <2>11. q.used = store[t].used - k.length + k.length
    BY <1>3, <1>4 DEF ObjectType
  <2>12. IsFiniteSet(DOMAIN g)
    <3>1. DOMAIN g \subseteq DOMAIN f \cup {to}
      BY <2>1
    <3> HIDE DEF to
    <3>. QED
      BY <1>3, <3>1, FewNames
  <2> HIDE DEF o, k
  <2>8. SealingOK(q, [objects[t] EXCEPT ![o] = k], g)
    BY <1>12, <2>4
  <2>9. files' = [files EXCEPT ![t] = g] /\ store' = [store EXCEPT ![t] = q]
    BY <1>13
  <2>10. store[t].obj = o /\ objects[t][o] = k
    BY DEF o, k
  <2>. QED
    BY <1>2, <1>3, <1>4, <1>5, <1>9, <1>11, <2>1, <2>3, <2>5, <2>6, <2>7, <2>8, <2>9, <2>10,
       <2>11, <2>12, ObjectStep
<1>14. CASE Stumbles(t, store[t]) /\ UNCHANGED files
  <2>1. /\ files' = [files EXCEPT ![t] = f] /\ Elsewhere(f, f, o)
        /\ (t # session => DOMAIN f = {})
    BY <1>14, StoreFacts DEF Elsewhere, Same
  <2>. QED
    BY <1>1, <1>3, <1>9, <1>14, <2>1, SealStumbles
<1>. QED
  BY <1>8, <1>13, <1>14 DEF g

\* The manifest takes its final name.
LEMMA SealMetaInv ==
  ASSUME StateInv, NEW t \in Stores, Alone(t), SealMeta(t)
  PROVE  StateInv'
<1> DEFINE f == files[t]
           o == store[t].obj
           k == objects[t][o]
           q == [store[t] EXCEPT !.phase = "live"]
           from == TempMeta(o, store[t].nonce)
           to == Meta(o)
           g == Renamed(f, from, to)
<1>1. store[t].phase = "renamed" /\ UNCHANGED <<session, objects, robbed, shared>>
  BY DEF SealMeta, At
<1>2. /\ store[t].phase \in Active /\ o \in Objects /\ k.state = "sealed"
      /\ store[t].nonce >= 1 /\ k.nonce \in 1..MaxNonce /\ store[t].nonce # 0
  BY <1>1, SealingFacts
<1>3. /\ IsStore(store[t]) /\ store[t].fd = t /\ store[t].nonce \in 0..MaxNonce
      /\ store[t].used \in Int /\ store[t].used <= MaxBytes /\ IsFiniteSet(DOMAIN f)
      /\ k \in ObjectType /\ ObjectOK(t, o, k, f) /\ ChunksOK(k) /\ Dir(t) = f
      /\ SealingOK(store[t], objects[t], f)
      /\ ~store[t].again /\ t \notin robbed => Filed(t, store[t], o, k, f)
  BY <1>2, ActiveFacts
<1>4. /\ IsStore(q) /\ q.fd = t /\ q.nonce = store[t].nonce /\ q.again = store[t].again
      /\ q.cleaned = store[t].cleaned /\ q.used = store[t].used /\ q.phase = "live"
  BY <1>3 DEF IsStore, StoreFields
<1>5. objects' = [objects EXCEPT ![t][o] = k]
  BY <1>1, StoreFacts
<1>6. from.obj = o /\ to.obj = o
  BY NamesOfObject
<1>7. /\ from # to /\ from # Data(o) /\ from # TempData(o, k.nonce)
      /\ to # Data(o) /\ to # TempData(o, k.nonce)
      /\ from.kind = "meta" /\ to.kind = "meta"
  BY <1>2, NamesDiffer
<1>8. \/ /\ from \in DOMAIN f
         /\ files' = [files EXCEPT ![t] = g]
         /\ store' = [store EXCEPT ![t] = q]
         /\ UNCHANGED faults
      \/ /\ from \in DOMAIN f /\ Fault
         /\ files' = [files EXCEPT ![t] = g]
         /\ Stumbles(t, store[t])
      \/ /\ Stumbles(t, store[t]) /\ UNCHANGED files
         /\ UNCHANGED faults \/ Fault
  BY <1>3 DEF SealMeta, SealRename, Has
<1>9. faults' \in Nat
  BY <1>8, FaultCounts
<1>10. ASSUME from \in DOMAIN f
       PROVE  /\ DOMAIN g = (DOMAIN f \ {from}) \cup {to}
              /\ g[to] = f[from]
              /\ \A x \in DOMAIN f \ {from, to} : g[x] = f[x]
              /\ Elsewhere(f, g, o)
  <2> HIDE DEF from, to, f, o
  <2>. QED
    BY <1>6, <1>7, <1>10, RenamedIs
<1>11. UNCHANGED session /\ UNCHANGED robbed /\ UNCHANGED shared
  BY <1>1
<1> HIDE DEF q, g
<1>12. ASSUME from \in DOMAIN f
       PROVE  ObjectOK(t, o, k, g) /\ (t # session => DOMAIN g = {}) /\ IsFiniteSet(DOMAIN g)
  <2>1. f[from].length = k.length
    BY <1>1, <1>3, <1>12 DEF SealingOK
  <2>2. ObjectOK(t, o, k, g)
    BY <1>2, <1>3, <1>7, <1>10, <1>12, <2>1 DEF ObjectOK
  <2>3. t = session
    BY <1>12, StoreFacts
  <2>4. DOMAIN g \subseteq DOMAIN f \cup {to}
    BY <1>10, <1>12
  <2> HIDE DEF to
  <2>5. IsFiniteSet(DOMAIN g)
    BY <1>3, <2>4, FewNames
  <2>. QED
    BY <2>2, <2>3, <2>5
<1>13. CASE /\ from \in DOMAIN f
            /\ files' = [files EXCEPT ![t] = g]
            /\ store' = [store EXCEPT ![t] = q]
  <2>1. /\ DOMAIN g = (DOMAIN f \ {from}) \cup {to}
        /\ g[to] = f[from]
        /\ \A x \in DOMAIN f \ {from, to} : g[x] = f[x]
        /\ Elsewhere(f, g, o)
    BY <1>10, <1>13
  <2>2. ObjectOK(t, o, k, g) /\ (t # session => DOMAIN g = {}) /\ IsFiniteSet(DOMAIN g)
    BY <1>12, <1>13
  <2>3. ~q.again /\ t \notin robbed => Filed(t, q, o, k, g)
    <3> SUFFICES ASSUME ~q.again, t \notin robbed PROVE Filed(t, q, o, k, g)
      OBVIOUS
    <3>1. Under(f, Data(o), All(t, k)) /\ Under(f, from, ManifestOf(t, k))
      BY <1>1, <1>2, <1>3, <1>4 DEF Filed
    <3>2. Under(g, Data(o), All(t, k))
      BY <1>7, <2>1, <3>1 DEF Under
    <3>3. Under(g, to, ManifestOf(t, k))
      BY <2>1, <3>1 DEF Under
    <3>. QED
      BY <1>2, <1>4, <3>2, <3>3 DEF Filed
  <2>4. ASSUME ~q.again, NEW y \in DOMAIN g, y.kind = "state"
        PROVE  Accounts(t, o, k, g, y) \/ (y \in DOMAIN f /\ ~Accounts(t, o, k, f, y))
    <3>1. y \in DOMAIN f /\ g[y] = f[y]
      BY <1>7, <2>1, <2>4
    <3>2. TempData(o, k.nonce) \in DOMAIN g <=> TempData(o, k.nonce) \in DOMAIN f
      BY <1>7, <2>1
    <3>. QED
      BY <2>4, <3>1, <3>2 DEF Accounts
  <2>5. /\ q.phase \in Active /\ q.nonce \in 0..MaxNonce /\ q.used <= MaxBytes
    BY <1>3, <1>4 DEF Active
  <2>9. q.used = store[t].used - k.length + k.length
    BY <1>3, <1>4 DEF ObjectType
  <2>6. files' = [files EXCEPT ![t] = g] /\ store' = [store EXCEPT ![t] = q]
    BY <1>13
  <2> HIDE DEF o, k
  <2>7. SealingOK(q, [objects[t] EXCEPT ![o] = k], g)
    BY <1>4 DEF SealingOK
  <2>8. store[t].obj = o /\ objects[t][o] = k
    BY DEF o, k
  <2>. QED
    BY <1>2, <1>3, <1>4, <1>5, <1>9, <1>11, <2>1, <2>2, <2>3, <2>4, <2>5, <2>6, <2>7, <2>8,
       <2>9, ObjectStep
<1>14. CASE /\ from \in DOMAIN f
            /\ files' = [files EXCEPT ![t] = g]
            /\ Stumbles(t, store[t])
  <2>1. Elsewhere(f, g, o)
    BY <1>10, <1>14
  <2>2. ObjectOK(t, o, k, g) /\ (t # session => DOMAIN g = {}) /\ IsFiniteSet(DOMAIN g)
    BY <1>12, <1>14
  <2>. QED
    BY <1>1, <1>9, <1>14, <2>1, <2>2, SealStumbles
<1>15. CASE Stumbles(t, store[t]) /\ UNCHANGED files
  <2>1. /\ files' = [files EXCEPT ![t] = f] /\ Elsewhere(f, f, o)
        /\ (t # session => DOMAIN f = {})
    BY <1>15, StoreFacts DEF Elsewhere, Same
  <2>. QED
    BY <1>1, <1>3, <1>9, <1>15, <2>1, SealStumbles
<1>. QED
  BY <1>8, <1>13, <1>14, <1>15

-------------------------------------------------------------------------------
(* delete_object *)

\* Names of object o go, and its data may have been emptied before.
Stripped(g, f, o) ==
  /\ DOMAIN g \subseteq DOMAIN f /\ Elsewhere(f, g, o)
  /\ \A x \in DOMAIN g : g[x] = f[x] \/ (x.kind = "state" /\ g[x] = <<>>)

\* What a deletion leaves, whole or stopped.
LEMMA DeletionLeaves ==
  ASSUME NEW t \in Stores, NEW o \in Objects
  PROVE  /\ \A g \in DeletionStops(t, o) : Stripped(g, Dir(t), o)
         /\ LET g == Without(Dir(t), {NamesOf(t, o)[j] : j \in 1..3})
            IN  /\ Stripped(g, Dir(t), o) /\ Less(g, Dir(t))
                /\ \A x \in DOMAIN g : x \notin {TempData(o, objects[t][o].nonce), Data(o), Meta(o)}
<1> DEFINE f == Dir(t)
           a == TempData(o, objects[t][o].nonce)
           names == NamesOf(t, o)
           data == {names[1], names[2]}
           cut(open) == Truncated(f, open)
           first(i) == {names[j] : j \in 1..i}
<1>1. names[1] = a /\ names[2] = Data(o) /\ names[3] = Meta(o)
  BY DEF NamesOf
<1>2. /\ a.obj = o /\ Data(o).obj = o /\ Meta(o).obj = o
      /\ a.kind = "state" /\ Data(o).kind = "state"
  BY NamesOfObject, NamesDiffer
<1>3. \A open : /\ DOMAIN cut(open) = DOMAIN f
                /\ \A x \in DOMAIN f : cut(open)[x] = IF x \in open THEN <<>> ELSE f[x]
  BY DEF Truncated
<1>4. \A i \in 0..3 : \A x \in first(i) : x.obj = o
  <2>1. \A j \in 1..3 : names[j].obj = o
    BY <1>1, <1>2
  <2>. QED
    BY <2>1
<1>5. first(3) = {a, Data(o), Meta(o)}
  <2>1. first(3) = {names[1], names[2], names[3]}
    OBVIOUS
  <2>. QED
    BY <1>1, <2>1
<1>6. \A x \in data : x.obj = o /\ x.kind = "state"
  BY <1>1, <1>2
<1> HIDE DEF f, a, names, data, cut, first
<1>7. ASSUME NEW i \in 0..3, NEW h, DOMAIN h = DOMAIN f,
             \A x \in DOMAIN f : h[x] = f[x] \/ (x \in data /\ h[x] = <<>>)
      PROVE  Stripped(Without(h, first(i)), f, o)
  <2> DEFINE g == Without(h, first(i))
  <2>1. DOMAIN g = DOMAIN h \ first(i) /\ Less(g, h)
    BY WithoutIs
  <2> HIDE DEF g
  <2>2. DOMAIN g = DOMAIN f \ first(i)
    BY <1>7, <2>1
  <2>3. \A x \in DOMAIN g : g[x] = f[x] \/ (x \in data /\ g[x] = <<>>)
    BY <1>7, <2>1, <2>2 DEF Less
  <2>4. Elsewhere(f, g, o)
    BY <1>4, <1>6, <2>2, <2>3 DEF Elsewhere, Same
  <2>5. Stripped(g, f, o)
    BY <1>6, <2>2, <2>3, <2>4 DEF Stripped
  <2>. QED
    BY <2>5 DEF g
<1>8. DeletionStops(t, o) = {Without(cut(open), first(i)) : i \in 0..3, open \in SUBSET data}
  BY DEF DeletionStops, f, names, data, cut, first
<1>13. ASSUME NEW i \in 0..3, NEW open \in SUBSET data
       PROVE  Stripped(Without(cut(open), first(i)), f, o)
  BY <1>3, <1>7
<1>9. \A g \in DeletionStops(t, o) : Stripped(g, f, o)
  BY <1>8, <1>13
<1> DEFINE g == Without(f, first(3))
<1>10. DOMAIN g = DOMAIN f \ first(3) /\ Less(g, f)
  BY WithoutIs
<1>11. Stripped(g, f, o)
  BY <1>7
<1>12. \A x \in DOMAIN g : x \notin {a, Data(o), Meta(o)}
  BY <1>5, <1>10
<1>. QED
  BY <1>9, <1>10, <1>11, <1>12 DEF f, first, names, a

\* An object is deleted, or some of it.
LEMMA DeleteObjectInv ==
  ASSUME StateInv, NEW t \in Stores, Alone(t), NEW o \in Objects, DeleteObject(t, o)
  PROVE  StateInv'
<1> DEFINE f == files[t]
           old == objects[t][o]
           r == [store[t] EXCEPT !.used = @ - old.length]
           whole == Without(f, {NamesOf(t, o)[j] : j \in 1..3})
<1>1. store[t].phase = "live" /\ UNCHANGED <<session, robbed, shared>>
  BY DEF DeleteObject, At
<1>2. store[t].phase \in Active
  BY <1>1 DEF Active
<1>3. /\ IsStore(store[t]) /\ store[t].fd = t /\ store[t].nonce \in 0..MaxNonce
      /\ store[t].used \in Int /\ store[t].used <= MaxBytes /\ store[t].again \in BOOLEAN
      /\ old \in ObjectType /\ ObjectOK(t, o, old, f) /\ Dir(t) = f /\ IsFiniteSet(DOMAIN f)
  BY <1>1, <1>2, ActiveFacts
<1>4. \/ /\ files' = [files EXCEPT ![t] = whole]
         /\ store' = [store EXCEPT ![t] = r]
         /\ UNCHANGED faults
      \/ /\ Fault
         /\ \E g \in DeletionStops(t, o) : files' = [files EXCEPT ![t] = g]
         /\ Stumbles(t, r)
  BY <1>3 DEF DeleteObject
<1>5. objects' = [objects EXCEPT ![t][o] = NoObject]
  BY DEF DeleteObject
<1>6. old.length \in Nat
  BY <1>3 DEF ObjectType
<1>7. /\ IsStore(r) /\ r.fd = t /\ r.nonce = store[t].nonce /\ r.again = store[t].again
      /\ r.cleaned = store[t].cleaned /\ r.used = store[t].used - old.length
      /\ r.phase = "live"
  BY <1>1, <1>3 DEF IsStore, StoreFields
<1> HIDE DEF r, old
<1>8. r.used <= MaxBytes /\ r.used = store[t].used - old.length + 0
  BY <1>3, <1>6, <1>7, StateConstantsOK
<1>9. NoObject \in ObjectType /\ NoObject.state = "absent" /\ NoObject.length = 0
  BY DEF NoObject, ObjectType
<1>10. faults' \in Nat
  BY <1>4, FaultCounts
<1>11. UNCHANGED session /\ UNCHANGED robbed /\ UNCHANGED shared
  BY <1>1
<1>12. ASSUME NEW g, Stripped(g, f, o)
       PROVE  /\ ObjectOK(t, o, NoObject, g) /\ (t # session => DOMAIN g = {})
              /\ Elsewhere(f, g, o) /\ IsFiniteSet(DOMAIN g)
  <2>1. ASSUME Data(o) \in DOMAIN g, Meta(o) \in DOMAIN g
        PROVE  \E n \in 1..MaxNonce : Right(g[Data(o)], t, n, g[Meta(o)].length)
    <3>1. Data(o) \in DOMAIN f /\ Meta(o) \in DOMAIN f
      BY <1>12, <2>1 DEF Stripped
    <3>2. Meta(o).kind = "meta"
      BY NamesDiffer
    <3>3. g[Meta(o)] = f[Meta(o)] /\ (g[Data(o)] = f[Data(o)] \/ g[Data(o)] = <<>>)
      BY <1>12, <2>1, <3>2 DEF Stripped
    <3>4. PICK n \in 1..MaxNonce : Right(f[Data(o)], t, n, f[Meta(o)].length)
      BY <1>3, <3>1 DEF ObjectOK
    <3>5. Right(<<>>, t, n, f[Meta(o)].length)
      BY NoElements DEF Right
    <3>. QED
      BY <3>3, <3>4, <3>5
  <2>2. ObjectOK(t, o, NoObject, g)
    BY <1>9, <2>1 DEF ObjectOK
  <2>3. (t # session => DOMAIN g = {}) /\ Elsewhere(f, g, o)
    BY <1>12, StoreFacts DEF Stripped
  <2>4. IsFiniteSet(DOMAIN g)
    BY <1>3, <1>12, FS_Subset DEF Stripped
  <2>. QED
    BY <2>2, <2>3, <2>4
<1>13. CASE files' = [files EXCEPT ![t] = whole] /\ store' = [store EXCEPT ![t] = r]
  <2>1. /\ Stripped(whole, f, o) /\ Less(whole, f)
        /\ \A x \in DOMAIN whole : x \notin {TempData(o, old.nonce), Data(o), Meta(o)}
    BY <1>3, DeletionLeaves DEF old
  <2> HIDE DEF whole
  <2>2. /\ ObjectOK(t, o, NoObject, whole) /\ (t # session => DOMAIN whole = {})
        /\ Elsewhere(f, whole, o) /\ IsFiniteSet(DOMAIN whole)
    BY <1>12, <2>1
  <2>3. ASSUME ~r.again, NEW y \in DOMAIN whole, y.kind = "state"
        PROVE  y \in DOMAIN f /\ ~Accounts(t, o, old, f, y)
    BY <2>1 DEF Less, Accounts
  <2>4. /\ r.phase \in Active /\ r.nonce \in 0..MaxNonce
        /\ SealingOK(r, [objects[t] EXCEPT ![o] = NoObject], whole)
        /\ Filed(t, r, o, NoObject, whole)
    BY <1>3, <1>7, <1>9 DEF Active, SealingOK, Filed
  <2>5. files' = [files EXCEPT ![t] = whole] /\ store' = [store EXCEPT ![t] = r]
    BY <1>13
  <2>6. objects[t][o] = old /\ store[t].phase = "live"
    BY <1>1 DEF old
  <2>. QED
    BY <1>2, <1>5, <1>7, <1>8, <1>9, <1>10, <1>11, <2>2, <2>3, <2>4, <2>5, <2>6, ObjectStep
<1>14. ASSUME NEW g \in DeletionStops(t, o), files' = [files EXCEPT ![t] = g], Stumbles(t, r)
       PROVE  StateInv'
  <2>1. Stripped(g, f, o)
    BY <1>3, DeletionLeaves DEF old
  <2>2. /\ ObjectOK(t, o, NoObject, g) /\ (t # session => DOMAIN g = {})
        /\ Elsewhere(f, g, o) /\ IsFiniteSet(DOMAIN g)
    BY <1>12, <2>1
  <2>3. r.nonce \in 0..MaxNonce /\ r.again \in BOOLEAN /\ objects[t][o] = old
    BY <1>3, <1>7 DEF old
  <2>. QED
    BY <1>2, <1>5, <1>7, <1>8, <1>9, <1>10, <1>11, <1>14, <2>2, <2>3, StumbleStep
<1>. QED
  BY <1>4, <1>13, <1>14

-------------------------------------------------------------------------------
(* Stores that work in a shared directory *)

\* Of a directory that two stores have opened only the names are known: a call
\* there keeps the invariant whatever it writes, as long as the directory still
\* has the session's name.
LEMMA SharedStep ==
  ASSUME StateInv, NEW t \in Stores, ~Alone(t), store[t].phase \in Active,
         NEW r, IsStore(r), r.fd = store[t].fd, r.nonce \in 0..MaxNonce,
         r.again \in BOOLEAN, r.cleaned = store[t].cleaned,
         (store' = [store EXCEPT ![t] = r] /\ r.phase \in Active) \/ Stumbles(t, r),
         NEW m \in [Objects -> ObjectType], objects' = [objects EXCEPT ![t] = m],
         NEW g, files' = [files EXCEPT ![store[t].fd] = g],
         store[t].fd # session => DOMAIN g = {},
         UNCHANGED faults \/ Fault, UNCHANGED <<session, robbed, shared>>
  PROVE  StateInv'
<1> DEFINE e == store[t].fd
           q1 == [r EXCEPT !.phase = "failed"]
           q2 == [r EXCEPT !.phase = "live", !.again = TRUE]
<1>1. store[t].phase \in Holding
  BY DEF Holding
<1>2. /\ e \in Stores /\ (e = t \/ e \in shared)
      /\ store[t].cleaned \in BOOLEAN /\ (store[t].cleaned => session # e)
  BY <1>1, HolderFacts
<1>3. faults' \in Nat
  BY FaultCounts
<1>4. ASSUME NEW q, IsStore(q), q.fd = e, q.nonce \in 0..MaxNonce, q.again \in BOOLEAN,
             q.cleaned = store[t].cleaned, q.phase \in Active \cup {"failed"},
             store' = [store EXCEPT ![t] = q]
      PROVE  StateInv'
  <2>1. q.phase \in Holding \cup {"ended", "killed"}
    BY <1>4 DEF Holding
  <2>2. LifeOK(t, q, m, shared, session) /\ q.phase \notin Fresh \cup {"made"}
    BY <1>1, <1>2, <1>4, <2>1, HolderLife
  <2>. QED
    BY <1>2, <1>3, <1>4, <2>2, HeldStep
<1>5. /\ IsStore(q1) /\ q1.phase = "failed" /\ q1.fd = e /\ q1.nonce = r.nonce
      /\ q1.again = r.again /\ q1.cleaned = r.cleaned
      /\ IsStore(q2) /\ q2.phase = "live" /\ q2.fd = e /\ q2.nonce = r.nonce
      /\ q2.again = TRUE /\ q2.cleaned = r.cleaned
  BY DEF IsStore, StoreFields
<1>6. \/ store' = [store EXCEPT ![t] = r] /\ r.phase \in Active
      \/ store' = [store EXCEPT ![t] = q1]
      \/ store' = [store EXCEPT ![t] = q2]
  BY DEF Stumbles
<1> HIDE DEF q1, q2, e
<1>7. q1.phase \in Active \cup {"failed"} /\ q2.phase \in Active \cup {"failed"}
  BY <1>5 DEF Active
<1>8. r.fd = e
  BY DEF e
<1>. QED
  BY <1>4, <1>5, <1>6, <1>7, <1>8

\* What is known of a store in a shared directory.
LEMMA SharedFacts ==
  ASSUME StateInv, NEW t \in Stores, store[t].phase \in Active
  PROVE  /\ IsStore(store[t]) /\ store[t].fd \in Stores
         /\ store[t].nonce \in 0..MaxNonce /\ store[t].again \in BOOLEAN
         /\ objects[t] \in [Objects -> ObjectType]
         /\ objects' = objects => objects' = [objects EXCEPT ![t] = objects[t]]
         /\ files' = files => files' = [files EXCEPT ![store[t].fd] = Dir(t)]
         /\ store[t].fd # session => DOMAIN Dir(t) = {}
<1>1. store[t].phase \in Holding
  BY DEF Holding
<1>. QED
  BY <1>1, HolderFacts, StoreFacts DEF Dir

\* A file is written in a shared directory that still has the session's name.
LEMMA SharedPut ==
  ASSUME NEW t \in Stores, NEW x, NEW content, Linked(t),
         files' = Put(store[t].fd, x, content)
  PROVE  \E g : /\ files' = [files EXCEPT ![store[t].fd] = g]
                /\ store[t].fd # session => DOMAIN g = {}
BY PutHere DEF Linked

\* Elements are written to whatever name the file has, if it has one.
LEMMA SharedWritten ==
  ASSUME StateInv, NEW t \in Stores, store[t].phase \in Active, NEW o, NEW j, NEW name,
         files' = Written(t, o, j, name)
  PROVE  \E g : /\ files' = [files EXCEPT ![store[t].fd] = g]
                /\ store[t].fd # session => DOMAIN g = {}
<1>1. CASE Has(t, name)
  <2>1. Linked(t)
    BY <1>1, SharedFacts DEF Has, Linked
  <2> DEFINE content == Dir(t)[name] \o Elements(t, objects[t][o].nonce, objects[t][o].length, j)
  <2>2. files' = Put(store[t].fd, name, content)
    BY <1>1 DEF Written
  <2> HIDE DEF content
  <2>. QED
    BY <2>1, <2>2, SharedPut
<1>2. CASE ~Has(t, name)
  BY <1>2, SharedFacts DEF Written
<1>. QED
  BY <1>1, <1>2

\* An object is created in a shared directory.
LEMMA SharedCreate ==
  ASSUME StateInv, NEW t \in Stores, ~Alone(t), NEW o \in Objects, CreateObject(t, o)
  PROVE  StateInv'
<1> DEFINE n == store[t].nonce + 1
           k == [NoObject EXCEPT !.state = "open", !.nonce = n]
           r == [store[t] EXCEPT !.nonce = n]
           x == TempData(o, n)
<1>1. /\ store[t].phase = "live" /\ n <= MaxNonce
      /\ store' = [store EXCEPT ![t] = r]
      /\ UNCHANGED <<session, robbed, shared, faults>>
  BY DEF CreateObject, At
<1>2. \/ /\ Linked(t) /\ files' = Put(store[t].fd, x, <<>>)
         /\ objects' = [objects EXCEPT ![t][o] = k]
      \/ UNCHANGED <<files, objects>>
  BY DEF CreateObject
<1>3. store[t].phase \in Active
  BY <1>1 DEF Active
<1>4. /\ IsStore(store[t]) /\ store[t].nonce \in 0..MaxNonce /\ store[t].again \in BOOLEAN
      /\ objects[t] \in [Objects -> ObjectType]
  BY <1>3, SharedFacts
<1>5. n \in 0..MaxNonce /\ n \in Nat
  BY <1>1, <1>4, StateConstantsOK
<1>6. /\ IsStore(r) /\ r.fd = store[t].fd /\ r.nonce \in 0..MaxNonce
      /\ r.again \in BOOLEAN /\ r.cleaned = store[t].cleaned /\ r.phase \in Active
  <2> HIDE DEF n
  <2>1. /\ IsStore(r) /\ r.fd = store[t].fd /\ r.nonce = n /\ r.phase = store[t].phase
        /\ r.again = store[t].again /\ r.cleaned = store[t].cleaned
    BY <1>4 DEF IsStore, StoreFields
  <2>. QED
    BY <1>3, <1>4, <1>5, <2>1
<1>7. k \in ObjectType
  BY <1>5 DEF NoObject, ObjectType
<1> HIDE DEF n, k, r, x
<1>8. CASE UNCHANGED <<files, objects>>
  BY <1>1, <1>3, <1>4, <1>6, <1>8, SharedFacts, SharedStep
<1>9. CASE /\ Linked(t) /\ files' = Put(store[t].fd, x, <<>>)
           /\ objects' = [objects EXCEPT ![t][o] = k]
  <2>1. PICK g : /\ files' = [files EXCEPT ![store[t].fd] = g]
                 /\ store[t].fd # session => DOMAIN g = {}
    BY <1>9, SharedPut
  <2> DEFINE m == [objects[t] EXCEPT ![o] = k]
  <2>2. m \in [Objects -> ObjectType] /\ objects' = [objects EXCEPT ![t] = m]
    BY <1>4, <1>7, <1>9
  <2> HIDE DEF m
  <2>. QED
    BY <1>1, <1>3, <1>6, <2>1, <2>2, SharedStep
<1>. QED
  BY <1>2, <1>8, <1>9

\* A chunk is appended in a shared directory, or some of it.
LEMMA SharedAppend ==
  ASSUME StateInv, NEW t \in Stores, ~Alone(t), NEW o \in Objects, NEW n \in 1..ChunkSize,
         AppendChunk(t, o, n) \/ AppendTorn(t, o, n)
  PROVE  StateInv'
<1>1. store[t].phase = "live" /\ UNCHANGED <<session, robbed, shared>>
  BY DEF AppendChunk, AppendTorn, Appends, At
<1>2. store[t].phase \in Active
  BY <1>1 DEF Active
<1>3. /\ IsStore(store[t]) /\ store[t].nonce \in 0..MaxNonce /\ store[t].again \in BOOLEAN
      /\ objects[t] \in [Objects -> ObjectType]
  BY <1>2, SharedFacts
<1>4. PICK g : /\ files' = [files EXCEPT ![store[t].fd] = g]
               /\ store[t].fd # session => DOMAIN g = {}
  <2>1. PICK j, name : files' = Written(t, o, j, name)
    BY DEF AppendChunk, AppendTorn
  <2>. QED
    BY <1>2, <2>1, SharedWritten
<1>5. CASE AppendTorn(t, o, n)
  <2>1. Fault /\ Stumbles(t, store[t]) /\ objects' = objects
    BY <1>5 DEF AppendTorn
  <2>2. objects' = [objects EXCEPT ![t] = objects[t]]
    BY <1>2, <2>1, SharedFacts
  <2>. QED
    BY <1>1, <1>2, <1>3, <1>4, <2>1, <2>2, SharedStep
<1>6. CASE AppendChunk(t, o, n)
  <2> DEFINE old == objects[t][o]
             k == [old EXCEPT !.length = @ + n, !.chunks = @ + 1]
             m == [objects[t] EXCEPT ![o] = k]
             r == [store[t] EXCEPT !.used = @ + n]
  <2>1. old \in ObjectType /\ n \in Nat
    BY <1>3, StateConstantsOK
  <2>2. k \in ObjectType
    <3> DEFINE d == old
    <3>1. d \in ObjectType
      BY <2>1
    <3> HIDE DEF d
    <3>2. LET e == [d EXCEPT !.length = @ + n, !.chunks = @ + 1] IN e \in ObjectType
      BY <2>1, <3>1, CountedOnward
    <3>. QED
      BY <3>2 DEF d
  <2>3. objects' = [objects EXCEPT ![t][o] = k] /\ store' = [store EXCEPT ![t] = r]
    BY <1>6 DEF AppendChunk
  <2>4. /\ IsStore(r) /\ r.fd = store[t].fd /\ r.nonce = store[t].nonce
        /\ r.again = store[t].again /\ r.cleaned = store[t].cleaned /\ r.phase = store[t].phase
    BY <1>3 DEF IsStore, StoreFields
  <2> HIDE DEF k, r
  <2>5. m \in [Objects -> ObjectType] /\ objects' = [objects EXCEPT ![t] = m]
    BY <1>3, <2>2, <2>3
  <2>6. UNCHANGED faults
    BY <1>6 DEF AppendChunk
  <2> HIDE DEF m
  <2>. QED
    BY <1>1, <1>2, <1>3, <1>4, <2>3, <2>4, <2>5, <2>6, SharedStep
<1>. QED
  BY <1>5, <1>6

\* A seal in a shared directory: its manifest is written, or not.
LEMMA SharedSeal ==
  ASSUME StateInv, NEW t \in Stores, ~Alone(t), NEW o \in Objects,
         SealStops(t, o) \/ SealManifest(t, o)
  PROVE  StateInv'
<1>1. store[t].phase = "live" /\ UNCHANGED <<session, robbed, shared>>
  BY DEF SealStops, SealManifest, At
<1>2. store[t].phase \in Active
  BY <1>1 DEF Active
<1>3. /\ IsStore(store[t]) /\ store[t].nonce \in 0..MaxNonce /\ store[t].again \in BOOLEAN
      /\ objects[t] \in [Objects -> ObjectType]
  BY <1>2, SharedFacts
<1>4. CASE SealStops(t, o)
  <2>1. Fault /\ Stumbles(t, store[t]) /\ UNCHANGED <<files, objects>>
    BY <1>4 DEF SealStops
  <2>. QED
    BY <1>1, <1>2, <1>3, <2>1, SharedFacts, SharedStep
<1>5. CASE SealManifest(t, o)
  <2> DEFINE n == store[t].nonce + 1
             x == TempMeta(o, n)
             old == objects[t][o]
             k == [old EXCEPT !.state = "sealed"]
             m == [objects[t] EXCEPT ![o] = k]
             r == [store[t] EXCEPT !.nonce = n, !.obj = o]
             q == [r EXCEPT !.phase = "sealing"]
  <2>1. n <= MaxNonce /\ objects' = [objects EXCEPT ![t][o] = k]
    BY <1>5 DEF SealManifest
  <2>2. \/ store' = [store EXCEPT ![t] = q] /\ UNCHANGED faults
        \/ Stumbles(t, r) /\ (UNCHANGED faults \/ Fault)
    BY <1>5 DEF SealManifest
  <2>3. n \in 0..MaxNonce
    BY <1>3, <2>1, StateConstantsOK
  <2>4. k \in ObjectType
    <3> DEFINE d == old
    <3>1. d \in ObjectType
      BY <1>3
    <3> HIDE DEF d
    <3>2. [d EXCEPT !.state = "sealed"] \in ObjectType
      BY <3>1 DEF ObjectType
    <3>. QED
      BY <3>2 DEF d
  <2>5. PICK g : /\ files' = [files EXCEPT ![store[t].fd] = g]
                 /\ store[t].fd # session => DOMAIN g = {}
    <3>1. files' = files \/ \E content : Linked(t) /\ files' = Put(store[t].fd, x, content)
      BY <1>5 DEF SealManifest
    <3> HIDE DEF x
    <3>2. CASE files' = files
      BY <1>2, <3>2, SharedFacts
    <3>3. ASSUME NEW content, Linked(t), files' = Put(store[t].fd, x, content)
          PROVE  \E g : /\ files' = [files EXCEPT ![store[t].fd] = g]
                        /\ store[t].fd # session => DOMAIN g = {}
      BY <3>3, SharedPut
    <3>. QED
      BY <3>1, <3>2, <3>3
  <2>6. /\ IsStore(r) /\ r.fd = store[t].fd /\ r.nonce = n
        /\ r.again = store[t].again /\ r.cleaned = store[t].cleaned
    <3> HIDE DEF n
    <3>. QED
      BY <1>3 DEF IsStore, StoreFields
  <2>7. /\ IsStore(q) /\ q.fd = r.fd /\ q.nonce = r.nonce
        /\ q.again = r.again /\ q.cleaned = r.cleaned /\ q.phase = "sealing"
    <3> HIDE DEF r
    <3>. QED
      BY <2>6 DEF IsStore, StoreFields
  <2> HIDE DEF n, x, k, r, q
  <2>8. m \in [Objects -> ObjectType] /\ objects' = [objects EXCEPT ![t] = m]
    BY <1>3, <2>1, <2>4
  <2> HIDE DEF m
  <2>9. CASE store' = [store EXCEPT ![t] = q] /\ UNCHANGED faults
    <3>1. q.phase \in Active
      BY <2>7 DEF Active
    <3>. QED
      BY <1>1, <1>2, <1>3, <2>3, <2>5, <2>6, <2>7, <2>8, <2>9, <3>1, SharedStep
  <2>10. CASE Stumbles(t, r) /\ (UNCHANGED faults \/ Fault)
    BY <1>1, <1>2, <1>3, <2>3, <2>5, <2>6, <2>8, <2>10, SharedStep
  <2>. QED
    BY <2>2, <2>9, <2>10
<1>. QED
  BY <1>4, <1>5

\* A rename in a shared directory.
LEMMA SharedRename ==
  ASSUME StateInv, NEW t \in Stores, ~Alone(t), SealData(t) \/ SealMeta(t)
  PROVE  StateInv'
<1>1. store[t].phase \in {"sealing", "renamed"}
      /\ UNCHANGED <<session, objects, robbed, shared>>
  BY DEF SealData, SealMeta, At
<1>2. store[t].phase \in Active
  BY <1>1 DEF Active
<1>3. /\ IsStore(store[t]) /\ store[t].nonce \in 0..MaxNonce /\ store[t].again \in BOOLEAN
      /\ objects[t] \in [Objects -> ObjectType]
      /\ objects' = [objects EXCEPT ![t] = objects[t]]
  BY <1>1, <1>2, SharedFacts
<1>4. PICK from, to :
        \/ files' = files
        \/ Has(t, from) /\ files' = [files EXCEPT ![store[t].fd] = Renamed(Dir(t), from, to)]
  BY DEF SealData, SealMeta, SealRename, Dir
<1>5. PICK g : /\ files' = [files EXCEPT ![store[t].fd] = g]
               /\ store[t].fd # session => DOMAIN g = {}
  BY <1>2, <1>4, SharedFacts DEF Has
<1>6. UNCHANGED faults \/ Fault
  BY DEF SealData, SealMeta, SealRename
<1>7. \/ Stumbles(t, store[t])
      \/ \E p \in {"live", "renamed"} : store' = [store EXCEPT ![t] = [store[t] EXCEPT !.phase = p]]
  BY DEF SealData, SealMeta, SealRename
<1>8. CASE Stumbles(t, store[t])
  BY <1>1, <1>2, <1>3, <1>5, <1>6, <1>8, SharedStep
<1>9. ASSUME NEW p \in {"live", "renamed"},
             store' = [store EXCEPT ![t] = [store[t] EXCEPT !.phase = p]]
      PROVE  StateInv'
  <2> DEFINE q == [store[t] EXCEPT !.phase = p]
  <2>1. /\ IsStore(q) /\ q.fd = store[t].fd /\ q.nonce = store[t].nonce
        /\ q.again = store[t].again /\ q.cleaned = store[t].cleaned /\ q.phase = p
    BY <1>3 DEF IsStore, StoreFields
  <2>2. store' = [store EXCEPT ![t] = q]
    BY <1>9
  <2> HIDE DEF q
  <2>3. q.phase \in Active
    BY <2>1 DEF Active
  <2>. QED
    BY <1>1, <1>2, <1>3, <1>5, <1>6, <2>1, <2>2, <2>3, SharedStep
<1>. QED
  BY <1>7, <1>8, <1>9

\* An object is deleted from a shared directory, or some of it.
LEMMA SharedDelete ==
  ASSUME StateInv, NEW t \in Stores, ~Alone(t), NEW o \in Objects, DeleteObject(t, o)
  PROVE  StateInv'
<1> DEFINE r == [store[t] EXCEPT !.used = @ - objects[t][o].length]
           m == [objects[t] EXCEPT ![o] = NoObject]
           names == {NamesOf(t, o)[j] : j \in 1..3}
<1>1. store[t].phase = "live" /\ UNCHANGED <<session, robbed, shared>>
  BY DEF DeleteObject, At
<1>2. store[t].phase \in Active
  BY <1>1 DEF Active
<1>3. /\ IsStore(store[t]) /\ store[t].nonce \in 0..MaxNonce /\ store[t].again \in BOOLEAN
      /\ objects[t] \in [Objects -> ObjectType]
  BY <1>2, SharedFacts
<1>4. objects' = [objects EXCEPT ![t][o] = NoObject]
  BY DEF DeleteObject
<1>5. NoObject \in ObjectType
  BY DEF NoObject, ObjectType
<1>6. m \in [Objects -> ObjectType] /\ objects' = [objects EXCEPT ![t] = m]
  BY <1>3, <1>4, <1>5
<1>7. \/ store' = [store EXCEPT ![t] = r] /\ UNCHANGED faults
      \/ Stumbles(t, r) /\ Fault
  BY DEF DeleteObject
<1>8. /\ IsStore(r) /\ r.fd = store[t].fd /\ r.nonce = store[t].nonce
      /\ r.again = store[t].again /\ r.cleaned = store[t].cleaned /\ r.phase = store[t].phase
  BY <1>3 DEF IsStore, StoreFields
<1> HIDE DEF r, m
<1>9. PICK g : /\ files' = [files EXCEPT ![store[t].fd] = g] /\ DOMAIN g \subseteq DOMAIN Dir(t)
  <2>1. \/ files' = [files EXCEPT ![store[t].fd] = Without(Dir(t), names)]
        \/ \E f \in DeletionStops(t, o) : files' = [files EXCEPT ![store[t].fd] = f]
    BY DEF DeleteObject, Dir
  <2> HIDE DEF names
  <2>2. DOMAIN Without(Dir(t), names) = DOMAIN Dir(t) \ names
    BY WithoutIs
  <2>. QED
    BY <2>1, <2>2, StopsIs
<1>10. store[t].fd # session => DOMAIN g = {}
  BY <1>2, <1>9, SharedFacts
<1>. QED
  BY <1>1, <1>2, <1>3, <1>6, <1>7, <1>8, <1>9, <1>10, SharedStep

-------------------------------------------------------------------------------
(* The invariant *)

\* Nothing is there at first.
LEMMA StateStarts == StateInit => StateInv
<1> SUFFICES ASSUME StateInit PROVE StateInv
  OBVIOUS
<1>1. /\ session = None /\ faults = 0 /\ shared = {}
      /\ files = [d \in Stores |-> <<>>]
      /\ store = [s \in Stores |-> Unmade]
      /\ objects = [s \in Stores |-> Nothing]
  BY DEF StateInit
<1>2. \A s \in Stores : /\ store[s] = Unmade /\ objects[s] = Nothing
                        /\ files[s] = <<>> /\ session # s
  BY <1>1, StateConstantsOK
<1>3. DirectoriesInv
  <2>1. files = [d \in Stores |-> files[d]] /\ store = [s \in Stores |-> store[s]]
    BY <1>1
  <2>2. objects \in [Stores -> [Objects -> ObjectType]]
    BY <1>1, OutOfLife
  <2>3. \A d \in Stores : DOMAIN files[d] = {}
    BY <1>2
  <2>. QED
    BY <1>1, <2>1, <2>2, <2>3 DEF DirectoriesInv
<1>4. LifeInv
  BY <1>2, OutOfLife DEF LifeInv
<1>6. MadeInv
  BY <1>1, <1>2, OutOfLife, StateConstantsOK DEF MadeInv, Fresh
<1>5. ContentsInv /\ IntactInv /\ CountedInv
  BY <1>2, OutOfLife DEF ContentsInv, IntactInv, CountedInv, ContentsOK, IntactOK, CountedOK
<1>. QED
  BY <1>3, <1>4, <1>5, <1>6 DEF StateInv

\* Every step of a store keeps the invariant.
LEMMA StateSteps == StateInv /\ [StateNext]_stateVars => StateInv'
<1> SUFFICES ASSUME StateInv, [StateNext]_stateVars PROVE StateInv'
  OBVIOUS
<1>1. CASE UNCHANGED stateVars
  BY <1>1 DEF stateVars, StateInv, DirectoriesInv, MadeInv, LifeInv, ContentsInv, IntactInv,
              CountedInv, Alone
<1>2. ASSUME NEW t \in Stores, Opening(t) PROVE StateInv'
  BY <1>2, MakeDirectoryInv, OpenDirectoryInv, PurgeQuiet, PurgeUnlinkInv DEF Opening
<1>3. ASSUME NEW t \in Stores, NEW o \in Objects,
             \/ CreateObject(t, o)
             \/ \E n \in 1..ChunkSize : AppendChunk(t, o, n) \/ AppendTorn(t, o, n)
             \/ SealStops(t, o)
             \/ SealManifest(t, o)
             \/ DeleteObject(t, o)
      PROVE  StateInv'
  <2>1. CASE Alone(t)
    BY <1>3, <2>1, CreateObjectInv, AppendChunkInv, AppendTornInv, SealStopsInv, SealManifestInv,
       DeleteObjectInv
  <2>2. CASE ~Alone(t)
    BY <1>3, <2>2, SharedCreate, SharedAppend, SharedSeal, SharedDelete
  <2>. QED
    BY <2>1, <2>2
<1>4. ASSUME NEW t \in Stores, SealData(t) \/ SealMeta(t) PROVE StateInv'
  BY <1>4, SealDataInv, SealMetaInv, SharedRename
<1>5. ASSUME NEW t \in Stores,
             \/ \E drop \in BOOLEAN : CleanupDeletes(t, drop)
             \/ CleanupList(t) \/ CleanupUnlink(t) \/ CleanupRmdir(t) \/ Kill(t)
      PROVE  StateInv'
  BY <1>5, CleanupDeletesInv, CleanupListInv, CleanupUnlinkInv, CleanupRmdirInv, KillInv
<1>. QED
  BY <1>1, <1>2, <1>3, <1>4, <1>5 DEF StateNext

\* The invariant holds in every reachable state.
THEOREM StateInvariance == StateSpec => []StateInv
BY StateStarts, StateSteps, PTL DEF StateSpec

-------------------------------------------------------------------------------
(* What it says of the properties *)

\* A cleanup that reported success (abort_session_cleanup) has left neither the
\* directory nor a file, whatever the other stores of the session have done.
THEOREM StateCleaned == StateSpec => []CleanedMeansGone
<1>1. StateInv => CleanedMeansGone
  <2> SUFFICES ASSUME StateInv, NEW s \in Stores, store[s].cleaned
               PROVE  session # store[s].fd /\ DOMAIN Dir(s) = {}
    BY DEF CleanedMeansGone
  <2>1. store[s].fd \in Stores /\ session # store[s].fd
    BY StoreFacts DEF LifeOK
  <2>. QED
    BY <2>1, StoreFacts DEF Dir
<1>. QED
  BY <1>1, StateInvariance, PTL

\* A scan (sequential_scan) answers with the elements that this store appended
\* to the object, all of them and in their order, or with an error, as long as
\* no other store works in the directory that it has made.
THEOREM StateScans == StateSpec => []ScansRight
<1>1. StateInv => ScansRight
  <2> SUFFICES ASSUME StateInv, NEW s \in Stores, NEW o \in Objects,
                      At(s, "live"), Alone(s), Scan(s, o) # Error
               PROVE  \E n \in 1..MaxNonce :
                        /\ Scan(s, o) = Whole(s, n)
                        /\ objects[s][o].state # "absent" => n = objects[s][o].nonce
    BY DEF ScansRight
  <2> DEFINE k == objects[s][o]
             f == files[s]
  <2>1. store[s].phase \in Active
    BY DEF At, Active
  <2>2. Dir(s) = f /\ ObjectOK(s, o, k, f) /\ k \in ObjectType
    BY <2>1, ActiveFacts
  <2>3. /\ Scan(s, o) = f[Data(o)]
        /\ Data(o) \in DOMAIN f /\ Meta(o) \in DOMAIN f
        /\ f[Meta(o)].length = Logical /\ Len(f[Data(o)]) = Logical
    BY <2>2 DEF Scan, Verified, Has
  <2>4. ASSUME NEW n \in 1..MaxNonce, Right(f[Data(o)], s, n, Logical)
        PROVE  Scan(s, o) = Whole(s, n)
    BY <2>3, <2>4 DEF Right, Whole
  <2>5. CASE k.state = "absent"
    BY <2>2, <2>3, <2>4, <2>5 DEF ObjectOK
  <2>6. CASE k.state # "absent"
    BY <2>2, <2>3, <2>4, <2>6 DEF ObjectOK
  <2>. QED
    BY <2>5, <2>6
<1>. QED
  BY <1>1, StateInvariance, PTL

\* Nothing is lost, where the callers' chunks are full but for the last one of
\* an object: what a store has sealed at its full length it can read, unless a
\* call has failed before or another process has purged the directory or works
\* in it.
THEOREM StateSealed == ASSUME FullChunks PROVE StateSpec => []SealedReadable
<1>1. StateInv => SealedReadable
  <2> SUFFICES ASSUME StateInv, NEW s \in Stores, NEW o \in Objects,
                      At(s, "live"), Alone(s), ~store[s].again, store[s].fd \notin robbed,
                      objects[s][o].state = "sealed", objects[s][o].length = Logical
               PROVE  Scan(s, o) = Whole(s, objects[s][o].nonce)
    BY DEF SealedReadable
  <2> DEFINE k == objects[s][o]
             f == files[s]
             less == (k.chunks - 1) * ChunkSize
  <2>1. store[s].phase \in Active /\ store[s].phase = "live"
    BY DEF At, Active
  <2>2. /\ Dir(s) = f /\ store[s].fd = s /\ k \in ObjectType /\ ChunksOK(k)
        /\ ObjectOK(s, o, k, f)
        /\ ~store[s].again /\ s \notin robbed => Filed(s, store[s], o, k, f)
    BY <2>1, ActiveFacts
  <2>3. Under(f, Data(o), All(s, k)) /\ Under(f, Meta(o), ManifestOf(s, k))
    BY <2>1, <2>2 DEF Filed
  <2>4. All(s, k) = Whole(s, k.nonce)
    BY DEF All, Whole
  <2>5. k.nonce \in Nat /\ Logical \in Nat /\ k.chunks \in Nat /\ ChunkSize \in Nat
    BY <2>2, StateConstantsOK DEF ObjectType
  <2>6. Len(All(s, k)) = Logical
    <3> DEFINE n == k.nonce
    <3>1. n \in Nat /\ All(s, k) = Elements(s, n, 0, Logical)
      BY <2>4, <2>5 DEF Whole
    <3> HIDE DEF n
    <3>2. Len(Elements(s, n, 0, Logical)) = Logical
      BY <2>5, <3>1, ElementsAre, 0 \in Nat
    <3> HIDE DEF k
    <3>. QED
      BY <3>1, <3>2
  <2>7. less <= Logical
    <3>1. k.chunks * ChunkSize = less + ChunkSize /\ less \in Int
      BY <2>5
    <3> DEFINE full == k.chunks * ChunkSize
    <3>2. k.length = full \/ less <= Logical
      BY <2>2 DEF ChunksOK
    <3> HIDE DEF less, full
    <3>3. full = less + ChunkSize
      BY <3>1 DEF full
    <3>. QED
      BY <2>5, <3>1, <3>2, <3>3
  <2>8. Verified(s, o)
    BY <2>2, <2>3 DEF Verified, Has, Under, ManifestOf
  <2>9. Dir(s)[Meta(o)].length = Logical /\ Dir(s)[Meta(o)].chunks = k.chunks
        /\ Dir(s)[Meta(o)].sum = All(s, k) /\ Dir(s)[Data(o)] = All(s, k)
    BY <2>2, <2>3 DEF Under, ManifestOf
  <2>. QED
    BY <2>4, <2>6, <2>7, <2>8, <2>9 DEF Scan
<1>. QED
  BY <1>1, StateInvariance, PTL

\* The data on the disk is within the bound on temporary storage and what
\* current_bytes counts (append_chunk, delete_object), until a call has failed
\* or another store works in the directory; what others purge does no harm.
THEOREM StateBudget == StateSpec => []DiskWithinBudget
<1>1. StateInv => DiskWithinBudget
  <2> SUFFICES ASSUME StateInv, NEW s \in Stores,
                      store[s].phase \in {"live", "sealing", "renamed"},
                      Alone(s), ~store[s].again
               PROVE  DataBytes(s) <= store[s].used /\ store[s].used <= MaxBytes
    BY DEF DiskWithinBudget
  <2> DEFINE m == objects[s]
             f == files[s]
             bytes == [x \in DOMAIN f |-> IF x.kind = "state" THEN Len(f[x]) ELSE 0]
             lengths == [o \in Objects |-> m[o].length]
             Owns(o, x) == Accounts(s, o, m[o], f, x)
             own == [x \in DOMAIN f |-> CHOOSE o \in Objects : Owns(o, x)]
  <2>1. store[s].phase \in Active
    BY DEF Active
  <2>2. /\ Dir(s) = f /\ store[s].used <= MaxBytes
        /\ UsedOK(store[s].used, m) /\ IsFiniteSet(DOMAIN f)
        /\ \A o \in Objects : m[o] \in ObjectType
        /\ \A x \in DOMAIN f : x.kind = "state" => \E o \in Objects : Owns(o, x)
    BY <2>1, ActiveFacts
  <2>3. ASSUME NEW x \in DOMAIN f, x.kind = "state"
        PROVE  own[x] \in Objects /\ Owns(own[x], x)
    BY <2>2, <2>3
  <2>4. ASSUME NEW x \in DOMAIN f, x.kind = "state"
        PROVE  own[x] \in Held(m) /\ bytes[x] = lengths[own[x]] /\ bytes[x] \in Nat
    <3>1. own[x] \in Objects /\ Owns(own[x], x)
      BY <2>3, <2>4
    <3> HIDE DEF own
    <3>2. Len(f[x]) = m[own[x]].length /\ m[own[x]].state # "absent"
      BY <3>1 DEF Accounts
    <3>. QED
      BY <2>2, <2>4, <3>1, <3>2 DEF Held, ObjectType
  <2>5. ASSUME NEW x \in DOMAIN f, NEW y \in DOMAIN f, x.kind = "state", y.kind = "state",
               own[x] = own[y]
        PROVE  x = y
    <3>1. Owns(own[x], x) /\ Owns(own[x], y)
      BY <2>3, <2>5
    <3> HIDE DEF own
    <3>. QED
      BY <3>1 DEF Accounts
  <2>6. \A x \in DOMAIN f : bytes[x] \in Nat /\ (bytes[x] # 0 => x.kind = "state")
    BY <2>4
  <2>7. \A o \in Held(m) : lengths[o] \in Nat
    BY <2>2 DEF Held, ObjectType
  <2>8. IsFiniteSet(Held(m)) /\ store[s].used = SumFunctionOnSet(lengths, Held(m))
    BY <2>2 DEF UsedOK, Lengths
  <2>9. DataBytes(s) = SumFunctionOnSet(bytes, DOMAIN f)
    BY <2>2 DEF DataBytes
  <2> HIDE DEF bytes, lengths, own, m, f
  <2>10. SumFunctionOnSet(bytes, DOMAIN f) <= SumFunctionOnSet(lengths, Held(m))
    BY <2>2, <2>4, <2>5, <2>6, <2>7, <2>8, SumOwned
  <2>. QED
    BY <2>2, <2>8, <2>9, <2>10
<1>. QED
  BY <1>1, StateInvariance, PTL

===============================================================================
