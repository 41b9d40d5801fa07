------------------------------ MODULE PbmoProofs ------------------------------
(***************************************************************************)
(* What the PBMO server and the sessions that use it guarantee, for any    *)
(* number of connections and sessions, any rows, chunks, faults and test   *)
(* hooks.                                                                  *)
(*                                                                         *)
(* The first half is about the server, whatever the clients write: a step  *)
(* of a client is any step that leaves the server's own variables alone,   *)
(* or a new connection.  Its invariant is applied to the clients of        *)
(* PbmoTraffic, which may write any frame next, and by the second half to  *)
(* the program's own clients.                                              *)
(*                                                                         *)
(* The second half is about what a session guarantees its caller.  Its     *)
(* invariant has six parts: the types; the life of a session and its       *)
(* token; the files of its spool; what it has written to its connection    *)
(* and the server has made of it; where the outputs come from; and, for a  *)
(* caller that pushes row after row, the order of the rows in the spool.   *)
(***************************************************************************)
EXTENDS PbmoSession, PbmoTraffic, SequenceTheorems, TLAPS

-------------------------------------------------------------------------------
(* The invariant of the server *)

\* The variables are functions over the connections.
Shapes ==
  /\ client = [c \in Sessions |-> client[c]]
  /\ stage = [c \in Sessions |-> stage[c]]
  /\ req = [c \in Sessions |-> req[c]]
  /\ log = [c \in Sessions |-> log[c]]

\* The accept queue holds different connections that wait for the server.
QueueInv ==
  /\ backlog \in Seq(Sessions)
  /\ \A i \in 1..Len(backlog) : stage[backlog[i]] = "queued"
  /\ \A i, j \in 1..Len(backlog) : backlog[i] = backlog[j] => i = j
  /\ \A c \in Sessions : client[c] = "none" => stage[c] = "none"

\* Every row holds its columns from the first to the next expected one.
Prefixes(k) ==
  /\ k.col \in [Rows -> 0..M]
  /\ k.rows = [r \in Rows |-> Cells(r, 0, k.col[r])]

RequestsInv == \A c \in Sessions : Prefixes(req[c])

\* Once a multiplication has started the request is complete and no longer
\* read.  (The loopback multiplies for a session that has no connection.)
MsmInv ==
  \A c \in Sessions :
    log[c].msm => /\ stage[c] \notin {"queued", "header", "chunks"}
                  /\ \A r \in Rows : req[c].col[r] = M

ServerInv ==
  /\ Shapes
  /\ QueueInv
  /\ RequestsInv
  /\ MsmInv
  /\ OneConnectionAtATime

\* A client writes, reads or hangs up.
ClientMoves ==
  /\ client' = [c \in Sessions |-> client'[c]]
  /\ \A c \in Sessions : client'[c] = "none" => client[c] = "none"
  /\ UNCHANGED <<acceptVars, stage, req, log>>

-------------------------------------------------------------------------------
(* Rows *)

\* A row of no columns is empty.
LEMMA NoCells == \A r : Cells(r, 0, 0) = <<>>
  BY DEF Cells

\* A sequence that begins with s and goes on with t is their concatenation.
LEMMA Concatenated ==
  ASSUME NEW X, NEW s \in Seq(X), NEW t \in Seq(X), NEW u \in Seq(X),
         Len(u) = Len(s) + Len(t),
         \A i \in 1..Len(s) : u[i] = s[i],
         \A i \in 1..Len(t) : u[Len(s) + i] = t[i]
  PROVE  s \o t = u
<1>1. s \o t \in Seq(X) /\ Len(s \o t) = Len(s) + Len(t)
  OBVIOUS
<1>2. \A i \in 1..Len(s \o t) : (s \o t)[i] = u[i]
  <2> SUFFICES ASSUME NEW i \in 1..(Len(s) + Len(t)) PROVE (s \o t)[i] = u[i]
    BY <1>1
  <2>1. CASE i <= Len(s)
    BY <2>1
  <2>2. CASE i > Len(s)
    <3>1. i - Len(s) \in 1..Len(t) /\ Len(s) + (i - Len(s)) = i
      BY <2>2
    <3>2. (s \o t)[i] = t[i - Len(s)]
      BY <2>2
    <3>3. u[Len(s) + (i - Len(s))] = t[i - Len(s)]
      BY <3>1
    <3>. QED
      BY <3>1, <3>2, <3>3
  <2>. QED
    BY <2>1, <2>2
<1>. QED
  BY <1>1, <1>2, SeqEqual

Cell(r, i) == <<r, i>>

RowCells(r) == {r} \X Nat

\* A range of a row, as a sequence.
LEMMA CellsAre ==
  ASSUME NEW r, NEW a \in Nat, NEW b \in Nat, a <= b
  PROVE  /\ Cells(r, a, b) \in Seq(RowCells(r))
         /\ Len(Cells(r, a, b)) = b - a
         /\ \A i \in 1..(b - a) : Cells(r, a, b)[i] = Cell(r, a + i - 1)
<1>1. Cells(r, a, b) = [i \in 1..(b - a) |-> Cell(r, a + i - 1)]
  BY DEF Cells, Cell
<1>2. \A i \in Nat : Cell(r, i) \in RowCells(r)
  BY DEF Cell, RowCells
<1>3. b - a \in Nat /\ \A i \in 1..(b - a) : Cell(r, a + i - 1) \in RowCells(r)
  BY <1>2
<1>. QED
  BY <1>1, <1>3

\* A row from its first column.
LEMMA PrefixIs ==
  ASSUME NEW r, NEW a \in Nat
  PROVE  /\ Cells(r, 0, a) \in Seq(RowCells(r))
         /\ Len(Cells(r, 0, a)) = a
         /\ \A i \in 1..a : Cells(r, 0, a)[i] = Cell(r, i - 1)
<1>1. /\ Cells(r, 0, a) \in Seq(RowCells(r))
      /\ Len(Cells(r, 0, a)) = a - 0
      /\ \A i \in 1..(a - 0) : Cells(r, 0, a)[i] = Cell(r, 0 + i - 1)
  BY CellsAre, 0 \in Nat, 0 <= a
<1>. QED
  BY <1>1

\* Adjacent ranges of a row concatenate.
LEMMA CellsConcatenate ==
  ASSUME NEW r, NEW a \in Nat, NEW b \in Nat, a <= b
  PROVE  Cells(r, 0, a) \o Cells(r, a, b) = Cells(r, 0, b)
<1>1. \A i \in 1..a : Cells(r, 0, b)[i] = Cells(r, 0, a)[i]
  BY PrefixIs
<1>2. \A i \in 1..(b - a) : Cells(r, 0, b)[a + i] = Cells(r, a, b)[i]
  <2> SUFFICES ASSUME NEW i \in 1..(b - a) PROVE Cells(r, 0, b)[a + i] = Cells(r, a, b)[i]
    OBVIOUS
  <2>1. Cells(r, 0, b)[a + i] = Cell(r, a + i - 1)
    BY PrefixIs, a + i \in 1..b
  <2>2. Cells(r, a, b)[i] = Cell(r, a + i - 1)
    BY CellsAre
  <2>. QED
    BY <2>1, <2>2
<1>3. Len(Cells(r, 0, b)) = Len(Cells(r, 0, a)) + Len(Cells(r, a, b))
  BY PrefixIs, CellsAre
<1>4. Len(Cells(r, 0, a)) = a /\ Len(Cells(r, a, b)) = b - a
  BY PrefixIs, CellsAre
<1>5. /\ Cells(r, 0, a) \in Seq(RowCells(r))
      /\ Cells(r, 0, b) \in Seq(RowCells(r))
      /\ Cells(r, a, b) \in Seq(RowCells(r))
  BY PrefixIs, CellsAre
<1> DEFINE s == Cells(r, 0, a)
           t == Cells(r, a, b)
           u == Cells(r, 0, b)
<1>6. /\ \A i \in 1..Len(s) : u[i] = s[i]
      /\ \A i \in 1..Len(t) : u[Len(s) + i] = t[i]
  BY <1>1, <1>2, <1>4
<1>7. Len(u) = Len(s) + Len(t) /\ s \in Seq(RowCells(r)) /\ t \in Seq(RowCells(r)) /\ u \in Seq(RowCells(r))
  BY <1>3, <1>5
<1> HIDE DEF s, t, u
<1>8. s \o t = u
  BY <1>6, <1>7, Concatenated
<1>. QED
  BY <1>8 DEF s, t, u

-------------------------------------------------------------------------------
(* Initial states and steps of the clients *)

\* Before the first chunk every row is the empty prefix.
LEMMA NoRequestIsPrefix == Prefixes(NoRequest)
<1>1. NoRequest.col = [r \in Rows |-> 0] /\ NoRequest.rows = [r \in Rows |-> <<>>]
  BY DEF NoRequest
<1>2. NoRequest.col \in [Rows -> 0..M]
  BY <1>1, ServerConstantsOK
<1>3. [r \in Rows |-> Cells(r, 0, NoRequest.col[r])] = [r \in Rows |-> <<>>]
  BY <1>1, NoCells
<1>. QED
  BY <1>1, <1>2, <1>3 DEF Prefixes

\* The server starts with the invariant.
LEMMA ServerInitInv == ServerInit => ServerInv
<1> SUFFICES ASSUME ServerInit PROVE ServerInv
  OBVIOUS
<1>1. Shapes
  BY DEF ServerInit, Shapes
<1>2. QueueInv
  <2>1. backlog = <<>> /\ Len(backlog) = 0
    BY DEF ServerInit
  <2>. QED
    BY <2>1 DEF ServerInit, QueueInv
<1>3. RequestsInv
  BY NoRequestIsPrefix DEF ServerInit, RequestsInv
<1>4. MsmInv
  BY DEF ServerInit, MsmInv, NoLog
<1>5. OneConnectionAtATime
  BY DEF ServerInit, OneConnectionAtATime, Working
<1>. QED
  BY <1>1, <1>2, <1>3, <1>4, <1>5 DEF ServerInv

\* A client that writes, reads or hangs up cannot break the invariant.
LEMMA ClientMovesInv == ServerInv /\ ClientMoves => ServerInv'
<1> SUFFICES ASSUME ServerInv, ClientMoves PROVE ServerInv'
  OBVIOUS
<1> USE DEF ClientMoves, acceptVars
<1>1. Shapes'
  BY DEF ServerInv, Shapes
<1>2. QueueInv'
  BY DEF ServerInv, QueueInv
<1>3. RequestsInv'
  BY DEF ServerInv, RequestsInv
<1>4. MsmInv'
  BY DEF ServerInv, MsmInv
<1>5. OneConnectionAtATime'
  BY DEF ServerInv, OneConnectionAtATime
<1>. QED
  BY <1>1, <1>2, <1>3, <1>4, <1>5 DEF ServerInv

\* A new connection joins the accept queue once, behind the others.
LEMMA ConnectedInv ==
  ASSUME ServerInv, NEW c \in Sessions, Connected(c), ~log[c].msm
  PROVE  ServerInv'
<1>1. /\ stage' = [stage EXCEPT ![c] = "queued"]
      /\ backlog' = Append(backlog, c)
      /\ client' = [client EXCEPT ![c] = "open"]
      /\ client[c] = "none"
      /\ req' = req /\ log' = log /\ serving' = serving
  BY DEF Connected
<1>2. stage[c] = "none"
  BY <1>1 DEF ServerInv, QueueInv
<1>3. Shapes'
  BY <1>1 DEF ServerInv, Shapes
<1>4. \A d \in Sessions : stage'[d] = IF d = c THEN "queued" ELSE stage[d]
  BY <1>1 DEF ServerInv, Shapes
<1>5. QueueInv'
  <2>1. backlog \in Seq(Sessions)
    BY DEF ServerInv, QueueInv
  <2>2. backlog' \in Seq(Sessions) /\ Len(backlog') = Len(backlog) + 1
    BY <1>1, <2>1
  <2>3. \A i \in 1..Len(backlog) : backlog[i] \in Sessions /\ backlog[i] # c
    BY <1>2, <2>1 DEF ServerInv, QueueInv
  <2>4. \A i \in 1..Len(backlog') : backlog'[i] = IF i = Len(backlog) + 1 THEN c ELSE backlog[i]
    BY <1>1, <2>1
  <2>5. \A i \in 1..Len(backlog') : stage'[backlog'[i]] = "queued"
    BY <1>4, <2>1, <2>2, <2>3, <2>4 DEF ServerInv, QueueInv
  <2>6. \A i, j \in 1..Len(backlog') : backlog'[i] = backlog'[j] => i = j
    BY <2>1, <2>2, <2>3, <2>4 DEF ServerInv, QueueInv
  <2>7. \A d \in Sessions : client'[d] = "none" => stage'[d] = "none"
    BY <1>1, <1>4 DEF ServerInv, Shapes, QueueInv
  <2>. QED
    BY <2>2, <2>5, <2>6, <2>7 DEF QueueInv
<1>6. RequestsInv'
  BY <1>1 DEF ServerInv, RequestsInv
<1>7. MsmInv'
  BY <1>1, <1>2, <1>4 DEF ServerInv, MsmInv
<1>8. OneConnectionAtATime'
  BY <1>1, <1>4 DEF ServerInv, OneConnectionAtATime, Working
<1>. QED
  BY <1>3, <1>5, <1>6, <1>7, <1>8 DEF ServerInv

-------------------------------------------------------------------------------
(* Steps of the server *)

\* The server moves the connection it works on to another stage.
LEMMA StageMoves ==
  ASSUME ServerInv, NEW c \in Sessions, stage[c] \in Working,
         NEW x \in Working \cup {"closed"},
         stage' = [stage EXCEPT ![c] = x],
         client' = client, backlog' = backlog, serving' = serving
  PROVE  /\ stage' = [d \in Sessions |-> stage'[d]]
         /\ \A d \in Sessions : stage'[d] = IF d = c THEN x ELSE stage[d]
         /\ QueueInv'
         /\ OneConnectionAtATime'
<1>1. \A d \in Sessions : stage'[d] = IF d = c THEN x ELSE stage[d]
  BY DEF ServerInv, Shapes
<1>2. stage' = [d \in Sessions |-> stage'[d]]
  BY DEF ServerInv, Shapes
<1>3. stage[c] # "none" /\ stage[c] # "queued"
  BY DEF Working
<1>4. QueueInv'
  <2>1. \A i \in 1..Len(backlog) : backlog[i] \in Sessions /\ backlog[i] # c
    BY <1>3 DEF ServerInv, QueueInv
  <2>2. \A i \in 1..Len(backlog) : stage'[backlog[i]] = "queued"
    BY <1>1, <2>1 DEF ServerInv, QueueInv
  <2>3. \A d \in Sessions : client[d] = "none" => stage'[d] = "none"
    BY <1>1, <1>3 DEF ServerInv, QueueInv
  <2>. QED
    BY <2>2, <2>3 DEF ServerInv, QueueInv
<1>5. OneConnectionAtATime'
  BY <1>1 DEF ServerInv, OneConnectionAtATime
<1>. QED
  BY <1>1, <1>2, <1>4, <1>5

\* The loop takes the head of the queue, and only when it serves no one.
LEMMA AcceptInv == ServerInv /\ Accept => ServerInv'
<1> SUFFICES ASSUME ServerInv, Accept PROVE ServerInv'
  OBVIOUS
<1> DEFINE c == Head(backlog)
<1>1. /\ stage' = [stage EXCEPT ![c] = "header"]
      /\ backlog # <<>> /\ backlog' = Tail(backlog)
      /\ serving = NoSession /\ serving' = c
      /\ client' = client /\ req' = req /\ log' = log
  BY DEF Accept, netVars
<1>2. backlog \in Seq(Sessions) /\ c = backlog[1] /\ 1 \in 1..Len(backlog)
  BY <1>1 DEF ServerInv, QueueInv
<1>3. c \in Sessions /\ stage[c] = "queued"
  BY <1>2 DEF ServerInv, QueueInv
<1> HIDE DEF c
<1>4. \A d \in Sessions : stage'[d] = IF d = c THEN "header" ELSE stage[d]
  BY <1>1, <1>3 DEF ServerInv, Shapes
<1>5. Shapes'
  BY <1>1 DEF ServerInv, Shapes
<1>6. QueueInv'
  <2>1. /\ backlog' \in Seq(Sessions)
        /\ Len(backlog') = Len(backlog) - 1
        /\ \A i \in 1..Len(backlog') : i + 1 \in 1..Len(backlog) /\ backlog'[i] = backlog[i + 1]
    BY <1>1, <1>2
  <2>2. \A i \in 1..Len(backlog') : backlog'[i] \in Sessions /\ backlog'[i] # c
    BY <1>2, <2>1 DEF ServerInv, QueueInv
  <2>3. \A i \in 1..Len(backlog') : stage'[backlog'[i]] = "queued"
    BY <1>4, <2>1, <2>2 DEF ServerInv, QueueInv
  <2>4. \A i, j \in 1..Len(backlog') : backlog'[i] = backlog'[j] => i = j
    <3> SUFFICES ASSUME NEW i \in 1..Len(backlog'), NEW j \in 1..Len(backlog'),
                        backlog'[i] = backlog'[j]
                 PROVE  i = j
      OBVIOUS
    <3>1. i + 1 = j + 1
      BY <2>1 DEF ServerInv, QueueInv
    <3>. QED
      BY <3>1, <2>1
  <2>5. \A d \in Sessions : client'[d] = "none" => stage'[d] = "none"
    BY <1>1, <1>3, <1>4 DEF ServerInv, QueueInv
  <2>. QED
    BY <2>1, <2>3, <2>4, <2>5 DEF QueueInv
<1>7. RequestsInv'
  BY <1>1 DEF ServerInv, RequestsInv
<1>8. MsmInv'
  BY <1>1, <1>3, <1>4 DEF ServerInv, MsmInv
<1>9. OneConnectionAtATime'
  BY <1>1, <1>4, ServerConstantsOK DEF ServerInv, OneConnectionAtATime
<1>. QED
  BY <1>5, <1>6, <1>7, <1>8, <1>9 DEF ServerInv

\* An accepted header starts a request of empty rows.
LEMMA TakeHeaderInv ==
  ASSUME ServerInv, NEW c \in Sessions, TakeHeader(c)
  PROVE  ServerInv'
<1> DEFINE k == [total |-> Head(wire[c]).body.total, chunks |-> 0, scalars |-> 0, digest |-> <<>>,
                 col |-> [r \in Rows |-> 0], rows |-> [r \in Rows |-> <<>>]]
<1>1. /\ stage[c] = "header" /\ stage' = [stage EXCEPT ![c] = "chunks"]
      /\ client' = client /\ backlog' = backlog /\ serving' = serving /\ log' = log
      /\ req' = [req EXCEPT ![c] = k]
  BY DEF TakeHeader, acceptVars
<1>2. Prefixes(k)
  <2>1. k.col = [r \in Rows |-> 0] /\ k.rows = [r \in Rows |-> <<>>]
    OBVIOUS
  <2>2. k.col \in [Rows -> 0..M]
    BY <2>1, ServerConstantsOK
  <2>3. [r \in Rows |-> Cells(r, 0, k.col[r])] = [r \in Rows |-> <<>>]
    BY <2>1, NoCells
  <2>. QED
    BY <2>1, <2>2, <2>3 DEF Prefixes
<1> HIDE DEF k
<1>3. "chunks" \in Working \cup {"closed"} /\ stage[c] \in Working
  BY <1>1 DEF Working
<1>4. /\ stage' = [d \in Sessions |-> stage'[d]]
      /\ \A d \in Sessions : stage'[d] = IF d = c THEN "chunks" ELSE stage[d]
      /\ QueueInv'
      /\ OneConnectionAtATime'
  BY <1>1, <1>3, StageMoves
<1>5. Shapes'
  BY <1>1, <1>4 DEF ServerInv, Shapes
<1>6. \A d \in Sessions : req'[d] = IF d = c THEN k ELSE req[d]
  BY <1>1 DEF ServerInv, Shapes
<1>7. RequestsInv'
  BY <1>2, <1>6 DEF ServerInv, RequestsInv
<1>8. MsmInv'
  BY <1>1, <1>4, <1>6 DEF ServerInv, MsmInv
<1>. QED
  BY <1>4, <1>5, <1>7, <1>8 DEF ServerInv

\* A valid chunk extends the prefix of its row.
LEMMA WithChunkPrefixes ==
  ASSUME NEW k, NEW p, Prefixes(k), ValidChunk(k, p)
  PROVE  Prefixes(WithChunk(k, p))
<1> DEFINE r == p.row
           a == p.from
           b == p.to
           n == WithChunk(k, p)
<1>1. r \in Rows /\ a = k.col[r] /\ b \in (a + 1)..M
  BY DEF ValidChunk
<1>2. n.col = [k.col EXCEPT ![r] = b] /\ n.rows = [k.rows EXCEPT ![r] = @ \o Cells(r, a, b)]
  BY DEF WithChunk
<1> HIDE DEF r, a, b, n
<1>3. k.col \in [Rows -> 0..M] /\ k.rows = [q \in Rows |-> Cells(q, 0, k.col[q])]
  BY DEF Prefixes
<1>4. a \in Nat /\ b \in Nat /\ a <= b /\ b \in 0..M
  BY <1>1, <1>3, ServerConstantsOK
<1>5. n.col \in [Rows -> 0..M] /\ \A q \in Rows : n.col[q] = IF q = r THEN b ELSE k.col[q]
  BY <1>1, <1>2, <1>3, <1>4
<1>6. k.rows[r] \o Cells(r, a, b) = Cells(r, 0, b)
  BY <1>1, <1>3, <1>4, CellsConcatenate
<1>7. n.rows = [q \in Rows |-> IF q = r THEN Cells(r, 0, b) ELSE Cells(q, 0, k.col[q])]
  BY <1>1, <1>2, <1>3, <1>6
<1>8. \A q \in Rows : (IF q = r THEN Cells(r, 0, b) ELSE Cells(q, 0, k.col[q])) = Cells(q, 0, n.col[q])
  BY <1>5
<1>9. n.rows = [q \in Rows |-> Cells(q, 0, n.col[q])]
  BY <1>7, <1>8
<1>. QED
  BY <1>5, <1>9 DEF Prefixes, n

\* An accepted chunk keeps every row a prefix.
LEMMA TakeChunkInv ==
  ASSUME ServerInv, NEW c \in Sessions, TakeChunk(c)
  PROVE  ServerInv'
<1> DEFINE n == WithChunk(req[c], Head(wire[c]).body)
<1>1. /\ stage[c] = "chunks" /\ stage' = stage
      /\ client' = client /\ backlog' = backlog /\ serving' = serving /\ log' = log
      /\ req' = [req EXCEPT ![c] = n]
      /\ ValidChunk(req[c], Head(wire[c]).body)
  BY DEF TakeChunk, acceptVars, ChunkAccepted
<1>2. Prefixes(n)
  BY <1>1, WithChunkPrefixes DEF ServerInv, RequestsInv
<1> HIDE DEF n
<1>3. \A d \in Sessions : req'[d] = IF d = c THEN n ELSE req[d]
  BY <1>1 DEF ServerInv, Shapes
<1>4. Shapes'
  BY <1>1 DEF ServerInv, Shapes
<1>5. QueueInv'
  BY <1>1 DEF ServerInv, QueueInv
<1>6. RequestsInv'
  BY <1>2, <1>3 DEF ServerInv, RequestsInv
<1>7. MsmInv'
  BY <1>1, <1>3 DEF ServerInv, MsmInv
<1>8. OneConnectionAtATime'
  BY <1>1 DEF ServerInv, OneConnectionAtATime
<1>. QED
  BY <1>4, <1>5, <1>6, <1>7, <1>8 DEF ServerInv

\* The server leaves the request alone and logs what it did.
LEMMA LogMoves ==
  ASSUME ServerInv, NEW c \in Sessions, stage[c] \in Working,
         NEW x \in Working \cup {"closed"}, NEW l,
         stage' = [stage EXCEPT ![c] = x], log' = [log EXCEPT ![c] = l],
         client' = client, backlog' = backlog, serving' = serving, req' = req,
         l.msm => /\ x \in {"multiplying", "body", "closed"}
                  /\ \A r \in Rows : req[c].col[r] = M
  PROVE  ServerInv'
<1>1. /\ stage' = [d \in Sessions |-> stage'[d]]
      /\ \A d \in Sessions : stage'[d] = IF d = c THEN x ELSE stage[d]
      /\ QueueInv'
      /\ OneConnectionAtATime'
  BY StageMoves
<1>2. \A d \in Sessions : log'[d] = IF d = c THEN l ELSE log[d]
  BY DEF ServerInv, Shapes
<1>3. Shapes'
  BY <1>1 DEF ServerInv, Shapes
<1>4. RequestsInv'
  BY DEF ServerInv, RequestsInv
<1>5. MsmInv'
  BY <1>1, <1>2 DEF ServerInv, MsmInv
<1>. QED
  BY <1>1, <1>3, <1>4, <1>5 DEF ServerInv

\* The multiplication starts only when every row has its M columns.
LEMMA TakeFinishInv ==
  ASSUME ServerInv, NEW c \in Sessions, TakeFinish(c)
  PROVE  ServerInv'
<1>1. /\ stage[c] = "chunks" /\ stage' = [stage EXCEPT ![c] = "multiplying"]
      /\ log' = [log EXCEPT ![c] = [msm |-> TRUE, status |-> "none"]]
      /\ client' = client /\ backlog' = backlog /\ serving' = serving /\ req' = req
      /\ Complete(req[c])
  BY DEF TakeFinish, acceptVars, FinishAccepted
<1>2. stage[c] \in Working /\ "multiplying" \in Working \cup {"closed"}
  BY <1>1 DEF Working
<1>3. \A r \in Rows : req[c].col[r] = M
  BY <1>1 DEF Complete
<1> DEFINE l == [msm |-> TRUE, status |-> "none"]
<1>4. log' = [log EXCEPT ![c] = l]
  BY <1>1
<1> HIDE DEF l
<1>. QED
  BY <1>1, <1>2, <1>3, <1>4, LogMoves

\* An error closes the connection and leaves its request as it was.
LEMMA RefuseInv ==
  ASSUME ServerInv, NEW c \in Sessions, stage[c] \in Working, Refuse(c)
  PROVE  ServerInv'
<1> DEFINE l == [msm |-> log[c].msm, status |-> "REJECTED"]
<1>1. /\ stage' = [stage EXCEPT ![c] = "closed"]
      /\ client' = client /\ backlog' = backlog /\ serving' = serving /\ req' = req
      /\ log' = [log EXCEPT ![c] = l]
  BY DEF Refuse, acceptVars, ServerInv, Shapes
<1>2. l.msm => \A r \in Rows : req[c].col[r] = M
  BY DEF ServerInv, MsmInv
<1> HIDE DEF l
<1>. QED
  BY <1>1, <1>2, LogMoves

\* The response header changes nothing that was received.
LEMMA SendResponseHeaderInv ==
  ASSUME ServerInv, NEW c \in Sessions, SendResponseHeader(c)
  PROVE  ServerInv'
<1>1. stage[c] = "multiplying" /\ stage[c] \in Working /\ "body" \in Working \cup {"closed"}
  BY DEF SendResponseHeader, Working
<1>2. CASE Refuse(c)
  BY <1>1, <1>2, RefuseInv
<1>3. CASE ~Refuse(c)
  <2>1. /\ stage' = [stage EXCEPT ![c] = "body"]
        /\ client' = client /\ backlog' = backlog /\ serving' = serving
        /\ req' = req /\ log' = log
    BY <1>3 DEF SendResponseHeader, acceptVars
  <2>2. /\ stage' = [d \in Sessions |-> stage'[d]]
        /\ \A d \in Sessions : stage'[d] = IF d = c THEN "body" ELSE stage[d]
        /\ QueueInv'
        /\ OneConnectionAtATime'
    BY <1>1, <2>1, StageMoves
  <2>3. Shapes'
    BY <2>1, <2>2 DEF ServerInv, Shapes
  <2>4. RequestsInv'
    BY <2>1 DEF ServerInv, RequestsInv
  <2>5. MsmInv'
    BY <2>1, <2>2 DEF ServerInv, MsmInv
  <2>. QED
    BY <2>2, <2>3, <2>4, <2>5 DEF ServerInv
<1>. QED
  BY <1>2, <1>3

\* The response body changes nothing that was received.
LEMMA SendResponseBodyInv ==
  ASSUME ServerInv, NEW c \in Sessions, SendResponseBody(c)
  PROVE  ServerInv'
<1>1. stage[c] = "body" /\ stage[c] \in Working
  BY DEF SendResponseBody, Working
<1>2. CASE Refuse(c)
  BY <1>1, <1>2, RefuseInv
<1>3. CASE ~Refuse(c)
  <2> DEFINE l == [msm |-> log[c].msm, status |-> "PASS"]
  <2>1. /\ stage' = [stage EXCEPT ![c] = "closed"]
        /\ client' = client /\ backlog' = backlog /\ serving' = serving /\ req' = req
        /\ log' = [log EXCEPT ![c] = l]
    BY <1>3 DEF SendResponseBody, acceptVars, ServerInv, Shapes
  <2>2. l.msm => \A r \in Rows : req[c].col[r] = M
    BY DEF ServerInv, MsmInv
  <2> HIDE DEF l
  <2>. QED
    BY <1>1, <2>1, <2>2, LogMoves
<1>. QED
  BY <1>2, <1>3

\* The end of the server's process leaves no one queued or in work.
LEMMA ServerGoneInv ==
  ASSUME ServerInv, ServerGone, UNCHANGED <<client, req, log>>
  PROVE  ServerInv'
<1>1. /\ stage' = [d \in Sessions |-> IF stage[d] = "none" THEN "none" ELSE "closed"]
      /\ backlog' = <<>> /\ client' = client /\ req' = req /\ log' = log
  BY DEF ServerGone
<1>2. Shapes'
  BY <1>1 DEF ServerInv, Shapes
<1>3. QueueInv'
  <2>1. backlog' \in Seq(Sessions) /\ Len(backlog') = 0
    BY <1>1
  <2>2. \A d \in Sessions : client'[d] = "none" => stage'[d] = "none"
    BY <1>1 DEF ServerInv, QueueInv
  <2>. QED
    BY <2>1, <2>2 DEF QueueInv
<1>4. RequestsInv'
  BY <1>1 DEF ServerInv, RequestsInv
<1>5. MsmInv'
  BY <1>1 DEF ServerInv, MsmInv
<1>6. OneConnectionAtATime'
  BY <1>1 DEF OneConnectionAtATime, Working
<1>. QED
  BY <1>2, <1>3, <1>4, <1>5, <1>6 DEF ServerInv

\* The line of metrics ends the work on a closed connection only.
LEMMA WriteMetricsInv ==
  ASSUME ServerInv, NEW c \in Sessions, WriteMetrics(c)
  PROVE  ServerInv'
<1>1. CASE ServerGone
  BY <1>1, ServerGoneInv DEF WriteMetrics
<1>2. CASE ~ServerGone
  <2>1. /\ serving = c /\ stage[c] = "closed"
        /\ stage' = stage /\ backlog' = backlog /\ client' = client
        /\ req' = req /\ log' = log
    BY <1>2 DEF WriteMetrics
  <2>2. Shapes'
    BY <2>1 DEF ServerInv, Shapes
  <2>3. QueueInv'
    BY <2>1 DEF ServerInv, QueueInv
  <2>4. RequestsInv'
    BY <2>1 DEF ServerInv, RequestsInv
  <2>5. MsmInv'
    BY <2>1 DEF ServerInv, MsmInv
  <2>6. OneConnectionAtATime'
    BY <2>1 DEF ServerInv, OneConnectionAtATime, Working
  <2>. QED
    BY <2>2, <2>3, <2>4, <2>5, <2>6 DEF ServerInv
<1>. QED
  BY <1>1, <1>2

\* Every step of the server keeps the invariant.
LEMMA ServerWorkInv == ServerInv /\ ServerWork => ServerInv'
<1> SUFFICES ASSUME ServerInv, ServerWork PROVE ServerInv'
  OBVIOUS
<1>1. CASE Accept
  BY <1>1, AcceptInv
<1>2. ASSUME NEW c \in Sessions, TakeHeader(c) PROVE ServerInv'
  BY <1>2, TakeHeaderInv
<1>3. ASSUME NEW c \in Sessions, TakeChunk(c) PROVE ServerInv'
  BY <1>3, TakeChunkInv
<1>4. ASSUME NEW c \in Sessions, TakeFinish(c) PROVE ServerInv'
  BY <1>4, TakeFinishInv
<1>5. ASSUME NEW c \in Sessions, RefuseFrame(c) \/ ReadFails(c) PROVE ServerInv'
  <2>1. stage[c] \in Working /\ Refuse(c)
    BY <1>5 DEF RefuseFrame, ReadFails, Working
  <2>. QED
    BY <2>1, RefuseInv
<1>6. ASSUME NEW c \in Sessions, SendResponseHeader(c) PROVE ServerInv'
  BY <1>6, SendResponseHeaderInv
<1>7. ASSUME NEW c \in Sessions, SendResponseBody(c) PROVE ServerInv'
  BY <1>7, SendResponseBodyInv
<1>8. ASSUME NEW c \in Sessions, WriteMetrics(c) PROVE ServerInv'
  BY <1>8, WriteMetricsInv
<1>. QED
  BY <1>1, <1>2, <1>3, <1>4, <1>5, <1>6, <1>7, <1>8 DEF ServerWork

\* A kill of the server at any point keeps the invariant.
LEMMA ServerKilledInv == ServerInv /\ ServerKilled => ServerInv'
  BY ServerGoneInv DEF ServerKilled

\* What the invariant says of the multiplication.
LEMMA CompleteRows == ServerInv => MsmAfterCompleteRequest
<1> SUFFICES ASSUME ServerInv, NEW c \in Sessions, log[c].msm, NEW r \in Rows
             PROVE  req[c].rows[r] = FullRow(r)
  BY DEF MsmAfterCompleteRequest
<1>1. req[c].rows = [q \in Rows |-> Cells(q, 0, req[c].col[q])]
  BY DEF ServerInv, RequestsInv, Prefixes
<1>2. req[c].col[r] = M
  BY DEF ServerInv, MsmInv
<1>. QED
  BY <1>1, <1>2 DEF FullRow

-------------------------------------------------------------------------------
(* Clients that may write any frame next *)


\* A step of a client is a connection or leaves the server alone.
LEMMA ClientSteps ==
  ASSUME ServerInv, NEW c \in Sessions,
         WriteHeader(c) \/ WriteChunk(c) \/ WriteFinish(c) \/ WriteOther(c) \/ Disconnect(c)
  PROVE  ClientMoves /\ answer' = answer
<1>1. CASE WriteHeader(c)
  BY <1>1 DEF WriteHeader, Others, ClientMoves, ServerInv, Shapes, acceptVars
<1>2. CASE WriteChunk(c)
  BY <1>2 DEF WriteChunk, Others, ClientMoves, ServerInv, Shapes, acceptVars
<1>3. CASE WriteFinish(c)
  BY <1>3 DEF WriteFinish, Others, ClientMoves, ServerInv, Shapes, acceptVars
<1>4. CASE WriteOther(c)
  BY <1>4 DEF WriteOther, Others, ClientMoves, ServerInv, Shapes, acceptVars
<1>5. CASE Disconnect(c)
  BY <1>5 DEF Disconnect, Hangup, ClientMoves, ServerInv, Shapes, acceptVars
<1>. QED
  BY <1>1, <1>2, <1>3, <1>4, <1>5

\* Nothing is multiplied for a client without a connection.
IdleInv == \A c \in Sessions : stage[c] = "none" => ~log[c].msm

\* A connection is never forgotten, and a log is written for connections only.
LEMMA IdleNext == ServerInv /\ IdleInv /\ [TrafficNext]_serverVars => IdleInv'
<1> SUFFICES ASSUME ServerInv, IdleInv, [TrafficNext]_serverVars, NEW c \in Sessions
             PROVE  stage'[c] = "none" => stage[c] = "none" /\ log'[c].msm = log[c].msm
  BY DEF IdleInv
<1> USE DEF ServerInv, Shapes
<1>1. CASE Accept
  <2>1. backlog \in Seq(Sessions) /\ backlog # <<>>
    BY <1>1 DEF Accept, QueueInv
  <2>. QED
    BY <1>1, <2>1 DEF Accept
<1>2. ASSUME NEW d \in Sessions, TakeHeader(d) \/ TakeChunk(d) \/ TakeFinish(d)
      PROVE  stage'[c] = "none" => stage[c] = "none" /\ log'[c].msm = log[c].msm
  BY <1>2 DEF TakeHeader, TakeChunk, TakeFinish
<1>3. ASSUME NEW d \in Sessions, Refuse(d)
      PROVE  stage'[c] = "none" => stage[c] = "none" /\ log'[c].msm = log[c].msm
  BY <1>3 DEF Refuse
<1>4. ASSUME NEW d \in Sessions, RefuseFrame(d) \/ ReadFails(d)
      PROVE  stage'[c] = "none" => stage[c] = "none" /\ log'[c].msm = log[c].msm
  BY <1>3, <1>4 DEF RefuseFrame, ReadFails
<1>5. ASSUME NEW d \in Sessions, SendResponseHeader(d) \/ SendResponseBody(d)
      PROVE  stage'[c] = "none" => stage[c] = "none" /\ log'[c].msm = log[c].msm
  BY <1>3, <1>5 DEF SendResponseHeader, SendResponseBody
<1>6. ASSUME ServerKilled \/ \E d \in Sessions : WriteMetrics(d)
      PROVE  stage'[c] = "none" => stage[c] = "none" /\ log'[c].msm = log[c].msm
  BY <1>6 DEF ServerKilled, WriteMetrics, ServerGone
<1>7. ASSUME NEW d \in Sessions, Dial(d)
      PROVE  stage'[c] = "none" => stage[c] = "none" /\ log'[c].msm = log[c].msm
  BY <1>7 DEF Dial, Connected
<1>8. ASSUME NEW d \in Sessions,
             WriteHeader(d) \/ WriteChunk(d) \/ WriteFinish(d) \/ WriteOther(d) \/ Disconnect(d)
      PROVE  stage'[c] = "none" => stage[c] = "none" /\ log'[c].msm = log[c].msm
  BY <1>8, ClientSteps DEF ClientMoves
<1>9. CASE UNCHANGED serverVars
  BY <1>9 DEF serverVars
<1>. QED
  BY <1>1, <1>2, <1>4, <1>5, <1>6, <1>7, <1>8, <1>9 DEF TrafficNext, ServerWork

\* Every step keeps the server's invariant: the clients' steps as well.
LEMMA TrafficNextInv == ServerInv /\ IdleInv /\ [TrafficNext]_serverVars => ServerInv'
<1> SUFFICES ASSUME ServerInv, IdleInv, [TrafficNext]_serverVars PROVE ServerInv'
  OBVIOUS
<1>1. CASE ServerWork
  BY <1>1, ServerWorkInv
<1>2. CASE ServerKilled
  BY <1>2, ServerKilledInv
<1>3. ASSUME NEW c \in Sessions, Dial(c) PROVE ServerInv'
  <2>1. ~log[c].msm
    BY <1>3 DEF Dial, Connected, ServerInv, QueueInv, IdleInv
  <2>. QED
    BY <1>3, <2>1, ConnectedInv DEF Dial
<1>4. ASSUME NEW c \in Sessions,
             WriteHeader(c) \/ WriteChunk(c) \/ WriteFinish(c) \/ WriteOther(c) \/ Disconnect(c)
      PROVE  ServerInv'
  BY <1>4, ClientSteps, ClientMovesInv
<1>5. CASE UNCHANGED serverVars
  <2>1. ClientMoves
    BY <1>5 DEF serverVars, netVars, acceptVars, ClientMoves, ServerInv, Shapes
  <2>. QED
    BY <2>1, ClientMovesInv
<1>. QED
  BY <1>1, <1>2, <1>3, <1>4, <1>5 DEF TrafficNext

\* The invariant holds whatever the clients do.
THEOREM TrafficInvariance == TrafficSpec => [](ServerInv /\ IdleInv)
<1>1. ServerInit => ServerInv /\ IdleInv
  BY ServerInitInv DEF ServerInit, IdleInv, NoLog
<1>2. ServerInv /\ IdleInv /\ [TrafficNext]_serverVars => (ServerInv /\ IdleInv)'
  BY TrafficNextInv, IdleNext
<1>. QED
  BY <1>1, <1>2, PTL DEF TrafficSpec

\* No multiplication before every row holds each of its columns once, in order.
THEOREM CompleteBeforeMsm == TrafficSpec => []MsmAfterCompleteRequest
  BY TrafficInvariance, CompleteRows, PTL

\* The server's one thread works on the connection the loop accepted.
THEOREM SingleConnection == TrafficSpec => []OneConnectionAtATime
<1>1. ServerInv => OneConnectionAtATime
  BY DEF ServerInv
<1>. QED
  BY <1>1, TrafficInvariance, PTL

-------------------------------------------------------------------------------
(* What the clients are answered *)

Stages == {"none", "queued", "header", "chunks", "multiplying", "body", "closed"}

\* A connection's stage, answer, log and request fit together.
AnswerOK(s, a, l, k) ==
  /\ s \in Stages
  /\ s \in {"none", "queued", "header", "chunks", "multiplying"} => a = <<>> /\ l.status = "none"
  /\ s \in {"multiplying", "body"} => l.msm
  /\ s = "body" => a = <<HeaderOf(k)>> /\ l.status = "none"
  /\ l.status = "PASS" => a = <<HeaderOf(k), BodyOf(k)>> /\ l.msm
  /\ l.status = "REJECTED" => \A i \in 1..Len(a) : a[i].type # "responseBody"

AnswerInv ==
  /\ answer = [c \in Sessions |-> answer[c]]
  /\ \A c \in Sessions : AnswerOK(stage[c], answer[c], log[c], req[c])

\* A step changes one connection, and that one as it should.
LEMMA OneAnswered ==
  ASSUME AnswerInv, NEW c \in Sessions,
         answer' = [d \in Sessions |-> answer'[d]],
         \A d \in Sessions \ {c} : /\ stage'[d] = stage[d] /\ answer'[d] = answer[d]
                                   /\ log'[d] = log[d] /\ req'[d] = req[d],
         AnswerOK(stage'[c], answer'[c], log'[c], req'[c])
  PROVE  AnswerInv'
<1>1. \A d \in Sessions : AnswerOK(stage'[d], answer'[d], log'[d], req'[d])
  <2> SUFFICES ASSUME NEW d \in Sessions PROVE AnswerOK(stage'[d], answer'[d], log'[d], req'[d])
    OBVIOUS
  <2>1. CASE d = c
    BY <2>1
  <2>2. CASE d # c
    BY <2>2 DEF AnswerInv
  <2>. QED
    BY <2>1, <2>2
<1>. QED
  BY <1>1 DEF AnswerInv

\* At first no one has been answered.
LEMMA InitAnswerInv == ServerInit => AnswerInv
<1> SUFFICES ASSUME ServerInit PROVE AnswerInv
  OBVIOUS
<1>1. answer = [c \in Sessions |-> <<>>] /\ stage = [c \in Sessions |-> "none"]
      /\ log = [c \in Sessions |-> NoLog]
  BY DEF ServerInit
<1>2. \A c \in Sessions : AnswerOK(stage[c], answer[c], log[c], req[c])
  BY <1>1 DEF AnswerOK, NoLog, Stages
<1>. QED
  BY <1>1, <1>2 DEF AnswerInv

\* Steps that answer nothing: a new connection, and the server's before it has
\* the whole request.
LEMMA QuietSteps ==
  ASSUME ServerInv, AnswerInv, NEW c \in Sessions,
         Dial(c) \/ TakeHeader(c) \/ TakeChunk(c) \/ TakeFinish(c)
  PROVE  AnswerInv'
<1>1. answer' = answer
  BY DEF Dial, Connected, TakeHeader, TakeChunk, TakeFinish
<1>2. /\ stage[c] \in {"none", "header", "chunks"}
      /\ stage'[c] \in {"queued", "chunks", "multiplying"}
      /\ stage'[c] = "multiplying" => log'[c] = [msm |-> TRUE, status |-> "none"]
      /\ stage'[c] # "multiplying" => log'[c] = log[c]
      /\ \A d \in Sessions \ {c} : stage'[d] = stage[d] /\ log'[d] = log[d] /\ req'[d] = req[d]
  <2>1. CASE Dial(c)
    BY <2>1 DEF Dial, Connected, ServerInv, Shapes, QueueInv
  <2>2. CASE TakeHeader(c)
    BY <2>2 DEF TakeHeader, ServerInv, Shapes
  <2>3. CASE TakeChunk(c)
    BY <2>3 DEF TakeChunk, ServerInv, Shapes
  <2>4. CASE TakeFinish(c)
    BY <2>4 DEF TakeFinish, ServerInv, Shapes
  <2>. QED
    BY <2>1, <2>2, <2>3, <2>4
<1>3. answer[c] = <<>> /\ log[c].status = "none"
  BY <1>2 DEF AnswerInv, AnswerOK
<1>4. AnswerOK(stage'[c], answer'[c], log'[c], req'[c])
  BY <1>1, <1>2, <1>3 DEF AnswerOK, Stages
<1>. QED
  BY <1>1, <1>2, <1>4, OneAnswered DEF AnswerInv

\* Appending to a sequence of one gives the sequence of two.
LEMMA AppendSecond ==
  ASSUME NEW x, NEW y
  PROVE  Append(<<x>>, y) = <<x, y>>
<1> DEFINE S == {x, y}
<1>1. <<x>> \in Seq(S) /\ <<x, y>> \in Seq(S) /\ y \in S
  OBVIOUS
<1>2. Append(<<x>>, y) \in Seq(S) /\ Len(Append(<<x>>, y)) = 2
  BY <1>1
<1>3. Append(<<x>>, y)[1] = x /\ Append(<<x>>, y)[2] = y
  BY <1>1
<1> HIDE DEF S
<1>4. \A i \in 1..2 : Append(<<x>>, y)[i] = <<x, y>>[i]
  BY <1>3
<1>. QED
  BY <1>1, <1>2, <1>4, SeqEqual, Len(<<x, y>>) = 2

\* An error closes the connection without a body.
LEMMA RefuseAnswers ==
  ASSUME ServerInv, AnswerInv, NEW c \in Sessions, stage[c] \in Working, Refuse(c)
  PROVE  AnswerInv'
<1> DEFINE e == ErrorFrame
           l == [msm |-> log[c].msm, status |-> "REJECTED"]
<1>1. /\ stage' = [stage EXCEPT ![c] = "closed"] /\ log' = [log EXCEPT ![c] = l] /\ req' = req
      /\ answer' = answer \/ answer' = [answer EXCEPT ![c] = Append(answer[c], e)]
  BY DEF Refuse, ErrorFrame, ServerInv, Shapes, AnswerInv
<1>2. l.status = "REJECTED" /\ e.type # "responseBody"
  BY DEF ErrorFrame
<1> HIDE DEF e, l
<1>3. answer[c] = <<>> \/ answer[c] = <<HeaderOf(req[c])>>
  BY DEF Working, AnswerInv, AnswerOK
<1>4. HeaderOf(req[c]).type # "responseBody"
  BY DEF HeaderOf
<1>5. answer'[c] \in {<<>>, <<e>>, <<HeaderOf(req[c])>>, <<HeaderOf(req[c]), e>>}
  <2>1. answer'[c] = answer[c] \/ answer'[c] = Append(answer[c], e)
    BY <1>1 DEF AnswerInv
  <2>2. Append(<<>>, e) = <<e>> /\ Append(<<HeaderOf(req[c])>>, e) = <<HeaderOf(req[c]), e>>
    BY AppendSecond
  <2>. QED
    BY <1>3, <2>1, <2>2
<1>6. \A i \in 1..Len(answer'[c]) : answer'[c][i].type # "responseBody"
  BY <1>2, <1>4, <1>5
<1>7. stage'[c] = "closed" /\ log'[c] = l
  BY <1>1 DEF ServerInv, Shapes
<1>8. AnswerOK(stage'[c], answer'[c], log'[c], req'[c])
  BY <1>2, <1>6, <1>7 DEF AnswerOK, Stages
<1>9. answer' = [d \in Sessions |-> answer'[d]]
  BY <1>1 DEF AnswerInv
<1>10. \A d \in Sessions \ {c} : /\ stage'[d] = stage[d] /\ answer'[d] = answer[d]
                                 /\ log'[d] = log[d] /\ req'[d] = req[d]
  BY <1>1 DEF ServerInv, Shapes, AnswerInv
<1>. QED
  BY <1>8, <1>9, <1>10, OneAnswered

\* The response header is the first frame of an answer.
LEMMA HeaderAnswers ==
  ASSUME ServerInv, AnswerInv, NEW c \in Sessions, SendResponseHeader(c)
  PROVE  AnswerInv'
<1>1. stage[c] = "multiplying" /\ stage[c] \in Working
  BY DEF SendResponseHeader, Working
<1>2. CASE Refuse(c)
  BY <1>1, <1>2, RefuseAnswers
<1>3. CASE ~Refuse(c)
  <2>1. /\ stage' = [stage EXCEPT ![c] = "body"] /\ req' = req /\ log' = log
        /\ answer' = [answer EXCEPT ![c] = Append(answer[c], HeaderOf(req[c]))]
    BY <1>3 DEF SendResponseHeader, HeaderOf, AnswerInv
  <2>2. answer[c] = <<>> /\ log[c].status = "none" /\ log[c].msm
    BY <1>1 DEF AnswerInv, AnswerOK
  <2>3. answer'[c] = <<HeaderOf(req[c])>> /\ stage'[c] = "body"
    BY <2>1, <2>2 DEF AnswerInv, ServerInv, Shapes
  <2>4. AnswerOK(stage'[c], answer'[c], log'[c], req'[c])
    BY <2>1, <2>2, <2>3 DEF AnswerOK, Stages
  <2>5. answer' = [d \in Sessions |-> answer'[d]]
    BY <2>1 DEF AnswerInv
  <2>6. \A d \in Sessions \ {c} : /\ stage'[d] = stage[d] /\ answer'[d] = answer[d]
                                  /\ log'[d] = log[d] /\ req'[d] = req[d]
    BY <2>1 DEF ServerInv, Shapes, AnswerInv
  <2>. QED
    BY <2>4, <2>5, <2>6, OneAnswered
<1>. QED
  BY <1>2, <1>3

\* The response body is the second frame of an answer, and the metrics say PASS.
LEMMA BodyAnswers ==
  ASSUME ServerInv, AnswerInv, NEW c \in Sessions, SendResponseBody(c)
  PROVE  AnswerInv'
<1>1. stage[c] = "body" /\ stage[c] \in Working
  BY DEF SendResponseBody, Working
<1>2. CASE Refuse(c)
  BY <1>1, <1>2, RefuseAnswers
<1>3. CASE ~Refuse(c)
  <2> DEFINE l == [msm |-> log[c].msm, status |-> "PASS"]
  <2>1. /\ stage' = [stage EXCEPT ![c] = "closed"] /\ req' = req
        /\ log' = [log EXCEPT ![c] = l]
        /\ answer' = [answer EXCEPT ![c] = Append(answer[c], BodyOf(req[c]))]
    BY <1>3 DEF SendResponseBody, BodyOf, AnswerInv, ServerInv, Shapes
  <2>2. answer[c] = <<HeaderOf(req[c])>> /\ log[c].msm
    BY <1>1 DEF AnswerInv, AnswerOK
  <2>3. l.status = "PASS" /\ l.msm
    BY <2>2
  <2> HIDE DEF l
  <2>4. answer'[c] = <<HeaderOf(req[c]), BodyOf(req[c])>> /\ stage'[c] = "closed" /\ log'[c] = l
    BY <2>1, <2>2, AppendSecond DEF AnswerInv, ServerInv, Shapes
  <2>5. AnswerOK(stage'[c], answer'[c], log'[c], req'[c])
    BY <2>1, <2>3, <2>4 DEF AnswerOK, Stages
  <2>6. answer' = [d \in Sessions |-> answer'[d]]
    BY <2>1 DEF AnswerInv
  <2>7. \A d \in Sessions \ {c} : /\ stage'[d] = stage[d] /\ answer'[d] = answer[d]
                                  /\ log'[d] = log[d] /\ req'[d] = req[d]
    BY <2>1 DEF ServerInv, Shapes, AnswerInv
  <2>. QED
    BY <2>5, <2>6, <2>7, OneAnswered
<1>. QED
  BY <1>2, <1>3

\* A connection that is accepted has not been answered yet.
LEMMA AcceptAnswers == ServerInv /\ AnswerInv /\ Accept => AnswerInv'
<1> SUFFICES ASSUME ServerInv, AnswerInv, Accept PROVE AnswerInv'
  OBVIOUS
<1> DEFINE c == Head(backlog)
<1>1. /\ stage' = [stage EXCEPT ![c] = "header"] /\ backlog # <<>>
      /\ answer' = answer /\ req' = req /\ log' = log
  BY DEF Accept, netVars
<1>2. backlog \in Seq(Sessions) /\ c = backlog[1] /\ 1 \in 1..Len(backlog)
  BY <1>1 DEF ServerInv, QueueInv
<1>3. c \in Sessions /\ stage[c] = "queued"
  BY <1>2 DEF ServerInv, QueueInv
<1> HIDE DEF c
<1>4. \A d \in Sessions : stage'[d] = IF d = c THEN "header" ELSE stage[d]
  BY <1>1 DEF ServerInv, Shapes
<1>5. answer[c] = <<>> /\ log[c].status = "none"
  BY <1>3 DEF AnswerInv, AnswerOK
<1>6. AnswerOK(stage'[c], answer'[c], log'[c], req'[c])
  BY <1>1, <1>3, <1>4, <1>5 DEF AnswerOK, Stages
<1>. QED
  BY <1>1, <1>3, <1>4, <1>6, OneAnswered DEF AnswerInv

\* What stays after the server is gone: nothing more is answered.
LEMMA GoneAnswers ==
  ASSUME AnswerInv, ServerGone, UNCHANGED <<answer, req, log>>
  PROVE  AnswerInv'
<1>1. /\ stage' = [c \in Sessions |-> IF stage[c] = "none" THEN "none" ELSE "closed"]
      /\ answer' = answer /\ req' = req /\ log' = log
  BY DEF ServerGone
<1>2. \A c \in Sessions : AnswerOK(stage'[c], answer'[c], log'[c], req'[c])
  <2> SUFFICES ASSUME NEW c \in Sessions PROVE AnswerOK(stage'[c], answer'[c], log'[c], req'[c])
    OBVIOUS
  <2>1. AnswerOK(stage[c], answer[c], log[c], req[c])
    BY DEF AnswerInv
  <2>2. stage'[c] = stage[c] \/ stage'[c] = "closed"
    BY <1>1
  <2>. QED
    BY <1>1, <2>1, <2>2 DEF AnswerOK, Stages
<1>. QED
  BY <1>1, <1>2 DEF AnswerInv

\* The server's own steps keep the answers in order.
LEMMA WorkAnswers == ServerInv /\ AnswerInv /\ ServerWork => AnswerInv'
<1> SUFFICES ASSUME ServerInv, AnswerInv, ServerWork PROVE AnswerInv'
  OBVIOUS
<1>1. CASE Accept
  BY <1>1, AcceptAnswers
<1>2. ASSUME NEW c \in Sessions, TakeHeader(c) \/ TakeChunk(c) \/ TakeFinish(c)
      PROVE  AnswerInv'
  BY <1>2, QuietSteps
<1>3. ASSUME NEW c \in Sessions, RefuseFrame(c) \/ ReadFails(c) PROVE AnswerInv'
  <2>1. stage[c] \in Working /\ Refuse(c)
    BY <1>3 DEF RefuseFrame, ReadFails, Working
  <2>. QED
    BY <2>1, RefuseAnswers
<1>4. ASSUME NEW c \in Sessions, SendResponseHeader(c) PROVE AnswerInv'
  BY <1>4, HeaderAnswers
<1>5. ASSUME NEW c \in Sessions, SendResponseBody(c) PROVE AnswerInv'
  BY <1>5, BodyAnswers
<1>6. ASSUME NEW c \in Sessions, WriteMetrics(c) PROVE AnswerInv'
  <2>1. CASE ServerGone
    BY <1>6, <2>1, GoneAnswers DEF WriteMetrics
  <2>2. CASE ~ServerGone
    BY <1>6, <2>2 DEF WriteMetrics, AnswerInv
  <2>. QED
    BY <2>1, <2>2
<1>. QED
  BY <1>1, <1>2, <1>3, <1>4, <1>5, <1>6 DEF ServerWork

\* Every step, the clients' included, keeps the answers in order.
LEMMA AnswerNext == ServerInv /\ AnswerInv /\ [TrafficNext]_serverVars => AnswerInv'
<1> SUFFICES ASSUME ServerInv, AnswerInv, [TrafficNext]_serverVars PROVE AnswerInv'
  OBVIOUS
<1>1. CASE ServerWork
  BY <1>1, WorkAnswers
<1>2. CASE ServerKilled
  BY <1>2, GoneAnswers DEF ServerKilled
<1>3. ASSUME NEW c \in Sessions, Dial(c) PROVE AnswerInv'
  BY <1>3, QuietSteps
<1>4. ASSUME NEW c \in Sessions,
             WriteHeader(c) \/ WriteChunk(c) \/ WriteFinish(c) \/ WriteOther(c) \/ Disconnect(c)
      PROVE  AnswerInv'
  BY <1>4, ClientSteps DEF ClientMoves, AnswerInv
<1>5. CASE UNCHANGED serverVars
  BY <1>5 DEF serverVars, netVars, AnswerInv
<1>. QED
  BY <1>1, <1>2, <1>3, <1>4, <1>5 DEF TrafficNext

\* Both invariants hold whatever the clients do.
THEOREM AnswerInvariance == TrafficSpec => [](ServerInv /\ AnswerInv)
<1>1. ServerInit => AnswerInv
  BY InitAnswerInv
<1>2. ServerInv /\ AnswerInv /\ [TrafficNext]_serverVars => AnswerInv'
  BY AnswerNext
<1>. QED
  BY <1>1, <1>2, TrafficInvariance, PTL DEF TrafficSpec

\* A connection that the metrics call PASS was sent the digest of its chunks and
\* the products of its complete rows, in the order of the rows.
THEOREM PassesAnswered == TrafficSpec => []PassMeansAnswered
<1>1. ServerInv /\ AnswerInv => PassMeansAnswered
  <2> SUFFICES ASSUME ServerInv, AnswerInv, NEW c \in Sessions, log[c].status = "PASS"
               PROVE  answer[c] =
                        <<[type |-> "responseHeader", digest |-> req[c].digest],
                          [type |-> "responseBody", outputs |-> [j \in 1..Q |-> FullRow(j - 1)]]>>
    BY DEF PassMeansAnswered
  <2>1. answer[c] = <<HeaderOf(req[c]), BodyOf(req[c])>> /\ log[c].msm
    BY DEF AnswerInv, AnswerOK
  <2>2. \A r \in Rows : req[c].rows[r] = FullRow(r)
    BY <2>1, CompleteRows DEF MsmAfterCompleteRequest
  <2>3. \A j \in 1..Q : req[c].rows[j - 1] = FullRow(j - 1)
    <3> SUFFICES ASSUME NEW j \in 1..Q PROVE req[c].rows[j - 1] = FullRow(j - 1)
      OBVIOUS
    <3>1. j - 1 \in Rows
      BY ServerConstantsOK DEF Rows
    <3>. QED
      BY <2>2, <3>1
  <2>4. Products(req[c]) = [j \in 1..Q |-> FullRow(j - 1)]
    BY <2>3 DEF Products
  <2>. QED
    BY <2>1, <2>4 DEF HeaderOf, BodyOf
<1>. QED
  BY <1>1, AnswerInvariance, PTL

\* A refused connection is never sent a response body.
THEOREM RefusedUnanswered == TrafficSpec => []RefusedMeansUnanswered
<1>1. AnswerInv => RefusedMeansUnanswered
  BY DEF AnswerInv, AnswerOK, RefusedMeansUnanswered
<1>. QED
  BY <1>1, AnswerInvariance, PTL

\* The metrics line never says of a connection what its client was not sent.
THEOREM MetricsTrue == TrafficSpec => []MetricsMatchAnswer
<1>1. PassMeansAnswered /\ RefusedMeansUnanswered => MetricsMatchAnswer
  BY DEF MetricsMatchAnswer
<1>. QED
  BY <1>1, PassesAnswered, RefusedUnanswered, PTL

-------------------------------------------------------------------------------
(* The invariant of the sessions *)

\* Before the finish of the request has been sent.
Early == {"new", "refused", "connecting", "greeting", "uploading"}

Phases ==
  Early \cup {"waiting", "body", "outputs", "checked", "dropping", "dropped", "returned",
              "failed", "done", "killed"}

Scalars == Rows \X Nat

Points == Seq(Scalars)

SessionType ==
  [phase : Phases, mode : Modes \cup {"semi"}, link : Links \cup {"local"},
   hook : Hooks \cup {"none"}, col : [Rows -> 0..M], acc : [Rows -> Points],
   chunks : Nat, seq : Nat, scalars : Nat, hashed : Seq(Chunks), outputs : Seq(Points),
   token : {"none", "reserved", "burned", "spent"}, finalized : BOOLEAN,
   err : {"none", "other", "integrity"}]

SpoolType ==
  [files : SUBSET Names, payload : Seq(Scalars), written : Nat, open : BOOLEAN, sealed : BOOLEAN]

SessionTypeOK ==
  /\ ses \in [Sessions -> SessionType]
  /\ spool \in [Sessions -> SpoolType]
  /\ faults \in Nat

\* The token is settled as the session ends, and outputs leave with a spent one.
LifeOK(s) ==
  /\ s.phase = "new" => s = New
  /\ s.phase \in {"dropped", "failed"} => s.token \in {"none", "burned"}
  /\ s.phase \in {"returned", "done"} => s.finalized
  /\ s.finalized => s.phase \in {"returned", "done", "killed"} /\ s.token \in {"none", "spent"}
  /\ s.token = "spent" => s.finalized
  /\ s.token = "burned" \/ s.err = "integrity" =>
       s.phase \in {"dropping", "dropped", "failed", "killed"}

LifeInv == \A c \in Sessions : LifeOK(ses[c])

\* Each of Drop and Drop of SecureSpool removes the files unless an I/O error
\* stops it.
FilesOK(s, sp, n) ==
  /\ (s.phase = "new" \/ s.mode # "malicious") => sp.files = {}
  /\ s.phase \in {"checked", "returned"} => sp.files = {}
  /\ s.phase = "dropped" /\ sp.files # {} => n >= 1
  /\ s.phase \in {"failed", "done"} /\ sp.files # {} => n >= 2
  /\ s.phase = "refused" /\ sp.files # {} => n >= 1

FilesInv == \A c \in Sessions : FilesOK(ses[c], spool[c], faults)

\* The finish frame has been sent, or the loopback told to finish.
Finished(s) == s.phase \notin Early /\ s.seq = Len(s.hashed) + 2

\* The frames a session can have on the wire.
Sent(s) ==
  {HeaderFrame(0, TRUE, Expected)}
    \cup {ChunkFrame(i, s.hashed[i]) : i \in 1..Len(s.hashed)}
    \cup {f \in {FinishFrame(Len(s.hashed) + 1, Len(s.hashed), s.scalars, s.hashed)} : Finished(s)}
    \cup [type : {"broken", "abort"}, seq : Nat]

\* The server has taken the first chunks of the session.
Taken(s, k) ==
  /\ k.digest \in Seq(Chunks)
  /\ k.chunks = Len(k.digest)
  /\ Len(k.digest) <= Len(s.hashed)
  /\ \A i \in 1..Len(k.digest) : k.digest[i] = s.hashed[i]

\* The session's end of the connection and the server's request agree.
RequestOK(s, cl, st, w, k, l) ==
  /\ cl # "none" => s.link = "tcp" /\ s.phase \notin {"new", "refused", "connecting"}
  /\ s.phase = "connecting" => s.link = "tcp"
  /\ w \in Seq(Sent(s))
  /\ s.link \in {"tcp", "loopback"} =>
       /\ s.phase \in {"connecting", "greeting"} => s.seq = 0 /\ s.hashed = <<>>
       /\ s.phase = "uploading" => s.seq = Len(s.hashed) + 1
  /\ s.link = "loopback" /\ s.phase = "uploading" => k.digest = s.hashed
  /\ s.link = "loopback" /\ s.phase = "waiting" => l.msm
  /\ st = "chunks" => Taken(s, k)
  /\ l.msm => Finished(s) /\ k.digest = s.hashed

RequestInv ==
  /\ wire = [c \in Sessions |-> wire[c]]
  /\ \A c \in Sessions : RequestOK(ses[c], client[c], stage[c], wire[c], req[c], log[c])

\* The commitments of the rows, in their order.
RightOutputs == [j \in 1..Q |-> FullRow(j - 1)]

\* The frames a server can have answered.
Replies ==
  {ErrorFrame, [type |-> "responseBody", outputs |-> RightOutputs]}
    \cup [type : {"responseHeader"}, digest : Seq(Chunks)]

LogType == [msm : BOOLEAN, status : {"none", "REJECTED", "PASS"}]

\* Outputs come from complete rows; only a test hook can alter them, and in a
\* row-by-row session the check lets no altered ones pass.
OutputsOK(s, a, st, l) ==
  /\ a \in Seq(Replies)
  /\ l \in LogType
  /\ st \in {"multiplying", "body"} => l.msm
  /\ s.link = "local" => \A r \in Rows : s.acc[r] = Cells(r, 0, s.col[r])
  /\ s.phase = "outputs" => s.outputs = RightOutputs
  /\ (s.phase = "checked" \/ s.finalized) /\ (s.hook = "none" \/ RowMajor) =>
       s.outputs = RightOutputs
  /\ s.err = "integrity" => s.hook # "none" \/ ~RowMajor

OutputsInv ==
  /\ answer = [c \in Sessions |-> answer[c]]
  /\ \A c \in Sessions : OutputsOK(ses[c], answer[c], stage[c], log[c])

\* The first n scalars in row order have been pushed.
Pushed(s, n) ==
  \A r \in Rows : s.col[r] = IF n <= r * M THEN 0 ELSE IF n >= (r + 1) * M THEN M ELSE n - r * M

\* The payload's first n scalars are those of the rows, row after row.
InRowOrder(payload, n) ==
  \A r \in Rows, i \in 0..(M - 1) : r * M + i < n => payload[r * M + i + 1] = <<r, i>>

\* Repeated and torn appends make the payload too long for good; a payload of
\* the right length is in row order.
PayloadOK(s, sp) ==
  s.phase \in {"connecting", "greeting", "uploading", "waiting", "body", "outputs"} =>
    /\ (RowMajor /\ s.mode = "malicious") =>
         \E n \in 0..(Q * M) : /\ Pushed(s, n)
                               /\ Len(sp.payload) >= n
                               /\ Len(sp.payload) = n => InRowOrder(sp.payload, n)
    /\ s.phase \in {"waiting", "body", "outputs"} => \A r \in Rows : s.col[r] = M

PayloadInv == \A c \in Sessions : PayloadOK(ses[c], spool[c])

SessionInv ==
  /\ SessionTypeOK
  /\ LifeInv
  /\ FilesInv
  /\ ServerInv
  /\ RequestInv
  /\ OutputsInv
  /\ PayloadInv

-------------------------------------------------------------------------------
(* Frames *)

\* A sequence over a set is one over every larger set.
LEMMA SeqGrows ==
  ASSUME NEW S, NEW T, S \subseteq T, NEW w \in Seq(S)
  PROVE  w \in Seq(T)
  OBVIOUS

\* The first of a sequence and the rest.
LEMMA HeadAndTail ==
  ASSUME NEW S, NEW w \in Seq(S), w # <<>>
  PROVE  Head(w) \in S /\ Tail(w) \in Seq(S)
  OBVIOUS

\* What a session may have written stays so when it pushes more or finishes.
LEMMA SentGrows ==
  ASSUME NEW s, NEW t,
         s.hashed \in Seq(Chunks), t.hashed \in Seq(Chunks), Len(s.hashed) <= Len(t.hashed),
         \A i \in 1..Len(s.hashed) : t.hashed[i] = s.hashed[i],
         Finished(s) => Finished(t) /\ t.hashed = s.hashed /\ t.scalars = s.scalars
  PROVE  Sent(s) \subseteq Sent(t)
<1>1. {ChunkFrame(i, s.hashed[i]) : i \in 1..Len(s.hashed)}
        \subseteq {ChunkFrame(i, t.hashed[i]) : i \in 1..Len(t.hashed)}
  OBVIOUS
<1>2. {f \in {FinishFrame(Len(s.hashed) + 1, Len(s.hashed), s.scalars, s.hashed)} : Finished(s)}
        \subseteq
      {f \in {FinishFrame(Len(t.hashed) + 1, Len(t.hashed), t.scalars, t.hashed)} : Finished(t)}
  OBVIOUS
<1>. QED
  BY <1>1, <1>2 DEF Sent

\* The fields that say what a session has sent.
SameRequest(s, t) ==
  /\ t.link = s.link
  /\ t.seq = s.seq
  /\ t.scalars = s.scalars
  /\ t.hashed = s.hashed

\* Phases after the request.
Late == Phases \ (Early \cup {"waiting"})

\* A session that goes on to a later phase has sent what it has sent.
LEMMA LateRequest ==
  ASSUME NEW s \in SessionType, NEW t, NEW cl, NEW cl2, NEW st, NEW w, NEW k, NEW l,
         RequestOK(s, cl, st, w, k, l), SameRequest(s, t), t.phase \in Late,
         cl2 # "none" => cl # "none"
  PROVE  RequestOK(t, cl2, st, w, k, l)
<1>1. s.hashed \in Seq(Chunks)
  BY DEF SessionType
<1>2. Finished(s) => Finished(t)
  BY DEF Finished, SameRequest, Late
<1>3. Sent(s) \subseteq Sent(t)
  BY <1>1, <1>2, SentGrows DEF SameRequest
<1>4. w \in Seq(Sent(t))
  BY <1>3, SeqGrows DEF RequestOK
<1>5. t.phase \notin Early /\ t.phase # "waiting"
  BY DEF Late
<1>6. st = "chunks" => Taken(t, k)
  BY DEF RequestOK, Taken, SameRequest
<1>. QED
  BY <1>2, <1>4, <1>5, <1>6 DEF RequestOK, SameRequest, Early

\* A step of a session changes that session only.
LEMMA SessionStep ==
  ASSUME SessionInv, NEW c \in Sessions, NEW s \in SessionType, NEW sp \in SpoolType,
         ses' = [ses EXCEPT ![c] = s],
         spool' = [spool EXCEPT ![c] = sp],
         faults' \in Nat, faults' >= faults,
         ServerInv',
         wire' = [d \in Sessions |-> wire'[d]],
         answer' = [d \in Sessions |-> answer'[d]],
         \A d \in Sessions \ {c} :
           /\ client'[d] = client[d] /\ stage'[d] = stage[d]
           /\ wire'[d] = wire[d] /\ answer'[d] = answer[d]
           /\ req'[d] = req[d] /\ log'[d] = log[d],
         LifeOK(s), FilesOK(s, sp, faults'),
         RequestOK(s, client'[c], stage'[c], wire'[c], req'[c], log'[c]),
         OutputsOK(s, answer'[c], stage'[c], log'[c]),
         PayloadOK(s, sp)
  PROVE  SessionInv'
<1>1. \A d \in Sessions : /\ ses'[d] = IF d = c THEN s ELSE ses[d]
                          /\ spool'[d] = IF d = c THEN sp ELSE spool[d]
  BY DEF SessionInv, SessionTypeOK
<1>2. SessionTypeOK'
  BY DEF SessionInv, SessionTypeOK
<1>3. LifeInv'
  BY <1>1 DEF SessionInv, LifeInv
<1>4. FilesInv'
  <2> SUFFICES ASSUME NEW d \in Sessions PROVE FilesOK(ses'[d], spool'[d], faults')
    BY DEF FilesInv
  <2>1. FilesOK(ses[d], spool[d], faults) /\ faults \in Nat
    BY DEF SessionInv, FilesInv, SessionTypeOK
  <2>. QED
    BY <1>1, <2>1 DEF FilesOK
<1>5. RequestInv'
  <2> SUFFICES ASSUME NEW d \in Sessions
               PROVE  RequestOK(ses'[d], client'[d], stage'[d], wire'[d], req'[d], log'[d])
    BY DEF RequestInv
  <2>1. RequestOK(ses[d], client[d], stage[d], wire[d], req[d], log[d])
    BY DEF SessionInv, RequestInv
  <2>. QED
    BY <1>1, <2>1
<1>6. OutputsInv'
  <2> SUFFICES ASSUME NEW d \in Sessions
               PROVE  OutputsOK(ses'[d], answer'[d], stage'[d], log'[d])
    BY DEF OutputsInv
  <2>1. OutputsOK(ses[d], answer[d], stage[d], log[d])
    BY DEF SessionInv, OutputsInv
  <2>. QED
    BY <1>1, <2>1
<1>7. PayloadInv'
  BY <1>1 DEF SessionInv, PayloadInv
<1>. QED
  BY <1>2, <1>3, <1>4, <1>5, <1>6, <1>7 DEF SessionInv

\* A frame is written to, or swallowed by, one connection.
LEMMA WrittenTo ==
  ASSUME NEW c \in Sessions, NEW f, NEW S,
         wire = [d \in Sessions |-> wire[d]], wire[c] \in Seq(S), f \in S, Write(c, f)
  PROVE  /\ wire' = [d \in Sessions |-> wire'[d]]
         /\ \A d \in Sessions \ {c} : wire'[d] = wire[d]
         /\ wire'[c] \in Seq(S)
<1> DEFINE w == IF stage[c] = "closed" THEN wire[c] ELSE Append(wire[c], f)
<1>1. w \in Seq(S)
  OBVIOUS
<1>2. wire' = [wire EXCEPT ![c] = w]
  BY DEF Write
<1> HIDE DEF w
<1>. QED
  BY <1>1, <1>2

\* What a failed or aborting client may still write.
Babbles(c) ==
  \/ UNCHANGED wire
  \/ \E type \in {"broken", "abort"}, n \in Nat : Write(c, BareFrame(type, n))

\* Bare frames are always among those a session can have on the wire.
LEMMA BabbledTo ==
  ASSUME RequestInv, NEW c \in Sessions, NEW s,
         RequestOK(s, client[c], stage[c], wire[c], req[c], log[c]), Babbles(c)
  PROVE  /\ wire' = [d \in Sessions |-> wire'[d]]
         /\ \A d \in Sessions \ {c} : wire'[d] = wire[d]
         /\ RequestOK(s, client[c], stage[c], wire'[c], req[c], log[c])
<1>1. wire = [d \in Sessions |-> wire[d]] /\ wire[c] \in Seq(Sent(s))
  BY DEF RequestInv, RequestOK
<1>2. CASE UNCHANGED wire
  BY <1>1, <1>2
<1>3. ASSUME NEW type \in {"broken", "abort"}, NEW n \in Nat, Write(c, BareFrame(type, n))
      PROVE  /\ wire' = [d \in Sessions |-> wire'[d]]
             /\ \A d \in Sessions \ {c} : wire'[d] = wire[d]
             /\ wire'[c] \in Seq(Sent(s))
  <2>1. BareFrame(type, n) \in Sent(s)
    BY DEF Sent, BareFrame
  <2>. QED
    BY <1>1, <1>3, <2>1, WrittenTo
<1>4. /\ wire' = [d \in Sessions |-> wire'[d]]
      /\ \A d \in Sessions \ {c} : wire'[d] = wire[d]
      /\ wire'[c] \in Seq(Sent(s))
  BY <1>1, <1>2, <1>3 DEF Babbles
<1>. QED
  BY <1>4 DEF RequestOK

\* The client hangs up or not; the server is not moved by it.
LEMMA ClientSide ==
  ASSUME ServerInv, NEW c \in Sessions,
         UNCHANGED client \/ Hangup(c), UNCHANGED <<acceptVars, stage, req, log>>
  PROVE  /\ ServerInv'
         /\ \A d \in Sessions \ {c} : client'[d] = client[d]
         /\ client'[c] # "none" => client[c] # "none"
<1>1. client = [d \in Sessions |-> client[d]]
  BY DEF ServerInv, Shapes
<1>2. /\ client' = [d \in Sessions |-> client'[d]]
      /\ \A d \in Sessions : client'[d] = "none" <=> client[d] = "none"
      /\ \A d \in Sessions \ {c} : client'[d] = client[d]
  BY <1>1 DEF Hangup
<1>3. ClientMoves
  BY <1>2 DEF ClientMoves
<1>. QED
  BY <1>2, <1>3, ClientMovesInv

\* The rows of a session stay as they are.
SameRows(s, t) == t.mode = s.mode /\ t.col = s.col /\ t.acc = s.acc

\* A step after the request: the session settles, reads its answer or hangs up.
LEMMA LateStep ==
  ASSUME SessionInv, NEW c \in Sessions, NEW s \in SessionType, NEW sp \in SpoolType,
         ses' = [ses EXCEPT ![c] = s], spool' = [spool EXCEPT ![c] = sp],
         faults' \in Nat, faults' >= faults,
         UNCHANGED <<acceptVars, stage, req, log>>,
         UNCHANGED client \/ Hangup(c), Babbles(c),
         \/ UNCHANGED answer
         \/ answer[c] # <<>> /\ answer' = [answer EXCEPT ![c] = Tail(@)],
         SameRequest(ses[c], s), SameRows(ses[c], s), s.phase \in Late,
         LifeOK(s), FilesOK(s, sp, faults'), PayloadOK(s, sp),
         s.phase = "outputs" => s.outputs = RightOutputs,
         (s.phase = "checked" \/ s.finalized) /\ (s.hook = "none" \/ RowMajor) =>
           s.outputs = RightOutputs,
         s.err = "integrity" => s.hook # "none" \/ ~RowMajor
  PROVE  SessionInv'
<1>1. /\ ServerInv'
      /\ \A d \in Sessions \ {c} : client'[d] = client[d]
      /\ client'[c] # "none" => client[c] # "none"
  BY ClientSide DEF SessionInv
<1>2. ses[c] \in SessionType
  BY DEF SessionInv, SessionTypeOK
<1>3. RequestOK(s, client[c], stage[c], wire[c], req[c], log[c])
  <2>1. RequestOK(ses[c], client[c], stage[c], wire[c], req[c], log[c])
    BY DEF SessionInv, RequestInv
  <2>. QED
    BY <1>2, <2>1, LateRequest
<1>4. /\ wire' = [d \in Sessions |-> wire'[d]]
      /\ \A d \in Sessions \ {c} : wire'[d] = wire[d]
      /\ RequestOK(s, client[c], stage[c], wire'[c], req[c], log[c])
  BY <1>3, BabbledTo DEF SessionInv
<1>5. RequestOK(s, client'[c], stage'[c], wire'[c], req'[c], log'[c])
  BY <1>1, <1>4 DEF RequestOK
<1>6. answer = [d \in Sessions |-> answer[d]] /\ OutputsOK(ses[c], answer[c], stage[c], log[c])
  BY DEF SessionInv, OutputsInv
<1>7. /\ answer' = [d \in Sessions |-> answer'[d]]
      /\ \A d \in Sessions \ {c} : answer'[d] = answer[d]
      /\ answer'[c] \in Seq(Replies)
  <2> DEFINE rest == Tail(answer[c])
  <2>1. answer[c] \in Seq(Replies)
    BY <1>6 DEF OutputsOK
  <2>2. CASE UNCHANGED answer
    BY <1>6, <2>1, <2>2
  <2>3. CASE answer[c] # <<>> /\ answer' = [answer EXCEPT ![c] = rest]
    <3>1. rest \in Seq(Replies)
      BY <2>1, <2>3, HeadAndTail
    <3> HIDE DEF rest
    <3>. QED
      BY <1>6, <2>3, <3>1
  <2>. QED
    BY <2>2, <2>3
<1>8. OutputsOK(s, answer'[c], stage'[c], log'[c])
  <2>1. log'[c] \in LogType /\ (stage'[c] \in {"multiplying", "body"} => log'[c].msm)
    BY <1>6 DEF OutputsOK
  <2>2. s.link = "local" => \A r \in Rows : s.acc[r] = Cells(r, 0, s.col[r])
    BY <1>6 DEF OutputsOK, SameRequest, SameRows
  <2>. QED
    BY <1>7, <2>1, <2>2 DEF OutputsOK
<1>. QED
  BY <1>1, <1>4, <1>5, <1>7, <1>8, SessionStep

-------------------------------------------------------------------------------
(* Steps after the request *)

\* The session goes on and keeps what it has pushed.
Settles(s, t) == SameRequest(s, t) /\ SameRows(s, t) /\ t.hook = s.hook

\* A session that only changes its phase.
LEMMA GotoIs ==
  ASSUME SessionTypeOK, NEW c \in Sessions, NEW p \in Phases, Goto(c, p)
  PROVE  \E s \in SessionType :
           /\ ses' = [ses EXCEPT ![c] = s]
           /\ Settles(ses[c], s)
           /\ s.phase = p
           /\ s.token = ses[c].token /\ s.finalized = ses[c].finalized
           /\ s.outputs = ses[c].outputs /\ s.err = ses[c].err
<1> DEFINE s == [ses[c] EXCEPT !.phase = p]
<1>1. ses[c] \in SessionType
  BY DEF SessionTypeOK
<1>2. s \in SessionType
  BY <1>1 DEF SessionType
<1>3. /\ Settles(ses[c], s) /\ s.phase = p
      /\ s.token = ses[c].token /\ s.finalized = ses[c].finalized
      /\ s.outputs = ses[c].outputs /\ s.err = ses[c].err
  BY <1>1 DEF SessionType, Settles, SameRequest, SameRows
<1>4. ses' = [ses EXCEPT ![c] = s]
  BY DEF Goto, SessionTypeOK
<1>. QED
  BY <1>2, <1>3, <1>4

\* An error ends the session.
LEMMA DroppingIs ==
  ASSUME SessionTypeOK, NEW c \in Sessions, NEW why \in {"other", "integrity"}, Dropping(c, why)
  PROVE  \E s \in SessionType :
           /\ ses' = [ses EXCEPT ![c] = s]
           /\ Settles(ses[c], s)
           /\ s.phase = "dropping" /\ s.err = why
           /\ s.token = ses[c].token /\ s.finalized = ses[c].finalized
<1> DEFINE s == [ses[c] EXCEPT !.phase = "dropping", !.err = why]
<1>1. ses[c] \in SessionType
  BY DEF SessionTypeOK
<1>2. s \in SessionType
  BY <1>1 DEF SessionType, Phases
<1>3. /\ Settles(ses[c], s) /\ s.phase = "dropping" /\ s.err = why
      /\ s.token = ses[c].token /\ s.finalized = ses[c].finalized
  BY <1>1 DEF SessionType, Settles, SameRequest, SameRows
<1>4. ses' = [ses EXCEPT ![c] = s]
  BY DEF Dropping, SessionTypeOK
<1>. QED
  BY <1>2, <1>3, <1>4

\* An error that burns the token.
LEMMA BurnedByIs ==
  ASSUME SessionTypeOK, NEW c \in Sessions, NEW why \in {"other", "integrity"}, BurnedBy(c, why)
  PROVE  \E s \in SessionType :
           /\ ses' = [ses EXCEPT ![c] = s]
           /\ Settles(ses[c], s)
           /\ s.phase = "dropping" /\ s.err = why
           /\ s.token = "burned" /\ s.finalized = ses[c].finalized
<1> DEFINE s == [ses[c] EXCEPT !.phase = "dropping", !.err = why, !.token = "burned"]
<1>1. ses[c] \in SessionType
  BY DEF SessionTypeOK
<1>2. s \in SessionType
  BY <1>1 DEF SessionType, Phases
<1>3. /\ Settles(ses[c], s) /\ s.phase = "dropping" /\ s.err = why
      /\ s.token = "burned" /\ s.finalized = ses[c].finalized
  BY <1>1 DEF SessionType, Settles, SameRequest, SameRows
<1>4. ses' = [ses EXCEPT ![c] = s]
  BY DEF BurnedBy, SessionTypeOK
<1>. QED
  BY <1>2, <1>3, <1>4

\* Phases of a session that can still return outputs.
Live == {"connecting", "greeting", "uploading", "waiting", "body", "outputs", "checked"}

\* What the operations on a spool leave.
LEMMA SpoolLeft ==
  ASSUME NEW sp \in SpoolType
  PROVE  /\ Sealed(sp) \in SpoolType
         /\ Removed(sp) \in SpoolType /\ Removed(sp).files = {}
         /\ \A r \in SealStops(sp) : r \in SpoolType
         /\ \A r \in RemoveStops(sp) : r \in SpoolType /\ r.files \subseteq sp.files
<1>1. Sealed(sp) \in SpoolType
  BY DEF SpoolType, Sealed, Names
<1>2. Removed(sp) \in SpoolType /\ Removed(sp).files = {}
  BY DEF SpoolType, Removed
<1> DEFINE Stopped(fs) == [sp EXCEPT !.open = FALSE, !.files = fs]
<1>3. \A fs \in SUBSET Names : Stopped(fs) \in SpoolType /\ Stopped(fs).files = fs
  BY DEF SpoolType
<1>4. SealStops(sp) = {Stopped({"temp"}), Stopped({"temp", "manifestTemp"}),
                       Stopped({"final", "manifestTemp"}), Stopped({"final", "manifest"}),
                       Sealed(sp)}
  BY DEF SealStops
<1>5. RemoveStops(sp) = {Stopped(sp.files \ {RemoveOrder[j] : j \in 1..i}) : i \in 0..4}
  BY DEF RemoveStops
<1> HIDE DEF Stopped
<1>6. \A r \in SealStops(sp) : r \in SpoolType
  BY <1>1, <1>3, <1>4 DEF Names
<1>7. \A r \in RemoveStops(sp) : r \in SpoolType /\ r.files \subseteq sp.files
  <2> SUFFICES ASSUME NEW i \in 0..4
               PROVE  LET r == Stopped(sp.files \ {RemoveOrder[j] : j \in 1..i})
                      IN  r \in SpoolType /\ r.files \subseteq sp.files
    BY <1>5
  <2>1. sp.files \ {RemoveOrder[j] : j \in 1..i} \in SUBSET Names
    BY DEF SpoolType
  <2>. QED
    BY <1>3, <2>1
<1>. QED
  BY <1>1, <1>2, <1>6, <1>7

\* Every error of a session that could still return drops it.
LEMMA DropsStep ==
  ASSUME SessionInv, NEW c \in Sessions, NEW s \in SessionType, NEW sp \in SpoolType,
         ses[c].phase \in Live,
         ses' = [ses EXCEPT ![c] = s], spool' = [spool EXCEPT ![c] = sp],
         faults' \in Nat, faults' >= faults,
         UNCHANGED <<acceptVars, stage, req, log, client>>, Babbles(c),
         \/ UNCHANGED answer
         \/ answer[c] # <<>> /\ answer' = [answer EXCEPT ![c] = Tail(@)],
         Settles(ses[c], s), s.phase = "dropping", s.finalized = ses[c].finalized,
         s.token \in {ses[c].token, "burned"},
         ses[c].mode # "malicious" => sp.files = {},
         s.err = "integrity" => s.hook # "none" \/ ~RowMajor
  PROVE  SessionInv'
<1>1. LifeOK(ses[c])
  BY DEF SessionInv, LifeInv
<1>2. ~s.finalized /\ LifeOK(s)
  BY <1>1 DEF LifeOK, Live
<1>3. FilesOK(s, sp, faults')
  BY DEF FilesOK, Settles, SameRows
<1>4. PayloadOK(s, sp)
  BY DEF PayloadOK
<1>5. s.phase \in Late /\ SameRequest(ses[c], s) /\ SameRows(ses[c], s)
  BY DEF Late, Phases, Early, Settles
<1>. QED
  BY <1>2, <1>3, <1>4, <1>5, LateStep

\* The files of a spool that is not malicious.
LEMMA NoFiles ==
  ASSUME SessionInv, NEW c \in Sessions
  PROVE  /\ spool[c] \in SpoolType
         /\ spool' = spool => spool' = [spool EXCEPT ![c] = spool[c]]
         /\ ses[c].mode # "malicious" => spool[c].files = {}
         /\ faults \in Nat
  BY DEF SessionInv, SessionTypeOK, FilesInv, FilesOK

\* An error that leaves spool and token to Drop.
LEMMA PlainDrop ==
  ASSUME SessionInv, NEW c \in Sessions, ses[c].phase \in Live, Dropping(c, "other"),
         UNCHANGED <<acceptVars, stage, req, log, client, spool>>, Babbles(c),
         UNCHANGED faults \/ Fault,
         \/ UNCHANGED answer
         \/ answer[c] # <<>> /\ answer' = [answer EXCEPT ![c] = Tail(@)]
  PROVE  SessionInv'
<1>1. PICK s \in SessionType :
        /\ ses' = [ses EXCEPT ![c] = s]
        /\ Settles(ses[c], s)
        /\ s.phase = "dropping" /\ s.err = "other"
        /\ s.token = ses[c].token /\ s.finalized = ses[c].finalized
  BY DroppingIs DEF SessionInv
<1>2. faults' \in Nat /\ faults' >= faults
  BY NoFiles DEF Fault
<1>3. UNCHANGED <<acceptVars, stage, req, log, client>>
  OBVIOUS
<1>. QED
  BY <1>1, <1>2, <1>3, NoFiles, DropsStep

\* A row is a sequence of scalars, and so are the right outputs.
LEMMA RightOutputsAre ==
  /\ \A r \in Rows : FullRow(r) \in Points
  /\ RightOutputs \in Seq(Points) /\ Len(RightOutputs) = Q
  /\ \A j \in 1..Q : j - 1 \in Rows /\ RightOutputs[j] = FullRow(j - 1)
<1>1. \A r \in Rows : FullRow(r) \in Points
  <2> SUFFICES ASSUME NEW r \in Rows PROVE FullRow(r) \in Points
    OBVIOUS
  <2>1. FullRow(r) \in Seq(RowCells(r))
    BY PrefixIs, ServerConstantsOK DEF FullRow
  <2>2. RowCells(r) \subseteq Scalars
    BY DEF RowCells, Scalars
  <2>. QED
    BY <2>1, <2>2, SeqGrows DEF Points
<1>2. \A j \in 1..Q : j - 1 \in Rows
  BY ServerConstantsOK DEF Rows
<1>3. RightOutputs = [j \in 1..Q |-> FullRow(j - 1)] /\ Q \in Nat
  BY ServerConstantsOK DEF RightOutputs
<1> HIDE DEF RightOutputs
<1>. QED
  BY <1>1, <1>2, <1>3

\* The session has its outputs, and they are right.
LEMMA OutputsStep ==
  ASSUME SessionInv, NEW c \in Sessions,
         ses[c].phase \in {"uploading", "waiting", "body"},
         \A r \in Rows : ses[c].col[r] = M,
         WithOutputs(c, RightOutputs),
         UNCHANGED <<acceptVars, stage, req, log, client, wire, spool, faults>>,
         \/ UNCHANGED answer
         \/ answer[c] # <<>> /\ answer' = [answer EXCEPT ![c] = Tail(@)]
  PROVE  SessionInv'
<1>1. PICK h \in Hooks \cup {"none"} :
        ses' = [ses EXCEPT ![c] = [@ EXCEPT !.phase = "outputs", !.outputs = RightOutputs,
                                            !.hook = h]]
  BY DEF WithOutputs
<1> DEFINE s == [ses[c] EXCEPT !.phase = "outputs", !.outputs = RightOutputs, !.hook = h]
<1>2. ses[c] \in SessionType
  BY DEF SessionInv, SessionTypeOK
<1>3. s \in SessionType
  BY <1>2, RightOutputsAre DEF SessionType, Phases
<1>4. /\ SameRequest(ses[c], s) /\ SameRows(ses[c], s)
      /\ s.phase = "outputs" /\ s.outputs = RightOutputs
      /\ s.token = ses[c].token /\ s.finalized = ses[c].finalized /\ s.err = ses[c].err
  BY <1>2 DEF SessionType, SameRequest, SameRows
<1>5. ses' = [ses EXCEPT ![c] = s]
  BY <1>1 DEF SessionInv, SessionTypeOK
<1> HIDE DEF s
<1>6. LifeOK(s)
  BY <1>4 DEF SessionInv, LifeInv, LifeOK
<1>7. FilesOK(s, spool[c], faults)
  BY <1>4 DEF SessionInv, FilesInv, FilesOK, SameRows
<1>8. PayloadOK(s, spool[c])
  BY <1>4 DEF SessionInv, PayloadInv, PayloadOK, SameRows, Pushed
<1>9. s.phase \in Late
  BY <1>4 DEF Late, Phases, Early
<1>10. s.err # "integrity" /\ ~s.finalized /\ s.phase # "checked"
  BY <1>4, <1>6 DEF LifeOK
<1>11. UNCHANGED <<acceptVars, stage, req, log>> /\ UNCHANGED client /\ Babbles(c)
  BY DEF Babbles
<1>12. faults' \in Nat /\ faults' >= faults /\ FilesOK(s, spool[c], faults')
  BY <1>7, NoFiles
<1>13. spool[c] \in SpoolType /\ spool' = [spool EXCEPT ![c] = spool[c]]
  BY NoFiles
<1>. QED
  BY <1>3, <1>4, <1>5, <1>6, <1>8, <1>9, <1>10, <1>11, <1>12, <1>13, LateStep

\* The local provider's sums of complete rows are the right outputs.
LEMMA FinishLocalInv ==
  ASSUME SessionInv, NEW c \in Sessions, FinishLocal(c)
  PROVE  SessionInv'
<1>1. /\ ses[c].phase = "uploading" /\ ses[c].link = "local"
      /\ \A r \in Rows : ses[c].col[r] = M
  BY DEF FinishLocal, AllPushed
<1>2. \A r \in Rows : ses[c].acc[r] = FullRow(r)
  BY <1>1 DEF SessionInv, OutputsInv, OutputsOK, FullRow
<1>3. [j \in 1..Q |-> ses[c].acc[j - 1]] = RightOutputs
  BY <1>2, RightOutputsAre DEF RightOutputs
<1>4. WithOutputs(c, RightOutputs)
  BY <1>3 DEF FinishLocal
<1>5. UNCHANGED <<acceptVars, stage, req, log, client, wire, spool, faults, answer>>
  BY DEF FinishLocal, Untouched, Unserved, netVars
<1>. QED
  BY <1>1, <1>4, <1>5, OutputsStep

\* The products of a request that was complete are the right outputs.
LEMMA ProductsRight ==
  ASSUME ServerInv, NEW c \in Sessions, log[c].msm
  PROVE  Products(req[c]) = RightOutputs
<1>1. \A r \in Rows : req[c].rows[r] = FullRow(r)
  BY CompleteRows DEF MsmAfterCompleteRequest
<1>. QED
  BY <1>1, RightOutputsAre DEF Products, RightOutputs

\* What the loopback answers, and what the server answered, is right.
LEMMA ReceiveLoopbackInv ==
  ASSUME SessionInv, NEW c \in Sessions, ReceiveLoopback(c)
  PROVE  SessionInv'
<1>1. ses[c].phase = "waiting" /\ ses[c].link = "loopback"
  BY DEF ReceiveLoopback
<1>2. log[c].msm
  BY <1>1 DEF SessionInv, RequestInv, RequestOK
<1>3. WithOutputs(c, RightOutputs)
  BY <1>2, ProductsRight DEF ReceiveLoopback, SessionInv
<1>4. \A r \in Rows : ses[c].col[r] = M
  BY <1>1 DEF SessionInv, PayloadInv, PayloadOK
<1>5. UNCHANGED <<acceptVars, stage, req, log, client, wire, spool, faults, answer>>
  BY DEF ReceiveLoopback, Untouched, Unserved, netVars
<1>. QED
  BY <1>1, <1>3, <1>4, <1>5, OutputsStep

\* The frames a session reads are those a server answers.
LEMMA HeadReply ==
  ASSUME SessionInv, NEW c \in Sessions, answer[c] # <<>>
  PROVE  Head(answer[c]) \in Replies
<1>1. answer[c] \in Seq(Replies)
  BY DEF SessionInv, OutputsInv, OutputsOK
<1>. QED
  BY <1>1, HeadAndTail

\* A response body, or an error.
LEMMA ReceiveBodyInv ==
  ASSUME SessionInv, NEW c \in Sessions, ReceiveBody(c)
  PROVE  SessionInv'
<1>1. /\ ses[c].phase = "body" /\ answer[c] # <<>>
      /\ answer' = [answer EXCEPT ![c] = Tail(@)]
  BY DEF ReceiveBody
<1>2. UNCHANGED <<acceptVars, stage, req, log, client, wire, spool, faults>>
  BY DEF ReceiveBody, Unserved
<1> DEFINE f == Head(answer[c])
<1>3. f \in Replies
  BY <1>1, HeadReply
<1>4. CASE f.type = "responseBody" /\ Len(f.outputs) = Q
  <2>1. f.outputs = RightOutputs
    BY <1>3, <1>4 DEF Replies, ErrorFrame
  <2>2. WithOutputs(c, RightOutputs)
    BY <1>4, <2>1 DEF ReceiveBody
  <2>3. \A r \in Rows : ses[c].col[r] = M
    BY <1>1 DEF SessionInv, PayloadInv, PayloadOK
  <2>. QED
    BY <1>1, <1>2, <2>2, <2>3, OutputsStep
<1>5. CASE ~(f.type = "responseBody" /\ Len(f.outputs) = Q)
  <2>1. Dropping(c, "other") /\ ses[c].phase \in Live
    BY <1>1, <1>5 DEF ReceiveBody, Live
  <2>. QED
    BY <1>1, <1>2, <2>1, PlainDrop DEF Babbles
<1>. QED
  BY <1>4, <1>5

\* A response header with the session's digest, or an error.
LEMMA ReceiveHeaderInv ==
  ASSUME SessionInv, NEW c \in Sessions, ReceiveHeader(c)
  PROVE  SessionInv'
<1>1. /\ ses[c].phase = "waiting" /\ answer[c] # <<>>
      /\ answer' = [answer EXCEPT ![c] = Tail(@)]
  BY DEF ReceiveHeader
<1>2. UNCHANGED <<acceptVars, stage, req, log, client, wire, spool, faults>>
  BY DEF ReceiveHeader, Unserved
<1>3. CASE Dropping(c, "other")
  BY <1>1, <1>2, <1>3, PlainDrop DEF Babbles, Live
<1>4. CASE Goto(c, "body")
  <2>1. PICK s \in SessionType :
          /\ ses' = [ses EXCEPT ![c] = s]
          /\ Settles(ses[c], s)
          /\ s.phase = "body"
          /\ s.token = ses[c].token /\ s.finalized = ses[c].finalized
          /\ s.outputs = ses[c].outputs /\ s.err = ses[c].err
    BY <1>4, GotoIs DEF SessionInv, Phases
  <2>2. LifeOK(s) /\ ~s.finalized /\ s.err # "integrity"
    BY <1>1, <2>1 DEF SessionInv, LifeInv, LifeOK
  <2>3. FilesOK(s, spool[c], faults')
    BY <1>2, <2>1 DEF SessionInv, FilesInv, FilesOK, Settles, SameRows
  <2>4. PayloadOK(s, spool[c])
    BY <1>1, <2>1 DEF SessionInv, PayloadInv, PayloadOK, Settles, SameRows, Pushed
  <2>5. s.phase \in Late /\ SameRequest(ses[c], s) /\ SameRows(ses[c], s)
    BY <2>1 DEF Late, Phases, Early, Settles
  <2>6. UNCHANGED <<acceptVars, stage, req, log>> /\ UNCHANGED client /\ Babbles(c)
    BY <1>2 DEF Babbles
  <2>7. faults' \in Nat /\ faults' >= faults
    BY <1>2, NoFiles
  <2>8. spool[c] \in SpoolType /\ spool' = [spool EXCEPT ![c] = spool[c]]
    BY <1>2, NoFiles
  <2>. QED
    BY <1>1, <2>1, <2>2, <2>3, <2>4, <2>5, <2>6, <2>7, <2>8, LateStep
<1>. QED
  BY <1>3, <1>4 DEF ReceiveHeader

\* Silence, the end of the stream and the markers.
LEMMA OtherErrors ==
  ASSUME SessionInv, NEW c \in Sessions, ReceiveFails(c) \/ MarkerFails(c)
  PROVE  SessionInv'
<1>1. /\ ses[c].phase \in Live /\ Dropping(c, "other")
      /\ UNCHANGED <<acceptVars, stage, req, log, client, spool>> /\ UNCHANGED wire
      /\ UNCHANGED answer /\ (UNCHANGED faults \/ Fault)
  BY DEF ReceiveFails, MarkerFails, Live, Untouched, Unserved, netVars
<1>. QED
  BY <1>1, PlainDrop DEF Babbles

-------------------------------------------------------------------------------
(* The rows in the spool *)

\* The first scalar of the next row.
LEMMA NextRow == \A r \in Nat : (r + 1) * M = r * M + M /\ r * M \in Nat
  BY ServerConstantsOK

\* Rows before one another have their scalars before one another.
LEMMA RowsApart ==
  ASSUME NEW q \in Nat, NEW r \in Nat, q < r
  PROVE  q * M + M <= r * M
<1>1. r = q + 1 + (r - q - 1) /\ r - q - 1 \in Nat
  OBVIOUS
<1> DEFINE d == r - q - 1
<1>2. r * M = q * M + M + d * M /\ d * M \in Nat
  BY <1>1, ServerConstantsOK
<1>. QED
  BY <1>2, ServerConstantsOK

\* A part of a sequence.
LEMMA Window ==
  ASSUME NEW S, NEW p \in Seq(S), NEW a \in Nat, NEW m \in Nat, a + m <= Len(p)
  PROVE  /\ SubSeq(p, a + 1, a + m) \in Seq(S)
         /\ Len(SubSeq(p, a + 1, a + m)) = m
         /\ \A i \in 1..m : SubSeq(p, a + 1, a + m)[i] = p[a + i]
  OBVIOUS

\* A complete row by row session with a payload of the right length has the
\* rows in it.
LEMMA PayloadRight ==
  ASSUME NEW s, NEW sp \in SpoolType, PayloadOK(s, sp), s.phase = "outputs",
         s.mode = "malicious", RowMajor, Len(sp.payload) = Q * M
  PROVE  \A j \in 1..Q : SubSeq(sp.payload, (j - 1) * M + 1, j * M) = FullRow(j - 1)
<1>1. PICK n \in 0..(Q * M) : /\ Pushed(s, n)
                              /\ Len(sp.payload) = n => InRowOrder(sp.payload, n)
  BY DEF PayloadOK
<1>2. s.col[Q - 1] = M /\ Q - 1 \in Rows /\ Q - 1 \in Nat
  BY ServerConstantsOK DEF PayloadOK, Rows
<1>3. n = Q * M
  <2>1. Q * M = (Q - 1) * M + M /\ (Q - 1 + 1) * M = Q * M /\ (Q - 1) * M \in Nat /\ Q * M \in Nat
    BY <1>2, NextRow, ServerConstantsOK
  <2>2. s.col[Q - 1] = IF n <= (Q - 1) * M THEN 0
                       ELSE IF n >= (Q - 1 + 1) * M THEN M ELSE n - (Q - 1) * M
    BY <1>1, <1>2 DEF Pushed
  <2>. QED
    BY <1>2, <2>1, <2>2, ServerConstantsOK
<1>4. InRowOrder(sp.payload, Q * M)
  BY <1>1, <1>3
<1> DEFINE p == sp.payload
<1>5. p \in Seq(Scalars) /\ Len(p) = Q * M
  BY DEF SpoolType
<1> SUFFICES ASSUME NEW j \in 1..Q PROVE SubSeq(p, (j - 1) * M + 1, j * M) = FullRow(j - 1)
  OBVIOUS
<1> DEFINE a == (j - 1) * M
<1>6. /\ j - 1 \in Rows /\ j - 1 \in Nat /\ a \in Nat
      /\ j * M = a + M /\ a + M <= Q * M
  <2>1. j - 1 \in Nat /\ j - 1 \in Rows /\ j \in Nat /\ Q \in Nat /\ j - 1 < Q /\ j - 1 + 1 = j
    BY ServerConstantsOK DEF Rows
  <2>2. (j - 1 + 1) * M = a + M /\ a \in Nat
    BY <2>1, NextRow
  <2>3. a + M <= Q * M
    BY <2>1, RowsApart
  <2>. QED
    BY <2>1, <2>2, <2>3
<1>7. \A i \in 1..M : a + i \in 1..(Q * M) /\ p[a + i] = Cell(j - 1, i - 1)
  <2> SUFFICES ASSUME NEW i \in 1..M
               PROVE  a + i \in 1..(Q * M) /\ p[a + i] = Cell(j - 1, i - 1)
    OBVIOUS
  <2>1. i - 1 \in 0..(M - 1) /\ a + (i - 1) < Q * M /\ a + (i - 1) + 1 = a + i
    BY <1>6, ServerConstantsOK
  <2>2. p[a + (i - 1) + 1] = <<j - 1, i - 1>>
    BY <1>4, <1>6, <2>1 DEF InRowOrder
  <2>3. a + i \in 1..(Q * M)
    BY <1>6, <2>1, ServerConstantsOK
  <2>. QED
    BY <2>1, <2>2, <2>3 DEF Cell
<1> DEFINE u == SubSeq(p, a + 1, a + M)
<1>8. u \in Seq(Scalars) /\ Len(u) = M /\ \A i \in 1..M : u[i] = p[a + i]
  <2>1. M \in Nat /\ a \in Nat /\ a + M <= Len(p) /\ p \in Seq(Scalars)
    BY <1>5, <1>6, ServerConstantsOK
  <2> HIDE DEF p, a
  <2>. QED
    BY <2>1, Window
<1>9. /\ FullRow(j - 1) \in Seq(RowCells(j - 1)) /\ Len(FullRow(j - 1)) = M
      /\ \A i \in 1..M : FullRow(j - 1)[i] = Cell(j - 1, i - 1)
  BY PrefixIs, ServerConstantsOK DEF FullRow
<1> HIDE DEF u, p, a
<1>10. u = FullRow(j - 1)
  BY <1>7, <1>8, <1>9, SeqEqual
<1>. QED
  BY <1>6, <1>10 DEF u, a

-------------------------------------------------------------------------------
(* The check of the outputs *)

\* A test hook yields points, and without one the outputs stay as they are.
LEMMA HookedAre ==
  ASSUME NEW o \in Seq(Points), Len(o) = Q, NEW h
  PROVE  Hooked(h, o) \in Seq(Points) /\ (h = "none" => Hooked(h, o) = o)
<1>1. OtherPoint \in Points /\ Q \in Nat \ {0} /\ 1 \in 1..Q
  BY ServerConstantsOK DEF OtherPoint, Points
<1>2. /\ [o EXCEPT ![1] = OtherPoint] \in Seq(Points)
      /\ Q > 1 => [o EXCEPT ![1] = OtherPoint, ![2] = OtherPoint] \in Seq(Points)
      /\ [j \in 1..Q |-> OtherPoint] \in Seq(Points)
  BY <1>1
<1>3. Q > 1 => /\ [o EXCEPT ![1] = o[2], ![2] = o[1]] \in Seq(Points)
               /\ [o EXCEPT ![2] = o[1]] \in Seq(Points)
  BY <1>1
<1>4. SubSeq(o, 1, Len(o) - 1) \in Seq(Points)
  BY <1>1
<1>. QED
  BY <1>2, <1>3, <1>4 DEF Hooked

\* What is known of a session whose outputs are to be checked.
LEMMA ToCheck ==
  ASSUME SessionInv, NEW c \in Sessions, Checkable(c)
  PROVE  /\ ses[c].phase = "outputs" /\ ses[c].mode = "malicious"
         /\ ses[c].outputs = RightOutputs
         /\ Claimed(c) \in Seq(Points)
         /\ ses[c].hook = "none" => Claimed(c) = RightOutputs
         /\ PayloadOK(ses[c], spool[c]) /\ spool[c] \in SpoolType
         /\ ses[c].phase \in Live
<1>1. ses[c].phase = "outputs" /\ ses[c].mode = "malicious"
  BY DEF Checkable
<1>2. ses[c].outputs = RightOutputs
  BY <1>1 DEF SessionInv, OutputsInv, OutputsOK
<1>. QED
  BY <1>1, <1>2, HookedAre, RightOutputsAre, NoFiles
     DEF Claimed, SessionInv, PayloadInv, Live

\* Right outputs match the rows of a session that pushed row after row.
LEMMA RightMatches ==
  ASSUME SessionInv, NEW c \in Sessions, Checkable(c), Sealable(spool[c], Q * M), RowMajor
  PROVE  \A o : Matches(spool[c], o) <=> \A j \in 1..Q : o[j] = RightOutputs[j]
<1>1. \A j \in 1..Q : SubSeq(spool[c].payload, (j - 1) * M + 1, j * M) = FullRow(j - 1)
  BY ToCheck, PayloadRight DEF Sealable
<1>. QED
  BY <1>1, RightOutputsAre DEF Matches

\* An error of remove counts as a fault.
LEMMA RemoveLeaves ==
  ASSUME NEW c \in Sessions, NEW sp \in SpoolType, faults \in Nat, Remove(c, sp)
  PROVE  \E r \in SpoolType :
           /\ spool' = [spool EXCEPT ![c] = r]
           /\ r.files \subseteq sp.files
           /\ r.files # {} => faults' = faults + 1
           /\ faults' \in Nat /\ faults' >= faults
<1> DEFINE Leaves(r) == /\ r \in SpoolType
                        /\ spool' = [spool EXCEPT ![c] = r]
                        /\ r.files \subseteq sp.files
                        /\ r.files # {} => faults' = faults + 1
                        /\ faults' \in Nat /\ faults' >= faults
<1>1. ASSUME spool' = [spool EXCEPT ![c] = Removed(sp)], UNCHANGED faults
      PROVE  Leaves(Removed(sp))
  BY <1>1, SpoolLeft
<1>2. ASSUME Fault, NEW r \in RemoveStops(sp), spool' = [spool EXCEPT ![c] = r]
      PROVE  Leaves(r)
  BY <1>2, SpoolLeft DEF Fault
<1> HIDE DEF Leaves
<1>3. \E r : Leaves(r)
  BY <1>1, <1>2 DEF Remove
<1>. QED
  BY <1>3 DEF Leaves

\* A wrong number of outputs.
LEMMA RejectCountInv ==
  ASSUME SessionInv, NEW c \in Sessions, RejectCount(c)
  PROVE  SessionInv'
<1>1. Checkable(c) /\ Len(Claimed(c)) # Q /\ BurnedBy(c, "integrity")
  BY DEF RejectCount
<1>2. PICK s \in SessionType :
        /\ ses' = [ses EXCEPT ![c] = s]
        /\ Settles(ses[c], s)
        /\ s.phase = "dropping" /\ s.err = "integrity"
        /\ s.token = "burned" /\ s.finalized = ses[c].finalized
  BY <1>1, BurnedByIs DEF SessionInv
<1>3. s.hook # "none"
  BY <1>1, <1>2, ToCheck, RightOutputsAre DEF Settles
<1>4. UNCHANGED <<acceptVars, stage, req, log, client>> /\ Babbles(c) /\ UNCHANGED answer
  BY DEF RejectCount, Untouched, Unserved, netVars, Babbles
<1>5. /\ spool[c] \in SpoolType /\ spool' = [spool EXCEPT ![c] = spool[c]]
      /\ faults' \in Nat /\ faults' >= faults
  BY NoFiles DEF RejectCount
<1>6. ses[c].phase \in Live /\ ses[c].mode = "malicious"
  BY <1>1, ToCheck
<1>. QED
  BY <1>2, <1>3, <1>4, <1>5, <1>6, DropsStep

\* The spool cannot be sealed: an error, not a verdict.
LEMMA SealFailsInv ==
  ASSUME SessionInv, NEW c \in Sessions, SealFails(c)
  PROVE  SessionInv'
<1>1. Checkable(c) /\ Dropping(c, "other")
  BY DEF SealFails
<1>2. PICK s \in SessionType :
        /\ ses' = [ses EXCEPT ![c] = s]
        /\ Settles(ses[c], s)
        /\ s.phase = "dropping" /\ s.err = "other"
        /\ s.token = ses[c].token /\ s.finalized = ses[c].finalized
  BY <1>1, DroppingIs DEF SessionInv
<1>3. UNCHANGED <<acceptVars, stage, req, log, client>> /\ Babbles(c) /\ UNCHANGED answer
  BY DEF SealFails, Untouched, Unserved, netVars, Babbles
<1>4. PICK r \in SpoolType : spool' = [spool EXCEPT ![c] = r]
  BY ToCheck, <1>1, SpoolLeft DEF SealFails
<1>5. faults' \in Nat /\ faults' >= faults
  BY NoFiles DEF SealFails, Fault
<1>6. ses[c].phase \in Live /\ ses[c].mode = "malicious"
  BY <1>1, ToCheck
<1>. QED
  BY <1>2, <1>3, <1>4, <1>5, <1>6, DropsStep

\* Outputs that differ from the rows in the spool.
LEMMA RejectOutputsInv ==
  ASSUME SessionInv, NEW c \in Sessions, RejectOutputs(c)
  PROVE  SessionInv'
<1>1. /\ Checkable(c) /\ Len(Claimed(c)) = Q /\ BurnedBy(c, "integrity")
      /\ Sealable(spool[c], Q * M)
      /\ ~Matches(spool[c], Claimed(c)) \/ ses[c].hook = "afterChallenge"
  BY DEF RejectOutputs
<1>2. PICK s \in SessionType :
        /\ ses' = [ses EXCEPT ![c] = s]
        /\ Settles(ses[c], s)
        /\ s.phase = "dropping" /\ s.err = "integrity"
        /\ s.token = "burned" /\ s.finalized = ses[c].finalized
  BY <1>1, BurnedByIs DEF SessionInv
<1>3. s.hook # "none" \/ ~RowMajor
  BY <1>1, <1>2, ToCheck, RightMatches DEF Settles
<1>4. UNCHANGED <<acceptVars, stage, req, log, client>> /\ Babbles(c) /\ UNCHANGED answer
  BY DEF RejectOutputs, Untouched, Unserved, netVars, Babbles
<1>5. PICK r \in SpoolType : /\ spool' = [spool EXCEPT ![c] = r]
                             /\ faults' \in Nat /\ faults' >= faults
  BY NoFiles, SpoolLeft, RemoveLeaves DEF RejectOutputs
<1>6. ses[c].phase \in Live /\ ses[c].mode = "malicious"
  BY <1>1, ToCheck
<1>. QED
  BY <1>2, <1>3, <1>4, <1>5, <1>6, DropsStep

\* Outputs that pass the check of a row by row session are the right ones.
LEMMA ClaimedRight ==
  ASSUME SessionInv, NEW c \in Sessions, Checkable(c), Len(Claimed(c)) = Q,
         Sealable(spool[c], Q * M), Matches(spool[c], Claimed(c)),
         ses[c].hook = "none" \/ RowMajor
  PROVE  Claimed(c) = RightOutputs
<1>1. CASE ses[c].hook = "none"
  BY <1>1, ToCheck
<1>2. CASE RowMajor
  <2> DEFINE o == Claimed(c)
  <2>1. o \in Seq(Points) /\ Len(o) = Q
    BY ToCheck
  <2>2. RightOutputs \in Seq(Points) /\ Len(RightOutputs) = Q
    BY RightOutputsAre
  <2>3. \A j \in 1..Q : o[j] = RightOutputs[j]
    BY <1>2, RightMatches
  <2> HIDE DEF o
  <2>4. o = RightOutputs
    BY <2>1, <2>2, <2>3, SeqEqual
  <2>. QED
    BY <2>4 DEF o
<1>. QED
  BY <1>1, <1>2

\* The outputs are accepted, or the sealed spool cannot be removed.
LEMMA AcceptOutputsInv ==
  ASSUME SessionInv, NEW c \in Sessions, AcceptOutputs(c)
  PROVE  SessionInv'
<1>1. /\ Checkable(c) /\ Len(Claimed(c)) = Q /\ Sealable(spool[c], Q * M)
      /\ Matches(spool[c], Claimed(c))
  BY DEF AcceptOutputs
<1>2. UNCHANGED <<acceptVars, stage, req, log, client>> /\ UNCHANGED <<acceptVars, stage, req, log>>
      /\ UNCHANGED client /\ Babbles(c) /\ UNCHANGED answer
  BY DEF AcceptOutputs, Untouched, Unserved, netVars, Babbles
<1>3. ses[c].phase \in Live /\ ses[c].mode = "malicious" /\ spool[c] \in SpoolType
  BY <1>1, ToCheck
<1>4. Sealed(spool[c]) \in SpoolType /\ faults \in Nat
  BY <1>3, SpoolLeft, NoFiles
<1>5. CASE /\ spool' = [spool EXCEPT ![c] = Removed(Sealed(spool[c]))]
           /\ ses' = [ses EXCEPT ![c].phase = "checked", ![c].outputs = Claimed(c)]
           /\ UNCHANGED faults
  <2> DEFINE s == [ses[c] EXCEPT !.phase = "checked", !.outputs = Claimed(c)]
             r == Removed(Sealed(spool[c]))
  <2>1. ses[c] \in SessionType
    BY DEF SessionInv, SessionTypeOK
  <2>2. s \in SessionType
    BY <1>1, <2>1, ToCheck DEF SessionType, Phases
  <2>3. /\ SameRequest(ses[c], s) /\ SameRows(ses[c], s)
        /\ s.phase = "checked" /\ s.outputs = Claimed(c) /\ s.hook = ses[c].hook
        /\ s.token = ses[c].token /\ s.finalized = ses[c].finalized /\ s.err = ses[c].err
    BY <2>1 DEF SessionType, SameRequest, SameRows
  <2>4. ses' = [ses EXCEPT ![c] = s]
    BY <1>5 DEF SessionInv, SessionTypeOK
  <2>5. r \in SpoolType /\ r.files = {} /\ spool' = [spool EXCEPT ![c] = r]
    BY <1>4, <1>5, SpoolLeft
  <2> HIDE DEF s, r
  <2>6. LifeOK(s) /\ s.err # "integrity"
    BY <1>3, <2>3 DEF SessionInv, LifeInv, LifeOK, Live
  <2>7. FilesOK(s, r, faults')
    BY <2>3, <2>5 DEF FilesOK
  <2>8. PayloadOK(s, r)
    BY <2>3 DEF PayloadOK
  <2>9. s.phase \in Late
    BY <2>3 DEF Late, Phases, Early
  <2>10. s.hook = "none" \/ RowMajor => s.outputs = RightOutputs
    BY <1>1, <2>3, ClaimedRight
  <2>11. faults' \in Nat /\ faults' >= faults
    <3>1. faults' = faults
      BY <1>5
    <3>. QED
      BY <1>4, <3>1
  <2>. QED
    BY <1>2, <2>2, <2>3, <2>4, <2>5, <2>6, <2>7, <2>8, <2>9, <2>10, <2>11, LateStep
<1>6. CASE /\ Fault
           /\ \E r \in RemoveStops(Sealed(spool[c])) : spool' = [spool EXCEPT ![c] = r]
           /\ Dropping(c, "other")
  <2>1. PICK s \in SessionType :
          /\ ses' = [ses EXCEPT ![c] = s]
          /\ Settles(ses[c], s)
          /\ s.phase = "dropping" /\ s.err = "other"
          /\ s.token = ses[c].token /\ s.finalized = ses[c].finalized
    BY <1>6, DroppingIs DEF SessionInv
  <2>2. PICK r \in SpoolType : spool' = [spool EXCEPT ![c] = r]
    BY <1>4, <1>6, SpoolLeft
  <2>3. faults' \in Nat /\ faults' >= faults
    <3>1. faults' = faults + 1
      BY <1>6 DEF Fault
    <3>. QED
      BY <1>4, <3>1
  <2>. QED
    BY <1>2, <1>3, <2>1, <2>2, <2>3, DropsStep
<1>. QED
  BY <1>5, <1>6 DEF AcceptOutputs

\* Without a spool there is nothing to check.
LEMMA SkipCheckInv ==
  ASSUME SessionInv, NEW c \in Sessions, SkipCheck(c)
  PROVE  SessionInv'
<1>1. ses[c].phase = "outputs" /\ ses[c].mode # "malicious" /\ Goto(c, "checked")
  BY DEF SkipCheck
<1>2. PICK s \in SessionType :
        /\ ses' = [ses EXCEPT ![c] = s]
        /\ Settles(ses[c], s)
        /\ s.phase = "checked"
        /\ s.token = ses[c].token /\ s.finalized = ses[c].finalized
        /\ s.outputs = ses[c].outputs /\ s.err = ses[c].err
  BY <1>1, GotoIs DEF SessionInv, Phases
<1>3. UNCHANGED <<acceptVars, stage, req, log>> /\ UNCHANGED client /\ Babbles(c)
      /\ UNCHANGED answer
  BY DEF SkipCheck, Untouched, Unserved, netVars, Babbles
<1>4. /\ spool[c] \in SpoolType /\ spool' = [spool EXCEPT ![c] = spool[c]]
      /\ spool[c].files = {} /\ faults' \in Nat /\ faults' >= faults
  BY <1>1, NoFiles DEF SkipCheck
<1>5. s.outputs = RightOutputs
  BY <1>1, <1>2 DEF SessionInv, OutputsInv, OutputsOK
<1>6. LifeOK(s) /\ s.err # "integrity"
  BY <1>1, <1>2 DEF SessionInv, LifeInv, LifeOK
<1>7. FilesOK(s, spool[c], faults') /\ PayloadOK(s, spool[c])
  BY <1>2, <1>4 DEF FilesOK, PayloadOK
<1>8. s.phase \in Late /\ SameRequest(ses[c], s) /\ SameRows(ses[c], s) /\ s.phase # "outputs"
  BY <1>2 DEF Late, Phases, Early, Settles
<1>. QED
  BY <1>2, <1>3, <1>4, <1>5, <1>6, <1>7, <1>8, LateStep

\* The outputs leave with a spent token.
LEMMA ReturnInv ==
  ASSUME SessionInv, NEW c \in Sessions, Return(c)
  PROVE  SessionInv'
<1> DEFINE s == [ses[c] EXCEPT !.phase = "returned", !.token = Settled(@, "spent"),
                               !.finalized = TRUE]
<1>1. ses[c].phase = "checked"
  BY DEF Return
<1>2. ses[c] \in SessionType
  BY DEF SessionInv, SessionTypeOK
<1>3. s \in SessionType
  BY <1>2 DEF SessionType, Phases, Settled
<1>4. /\ SameRequest(ses[c], s) /\ SameRows(ses[c], s)
      /\ s.phase = "returned" /\ s.finalized /\ s.token \in {"none", "spent"}
      /\ s.outputs = ses[c].outputs /\ s.hook = ses[c].hook /\ s.err = ses[c].err
  BY <1>2 DEF SessionType, SameRequest, SameRows, Settled
<1>5. ses' = [ses EXCEPT ![c] = s]
  BY <1>2 DEF Return, SessionInv, SessionTypeOK
<1> HIDE DEF s
<1>6. UNCHANGED <<acceptVars, stage, req, log>> /\ UNCHANGED client /\ Babbles(c)
      /\ UNCHANGED answer
  BY DEF Return, Untouched, Unserved, netVars, Babbles
<1>7. /\ spool[c] \in SpoolType /\ spool' = [spool EXCEPT ![c] = spool[c]]
      /\ faults' \in Nat /\ faults' >= faults
  BY NoFiles DEF Return
<1>8. LifeOK(s) /\ s.err # "integrity"
  BY <1>1, <1>4 DEF SessionInv, LifeInv, LifeOK
<1>9. FilesOK(s, spool[c], faults') /\ PayloadOK(s, spool[c])
  BY <1>1, <1>4 DEF SessionInv, FilesInv, FilesOK, PayloadOK
<1>10. (s.hook = "none" \/ RowMajor) => s.outputs = RightOutputs
  BY <1>1, <1>4 DEF SessionInv, OutputsInv, OutputsOK
<1>11. s.phase \in Late /\ s.phase # "outputs"
  BY <1>4 DEF Late, Phases, Early
<1>. QED
  BY <1>3, <1>4, <1>5, <1>6, <1>7, <1>8, <1>9, <1>10, <1>11, LateStep

\* A finish that comes too early burns the token.
LEMMA FinishIncompleteInv ==
  ASSUME SessionInv, NEW c \in Sessions, FinishIncomplete(c)
  PROVE  SessionInv'
<1> DEFINE s == [ses[c] EXCEPT !.phase = "dropping", !.err = "other",
                               !.token = Settled(@, "burned")]
<1>1. ses[c] \in SessionType
  BY DEF SessionInv, SessionTypeOK
<1>2. s \in SessionType
  BY <1>1 DEF SessionType, Phases, Settled
<1>3. /\ Settles(ses[c], s)
      /\ s.phase = "dropping" /\ s.err = "other" /\ s.finalized = ses[c].finalized
      /\ s.token \in {ses[c].token, "burned"}
  BY <1>1 DEF SessionType, Settles, SameRequest, SameRows, Settled
<1>4. ses' = [ses EXCEPT ![c] = s]
  BY <1>1 DEF FinishIncomplete, SessionInv, SessionTypeOK
<1> HIDE DEF s
<1>5. UNCHANGED <<acceptVars, stage, req, log, client>> /\ Babbles(c) /\ UNCHANGED answer
  BY DEF FinishIncomplete, Untouched, Unserved, netVars, Babbles
<1>6. /\ spool[c] \in SpoolType /\ spool' = [spool EXCEPT ![c] = spool[c]]
      /\ (ses[c].mode # "malicious" => spool[c].files = {})
      /\ faults' \in Nat /\ faults' >= faults
  BY NoFiles DEF FinishIncomplete
<1>7. ses[c].phase \in Live
  BY DEF FinishIncomplete, Live
<1>. QED
  BY <1>2, <1>3, <1>4, <1>5, <1>6, <1>7, DropsStep

-------------------------------------------------------------------------------
(* The end of a session *)

\* Remove, if there is a spool, leaves files only at the price of a fault.
LEMMA RemoveIfAnyLeaves ==
  ASSUME SessionInv, NEW c \in Sessions, RemoveIfAny(c)
  PROVE  \E r \in SpoolType :
           /\ spool' = [spool EXCEPT ![c] = r]
           /\ r.files \subseteq spool[c].files
           /\ ses[c].mode # "malicious" => r.files = {}
           /\ r.files # {} => faults' = faults + 1
           /\ faults' \in Nat /\ faults' >= faults
<1>1. spool[c] \in SpoolType /\ faults \in Nat
  BY NoFiles
<1>2. CASE ses[c].mode = "malicious"
  <2>1. Remove(c, spool[c])
    BY <1>2 DEF RemoveIfAny
  <2>. QED
    BY <1>1, <1>2, <2>1, RemoveLeaves
<1>3. CASE ses[c].mode # "malicious"
  <2>1. UNCHANGED spool /\ UNCHANGED faults
    BY <1>3 DEF RemoveIfAny
  <2>2. spool' = [spool EXCEPT ![c] = spool[c]] /\ spool[c].files = {}
    BY <1>3, <2>1, NoFiles
  <2>3. faults' \in Nat /\ faults' >= faults
    BY <1>1, <2>1
  <2>. QED
    BY <1>1, <2>2, <2>3
<1>. QED
  BY <1>2, <1>3

\* An ending session keeps what is known of its outputs.
LEMMA EndStep ==
  ASSUME SessionInv, NEW c \in Sessions, NEW s \in SessionType, NEW sp \in SpoolType,
         ses' = [ses EXCEPT ![c] = s], spool' = [spool EXCEPT ![c] = sp],
         faults' \in Nat, faults' >= faults,
         UNCHANGED <<answer, Unserved>>, UNCHANGED client \/ Hangup(c), Babbles(c),
         SameRequest(ses[c], s), SameRows(ses[c], s),
         s.phase \in {"dropped", "failed", "done", "killed"},
         s.hook = ses[c].hook, s.err = ses[c].err, s.finalized = ses[c].finalized,
         s.outputs = ses[c].outputs,
         LifeOK(s), FilesOK(s, sp, faults')
  PROVE  SessionInv'
<1>1. UNCHANGED <<acceptVars, stage, req, log>> /\ UNCHANGED answer
  BY DEF Unserved
<1>2. PayloadOK(s, sp)
  BY DEF PayloadOK
<1>3. s.phase \in Late /\ s.phase \notin {"outputs", "checked"}
  BY DEF Late, Phases, Early
<1>4. s.finalized /\ (s.hook = "none" \/ RowMajor) => s.outputs = RightOutputs
  BY DEF SessionInv, OutputsInv, OutputsOK
<1>5. s.err = "integrity" => s.hook # "none" \/ ~RowMajor
  BY DEF SessionInv, OutputsInv, OutputsOK
<1>. QED
  BY <1>1, <1>2, <1>3, <1>4, <1>5, LateStep

\* Drop burns the token and removes the spool.
LEMMA DropInv ==
  ASSUME SessionInv, NEW c \in Sessions, Drop(c)
  PROVE  SessionInv'
<1> DEFINE s == [ses[c] EXCEPT !.phase = "dropped", !.token = Settled(@, "burned")]
<1>1. ses[c] \in SessionType /\ ses[c].phase = "dropping"
  BY DEF SessionInv, SessionTypeOK, Drop
<1>2. s \in SessionType
  BY <1>1 DEF SessionType, Phases, Settled
<1>3. /\ SameRequest(ses[c], s) /\ SameRows(ses[c], s)
      /\ s.phase = "dropped" /\ s.err = ses[c].err /\ s.finalized = ses[c].finalized
      /\ s.outputs = ses[c].outputs /\ s.hook = ses[c].hook
      /\ s.token \in {"none", "burned"}
  BY <1>1 DEF SessionType, SameRequest, SameRows, Settled
<1>4. ses' = [ses EXCEPT ![c] = s]
  BY <1>1 DEF Drop, SessionInv, SessionTypeOK
<1> HIDE DEF s
<1>5. PICK r \in SpoolType :
        /\ spool' = [spool EXCEPT ![c] = r]
        /\ ses[c].mode # "malicious" => r.files = {}
        /\ r.files # {} => faults' = faults + 1
        /\ faults' \in Nat /\ faults' >= faults
  BY RemoveIfAnyLeaves DEF Drop
<1>6. LifeOK(s)
  BY <1>1, <1>3 DEF SessionInv, LifeInv, LifeOK
<1>7. FilesOK(s, r, faults')
  <2>1. s.mode = ses[c].mode
    BY <1>3 DEF SameRows
  <2>2. faults \in Nat
    BY NoFiles
  <2>3. r.files # {} => faults' >= 1
    <3>1. r.files # {} => faults' = faults + 1
      BY <1>5
    <3>. QED
      BY <2>2, <3>1
  <2>. QED
    BY <1>3, <1>5, <2>1, <2>3 DEF FilesOK
<1>8. Babbles(c)
  <2>1. ses[c].seq \in Nat
    BY <1>1 DEF SessionType
  <2>. QED
    BY <2>1 DEF Drop, Babbles
<1>9. UNCHANGED <<answer, Unserved>> /\ Hangup(c)
  BY DEF Drop
<1>. QED
  BY <1>2, <1>3, <1>4, <1>5, <1>6, <1>7, <1>8, <1>9, EndStep

\* The fields of a session are dropped: the spool removes what is still there.
LEMMA DropFieldsInv ==
  ASSUME SessionInv, NEW c \in Sessions, DropFields(c)
  PROVE  SessionInv'
<1>1. ses[c].phase \in {"dropped", "returned"}
  BY DEF DropFields
<1> DEFINE p == IF ses[c].phase = "dropped" THEN "failed" ELSE "done"
<1>2. Goto(c, p) /\ p \in Phases
  BY <1>1 DEF DropFields, Phases
<1>3. PICK s \in SessionType :
        /\ ses' = [ses EXCEPT ![c] = s]
        /\ Settles(ses[c], s)
        /\ s.phase = p
        /\ s.token = ses[c].token /\ s.finalized = ses[c].finalized
        /\ s.outputs = ses[c].outputs /\ s.err = ses[c].err
  BY <1>2, GotoIs DEF SessionInv
<1>4. PICK r \in SpoolType :
        /\ spool' = [spool EXCEPT ![c] = r]
        /\ r.files \subseteq spool[c].files
        /\ ses[c].mode # "malicious" => r.files = {}
        /\ r.files # {} => faults' = faults + 1
        /\ faults' \in Nat /\ faults' >= faults
  BY RemoveIfAnyLeaves DEF DropFields
<1>5. LifeOK(s)
  BY <1>1, <1>3 DEF SessionInv, LifeInv, LifeOK
<1>6. FilesOK(s, r, faults')
  <2>1. FilesOK(ses[c], spool[c], faults) /\ faults \in Nat
    BY NoFiles DEF SessionInv, FilesInv
  <2>2. s.mode = ses[c].mode /\ s.phase \in {"failed", "done"}
    BY <1>1, <1>3 DEF Settles, SameRows
  <2>3. r.files # {} => faults' >= 2
    BY <1>1, <1>4, <2>1 DEF FilesOK
  <2>. QED
    BY <1>4, <2>2, <2>3 DEF FilesOK
<1>7. UNCHANGED <<answer, Unserved>> /\ Hangup(c) /\ Babbles(c)
  BY DEF DropFields, Babbles
<1>8. SameRequest(ses[c], s) /\ SameRows(ses[c], s) /\ s.hook = ses[c].hook
  BY <1>3 DEF Settles
<1>9. s.phase \in {"dropped", "failed", "done", "killed"}
  BY <1>3
<1>. QED
  BY <1>3, <1>4, <1>5, <1>6, <1>7, <1>8, <1>9, EndStep

\* A killed client leaves everything as it is.
LEMMA ClientKilledInv ==
  ASSUME SessionInv, NEW c \in Sessions, ClientKilled(c)
  PROVE  SessionInv'
<1>1. ses[c].phase \notin Ended \cup {"new"} /\ Goto(c, "killed")
  BY DEF ClientKilled
<1>2. PICK s \in SessionType :
        /\ ses' = [ses EXCEPT ![c] = s]
        /\ Settles(ses[c], s)
        /\ s.phase = "killed"
        /\ s.token = ses[c].token /\ s.finalized = ses[c].finalized
        /\ s.outputs = ses[c].outputs /\ s.err = ses[c].err
  BY <1>1, GotoIs DEF SessionInv, Phases
<1>3. LifeOK(s)
  BY <1>1, <1>2 DEF SessionInv, LifeInv, LifeOK
<1>4. /\ spool[c] \in SpoolType /\ spool' = [spool EXCEPT ![c] = spool[c]]
      /\ ses[c].mode # "malicious" => spool[c].files = {}
  BY NoFiles DEF ClientKilled
<1>5. faults' \in Nat /\ faults' >= faults
  <2>1. faults' = faults + 1
    BY DEF ClientKilled, Fault
  <2>. QED
    BY <2>1, NoFiles
<1>6. FilesOK(s, spool[c], faults')
  BY <1>2, <1>4 DEF FilesOK, Settles, SameRows
<1>7. UNCHANGED <<answer, Unserved>> /\ Hangup(c) /\ Babbles(c)
  BY DEF ClientKilled, Babbles
<1>8. SameRequest(ses[c], s) /\ SameRows(ses[c], s) /\ s.hook = ses[c].hook
  BY <1>2 DEF Settles
<1>. QED
  BY <1>2, <1>3, <1>4, <1>5, <1>6, <1>7, <1>8, EndStep

-------------------------------------------------------------------------------
(* Until the request has been sent *)

\* A session that has not finished its request has started no multiplication.
LEMMA Quiet ==
  ASSUME SessionInv, NEW c \in Sessions, ses[c].phase \in Early
  PROVE  /\ ~log[c].msm /\ ~Finished(ses[c])
         /\ ses[c] \in SessionType
         /\ ~ses[c].finalized /\ ses[c].token \in {"none", "reserved"}
         /\ ses[c].err # "integrity"
         /\ RequestOK(ses[c], client[c], stage[c], wire[c], req[c], log[c])
         /\ OutputsOK(ses[c], answer[c], stage[c], log[c])
         /\ PayloadOK(ses[c], spool[c])
         /\ wire = [d \in Sessions |-> wire[d]]
         /\ answer = [d \in Sessions |-> answer[d]]
<1>1. RequestOK(ses[c], client[c], stage[c], wire[c], req[c], log[c]) /\ LifeOK(ses[c])
  BY DEF SessionInv, RequestInv, LifeInv
<1>2. ~Finished(ses[c])
  BY DEF Finished
<1>3. ses[c] \in SessionType
  BY DEF SessionInv, SessionTypeOK
<1>4. ~ses[c].finalized /\ ses[c].token \in {"none", "reserved"} /\ ses[c].err # "integrity"
  BY <1>1, <1>3 DEF LifeOK, Early, SessionType
<1>. QED
  BY <1>1, <1>2, <1>3, <1>4 DEF RequestOK, SessionInv, RequestInv, OutputsInv, PayloadInv

\* A session that has not begun.
LEMMA NewIs == New \in SessionType
<1>1. [r \in Rows |-> 0] \in [Rows -> 0..M]
  BY ServerConstantsOK
<1>2. [r \in Rows |-> <<>>] \in [Rows -> Points]
  BY DEF Points
<1>3. <<>> \in Seq(Chunks) /\ <<>> \in Seq(Points)
  OBVIOUS
<1>. QED
  BY <1>1, <1>2, <1>3 DEF New, SessionType, Phases, Early

\* The session begins, with a spool in malicious mode, or ends at once.
LEMMA BeginInv ==
  ASSUME SessionInv, NEW c \in Sessions, Begin(c)
  PROVE  SessionInv'
<1>1. ses[c].phase = "new" /\ ses[c] = New /\ ses[c].phase \in Early
  BY DEF Begin, SessionInv, LifeInv, LifeOK, Early
<1>2. UNCHANGED <<acceptVars, stage, req, log>> /\ UNCHANGED client
      /\ UNCHANGED wire /\ UNCHANGED answer
  BY DEF Begin, Untouched, Unserved, netVars
<1>3. ServerInv'
  BY <1>2, ClientSide DEF SessionInv
<1>4. spool[c] \in SpoolType /\ spool[c].files = {} /\ faults \in Nat
  BY <1>1, NoFiles DEF New
<1> DEFINE Begun(p, phase) == [New EXCEPT !.phase = phase, !.mode = p[1], !.link = p[2],
                                 !.token = IF IsPreprocessed(p[1]) THEN "reserved" ELSE "none"]
<1>5. ASSUME NEW p \in Offered,
             NEW phase \in {"refused", "connecting", "greeting", "uploading"},
             phase = "connecting" => p[2] = "tcp",
             phase = "uploading" => p[2] \notin {"tcp", "loopback"},
             ses' = [ses EXCEPT ![c] = Begun(p, phase)],
             NEW sp \in SpoolType, spool' = [spool EXCEPT ![c] = sp],
             p[1] # "malicious" => sp.files = {},
             phase = "refused" /\ sp.files # {} => faults' >= 1,
             p[1] = "malicious" /\ phase # "refused" => sp.payload = <<>>,
             faults' \in Nat, faults' >= faults
      PROVE  SessionInv'
  <2> DEFINE s == Begun(p, phase)
  <2>1. p[1] \in Modes /\ p[2] \in Links
    BY DEF Offered
  <2>2. /\ s.phase = phase /\ s.mode = p[1] /\ s.link = p[2]
        /\ s.token \in {"reserved", "none"} /\ s.finalized = FALSE /\ s.err = "none"
        /\ s.col = [r \in Rows |-> 0] /\ s.acc = [r \in Rows |-> <<>>]
        /\ s.seq = 0 /\ s.hashed = <<>> /\ s.scalars = 0
        /\ s.hook = "none" /\ s.chunks = 0 /\ s.outputs = <<>>
    BY DEF New, IsPreprocessed
  <2>3. s \in SessionType
    <3>1. New \in SessionType
      BY NewIs
    <3> DEFINE m == p[1]
               l == p[2]
               token == IF IsPreprocessed(m) THEN "reserved" ELSE "none"
    <3>2. /\ phase \in Phases /\ m \in Modes \cup {"semi"} /\ l \in Links \cup {"local"}
          /\ token \in {"none", "reserved", "burned", "spent"}
      BY <2>1 DEF Phases, Early
    <3>3. s = [New EXCEPT !.phase = phase, !.mode = m, !.link = l, !.token = token]
      OBVIOUS
    <3> HIDE DEF m, l, token, s
    <3>. QED
      BY <3>1, <3>2, <3>3 DEF SessionType
  <2>4. ses' = [ses EXCEPT ![c] = s]
    BY <1>5
  <2> HIDE DEF s
  <2>5. LifeOK(s)
    BY <2>2 DEF LifeOK
  <2>6. FilesOK(s, sp, faults')
    BY <1>5, <2>2 DEF FilesOK
  <2>7. RequestOK(s, client[c], stage[c], wire[c], req[c], log[c])
    <3>1. RequestOK(New, client[c], stage[c], wire[c], req[c], log[c])
      BY <1>1, Quiet
    <3>2. Sent(New) = Sent(s)
      BY <2>2 DEF Sent, New, Finished, Early
    <3>3. client[c] = "none" /\ ~log[c].msm
      BY <1>1, <3>1, Quiet DEF RequestOK, New
    <3>4. wire[c] \in Seq(Sent(s))
      BY <3>1, <3>2 DEF RequestOK
    <3>5. stage[c] = "none"
      BY <3>3 DEF SessionInv, ServerInv, QueueInv
    <3>. QED
      BY <1>5, <2>2, <3>3, <3>4, <3>5 DEF RequestOK
  <2>8. OutputsOK(s, answer[c], stage[c], log[c])
    <3>1. OutputsOK(New, answer[c], stage[c], log[c])
      BY <1>1, Quiet
    <3>2. \A r \in Rows : s.acc[r] = Cells(r, 0, s.col[r])
      BY <2>2, NoCells
    <3>. QED
      BY <1>5, <2>2, <3>1, <3>2 DEF OutputsOK
  <2>9. PayloadOK(s, sp)
    <3>1. s.phase \notin {"waiting", "body", "outputs"}
      BY <2>2
    <3>2. \A r \in Rows : r * M \in Nat
      BY NextRow DEF Rows
    <3>3. Pushed(s, 0)
      BY <2>2, <3>2 DEF Pushed
    <3>4. 0 \in 0..(Q * M)
      BY ServerConstantsOK
    <3>5. s.phase # "refused" /\ s.mode = "malicious" =>
            Len(sp.payload) >= 0 /\ InRowOrder(sp.payload, 0)
      BY <1>5, <2>2, <3>2 DEF InRowOrder
    <3>. QED
      BY <3>1, <3>3, <3>4, <3>5 DEF PayloadOK
  <2>10. /\ wire' = [d \in Sessions |-> wire'[d]] /\ answer' = [d \in Sessions |-> answer'[d]]
    BY <1>1, <1>2, Quiet
  <2>. QED
    BY <1>2, <1>3, <1>5, <2>3, <2>4, <2>5, <2>6, <2>7, <2>8, <2>9, <2>10, SessionStep
<1>6. PICK p \in Offered :
        \/ /\ ses' = [ses EXCEPT ![c] = Begun(p, FirstPhase(p[2]))]
           /\ spool' = [spool EXCEPT ![c] = IF p[1] = "malicious" THEN Created ELSE @]
           /\ UNCHANGED faults
        \/ /\ ses' = [ses EXCEPT ![c] = Begun(p, "refused")]
           /\ \/ UNCHANGED <<spool, faults>>
              \/ p[1] = "malicious" /\ Fault /\ spool' \in {spool, [spool EXCEPT ![c] = Created]}
  BY DEF Begin
<1> HIDE DEF Begun
<1>7. CASE /\ ses' = [ses EXCEPT ![c] = Begun(p, FirstPhase(p[2]))]
           /\ spool' = [spool EXCEPT ![c] = IF p[1] = "malicious" THEN Created ELSE @]
           /\ UNCHANGED faults
  <2> DEFINE phase == FirstPhase(p[2])
             sp == IF p[1] = "malicious" THEN Created ELSE spool[c]
  <2>1. /\ phase \in {"connecting", "greeting", "uploading"}
        /\ phase = "connecting" => p[2] = "tcp"
        /\ phase = "uploading" => p[2] \notin {"tcp", "loopback"}
    BY DEF FirstPhase
  <2>2. Created \in SpoolType /\ Created.payload = <<>>
    BY DEF Created, SpoolType, Names
  <2>3. /\ sp \in SpoolType /\ spool' = [spool EXCEPT ![c] = sp]
        /\ p[1] # "malicious" => sp.files = {}
        /\ p[1] = "malicious" => sp.payload = <<>>
    BY <1>4, <1>7, <2>2 DEF SessionInv, SessionTypeOK
  <2>4. faults' \in Nat /\ faults' >= faults
    <3>1. faults' = faults
      BY <1>7
    <3>. QED
      BY <1>4, <3>1
  <2>5. ses' = [ses EXCEPT ![c] = Begun(p, phase)]
    BY <1>7
  <2> HIDE DEF phase, sp
  <2>. QED
    BY <1>5, <2>1, <2>3, <2>4, <2>5
<1>8. CASE /\ ses' = [ses EXCEPT ![c] = Begun(p, "refused")]
           /\ UNCHANGED <<spool, faults>>
  <2>1. faults' \in Nat /\ faults' >= faults
    BY <1>4, <1>8
  <2>2. spool' = [spool EXCEPT ![c] = spool[c]]
    BY <1>8, NoFiles
  <2>. QED
    BY <1>4, <1>5, <1>8, <2>1, <2>2
<1>9. CASE /\ ses' = [ses EXCEPT ![c] = Begun(p, "refused")]
           /\ p[1] = "malicious" /\ Fault /\ spool' \in {spool, [spool EXCEPT ![c] = Created]}
  <2>1. faults' \in Nat /\ faults' >= faults /\ faults' >= 1
    <3>1. faults' = faults + 1
      BY <1>9 DEF Fault
    <3>. QED
      BY <1>4, <3>1
  <2>2. PICK sp \in {spool[c], Created} : spool' = [spool EXCEPT ![c] = sp]
    BY <1>9, NoFiles
  <2>3. sp \in SpoolType
    <3>1. Created \in SpoolType
      BY DEF Created, SpoolType, Names
    <3>. QED
      BY <1>4, <2>2, <3>1
  <2>. QED
    BY <1>5, <1>9, <2>1, <2>2, <2>3
<1>. QED
  BY <1>6, <1>7, <1>8, <1>9

\* An early error, with or without a frame lost on the way.
LEMMA EarlyDrop ==
  ASSUME SessionInv, NEW c \in Sessions, ses[c].phase \in Live, Dropping(c, "other"),
         FrameLost(c), UNCHANGED <<client, answer, Unserved, spool>>
  PROVE  SessionInv'
<1>1. UNCHANGED <<acceptVars, stage, req, log, client, spool>> /\ UNCHANGED answer
  BY DEF Unserved
<1>2. ses[c].seq \in Nat
  BY DEF SessionInv, SessionTypeOK, SessionType
<1>3. Babbles(c)
  BY <1>2 DEF FrameLost, Babbles
<1>4. UNCHANGED faults \/ Fault
  BY DEF FrameLost
<1>. QED
  BY <1>1, <1>3, <1>4, PlainDrop

\* The connection is queued at the server, or cannot be made.
LEMMA ConnectInv ==
  ASSUME SessionInv, NEW c \in Sessions, Connect(c)
  PROVE  SessionInv'
<1>1. ses[c].phase = "connecting" /\ ses[c].phase \in Early /\ ses[c].phase \in Live
      /\ UNCHANGED spool
  BY DEF Connect, Early, Live
<1>2. CASE Dropping(c, "other") /\ UNCHANGED Untouched /\ (UNCHANGED faults \/ Fault)
  <2>1. UNCHANGED <<acceptVars, stage, req, log, client, spool>> /\ UNCHANGED answer /\ Babbles(c)
    BY <1>1, <1>2 DEF Untouched, Unserved, netVars, Babbles
  <2>. QED
    BY <1>1, <1>2, <2>1, PlainDrop
<1>3. CASE Connected(c) /\ Goto(c, "greeting") /\ UNCHANGED faults
  <2>1. PICK s \in SessionType :
          /\ ses' = [ses EXCEPT ![c] = s]
          /\ Settles(ses[c], s)
          /\ s.phase = "greeting"
          /\ s.token = ses[c].token /\ s.finalized = ses[c].finalized
          /\ s.outputs = ses[c].outputs /\ s.err = ses[c].err
    BY <1>3, GotoIs DEF SessionInv, Phases, Early
  <2>2. ~log[c].msm /\ ~ses[c].finalized /\ ses[c].err # "integrity"
    BY <1>1, Quiet
  <2>3. ServerInv'
    BY <1>3, <2>2, ConnectedInv DEF SessionInv
  <2>4. /\ stage' = [stage EXCEPT ![c] = "queued"] /\ client' = [client EXCEPT ![c] = "open"]
        /\ UNCHANGED wire /\ UNCHANGED answer /\ UNCHANGED req /\ UNCHANGED log
    BY <1>3 DEF Connected
  <2>5. /\ stage'[c] = "queued" /\ client'[c] = "open"
        /\ \A d \in Sessions \ {c} : client'[d] = client[d] /\ stage'[d] = stage[d]
    BY <2>4 DEF SessionInv, ServerInv, Shapes
  <2>6. RequestOK(s, client'[c], stage'[c], wire'[c], req'[c], log'[c])
    <3>1. RequestOK(ses[c], client[c], stage[c], wire[c], req[c], log[c])
      BY <1>1, Quiet
    <3>2. Sent(ses[c]) = Sent(s)
      BY <1>1, <2>1 DEF Sent, Finished, Settles, SameRequest, Early
    <3>3. s.link = "tcp"
      BY <1>1, <2>1, <3>1 DEF RequestOK, Settles, SameRequest
    <3>. QED
      BY <1>1, <2>1, <2>2, <2>4, <2>5, <3>1, <3>2, <3>3 DEF RequestOK, Settles, SameRequest
  <2>7. OutputsOK(s, answer'[c], stage'[c], log'[c])
    BY <1>1, <2>1, <2>2, <2>4, <2>5, Quiet DEF OutputsOK, Settles, SameRequest, SameRows
  <2>8. LifeOK(s)
    BY <1>1, <2>1 DEF SessionInv, LifeInv, LifeOK
  <2>9. FilesOK(s, spool[c], faults')
    BY <1>1, <1>3, <2>1 DEF SessionInv, FilesInv, FilesOK, Settles, SameRows
  <2>10. PayloadOK(s, spool[c])
    BY <1>1, <2>1, Quiet DEF PayloadOK, Settles, SameRows, Pushed
  <2>11. /\ spool[c] \in SpoolType /\ spool' = [spool EXCEPT ![c] = spool[c]]
         /\ faults' \in Nat /\ faults' >= faults
    BY <1>1, <1>3, NoFiles
  <2>12. wire' = [d \in Sessions |-> wire'[d]] /\ answer' = [d \in Sessions |-> answer'[d]]
    BY <1>1, <2>4, Quiet
  <2>. QED
    BY <2>1, <2>3, <2>4, <2>5, <2>6, <2>7, <2>8, <2>9, <2>10, <2>11, <2>12, SessionStep
<1>. QED
  BY <1>2, <1>3 DEF Connect

\* A session writes a frame of its request, or hands it to the loopback.
LEMMA RequestStep ==
  ASSUME SessionInv, NEW c \in Sessions, NEW s \in SessionType, NEW sp \in SpoolType,
         ses[c].phase \in {"greeting", "uploading"},
         s.phase \in {"uploading", "waiting", "dropping"},
         ses' = [ses EXCEPT ![c] = s], spool' = [spool EXCEPT ![c] = sp],
         faults' \in Nat, faults' >= faults,
         UNCHANGED <<client, answer, stage>>, ServerInv',
         wire' = [d \in Sessions |-> wire'[d]],
         \A d \in Sessions \ {c} :
           wire'[d] = wire[d] /\ req'[d] = req[d] /\ log'[d] = log[d],
         s.link = ses[c].link, s.mode = ses[c].mode, s.token = ses[c].token,
         s.finalized = ses[c].finalized, s.err \in {ses[c].err, "other"},
         log'[c] \in LogType, stage[c] \in {"multiplying", "body"} => log'[c].msm,
         s.link = "local" => \A r \in Rows : s.acc[r] = Cells(r, 0, s.col[r]),
         RequestOK(s, client[c], stage[c], wire'[c], req'[c], log'[c]),
         ses[c].mode # "malicious" => sp.files = {},
         PayloadOK(s, sp)
  PROVE  SessionInv'
<1>1. /\ ~ses[c].finalized /\ ses[c].token \in {"none", "reserved"} /\ ses[c].err # "integrity"
      /\ OutputsOK(ses[c], answer[c], stage[c], log[c])
      /\ answer = [d \in Sessions |-> answer[d]]
  BY Quiet DEF Early
<1>2. LifeOK(s)
  BY <1>1 DEF LifeOK
<1>3. OutputsOK(s, answer'[c], stage'[c], log'[c])
  BY <1>1 DEF OutputsOK
<1>4. FilesOK(s, sp, faults')
  BY DEF FilesOK
<1>5. answer' = [d \in Sessions |-> answer'[d]]
  BY <1>1
<1>. QED
  BY <1>2, <1>3, <1>4, <1>5, SessionStep

\* The server's part of the invariant when the loopback has made a request.
LEMMA LoopbackRequest ==
  ASSUME ServerInv, NEW c \in Sessions, NEW k, Prefixes(k), ~log[c].msm,
         req' = [req EXCEPT ![c] = k], UNCHANGED <<client, acceptVars, stage, log>>
  PROVE  ServerInv' /\ req'[c] = k /\ \A d \in Sessions \ {c} : req'[d] = req[d]
<1> USE DEF acceptVars
<1>1. \A d \in Sessions : req'[d] = IF d = c THEN k ELSE req[d]
  BY DEF ServerInv, Shapes
<1>2. Shapes'
  BY DEF ServerInv, Shapes
<1>3. QueueInv'
  BY DEF ServerInv, QueueInv
<1>4. RequestsInv'
  BY <1>1 DEF ServerInv, RequestsInv
<1>5. MsmInv'
  BY <1>1 DEF ServerInv, MsmInv
<1>6. OneConnectionAtATime'
  BY DEF ServerInv, OneConnectionAtATime
<1>. QED
  BY <1>1, <1>2, <1>3, <1>4, <1>5, <1>6 DEF ServerInv

\* Only a TCP session has a connection.
LEMMA NoConnection ==
  ASSUME SessionInv, NEW c \in Sessions, ses[c].link # "tcp"
  PROVE  client[c] = "none" /\ stage[c] = "none"
<1>1. client[c] = "none"
  BY DEF SessionInv, RequestInv, RequestOK
<1>. QED
  BY <1>1 DEF SessionInv, ServerInv, QueueInv

\* A session whose request goes on keeps its rows.
LEMMA SameColumns ==
  ASSUME SessionInv, NEW c \in Sessions, NEW s, SameRows(ses[c], s),
         ses[c].phase \in {"greeting", "uploading"},
         s.phase \in {"uploading", "waiting"}, s.phase = "waiting" => AllPushed(c)
  PROVE  PayloadOK(s, spool[c])
<1>1. PayloadOK(ses[c], spool[c])
  BY DEF SessionInv, PayloadInv
<1>. QED
  BY <1>1 DEF PayloadOK, SameRows, Pushed, AllPushed

\* The session after one more frame.
Further(s, p) == [s EXCEPT !.phase = p, !.seq = @ + 1]

\* What changes with a frame, and what does not.
LEMMA Onward ==
  ASSUME NEW s0 \in SessionType, NEW p \in Phases
  PROVE  LET s == Further(s0, p)
         IN  /\ s \in SessionType
             /\ s.phase = p /\ s.seq = s0.seq + 1 /\ SameRows(s0, s)
             /\ s.link = s0.link /\ s.token = s0.token /\ s.finalized = s0.finalized
             /\ s.err = s0.err /\ s.hashed = s0.hashed /\ s.scalars = s0.scalars
<1> DEFINE n == s0.seq + 1
<1>1. n \in Nat
  BY DEF SessionType
<1> HIDE DEF n
<1> DEFINE s == [s0 EXCEPT !.phase = p, !.seq = n]
<1>2. s \in SessionType
  BY <1>1 DEF SessionType
<1>3. /\ s.phase = p /\ s.seq = n /\ SameRows(s0, s)
      /\ s.link = s0.link /\ s.token = s0.token /\ s.finalized = s0.finalized
      /\ s.err = s0.err /\ s.hashed = s0.hashed /\ s.scalars = s0.scalars
  BY DEF SessionType, SameRows
<1>. QED
  BY <1>2, <1>3 DEF n, Further

\* The header and its frame.
LEMMA SendHeaderInv ==
  ASSUME SessionInv, NEW c \in Sessions, SendHeader(c)
  PROVE  SessionInv'
<1>1. ses[c].phase = "greeting" /\ ses[c].link = "tcp"
  BY DEF SendHeader
<1>2. CASE FrameLost(c) /\ Dropping(c, "other")
  BY <1>1, <1>2, EarlyDrop DEF SendHeader, Live
<1>3. CASE /\ Write(c, HeaderFrame(ses[c].seq, TRUE, Expected))
           /\ ses' = [ses EXCEPT ![c].phase = "uploading", ![c].seq = @ + 1]
           /\ UNCHANGED faults
  <2> DEFINE s == Further(ses[c], "uploading")
  <2>1. /\ ses[c] \in SessionType /\ ~log[c].msm /\ ~Finished(ses[c])
        /\ RequestOK(ses[c], client[c], stage[c], wire[c], req[c], log[c])
        /\ OutputsOK(ses[c], answer[c], stage[c], log[c])
        /\ wire = [d \in Sessions |-> wire[d]]
    BY <1>1, Quiet DEF Early
  <2>2. ses[c].seq = 0 /\ ses[c].hashed = <<>>
    BY <1>1, <2>1 DEF RequestOK
  <2>3. "uploading" \in Phases
    BY DEF Phases, Early
  <2>4. /\ s \in SessionType
        /\ s.phase = "uploading" /\ s.seq = 1 /\ SameRows(ses[c], s)
        /\ s.link = ses[c].link /\ s.token = ses[c].token /\ s.finalized = ses[c].finalized
        /\ s.err = ses[c].err /\ s.hashed = ses[c].hashed /\ s.scalars = ses[c].scalars
    BY <2>1, <2>2, <2>3, Onward
  <2>5. ses' = [ses EXCEPT ![c] = s]
    BY <1>3 DEF SessionInv, SessionTypeOK, Further
  <2> HIDE DEF s
  <2>6. Sent(s) = Sent(ses[c])
    BY <1>1, <2>4 DEF Sent, Finished, Early
  <2>7. HeaderFrame(ses[c].seq, TRUE, Expected) \in Sent(s)
    BY <2>2 DEF Sent
  <2>8. wire[c] \in Seq(Sent(s))
    BY <2>1, <2>6 DEF RequestOK
  <2>9. /\ wire' = [d \in Sessions |-> wire'[d]]
        /\ \A d \in Sessions \ {c} : wire'[d] = wire[d]
        /\ wire'[c] \in Seq(Sent(s))
    BY <1>3, <2>1, <2>7, <2>8, WrittenTo
  <2>10. UNCHANGED <<acceptVars, stage, req, log>> /\ UNCHANGED <<client, answer, stage>>
         /\ UNCHANGED client /\ UNCHANGED req /\ UNCHANGED log /\ UNCHANGED spool
    BY DEF SendHeader, Unserved
  <2>11. ServerInv'
    BY <2>10, ClientSide DEF SessionInv
  <2>12. RequestOK(s, client[c], stage[c], wire'[c], req'[c], log'[c])
    BY <1>1, <2>1, <2>2, <2>4, <2>9, <2>10 DEF RequestOK, Taken
  <2>13. PayloadOK(s, spool[c])
    BY <1>1, <2>4, SameColumns
  <2>14. /\ spool[c] \in SpoolType /\ spool' = [spool EXCEPT ![c] = spool[c]]
         /\ ses[c].mode # "malicious" => spool[c].files = {}
         /\ faults' \in Nat /\ faults' >= faults
    BY <1>3, <2>10, NoFiles
  <2>15. /\ log'[c] \in LogType /\ (stage[c] \in {"multiplying", "body"} => log'[c].msm)
         /\ s.link = "local" => \A r \in Rows : s.acc[r] = Cells(r, 0, s.col[r])
    BY <1>1, <2>1, <2>4, <2>10 DEF OutputsOK
  <2>. QED
    BY <1>1, <2>4, <2>5, <2>9, <2>10, <2>11, <2>12, <2>13, <2>14, <2>15, RequestStep
       DEF SameRows
<1>. QED
  BY <1>2, <1>3 DEF SendHeader

\* The header of a loopback request.
LEMMA LoopbackHeaderInv ==
  ASSUME SessionInv, NEW c \in Sessions, LoopbackHeader(c)
  PROVE  SessionInv'
<1>1. /\ ses[c].phase = "greeting" /\ ses[c].link = "loopback" /\ ses[c].link # "tcp"
  BY DEF LoopbackHeader
<1> DEFINE s == Further(ses[c], "uploading")
           k == [NoRequest EXCEPT !.total = Expected]
<1>2. /\ ses[c] \in SessionType /\ ~log[c].msm /\ ~Finished(ses[c])
      /\ RequestOK(ses[c], client[c], stage[c], wire[c], req[c], log[c])
      /\ wire = [d \in Sessions |-> wire[d]]
  BY <1>1, Quiet DEF Early
<1>3. ses[c].seq = 0 /\ ses[c].hashed = <<>> /\ wire[c] \in Seq(Sent(ses[c]))
  BY <1>1, <1>2 DEF RequestOK
<1>4. client[c] = "none" /\ stage[c] = "none"
  BY <1>1, NoConnection
<1>5. "uploading" \in Phases
  BY DEF Phases, Early
<1>6. /\ s \in SessionType
      /\ s.phase = "uploading" /\ s.seq = 1 /\ SameRows(ses[c], s)
      /\ s.link = ses[c].link /\ s.token = ses[c].token /\ s.finalized = ses[c].finalized
      /\ s.err = ses[c].err /\ s.hashed = ses[c].hashed /\ s.scalars = ses[c].scalars
  BY <1>2, <1>3, <1>5, Onward
<1>7. ses' = [ses EXCEPT ![c] = s]
  BY DEF LoopbackHeader, SessionInv, SessionTypeOK, Further
<1>8. Prefixes(k) /\ k.digest = <<>>
  BY NoRequestIsPrefix DEF Prefixes, NoRequest
<1>9. req' = [req EXCEPT ![c] = k]
  BY DEF LoopbackHeader
<1>10. UNCHANGED <<client, acceptVars, stage, log>> /\ UNCHANGED <<client, answer, stage>>
       /\ UNCHANGED wire /\ UNCHANGED faults /\ UNCHANGED spool /\ UNCHANGED log
  BY DEF LoopbackHeader, netVars
<1> HIDE DEF s, k
<1>11. ServerInv' /\ req'[c] = k /\ \A d \in Sessions \ {c} : req'[d] = req[d]
  BY <1>2, <1>8, <1>9, <1>10, LoopbackRequest DEF SessionInv
<1>12. Sent(s) = Sent(ses[c])
  BY <1>1, <1>6 DEF Sent, Finished, Early
<1>13. RequestOK(s, client[c], stage[c], wire'[c], req'[c], log'[c])
  BY <1>1, <1>2, <1>3, <1>4, <1>6, <1>8, <1>10, <1>11, <1>12 DEF RequestOK
<1>14. PayloadOK(s, spool[c])
  BY <1>1, <1>6, SameColumns
<1>15. /\ spool[c] \in SpoolType /\ spool' = [spool EXCEPT ![c] = spool[c]]
       /\ ses[c].mode # "malicious" => spool[c].files = {}
       /\ faults' \in Nat /\ faults' >= faults
  BY <1>10, NoFiles
<1>16. wire' = [d \in Sessions |-> wire'[d]] /\ \A d \in Sessions : wire'[d] = wire[d]
  BY <1>2, <1>10
<1>17. log'[c] \in LogType /\ \A d \in Sessions \ {c} : log'[d] = log[d]
  BY <1>1, <1>10, Quiet DEF OutputsOK, Early
<1>. QED
  BY <1>1, <1>4, <1>6, <1>7, <1>10, <1>11, <1>13, <1>14, <1>15, <1>16, <1>17, RequestStep
     DEF SameRows

\* The finish frame.
LEMMA SendFinishInv ==
  ASSUME SessionInv, NEW c \in Sessions, SendFinish(c)
  PROVE  SessionInv'
<1>1. ses[c].phase = "uploading" /\ ses[c].link = "tcp" /\ AllPushed(c)
  BY DEF SendFinish
<1>2. CASE FrameLost(c) /\ Dropping(c, "other")
  BY <1>1, <1>2, EarlyDrop DEF SendFinish, Live
<1>3. CASE /\ Write(c, FinishFrame(ses[c].seq, Len(ses[c].hashed), ses[c].scalars, ses[c].hashed))
           /\ ses' = [ses EXCEPT ![c].phase = "waiting", ![c].seq = @ + 1]
           /\ UNCHANGED faults
  <2> DEFINE s == Further(ses[c], "waiting")
  <2>1. /\ ses[c] \in SessionType /\ ~log[c].msm /\ ~Finished(ses[c])
        /\ RequestOK(ses[c], client[c], stage[c], wire[c], req[c], log[c])
        /\ OutputsOK(ses[c], answer[c], stage[c], log[c])
        /\ wire = [d \in Sessions |-> wire[d]]
    BY <1>1, Quiet DEF Early
  <2>2. ses[c].seq = Len(ses[c].hashed) + 1 /\ ses[c].hashed \in Seq(Chunks)
    BY <1>1, <2>1 DEF RequestOK, SessionType
  <2>3. "waiting" \in Phases
    BY DEF Phases
  <2>4. /\ s \in SessionType
        /\ s.phase = "waiting" /\ s.seq = Len(s.hashed) + 2 /\ SameRows(ses[c], s)
        /\ s.link = ses[c].link /\ s.token = ses[c].token /\ s.finalized = ses[c].finalized
        /\ s.err = ses[c].err /\ s.hashed = ses[c].hashed /\ s.scalars = ses[c].scalars
    BY <2>1, <2>2, <2>3, Onward
  <2>5. ses' = [ses EXCEPT ![c] = s]
    BY <1>3 DEF SessionInv, SessionTypeOK, Further
  <2> HIDE DEF s
  <2>6. Finished(s)
    BY <2>4 DEF Finished, Early
  <2>7. FinishFrame(ses[c].seq, Len(ses[c].hashed), ses[c].scalars, ses[c].hashed) \in Sent(s)
    BY <2>2, <2>4, <2>6 DEF Sent
  <2>8. wire[c] \in Seq(Sent(s))
    <3>1. Sent(ses[c]) \subseteq Sent(s)
      BY <2>1, <2>2, <2>4, SentGrows
    <3>. QED
      BY <2>1, <3>1, SeqGrows DEF RequestOK
  <2>9. /\ wire' = [d \in Sessions |-> wire'[d]]
        /\ \A d \in Sessions \ {c} : wire'[d] = wire[d]
        /\ wire'[c] \in Seq(Sent(s))
    BY <1>3, <2>1, <2>7, <2>8, WrittenTo
  <2>10. UNCHANGED <<acceptVars, stage, req, log>> /\ UNCHANGED <<client, answer, stage>>
         /\ UNCHANGED client /\ UNCHANGED req /\ UNCHANGED log /\ UNCHANGED spool
    BY DEF SendFinish, Unserved
  <2>11. ServerInv'
    BY <2>10, ClientSide DEF SessionInv
  <2>12. RequestOK(s, client[c], stage[c], wire'[c], req'[c], log'[c])
    <3>1. stage[c] = "chunks" => Taken(s, req[c])
      BY <2>1, <2>4 DEF RequestOK, Taken
    <3>. QED
      BY <1>1, <2>1, <2>4, <2>9, <2>10, <3>1 DEF RequestOK
  <2>13. PayloadOK(s, spool[c])
    BY <1>1, <2>4, SameColumns
  <2>14. /\ spool[c] \in SpoolType /\ spool' = [spool EXCEPT ![c] = spool[c]]
         /\ ses[c].mode # "malicious" => spool[c].files = {}
         /\ faults' \in Nat /\ faults' >= faults
    BY <1>3, <2>10, NoFiles
  <2>15. /\ log'[c] \in LogType /\ (stage[c] \in {"multiplying", "body"} => log'[c].msm)
         /\ s.link = "local" => \A r \in Rows : s.acc[r] = Cells(r, 0, s.col[r])
    BY <1>1, <2>1, <2>4, <2>10 DEF OutputsOK
  <2>. QED
    BY <1>1, <2>4, <2>5, <2>9, <2>10, <2>11, <2>12, <2>13, <2>14, <2>15, RequestStep
       DEF SameRows
<1>. QED
  BY <1>2, <1>3 DEF SendFinish

\* The loopback multiplies a complete request, and refuses another.
LEMMA FinishLoopbackInv ==
  ASSUME SessionInv, NEW c \in Sessions, FinishLoopback(c)
  PROVE  SessionInv'
<1>1. /\ ses[c].phase = "uploading" /\ ses[c].link = "loopback" /\ ses[c].link # "tcp"
      /\ AllPushed(c)
  BY DEF FinishLoopback
<1>2. UNCHANGED <<client, answer, stage>> /\ UNCHANGED wire /\ UNCHANGED faults /\ UNCHANGED spool
      /\ UNCHANGED req /\ UNCHANGED <<client, acceptVars, stage, req>>
      /\ UNCHANGED <<acceptVars, stage, req, client, spool>> /\ UNCHANGED answer
  BY DEF FinishLoopback, netVars
<1>3. CASE Dropping(c, "other") /\ UNCHANGED log
  <2>1. ses[c].phase \in Live /\ Babbles(c) /\ UNCHANGED <<acceptVars, stage, req, log, client, spool>>
    BY <1>1, <1>2, <1>3 DEF Live, Babbles
  <2>. QED
    BY <1>2, <1>3, <2>1, PlainDrop
<1>4. CASE /\ Complete(req[c])
           /\ ses' = [ses EXCEPT ![c].phase = "waiting", ![c].seq = @ + 1]
           /\ log' = [log EXCEPT ![c].msm = TRUE]
  <2> DEFINE s == Further(ses[c], "waiting")
  <2>1. /\ ses[c] \in SessionType /\ ~Finished(ses[c])
        /\ RequestOK(ses[c], client[c], stage[c], wire[c], req[c], log[c])
        /\ wire = [d \in Sessions |-> wire[d]]
    BY <1>1, Quiet DEF Early
  <2>2. ses[c].seq = Len(ses[c].hashed) + 1 /\ ses[c].hashed \in Seq(Chunks)
    BY <1>1, <2>1 DEF RequestOK, SessionType
  <2>3. "waiting" \in Phases
    BY DEF Phases
  <2>4. /\ s \in SessionType
        /\ s.phase = "waiting" /\ s.seq = Len(s.hashed) + 2 /\ SameRows(ses[c], s)
        /\ s.link = ses[c].link /\ s.token = ses[c].token /\ s.finalized = ses[c].finalized
        /\ s.err = ses[c].err /\ s.hashed = ses[c].hashed /\ s.scalars = ses[c].scalars
    BY <2>1, <2>2, <2>3, Onward
  <2>5. ses' = [ses EXCEPT ![c] = s]
    BY <1>4 DEF SessionInv, SessionTypeOK, Further
  <2> HIDE DEF s
  <2>6. Finished(s)
    BY <2>4 DEF Finished, Early
  <2>7. client[c] = "none" /\ stage[c] = "none"
    BY <1>1, NoConnection
  <2>8. /\ log' = [d \in Sessions |-> log'[d]]
        /\ \A d \in Sessions \ {c} : log'[d] = log[d]
        /\ log'[c].msm /\ log'[c] \in LogType
    <3>1. log = [d \in Sessions |-> log[d]]
      BY DEF SessionInv, ServerInv, Shapes
    <3> DEFINE l == [log[c] EXCEPT !.msm = TRUE]
    <3>2. log' = [log EXCEPT ![c] = l]
      BY <1>4, <3>1
    <3>3. l.msm /\ l \in LogType
      <4>1. log[c] \in LogType
        BY <1>1, Quiet DEF OutputsOK, Early
      <4>. QED
        BY <4>1 DEF LogType
    <3> HIDE DEF l
    <3>. QED
      BY <3>1, <3>2, <3>3
  <2>9. ServerInv'
    <3> USE <1>2 DEF acceptVars
    <3>1. Shapes'
      BY <2>8 DEF SessionInv, ServerInv, Shapes
    <3>2. QueueInv'
      BY DEF SessionInv, ServerInv, QueueInv
    <3>3. RequestsInv'
      BY DEF SessionInv, ServerInv, RequestsInv
    <3>4. MsmInv'
      BY <1>4, <2>7, <2>8 DEF SessionInv, ServerInv, MsmInv, Complete
    <3>5. OneConnectionAtATime'
      BY DEF SessionInv, ServerInv, OneConnectionAtATime
    <3>. QED
      BY <3>1, <3>2, <3>3, <3>4, <3>5 DEF ServerInv
  <2>10. RequestOK(s, client[c], stage[c], wire'[c], req'[c], log'[c])
    <3>1. Sent(ses[c]) \subseteq Sent(s)
      BY <2>1, <2>2, <2>4, SentGrows
    <3>2. wire[c] \in Seq(Sent(s))
      BY <2>1, <3>1, SeqGrows DEF RequestOK
    <3>3. req[c].digest = ses[c].hashed
      BY <1>1, <2>1 DEF RequestOK
    <3>. QED
      BY <1>1, <1>2, <2>4, <2>6, <2>7, <2>8, <3>2, <3>3 DEF RequestOK
  <2>11. PayloadOK(s, spool[c])
    BY <1>1, <2>4, SameColumns
  <2>12. /\ spool[c] \in SpoolType /\ spool' = [spool EXCEPT ![c] = spool[c]]
         /\ ses[c].mode # "malicious" => spool[c].files = {}
         /\ faults' \in Nat /\ faults' >= faults
    BY <1>2, NoFiles
  <2>13. /\ wire' = [d \in Sessions |-> wire'[d]]
         /\ \A d \in Sessions \ {c} :
              wire'[d] = wire[d] /\ req'[d] = req[d] /\ log'[d] = log[d]
    BY <1>2, <2>1, <2>8
  <2>14. s.link = "local" => \A r \in Rows : s.acc[r] = Cells(r, 0, s.col[r])
    BY <1>1, <2>4
  <2>. QED
    BY <1>1, <1>2, <2>4, <2>5, <2>7, <2>8, <2>9, <2>10, <2>11, <2>12, <2>13, <2>14, RequestStep
       DEF SameRows
<1>. QED
  BY <1>3, <1>4 DEF FinishLoopback

-------------------------------------------------------------------------------
(* Chunks *)

\* A chunk that is pushed begins where its row ends and is not empty.
LEMMA ChunkIs ==
  ASSUME SessionInv, NEW c \in Sessions, NEW r \in Rows, NEW n \in ChunkLens, PushesRow(c, r)
  PROVE  LET p == TransportChunk(c, r, n)
             from == ses[c].col[r]
             to == ChunkEnd(c, r, n)
         IN  /\ from \in 0..M /\ from < M /\ from \in Nat
             /\ to \in (from + 1)..M /\ to \in Nat /\ to \in 0..M
             /\ p \in Chunks /\ p.row = r /\ p.from = from /\ p.to = to
             /\ ChunkOf(c, r, n) = Cells(r, from, to)
             /\ ChunkOf(c, r, n) \in Seq(Scalars)
             /\ Len(ChunkOf(c, r, n)) = to - from
<1> DEFINE from == ses[c].col[r]
           to == ChunkEnd(c, r, n)
<1>1. ses[c].col \in [Rows -> 0..M] /\ ses[c].chunks \in Nat
  BY DEF SessionInv, SessionTypeOK, SessionType
<1>2. from \in 0..M /\ from < M /\ from \in Nat
  BY <1>1, ServerConstantsOK DEF PushesRow
<1>3. n \in Nat /\ n >= 1
  BY SessionConstantsOK
<1>4. to \in (from + 1)..M /\ to \in Nat /\ to \in 0..M
  BY <1>2, <1>3, ServerConstantsOK DEF ChunkEnd
<1>5. ChunkOf(c, r, n) = Cells(r, from, to)
  BY DEF ChunkOf
<1>6. r \in Nat /\ Expected \in Nat
  BY SessionConstantsOK DEF Rows
<1>7. LET p == TransportChunk(c, r, n)
      IN  p \in Chunks /\ p.row = r /\ p.from = from /\ p.to = to
  BY <1>1, <1>2, <1>4, <1>6 DEF TransportChunk, Chunks
<1> HIDE DEF from, to
<1>8. Cells(r, from, to) \in Seq(RowCells(r)) /\ Len(Cells(r, from, to)) = to - from
  BY <1>2, <1>4, CellsAre
<1>9. RowCells(r) \subseteq Scalars
  BY DEF RowCells, Scalars
<1>10. Cells(r, from, to) \in Seq(Scalars)
  BY <1>8, <1>9, SeqGrows
<1>. QED
  BY <1>2, <1>4, <1>5, <1>7, <1>8, <1>10 DEF from, to

\* What the session knows after a chunk.
LEMMA WithPushedIs ==
  ASSUME SessionInv, NEW c \in Sessions, NEW r \in Rows, NEW n \in ChunkLens, PushesRow(c, r)
  PROVE  LET s == WithPushed(c, r, n)
             p == TransportChunk(c, r, n)
         IN  /\ s \in SessionType
             /\ s.phase = "uploading" /\ s.mode = ses[c].mode /\ s.link = ses[c].link
             /\ s.token = ses[c].token /\ s.finalized = ses[c].finalized /\ s.err = ses[c].err
             /\ s.col = [ses[c].col EXCEPT ![r] = p.to]
             /\ s.link = "local" => /\ s.acc = [ses[c].acc EXCEPT ![r] = @ \o ChunkOf(c, r, n)]
                                    /\ s.hashed = ses[c].hashed /\ s.seq = ses[c].seq
                                    /\ s.scalars = ses[c].scalars
             /\ s.link # "local" => /\ s.hashed = Append(ses[c].hashed, p)
                                    /\ s.seq = ses[c].seq + 1
<1> DEFINE s0 == ses[c]
           p == TransportChunk(c, r, n)
           cells == ChunkOf(c, r, n)
           to == p.to
           t == [s0 EXCEPT !.col[r] = to, !.chunks = @ + 1]
           u == [t EXCEPT !.acc[r] = @ \o cells]
           v == [t EXCEPT !.seq = @ + 1, !.scalars = @ + (to - p.from), !.hashed = Append(@, p)]
<1>1. s0 \in SessionType /\ s0.phase = "uploading"
  BY DEF SessionInv, SessionTypeOK, PushesRow
<1>2. /\ p \in Chunks /\ to \in 0..M /\ to - p.from \in Nat /\ cells \in Points
  BY ChunkIs DEF Points
<1>3. WithPushed(c, r, n) = IF s0.link = "local" THEN u ELSE v
  BY <1>1 DEF WithPushed, SessionType
<1> HIDE DEF s0, p, cells, to, t, u, v
<1>4. /\ t \in SessionType /\ t.phase = "uploading" /\ t.mode = s0.mode /\ t.link = s0.link
      /\ t.token = s0.token /\ t.finalized = s0.finalized /\ t.err = s0.err
      /\ t.col = [s0.col EXCEPT ![r] = to] /\ t.acc = s0.acc
      /\ t.hashed = s0.hashed /\ t.seq = s0.seq /\ t.scalars = s0.scalars
  <2> DEFINE k == [s0.col EXCEPT ![r] = to]
             m == s0.chunks + 1
  <2>1. k \in [Rows -> 0..M] /\ m \in Nat
    BY <1>1, <1>2 DEF SessionType
  <2>2. t = [s0 EXCEPT !.col = k, !.chunks = m]
    BY DEF t
  <2> HIDE DEF k, m
  <2>3. /\ t \in SessionType /\ t.phase = s0.phase /\ t.mode = s0.mode /\ t.link = s0.link
        /\ t.token = s0.token /\ t.finalized = s0.finalized /\ t.err = s0.err
        /\ t.col = k /\ t.acc = s0.acc
        /\ t.hashed = s0.hashed /\ t.seq = s0.seq /\ t.scalars = s0.scalars
    BY <1>1, <2>1, <2>2 DEF SessionType
  <2>. QED
    BY <1>1, <2>3 DEF k
<1>5. /\ u \in SessionType /\ u.phase = "uploading" /\ u.mode = s0.mode /\ u.link = s0.link
      /\ u.token = s0.token /\ u.finalized = s0.finalized /\ u.err = s0.err
      /\ u.col = t.col /\ u.acc = [s0.acc EXCEPT ![r] = @ \o cells]
      /\ u.hashed = s0.hashed /\ u.seq = s0.seq /\ u.scalars = s0.scalars
  <2> DEFINE a == [t.acc EXCEPT ![r] = @ \o cells]
  <2>1. a \in [Rows -> Points]
    <3>1. t.acc \in [Rows -> Points]
      BY <1>4 DEF SessionType
    <3>2. t.acc[r] \o cells \in Points
      BY <1>2, <3>1 DEF Points
    <3>. QED
      BY <3>1, <3>2
  <2>2. u = [t EXCEPT !.acc = a]
    BY DEF u
  <2> HIDE DEF a
  <2>3. /\ u \in SessionType /\ u.phase = t.phase /\ u.mode = t.mode /\ u.link = t.link
        /\ u.token = t.token /\ u.finalized = t.finalized /\ u.err = t.err
        /\ u.col = t.col /\ u.acc = a
        /\ u.hashed = t.hashed /\ u.seq = t.seq /\ u.scalars = t.scalars
    BY <1>4, <2>1, <2>2 DEF SessionType
  <2>. QED
    BY <1>4, <2>3 DEF a
<1>6. /\ v \in SessionType /\ v.phase = "uploading" /\ v.mode = s0.mode /\ v.link = s0.link
      /\ v.token = s0.token /\ v.finalized = s0.finalized /\ v.err = s0.err
      /\ v.col = t.col /\ v.hashed = Append(s0.hashed, p) /\ v.seq = s0.seq + 1
  <2> DEFINE q == s0.seq + 1
             k == s0.scalars + (to - p.from)
             h == Append(s0.hashed, p)
  <2>1. q \in Nat /\ k \in Nat /\ h \in Seq(Chunks)
    <3>1. s0.seq \in Nat /\ s0.scalars \in Nat /\ s0.hashed \in Seq(Chunks)
      BY <1>1 DEF SessionType
    <3>. QED
      BY <1>2, <3>1
  <2>2. v = [t EXCEPT !.seq = q, !.scalars = k, !.hashed = h]
    BY <1>4 DEF v
  <2> HIDE DEF q, k, h
  <2>3. /\ v \in SessionType /\ v.phase = t.phase /\ v.mode = t.mode /\ v.link = t.link
        /\ v.token = t.token /\ v.finalized = t.finalized /\ v.err = t.err
        /\ v.col = t.col /\ v.hashed = h /\ v.seq = q
    BY <1>4, <2>1, <2>2 DEF SessionType
  <2>. QED
    BY <1>4, <2>3 DEF q, h
<1>. QED
  BY <1>3, <1>4, <1>5, <1>6 DEF s0, p, cells, to

\* The columns of a row that begins at b of which the first n scalars of all
\* rows have been pushed.
ColumnsOf(n, b) == IF n <= b THEN 0 ELSE IF n >= b + M THEN M ELSE n - b

\* Pushed, row by row.
LEMMA PushedIs ==
  ASSUME NEW s, NEW n
  PROVE  Pushed(s, n) <=> \A r \in Rows : s.col[r] = ColumnsOf(n, r * M)
<1>1. \A r \in Rows : (r + 1) * M = r * M + M
  BY NextRow DEF Rows
<1>. QED
  BY <1>1 DEF Pushed, ColumnsOf

\* The number of scalars pushed is that of the complete rows and of the row
\* that is being pushed.
LEMMA PushedUpTo ==
  ASSUME NEW s, NEW r \in Rows, NEW n \in Nat, Pushed(s, n),
         s.col \in [Rows -> 0..M], s.col[r] < M, \A q \in Rows : q < r => s.col[q] = M
  PROVE  n = r * M + s.col[r]
<1> DEFINE b == r * M
           x == s.col[r]
<1>1. r \in Nat /\ b \in Nat /\ M \in Nat /\ M > 0 /\ x \in Nat /\ x < M
  BY NextRow, ServerConstantsOK DEF Rows
<1>2. x = ColumnsOf(n, b)
  BY PushedIs
<1>3. CASE r = 0
  <2>1. b = 0
    BY <1>1, <1>3, ServerConstantsOK
  <2> HIDE DEF b, x
  <2>2. n = b + x
    BY <1>1, <1>2, <2>1 DEF ColumnsOf
  <2>. QED
    BY <2>2 DEF b, x
<1>4. CASE r # 0
  <2> DEFINE d == (r - 1) * M
  <2>1. r - 1 \in Rows /\ r - 1 < r /\ r - 1 \in Nat /\ r - 1 + 1 = r
    BY <1>1, <1>4, ServerConstantsOK DEF Rows
  <2>2. d \in Nat /\ b = d + M
    BY <2>1, NextRow
  <2>3. s.col[r - 1] = M /\ s.col[r - 1] = ColumnsOf(n, d)
    BY <2>1, PushedIs
  <2> HIDE DEF b, d, x
  <2>4. n = b + x
    BY <1>1, <1>2, <2>2, <2>3 DEF ColumnsOf
  <2>. QED
    BY <2>4 DEF b, x
<1>. QED
  BY <1>3, <1>4

\* A chunk of the current row moves the number of scalars pushed on.
LEMMA PushedFurther ==
  ASSUME NEW s, NEW t, NEW r \in Rows, NEW to \in 0..M,
         s.col \in [Rows -> 0..M], s.col[r] < to,
         Pushed(s, r * M + s.col[r]), t.col = [s.col EXCEPT ![r] = to]
  PROVE  Pushed(t, r * M + to) /\ r * M + to \in 0..(Q * M)
<1> DEFINE b == r * M
           x == s.col[r]
           e == Q * M
<1>1. /\ r \in Nat /\ b \in Nat /\ M \in Nat /\ M > 0 /\ to \in Nat /\ to <= M
      /\ x \in Nat /\ x < to /\ e \in Nat
  <2>1. r \in Nat /\ b \in Nat /\ Q \in Nat
    BY NextRow, ServerConstantsOK DEF Rows
  <2>2. e \in Nat
    BY <2>1, NextRow
  <2>3. M \in Nat /\ M > 0
    BY ServerConstantsOK
  <2>4. x \in 0..M
    OBVIOUS
  <2> HIDE DEF b, e, x
  <2>5. to \in Nat /\ to <= M /\ x \in Nat
    BY <2>3, <2>4
  <2>. QED
    BY <2>1, <2>2, <2>3, <2>5 DEF x
<1>2. b + M <= e
  <2>1. r < Q /\ Q \in Nat
    BY ServerConstantsOK DEF Rows
  <2>. QED
    BY <1>1, <2>1, RowsApart
<1>3. ASSUME NEW q \in Rows PROVE t.col[q] = ColumnsOf(b + to, q * M)
  <2> DEFINE d == q * M
             y == s.col[q]
  <2>1. q \in Nat /\ d \in Nat
    BY NextRow DEF Rows
  <2>2. y = ColumnsOf(b + x, d)
    BY PushedIs
  <2>3. q < r => d + M <= b
    BY <1>1, <2>1, RowsApart
  <2>4. r < q => b + M <= d
    BY <1>1, <2>1, RowsApart
  <2>5. t.col[q] = IF q = r THEN to ELSE y
    OBVIOUS
  <2>6. q = r => d = b
    OBVIOUS
  <2> HIDE DEF b, d, x, y
  <2>7. (IF q = r THEN to ELSE y) = ColumnsOf(b + to, d)
    <3>1. CASE q = r
      BY <1>1, <2>6, <3>1 DEF ColumnsOf
    <3>2. CASE q < r
      BY <1>1, <2>1, <2>2, <2>3, <3>2 DEF ColumnsOf
    <3>3. CASE r < q
      BY <1>1, <2>1, <2>2, <2>4, <3>3 DEF ColumnsOf
    <3>. QED
      BY <1>1, <2>1, <3>1, <3>2, <3>3
  <2>. QED
    BY <2>5, <2>7 DEF d
<1>4. b + to \in 0..e
  <2> HIDE DEF b, e
  <2>. QED
    BY <1>1, <1>2
<1>. QED
  BY <1>3, <1>4, PushedIs

\* A payload in row order stays so with the next part of the current row.
LEMMA RowOrderGrows ==
  ASSUME NEW r \in Rows, NEW from \in Nat, NEW to \in Nat, from <= to, to <= M,
         NEW payload \in Seq(Scalars), Len(payload) = r * M + from,
         InRowOrder(payload, r * M + from)
  PROVE  InRowOrder(payload \o Cells(r, from, to), r * M + to)
<1> DEFINE cells == Cells(r, from, to)
           n == r * M + from
<1>1. r \in Nat /\ r * M \in Nat /\ n \in Nat /\ M \in Nat
  BY NextRow, ServerConstantsOK DEF Rows
<1>2. /\ cells \in Seq(RowCells(r)) /\ Len(cells) = to - from
      /\ \A i \in 1..(to - from) : cells[i] = Cell(r, from + i - 1)
  BY CellsAre
<1>3. cells \in Seq(Scalars)
  <2>1. RowCells(r) \subseteq Scalars
    BY DEF RowCells, Scalars
  <2>. QED
    BY <1>2, <2>1, SeqGrows
<1> SUFFICES ASSUME NEW q \in Rows, NEW i \in 0..(M - 1), q * M + i < r * M + to
             PROVE  (payload \o cells)[q * M + i + 1] = <<q, i>>
  BY DEF InRowOrder
<1>4. q \in Nat /\ q * M \in Nat /\ i \in Nat /\ i < M
  BY NextRow, ServerConstantsOK DEF Rows
<1> HIDE DEF cells
<1>5. CASE q * M + i < n
  <2>1. payload[q * M + i + 1] = <<q, i>>
    BY <1>5 DEF InRowOrder
  <2>2. q * M + i + 1 \in 1..Len(payload)
    BY <1>1, <1>4, <1>5
  <2>. QED
    BY <1>3, <2>1, <2>2
<1>6. CASE q * M + i >= n
  <2>1. q = r
    <3>1. ~(q < r)
      <4>1. q < r => q * M + M <= r * M
        BY <1>1, <1>4, RowsApart
      <4>. QED
        BY <1>1, <1>4, <1>6, <4>1
    <3>2. ~(r < q)
      <4>1. r < q => r * M + M <= q * M
        BY <1>1, <1>4, RowsApart
      <4>. QED
        BY <1>1, <1>4, <4>1
    <3>. QED
      BY <1>1, <1>4, <3>1, <3>2
  <2> DEFINE j == i - from + 1
  <2>2. j \in 1..(to - from) /\ j \in 1..Len(cells) /\ q * M + i + 1 = Len(payload) + j
    BY <1>1, <1>2, <1>4, <1>6, <2>1
  <2>3. cells[j] = Cell(r, i)
    <3>1. from + j - 1 = i
      BY <1>4
    <3>. QED
      BY <1>2, <2>2, <3>1
  <2>4. (payload \o cells)[Len(payload) + j] = cells[j]
    <3> HIDE DEF j
    <3>. QED
      BY <1>3, <2>2
  <2>. QED
    BY <2>1, <2>2, <2>3, <2>4 DEF Cell
<1> HIDE DEF n
<1>7. q * M + i < n \/ q * M + i >= n
  BY <1>1, <1>4
<1>. QED
  BY <1>5, <1>6, <1>7

\* The spool after an append, whole or torn.
LEMMA AppendLeaves ==
  ASSUME NEW sp \in SpoolType, NEW cells \in Seq(Scalars)
  PROVE  /\ AfterAppend(sp, cells) \in SpoolType
         /\ AfterAppend(sp, cells).files = sp.files
         /\ AfterAppend(sp, cells).payload = sp.payload \o cells
         /\ \A k \in 0..(Len(cells) - 1) :
              /\ AfterTornAppend(sp, cells, k) \in SpoolType
              /\ \E extra \in Seq(Scalars) :
                   AfterTornAppend(sp, cells, k).payload = sp.payload \o extra
<1> DEFINE p == sp.payload \o cells
           w == sp.written + Len(cells)
<1>1. p \in Seq(Scalars) /\ w \in Nat
  BY DEF SpoolType
<1>2. AfterAppend(sp, cells) = [sp EXCEPT !.payload = p, !.written = w]
  BY DEF AfterAppend
<1> HIDE DEF p, w
<1>3. /\ AfterAppend(sp, cells) \in SpoolType
      /\ AfterAppend(sp, cells).files = sp.files
      /\ AfterAppend(sp, cells).payload = p
  BY <1>1, <1>2 DEF SpoolType
<1>4. ASSUME NEW k \in 0..(Len(cells) - 1)
      PROVE  /\ AfterTornAppend(sp, cells, k) \in SpoolType
             /\ \E extra \in Seq(Scalars) :
                  AfterTornAppend(sp, cells, k).payload = sp.payload \o extra
  <2> DEFINE extra == SubSeq(cells, 1, k)
             q == sp.payload \o extra
  <2>1. extra \in Seq(Scalars)
    OBVIOUS
  <2>2. AfterTornAppend(sp, cells, k) = [sp EXCEPT !.payload = q]
    BY DEF AfterTornAppend
  <2>3. q \in Seq(Scalars)
    <3> HIDE DEF extra
    <3>. QED
      BY <2>1 DEF SpoolType
  <2> HIDE DEF q
  <2>4. AfterTornAppend(sp, cells, k) \in SpoolType /\ AfterTornAppend(sp, cells, k).payload = q
    BY <2>2, <2>3 DEF SpoolType
  <2> HIDE DEF extra
  <2>. QED
    BY <2>1, <2>4 DEF q
<1>. QED
  BY <1>3, <1>4 DEF p

\* The payload of a pushed chunk is in row order after those before it.
LEMMA SpoolPushed ==
  ASSUME SessionInv, NEW c \in Sessions, NEW r \in Rows, NEW n \in ChunkLens, PushesRow(c, r),
         NEW t, NEW sp, t.mode = ses[c].mode, t.col = [ses[c].col EXCEPT ![r] = ChunkEnd(c, r, n)],
         t.phase = "uploading",
         sp = IF t.mode = "malicious" THEN AfterAppend(spool[c], ChunkOf(c, r, n)) ELSE spool[c]
  PROVE  PayloadOK(t, sp)
<1> DEFINE from == ses[c].col[r]
           to == ChunkEnd(c, r, n)
           cells == ChunkOf(c, r, n)
           p == spool[c].payload
<1>1. /\ from \in 0..M /\ from < M /\ from \in Nat
      /\ to \in (from + 1)..M /\ to \in Nat /\ to \in 0..M
      /\ cells = Cells(r, from, to)
      /\ cells \in Seq(Scalars)
      /\ Len(cells) = to - from
  BY ChunkIs
<1>2. spool[c] \in SpoolType /\ p \in Seq(Scalars)
  BY NoFiles DEF SpoolType
<1>3. ses[c].col \in [Rows -> 0..M]
  BY DEF SessionInv, SessionTypeOK, SessionType
<1> SUFFICES ASSUME RowMajor, t.mode = "malicious"
             PROVE  \E k \in 0..(Q * M) : /\ Pushed(t, k)
                                          /\ Len(sp.payload) >= k
                                          /\ Len(sp.payload) = k => InRowOrder(sp.payload, k)
  BY DEF PayloadOK
<1>4. sp.payload = p \o cells
  BY <1>1, <1>2, AppendLeaves
<1>5. ses[c].phase = "uploading" /\ \A q \in Rows : q < r => ses[c].col[q] = M
  BY DEF PushesRow
<1>6. PICK k \in 0..(Q * M) : /\ Pushed(ses[c], k)
                              /\ Len(p) >= k
                              /\ Len(p) = k => InRowOrder(p, k)
  BY <1>5 DEF SessionInv, PayloadInv, PayloadOK
<1>7. k \in Nat
  OBVIOUS
<1>8. k = r * M + from
  BY <1>1, <1>3, <1>5, <1>6, <1>7, PushedUpTo
<1>9. Pushed(t, r * M + to) /\ r * M + to \in 0..(Q * M)
  <2>1. from < to /\ Pushed(ses[c], r * M + from)
    BY <1>1, <1>6, <1>8
  <2>. QED
    BY <1>1, <1>3, <2>1, PushedFurther
<1>10. r * M \in Nat
  BY NextRow DEF Rows
<1> DEFINE b == r * M
<1>11. Len(p \o cells) = Len(p) + (to - from) /\ Len(p) \in Nat
  <2> HIDE DEF p, cells, from, to
  <2>. QED
    BY <1>1, <1>2
<1>12. Len(p \o cells) >= b + to /\ (Len(p \o cells) = b + to => Len(p) = b + from)
  <2>1. Len(p) >= b + from /\ b \in Nat
    BY <1>6, <1>8, <1>10
  <2> HIDE DEF p, cells, from, to, b
  <2>. QED
    BY <1>1, <1>11, <2>1
<1>13. Len(p) = b + from => InRowOrder(p \o cells, b + to)
  <2>1. from <= to /\ to <= M
    <3> HIDE DEF from, to
    <3>. QED
      BY <1>1, ServerConstantsOK
  <2>2. Len(p) = b + from => InRowOrder(p, b + from)
    BY <1>6, <1>8
  <2>. QED
    BY <1>1, <1>2, <2>1, <2>2, RowOrderGrows
<1> HIDE DEF p, cells, from, to, b
<1>14. Pushed(t, b + to) /\ b + to \in 0..(Q * M)
  BY <1>9 DEF b, to
<1>. QED
  BY <1>4, <1>12, <1>13, <1>14

\* An append without a push makes the payload too long, or leaves it.
LEMMA SpoolRepeats ==
  ASSUME SessionInv, NEW c \in Sessions, ses[c].phase = "uploading",
         NEW t, SameRows(ses[c], t), t.phase \in {"uploading", "dropping"},
         NEW sp, NEW extra \in Seq(Scalars), sp.payload = spool[c].payload \o extra
  PROVE  PayloadOK(t, sp)
<1> DEFINE p == spool[c].payload
<1>1. p \in Seq(Scalars)
  BY NoFiles DEF SpoolType
<1> SUFFICES ASSUME RowMajor, t.mode = "malicious"
             PROVE  \E k \in 0..(Q * M) : /\ Pushed(t, k)
                                          /\ Len(sp.payload) >= k
                                          /\ Len(sp.payload) = k => InRowOrder(sp.payload, k)
  BY DEF PayloadOK
<1>2. PICK k \in 0..(Q * M) : /\ Pushed(ses[c], k)
                              /\ Len(p) >= k
                              /\ Len(p) = k => InRowOrder(p, k)
  BY DEF SessionInv, PayloadInv, PayloadOK, SameRows
<1>3. Pushed(t, k)
  BY <1>2 DEF Pushed, SameRows
<1>4. k \in Nat
  OBVIOUS
<1>5. sp.payload = p \o extra
  OBVIOUS
<1> HIDE DEF p
<1>6. Len(p \o extra) = Len(p) + Len(extra) /\ Len(p) \in Nat /\ Len(extra) \in Nat
  BY <1>1
<1>7. Len(p \o extra) >= k
  BY <1>2, <1>4, <1>6
<1>8. Len(p \o extra) = k => InRowOrder(p \o extra, k)
  <2> SUFFICES ASSUME Len(p \o extra) = k PROVE InRowOrder(p \o extra, k)
    OBVIOUS
  <2>1. Len(extra) = 0 /\ Len(p) = k
    BY <1>2, <1>4, <1>6
  <2>2. p \o extra = p
    BY <1>1, <2>1
  <2>. QED
    BY <1>2, <2>1, <2>2
<1>. QED
  BY <1>3, <1>5, <1>7, <1>8

\* The session that ends with an error, whatever it has pushed.
Dropped(s) == [s EXCEPT !.phase = "dropping", !.err = "other"]

\* What it keeps.
LEMMA DroppedIs ==
  ASSUME NEW s \in SessionType
  PROVE  /\ Dropped(s) \in SessionType
         /\ Dropped(s).phase = "dropping" /\ Dropped(s).err = "other"
         /\ Settles(s, Dropped(s))
         /\ Dropped(s).token = s.token /\ Dropped(s).finalized = s.finalized
<1>1. "dropping" \in Phases
  BY DEF Phases
<1>. QED
  BY <1>1 DEF Dropped, SessionType, Settles, SameRequest, SameRows

\* The server's side of a chunk that is pushed: a frame, or the loopback's
\* request with the chunk.
LEMMA PushRequest ==
  ASSUME SessionInv, NEW c \in Sessions, NEW r \in Rows, NEW n \in ChunkLens, Push(c, r, n),
         NEW u, SameRequest(WithPushed(c, r, n), u), u.phase \in {"uploading", "dropping"}
  PROVE  /\ ServerInv'
         /\ wire' = [d \in Sessions |-> wire'[d]]
         /\ \A d \in Sessions \ {c} : wire'[d] = wire[d] /\ req'[d] = req[d]
         /\ RequestOK(u, client[c], stage[c], wire'[c], req'[c], log[c])
<1> DEFINE s == WithPushed(c, r, n)
           p == TransportChunk(c, r, n)
           h == ses[c].hashed
<1>1. PushesRow(c, r) /\ ses[c].phase = "uploading"
  BY DEF Push, PushesRow
<1>2. /\ ses[c] \in SessionType /\ ~log[c].msm /\ ~Finished(ses[c])
      /\ RequestOK(ses[c], client[c], stage[c], wire[c], req[c], log[c])
      /\ wire = [d \in Sessions |-> wire[d]]
  BY <1>1, Quiet DEF Early
<1>3. h \in Seq(Chunks) /\ p \in Chunks
  BY <1>1, <1>2, ChunkIs DEF SessionType
<1>4. /\ s.link = ses[c].link
      /\ s.link = "local" => s.hashed = h /\ s.seq = ses[c].seq
      /\ s.link # "local" => s.hashed = Append(h, p) /\ s.seq = ses[c].seq + 1
  BY <1>1, WithPushedIs
<1>5. u.link = ses[c].link /\ u.hashed = s.hashed /\ u.seq = s.seq
  BY <1>4 DEF SameRequest
<1>6. UNCHANGED <<client, acceptVars, stage, log>> /\ LoopedBack(c, p) /\ Loopable(c, p)
      /\ UNCHANGED <<acceptVars, stage, log>> /\ UNCHANGED client
  BY DEF Push
<1>7. IF s.link = "tcp" THEN Write(c, ChunkFrame(ses[c].seq, s.hashed[Len(s.hashed)]))
                        ELSE UNCHANGED wire
  BY DEF Push
<1> HIDE DEF s, p
<1>8. u.hashed \in Seq(Chunks) /\ Len(h) <= Len(u.hashed) /\ \A i \in 1..Len(h) : u.hashed[i] = h[i]
  BY <1>3, <1>4, <1>5
<1>9. Sent(ses[c]) \subseteq Sent(u)
  BY <1>2, <1>3, <1>8, SentGrows
<1>10. wire[c] \in Seq(Sent(u))
  BY <1>2, <1>9, SeqGrows DEF RequestOK
<1>11. stage[c] = "chunks" => Taken(u, req[c])
  <2> SUFFICES ASSUME stage[c] = "chunks" PROVE Taken(u, req[c])
    OBVIOUS
  <2>1. Taken(ses[c], req[c])
    BY <1>2 DEF RequestOK
  <2>2. Len(req[c].digest) \in Nat /\ Len(h) \in Nat /\ Len(u.hashed) \in Nat
    BY <1>3, <1>8, <2>1 DEF Taken
  <2>. QED
    BY <1>8, <2>1, <2>2 DEF Taken
<1>12. CASE s.link = "tcp"
  <2>1. req' = req
    BY <1>4, <1>6, <1>12 DEF LoopedBack
  <2>2. ServerInv'
    BY <1>6, <2>1, ClientSide DEF SessionInv
  <2>3. ses[c].seq = Len(h) + 1
    BY <1>1, <1>2, <1>4, <1>12 DEF RequestOK
  <2> DEFINE f == ChunkFrame(ses[c].seq, s.hashed[Len(s.hashed)])
  <2>4. f \in Sent(u)
    <3>1. u.hashed = Append(h, p)
      BY <1>4, <1>5, <1>12
    <3>2. Len(u.hashed) = Len(h) + 1 /\ u.hashed[Len(h) + 1] = p /\ Len(h) + 1 \in 1..Len(u.hashed)
      BY <1>3, <3>1
    <3>3. f = ChunkFrame(Len(h) + 1, u.hashed[Len(h) + 1])
      BY <1>5, <2>3, <3>2
    <3>. QED
      BY <3>2, <3>3 DEF Sent
  <2>5. Write(c, f)
    BY <1>7, <1>12
  <2> HIDE DEF f
  <2>6. /\ wire' = [d \in Sessions |-> wire'[d]]
        /\ \A d \in Sessions \ {c} : wire'[d] = wire[d]
        /\ wire'[c] \in Seq(Sent(u))
    BY <1>2, <1>10, <2>4, <2>5, WrittenTo
  <2>7. u.seq = Len(u.hashed) + 1
    BY <1>3, <1>4, <1>5, <1>12, <2>3
  <2>. QED
    BY <1>2, <1>4, <1>5, <1>11, <1>12, <2>1, <2>2, <2>6, <2>7 DEF RequestOK
<1>13. CASE s.link = "loopback"
  <2> DEFINE k == WithChunk(req[c], p)
  <2>1. req' = [req EXCEPT ![c] = k] /\ ValidChunk(req[c], p)
    BY <1>4, <1>6, <1>13 DEF LoopedBack, Loopable
  <2>2. Prefixes(k)
    BY <2>1, WithChunkPrefixes DEF SessionInv, ServerInv, RequestsInv
  <2>3. k.digest = Append(req[c].digest, p)
    BY DEF WithChunk
  <2> HIDE DEF k
  <2>4. ServerInv' /\ req'[c] = k /\ \A d \in Sessions \ {c} : req'[d] = req[d]
    BY <1>2, <1>6, <2>1, <2>2, LoopbackRequest DEF SessionInv
  <2>5. client[c] = "none" /\ stage[c] = "none"
    BY <1>4, <1>13, NoConnection
  <2>6. req[c].digest = h /\ ses[c].seq = Len(h) + 1
    BY <1>1, <1>2, <1>4, <1>13 DEF RequestOK
  <2>7. k.digest = u.hashed
    BY <1>4, <1>5, <1>13, <2>3, <2>6
  <2>8. u.seq = Len(u.hashed) + 1
    BY <1>3, <1>4, <1>5, <1>13, <2>6
  <2>9. wire' = wire
    BY <1>7, <1>13
  <2>. QED
    BY <1>2, <1>4, <1>5, <1>10, <1>13, <2>4, <2>5, <2>7, <2>8, <2>9 DEF RequestOK
<1>14. CASE s.link \notin {"tcp", "loopback"}
  <2>1. req' = req /\ wire' = wire
    BY <1>4, <1>6, <1>7, <1>14 DEF LoopedBack
  <2>2. ServerInv'
    BY <1>6, <2>1, ClientSide DEF SessionInv
  <2>. QED
    BY <1>2, <1>4, <1>5, <1>10, <1>11, <1>14, <2>1, <2>2 DEF RequestOK
<1>. QED
  BY <1>12, <1>13, <1>14

\* The local provider's sums are those of the columns pushed.
LEMMA PushSums ==
  ASSUME SessionInv, NEW c \in Sessions, NEW r \in Rows, NEW n \in ChunkLens, PushesRow(c, r),
         WithPushed(c, r, n).link = "local"
  PROVE  \A q \in Rows : WithPushed(c, r, n).acc[q] = Cells(q, 0, WithPushed(c, r, n).col[q])
<1> DEFINE s == WithPushed(c, r, n)
           from == ses[c].col[r]
           to == ChunkEnd(c, r, n)
<1>1. /\ s.link = ses[c].link /\ s.col = [ses[c].col EXCEPT ![r] = to]
      /\ s.acc = [ses[c].acc EXCEPT ![r] = @ \o Cells(r, from, to)]
  <2>1. /\ s.link = ses[c].link /\ s.col = [ses[c].col EXCEPT ![r] = TransportChunk(c, r, n).to]
        /\ s.acc = [ses[c].acc EXCEPT ![r] = @ \o ChunkOf(c, r, n)]
    BY WithPushedIs
  <2>2. TransportChunk(c, r, n).to = to /\ ChunkOf(c, r, n) = Cells(r, from, to)
    BY ChunkIs
  <2>. QED
    BY <2>1, <2>2
<1>2. from \in Nat /\ to \in Nat /\ from <= to
  <2>1. from \in Nat /\ to \in Nat /\ to \in (from + 1)..M
    BY ChunkIs
  <2> HIDE DEF from, to
  <2>. QED
    BY <2>1
<1>3. ses[c].phase = "uploading"
  BY DEF PushesRow
<1>4. \A q \in Rows : ses[c].acc[q] = Cells(q, 0, ses[c].col[q])
  BY <1>1, <1>3, Quiet DEF OutputsOK, Early
<1>5. ses[c].col \in [Rows -> 0..M] /\ ses[c].acc \in [Rows -> Points]
  BY DEF SessionInv, SessionTypeOK, SessionType
<1>6. Cells(r, 0, from) \o Cells(r, from, to) = Cells(r, 0, to)
  BY <1>2, CellsConcatenate
<1> HIDE DEF s, to
<1>. QED
  BY <1>1, <1>4, <1>5, <1>6 DEF s

\* A chunk is pushed, and the session goes on or ends.
LEMMA PushInv ==
  ASSUME SessionInv, NEW c \in Sessions, NEW r \in Rows, NEW n \in ChunkLens, Push(c, r, n)
  PROVE  SessionInv'
<1> DEFINE s == WithPushed(c, r, n)
           cells == ChunkOf(c, r, n)
           sp == IF s.mode = "malicious" THEN AfterAppend(spool[c], cells) ELSE spool[c]
<1>1. PushesRow(c, r) /\ ses[c].phase = "uploading"
  BY DEF Push, PushesRow
<1>2. /\ s \in SessionType
      /\ s.phase = "uploading" /\ s.mode = ses[c].mode /\ s.link = ses[c].link
      /\ s.token = ses[c].token /\ s.finalized = ses[c].finalized /\ s.err = ses[c].err
      /\ s.col = [ses[c].col EXCEPT ![r] = TransportChunk(c, r, n).to]
  BY <1>1, WithPushedIs
<1>3. cells \in Seq(Scalars) /\ TransportChunk(c, r, n).to = ChunkEnd(c, r, n)
  BY <1>1, ChunkIs
<1>4. s.link = "local" => \A q \in Rows : s.acc[q] = Cells(q, 0, s.col[q])
  BY <1>1, PushSums
<1>5. spool[c] \in SpoolType /\ (ses[c].mode # "malicious" => spool[c].files = {})
  BY NoFiles
<1>6. sp \in SpoolType /\ (ses[c].mode # "malicious" => sp.files = {})
  BY <1>2, <1>3, <1>5, AppendLeaves
<1>7. spool' = [spool EXCEPT ![c] = sp]
  <2>1. spool' = Spooled(c, cells)
    BY DEF Push
  <2>2. spool' = spool => spool' = [spool EXCEPT ![c] = spool[c]]
    BY NoFiles
  <2>. QED
    BY <1>2, <2>1, <2>2 DEF Spooled, SessionInv, SessionTypeOK
<1>8. PayloadOK(s, sp)
  BY <1>1, <1>2, <1>3, SpoolPushed
<1>9. \/ ses' = [ses EXCEPT ![c] = s] /\ UNCHANGED faults
      \/ ses' = [ses EXCEPT ![c] = s] /\ Fault
      \/ ses' = [ses EXCEPT ![c] = Dropped(s)] /\ Fault
  BY DEF Push, PushError, Dropped
<1>10. faults' \in Nat /\ faults' >= faults
  BY <1>9, NoFiles DEF Fault
<1>11. UNCHANGED <<client, answer, stage>> /\ UNCHANGED log
  BY DEF Push
<1>12. log[c] \in LogType /\ (stage[c] \in {"multiplying", "body"} => log[c].msm)
  BY <1>1, Quiet DEF OutputsOK, Early
<1>13. ASSUME NEW u \in SessionType, ses' = [ses EXCEPT ![c] = u],
              SameRequest(s, u), u.phase \in {"uploading", "dropping"},
              SameRows(s, u), u.token = s.token, u.finalized = s.finalized,
              u.err \in {s.err, "other"}, PayloadOK(u, sp)
       PROVE  SessionInv'
  <2>1. /\ ServerInv'
        /\ wire' = [d \in Sessions |-> wire'[d]]
        /\ \A d \in Sessions \ {c} : wire'[d] = wire[d] /\ req'[d] = req[d]
        /\ RequestOK(u, client[c], stage[c], wire'[c], req'[c], log[c])
    BY <1>13, PushRequest
  <2>2. u.link = "local" => \A q \in Rows : u.acc[q] = Cells(q, 0, u.col[q])
    BY <1>4, <1>13 DEF SameRequest, SameRows
  <2>3. u.link = ses[c].link /\ u.mode = ses[c].mode
    BY <1>2, <1>13 DEF SameRequest, SameRows
  <2> HIDE DEF s, sp
  <2>4. u.token = ses[c].token /\ u.finalized = ses[c].finalized /\ u.err \in {ses[c].err, "other"}
    BY <1>2, <1>13
  <2>5. /\ ses[c].phase \in {"greeting", "uploading"}
        /\ u.phase \in {"uploading", "waiting", "dropping"}
    BY <1>1, <1>13
  <2>. QED
    BY <1>6, <1>7, <1>10, <1>11, <1>12, <1>13, <2>1, <2>2, <2>3, <2>4, <2>5, RequestStep
<1>14. CASE ses' = [ses EXCEPT ![c] = s]
  <2>1. SameRequest(s, s) /\ SameRows(s, s)
    BY DEF SameRequest, SameRows
  <2> HIDE DEF s, sp
  <2>. QED
    BY <1>2, <1>8, <1>13, <1>14, <2>1
<1>15. CASE ses' = [ses EXCEPT ![c] = Dropped(s)]
  <2>1. /\ Dropped(s) \in SessionType
        /\ Dropped(s).phase = "dropping" /\ Dropped(s).err = "other"
        /\ SameRequest(s, Dropped(s)) /\ SameRows(s, Dropped(s))
        /\ Dropped(s).token = s.token /\ Dropped(s).finalized = s.finalized
    BY <1>2, DroppedIs DEF Settles
  <2>2. PayloadOK(Dropped(s), sp)
    BY <2>1 DEF PayloadOK
  <2> HIDE DEF s, sp
  <2>. QED
    BY <1>13, <1>15, <2>1, <2>2
<1>. QED
  BY <1>9, <1>14, <1>15

\* A failed push has written to the spool, or not.
LEMMA PushFails ==
  ASSUME SessionInv, NEW c \in Sessions, ses[c].phase = "uploading",
         PushError(c, ses[c]),
         NEW sp \in SpoolType, spool' = [spool EXCEPT ![c] = sp],
         ses[c].mode # "malicious" => sp.files = {},
         NEW extra \in Seq(Scalars), sp.payload = spool[c].payload \o extra,
         UNCHANGED <<client, answer, Unserved>>, Babbles(c),
         UNCHANGED faults \/ Fault
  PROVE  SessionInv'
<1>1. /\ ses[c] \in SessionType /\ ~log[c].msm
      /\ RequestOK(ses[c], client[c], stage[c], wire[c], req[c], log[c])
      /\ OutputsOK(ses[c], answer[c], stage[c], log[c])
  BY Quiet DEF Early
<1>2. faults' \in Nat /\ faults' >= faults
  <2>1. faults \in Nat
    BY NoFiles
  <2>. QED
    BY <2>1 DEF Fault
<1>3. /\ UNCHANGED <<acceptVars, stage, req, log, client>> /\ UNCHANGED answer
      /\ UNCHANGED <<client, answer, stage>> /\ UNCHANGED <<acceptVars, stage, req, log>>
      /\ UNCHANGED req /\ UNCHANGED log /\ UNCHANGED client
  BY DEF Unserved
<1>4. CASE ses' = [ses EXCEPT ![c] = Dropped(ses[c])]
  <2> DEFINE s == Dropped(ses[c])
  <2>1. /\ s \in SessionType /\ s.phase = "dropping" /\ s.err = "other"
        /\ Settles(ses[c], s) /\ s.token = ses[c].token /\ s.finalized = ses[c].finalized
    BY <1>1, DroppedIs
  <2>2. ses[c].phase \in Live
    BY DEF Live
  <2> HIDE DEF s
  <2>3. ses' = [ses EXCEPT ![c] = s]
    BY <1>4 DEF s
  <2>. QED
    BY <1>2, <1>3, <2>1, <2>2, <2>3, DropsStep
<1>5. CASE ses' = [ses EXCEPT ![c] = ses[c]]
  <2> DEFINE s == ses[c]
  <2>1. /\ wire' = [d \in Sessions |-> wire'[d]]
        /\ \A d \in Sessions \ {c} : wire'[d] = wire[d]
        /\ RequestOK(s, client[c], stage[c], wire'[c], req[c], log[c])
    BY <1>1, BabbledTo DEF SessionInv
  <2>2. ServerInv'
    BY <1>3, ClientSide DEF SessionInv
  <2>3. SameRows(ses[c], s)
    BY DEF SameRows
  <2>4. PayloadOK(s, sp)
    BY <2>3, SpoolRepeats
  <2>5. /\ stage[c] \in {"multiplying", "body"} => log'[c].msm
        /\ log'[c] \in LogType
        /\ s.link = "local" => \A r \in Rows : s.acc[r] = Cells(r, 0, s.col[r])
    BY <1>1, <1>3 DEF OutputsOK
  <2>6. RequestOK(s, client[c], stage[c], wire'[c], req'[c], log'[c])
    BY <1>3, <2>1
  <2>. QED
    BY <1>1, <1>2, <1>3, <1>5, <2>1, <2>2, <2>4, <2>5, <2>6, RequestStep
<1>. QED
  BY <1>4, <1>5 DEF PushError, Dropped, SessionInv, SessionTypeOK

\* The first marker or the spool fails.
LEMMA PushStopsInv ==
  ASSUME SessionInv, NEW c \in Sessions, NEW r \in Rows, NEW n \in ChunkLens, PushStops(c, r, n)
  PROVE  SessionInv'
<1>1. PushesRow(c, r) /\ ses[c].phase = "uploading" /\ PushError(c, ses[c])
  BY DEF PushStops, PushesRow
<1>2. UNCHANGED <<client, answer, Unserved>> /\ Babbles(c) /\ (UNCHANGED faults \/ Fault)
  BY DEF PushStops, Untouched, netVars, Babbles
<1>3. /\ spool[c] \in SpoolType /\ (ses[c].mode # "malicious" => spool[c].files = {})
      /\ spool' = spool => spool' = [spool EXCEPT ![c] = spool[c]]
  BY NoFiles
<1>4. ChunkOf(c, r, n) \in Seq(Scalars)
  BY <1>1, ChunkIs
<1>5. CASE ses[c].mode = "malicious"
  <2>1. PICK k \in 0..(Len(ChunkOf(c, r, n)) - 1) :
          spool' = [spool EXCEPT ![c] = AfterTornAppend(spool[c], ChunkOf(c, r, n), k)]
    BY <1>5 DEF PushStops
  <2>2. PICK extra \in Seq(Scalars) :
          AfterTornAppend(spool[c], ChunkOf(c, r, n), k).payload = spool[c].payload \o extra
    BY <1>3, <1>4, AppendLeaves
  <2>3. AfterTornAppend(spool[c], ChunkOf(c, r, n), k) \in SpoolType
    BY <1>3, <1>4, AppendLeaves
  <2>. QED
    BY <1>1, <1>2, <1>5, <2>1, <2>2, <2>3, PushFails
<1>6. CASE ses[c].mode # "malicious"
  <2>1. spool' = [spool EXCEPT ![c] = spool[c]]
    BY <1>3, <1>6 DEF PushStops
  <2>2. <<>> \in Seq(Scalars) /\ spool[c].payload = spool[c].payload \o <<>>
    <3>1. spool[c].payload \in Seq(Scalars)
      BY <1>3 DEF SpoolType
    <3>. QED
      BY <3>1
  <2>. QED
    BY <1>1, <1>2, <1>3, <1>6, <2>1, <2>2, PushFails
<1>. QED
  BY <1>5, <1>6

\* The chunk does not reach the server.
LEMMA PushLostInv ==
  ASSUME SessionInv, NEW c \in Sessions, NEW r \in Rows, NEW n \in ChunkLens, PushLost(c, r, n)
  PROVE  SessionInv'
<1>1. PushesRow(c, r) /\ ses[c].phase = "uploading" /\ PushError(c, ses[c])
  BY DEF PushLost, PushesRow
<1>2. ses[c].seq \in Nat
  BY DEF SessionInv, SessionTypeOK, SessionType
<1>3. UNCHANGED <<client, answer, Unserved>> /\ Babbles(c) /\ (UNCHANGED faults \/ Fault)
  BY <1>2 DEF PushLost, FrameLost, Babbles
<1>4. /\ spool[c] \in SpoolType /\ (ses[c].mode # "malicious" => spool[c].files = {})
      /\ spool' = spool => spool' = [spool EXCEPT ![c] = spool[c]]
  BY NoFiles
<1>5. ChunkOf(c, r, n) \in Seq(Scalars) /\ spool' = Spooled(c, ChunkOf(c, r, n))
  BY <1>1, ChunkIs DEF PushLost
<1>6. CASE ses[c].mode = "malicious"
  <2>1. spool' = [spool EXCEPT ![c] = AfterAppend(spool[c], ChunkOf(c, r, n))]
    BY <1>5, <1>6 DEF Spooled
  <2>2. /\ AfterAppend(spool[c], ChunkOf(c, r, n)) \in SpoolType
        /\ AfterAppend(spool[c], ChunkOf(c, r, n)).payload
             = spool[c].payload \o ChunkOf(c, r, n)
    BY <1>4, <1>5, AppendLeaves
  <2>. QED
    BY <1>1, <1>3, <1>5, <1>6, <2>1, <2>2, PushFails
<1>7. CASE ses[c].mode # "malicious"
  <2>1. spool' = [spool EXCEPT ![c] = spool[c]]
    BY <1>4, <1>5, <1>7 DEF Spooled
  <2>2. <<>> \in Seq(Scalars) /\ spool[c].payload = spool[c].payload \o <<>>
    <3>1. spool[c].payload \in Seq(Scalars)
      BY <1>4 DEF SpoolType
    <3>. QED
      BY <3>1
  <2>. QED
    BY <1>1, <1>3, <1>4, <1>7, <2>1, <2>2, PushFails
<1>. QED
  BY <1>6, <1>7

-------------------------------------------------------------------------------
(* Steps of the server *)

\* A step of the server leaves the sessions and their spools alone.
LEMMA ServerSide ==
  ASSUME SessionInv, UNCHANGED <<ses, spool>>, faults' \in Nat, faults' >= faults, ServerInv',
         wire' = [d \in Sessions |-> wire'[d]],
         answer' = [d \in Sessions |-> answer'[d]],
         \A d \in Sessions :
           /\ RequestOK(ses[d], client'[d], stage'[d], wire'[d], req'[d], log'[d])
           /\ OutputsOK(ses[d], answer'[d], stage'[d], log'[d])
  PROVE  SessionInv'
<1>1. SessionTypeOK'
  BY DEF SessionInv, SessionTypeOK
<1>2. LifeInv'
  BY DEF SessionInv, LifeInv
<1>3. FilesInv'
  <2> SUFFICES ASSUME NEW d \in Sessions PROVE FilesOK(ses[d], spool[d], faults')
    BY DEF FilesInv
  <2>1. FilesOK(ses[d], spool[d], faults) /\ faults \in Nat
    BY DEF SessionInv, FilesInv, SessionTypeOK
  <2>. QED
    BY <2>1 DEF FilesOK
<1>4. RequestInv' /\ OutputsInv'
  BY DEF RequestInv, OutputsInv
<1>5. PayloadInv'
  BY DEF SessionInv, PayloadInv
<1>. QED
  BY <1>1, <1>2, <1>3, <1>4, <1>5 DEF SessionInv

\* What the server knows of a connection when it works on it.
LEMMA AtServer ==
  ASSUME SessionInv, NEW d \in Sessions
  PROVE  /\ RequestOK(ses[d], client[d], stage[d], wire[d], req[d], log[d])
         /\ OutputsOK(ses[d], answer[d], stage[d], log[d])
         /\ stage[d] # "none" => ses[d].link = "tcp"
         /\ ses[d] \in SessionType
         /\ wire = [e \in Sessions |-> wire[e]]
         /\ answer = [e \in Sessions |-> answer[e]]
         /\ faults \in Nat
<1>1. stage[d] # "none" => ses[d].link = "tcp"
  BY NoConnection
<1>. QED
  BY <1>1 DEF SessionInv, RequestInv, OutputsInv, SessionTypeOK

\* The server works on one connection.
LEMMA OneServed ==
  ASSUME SessionInv, UNCHANGED <<ses, spool>>, UNCHANGED faults, UNCHANGED client, ServerInv',
         NEW c \in Sessions,
         NEW st, stage' = [stage EXCEPT ![c] = st],
         NEW w, wire' = [wire EXCEPT ![c] = w],
         NEW a, answer' = [answer EXCEPT ![c] = a],
         NEW k, req' = [req EXCEPT ![c] = k],
         NEW l, log' = [log EXCEPT ![c] = l],
         RequestOK(ses[c], client[c], st, w, k, l),
         OutputsOK(ses[c], a, st, l)
  PROVE  SessionInv'
<1>1. /\ stage = [d \in Sessions |-> stage[d]] /\ req = [d \in Sessions |-> req[d]]
      /\ log = [d \in Sessions |-> log[d]]
  BY DEF SessionInv, ServerInv, Shapes
<1>2. wire = [d \in Sessions |-> wire[d]] /\ answer = [d \in Sessions |-> answer[d]] /\ faults \in Nat
  BY AtServer
<1>3. wire' = [d \in Sessions |-> wire'[d]] /\ answer' = [d \in Sessions |-> answer'[d]]
  BY <1>2
<1>4. ASSUME NEW d \in Sessions
      PROVE  /\ RequestOK(ses[d], client'[d], stage'[d], wire'[d], req'[d], log'[d])
             /\ OutputsOK(ses[d], answer'[d], stage'[d], log'[d])
  <2>1. CASE d = c
    BY <1>1, <1>2, <2>1
  <2>2. CASE d # c
    <3>1. /\ stage'[d] = stage[d] /\ wire'[d] = wire[d] /\ answer'[d] = answer[d]
          /\ req'[d] = req[d] /\ log'[d] = log[d]
      BY <1>1, <1>2, <2>2
    <3>. QED
      BY <3>1, AtServer
  <2>. QED
    BY <2>1, <2>2
<1>5. faults' \in Nat /\ faults' >= faults
  BY <1>2
<1>. QED
  BY <1>3, <1>4, <1>5, ServerSide

\* What is not touched is left as it is.
LEMMA Untaken ==
  ASSUME SessionInv, NEW c \in Sessions
  PROVE  /\ stage = [stage EXCEPT ![c] = stage[c]]
         /\ wire = [wire EXCEPT ![c] = wire[c]]
         /\ answer = [answer EXCEPT ![c] = answer[c]]
         /\ req = [req EXCEPT ![c] = req[c]]
         /\ log = [log EXCEPT ![c] = log[c]]
<1>1. /\ stage = [d \in Sessions |-> stage[d]] /\ req = [d \in Sessions |-> req[d]]
      /\ log = [d \in Sessions |-> log[d]]
  BY DEF SessionInv, ServerInv, Shapes
<1>2. wire = [d \in Sessions |-> wire[d]] /\ answer = [d \in Sessions |-> answer[d]]
  BY AtServer
<1>. QED
  BY <1>1, <1>2

\* The next connection is accepted.
LEMMA AcceptStep ==
  ASSUME SessionInv, Accept, UNCHANGED <<ses, spool>>
  PROVE  SessionInv'
<1> DEFINE c == Head(backlog)
<1>1. /\ stage' = [stage EXCEPT ![c] = "header"] /\ backlog # <<>>
      /\ UNCHANGED client /\ UNCHANGED wire /\ UNCHANGED answer /\ UNCHANGED req
      /\ UNCHANGED log /\ UNCHANGED faults
  BY DEF Accept, netVars
<1>2. backlog \in Seq(Sessions)
  BY DEF SessionInv, ServerInv, QueueInv
<1>3. c \in Sessions
  BY <1>1, <1>2, HeadAndTail
<1>4. ServerInv'
  BY AcceptInv DEF SessionInv
<1> HIDE DEF c
<1>5. /\ wire' = [wire EXCEPT ![c] = wire[c]] /\ answer' = [answer EXCEPT ![c] = answer[c]]
      /\ req' = [req EXCEPT ![c] = req[c]] /\ log' = [log EXCEPT ![c] = log[c]]
  BY <1>1, <1>3, Untaken
<1>6. RequestOK(ses[c], client[c], "header", wire[c], req[c], log[c])
  BY <1>3, AtServer DEF RequestOK
<1>7. OutputsOK(ses[c], answer[c], "header", log[c])
  BY <1>3, AtServer DEF OutputsOK
<1>. QED
  BY <1>1, <1>3, <1>4, <1>5, <1>6, <1>7, OneServed

\* The frames on a session's wire, by their types.
LEMMA SentIs ==
  ASSUME NEW s \in SessionType, NEW f \in Sent(s)
  PROVE  /\ f.type = "chunk" =>
              \E i \in 1..Len(s.hashed) : f.seq = i /\ f.body = s.hashed[i]
         /\ f.type = "finish" => Finished(s) /\ f.body.digest = s.hashed
<1>1. CASE f = HeaderFrame(0, TRUE, Expected)
  BY <1>1 DEF HeaderFrame
<1>2. CASE \E i \in 1..Len(s.hashed) : f = ChunkFrame(i, s.hashed[i])
  BY <1>2 DEF ChunkFrame
<1>3. CASE Finished(s) /\ f = FinishFrame(Len(s.hashed) + 1, Len(s.hashed), s.scalars, s.hashed)
  BY <1>3 DEF FinishFrame
<1>4. CASE f \in [type : {"broken", "abort"}, seq : Nat]
  BY <1>4
<1>. QED
  BY <1>1, <1>2, <1>3, <1>4 DEF Sent

\* A frame is read.
LEMMA FrameRead ==
  ASSUME SessionInv, NEW c \in Sessions, Received(c)
  PROVE  /\ Head(wire[c]) \in Sent(ses[c])
         /\ Tail(wire[c]) \in Seq(Sent(ses[c]))
         /\ wire' = [wire EXCEPT ![c] = Tail(wire[c])]
<1>1. wire[c] \in Seq(Sent(ses[c])) /\ wire[c] # <<>>
  BY AtServer DEF RequestOK, Received
<1>2. Head(wire[c]) \in Sent(ses[c]) /\ Tail(wire[c]) \in Seq(Sent(ses[c]))
  BY <1>1, HeadAndTail
<1>. QED
  BY <1>2 DEF Received

\* The server takes the header of a session.
LEMMA TakeHeaderStep ==
  ASSUME SessionInv, NEW c \in Sessions, TakeHeader(c), UNCHANGED <<ses, spool>>
  PROVE  SessionInv'
<1> DEFINE k == [total |-> Head(wire[c]).body.total, chunks |-> 0, scalars |-> 0, digest |-> <<>>,
                 col |-> [r \in Rows |-> 0], rows |-> [r \in Rows |-> <<>>]]
           w == Tail(wire[c])
<1>1. /\ stage[c] = "header" /\ stage' = [stage EXCEPT ![c] = "chunks"] /\ Received(c)
      /\ req' = [req EXCEPT ![c] = k]
      /\ UNCHANGED client /\ UNCHANGED answer /\ UNCHANGED log /\ UNCHANGED faults
  BY DEF TakeHeader
<1>2. w \in Seq(Sent(ses[c])) /\ wire' = [wire EXCEPT ![c] = w]
  BY <1>1, FrameRead
<1>3. k.chunks = 0 /\ k.digest = <<>>
  OBVIOUS
<1> HIDE DEF k, w
<1>4. ~log[c].msm
  BY <1>1 DEF SessionInv, ServerInv, MsmInv
<1>5. /\ RequestOK(ses[c], client[c], stage[c], wire[c], req[c], log[c])
      /\ OutputsOK(ses[c], answer[c], stage[c], log[c])
      /\ ses[c].link = "tcp" /\ ses[c].hashed \in Seq(Chunks)
  BY <1>1, AtServer DEF SessionType
<1>6. Taken(ses[c], k)
  BY <1>3, <1>5 DEF Taken
<1>7. RequestOK(ses[c], client[c], "chunks", w, k, log[c])
  BY <1>2, <1>4, <1>5, <1>6 DEF RequestOK
<1>8. OutputsOK(ses[c], answer[c], "chunks", log[c])
  BY <1>5 DEF OutputsOK
<1>9. answer' = [answer EXCEPT ![c] = answer[c]] /\ log' = [log EXCEPT ![c] = log[c]]
  BY <1>1, Untaken
<1>10. ServerInv'
  BY TakeHeaderInv DEF SessionInv
<1>. QED
  BY <1>1, <1>2, <1>7, <1>8, <1>9, <1>10, OneServed

\* The server takes the next chunk, which is the one the session pushed then.
LEMMA TakeChunkStep ==
  ASSUME SessionInv, NEW c \in Sessions, TakeChunk(c), UNCHANGED <<ses, spool>>
  PROVE  SessionInv'
<1> DEFINE f == Head(wire[c])
           k == WithChunk(req[c], f.body)
           w == Tail(wire[c])
<1>1. /\ stage[c] = "chunks" /\ Received(c) /\ ChunkAccepted(req[c], f)
      /\ req' = [req EXCEPT ![c] = k]
      /\ UNCHANGED client /\ UNCHANGED answer /\ UNCHANGED log /\ UNCHANGED faults
      /\ UNCHANGED stage
  BY DEF TakeChunk
<1>2. f \in Sent(ses[c]) /\ w \in Seq(Sent(ses[c])) /\ wire' = [wire EXCEPT ![c] = w]
  BY <1>1, FrameRead
<1>3. k.chunks = req[c].chunks + 1 /\ k.digest = Append(req[c].digest, f.body)
  BY DEF WithChunk
<1>4. f.type = "chunk" /\ f.seq = req[c].chunks + 1
  BY <1>1 DEF ChunkAccepted
<1> HIDE DEF k, w, f
<1>5. ~log[c].msm
  BY <1>1 DEF SessionInv, ServerInv, MsmInv
<1>6. /\ RequestOK(ses[c], client[c], stage[c], wire[c], req[c], log[c])
      /\ OutputsOK(ses[c], answer[c], stage[c], log[c])
      /\ ses[c].link = "tcp" /\ ses[c].hashed \in Seq(Chunks) /\ ses[c] \in SessionType
  BY <1>1, AtServer DEF SessionType
<1>7. Taken(ses[c], req[c])
  BY <1>1, <1>6 DEF RequestOK
<1>8. PICK i \in 1..Len(ses[c].hashed) : f.seq = i /\ f.body = ses[c].hashed[i]
  BY <1>2, <1>4, <1>6, SentIs
<1>9. Taken(ses[c], k)
  <2> DEFINE h == ses[c].hashed
             d == req[c].digest
  <2>1. /\ d \in Seq(Chunks) /\ h \in Seq(Chunks) /\ req[c].chunks = Len(d) /\ Len(d) <= Len(h)
        /\ \A j \in 1..Len(d) : d[j] = h[j]
    BY <1>6, <1>7 DEF Taken
  <2>2. i = Len(d) + 1 /\ f.body = h[i] /\ h[i] \in Chunks /\ i \in 1..Len(h)
    BY <1>4, <1>6, <1>8, <2>1
  <2>3. k.digest = Append(d, h[i]) /\ k.chunks = Len(d) + 1
    BY <1>3, <2>1, <2>2
  <2> HIDE DEF h, d
  <2>4. /\ k.digest \in Seq(Chunks) /\ k.chunks = Len(k.digest) /\ Len(k.digest) <= Len(h)
        /\ \A j \in 1..Len(k.digest) : k.digest[j] = h[j]
    BY <2>1, <2>2, <2>3
  <2>. QED
    BY <2>4 DEF Taken, h
<1>10. RequestOK(ses[c], client[c], "chunks", w, k, log[c])
  BY <1>2, <1>5, <1>6, <1>9 DEF RequestOK
<1>11. OutputsOK(ses[c], answer[c], "chunks", log[c])
  BY <1>6 DEF OutputsOK
<1>12. /\ answer' = [answer EXCEPT ![c] = answer[c]] /\ log' = [log EXCEPT ![c] = log[c]]
       /\ stage' = [stage EXCEPT ![c] = "chunks"]
  BY <1>1, Untaken
<1>13. ServerInv'
  BY TakeChunkInv DEF SessionInv
<1>. QED
  BY <1>1, <1>2, <1>10, <1>11, <1>12, <1>13, OneServed

\* The server takes the finish of a session, which has sent all of its digest.
LEMMA TakeFinishStep ==
  ASSUME SessionInv, NEW c \in Sessions, TakeFinish(c), UNCHANGED <<ses, spool>>
  PROVE  SessionInv'
<1> DEFINE f == Head(wire[c])
           l == [msm |-> TRUE, status |-> "none"]
           w == Tail(wire[c])
<1>1. /\ stage[c] = "chunks" /\ Received(c) /\ FinishAccepted(req[c], f)
      /\ stage' = [stage EXCEPT ![c] = "multiplying"] /\ log' = [log EXCEPT ![c] = l]
      /\ UNCHANGED client /\ UNCHANGED answer /\ UNCHANGED req /\ UNCHANGED faults
  BY DEF TakeFinish
<1>2. f \in Sent(ses[c]) /\ w \in Seq(Sent(ses[c])) /\ wire' = [wire EXCEPT ![c] = w]
  BY <1>1, FrameRead
<1>3. l.msm /\ l \in LogType
  BY DEF LogType
<1>4. f.type = "finish" /\ f.body.digest = req[c].digest
  BY <1>1 DEF FinishAccepted
<1> HIDE DEF l, w, f
<1>5. /\ RequestOK(ses[c], client[c], stage[c], wire[c], req[c], log[c])
      /\ OutputsOK(ses[c], answer[c], stage[c], log[c])
      /\ ses[c].link = "tcp" /\ ses[c] \in SessionType
  BY <1>1, AtServer
<1>6. Finished(ses[c]) /\ req[c].digest = ses[c].hashed
  BY <1>2, <1>4, <1>5, SentIs
<1>7. RequestOK(ses[c], client[c], "multiplying", w, req[c], l)
  BY <1>2, <1>5, <1>6 DEF RequestOK
<1>8. OutputsOK(ses[c], answer[c], "multiplying", l)
  BY <1>3, <1>5 DEF OutputsOK
<1>9. answer' = [answer EXCEPT ![c] = answer[c]] /\ req' = [req EXCEPT ![c] = req[c]]
  BY <1>1, Untaken
<1>10. ServerInv'
  BY TakeFinishInv DEF SessionInv
<1>. QED
  BY <1>1, <1>2, <1>7, <1>8, <1>9, <1>10, OneServed

\* A refused connection keeps its request and what it has been answered.
LEMMA RefuseStep ==
  ASSUME SessionInv, NEW c \in Sessions, stage[c] \in Working, Refuse(c),
         UNCHANGED <<ses, spool>>
  PROVE  SessionInv'
<1> DEFINE l == [msm |-> log[c].msm, status |-> "REJECTED"]
           a == Append(answer[c], ErrorFrame)
<1>1. /\ stage' = [stage EXCEPT ![c] = "closed"] /\ wire' = [wire EXCEPT ![c] = <<>>]
      /\ log' = [log EXCEPT ![c] = l]
      /\ answer' = [answer EXCEPT ![c] = a] \/ UNCHANGED answer
      /\ UNCHANGED client /\ UNCHANGED req /\ UNCHANGED faults
  BY DEF Refuse, SessionInv, ServerInv, Shapes
<1>2. /\ RequestOK(ses[c], client[c], stage[c], wire[c], req[c], log[c])
      /\ OutputsOK(ses[c], answer[c], stage[c], log[c])
      /\ ses[c].link = "tcp"
  BY AtServer DEF Working
<1>3. l.msm = log[c].msm /\ l \in LogType
  <2>1. log[c] \in LogType
    BY <1>2 DEF OutputsOK
  <2>. QED
    BY <2>1 DEF LogType
<1>4. answer[c] \in Seq(Replies) /\ a \in Seq(Replies)
  <2>1. ErrorFrame \in Replies /\ answer[c] \in Seq(Replies)
    BY <1>2 DEF Replies, OutputsOK
  <2>. QED
    BY <2>1
<1> HIDE DEF l, a
<1>5. <<>> \in Seq(Sent(ses[c]))
  OBVIOUS
<1>6. RequestOK(ses[c], client[c], "closed", <<>>, req[c], l)
  BY <1>2, <1>3, <1>5 DEF RequestOK
<1>7. OutputsOK(ses[c], answer[c], "closed", l) /\ OutputsOK(ses[c], a, "closed", l)
  BY <1>2, <1>3, <1>4 DEF OutputsOK
<1>8. answer = [answer EXCEPT ![c] = answer[c]] /\ req' = [req EXCEPT ![c] = req[c]]
  BY <1>1, Untaken
<1>9. ServerInv'
  BY RefuseInv DEF SessionInv
<1>10. CASE answer' = [answer EXCEPT ![c] = a]
  BY <1>1, <1>6, <1>7, <1>8, <1>9, <1>10, OneServed
<1>11. CASE UNCHANGED answer
  <2>1. answer' = [answer EXCEPT ![c] = answer[c]]
    BY <1>8, <1>11
  <2>. QED
    BY <1>1, <1>6, <1>7, <1>8, <1>9, <2>1, OneServed
<1>. QED
  BY <1>1, <1>10, <1>11

\* The response header carries the digest of the request.
LEMMA SendResponseHeaderStep ==
  ASSUME SessionInv, NEW c \in Sessions, SendResponseHeader(c), UNCHANGED <<ses, spool>>
  PROVE  SessionInv'
<1>1. stage[c] = "multiplying" /\ stage[c] \in Working
  BY DEF SendResponseHeader, Working
<1>2. CASE Refuse(c)
  BY <1>1, <1>2, RefuseStep
<1>3. CASE ~Refuse(c)
  <2> DEFINE a == Append(answer[c], HeaderOf(req[c]))
  <2>1. /\ stage' = [stage EXCEPT ![c] = "body"] /\ answer' = [answer EXCEPT ![c] = a]
        /\ UNCHANGED client /\ UNCHANGED wire /\ UNCHANGED req /\ UNCHANGED log /\ UNCHANGED faults
    BY <1>3 DEF SendResponseHeader
  <2>2. /\ RequestOK(ses[c], client[c], stage[c], wire[c], req[c], log[c])
        /\ OutputsOK(ses[c], answer[c], stage[c], log[c])
        /\ ses[c] \in SessionType
    BY AtServer
  <2>3. log[c].msm /\ answer[c] \in Seq(Replies)
    BY <1>1, <2>2 DEF OutputsOK
  <2>4. req[c].digest \in Seq(Chunks)
    BY <2>2, <2>3 DEF RequestOK, SessionType
  <2>5. HeaderOf(req[c]) \in Replies
    BY <2>4 DEF HeaderOf, Replies
  <2>6. a \in Seq(Replies)
    BY <2>3, <2>5
  <2> HIDE DEF a
  <2>7. RequestOK(ses[c], client[c], "body", wire[c], req[c], log[c])
    BY <1>1, <2>2 DEF RequestOK
  <2>8. OutputsOK(ses[c], a, "body", log[c])
    BY <2>2, <2>3, <2>6 DEF OutputsOK
  <2>9. /\ wire' = [wire EXCEPT ![c] = wire[c]] /\ req' = [req EXCEPT ![c] = req[c]]
        /\ log' = [log EXCEPT ![c] = log[c]]
    BY <2>1, Untaken
  <2>10. ServerInv'
    BY SendResponseHeaderInv DEF SessionInv
  <2>. QED
    BY <2>1, <2>7, <2>8, <2>9, <2>10, OneServed
<1>. QED
  BY <1>2, <1>3

\* The response body carries the right outputs.
LEMMA SendResponseBodyStep ==
  ASSUME SessionInv, NEW c \in Sessions, SendResponseBody(c), UNCHANGED <<ses, spool>>
  PROVE  SessionInv'
<1>1. stage[c] = "body" /\ stage[c] \in Working
  BY DEF SendResponseBody, Working
<1>2. CASE Refuse(c)
  BY <1>1, <1>2, RefuseStep
<1>3. CASE ~Refuse(c)
  <2> DEFINE a == Append(answer[c], BodyOf(req[c]))
             l == [msm |-> log[c].msm, status |-> "PASS"]
  <2>1. /\ stage' = [stage EXCEPT ![c] = "closed"] /\ answer' = [answer EXCEPT ![c] = a]
        /\ log' = [log EXCEPT ![c] = l] /\ wire' = [wire EXCEPT ![c] = <<>>]
        /\ UNCHANGED client /\ UNCHANGED req /\ UNCHANGED faults
    BY <1>3 DEF SendResponseBody, SessionInv, ServerInv, Shapes
  <2>2. /\ RequestOK(ses[c], client[c], stage[c], wire[c], req[c], log[c])
        /\ OutputsOK(ses[c], answer[c], stage[c], log[c])
    BY AtServer
  <2>3. log[c].msm /\ answer[c] \in Seq(Replies) /\ log[c] \in LogType
    BY <1>1, <2>2 DEF OutputsOK
  <2>4. l.msm = log[c].msm /\ l \in LogType
    BY <2>3 DEF LogType
  <2>5. BodyOf(req[c]) \in Replies
    <3>1. Products(req[c]) = RightOutputs
      BY <2>3, ProductsRight DEF SessionInv
    <3>. QED
      BY <3>1 DEF BodyOf, Replies
  <2>6. a \in Seq(Replies)
    BY <2>3, <2>5
  <2> HIDE DEF a, l
  <2>7. <<>> \in Seq(Sent(ses[c]))
    OBVIOUS
  <2>8. RequestOK(ses[c], client[c], "closed", <<>>, req[c], l)
    BY <2>2, <2>4, <2>7 DEF RequestOK
  <2>9. OutputsOK(ses[c], a, "closed", l)
    BY <2>2, <2>4, <2>6 DEF OutputsOK
  <2>10. req' = [req EXCEPT ![c] = req[c]]
    BY <2>1, Untaken
  <2>11. ServerInv'
    BY SendResponseBodyInv DEF SessionInv
  <2>. QED
    BY <2>1, <2>8, <2>9, <2>10, <2>11, OneServed
<1>. QED
  BY <1>2, <1>3

\* The end of the server closes every connection.
LEMMA ServerGoneStep ==
  ASSUME SessionInv, ServerGone, UNCHANGED <<client, answer, accepted, req, log>>,
         UNCHANGED <<ses, spool>>, faults' \in Nat, faults' >= faults, ServerInv'
  PROVE  SessionInv'
<1>1. /\ stage' = [c \in Sessions |-> IF stage[c] = "none" THEN "none" ELSE "closed"]
      /\ wire' = [c \in Sessions |-> <<>>]
  BY DEF ServerGone
<1>2. wire' = [d \in Sessions |-> wire'[d]]
  BY <1>1
<1>3. answer' = [d \in Sessions |-> answer'[d]]
  <2>1. answer = [d \in Sessions |-> answer[d]]
    BY DEF SessionInv, OutputsInv
  <2>. QED
    BY <2>1
<1>4. ASSUME NEW d \in Sessions
      PROVE  /\ RequestOK(ses[d], client'[d], stage'[d], wire'[d], req'[d], log'[d])
             /\ OutputsOK(ses[d], answer'[d], stage'[d], log'[d])
  <2>1. stage'[d] \in {"none", "closed"} /\ wire'[d] = <<>>
    BY <1>1
  <2>2. <<>> \in Seq(Sent(ses[d]))
    OBVIOUS
  <2>3. /\ RequestOK(ses[d], client[d], stage[d], wire[d], req[d], log[d])
        /\ OutputsOK(ses[d], answer[d], stage[d], log[d])
    BY AtServer
  <2>4. RequestOK(ses[d], client'[d], stage'[d], wire'[d], req'[d], log'[d])
    BY <2>1, <2>2, <2>3 DEF RequestOK
  <2>5. OutputsOK(ses[d], answer'[d], stage'[d], log'[d])
    BY <2>1, <2>3 DEF OutputsOK
  <2>. QED
    BY <2>4, <2>5
<1>. QED
  BY <1>2, <1>3, <1>4, ServerSide

\* The line of metrics, after which the loop goes on or the server ends.
LEMMA WriteMetricsStep ==
  ASSUME SessionInv, NEW c \in Sessions, WriteMetrics(c), UNCHANGED <<ses, spool>>
  PROVE  SessionInv'
<1>1. ServerInv'
  BY WriteMetricsInv DEF SessionInv
<1>2. faults \in Nat
  BY AtServer
<1>3. faults' \in Nat /\ faults' >= faults
  BY <1>2 DEF WriteMetrics
<1>4. UNCHANGED <<client, answer, accepted, req, log>>
  BY DEF WriteMetrics
<1>5. CASE ServerGone
  BY <1>1, <1>3, <1>4, <1>5, ServerGoneStep
<1>6. CASE ~ServerGone
  <2>1. UNCHANGED stage /\ UNCHANGED wire
    BY <1>6 DEF WriteMetrics
  <2>2. wire' = [d \in Sessions |-> wire'[d]] /\ answer' = [d \in Sessions |-> answer'[d]]
    BY <1>4, <2>1, AtServer
  <2>3. \A d \in Sessions :
           /\ RequestOK(ses[d], client'[d], stage'[d], wire'[d], req'[d], log'[d])
           /\ OutputsOK(ses[d], answer'[d], stage'[d], log'[d])
    BY <1>4, <2>1, AtServer
  <2>. QED
    BY <1>1, <1>3, <2>2, <2>3, ServerSide
<1>. QED
  BY <1>5, <1>6

\* Every step of the server keeps the invariant of the sessions.
LEMMA ServerStepInv ==
  ASSUME SessionInv, ServerWork \/ ServerKilled, UNCHANGED <<ses, spool>>
  PROVE  SessionInv'
<1>1. CASE Accept
  BY <1>1, AcceptStep
<1>2. ASSUME NEW c \in Sessions,
             \/ TakeHeader(c) \/ TakeChunk(c) \/ TakeFinish(c)
             \/ SendResponseHeader(c) \/ SendResponseBody(c) \/ WriteMetrics(c)
      PROVE  SessionInv'
  BY <1>2, TakeHeaderStep, TakeChunkStep, TakeFinishStep, SendResponseHeaderStep,
     SendResponseBodyStep, WriteMetricsStep
<1>3. ASSUME NEW c \in Sessions, RefuseFrame(c) \/ ReadFails(c) PROVE SessionInv'
  <2>1. stage[c] \in Working /\ Refuse(c)
    BY <1>3 DEF RefuseFrame, ReadFails, Working
  <2>. QED
    BY <2>1, RefuseStep
<1>4. CASE ServerKilled
  <2>1. ServerGone /\ UNCHANGED <<client, answer, accepted, req, log>> /\ faults' = faults + 1
    BY <1>4 DEF ServerKilled
  <2>2. faults \in Nat
    BY DEF SessionInv, SessionTypeOK
  <2>3. faults' \in Nat /\ faults' >= faults
    BY <2>1, <2>2
  <2>4. ServerInv'
    BY <1>4, ServerKilledInv DEF SessionInv
  <2>. QED
    BY <2>1, <2>3, <2>4, ServerGoneStep
<1>. QED
  BY <1>1, <1>2, <1>3, <1>4 DEF ServerWork

-------------------------------------------------------------------------------
(* The invariant of the sessions *)

\* Before any session has begun.
LEMMA SessionInitInv == SessionInit => SessionInv
<1> SUFFICES ASSUME SessionInit PROVE SessionInv
  OBVIOUS
<1>1. ServerInv
  BY ServerInitInv DEF SessionInit
<1>2. NoSpool \in SpoolType
  BY DEF NoSpool, SpoolType, Names
<1>3. SessionTypeOK
  BY <1>2, NewIs DEF SessionTypeOK, SessionInit, ServerInit
<1>4. \A c \in Sessions :
        /\ ses[c] = New /\ spool[c] = NoSpool
        /\ client[c] = "none" /\ stage[c] = "none" /\ wire[c] = <<>> /\ answer[c] = <<>>
        /\ log[c] = NoLog
  BY DEF SessionInit, ServerInit
<1>5. LifeOK(New) /\ FilesOK(New, NoSpool, faults)
  BY DEF LifeOK, FilesOK, New, NoSpool
<1>6. \A k : RequestOK(New, "none", "none", <<>>, k, NoLog)
  BY DEF RequestOK, New, NoLog
<1>7. OutputsOK(New, <<>>, "none", NoLog)
  <2>1. NoLog \in LogType /\ ~NoLog.msm
    BY DEF NoLog, LogType
  <2>2. \A r \in Rows : New.acc[r] = Cells(r, 0, New.col[r])
    BY NoCells DEF New
  <2>3. New.phase = "new" /\ New.finalized = FALSE /\ New.err = "none"
    BY DEF New
  <2>. QED
    BY <2>1, <2>2, <2>3 DEF OutputsOK
<1>8. PayloadOK(New, NoSpool)
  BY DEF PayloadOK, New
<1>9. wire = [c \in Sessions |-> wire[c]] /\ answer = [c \in Sessions |-> answer[c]]
  BY DEF SessionInit, ServerInit
<1>. QED
  BY <1>1, <1>3, <1>4, <1>5, <1>6, <1>7, <1>8, <1>9
     DEF SessionInv, LifeInv, FilesInv, RequestInv, OutputsInv, PayloadInv

\* Every step of a client keeps it.
LEMMA ClientWorkInv ==
  ASSUME SessionInv, NEW c \in Sessions, ClientWork(c)
  PROVE  SessionInv'
<1>1. ASSUME NEW r \in Rows, NEW n \in ChunkLens,
             Push(c, r, n) \/ PushStops(c, r, n) \/ PushLost(c, r, n)
      PROVE  SessionInv'
  BY <1>1, PushInv, PushStopsInv, PushLostInv
<1>2. CASE Connect(c) \/ SendHeader(c) \/ LoopbackHeader(c)
  BY <1>2, ConnectInv, SendHeaderInv, LoopbackHeaderInv
<1>3. CASE \/ FinishIncomplete(c) \/ FinishLocal(c) \/ SendFinish(c) \/ FinishLoopback(c)
  BY <1>3, FinishIncompleteInv, FinishLocalInv, SendFinishInv, FinishLoopbackInv
<1>4. CASE \/ ReceiveLoopback(c) \/ ReceiveHeader(c) \/ ReceiveBody(c)
           \/ ReceiveFails(c) \/ MarkerFails(c)
  BY <1>4, ReceiveLoopbackInv, ReceiveHeaderInv, ReceiveBodyInv, OtherErrors
<1>5. CASE \/ SkipCheck(c) \/ RejectCount(c) \/ SealFails(c) \/ RejectOutputs(c)
           \/ AcceptOutputs(c)
  BY <1>5, SkipCheckInv, RejectCountInv, SealFailsInv, RejectOutputsInv, AcceptOutputsInv
<1>6. CASE Return(c) \/ Drop(c) \/ DropFields(c)
  BY <1>6, ReturnInv, DropInv, DropFieldsInv
<1>. QED
  BY <1>1, <1>2, <1>3, <1>4, <1>5, <1>6 DEF ClientWork

\* The invariant is inductive.
LEMMA SessionNextInv == SessionInv /\ [SessionNext]_sessionVars => SessionInv'
<1> SUFFICES ASSUME SessionInv, [SessionNext]_sessionVars PROVE SessionInv'
  OBVIOUS
<1>1. CASE (ServerWork \/ ServerKilled) /\ UNCHANGED <<ses, spool>>
  BY <1>1, ServerStepInv
<1>2. ASSUME NEW c \in Sessions, Begin(c) \/ ClientWork(c) \/ ClientKilled(c)
      PROVE  SessionInv'
  BY <1>2, BeginInv, ClientWorkInv, ClientKilledInv
<1>3. CASE UNCHANGED sessionVars
  BY <1>3 DEF sessionVars, serverVars, netVars, acceptVars, SessionInv, SessionTypeOK, LifeInv,
              FilesInv, ServerInv, Shapes, QueueInv, RequestsInv, MsmInv, OneConnectionAtATime,
              RequestInv, OutputsInv, PayloadInv
<1>. QED
  BY <1>1, <1>2, <1>3 DEF SessionNext

\* The invariant holds in every reachable state.
THEOREM SessionInvariance == SessionSpec => []SessionInv
<1>1. SessionInit => SessionInv
  BY SessionInitInv
<1>2. SessionInv /\ [SessionNext]_sessionVars => SessionInv'
  BY SessionNextInv
<1>. QED
  BY <1>1, <1>2, PTL DEF SessionSpec

\* Phases, tokens, outputs and spools keep their types.
THEOREM SessionTypeCorrect == SessionSpec => []SessionTypeOK
<1>1. SessionInv => SessionTypeOK
  BY DEF SessionInv
<1>. QED
  BY <1>1, SessionInvariance, PTL

\* The token of a session that ended is burned, or spent if it has returned
\* outputs, and a spent token stands for returned outputs (finalize and Drop
\* of provider.rs).
THEOREM TokensSettle == SessionSpec => []TokenSettled
<1>1. SessionInv => TokenSettled
  BY DEF SessionInv, LifeInv, LifeOK, TokenSettled
<1>. QED
  BY <1>1, SessionInvariance, PTL

\* One I/O error alone never leaves a file of the spool behind: Drop of the
\* session and Drop of SecureSpool both remove it.
THEOREM SpoolsDeleted == SessionSpec => []SpoolDeleted
<1>1. SessionInv => SpoolDeleted
  BY DEF SessionInv, FilesInv, FilesOK, SpoolDeleted
<1>. QED
  BY <1>1, SessionInvariance, PTL

\* The server multiplies only for a client that has sent its finish frame, and
\* exactly the chunks the client has sent.
THEOREM MsmOnlyAfterFinalize == SessionSpec => []MsmAfterFinalize
<1>1. SessionInv => MsmAfterFinalize
  BY DEF SessionInv, RequestInv, RequestOK, Finished, MsmAfterFinalize
<1>. QED
  BY <1>1, SessionInvariance, PTL

\* With these clients too the server serves one connection at a time and
\* multiplies complete requests only, and so does the loopback.
THEOREM SessionsServedOneByOne ==
  SessionSpec => [](OneConnectionAtATime /\ MsmAfterCompleteRequest)
<1>1. SessionInv => OneConnectionAtATime /\ MsmAfterCompleteRequest
  BY CompleteRows DEF SessionInv, ServerInv
<1>. QED
  BY <1>1, SessionInvariance, PTL

\* Outside the tests no hook alters the outputs of a server, and
\* pbmo_commitment.rs pushes row after row.
Undisturbed == RowMajor \/ Hooks \subseteq {"none"}

\* What the invariant says of outputs that were checked or returned.
LEMMA FinalOutputs ==
  ASSUME SessionInv, Undisturbed, NEW c \in Sessions, ses[c].phase = "checked" \/ ses[c].finalized
  PROVE  ses[c].outputs = RightOutputs
<1>1. ses[c].hook \in Hooks \cup {"none"}
  BY DEF SessionInv, SessionTypeOK, SessionType
<1>2. OutputsOK(ses[c], answer[c], stage[c], log[c])
  BY DEF SessionInv, OutputsInv
<1>. QED
  BY <1>1, <1>2 DEF OutputsOK, Undisturbed

\* The outputs a session returns are the commitments of its rows: without a
\* hook in any order of the chunks, and whatever a hook does when the rows were
\* pushed one after the other.
THEOREM ReturnsRight ==
  ASSUME Undisturbed
  PROVE  SessionSpec => []ReturnedOutputsRight
<1>1. SessionInv => ReturnedOutputsRight
  <2> SUFFICES ASSUME SessionInv, NEW c \in Sessions, ses[c].phase \in {"returned", "done"}
               PROVE  ses[c].outputs = RightOutputs
    BY DEF ReturnedOutputsRight, RightOutputs
  <2>1. ses[c].finalized
    BY DEF SessionInv, LifeInv, LifeOK
  <2>. QED
    BY <2>1, FinalOutputs
<1>. QED
  BY <1>1, SessionInvariance, PTL

\* The check accepts what an honest server answers to a caller that pushes row
\* after row; for one that does not, it may refuse (PbmoRowOrder.cfg).
THEOREM HonestAccepted ==
  ASSUME RowMajor
  PROVE  SessionSpec => []HonestOutputsAccepted
<1>1. SessionInv => HonestOutputsAccepted
  BY DEF SessionInv, OutputsInv, OutputsOK, HonestOutputsAccepted
<1>. QED
  BY <1>1, SessionInvariance, PTL

-------------------------------------------------------------------------------
(* A session is one outsourced commitment *)

\* The abstract outcome and token of one session.
OutcomeOf(s) ==
  IF s.finalized THEN IF s.outputs = RightOutputs THEN "right" ELSE "wrong"
  ELSE IF s.phase \in {"refused", "failed", "killed"} THEN "failed" ELSE "open"

TokenOf(s) ==
  IF s.token # "none" THEN s.token ELSE IF s.finalized THEN "spent" ELSE "reserved"

\* The mapping, session by session.
LEMMA Mapped ==
  /\ Outcome = [c \in Sessions |-> OutcomeOf(ses[c])]
  /\ Tokens = [c \in Sessions |-> TokenOf(ses[c])]
<1>1. Tokens = [c \in Sessions |-> TokenOf(ses[c])]
  BY DEF Tokens, TokenOf
<1>2. ASSUME NEW c \in Sessions PROVE Outcome[c] = OutcomeOf(ses[c])
  <2>1. CASE ses[c].finalized
    BY <2>1 DEF Outcome, OutcomeOf, RightOutputs
  <2>2. CASE ~ses[c].finalized
    BY <2>2 DEF Outcome, OutcomeOf
  <2>. QED
    BY <2>1, <2>2
<1>3. Outcome = [c \in Sessions |-> Outcome[c]]
  BY DEF Outcome
<1>. QED
  BY <1>1, <1>2, <1>3

\* The same in the next state.
LEMMA MappedNext ==
  /\ Outcome' = [c \in Sessions |-> OutcomeOf(ses'[c])]
  /\ Tokens' = [c \in Sessions |-> TokenOf(ses'[c])]
<1>1. Tokens' = [c \in Sessions |-> TokenOf(ses'[c])]
  BY DEF Tokens, TokenOf
<1>2. ASSUME NEW c \in Sessions PROVE Outcome'[c] = OutcomeOf(ses'[c])
  <2>1. CASE ses'[c].finalized
    BY <2>1 DEF Outcome, OutcomeOf, RightOutputs
  <2>2. CASE ~ses'[c].finalized
    BY <2>2 DEF Outcome, OutcomeOf
  <2>. QED
    BY <2>1, <2>2
<1>3. Outcome' = [c \in Sessions |-> Outcome'[c]]
  BY DEF Outcome
<1>. QED
  BY <1>1, <1>2, <1>3

\* What no step of a client undoes.
Fate(s, t) ==
  /\ s.phase \notin Ended
  /\ s.token = "burned" => t.token = "burned"
  /\ s.finalized => t.finalized /\ t.token = s.token /\ t.outputs = s.outputs

Fated(c) == \E s : ses' = [ses EXCEPT ![c] = s] /\ Fate(ses[c], s)

\* A session that can still return outputs, or has not begun, has nothing to
\* undo.
LEMMA OpenFate ==
  ASSUME SessionInv, NEW c \in Sessions, ses[c].phase \in Live \cup {"new"},
         NEW s, ses' = [ses EXCEPT ![c] = s]
  PROVE  Fated(c)
<1>1. LifeOK(ses[c])
  BY DEF SessionInv, LifeInv
<1>2. Fate(ses[c], s)
  BY <1>1 DEF LifeOK, Fate, Live, Ended
<1>. QED
  BY <1>2 DEF Fated

\* The same, for the three ways in which most steps write the session.
LEMMA OpenGoto ==
  ASSUME SessionInv, NEW c \in Sessions, ses[c].phase \in Live \cup {"new"}, NEW p, NEW why,
         Goto(c, p) \/ Dropping(c, why) \/ BurnedBy(c, why)
  PROVE  Fated(c)
<1>1. CASE Goto(c, p)
  <2>1. ses' = [ses EXCEPT ![c] = [ses[c] EXCEPT !.phase = p]]
    BY <1>1 DEF Goto
  <2>. QED
    BY <2>1, OpenFate
<1>2. CASE Dropping(c, why)
  <2>1. ses' = [ses EXCEPT ![c] = [ses[c] EXCEPT !.phase = "dropping", !.err = why]]
    BY <1>2 DEF Dropping
  <2>. QED
    BY <2>1, OpenFate
<1>3. CASE BurnedBy(c, why)
  <2>1. ses' = [ses EXCEPT ![c] =
                  [ses[c] EXCEPT !.phase = "dropping", !.err = why, !.token = "burned"]]
    BY <1>3 DEF BurnedBy
  <2>. QED
    BY <2>1, OpenFate
<1>. QED
  BY <1>1, <1>2, <1>3

\* The outputs come in.
LEMMA OpenOutputs ==
  ASSUME SessionInv, NEW c \in Sessions, ses[c].phase \in Live, NEW o, WithOutputs(c, o)
  PROVE  Fated(c)
<1>1. PICK hook : ses' = [ses EXCEPT ![c] =
                            [ses[c] EXCEPT !.phase = "outputs", !.outputs = o, !.hook = hook]]
  BY DEF WithOutputs
<1>. QED
  BY <1>1, OpenFate

\* A pushed chunk.
LEMMA OpenPush ==
  ASSUME SessionInv, NEW c \in Sessions, NEW r \in Rows, NEW n \in ChunkLens,
         Push(c, r, n) \/ PushStops(c, r, n) \/ PushLost(c, r, n)
  PROVE  Fated(c)
<1>1. ses[c].phase \in Live
  BY DEF Push, PushStops, PushLost, PushesRow, Live
<1>2. \E s : ses' = [ses EXCEPT ![c] = s]
  <2>1. ASSUME NEW s, PushError(c, s) PROVE \E t : ses' = [ses EXCEPT ![c] = t]
    BY <2>1 DEF PushError
  <2>. QED
    BY <2>1 DEF Push, PushStops, PushLost
<1>. QED
  BY <1>1, <1>2, OpenFate

\* A step that makes or loses the connection, or begins the request.
LEMMA GreetingFate ==
  ASSUME SessionInv, NEW c \in Sessions,
         Begin(c) \/ Connect(c) \/ SendHeader(c) \/ LoopbackHeader(c)
  PROVE  Fated(c)
<1>1. ses[c].phase \in Live \cup {"new"}
  BY DEF Begin, Connect, SendHeader, LoopbackHeader, Live
<1>2. CASE Begin(c)
  <2>1. \E s : ses' = [ses EXCEPT ![c] = s]
    BY <1>2 DEF Begin
  <2>. QED
    BY <1>1, <2>1, OpenFate
<1>3. CASE Connect(c)
  BY <1>1, <1>3, OpenGoto DEF Connect
<1>4. CASE SendHeader(c) \/ LoopbackHeader(c)
  <2>1. \/ Dropping(c, "other")
        \/ ses' = [ses EXCEPT ![c].phase = "uploading", ![c].seq = @ + 1]
    BY <1>4 DEF SendHeader, LoopbackHeader
  <2>2. CASE ses' = [ses EXCEPT ![c].phase = "uploading", ![c].seq = @ + 1]
    <3>1. ses' = [ses EXCEPT ![c] =
                    [ses[c] EXCEPT !.phase = "uploading", !.seq = ses[c].seq + 1]]
      BY <2>2
    <3>. QED
      BY <1>1, <3>1, OpenFate
  <2>. QED
    BY <1>1, <2>1, <2>2, OpenGoto
<1>. QED
  BY <1>2, <1>3, <1>4

\* The end of the request.
LEMMA FinishFate ==
  ASSUME SessionInv, NEW c \in Sessions,
         FinishIncomplete(c) \/ FinishLocal(c) \/ SendFinish(c) \/ FinishLoopback(c)
  PROVE  Fated(c)
<1>1. ses[c].phase \in Live
  BY DEF FinishIncomplete, FinishLocal, SendFinish, FinishLoopback, Live
<1>2. CASE FinishIncomplete(c)
  <2>1. ses' = [ses EXCEPT ![c] = [ses[c] EXCEPT !.phase = "dropping", !.err = "other",
                                     !.token = Settled(ses[c].token, "burned")]]
    BY <1>2 DEF FinishIncomplete
  <2>. QED
    BY <1>1, <2>1, OpenFate
<1>3. CASE FinishLocal(c)
  BY <1>1, <1>3, OpenOutputs DEF FinishLocal
<1>4. CASE SendFinish(c) \/ FinishLoopback(c)
  <2>1. \/ Dropping(c, "other")
        \/ ses' = [ses EXCEPT ![c].phase = "waiting", ![c].seq = @ + 1]
    BY <1>4 DEF SendFinish, FinishLoopback
  <2>2. CASE ses' = [ses EXCEPT ![c].phase = "waiting", ![c].seq = @ + 1]
    <3>1. ses' = [ses EXCEPT ![c] =
                    [ses[c] EXCEPT !.phase = "waiting", !.seq = ses[c].seq + 1]]
      BY <2>2
    <3>. QED
      BY <1>1, <3>1, OpenFate
  <2>. QED
    BY <1>1, <2>1, <2>2, OpenGoto
<1>. QED
  BY <1>2, <1>3, <1>4

\* The answer and the check.
LEMMA AnswerFate ==
  ASSUME SessionInv, NEW c \in Sessions,
         \/ ReceiveLoopback(c) \/ ReceiveHeader(c) \/ ReceiveBody(c)
         \/ ReceiveFails(c) \/ MarkerFails(c) \/ SkipCheck(c) \/ RejectCount(c)
         \/ SealFails(c) \/ RejectOutputs(c) \/ AcceptOutputs(c) \/ Return(c)
  PROVE  Fated(c)
<1>1. ses[c].phase \in Live
  BY DEF ReceiveLoopback, ReceiveHeader, ReceiveBody, ReceiveFails, MarkerFails, SkipCheck,
         RejectCount, SealFails, RejectOutputs, AcceptOutputs, Return, Checkable, Live
<1>2. CASE ReceiveLoopback(c) \/ ReceiveBody(c)
  <2>1. Dropping(c, "other") \/ \E o : WithOutputs(c, o)
    BY <1>2 DEF ReceiveLoopback, ReceiveBody
  <2>. QED
    BY <1>1, <2>1, OpenGoto, OpenOutputs
<1>3. CASE \/ ReceiveHeader(c) \/ ReceiveFails(c) \/ MarkerFails(c) \/ SkipCheck(c)
           \/ RejectCount(c) \/ SealFails(c) \/ RejectOutputs(c)
  <2>1. \/ Dropping(c, "other") \/ BurnedBy(c, "integrity")
        \/ Goto(c, "body") \/ Goto(c, "checked")
    BY <1>3 DEF ReceiveHeader, ReceiveFails, MarkerFails, SkipCheck, RejectCount, SealFails,
                RejectOutputs
  <2>. QED
    BY <1>1, <2>1, OpenGoto
<1>4. CASE AcceptOutputs(c)
  <2>1. \/ Dropping(c, "other")
        \/ ses' = [ses EXCEPT ![c] = [ses[c] EXCEPT !.phase = "checked", !.outputs = Claimed(c)]]
    BY <1>4 DEF AcceptOutputs
  <2>. QED
    BY <1>1, <2>1, OpenFate, OpenGoto
<1>5. CASE Return(c)
  <2>1. ses' = [ses EXCEPT ![c] = [ses[c] EXCEPT !.phase = "returned",
                  !.token = Settled(ses[c].token, "spent"), !.finalized = TRUE]]
    BY <1>5 DEF Return
  <2>. QED
    BY <1>1, <2>1, OpenFate
<1>. QED
  BY <1>2, <1>3, <1>4, <1>5

\* The end of a session keeps what it has returned, and the token burned.
LEMMA EndFate ==
  ASSUME SessionInv, NEW c \in Sessions, Drop(c) \/ DropFields(c) \/ ClientKilled(c)
  PROVE  Fated(c)
<1>1. ses[c] \in SessionType /\ LifeOK(ses[c])
  BY DEF SessionInv, SessionTypeOK, LifeInv
<1>2. CASE Drop(c)
  <2> DEFINE t == [ses[c] EXCEPT !.phase = "dropped", !.token = Settled(ses[c].token, "burned")]
  <2>1. ses[c].phase = "dropping" /\ ses' = [ses EXCEPT ![c] = t]
    BY <1>2 DEF Drop
  <2>2. ~ses[c].finalized
    BY <1>1, <2>1 DEF LifeOK
  <2>3. t.token = Settled(ses[c].token, "burned")
    BY <1>1 DEF SessionType
  <2>4. Fate(ses[c], t)
    BY <2>1, <2>2, <2>3 DEF Fate, Ended, Settled
  <2> HIDE DEF t
  <2>. QED
    BY <2>1, <2>4 DEF Fated
<1>3. ASSUME NEW p, Goto(c, p), ses[c].phase \notin Ended PROVE Fated(c)
  <2> DEFINE t == [ses[c] EXCEPT !.phase = p]
  <2>1. ses' = [ses EXCEPT ![c] = t]
    BY <1>3 DEF Goto
  <2>2. t.token = ses[c].token /\ t.finalized = ses[c].finalized /\ t.outputs = ses[c].outputs
    BY <1>1 DEF SessionType
  <2>3. Fate(ses[c], t)
    BY <1>3, <2>2 DEF Fate
  <2> HIDE DEF t
  <2>. QED
    BY <2>1, <2>3 DEF Fated
<1>4. CASE DropFields(c)
  <2>1. ses[c].phase \notin Ended
    BY <1>4 DEF DropFields, Ended
  <2>. QED
    BY <1>3, <1>4, <2>1 DEF DropFields
<1>5. CASE ClientKilled(c)
  BY <1>3, <1>5 DEF ClientKilled
<1>. QED
  BY <1>2, <1>4, <1>5

\* Every step of a client has a fate that no later step undoes.
LEMMA ClientFate ==
  ASSUME SessionInv, NEW c \in Sessions, Begin(c) \/ ClientWork(c) \/ ClientKilled(c)
  PROVE  Fated(c)
<1>1. ASSUME NEW r \in Rows, NEW n \in ChunkLens,
             Push(c, r, n) \/ PushStops(c, r, n) \/ PushLost(c, r, n)
      PROVE  Fated(c)
  BY <1>1, OpenPush
<1>2. CASE Begin(c) \/ Connect(c) \/ SendHeader(c) \/ LoopbackHeader(c)
  BY <1>2, GreetingFate
<1>3. CASE \/ FinishIncomplete(c) \/ FinishLocal(c) \/ SendFinish(c) \/ FinishLoopback(c)
  BY <1>3, FinishFate
<1>4. CASE \/ ReceiveLoopback(c) \/ ReceiveHeader(c) \/ ReceiveBody(c)
           \/ ReceiveFails(c) \/ MarkerFails(c) \/ SkipCheck(c) \/ RejectCount(c)
           \/ SealFails(c) \/ RejectOutputs(c) \/ AcceptOutputs(c) \/ Return(c)
  BY <1>4, AnswerFate
<1>5. CASE Drop(c) \/ DropFields(c) \/ ClientKilled(c)
  BY <1>5, EndFate
<1>. QED
  BY <1>1, <1>2, <1>3, <1>4, <1>5 DEF ClientWork

\* A session whose outputs left has the right ones.
Honourable(s) ==
  /\ LifeOK(s)
  /\ s.token \in {"none", "reserved", "burned", "spent"}
  /\ s.finalized => s.outputs = RightOutputs

\* One step of one session: its token is burned, it returns the right outputs,
\* it ends without any, or nothing of that happens.
LEMMA OneFate ==
  ASSUME NEW s, NEW t, Honourable(s), Honourable(t), Fate(s, t)
  PROVE  \/ OutcomeOf(t) = OutcomeOf(s) /\ TokenOf(t) = TokenOf(s)
         \/ /\ OutcomeOf(s) = "open" /\ TokenOf(s) = "reserved"
            /\ \/ OutcomeOf(t) = "open" /\ TokenOf(t) = "burned"
               \/ OutcomeOf(t) = "right" /\ TokenOf(t) = "spent"
         \/ /\ OutcomeOf(s) = "open" /\ OutcomeOf(t) = "failed"
            /\ TokenOf(t) \in {TokenOf(s), "burned"}
<1>1. CASE s.finalized
  BY <1>1 DEF Fate, OutcomeOf, TokenOf
<1>2. CASE ~s.finalized
  <2>1. OutcomeOf(s) = "open"
    BY <1>2 DEF Fate, Ended, OutcomeOf
  <2>2. TokenOf(s) = IF s.token = "burned" THEN "burned" ELSE "reserved"
    BY <1>2 DEF Honourable, LifeOK, TokenOf
  <2>3. CASE t.finalized
    <3>1. t.token \in {"none", "spent"}
      BY <2>3 DEF Honourable, LifeOK
    <3>2. OutcomeOf(t) = "right" /\ TokenOf(t) = "spent"
      BY <2>3, <3>1 DEF Honourable, OutcomeOf, TokenOf
    <3>. QED
      BY <2>1, <2>2, <3>1, <3>2 DEF Fate
  <2>4. CASE ~t.finalized
    <3>1. OutcomeOf(t) \in {"open", "failed"}
      BY <2>4 DEF OutcomeOf
    <3>2. TokenOf(t) = IF t.token = "burned" THEN "burned" ELSE "reserved"
      BY <2>4 DEF Honourable, LifeOK, TokenOf
    <3>. QED
      BY <2>1, <2>2, <3>1, <3>2 DEF Fate
  <2>. QED
    BY <2>3, <2>4
<1>. QED
  BY <1>1, <1>2

\* A session of the invariant is honourable.
LEMMA AllHonourable ==
  ASSUME Undisturbed
  PROVE  SessionInv => \A c \in Sessions : Honourable(ses[c])
<1> SUFFICES ASSUME SessionInv, NEW c \in Sessions PROVE Honourable(ses[c])
  OBVIOUS
<1>1. LifeOK(ses[c])
  BY DEF SessionInv, LifeInv
<1>2. ses[c] \in SessionType
  BY DEF SessionInv, SessionTypeOK
<1>3. ses[c].token \in {"none", "reserved", "burned", "spent"}
  BY <1>2 DEF SessionType
<1>4. ses[c].finalized => ses[c].outputs = RightOutputs
  BY FinalOutputs
<1>. QED
  BY <1>1, <1>3, <1>4 DEF Honourable

\* Every step of a client is a step of the abstract session or a stutter.
LEMMA ClientCommits ==
  ASSUME ses = [d \in Sessions |-> ses[d]], NEW c \in Sessions, Fated(c),
         \A d \in Sessions : Honourable(ses[d]), \A d \in Sessions : Honourable(ses'[d])
  PROVE  [Commitment!CommitNext]_(Commitment!commitVars)
<1>1. PICK s : ses' = [ses EXCEPT ![c] = s] /\ Fate(ses[c], s)
  BY DEF Fated
<1>2. ses'[c] = s /\ \A d \in Sessions \ {c} : ses'[d] = ses[d]
  BY <1>1
<1>3. Honourable(ses[c]) /\ Honourable(s)
  BY <1>2
<1>4. /\ Outcome = [d \in Sessions |-> OutcomeOf(ses[d])]
      /\ Tokens = [d \in Sessions |-> TokenOf(ses[d])]
  BY Mapped
<1>5. /\ Outcome' = [d \in Sessions |-> OutcomeOf(ses'[d])]
      /\ Tokens' = [d \in Sessions |-> TokenOf(ses'[d])]
  BY MappedNext
<1>6. /\ Outcome' = [Outcome EXCEPT ![c] = OutcomeOf(s)]
      /\ Tokens' = [Tokens EXCEPT ![c] = TokenOf(s)]
  BY <1>2, <1>4, <1>5
<1>7. Outcome[c] = OutcomeOf(ses[c]) /\ Tokens[c] = TokenOf(ses[c])
  BY <1>4
<1>8. CASE OutcomeOf(s) = OutcomeOf(ses[c]) /\ TokenOf(s) = TokenOf(ses[c])
  BY <1>4, <1>6, <1>7, <1>8 DEF Commitment!commitVars
<1>9. CASE /\ OutcomeOf(ses[c]) = "open" /\ TokenOf(ses[c]) = "reserved"
           /\ OutcomeOf(s) = "open" /\ TokenOf(s) = "burned"
  <2>1. Commitment!BurnToken(c)
    BY <1>4, <1>6, <1>7, <1>9 DEF Commitment!BurnToken
  <2>. QED
    BY <2>1 DEF Commitment!CommitNext
<1>10. CASE /\ OutcomeOf(ses[c]) = "open" /\ TokenOf(ses[c]) = "reserved"
            /\ OutcomeOf(s) = "right" /\ TokenOf(s) = "spent"
  <2>1. Commitment!ReturnRight(c)
    BY <1>6, <1>7, <1>10 DEF Commitment!ReturnRight
  <2>. QED
    BY <2>1 DEF Commitment!CommitNext
<1>11. CASE /\ OutcomeOf(ses[c]) = "open" /\ OutcomeOf(s) = "failed"
            /\ TokenOf(s) \in {TokenOf(ses[c]), "burned"}
  <2>1. Commitment!EndWithoutOutputs(c)
    BY <1>4, <1>6, <1>7, <1>11 DEF Commitment!EndWithoutOutputs
  <2>. QED
    BY <2>1 DEF Commitment!CommitNext
<1>. QED
  BY <1>1, <1>3, <1>8, <1>9, <1>10, <1>11, OneFate

\* At the start every session is open and its token reserved.
LEMMA CommitStarts == SessionInit => Commitment!CommitInit
<1> SUFFICES ASSUME SessionInit PROVE Commitment!CommitInit
  OBVIOUS
<1>1. OutcomeOf(New) = "open" /\ TokenOf(New) = "reserved"
  BY DEF OutcomeOf, TokenOf, New
<1>2. \A c \in Sessions : ses[c] = New
  BY DEF SessionInit
<1>. QED
  BY <1>1, <1>2, Mapped DEF Commitment!CommitInit

\* A step that leaves the sessions alone is a stutter of the abstract ones.
LEMMA QuietCommits == ses' = ses => UNCHANGED Commitment!commitVars
<1> SUFFICES ASSUME ses' = ses PROVE UNCHANGED Commitment!commitVars
  OBVIOUS
<1>1. /\ Outcome = [c \in Sessions |-> OutcomeOf(ses[c])]
      /\ Tokens = [c \in Sessions |-> TokenOf(ses[c])]
  BY Mapped
<1>2. /\ Outcome' = [c \in Sessions |-> OutcomeOf(ses'[c])]
      /\ Tokens' = [c \in Sessions |-> TokenOf(ses'[c])]
  BY MappedNext
<1>. QED
  BY <1>1, <1>2 DEF Commitment!commitVars

\* Every session is one outsourced commitment: it ends once, either with the
\* commitments of its rows and its token spent, or without outputs, whatever
\* the network, the server and the other sessions do.
THEOREM SessionCommits ==
  ASSUME Undisturbed
  PROVE  SessionSpec => ImplementsCommitment
<1> DEFINE Good == SessionInv /\ \A c \in Sessions : Honourable(ses[c])
<1>1. SessionInv => Good
  BY AllHonourable
<1>2. Good /\ Good' /\ [SessionNext]_sessionVars
        => [Commitment!CommitNext]_(Commitment!commitVars)
  <2> SUFFICES ASSUME Good, Good', [SessionNext]_sessionVars
               PROVE  [Commitment!CommitNext]_(Commitment!commitVars)
    OBVIOUS
  <2>1. ses = [d \in Sessions |-> ses[d]]
    BY DEF SessionInv, SessionTypeOK
  <2>2. ASSUME NEW c \in Sessions, Begin(c) \/ ClientWork(c) \/ ClientKilled(c)
        PROVE  [Commitment!CommitNext]_(Commitment!commitVars)
    <3>1. Fated(c)
      BY <2>2, ClientFate
    <3>2. \A d \in Sessions : Honourable(ses'[d])
      BY DEF Honourable, LifeOK, New, RightOutputs
    <3>. QED
      BY <2>1, <3>1, <3>2, ClientCommits
  <2>3. CASE UNCHANGED ses
    BY <2>3, QuietCommits
  <2>. QED
    BY <2>2, <2>3 DEF SessionNext, sessionVars
<1>3. SessionInit => Commitment!CommitInit
  BY CommitStarts
<1> HIDE DEF Good
<1>. QED
  BY <1>1, <1>2, <1>3, SessionInvariance, PTL
     DEF SessionSpec, ImplementsCommitment, Commitment!CommitSpec

===============================================================================
