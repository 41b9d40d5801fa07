------------------------------ MODULE PbmoServer ------------------------------
(***************************************************************************)
(* The PBMO server: handle_tcp_connection and its validators in            *)
(* experiments/preprocessed-pbmo/src/transport.rs, and the accept loop of  *)
(* experiments/libspartan/src/bin/pbmo_tcp_server.rs.  One thread takes    *)
(* the connections of the accept queue one after the other, reads a        *)
(* header, the masked chunks and the finish frame, multiplies, answers     *)
(* and writes one line of metrics.                                         *)
(*                                                                         *)
(* A masked scalar is the cell <<row, column>> it belongs to, the digest   *)
(* of a request is the sequence of its chunks, and a frame that does not   *)
(* decode (magic, version, tag, truncation, non-canonical scalar) is       *)
(* "broken".  Rows and columns count from 0 as in the code.  The clients   *)
(* write frames with Write; PbmoTraffic and PbmoSession say which.         *)
(***************************************************************************)
EXTENDS Integers, Sequences

CONSTANTS
  Sessions,        \* clients; each opens at most one connection
  Q, M,            \* rows (outputs) and columns (shared bases)
  MaxConnections,  \* THINWALLET_PBMO_MAX_CONNECTIONS
  MaxFaults,       \* bound on I/O errors and on processes killed
  NoSession

ASSUME ServerConstantsOK ==
  /\ Q \in Nat \ {0}
  /\ M \in Nat \ {0}
  /\ MaxConnections \in Nat
  /\ MaxFaults \in Nat
  /\ NoSession \notin Sessions

VARIABLES
  client,     \* the client's end of its connection
  wire,       \* frames on their way to the server
  answer,     \* frames on their way to the client
  listening,  \* the listener is open
  backlog,    \* the accept queue
  accepted,   \* connections accepted so far
  serving,    \* the connection the server works on
  stage,      \* how far the server is with each connection
  req,        \* the request it has assembled
  log,        \* what its metrics say: msm_started and status
  faults      \* I/O errors and kills so far

netVars    == <<client, wire, answer>>
acceptVars == <<listening, backlog, accepted, serving>>
serverVars == <<netVars, acceptVars, stage, req, log, faults>>

-------------------------------------------------------------------------------
(* Frames and requests *)

Rows == 0..(Q - 1)

Chunks == [index : Nat, total : Nat, row : Nat, from : Nat, to : Nat]

HeaderFrame(seq, valid, total) ==
  [type |-> "header", seq |-> seq, body |-> [valid |-> valid, total |-> total]]

ChunkFrame(seq, p) == [type |-> "chunk", seq |-> seq, body |-> p]

FinishFrame(seq, chunks, scalars, digest) ==
  [type |-> "finish", seq |-> seq,
   body |-> [chunks |-> chunks, scalars |-> scalars, digest |-> digest]]

BareFrame(type, seq) == [type |-> type, seq |-> seq]

ErrorFrame == [type |-> "error"]

\* The masked scalars of row r in columns from .. to - 1.
Cells(r, from, to) == [i \in 1..(to - from) |-> <<r, from + i - 1>>]

FullRow(r) == Cells(r, 0, M)

NoRequest ==
  [total |-> 0, chunks |-> 0, scalars |-> 0, digest |-> <<>>,
   col |-> [r \in Rows |-> 0], rows |-> [r \in Rows |-> <<>>]]

NoLog == [msm |-> FALSE, status |-> "none"]

-------------------------------------------------------------------------------
(* Validation *)

\* The first frame, decode_request_header and validate_header: "valid" stands
\* for the comparisons with versions, curve, basis, dimensions and byte counts.
HeaderAccepted(f) ==
  /\ f.type = "header"
  /\ f.seq = 0
  /\ f.body.valid
  /\ f.body.total > 0

\* validate_chunk.
ValidChunk(k, p) ==
  /\ p.index = k.chunks
  /\ p.total = k.total
  /\ p.row \in Rows
  /\ p.from = k.col[p.row]
  /\ p.to \in (p.from + 1)..M

ChunkAccepted(k, f) ==
  /\ f.type = "chunk"
  /\ f.seq = k.chunks + 1
  /\ ValidChunk(k, f.body)

\* Mutant of Complete: only the chunks are counted.
CompleteByCount(k) == k.chunks = k.total

\* validate_complete.
Complete(k) ==
  /\ k.chunks = k.total
  /\ k.scalars = Q * M
  /\ \A r \in Rows : k.col[r] = M

FinishAccepted(k, f) ==
  /\ f.type = "finish"
  /\ f.seq = k.chunks + 1
  /\ Complete(k)
  /\ f.body.chunks = k.chunks
  /\ f.body.scalars = k.scalars
  /\ f.body.digest = k.digest

FrameAccepted(c, f) ==
  \/ stage[c] = "header" /\ HeaderAccepted(f)
  \/ stage[c] = "chunks" /\ (ChunkAccepted(req[c], f) \/ FinishAccepted(req[c], f))

-------------------------------------------------------------------------------
(* The clients' ends *)

\* connect_timeout succeeds: the kernel queues the connection.
Connected(c) ==
  /\ client[c] = "none"
  /\ listening
  /\ client' = [client EXCEPT ![c] = "open"]
  /\ backlog' = Append(backlog, c)
  /\ stage' = [stage EXCEPT ![c] = "queued"]
  /\ UNCHANGED <<wire, answer, listening, accepted, serving, req, log>>

\* What the server has closed swallows the frame.
Write(c, f) ==
  wire' = [wire EXCEPT ![c] = IF stage[c] = "closed" THEN @ ELSE Append(@, f)]

\* The client's socket is shut down or its process is gone.
Hangup(c) == client' = [client EXCEPT ![c] = IF @ = "open" THEN "closed" ELSE @]

-------------------------------------------------------------------------------
(* The server *)

ServerInit ==
  /\ client = [c \in Sessions |-> "none"]
  /\ wire = [c \in Sessions |-> <<>>]
  /\ answer = [c \in Sessions |-> <<>>]
  /\ listening = TRUE
  /\ backlog = <<>>
  /\ accepted = 0
  /\ serving = NoSession
  /\ stage = [c \in Sessions |-> "none"]
  /\ req = [c \in Sessions |-> NoRequest]
  /\ log = [c \in Sessions |-> NoLog]
  /\ faults = 0

\* The loop takes the next connection.
Accept ==
  /\ listening
  /\ serving = NoSession
  /\ backlog # <<>>
  /\ serving' = Head(backlog)
  /\ backlog' = Tail(backlog)
  /\ accepted' = accepted + 1
  /\ stage' = [stage EXCEPT ![Head(backlog)] = "header"]
  /\ UNCHANGED <<netVars, listening, req, log, faults>>

\* A frame has been read whole and its tag is right.
Received(c) ==
  /\ wire[c] # <<>>
  /\ wire' = [wire EXCEPT ![c] = Tail(@)]

TakeHeader(c) ==
  /\ stage[c] = "header"
  /\ Received(c)
  /\ HeaderAccepted(Head(wire[c]))
  /\ req' = [req EXCEPT ![c] =
       [total |-> Head(wire[c]).body.total, chunks |-> 0, scalars |-> 0, digest |-> <<>>,
        col |-> [r \in Rows |-> 0], rows |-> [r \in Rows |-> <<>>]]]
  /\ stage' = [stage EXCEPT ![c] = "chunks"]
  /\ UNCHANGED <<client, answer, acceptVars, log, faults>>

\* The request with one more chunk.
WithChunk(k, p) ==
  [total |-> k.total, chunks |-> k.chunks + 1, scalars |-> k.scalars + (p.to - p.from),
   digest |-> Append(k.digest, p), col |-> [k.col EXCEPT ![p.row] = p.to],
   rows |-> [k.rows EXCEPT ![p.row] = @ \o Cells(p.row, p.from, p.to)]]

TakeChunk(c) ==
  /\ stage[c] = "chunks"
  /\ Received(c)
  /\ ChunkAccepted(req[c], Head(wire[c]))
  /\ req' = [req EXCEPT ![c] = WithChunk(req[c], Head(wire[c]).body)]
  /\ UNCHANGED <<client, answer, acceptVars, stage, log, faults>>

\* Mutant of TakeFinish: the server starts when it has all the rows.
TakeFinishEarly(c) ==
  /\ stage[c] = "chunks"
  /\ Complete(req[c])
  /\ stage' = [stage EXCEPT ![c] = "multiplying"]
  /\ log' = [log EXCEPT ![c] = [msm |-> TRUE, status |-> "none"]]
  /\ UNCHANGED <<netVars, acceptVars, req, faults>>

\* The request is complete: REQUEST_VALIDATED, MSM_STARTED.
TakeFinish(c) ==
  /\ stage[c] = "chunks"
  /\ Received(c)
  /\ FinishAccepted(req[c], Head(wire[c]))
  /\ stage' = [stage EXCEPT ![c] = "multiplying"]
  /\ log' = [log EXCEPT ![c] = [msm |-> TRUE, status |-> "none"]]
  /\ UNCHANGED <<client, answer, acceptVars, req, faults>>

\* Every error ends the connection: an Error frame if it can be written, then
\* a shutdown of both directions; what was still to be read is lost.
Refuse(c) ==
  /\ stage' = [stage EXCEPT ![c] = "closed"]
  /\ log' = [log EXCEPT ![c] = [msm |-> @.msm, status |-> "REJECTED"]]
  /\ wire' = [wire EXCEPT ![c] = <<>>]
  /\ \/ answer' = [answer EXCEPT ![c] = Append(@, ErrorFrame)]
     \/ UNCHANGED answer
  /\ UNCHANGED <<client, acceptVars, req, faults>>

RefuseFrame(c) ==
  /\ stage[c] \in {"header", "chunks"}
  /\ wire[c] # <<>>
  /\ ~FrameAccepted(c, Head(wire[c]))
  /\ Refuse(c)

\* Mutant of ReadFails: the connection has no read timeout.
ReadFailsOnlyClosed(c) ==
  /\ stage[c] \in {"header", "chunks"}
  /\ client[c] = "closed"
  /\ Refuse(c)

\* read_frame fails: the peer has closed or reset the connection, or nothing
\* has come for the read timeout of 120 seconds.
ReadFails(c) ==
  /\ stage[c] \in {"header", "chunks"}
  /\ wire[c] = <<>> \/ client[c] = "closed"
  /\ Refuse(c)

\* Mutant of Products: the row that came last is answered in every place.
ProductsShifted(k) == [j \in 1..Q |-> k.rows[Q - j]]

\* The outputs, in the order of the rows: the sum over the cells of a row.
Products(k) == [j \in 1..Q |-> k.rows[j - 1]]

\* The answer to a request, in two frames.
HeaderOf(k) == [type |-> "responseHeader", digest |-> k.digest]

BodyOf(k) == [type |-> "responseBody", outputs |-> Products(k)]

\* The multiplication, then the response header.  write_frame fails when the
\* client is gone, when it takes nothing for the write timeout of 120 seconds,
\* and when the payload is larger than a frame may be.
SendResponseHeader(c) ==
  /\ stage[c] = "multiplying"
  /\ \/ /\ answer' = [answer EXCEPT ![c] = Append(@, HeaderOf(req[c]))]
        /\ stage' = [stage EXCEPT ![c] = "body"]
        /\ UNCHANGED <<client, wire, acceptVars, req, log, faults>>
     \/ Refuse(c)

SendResponseBody(c) ==
  /\ stage[c] = "body"
  /\ \/ /\ answer' = [answer EXCEPT ![c] = Append(@, BodyOf(req[c]))]
        /\ stage' = [stage EXCEPT ![c] = "closed"]
        /\ log' = [log EXCEPT ![c] = [msm |-> @.msm, status |-> "PASS"]]
        /\ wire' = [wire EXCEPT ![c] = <<>>]
        /\ UNCHANGED <<client, acceptVars, req, faults>>
     \/ Refuse(c)

\* main returns or the process is killed: every connection it held is reset.
ServerGone ==
  /\ listening' = FALSE
  /\ serving' = NoSession
  /\ backlog' = <<>>
  /\ stage' = [c \in Sessions |-> IF stage[c] = "none" THEN "none" ELSE "closed"]
  /\ wire' = [c \in Sessions |-> <<>>]

\* The line of metrics is appended; an error there ends the server.
WriteMetrics(c) ==
  /\ serving = c
  /\ stage[c] = "closed"
  /\ \/ /\ accepted < MaxConnections
        /\ serving' = NoSession
        /\ UNCHANGED <<listening, backlog, stage, wire, faults>>
     \/ /\ accepted >= MaxConnections
        /\ ServerGone
        /\ UNCHANGED faults
     \/ /\ faults < MaxFaults
        /\ faults' = faults + 1
        /\ ServerGone
  /\ UNCHANGED <<client, answer, accepted, req, log>>

ServerKilled ==
  /\ listening
  /\ faults < MaxFaults
  /\ faults' = faults + 1
  /\ ServerGone
  /\ UNCHANGED <<client, answer, accepted, req, log>>

ServerWork ==
  \/ Accept
  \/ \E c \in Sessions :
       \/ TakeHeader(c)
       \/ TakeChunk(c)
       \/ TakeFinish(c)
       \/ RefuseFrame(c)
       \/ ReadFails(c)
       \/ SendResponseHeader(c)
       \/ SendResponseBody(c)
       \/ WriteMetrics(c)

-------------------------------------------------------------------------------
(* Properties of the server, whatever the clients write *)

Working == {"header", "chunks", "multiplying", "body"}

\* The server performs no MSM until header, chunks, counts, row coverage and
\* digest have been accepted (theory/pbmo_transport_protocol.md): when one has
\* started, every row holds each of its columns once, in order.
MsmAfterCompleteRequest ==
  \A c \in Sessions :
    log[c].msm => \A r \in Rows : req[c].rows[r] = FullRow(r)

\* One thread: at most one connection is being worked on, and it is the one
\* the loop has accepted.
OneConnectionAtATime ==
  \A c \in Sessions : stage[c] \in Working => serving = c

===============================================================================
