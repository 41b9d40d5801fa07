------------------------------ MODULE PbmoTraffic ------------------------------
(***************************************************************************)
(* PbmoServer with clients that may write any frame next, after the server *)
(* has read the one before: the well-formed one, or one that repeats,      *)
(* skips, overlaps, miscounts, aborts or does not decode.  These are the   *)
(* cases of run_transport_rejection_suite in                               *)
(* experiments/preprocessed-pbmo/src/transport.rs, in every order.         *)
(***************************************************************************)
EXTENDS PbmoServer

CONSTANT Total   \* expected_chunk_count of a valid header

\* The values beside the one a frame should have.
Beside(n) == {n + 1} \cup (IF n = 0 THEN {} ELSE {n - 1})

Ready(c) == client[c] = "open" /\ wire[c] = <<>> /\ stage[c] \in {"header", "chunks"}

Others == <<client, answer, acceptVars, stage, req, log, faults>>

Dial(c) == Connected(c) /\ UNCHANGED faults

NoChunk == [index |-> 0, total |-> 0, row |-> 0, from |-> 0, to |-> 0]

WriteHeader(c) ==
  /\ Ready(c)
  /\ \E f \in {HeaderFrame(0, TRUE, Total), HeaderFrame(1, TRUE, Total),
               HeaderFrame(0, FALSE, Total), HeaderFrame(0, TRUE, 0)} : Write(c, f)
  /\ UNCHANGED Others

\* The chunks that may come next, and those that are wrong in one place.
NextChunks(c) ==
  {[index |-> req[c].chunks, total |-> Total, row |-> r, from |-> req[c].col[r], to |-> x] :
     r \in Rows, x \in 1..M}

WrongChunks(p) ==
  {[p EXCEPT !.index = i] : i \in Beside(p.index)}
    \cup {[p EXCEPT !.total = Total + 1], [p EXCEPT !.row = Q], [p EXCEPT !.to = M + 1]}
    \cup {[p EXCEPT !.from = x] : x \in Beside(p.from)}

WriteChunk(c) ==
  /\ Ready(c)
  /\ \E p \in NextChunks(c) :
       \/ Write(c, ChunkFrame(req[c].chunks + 1, p))
       \/ \E seq \in Beside(req[c].chunks + 1) : Write(c, ChunkFrame(seq, p))
       \/ \E w \in WrongChunks(p) : Write(c, ChunkFrame(req[c].chunks + 1, w))
  /\ UNCHANGED Others

WriteFinish(c) ==
  /\ Ready(c)
  /\ LET k == req[c] IN
       \/ Write(c, FinishFrame(k.chunks + 1, k.chunks, k.scalars, k.digest))
       \/ Write(c, FinishFrame(k.chunks, k.chunks, k.scalars, k.digest))
       \/ \E n \in Beside(k.chunks) : Write(c, FinishFrame(k.chunks + 1, n, k.scalars, k.digest))
       \/ \E n \in Beside(k.scalars) : Write(c, FinishFrame(k.chunks + 1, k.chunks, n, k.digest))
       \/ Write(c, FinishFrame(k.chunks + 1, k.chunks, k.scalars, Append(k.digest, NoChunk)))
  /\ UNCHANGED Others

WriteOther(c) ==
  /\ Ready(c)
  /\ \E type \in {"abort", "broken"} : Write(c, BareFrame(type, req[c].chunks + 1))
  /\ UNCHANGED Others

Disconnect(c) ==
  /\ client[c] = "open"
  /\ Hangup(c)
  /\ UNCHANGED <<wire, answer, acceptVars, stage, req, log, faults>>

TrafficNext ==
  \/ ServerWork
  \/ ServerKilled
  \/ \E c \in Sessions :
       \/ Dial(c)
       \/ WriteHeader(c)
       \/ WriteChunk(c)
       \/ WriteFinish(c)
       \/ WriteOther(c)
       \/ Disconnect(c)

TrafficSpec == ServerInit /\ [][TrafficNext]_serverVars

-------------------------------------------------------------------------------
(* Properties *)

\* PASS in the metrics: the client has been sent the digest of its chunks and
\* the product of every complete row, in the order of the rows.
PassMeansAnswered ==
  \A c \in Sessions :
    log[c].status = "PASS" =>
      answer[c] = <<[type |-> "responseHeader", digest |-> req[c].digest],
                    [type |-> "responseBody", outputs |-> [j \in 1..Q |-> FullRow(j - 1)]]>>

\* The client of a refused connection never gets a response body.
RefusedMeansUnanswered ==
  \A c \in Sessions :
    log[c].status = "REJECTED" =>
      \A i \in 1..Len(answer[c]) : answer[c][i].type # "responseBody"

\* What the metrics line says of a connection is what its client was sent:
\* PASS the right answer in full, REJECTED at most a header.
MetricsMatchAnswer == PassMeansAnswered /\ RefusedMeansUnanswered

===============================================================================
