------------------------------ MODULE PbmoSession ------------------------------
(***************************************************************************)
(* The client of a PBMO server:                                            *)
(* experiments/preprocessed-pbmo/src/provider.rs (begin, push_chunk,       *)
(* finish and Drop of PbmoSession) of all four providers, over no          *)
(* transport, LoopbackTransport or TcpTransport of transport.rs, and       *)
(* SecureSpool of secure_spool.rs, composed with PbmoServer.  A session    *)
(* pushes its rows in chunks, to the server or to its own accumulators,    *)
(* keeps a copy in the spool in malicious mode, compares the outputs with  *)
(* the copy, takes off the corrections and returns.  Every error drops     *)
(* the session.                                                            *)
(*                                                                         *)
(* A group element is the sequence of the masked scalars that were added   *)
(* up in it, so the aggregate check compares rows, as it does for a random *)
(* challenge except with probability 1/|Fr|.                               *)
(***************************************************************************)
EXTENDS PbmoServer, SecureSpool

CONSTANTS
  Modes,       \* "native", "plain", "semi", "malicious"
  Links,       \* "local": no transport, the rows are summed up here; "loopback"; "tcp"
  Hooks,       \* with_corruption: what the test hook does to the outputs
  ChunkLens,   \* sizes of the chunks the caller pushes
  Expected,    \* expected_chunks of the context
  RowMajor,    \* the caller pushes row after row, as pbmo_commitment.rs does
  Retries,     \* the caller may push again after an error, or finish too early
  MaxPayload   \* bound on the spool of a caller that repeats a failed push

ASSUME SessionConstantsOK ==
  /\ ChunkLens \subseteq Nat \ {0}
  /\ Expected \in Nat \ {0}
  /\ MaxPayload \in Nat
  /\ RowMajor \in BOOLEAN
  /\ Retries \in BOOLEAN

VARIABLES
  ses,    \* the sessions
  spool   \* their spools

sessionVars == <<serverVars, ses, spool>>

New ==
  [phase |-> "new", mode |-> "semi", link |-> "local", hook |-> "none",
   col |-> [r \in Rows |-> 0], acc |-> [r \in Rows |-> <<>>],
   chunks |-> 0, seq |-> 0, scalars |-> 0, hashed |-> <<>>,
   outputs |-> <<>>, token |-> "reserved", finalized |-> FALSE, err |-> "none"]

\* The local and the plain provider use no token and no mask.
IsPreprocessed(mode) == mode \in {"semi", "malicious"}

\* provider_for: only a provider with a token takes a transport.
Offered == {p \in Modes \X Links : IsPreprocessed(p[1]) \/ p[2] = "local"}

SessionInit ==
  /\ ServerInit
  /\ ses = [c \in Sessions |-> New]
  /\ spool = [c \in Sessions |-> NoSpool]

Goto(c, phase) == ses' = [ses EXCEPT ![c].phase = phase]
Dropping(c, why) == ses' = [ses EXCEPT ![c].phase = "dropping", ![c].err = why]

Fault == faults < MaxFaults /\ faults' = faults + 1

Unserved == <<acceptVars, stage, req, log>>
Untouched == <<netVars, Unserved>>

-------------------------------------------------------------------------------
(* TcpTransport *)

\* write_frame fails, because the server has closed or for another reason; it
\* may have written a part of the frame.
FrameLost(c) ==
  /\ (stage[c] = "closed" /\ UNCHANGED faults) \/ Fault
  /\ UNCHANGED wire \/ Write(c, BareFrame("broken", ses[c].seq))

FirstPhase(link) ==
  CASE link = "tcp" -> "connecting" [] link = "loopback" -> "greeting" [] OTHER -> "uploading"

\* begin of the four providers: the malicious one creates the spool, then
\* start_session refuses dimensions, a basis, a token or a reservation that do
\* not fit.  No session is there to drop then: the token is left to the caller,
\* and only the spool's own Drop removes its file, if it can.
Begin(c) ==
  /\ ses[c].phase = "new"
  /\ \E p \in Offered :
       LET begun(phase) ==
             [New EXCEPT !.phase = phase, !.mode = p[1], !.link = p[2],
                         !.token = IF IsPreprocessed(p[1]) THEN "reserved" ELSE "none"]
       IN \/ /\ ses' = [ses EXCEPT ![c] = begun(FirstPhase(p[2]))]
             /\ spool' = [spool EXCEPT ![c] = IF p[1] = "malicious" THEN Created ELSE @]
             /\ UNCHANGED faults
          \/ /\ ses' = [ses EXCEPT ![c] = begun("refused")]
             /\ \/ UNCHANGED <<spool, faults>>
                \/ p[1] = "malicious" /\ Fault /\ spool' \in {spool, [spool EXCEPT ![c] = Created]}
  /\ UNCHANGED Untouched

\* reserve_session.
Connect(c) ==
  /\ ses[c].phase = "connecting"
  /\ \/ Connected(c) /\ Goto(c, "greeting") /\ UNCHANGED faults
     \/ /\ (~listening /\ UNCHANGED faults) \/ Fault
        /\ Dropping(c, "other")
        /\ UNCHANGED Untouched
  /\ UNCHANGED spool

\* send_request_header.
SendHeader(c) ==
  /\ ses[c].phase = "greeting"
  /\ ses[c].link = "tcp"
  /\ \/ /\ Write(c, HeaderFrame(ses[c].seq, TRUE, Expected))
        /\ ses' = [ses EXCEPT ![c].phase = "uploading", ![c].seq = @ + 1]
        /\ UNCHANGED faults
     \/ FrameLost(c) /\ Dropping(c, "other")
  /\ UNCHANGED <<client, answer, Unserved, spool>>

\* LoopbackTransport runs the server's validators in the caller's process, on a
\* request of its own that never sees the network: req[c] without a connection.
LoopbackHeader(c) ==
  /\ ses[c].phase = "greeting"
  /\ ses[c].link = "loopback"
  /\ req' = [req EXCEPT ![c] = [NoRequest EXCEPT !.total = Expected]]
  /\ ses' = [ses EXCEPT ![c].phase = "uploading", ![c].seq = @ + 1]
  /\ UNCHANGED <<netVars, acceptVars, stage, log, faults, spool>>

-------------------------------------------------------------------------------
(* push_private_row_chunk *)

AllPushed(c) == \A r \in Rows : ses[c].col[r] = M

\* maybe_commit_private_rows pushes row after row; the library takes any row.
PushesRow(c, r) ==
  /\ ses[c].phase = "uploading"
  /\ ses[c].col[r] < M
  /\ RowMajor => \A q \in Rows : q < r => ses[c].col[q] = M

ChunkEnd(c, r, n) == IF ses[c].col[r] + n < M THEN ses[c].col[r] + n ELSE M

ChunkOf(c, r, n) == Cells(r, ses[c].col[r], ChunkEnd(c, r, n))

\* The spool comes before the transport.
Spooled(c, cells) ==
  IF ses[c].mode = "malicious" THEN [spool EXCEPT ![c] = AfterAppend(@, cells)] ELSE spool

\* The adapter panics on an error and drops the session, another caller may
\* go on and push the chunk again.
PushError(c, s) ==
  \/ ses' = [ses EXCEPT ![c] = [s EXCEPT !.phase = "dropping", !.err = "other"]]
  \/ /\ Retries
     /\ Len(spool[c].payload) < MaxPayload
     /\ ses' = [ses EXCEPT ![c] = s]

TransportChunk(c, r, n) ==
  [index |-> ses[c].chunks, total |-> Expected, row |-> r,
   from |-> ses[c].col[r], to |-> ChunkEnd(c, r, n)]

\* send_masked_chunk of LoopbackTransport, or of another.
LoopedBack(c, p) ==
  req' = IF ses[c].link = "loopback" THEN [req EXCEPT ![c] = WithChunk(@, p)] ELSE req

Loopable(c, p) == ses[c].link = "loopback" => ValidChunk(req[c], p)

\* The session after a chunk has been sent, or added to its accumulator.
WithPushed(c, r, n) ==
  LET s == ses[c]
      p == TransportChunk(c, r, n)
      t == [s EXCEPT !.col[r] = p.to, !.chunks = @ + 1]
  IN IF s.link = "local"
       THEN [t EXCEPT !.acc[r] = @ \o ChunkOf(c, r, n)]
       ELSE [t EXCEPT !.seq = @ + 1, !.scalars = @ + (p.to - p.from), !.hashed = Append(@, p)]

\* The chunk is pushed; the DURING_UPLOAD marker after it can fail.
Push(c, r, n) ==
  /\ PushesRow(c, r)
  /\ Loopable(c, TransportChunk(c, r, n))
  /\ LoopedBack(c, TransportChunk(c, r, n))
  /\ LET s == WithPushed(c, r, n) IN
       /\ IF s.link = "tcp" THEN Write(c, ChunkFrame(ses[c].seq, s.hashed[Len(s.hashed)]))
                            ELSE UNCHANGED wire
       /\ \/ ses' = [ses EXCEPT ![c] = s] /\ UNCHANGED faults
          \/ PushError(c, s) /\ Fault
  /\ spool' = Spooled(c, ChunkOf(c, r, n))
  /\ UNCHANGED <<client, answer, acceptVars, stage, log>>

\* The first marker or the spool fails: nothing is sent.
PushStops(c, r, n) ==
  /\ PushesRow(c, r)
  /\ Fault
  /\ PushError(c, ses[c])
  /\ IF ses[c].mode = "malicious"
       THEN \E k \in 0..(Len(ChunkOf(c, r, n)) - 1) :
              spool' = [spool EXCEPT ![c] = AfterTornAppend(@, ChunkOf(c, r, n), k)]
       ELSE UNCHANGED spool
  /\ UNCHANGED Untouched

\* The chunk is in the spool and cannot be sent, or is refused.
PushLost(c, r, n) ==
  /\ PushesRow(c, r)
  /\ \/ ses[c].link = "tcp" /\ FrameLost(c)
     \/ ~Loopable(c, TransportChunk(c, r, n)) /\ UNCHANGED <<wire, faults>>
  /\ PushError(c, ses[c])
  /\ spool' = Spooled(c, ChunkOf(c, r, n))
  /\ UNCHANGED <<client, answer, Unserved>>

-------------------------------------------------------------------------------
(* finalize *)

\* The token of a session that has one.
Settled(token, state) == IF token = "none" THEN "none" ELSE state

\* finish with rows missing; pbmo_commitment.rs does not get here.
FinishIncomplete(c) ==
  /\ Retries
  /\ ses[c].phase = "uploading"
  /\ ~AllPushed(c)
  /\ ses' = [ses EXCEPT ![c].phase = "dropping", ![c].err = "other",
                         ![c].token = Settled(@, "burned")]
  /\ UNCHANGED <<Untouched, faults, spool>>

\* The outputs are there.  with_corruption chose a hook before begin, only in
\* malicious mode; its choice is made here, where it begins to matter.
WithOutputs(c, o) ==
  \E hook \in (IF ses[c].mode = "malicious" THEN Hooks ELSE {"none"}) :
    ses' = [ses EXCEPT ![c] = [@ EXCEPT !.phase = "outputs", !.outputs = o, !.hook = hook]]

FinishLocal(c) ==
  /\ ses[c].phase = "uploading"
  /\ ses[c].link = "local"
  /\ AllPushed(c)
  /\ WithOutputs(c, [j \in 1..Q |-> ses[c].acc[j - 1]])
  /\ UNCHANGED <<Untouched, faults, spool>>

\* finish_request.
SendFinish(c) ==
  /\ ses[c].phase = "uploading"
  /\ ses[c].link = "tcp"
  /\ AllPushed(c)
  /\ \/ /\ Write(c, FinishFrame(ses[c].seq, Len(ses[c].hashed), ses[c].scalars, ses[c].hashed))
        /\ ses' = [ses EXCEPT ![c].phase = "waiting", ![c].seq = @ + 1]
        /\ UNCHANGED faults
     \/ FrameLost(c) /\ Dropping(c, "other")
  /\ UNCHANGED <<client, answer, Unserved, spool>>

\* finish_request of LoopbackTransport multiplies at once, or refuses.
FinishLoopback(c) ==
  /\ ses[c].phase = "uploading"
  /\ ses[c].link = "loopback"
  /\ AllPushed(c)
  /\ IF Complete(req[c])
       THEN /\ ses' = [ses EXCEPT ![c].phase = "waiting", ![c].seq = @ + 1]
            /\ log' = [log EXCEPT ![c].msm = TRUE]
       ELSE Dropping(c, "other") /\ UNCHANGED log
  /\ UNCHANGED <<netVars, acceptVars, stage, req, faults, spool>>

ReceiveLoopback(c) ==
  /\ ses[c].phase = "waiting"
  /\ ses[c].link = "loopback"
  /\ WithOutputs(c, Products(req[c]))
  /\ UNCHANGED <<Untouched, faults, spool>>

RightHeader(c, f) == f.type = "responseHeader" /\ f.digest = ses[c].hashed

\* receive_response: an error frame, another digest or a wrong number of
\* points is an error.
ReceiveHeader(c) ==
  /\ ses[c].phase = "waiting"
  /\ answer[c] # <<>>
  /\ answer' = [answer EXCEPT ![c] = Tail(@)]
  /\ IF RightHeader(c, Head(answer[c])) THEN Goto(c, "body") ELSE Dropping(c, "other")
  /\ UNCHANGED <<client, wire, Unserved, faults, spool>>

ReceiveBody(c) ==
  /\ ses[c].phase = "body"
  /\ answer[c] # <<>>
  /\ answer' = [answer EXCEPT ![c] = Tail(@)]
  /\ LET f == Head(answer[c]) IN
       IF f.type = "responseBody" /\ Len(f.outputs) = Q
         THEN WithOutputs(c, f.outputs)
         ELSE Dropping(c, "other")
  /\ UNCHANGED <<client, wire, Unserved, faults, spool>>

\* Mutant of ReceiveFails: silence and the end of the stream go unnoticed.
ReceiveFailsNever(c) ==
  /\ ses[c].phase \in {"waiting", "body"}
  /\ answer[c] # <<>>
  /\ stage[c] = "closed"
  /\ Dropping(c, "other")
  /\ UNCHANGED <<Untouched, faults, spool>>

\* The read timeout passes, or the connection is closed or reset.
ReceiveFails(c) ==
  /\ ses[c].phase \in {"waiting", "body"}
  /\ ses[c].link = "tcp"
  /\ answer[c] = <<>> \/ stage[c] = "closed"
  /\ Dropping(c, "other")
  /\ UNCHANGED <<Untouched, faults, spool>>

\* AFTER_UPLOAD, WAITING_FOR_RESPONSE, AFTER_RESPONSE or DURING_CORRECTION
\* cannot be written.
MarkerFails(c) ==
  /\ \/ ses[c].phase = "uploading" /\ AllPushed(c) /\ ses[c].link # "local"
     \/ ses[c].phase = "waiting"
     \/ ses[c].phase = "outputs" /\ ses[c].link # "local"
     \/ ses[c].phase = "checked" /\ IsPreprocessed(ses[c].mode)
  /\ Fault
  /\ Dropping(c, "other")
  /\ UNCHANGED <<Untouched, spool>>

-------------------------------------------------------------------------------
(* The aggregate check *)

\* A point that is no sum of pushed scalars.
OtherPoint == <<>>

\* Corruption.
Hooked(hook, o) ==
  CASE hook = "oneOutput"                 -> [o EXCEPT ![1] = OtherPoint]
    [] hook = "correlated" /\ Q > 1       -> [o EXCEPT ![1] = OtherPoint, ![2] = OtherPoint]
    [] hook = "reorder" /\ Q > 1          -> [o EXCEPT ![1] = o[2], ![2] = o[1]]
    [] hook = "omit"                      -> SubSeq(o, 1, Len(o) - 1)
    [] hook = "duplicate" /\ Q > 1        -> [o EXCEPT ![2] = o[1]]
    [] hook = "replayed"                  -> [j \in 1..Q |-> OtherPoint]
    [] OTHER                              -> o

\* Mutant of Matches: only the first row is compared.
MatchesFirst(s, o) == o[1] = SubSeq(s.payload, 1, M)

\* t = y_rho: the outputs are the rows of the spool, read row by row.
Matches(s, o) == \A j \in 1..Q : o[j] = SubSeq(s.payload, (j - 1) * M + 1, j * M)

Checkable(c) == ses[c].phase = "outputs" /\ ses[c].mode = "malicious"

Claimed(c) == Hooked(ses[c].hook, ses[c].outputs)

SkipCheck(c) ==
  /\ ses[c].phase = "outputs"
  /\ ses[c].mode # "malicious"
  /\ Goto(c, "checked")
  /\ UNCHANGED <<Untouched, faults, spool>>

BurnedBy(c, why) ==
  ses' = [ses EXCEPT ![c].phase = "dropping", ![c].err = why, ![c].token = "burned"]

RejectCount(c) ==
  /\ Checkable(c)
  /\ Len(Claimed(c)) # Q
  /\ BurnedBy(c, "integrity")
  /\ UNCHANGED <<Untouched, faults, spool>>

\* The spool does not hold what was pushed, or cannot be sealed and read.
SealFails(c) ==
  /\ Checkable(c)
  /\ Len(Claimed(c)) = Q
  /\ \/ /\ ~Sealable(spool[c], Q * M)
        /\ spool' = [spool EXCEPT ![c] = IF @.written = Q * M THEN Sealed(@) ELSE @]
        /\ UNCHANGED faults
     \/ /\ Sealable(spool[c], Q * M)
        /\ Fault
        /\ \E s \in SealStops(spool[c]) : spool' = [spool EXCEPT ![c] = s]
  /\ Dropping(c, "other")
  /\ UNCHANGED Untouched

\* remove, which may stop.
Remove(c, s) ==
  \/ spool' = [spool EXCEPT ![c] = Removed(s)] /\ UNCHANGED faults
  \/ Fault /\ \E r \in RemoveStops(s) : spool' = [spool EXCEPT ![c] = r]

RejectOutputs(c) ==
  /\ Checkable(c)
  /\ Len(Claimed(c)) = Q
  /\ Sealable(spool[c], Q * M)
  /\ ~Matches(spool[c], Claimed(c)) \/ ses[c].hook = "afterChallenge"
  /\ BurnedBy(c, "integrity")
  /\ Remove(c, Sealed(spool[c]))
  /\ UNCHANGED Untouched

\* The check passes; an error of remove still ends the session.
AcceptOutputs(c) ==
  /\ Checkable(c)
  /\ Len(Claimed(c)) = Q
  /\ Sealable(spool[c], Q * M)
  /\ Matches(spool[c], Claimed(c))
  /\ ses[c].hook # "afterChallenge"
  /\ \/ /\ spool' = [spool EXCEPT ![c] = Removed(Sealed(@))]
        /\ ses' = [ses EXCEPT ![c].phase = "checked", ![c].outputs = Claimed(c)]
        /\ UNCHANGED faults
     \/ /\ Fault
        /\ \E r \in RemoveStops(Sealed(spool[c])) : spool' = [spool EXCEPT ![c] = r]
        /\ Dropping(c, "other")
  /\ UNCHANGED Untouched

\* The corrections are taken off and the outputs returned.
Return(c) ==
  /\ ses[c].phase = "checked"
  /\ ses' = [ses EXCEPT ![c].phase = "returned", ![c].token = Settled(@, "spent"),
                         ![c].finalized = TRUE]
  /\ UNCHANGED <<Untouched, faults, spool>>

-------------------------------------------------------------------------------
(* The end of a session *)

RemoveIfAny(c) ==
  IF ses[c].mode = "malicious" THEN Remove(c, spool[c]) ELSE UNCHANGED <<spool, faults>>

\* Mutant of Drop: the token is forgotten.
DropKeepingToken(c) ==
  /\ ses[c].phase = "dropping"
  /\ Goto(c, "dropped")
  /\ UNCHANGED wire \/ (client[c] = "open" /\ Write(c, BareFrame("abort", ses[c].seq)))
  /\ Hangup(c)
  /\ RemoveIfAny(c)
  /\ UNCHANGED <<answer, Unserved>>

\* Drop of PbmoSession: abort_session, the token, the spool.
Drop(c) ==
  /\ ses[c].phase = "dropping"
  /\ ses' = [ses EXCEPT ![c].phase = "dropped", ![c].token = Settled(@, "burned")]
  /\ UNCHANGED wire \/ (client[c] = "open" /\ Write(c, BareFrame("abort", ses[c].seq)))
  /\ Hangup(c)
  /\ RemoveIfAny(c)
  /\ UNCHANGED <<answer, Unserved>>

\* Then its fields: the socket, and Drop of SecureSpool.
DropFields(c) ==
  /\ ses[c].phase \in {"dropped", "returned"}
  /\ Goto(c, IF ses[c].phase = "dropped" THEN "failed" ELSE "done")
  /\ Hangup(c)
  /\ RemoveIfAny(c)
  /\ UNCHANGED <<wire, answer, Unserved>>

Ended == {"refused", "failed", "done", "killed"}

\* The client process is killed: nothing is dropped.
ClientKilled(c) ==
  /\ ses[c].phase \notin Ended \cup {"new"}
  /\ Fault
  /\ Goto(c, "killed")
  /\ Hangup(c)
  /\ UNCHANGED <<wire, answer, Unserved, spool>>

ClientWork(c) ==
  \/ Connect(c)
  \/ SendHeader(c)
  \/ LoopbackHeader(c)
  \/ \E r \in Rows, n \in ChunkLens : Push(c, r, n) \/ PushStops(c, r, n) \/ PushLost(c, r, n)
  \/ FinishIncomplete(c)
  \/ FinishLocal(c)
  \/ SendFinish(c)
  \/ FinishLoopback(c)
  \/ ReceiveLoopback(c)
  \/ ReceiveHeader(c)
  \/ ReceiveBody(c)
  \/ ReceiveFails(c)
  \/ MarkerFails(c)
  \/ SkipCheck(c)
  \/ RejectCount(c)
  \/ SealFails(c)
  \/ RejectOutputs(c)
  \/ AcceptOutputs(c)
  \/ Return(c)
  \/ Drop(c)
  \/ DropFields(c)

SessionNext ==
  \/ (ServerWork \/ ServerKilled) /\ UNCHANGED <<ses, spool>>
  \/ \E c \in Sessions : Begin(c) \/ ClientWork(c) \/ ClientKilled(c)

SessionSpec == SessionInit /\ [][SessionNext]_sessionVars

\* The server's thread runs on; the callers may stop at any point.
FairSessionSpec == SessionSpec /\ WF_sessionVars(ServerWork /\ UNCHANGED <<ses, spool>>)

-------------------------------------------------------------------------------
(* Properties *)

\* The outputs a session returns are the commitments of the rows it was given
\* (theory/preprocessed_pbmo_correctness.md), whatever was retried, lost or
\* altered on the way: in malicious mode that is what the aggregate check is for.
ReturnedOutputsRight ==
  \A c \in Sessions :
    ses[c].phase \in {"returned", "done"} => ses[c].outputs = [j \in 1..Q |-> FullRow(j - 1)]

\* No multiplication is done for a session that was dropped before finalize:
\* when one has started, the client has sent every chunk of the digest and
\* then its finish frame.
MsmAfterFinalize ==
  \A c \in Sessions :
    log[c].msm => /\ ses[c].seq = Len(ses[c].hashed) + 2
                  /\ req[c].digest = ses[c].hashed

\* Drop burns the token of every session that ends without outputs.
TokenSettled ==
  \A c \in Sessions :
    ses[c].token # "none" =>
      /\ ses[c].phase \in {"dropped", "failed"} => ses[c].token = "burned"
      /\ ses[c].phase \in {"returned", "done"} => ses[c].token = "spent"
      /\ ses[c].token = "spent" => ses[c].phase \in {"returned", "done", "killed"}

\* The spool is deleted after success, integrity failure or session drop
\* (docs of the spool): one I/O error alone never leaves a file of it behind,
\* but that of a session that never began, which is removed once.
SpoolDeleted ==
  \A c \in Sessions :
    spool[c].files # {} =>
      /\ ses[c].phase \in {"failed", "done"} => faults >= 2
      /\ ses[c].phase = "refused" => faults >= 1

\* Chunking does not change the result and the check accepts honest outputs
\* (theory/preprocessed_pbmo_correctness.md): an integrity error means that the
\* outputs were altered.
HonestOutputsAccepted ==
  \A c \in Sessions : ses[c].err = "integrity" => ses[c].hook # "none"

\* A silent, slow or vanished client does not hold the server for ever: every
\* connection that has been queued ends, whatever the clients before it do and
\* also when the server exits.
QueuedConnectionsEnd ==
  \A c \in Sessions : (stage[c] = "queued") ~> (stage[c] = "closed")

\* A session whose caller goes on ends, also when the server is gone, busy with
\* a client that has stopped, or no longer accepts.
SessionsEnd ==
  \A c \in Sessions :
    WF_sessionVars(ClientWork(c)) =>
      ((ses[c].phase = "connecting") ~> (ses[c].phase \in Ended))

Outcome ==
  [c \in Sessions |->
    CASE ses[c].finalized ->
           IF ses[c].outputs = [j \in 1..Q |-> FullRow(j - 1)] THEN "right" ELSE "wrong"
      [] ~ses[c].finalized /\ ses[c].phase \in {"refused", "failed", "killed"} -> "failed"
      [] OTHER -> "open"]

\* A session without a token has nothing to settle.
Tokens ==
  [c \in Sessions |->
    IF ses[c].token # "none" THEN ses[c].token
    ELSE IF ses[c].finalized THEN "spent" ELSE "reserved"]

Commitment == INSTANCE OutsourcedCommitment WITH outcome <- Outcome, token <- Tokens

\* A session is one outsourced commitment.
ImplementsCommitment == Commitment!CommitSpec

===============================================================================
