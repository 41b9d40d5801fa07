------------------------ MODULE InstrumentationProofs -------------------------
(***************************************************************************)
(* What the instrumentation reports is true, for any number of threads,    *)
(* phases, scopes and files.                                               *)
(*                                                                         *)
(* Scopes: a scope's flags and the history of verifier work say the same   *)
(* while a thread owns the scope, and every step at which a scope is given *)
(* back is taken by its owner.                                             *)
(* Files: the direct count is the sum of what is recorded of the files     *)
(* that are held, and what is recorded of a file is its size but for a     *)
(* chunk being written.                                                    *)
(* Events: an event that is due is at exactly one place, and one that is   *)
(* not due is nowhere.                                                     *)
(* End of a run: the sampler runs only inside a scope, so no scan of its   *)
(* own is left to be stored over that of the report.                       *)
(* Stack: a phase is on the stack as often as it is open, which is a sum   *)
(* over the threads.                                                       *)
(***************************************************************************)
EXTENDS Instrumentation, FiniteSums, SequenceTheorems, TLAPS

Guards == [guard : Nat, phase : Phases]

SomeEvents == [guard : Nat, kind : {"begin", "end"}]

Stops ==
  {"run", "marked", "begun", "flushing", "granted", "joining", "closing",
   "ending", "reporting", "reported", "over"}

Places == [at : Stops, scope : BOOLEAN, live : Seq(Guards), hand : SUBSET SomeEvents]

Fields == {"preprocessing", "execution"}

\* A type invariant, as far as scopes depend on it.
InstrTyped ==
  /\ thr \in [Threads -> Places]
  /\ buffer \subseteq SomeEvents
  /\ given \in Nat
  /\ scope \in [active : BOOLEAN, preprocessing : BOOLEAN, execution : BOOLEAN]
  /\ marks \subseteq Fields

\* These steps are inside a scope.
OwnerInv == \A t \in Threads : thr[t].at \in {"granted", "joining", "closing"} => thr[t].scope

OpenInv == scope.active <=> \E t \in Threads : thr[t].scope

SingleInv == \A t, u \in Threads : thr[t].scope /\ thr[u].scope => t = u

\* While a scope is open its flags are the work done since it was granted.
FlagsInv ==
  (\E t \in Threads : thr[t].scope) => \A f \in Fields : scope[f] <=> f \in marks

VerdictInv == verdict.valid <=> verdict.inside = {}

ScopeInv == OwnerInv /\ OpenInv /\ SingleInv /\ FlagsInv /\ VerdictInv

IInv == InstrTyped /\ ScopeInv

scopeSide == <<scope, marks, verdict>>

\* No scope is open at the start.
LEMMA InitInv == InstrInit => IInv
  <1> SUFFICES ASSUME InstrInit PROVE IInv OBVIOUS
  <1>0. Starting \in Places
    <2>1. <<>> \in Seq(Guards) OBVIOUS
    <2> QED BY <2>1 DEF Starting, Places, Stops
  <1>1. InstrTyped
    <2>1. thr \in [Threads -> Places] BY <1>0 DEF InstrInit
    <2>2. scope \in [active : BOOLEAN, preprocessing : BOOLEAN, execution : BOOLEAN]
      BY DEF InstrInit, Closed
    <2>3. buffer = {} /\ given = 0 /\ marks = {} BY DEF InstrInit
    <2> QED BY <2>1, <2>2, <2>3 DEF InstrTyped
  <1>2. ScopeInv
    BY DEF InstrInit, Starting, Closed, NoVerdict, ScopeInv, OwnerInv, OpenInv, SingleInv, FlagsInv,
           VerdictInv
  <1> QED BY <1>1, <1>2 DEF IInv

\* A step that leaves the scope alone and moves threads between other places.
LEMMA QuietStep ==
  ASSUME IInv, InstrTyped', UNCHANGED scopeSide,
         \A t \in Threads : /\ thr'[t].scope = thr[t].scope
                            /\ thr'[t].at \in {"granted", "joining", "closing"} => thr'[t].scope
  PROVE  IInv'
  BY DEF IInv, ScopeInv, OwnerInv, OpenInv, SingleInv, FlagsInv, VerdictInv, scopeSide

\* Work is marked under the scope's lock.
LEMMA MarkInv ==
  ASSUME IInv, InstrTyped', NEW field \in Fields, Mark(field), UNCHANGED verdict,
         \A t \in Threads : /\ thr'[t].scope = thr[t].scope
                            /\ thr'[t].at \in {"granted", "joining", "closing"} => thr'[t].scope
  PROVE  IInv'
  <1> USE DEF IInv, InstrTyped, Mark, Owners
  <1>1. scope'.active = scope.active BY DEF Fields
  <1>2. OwnerInv' /\ SingleInv' /\ VerdictInv' BY DEF ScopeInv, OwnerInv, SingleInv, VerdictInv
  <1>3. OpenInv' BY <1>1 DEF ScopeInv, OpenInv
  <1>4. FlagsInv'
    <2> SUFFICES ASSUME NEW t \in Threads, thr'[t].scope, NEW f \in Fields
                 PROVE  scope'[f] <=> f \in marks'
      BY DEF FlagsInv
    <2>1. thr[t].scope /\ scope.active BY DEF ScopeInv, OpenInv
    <2>2. scope[f] <=> f \in marks BY <2>1 DEF ScopeInv, FlagsInv
    <2>3. scope' = [scope EXCEPT ![field] = TRUE] /\ marks' = marks \cup {field} BY <2>1
    <2> QED BY <2>2, <2>3 DEF Fields
  <1> QED BY <1>2, <1>3, <1>4 DEF ScopeInv

\* The phases, and the verifier work they mark.
LEMMA PhaseStepsInv ==
  ASSUME IInv, NEW t \in Threads,
         \/ MarkPreprocessing(t) \/ MarkVerification(t) \/ \E p \in Phases : BeginPhase(t, p)
         \/ FinishPhase(t) \/ RecordEvent(t) \/ FlushTake(t) \/ FlushWrite(t)
  PROVE  IInv'
  <1> USE DEF Stops
  <1>0. InstrTyped /\ t \in DOMAIN thr /\ thr[t] \in Places BY DEF IInv, InstrTyped
  <1>1. CASE MarkPreprocessing(t)
    <2>1. InstrTyped' BY <1>0, <1>1 DEF MarkPreprocessing, Mark, InstrTyped, phaseVars, Fields
    <2>2. UNCHANGED <<thr, verdict>> BY <1>1 DEF MarkPreprocessing
    <2>3. \A u \in Threads : thr'[u].at \in {"granted", "joining", "closing"} => thr'[u].scope
      BY <2>2 DEF IInv, ScopeInv, OwnerInv
    <2> QED BY <1>1, <2>1, <2>2, <2>3, MarkInv DEF MarkPreprocessing, Fields
  <1>2. CASE MarkVerification(t)
    <2>1. thr' = [thr EXCEPT ![t].at = "marked"] BY <1>2 DEF MarkVerification, Go
    <2>2. InstrTyped'
      BY <1>0, <1>2, <2>1 DEF MarkVerification, Mark, InstrTyped, phaseVars, Fields, Places
    <2>3. \A u \in Threads : /\ thr'[u].scope = thr[u].scope
                             /\ thr'[u].at \in {"granted", "joining", "closing"} => thr'[u].scope
      BY <1>0, <2>1 DEF IInv, ScopeInv, OwnerInv, InstrTyped, Places
    <2> QED BY <1>2, <2>2, <2>3, MarkInv DEF MarkVerification, Fields
  <1>3. ASSUME NEW phase \in Phases, BeginPhase(t, phase) PROVE IInv'
    <2> DEFINE guard == [guard |-> given', phase |-> phase]
               event == [guard |-> given', kind |-> "begin"]
    <2>1. /\ thr' = [thr EXCEPT ![t].at = "begun", ![t].hand = {event}, ![t].live = Append(@, guard)]
          /\ given' = given + 1 /\ UNCHANGED <<buffer, scope, marks, verdict>>
      BY <1>3 DEF BeginPhase, scopeVars
    <2>2. given' \in Nat BY <1>0, <2>1 DEF InstrTyped
    <2>3. guard \in Guards /\ event \in SomeEvents BY <2>2 DEF Guards, SomeEvents
    <2>4. Append(thr[t].live, guard) \in Seq(Guards) /\ {event} \in SUBSET SomeEvents
      BY <1>0, <2>3 DEF Places
    <2> HIDE DEF guard, event
    <2>5. InstrTyped' BY <1>0, <2>1, <2>2, <2>4 DEF InstrTyped, Places
    <2>6. \A u \in Threads : /\ thr'[u].scope = thr[u].scope
                             /\ thr'[u].at \in {"granted", "joining", "closing"} => thr'[u].scope
      BY <1>0, <2>1 DEF IInv, ScopeInv, OwnerInv, InstrTyped, Places
    <2> QED BY <2>1, <2>5, <2>6, QuietStep DEF scopeSide
  <1>4. CASE FinishPhase(t)
    <2> DEFINE guard == Last(thr[t].live)
               event == [guard |-> guard.guard, kind |-> "end"]
    <2>1. /\ thr' = [thr EXCEPT ![t].at = "begun", ![t].live = Front(@), ![t].hand = {event}]
          /\ thr[t].live # <<>> /\ UNCHANGED <<buffer, given, scope, marks, verdict>>
      BY <1>4 DEF FinishPhase, scopeVars
    <2>2. thr[t].live \in Seq(Guards) BY <1>0 DEF Places
    <2>3. Front(thr[t].live) \in Seq(Guards) /\ guard \in Guards BY <2>1, <2>2 DEF Front, Last
    <2>4. {event} \in SUBSET SomeEvents BY <2>3 DEF Guards, SomeEvents
    <2> HIDE DEF event
    <2>5. InstrTyped' BY <1>0, <2>1, <2>3, <2>4 DEF InstrTyped, Places
    <2>6. \A u \in Threads : /\ thr'[u].scope = thr[u].scope
                             /\ thr'[u].at \in {"granted", "joining", "closing"} => thr'[u].scope
      BY <1>0, <2>1 DEF IInv, ScopeInv, OwnerInv, InstrTyped, Places
    <2> QED BY <2>1, <2>5, <2>6, QuietStep DEF scopeSide
  <1>5. CASE RecordEvent(t) \/ FlushTake(t) \/ FlushWrite(t)
    <2>1. PICK to \in Stops, events \in SUBSET SomeEvents :
            /\ to \notin {"granted", "joining", "closing"}
            /\ thr' = [thr EXCEPT ![t].at = to, ![t].hand = events]
      BY <1>0, <1>5 DEF RecordEvent, FlushTake, FlushWrite, InstrTyped
    <2>2. UNCHANGED <<given, scope, marks, verdict>> /\ buffer' \subseteq SomeEvents
      BY <1>0, <1>5 DEF RecordEvent, FlushTake, FlushWrite, InstrTyped, Places, scopeVars
    <2>3. InstrTyped' BY <1>0, <2>1, <2>2 DEF InstrTyped, Places
    <2>4. \A u \in Threads : /\ thr'[u].scope = thr[u].scope
                             /\ thr'[u].at \in {"granted", "joining", "closing"} => thr'[u].scope
      BY <1>0, <2>1 DEF IInv, ScopeInv, OwnerInv, InstrTyped, Places
    <2> QED BY <2>2, <2>3, <2>4, QuietStep DEF scopeSide
  <1> QED BY <1>1, <1>2, <1>3, <1>4, <1>5

\* A scope is granted to one thread, with its flags and its history clear.
LEMMA AskScopeInv ==
  ASSUME IInv, NEW t \in Threads, AskScope(t)
  PROVE  IInv'
  <1>0. InstrTyped /\ t \in DOMAIN thr /\ thr[t] \in Places BY DEF IInv, InstrTyped
  <1>1. CASE scope.active
    <2>1. UNCHANGED <<thr, buffer, given, scope, marks, verdict>>
      BY <1>1 DEF AskScope, phaseVars
    <2>2. InstrTyped' BY <1>0, <2>1 DEF InstrTyped
    <2> QED BY <2>1, <2>2, QuietStep DEF scopeSide, IInv, ScopeInv, OwnerInv
  <1>2. CASE ~scope.active
    <2>1. /\ scope' = [Closed EXCEPT !.active = TRUE]
          /\ thr' = [thr EXCEPT ![t].scope = TRUE, ![t].at = "granted"]
          /\ marks' = {} /\ UNCHANGED <<buffer, given, verdict>>
      BY <1>2 DEF AskScope, phaseVars
    <2>2. InstrTyped' BY <1>0, <2>1 DEF InstrTyped, Places, Stops, Closed
    <2>3. \A u \in Threads : ~thr[u].scope BY <1>2 DEF IInv, ScopeInv, OpenInv
    <2>4. \A u \in Threads : thr'[u].scope <=> u = t BY <1>0, <2>1, <2>3 DEF InstrTyped, Places
    <2>5. OwnerInv'
      BY <1>0, <2>1, <2>4 DEF IInv, ScopeInv, OwnerInv, InstrTyped, Places
    <2>6. OpenInv' /\ SingleInv' BY <2>1, <2>4 DEF OpenInv, SingleInv, Closed
    <2>7. FlagsInv' BY <2>1 DEF FlagsInv, Closed, Fields
    <2>8. VerdictInv' BY <2>1 DEF IInv, ScopeInv, VerdictInv
    <2> QED BY <2>2, <2>5, <2>6, <2>7, <2>8 DEF IInv, ScopeInv
  <1> QED BY <1>1, <1>2

\* Its owner gives it back, and nobody has it then.
LEMMA GiveBack ==
  ASSUME IInv, NEW t \in Threads, thr[t].at \in {"granted", "closing"},
         thr' = [thr EXCEPT ![t].at = "run", ![t].scope = FALSE],
         scope' = [scope EXCEPT !.active = FALSE],
         VerdictInv', UNCHANGED <<buffer, given, marks>>
  PROVE  IInv'
  <1>0. InstrTyped /\ t \in DOMAIN thr /\ thr[t] \in Places BY DEF IInv, InstrTyped
  <1>1. InstrTyped' BY <1>0 DEF InstrTyped, Places, Stops
  <1>2. thr[t].scope BY DEF IInv, ScopeInv, OwnerInv
  <1>3. \A u \in Threads : ~thr'[u].scope
    BY <1>0, <1>2 DEF IInv, ScopeInv, SingleInv, InstrTyped, Places
  <1>4. OwnerInv' BY <1>0 DEF IInv, ScopeInv, OwnerInv, InstrTyped, Places
  <1>5. OpenInv' /\ SingleInv' /\ FlagsInv'
    BY <1>0, <1>3 DEF OpenInv, SingleInv, FlagsInv, InstrTyped
  <1> QED BY <1>1, <1>4, <1>5 DEF IInv, ScopeInv

\* The steps that ask for, grant and give back a scope.
LEMMA ScopeStepsInv ==
  ASSUME IInv, NEW t \in Threads,
         \/ AskScope(t) \/ StartSampler(t) \/ SamplerFails(t) \/ StopSampler(t)
         \/ JoinSampler(t) \/ FinishScope(t) \/ DropScope(t)
  PROVE  IInv'
  <1>0. InstrTyped /\ t \in DOMAIN thr /\ thr[t] \in Places BY DEF IInv, InstrTyped
  <1>1. CASE AskScope(t) BY <1>1, AskScopeInv
  <1>2. CASE StartSampler(t) \/ StopSampler(t) \/ JoinSampler(t)
    <2> DEFINE Moved(to) == thr' = [thr EXCEPT ![t].at = to]
    <2>1. thr[t].scope \/ Moved("run")
      BY <1>2 DEF StartSampler, StopSampler, JoinSampler, Go, IInv, ScopeInv, OwnerInv
    <2>2. PICK to \in {"run", "joining", "closing"} : Moved(to)
      BY <1>2 DEF StartSampler, StopSampler, JoinSampler, Go
    <2>3. UNCHANGED <<buffer, given, scope, marks, verdict>>
      BY <1>2 DEF StartSampler, StopSampler, JoinSampler, phaseVars
    <2>4. InstrTyped' BY <1>0, <2>2, <2>3 DEF InstrTyped, Places, Stops
    <2>5. \A u \in Threads : thr'[u].scope = thr[u].scope
      BY <1>0, <2>2 DEF InstrTyped, Places
    <2>6. \A u \in Threads : thr'[u].at \in {"granted", "joining", "closing"} => thr'[u].scope
      BY <1>0, <2>1, <2>2, <2>5 DEF IInv, ScopeInv, OwnerInv, InstrTyped, Places
    <2> QED BY <2>3, <2>4, <2>5, <2>6, QuietStep DEF scopeSide
  <1>3. CASE SamplerFails(t) \/ DropScope(t)
    <2>1. VerdictInv'
      BY <1>3 DEF SamplerFails, DropScope, IInv, ScopeInv, VerdictInv
    <2> QED BY <1>3, <2>1, GiveBack DEF SamplerFails, DropScope, CloseScope, phaseVars
  <1>4. CASE FinishScope(t)
    <2>1. thr[t].scope BY <1>4 DEF FinishScope, CloseScope, IInv, ScopeInv, OwnerInv
    <2>2. \A f \in Fields : scope[f] <=> f \in marks BY <2>1 DEF IInv, ScopeInv, FlagsInv
    <2>3. marks = {} <=> ~scope.preprocessing /\ ~scope.execution
      BY <1>0, <2>2 DEF Fields, InstrTyped
    <2>4. VerdictInv' BY <1>4, <2>3 DEF FinishScope, VerdictInv
    <2> QED BY <1>4, <2>4, GiveBack DEF FinishScope, CloseScope, phaseVars
  <1> QED BY <1>1, <1>2, <1>3, <1>4

\* The end of the run, the sampler's own steps and the writers leave scopes alone.
LEMMA OtherStepsInv ==
  ASSUME IInv,
         \/ \E t \in Threads : EndRun(t) \/ ReportScan(t) \/ ReportStore(t) \/ ReadReport(t)
         \/ WriterStep \/ SamplerStep \/ UNCHANGED instrVars
  PROVE  IInv'
  <1>0. InstrTyped BY DEF IInv
  <1>1. ASSUME NEW t \in Threads, EndRun(t) \/ ReportScan(t) \/ ReportStore(t) \/ ReadReport(t)
        PROVE  IInv'
    <2>1. PICK to \in Stops : /\ to \notin {"granted", "joining", "closing"}
                             /\ thr' = [thr EXCEPT ![t].at = to]
      BY <1>1 DEF EndRun, ReportScan, ReportStore, ReadReport, Go, Stops
    <2>2. UNCHANGED <<buffer, given, scope, marks, verdict>>
      BY <1>1 DEF EndRun, ReportScan, ReportStore, ReadReport, phaseVars, scopeVars
    <2>3. InstrTyped' BY <1>0, <2>1, <2>2 DEF InstrTyped, Places
    <2>4. \A u \in Threads : /\ thr'[u].scope = thr[u].scope
                             /\ thr'[u].at \in {"granted", "joining", "closing"} => thr'[u].scope
      BY <1>0, <2>1 DEF IInv, ScopeInv, OwnerInv, InstrTyped, Places
    <2> QED BY <2>2, <2>3, <2>4, QuietStep DEF scopeSide
  <1>2. CASE WriterStep \/ SamplerStep \/ UNCHANGED instrVars
    <2>1. UNCHANGED <<thr, buffer, given, scope, marks, verdict>>
      BY <1>2 DEF WriterStep, SamplerStep, SamplerScan, SamplerStore, SamplerExit, instrVars,
                  phaseVars, scopeVars
    <2>2. InstrTyped' BY <1>0, <2>1 DEF InstrTyped
    <2> QED BY <2>1, <2>2, QuietStep DEF scopeSide, IInv, ScopeInv, OwnerInv
  <1> QED BY <1>1, <1>2

\* Every step keeps the invariant.
LEMMA NextInv == IInv /\ [InstrNext]_instrVars => IInv'
  <1> SUFFICES ASSUME IInv, [InstrNext]_instrVars PROVE IInv' OBVIOUS
  <1>1. CASE WriterStep \/ SamplerStep \/ UNCHANGED instrVars BY <1>1, OtherStepsInv
  <1>2. ASSUME NEW t \in Threads, ThreadStep(t) PROVE IInv'
    BY <1>2, PhaseStepsInv, ScopeStepsInv, OtherStepsInv DEF ThreadStep
  <1> QED BY <1>1, <1>2 DEF InstrNext

\* A measurement scope is open exactly while one thread owns it, and its report
\* calls it valid exactly when no verifier work started inside it, however many
\* threads ask for scopes and run phases
\* (begin_measurement_scope, MeasurementScopeGuard).
THEOREM ScopesTrue == InstrSpec => []ScopeReportsTrue
  <1>1. IInv => ScopeReportsTrue
    BY DEF IInv, InstrTyped, ScopeInv, OpenInv, SingleInv, VerdictInv, ScopeReportsTrue, Owners
  <1> QED BY InitInv, NextInv, <1>1, PTL DEF InstrSpec

-------------------------------------------------------------------------------
(* The invariants of the other parts *)

\* Where a file's writer can be.
Jobs ==
  {"none", "created", "open", "writing", "written", "failed", "sealed", "unsealed",
   "accepted", "refused", "ending", "dropped", "deleted", "gone"}

Kinds == {"append", "seal", "remove", "delete"}

\* Failures after which the count is still exact.
Exact(failed) == failed \subseteq {"seal"}

ArtTyped ==
  /\ disk \in [Paths -> Nat \cup {NoFile}]
  /\ recorded \in [Paths -> Nat]
  /\ current \in Nat
  /\ job \in [Files -> Jobs]
  /\ failures \subseteq Kinds

\* What the accounting has of a file is right but for a chunk being written,
\* and a failed file has at least what was counted.  A file whose seal stopped
\* has one of its names.
Right(at, size, sealed, counted, failed) ==
  /\ at \in {"none", "created"} => counted = 0
  /\ at = "created" => size = 0
  /\ at \in {"open", "writing"} => size = counted
  /\ at \in {"written", "failed"} => size \in Nat /\ size >= counted
  /\ at = "failed" => "append" \in failed
  /\ at \in {"created", "open", "writing", "written", "failed"} => sealed = NoFile
  /\ at = "sealed" => size = NoFile /\ sealed = counted
  /\ at = "unsealed" => \/ size = NoFile /\ Bytes(sealed) = counted
                        \/ size = counted /\ sealed = NoFile
  /\ at \in {"accepted", "refused", "ending"} => counted = 0
  /\ at = "ending" => "remove" \in failed
  /\ at \in {"none", "deleted"} \/ (at = "gone" /\ Exact(failed)) => size = NoFile /\ sealed = NoFile

FileOK(f) == Right(job[f], disk[Tmp(f)], disk[Final(f)], recorded[Tmp(f)], failures)

\* The bytes of a file that the direct count holds, from what its writer is at
\* and what is recorded of it ...
Held(j, r, f) ==
  IF j[f] \in {"none", "created", "dropped", "gone"} THEN 0 ELSE r[Tmp(f)]

\* ... under the name the file has.
HeldName(d, f) == IF d[Tmp(f)] = NoFile THEN "final" ELSE "temporary"

HeldAt(d, j, r) ==
  [p \in Paths |-> IF p.name = HeldName(d, p.file) THEN Held(j, r, p.file) ELSE 0]

HeldBytes(d, j, r) == SumFunctionOnSet(HeldAt(d, j, r), Paths)

CountInv ==
  /\ Exact(failures) => current = HeldBytes(disk, job, recorded)
  /\ "delete" \notin failures => current <= HeldBytes(disk, job, recorded)

ArtInv == ArtTyped /\ (\A f \in Files : FileOK(f)) /\ CountInv

\* The steps at which a thread has events in its hand.
HandInv == \A t \in Threads : thr[t].at \notin {"begun", "flushing"} => thr[t].hand = {}

\* No guard is on two threads or twice on one.
LiveInv ==
  \A t, u \in Threads : \A i \in DOMAIN thr[t].live, j \in DOMAIN thr[u].live :
    /\ thr[t].live[i].guard \in 1 .. given
    /\ thr[t].live[i].guard = thr[u].live[j].guard => t = u /\ i = j

Due(e) == e.guard <= given /\ (e.kind = "begin" \/ Ended(e.guard))

\* An event is at one place once it is due, and nowhere before.
PlaceInv ==
  \A e \in Events :
    /\ Due(e) <=> log[e] = 1 \/ e \in buffer \/ \E t \in Threads : e \in thr[t].hand
    /\ log[e] = 1 => e \notin buffer
    /\ \A t \in Threads : e \in thr[t].hand => log[e] = 0 /\ e \notin buffer
    /\ \A t, u \in Threads : e \in thr[t].hand /\ e \in thr[u].hand => t = u

EventInv == log \in [Events -> {0, 1}] /\ HandInv /\ LiveInv /\ PlaceInv

\* After the main thread's last phase nobody else is at anything.
Closing == {"ending", "reporting", "reported", "over"}

EndedInv ==
  /\ thr[Main].at \in Closing <=> ending
  /\ \A t \in Threads : t # Main => thr[t].at \notin Closing
  /\ ending => /\ Quiet /\ buffer = {}
               /\ \A t \in Threads : t # Main => thr[t] = Starting
               /\ ~thr[Main].scope /\ thr[Main].hand = {}

\* The sampler runs from the grant of a scope until its owner has waited for it.
SamplerInv ==
  /\ (\A t \in Threads : ~thr[t].scope) => sampler = "none"
  /\ \A t \in Threads : thr[t].scope =>
       /\ thr[t].at \in {"granted", "closing"} => sampler = "none"
       /\ thr[t].at = "joining" => sampler \in {"stopping", "stopped"}
       /\ thr[t].at \notin {"granted", "joining", "closing"} => sampler = "running"

ScanInv ==
  /\ scan \in [Observers -> Nat \cup {NoFile}]
  /\ latest \in Nat
  /\ scan[Sampler] # NoFile => sampler \in {"running", "stopping"} /\ profile = "audit"
  /\ scan[Main] # NoFile <=> thr[Main].at = "reporting" /\ profile = "audit"
  /\ scan[Main] # NoFile => scan[Main] = OnDisk
  /\ profile = "audit" /\ thr[Main].at \in {"reported", "over"} => latest = OnDisk
  /\ profile # "audit" => latest = 0

ReportInv ==
  /\ thr[Main].at # "over" => final = NoReport
  /\ thr[Main].at = "over" => final = Max({latest, current})

EndInv == SamplerInv /\ ScanInv /\ ReportInv

-------------------------------------------------------------------------------
(* The accounting of temporary files *)

\* The names of files.
LEMMA PathFacts ==
  /\ IsFiniteSet(Paths)
  /\ \A f \in Files, n \in Names :
       Path(f, n) \in Paths /\ Path(f, n).file = f /\ Path(f, n).name = n
  /\ \A f \in Files : /\ Tmp(f) \in Paths /\ Tmp(f).file = f /\ Tmp(f).name = "temporary"
                      /\ Final(f) \in Paths /\ Final(f).file = f /\ Final(f).name = "final"
  /\ \A p \in Paths : p.file \in Files /\ p.name \in Names /\ p = Path(p.file, p.name)
<1>1. /\ \A f \in Files, n \in Names :
           Path(f, n) \in Paths /\ Path(f, n).file = f /\ Path(f, n).name = n
      /\ \A p \in Paths : p.file \in Files /\ p.name \in Names /\ p = Path(p.file, p.name)
  <2>1. \A p \in Paths : \E f \in Files, n \in Names : p = Path(f, n)
    BY DEF Paths
  <2>2. \A f \in Files, n \in Names : Path(f, n) \in Paths
    BY DEF Paths
  <2>3. \A f, n : Path(f, n).file = f /\ Path(f, n).name = n
    BY DEF Path
  <2> QED BY <2>1, <2>2, <2>3
<1>2. \A f \in Files : /\ Tmp(f) \in Paths /\ Tmp(f).file = f /\ Tmp(f).name = "temporary"
                       /\ Final(f) \in Paths /\ Final(f).file = f /\ Final(f).name = "final"
  BY <1>1 DEF Tmp, Final, Names, DataNames
<1>3. IsFiniteSet(Paths)
  <2>1. IsFiniteSet(Files)
    BY ArtAssumption, FS_Union DEF Files
  <2> DEFINE Named(n) == {Path(f, n) : f \in Files}
  <2>2. ASSUME NEW n PROVE IsFiniteSet(Named(n))
    <3>1. [f \in Files |-> Path(f, n)] \in Surjection(Files, Named(n))
      BY DEF Surjection
    <3> HIDE DEF Named
    <3> QED BY <2>1, <3>1, FS_Surjection
  <2>3. Paths \subseteq (Named("temporary") \cup Named("final"))
                          \cup (Named("temporary manifest") \cup Named("manifest"))
    <3>1. ASSUME NEW p \in Paths PROVE \E n \in Names : p \in Named(n)
      BY <1>1
    <3> HIDE DEF Named
    <3> QED BY <3>1 DEF Names, DataNames
  <2>4. IsFiniteSet((Named("temporary") \cup Named("final"))
                      \cup (Named("temporary manifest") \cup Named("manifest")))
    <3> HIDE DEF Named
    <3> QED BY <2>2, FS_Union
  <2> QED BY <2>3, <2>4, FS_Subset
<1> QED BY <1>1, <1>2, <1>3

\* Two files have no name in common, nor has one file both names at one path.
LEMMA PathsApart ==
  /\ \A f, g \in Files : f # g => Tmp(f) # Tmp(g) /\ Final(f) # Final(g)
  /\ \A f, g \in Files : Tmp(f) # Final(g)
BY PathFacts

\* What is held of a file is a number.
LEMMA HeldFacts ==
  ASSUME NEW d, NEW j \in [Files -> Jobs], NEW r \in [Paths -> Nat]
  PROVE  /\ \A f \in Files : Held(j, r, f) \in Nat
         /\ \A p \in Paths : HeldAt(d, j, r)[p] \in Nat
         /\ HeldBytes(d, j, r) \in Nat
<1>1. \A f \in Files : Held(j, r, f) \in Nat
  BY PathFacts DEF Held
<1>2. \A p \in Paths : HeldAt(d, j, r)[p] \in Nat
  BY <1>1, PathFacts DEF HeldAt
<1>3. HeldBytes(d, j, r) \in Nat
  BY <1>2, PathFacts, SumType DEF HeldBytes
<1> QED BY <1>1, <1>2, <1>3

\* The sum over both names of one file.
LEMMA SumPair ==
  ASSUME NEW S, IsFiniteSet(S), NEW fun, \A x \in S : fun[x] \in Nat,
         NEW gun, \A x \in S : gun[x] \in Nat,
         NEW a \in S, NEW b \in S, a # b, \A x \in S \ {a, b} : gun[x] = fun[x]
  PROVE  SumFunctionOnSet(gun, S) + fun[a] + fun[b] = SumFunctionOnSet(fun, S) + gun[a] + gun[b]
<1> DEFINE T == S \ {a}
           U == T \ {b}
<1>1. IsFiniteSet(T) /\ IsFiniteSet(U) /\ b \in T
  BY FS_RemoveElement
<1>2. /\ SumFunctionOnSet(fun, S) = fun[a] + SumFunctionOnSet(fun, T)
      /\ SumFunctionOnSet(gun, S) = gun[a] + SumFunctionOnSet(gun, T)
  BY SumTake
<1>3. SumFunctionOnSet(fun, T) = fun[b] + SumFunctionOnSet(fun, U)
  <2> \A x \in T : fun[x] \in Nat
    OBVIOUS
  <2> HIDE DEF T
  <2> QED BY <1>1, SumTake
<1>4. SumFunctionOnSet(gun, T) = gun[b] + SumFunctionOnSet(gun, U)
  <2> \A x \in T : gun[x] \in Nat
    OBVIOUS
  <2> HIDE DEF T
  <2> QED BY <1>1, SumTake
<1>5. SumFunctionOnSet(fun, U) = SumFunctionOnSet(gun, U)
  <2> \A x \in U : fun[x] = gun[x]
    OBVIOUS
  <2> HIDE DEF U
  <2> QED BY <1>1, SumSame
<1>6. SumFunctionOnSet(fun, U) \in Nat /\ fun[a] \in Nat /\ fun[b] \in Nat /\ gun[a] \in Nat /\ gun[b] \in Nat
  <2>1. \A x \in U : fun[x] \in Nat
    OBVIOUS
  <2> HIDE DEF U
  <2>2. SumFunctionOnSet(fun, U) \in Nat
    BY <1>1, <2>1, SumType
  <2> QED BY <2>2
<1> HIDE DEF T, U
<1> QED BY <1>2, <1>3, <1>4, <1>5, <1>6

\* A file's bytes are part of what is held.
LEMMA HeldPart ==
  ASSUME NEW d, NEW j \in [Files -> Jobs], NEW r \in [Paths -> Nat], NEW f \in Files
  PROVE  Held(j, r, f) <= HeldBytes(d, j, r)
<1> PICK p, h : p = Path(f, HeldName(d, f)) /\ h = HeldAt(d, j, r)
  OBVIOUS
<1>1. HeldName(d, f) \in Names
  BY DEF HeldName, Names, DataNames
<1>2. p \in Paths /\ h[p] = Held(j, r, f)
  BY <1>1, PathFacts DEF HeldAt
<1>3. \A x \in Paths : h[x] \in Nat
  BY HeldFacts
<1>4. SumFunctionOnSet(h, Paths) = h[p] + SumFunctionOnSet(h, Paths \ {p})
  BY <1>2, <1>3, PathFacts, SumTake
<1>5. SumFunctionOnSet(h, Paths \ {p}) \in Nat
  <2> PICK T : T = Paths \ {p}
    OBVIOUS
  <2>1. IsFiniteSet(T) /\ \A x \in T : h[x] \in Nat
    BY <1>3, PathFacts, FS_Subset
  <2> QED BY <2>1, SumType
<1>6. Held(j, r, f) \in Nat
  BY HeldFacts
<1> QED BY <1>2, <1>4, <1>5, <1>6 DEF HeldBytes

\* Of the two names only one holds bytes.
LEMMA HeldPair ==
  ASSUME NEW d, NEW j \in [Files -> Jobs], NEW r \in [Paths -> Nat], NEW f \in Files
  PROVE  HeldAt(d, j, r)[Tmp(f)] + HeldAt(d, j, r)[Final(f)] = Held(j, r, f)
<1>1. /\ HeldAt(d, j, r)[Tmp(f)] = IF HeldName(d, f) = "temporary" THEN Held(j, r, f) ELSE 0
      /\ HeldAt(d, j, r)[Final(f)] = IF HeldName(d, f) = "final" THEN Held(j, r, f) ELSE 0
  BY PathFacts DEF HeldAt
<1> QED BY <1>1, HeldFacts DEF HeldName

\* A step of one file's writer changes what is held by that file's part.
LEMMA HeldChange ==
  ASSUME NEW f \in Files, job \in [Files -> Jobs], recorded \in [Paths -> Nat],
         job' \in [Files -> Jobs], recorded' \in [Paths -> Nat],
         \A g \in Files \ {f} : /\ job'[g] = job[g] /\ recorded'[Tmp(g)] = recorded[Tmp(g)]
                                /\ disk'[Tmp(g)] = disk[Tmp(g)]
  PROVE  HeldBytes(disk', job', recorded') + Held(job, recorded, f)
           = HeldBytes(disk, job, recorded) + Held(job', recorded', f)
<1> PICK d, j, r, e, k, s : /\ d = disk /\ j = job /\ r = recorded
                            /\ e = disk' /\ k = job' /\ s = recorded'
  OBVIOUS
<1> DEFINE fun == HeldAt(d, j, r)
           gun == HeldAt(e, k, s)
           a == Tmp(f)
           b == Final(f)
<1>1. /\ \A x \in Paths : fun[x] \in Nat /\ gun[x] \in Nat
      /\ a \in Paths /\ b \in Paths /\ a # b
  BY HeldFacts, PathFacts, PathsApart
<1>2. \A x \in Paths \ {a, b} : gun[x] = fun[x]
  <2> SUFFICES ASSUME NEW x \in Paths \ {a, b} PROVE gun[x] = fun[x]
    OBVIOUS
  <2>1. CASE x.file = f
    <3>1. x.name \notin {"temporary", "final"}
      BY <2>1, PathFacts DEF Tmp, Final
    <3> QED BY <3>1 DEF HeldAt, HeldName
  <2>2. CASE x.file # f
    <3>1. /\ k[x.file] = j[x.file] /\ s[Tmp(x.file)] = r[Tmp(x.file)]
          /\ e[Tmp(x.file)] = d[Tmp(x.file)]
      BY <2>2, PathFacts
    <3> QED BY <3>1 DEF HeldAt, HeldName, Held
  <2> QED BY <2>1, <2>2
<1>3. fun[a] + fun[b] = Held(j, r, f) /\ gun[a] + gun[b] = Held(k, s, f)
  BY HeldPair
<1>4. SumFunctionOnSet(gun, Paths) \in Nat /\ SumFunctionOnSet(fun, Paths) \in Nat
  BY HeldFacts DEF HeldBytes
<1>5. IsFiniteSet(Paths)
  BY PathFacts
<1>6. /\ HeldBytes(d, j, r) = SumFunctionOnSet(fun, Paths)
      /\ HeldBytes(e, k, s) = SumFunctionOnSet(gun, Paths)
  BY DEF HeldBytes
<1> HIDE DEF fun, gun, a, b
<1>7. SumFunctionOnSet(gun, Paths) + fun[a] + fun[b] = SumFunctionOnSet(fun, Paths) + gun[a] + gun[b]
  BY <1>1, <1>2, <1>5, SumPair
<1> QED BY <1>1, <1>3, <1>4, <1>6, <1>7

\* How a step of a file's writer may change the direct count: not at all, by
\* counting the file again, by taking it off, or by a failed removal, after
\* which nothing is claimed.
Settled(f) ==
  LET h == Held(job, recorded, f)
      held == Held(job', recorded', f)
  IN \/ current' = current /\ held = h
     \/ current' = SaturatingSub(current, h) + held
     \/ /\ held = 0
        /\ \E x \in Nat : /\ current' = SaturatingSub(current, x)
                          /\ x >= h /\ (Exact(failures) => x = h)
     \/ "delete" \in failures' /\ current' = current

\* The direct count stays right.
LEMMA CountStep ==
  ASSUME ArtInv, NEW f \in Files, job' \in [Files -> Jobs], recorded' \in [Paths -> Nat],
         \A g \in Files \ {f} : /\ job'[g] = job[g] /\ recorded'[Tmp(g)] = recorded[Tmp(g)]
                                /\ disk'[Tmp(g)] = disk[Tmp(g)],
         failures \subseteq failures', Settled(f)
  PROVE  current' \in Nat /\ CountInv'
<1> PICK h, held, all, now :
      /\ h = Held(job, recorded, f) /\ held = Held(job', recorded', f)
      /\ all = HeldBytes(disk, job, recorded) /\ now = HeldBytes(disk', job', recorded')
  OBVIOUS
<1>1. job \in [Files -> Jobs] /\ recorded \in [Paths -> Nat] /\ current \in Nat
  BY DEF ArtInv, ArtTyped
<1>2. h \in Nat /\ all \in Nat /\ held \in Nat /\ now \in Nat
  BY <1>1, HeldFacts
<1>3. h <= all /\ held <= now
  BY <1>1, HeldPart
<1>4. now + h = all + held
  BY <1>1, HeldChange
<1>5. /\ Exact(failures) => current = all
      /\ "delete" \notin failures => current <= all
  BY DEF ArtInv, CountInv
<1>6. \/ current' = current /\ held = h
      \/ current' = SaturatingSub(current, h) + held
      \/ /\ held = 0
         /\ \E x \in Nat : /\ current' = SaturatingSub(current, x)
                           /\ x >= h /\ (Exact(failures) => x = h)
      \/ "delete" \in failures' /\ current' = current
  BY DEF Settled
<1>7. /\ current' \in Nat
      /\ Exact(failures') => current' = now
      /\ "delete" \notin failures' => current' <= now
  <2>1. Exact(failures') => Exact(failures)
    BY DEF Exact
  <2>2. "delete" \notin failures' => "delete" \notin failures
    OBVIOUS
  <2>3. CASE current' = current /\ held = h
    BY <1>1, <1>2, <1>4, <1>5, <2>1, <2>2, <2>3
  <2>4. CASE current' = SaturatingSub(current, h) + held
    BY <1>1, <1>2, <1>3, <1>4, <1>5, <2>1, <2>2, <2>4 DEF SaturatingSub
  <2>5. ASSUME held = 0, NEW x \in Nat, current' = SaturatingSub(current, x), x >= h,
               Exact(failures) => x = h
        PROVE  /\ current' \in Nat
               /\ Exact(failures') => current' = now
               /\ "delete" \notin failures' => current' <= now
    BY <1>1, <1>2, <1>3, <1>4, <1>5, <2>1, <2>2, <2>5 DEF SaturatingSub
  <2>6. CASE "delete" \in failures' /\ current' = current
    BY <1>1, <2>6 DEF Exact
  <2> QED BY <1>6, <2>3, <2>4, <2>5, <2>6
<1> QED BY <1>7 DEF CountInv

\* A step of one file's writer keeps the invariant if it leaves that file right
\* and settles it.
LEMMA FileStep ==
  ASSUME ArtInv, NEW f \in Files, NEW to \in Jobs, job' = [job EXCEPT ![f] = to],
         disk' \in [Paths -> Nat \cup {NoFile}], recorded' \in [Paths -> Nat],
         \A p \in Paths : p.file # f => disk'[p] = disk[p] /\ recorded'[p] = recorded[p],
         failures \subseteq failures', failures' \subseteq Kinds,
         FileOK(f)', Settled(f)
  PROVE  ArtInv'
<1>1. job' \in [Files -> Jobs] /\ \A g \in Files \ {f} : job'[g] = job[g]
  BY DEF ArtInv, ArtTyped
<1>2. \A g \in Files \ {f} : /\ disk'[Tmp(g)] = disk[Tmp(g)] /\ disk'[Final(g)] = disk[Final(g)]
                             /\ recorded'[Tmp(g)] = recorded[Tmp(g)]
  BY PathFacts
<1>3. current' \in Nat /\ CountInv'
  BY <1>1, <1>2, CountStep
<1>4. ASSUME NEW g \in Files PROVE FileOK(g)'
  <2>1. CASE g = f
    BY <2>1
  <2>2. CASE g # f
    <3>1. FileOK(g)
      BY DEF ArtInv
    <3>2. job'[g] = job[g] /\ disk'[Tmp(g)] = disk[Tmp(g)] /\ disk'[Final(g)] = disk[Final(g)]
          /\ recorded'[Tmp(g)] = recorded[Tmp(g)]
      BY <1>1, <1>2, <2>2
    <3>3. Exact(failures') => Exact(failures)
      BY DEF Exact
    <3> QED BY <3>1, <3>2, <3>3 DEF FileOK, Right
  <2> QED BY <2>1, <2>2
<1> QED BY <1>1, <1>3, <1>4 DEF ArtInv, ArtTyped

\* What a file is at, and what is known of it then.
LEMMA FileFacts ==
  ASSUME ArtInv, NEW f \in Files
  PROVE  /\ job[f] \in Jobs /\ job \in [Files -> Jobs]
         /\ disk \in [Paths -> Nat \cup {NoFile}] /\ recorded \in [Paths -> Nat] /\ current \in Nat
         /\ disk[Tmp(f)] \in Nat \cup {NoFile} /\ disk[Final(f)] \in Nat \cup {NoFile}
         /\ recorded[Tmp(f)] \in Nat
         /\ Right(job[f], disk[Tmp(f)], disk[Final(f)], recorded[Tmp(f)], failures)
         /\ failures \subseteq Kinds /\ NoFile \notin Nat
BY PathFacts, ArtAssumption DEF ArtInv, ArtTyped, FileOK

\* A step that the accounting is not told of.
LEMMA UntoldStep ==
  ASSUME ArtInv, NEW f \in Files, NEW to \in Jobs, job' = [job EXCEPT ![f] = to],
         disk' \in [Paths -> Nat \cup {NoFile}],
         \A p \in Paths : p.file # f => disk'[p] = disk[p],
         UNCHANGED <<recorded, current>>,
         failures \subseteq failures', failures' \subseteq Kinds,
         Right(to, disk'[Tmp(f)], disk'[Final(f)], recorded[Tmp(f)], failures'),
         \/ recorded[Tmp(f)] = 0
         \/ job[f] \in {"none", "created", "dropped", "gone"}
              <=> to \in {"none", "created", "dropped", "gone"}
         \/ "delete" \in failures'
  PROVE  ArtInv'
<1>1. job'[f] = to
  BY FileFacts
<1>2. FileOK(f)'
  BY <1>1 DEF FileOK
<1>3. Settled(f)
  BY <1>1 DEF Settled, Held
<1>4. /\ recorded' \in [Paths -> Nat]
      /\ \A p \in Paths : p.file # f => disk'[p] = disk[p] /\ recorded'[p] = recorded[p]
  BY FileFacts
<1> QED BY <1>2, <1>3, <1>4, FileStep

\* A file is counted, once it exists.
LEMMA CountedStep ==
  ASSUME ArtInv, NEW f \in Files, job[f] \in {"created", "open", "written"},
         NEW to \in {"open", "writing"}, job' = [job EXCEPT ![f] = to],
         Count(Tmp(f)), UNCHANGED <<disk, failures>>
  PROVE  ArtInv'
<1> PICK size : size = disk[Tmp(f)]
  OBVIOUS
<1>1. /\ size \in Nat /\ disk[Final(f)] = NoFile
      /\ job[f] = "created" => recorded[Tmp(f)] = 0
  BY FileFacts DEF Right
<1>2. /\ recorded' = [recorded EXCEPT ![Tmp(f)] = size]
      /\ current' = SaturatingSub(current, recorded[Tmp(f)]) + size
  BY <1>1, FileFacts DEF Count, Refreshed
<1>3. job'[f] = to /\ recorded'[Tmp(f)] = size /\ to \in Jobs
  BY <1>2, FileFacts, PathFacts DEF Jobs
<1>4. FileOK(f)'
  BY <1>1, <1>3 DEF FileOK, Right
<1>5. Settled(f)
  <2>1. Held(job', recorded', f) = size
    BY <1>3 DEF Held
  <2>2. Held(job, recorded, f) = recorded[Tmp(f)]
    BY <1>1 DEF Held
  <2> QED BY <1>2, <2>1, <2>2 DEF Settled
<1>6. /\ recorded' \in [Paths -> Nat] /\ disk' \in [Paths -> Nat \cup {NoFile}]
      /\ \A p \in Paths : p.file # f => disk'[p] = disk[p] /\ recorded'[p] = recorded[p]
  BY <1>1, <1>2, FileFacts, PathFacts
<1> QED BY <1>3, <1>4, <1>5, <1>6, FileStep, FileFacts

\* A file is taken off the count under one of its names.
LEMMA DiscountedStep ==
  ASSUME ArtInv, NEW f \in Files, NEW to \in {"accepted", "refused", "dropped", "gone"},
         job' = [job EXCEPT ![f] = to], NEW p, Discount(p),
         p = Tmp(f) \/ (p = Final(f) /\ to = "dropped"),
         job[f] \notin {"none", "created", "dropped", "gone"},
         Refreshed(p) \in Nat, Refreshed(p) >= recorded[Tmp(f)],
         Exact(failures) => Refreshed(p) = recorded[Tmp(f)],
         UNCHANGED <<disk, failures>>,
         to = "gone" => disk[Tmp(f)] = NoFile /\ disk[Final(f)] = NoFile
  PROVE  ArtInv'
<1> PICK x : x = Refreshed(p)
  OBVIOUS
<1>1. p \in Paths /\ p.file = f /\ to \in Jobs
  BY PathFacts DEF Jobs
<1>2. recorded' = [recorded EXCEPT ![p] = 0] /\ current' = SaturatingSub(current, x)
  BY DEF Discount
<1>3. job'[f] = to /\ (to = "dropped" \/ recorded'[Tmp(f)] = 0)
  BY <1>1, <1>2, FileFacts
<1>4. FileOK(f)'
  BY <1>3 DEF FileOK, Right
<1>5. Settled(f)
  <2>1. Held(job', recorded', f) = 0
    BY <1>3 DEF Held
  <2>2. Held(job, recorded, f) = recorded[Tmp(f)]
    BY DEF Held
  <2> QED BY <1>2, <2>1, <2>2 DEF Settled
<1>6. /\ recorded' \in [Paths -> Nat] /\ disk' \in [Paths -> Nat \cup {NoFile}]
      /\ \A q \in Paths : q.file # f => disk'[q] = disk[q] /\ recorded'[q] = recorded[q]
  BY <1>1, <1>2, FileFacts
<1> QED BY <1>1, <1>4, <1>5, <1>6, FileStep, FileFacts

\* The sizes at the names of one file.
DiskStep(f, size, sealed) ==
  /\ disk' \in [Paths -> Nat \cup {NoFile}]
  /\ \A p \in Paths : p.file # f => disk'[p] = disk[p]
  /\ disk'[Tmp(f)] = size /\ disk'[Final(f)] = sealed

\* One name of a file changes its size.
LEMMA SizeStep ==
  ASSUME ArtInv, NEW f \in Files, NEW size \in Nat, disk' = [disk EXCEPT ![Tmp(f)] = size]
  PROVE  DiskStep(f, size, disk[Final(f)])
BY FileFacts, PathFacts, PathsApart DEF DiskStep

\* A seal, whether it stops or not.
LEMMA PlacedStep ==
  ASSUME ArtInv, NEW f \in Files, NEW data \in DataNames,
         NEW manifest \in {"temporary manifest", "manifest"}, NEW size \in Nat \cup {NoFile},
         disk[Tmp(f)] \in Nat, disk[Final(f)] = NoFile, PlacedAs(f, data, manifest, size)
  PROVE  \/ data = "temporary" /\ DiskStep(f, disk[Tmp(f)], NoFile)
         \/ data = "final" /\ DiskStep(f, NoFile, disk[Tmp(f)])
<1> PICK a, b, c, m, x :
      /\ a = Tmp(f) /\ b = Final(f) /\ c = Path(f, data) /\ m = Path(f, manifest) /\ x = disk[Tmp(f)]
  OBVIOUS
<1>1. /\ a \in Paths /\ b \in Paths /\ m \in Paths /\ m # a /\ m # b /\ a # b
      /\ a.file = f /\ b.file = f /\ m.file = f
  <2>1. manifest \in Names
    BY DEF Names
  <2>2. /\ a \in Paths /\ a.file = f /\ a.name = "temporary" /\ b \in Paths /\ b.file = f
        /\ b.name = "final" /\ m \in Paths /\ m.file = f /\ m.name = manifest
    BY <2>1, PathFacts
  <2> QED BY <2>2
<1>2. (data = "temporary" /\ c = a) \/ (data = "final" /\ c = b)
  BY DEF DataNames, Tmp, Final
<1>3. disk' = [disk EXCEPT ![a] = NoFile, ![c] = x, ![m] = size]
  BY DEF PlacedAs
<1>4. disk \in [Paths -> Nat \cup {NoFile}] /\ x \in Nat /\ disk[b] = NoFile
  BY FileFacts
<1>5. disk' \in [Paths -> Nat \cup {NoFile}] /\ \A p \in Paths : p.file # f => disk'[p] = disk[p]
  BY <1>1, <1>2, <1>3, <1>4
<1>6. CASE data = "temporary" /\ c = a
  <2>1. disk'[a] = x /\ disk'[b] = NoFile
    BY <1>1, <1>3, <1>4, <1>6
  <2> QED BY <1>5, <1>6, <2>1 DEF DiskStep
<1>7. CASE data = "final" /\ c = b
  <2>1. disk'[a] = NoFile /\ disk'[b] = x
    BY <1>1, <1>3, <1>4, <1>7
  <2> QED BY <1>5, <1>7, <2>1 DEF DiskStep
<1> QED BY <1>2, <1>6, <1>7

\* Some names of a file go.
LEMMA UnlinkedStep ==
  ASSUME ArtInv, NEW f \in Files, NEW names, disk' = Unlinked(disk, f, names)
  PROVE  /\ \E size, sealed \in Nat \cup {NoFile} : DiskStep(f, size, sealed)
         /\ DataNames \subseteq names => DiskStep(f, NoFile, NoFile)
<1>1. disk' \in [Paths -> Nat \cup {NoFile}] /\ \A p \in Paths : p.file # f => disk'[p] = disk[p]
  BY FileFacts DEF Unlinked
<1>2. disk'[Tmp(f)] \in Nat \cup {NoFile} /\ disk'[Final(f)] \in Nat \cup {NoFile}
  BY <1>1, PathFacts
<1>3. DataNames \subseteq names => disk'[Tmp(f)] = NoFile /\ disk'[Final(f)] = NoFile
  BY PathFacts DEF Unlinked, DataNames
<1> QED BY <1>1, <1>2, <1>3 DEF DiskStep

\* A file whose contents are not touched.
LEMMA DiskSame ==
  ASSUME ArtInv, NEW f \in Files, UNCHANGED disk
  PROVE  DiskStep(f, disk[Tmp(f)], disk[Final(f)])
BY FileFacts DEF DiskStep

\* UntoldStep, from what the step does to the names of the file.
LEMMA SilentStep ==
  ASSUME ArtInv, NEW f \in Files, NEW to \in Jobs, job' = [job EXCEPT ![f] = to],
         NEW size, NEW sealed, DiskStep(f, size, sealed),
         UNCHANGED <<recorded, current>>,
         failures \subseteq failures', failures' \subseteq Kinds,
         Right(to, size, sealed, recorded[Tmp(f)], failures'),
         \/ recorded[Tmp(f)] = 0
         \/ job[f] \in {"none", "created", "dropped", "gone"}
              <=> to \in {"none", "created", "dropped", "gone"}
         \/ "delete" \in failures'
  PROVE  ArtInv'
<1>1. Right(to, disk'[Tmp(f)], disk'[Final(f)], recorded[Tmp(f)], failures')
  BY DEF DiskStep
<1>2. /\ disk' \in [Paths -> Nat \cup {NoFile}]
      /\ \A p \in Paths : p.file # f => disk'[p] = disk[p]
  BY DEF DiskStep
<1> QED BY <1>1, <1>2, UntoldStep

\* The steps by which a file is written and sealed.
LEMMA WritingInv ==
  ASSUME ArtInv, NEW f \in Files,
         \/ AppendChunk(f) \/ AppendTorn(f) \/ RecordWrite(f) \/ Seal(f) \/ SealStops(f)
  PROVE  ArtInv'
<1> PICK size, sealed, counted :
      size = disk[Tmp(f)] /\ sealed = disk[Final(f)] /\ counted = recorded[Tmp(f)]
  OBVIOUS
<1>1. /\ job[f] \in Jobs /\ counted \in Nat /\ Right(job[f], size, sealed, counted, failures)
      /\ size \in Nat \cup {NoFile} /\ sealed \in Nat \cup {NoFile}
      /\ failures \subseteq Kinds /\ NoFile \notin Nat
  BY FileFacts
<1>2. CASE AppendChunk(f)
  <2>1. /\ job[f] = "writing" /\ job' = [job EXCEPT ![f] = "written"]
        /\ disk' = [disk EXCEPT ![Tmp(f)] = size + 1] /\ UNCHANGED <<recorded, current, failures>>
    BY <1>2 DEF AppendChunk, Goto, Accounts
  <2>2. size + 1 \in Nat /\ Right("written", size + 1, sealed, counted, failures')
    BY <1>1, <2>1 DEF Right
  <2>3. DiskStep(f, size + 1, sealed)
    BY <2>1, <2>2, SizeStep
  <2>4. "written" \in Jobs
    BY DEF Jobs
  <2> QED BY <1>1, <2>1, <2>2, <2>3, <2>4, SilentStep
<1>3. CASE AppendTorn(f)
  <2>1. PICK part \in 0 .. 1 : disk' = [disk EXCEPT ![Tmp(f)] = size + part]
    BY <1>3 DEF AppendTorn
  <2>2. /\ job[f] = "writing" /\ job' = [job EXCEPT ![f] = "failed"]
        /\ failures' = failures \cup {"append"} /\ UNCHANGED <<recorded, current>>
    BY <1>3 DEF AppendTorn, Goto, Accounts
  <2>3. size + part \in Nat /\ Right("failed", size + part, sealed, counted, failures')
    BY <1>1, <2>2 DEF Right, Exact
  <2>4. DiskStep(f, size + part, sealed)
    BY <2>1, <2>3, SizeStep
  <2>5. "failed" \in Jobs /\ "append" \in Kinds
    BY DEF Jobs, Kinds
  <2> QED BY <1>1, <2>2, <2>3, <2>4, <2>5, SilentStep
<1>4. CASE RecordWrite(f)
  BY <1>4, CountedStep DEF RecordWrite, Goto
<1>5. CASE Seal(f) \/ SealStops(f)
  <2>1. job[f] = "open" /\ UNCHANGED <<recorded, current>>
    BY <1>5 DEF Seal, SealStops, Goto, Accounts
  <2>2. /\ \/ job' = [job EXCEPT ![f] = "sealed"] /\ UNCHANGED failures
           \/ job' = [job EXCEPT ![f] = "unsealed"] /\ failures' = failures \cup {"seal"}
    BY <1>5 DEF Seal, SealStops, Goto
  <2>3. PICK data \in DataNames, manifest \in {"temporary manifest", "manifest"},
             part \in Nat \cup {NoFile} :
               PlacedAs(f, data, manifest, part) /\ (Seal(f) => data = "final")
    <3>1. CASE Seal(f)
      BY <3>1, ArtAssumption DEF Seal, DataNames
    <3>2. CASE SealStops(f)
      <4>1. job' = [job EXCEPT ![f] = "unsealed"]
        BY <3>2 DEF SealStops, Goto
      <4>2. ~Seal(f)
        BY <2>1, <4>1, FileFacts DEF Seal, Goto
      <4>3. \/ \E part \in {NoFile} \cup 0 .. ManifestSize :
                   PlacedAs(f, "temporary", "temporary manifest", part)
            \/ \E manifest \in {"temporary manifest", "manifest"} :
                   PlacedAs(f, "final", manifest, ManifestSize)
        BY <3>2 DEF SealStops
      <4>4. CASE \E part \in {NoFile} \cup 0 .. ManifestSize :
                   PlacedAs(f, "temporary", "temporary manifest", part)
        <5>1. PICK part \in {NoFile} \cup 0 .. ManifestSize :
                PlacedAs(f, "temporary", "temporary manifest", part)
          BY <4>4
        <5>2. part \in Nat \cup {NoFile} /\ "temporary" \in DataNames
          BY ArtAssumption DEF DataNames
        <5> QED BY <4>2, <5>1, <5>2
      <4>5. CASE \E manifest \in {"temporary manifest", "manifest"} :
                   PlacedAs(f, "final", manifest, ManifestSize)
        BY <4>2, <4>5, ArtAssumption DEF DataNames
      <4> QED BY <4>3, <4>4, <4>5
    <3> QED BY <1>5, <3>1, <3>2
  <2>4. counted \in Nat /\ size = counted /\ sealed = NoFile
    BY <1>1, <2>1 DEF Right
  <2>5. \/ data = "temporary" /\ DiskStep(f, counted, NoFile)
        \/ data = "final" /\ DiskStep(f, NoFile, counted)
    BY <2>3, <2>4, PlacedStep
  <2>6. /\ Right("sealed", NoFile, counted, counted, failures')
        /\ Right("unsealed", NoFile, counted, counted, failures')
        /\ Right("unsealed", counted, NoFile, counted, failures')
    BY <1>1, <2>4 DEF Right, Bytes
  <2>7. "sealed" \in Jobs /\ "unsealed" \in Jobs /\ "seal" \in Kinds
    BY DEF Jobs, Kinds
  <2>8. failures \subseteq failures' /\ failures' \subseteq Kinds
    BY <1>1, <2>2, <2>7
  <2>9. CASE job' = [job EXCEPT ![f] = "sealed"]
    <3>1. Seal(f)
      BY <1>5, <2>9, FileFacts DEF SealStops, Goto
    <3> QED BY <2>1, <2>3, <2>5, <2>6, <2>7, <2>8, <2>9, <3>1, SilentStep
  <2>10. CASE job' = [job EXCEPT ![f] = "unsealed"]
    BY <2>1, <2>5, <2>6, <2>7, <2>8, <2>10, SilentStep
  <2> QED BY <2>2, <2>9, <2>10
<1> QED BY <1>2, <1>3, <1>4, <1>5

\* The steps of a session's spool.
LEMMA SpoolInv ==
  ASSUME ArtInv, NEW f \in Files,
         \/ CreateSpool(f) \/ RegisterChunk(f) \/ RecordChecked(f) \/ RemoveChecked(f)
         \/ RecordDropped(f) \/ RemoveDropped(f) \/ RemovalStops(f)
  PROVE  ArtInv'
<1> PICK size, sealed, counted :
      size = disk[Tmp(f)] /\ sealed = disk[Final(f)] /\ counted = recorded[Tmp(f)]
  OBVIOUS
<1>1. /\ job[f] \in Jobs /\ counted \in Nat /\ Right(job[f], size, sealed, counted, failures)
      /\ size \in Nat \cup {NoFile} /\ sealed \in Nat \cup {NoFile}
      /\ failures \subseteq Kinds /\ NoFile \notin Nat
  BY FileFacts
<1>2. CASE CreateSpool(f)
  <2>1. /\ job[f] = "none" /\ job' = [job EXCEPT ![f] = "open"]
        /\ disk' = [disk EXCEPT ![Tmp(f)] = 0] /\ UNCHANGED <<recorded, current, failures>>
    BY <1>2 DEF CreateSpool, Goto, Accounts
  <2>2. counted = 0 /\ Right("open", 0, sealed, counted, failures')
    BY <1>1, <2>1 DEF Right
  <2>3. DiskStep(f, 0, sealed)
    BY <2>1, SizeStep
  <2>4. "open" \in Jobs
    BY DEF Jobs
  <2> PICK z : z = 0
    OBVIOUS
  <2>5. recorded[Tmp(f)] = 0 /\ DiskStep(f, z, sealed)
        /\ Right("open", z, sealed, recorded[Tmp(f)], failures')
        /\ failures \subseteq failures' /\ failures' \subseteq Kinds
    BY <1>1, <2>1, <2>2, <2>3
  <2> QED BY Zenon, <2>1, <2>4, <2>5, SilentStep
<1>3. CASE RegisterChunk(f)
  BY <1>3, CountedStep DEF RegisterChunk, Goto
<1>4. CASE RecordChecked(f)
  <2>1. PICK to \in {"accepted", "refused"} : job[f] = "sealed" /\ job' = [job EXCEPT ![f] = to]
    BY <1>4 DEF RecordChecked, Goto
  <2>2. Discount(Tmp(f)) /\ UNCHANGED <<disk, failures>>
    BY <1>4 DEF RecordChecked
  <2>3. Refreshed(Tmp(f)) = recorded[Tmp(f)] /\ recorded[Tmp(f)] \in Nat
    BY <1>1, <2>1 DEF Right, Refreshed
  <2>4. Refreshed(Tmp(f)) \in Nat /\ Refreshed(Tmp(f)) >= recorded[Tmp(f)]
    BY <2>3
  <2>5. job[f] \notin {"none", "created", "dropped", "gone"}
    BY <2>1
  <2>6. to \in {"accepted", "refused", "dropped", "gone"} /\ to # "gone"
    OBVIOUS
  <2> QED BY Zenon, <2>1, <2>2, <2>3, <2>4, <2>5, <2>6, DiscountedStep
<1>5. CASE RemoveChecked(f) \/ RemoveDropped(f)
  <2>1. PICK to \in {"gone", "unsealed"} :
          /\ job[f] \in {"accepted", "refused", "dropped"} /\ job' = [job EXCEPT ![f] = to]
          /\ to = "unsealed" => job[f] = "refused"
    BY <1>5 DEF RemoveChecked, RemoveDropped, Goto
  <2>2. disk' = Unlinked(disk, f, Names) /\ UNCHANGED <<recorded, current, failures>>
    BY <1>5 DEF RemoveChecked, RemoveDropped, Accounts
  <2>3. DiskStep(f, NoFile, NoFile)
    BY <2>2, UnlinkedStep DEF Names
  <2>4. Right(to, NoFile, NoFile, counted, failures')
    BY <1>1, <2>1, <2>2 DEF Right, Bytes
  <2>5. to \in Jobs
    BY DEF Jobs
  <2>6. \/ recorded[Tmp(f)] = 0
        \/ job[f] \in {"none", "created", "dropped", "gone"}
             <=> to \in {"none", "created", "dropped", "gone"}
    BY <1>1, <2>1 DEF Right
  <2> QED BY <1>1, <2>1, <2>2, <2>3, <2>4, <2>5, <2>6, SilentStep
<1>6. CASE RemovalStops(f)
  <2>1. PICK to \in {"gone", "ending"} :
          /\ job[f] \in {"accepted", "refused", "dropped"} /\ job' = [job EXCEPT ![f] = to]
          /\ to = "gone" <=> job[f] = "dropped"
    BY <1>6 DEF RemovalStops, Goto
  <2>2. UNCHANGED <<recorded, current>> /\ failures' = failures \cup {"remove"}
    BY <1>6 DEF RemovalStops, Accounts
  <2>3. PICK x, y : DiskStep(f, x, y)
    BY <1>6, UnlinkedStep DEF RemovalStops
  <2>4. "remove" \in failures' /\ ~Exact(failures') /\ "remove" \in Kinds
    BY <2>2 DEF Exact, Kinds
  <2>5. Right(to, x, y, counted, failures')
    BY <1>1, <2>1, <2>4 DEF Right
  <2>6. to \in Jobs /\ failures \subseteq failures' /\ failures' \subseteq Kinds
    BY <1>1, <2>2, <2>4 DEF Jobs
  <2>7. \/ recorded[Tmp(f)] = 0
        \/ job[f] \in {"none", "created", "dropped", "gone"}
             <=> to \in {"none", "created", "dropped", "gone"}
    BY <1>1, <2>1 DEF Right
  <2> QED BY <2>1, <2>2, <2>3, <2>5, <2>6, <2>7, SilentStep
<1>7. CASE RecordDropped(f)
  <2>1. /\ job[f] \in {"open", "failed", "sealed", "unsealed", "ending"}
        /\ job' = [job EXCEPT ![f] = "dropped"]
        /\ UNCHANGED <<disk, failures>>
    BY <1>7 DEF RecordDropped, Goto
  <2>2. PICK p \in {Tmp(f), Final(f)} :
          Discount(p) /\ p = IF job[f] \in {"sealed", "ending"} THEN Final(f) ELSE Tmp(f)
    BY <1>7 DEF RecordDropped
  <2>3. /\ Refreshed(p) \in Nat /\ Refreshed(p) >= counted
        /\ Exact(failures) => Refreshed(p) = counted
    <3>1. /\ Refreshed(p) = IF job[f] \in {"sealed", "ending"}
                              THEN IF sealed = NoFile THEN recorded[Final(f)] ELSE sealed
                              ELSE IF size = NoFile THEN counted ELSE size
          /\ recorded[Final(f)] \in Nat
      BY <2>2, FileFacts, PathFacts DEF Refreshed
    <3>2. CASE job[f] = "ending"
      BY <1>1, <3>1, <3>2 DEF Right, Exact
    <3>3. CASE job[f] # "ending"
      BY <1>1, <2>1, <3>1, <3>3 DEF Right, Bytes, Exact
    <3> QED BY <3>2, <3>3
  <2> QED BY <2>1, <2>2, <2>3, DiscountedStep
<1> QED BY <1>2, <1>3, <1>4, <1>5, <1>6, <1>7

\* The steps of an object of the multi-state store.
LEMMA ObjectInv ==
  ASSUME ArtInv, NEW f \in Files,
         \/ CreateObject(f) \/ RegisterObject(f) \/ AppendObject(f)
         \/ DeleteObject(f) \/ DeleteFails(f) \/ RecordDeleted(f) \/ Sweep(f)
  PROVE  ArtInv'
<1> PICK size, sealed, counted :
      size = disk[Tmp(f)] /\ sealed = disk[Final(f)] /\ counted = recorded[Tmp(f)]
  OBVIOUS
<1>1. /\ job[f] \in Jobs /\ counted \in Nat /\ Right(job[f], size, sealed, counted, failures)
      /\ size \in Nat \cup {NoFile} /\ sealed \in Nat \cup {NoFile}
      /\ failures \subseteq Kinds /\ NoFile \notin Nat
  BY FileFacts
<1>2. CASE CreateObject(f)
  <2>1. /\ job[f] = "none" /\ job' = [job EXCEPT ![f] = "created"]
        /\ disk' = [disk EXCEPT ![Tmp(f)] = 0] /\ UNCHANGED <<recorded, current, failures>>
    BY <1>2 DEF CreateObject, Goto, Accounts
  <2>2. counted = 0 /\ Right("created", 0, sealed, counted, failures')
    BY <1>1, <2>1 DEF Right
  <2>3. DiskStep(f, 0, sealed)
    BY <2>1, SizeStep
  <2>4. "created" \in Jobs
    BY DEF Jobs
  <2> PICK z : z = 0
    OBVIOUS
  <2>5. recorded[Tmp(f)] = 0 /\ DiskStep(f, z, sealed)
        /\ Right("created", z, sealed, recorded[Tmp(f)], failures')
        /\ failures \subseteq failures' /\ failures' \subseteq Kinds
    BY <1>1, <2>1, <2>2, <2>3
  <2> QED BY Zenon, <2>1, <2>4, <2>5, SilentStep
<1>3. CASE RegisterObject(f)
  BY <1>3, CountedStep DEF RegisterObject, Goto
<1>4. CASE AppendObject(f)
  <2>1. /\ job[f] = "open" /\ job' = [job EXCEPT ![f] = "writing"]
        /\ UNCHANGED <<disk, recorded, current, failures>>
    BY <1>4 DEF AppendObject, Goto, Accounts
  <2>2. DiskStep(f, size, sealed)
    BY <2>1, DiskSame
  <2>3. Right("writing", size, sealed, counted, failures')
    BY <1>1, <2>1 DEF Right
  <2>4. "writing" \in Jobs
    BY DEF Jobs
  <2> QED BY <1>1, <2>1, <2>2, <2>3, <2>4, SilentStep
<1>5. CASE DeleteObject(f)
  <2>1. /\ job[f] \in {"open", "failed", "sealed", "unsealed"} /\ job' = [job EXCEPT ![f] = "deleted"]
        /\ UNCHANGED <<recorded, current, failures>>
    BY <1>5 DEF DeleteObject, Goto, Accounts
  <2>2. DiskStep(f, NoFile, NoFile)
    <3>1. DataNames \subseteq Range(ObjectNames)
      <4>1. ObjectNames[1] = "temporary" /\ ObjectNames[2] = "final" /\ DOMAIN ObjectNames = 1 .. 3
        BY DEF ObjectNames
      <4> QED BY <4>1 DEF Range, DataNames
    <3> QED BY <1>5, <3>1, UnlinkedStep DEF DeleteObject
  <2>3. Right("deleted", NoFile, NoFile, counted, failures')
    BY DEF Right
  <2>4. "deleted" \in Jobs
    BY DEF Jobs
  <2> QED BY <1>1, <2>1, <2>2, <2>3, <2>4, SilentStep
<1>6. CASE DeleteFails(f)
  <2>1. /\ job' = [job EXCEPT ![f] = "gone"] /\ UNCHANGED <<recorded, current>>
        /\ failures' = failures \cup {"delete"}
    BY <1>6 DEF DeleteFails, Goto, Accounts
  <2>2. PICK left \in {disk, Emptied(f)} : \E gone : disk' = Unlinked(left, f, gone)
    BY <1>6 DEF DeleteFails
  <2>3. left \in [Paths -> Nat \cup {NoFile}] /\ \A p \in Paths : p.file # f => left[p] = disk[p]
    BY FileFacts DEF Emptied
  <2>4. /\ disk' \in [Paths -> Nat \cup {NoFile}]
        /\ \A p \in Paths : p.file # f => disk'[p] = disk[p]
    BY <2>2, <2>3 DEF Unlinked
  <2>5. DiskStep(f, disk'[Tmp(f)], disk'[Final(f)])
    BY <2>4 DEF DiskStep
  <2>6. "delete" \in failures' /\ ~Exact(failures') /\ "delete" \in Kinds
    BY <2>1 DEF Exact, Kinds
  <2>7. Right("gone", disk'[Tmp(f)], disk'[Final(f)], counted, failures')
    BY <2>6 DEF Right
  <2>8. "gone" \in Jobs /\ failures \subseteq failures' /\ failures' \subseteq Kinds
    BY <1>1, <2>1, <2>6 DEF Jobs
  <2> QED BY <2>1, <2>5, <2>6, <2>7, <2>8, SilentStep
<1>7. CASE RecordDeleted(f)
  <2>1. /\ job[f] = "deleted" /\ job' = [job EXCEPT ![f] = "gone"] /\ Discount(Tmp(f))
        /\ UNCHANGED <<disk, failures>>
    BY <1>7 DEF RecordDeleted, Goto
  <2>2. /\ disk[Tmp(f)] = NoFile /\ disk[Final(f)] = NoFile
        /\ Refreshed(Tmp(f)) = recorded[Tmp(f)] /\ recorded[Tmp(f)] \in Nat
    BY <1>1, <2>1 DEF Right, Refreshed
  <2>3. Refreshed(Tmp(f)) \in Nat /\ Refreshed(Tmp(f)) >= recorded[Tmp(f)]
    BY <2>2
  <2>4. job[f] \notin {"none", "created", "dropped", "gone"}
    BY <2>1
  <2>5. "gone" \in {"accepted", "refused", "dropped", "gone"}
    OBVIOUS
  <2> QED BY Zenon, <2>1, <2>2, <2>3, <2>4, <2>5, DiscountedStep
<1>8. CASE Sweep(f)
  <2>1. job[f] = "gone" /\ job' = [job EXCEPT ![f] = "gone"]
        /\ UNCHANGED <<recorded, current, failures>>
    BY <1>8, FileFacts DEF Sweep, Accounts
  <2>2. DiskStep(f, NoFile, NoFile)
    BY <1>8, UnlinkedStep DEF Sweep, Names
  <2>3. Right("gone", NoFile, NoFile, counted, failures')
    BY DEF Right
  <2> QED BY <1>1, <2>1, <2>2, <2>3, SilentStep
<1> QED BY <1>2, <1>3, <1>4, <1>5, <1>6, <1>7, <1>8

\* Every step of a file's writer keeps the accounting right.
LEMMA WriteStepInv ==
  ASSUME ArtInv, NEW f \in Files, WriteStep(f)
  PROVE  ArtInv'
BY WritingInv, SpoolInv, ObjectInv DEF WriteStep

\* No file is there at the start.
LEMMA ArtInitInv ==
  ASSUME ArtInit
  PROVE  ArtInv
<1>1. ArtTyped
  BY DEF ArtInit, ArtTyped, Jobs
<1>2. ASSUME NEW f \in Files PROVE FileOK(f)
  BY PathFacts DEF ArtInit, FileOK, Right, Bytes
<1>3. CountInv
  <2> PICK h : h = HeldAt(disk, job, recorded)
    OBVIOUS
  <2>1. \A p \in Paths : h[p] = 0
    BY PathFacts DEF ArtInit, HeldAt, Held
  <2>2. SumFunctionOnSet(h, Paths) = 0
    BY <2>1, PathFacts, SumZero
  <2>3. HeldBytes(disk, job, recorded) = 0 /\ current = 0
    BY <2>2 DEF HeldBytes, ArtInit
  <2> QED BY <2>3 DEF CountInv
<1> QED BY <1>1, <1>2, <1>3 DEF ArtInv

\* Between operations what is held of the files is what they are on disk, but
\* for what a failed append has added and a failed removal has left.
LEMMA HeldOnDisk ==
  ASSUME ArtInv, Quiet
  PROVE  /\ HeldBytes(disk, job, recorded) \in Nat /\ DataOnDisk \in Nat
         /\ "delete" \notin failures => HeldBytes(disk, job, recorded) <= DataOnDisk
         /\ Exact(failures) => HeldBytes(disk, job, recorded) = DataOnDisk
<1> DEFINE h == HeldAt(disk, job, recorded)
           d == [p \in Paths |-> IF p.name \in DataNames THEN Bytes(disk[p]) ELSE 0]
<1>1. ASSUME NEW p \in Paths
      PROVE  /\ h[p] \in Nat /\ d[p] \in Nat
             /\ "delete" \notin failures => h[p] <= d[p]
             /\ Exact(failures) => h[p] = d[p]
  <2> PICK f : f = p.file
    OBVIOUS
  <2>1. /\ f \in Files
        /\ \/ p = Tmp(f) /\ p.name = "temporary"
           \/ p = Final(f) /\ p.name = "final"
           \/ p.name \notin DataNames
    BY PathFacts DEF Tmp, Final, Names, DataNames
  <2>2. /\ job[f] \in {"none", "open", "failed", "sealed", "unsealed", "ending", "gone"}
        /\ recorded[Tmp(f)] \in Nat /\ NoFile \notin Nat
        /\ disk[Tmp(f)] \in Nat \cup {NoFile} /\ disk[Final(f)] \in Nat \cup {NoFile}
        /\ Right(job[f], disk[Tmp(f)], disk[Final(f)], recorded[Tmp(f)], failures)
    BY <2>1, FileFacts DEF Quiet, QuietFile
  <2>3. /\ h[p] = IF p.name = HeldName(disk, f) THEN Held(job, recorded, f) ELSE 0
        /\ d[p] = IF p.name \in DataNames THEN Bytes(disk[p]) ELSE 0
    BY DEF HeldAt
  <2>4. CASE p = Tmp(f) /\ p.name = "temporary"
    BY <2>2, <2>3, <2>4 DEF Right, Bytes, Held, HeldName, Exact, DataNames
  <2>5. CASE p = Final(f) /\ p.name = "final"
    BY <2>2, <2>3, <2>5 DEF Right, Bytes, Held, HeldName, Exact, DataNames
  <2>6. CASE p.name \notin DataNames
    BY <2>3, <2>6 DEF HeldName, DataNames
  <2> QED BY <2>1, <2>4, <2>5, <2>6
<1>2. IsFiniteSet(Paths)
  BY PathFacts
<1>3. /\ HeldBytes(disk, job, recorded) = SumFunctionOnSet(h, Paths)
      /\ DataOnDisk = SumFunctionOnSet(d, Paths)
  BY DEF HeldBytes, DataOnDisk
<1> HIDE DEF h, d
<1>4. SumFunctionOnSet(h, Paths) \in Nat /\ SumFunctionOnSet(d, Paths) \in Nat
  BY <1>1, <1>2, SumType
<1>5. "delete" \notin failures => SumFunctionOnSet(h, Paths) <= SumFunctionOnSet(d, Paths)
  BY <1>1, <1>2, SumLess
<1>6. Exact(failures) => SumFunctionOnSet(h, Paths) = SumFunctionOnSet(d, Paths)
  BY <1>1, <1>2, SumSame
<1> QED BY <1>3, <1>4, <1>5, <1>6

\* The invariant says of the count what the property does.
LEMMA CountRight ==
  ASSUME ArtInv
  PROVE  DirectMatchesDisk
<1> SUFFICES ASSUME Quiet
             PROVE  /\ failures \subseteq {"seal"} => current = DataOnDisk
                    /\ "delete" \notin failures => current <= DataOnDisk
  BY DEF DirectMatchesDisk
<1>1. current \in Nat
  BY DEF ArtInv, ArtTyped
<1> QED BY <1>1, HeldOnDisk DEF ArtInv, CountInv, Exact

\* What a run does is chosen at its start, and only the writers touch files.
FilesInv == work \in Workloads /\ ArtInv

\* At the start no file is made and nothing is counted.
LEMMA FilesInitInv == InstrInit => FilesInv
BY ArtInitInv DEF InstrInit, FilesInv

\* Every step keeps the accounting right.
LEMMA FilesNextInv == FilesInv /\ [InstrNext]_instrVars => FilesInv'
<1> SUFFICES ASSUME FilesInv, [InstrNext]_instrVars PROVE FilesInv'
  OBVIOUS
<1>1. CASE WriterStep
  <2>1. PICK f \in work.files : WriteStep(f)
    BY <1>1 DEF WriterStep
  <2>2. f \in Files
    <3>1. work \in [guards : Nat, scopes : Nat, files : SUBSET Files]
      BY InstrAssumption DEF FilesInv
    <3> QED BY <2>1, <3>1
  <2>3. ArtInv'
    BY <2>1, <2>2, WriteStepInv DEF FilesInv
  <2> QED BY <1>1, <2>3 DEF WriterStep, phaseVars, FilesInv
<1>2. CASE SamplerStep \/ (\E t \in Threads : ThreadStep(t)) \/ UNCHANGED instrVars
  <2>1. UNCHANGED <<work, Writers>>
    <3>1. ASSUME NEW t \in Threads, ThreadStep(t) PROVE UNCHANGED <<work, Writers>>
      BY <3>1 DEF ThreadStep, MarkPreprocessing, MarkVerification, BeginPhase, FinishPhase,
                  RecordEvent, FlushTake, FlushWrite, AskScope, StartSampler, SamplerFails,
                  StopSampler, JoinSampler, FinishScope, DropScope, EndRun, ReportScan,
                  ReportStore, ReadReport, CloseScope, phaseVars, artVars, Writers
    <3>2. CASE SamplerStep \/ UNCHANGED instrVars
      BY <3>2 DEF SamplerStep, SamplerScan, SamplerStore, SamplerExit, instrVars, phaseVars,
                  artVars, Writers
    <3> QED BY <1>2, <3>1, <3>2
  <2> QED BY <2>1 DEF FilesInv, ArtInv, ArtTyped, FileOK, CountInv, Writers
<1> QED BY <1>1, <1>2 DEF InstrNext

\* Between two operations the direct count of temporary bytes is the size of
\* the files without their manifests, however many spools and state objects are
\* written, sealed, removed and dropped in whatever order, wherever a seal
\* stopped and whichever name each report used; after a failed append or spool
\* removal it is at most that (record_artifact_write, record_artifact_remove).
THEOREM DirectCountRight == InstrSpec => []DirectMatchesDisk
<1>1. FilesInv => DirectMatchesDisk
  BY CountRight DEF FilesInv
<1> QED BY FilesInitInv, FilesNextInv, <1>1, PTL DEF InstrSpec
-------------------------------------------------------------------------------
(* The events of phases *)

\* The state of threads that the steps change.
LEMMA ThreadFacts ==
  ASSUME IInv
  PROVE  /\ thr \in [Threads -> Places] /\ buffer \subseteq SomeEvents /\ given \in Nat
         /\ \A t \in Threads : /\ thr[t] \in Places /\ thr[t].live \in Seq(Guards)
                               /\ thr[t].hand \subseteq SomeEvents /\ thr[t].at \in Stops
BY DEF IInv, InstrTyped, Places

\* An event has a guard's number and a kind.
LEMMA EventFacts ==
  ASSUME NEW e \in Events
  PROVE  e \in [guard : 1 .. MaxGuards, kind : {"begin", "end"}]
         /\ e = [guard |-> e.guard, kind |-> e.kind] /\ e.kind \in {"begin", "end"}
BY DEF Events

\* A step at which no event is made or moved.
LEMMA EventStill ==
  ASSUME EventInv, UNCHANGED <<buffer, log, given>>,
         \A t \in Threads : /\ thr'[t].hand = thr[t].hand /\ thr'[t].live = thr[t].live
                            /\ thr'[t].at \notin {"begun", "flushing"} => thr[t].hand = {}
  PROVE  EventInv'
<1>1. HandInv' /\ LiveInv'
  BY DEF EventInv, HandInv, LiveInv
<1>2. \A e : Due(e)' <=> Due(e)
  BY DEF Due, Ended
<1>3. PlaceInv'
  BY <1>2 DEF EventInv, PlaceInv
<1> QED BY <1>1, <1>3 DEF EventInv

\* A phase begins: its guard is new, and so is its event.
LEMMA BeginEvent ==
  ASSUME IInv, EventInv, NEW t \in Threads, NEW phase \in Phases, BeginPhase(t, phase)
  PROVE  EventInv'
<1> PICK n : n = given + 1
  OBVIOUS
<1> DEFINE guard == [guard |-> n, phase |-> phase]
           event == [guard |-> n, kind |-> "begin"]
<1> PICK old : old = thr[t].live
  OBVIOUS
<1>1. /\ thr' = [thr EXCEPT ![t].at = "begun", ![t].hand = {event}, ![t].live = Append(@, guard)]
      /\ given' = n /\ UNCHANGED <<buffer, log>> /\ thr[t].at \in {"run", "marked"}
  BY DEF BeginPhase, Running
<1>2. /\ thr'[t].at = "begun" /\ thr'[t].hand = {event} /\ thr'[t].live = Append(old, guard)
      /\ \A u \in Threads \ {t} : thr'[u] = thr[u]
  BY <1>1, ThreadFacts DEF Places
<1>3. /\ DOMAIN old = 1 .. Len(old) /\ Len(old) \in Nat
      /\ DOMAIN thr'[t].live = 1 .. Len(old) + 1
      /\ \A i \in DOMAIN old : thr'[t].live[i] = old[i]
      /\ thr'[t].live[Len(old) + 1].guard = n
  <2>1. old \in Seq(Guards) /\ guard \in Guards
    <3>1. n \in Nat
      BY ThreadFacts
    <3>2. guard \in Guards
      BY <3>1 DEF Guards
    <3> QED BY <3>2, ThreadFacts
  <2> HIDE DEF guard
  <2>2. /\ DOMAIN old = 1 .. Len(old) /\ Len(old) \in Nat
        /\ DOMAIN Append(old, guard) = 1 .. Len(old) + 1
        /\ \A i \in DOMAIN old : Append(old, guard)[i] = old[i]
        /\ Append(old, guard)[Len(old) + 1] = guard
    BY <2>1, AppendProperties
  <2>3. guard.guard = n
    BY DEF guard
  <2> QED BY <1>2, <2>2, <2>3
<1>4. n \in Nat /\ given \in Nat
  BY ThreadFacts
<1>5. \A g \in 1 .. given : Ended(g)' <=> Ended(g)
  <2> SUFFICES ASSUME NEW g \in 1 .. given PROVE Ended(g)' <=> Ended(g)
    OBVIOUS
  <2>1. \A u \in Threads \ {t} : thr'[u].live = thr[u].live
    BY <1>2
  <2>2. (\E i \in DOMAIN thr'[t].live : thr'[t].live[i].guard = g)
          <=> \E i \in DOMAIN old : old[i].guard = g
    <3>1. g # n /\ DOMAIN thr'[t].live = DOMAIN old \cup {Len(old) + 1}
      BY <1>3, <1>4
    <3> QED BY <1>3, <3>1
  <2> QED BY <2>1, <2>2 DEF Ended
<1>6. ~Ended(n)'
  <2>1. Len(old) + 1 \in DOMAIN thr'[t].live
    BY <1>3
  <2> QED BY <1>3, <2>1 DEF Ended
<1>7. HandInv'
  BY <1>2 DEF EventInv, HandInv
<1>8. LiveInv'
  <2>1. \A u \in Threads : \A i \in DOMAIN thr'[u].live :
          \/ u = t /\ i = Len(old) + 1
          \/ /\ i \in DOMAIN thr[u].live /\ thr'[u].live[i] = thr[u].live[i]
             /\ thr[u].live[i].guard \in 1 .. given
    <3>1. \A u \in Threads : \A i \in DOMAIN thr[u].live : thr[u].live[i].guard \in 1 .. given
      BY DEF EventInv, LiveInv
    <3>2. \A i \in DOMAIN thr'[t].live : i \in DOMAIN old \/ i = Len(old) + 1
      BY <1>3
    <3> SUFFICES ASSUME NEW u \in Threads, NEW i \in DOMAIN thr'[u].live
                 PROVE  \/ u = t /\ i = Len(old) + 1
                        \/ /\ i \in DOMAIN thr[u].live /\ thr'[u].live[i] = thr[u].live[i]
                           /\ thr[u].live[i].guard \in 1 .. given
      OBVIOUS
    <3>3. CASE u = t
      BY <1>3, <3>1, <3>2, <3>3
    <3>4. CASE u # t
      BY <1>2, <3>1, <3>4
    <3> QED BY <3>3, <3>4
  <2>0. given' = n
    BY <1>1
  <2> SUFFICES ASSUME NEW u \in Threads, NEW v \in Threads,
                      NEW i \in DOMAIN thr'[u].live, NEW k \in DOMAIN thr'[v].live
               PROVE  /\ thr'[u].live[i].guard \in 1 .. given'
                      /\ thr'[u].live[i].guard = thr'[v].live[k].guard => u = v /\ i = k
    BY DEF LiveInv
  <2>2. CASE u = t /\ i = Len(old) + 1 /\ v = t /\ k = Len(old) + 1
    BY <1>3, <1>4, <2>0, <2>2
  <2>3. CASE u = t /\ i = Len(old) + 1 /\ ~(v = t /\ k = Len(old) + 1)
    BY <1>3, <1>4, <2>0, <2>1, <2>3
  <2>4. CASE ~(u = t /\ i = Len(old) + 1) /\ v = t /\ k = Len(old) + 1
    BY <1>3, <1>4, <2>0, <2>1, <2>4
  <2>5. CASE ~(u = t /\ i = Len(old) + 1) /\ ~(v = t /\ k = Len(old) + 1)
    BY <1>4, <2>0, <2>1, <2>5 DEF EventInv, LiveInv
  <2> QED BY <2>2, <2>3, <2>4, <2>5
<1>9. PlaceInv'
  <2> SUFFICES ASSUME NEW e \in Events
               PROVE  /\ Due(e)' <=> log[e] = 1 \/ e \in buffer \/ \E u \in Threads : e \in thr'[u].hand
                      /\ log[e] = 1 => e \notin buffer
                      /\ \A u \in Threads : e \in thr'[u].hand => log[e] = 0 /\ e \notin buffer
                      /\ \A u, v \in Threads : e \in thr'[u].hand /\ e \in thr'[v].hand => u = v
    BY <1>1 DEF PlaceInv
  <2>1. /\ Due(e) <=> log[e] = 1 \/ e \in buffer \/ \E u \in Threads : e \in thr[u].hand
        /\ log[e] = 1 => e \notin buffer
        /\ \A u \in Threads : e \in thr[u].hand => log[e] = 0 /\ e \notin buffer
        /\ \A u, v \in Threads : e \in thr[u].hand /\ e \in thr[v].hand => u = v
        /\ log[e] \in {0, 1}
    BY DEF EventInv, PlaceInv
  <2>2. thr[t].hand = {} /\ \A u \in Threads \ {t} : thr'[u].hand = thr[u].hand
    BY <1>1, <1>2 DEF EventInv, HandInv
  <2>3. e.guard \in Nat /\ e.guard >= 1 /\ (e = event <=> e.guard = n /\ e.kind = "begin")
        /\ e.kind \in {"begin", "end"}
    BY EventFacts
  <2>4. CASE e.guard <= given
    <3>1. Due(e)' <=> Due(e)
      BY <1>1, <1>4, <1>5, <2>3, <2>4 DEF Due
    <3>2. e # event
      BY <1>4, <2>3, <2>4
    <3> HIDE DEF event
    <3> QED BY <1>2, <2>1, <2>2, <3>1, <3>2
  <2>5. CASE e.guard = n
    <3>1. ~Due(e)
      BY <1>4, <2>5 DEF Due
    <3>2. Due(e)' <=> e = event
      BY <1>1, <1>4, <1>6, <2>3, <2>5 DEF Due
    <3> HIDE DEF event
    <3> QED BY <1>2, <2>1, <2>2, <3>1, <3>2
  <2>6. CASE ~(e.guard <= n)
    <3>1. ~Due(e) /\ ~Due(e)'
      BY <1>1, <1>4, <2>3, <2>6 DEF Due
    <3>2. e # event
      BY <1>4, <2>3, <2>6
    <3> HIDE DEF event
    <3> QED BY <1>2, <2>1, <2>2, <3>1, <3>2
  <2> QED BY <1>4, <2>3, <2>4, <2>5, <2>6
<1> QED BY <1>1, <1>7, <1>8, <1>9 DEF EventInv

\* A phase ends: its event is due now and was not before.
LEMMA FinishEvent ==
  ASSUME IInv, EventInv, NEW t \in Threads, FinishPhase(t)
  PROVE  EventInv'
<1> PICK old, m, n : old = thr[t].live /\ m = Len(old) /\ n = old[m].guard
  OBVIOUS
<1> DEFINE event == [guard |-> n, kind |-> "end"]
<1>1. /\ thr' = [thr EXCEPT ![t].at = "begun", ![t].hand = {event}, ![t].live = Front(@)]
      /\ UNCHANGED <<buffer, log, given>> /\ thr[t].at = "run" /\ old # <<>>
  BY DEF FinishPhase, Running, Last
<1>2. /\ thr'[t].at = "begun" /\ thr'[t].hand = {event} /\ thr'[t].live = Front(old)
      /\ \A u \in Threads \ {t} : thr'[u] = thr[u]
  BY <1>1, ThreadFacts DEF Places
<1>3. /\ DOMAIN old = 1 .. m /\ m \in Nat \ {0}
      /\ DOMAIN thr'[t].live = 1 .. m - 1
      /\ \A i \in 1 .. m - 1 : thr'[t].live[i] = old[i]
  <2>1. old \in Seq(Guards) /\ old # <<>>
    BY <1>1, ThreadFacts
  <2>2. /\ DOMAIN old = 1 .. m /\ m \in Nat \ {0}
        /\ DOMAIN Front(old) = 1 .. m - 1
        /\ \A i \in 1 .. m - 1 : Front(old)[i] = old[i]
    BY <2>1 DEF Front
  <2> QED BY <1>2, <2>2
<1>4. m \in DOMAIN old /\ n \in 1 .. given /\ given \in Nat
  <2>1. m \in DOMAIN old
    BY <1>3
  <2> QED BY <2>1, ThreadFacts DEF EventInv, LiveInv
<1>5. \A u \in Threads : \A i \in DOMAIN thr'[u].live :
        /\ i \in DOMAIN thr[u].live /\ thr'[u].live[i] = thr[u].live[i]
        /\ u = t => i # m
  <2> SUFFICES ASSUME NEW u \in Threads, NEW i \in DOMAIN thr'[u].live
               PROVE  /\ i \in DOMAIN thr[u].live /\ thr'[u].live[i] = thr[u].live[i]
                      /\ u = t => i # m
    OBVIOUS
  <2>1. CASE u = t
    <3>1. i \in 1 .. m - 1
      BY <1>3, <2>1
    <3> QED BY <1>3, <2>1, <3>1
  <2>2. CASE u # t
    BY <1>2, <2>2
  <2> QED BY <2>1, <2>2
<1>6. \A u \in Threads : \A i \in DOMAIN thr[u].live :
        i \in DOMAIN thr'[u].live \/ (u = t /\ i = m)
  <2>1. \A i \in DOMAIN old : i \in DOMAIN thr'[t].live \/ i = m
    BY <1>3
  <2> QED BY <1>2, <2>1
<1>7. LiveInv'
  <2> SUFFICES ASSUME NEW u \in Threads, NEW v \in Threads,
                      NEW i \in DOMAIN thr'[u].live, NEW k \in DOMAIN thr'[v].live
               PROVE  /\ thr'[u].live[i].guard \in 1 .. given'
                      /\ thr'[u].live[i].guard = thr'[v].live[k].guard => u = v /\ i = k
    BY DEF LiveInv
  <2>1. given' = given
    BY <1>1
  <2> QED BY <1>5, <2>1 DEF EventInv, LiveInv
<1>8. ~Ended(n) /\ Ended(n)'
  <2>1. ~Ended(n)
    BY <1>4 DEF Ended
  <2>2. \A u \in Threads : \A i \in DOMAIN thr'[u].live : thr'[u].live[i].guard # n
    BY <1>4, <1>5 DEF EventInv, LiveInv
  <2> QED BY <2>1, <2>2 DEF Ended
<1>9. \A g : g # n => (Ended(g)' <=> Ended(g))
  <2> SUFFICES ASSUME NEW g, g # n PROVE Ended(g)' <=> Ended(g)
    OBVIOUS
  <2>1. ASSUME Ended(g) PROVE Ended(g)'
    <3>1. \A u \in Threads : \A i \in DOMAIN thr'[u].live : thr'[u].live[i].guard # g
      BY <1>5, <2>1 DEF Ended
    <3> QED BY <3>1 DEF Ended
  <2>2. ASSUME Ended(g)' PROVE Ended(g)
    <3>1. \A u \in Threads : \A i \in DOMAIN thr'[u].live : thr'[u].live[i].guard # g
      BY <2>2 DEF Ended
    <3>2. \A u \in Threads : \A i \in DOMAIN thr[u].live : thr[u].live[i].guard # g
      BY <1>5, <1>6, <3>1
    <3> QED BY <3>2 DEF Ended
  <2> QED BY <2>1, <2>2
<1>10. HandInv'
  BY <1>2 DEF EventInv, HandInv
<1>11. PlaceInv'
  <2> SUFFICES ASSUME NEW e \in Events
               PROVE  /\ Due(e)' <=> log'[e] = 1 \/ e \in buffer' \/ \E u \in Threads : e \in thr'[u].hand
                      /\ log'[e] = 1 => e \notin buffer'
                      /\ \A u \in Threads : e \in thr'[u].hand => log'[e] = 0 /\ e \notin buffer'
                      /\ \A u, v \in Threads : e \in thr'[u].hand /\ e \in thr'[v].hand => u = v
    BY DEF PlaceInv
  <2>1. /\ Due(e) <=> log[e] = 1 \/ e \in buffer \/ \E u \in Threads : e \in thr[u].hand
        /\ log[e] = 1 => e \notin buffer
        /\ \A u \in Threads : e \in thr[u].hand => log[e] = 0 /\ e \notin buffer
        /\ \A u, v \in Threads : e \in thr[u].hand /\ e \in thr[v].hand => u = v
        /\ log[e] \in {0, 1}
    BY DEF EventInv, PlaceInv
  <2>2. thr[t].hand = {} /\ \A u \in Threads \ {t} : thr'[u].hand = thr[u].hand
    BY <1>1, <1>2 DEF EventInv, HandInv
  <2>3. e.kind \in {"begin", "end"} /\ (e = event <=> e.guard = n /\ e.kind = "end")
    BY EventFacts
  <2>4. UNCHANGED <<buffer, log, given>>
    BY <1>1
  <2>5. CASE e = event
    <3>1. ~Due(e) /\ Due(e)'
      BY <1>4, <1>8, <2>3, <2>4, <2>5 DEF Due
    <3> HIDE DEF event
    <3> QED BY <1>2, <2>1, <2>2, <2>4, <2>5, <3>1
  <2>6. CASE e # event
    <3>1. Due(e)' <=> Due(e)
      BY <1>9, <2>3, <2>4, <2>6 DEF Due
    <3> HIDE DEF event
    <3> QED BY <1>2, <2>1, <2>2, <2>4, <2>6, <3>1
  <2> QED BY <2>5, <2>6
<1> QED BY <1>1, <1>7, <1>10, <1>11 DEF EventInv

\* Events move from a thread's hand to the file or the buffer, or from the
\* buffer to a thread's hand.
LEMMA MovedEvents ==
  ASSUME IInv, EventInv, NEW t \in Threads, thr'[t].live = thr[t].live, given' = given,
         \A u \in Threads \ {t} : thr'[u] = thr[u],
         log' \in [Events -> {0, 1}],
         thr'[t].at \notin {"begun", "flushing"} => thr'[t].hand = {},
         \/ /\ log' = Logged(thr[t].hand) /\ buffer' = buffer /\ thr'[t].hand = {}
         \/ /\ log' = log /\ buffer' = buffer \cup thr[t].hand /\ thr'[t].hand = {}
         \/ /\ log' = log /\ buffer' = {} /\ thr'[t].hand = buffer /\ thr[t].hand = {}
  PROVE  EventInv'
<1>1. HandInv'
  BY DEF EventInv, HandInv
<1>2. \A u \in Threads : thr'[u].live = thr[u].live
  OBVIOUS
<1>3. LiveInv'
  BY <1>2 DEF EventInv, LiveInv
<1>4. \A e : Due(e)' <=> Due(e)
  BY <1>2 DEF Due, Ended
<1>5. PlaceInv'
  <2> SUFFICES ASSUME NEW e \in Events
               PROVE  /\ Due(e) <=> log'[e] = 1 \/ e \in buffer' \/ \E u \in Threads : e \in thr'[u].hand
                      /\ log'[e] = 1 => e \notin buffer'
                      /\ \A u \in Threads : e \in thr'[u].hand => log'[e] = 0 /\ e \notin buffer'
                      /\ \A u, v \in Threads : e \in thr'[u].hand /\ e \in thr'[v].hand => u = v
    BY <1>4 DEF PlaceInv
  <2>1. /\ Due(e) <=> log[e] = 1 \/ e \in buffer \/ \E u \in Threads : e \in thr[u].hand
        /\ log[e] = 1 => e \notin buffer
        /\ \A u \in Threads : e \in thr[u].hand => log[e] = 0 /\ e \notin buffer
        /\ \A u, v \in Threads : e \in thr[u].hand /\ e \in thr[v].hand => u = v
        /\ log[e] \in {0, 1}
    BY DEF EventInv, PlaceInv
  <2>2. \A u \in Threads \ {t} : thr'[u].hand = thr[u].hand
    OBVIOUS
  <2>3. CASE log' = Logged(thr[t].hand) /\ buffer' = buffer /\ thr'[t].hand = {}
    <3>1. log'[e] = IF e \in thr[t].hand THEN log[e] + 1 ELSE log[e]
      BY <2>3 DEF Logged
    <3>2. log'[e] = IF e \in thr[t].hand THEN 1 ELSE log[e]
      BY <2>1, <3>1
    <3> QED BY <2>1, <2>2, <2>3, <3>2
  <2>4. CASE log' = log /\ buffer' = buffer \cup thr[t].hand /\ thr'[t].hand = {}
    BY <2>1, <2>2, <2>4
  <2>5. CASE log' = log /\ buffer' = {} /\ thr'[t].hand = buffer /\ thr[t].hand = {}
    BY <2>1, <2>2, <2>5
  <2> QED BY <2>3, <2>4, <2>5
<1> QED BY <1>1, <1>3, <1>5 DEF EventInv

\* Events in a hand are not in the file yet.
LEMMA LoggedOnce ==
  ASSUME EventInv, NEW t \in Threads
  PROVE  Logged(thr[t].hand) \in [Events -> {0, 1}]
<1> SUFFICES ASSUME NEW e \in Events
             PROVE  (IF e \in thr[t].hand THEN log[e] + 1 ELSE log[e]) \in {0, 1}
  BY DEF Logged
<1> QED BY DEF EventInv, PlaceInv

\* Recording an event and flushing the buffer move events and make none.
LEMMA MoveSteps ==
  ASSUME IInv, EventInv, NEW t \in Threads, RecordEvent(t) \/ FlushTake(t) \/ FlushWrite(t)
  PROVE  EventInv'
<1>1. CASE RecordEvent(t) \/ FlushWrite(t)
  <2>1. /\ thr' = [thr EXCEPT ![t].at = "run", ![t].hand = {}] /\ given' = given
        /\ \/ log' = Logged(thr[t].hand) /\ buffer' = buffer
           \/ log' = log /\ buffer' = buffer \cup thr[t].hand
    BY <1>1 DEF RecordEvent, FlushWrite
  <2>2. /\ thr'[t].hand = {} /\ thr'[t].live = thr[t].live
        /\ \A u \in Threads \ {t} : thr'[u] = thr[u]
    BY <2>1, ThreadFacts DEF Places
  <2>3. log' \in [Events -> {0, 1}]
    BY <2>1, LoggedOnce DEF EventInv
  <2> QED BY <2>1, <2>2, <2>3, MovedEvents
<1>2. CASE FlushTake(t)
  <2>1. /\ thr' = [thr EXCEPT ![t].at = "flushing", ![t].hand = buffer] /\ given' = given
        /\ log' = log /\ buffer' = {} /\ thr[t].at = "run"
    BY <1>2 DEF FlushTake, Running
  <2>2. /\ thr'[t].hand = buffer /\ thr'[t].live = thr[t].live /\ thr'[t].at = "flushing"
        /\ \A u \in Threads \ {t} : thr'[u] = thr[u]
    BY <2>1, ThreadFacts DEF Places
  <2>3. log' \in [Events -> {0, 1}] /\ thr[t].hand = {}
    BY <2>1 DEF EventInv, HandInv
  <2> QED BY <2>1, <2>2, <2>3, MovedEvents
<1> QED BY <1>1, <1>2

\* The steps of a thread that make and move no event.
Eventless(t) ==
  \/ MarkPreprocessing(t) \/ MarkVerification(t)
  \/ AskScope(t) \/ StartSampler(t) \/ SamplerFails(t) \/ StopSampler(t)
  \/ JoinSampler(t) \/ FinishScope(t) \/ DropScope(t)
  \/ EndRun(t) \/ ReportScan(t) \/ ReportStore(t) \/ ReadReport(t)

\* They change nothing of a thread but its step and its scope.
LEMMA EventlessMoves ==
  ASSUME IInv, NEW t \in Threads, Eventless(t)
  PROVE  /\ UNCHANGED <<buffer, log, given>>
         /\ \A u \in Threads \ {t} : thr'[u] = thr[u]
         /\ thr'[t].hand = thr[t].hand /\ thr'[t].live = thr[t].live
         /\ thr[t].at \notin {"begun", "flushing"}
<1>1. UNCHANGED <<buffer, log, given>> /\ thr[t].at \notin {"begun", "flushing"}
  BY DEF Eventless, MarkPreprocessing, MarkVerification, AskScope, StartSampler, SamplerFails,
         StopSampler, JoinSampler, FinishScope, DropScope, CloseScope, EndRun, ReportScan,
         ReportStore, ReadReport, Go, Running, phaseVars
<1>2. \/ UNCHANGED thr
      \/ \E to \in Stops : thr' = [thr EXCEPT ![t].at = to]
      \/ \E to \in Stops, s \in BOOLEAN : thr' = [thr EXCEPT ![t].at = to, ![t].scope = s]
      \/ \E to \in Stops, s \in BOOLEAN : thr' = [thr EXCEPT ![t].scope = s, ![t].at = to]
  <2>1. CASE MarkPreprocessing(t) \/ MarkVerification(t) \/ StartSampler(t) \/ StopSampler(t)
             \/ JoinSampler(t)
    BY <2>1 DEF MarkPreprocessing, MarkVerification, StartSampler, StopSampler, JoinSampler, Go,
                Stops
  <2>2. CASE SamplerFails(t) \/ FinishScope(t) \/ DropScope(t)
    BY <2>2 DEF SamplerFails, FinishScope, DropScope, CloseScope, Stops
  <2>3. CASE EndRun(t) \/ ReportScan(t) \/ ReportStore(t) \/ ReadReport(t)
    BY <2>3 DEF EndRun, ReportScan, ReportStore, ReadReport, Go, Stops
  <2>4. CASE AskScope(t)
    BY <2>4 DEF AskScope, Stops
  <2> QED BY <2>1, <2>2, <2>3, <2>4 DEF Eventless
<1>3. /\ \A u \in Threads \ {t} : thr'[u] = thr[u]
      /\ thr'[t].hand = thr[t].hand /\ thr'[t].live = thr[t].live
  <2>0. thr \in [Threads -> Places] /\ thr[t] \in Places
    BY ThreadFacts
  <2>1. CASE UNCHANGED thr
    BY <2>1
  <2>2. CASE \E to \in Stops : thr' = [thr EXCEPT ![t].at = to]
    BY <2>0, <2>2 DEF Places
  <2>3. CASE \E to \in Stops, s \in BOOLEAN : thr' = [thr EXCEPT ![t].at = to, ![t].scope = s]
    BY <2>0, <2>3 DEF Places
  <2>4. CASE \E to \in Stops, s \in BOOLEAN : thr' = [thr EXCEPT ![t].scope = s, ![t].at = to]
    BY <2>0, <2>4 DEF Places
  <2> QED BY <1>2, <2>1, <2>2, <2>3, <2>4
<1> QED BY <1>1, <1>3

\* Every step keeps the events right.
LEMMA EventNextInv ==
  ASSUME IInv, EventInv, [InstrNext]_instrVars
  PROVE  EventInv'
<1>1. ASSUME NEW t \in Threads, Eventless(t) PROVE EventInv'
  <2>1. \A u \in Threads : /\ thr'[u].hand = thr[u].hand /\ thr'[u].live = thr[u].live
                           /\ thr'[u].at \notin {"begun", "flushing"} => thr[u].hand = {}
    BY <1>1, EventlessMoves DEF EventInv, HandInv
  <2> QED BY <1>1, <2>1, EventlessMoves, EventStill
<1>2. CASE WriterStep \/ SamplerStep \/ UNCHANGED instrVars
  <2>1. UNCHANGED <<thr, buffer, log, given>>
    BY <1>2 DEF WriterStep, SamplerStep, SamplerScan, SamplerStore, SamplerExit, instrVars,
                phaseVars
  <2> QED BY <2>1, EventStill DEF EventInv, HandInv
<1>3. ASSUME NEW t \in Threads, ThreadStep(t) PROVE EventInv'
  BY <1>1, <1>3, BeginEvent, FinishEvent, MoveSteps DEF ThreadStep, Eventless
<1> QED BY <1>2, <1>3 DEF InstrNext

\* At the start there are no guards and no events.
LEMMA EventInitInv ==
  ASSUME InstrInit
  PROVE  EventInv
<1>1. /\ \A t \in Threads : thr[t].live = <<>> /\ thr[t].hand = {}
      /\ buffer = {} /\ given = 0 /\ log = [e \in Events |-> 0]
  BY DEF InstrInit, Starting
<1>2. \A e \in Events : ~Due(e)
  BY <1>1, EventFacts DEF Due
<1>3. DOMAIN <<>> = {}
  OBVIOUS
<1> QED BY <1>1, <1>2, <1>3 DEF EventInv, HandInv, LiveInv, PlaceInv

-------------------------------------------------------------------------------
(* The end of a run *)

\* Before a run's end its threads are at other steps than the report's.
LEMMA OpenSteps ==
  ASSUME IInv, EndedInv, NEW t \in Threads, ThreadStep(t), ~EndRun(t),
         ~(ReportScan(t) \/ ReportStore(t) \/ ReadReport(t))
  PROVE  /\ ~ending /\ ending' = ending
         /\ \A u \in Threads : thr[u].at \notin Closing
         /\ thr'[t].at \notin Closing /\ \A u \in Threads \ {t} : thr'[u] = thr[u]
<1>1. /\ Running(t) \/ thr[t].at \in {"marked", "begun", "flushing", "granted", "joining", "closing"}
      /\ ending' = ending
  BY DEF ThreadStep, MarkPreprocessing, MarkVerification, BeginPhase, FinishPhase,
              RecordEvent, FlushTake, FlushWrite, AskScope, StartSampler, SamplerFails,
              StopSampler, JoinSampler, FinishScope, DropScope, CloseScope, Go, endVars
<1>2. ~ending
  BY <1>1, InstrAssumption DEF EndedInv, Running, Closing, Starting
<1>3. \A u \in Threads : thr[u].at \notin Closing
  BY <1>2 DEF EndedInv
<1>4. thr'[t].at \notin Closing /\ \A u \in Threads \ {t} : thr'[u] = thr[u]
  <2>1. \/ UNCHANGED thr
        \/ \E to \in Stops \ Closing : \E s : thr' = [thr EXCEPT ![t].at = to, ![t].scope = s]
        \/ \E to \in Stops \ Closing : \E s : thr' = [thr EXCEPT ![t].scope = s, ![t].at = to]
        \/ \E to \in Stops \ Closing : thr' = [thr EXCEPT ![t].at = to]
        \/ \E to \in Stops \ Closing : \E h : thr' = [thr EXCEPT ![t].at = to, ![t].hand = h]
        \/ \E to \in Stops \ Closing : \E h, l :
             thr' = [thr EXCEPT ![t].at = to, ![t].hand = h, ![t].live = l]
        \/ \E to \in Stops \ Closing : \E h, l :
             thr' = [thr EXCEPT ![t].at = to, ![t].live = l, ![t].hand = h]
    <3> USE DEF Stops, Closing
    <3>1. CASE MarkPreprocessing(t) \/ MarkVerification(t)
      BY <3>1 DEF MarkPreprocessing, MarkVerification, Go
    <3>2. CASE \E p \in Phases : BeginPhase(t, p)
      <4>1. PICK h, l : thr' = [thr EXCEPT ![t].at = "begun", ![t].hand = h, ![t].live = l]
        BY Zenon, <3>2 DEF BeginPhase
      <4> QED BY <4>1
    <3>3. CASE FinishPhase(t)
      BY <3>3 DEF FinishPhase
    <3>4. CASE RecordEvent(t) \/ FlushTake(t) \/ FlushWrite(t)
      BY <3>4 DEF RecordEvent, FlushTake, FlushWrite
    <3>5. CASE AskScope(t)
      BY <3>5 DEF AskScope
    <3>6. CASE StartSampler(t) \/ StopSampler(t) \/ JoinSampler(t)
      BY <3>6 DEF StartSampler, StopSampler, JoinSampler, Go
    <3>7. CASE SamplerFails(t) \/ FinishScope(t) \/ DropScope(t)
      BY <3>7 DEF SamplerFails, FinishScope, DropScope, CloseScope
    <3> QED BY <3>1, <3>2, <3>3, <3>4, <3>5, <3>6, <3>7 DEF ThreadStep
  <2>2. thr \in [Threads -> Places] /\ thr[t] \in Places
    BY ThreadFacts
  <2>3. CASE UNCHANGED thr
    BY <1>3, <2>3
  <2>4. CASE \/ \E to \in Stops \ Closing : \E s : thr' = [thr EXCEPT ![t].at = to, ![t].scope = s]
             \/ \E to \in Stops \ Closing : \E s : thr' = [thr EXCEPT ![t].scope = s, ![t].at = to]
             \/ \E to \in Stops \ Closing : thr' = [thr EXCEPT ![t].at = to]
             \/ \E to \in Stops \ Closing : \E h : thr' = [thr EXCEPT ![t].at = to, ![t].hand = h]
    BY <2>2, <2>4 DEF Places
  <2>5. CASE \E to \in Stops \ Closing : \E h, l :
               thr' = [thr EXCEPT ![t].at = to, ![t].hand = h, ![t].live = l]
    BY <2>2, <2>5 DEF Places
  <2>6. CASE \E to \in Stops \ Closing : \E h, l :
               thr' = [thr EXCEPT ![t].at = to, ![t].live = l, ![t].hand = h]
    BY <2>2, <2>6 DEF Places
  <2> QED BY <2>1, <2>3, <2>4, <2>5, <2>6
<1> QED BY <1>1, <1>2, <1>3, <1>4

\* A run ends once, and then only its report is left to do.
LEMMA EndedNextInv ==
  ASSUME IInv, EventInv, EndedInv, [InstrNext]_instrVars
  PROVE  EndedInv'
<1>1. CASE WriterStep
  <2>1. ~ending /\ UNCHANGED <<ending, thr>>
    BY <1>1 DEF WriterStep, endVars
  <2> QED BY <2>1 DEF EndedInv
<1>2. CASE SamplerStep \/ UNCHANGED instrVars
  <2>1. UNCHANGED <<ending, thr, buffer, job>>
    BY <1>2 DEF SamplerStep, SamplerScan, SamplerStore, SamplerExit, instrVars, phaseVars,
                endVars, artVars, Writers
  <2> QED BY <2>1 DEF EndedInv, Quiet, QuietFile
<1>3. ASSUME NEW t \in Threads, EndRun(t) PROVE EndedInv'
  <2>1. /\ t = Main /\ ending' = TRUE /\ thr' = [thr EXCEPT ![Main].at = "ending"]
        /\ buffer = {} /\ UNCHANGED <<buffer, job>> /\ Quiet
        /\ \A u \in Threads : thr[u] = Starting
    BY <1>3 DEF EndRun, Running, phaseVars, artVars
  <2>2. /\ thr'[Main].at = "ending" /\ ~thr'[Main].scope /\ thr'[Main].hand = {}
        /\ \A u \in Threads \ {Main} : thr'[u] = Starting
    BY <2>1, ThreadFacts, InstrAssumption DEF Starting, Places
  <2> QED BY <2>1, <2>2 DEF EndedInv, Closing, Starting, Quiet, QuietFile
<1>4. ASSUME NEW t \in Threads, ReportScan(t) \/ ReportStore(t) \/ ReadReport(t) PROVE EndedInv'
  <2>1. PICK to \in {"reporting", "reported", "over"} : thr' = [thr EXCEPT ![t].at = to]
    BY <1>4 DEF ReportScan, ReportStore, ReadReport, Go
  <2>2. thr[t].at \in Closing /\ UNCHANGED <<ending, buffer, job>>
    BY <1>4 DEF ReportScan, ReportStore, ReadReport, Go, Closing, phaseVars, endVars, artVars,
                Writers
  <2>3. t = Main /\ ending
    BY <2>2 DEF EndedInv
  <2>4. /\ thr'[Main].at = to /\ thr'[Main].scope = thr[Main].scope
        /\ thr'[Main].hand = thr[Main].hand
        /\ \A u \in Threads \ {Main} : thr'[u] = thr[u]
    BY <2>1, <2>3, ThreadFacts, InstrAssumption DEF Places
  <2> QED BY <2>2, <2>3, <2>4 DEF EndedInv, Closing, Quiet, QuietFile
<1>5. ASSUME NEW t \in Threads, ThreadStep(t), ~EndRun(t),
             ~(ReportScan(t) \/ ReportStore(t) \/ ReadReport(t))
      PROVE  EndedInv'
  BY <1>5, OpenSteps, InstrAssumption DEF EndedInv
<1> QED BY <1>1, <1>2, <1>3, <1>4, <1>5 DEF InstrNext, ThreadStep

\* No run is over at its start.
LEMMA EndedInitInv ==
  ASSUME InstrInit
  PROVE  EndedInv
BY InstrAssumption DEF InstrInit, Starting, EndedInv, Closing

\* Of the places of an event the property counts, one has it when it is due.
LEMMA EventsCounted ==
  ASSUME EventInv, EndedInv
  PROVE  EventsOnce
<1> SUFFICES ASSUME NEW e \in Events
             PROVE  LET due == IF Due(e) THEN 1 ELSE 0
                    IN /\ log[e] + Cardinality({t \in Threads : e \in thr[t].hand})
                            + (IF e \in buffer THEN 1 ELSE 0) = due
                       /\ ending => log[e] = due
  BY DEF EventsOnce, Due
<1> DEFINE H == {t \in Threads : e \in thr[t].hand}
<1>1. /\ Due(e) <=> log[e] = 1 \/ e \in buffer \/ \E t \in Threads : e \in thr[t].hand
      /\ log[e] = 1 => e \notin buffer
      /\ \A t \in Threads : e \in thr[t].hand => log[e] = 0 /\ e \notin buffer
      /\ \A t, u \in Threads : e \in thr[t].hand /\ e \in thr[u].hand => t = u
      /\ log[e] \in {0, 1}
  BY DEF EventInv, PlaceInv
<1>2. CASE H = {}
  <2>1. Cardinality(H) = 0
    BY <1>2, FS_EmptySet
  <2>2. ~\E t \in Threads : e \in thr[t].hand
    BY <1>2
  <2>3. ending => e \notin buffer
    BY DEF EndedInv
  <2> QED BY <1>1, <2>1, <2>2, <2>3
<1>3. ASSUME NEW t \in H PROVE Cardinality(H) = 1 /\ Due(e) /\ log[e] = 0 /\ e \notin buffer /\ ~ending
  <2>1. H = {t}
    BY <1>1
  <2>2. Cardinality(H) = 1
    BY <2>1, FS_Singleton
  <2>3. ~ending
    BY InstrAssumption DEF EndedInv, Starting
  <2> HIDE DEF H
  <2>4. t \in Threads /\ e \in thr[t].hand
    BY DEF H
  <2> QED BY <1>1, <2>2, <2>3, <2>4
<1> HIDE DEF H
<1>4. CASE H # {}
  <2>1. Cardinality(H) = 1 /\ Due(e) /\ log[e] = 0 /\ e \notin buffer /\ ~ending
    BY <1>3, <1>4
  <2> QED BY <2>1 DEF H
<1> QED BY <1>2, <1>4 DEF H

RunInv == IInv /\ EventInv /\ EndedInv

\* Scopes and events are right at the start.
LEMMA RunInitInv == InstrInit => RunInv
BY InitInv, EventInitInv, EndedInitInv DEF RunInv

\* Every step keeps scopes and events right.
LEMMA RunNextInv == RunInv /\ [InstrNext]_instrVars => RunInv'
BY NextInv, EventNextInv, EndedNextInv DEF RunInv

\* Every phase has one begin event and, once it has ended, one end event,
\* written or on its way and never twice, however many threads begin and end
\* phases, flush and record, and all are in the file of phases when storage is
\* reported (PhaseGuard, flush_phase_events).
THEOREM EventsNeverLost == InstrSpec => []EventsOnce
<1>1. RunInv => EventsOnce
  BY EventsCounted DEF RunInv
<1> QED BY RunInitInv, RunNextInv, <1>1, PTL DEF InstrSpec
-------------------------------------------------------------------------------
(* The phase stack *)

\* Where a sequence has one of some values, and how often.
Occurrences(s, P) == {i \in DOMAIN s : s[i] \in P}
Times(s, P) == Cardinality(Occurrences(s, P))

One(z, P) == IF z \in P THEN 1 ELSE 0

\* That is a number of times.
LEMMA OccurrencesFinite ==
  ASSUME NEW Z, NEW s \in Seq(Z), NEW P
  PROVE  /\ IsFiniteSet(Occurrences(s, P)) /\ Times(s, P) \in Nat
         /\ Times(s, P) = 0 <=> Occurrences(s, P) = {}
<1>1. DOMAIN s = 1 .. Len(s) /\ Len(s) \in Nat
  OBVIOUS
<1>2. IsFiniteSet(1 .. Len(s))
  BY <1>1, FS_Interval
<1>3. Occurrences(s, P) \in SUBSET (1 .. Len(s))
  BY <1>1 DEF Occurrences
<1>4. IsFiniteSet(Occurrences(s, P))
  BY <1>2, <1>3, FS_Subset
<1> QED BY <1>4, FS_CardinalityType, FS_EmptySet DEF Times

\* Another one at the end.
LEMMA TimesAppend ==
  ASSUME NEW Z, NEW s \in Seq(Z), NEW z \in Z, NEW P
  PROVE  Times(Append(s, z), P) = Times(s, P) + One(z, P)
<1> PICK t, n : t = Append(s, z) /\ n = Len(s) + 1
  OBVIOUS
<1>1. /\ DOMAIN t = 1 .. n /\ DOMAIN s = 1 .. n - 1 /\ n \in Nat /\ t[n] = z
      /\ \A i \in 1 .. n - 1 : t[i] = s[i]
  BY AppendProperties
<1>2. n \notin Occurrences(s, P)
  BY <1>1 DEF Occurrences
<1>3. CASE z \in P
  <2>1. Occurrences(t, P) = Occurrences(s, P) \cup {n}
    <3>1. 1 .. n = (1 .. n - 1) \cup {n}
      BY <1>1
    <3> QED BY <1>1, <1>3, <3>1 DEF Occurrences
  <2>2. Cardinality(Occurrences(s, P) \cup {n}) = Cardinality(Occurrences(s, P)) + 1
    BY <1>2, OccurrencesFinite, FS_AddElement
  <2> QED BY <1>3, <2>1, <2>2 DEF Times, One
<1>4. CASE z \notin P
  <2>1. Occurrences(t, P) = Occurrences(s, P)
    <3>1. 1 .. n = (1 .. n - 1) \cup {n}
      BY <1>1
    <3> QED BY <1>1, <1>4, <3>1 DEF Occurrences
  <2>2. Times(s, P) \in Nat
    BY OccurrencesFinite
  <2> QED BY <1>4, <2>1, <2>2 DEF Times, One
<1> QED BY <1>3, <1>4

\* One taken out: the later ones move down.
Without(s, k, t) ==
  /\ Len(t) = Len(s) - 1
  /\ \A i \in 1 .. Len(s) - 1 : t[i] = IF i < k THEN s[i] ELSE s[i + 1]

\* Then there is one less of what was taken out.
LEMMA TimesRemoved ==
  ASSUME NEW Z, NEW s \in Seq(Z), NEW k \in 1 .. Len(s), NEW t \in Seq(Z), NEW P,
         Without(s, k, t)
  PROVE  Times(s, P) = Times(t, P) + One(s[k], P)
<1> DEFINE n == Len(s)
<1>1. n \in Nat /\ DOMAIN s = 1 .. n /\ DOMAIN t = 1 .. n - 1 /\ k \in 1 .. n
  BY DEF Without
<1> DEFINE A == Occurrences(t, P)
           B == Occurrences(s, P) \ {k}
           up == [i \in A |-> IF i < k THEN i ELSE i + 1]
<1>2. up \in Surjection(A, B) /\ up \in Injection(A, B)
  <2>1. \A i \in A : i \in 1 .. n - 1 /\ t[i] \in P /\ t[i] = IF i < k THEN s[i] ELSE s[i + 1]
    BY <1>1 DEF Occurrences, Without
  <2>2. up \in [A -> B]
    <3> SUFFICES ASSUME NEW i \in A PROVE (IF i < k THEN i ELSE i + 1) \in B
      OBVIOUS
    <3>1. CASE i < k
      BY <1>1, <2>1, <3>1 DEF Occurrences
    <3>2. CASE ~(i < k)
      BY <1>1, <2>1, <3>2 DEF Occurrences
    <3> QED BY <3>1, <3>2
  <2>3. \A i, j \in A : up[i] = up[j] => i = j
    <3> SUFFICES ASSUME NEW i \in A, NEW j \in A, up[i] = up[j] PROVE i = j
      OBVIOUS
    <3>1. i \in Int /\ j \in Int /\ k \in Int
      BY <1>1, <2>1
    <3> QED BY <3>1
  <2>4. \A b \in B : \E i \in A : up[i] = b
    <3> SUFFICES ASSUME NEW b \in B PROVE \E i \in A : up[i] = b
      OBVIOUS
    <3>1. b \in 1 .. n /\ b # k /\ s[b] \in P
      BY <1>1 DEF Occurrences
    <3>2. CASE b < k
      <4>1. b \in 1 .. n - 1 /\ t[b] = s[b]
        BY <1>1, <3>1, <3>2 DEF Without
      <4>2. b \in A
        BY <1>1, <3>1, <4>1 DEF Occurrences
      <4> QED BY <3>2, <4>2
    <3>3. CASE ~(b < k)
      <4>1. b - 1 \in 1 .. n - 1 /\ ~(b - 1 < k) /\ (b - 1) + 1 = b
        BY <1>1, <3>1, <3>3
      <4>2. t[b - 1] = s[b]
        BY <1>1, <4>1 DEF Without
      <4>3. b - 1 \in A
        BY <1>1, <3>1, <4>1, <4>2 DEF Occurrences
      <4> QED BY <4>1, <4>3
    <3> QED BY <3>2, <3>3
  <2> HIDE DEF A, B, up
  <2> QED BY <2>2, <2>3, <2>4 DEF Surjection, Injection, IsInjective
<1>3. IsFiniteSet(A) /\ IsFiniteSet(Occurrences(s, P))
  BY OccurrencesFinite
<1>4. Cardinality(B) = Cardinality(A)
  <2> HIDE DEF A, B, up
  <2> QED BY <1>2, <1>3, FS_Surjection
<1>5. Cardinality(B) = IF k \in Occurrences(s, P) THEN Times(s, P) - 1 ELSE Times(s, P)
  BY <1>3, FS_RemoveElement DEF Times
<1>6. k \in Occurrences(s, P) <=> s[k] \in P
  BY <1>1 DEF Occurrences
<1>7. Times(s, P) \in Nat /\ Times(t, P) \in Nat /\ Cardinality(A) = Times(t, P)
  BY OccurrencesFinite DEF Times
<1> HIDE DEF A, B, up
<1>8. CASE s[k] \in P
  <2>1. Times(t, P) = Times(s, P) - 1
    BY <1>4, <1>5, <1>6, <1>7, <1>8
  <2> QED BY <1>7, <1>8, <2>1 DEF One
<1>9. CASE s[k] \notin P
  <2>1. Times(t, P) = Times(s, P)
    BY <1>4, <1>5, <1>6, <1>7, <1>9
  <2> QED BY <1>7, <1>9, <2>1 DEF One
<1> QED BY <1>8, <1>9

\* A piece of a sequence.
LEMMA Piece ==
  ASSUME NEW Z, NEW s \in Seq(Z), NEW lo \in Int, NEW hi \in Int,
         1 <= lo, hi <= Len(s), lo <= hi + 1
  PROVE  /\ SubSeq(s, lo, hi) \in Seq(Z)
         /\ Len(SubSeq(s, lo, hi)) = (hi - lo) + 1
         /\ \A i \in 1 .. (hi - lo) + 1 : SubSeq(s, lo, hi)[i] = s[(lo + i) - 1]
<1>1. \A i \in lo .. hi : s[i] \in Z
  OBVIOUS
<1> DEFINE t == SubSeq(s, lo, hi)
<1>2. t \in Seq(Z) /\ Len(t) = IF lo <= hi THEN hi - lo + 1 ELSE 0
  BY <1>1, SubSeqProperties
<1>3. \A i \in 1 .. hi - lo + 1 : t[i] = s[lo + i - 1]
  BY <1>1, SubSeqProperties
<1> HIDE DEF t
<1>4. Len(t) = (hi - lo) + 1
  BY <1>2
<1>5. \A i \in 1 .. (hi - lo) + 1 : t[i] = s[(lo + i) - 1]
  BY <1>3
<1> QED BY <1>2, <1>4, <1>5 DEF t

\* The pieces of a sequence before and behind one of its elements.
Around(s, k, a, b) ==
  /\ Len(a) = k - 1 /\ Len(b) = Len(s) - k
  /\ \A i \in 1 .. k - 1 : a[i] = s[i]
  /\ \A i \in 1 .. Len(s) - k : b[i] = s[k + i]

\* Put together they are the sequence without that element.
LEMMA Joined ==
  ASSUME NEW Z, NEW s \in Seq(Z), NEW k \in 1 .. Len(s), NEW a \in Seq(Z), NEW b \in Seq(Z),
         Around(s, k, a, b), NEW P
  PROVE  /\ a \o b \in Seq(Z)
         /\ Times(s, P) = Times(a \o b, P) + One(s[k], P)
<1> DEFINE t == a \o b
<1>1. t \in Seq(Z) /\ Len(t) = Len(a) + Len(b)
  BY ConcatProperties
<1>2. \A i \in 1 .. Len(a) + Len(b) : t[i] = IF i <= Len(a) THEN a[i] ELSE b[i - Len(a)]
  BY ConcatProperties
<1> HIDE DEF t
<1>3. Len(s) \in Nat /\ Len(a) + Len(b) = Len(s) - 1
  BY DEF Around
<1>4. ASSUME NEW i \in 1 .. Len(s) - 1 PROVE t[i] = IF i < k THEN s[i] ELSE s[i + 1]
  <2>1. t[i] = IF i <= k - 1 THEN a[i] ELSE b[i - (k - 1)]
    BY <1>2, <1>3 DEF Around
  <2>2. CASE i < k
    <3>1. i \in 1 .. k - 1 /\ i <= k - 1
      BY <2>2
    <3> QED BY <2>1, <2>2, <3>1 DEF Around
  <2>3. CASE ~(i < k)
    <3> DEFINE d == i - (k - 1)
    <3>1. d \in 1 .. Len(s) - k /\ k + d = i + 1 /\ ~(i <= k - 1)
      BY <1>3, <2>3
    <3>2. t[i] = b[d]
      BY <2>1, <3>1
    <3> HIDE DEF d
    <3> QED BY <2>3, <3>1, <3>2 DEF Around
  <2> QED BY <2>2, <2>3
<1>5. Times(s, P) = Times(t, P) + One(s[k], P)
  <2>1. Len(t) = Len(s) - 1
    BY <1>1, <1>3
  <2>2. \A i \in 1 .. Len(s) - 1 : t[i] = IF i < k THEN s[i] ELSE s[i + 1]
    BY <1>4
  <2>3. t \in Seq(Z)
    BY <1>1
  <2>4. Without(s, k, t)
    BY <2>1, <2>2 DEF Without
  <2> QED BY <2>3, <2>4, TimesRemoved
<1> QED BY <1>1, <1>5 DEF t

\* Front takes one off the end.
LEMMA TimesFront ==
  ASSUME NEW Z, NEW s \in Seq(Z), s # <<>>, NEW P
  PROVE  /\ Len(s) \in 1 .. Len(s) /\ Last(s) = s[Len(s)] /\ Front(s) \in Seq(Z)
         /\ Times(s, P) = Times(Front(s), P) + One(s[Len(s)], P)
<1> DEFINE n == Len(s)
           t == Front(s)
<1>1. n \in Nat /\ n # 0 /\ n \in 1 .. n
  BY EmptySeq
<1>2. t \in Seq(Z) /\ Len(t) = ((n - 1) - 1) + 1
      /\ \A i \in 1 .. ((n - 1) - 1) + 1 : t[i] = s[(1 + i) - 1]
  <2>1. 1 \in Int /\ n - 1 \in Int /\ n - 1 <= n /\ 1 <= (n - 1) + 1
    BY <1>1
  <2> HIDE DEF n
  <2>2. n <= Len(s)
    BY <1>1 DEF n
  <2>3. /\ SubSeq(s, 1, n - 1) \in Seq(Z) /\ Len(SubSeq(s, 1, n - 1)) = ((n - 1) - 1) + 1
        /\ \A i \in 1 .. ((n - 1) - 1) + 1 : SubSeq(s, 1, n - 1)[i] = s[(1 + i) - 1]
    BY <1>1, <2>1, <2>2, Piece
  <2>4. t = SubSeq(s, 1, n - 1)
    BY DEF Front, n
  <2> HIDE DEF t
  <2> QED BY <2>3, <2>4
<1> HIDE DEF t
<1>3. Len(t) = n - 1 /\ \A i \in 1 .. n - 1 : t[i] = IF i < n THEN s[i] ELSE s[i + 1]
  <2>1. Len(t) = n - 1
    BY <1>1, <1>2
  <2>2. ASSUME NEW i \in 1 .. n - 1 PROVE t[i] = IF i < n THEN s[i] ELSE s[i + 1]
    <3>1. i \in 1 .. ((n - 1) - 1) + 1 /\ (1 + i) - 1 = i /\ i < n
      BY <1>1
    <3> HIDE DEF n
    <3> QED BY <1>2, <3>1
  <2> QED BY <2>1, <2>2
<1>4. Times(s, P) = Times(t, P) + One(s[n], P)
  <2>1. Without(s, n, t)
    BY <1>3 DEF Without
  <2> QED BY <1>1, <1>2, <2>1, TimesRemoved
<1> QED BY <1>1, <1>2, <1>4 DEF Last, t

\* RemoveAt takes one out of the middle.
LEMMA TimesRemoveAt ==
  ASSUME NEW Z, NEW s \in Seq(Z), NEW k \in 1 .. Len(s), NEW P
  PROVE  /\ RemoveAt(s, k) \in Seq(Z)
         /\ Times(s, P) = Times(RemoveAt(s, k), P) + One(s[k], P)
<1> DEFINE a == SubSeq(s, 1, k - 1)
           b == SubSeq(s, k + 1, Len(s))
<1>1. Len(s) \in Nat /\ k \in Int /\ 1 <= k /\ k <= Len(s)
  OBVIOUS
<1>2. a \in Seq(Z) /\ Len(a) = ((k - 1) - 1) + 1
      /\ \A i \in 1 .. ((k - 1) - 1) + 1 : a[i] = s[(1 + i) - 1]
  <2>1. 1 \in Int /\ k - 1 \in Int /\ 1 <= 1 /\ k - 1 <= Len(s) /\ 1 <= (k - 1) + 1
    BY <1>1
  <2> QED BY <2>1, Piece
<1>3. b \in Seq(Z) /\ Len(b) = (Len(s) - (k + 1)) + 1
      /\ \A i \in 1 .. (Len(s) - (k + 1)) + 1 : b[i] = s[((k + 1) + i) - 1]
  <2>1. k + 1 \in Int /\ Len(s) \in Int /\ 1 <= k + 1 /\ Len(s) <= Len(s) /\ k + 1 <= Len(s) + 1
    BY <1>1
  <2> QED BY <2>1, Piece
<1>4. RemoveAt(s, k) = a \o b
  BY DEF RemoveAt
<1> HIDE DEF a, b
<1>5. Len(a) = k - 1 /\ Len(b) = Len(s) - k
  BY <1>1, <1>2, <1>3
<1>6. \A i \in 1 .. k - 1 : a[i] = s[i]
  <2> SUFFICES ASSUME NEW i \in 1 .. k - 1 PROVE a[i] = s[i]
    OBVIOUS
  <2>1. i \in 1 .. ((k - 1) - 1) + 1 /\ (1 + i) - 1 = i
    BY <1>1
  <2> QED BY <1>2, <2>1
<1>7. \A i \in 1 .. Len(s) - k : b[i] = s[k + i]
  <2> SUFFICES ASSUME NEW i \in 1 .. Len(s) - k PROVE b[i] = s[k + i]
    OBVIOUS
  <2>1. i \in 1 .. (Len(s) - (k + 1)) + 1 /\ ((k + 1) + i) - 1 = k + i
    BY <1>1
  <2> QED BY <1>3, <2>1
<1> DEFINE t == a \o b
<1>8. t \in Seq(Z) /\ Times(s, P) = Times(t, P) + One(s[k], P)
  <2>1. a \in Seq(Z) /\ b \in Seq(Z)
    BY <1>2, <1>3
  <2>2. Around(s, k, a, b)
    BY <1>5, <1>6, <1>7 DEF Around
  <2> QED BY <2>1, <2>2, Joined
<1>9. RemoveAt(s, k) = t
  BY <1>4
<1> HIDE DEF t
<1> QED BY <1>8, <1>9

\* The largest of some positions.
LEMMA MaxIn ==
  ASSUME NEW n \in Nat, NEW S \in SUBSET (1 .. n), S # {}
  PROVE  Max(S) \in S
<1>1. IsFiniteSet(S)
  <2>1. IsFiniteSet(1 .. n)
    BY FS_Interval
  <2> QED BY <2>1, FS_Subset
<1>2. \A x \in S : x \in Int
  OBVIOUS
<1>3. \E x \in S : \A y \in S : x >= y
  BY <1>1, <1>2, LargestExists
<1> QED BY <1>3 DEF Max

\* The open guards of a phase on a thread, and how often the threads have the
\* phase open.
OfPhase(phase) == {g \in Guards : g.phase = phase}

LiveTimes(th, phase) == [t \in Threads |-> Times(th[t].live, OfPhase(phase))]

Live(th, phase) == SumFunctionOnSet(LiveTimes(th, phase), Threads)

\* What the stack and the threads' guards say of every phase.
StackInv ==
  /\ stack \in Seq(Phases)
  /\ \A phase \in Phases : Times(stack, {phase}) = Live(thr, phase)

\* This is what the property says of the stack.
LEMMA StackCounted ==
  ASSUME IInv, StackInv
  PROVE  StackIsLiveGuards
<1> SUFFICES ASSUME NEW p \in Phases
             PROVE  Cardinality({i \in DOMAIN stack : stack[i] = p})
                      = FoldFunction(+, 0, [t \in Threads |->
                          Cardinality({i \in DOMAIN thr[t].live : thr[t].live[i].phase = p})])
  BY DEF StackIsLiveGuards
<1> DEFINE counts == [t \in Threads |->
                       Cardinality({i \in DOMAIN thr[t].live : thr[t].live[i].phase = p})]
<1>1. {i \in DOMAIN stack : stack[i] = p} = Occurrences(stack, {p})
  BY DEF Occurrences
<1>2. ASSUME NEW t \in Threads
      PROVE  {i \in DOMAIN thr[t].live : thr[t].live[i].phase = p}
               = Occurrences(thr[t].live, OfPhase(p))
  <2>1. \A i \in DOMAIN thr[t].live : thr[t].live[i] \in Guards
    BY ThreadFacts
  <2> QED BY <2>1 DEF Occurrences, OfPhase
<1>3. counts = LiveTimes(thr, p)
  BY <1>2 DEF LiveTimes, Times
<1>4. FoldFunction(+, 0, LiveTimes(thr, p)) = Live(thr, p)
  <2>1. DOMAIN LiveTimes(thr, p) = Threads
    BY DEF LiveTimes
  <2> QED BY <2>1 DEF FoldFunction, SumFunctionOnSet, Live
<1>5. Cardinality({i \in DOMAIN stack : stack[i] = p}) = Live(thr, p)
  BY <1>1 DEF StackInv, Times
<1> HIDE DEF counts
<1>6. FoldFunction(+, 0, counts) = Live(thr, p)
  BY <1>3, <1>4
<1> QED BY <1>5, <1>6 DEF counts

\* When one thread's guards change, so does the count by as much.
LEMMA LiveChange ==
  ASSUME NEW th \in [Threads -> Places], NEW next \in [Threads -> Places], NEW t \in Threads,
         \A u \in Threads \ {t} : next[u].live = th[u].live, NEW phase \in Phases
  PROVE  /\ Live(next, phase) = Live(th, phase) - Times(th[t].live, OfPhase(phase))
                                                + Times(next[t].live, OfPhase(phase))
         /\ Live(th, phase) \in Nat /\ Times(th[t].live, OfPhase(phase)) <= Live(th, phase)
<1> DEFINE fun == LiveTimes(th, phase)
           gun == LiveTimes(next, phase)
<1>1. \A u \in Threads : fun[u] \in Nat /\ gun[u] \in Nat
  <2> SUFFICES ASSUME NEW u \in Threads PROVE fun[u] \in Nat /\ gun[u] \in Nat
    OBVIOUS
  <2>1. th[u].live \in Seq(Guards) /\ next[u].live \in Seq(Guards)
    BY DEF Places
  <2> QED BY <2>1, OccurrencesFinite DEF LiveTimes
<1>2. \A u \in Threads \ {t} : gun[u] = fun[u]
  BY DEF LiveTimes
<1>3. fun[t] = Times(th[t].live, OfPhase(phase)) /\ gun[t] = Times(next[t].live, OfPhase(phase))
  BY DEF LiveTimes
<1> HIDE DEF fun, gun
<1>4. IsFiniteSet(Threads)
  BY InstrAssumption
<1>5. SumFunctionOnSet(gun, Threads) = SumFunctionOnSet(fun, Threads) - fun[t] + gun[t]
  BY <1>1, <1>2, <1>4, SumChange
<1>6. SumFunctionOnSet(fun, Threads) \in Nat
  BY <1>1, <1>4, SumType
<1>7. SumFunctionOnSet(fun, Threads) = fun[t] + SumFunctionOnSet(fun, Threads \ {t})
  BY <1>1, <1>4, SumTake
<1>8. SumFunctionOnSet(fun, Threads \ {t}) \in Nat
  <2>1. IsFiniteSet(Threads \ {t})
    BY <1>4, FS_Subset
  <2> QED BY <1>1, <2>1, SumType
<1>9. fun[t] <= SumFunctionOnSet(fun, Threads)
  BY <1>1, <1>7, <1>8
<1> QED BY <1>3, <1>5, <1>6, <1>9 DEF Live, fun, gun

\* A phase begins.
LEMMA BeginStack ==
  ASSUME IInv, StackInv, IInv', NEW t \in Threads, NEW phase \in Phases, BeginPhase(t, phase)
  PROVE  StackInv'
<1> DEFINE guard == [guard |-> given + 1, phase |-> phase]
<1>1. /\ stack' = Append(stack, phase) /\ stack \in Seq(Phases) /\ guard \in Guards
      /\ thr \in [Threads -> Places] /\ thr' \in [Threads -> Places]
      /\ thr[t].live \in Seq(Guards)
  BY ThreadFacts DEF BeginPhase, StackInv, Guards, IInv, InstrTyped
<1>2. /\ thr'[t].live = Append(thr[t].live, guard)
      /\ \A u \in Threads \ {t} : thr'[u].live = thr[u].live
  BY <1>1 DEF BeginPhase, Places
<1>3. guard.phase = phase
  OBVIOUS
<1> HIDE DEF guard
<1>4. ASSUME NEW p \in Phases PROVE Times(stack', {p}) = Live(thr', p)
  <2>1. Times(stack', {p}) = Times(stack, {p}) + One(phase, {p})
    BY <1>1, TimesAppend
  <2>2. Times(thr'[t].live, OfPhase(p))
          = Times(thr[t].live, OfPhase(p)) + One(guard, OfPhase(p))
    BY <1>1, <1>2, TimesAppend
  <2>3. guard \in OfPhase(p) <=> phase \in {p}
    BY <1>1, <1>3 DEF OfPhase
  <2>4. /\ Live(thr', p) = Live(thr, p) - Times(thr[t].live, OfPhase(p))
                                        + Times(thr'[t].live, OfPhase(p))
        /\ Live(thr, p) \in Nat
    BY <1>1, <1>2, LiveChange
  <2>5. Times(stack, {p}) = Live(thr, p)
    BY DEF StackInv
  <2>6. Times(thr[t].live, OfPhase(p)) \in Nat
    BY <1>1, OccurrencesFinite
  <2>7. CASE phase \in {p}
    <3>1. Times(thr'[t].live, OfPhase(p)) = Times(thr[t].live, OfPhase(p)) + 1
      BY <2>2, <2>3, <2>7 DEF One
    <3> QED BY <2>1, <2>4, <2>5, <2>6, <2>7, <3>1 DEF One
  <2>8. CASE phase \notin {p}
    <3>1. Times(thr'[t].live, OfPhase(p)) = Times(thr[t].live, OfPhase(p)) + 0
      BY <2>2, <2>3, <2>8 DEF One
    <3> QED BY <2>1, <2>4, <2>5, <2>6, <2>8, <3>1 DEF One
  <2> QED BY <2>7, <2>8
<1>5. stack' \in Seq(Phases)
  BY <1>1, AppendProperties
<1> QED BY <1>4, <1>5 DEF StackInv

\* A phase ends: its name is on the stack, however deep, and is taken off.
LEMMA FinishStack ==
  ASSUME IInv, StackInv, IInv', NEW t \in Threads, FinishPhase(t)
  PROVE  StackInv'
<1> DEFINE old == thr[t].live
           guard == Last(old)
           phase == guard.phase
           mine == Occurrences(stack, {phase})
           k == Max(mine)
<1>1. /\ stack' = TakenOff(phase) /\ stack \in Seq(Phases)
      /\ thr \in [Threads -> Places] /\ thr' \in [Threads -> Places]
      /\ old \in Seq(Guards) /\ old # <<>>
  BY ThreadFacts DEF FinishPhase, StackInv, IInv, InstrTyped
<1>2. /\ thr'[t].live = Front(old)
      /\ \A u \in Threads \ {t} : thr'[u].live = thr[u].live
  BY <1>1 DEF FinishPhase, Places
<1> HIDE DEF old
<1>3. guard \in Guards /\ phase \in Phases /\ guard = old[Len(old)]
  <2>1. Len(old) \in 1 .. Len(old) /\ Last(old) = old[Len(old)]
    BY <1>1, TimesFront
  <2>2. Last(old) \in Guards
    <3> DEFINE m == Len(old)
    <3>1. m \in 1 .. Len(old) /\ Last(old) = old[m]
      BY <2>1
    <3> HIDE DEF m
    <3> QED BY <1>1, <3>1
  <2> HIDE DEF phase
  <2>3. guard \in Guards
    BY <2>2 DEF guard
  <2> HIDE DEF guard
  <2>4. phase \in Phases
    BY <2>3 DEF Guards, phase
  <2> QED BY <2>1, <2>3, <2>4 DEF guard
<1>4. \A p : /\ Times(old, OfPhase(p))
                  = Times(Front(old), OfPhase(p)) + One(guard, OfPhase(p))
             /\ Times(old, OfPhase(p)) \in Nat /\ Times(Front(old), OfPhase(p)) \in Nat
  <2> SUFFICES ASSUME NEW p
               PROVE  /\ Times(old, OfPhase(p)) = Times(Front(old), OfPhase(p))
                                        + One(guard, OfPhase(p))
                      /\ Times(old, OfPhase(p)) \in Nat /\ Times(Front(old), OfPhase(p)) \in Nat
    OBVIOUS
  <2>1. /\ Times(old, OfPhase(p)) = Times(Front(old), OfPhase(p))
                                        + One(old[Len(old)], OfPhase(p))
        /\ Front(old) \in Seq(Guards)
    BY <1>1, TimesFront
  <2>2. Times(old, OfPhase(p)) \in Nat /\ Times(Front(old), OfPhase(p)) \in Nat
    BY <1>1, <2>1, OccurrencesFinite
  <2> QED BY <1>3, <2>1, <2>2
<1> HIDE DEF guard
<1>5. \A p \in Phases : guard \in OfPhase(p) <=> p = phase
  BY <1>3 DEF OfPhase
<1> HIDE DEF phase
<1>6. \A p \in Phases :
        /\ Live(thr', p) = Live(thr, p) - Times(old, OfPhase(p)) + Times(Front(old), OfPhase(p))
        /\ Live(thr, p) \in Nat /\ Times(old, OfPhase(p)) <= Live(thr, p)
  <2> SUFFICES ASSUME NEW p \in Phases
               PROVE  /\ Live(thr', p) = Live(thr, p) - Times(old, OfPhase(p))
                                          + Times(Front(old), OfPhase(p))
                      /\ Live(thr, p) \in Nat /\ Times(old, OfPhase(p)) <= Live(thr, p)
    OBVIOUS
  <2>1. /\ Live(thr', p) = Live(thr, p) - Times(thr[t].live, OfPhase(p))
                                        + Times(thr'[t].live, OfPhase(p))
        /\ Live(thr, p) \in Nat /\ Times(thr[t].live, OfPhase(p)) <= Live(thr, p)
    BY <1>1, <1>2, LiveChange
  <2> QED BY <1>2, <2>1 DEF old
<1>7. \A p \in Phases : Times(stack, {p}) = Live(thr, p)
  BY DEF StackInv
<1>8. mine # {}
  <2>1. Times(old, OfPhase(phase)) >= 1
    BY <1>3, <1>4, <1>5 DEF One
  <2>2. Times(stack, {phase}) # 0
    BY <1>3, <1>4, <1>6, <1>7, <2>1
  <2> QED BY <1>1, <2>2, OccurrencesFinite
<1>9. k \in mine /\ mine \in SUBSET (1 .. Len(stack)) /\ Len(stack) \in Nat
  <2>1. Len(stack) \in Nat /\ mine \in SUBSET (1 .. Len(stack))
    BY <1>1 DEF Occurrences
  <2> HIDE DEF mine
  <2> QED BY <1>8, <2>1, MaxIn
<1>10. stack' = RemoveAt(stack, k)
  <2>1. mine = {i \in DOMAIN stack : stack[i] = phase}
    BY DEF Occurrences
  <2> HIDE DEF mine
  <2> QED BY <1>1, <1>8, <2>1 DEF TakenOff
<1>11. k \in 1 .. Len(stack) /\ stack[k] = phase
  BY <1>9 DEF Occurrences
<1> HIDE DEF k, mine
<1>12. stack' \in Seq(Phases)
  BY <1>1, <1>10, <1>11, TimesRemoveAt
<1>13. ASSUME NEW p \in Phases PROVE Times(stack', {p}) = Live(thr', p)
  <2>1. Times(stack, {p}) = Times(stack', {p}) + One(stack[k], {p})
    BY <1>1, <1>10, <1>11, TimesRemoveAt
  <2>2. Times(stack', {p}) \in Nat
    BY <1>12, OccurrencesFinite
  <2>3. CASE p = phase
    <3>1. Times(old, OfPhase(p)) = Times(Front(old), OfPhase(p)) + 1
      BY <1>4, <1>5, <2>3 DEF One
    <3>2. Times(stack, {p}) = Times(stack', {p}) + 1
      BY <1>11, <2>1, <2>3 DEF One
    <3> QED BY <1>4, <1>6, <1>7, <2>2, <3>1, <3>2
  <2>4. CASE p # phase
    <3>1. Times(old, OfPhase(p)) = Times(Front(old), OfPhase(p)) + 0
      BY <1>4, <1>5, <2>4 DEF One
    <3>2. Times(stack, {p}) = Times(stack', {p}) + 0
      BY <1>11, <2>1, <2>4 DEF One
    <3> QED BY <1>4, <1>6, <1>7, <2>2, <3>1, <3>2
  <2> QED BY <2>3, <2>4
<1> QED BY <1>12, <1>13 DEF StackInv

\* A step at which no phase begins or ends.
LEMMA StackStill ==
  ASSUME StackInv, UNCHANGED stack, \A u \in Threads : thr'[u].live = thr[u].live
  PROVE  StackInv'
<1>1. \A p : LiveTimes(thr', p) = LiveTimes(thr, p)
  BY DEF LiveTimes
<1>2. \A p : Live(thr', p) = Live(thr, p)
  BY <1>1 DEF Live
<1> QED BY <1>2 DEF StackInv

\* Every step keeps the stack right.
LEMMA StackNextInv ==
  ASSUME IInv, StackInv, [InstrNext]_instrVars
  PROVE  StackInv'
<1>0. IInv'
  BY NextInv
<1>1. CASE WriterStep \/ SamplerStep \/ UNCHANGED instrVars
  <2>1. UNCHANGED <<thr, stack>>
    BY <1>1 DEF WriterStep, SamplerStep, SamplerScan, SamplerStore, SamplerExit, instrVars,
                phaseVars
  <2> QED BY <2>1, StackStill
<1>2. ASSUME NEW t \in Threads, Eventless(t) PROVE StackInv'
  <2>1. UNCHANGED stack
    BY <1>2 DEF Eventless, MarkPreprocessing, MarkVerification, AskScope, StartSampler,
                SamplerFails, StopSampler, JoinSampler, FinishScope, DropScope, EndRun,
                ReportScan, ReportStore, ReadReport, phaseVars
  <2>2. \A u \in Threads : thr'[u].live = thr[u].live
    BY <1>2, EventlessMoves
  <2> QED BY <2>1, <2>2, StackStill
<1>3. ASSUME NEW t \in Threads, RecordEvent(t) \/ FlushTake(t) \/ FlushWrite(t) PROVE StackInv'
  <2>1. /\ UNCHANGED stack
        /\ \E at \in Stops : \E hand : thr' = [thr EXCEPT ![t].at = at, ![t].hand = hand]
    BY <1>3 DEF RecordEvent, FlushTake, FlushWrite, Stops
  <2>2. \A u \in Threads : thr'[u].live = thr[u].live
    BY <2>1, ThreadFacts DEF Places
  <2> QED BY <2>1, <2>2, StackStill
<1>4. ASSUME NEW t \in Threads, ThreadStep(t) PROVE StackInv'
  BY <1>0, <1>2, <1>3, <1>4, BeginStack, FinishStack DEF ThreadStep, Eventless
<1> QED BY <1>1, <1>4 DEF InstrNext

\* At the start nothing is on the stack and no phase is open.
LEMMA StackInitInv ==
  ASSUME InstrInit
  PROVE  StackInv
<1>1. stack = <<>> /\ \A t \in Threads : thr[t].live = <<>>
  BY DEF InstrInit, Starting
<1>2. \A P : Times(<<>>, P) = 0
  <2> SUFFICES ASSUME NEW P PROVE Times(<<>>, P) = 0
    OBVIOUS
  <2>1. Occurrences(<<>>, P) = {}
    BY DEF Occurrences
  <2> QED BY <2>1, FS_EmptySet DEF Times
<1>3. \A p \in Phases : Live(thr, p) = 0
  <2> SUFFICES ASSUME NEW p \in Phases PROVE Live(thr, p) = 0
    OBVIOUS
  <2>1. \A t \in Threads : LiveTimes(thr, p)[t] = 0
    BY <1>1, <1>2 DEF LiveTimes
  <2>2. IsFiniteSet(Threads)
    BY InstrAssumption
  <2> QED BY <2>1, <2>2, SumZero DEF Live
<1>4. <<>> \in Seq(Phases)
  OBVIOUS
<1> QED BY <1>1, <1>2, <1>3, <1>4 DEF StackInv

\* The stack that events and samples report holds each phase as often as it is
\* open on the threads, in whatever order they begin and end phases
\* (PhaseGuard::begin, PhaseGuard::finish).
THEOREM StackTrue == InstrSpec => []StackIsLiveGuards
<1> DEFINE Inv == IInv /\ StackInv
<1>1. InstrInit => Inv
  BY InitInv, StackInitInv
<1>2. Inv /\ [InstrNext]_instrVars => Inv'
  BY NextInv, StackNextInv
<1>3. Inv => StackIsLiveGuards
  BY StackCounted
<1> QED BY <1>1, <1>2, <1>3, PTL DEF InstrSpec

\* A step that leaves the sampler alone, and owners at steps of the same kind.
LEMMA SamplerStill ==
  ASSUME SamplerInv, UNCHANGED sampler,
         \A u \in Threads :
           /\ thr'[u].scope = thr[u].scope
           /\ \/ thr'[u].at = thr[u].at
              \/ /\ thr[u].at \notin {"granted", "joining", "closing"}
                 /\ thr'[u].at \notin {"granted", "joining", "closing"}
  PROVE  SamplerInv'
<1>1. (\A u \in Threads : ~thr'[u].scope) => sampler' = "none"
  BY DEF SamplerInv
<1>2. ASSUME NEW u \in Threads, thr'[u].scope
      PROVE  /\ thr'[u].at \in {"granted", "closing"} => sampler' = "none"
             /\ thr'[u].at = "joining" => sampler' \in {"stopping", "stopped"}
             /\ thr'[u].at \notin {"granted", "joining", "closing"} => sampler' = "running"
  BY <1>2 DEF SamplerInv
<1> QED BY <1>1, <1>2 DEF SamplerInv

\* A thread's step by which it comes to a scope, goes on in it or gives it back.
LEMMA SamplerMoves ==
  ASSUME IInv, SamplerInv, NEW t \in Threads, NEW to \in Stops, NEW owner \in BOOLEAN,
         \A u \in Threads \ {t} : thr'[u] = thr[u] /\ ~thr[u].scope,
         thr'[t].at = to, thr'[t].scope = owner,
         owner \/ sampler' = "none",
         owner => /\ to \in {"granted", "closing"} => sampler' = "none"
                  /\ to = "joining" => sampler' \in {"stopping", "stopped"}
                  /\ to \notin {"granted", "joining", "closing"} => sampler' = "running"
  PROVE  SamplerInv'
<1>1. \A u \in Threads : thr'[u].scope => u = t /\ owner
  OBVIOUS
<1> QED BY <1>1 DEF SamplerInv

\* The thread that has a scope is the only one.
LEMMA OnlyOwner ==
  ASSUME IInv, NEW t \in Threads, thr[t].scope \/ ~scope.active
  PROVE  \A u \in Threads \ {t} : ~thr[u].scope
BY DEF IInv, ScopeInv, OpenInv, SingleInv

\* The steps of a thread and the sampler.
LEMMA SamplerThreadInv ==
  ASSUME IInv, SamplerInv, NEW t \in Threads, ThreadStep(t)
  PROVE  SamplerInv'
<1>0. thr \in [Threads -> Places] /\ thr[t] \in Places
  BY ThreadFacts
<1>1. CASE MarkPreprocessing(t) \/ (AskScope(t) /\ scope.active)
  <2>1. UNCHANGED <<thr, sampler>>
    BY <1>1 DEF MarkPreprocessing, AskScope
  <2> QED BY <2>1, SamplerStill
<1>2. CASE \/ MarkVerification(t) \/ (\E p \in Phases : BeginPhase(t, p))
           \/ FinishPhase(t) \/ RecordEvent(t) \/ FlushTake(t) \/ FlushWrite(t)
           \/ EndRun(t) \/ ReportScan(t) \/ ReportStore(t) \/ ReadReport(t)
  <2> DEFINE Elsewhere == Stops \ {"granted", "joining", "closing"}
  <2>1. UNCHANGED sampler /\ thr[t].at \in Elsewhere
    BY <1>2 DEF MarkVerification, BeginPhase, FinishPhase, RecordEvent, FlushTake, FlushWrite,
                EndRun, ReportScan, ReportStore, ReadReport, Go, Running, scopeVars, Stops
  <2>2. \/ \E to \in Elsewhere : thr' = [thr EXCEPT ![t].at = to]
        \/ \E to \in Elsewhere : \E h : thr' = [thr EXCEPT ![t].at = to, ![t].hand = h]
        \/ \E to \in Elsewhere : \E h, l :
             thr' = [thr EXCEPT ![t].at = to, ![t].hand = h, ![t].live = l]
        \/ \E to \in Elsewhere : \E h, l :
             thr' = [thr EXCEPT ![t].at = to, ![t].live = l, ![t].hand = h]
    <3> USE DEF Stops
    <3>1. CASE MarkVerification(t)
      BY <3>1 DEF MarkVerification, Go
    <3>2. CASE \E p \in Phases : BeginPhase(t, p)
      <4>1. PICK h, l : thr' = [thr EXCEPT ![t].at = "begun", ![t].hand = h, ![t].live = l]
        BY Zenon, <3>2 DEF BeginPhase
      <4> QED BY <4>1
    <3>3. CASE FinishPhase(t)
      BY <3>3 DEF FinishPhase
    <3>4. CASE RecordEvent(t) \/ FlushTake(t) \/ FlushWrite(t)
      BY <3>4 DEF RecordEvent, FlushTake, FlushWrite
    <3>5. CASE EndRun(t) \/ ReportScan(t) \/ ReportStore(t) \/ ReadReport(t)
      BY <3>5 DEF EndRun, ReportScan, ReportStore, ReadReport, Go
    <3> QED BY <1>2, <3>1, <3>2, <3>3, <3>4, <3>5
  <2>3. /\ thr'[t].at \in Elsewhere /\ thr'[t].scope = thr[t].scope
        /\ \A u \in Threads \ {t} : thr'[u] = thr[u]
    <3> HIDE DEF Elsewhere
    <3>1. PICK to \in Elsewhere :
            \/ thr' = [thr EXCEPT ![t].at = to]
            \/ \E h : thr' = [thr EXCEPT ![t].at = to, ![t].hand = h]
            \/ \E h, l : thr' = [thr EXCEPT ![t].at = to, ![t].hand = h, ![t].live = l]
            \/ \E h, l : thr' = [thr EXCEPT ![t].at = to, ![t].live = l, ![t].hand = h]
      BY <2>2
    <3>3. ASSUME NEW h, thr' = [thr EXCEPT ![t].at = to, ![t].hand = h]
          PROVE  /\ thr'[t].at = to /\ thr'[t].scope = thr[t].scope
                 /\ \A u \in Threads \ {t} : thr'[u] = thr[u]
      BY <1>0, <3>3 DEF Places
    <3>4. ASSUME NEW h, NEW l,
                 \/ thr' = [thr EXCEPT ![t].at = to, ![t].hand = h, ![t].live = l]
                 \/ thr' = [thr EXCEPT ![t].at = to, ![t].live = l, ![t].hand = h]
          PROVE  /\ thr'[t].at = to /\ thr'[t].scope = thr[t].scope
                 /\ \A u \in Threads \ {t} : thr'[u] = thr[u]
      BY <1>0, <3>4 DEF Places
    <3>5. /\ thr'[t].at = to /\ thr'[t].scope = thr[t].scope
          /\ \A u \in Threads \ {t} : thr'[u] = thr[u]
      <4>1. CASE thr' = [thr EXCEPT ![t].at = to]
        BY <1>0, <4>1 DEF Places
      <4> QED BY Zenon, <3>1, <3>3, <3>4, <4>1
    <3> QED BY Zenon, <3>5
  <2> QED BY <2>1, <2>3, SamplerStill
<1>3. CASE AskScope(t) /\ ~scope.active
  <2>1. thr' = [thr EXCEPT ![t].scope = TRUE, ![t].at = "granted"] /\ UNCHANGED sampler
    BY <1>3 DEF AskScope
  <2>2. /\ thr'[t].at = "granted" /\ thr'[t].scope = TRUE
        /\ \A u \in Threads \ {t} : thr'[u] = thr[u] /\ ~thr[u].scope
    BY <1>0, <1>3, <2>1, OnlyOwner DEF Places
  <2>3. sampler' = "none"
    BY <1>3, <2>1 DEF IInv, ScopeInv, OpenInv, SamplerInv
  <2> QED BY <2>2, <2>3, SamplerMoves DEF Stops
<1>4. CASE StartSampler(t) \/ StopSampler(t) \/ JoinSampler(t)
  <2>1. PICK to \in {"run", "joining", "closing"} :
          /\ thr' = [thr EXCEPT ![t].at = to]
          /\ sampler' = IF to = "run" THEN "running" ELSE IF to = "joining" THEN "stopping" ELSE "none"
    BY <1>4 DEF StartSampler, StopSampler, JoinSampler, Go
  <2>2. thr[t].scope
    BY <1>4 DEF StartSampler, StopSampler, JoinSampler, Go, IInv, ScopeInv, OwnerInv
  <2>3. /\ thr'[t].at = to /\ thr'[t].scope = TRUE /\ to \in Stops
        /\ \A u \in Threads \ {t} : thr'[u] = thr[u] /\ ~thr[u].scope
    BY <1>0, <2>1, <2>2, OnlyOwner DEF Places, Stops
  <2> QED BY <2>1, <2>3, SamplerMoves
<1>5. CASE SamplerFails(t) \/ FinishScope(t) \/ DropScope(t)
  <2>1. /\ thr' = [thr EXCEPT ![t].at = "run", ![t].scope = FALSE] /\ UNCHANGED sampler
        /\ thr[t].at \in {"granted", "closing"}
    BY <1>5 DEF SamplerFails, FinishScope, DropScope, CloseScope
  <2>2. thr[t].scope
    BY <2>1 DEF IInv, ScopeInv, OwnerInv
  <2>3. /\ thr'[t].at = "run" /\ thr'[t].scope = FALSE
        /\ \A u \in Threads \ {t} : thr'[u] = thr[u] /\ ~thr[u].scope
    BY <1>0, <2>1, <2>2, OnlyOwner DEF Places
  <2>4. sampler' = "none"
    BY <2>1, <2>2 DEF SamplerInv
  <2> QED BY <2>3, <2>4, SamplerMoves DEF Stops
<1> QED BY <1>1, <1>2, <1>3, <1>4, <1>5 DEF ThreadStep

\* Every step keeps the sampler inside its scope.
LEMMA SamplerNextInv ==
  ASSUME IInv, SamplerInv, [InstrNext]_instrVars
  PROVE  SamplerInv'
<1>1. CASE WriterStep \/ SamplerScan \/ SamplerStore \/ UNCHANGED instrVars
  <2>1. UNCHANGED <<thr, sampler>>
    BY <1>1 DEF WriterStep, SamplerScan, SamplerStore, instrVars, scopeVars
  <2> QED BY <2>1, SamplerStill
<1>2. CASE SamplerExit
  <2>1. UNCHANGED thr /\ sampler = "stopping" /\ sampler' = "stopped"
    BY <1>2 DEF SamplerExit
  <2> QED BY <2>1 DEF SamplerInv
<1> QED BY <1>1, <1>2, SamplerThreadInv DEF InstrNext, SamplerStep

\* What is on disk is a number, and the manifests are part of it.
LEMMA OnDiskNat ==
  ASSUME ArtInv
  PROVE  OnDisk \in Nat /\ DataOnDisk \in Nat /\ DataOnDisk <= OnDisk
<1> DEFINE d == [p \in Paths |-> Bytes(disk[p])]
           e == [p \in Paths |-> IF p.name \in DataNames THEN Bytes(disk[p]) ELSE 0]
<1>1. \A p \in Paths : d[p] \in Nat /\ e[p] \in Nat /\ e[p] <= d[p]
  BY DEF ArtInv, ArtTyped, Bytes
<1>2. /\ IsFiniteSet(Paths)
      /\ OnDisk = SumFunctionOnSet(d, Paths) /\ DataOnDisk = SumFunctionOnSet(e, Paths)
  BY PathFacts DEF OnDisk, DataOnDisk
<1> HIDE DEF d, e
<1> QED BY <1>1, <1>2, SumType, SumLess

\* The larger of two numbers.
LEMMA MaxOfTwo ==
  ASSUME NEW a \in Nat, NEW b \in Nat, a <= b
  PROVE  Max({a, b}) = b
<1>1. b \in {a, b} /\ \A y \in {a, b} : b >= y
  OBVIOUS
<1>2. \A x \in {a, b} : (\A y \in {a, b} : x >= y) => x = b
  OBVIOUS
<1> QED BY <1>1, <1>2 DEF Max

\* While the run goes on nothing of the report is there, and at its end the
\* sampler is not.
LEMMA EndFacts ==
  ASSUME EndedInv, EndInv
  PROVE  /\ Main \in Threads /\ Sampler \notin Threads /\ Observers = {Main, Sampler}
         /\ NoFile \notin Nat
         /\ ending => sampler = "none" /\ scan[Sampler] = NoFile
         /\ ~ending => thr[Main].at \notin Closing /\ scan[Main] = NoFile /\ final = NoReport
<1>1. Main \in Threads /\ Sampler \notin Threads /\ Observers = {Main, Sampler} /\ NoFile \notin Nat
  BY InstrAssumption, ArtAssumption
<1>2. ending => sampler = "none"
  <2> SUFFICES ASSUME ending, NEW t \in Threads PROVE ~thr[t].scope
    BY DEF EndInv, SamplerInv
  <2> QED BY DEF EndedInv, Starting
<1>3. ending => scan[Sampler] = NoFile
  BY <1>2 DEF EndInv, ScanInv
<1>4. ~ending => thr[Main].at \notin Closing /\ scan[Main] = NoFile /\ final = NoReport
  BY <1>1 DEF EndedInv, EndInv, ScanInv, ReportInv, Closing
<1> QED BY <1>1, <1>2, <1>3, <1>4

\* A step before the report: only what the directory holds may be stored.
LEMMA UnreportedStep ==
  ASSUME ArtInv, EndedInv, EndInv, ~ending, final' = final, profile' = profile,
         scan' \in [Observers -> Nat \cup {NoFile}], scan'[Main] = NoFile,
         latest' \in Nat, profile # "audit" => latest' = latest,
         scan'[Sampler] # NoFile => sampler' \in {"running", "stopping"} /\ profile = "audit",
         thr'[Main].at \notin {"reporting", "reported", "over"}
  PROVE  ScanInv' /\ ReportInv'
<1>1. ScanInv'
  BY DEF EndInv, ScanInv
<1>2. final = NoReport
  BY EndFacts
<1>3. ReportInv'
  BY <1>2 DEF ReportInv
<1> QED BY <1>1, <1>3

\* The steps of a thread before the report.
LEMMA UnreportedThread ==
  ASSUME IInv, ArtInv, EndedInv, EndInv, NEW t \in Threads, ThreadStep(t),
         ~(ReportScan(t) \/ ReportStore(t) \/ ReadReport(t))
  PROVE  ScanInv' /\ ReportInv'
<1>1. ~ending /\ thr'[Main].at \notin {"reporting", "reported", "over"}
  <2>1. CASE EndRun(t)
    <3>1. ~ending /\ thr' = [thr EXCEPT ![Main].at = "ending"]
      BY <2>1 DEF EndRun, Running
    <3> QED BY <3>1, ThreadFacts, EndFacts DEF Places
  <2>2. CASE ~EndRun(t)
    <3>1. /\ ~ending /\ \A u \in Threads : thr[u].at \notin Closing
          /\ thr'[t].at \notin Closing /\ \A u \in Threads \ {t} : thr'[u] = thr[u]
      BY <2>2, OpenSteps
    <3>2. thr'[Main].at \notin Closing
      BY <3>1, EndFacts
    <3> QED BY <3>1, <3>2 DEF Closing
  <2> QED BY <2>1, <2>2
<1>2. /\ UNCHANGED <<final, profile, scan>>
      /\ latest' = latest \/ (profile = "audit" /\ latest' = OnDisk)
  BY DEF ThreadStep, MarkPreprocessing, MarkVerification, BeginPhase, FinishPhase,
         RecordEvent, FlushTake, FlushWrite, AskScope, StartSampler, SamplerFails,
         StopSampler, JoinSampler, FinishScope, DropScope, CloseScope, EndRun,
         phaseVars, endVars, artVars, Observe
<1>3. scan[Sampler] # NoFile => sampler' \in {"running", "stopping"}
  <2> SUFFICES ASSUME scan[Sampler] # NoFile PROVE sampler' \in {"running", "stopping"}
    OBVIOUS
  <2>1. sampler \in {"running", "stopping"}
    BY DEF EndInv, ScanInv
  <2> QED BY <2>1 DEF ThreadStep, MarkPreprocessing, MarkVerification, BeginPhase, FinishPhase,
                      RecordEvent, FlushTake, FlushWrite, AskScope, StartSampler, SamplerFails,
                      StopSampler, JoinSampler, FinishScope, DropScope, CloseScope, EndRun,
                      scopeVars
<1>4. /\ scan \in [Observers -> Nat \cup {NoFile}] /\ scan[Main] = NoFile
      /\ latest \in Nat /\ OnDisk \in Nat
      /\ scan[Sampler] # NoFile => profile = "audit"
  BY <1>1, EndFacts, OnDiskNat DEF EndInv, ScanInv
<1> QED BY <1>1, <1>2, <1>3, <1>4, UnreportedStep

\* Every step keeps what is known of scans and of the report.
LEMMA EndNextInv ==
  ASSUME IInv, ArtInv, EventInv, EndedInv, EndInv, [InstrNext]_instrVars
  PROVE  EndInv'
<1>1. SamplerInv'
  BY SamplerNextInv DEF EndInv
<1>2. ASSUME NEW t \in Threads, ThreadStep(t) PROVE ScanInv' /\ ReportInv'
  <2>1. CASE ~(ReportScan(t) \/ ReportStore(t) \/ ReadReport(t))
    BY <1>2, <2>1, UnreportedThread
  <2>2. CASE ReportScan(t) \/ ReportStore(t) \/ ReadReport(t)
    <3>1. thr[t].at \in Closing
      BY <2>2 DEF ReportScan, ReportStore, ReadReport, Go, Closing
    <3>2. t = Main /\ ending /\ sampler = "none" /\ scan[Sampler] = NoFile
      BY <3>1, EndFacts DEF EndedInv
    <3>3. /\ OnDisk' = OnDisk /\ OnDisk \in Nat /\ NoFile \notin Nat
          /\ Main \in Observers /\ Main # Sampler
          /\ UNCHANGED <<profile, current, sampler>>
      BY <2>2, EndFacts, OnDiskNat
         DEF ReportScan, ReportStore, ReadReport, phaseVars, scopeVars, artVars, Writers, OnDisk
    <3>4. /\ scan \in [Observers -> Nat \cup {NoFile}] /\ latest \in Nat
          /\ scan[Main] # NoFile <=> thr[Main].at = "reporting" /\ profile = "audit"
          /\ scan[Main] # NoFile => scan[Main] = OnDisk
          /\ profile = "audit" /\ thr[Main].at \in {"reported", "over"} => latest = OnDisk
          /\ profile # "audit" => latest = 0
          /\ thr[Main].at # "over" => final = NoReport
      BY DEF EndInv, ScanInv, ReportInv
    <3>5. CASE ReportScan(t)
      <4>1. /\ thr[Main].at = "ending" /\ thr'[Main].at = "reporting" /\ UNCHANGED <<latest, final>>
            /\ scan' = IF profile = "audit" THEN [scan EXCEPT ![Main] = OnDisk] ELSE scan
        BY <3>2, <3>5, EndFacts, ThreadFacts DEF ReportScan, Go, Scan, endVars, Places
      <4> QED BY <3>2, <3>3, <3>4, <4>1 DEF ScanInv, ReportInv
    <3>6. CASE ReportStore(t)
      <4>1. /\ thr[Main].at = "reporting" /\ thr'[Main].at = "reported" /\ UNCHANGED final
            /\ latest' = IF profile = "audit" THEN scan[Main] ELSE latest
            /\ scan' = IF profile = "audit" THEN [scan EXCEPT ![Main] = NoFile] ELSE scan
        BY <3>2, <3>6, EndFacts, ThreadFacts DEF ReportStore, Go, Store, endVars, Places
      <4> QED BY <3>2, <3>3, <3>4, <4>1 DEF ScanInv, ReportInv
    <3>7. CASE ReadReport(t)
      <4>1. /\ thr[Main].at = "reported" /\ thr'[Main].at = "over" /\ UNCHANGED <<latest, scan>>
            /\ final' = Max({latest, current})
        BY <3>2, <3>7, EndFacts, ThreadFacts DEF ReadReport, Go, artVars, Places
      <4> QED BY <3>2, <3>3, <3>4, <4>1 DEF ScanInv, ReportInv
    <3> QED BY <2>2, <3>5, <3>6, <3>7
  <2> QED BY <2>1, <2>2
<1>3. CASE SamplerStep
  <2>1. ~ending
    BY <1>3, EndFacts DEF SamplerStep, SamplerScan, SamplerStore, SamplerExit, Store
  <2>2. UNCHANGED <<final, profile, thr>>
    BY <1>3 DEF SamplerStep, SamplerScan, SamplerStore, SamplerExit, phaseVars, endVars
  <2>3. /\ scan \in [Observers -> Nat \cup {NoFile}] /\ scan[Main] = NoFile
        /\ latest \in Nat /\ OnDisk \in Nat /\ thr[Main].at \notin Closing
        /\ Sampler \in Observers /\ Main # Sampler
        /\ scan[Sampler] # NoFile => sampler \in {"running", "stopping"} /\ profile = "audit"
    BY <2>1, EndFacts, OnDiskNat DEF EndInv, ScanInv
  <2>4. /\ scan' \in [Observers -> Nat \cup {NoFile}] /\ scan'[Main] = NoFile
        /\ latest' \in Nat /\ (profile # "audit" => latest' = latest)
        /\ scan'[Sampler] # NoFile => sampler' \in {"running", "stopping"} /\ profile = "audit"
    <3>1. CASE SamplerScan
      BY <2>3, <3>1 DEF SamplerScan, Scan, scopeVars
    <3>2. CASE SamplerStore
      BY <2>3, <3>2 DEF SamplerStore, Store, scopeVars
    <3>3. CASE SamplerExit
      BY <2>3, <3>3 DEF SamplerExit, artVars
    <3> QED BY <1>3, <3>1, <3>2, <3>3 DEF SamplerStep
  <2>5. thr'[Main].at \notin {"reporting", "reported", "over"}
    BY <2>2, <2>3 DEF Closing
  <2>6. final' = final /\ profile' = profile
    BY <2>2
  <2>7. ScanInv' /\ ReportInv'
    BY <2>1, <2>4, <2>5, <2>6, UnreportedStep
  <2> QED BY <1>1, <2>7 DEF EndInv
<1>4. CASE WriterStep
  <2>1. ~ending /\ UNCHANGED <<final, profile, thr, sampler>>
    BY <1>4 DEF WriterStep, phaseVars, scopeVars, endVars
  <2>2. UNCHANGED <<scan, latest>>
    <3>1. PICK f \in work.files : WriteStep(f)
      BY <1>4 DEF WriterStep
    <3> QED BY <3>1 DEF WriteStep, AppendChunk, AppendTorn, RecordWrite, Seal, CreateSpool,
                        SealStops, RegisterChunk, RecordChecked, RemoveChecked, RecordDropped,
                        RemoveDropped, RemovalStops, CreateObject, RegisterObject, AppendObject,
                        DeleteObject, DeleteFails, RecordDeleted, Sweep, Observing
  <2>3. /\ scan \in [Observers -> Nat \cup {NoFile}] /\ scan[Main] = NoFile
        /\ latest \in Nat /\ thr[Main].at \notin Closing
        /\ scan[Sampler] # NoFile => sampler \in {"running", "stopping"} /\ profile = "audit"
    BY <2>1, EndFacts DEF EndInv, ScanInv
  <2>4. /\ scan' \in [Observers -> Nat \cup {NoFile}] /\ scan'[Main] = NoFile
        /\ latest' \in Nat /\ latest' = latest
        /\ scan'[Sampler] # NoFile => sampler' \in {"running", "stopping"} /\ profile = "audit"
        /\ thr'[Main].at \notin {"reporting", "reported", "over"}
        /\ final' = final /\ profile' = profile
    BY <2>1, <2>2, <2>3 DEF Closing
  <2>5. ScanInv' /\ ReportInv'
    BY <2>1, <2>4, UnreportedStep
  <2> QED BY <1>1, <2>5 DEF EndInv
<1>5. CASE UNCHANGED instrVars
  <2>1. UNCHANGED <<final, profile, thr, sampler, scan, latest, current, disk>>
    BY <1>5 DEF instrVars, phaseVars, scopeVars, endVars, artVars
  <2>2. OnDisk' = OnDisk
    BY <2>1 DEF OnDisk
  <2>3. ScanInv'
    BY <2>1, <2>2 DEF EndInv, ScanInv
  <2>4. ReportInv'
    BY <2>1 DEF EndInv, ReportInv
  <2> QED BY <1>1, <2>3, <2>4 DEF EndInv
<1> QED BY <1>1, <1>2, <1>3, <1>4, <1>5 DEF InstrNext, EndInv

\* At the start no sampler runs and nothing is reported.
LEMMA EndInitInv ==
  ASSUME InstrInit
  PROVE  EndInv
<1>1. /\ sampler = "none" /\ scan = [o \in Observers |-> NoFile] /\ latest = 0
      /\ thr[Main].at = "run" /\ final = NoReport /\ \A t \in Threads : ~thr[t].scope
  BY InstrAssumption DEF InstrInit, ArtInit, Starting
<1> QED BY <1>1, InstrAssumption DEF EndInv, SamplerInv, ScanInv, ReportInv

\* At the end of a run its report says what is on disk, or what is counted.
LEMMA FinalRight ==
  ASSUME ArtInv, EndedInv, EndInv
  PROVE  FinalBytesCurrent
<1> SUFFICES ASSUME final # NoReport
             PROVE  /\ profile = "audit" /\ "delete" \notin failures => final = OnDisk
                    /\ profile = "perf" /\ failures \subseteq {"seal"} => final = DataOnDisk
  BY DEF FinalBytesCurrent
<1>1. thr[Main].at = "over" /\ final = Max({latest, current})
  BY DEF EndInv, ReportInv
<1>2. Quiet
  BY <1>1 DEF EndedInv, Closing
<1>3. /\ "delete" \notin failures => current <= DataOnDisk
      /\ failures \subseteq {"seal"} => current = DataOnDisk
  BY <1>2, CountRight DEF DirectMatchesDisk
<1>4. current \in Nat /\ OnDisk \in Nat /\ DataOnDisk \in Nat /\ DataOnDisk <= OnDisk
  BY OnDiskNat DEF ArtInv, ArtTyped
<1>5. ASSUME profile = "audit", "delete" \notin failures PROVE final = OnDisk
  <2>1. latest = OnDisk /\ current <= OnDisk
    BY <1>1, <1>3, <1>4, <1>5 DEF EndInv, ScanInv
  <2>2. Max({current, latest}) = OnDisk
    BY <1>4, <2>1, MaxOfTwo
  <2>3. {current, latest} = {latest, current}
    OBVIOUS
  <2> QED BY <1>1, <2>2, <2>3
<1>6. ASSUME profile = "perf", failures \subseteq {"seal"} PROVE final = DataOnDisk
  <2>1. latest = 0 /\ current = DataOnDisk
    BY <1>3, <1>6 DEF EndInv, ScanInv
  <2> QED BY <1>1, <1>4, <2>1, MaxOfTwo
<1> QED BY <1>5, <1>6

WholeInv == RunInv /\ FilesInv /\ EndInv

\* All parts hold at the start.
LEMMA WholeInitInv == InstrInit => WholeInv
BY RunInitInv, FilesInitInv, EndInitInv DEF WholeInv

\* Every step keeps all parts.
LEMMA WholeNextInv == WholeInv /\ [InstrNext]_instrVars => WholeInv'
BY RunNextInv, FilesNextInv, EndNextInv DEF WholeInv, RunInv, FilesInv

\* The size that a run reports at its end is, in the audit profile, what is then
\* on disk, and in the perf profile the files without their manifests, however
\* the sampler's scans fall between the report's own steps
\* (temp_storage_report, SamplerGuard::drop).
THEOREM FinalBytesRight == InstrSpec => []FinalBytesCurrent
<1>1. WholeInv => FinalBytesCurrent
  BY FinalRight DEF WholeInv, RunInv, FilesInv
<1> QED BY WholeInitInv, WholeNextInv, <1>1, PTL DEF InstrSpec
===============================================================================
