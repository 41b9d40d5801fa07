---------------------------- MODULE Instrumentation ----------------------------
(***************************************************************************)
(* Phase log and measurement scopes of a proof run                         *)
(* (experiments/thinwallet-instrumentation/src/lib.rs), composed with the  *)
(* accounting of temporary files.  Two mutexes guard the state: one the    *)
(* audit state (phase stack, events, counters), one the measurement scope. *)
(* Neither is held while a file is read or written, so every operation is  *)
(* several steps and other threads, the sampler among them, come between.  *)
(*                                                                         *)
(* A phase is a guard that pushes its name on a stack all threads share,   *)
(* writes a begin event, and at its end takes the name off again and       *)
(* writes an end event: to the file at once in the audit profile, to a     *)
(* buffer that is flushed at the end of the run in the perf profile.  (The *)
(* off profile records nothing and is left out.)                           *)
(***************************************************************************)
EXTENDS TempArtifacts, Sequences, SequencesExt

CONSTANTS
  Threads,    \* threads of the program that run phases
  Main,       \* the one that proves, writes the files and reports
  Sampler,    \* the sampling thread of the open scope
  Phases,     \* names used; "verification" and the hot loops are special
  HotLoops,   \* phases the perf profile leaves out
  Workloads   \* bound: what a run does: phases recorded, measurement scopes
              \* asked for and files written

ASSUME InstrAssumption ==
  /\ Main \in Threads /\ Sampler \notin Threads /\ Observers = {Main, Sampler}
  /\ IsFiniteSet(Threads)
  /\ Workloads \subseteq [guards : Nat, scopes : Nat, files : SUBSET Files]

Profiles == {"perf", "audit"}
NoEvent == [guard |-> 0, kind |-> "none"]
MaxGuards == Max({w.guards : w \in Workloads})
Events == [guard : 1..MaxGuards, kind : {"begin", "end"}]

VARIABLES
  profile,
  work,     \* what this run does
  stack,    \* phase_stack
  buffer,   \* phase_events
  log,      \* how often each event is in the file of phases
  given,    \* phases recorded so far
  thr,      \* each thread: where it is, its live guards, the events in its hand
  scope,    \* MeasurementScopeState
  asked,    \* scopes asked for so far
  sampler,  \* the sampling thread
  marks,    \* history: verifier work since the open scope was granted
  verdict,  \* history: the last finished scope's report, with that work
  ending,   \* the main thread is past its last phase
  final     \* temp_final_bytes of the report at the end of the run

phaseVars == <<profile, work, stack, buffer, log, given>>
scopeVars == <<scope, asked, sampler, marks, verdict>>
endVars == <<ending, final>>
instrVars == <<phaseVars, thr, scopeVars, endVars, artVars>>

NoReport == NoFile
NoVerdict == [valid |-> TRUE, inside |-> {}]
Closed == [active |-> FALSE, preprocessing |-> FALSE, execution |-> FALSE]
Starting == [at |-> "run", scope |-> FALSE, live |-> <<>>, hand |-> {}]

InstrInit ==
  /\ profile \in Profiles /\ work \in Workloads
  /\ stack = <<>> /\ buffer = {} /\ log = [e \in Events |-> 0] /\ given = 0
  /\ thr = [t \in Threads |-> Starting]
  /\ scope = Closed /\ asked = 0 /\ sampler = "none" /\ marks = {} /\ verdict = NoVerdict
  /\ ending = FALSE /\ final = NoReport
  /\ ArtInit

Go(t, from, to) == thr[t].at = from /\ thr' = [thr EXCEPT ![t].at = to]
\* Main is not at a file.
Running(t) == thr[t].at = "run" /\ ~ending /\ (t = Main => Quiet)
Owners == {t \in Threads : thr[t].scope}

\* The directory is scanned and what was seen stored, in the audit profile
\* only.  Here one step; of the sampler and the final report, two.
Observe == latest' = IF profile = "audit" THEN OnDisk ELSE latest
Writers == <<disk, recorded, current, job, failures>>

-------------------------------------------------------------------------------
(* Phases *)

Counted(phase) == ~(profile = "perf" /\ phase \in HotLoops)

\* Marks are made under the scope's lock, and only while a scope is open.
Mark(field) ==
  /\ scope' = IF scope.active THEN [scope EXCEPT ![field] = TRUE] ELSE scope
  /\ marks' = IF Owners = {} THEN marks ELSE marks \cup {field}

MarkPreprocessing(t) ==
  /\ Running(t)
  /\ Mark("preprocessing")
  /\ UNCHANGED <<phaseVars, thr, asked, sampler, verdict, endVars, artVars>>

\* The verifier's phase marks the scope before it does anything else.
MarkVerification(t) ==
  /\ Running(t) /\ given < work.guards
  /\ Go(t, "run", "marked")
  /\ Mark("execution")
  /\ UNCHANGED <<phaseVars, asked, sampler, verdict, endVars, artVars>>

\* The name goes on the shared stack; the begin event is still to be written.
BeginPhase(t, phase) ==
  /\ IF phase = "verification" THEN thr[t].at = "marked" ELSE Running(t)
  /\ Counted(phase)
  /\ given < work.guards /\ given' = given + 1
  /\ stack' = Append(stack, phase)
  /\ thr' = [thr EXCEPT ![t].at = "begun", ![t].hand = {[guard |-> given', kind |-> "begin"]},
                        ![t].live = Append(@, [guard |-> given', phase |-> phase])]
  /\ UNCHANGED <<profile, work, buffer, log, scopeVars, endVars, artVars>>

\* Mutant of TakenOff: the top of the stack, whoever put it there.
TopTakenOff(phase) == Front(stack)

\* The stack is shared: the top may be another thread's phase.
TakenOff(phase) ==
  LET mine == {i \in DOMAIN stack : stack[i] = phase}
  IN IF mine = {} THEN stack ELSE RemoveAt(stack, Max(mine))

FinishPhase(t) ==
  /\ Running(t) /\ thr[t].live # <<>>
  /\ LET guard == Last(thr[t].live)
     IN /\ stack' = TakenOff(guard.phase)
        /\ thr' = [thr EXCEPT ![t].at = "begun", ![t].live = Front(@),
                              ![t].hand = {[guard |-> guard.guard, kind |-> "end"]}]
  /\ UNCHANGED <<profile, work, buffer, log, given, scopeVars, endVars, artVars>>

Logged(events) == [e \in Events |-> IF e \in events THEN log[e] + 1 ELSE log[e]]

\* The event, with a snapshot of the process, goes to the file or the buffer.
RecordEvent(t) ==
  /\ thr[t].at = "begun"
  /\ Observe
  /\ IF profile = "perf" THEN buffer' = buffer \cup thr[t].hand /\ UNCHANGED log
     ELSE log' = Logged(thr[t].hand) /\ UNCHANGED buffer
  /\ thr' = [thr EXCEPT ![t].at = "run", ![t].hand = {}]
  /\ UNCHANGED <<profile, work, stack, given, scopeVars, endVars, Writers, scan>>

\* Mutant of FlushTake: the buffer is copied, not taken.
FlushCopy(t) ==
  /\ Running(t) /\ profile = "perf" /\ buffer # {}
  /\ thr' = [thr EXCEPT ![t].at = "flushing", ![t].hand = buffer]
  /\ UNCHANGED <<phaseVars, scopeVars, endVars, artVars>>

\* flush_phase_events takes the whole buffer under the lock and writes it
\* after.
FlushTake(t) ==
  /\ Running(t) /\ profile = "perf" /\ buffer # {}
  /\ thr' = [thr EXCEPT ![t].at = "flushing", ![t].hand = buffer]
  /\ buffer' = {}
  /\ UNCHANGED <<profile, work, stack, log, given, scopeVars, endVars, artVars>>

FlushWrite(t) ==
  /\ thr[t].at = "flushing"
  /\ log' = Logged(thr[t].hand)
  /\ thr' = [thr EXCEPT ![t].at = "run", ![t].hand = {}]
  /\ UNCHANGED <<profile, work, stack, buffer, given, scopeVars, endVars, artVars>>

-------------------------------------------------------------------------------
(* Measurement scopes *)

\* Mutant of AskScope: the flags are cleared before the scope is looked at.
AskScopeClears(t) ==
  /\ Running(t) /\ asked < work.scopes
  /\ asked' = asked + 1
  /\ scope' = [Closed EXCEPT !.active = TRUE]
  /\ IF scope.active THEN UNCHANGED <<thr, marks>>
     ELSE /\ thr' = [thr EXCEPT ![t].scope = TRUE, ![t].at = "granted"]
          /\ marks' = {}
  /\ UNCHANGED <<phaseVars, sampler, verdict, endVars, artVars>>

\* A second scope is refused and leaves the first alone.
AskScope(t) ==
  /\ Running(t) /\ asked < work.scopes
  /\ asked' = asked + 1
  /\ IF scope.active THEN UNCHANGED <<scope, thr, marks>>
     ELSE /\ scope' = [Closed EXCEPT !.active = TRUE]
          /\ thr' = [thr EXCEPT ![t].scope = TRUE, ![t].at = "granted"]
          /\ marks' = {}
  /\ UNCHANGED <<phaseVars, sampler, verdict, endVars, artVars>>

\* The baseline and the sampler's first sample: one observation.
StartSampler(t) ==
  /\ Go(t, "granted", "run")
  /\ Observe
  /\ sampler' = "running"
  /\ UNCHANGED <<phaseVars, scope, asked, marks, verdict, endVars, Writers, scan>>

\* Its files cannot be made: the scope is given back.
SamplerFails(t) ==
  /\ thr[t].at = "granted"
  /\ Observe
  /\ thr' = [thr EXCEPT ![t].at = "run", ![t].scope = FALSE]
  /\ scope' = [scope EXCEPT !.active = FALSE]
  /\ UNCHANGED <<phaseVars, asked, sampler, marks, verdict, endVars, Writers, scan>>

SamplerScan ==
  /\ sampler \in {"running", "stopping"} /\ profile = "audit"
  /\ Scan(Sampler)
  /\ UNCHANGED <<phaseVars, thr, scopeVars, endVars, Writers, latest>>

SamplerStore ==
  /\ Store(Sampler)
  /\ UNCHANGED <<phaseVars, thr, scopeVars, endVars, Writers>>

SamplerExit ==
  /\ sampler = "stopping" /\ scan[Sampler] = NoFile
  /\ sampler' = "stopped"
  /\ UNCHANGED <<phaseVars, thr, scope, asked, marks, verdict, endVars, artVars>>

\* Both ends of a scope, finish and the drop of an unfinished guard, stop the
\* sampler first and wait for it.
StopSampler(t) ==
  /\ Running(t) /\ thr[t].scope
  /\ thr' = [thr EXCEPT ![t].at = "joining"]
  /\ sampler' = "stopping"
  /\ UNCHANGED <<phaseVars, scope, asked, marks, verdict, endVars, artVars>>

\* Mutant of JoinSampler: the thread is not waited for.
LetSamplerRun(t) ==
  /\ Go(t, "joining", "closing")
  /\ sampler' = "none"
  /\ Observe
  /\ UNCHANGED <<phaseVars, scope, asked, marks, verdict, endVars, Writers, scan>>

\* The sampler is over; the directory is observed, once as the sampler goes
\* and once for the final snapshot.
JoinSampler(t) ==
  /\ sampler = "stopped"
  /\ Go(t, "joining", "closing")
  /\ sampler' = "none"
  /\ Observe
  /\ UNCHANGED <<phaseVars, scope, asked, marks, verdict, endVars, Writers, scan>>

\* The flags are read and the scope given back in one lock.
CloseScope(t) ==
  /\ thr[t].at = "closing"
  /\ scope' = [scope EXCEPT !.active = FALSE]
  /\ thr' = [thr EXCEPT ![t].at = "run", ![t].scope = FALSE]

FinishScope(t) ==
  /\ CloseScope(t)
  /\ verdict' = [valid |-> ~scope.preprocessing /\ ~scope.execution, inside |-> marks]
  /\ UNCHANGED <<phaseVars, asked, sampler, marks, endVars, artVars>>

DropScope(t) ==
  /\ CloseScope(t)
  /\ UNCHANGED <<phaseVars, asked, sampler, marks, verdict, endVars, artVars>>

-------------------------------------------------------------------------------
(* The end of the run: the events are flushed, then storage is reported *)

EndRun(t) ==
  /\ t = Main /\ Running(t) /\ \A u \in Threads : thr[u] = Starting
  /\ buffer = {}
  /\ ending' = TRUE
  /\ thr' = [thr EXCEPT ![t].at = "ending"]
  /\ UNCHANGED <<phaseVars, scopeVars, final, artVars>>

ReportScan(t) ==
  /\ Go(t, "ending", "reporting")
  /\ IF profile = "audit" THEN Scan(t) ELSE UNCHANGED scan
  /\ UNCHANGED <<phaseVars, scopeVars, endVars, Writers, latest>>

ReportStore(t) ==
  /\ Go(t, "reporting", "reported")
  /\ IF profile = "audit" THEN Store(t) ELSE UNCHANGED <<latest, scan>>
  /\ UNCHANGED <<phaseVars, scopeVars, endVars, Writers>>

\* temp_storage_report reads both counts under a lock of its own.
ReadReport(t) ==
  /\ Go(t, "reported", "over")
  /\ final' = Max({latest, current})
  /\ UNCHANGED <<phaseVars, scopeVars, ending, artVars>>

-------------------------------------------------------------------------------
\* Main writes the files, one operation at a time, between its other steps.
WriterStep ==
  /\ thr[Main].at = "run" /\ ~ending
  /\ \E f \in work.files : WriteStep(f) /\ (Quiet \/ ~QuietFile(f))
  /\ UNCHANGED <<phaseVars, thr, scopeVars, endVars>>

SamplerStep == SamplerScan \/ SamplerStore \/ SamplerExit

ThreadStep(t) ==
  \/ MarkPreprocessing(t) \/ MarkVerification(t) \/ \E p \in Phases : BeginPhase(t, p)
  \/ FinishPhase(t) \/ RecordEvent(t) \/ FlushTake(t) \/ FlushWrite(t)
  \/ AskScope(t) \/ StartSampler(t) \/ SamplerFails(t) \/ StopSampler(t)
  \/ JoinSampler(t) \/ FinishScope(t) \/ DropScope(t)
  \/ EndRun(t) \/ ReportScan(t) \/ ReportStore(t) \/ ReadReport(t)

InstrNext == WriterStep \/ SamplerStep \/ \E t \in Threads : ThreadStep(t)

InstrSpec == InstrInit /\ [][InstrNext]_instrVars

-------------------------------------------------------------------------------
(* Properties *)

\* The phase stack that every event and sample reports holds the phases that
\* are open, each as often as it is open, however the threads interleave
\* (PhaseGuard::begin, PhaseGuard::finish).
StackIsLiveGuards ==
  \A p \in Phases :
    Cardinality({i \in DOMAIN stack : stack[i] = p})
      = FoldFunction(+, 0, [t \in Threads |->
          Cardinality({i \in DOMAIN thr[t].live : thr[t].live[i].phase = p})])

Ended(g) == \A t \in Threads : g \notin {thr[t].live[i].guard : i \in DOMAIN thr[t].live}

\* Every phase has one begin event, and once it has ended one end event: in
\* the file, in the buffer or in one thread's hand, never lost between them
\* and never twice (PhaseGuard, flush_phase_events).  When storage is
\* reported all are in the file.
EventsOnce ==
  \A e \in Events :
    LET due == IF e.guard <= given /\ (e.kind = "begin" \/ Ended(e.guard)) THEN 1 ELSE 0
    IN /\ log[e] + Cardinality({t \in Threads : e \in thr[t].hand})
            + (IF e \in buffer THEN 1 ELSE 0) = due
       /\ ending => log[e] = due

\* A scope is open exactly while one thread owns it, whatever fails on the
\* way, and its report calls it valid exactly when no verifier work started
\* between the grant and the report, on any thread
\* (begin_measurement_scope, MeasurementScopeGuard).
ScopeReportsTrue ==
  /\ scope.active <=> Owners # {}
  /\ \A t, u \in Owners : t = u
  /\ verdict.valid <=> verdict.inside = {}

\* The final size reported at the end of a run.  In the audit profile it is
\* what is on disk then, manifests and what a failure left behind included: no
\* scan that began earlier is stored after the report's own.  In the perf
\* profile, which does not look, it is the bytes of the files without their
\* manifests, unless an append or a removal failed
\* (temp_storage_report, SamplerGuard::drop).
FinalBytesCurrent ==
  final # NoReport =>
    /\ profile = "audit" /\ "delete" \notin failures => final = OnDisk
    /\ profile = "perf" /\ failures \subseteq {"seal"} => final = DataOnDisk

===============================================================================
