SPECIFICATION InstrSpec
CONSTANTS
  Spools = {s1, s2}
  Objects = {o1}
  Threads = {w1, w2}
  Main = w1
  Sampler = sm
  Observers = {w1, sm}
  Phases = {"opening", "verification", "pbmo_upload"}
  HotLoops = {"pbmo_upload"}
  NoFile = NoFile
  ManifestSize = 1
  MaxSize = 2
  Workloads <- MCWorkloads
INVARIANTS
  StackIsLiveGuards
  EventsOnce
  ScopeReportsTrue
  DirectMatchesDisk
  FinalBytesCurrent
CHECK_DEADLOCK FALSE
