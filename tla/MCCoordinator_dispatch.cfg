\* A worker process dies and is started again.
CONSTANTS
  r1 = r1
  p1 = p1
  w1 = w1
  t1 = t1
  NoWorker = NoWorker
  NoBoot = NoBoot
  NoSpec = NoSpec
  NoJob = NoJob
  Flows = {f1}
  Resources = {r1}
  Paths = {p1}
  Workers = {w1}
  Boots = {b1, b2}
  Tenants = {t1}
  Hops <- OneHop
  Backs <- OneBacker
  Nominal <- OneNominal
  MaxRate = 4
  Specs <- SteadyOnly
  WorkerOf <- OneWorker
  Measured = {}
  Switchable = {}
  ClockRuns = FALSE
  Window = 1
  MaxAge = 2
  MaxMint = 2
  MaxCapGen = 0
  MaxBytes = 2
  MaxFrames = 2
SPECIFICATION FairSysSpec
INVARIANTS SysTypeOK CompletedMeansTransferred
PROPERTIES CreditedToLiveProcess DispatchedOnce ServedFlowsSettle
