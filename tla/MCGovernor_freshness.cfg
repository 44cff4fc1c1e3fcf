\* One link whose capacity is measured, goes stale and is switched off and on.
CONSTANTS
  r1 = r1
  p1 = p1
  w1 = w1
  t1 = t1
  NoWorker = NoWorker
  NoBoot = NoBoot
  NoSpec = NoSpec
  Flows = {f1, f2}
  Resources = {r1}
  Paths = {p1}
  Workers = {}
  Boots = {}
  Tenants = {t1}
  Hops <- OneHop
  Backs <- NoBackers
  Nominal <- OneNominal
  MaxRate = 4
  Specs <- MixedSpecs
  Measured = {2}
  Switchable = {r1}
  ClockRuns = TRUE
  Window = 1
  MaxAge = 2
  MaxMint = 1
  MaxCapGen = 0
  MaxBytes = 0
SPECIFICATION FairSpec
INVARIANTS NoLeakedReservation
PROPERTIES StaleNeverFresh LifecycleRespected TickWithinCapacity QueuedFlowsAdmitted
