\* The coordinator dies, is restarted, and loads a state saved at any time.
CONSTANTS
  r1 = r1
  r2 = r2
  p1 = p1
  w1 = w1
  t1 = t1
  NoWorker = NoWorker
  NoBoot = NoBoot
  NoSpec = NoSpec
  Flows = {f1}
  Resources = {r1, r2}
  Paths = {p1}
  Workers = {w1}
  Boots = {b1, b2}
  Tenants = {t1}
  Hops <- TwoHops
  Backs <- OneBacker
  Nominal <- TwoNominals
  MaxRate = 4
  Specs <- BothSpecs
  Measured = {}
  Switchable = {}
  ClockRuns = FALSE
  Window = 1
  MaxAge = 2
  MaxMint = 2
  MaxCapGen = 1
  MaxBytes = 0
  MaxStarts = 2
  NoSnapshot = NoSnapshot
SPECIFICATION RecoverySpec
INVARIANTS SingleAuthority SettledAccountsAreZero AccountsMatchFlows ReportsAccepted
PROPERTIES TickWithinCapacity
