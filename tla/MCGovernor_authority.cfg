\* Worker restarts, capacity fencing, late and duplicate reports.
CONSTANTS
  r1 = r1
  p1 = p1
  w1 = w1
  t1 = t1
  NoWorker = NoWorker
  NoBoot = NoBoot
  NoSpec = NoSpec
  Flows = {f1, f2}
  Resources = {r1}
  Paths = {p1}
  Workers = {w1}
  Boots = {b1, b2}
  Tenants = {t1}
  Hops <- OneHop
  Backs <- OneBacker
  Nominal <- OneNominal
  MaxRate = 4
  Specs <- GuaranteedOnly
  Measured = {}
  Switchable = {}
  ClockRuns = FALSE
  Window = 1
  MaxAge = 2
  MaxMint = 2
  MaxCapGen = 1
  MaxBytes = 1
SPECIFICATION Spec
INVARIANTS TypeOK RatesInRange ReservationHistory SettledAccountsAreZero AccountsMatchFlows
PROPERTIES AuthorityImplemented CompletionFenced RetryReplacesAuthority ProgressMonotone
SYMMETRY FlowSymmetry
