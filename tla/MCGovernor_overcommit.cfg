\* Two guaranteed flows submitted to one link of fixed capacity.
CONSTANTS
  r1 = r1
  p1 = p1
  w1 = w1
  t1 = t1
  NoWorker = NoWorker
  NoBoot = NoBoot
  NoSpec = NoSpec
  Flows = {f1, f2}
  Resources = {r1}
  Paths = {p1}
  Workers = {}
  Boots = {}
  Tenants = {t1}
  Hops <- OneHop
  Backs <- NoBackers
  Nominal <- OneNominal
  MaxRate = 4
  Specs <- MixedSpecs
  Measured = {}
  Switchable = {}
  ClockRuns = FALSE
  Window = 2
  MaxAge = 3
  MaxMint = 1
  MaxCapGen = 0
  MaxBytes = 0
SPECIFICATION Spec
PROPERTIES AdmissionHonoursMinima
SYMMETRY FlowSymmetry
