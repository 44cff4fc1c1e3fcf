\* Three flows of every mixture of weights, minima and targets share a link.
CONSTANTS
  Flows = {f1, f2, f3}
  Weights = {0, 1, 2}
  Envelopes <- MCEnvelopes
  Capacities <- MCCapacities
SPECIFICATION Spec
INVARIANTS TypeOK MeetsContract MaxMinFair
PROPERTIES Terminates
CHECK_DEADLOCK FALSE
