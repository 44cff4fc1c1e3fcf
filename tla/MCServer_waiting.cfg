\* Two connections, of one worker that comes back or of two workers.
CONSTANTS
  c1 = c1
  c2 = c2
  w1 = w1
  w2 = w2
  Identities <- MCIdentities
  Conns = {c1, c2}
  Workers = {w1, w2}
  NoConn = NoConn
  Room = 1
SPECIFICATION Spec
INVARIANTS TypeOK StopHeldUp
PROPERTIES SlotsKept RegistrationServed
CHECK_DEADLOCK FALSE
