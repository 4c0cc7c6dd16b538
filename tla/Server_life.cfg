SPECIFICATION Spec
CONSTANTS
  Requests = {r1, r2, r3}
  Scripts <- SomeScripts
  Conns = {k1, k2}
  Objects = 2
  NoConn = NoConn
  MaxDeaths = 2
INVARIANTS
  ServedOnWholeSchema
PROPERTIES
  StartServes
  RequestsAnswered
  SignalStops
