CONSTANTS
  p1 = p1
  p2 = p2
  p3 = p3
  duplex = {}
  play = {}
  record = {p1, p2}
  Clients <- MCClients
  Use <- MCUse
  Serial = TRUE
  NoOne = NoOne
SPECIFICATION Spec
INVARIANTS
  InitMeansOwner
