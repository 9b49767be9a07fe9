CONSTANTS
  Bridges = {b1, b2, b3, b4}
  MaxPath = 2
  Bits = {io, mem}
  MayDrift = {"exclusive"}

SPECIFICATION Spec
SYMMETRY BridgeSymmetry

INVARIANTS
  NoDoubleForwarding
  RollbackExact
  BootReady
PROPERTIES
  SharedNeverDisabled
  HonoursContract
