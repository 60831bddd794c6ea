SPECIFICATION FixedTunnelSpec
CONSTANTS
  c1 = c1
  c2 = c2
  m1 = m1
  m2 = m2
  d1 = d1
  d2 = d2
  None = None
  InstanceIdModulus = 65536
  Mtu = 128
  ToiMax = 1
  Data = {c2}
  Meta = {m1, m2}
  FileId = {1, 2, 3, 4, 5}
  Desc = {d2}
  Length <- OneOrTwoSymbols
  SymbolLengthOf <- HalfSymbolLength
  MaxInstance = 5
  MaxLoops = 1
  MaxTicks = 1
  MaxInflight = 2
  FdtBase = 40
  FdtPerEntry = 20
INVARIANTS
  QueuedFileIsListed
  PickedSymbolsFit
  QueuedSymbolsAreInFlight
