SPECIFICATION PacedSpec
CONSTANTS
  c1 = c1
  c2 = c2
  m1 = m1
  m2 = m2
  d1 = d1
  d2 = d2
  None = None
  InstanceIdModulus = 65536
  Mtu = 128
  ToiMax = 2
  Data = {c2}
  Meta = {m1}
  FileId = {1, 2, 3, 4, 5, 6}
  Desc = {}
  Length <- OneOrTwoSymbols
  SymbolLengthOf <- DefaultSymbolLength
  MaxInstance = 4
  MaxLoops = 2
  MaxTicks = 1
  MaxInflight = 2
  FdtBase = 40
  FdtPerEntry = 20
INVARIANTS
  SingleSendLoop
PROPERTIES
  PacketsArePaced
