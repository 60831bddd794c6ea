SPECIFICATION OneAtATimeSpec
CONSTANTS
  c1 = c1
  c2 = c2
  c3 = c3
  c4 = c4
  c5 = c5
  m1 = m1
  m2 = m2
  None = None
  Open = Open
  Blank = Blank
  ToiMax = 2
  Data = {c2}
  Meta = {m1}
  SymbolBytes = 2
  MaxBlock = 2
  Length <- SessionLength
  Coding <- SessionCoding
  Inflatable <- SessionInflatable
  Location <- SessionLocation
  NoLocation = ""
  Bootstrap = "bootstrap.multipart"
  FdtBase = 2
  FdtPerEntry = 2
  PerPacket = 1
  MaxInstance = 2
  MaxRestarts = 1
  MaxDocs = 2
INVARIANTS
  FdtInUseWasSent
