SPECIFICATION PlainReuseSpec
CONSTANTS
  c1 = c1
  c2 = c2
  c3 = c3
  c4 = c4
  c5 = c5
  m1 = m1
  m2 = m2
  None = None
  Open = Open
  Blank = Blank
  ToiMax = 2
  Data = {c1, c2, c3, c4, c5}
  Meta = {m1, m2}
  SymbolBytes = 2
  MaxBlock = 2
  Length <- SessionLength
  Coding <- SessionCoding
  Inflatable <- SessionInflatable
  Location <- SessionLocation
  NoLocation = ""
  Bootstrap = "bootstrap.multipart"
  FdtBase = 1
  FdtPerEntry = 0
  PerPacket = 2
  MaxInstance = 2
  MaxRestarts = 1
  MaxDocs = 2
INVARIANTS
  ReceiverTypeOK
  ReceiverSurvives
  FdtInUseWasSent
  HandedOverOncePerInstance
  ListedFileIsServed
  ReceivedFileIsComplete
PROPERTIES
  FilesDelivered
