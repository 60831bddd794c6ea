SPECIFICATION DescriptionSpec
CONSTANTS
  c1 = c1
  c2 = c2
  c3 = c3
  t1 = t1
  t2 = t2
  None = None
  Word = 65536
  HalfWord = 256
  Handle = {h1}
  NoEncoding = ""
  Encodings = {"", "gzip"}
  Buffer = {b1}
  LocalFile = {f1}
  Contents = {c1, c3}
  Size <- SizeOf
  TransferSize <- TransferSizeOf
  Details <- BothDetails
  NoDetails <- PlainDetails
  Transmitters = {t1, t2}
  FecOfTransmitter <- FecOfEach
  ToiBound = 1
  TsiOf <- TsiOfEach
  SymbolBytes = 2
  MaxBlock = 3
INVARIANTS
  DescribesWhatWasSet
  EntrySurvives
  ReaderIgnoresPrefixes
  HeaderSurvives
  BlocksArePartition
