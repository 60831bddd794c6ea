SPECIFICATION RefillSpec
CONSTANTS
  c1 = c1
  c2 = c2
  c3 = c3
  t1 = t1
  t2 = t2
  None = None
  Word = 65536
  Handle = {h1}
  NoEncoding = ""
  Encodings = {"", "gzip"}
  Buffer = {b1, b2}
  LocalFile = {f1}
  Contents = {c1, c2}
  Size <- SizeOf
  TransferSize <- TransferSizeOf
  Details <- OneDetails
  NoDetails <- PlainDetails
  Transmitters = {t1, t2}
  FecOfTransmitter <- FecOfEach
  ToiBound = 2
INVARIANTS
  DescribesWhatWasSet
