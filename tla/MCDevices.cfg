SPECIFICATION Spec
CONSTANTS
  t1 = t1
  t2 = t2
  t3 = t3
  ti = ti
  tm = tm
  ta = ta
  tb = tb
  n1 = n1
  n2 = n2
  n3 = n3
  d1 = d1
  d2 = d2
  p1 = p1
  p2 = p2
  p3 = p3
  s1 = s1
  AdcThread = {t1, t2}
  Pin = {p1, p2}
  NoPin = NoPin
  AdcFast = FALSE
  Reader = {t1, t2}
  Nobody = Nobody
  NoByte = NoByte
  Bytes = 4
  ReadSizes = {1, 2}
  SerFast = FALSE
  SerShared = FALSE
  Task = {t1, t2, t3}
  Named = {f1}
  Modes <- BothModes
  NoFile = NoFile
  MaxOpen = 5
  FileShared = FALSE
  Freq <- Frequencies
  FCpu = 256
  EplNode = {n1, n2, n3, n4}
  NoNode = NoNode
  XorNode = {n1, n2, n3, n4}
  NULL = NULL
  DefaultLimit = 2
  MasterMsg = {m1, m2, m3}
  SlaveMsg = {s1, s2, s3}
  RegDevice = {n1, n2, n3}
  RegName <- DeviceNames
  NoDevice = NoDevice
  ListNode = {n1, n2, n3}
  NoListNode = NoListNode
  ListMiddle = FALSE
  NetDev = {d1, d2}
  NetName <- NetNames
  Mtu <- Mtus
  Packet = {p1, p2, p3}
  PacketDev <- DevOfPacket
  Segments <- Chains
  Length <- Lengths
  NoPacket = NoPacket
  TokenMax = 3
  Cashes <- Amounts
  CtxThread = {ti, tm, ta, tb}
  Idle = ti
  Main = tm
  Boot = boot
  CtxPrio <- Priorities
  NoThread = NoThread
  Zero = Zero
  NumWidth = 7
  ArgWidth = 4
  MemSize = 13
  LibFCpu = 16000000
  Bauds = {300, 1200, 2400}
  Rates = {2000, 5000, 10000, 30000, 30418, 50000, 100000, 400000}
  Texts <- PrintedTexts
  StreamModes <- AllModes
  MaxChars = 3
  MemThread = {t1, t2}
  NoOne = NoOne
  Address = {1, 256}
  MemByte = {0, 1}
  RamShared = FALSE
  BoardPin = {0, 8, 9}
  Tops = {0, 100}
INVARIANTS DevicesTypeOK ResumesOwn Computed PaidInOrder OwnSample ReadsFirst OwnStream OneOwner MastersFirst DriversKeep
PROPERTIES ConvertReturns ReadReturns ListsImplement
