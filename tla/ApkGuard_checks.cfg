SPECIFICATION Spec
CONSTANTS
  Lengths <- MCLengths
  MaxComment = 3
  ChunkCells = 4
  MaxChunks = 8
  MaxRanges = 8
  Segments <- MCSegments
  DefenderNames <- MCDefender
  SoNames <- MCSoNames
  PayloadName = "assets/xcj_payload.bin"
  DexNames <- MCDex
  ManifestName = "META-INF/MANIFEST.MF"
  MetaNames <- MCMeta
  CodeNames <- MCCode
  LongNames <- MCLong
  Layouts <- MCLayouts
  Texts <- MCTexts
  Octets <- MCOctets
  Nodes <- MCNodes
  Content <- MCContent
  Strays <- MCStrays
  Loaded = "app"
  Storage <- MCStorage
  CrcTable <- MCCrcTable
  FileList <- MCFileList
  SignatureHash <- MCSignatureHash
  Images <- MCImages
  Inner <- MCInner
  Slots = 2
  KeyCells = 1
  Keys <- MCKeys
  Period = 2
  Horizon = 3
  MaxCalls = 5
  MaxChanges = 2
INVARIANTS NoFalseAlarm PackagesPass ChangesAreFound CodecsAgree WarningsAreSpaced
PROPERTIES RedirectIsSeen TamperIsAnswered
CHECK_DEADLOCK FALSE
