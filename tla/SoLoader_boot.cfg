SPECIFICATION LoaderSpec
CONSTANTS
  Libs <- MCLibs
  PageSize = 2
  MaxSymbols = 8
  Default <- MCDefault
  SysLibs <- MCSysLibs
  Masked <- MCMasked
  Pad <- MCPad
  BufMax = 7
  Apks <- MCApks
  Objects <- MCObjects
  Inners <- MCInners
  InnerInit = 3
INVARIANTS ImagesAreSound PlainIsWiped PackedIsFound StringsComeBack
PROPERTIES CallsLand Ends
