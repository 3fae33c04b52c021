SPECIFICATION Spec
CONSTANTS
  HashKeys = {"a", "b", "c"}
  HashVals = {"v", "w"}
  HashPrimes = {1, 2, 3}
  HashNull = "NULL"
  HashOf <- MCHashOf
  TableNames = {"a", "b", "c", "d", "e"}
  NameHash <- MCNameHash
  InitSize = 2
  FreeSlot = "-"
  Letters = {"a", "&", "<", "'", ">"}
  Octets = {0, 77, 170, 255}
  MaxText = 5
  MaxOctets = 5
  MaxAdds = 3
  NoPart = NoPart
  Characters = {"a", "b", "A", "B", "-", ".", " ", ":", "@", "<", "&", "/", "=", "?"}
  Written <- MCWritten
  Portions <- MCPortions
  MaxServer = 2
  MaxUser = 2
  MaxListed = 2
  Without = Without
  DbUsers = {u, s}
  DbResources = {r, q}
  SlashedUsers = {s}
  Priorities <- MCPriorities
  MaxEntries = 3
  NoAttr = NoAttr
  Addressees = {"u", "v", "bad"}
  BadAddressees = {"bad"}
  Keybuf = 2
  RandomKeys = {"k", "l"}
  Seeds = {"s", "t"}
  MaxIssued = 4
  MaxInner = 3
  HeapSizes = {0, 12, 24}
  Requests = {0, 1, 2, 4, 5, 7}
  MaxBlocks = 4
  MaxCleaners = 2
  TagNames = {"a", "b"}
  AttrNames = {"x"}
  AttrValues = {1}
  MaxNodes = 4
  MaxAttrs = 1
  MaxDepth = 3
  MaxNodeSize = 3
  MaxPiece = 2
  MaxTokens = 9
  MaxErrors = 2
  Bufsiz = 2
  Documents <- MCDocuments
  Saved <- MCSaved
  Alphabets <- MCAlphabets
  FirstGroups = 2
  MaxDecl = 10
  MaxDeclared = 9
  Scanned <- MCScanned
  MaxScan = 5
INVARIANTS
  TextsConverted
  StanzasUnderstood
  PoolSound
  DocumentsDelivered
PROPERTIES
  TablesAreMaps
  AddressesAgree
  TreesAgree
  XmlAsWritten
CHECK_DEADLOCK FALSE
