\* avl trees
CONSTANTS
  AvlNodes = {"a", "b", "c", "d", "e", "f", "g", "h", "x", "y"}
  AvlKey <- AvlKeys
  AllowDups = TRUE
  SoughtKeys = {0, 2, 3, 9}
\* ustream
  RMin = 1
  RMax = 1
  RLen = 2
  WMin = 1
  WMax = 2
  WLen = 2
  SmallData = 1
  WriteSizes = {1, 3}
  MaxWritten = 4
  MaxArriving = 3
  PipeRoom = 1
\* vlist
  VKeys = {"k1", "k2"}
  VNodes = {"n1", "n2", "n3"}
  MaxVersion = 3
\* blobmsg
  AttrSize = 2
  MsgHdrSize = 1
  BlobAlign = 2
  GrowUnit = 6
  FieldNames <- BlobNames
  FieldData <- BlobData
  StringSizes = {1, 4}
  BlobPolicy <- BlobHandler
  BlobJson <- BlobObjects
  Int32Max = 3
  MaxOps = 3
  MaxAgain = 1
  MaxNest = 2
\* json_script
  ScriptOf <- Scripts
  ScriptVars <- ScriptVariables
  RegexPairs <- ScriptRegexes
  ScriptSeqs = 4
  FirstSeqs = {0, 2}
  MaxScriptRuns = 5
\* json_tokener
  JsonAtoms <- TokenerAtoms
  JsonBlanks <- TokenerBlanks
  JsonFragile <- TokenerFragile
  JsonValues <- TokenerValues
  JsonMaxDepth = 3
  MaxTokens = 5
\* json_object and linkhash
  JNodes = {"o1", "a1", "v1"}
  KindOf <- ObjectKinds
  MemberKeys = {"k1", "k2", "k3"}
  HashOf <- ObjectHashes
  DefHashEntries = 3
  MaxHeld = 1
  MaxItems = 2
  MaxSize = 6
\* The bounds end every behaviour.
CHECK_DEADLOCK FALSE
SPECIFICATION Spec
INVARIANTS
  AvlSound
  UstreamSound
  MessagesReadBack
  ScriptsRunRight
  TextsReadRight
  ValuesSound
PROPERTIES
  FlushLeavesAdded
