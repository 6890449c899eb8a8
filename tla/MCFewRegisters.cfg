SPECIFICATION Spec
CONSTANTS
  NArch = 4
  WordMod = 256
  WordBits = 8
  WordXor <- XorOp
  WordOr <- OrOp
  WordAnd <- AndOp
  ByteMod = 4
  NPhys = 5
  SpReg = 2
  InitSp = 128
  A0 = 1
  A7 = 3
  ExitCall = 0
  RobEntries = 4
  IssueQueueEntries = 3
  IssueWidth = 2
  AluUnits = 1
  BranchUnits = 1
  LoadStoreUnits = 1
  AluLatency = 1
  BranchLatency = 1
  LoadStoreBaseLatency = 1
  FetchWidth = 2
  MaxQueue = 3
  RenameWidth = 2
  CommitWidth = 2
  EntryPc = 0
  FetchLatencies = {1}
  DataLatencies = {1, 3}
  AluOp <- AluValue
  BranchTaken <- Condition
  Programs <- TwoResults
PROPERTIES
  Termination
