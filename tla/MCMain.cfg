SPECIFICATION Spec
CONSTANTS
  NArch = 4
  WordMod = 256
  ByteMod = 128
  Files <- ElfFiles
  Arguments <- AllLists
  Paths <- MainPaths
  ElfAt <- Programs
  ExitCodes = {0, 2, 256}
  Narrow <- LowByte
  Sections = {"core", "l1i", "l2", "notes"}
  Entries <- FileEntries
  MaxSections = 2
  MaxEntries = 2
INVARIANTS
  ArgumentsInPairs
  FailureIsReported
  ReportOfThisRun
  LoadsWellFormedFiles
  GoodFilesLoad
  ImageLoaded
  LoadsWhatIsGiven
  NoSectionHalfRead
