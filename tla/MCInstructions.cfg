SPECIFICATION Spec
CONSTANTS
  NArch = 32
  WordMod = 256
  WordBits = 8
  WordXor <- XorOp
  WordOr <- OrOp
  WordAnd <- AndOp
  ByteMod = 4
  WordSets <- AllWords
INVARIANTS
  DecodesItsEncoding
  RejectsTheRest
  AluIsBitwise
  ConditionsAreBitwise
