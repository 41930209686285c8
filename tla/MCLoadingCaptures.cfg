SPECIFICATION LoadSpec
CONSTANTS
  Name <- MCName
  NoName <- MCNone
  Graphs <- Capturing
  Given <- MCGiven
  Spare <- MCSpare
  Kernels = {"ConvAddRelu", "OxiInstanceNorm"}
  Commutative = {"Add", "Mul"}
  Random = {"Dropout", "RandomNormalLike"}
  Control = {"If"}
INVARIANT
  CapturesFirst
