SPECIFICATION LoadSpec
CONSTANTS
  Name <- MCName
  NoName <- MCNone
  Graphs <- Chained
  Given <- MCGiven
  Spare <- MCSpare
  Kernels = {"ConvAddRelu", "OxiInstanceNorm"}
  Commutative = {"Add", "Mul"}
  Random = {"Dropout", "RandomNormalLike"}
  Control = {"If"}
INVARIANT
  ConsumersRepointed
