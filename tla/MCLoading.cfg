SPECIFICATION LoadSpec
CONSTANTS
  Name <- MCName
  NoName <- MCNone
  Graphs <- MCGraphs
  Given <- MCGiven
  Spare <- MCSpare
  Kernels = {"ConvAddRelu", "OxiInstanceNorm"}
  Commutative = {"Add", "Mul"}
  Random = {"Dropout", "RandomNormalLike"}
  Control = {"If"}
INVARIANTS
  TypesOK
  PassesSound
  OrderSound
  AnswersAsFiled
  LoadEnds
