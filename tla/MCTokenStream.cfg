SPECIFICATION Spec
CONSTANTS
  Token <- MCToken
  Configs <- MCConfigs
  Greedy <- MCGreedy
INVARIANTS TypeOK CacheOneBehind
PROPERTIES DecodesGreedily StreamEnds
CHECK_DEADLOCK FALSE
