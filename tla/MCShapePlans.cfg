SPECIFICATION Spec
CONSTANTS
  Caller = {c1, c2}
  Binder = c1
  Inputs = {"x", "o"}
  Infos <- MCInfos
  Weights <- MCWeights
  Nodes <- MCNodes
  Outputs = {"t", "u"}
  Feeds <- MCFeeds
  Buffers <- MCBuffers
  MaxPlans = 2
INVARIANTS
  TypeOK
  PlanOfItsInputs
  CacheExact
  BindingAnswers
