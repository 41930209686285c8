SPECIFICATION Spec
CONSTANTS
  Lane = {l1, l2}
  Token = {t1, t2}
  Op <- MCOp
  Program <- MCProgram
  Provided <- MCProvided
  MaxBind = 2
INVARIANT TypeOK
PROPERTIES StopsAtNextNode CancelledRunEnds
