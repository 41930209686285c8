SPECIFICATION Spec
CONSTANTS
  User = {u1, u2, u3}
  Nobody = Nobody
INVARIANTS
  TypeOK
  InFlightExact
  ContextsOwned
  ExitGuarded
PROPERTY
  NobodyHangs
CHECK_DEADLOCK FALSE
