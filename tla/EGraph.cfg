SPECIFICATION TSpec
CONSTANTS
  Var = {"x"}
  Number = {"+1", "-1"}
  Literal = {"-1"}
  Unary = {}
  Commutative = {"mul"}
  None = None
  Env <- MCEnv
  Eval <- MCEval
  CallerIds = 4
  FuelPerClass = 1
  FuelFloor = 0
  MaxRounds = 1
INVARIANTS
  CongruenceRestored
  FactsAreSound
  TreesAgree
PROPERTY
  RebuildEnds
