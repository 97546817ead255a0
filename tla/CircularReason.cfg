CHECK_DEADLOCK FALSE
SPECIFICATION ESpec
CONSTANTS
  Var = {"x", "y", "z"}
  Number = {"+1"}
  Literal = {}
  Unary = {}
  Commutative = {"mul"}
  None = None
  Env <- MCEnv
  Eval <- MCEval
  CallerIds = 6
  FuelPerClass = 1
  FuelFloor = 0
  MaxRounds = 1
  MaxDepth = 6
  Holes <- MCHoles
  Problems <- MCProblems
  MaxShift = 16
INVARIANTS
  ArgumentsAreExplained
