SPECIFICATION RSpec
CONSTANTS
  Var = {"x", "y"}
  Number = {"+1", "-1"}
  Literal = {"+1", "-1"}
  Unary = {"neg"}
  Commutative = {"mul"}
  None = None
  Env <- MCEnv
  Eval <- MCEval
  CallerIds = 60
  FuelPerClass = 32
  FuelFloor = 1024
  MaxRounds = 100
  Holes <- MCHoles
  Problems <- MCProblems
  MaxShift = 16
  Price <- MCPrice
  Models = {"tree", "depth"}
  DagRounds = 6
  MaxDepth = 6
INVARIANTS
  MatchesAreMeant
  ClassesHoldOneValue
  SaturatedIsClosed
  StaysNearTheLimit
  ExtractionIsCheapest
  SharingNeverCosts
  EqualIsExplained
PROPERTY
  RunEnds
