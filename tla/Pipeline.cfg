\* Every rule, and the texts and bundles of MCPipeline, through every stage.
CONSTANTS
  Precision = 3
  Binades = 3
  Cases <- MCCases
SPECIFICATION Spec
INVARIANTS
  RewritesPreserve
  RealRulesHold
  RangesHold
  FactsMean
  ProgramAgrees
  EmittedAgrees
  PrintReadsBack
CHECK_DEADLOCK FALSE
