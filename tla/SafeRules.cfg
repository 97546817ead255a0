\* A safe rule whose side condition rests on the range of a maximum of NaN.
CONSTANTS
  Precision = 3
  Binades = 3
  Cases <- MCCases
SPECIFICATION Spec
INVARIANT SafeMeansExact
CHECK_DEADLOCK FALSE
