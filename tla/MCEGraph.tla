------------------------------- MODULE MCEGraph -------------------------------
\* Values for the model checker: a sign, which neg turns and mul multiplies.
EXTENDS EGraphOnTrees

MCEnv == [v \in Var |-> "+1"]

MCEval(op, args) ==
  IF op = "neg"
  THEN IF args[1] = "+1" THEN "-1" ELSE "+1"
  ELSE IF args[1] = args[2] THEN "+1" ELSE "-1"
===============================================================================
