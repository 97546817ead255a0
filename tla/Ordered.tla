-------------------------------- MODULE Ordered --------------------------------
\* Finite sets laid out in a given order, which must be total and strict.
EXTENDS Naturals, FiniteSets

InOrderOf(S, Before(_, _)) ==
  [k \in 1 .. Cardinality(S) |->
     CHOOSE x \in S : Cardinality({y \in S : y # x /\ Before(y, x)}) = k - 1]

Increasing(S) == InOrderOf(S, LAMBDA i, j : i < j)

LexBefore(s, t) ==
  \E k \in DOMAIN s : s[k] < t[k] /\ \A j \in 1 .. k - 1 : s[j] = t[j]
===============================================================================
