---------------------------- MODULE Pattern_proofs ----------------------------
(***************************************************************************)
(* What is proved of patterns, for any operators, any graph and any limits: *)
(* what is matched is what the pattern means, and what is instantiated is    *)
(* worth what the pattern is.                                               *)
(***************************************************************************)
EXTENDS Pattern, EGraph_proofs

----------------------------------------------------------------------------
(* Recursion.  A recursive function is one that satisfies its equation, if   *)
(* there is such a one.                                                     *)

\* Going on from x, step by step.
Steps(F, n, S, x) == n \in Nat /\ x \in S /\ F \in [1 .. n -> [S -> S]]

Walks(h, F, n, S, x) ==
  h \in [0 .. n -> S] /\ h[0] = x /\ \A i \in 1 .. n : h[i] = F[i][h[i - 1]]

LEMMA WalkExists ==
  ASSUME NEW F, NEW n, NEW S, NEW x, Steps(F, n, S, x)
  PROVE  \E h : Walks(h, F, n, S, x)
  <1> DEFINE Goes(h, m) == h[0] = x /\ \A i \in 1 .. m : h[i] = F[i][h[i - 1]]
             P == {m \in 0 .. n : \E h \in [0 .. m -> S] : Goes(h, m)}
  <1>0. n \in Nat /\ x \in S /\ F \in [1 .. n -> [S -> S]]
    BY DEF Steps
  <1>1. 0 \in P
    <2>1. [i \in 0 .. 0 |-> x] \in [0 .. 0 -> S] /\ Goes([i \in 0 .. 0 |-> x], 0)
      BY <1>0
    <2>2. \E h \in [0 .. 0 -> S] : Goes(h, 0)
      BY <2>1
    <2> HIDE DEF Goes
    <2> QED
      BY <1>0, <2>2
  <1>2. ASSUME NEW m \in 0 .. n - 1, m \in P PROVE m + 1 \in P
    <2>1. PICK h \in [0 .. m -> S] : Goes(h, m)
      BY <1>2
    <2> DEFINE j == [i \in 0 .. m + 1 |-> IF i <= m THEN h[i] ELSE F[m + 1][h[m]]]
    <2>2. F[m + 1] \in [S -> S] /\ h[m] \in S
      BY <1>0, <1>2
    <2>3. j \in [0 .. m + 1 -> S]
      BY <1>0, <2>1, <2>2
    <2>4. \A i \in 1 .. m : j[i] = h[i] /\ j[i - 1] = h[i - 1]
      OBVIOUS
    <2>5. j[m + 1] = F[m + 1][h[m]] /\ j[m] = h[m] /\ j[0] = h[0]
      OBVIOUS
    <2>6. Goes(j, m + 1)
      <3> HIDE DEF j
      <3>1. \A i \in 1 .. m + 1 : j[i] = F[i][j[i - 1]]
        <4> TAKE i \in 1 .. m + 1
        <4>1. CASE i \in 1 .. m
          BY <2>1, <2>4, <4>1
        <4>2. CASE i = m + 1
          BY <2>5, <4>2
        <4> QED
          BY <1>0, <4>1, <4>2
      <3> QED
        BY <2>1, <2>5, <3>1
    <2> HIDE DEF j, Goes
    <2> QED
      BY <1>0, <2>3, <2>6
  <1> HIDE DEF P
  <1>3. \A m \in 0 .. n - 1 : m \in P => m + 1 \in P
    BY <1>2
  <1>4. \A m \in 0 .. n : m \in P
    BY <1>0, <1>1, <1>3, CountingUp
  <1>5. n \in P
    BY <1>0, <1>4
  <1> QED
    BY <1>5 DEF P, Walks

\* Going on from what lies below.
Local(F, n, S) ==
  \A k \in 1 .. n : \A f, h \in [1 .. n -> S] :
    (\A j \in 1 .. k - 1 : f[j] = h[j]) => F[k][f] = F[k][h]

Recursion(F, n, S) ==
  /\ n \in Nat /\ S # {} /\ F \in [1 .. n -> [[1 .. n -> S] -> S]]
  /\ Local(F, n, S)

Solves(h, F, n, S) == h \in [1 .. n -> S] /\ \A k \in 1 .. n : h[k] = F[k][h]

LEMMA RecursionExists ==
  ASSUME NEW n, NEW S, NEW F, Recursion(F, n, S)
  PROVE  \E h : Solves(h, F, n, S)
  <1> DEFINE Goes(h, m) == \A k \in 1 .. m : h[k] = F[k][h]
             P == {m \in 0 .. n : \E h \in [1 .. n -> S] : Goes(h, m)}
  <1>0. n \in Nat /\ S # {} /\ F \in [1 .. n -> [[1 .. n -> S] -> S]] /\ Local(F, n, S)
    BY DEF Recursion
  <1>1. 0 \in P
    <2>1. PICK x \in S : TRUE
      BY <1>0
    <2>2. [i \in 1 .. n |-> x] \in [1 .. n -> S] /\ Goes([i \in 1 .. n |-> x], 0)
      BY <2>1
    <2>3. \E h \in [1 .. n -> S] : Goes(h, 0)
      BY <2>2
    <2> HIDE DEF Goes
    <2> QED
      BY <1>0, <2>3
  <1>2. ASSUME NEW m \in 0 .. n - 1, m \in P PROVE m + 1 \in P
    <2>1. PICK h \in [1 .. n -> S] : Goes(h, m)
      BY <1>2
    <2> DEFINE j == [h EXCEPT ![m + 1] = F[m + 1][h]]
    <2>2. F[m + 1][h] \in S
      BY <1>0, <1>2, <2>1
    <2>3. j \in [1 .. n -> S]
      BY <1>0, <2>1, <2>2
    <2>4. \A k \in 1 .. m : j[k] = h[k]
      BY <1>0, <2>1
    <2>5. j[m + 1] = F[m + 1][h]
      BY <1>0, <2>1
    <2> HIDE DEF j
    <2>6. \A k \in 1 .. m + 1 : F[k][j] = F[k][h]
      <3> TAKE k \in 1 .. m + 1
      <3>1. k \in 1 .. n /\ \A i \in 1 .. k - 1 : i \in 1 .. m
        BY <1>0
      <3>2. \A i \in 1 .. k - 1 : j[i] = h[i]
        BY <2>4, <3>1
      <3> QED
        BY <1>0, <2>1, <2>3, <3>1, <3>2 DEF Local
    <2>7. Goes(j, m + 1)
      BY <1>0, <2>1, <2>4, <2>5, <2>6
    <2> HIDE DEF Goes
    <2> QED
      BY <1>0, <2>3, <2>7
  <1> HIDE DEF P
  <1>3. \A m \in 0 .. n - 1 : m \in P => m + 1 \in P
    BY <1>2
  <1>4. \A m \in 0 .. n : m \in P
    BY <1>0, <1>1, <1>3, CountingUp
  <1>5. n \in P
    BY <1>0, <1>4
  <1> QED
    BY <1>5 DEF P, Solves

----------------------------------------------------------------------------
(* The shape of a pattern.                                                  *)

LEMMA PatternShape ==
  ASSUME NEW p, IsPattern(p), NEW k \in DOMAIN p
  PROVE  /\ k \in Nat \ {0} /\ p[k] = [op |-> p[k].op, kids |-> p[k].kids]
         /\ \/ p[k].op \in Hole /\ p[k].kids = <<>>
            \/ p[k].op \in Var \cup Number /\ p[k].op \notin Hole /\ p[k].kids = <<>>
            \/ /\ p[k].op \in Unary /\ p[k].op \notin Hole \cup Var \cup Number \cup Commutative
               /\ \E i \in 1 .. k - 1 : p[k].kids = <<i>>
            \/ /\ p[k].op \in Commutative /\ p[k].op \notin Hole \cup Var \cup Number \cup Unary
               /\ \E i, j \in 1 .. k - 1 : p[k].kids = <<i, j>>
  <1>1. k \in Nat \ {0} /\ p[k] \in PatternNode(k)
    BY DEF IsPattern
  <1>2. p[k] = [op |-> p[k].op, kids |-> p[k].kids]
    BY <1>1 DEF PatternNode
  <1>3. \/ p[k].op \in Hole \cup Var \cup Number /\ p[k].kids = <<>>
        \/ p[k].op \in Unary /\ \E i \in 1 .. k - 1 : p[k].kids = <<i>>
        \/ p[k].op \in Commutative /\ \E i, j \in 1 .. k - 1 : p[k].kids = <<i, j>>
    BY <1>1 DEF PatternNode
  <1> QED
    BY <1>1, <1>2, <1>3, HolesAreNoOperators, OperatorsDiffer

\* A node's arguments come before it.
LEMMA KidsAreBelow ==
  ASSUME NEW p, IsPattern(p), NEW k \in DOMAIN p
  PROVE  /\ DOMAIN p[k].kids \in SUBSET {1, 2}
         /\ \A j \in DOMAIN p[k].kids : p[k].kids[j] \in 1 .. k - 1 /\ p[k].kids[j] \in DOMAIN p
  <1>1. k \in Nat \ {0} /\ DOMAIN p = 1 .. Len(p) /\ Len(p) \in Nat /\ k <= Len(p)
    BY DEF IsPattern
  <1>2. CASE p[k].kids = <<>>
    BY <1>2
  <1>3. ASSUME NEW i \in 1 .. k - 1, p[k].kids = <<i>>
        PROVE  /\ DOMAIN p[k].kids \in SUBSET {1, 2}
               /\ \A j \in DOMAIN p[k].kids : p[k].kids[j] \in 1 .. k - 1
    BY <1>3
  <1>4. ASSUME NEW i \in 1 .. k - 1, NEW j \in 1 .. k - 1, p[k].kids = <<i, j>>
        PROVE  /\ DOMAIN p[k].kids \in SUBSET {1, 2}
               /\ \A d \in DOMAIN p[k].kids : p[k].kids[d] \in 1 .. k - 1
    BY <1>4
  <1>5. /\ DOMAIN p[k].kids \in SUBSET {1, 2}
        /\ \A j \in DOMAIN p[k].kids : p[k].kids[j] \in 1 .. k - 1
    BY <1>2, <1>3, <1>4, PatternShape
  <1> QED
    BY <1>1, <1>5

\* The nodes a node is made of, and the holes among them.
ClosedBelow(p, C) == \A k \in C : \A j \in DOMAIN p[k].kids : p[k].kids[j] \in C

Reach(p, k) ==
  {j \in DOMAIN p : \A C \in SUBSET DOMAIN p : k \in C /\ ClosedBelow(p, C) => j \in C}

HolesUnder(p, k) == {p[j].op : j \in Reach(p, k)} \cap Hole

LEMMA ReachIsClosed ==
  ASSUME NEW p, IsPattern(p), NEW k \in DOMAIN p
  PROVE  k \in Reach(p, k) /\ ClosedBelow(p, Reach(p, k)) /\ Reach(p, k) \in SUBSET DOMAIN p
  <1>1. ASSUME NEW i \in Reach(p, k), NEW j \in DOMAIN p[i].kids
        PROVE  p[i].kids[j] \in Reach(p, k)
    <2>1. i \in DOMAIN p /\ p[i].kids[j] \in DOMAIN p
      BY KidsAreBelow DEF Reach
    <2> QED
      BY <1>1, <2>1 DEF Reach, ClosedBelow
  <1> QED
    BY <1>1 DEF ClosedBelow, Reach

LEMMA ReachParts ==
  ASSUME NEW p, IsPattern(p), NEW k \in DOMAIN p
  PROVE  Reach(p, k) = {k} \cup UNION {Reach(p, p[k].kids[j]) : j \in DOMAIN p[k].kids}
  <1> DEFINE parts == {k} \cup UNION {Reach(p, p[k].kids[j]) : j \in DOMAIN p[k].kids}
  <1>1. ASSUME NEW j \in DOMAIN p[k].kids
        PROVE  /\ p[k].kids[j] \in Reach(p, p[k].kids[j])
               /\ ClosedBelow(p, Reach(p, p[k].kids[j]))
               /\ Reach(p, p[k].kids[j]) \subseteq DOMAIN p
    BY KidsAreBelow, ReachIsClosed
  <1>2. parts \in SUBSET DOMAIN p /\ k \in parts
    BY <1>1
  <1>3. ClosedBelow(p, parts)
    <2>1. ASSUME NEW i \in parts, NEW j \in DOMAIN p[i].kids PROVE p[i].kids[j] \in parts
      <3>1. CASE i = k
        BY <1>1, <3>1
      <3>2. CASE i # k
        BY <1>1, <3>2 DEF ClosedBelow
      <3> QED
        BY <3>1, <3>2
    <2> QED
      BY <2>1 DEF ClosedBelow
  <1>4. Reach(p, k) \subseteq parts
    <2> HIDE DEF parts
    <2> QED
      BY <1>2, <1>3 DEF Reach
  <1>5. ASSUME NEW j \in DOMAIN p[k].kids, NEW i \in Reach(p, p[k].kids[j])
        PROVE  i \in Reach(p, k)
    BY KidsAreBelow, ReachIsClosed DEF ClosedBelow, Reach
  <1> QED
    BY <1>4, <1>5, ReachIsClosed

LEMMA HolesParts ==
  ASSUME NEW p, IsPattern(p), NEW k \in DOMAIN p
  PROVE  /\ IsHole(p, k) => HolesUnder(p, k) = {p[k].op} /\ p[k].op \in Hole
         /\ ~ IsHole(p, k) =>
              HolesUnder(p, k) = UNION {HolesUnder(p, p[k].kids[j]) : j \in DOMAIN p[k].kids}
         /\ HolesUnder(p, k) \in SUBSET Hole
  <1>1. CASE IsHole(p, k)
    <2>1. p[k].kids = <<>>
      BY <1>1, PatternShape DEF IsHole
    <2>2. Reach(p, k) = {k}
      BY <2>1, ReachParts
    <2> QED
      BY <1>1, <2>2 DEF HolesUnder, IsHole
  <1>2. CASE ~ IsHole(p, k)
    <2>1. \A h : h \in HolesUnder(p, k) <=> h \in Hole /\ \E j \in Reach(p, k) : p[j].op = h
      BY DEF HolesUnder
    <2>2. \A h : h \in HolesUnder(p, k) <=>
            \E j \in DOMAIN p[k].kids : h \in HolesUnder(p, p[k].kids[j])
      BY <1>2, ReachParts DEF HolesUnder, IsHole
    <2> QED
      BY <1>2, <2>2 DEF HolesUnder
  <1> QED
    BY <1>1, <1>2

\* Every node is reached from the root.
LEMMA RootReaches ==
  ASSUME NEW p, IsPattern(p)
  PROVE  /\ Len(p) \in DOMAIN p /\ Reach(p, Len(p)) = DOMAIN p
         /\ HolesUnder(p, Len(p)) = HolesOf(p)
  <1> DEFINE n == Len(p)
             R == Reach(p, n)
             P == {m \in 0 .. n : \A k \in 1 .. n : k >= n - m => k \in R}
  <1>1. n \in Nat \ {0} /\ DOMAIN p = 1 .. n /\ n \in DOMAIN p
    BY DEF IsPattern
  <1>2. n \in R /\ ClosedBelow(p, R) /\ R \in SUBSET DOMAIN p
    BY <1>1, ReachIsClosed
  <1>3. 0 \in P
    <2> HIDE DEF n, R
    <2> QED
      BY <1>1, <1>2
  <1>4. ASSUME NEW m \in 0 .. n - 1, m \in P PROVE m + 1 \in P
    <2> SUFFICES ASSUME NEW k \in 1 .. n, k >= n - (m + 1) PROVE k \in R
      BY <1>1, <1>4
    <2>1. CASE k >= n - m
      BY <1>4, <2>1
    <2>2. CASE k < n - m
      <3>1. k \in 1 .. n - 1 /\ k = n - (m + 1)
        <4> HIDE DEF n, P
        <4> QED
          BY <1>1, <2>2
      <3>2. PICK j \in DOMAIN p : k \in ToSet(p[j].kids)
        BY <3>1 DEF IsPattern
      <3>3. PICK i \in DOMAIN p[j].kids : p[j].kids[i] = k
        BY <3>2 DEF ToSet
      <3>4. k < j /\ j \in 1 .. n
        BY <1>1, <3>3, KidsAreBelow
      <3>5. j \in R
        BY <1>1, <1>4, <3>1, <3>4
      <3> QED
        BY <1>2, <3>3, <3>5 DEF ClosedBelow
    <2> QED
      BY <1>1, <1>4, <2>1, <2>2
  <1> HIDE DEF P, R, n
  <1>5. \A m \in 0 .. n - 1 : m \in P => m + 1 \in P
    BY <1>4
  <1>6. \A m \in 0 .. n : m \in P
    BY <1>1, <1>3, <1>5, CountingUp
  <1>7. n \in P
    BY <1>1, <1>6
  <1>8. R = DOMAIN p
    <2>1. \A k \in 1 .. n : k >= n - n => k \in R
      BY <1>7 DEF P
    <2>2. \A k \in 1 .. n : k >= n - n
      BY <1>1
    <2> QED
      BY <1>1, <1>2, <2>1, <2>2
  <1> QED
    BY <1>1, <1>8 DEF R, n, HolesUnder, HolesOf

----------------------------------------------------------------------------
(* What a pattern denotes.                                                  *)

\* The classes that have a term of one node, given those of the nodes below.
TermsAt(g, p, s, terms, k) ==
  IF IsHole(p, k) THEN {s[p[k].op]}
  ELSE {c \in Classes(g) : \E n \in g.nodes[c] :
          /\ n.op = p[k].op
          /\ \E order \in {<<1, 2>>, <<2, 1>>} :
               /\ order = <<1, 2>> \/ n.op \in Commutative
               /\ \A j \in DOMAIN p[k].kids :
                    Find(g, n.kids[order[j]]) \in terms[p[k].kids[j]]}

LEMMA DenotedGoes ==
  ASSUME NEW g \in Graph, NEW p, IsPattern(p), NEW s
  PROVE  /\ DOMAIN Denoted(g, p, s) = DOMAIN p
         /\ \A k \in DOMAIN p : Denoted(g, p, s)[k] = TermsAt(g, p, s, Denoted(g, p, s), k)
  <1> DEFINE n == Len(p)
             S == SUBSET (Id \cup {s[h] : h \in Hole})
             F == [k \in 1 .. n |-> [f \in [1 .. n -> S] |-> TermsAt(g, p, s, f, k)]]
             Good(f) == f = [k \in DOMAIN p |-> TermsAt(g, p, s, f, k)]
  <1>1. n \in Nat /\ DOMAIN p = 1 .. n
    BY DEF IsPattern
  <1>2. Classes(g) \subseteq Id
    BY MadeIds DEF Classes
  <1>3. ASSUME NEW k \in 1 .. n, NEW f PROVE TermsAt(g, p, s, f, k) \in S
    BY <1>2 DEF TermsAt, IsHole
  <1>4. F \in [1 .. n -> [[1 .. n -> S] -> S]]
    <2> HIDE DEF S
    <2> QED
      BY <1>3
  <1>5. Local(F, n, S)
    <2> SUFFICES ASSUME NEW k \in 1 .. n, NEW f \in [1 .. n -> S], NEW h \in [1 .. n -> S],
                        \A j \in 1 .. k - 1 : f[j] = h[j]
                 PROVE  F[k][f] = F[k][h]
      <3> HIDE DEF F, n, S
      <3> QED
        BY DEF Local
    <2>1. \A j \in DOMAIN p[k].kids : f[p[k].kids[j]] = h[p[k].kids[j]]
      BY <1>1, KidsAreBelow
    <2>2. TermsAt(g, p, s, f, k) = TermsAt(g, p, s, h, k)
      BY <2>1 DEF TermsAt
    <2> HIDE DEF n, S
    <2> QED
      BY <2>2
  <1>6. PICK f : Solves(f, F, n, S)
    <2>1. Recursion(F, n, S)
      <3>1. S # {}
        BY {} \in S
      <3> HIDE DEF n, S, F
      <3> QED
        BY <1>1, <1>4, <1>5, <3>1 DEF Recursion
    <2> HIDE DEF n, S, F
    <2> QED
      BY <2>1, RecursionExists
  <1>7. Good(f)
    <2>1. \A k \in 1 .. n : F[k][f] = TermsAt(g, p, s, f, k)
      <3> HIDE DEF n, S
      <3> QED
        BY <1>6 DEF Solves
    <2>2. f = [k \in 1 .. n |-> TermsAt(g, p, s, f, k)]
      <3> HIDE DEF n, S, F
      <3> QED
        BY <1>6, <2>1 DEF Solves
    <2> QED
      BY <1>1, <2>2
  <1>8. Denoted(g, p, s) = CHOOSE h : Good(h)
    BY DEF Denoted, TermsAt
  <1>9. Good(Denoted(g, p, s))
    <2> HIDE DEF Good
    <2> QED
      BY <1>7, <1>8
  <1> QED
    BY <1>9

\* The arguments of a node, in the orders in which it may be read.
ArgsOf(n) == IF Turns(n) THEN {n.kids, <<n.kids[2], n.kids[1]>>} ELSE {n.kids}

FitsArgs(g, p, s, k, args) ==
  \A j \in DOMAIN p[k].kids : Find(g, args[j]) \in Denoted(g, p, s)[p[k].kids[j]]

LEMMA DenotedArgs ==
  ASSUME NEW g \in Graph, NEW p, IsPattern(p), NEW s, NEW k \in DOMAIN p
  PROVE  /\ IsHole(p, k) => Denoted(g, p, s)[k] = {s[p[k].op]}
         /\ ~ IsHole(p, k) => \A c : c \in Denoted(g, p, s)[k] <=>
              /\ c \in Classes(g)
              /\ \E n \in g.nodes[c] :
                   n.op = p[k].op /\ \E args \in ArgsOf(n) : FitsArgs(g, p, s, k, args)
  <1>1. Denoted(g, p, s)[k] = TermsAt(g, p, s, Denoted(g, p, s), k)
    BY DenotedGoes
  <1>2. IsHole(p, k) => Denoted(g, p, s)[k] = {s[p[k].op]}
    BY <1>1 DEF TermsAt
  <1> DEFINE Reads(n, order) == \A j \in DOMAIN p[k].kids :
               Find(g, n.kids[order[j]]) \in Denoted(g, p, s)[p[k].kids[j]]
             Read(n) == \E order \in {<<1, 2>>, <<2, 1>>} :
               (order = <<1, 2>> \/ n.op \in Commutative) /\ Reads(n, order)
             Args(n) == \E args \in ArgsOf(n) : FitsArgs(g, p, s, k, args)
  <1>3. ASSUME NEW n \in Node, n.op = p[k].op, ~ IsHole(p, k)
        PROVE  Read(n) <=> Args(n)
    <2>1. DOMAIN p[k].kids \in SUBSET {1, 2}
      BY KidsAreBelow
    <2>2. Reads(n, <<1, 2>>) <=> FitsArgs(g, p, s, k, n.kids)
      BY <2>1 DEF FitsArgs
    <2>3. n.op \notin Commutative => ArgsOf(n) = {n.kids}
      BY DEF ArgsOf, Turns
    <2>4. Reads(n, <<2, 1>>) <=> FitsArgs(g, p, s, k, <<n.kids[2], n.kids[1]>>)
      BY <2>1 DEF FitsArgs
    <2>5. n.op \in Commutative /\ ~ Turns(n) => <<n.kids[2], n.kids[1]>> = n.kids
      <3> SUFFICES ASSUME n.op \in Commutative, ~ Turns(n)
                   PROVE  <<n.kids[2], n.kids[1]>> = n.kids
        OBVIOUS
      <3>1. PICK i \in Id, j \in Id : n.kids = <<i, j>>
        BY NodeShape, OperatorsDiffer, HolesAreNoOperators
      <3> QED
        BY <3>1 DEF Turns
    <2>6. Turns(n) => n.op \in Commutative
      BY DEF Turns
    <2>7. Read(n) <=> \/ Reads(n, <<1, 2>>)
                      \/ n.op \in Commutative /\ Reads(n, <<2, 1>>)
      <3> HIDE DEF Reads
      <3> QED
        OBVIOUS
    <2> HIDE DEF Read, Reads
    <2> QED
      BY <2>2, <2>3, <2>4, <2>5, <2>6, <2>7 DEF ArgsOf
  <1>4. ASSUME ~ IsHole(p, k), NEW c
        PROVE  c \in Denoted(g, p, s)[k] <=>
                 c \in Classes(g) /\ \E n \in g.nodes[c] : n.op = p[k].op /\ Args(n)
    <2>1. c \in Denoted(g, p, s)[k] <=>
            c \in Classes(g) /\ \E n \in g.nodes[c] : n.op = p[k].op /\ Read(n)
      BY <1>1, <1>4 DEF TermsAt
    <2>2. c \in Classes(g) => g.nodes[c] \subseteq Node
      BY MadeIds DEF Classes, Graph
    <2> HIDE DEF Read, Args
    <2> QED
      BY <1>3, <1>4, <2>1, <2>2
  <1> QED
    BY <1>2, <1>4

\* Only the holes below a node matter for what it denotes.
LEMMA DenotedIsLocal ==
  ASSUME NEW g \in Graph, NEW p, IsPattern(p), NEW s, NEW t
  PROVE  \A k \in DOMAIN p : (\A h \in HolesUnder(p, k) : s[h] = t[h])
           => Denoted(g, p, s)[k] = Denoted(g, p, t)[k]
  <1> DEFINE n == Len(p)
             Same(k) == (\A h \in HolesUnder(p, k) : s[h] = t[h])
                          => Denoted(g, p, s)[k] = Denoted(g, p, t)[k]
             P == {m \in 0 .. n : \A k \in 1 .. n : k <= m => Same(k)}
  <1>1. n \in Nat /\ DOMAIN p = 1 .. n
    BY DEF IsPattern
  <1> HIDE DEF n
  <1>2. 0 \in P
    <2> HIDE DEF Same
    <2> QED
      BY <1>1
  <1>3. ASSUME NEW k \in 1 .. n, \A j \in 1 .. k - 1 : Same(j) PROVE Same(k)
    <2> SUFFICES ASSUME \A h \in HolesUnder(p, k) : s[h] = t[h]
                 PROVE  Denoted(g, p, s)[k] = Denoted(g, p, t)[k]
      OBVIOUS
    <2>1. /\ Denoted(g, p, s)[k] = TermsAt(g, p, s, Denoted(g, p, s), k)
          /\ Denoted(g, p, t)[k] = TermsAt(g, p, t, Denoted(g, p, t), k)
      BY <1>1, DenotedGoes
    <2>2. CASE IsHole(p, k)
      BY <1>1, <2>1, <2>2, HolesParts DEF TermsAt
    <2>3. CASE ~ IsHole(p, k)
      <3>1. \A j \in DOMAIN p[k].kids :
              Denoted(g, p, s)[p[k].kids[j]] = Denoted(g, p, t)[p[k].kids[j]]
        <4> TAKE j \in DOMAIN p[k].kids
        <4>1. p[k].kids[j] \in 1 .. k - 1
          BY <1>1, KidsAreBelow
        <4>2. HolesUnder(p, p[k].kids[j]) \subseteq HolesUnder(p, k)
          BY <1>1, <2>3, HolesParts
        <4> QED
          BY <1>3, <4>1, <4>2
      <3> QED
        BY <2>1, <2>3, <3>1 DEF TermsAt
    <2> QED
      BY <2>2, <2>3
  <1> HIDE DEF Same
  <1>4. \A m \in 0 .. n - 1 : m \in P => m + 1 \in P
    <2> SUFFICES ASSUME NEW m \in 0 .. n - 1, m \in P PROVE m + 1 \in P
      OBVIOUS
    <2>1. \A k \in 1 .. n : k <= m => Same(k)
      OBVIOUS
    <2>2. \A k \in 1 .. n : k <= m + 1 => Same(k)
      <3> TAKE k \in 1 .. n
      <3>1. HAVE k <= m + 1
      <3>2. \A j \in 1 .. k - 1 : Same(j)
        BY <1>1, <2>1, <3>1
      <3> QED
        BY <1>3, <3>2
    <2> QED
      BY <1>1, <2>2
  <1> HIDE DEF P
  <1>5. \A m \in 0 .. n : m \in P
    BY <1>1, <1>2, <1>4, CountingUp
  <1>6. \A k \in 1 .. n : Same(k)
    <2>1. n \in P
      BY <1>1, <1>5
    <2> QED
      BY <1>1, <2>1 DEF P
  <1> QED
    BY <1>1, <1>6 DEF Same

\* What holds of each number up to n if it does of those below it.
LEMMA FromBelow ==
  ASSUME NEW n \in Nat, NEW P, \A k \in 1 .. n : (\A j \in 1 .. k - 1 : j \in P) => k \in P
  PROVE  \A k \in 1 .. n : k \in P
  <1> DEFINE T == {k \in 1 .. n : k \notin P}
  <1>1. T \in SUBSET Nat
    OBVIOUS
  <1>2. ASSUME T # {} PROVE FALSE
    <2>1. PICK x \in T : \A y \in T : x <= y
      <3> HIDE DEF T
      <3> QED
        BY <1>1, <1>2, NatHasLeast
    <2>2. \A j \in 1 .. x - 1 : j \in P
      BY <2>1
    <2> QED
      BY <2>1, <2>2
  <1> QED
    BY <1>2

----------------------------------------------------------------------------
(* What a pattern is worth.                                                 *)

\* Values the operators do not leave.
Worthy(V) ==
  /\ Number \subseteq V /\ V \subseteq Known
  /\ \A op \in Unary : \A x \in V : Eval(op, <<x>>) \in V
  /\ \A op \in Commutative : \A x, y \in V : Eval(op, <<x, y>>) \in V

LEMMA KnownIsWorthy == Worthy(Known)
  BY EvalIsAFunction DEF Worthy, Known

WorthAt(p, v, worth, k) ==
  IF IsHole(p, k) THEN v[p[k].op]
  ELSE IF p[k].op \in Number THEN p[k].op
  ELSE IF p[k].op \in Var THEN Env[p[k].op]
  ELSE Eval(p[k].op, [j \in DOMAIN p[k].kids |-> worth[p[k].kids[j]]])

\* An operator of one argument and of two.
LEMMA WorthOfOne ==
  ASSUME NEW p, IsPattern(p), NEW k \in DOMAIN p, NEW v, NEW w, ~ IsHole(p, k),
         p[k].op \in Unary, NEW i, p[k].kids = <<i>>
  PROVE  WorthAt(p, v, w, k) = Eval(p[k].op, <<w[i]>>)
  <1>1. [j \in DOMAIN p[k].kids |-> w[p[k].kids[j]]] = <<w[i]>>
    OBVIOUS
  <1> QED
    BY <1>1, HolesAreNoOperators DEF WorthAt

LEMMA WorthOfTwo ==
  ASSUME NEW p, IsPattern(p), NEW k \in DOMAIN p, NEW v, NEW w, ~ IsHole(p, k),
         p[k].op \in Commutative, NEW i, NEW d, p[k].kids = <<i, d>>
  PROVE  WorthAt(p, v, w, k) = Eval(p[k].op, <<w[i], w[d]>>)
  <1>1. [j \in DOMAIN p[k].kids |-> w[p[k].kids[j]]] = <<w[i], w[d]>>
    OBVIOUS
  <1> QED
    BY <1>1, OperatorsDiffer DEF WorthAt

LEMMA WorthAtIsWorthy ==
  ASSUME NEW p, IsPattern(p), NEW k \in DOMAIN p, NEW V, Worthy(V), NEW v,
         IsHole(p, k) => v[p[k].op] \in V,
         NEW w, \A j \in 1 .. k - 1 : w[j] \in V
  PROVE  WorthAt(p, v, w, k) \in V
  <1>1. CASE IsHole(p, k)
    BY <1>1 DEF WorthAt
  <1>2. CASE p[k].op \in Var \cup Number /\ ~ IsHole(p, k)
    BY <1>2, EnvGivesNumbers DEF WorthAt, Worthy
  <1>3. ASSUME p[k].op \in Unary, ~ IsHole(p, k), NEW i \in 1 .. k - 1, p[k].kids = <<i>>
        PROVE  WorthAt(p, v, w, k) \in V
    <2>1. WorthAt(p, v, w, k) = Eval(p[k].op, <<w[i]>>)
      BY <1>3, WorthOfOne
    <2> QED
      BY <1>3, <2>1 DEF Worthy
  <1>4. ASSUME p[k].op \in Commutative, ~ IsHole(p, k), NEW i \in 1 .. k - 1,
               NEW d \in 1 .. k - 1, p[k].kids = <<i, d>>
        PROVE  WorthAt(p, v, w, k) \in V
    <2>1. WorthAt(p, v, w, k) = Eval(p[k].op, <<w[i], w[d]>>)
      BY <1>4, WorthOfTwo
    <2> QED
      BY <1>4, <2>1 DEF Worthy
  <1> QED
    BY <1>1, <1>2, <1>3, <1>4, PatternShape DEF IsHole

LEMMA WorthsGo ==
  ASSUME NEW p, IsPattern(p), NEW V, Worthy(V), NEW v, \A h \in HolesOf(p) : v[h] \in V
  PROVE  \A k \in DOMAIN p : /\ Worths(p, v)[k] \in V
                             /\ Worths(p, v)[k] = WorthAt(p, v, Worths(p, v), k)
  <1> DEFINE n == Len(p)
             F == [k \in 1 .. n |-> [f \in [1 .. n -> V] |-> WorthAt(p, v, f, k)]]
             Good(f) == f = [k \in DOMAIN p |-> WorthAt(p, v, f, k)]
  <1>1. n \in Nat \ {0} /\ DOMAIN p = 1 .. n
    BY DEF IsPattern
  <1>2. ASSUME NEW k \in 1 .. n, IsHole(p, k) PROVE v[p[k].op] \in V
    BY <1>1, <1>2 DEF HolesOf, IsHole
  <1> HIDE DEF n
  <1>3. ASSUME NEW k \in 1 .. n, NEW f \in [1 .. n -> V] PROVE WorthAt(p, v, f, k) \in V
    <2>1. \A j \in 1 .. k - 1 : f[j] \in V
      BY <1>1
    <2> QED
      BY <1>1, <1>2, <2>1, WorthAtIsWorthy
  <1>4. F \in [1 .. n -> [[1 .. n -> V] -> V]]
    BY <1>3
  <1>5. Local(F, n, V)
    <2> SUFFICES ASSUME NEW k \in 1 .. n, NEW f \in [1 .. n -> V], NEW h \in [1 .. n -> V],
                        \A j \in 1 .. k - 1 : f[j] = h[j]
                 PROVE  F[k][f] = F[k][h]
      <3> HIDE DEF F
      <3> QED
        BY DEF Local
    <2>1. \A j \in DOMAIN p[k].kids : f[p[k].kids[j]] = h[p[k].kids[j]]
      BY <1>1, KidsAreBelow
    <2>2. WorthAt(p, v, f, k) = WorthAt(p, v, h, k)
      <3>1. [j \in DOMAIN p[k].kids |-> f[p[k].kids[j]]] =
            [j \in DOMAIN p[k].kids |-> h[p[k].kids[j]]]
        BY <2>1
      <3> QED
        BY <3>1 DEF WorthAt
    <2> QED
      BY <2>2
  <1>6. V # {}
    <2>1. 1 \in DOMAIN p /\ 1 \in 1 .. n
      BY <1>1
    <2>2. \A j \in 1 .. 1 - 1 : v[j] \in V
      OBVIOUS
    <2>3. WorthAt(p, v, v, 1) \in V
      BY <1>2, <2>1, <2>2, WorthAtIsWorthy
    <2> QED
      BY <2>3
  <1>7. PICK f : Solves(f, F, n, V)
    <2>1. Recursion(F, n, V)
      <3> HIDE DEF F
      <3> QED
        BY <1>1, <1>4, <1>5, <1>6 DEF Recursion
    <2> HIDE DEF F
    <2> QED
      BY <2>1, RecursionExists
  <1>8. Good(f)
    <2>1. \A k \in 1 .. n : F[k][f] = WorthAt(p, v, f, k)
      BY <1>7 DEF Solves
    <2>2. f = [k \in 1 .. n |-> WorthAt(p, v, f, k)]
      <3> HIDE DEF F
      <3> QED
        BY <1>7, <2>1 DEF Solves
    <2> QED
      BY <1>1, <2>2
  <1>9. Worths(p, v) = CHOOSE h : Good(h)
    BY DEF Worths, WorthAt
  <1>10. Good(Worths(p, v))
    <2> HIDE DEF Good
    <2> QED
      BY <1>8, <1>9
  <1> DEFINE W == Worths(p, v)
             P == {k \in 1 .. n : W[k] \in V}
  <1>11. \A k \in 1 .. n : W[k] = WorthAt(p, v, W, k)
    BY <1>1, <1>10
  <1> HIDE DEF W, Good
  <1>12. ASSUME NEW k \in 1 .. n, \A j \in 1 .. k - 1 : j \in P PROVE k \in P
    <2>1. \A j \in 1 .. k - 1 : W[j] \in V
      BY <1>12
    <2>2. WorthAt(p, v, W, k) \in V
      BY <1>1, <1>2, <2>1, WorthAtIsWorthy
    <2> QED
      BY <1>11, <2>2
  <1> HIDE DEF P
  <1>13. \A k \in 1 .. n : k \in P
    BY <1>1, <1>12, FromBelow
  <1> QED
    BY <1>1, <1>11, <1>13 DEF P, W

\* The arguments of a node as it may be read: its own, or those of a commutative
\* one the other way round.
LEMMA ArgsOfShape ==
  ASSUME NEW n \in Node, NEW args \in ArgsOf(n)
  PROVE  /\ DOMAIN args = DOMAIN n.kids /\ Len(args) = Len(n.kids)
         /\ n.kids = <<>> => args = <<>>
         /\ \A i : n.kids = <<i>> => args = <<i>>
         /\ \A i, j : n.kids = <<i, j>> =>
              args = <<i, j>> \/ (n.op \in Commutative /\ args = <<j, i>>)
  <1>1. CASE ~ Turns(n)
    BY <1>1 DEF ArgsOf
  <1>2. CASE Turns(n)
    <2>1. n.op \in Commutative
      BY <1>2 DEF Turns
    <2>2. PICK i \in Id, j \in Id : n = [op |-> n.op, kids |-> <<i, j>>]
      BY <2>1, NodeShape, OperatorsDiffer, HolesAreNoOperators
    <2>3. args = <<i, j>> \/ args = <<j, i>>
      BY <1>2, <2>2 DEF ArgsOf
    <2>4. n.kids = <<i, j>>
      BY <2>2
    <2>5. /\ DOMAIN args = DOMAIN n.kids /\ Len(args) = Len(n.kids)
          /\ n.kids # <<>> /\ \A e : n.kids # <<e>>
      BY <2>3, <2>4
    <2>6. \A c, d : n.kids = <<c, d>> => c = i /\ d = j
      BY <2>4
    <2> QED
      BY <2>1, <2>3, <2>5, <2>6
  <1> QED
    BY <1>1, <1>2

\* A node that is read for one of the pattern has as many arguments.
LEMMA SameTable ==
  ASSUME NEW p, IsPattern(p), NEW k \in DOMAIN p, ~ IsHole(p, k),
         NEW n \in Node, n.op = p[k].op
  PROVE  \/ p[k].op \in Var \cup Number /\ p[k].kids = <<>> /\ n.kids = <<>>
         \/ p[k].op \in Unary /\ \E i \in Id : n.kids = <<i>>
              /\ \E a \in 1 .. k - 1 : p[k].kids = <<a>>
         \/ p[k].op \in Commutative /\ \E i, j \in Id : n.kids = <<i, j>>
              /\ \E a, b \in 1 .. k - 1 : p[k].kids = <<a, b>>
  <1>1. \/ n.op \in Var \cup Number /\ n.kids = <<>>
        \/ n.op \in Unary /\ \E i \in Id : n.kids = <<i>>
        \/ n.op \in Commutative /\ \E i, j \in Id : n.kids = <<i, j>>
    BY NodeShape
  <1>2. \/ p[k].op \in Var \cup Number /\ p[k].kids = <<>>
        \/ p[k].op \in Unary /\ \E a \in 1 .. k - 1 : p[k].kids = <<a>>
        \/ p[k].op \in Commutative /\ \E a, b \in 1 .. k - 1 : p[k].kids = <<a, b>>
    BY PatternShape DEF IsHole
  <1> QED
    BY <1>1, <1>2, OperatorsDiffer, HolesAreNoOperators

\* In a graph whose classes are worth what their nodes are, a class of which a
\* pattern denotes a term is worth what the pattern is when its holes are worth what
\* they are filled with: matching preserves meaning (Pattern, pattern.rs).
THEOREM TermsAreWorthIt ==
  ASSUME NEW g, NEW u, Sound(g, u), NEW p, IsPattern(p), NEW s, NEW v,
         \A h \in HolesOf(p) : v[h] = u[s[h]] /\ s[h] \in Id
  PROVE  \A k \in DOMAIN p : \A c \in Denoted(g, p, s)[k] : u[c] = Worths(p, v)[k]
  <1> DEFINE n == Len(p)
             W == Worths(p, v)
             D == Denoted(g, p, s)
             P == {k \in 1 .. n : \A c \in D[k] : u[c] = W[k]}
  <1>1. n \in Nat /\ DOMAIN p = 1 .. n
    BY DEF IsPattern
  <1>2. g \in Graph /\ u \in [Id -> Known] /\ \A i \in Id : u[g.leader[i]] = u[i]
    BY DEF Sound, LeadersAgree
  <1>3. \A h \in HolesOf(p) : v[h] \in Known
    BY <1>2
  <1>4. \A k \in DOMAIN p : W[k] \in Known /\ W[k] = WorthAt(p, v, W, k)
    BY <1>3, KnownIsWorthy, WorthsGo
  <1>5. \A c \in Classes(g) : c \in Id /\ \A m \in g.nodes[c] : States(g, u, m, c)
    BY <1>2, MadeIds DEF Classes, Sound, NodesAgree
  <1> HIDE DEF W, n
  <1>6. ASSUME NEW k \in 1 .. n, \A j \in 1 .. k - 1 : j \in P PROVE k \in P
    <2> SUFFICES ASSUME NEW c \in D[k] PROVE u[c] = W[k]
      OBVIOUS
    <2>0. k \in DOMAIN p
      BY <1>1
    <2>1. CASE IsHole(p, k)
      <3>1. D[k] = {s[p[k].op]}
        BY <1>2, <2>0, <2>1, DenotedArgs
      <3>2. p[k].op \in HolesOf(p) /\ W[k] = v[p[k].op]
        BY <1>4, <2>0, <2>1 DEF HolesOf, IsHole, WorthAt
      <3> QED
        BY <3>1, <3>2
    <2>2. CASE ~ IsHole(p, k)
      <3>1. c \in Classes(g) /\ \E m \in g.nodes[c] :
              m.op = p[k].op /\ \E args \in ArgsOf(m) : FitsArgs(g, p, s, k, args)
        BY <1>2, <2>0, <2>2, DenotedArgs
      <3>2. PICK m \in g.nodes[c] :
              m.op = p[k].op /\ \E args \in ArgsOf(m) : FitsArgs(g, p, s, k, args)
        BY <3>1
      <3>3. PICK args \in ArgsOf(m) : FitsArgs(g, p, s, k, args)
        BY <3>2
      <3>4. m \in Node /\ Worth(u, m) = u[c]
        BY <1>5, <3>1 DEF States
      <3>5. ASSUME NEW j \in DOMAIN p[k].kids, args[j] \in Id
            PROVE  u[args[j]] = W[p[k].kids[j]]
        <4>1. g.leader[args[j]] \in D[p[k].kids[j]]
          BY <3>3 DEF FitsArgs, Find
        <4>2. p[k].kids[j] \in P
          BY <1>6, <2>0, KidsAreBelow
        <4> QED
          BY <1>2, <3>5, <4>1, <4>2
      <3> HIDE DEF D, P
      <3>6. CASE p[k].op \in Var \cup Number
        BY <1>4, <2>0, <2>2, <3>2, <3>4, <3>6 DEF WorthAt, Worth
      <3>7. ASSUME p[k].op \in Unary, NEW i \in Id, m.kids = <<i>>,
                   NEW a \in 1 .. k - 1, p[k].kids = <<a>>
            PROVE  u[c] = W[k]
        <4>1. args = <<i>>
          BY <3>4, <3>7, ArgsOfShape
        <4>2. u[i] = W[a]
          BY <3>5, <3>7, <4>1
        <4>3. W[k] = Eval(p[k].op, <<W[a]>>)
          BY <1>4, <2>0, <2>2, <3>7, WorthOfOne
        <4>4. [j \in DOMAIN m.kids |-> u[m.kids[j]]] = <<u[i]>>
          BY <3>7
        <4>5. Worth(u, m) = Eval(p[k].op, <<u[i]>>)
          BY <3>2, <3>7, <4>4, HolesAreNoOperators DEF Worth
        <4> QED
          BY <3>4, <4>2, <4>3, <4>5
      <3>8. ASSUME p[k].op \in Commutative, NEW i \in Id, NEW j \in Id, m.kids = <<i, j>>,
                   NEW a \in 1 .. k - 1, NEW b \in 1 .. k - 1, p[k].kids = <<a, b>>
            PROVE  u[c] = W[k]
        <4>1. args = <<i, j>> \/ args = <<j, i>>
          BY <3>4, <3>8, ArgsOfShape
        <4>2. u[args[1]] = W[a] /\ u[args[2]] = W[b]
          BY <3>5, <3>8, <4>1
        <4>3. W[k] = Eval(p[k].op, <<W[a], W[b]>>)
          BY <1>4, <2>0, <2>2, <3>8, WorthOfTwo
        <4>4. [d \in DOMAIN m.kids |-> u[m.kids[d]]] = <<u[i], u[j]>>
          BY <3>8
        <4>5. Worth(u, m) = Eval(p[k].op, <<u[i], u[j]>>)
          BY <3>2, <3>8, <4>4, OperatorsDiffer DEF Worth
        <4>6. u[i] \in Known /\ u[j] \in Known
          BY <1>2
        <4>7. Eval(p[k].op, <<u[i], u[j]>>) = Eval(p[k].op, <<u[j], u[i]>>)
          BY <3>8, <4>6, EvalIsAFunction
        <4> QED
          BY <3>4, <4>1, <4>2, <4>3, <4>5, <4>7
      <3> QED
        BY <2>0, <2>2, <3>2, <3>4, <3>6, <3>7, <3>8, SameTable
    <2> QED
      BY <2>1, <2>2
  <1> HIDE DEF P
  <1>7. \A k \in 1 .. n : k \in P
    BY <1>1, <1>6, FromBelow
  <1> QED
    BY <1>1, <1>7 DEF P, W, D

----------------------------------------------------------------------------
(* Building.                                                                *)

\* A form is in normal order, and worth what the node is.
LEMMA FormIsNormal ==
  ASSUME NEW g \in Graph, NEW n \in Node
  PROVE  Canonical(g, n) = Normalized(Canonical(g, n))
  <1> DEFINE m == [n EXCEPT !.kids = [k \in DOMAIN n.kids |-> g.leader[n.kids[k]]]]
  <1>1. Canonical(g, n) = Normalized(m)
    BY DEF Canonical, Find
  <1>2. CASE ~ (m.op \in Commutative /\ m.kids[2] < m.kids[1])
    BY <1>1, <1>2 DEF Normalized
  <1>3. CASE m.op \in Commutative /\ m.kids[2] < m.kids[1]
    <2>1. n.op \in Commutative
      BY <1>3 DEF Node
    <2>2. PICK i \in Id, j \in Id : n = [op |-> n.op, kids |-> <<i, j>>]
      BY <2>1, NodeShape, OperatorsDiffer, HolesAreNoOperators
    <2>3. g.leader[i] \in Nat /\ g.leader[j] \in Nat
      BY MadeIds, MaxIdsIsNat DEF Id
    <2>4. m = [op |-> n.op, kids |-> <<g.leader[i], g.leader[j]>>]
      BY <2>2
    <2> HIDE DEF m
    <2>5. Normalized(m) = [op |-> n.op, kids |-> <<g.leader[j], g.leader[i]>>]
      BY <1>3, <2>4 DEF Normalized
    <2> QED
      BY <1>1, <1>3, <2>3, <2>4, <2>5 DEF Normalized
  <1> QED
    BY <1>2, <1>3

LEMMA FormIsWorthIt ==
  ASSUME NEW g, NEW v, Sound(g, v), NEW n \in Node
  PROVE  Worth(v, Canonical(g, n)) = Worth(v, n)
  <1> DEFINE m == [n EXCEPT !.kids = [k \in DOMAIN n.kids |-> g.leader[n.kids[k]]]]
  <1>1. /\ g \in Graph /\ g.leader \in [Id -> Id] /\ v \in [Id -> Known]
        /\ \A i \in Id : v[g.leader[i]] = v[i]
    BY MadeIds DEF Sound, LeadersAgree
  <1>2. m \in Node /\ Worth(v, m) = Worth(v, n)
    BY <1>1, RenamedNode
  <1>3. Canonical(g, n) = Normalized(m)
    BY DEF Canonical, Find
  <1> HIDE DEF m
  <1> QED
    BY <1>1, <1>2, <1>3, NormalizedNode

Build ==
  [graph : Graph, ids : Seq(Id), term : [Id -> Node \cup {<<>>}], value : [Id -> Known]]

\* A building is a graph that is sound and closed, of values in V.
Stands(b, V, at) ==
  /\ b \in Build
  /\ Sound(b.graph, b.value) /\ Closed(b.graph, b.term, {}, at, {})
  /\ \A i \in Made(b.graph) : b.value[i] \in V

\* One building goes on from another: what was there is as it was.
GoesOn(x, b) ==
  /\ b.graph.made <= x.graph.made
  /\ \A i \in Made(b.graph) :
       i \in Made(x.graph) /\ x.value[i] = b.value[i] /\ x.graph.nodes[i] = b.graph.nodes[i]
  /\ x.graph.leader = b.graph.leader /\ x.graph.history = b.graph.history
  /\ \A i \in Made(x.graph) \ Made(b.graph) : \E n : x.graph.nodes[i] = {n}
  /\ x.graph.made = b.graph.made =>
       x.graph = b.graph /\ x.term = b.term /\ x.value = b.value

LEMMA GoesOnFurther ==
  ASSUME NEW x \in Build, NEW y \in Build, NEW z \in Build, GoesOn(x, y), GoesOn(y, z)
  PROVE  GoesOn(x, z)
  <1>1. x.graph.made \in Nat /\ y.graph.made \in Nat /\ z.graph.made \in Nat
    BY MadeIds DEF Build
  <1>2. Made(z.graph) \subseteq Made(y.graph) /\ Made(y.graph) \subseteq Made(x.graph)
    BY DEF GoesOn
  <1>3. \A i \in Made(x.graph) \ Made(z.graph) : \E n : x.graph.nodes[i] = {n}
    <2> TAKE i \in Made(x.graph) \ Made(z.graph)
    <2>1. CASE i \in Made(y.graph)
      <3>1. x.graph.nodes[i] = y.graph.nodes[i]
        BY <2>1 DEF GoesOn
      <3>2. \E n : y.graph.nodes[i] = {n}
        BY <2>1 DEF GoesOn
      <3> QED
        BY <3>1, <3>2
    <2>2. CASE i \notin Made(y.graph)
      BY <2>2 DEF GoesOn
    <2> QED
      BY <2>1, <2>2
  <1>4. z.graph.made <= x.graph.made
    BY <1>1 DEF GoesOn
  <1>5. \A i \in Made(z.graph) :
          /\ i \in Made(x.graph) /\ x.value[i] = z.value[i]
          /\ x.graph.nodes[i] = z.graph.nodes[i]
    BY <1>2 DEF GoesOn
  <1>6. x.graph.made = z.graph.made =>
          x.graph = z.graph /\ x.term = z.term /\ x.value = z.value
    BY <1>1 DEF GoesOn
  <1>7. x.graph.leader = z.graph.leader /\ x.graph.history = z.graph.history
    BY DEF GoesOn
  <1> QED
    BY <1>3, <1>4, <1>5, <1>6, <1>7 DEF GoesOn

\* A node more, worth w.
HasOneMore(x, b, V, at, w) ==
  /\ Stands(x, V, at) /\ GoesOn(x, b) /\ x.graph.made <= b.graph.made + 1
  /\ \E id \in Made(x.graph) : x.ids = Append(b.ids, id) /\ x.value[id] = w

LEMMA BuiltStands ==
  ASSUME NEW V, NEW at \in Id, NEW b, Stands(b, V, at), NEW m \in Node,
         Kids(m) \subseteq Made(b.graph), b.graph.made < MaxIds, Worth(b.value, m) \in V
  PROVE  HasOneMore(Built(b, m), b, V, at, Worth(b.value, m))
  <1> DEFINE x == Built(b, m)
             g == b.graph
             v == b.value
             n == Canonical(g, m)
             h == Added(g, n)
             id == LandsIn(g, n)
  <1>1. /\ g \in Graph /\ g.leader \in [Id -> Id] /\ g.made \in Nat /\ Made(g) \subseteq Id
        /\ v \in [Id -> Known] /\ b.term \in [Id -> Node \cup {<<>>}] /\ b.ids \in Seq(Id)
        /\ Sound(g, v) /\ Closed(g, b.term, {}, at, {}) /\ b.graph = g
        /\ b = [graph |-> g, ids |-> b.ids, term |-> b.term, value |-> v]
    BY MadeIds DEF Stands, Build
  <1>2. /\ n \in Node /\ n = Normalized(n) /\ Worth(v, n) = Worth(v, m)
        /\ Kids(n) = Under(g, Kids(m))
    BY <1>1, FormIsNode, FormIsNormal, FormIsWorthIt
  <1>3. Kids(n) \subseteq Classes(g) /\ Kids(n) \subseteq Made(g)
    BY <1>1, <1>2 DEF Under, Classes, Sound, LeadersAgree, Closed, Forest
  <1>4. HasRoom(g, n) /\ \A k \in DOMAIN n.kids : n.kids[k] \in Made(g)
    BY <1>3 DEF HasRoom, Kids
  <1>5. /\ x = [graph |-> h, ids |-> Append(b.ids, id),
                term  |-> IF Owners(g, n) = {} THEN [b.term EXCEPT ![id] = n] ELSE b.term,
                value |-> IF Owners(g, n) = {} THEN [v EXCEPT ![id] = Worth(v, n)] ELSE v]
    BY DEF Built
  <1> HIDE DEF g, v, n, x
  <1>6. /\ Sound(h, Grown(g, v, n)) /\ id \in Made(h)
        /\ Grown(g, v, n)[id] = Worth(v, n)
        /\ \A i \in Made(g) : i \in Made(h) /\ Grown(g, v, n)[i] = v[i]
    BY <1>1, <1>2, <1>4, AddedIsSound
  <1>7. x.value = Grown(g, v, n)
    <2>1. CASE Owners(g, n) = {}
      <3>1. id = g.made
        BY <2>1 DEF LandsIn
      <3> HIDE DEF id, h
      <3> QED
        BY <1>5, <2>1, <3>1 DEF Grown
    <2>2. CASE Owners(g, n) # {}
      BY <1>5, <2>2 DEF Grown
    <2> QED
      BY <2>1, <2>2
  <1>8. h \in Graph /\ Made(h) \subseteq Id /\ Grown(g, v, n) \in [Id -> Known]
    BY <1>6, MadeIds DEF Sound
  <1>9. Owners(g, n) # {} => h = g
    BY DEF Added
  <1>10. Owners(g, n) = {} =>
           /\ h.made = g.made + 1 /\ h.leader = g.leader /\ h.history = g.history
           /\ h.nodes = [g.nodes EXCEPT ![g.made] = {n}] /\ id = g.made
    BY <1>1 DEF Added, Graph, LandsIn
  <1>11. Closed(h, x.term, {}, at, {})
    <2>1. CASE Owners(g, n) # {}
      BY <1>1, <1>5, <1>9, <2>1
    <2>2. CASE Owners(g, n) = {}
      <3>1. x.term = [b.term EXCEPT ![g.made] = n]
        BY <1>5, <1>10, <2>2
      <3>2. {} \in SUBSET Id
        OBVIOUS
      <3> HIDE DEF h
      <3> QED
        BY <1>1, <1>2, <1>3, <1>4, <2>2, <3>1, <3>2, AddedCloses DEF h
    <2> QED
      BY <2>1, <2>2
  <1>12. x \in Build
    <2>1. Append(b.ids, id) \in Seq(Id)
      BY <1>1, <1>6, <1>8
    <2>2. x.term \in [Id -> Node \cup {<<>>}]
      <3>1. CASE Owners(g, n) # {}
        BY <1>1, <1>5, <3>1
      <3>2. CASE Owners(g, n) = {}
        <4>1. id \in Id /\ x.term = [b.term EXCEPT ![id] = n]
          BY <1>5, <1>6, <1>8, <3>2
        <4> HIDE DEF id
        <4> QED
          BY <1>1, <1>2, <4>1
      <3> QED
        BY <3>1, <3>2
    <2>3. x = [graph |-> h, ids |-> Append(b.ids, id), term |-> x.term,
               value |-> Grown(g, v, n)]
      BY <1>5, <1>7
    <2> HIDE DEF h, id
    <2> QED
      BY <1>8, <2>1, <2>2, <2>3 DEF Build
  <1>13. x.graph = h /\ x.ids = Append(b.ids, id)
    BY <1>5
  <1>14. x.graph.made <= g.made + 1 /\ GoesOn(x, b)
    <2>1. CASE Owners(g, n) # {}
      <3>1. x.graph = g /\ x.term = b.term /\ x.value = v
        BY <1>1, <1>5, <1>9, <1>13, <2>1
      <3> QED
        BY <1>1, <3>1 DEF GoesOn, g, v
    <2>2. CASE Owners(g, n) = {}
      <3>1. Made(h) = Made(g) \cup {g.made} /\ g.made \notin Made(g)
        BY <1>1, <1>10, <2>2 DEF Made
      <3>2. g.made \in Id /\ g.nodes \in [Id -> SUBSET Node]
        BY <1>1, <1>6, <1>8, <1>10, <2>2 DEF Graph
      <3>3. h.nodes[g.made] = {n} /\ \A i \in Made(g) : h.nodes[i] = g.nodes[i]
        BY <1>1, <1>10, <2>2, <3>1, <3>2
      <3>4. h.made = g.made + 1 /\ h.leader = g.leader /\ h.history = g.history
        BY <1>10, <2>2
      <3> HIDE DEF h, id
      <3>5. \A i \in Made(h) \ Made(g) : h.nodes[i] = {n}
        BY <3>1, <3>3
      <3>6. \A i \in Made(g) : i \in Made(h) /\ x.value[i] = v[i] /\ h.nodes[i] = g.nodes[i]
        BY <1>6, <1>7, <3>3
      <3>7. g.made <= h.made /\ h.made # g.made /\ h.made <= g.made + 1
        BY <1>1, <3>4
      <3>8. x.graph = h /\ b.graph = g /\ b.value = v
        BY <1>1, <1>13 DEF v
      <3> QED
        BY <3>4, <3>5, <3>6, <3>7, <3>8 DEF GoesOn
    <2> QED
      BY <2>1, <2>2
  <1>15. \A i \in Made(x.graph) : x.value[i] \in V
    <2>1. \A i \in Made(g) : v[i] \in V
      BY DEF Stands, g, v
    <2>2. Worth(v, n) \in V
      BY <1>2 DEF v
    <2>3. \A i \in Made(h) : i \in Made(g) \/ i = id
      <3>1. CASE Owners(g, n) # {}
        BY <1>9, <3>1
      <3>2. CASE Owners(g, n) = {}
        BY <1>1, <1>10, <3>2 DEF Made
      <3> QED
        BY <3>1, <3>2
    <2> HIDE DEF h, id
    <2> QED
      BY <1>6, <1>7, <1>13, <2>1, <2>2, <2>3
  <1> HIDE DEF h, id
  <1>16. HasOneMore(x, b, V, at, Worth(v, m))
    BY <1>2, <1>6, <1>7, <1>11, <1>12, <1>13, <1>14, <1>15 DEF Stands, HasOneMore, g
  <1> QED
    BY <1>16 DEF x, v

\* What is instantiated, node by node.
StepOf(p, s, k, b) ==
  IF IsHole(p, k) THEN [b EXCEPT !.ids = Append(@, s[p[k].op])]
  ELSE Built(b, [op |-> p[k].op, kids |-> [j \in DOMAIN p[k].kids |-> b.ids[p[k].kids[j]]]])

LEMMA OperatorsCount ==
  ASSUME NEW p, IsPattern(p), NEW k \in 1 .. Len(p)
  PROVE  /\ Cardinality(OperatorsUpTo(p, k - 1)) \in Nat /\ Cardinality(OperatorsUpTo(p, k)) \in Nat
         /\ SizeOf(p) \in Nat
         /\ Cardinality(OperatorsUpTo(p, k)) <= SizeOf(p)
         /\ IsHole(p, k) => OperatorsUpTo(p, k) = OperatorsUpTo(p, k - 1)
         /\ ~ IsHole(p, k) =>
              Cardinality(OperatorsUpTo(p, k)) = Cardinality(OperatorsUpTo(p, k - 1)) + 1
  <1> DEFINE all == OperatorsUpTo(p, Len(p))
             now == OperatorsUpTo(p, k)
             old == OperatorsUpTo(p, k - 1)
  <1>1. Len(p) \in Nat /\ k \in Nat
    BY DEF IsPattern
  <1>2. now \subseteq all /\ old \subseteq now
    BY <1>1 DEF OperatorsUpTo
  <1>3. IsFiniteSet(all)
    <2>1. IsFiniteSet(1 .. Len(p))
      BY <1>1, FS_Interval
    <2>2. all \in SUBSET (1 .. Len(p))
      BY DEF OperatorsUpTo
    <2> QED
      BY <2>1, <2>2, FS_Subset
  <1>4. /\ IsHole(p, k) => now = old
        /\ ~ IsHole(p, k) => now = old \cup {k} /\ k \notin old
    BY <1>1 DEF OperatorsUpTo
  <1> HIDE DEF all, now, old
  <1>5. /\ IsFiniteSet(now) /\ IsFiniteSet(old) /\ Cardinality(now) \in Nat
        /\ Cardinality(old) \in Nat /\ Cardinality(all) \in Nat
        /\ Cardinality(now) <= Cardinality(all)
    BY <1>2, <1>3, FS_Subset, FS_CardinalityType
  <1>6. ~ IsHole(p, k) => Cardinality(now) = Cardinality(old) + 1
    BY <1>4, <1>5, FS_AddElement
  <1> QED
    BY <1>4, <1>5, <1>6 DEF all, now, old, SizeOf

\* Up to its node k the pattern has been built on b, worth w.
HasBuilt(b, p, w, V, at, k, x) ==
  /\ Stands(x, V, at) /\ GoesOn(x, b)
  /\ x.graph.made <= b.graph.made + Cardinality(OperatorsUpTo(p, k))
  /\ Len(x.ids) = k
  /\ \A j \in 1 .. k : x.ids[j] \in Made(x.graph) /\ x.value[x.ids[j]] = w[j]

\* A pattern may be built on b, its holes filled by s with classes worth v.
MayBuild(b, p, s, v, V, at) ==
  /\ IsPattern(p) /\ Worthy(V) /\ at \in Id
  /\ Stands(b, V, at) /\ b.ids = <<>>
  /\ b.graph.made + SizeOf(p) <= CallerIds
  /\ \A h \in HolesOf(p) : s[h] \in Made(b.graph) /\ b.value[s[h]] = v[h]

LEMMA StepBuilds ==
  ASSUME NEW b, NEW p, NEW s, NEW v, NEW V, NEW at, MayBuild(b, p, s, v, V, at),
         NEW k \in 1 .. Len(p), NEW x, HasBuilt(b, p, Worths(p, v), V, at, k - 1, x)
  PROVE  HasBuilt(b, p, Worths(p, v), V, at, k, StepOf(p, s, k, x))
  <1> DEFINE y == StepOf(p, s, k, x)
             w == Worths(p, v)
  <1>1. /\ IsPattern(p) /\ Worthy(V) /\ at \in Id /\ Stands(b, V, at) /\ b \in Build
        /\ k \in DOMAIN p /\ k \in Nat \ {0} /\ Stands(x, V, at) /\ x \in Build /\ GoesOn(x, b)
        /\ x.ids \in Seq(Id) /\ Len(x.ids) = k - 1
        /\ b.graph \in Graph /\ x.graph \in Graph
    BY DEF MayBuild, HasBuilt, IsPattern, Stands, Build
  <1>2. /\ b.graph.made \in Nat /\ x.graph.made \in Nat /\ Made(x.graph) \subseteq Id
    BY <1>1, MadeIds
  <1>3. \A i \in DOMAIN p : w[i] \in V /\ w[i] = WorthAt(p, v, w, i)
    <2>1. \A h \in HolesOf(p) : v[h] \in V
      BY <1>1 DEF MayBuild, Stands
    <2> QED
      BY <1>1, <2>1, WorthsGo
  <1>4. \A j \in 1 .. k - 1 : x.ids[j] \in Made(x.graph) /\ x.value[x.ids[j]] = w[j]
    BY DEF HasBuilt
  <1>5. ASSUME NEW z \in Build, Stands(z, V, at), GoesOn(z, x), NEW i \in Made(z.graph),
               z.ids = Append(x.ids, i), z.value[i] = w[k],
               z.graph.made <= b.graph.made + Cardinality(OperatorsUpTo(p, k))
        PROVE  HasBuilt(b, p, w, V, at, k, z)
    <2>1. GoesOn(z, b)
      BY <1>1, <1>5, GoesOnFurther
    <2>2. Len(z.ids) = k /\ z.ids[k] = i /\ \A j \in 1 .. k - 1 : z.ids[j] = x.ids[j]
      BY <1>1, <1>5
    <2>3. \A j \in 1 .. k - 1 : z.ids[j] \in Made(z.graph) /\ z.value[z.ids[j]] = w[j]
      BY <1>4, <1>5, <2>2 DEF GoesOn
    <2>4. \A j \in 1 .. k : z.ids[j] \in Made(z.graph) /\ z.value[z.ids[j]] = w[j]
      BY <1>1, <1>5, <2>2, <2>3
    <2> HIDE DEF w
    <2> QED
      BY <1>5, <2>1, <2>2, <2>4 DEF HasBuilt
  <1>6. CASE IsHole(p, k)
    <2> DEFINE h == p[k].op
    <2>1. h \in HolesOf(p) /\ w[k] = v[h]
      BY <1>1, <1>3, <1>6 DEF HolesOf, IsHole, WorthAt
    <2>2. s[h] \in Made(x.graph) /\ x.value[s[h]] = w[k]
      BY <1>1, <2>1 DEF MayBuild, GoesOn
    <2>3. /\ y = [x EXCEPT !.ids = Append(@, s[h])]
          /\ y.graph = x.graph /\ y.term = x.term /\ y.value = x.value
          /\ y.ids = Append(x.ids, s[h])
      BY <1>1, <1>6 DEF StepOf, Build
    <2>4. y \in Build
      <3>1. Append(x.ids, s[h]) \in Seq(Id)
        BY <1>1, <1>2, <2>2
      <3>2. y = [graph |-> x.graph, ids |-> Append(x.ids, s[h]), term |-> x.term,
                 value |-> x.value]
        BY <1>1, <2>3 DEF Build
      <3> HIDE DEF y, h
      <3> QED
        BY <1>1, <3>1, <3>2 DEF Build
    <2> HIDE DEF h, y
    <2>5. Stands(y, V, at) /\ GoesOn(y, x)
      BY <1>1, <1>2, <2>3, <2>4 DEF Stands, GoesOn
    <2>6. y.graph.made <= b.graph.made + Cardinality(OperatorsUpTo(p, k))
      BY <1>1, <1>6, <2>3, OperatorsCount DEF HasBuilt
    <2>7. HasBuilt(b, p, w, V, at, k, y)
      BY <1>5, <2>2, <2>3, <2>4, <2>5, <2>6
    <2> QED
      BY <2>7 DEF y
  <1>7. CASE ~ IsHole(p, k)
    <2> DEFINE m == [op |-> p[k].op, kids |-> [j \in DOMAIN p[k].kids |-> x.ids[p[k].kids[j]]]]
    <2>1. y = Built(x, m)
      BY <1>7 DEF StepOf
    <2>2. \A j \in DOMAIN p[k].kids : x.ids[p[k].kids[j]] \in Made(x.graph)
      BY <1>1, <1>4, KidsAreBelow
    <2>3. Kids(m) \subseteq Made(x.graph)
      BY <2>2 DEF Kids
    <2>4. m \in Node /\ Worth(x.value, m) = w[k]
      <3>1. CASE p[k].op \in Var \cup Number /\ p[k].kids = <<>>
        <4>1. m = [op |-> p[k].op, kids |-> <<>>]
          BY <3>1
        <4> HIDE DEF m, w
        <4> QED
          BY <1>1, <1>3, <1>7, <3>1, <4>1 DEF Node, Worth, WorthAt
      <3>2. ASSUME p[k].op \in Unary, NEW i \in 1 .. k - 1, p[k].kids = <<i>>
            PROVE  m \in Node /\ Worth(x.value, m) = w[k]
        <4>1. m = [op |-> p[k].op, kids |-> <<x.ids[i]>>]
          BY <3>2
        <4>2. w[k] = Eval(p[k].op, <<w[i]>>)
          BY <1>1, <1>3, <1>7, <3>2, WorthOfOne
        <4>3. x.ids[i] \in Id /\ x.value[x.ids[i]] = w[i]
          BY <1>2, <1>4, <3>2
        <4> HIDE DEF m, w
        <4>4. m \in Node
          BY <3>2, <4>1, <4>3 DEF Node
        <4>5. [j \in DOMAIN m.kids |-> x.value[m.kids[j]]] = <<w[i]>>
          BY <4>1, <4>3
        <4>6. m.op = p[k].op
          BY <4>1
        <4> QED
          BY <3>2, <4>2, <4>4, <4>5, <4>6, HolesAreNoOperators DEF Worth
      <3>3. ASSUME p[k].op \in Commutative, NEW i \in 1 .. k - 1, NEW d \in 1 .. k - 1,
                   p[k].kids = <<i, d>>
            PROVE  m \in Node /\ Worth(x.value, m) = w[k]
        <4>1. m = [op |-> p[k].op, kids |-> <<x.ids[i], x.ids[d]>>]
          BY <3>3
        <4>2. w[k] = Eval(p[k].op, <<w[i], w[d]>>)
          BY <1>1, <1>3, <1>7, <3>3, WorthOfTwo
        <4>3. /\ x.ids[i] \in Id /\ x.value[x.ids[i]] = w[i]
              /\ x.ids[d] \in Id /\ x.value[x.ids[d]] = w[d]
          BY <1>2, <1>4, <3>3
        <4> HIDE DEF m, w
        <4>4. m \in Node
          BY <3>3, <4>1, <4>3 DEF Node
        <4>5. [j \in DOMAIN m.kids |-> x.value[m.kids[j]]] = <<w[i], w[d]>>
          BY <4>1, <4>3
        <4>6. m.op = p[k].op
          BY <4>1
        <4> QED
          BY <3>3, <4>2, <4>4, <4>5, <4>6, OperatorsDiffer DEF Worth
      <3> HIDE DEF m, w
      <3> QED
        BY <1>1, <1>7, <3>1, <3>2, <3>3, PatternShape DEF IsHole
    <2>5. /\ x.graph.made + 1 <= b.graph.made + Cardinality(OperatorsUpTo(p, k))
          /\ x.graph.made < MaxIds
      <3>1. /\ Cardinality(OperatorsUpTo(p, k)) \in Nat /\ SizeOf(p) \in Nat
            /\ Cardinality(OperatorsUpTo(p, k - 1)) \in Nat
            /\ Cardinality(OperatorsUpTo(p, k)) <= SizeOf(p)
            /\ Cardinality(OperatorsUpTo(p, k)) = Cardinality(OperatorsUpTo(p, k - 1)) + 1
        BY <1>1, <1>7, OperatorsCount
      <3>2. CallerIds \in Nat /\ CallerIds <= MaxIds /\ MaxIds \in Nat
        BY BoundsAreFinite, FS_CardinalityType DEF MaxIds
      <3>3. x.graph.made <= b.graph.made + Cardinality(OperatorsUpTo(p, k - 1))
        BY DEF HasBuilt
      <3>4. b.graph.made + SizeOf(p) <= CallerIds
        BY DEF MayBuild
      <3>5. x.graph.made \in Nat /\ b.graph.made \in Nat
        BY <1>2
      <3> DEFINE now == x.graph.made
                 was == b.graph.made
                 upto == Cardinality(OperatorsUpTo(p, k))
                 size == SizeOf(p)
      <3>6. /\ now \in Int /\ was \in Int /\ upto \in Int /\ size \in Int
            /\ CallerIds \in Int /\ MaxIds \in Int
        BY <3>1, <3>2, <3>5
      <3>7. now + 1 <= was + upto
        BY <3>1, <3>3, <3>5
      <3>8. upto <= size /\ was + size <= CallerIds /\ CallerIds <= MaxIds
        BY <3>1, <3>2, <3>4
      <3> HIDE DEF now, was, upto, size, m, y, w
      <3>9. now < MaxIds
        BY <3>6, <3>7, <3>8
      <3> QED
        BY <3>7, <3>9 DEF now, was, upto
    <2> HIDE DEF m, y, w
    <2>6. w[k] \in V
      BY <1>1, <1>3
    <2>7. /\ Stands(y, V, at) /\ GoesOn(y, x) /\ y.graph.made <= x.graph.made + 1
          /\ \E id \in Made(y.graph) :
               y.ids = Append(x.ids, id) /\ y.value[id] = w[k]
      <3>1. HasOneMore(Built(x, m), x, V, at, Worth(x.value, m))
        BY <1>1, <2>3, <2>4, <2>5, <2>6, BuiltStands
      <3> QED
        BY <2>1, <2>4, <3>1 DEF HasOneMore
    <2>8. y \in Build /\ y.graph.made \in Nat /\ Cardinality(OperatorsUpTo(p, k)) \in Nat
      <3>1. y \in Build /\ y.graph \in Graph
        BY <2>7 DEF Stands, Build
      <3> QED
        BY <1>1, <3>1, MadeIds, OperatorsCount
    <2>9. y.graph.made <= b.graph.made + Cardinality(OperatorsUpTo(p, k))
      <3>1. y.graph.made <= x.graph.made + 1
        BY <2>7
      <3>2. \A i, j, c, d \in Nat : i <= j + 1 /\ j + 1 <= c + d => i <= c + d
        OBVIOUS
      <3> QED
        BY <1>2, <2>5, <2>8, <3>1, <3>2
    <2>10. HasBuilt(b, p, w, V, at, k, y)
      BY <1>5, <2>7, <2>8, <2>9
    <2> QED
      BY <2>10 DEF y, w
  <1> QED
    BY <1>6, <1>7

\* The nodes of a pattern are built one after the other.
BuiltBy(f, b, p, s, w, V, at) ==
  /\ f[0] = b
  /\ \A k \in 0 .. Len(p) : HasBuilt(b, p, w, V, at, k, f[k])
  /\ \A k \in 1 .. Len(p) : f[k] = StepOf(p, s, k, f[k - 1])

LEMMA InstantiatedGoes ==
  ASSUME NEW b, NEW p, NEW s, NEW v, NEW V, NEW at, MayBuild(b, p, s, v, V, at)
  PROVE  \E f : BuiltBy(f, b, p, s, Worths(p, v), V, at) /\ Instantiated(b, p, s) = f[Len(p)]
  <1> DEFINE n == Len(p)
             Has(k, x) == HasBuilt(b, p, Worths(p, v), V, at, k, x)
             Follows(f) == \A k \in 1 .. n :
               f[k - 1] \in Build /\ StepOf(p, s, k, f[k - 1]) \in Build
                 => f[k] = StepOf(p, s, k, f[k - 1])
             F == [k \in 1 .. n |-> [x \in Build |->
                    IF StepOf(p, s, k, x) \in Build THEN StepOf(p, s, k, x) ELSE x]]
             Good(f) == f = [k \in 0 .. n |-> IF k = 0 THEN b ELSE StepOf(p, s, k, f[k - 1])]
  <1>1. n \in Nat \ {0} /\ IsPattern(p) /\ b \in Build /\ Stands(b, V, at) /\ b.ids = <<>>
    BY DEF MayBuild, IsPattern, Stands
  <1>2. \A k, x : Has(k, x) => x \in Build
    BY DEF HasBuilt, Stands
  <1>3. Has(0, b)
    <2>1. GoesOn(b, b)
      <3>1. b.graph.made \in Nat
        BY <1>1, MadeIds DEF Build
      <3> QED
        BY <3>1 DEF GoesOn
    <2>2. b.graph.made <= b.graph.made + Cardinality(OperatorsUpTo(p, 0))
      <3>1. Cardinality(OperatorsUpTo(p, 1 - 1)) \in Nat
        BY <1>1, OperatorsCount
      <3>2. b.graph.made \in Nat /\ 1 - 1 = 0
        BY <1>1, MadeIds DEF Build
      <3> QED
        BY <3>1, <3>2
    <2> QED
      BY <1>1, <2>1, <2>2 DEF HasBuilt
  <1>4. ASSUME NEW k \in 1 .. n, NEW x, Has(k - 1, x) PROVE Has(k, StepOf(p, s, k, x))
    BY <1>4, StepBuilds
  <1> HIDE DEF Has, n
  <1>5. ASSUME NEW f, f[0] = b, Follows(f) PROVE \A k \in 0 .. n : Has(k, f[k])
    <2> DEFINE P == {k \in 0 .. n : Has(k, f[k])}
    <2>1. 0 \in P
      BY <1>1, <1>3, <1>5
    <2>2. \A k \in 0 .. n - 1 : k \in P => k + 1 \in P
      <3> SUFFICES ASSUME NEW k \in 0 .. n - 1, k \in P PROVE k + 1 \in P
        OBVIOUS
      <3>1. k + 1 \in 1 .. n /\ (k + 1) - 1 = k /\ Has(k, f[k])
        BY <1>1
      <3>2. Has(k + 1, StepOf(p, s, k + 1, f[k]))
        BY <1>4, <3>1
      <3>3. f[k + 1] = StepOf(p, s, k + 1, f[k])
        BY <1>2, <1>5, <3>1, <3>2
      <3> QED
        BY <1>1, <3>1, <3>2, <3>3
    <2> HIDE DEF P
    <2>3. \A k \in 0 .. n : k \in P
      BY <1>1, <2>1, <2>2, CountingUp
    <2> QED
      BY <2>3 DEF P
  <1>6. PICK h : Walks(h, F, n, Build, b)
    <2>1. F \in [1 .. n -> [Build -> Build]]
      OBVIOUS
    <2> HIDE DEF F
    <2>2. Steps(F, n, Build, b)
      BY <1>1, <2>1 DEF Steps
    <2> QED
      BY <2>2, WalkExists
  <1>7. Follows(h) /\ h[0] = b
    <2> SUFFICES ASSUME NEW k \in 1 .. n, h[k - 1] \in Build,
                        StepOf(p, s, k, h[k - 1]) \in Build
                 PROVE  h[k] = StepOf(p, s, k, h[k - 1])
      BY <1>6 DEF Walks
    <2>1. h[k] = F[k][h[k - 1]]
      BY <1>6 DEF Walks
    <2> QED
      BY <2>1
  <1>8. Good(h)
    <2>1. \A k \in 0 .. n : Has(k, h[k])
      BY <1>5, <1>7
    <2>2. \A k \in 1 .. n : h[k] = StepOf(p, s, k, h[k - 1])
      <3> TAKE k \in 1 .. n
      <3>1. k - 1 \in 0 .. n
        BY <1>1
      <3>2. Has(k - 1, h[k - 1])
        BY <2>1, <3>1
      <3> QED
        BY <1>2, <1>4, <1>7, <3>2
    <2>3. h = [k \in 0 .. n |-> h[k]]
      BY <1>6 DEF Walks
    <2>4. \A k \in 0 .. n : h[k] = IF k = 0 THEN b ELSE StepOf(p, s, k, h[k - 1])
      <3> TAKE k \in 0 .. n
      <3>1. k # 0 => k \in 1 .. n
        BY <1>1
      <3> QED
        BY <1>7, <2>2, <3>1
    <2> QED
      BY <2>3, <2>4
  <1> DEFINE f == CHOOSE q : Good(q)
  <1>9. Good(f)
    <2> HIDE DEF Good
    <2> QED
      BY <1>8
  <1>10. Instantiated(b, p, s) = f[n]
    BY DEF Instantiated, StepOf, n
  <1> HIDE DEF f
  <1>11. f[0] = b /\ \A k \in 1 .. n : f[k] = StepOf(p, s, k, f[k - 1])
    <2>1. 0 \in 0 .. n /\ \A k \in 1 .. n : k \in 0 .. n /\ k # 0
      BY <1>1
    <2> QED
      BY <1>9, <2>1
  <1>12. \A k \in 0 .. n : Has(k, f[k])
    <2>1. f[0] = b /\ Follows(f)
      BY <1>11
    <2> QED
      BY <1>5, <2>1
  <1> HIDE DEF Follows, Good, F
  <1>13. BuiltBy(f, b, p, s, Worths(p, v), V, at)
    BY <1>11, <1>12 DEF BuiltBy, Has, n
  <1> QED
    BY <1>10, <1>13 DEF n

\* A pattern that is built keeps the graph sound and its terms congruent, gives each
\* of its nodes an id worth what the node is, moves nothing that was there, and
\* makes no more ids than it has operators (instantiate, pattern.rs:408-428).
THEOREM InstantiatedStands ==
  ASSUME NEW b, NEW p, NEW s, NEW v, NEW V, NEW at, MayBuild(b, p, s, v, V, at)
  PROVE  HasBuilt(b, p, Worths(p, v), V, at, Len(p), Instantiated(b, p, s))
  <1>1. PICK f : BuiltBy(f, b, p, s, Worths(p, v), V, at) /\ Instantiated(b, p, s) = f[Len(p)]
    BY InstantiatedGoes
  <1>2. Len(p) \in 0 .. Len(p)
    BY DEF MayBuild, IsPattern
  <1> QED
    BY <1>1, <1>2 DEF BuiltBy

----------------------------------------------------------------------------
(* The orders in which nodes, holes and substitutions are listed.           *)

\* Sequences of numbers, all of one length, in their lexical order.
LexOrder(n) == {e \in [1 .. n -> Nat] \X [1 .. n -> Nat] : LexBefore(e[1], e[2])}

LEMMA LexOrders ==
  ASSUME NEW n \in Nat
  PROVE  Orders(LexOrder(n), [1 .. n -> Nat])
  <1> DEFINE T == [1 .. n -> Nat]
             At(x, y, k) == x[k] < y[k] /\ \A j \in 1 .. k - 1 : x[j] = y[j]
  <1>1. \A x, y \in T : <<x, y>> \in LexOrder(n) <=> \E k \in 1 .. n : At(x, y, k)
    BY DEF LexOrder, LexBefore
  <1>2. ASSUME NEW x \in T, NEW y \in T, x # y
        PROVE  <<x, y>> \in LexOrder(n) \/ <<y, x>> \in LexOrder(n)
    <2> DEFINE D == {k \in 1 .. n : x[k] # y[k]}
    <2>1. D # {}
      BY <1>2
    <2>2. D \in SUBSET Nat
      OBVIOUS
    <2>3. PICK k \in D : \A j \in D : k <= j
      <3> HIDE DEF D
      <3> QED
        BY <2>1, <2>2, NatHasLeast
    <2>4. k \in 1 .. n /\ x[k] \in Nat /\ y[k] \in Nat /\ x[k] # y[k]
      OBVIOUS
    <2>5. \A j \in 1 .. k - 1 : x[j] = y[j]
      BY <2>3, <2>4
    <2>6. At(x, y, k) \/ At(y, x, k)
      BY <2>4, <2>5
    <2> HIDE DEF At
    <2> QED
      BY <1>1, <2>4, <2>6
  <1>3. ASSUME NEW x \in T, <<x, x>> \in LexOrder(n) PROVE FALSE
    BY <1>1, <1>3
  <1>4. ASSUME NEW x \in T, NEW y \in T, NEW z \in T,
               <<x, y>> \in LexOrder(n), <<y, z>> \in LexOrder(n)
        PROVE  <<x, z>> \in LexOrder(n)
    <2>1. PICK i \in 1 .. n : At(x, y, i)
      BY <1>1, <1>4
    <2>2. PICK j \in 1 .. n : At(y, z, j)
      BY <1>1, <1>4
    <2>3. CASE i < j
      <3>1. At(x, z, i)
        <4>1. i \in 1 .. j - 1 /\ \A d \in 1 .. i - 1 : d \in 1 .. j - 1
          BY <2>3
        <4> QED
          BY <2>1, <2>2, <4>1
      <3> HIDE DEF At
      <3> QED
        BY <1>1, <3>1
    <2>4. CASE j < i
      <3>1. At(x, z, j)
        <4>1. j \in 1 .. i - 1 /\ \A d \in 1 .. j - 1 : d \in 1 .. i - 1
          BY <2>4
        <4> QED
          BY <2>1, <2>2, <4>1
      <3> HIDE DEF At
      <3> QED
        BY <1>1, <3>1
    <2>5. CASE i = j
      <3>1. At(x, z, i)
        <4>1. x[i] \in Nat /\ y[i] \in Nat /\ z[i] \in Nat
          OBVIOUS
        <4> QED
          BY <2>1, <2>2, <2>5, <4>1
      <3> HIDE DEF At
      <3> QED
        BY <1>1, <3>1
    <2> QED
      BY <2>3, <2>4, <2>5
  <1> HIDE DEF T
  <1> QED
    BY <1>2, <1>3, <1>4 DEF Orders, T

\* What is told apart by its place in an order is in order.
LEMMA OrderedByKey ==
  ASSUME NEW T, NEW Q, Orders(Q, T), NEW S, NEW key \in [S -> T],
         \A x, y \in S : key[x] = key[y] => x = y
  PROVE  Orders({e \in S \X S : <<key[e[1]], key[e[2]]>> \in Q}, S)
  <1> DEFINE R == {e \in S \X S : <<key[e[1]], key[e[2]]>> \in Q}
  <1>1. \A x, y \in S : <<x, y>> \in R <=> <<key[x], key[y]>> \in Q
    OBVIOUS
  <1>2. \A x \in S : key[x] \in T
    OBVIOUS
  <1> HIDE DEF R
  <1>3. \A x, y \in S : x # y => <<x, y>> \in R \/ <<y, x>> \in R
    BY <1>1, <1>2 DEF Orders
  <1>4. \A x \in S : <<x, x>> \notin R
    BY <1>1, <1>2 DEF Orders
  <1>5. \A x, y, z \in S : <<x, y>> \in R /\ <<y, z>> \in R => <<x, z>> \in R
    BY <1>1, <1>2 DEF Orders
  <1>6. Orders(R, S)
    BY <1>3, <1>4, <1>5 DEF Orders
  <1> QED
    BY <1>6 DEF R

\* How many arguments the operator of a node takes.
ArityOf(op) == IF op \in Commutative THEN 2 ELSE IF op \in Unary THEN 1 ELSE 0

LEMMA NodesAreLong ==
  ASSUME NEW n \in Node
  PROVE  n.kids \in [1 .. ArityOf(n.op) -> Nat] /\ n = [op |-> n.op, kids |-> n.kids]
  <1>0. Id \subseteq Nat
    BY MaxIdsIsNat DEF Id
  <1>1. CASE n.op \in Var \cup Number /\ n = [op |-> n.op, kids |-> <<>>]
    <2>1. ArityOf(n.op) = 0 /\ n.kids = <<>>
      BY <1>1, OperatorsDiffer, HolesAreNoOperators DEF ArityOf
    <2>2. <<>> \in [1 .. 0 -> Nat]
      OBVIOUS
    <2> QED
      BY <1>1, <2>1, <2>2
  <1>2. CASE n.op \in Unary /\ \E i \in Id : n = [op |-> n.op, kids |-> <<i>>]
    <2>1. PICK i \in Id : n = [op |-> n.op, kids |-> <<i>>]
      BY <1>2
    <2>2. ArityOf(n.op) = 1 /\ n.kids = <<i>> /\ i \in Nat
      BY <1>0, <1>2, <2>1, OperatorsDiffer DEF ArityOf
    <2>3. <<i>> \in [1 .. 1 -> Nat]
      BY <2>2
    <2> QED
      BY <2>1, <2>2, <2>3
  <1>3. CASE n.op \in Commutative /\ \E i, j \in Id : n = [op |-> n.op, kids |-> <<i, j>>]
    <2>1. PICK i \in Id, j \in Id : n = [op |-> n.op, kids |-> <<i, j>>]
      BY <1>3
    <2>2. ArityOf(n.op) = 2 /\ n.kids = <<i, j>> /\ i \in Nat /\ j \in Nat
      BY <1>0, <1>3, <2>1 DEF ArityOf
    <2>3. <<i, j>> \in [1 .. 2 -> Nat]
      BY <2>2
    <2> QED
      BY <2>1, <2>2, <2>3
  <1> QED
    BY <1>1, <1>2, <1>3, NodeShape

\* The nodes of a class with one operator, in the order of their arguments.
LEMMA NodesWithLists ==
  ASSUME NEW g \in Graph, NEW c \in Id, IsFiniteSet(g.nodes[c]), NEW op
  PROVE  Lists(NodesWith(g, c, op), {n \in g.nodes[c] : n.op = op})
  <1> DEFINE S == {n \in g.nodes[c] : n.op = op}
             Q == LexOrder(ArityOf(op))
             key == [n \in S |-> n.kids]
             T == [1 .. ArityOf(op) -> Nat]
             R == {e \in S \X S : <<key[e[1]], key[e[2]]>> \in Q}
  <1>1. S \subseteq Node /\ IsFiniteSet(S)
    BY FS_Subset DEF Graph
  <1>2. ArityOf(op) \in Nat
    BY DEF ArityOf
  <1>3. Orders(Q, T)
    BY <1>2, LexOrders
  <1>4. key \in [S -> T] /\ \A x, y \in S : key[x] = key[y] => x = y
    <2>1. \A x \in S : x.kids \in T /\ x = [op |-> op, kids |-> x.kids]
      BY <1>1, NodesAreLong
    <2> QED
      BY <2>1
  <1>5. Orders(R, S)
    <2> HIDE DEF Q, T, key, S
    <2> QED
      BY <1>3, <1>4, OrderedByKey
  <1>6. ASSUME NEW x \in S PROVE {y \in S : y # x /\ LexBefore(y.kids, x.kids)} = LowerIn(R, S, x)
    <2>1. ASSUME NEW y \in S PROVE <<y, x>> \in R <=> LexBefore(y.kids, x.kids)
      <3>1. key[y] \in T /\ key[x] \in T /\ key[x] = x.kids /\ key[y] = y.kids
        BY <1>4
      <3> QED
        BY <3>1 DEF LexOrder
    <2> HIDE DEF R
    <2> QED
      BY <2>1 DEF LowerIn
  <1>7. NodesWith(g, c, op) = RankList(R, S)
    <2>1. NodesWith(g, c, op) = [k \in 1 .. Cardinality(S) |->
            CHOOSE x \in S : Cardinality({y \in S : y # x /\ LexBefore(y.kids, x.kids)}) = k - 1]
      BY DEF NodesWith, InOrderOf
    <2> HIDE DEF R, S
    <2>2. ASSUME NEW k \in 1 .. Cardinality(S), NEW x \in S
          PROVE  (Cardinality({y \in S : y # x /\ LexBefore(y.kids, x.kids)}) = k - 1)
                   <=> (Cardinality(LowerIn(R, S, x)) = k - 1)
      BY <1>6
    <2> QED
      BY <2>1, <2>2 DEF RankList
  <1> HIDE DEF R
  <1> QED
    BY <1>1, <1>5, <1>7, ListOfSet

\* Numbers in their order.
LEMMA NatOrders == Orders({e \in Nat \X Nat : e[1] < e[2]}, Nat)
  <1> DEFINE R == {e \in Nat \X Nat : e[1] < e[2]}
  <1>1. \A x, y \in Nat : <<x, y>> \in R <=> x < y
    OBVIOUS
  <1> HIDE DEF R
  <1>2. Orders(R, Nat)
    BY <1>1 DEF Orders
  <1> QED
    BY <1>2 DEF R

\* A sequence has finitely many elements, each at a place.
LEMMA ElementsOfSeq ==
  ASSUME NEW T, NEW f \in Seq(T)
  PROVE  /\ IsFiniteSet(ToSet(f)) /\ ToSet(f) \subseteq T
         /\ Len(f) \in Nat /\ DOMAIN f = 1 .. Len(f)
         /\ \A x : x \in ToSet(f) <=> \E k \in 1 .. Len(f) : f[k] = x
  <1>1. Len(f) \in Nat /\ DOMAIN f = 1 .. Len(f) /\ f \in [1 .. Len(f) -> T]
    OBVIOUS
  <1>2. \A x : x \in ToSet(f) <=> \E k \in 1 .. Len(f) : f[k] = x
    BY <1>1 DEF ToSet
  <1>3. ToSet(f) \subseteq T
    BY <1>1, <1>2
  <1>4. f \in Surjection(1 .. Len(f), ToSet(f))
    <2>1. f \in [1 .. Len(f) -> ToSet(f)]
      BY <1>1, <1>2
    <2> QED
      BY <1>2, <2>1 DEF Surjection
  <1>5. IsFiniteSet(1 .. Len(f))
    BY <1>1, FS_Interval
  <1> QED
    BY <1>1, <1>2, <1>3, <1>4, <1>5, FS_Surjection

LEMMA HolesAreRanked ==
  /\ IsFiniteSet(Hole)
  /\ \A h \in Hole : HoleRank(h) \in Nat
  /\ \A g, h \in Hole : HoleRank(g) = HoleRank(h) => g = h
  <1>1. Holes \in Seq(Hole) /\ Len(Holes) \in Nat /\ DOMAIN Holes = 1 .. Len(Holes)
    BY HolesAreNoOperators
  <1>2. Hole = {Holes[k] : k \in DOMAIN Holes}
    BY DEF Hole, ToSet
  <1>3. \A h \in Hole : HoleRank(h) \in DOMAIN Holes /\ Holes[HoleRank(h)] = h
    BY <1>2 DEF HoleRank
  <1>4. IsFiniteSet(Hole)
    BY <1>1, ElementsOfSeq DEF Hole
  <1> QED
    BY <1>1, <1>3, <1>4

\* The holes that are filled, in the order of their symbols.
LEMMA RankedLists ==
  ASSUME NEW s, DOMAIN s \in SUBSET Hole
  PROVE  Lists(Ranked(s), DOMAIN s)
  <1> DEFINE S == DOMAIN s
             Q == {e \in Nat \X Nat : e[1] < e[2]}
             key == [h \in S |-> HoleRank(h)]
             R == {e \in S \X S : <<key[e[1]], key[e[2]]>> \in Q}
  <1>1. IsFiniteSet(S)
    BY HolesAreRanked, FS_Subset
  <1>2. key \in [S -> Nat] /\ \A x, y \in S : key[x] = key[y] => x = y
    BY HolesAreRanked
  <1>3. Orders(R, S)
    <2>1. Orders(Q, Nat)
      BY NatOrders
    <2> HIDE DEF key, Q, S
    <2> QED
      BY <1>2, <2>1, OrderedByKey
  <1>4. ASSUME NEW x \in S
        PROVE  {y \in S : y # x /\ HoleRank(y) < HoleRank(x)} = LowerIn(R, S, x)
    <2>1. ASSUME NEW y \in S PROVE <<y, x>> \in R <=> HoleRank(y) < HoleRank(x)
      BY <1>2
    <2> HIDE DEF R
    <2> QED
      BY <2>1 DEF LowerIn
  <1>5. Ranked(s) = RankList(R, S)
    <2>1. Ranked(s) = [k \in 1 .. Cardinality(S) |->
            CHOOSE x \in S : Cardinality({y \in S : y # x /\ HoleRank(y) < HoleRank(x)}) = k - 1]
      BY DEF Ranked, InOrderOf
    <2> HIDE DEF R, S
    <2>2. ASSUME NEW k \in 1 .. Cardinality(S), NEW x \in S
          PROVE  (Cardinality({y \in S : y # x /\ HoleRank(y) < HoleRank(x)}) = k - 1)
                   <=> (Cardinality(LowerIn(R, S, x)) = k - 1)
      BY <1>4
    <2> QED
      BY <2>1, <2>2 DEF RankList
  <1> HIDE DEF R
  <1> QED
    BY <1>1, <1>3, <1>5, ListOfSet

\* The substitutions of one pattern, as they are sorted.
LEMMA SubstsAreListed ==
  ASSUME NEW D \in SUBSET Hole, NEW S \in SUBSET [D -> Id], IsFiniteSet(S)
  PROVE  Lists(InOrderOf(S, SubstBefore), S)
  <1>0. Id \subseteq Nat
    BY MaxIdsIsNat DEF Id
  <1>1. CASE S = {}
    <2>1. Cardinality(S) = 0
      BY <1>1, FS_EmptySet
    <2>2. InOrderOf(S, SubstBefore) = <<>>
      <3>1. 1 .. 0 = {}
        OBVIOUS
      <3>2. InOrderOf(S, SubstBefore) = [k \in 1 .. 0 |->
              CHOOSE x \in S : Cardinality({y \in S : y # x /\ SubstBefore(y, x)}) = k - 1]
        BY <2>1 DEF InOrderOf
      <3> QED
        BY <3>1, <3>2
    <2>3. Orders({}, S)
      BY <1>1 DEF Orders
    <2>4. RankList({}, S) = <<>>
      <3>1. RankList({}, S) = [k \in 1 .. 0 |->
              CHOOSE x \in S : Cardinality(LowerIn({}, S, x)) = k - 1]
        BY <2>1 DEF RankList
      <3> QED
        BY <3>1
    <2> QED
      BY <2>2, <2>3, <2>4, ListOfSet
  <1>2. CASE S # {}
    <2>1. PICK any \in S : TRUE
      BY <1>2
    <2>2. DOMAIN any = D
      BY <2>1
    <2> DEFINE r == Ranked(any)
               n == Cardinality(D)
    <2>3. Lists(r, D)
      BY <2>2, RankedLists
    <2>4. \A s \in S : DOMAIN s = D /\ Ranked(s) = r
      <3> TAKE s \in S
      <3>1. DOMAIN s = D
        OBVIOUS
      <3> QED
        BY <2>2, <3>1 DEF Ranked
    <2>5. n \in Nat /\ r \in [1 .. n -> D] /\ \A h \in D : \E k \in 1 .. n : r[k] = h
      BY <2>3 DEF Lists
    <2> HIDE DEF r, n
    <2> DEFINE Q == LexOrder(n)
               T == [1 .. n -> Nat]
               key == [s \in S |-> [k \in 1 .. n |-> s[r[k]]]]
               R == {e \in S \X S : <<key[e[1]], key[e[2]]>> \in Q}
    <2>6. Orders(Q, T)
      BY <2>5, LexOrders
    <2>7. key \in [S -> T]
      <3>1. ASSUME NEW s \in S PROVE [k \in 1 .. n |-> s[r[k]]] \in T
        <4>1. \A k \in 1 .. n : r[k] \in D
          BY <2>5
        <4>2. \A h \in D : s[h] \in Nat
          BY <1>0
        <4> QED
          BY <4>1, <4>2
      <3> QED
        BY <3>1
    <2>8. ASSUME NEW x \in S, NEW y \in S, key[x] = key[y] PROVE x = y
      <3>1. \A k \in 1 .. n : x[r[k]] = y[r[k]]
        BY <2>8
      <3>2. \A h \in D : x[h] = y[h]
        BY <2>5, <3>1
      <3> QED
        BY <3>2
    <2>9. Orders(R, S)
      <3> HIDE DEF Q, T, key
      <3> QED
        BY <2>6, <2>7, <2>8, OrderedByKey
    <2>10. ASSUME NEW x \in S, NEW y \in S PROVE SubstBefore(y, x) <=> <<y, x>> \in R
      <3>1. SubstBefore(y, x) <=> LexBefore([k \in 1 .. n |-> y[r[k]]], [k \in 1 .. n |-> x[r[k]]])
        BY <2>4, <2>5 DEF SubstBefore
      <3>2. key[x] \in T /\ key[y] \in T
        BY <2>7
      <3> QED
        BY <3>1, <3>2 DEF LexOrder
    <2>11. ASSUME NEW x \in S PROVE {y \in S : y # x /\ SubstBefore(y, x)} = LowerIn(R, S, x)
      <3> HIDE DEF R
      <3> QED
        BY <2>10 DEF LowerIn
    <2>12. InOrderOf(S, SubstBefore) = RankList(R, S)
      <3>1. InOrderOf(S, SubstBefore) = [k \in 1 .. Cardinality(S) |->
              CHOOSE x \in S : Cardinality({y \in S : y # x /\ SubstBefore(y, x)}) = k - 1]
        BY DEF InOrderOf
      <3> HIDE DEF R
      <3>2. ASSUME NEW k \in 1 .. Cardinality(S), NEW x \in S
            PROVE  (Cardinality({y \in S : y # x /\ SubstBefore(y, x)}) = k - 1)
                     <=> (Cardinality(LowerIn(R, S, x)) = k - 1)
        BY <2>11
      <3> QED
        BY <3>1, <3>2 DEF RankList
    <2> HIDE DEF R
    <2> QED
      BY <2>9, <2>12, ListOfSet
  <1> QED
    BY <1>1, <1>2

----------------------------------------------------------------------------
(* Matching, unfolded.                                                      *)

\* What goes on by the steps F wherever it is in S is a walk in S.
LEMMA WalkStays ==
  ASSUME NEW F, NEW n, NEW S, NEW x, Steps(F, n, S, x), NEW f, f[0] = x,
         \A i \in 1 .. n : f[i - 1] \in S => f[i] = F[i][f[i - 1]]
  PROVE  /\ \A i \in 0 .. n : f[i] \in S
         /\ \A i \in 1 .. n : f[i - 1] \in S /\ f[i] = F[i][f[i - 1]]
  <1> DEFINE P == {i \in 0 .. n : f[i] \in S}
  <1>1. n \in Nat /\ x \in S /\ F \in [1 .. n -> [S -> S]]
    BY DEF Steps
  <1>2. 0 \in P
    BY <1>1
  <1>3. \A i \in 0 .. n - 1 : i \in P => i + 1 \in P
    <2> SUFFICES ASSUME NEW i \in 0 .. n - 1, i \in P PROVE i + 1 \in P
      OBVIOUS
    <2>1. i + 1 \in 1 .. n /\ (i + 1) - 1 = i /\ f[i] \in S
      BY <1>1
    <2>2. f[i + 1] = F[i + 1][f[i]]
      BY <2>1
    <2>3. F[i + 1][f[i]] \in S
      BY <1>1, <2>1
    <2> QED
      BY <1>1, <2>1, <2>2, <2>3
  <1> HIDE DEF P
  <1>4. \A i \in 0 .. n : i \in P
    BY <1>1, <1>2, <1>3, CountingUp
  <1>5. \A i \in 0 .. n : f[i] \in S
    BY <1>4 DEF P
  <1>6. \A i \in 1 .. n : i - 1 \in 0 .. n
    BY <1>1
  <1> QED
    BY <1>5, <1>6

\* An outcome with other substitutions.
LEMMA OutcomeWith ==
  ASSUME NEW out \in Outcome, NEW q \in Seq(Subst)
  PROVE  /\ [out EXCEPT !.substs = q] \in Outcome
         /\ [out EXCEPT !.substs = q] =
              [substs |-> q, steps |-> out.steps, dry |-> out.dry, short |-> out.short]
         /\ out.substs \in Seq(Subst) /\ Len(out.substs) \in Nat
  BY DEF Outcome

\* Frontier: one substitution after the other.
FrontierBy(f, below, k, c, at) ==
  /\ f[0] = [at EXCEPT !.substs = <<>>]
  /\ \A i \in 0 .. Len(at.substs) : f[i] \in Outcome
  /\ \A i \in 1 .. Len(at.substs) : f[i] = below[k][<<c, at.substs[i], f[i - 1]>>]

LEMMA FrontierGoes ==
  ASSUME NEW below, NEW k, below[k] \in [Call -> Outcome], NEW c \in Id, NEW at \in Outcome
  PROVE  \E f : FrontierBy(f, below, k, c, at) /\ Frontier(below, k, c, at) = f[Len(at.substs)]
  <1> DEFINE n == Len(at.substs)
             x == [at EXCEPT !.substs = <<>>]
             F == [i \in 1 .. n |-> [o \in Outcome |-> below[k][<<c, at.substs[i], o>>]]]
             Good(f) == f = [i \in 0 .. n |->
               IF i = 0 THEN x ELSE below[k][<<c, at.substs[i], f[i - 1]>>]]
  <1>1. n \in Nat /\ x \in Outcome
    <2>1. <<>> \in Seq(Subst)
      OBVIOUS
    <2> QED
      BY <2>1, OutcomeWith
  <1>2. \A i \in 1 .. n : at.substs[i] \in Subst
    BY DEF Outcome
  <1>3. F \in [1 .. n -> [Outcome -> Outcome]]
    <2>1. \A i \in 1 .. n : \A o \in Outcome : <<c, at.substs[i], o>> \in Call
      BY <1>2 DEF Call
    <2> QED
      BY <2>1
  <1> HIDE DEF n, x
  <1>4. Steps(F, n, Outcome, x)
    BY <1>1, <1>3 DEF Steps
  <1>5. PICK h : Walks(h, F, n, Outcome, x)
    <2> HIDE DEF F
    <2> QED
      BY <1>4, WalkExists
  <1>6. Good(h)
    <2>1. h = [i \in 0 .. n |-> h[i]]
      BY <1>5 DEF Walks
    <2>2. \A i \in 0 .. n : h[i] = IF i = 0 THEN x ELSE below[k][<<c, at.substs[i], h[i - 1]>>]
      <3> TAKE i \in 0 .. n
      <3>1. CASE i = 0
        BY <1>5, <3>1 DEF Walks
      <3>2. CASE i # 0
        <4>1. i \in 1 .. n /\ i - 1 \in 0 .. n
          BY <1>1, <3>2
        <4>2. h[i - 1] \in Outcome /\ h[i] = F[i][h[i - 1]]
          BY <1>5, <4>1 DEF Walks
        <4> QED
          BY <3>2, <4>1, <4>2
      <3> QED
        BY <3>1, <3>2
    <2> QED
      BY <2>1, <2>2
  <1> DEFINE f == CHOOSE q : Good(q)
  <1>7. Good(f)
    <2> HIDE DEF Good
    <2> QED
      BY <1>6
  <1>8. Frontier(below, k, c, at) = f[n]
    BY DEF Frontier, n, x
  <1> HIDE DEF f
  <1>9. f[0] = x /\ \A i \in 1 .. n : f[i] = below[k][<<c, at.substs[i], f[i - 1]>>]
    BY <1>1, <1>7
  <1>10. \A i \in 1 .. n : f[i - 1] \in Outcome => f[i] = F[i][f[i - 1]]
    BY <1>9
  <1> HIDE DEF F, Good
  <1>11. \A i \in 0 .. n : f[i] \in Outcome
    BY <1>4, <1>9, <1>10, WalkStays
  <1>12. FrontierBy(f, below, k, c, at)
    BY <1>9, <1>11 DEF FrontierBy, n, x
  <1> QED
    BY <1>8, <1>12 DEF n

\* What a frontier makes is an outcome, and so is what is cut to the room there is.
LEMMA FrontierIsOutcome ==
  ASSUME NEW below, NEW k, below[k] \in [Call -> Outcome], NEW c \in Id, NEW at \in Outcome
  PROVE  Frontier(below, k, c, at) \in Outcome
  <1>1. PICK f : FrontierBy(f, below, k, c, at)
                   /\ Frontier(below, k, c, at) = f[Len(at.substs)]
    BY FrontierGoes
  <1>2. Len(at.substs) \in 0 .. Len(at.substs)
    BY DEF Outcome
  <1> QED
    BY <1>1, <1>2 DEF FrontierBy

LEMMA CappedIsOutcome ==
  ASSUME NEW out \in Outcome, NEW room \in Nat
  PROVE  /\ Capped(out, room) \in Outcome
         /\ Capped(out, room).dry = out.dry
         /\ out.short => Capped(out, room).short
         /\ ToSet(Capped(out, room).substs) \subseteq ToSet(out.substs)
         /\ ~ Capped(out, room).short => Capped(out, room) = out
  <1>1. CASE Len(out.substs) <= room
    <2>1. Capped(out, room) = out
      <3>1. Len(out.substs) \in Nat
        BY DEF Outcome
      <3> QED
        BY <1>1, <3>1 DEF Capped
    <2> QED
      BY <2>1
  <1>2. CASE Len(out.substs) > room
    <2> DEFINE q == SubSeq(out.substs, 1, room)
    <2>1. q \in Seq(Subst) /\ Len(q) = room /\ \A i \in 1 .. room : q[i] = out.substs[i]
      BY <1>2 DEF Outcome
    <2>2. Capped(out, room) = [out EXCEPT !.substs = q, !.short = TRUE]
      BY <1>2 DEF Capped
    <2> HIDE DEF q
    <2>3. Capped(out, room) \in Outcome /\ Capped(out, room).substs = q
          /\ Capped(out, room).short = TRUE /\ Capped(out, room).dry = out.dry
      BY <2>1, <2>2 DEF Outcome
    <2>4. ToSet(q) \subseteq ToSet(out.substs)
      <3>1. \A x : x \in ToSet(q) <=> \E i \in 1 .. room : q[i] = x
        BY <2>1, ElementsOfSeq
      <3>2. \A x : x \in ToSet(out.substs) <=> \E i \in 1 .. Len(out.substs) : out.substs[i] = x
        BY ElementsOfSeq DEF Outcome
      <3>3. \A i \in 1 .. room : i \in 1 .. Len(out.substs)
        BY <1>2 DEF Outcome
      <3> QED
        BY <2>1, <3>1, <3>2, <3>3
    <2> QED
      BY <2>3, <2>4
  <1>3. Len(out.substs) \in Nat
    BY DEF Outcome
  <1> QED
    BY <1>1, <1>2, <1>3

\* match_children: one argument after the other.
ChildrenBy(f, below, pats, args, s, out, lim) ==
  /\ f[0] = [out EXCEPT !.substs = <<s>>]
  /\ \A j \in 0 .. Len(pats) : f[j] \in Outcome
  /\ \A j \in 1 .. Len(pats) : f[j] = Frontier(below, pats[j], args[j], f[j - 1])
  /\ MatchChildren(below, pats, args, s, out, lim) =
       Capped([f[Len(pats)] EXCEPT !.substs = out.substs \o @], lim.perClass)

\* The arguments can be matched: the nodes below have matchers.
CanMatch(below, pats, args) ==
  /\ Len(pats) \in Nat
  /\ \A j \in 1 .. Len(pats) : below[pats[j]] \in [Call -> Outcome] /\ args[j] \in Id

LEMMA ChildrenGo ==
  ASSUME NEW below, NEW pats, NEW args, CanMatch(below, pats, args), NEW s \in Subst,
         NEW out \in Outcome, NEW lim
  PROVE  \E f : ChildrenBy(f, below, pats, args, s, out, lim)
  <1> DEFINE n == Len(pats)
             x == [out EXCEPT !.substs = <<s>>]
             F == [j \in 1 .. n |-> [o \in Outcome |-> Frontier(below, pats[j], args[j], o)]]
             Good(f) == f = [j \in 0 .. n |->
               IF j = 0 THEN x ELSE Frontier(below, pats[j], args[j], f[j - 1])]
  <1>1. n \in Nat /\ x \in Outcome
    <2>1. <<s>> \in Seq(Subst)
      OBVIOUS
    <2> QED
      BY <2>1, OutcomeWith DEF CanMatch
  <1>2. F \in [1 .. n -> [Outcome -> Outcome]]
    <2>1. \A j \in 1 .. n : \A o \in Outcome : Frontier(below, pats[j], args[j], o) \in Outcome
      BY FrontierIsOutcome DEF CanMatch
    <2> QED
      BY <2>1
  <1> HIDE DEF n, x
  <1>4. Steps(F, n, Outcome, x)
    BY <1>1, <1>2 DEF Steps
  <1>5. PICK h : Walks(h, F, n, Outcome, x)
    <2> HIDE DEF F
    <2> QED
      BY <1>4, WalkExists
  <1>6. Good(h)
    <2>1. h = [j \in 0 .. n |-> h[j]]
      BY <1>5 DEF Walks
    <2>2. \A j \in 0 .. n : h[j] = IF j = 0 THEN x ELSE Frontier(below, pats[j], args[j], h[j - 1])
      <3> TAKE j \in 0 .. n
      <3>1. CASE j = 0
        BY <1>5, <3>1 DEF Walks
      <3>2. CASE j # 0
        <4>1. j \in 1 .. n /\ j - 1 \in 0 .. n
          BY <1>1, <3>2
        <4>2. h[j - 1] \in Outcome /\ h[j] = F[j][h[j - 1]]
          BY <1>5, <4>1 DEF Walks
        <4> QED
          BY <3>2, <4>1, <4>2
      <3> QED
        BY <3>1, <3>2
    <2> QED
      BY <2>1, <2>2
  <1> DEFINE f == CHOOSE q : Good(q)
  <1>7. Good(f)
    <2> HIDE DEF Good
    <2> QED
      BY <1>6
  <1>8. MatchChildren(below, pats, args, s, out, lim) =
          Capped([f[n] EXCEPT !.substs = out.substs \o @], lim.perClass)
    BY DEF MatchChildren, n, x
  <1> HIDE DEF f
  <1>9. f[0] = x /\ \A j \in 1 .. n : f[j] = Frontier(below, pats[j], args[j], f[j - 1])
    BY <1>1, <1>7
  <1>10. \A j \in 1 .. n : f[j - 1] \in Outcome => f[j] = F[j][f[j - 1]]
    BY <1>9
  <1> HIDE DEF F, Good
  <1>11. \A j \in 0 .. n : f[j] \in Outcome
    BY <1>4, <1>9, <1>10, WalkStays
  <1>12. ChildrenBy(f, below, pats, args, s, out, lim)
    BY <1>8, <1>9, <1>11 DEF ChildrenBy, n, x
  <1> QED
    BY <1>12

LEMMA ChildrenAreOutcome ==
  ASSUME NEW below, NEW pats, NEW args, CanMatch(below, pats, args), NEW s \in Subst,
         NEW out \in Outcome, NEW lim, lim.perClass \in Nat
  PROVE  MatchChildren(below, pats, args, s, out, lim) \in Outcome
  <1>1. PICK f : ChildrenBy(f, below, pats, args, s, out, lim)
    BY ChildrenGo
  <1>2. f[Len(pats)] \in Outcome
    BY <1>1 DEF ChildrenBy, CanMatch
  <1>3. out.substs \o f[Len(pats)].substs \in Seq(Subst)
    BY <1>2 DEF Outcome
  <1>4. [f[Len(pats)] EXCEPT !.substs = out.substs \o @] \in Outcome
    BY <1>2, <1>3, OutcomeWith
  <1> QED
    BY <1>1, <1>4, CappedIsOutcome DEF ChildrenBy

\* A node of the graph is read for node k of the pattern, whose arguments have
\* matchers.
CanRead(below, p, k, n, lim) ==
  /\ IsPattern(p) /\ k \in DOMAIN p /\ ~ IsHole(p, k)
  /\ \A j \in 1 .. k - 1 : below[j] \in [Call -> Outcome]
  /\ n \in Node /\ n.op = p[k].op /\ lim.perClass \in Nat

LEMMA ReadsMatch ==
  ASSUME NEW below, NEW p, NEW k, NEW n, NEW lim, CanRead(below, p, k, n, lim),
         NEW args \in ArgsOf(n)
  PROVE  /\ CanMatch(below, p[k].kids, args) /\ DOMAIN p[k].kids = 1 .. Len(p[k].kids)
         /\ \A j \in 1 .. Len(p[k].kids) : args[j] \in Kids(n)
  <1>1. IsPattern(p) /\ k \in DOMAIN p /\ ~ IsHole(p, k) /\ n \in Node /\ n.op = p[k].op
    BY DEF CanRead
  <1>2. /\ DOMAIN p[k].kids = 1 .. Len(p[k].kids) /\ Len(p[k].kids) \in Nat
        /\ \A j \in 1 .. Len(p[k].kids) : args[j] \in Id /\ args[j] \in Kids(n)
    <2>1. CASE p[k].kids = <<>>
      BY <2>1
    <2>2. ASSUME NEW i \in Id, n.kids = <<i>>, NEW a \in 1 .. k - 1, p[k].kids = <<a>>
          PROVE  /\ DOMAIN p[k].kids = 1 .. Len(p[k].kids) /\ Len(p[k].kids) \in Nat
                 /\ \A j \in 1 .. Len(p[k].kids) : args[j] \in Id /\ args[j] \in Kids(n)
      <3>1. args = <<i>>
        BY <1>1, <2>2, ArgsOfShape
      <3> QED
        BY <2>2, <3>1 DEF Kids
    <2>3. ASSUME NEW i \in Id, NEW j \in Id, n.kids = <<i, j>>, NEW a \in 1 .. k - 1,
                 NEW b \in 1 .. k - 1, p[k].kids = <<a, b>>
          PROVE  /\ DOMAIN p[k].kids = 1 .. Len(p[k].kids) /\ Len(p[k].kids) \in Nat
                 /\ \A d \in 1 .. Len(p[k].kids) : args[d] \in Id /\ args[d] \in Kids(n)
      <3>1. args = <<i, j>> \/ args = <<j, i>>
        BY <1>1, <2>3, ArgsOfShape
      <3> QED
        BY <2>3, <3>1 DEF Kids
    <2> QED
      BY <1>1, <2>1, <2>2, <2>3, SameTable
  <1>3. \A j \in 1 .. Len(p[k].kids) : p[k].kids[j] \in 1 .. k - 1
    BY <1>1, <1>2, KidsAreBelow
  <1> QED
    BY <1>2, <1>3 DEF CanMatch, CanRead

LEMMA ENodeIsOutcome ==
  ASSUME NEW below, NEW p, NEW k, NEW n, NEW lim, CanRead(below, p, k, n, lim),
         NEW s \in Subst, NEW out \in Outcome
  PROVE  MatchENode(below, p[k], n, s, out, lim) \in Outcome
  <1>1. CASE out.dry
    BY <1>1 DEF MatchENode
  <1>2. CASE p[k].kids = <<>> /\ ~ out.dry
    <2>1. Append(out.substs, s) \in Seq(Subst)
      BY DEF Outcome
    <2>2. Push(out, s) \in Outcome
      BY <2>1, OutcomeWith DEF Push
    <2> QED
      BY <1>2, <2>2 DEF MatchENode
  <1>3. CASE p[k].kids # <<>> /\ ~ out.dry
    <2> DEFINE stored == MatchChildren(below, p[k].kids, n.kids, s, out, lim)
    <2>1. n.kids \in ArgsOf(n) /\ (Turns(n) => <<n.kids[2], n.kids[1]>> \in ArgsOf(n))
      BY DEF ArgsOf
    <2>2. lim.perClass \in Nat
      BY DEF CanRead
    <2>3. stored \in Outcome
      BY <2>1, <2>2, ReadsMatch, ChildrenAreOutcome
    <2> HIDE DEF stored
    <2>4. Turns(n) =>
            MatchChildren(below, p[k].kids, <<n.kids[2], n.kids[1]>>, s, stored, lim) \in Outcome
      BY <2>1, <2>2, <2>3, ReadsMatch, ChildrenAreOutcome
    <2> QED
      BY <1>3, <2>3, <2>4 DEF MatchENode, stored
  <1> QED
    BY <1>1, <1>2, <1>3 DEF Outcome

\* The nodes of a class one after the other.
RunBy(f, below, node, run, s, out, lim) ==
  /\ f[0] = out
  /\ \A i \in 0 .. Len(run) : f[i] \in Outcome
  /\ \A i \in 1 .. Len(run) : f[i] = MatchENode(below, node, run[i], s, f[i - 1], lim)
  /\ MatchRun(below, node, run, s, out, lim) = f[Len(run)]

CanRun(below, p, k, run, lim) ==
  /\ IsPattern(p) /\ k \in DOMAIN p /\ ~ IsHole(p, k)
  /\ \A j \in 1 .. k - 1 : below[j] \in [Call -> Outcome]
  /\ Len(run) \in Nat /\ \A i \in 1 .. Len(run) : run[i] \in Node /\ run[i].op = p[k].op
  /\ lim.perClass \in Nat

LEMMA RunGoes ==
  ASSUME NEW below, NEW p, NEW k, NEW run, NEW lim, CanRun(below, p, k, run, lim),
         NEW s \in Subst, NEW out \in Outcome
  PROVE  \E f : RunBy(f, below, p[k], run, s, out, lim)
  <1> DEFINE n == Len(run)
             F == [i \in 1 .. n |-> [o \in Outcome |-> MatchENode(below, p[k], run[i], s, o, lim)]]
             Good(f) == f = [i \in 0 .. n |->
               IF i = 0 THEN out ELSE MatchENode(below, p[k], run[i], s, f[i - 1], lim)]
  <1>1. n \in Nat
    BY DEF CanRun
  <1>2. F \in [1 .. n -> [Outcome -> Outcome]]
    <2>1. \A i \in 1 .. n : CanRead(below, p, k, run[i], lim)
      BY DEF CanRun, CanRead
    <2>2. \A i \in 1 .. n : \A o \in Outcome :
            MatchENode(below, p[k], run[i], s, o, lim) \in Outcome
      BY <2>1, ENodeIsOutcome
    <2> QED
      BY <2>2
  <1> HIDE DEF n
  <1>4. Steps(F, n, Outcome, out)
    BY <1>1, <1>2 DEF Steps
  <1>5. PICK h : Walks(h, F, n, Outcome, out)
    <2> HIDE DEF F
    <2> QED
      BY <1>4, WalkExists
  <1>6. Good(h)
    <2>1. h = [i \in 0 .. n |-> h[i]]
      BY <1>5 DEF Walks
    <2>2. \A i \in 0 .. n : h[i] = IF i = 0 THEN out
                                   ELSE MatchENode(below, p[k], run[i], s, h[i - 1], lim)
      <3> TAKE i \in 0 .. n
      <3>1. CASE i = 0
        BY <1>5, <3>1 DEF Walks
      <3>2. CASE i # 0
        <4>1. i \in 1 .. n /\ i - 1 \in 0 .. n
          BY <1>1, <3>2
        <4>2. h[i - 1] \in Outcome /\ h[i] = F[i][h[i - 1]]
          BY <1>5, <4>1 DEF Walks
        <4> QED
          BY <3>2, <4>1, <4>2
      <3> QED
        BY <3>1, <3>2
    <2> QED
      BY <2>1, <2>2
  <1> DEFINE f == CHOOSE q : Good(q)
  <1>7. Good(f)
    <2> HIDE DEF Good
    <2> QED
      BY <1>6
  <1>8. MatchRun(below, p[k], run, s, out, lim) = f[n]
    BY DEF MatchRun, n
  <1> HIDE DEF f
  <1>9. /\ f[0] = out
        /\ \A i \in 1 .. n : f[i] = MatchENode(below, p[k], run[i], s, f[i - 1], lim)
    BY <1>1, <1>7
  <1>10. \A i \in 1 .. n : f[i - 1] \in Outcome => f[i] = F[i][f[i - 1]]
    BY <1>9
  <1> HIDE DEF F, Good
  <1>11. \A i \in 0 .. n : f[i] \in Outcome
    BY <1>4, <1>9, <1>10, WalkStays
  <1>12. RunBy(f, below, p[k], run, s, out, lim)
    BY <1>8, <1>9, <1>11 DEF RunBy, n
  <1> QED
    BY <1>12

FiniteNodes(g) == \A c \in Id : IsFiniteSet(g.nodes[c])

\* The nodes of a class with the operator of node k can be run through.
LEMMA ClassRuns ==
  ASSUME NEW g \in Graph, FiniteNodes(g), NEW p, IsPattern(p), NEW k \in DOMAIN p,
         ~ IsHole(p, k), NEW c \in Id, NEW lim, lim.perClass \in Nat,
         NEW below, \A j \in 1 .. k - 1 : below[j] \in [Call -> Outcome]
  PROVE  LET run == NodesWith(g, Find(g, c), p[k].op)
         IN  /\ CanRun(below, p, k, run, lim)
             /\ \A n : (\E i \in 1 .. Len(run) : run[i] = n)
                         <=> n \in g.nodes[Find(g, c)] /\ n.op = p[k].op
  <1> DEFINE d == Find(g, c)
             S == {n \in g.nodes[d] : n.op = p[k].op}
             run == NodesWith(g, d, p[k].op)
  <1>1. d \in Id /\ g.nodes[d] \subseteq Node
    <2>1. d \in Id
      BY MadeIds DEF Find
    <2> HIDE DEF d
    <2> QED
      BY <2>1 DEF Graph
  <1> HIDE DEF d
  <1>2. Lists(run, S)
    BY <1>1, NodesWithLists DEF FiniteNodes
  <1> HIDE DEF run
  <1>3. /\ Len(run) \in Nat /\ \A i \in 1 .. Len(run) : run[i] \in S
        /\ \A n \in S : \E i \in 1 .. Len(run) : run[i] = n
    BY <1>2 DEF Lists
  <1>4. CanRun(below, p, k, run, lim)
    BY <1>1, <1>3 DEF CanRun
  <1> QED
    BY <1>3, <1>4 DEF run, d

LEMMA MatchNodeIsOutcome ==
  ASSUME NEW g \in Graph, FiniteNodes(g), NEW p, IsPattern(p), NEW k \in DOMAIN p,
         NEW lim, lim.perClass \in Nat,
         NEW below, \A j \in 1 .. k - 1 : below[j] \in [Call -> Outcome],
         NEW c \in Id, NEW s \in Subst, NEW out \in Outcome
  PROVE  MatchNode(g, p[k], below, c, s, out, lim) \in Outcome
  <1> DEFINE spent == [out EXCEPT !.steps = @ - 1]
             new == MatchNode(g, p[k], below, c, s, out, lim)
  <1>1. CASE Len(out.substs) >= lim.perClass
    BY <1>1 DEF MatchNode, Outcome
  <1>2. CASE ~ (Len(out.substs) >= lim.perClass) /\ out.steps = 0
    BY <1>2 DEF MatchNode, Outcome
  <1>3. CASE ~ (Len(out.substs) >= lim.perClass) /\ out.steps # 0
    <2>1. spent \in Outcome
      BY <1>3 DEF Outcome
    <2>2. CASE IsHole(p, k)
      <3>1. new = IF Binds(g, s, p[k].op, c) THEN Push(spent, Bound(g, s, p[k].op, c)) ELSE spent
        BY <1>3, <2>2 DEF MatchNode, IsHole
      <3> HIDE DEF spent, new
      <3>2. Bound(g, s, p[k].op, c) \in Subst
        <4>1. PICK D \in SUBSET Hole : s \in [D -> Id]
          BY DEF Subst
        <4>2. Find(g, c) \in Id /\ p[k].op \in Hole
          BY <2>2, MadeIds DEF Find, IsHole
        <4>3. Bound(g, s, p[k].op, c) \in [D \cup {p[k].op} -> Id]
          BY <4>1, <4>2 DEF Bound
        <4> QED
          BY <4>1, <4>2, <4>3 DEF Subst
      <3>3. Append(spent.substs, Bound(g, s, p[k].op, c)) \in Seq(Subst)
        BY <2>1, <3>2 DEF Outcome
      <3>4. Push(spent, Bound(g, s, p[k].op, c)) \in Outcome
        BY <2>1, <3>3, OutcomeWith DEF Push
      <3>5. new \in Outcome
        BY <2>1, <3>1, <3>4
      <3> QED
        BY <3>5 DEF new
    <2>3. CASE ~ IsHole(p, k)
      <3> DEFINE run == NodesWith(g, Find(g, c), p[k].op)
      <3>1. new = MatchRun(below, p[k], run, s, spent, lim)
        BY <1>3, <2>3 DEF MatchNode, IsHole
      <3>2. CanRun(below, p, k, run, lim)
        BY <2>3, ClassRuns
      <3> HIDE DEF run, spent, new
      <3>3. PICK f : RunBy(f, below, p[k], run, s, spent, lim)
        BY <2>1, <3>2, RunGoes
      <3>4. new \in Outcome
        BY <3>1, <3>2, <3>3 DEF RunBy, CanRun
      <3> QED
        BY <3>4 DEF new
    <2> QED
      BY <2>2, <2>3
  <1> QED
    BY <1>1, <1>2, <1>3

\* Matching a node asks the matchers of its arguments and no other.
LEMMA WalksAgree ==
  ASSUME NEW n \in Nat, NEW f, NEW h, f[0] = h[0],
         \A i \in 1 .. n : f[i - 1] = h[i - 1] => f[i] = h[i]
  PROVE  f[n] = h[n]
  <1> DEFINE P == {i \in 0 .. n : f[i] = h[i]}
  <1>1. 0 \in P
    OBVIOUS
  <1>2. \A i \in 0 .. n - 1 : i \in P => i + 1 \in P
    <2> SUFFICES ASSUME NEW i \in 0 .. n - 1, i \in P PROVE i + 1 \in P
      OBVIOUS
    <2>1. i + 1 \in 1 .. n /\ (i + 1) - 1 = i
      OBVIOUS
    <2> QED
      BY <2>1
  <1> HIDE DEF P
  <1>3. \A i \in 0 .. n : i \in P
    BY <1>1, <1>2, CountingUp
  <1>4. n \in P
    BY <1>3
  <1> QED
    BY <1>4 DEF P

FrontierOf(matcher, c, at) ==
  LET after[i \in 0 .. Len(at.substs)] ==
        IF i = 0 THEN [at EXCEPT !.substs = <<>>]
        ELSE matcher[<<c, at.substs[i], after[i - 1]>>]
  IN  after[Len(at.substs)]

LEMMA FrontierIsLocal ==
  ASSUME NEW f, NEW h, NEW k, f[k] = h[k], NEW c, NEW at
  PROVE  Frontier(f, k, c, at) = Frontier(h, k, c, at)
  <1>1. Frontier(f, k, c, at) = FrontierOf(f[k], c, at)
    BY DEF Frontier, FrontierOf
  <1>2. Frontier(h, k, c, at) = FrontierOf(h[k], c, at)
    BY DEF Frontier, FrontierOf
  <1> QED
    BY <1>1, <1>2

LEMMA ChildrenAreLocal ==
  ASSUME NEW f, NEW h, NEW pats, NEW args, CanMatch(f, pats, args), CanMatch(h, pats, args),
         \A j \in 1 .. Len(pats) : f[pats[j]] = h[pats[j]],
         NEW s \in Subst, NEW out \in Outcome, NEW lim
  PROVE  MatchChildren(f, pats, args, s, out, lim) = MatchChildren(h, pats, args, s, out, lim)
  <1>1. PICK x : ChildrenBy(x, f, pats, args, s, out, lim)
    BY ChildrenGo
  <1>2. PICK y : ChildrenBy(y, h, pats, args, s, out, lim)
    BY ChildrenGo
  <1>3. \A j \in 1 .. Len(pats) : x[j - 1] = y[j - 1] => x[j] = y[j]
    <2> TAKE j \in 1 .. Len(pats)
    <2>1. Frontier(f, pats[j], args[j], x[j - 1]) = Frontier(h, pats[j], args[j], x[j - 1])
      BY FrontierIsLocal
    <2> QED
      BY <1>1, <1>2, <2>1 DEF ChildrenBy
  <1>4. x[0] = y[0] /\ Len(pats) \in Nat
    BY <1>1, <1>2 DEF ChildrenBy, CanMatch
  <1>5. x[Len(pats)] = y[Len(pats)]
    BY <1>3, <1>4, WalksAgree
  <1> QED
    BY <1>1, <1>2, <1>5 DEF ChildrenBy

LEMMA ENodeIsLocal ==
  ASSUME NEW f, NEW h, NEW p, NEW k, NEW n, NEW lim, CanRead(f, p, k, n, lim),
         CanRead(h, p, k, n, lim), \A j \in 1 .. k - 1 : f[j] = h[j],
         NEW s \in Subst, NEW out \in Outcome
  PROVE  MatchENode(f, p[k], n, s, out, lim) = MatchENode(h, p[k], n, s, out, lim)
  <1>1. n.kids \in ArgsOf(n) /\ (Turns(n) => <<n.kids[2], n.kids[1]>> \in ArgsOf(n))
    BY DEF ArgsOf
  <1>2. \A j \in 1 .. Len(p[k].kids) : p[k].kids[j] \in 1 .. k - 1
    BY <1>1, ReadsMatch, KidsAreBelow DEF CanRead
  <1>3. \A j \in 1 .. Len(p[k].kids) : f[p[k].kids[j]] = h[p[k].kids[j]]
    BY <1>2
  <1>4. ASSUME NEW args \in ArgsOf(n), NEW o \in Outcome
        PROVE  /\ MatchChildren(f, p[k].kids, args, s, o, lim)
                    = MatchChildren(h, p[k].kids, args, s, o, lim)
               /\ MatchChildren(f, p[k].kids, args, s, o, lim) \in Outcome
    <2>1. CanMatch(f, p[k].kids, args) /\ CanMatch(h, p[k].kids, args)
      BY ReadsMatch
    <2>2. lim.perClass \in Nat
      BY DEF CanRead
    <2> QED
      BY <1>3, <2>1, <2>2, ChildrenAreLocal, ChildrenAreOutcome
  <1> QED
    BY <1>1, <1>4 DEF MatchENode

LEMMA MatchNodeIsLocal ==
  ASSUME NEW g \in Graph, FiniteNodes(g), NEW p, IsPattern(p), NEW k \in DOMAIN p,
         NEW lim, lim.perClass \in Nat,
         NEW f, \A j \in 1 .. k - 1 : f[j] \in [Call -> Outcome],
         NEW h, \A j \in 1 .. k - 1 : f[j] = h[j],
         NEW c \in Id, NEW s \in Subst, NEW out \in Outcome
  PROVE  MatchNode(g, p[k], f, c, s, out, lim) = MatchNode(g, p[k], h, c, s, out, lim)
  <1> DEFINE spent == [out EXCEPT !.steps = @ - 1]
             run == NodesWith(g, Find(g, c), p[k].op)
  <1>1. CASE Len(out.substs) >= lim.perClass \/ out.steps = 0 \/ p[k].op \in Hole
    BY <1>1 DEF MatchNode
  <1>2. CASE ~ (Len(out.substs) >= lim.perClass \/ out.steps = 0 \/ p[k].op \in Hole)
    <2>1. spent \in Outcome
      BY <1>2 DEF Outcome
    <2>2. ~ IsHole(p, k) /\ \A j \in 1 .. k - 1 : h[j] \in [Call -> Outcome]
      BY <1>2 DEF IsHole
    <2>3. CanRun(f, p, k, run, lim) /\ CanRun(h, p, k, run, lim)
      BY <2>2, ClassRuns
    <2> HIDE DEF run, spent
    <2>4. MatchRun(f, p[k], run, s, spent, lim) = MatchRun(h, p[k], run, s, spent, lim)
      <3>1. PICK x : RunBy(x, f, p[k], run, s, spent, lim)
        BY <2>1, <2>3, RunGoes
      <3>2. PICK y : RunBy(y, h, p[k], run, s, spent, lim)
        BY <2>1, <2>3, RunGoes
      <3>3. ASSUME NEW i \in 1 .. Len(run), x[i - 1] = y[i - 1] PROVE x[i] = y[i]
        <4>1. CanRead(f, p, k, run[i], lim) /\ CanRead(h, p, k, run[i], lim)
          BY <2>3 DEF CanRun, CanRead
        <4>2. x[i - 1] \in Outcome
          BY <2>3, <3>1 DEF RunBy, CanRun
        <4>3. MatchENode(f, p[k], run[i], s, x[i - 1], lim)
                = MatchENode(h, p[k], run[i], s, x[i - 1], lim)
          BY <4>1, <4>2, ENodeIsLocal
        <4> QED
          BY <3>1, <3>2, <3>3, <4>3 DEF RunBy
      <3>4. x[0] = y[0] /\ Len(run) \in Nat
        BY <2>3, <3>1, <3>2 DEF RunBy, CanRun
      <3>5. x[Len(run)] = y[Len(run)]
        BY <3>3, <3>4, WalksAgree
      <3> QED
        BY <3>1, <3>2, <3>5 DEF RunBy
    <2> QED
      BY <1>2, <2>4 DEF MatchNode, run, spent
  <1> QED
    BY <1>1, <1>2

\* The matcher of a pattern: match_node, from below.
LEMMA MatcherGoes ==
  ASSUME NEW g \in Graph, FiniteNodes(g), NEW p, IsPattern(p), NEW lim, lim.perClass \in Nat
  PROVE  \A k \in DOMAIN p :
           /\ Matcher(g, p, lim)[k] \in [Call -> Outcome]
           /\ \A c \in Id, s \in Subst, out \in Outcome :
                Matcher(g, p, lim)[k][<<c, s, out>>] =
                  MatchNode(g, p[k], Matcher(g, p, lim), c, s, out, lim)
  <1> DEFINE n == Len(p)
             S == [Call -> Outcome]
             At(f, k) == [call \in Call |-> MatchNode(g, p[k], f, call[1], call[2], call[3], lim)]
             F == [k \in 1 .. n |-> [f \in [1 .. n -> S] |-> At(f, k)]]
             Good(f) == f = [k \in DOMAIN p |-> At(f, k)]
  <1>1. n \in Nat \ {0} /\ DOMAIN p = 1 .. n
    BY DEF IsPattern
  <1>2. ASSUME NEW k \in 1 .. n, NEW f, \A j \in 1 .. k - 1 : f[j] \in S PROVE At(f, k) \in S
    <2>1. ASSUME NEW call \in Call
          PROVE  MatchNode(g, p[k], f, call[1], call[2], call[3], lim) \in Outcome
      <3>1. call[1] \in Id /\ call[2] \in Subst /\ call[3] \in Outcome
        BY DEF Call
      <3> QED
        BY <1>1, <1>2, <3>1, MatchNodeIsOutcome
    <2> QED
      BY <2>1
  <1>3. ASSUME NEW k \in 1 .. n, NEW f, \A j \in 1 .. k - 1 : f[j] \in S,
               NEW h, \A j \in 1 .. k - 1 : f[j] = h[j]
        PROVE  At(f, k) = At(h, k)
    <2>1. ASSUME NEW call \in Call
          PROVE  MatchNode(g, p[k], f, call[1], call[2], call[3], lim)
                   = MatchNode(g, p[k], h, call[1], call[2], call[3], lim)
      <3>1. call[1] \in Id /\ call[2] \in Subst /\ call[3] \in Outcome
        BY DEF Call
      <3> QED
        <4>1. \A j \in 1 .. k - 1 : f[j] \in [Call -> Outcome]
          BY <1>3
        <4>2. \A j \in 1 .. k - 1 : f[j] = h[j]
          BY <1>3
        <4>3. k \in DOMAIN p
          BY <1>1
        <4> HIDE DEF n
        <4> QED
          BY <3>1, <4>1, <4>2, <4>3, MatchNodeIsLocal
    <2> QED
      BY <2>1
  <1> HIDE DEF n, S
  <1>4. \A k \in 1 .. n : \A f \in [1 .. n -> S] : \A j \in 1 .. k - 1 : f[j] \in S
    BY <1>1
  <1>5. F \in [1 .. n -> [[1 .. n -> S] -> S]]
    <2>1. \A k \in 1 .. n : \A f \in [1 .. n -> S] : At(f, k) \in S
      BY <1>2, <1>4
    <2> HIDE DEF At
    <2> QED
      BY <2>1
  <1> HIDE DEF At
  <1>6. Local(F, n, S)
    <2>1. \A k \in 1 .. n : \A f \in [1 .. n -> S] : F[k][f] = At(f, k)
      OBVIOUS
    <2> HIDE DEF F
    <2>2. ASSUME NEW k \in 1 .. n, NEW f \in [1 .. n -> S], NEW h \in [1 .. n -> S],
                 \A j \in 1 .. k - 1 : f[j] = h[j]
          PROVE  F[k][f] = F[k][h]
      <3>1. \A j \in 1 .. k - 1 : f[j] \in S
        BY <1>4
      <3>2. At(f, k) = At(h, k)
        BY <1>3, <2>2, <3>1
      <3> QED
        BY <2>1, <3>2
    <2> QED
      BY <2>2 DEF Local
  <1>7. S # {}
    <2>1. 1 \in 1 .. n /\ \A f : \A j \in 1 .. 1 - 1 : f[j] \in S
      BY <1>1
    <2> QED
      BY <1>2, <2>1
  <1>8. PICK f : Solves(f, F, n, S)
    <2>1. Recursion(F, n, S)
      <3> HIDE DEF F
      <3> QED
        BY <1>1, <1>5, <1>6, <1>7 DEF Recursion
    <2> HIDE DEF F
    <2> QED
      BY <2>1, RecursionExists
  <1>9. Good(f)
    <2>1. f \in [1 .. n -> S] /\ \A k \in 1 .. n : f[k] = At(f, k)
      BY <1>8 DEF Solves
    <2> HIDE DEF F
    <2> QED
      BY <1>1, <2>1
  <1>10. Matcher(g, p, lim) = CHOOSE h : Good(h)
    BY DEF Matcher, At
  <1> DEFINE M == Matcher(g, p, lim)
             P == {k \in 1 .. n : M[k] \in S}
  <1>11. Good(M)
    <2> HIDE DEF Good
    <2> QED
      BY <1>9, <1>10
  <1> HIDE DEF M
  <1>12. \A k \in 1 .. n : M[k] = At(M, k)
    BY <1>1, <1>11
  <1>13. ASSUME NEW k \in 1 .. n, \A j \in 1 .. k - 1 : j \in P PROVE k \in P
    <2>1. \A j \in 1 .. k - 1 : M[j] \in S
      BY <1>13
    <2>2. At(M, k) \in S
      BY <1>2, <2>1
    <2> QED
      BY <1>12, <2>2
  <1> HIDE DEF P, F, Good
  <1>14. \A k \in 1 .. n : k \in P
    BY <1>1, <1>13, FromBelow
  <1>15. ASSUME NEW k \in 1 .. n, NEW c \in Id, NEW s \in Subst, NEW out \in Outcome
         PROVE  M[k][<<c, s, out>>] = MatchNode(g, p[k], M, c, s, out, lim)
    <2> DEFINE call == <<c, s, out>>
    <2>1. call \in Call /\ call[1] = c /\ call[2] = s /\ call[3] = out
      BY DEF Call
    <2> HIDE DEF call
    <2>2. M[k][call] = MatchNode(g, p[k], M, call[1], call[2], call[3], lim)
      BY <1>12, <2>1 DEF At
    <2> QED
      BY <2>1, <2>2 DEF call
  <1> QED
    BY <1>1, <1>14, <1>15 DEF P, S, M

----------------------------------------------------------------------------
(* What matching finds.                                                     *)

\* The substitutions of S, and no others, were found on the way from out to new,
\* but for those that a want of steps or of room has lost.
Finds(out, new, S) ==
  /\ out \in Outcome /\ new \in Outcome
  /\ out.dry => new.dry
  /\ out.short => new.short
  /\ ToSet(new.substs) \subseteq ToSet(out.substs) \cup S
  /\ ~ new.dry /\ ~ new.short => ToSet(out.substs) \cup S \subseteq ToSet(new.substs)

LEMMA WithSubsts ==
  ASSUME NEW out \in Outcome, NEW q \in Seq(Subst), NEW x, x = [out EXCEPT !.substs = q]
  PROVE  x \in Outcome /\ x.substs = q /\ x.dry = out.dry /\ x.short = out.short
  <1>1. x \in Outcome
    BY OutcomeWith
  <1>2. x = [substs |-> q, steps |-> out.steps, dry |-> out.dry, short |-> out.short]
    BY OutcomeWith
  <1> QED
    BY <1>1, <1>2

LEMMA FindsMore ==
  ASSUME NEW out, NEW mid, NEW new, NEW A, NEW B, Finds(out, mid, A), Finds(mid, new, B)
  PROVE  Finds(out, new, A \cup B)
  <1>1. ToSet(new.substs) \subseteq ToSet(out.substs) \cup (A \cup B)
    BY DEF Finds
  <1>2. ~ new.dry /\ ~ new.short => ~ mid.dry /\ ~ mid.short
    BY DEF Finds
  <1>3. ~ new.dry /\ ~ new.short => ToSet(out.substs) \cup (A \cup B) \subseteq ToSet(new.substs)
    BY <1>2 DEF Finds
  <1> QED
    BY <1>1, <1>3 DEF Finds

LEMMA FindsNone ==
  ASSUME NEW out \in Outcome
  PROVE  Finds(out, out, {}) /\ (out.dry \/ out.short => \A S : Finds(out, out, S))
  BY DEF Finds

\* What is in two sequences, and in one with an element more.
LEMMA ElementsOfBoth ==
  ASSUME NEW T, NEW a \in Seq(T), NEW b \in Seq(T)
  PROVE  a \o b \in Seq(T) /\ ToSet(a \o b) = ToSet(a) \cup ToSet(b)
  <1>1. a \o b \in Seq(T) /\ Len(a \o b) = Len(a) + Len(b)
    OBVIOUS
  <1>2. /\ Len(a) \in Nat /\ Len(b) \in Nat
        /\ \A i \in 1 .. Len(a) : (a \o b)[i] = a[i]
        /\ \A i \in 1 .. Len(b) : (a \o b)[Len(a) + i] = b[i]
    OBVIOUS
  <1>3. /\ \A x : x \in ToSet(a) <=> \E k \in 1 .. Len(a) : a[k] = x
        /\ \A x : x \in ToSet(b) <=> \E k \in 1 .. Len(b) : b[k] = x
        /\ \A x : x \in ToSet(a \o b) <=> \E k \in 1 .. Len(a \o b) : (a \o b)[k] = x
    BY <1>1, ElementsOfSeq
  <1>4. ASSUME NEW x \in ToSet(a) PROVE x \in ToSet(a \o b)
    <2>1. PICK k \in 1 .. Len(a) : a[k] = x
      BY <1>3
    <2>2. k \in 1 .. Len(a \o b) /\ (a \o b)[k] = x
      BY <1>1, <1>2, <2>1
    <2> QED
      BY <1>3, <2>2
  <1>5. ASSUME NEW x \in ToSet(b) PROVE x \in ToSet(a \o b)
    <2>1. PICK k \in 1 .. Len(b) : b[k] = x
      BY <1>3
    <2>2. Len(a) + k \in 1 .. Len(a \o b) /\ (a \o b)[Len(a) + k] = x
      BY <1>1, <1>2, <2>1
    <2> QED
      BY <1>3, <2>2
  <1>6. ASSUME NEW x \in ToSet(a \o b) PROVE x \in ToSet(a) \cup ToSet(b)
    <2>1. PICK k \in 1 .. Len(a \o b) : (a \o b)[k] = x
      BY <1>3
    <2>2. CASE k <= Len(a)
      <3>1. k \in 1 .. Len(a) /\ a[k] = x
        BY <1>2, <2>1, <2>2
      <3> QED
        BY <1>3, <3>1
    <2>3. CASE k > Len(a)
      <3> DEFINE i == k - Len(a)
      <3>1. i \in 1 .. Len(b) /\ k = Len(a) + i
        BY <1>1, <1>2, <2>1, <2>3
      <3>2. b[i] = x
        BY <1>2, <2>1, <3>1
      <3> QED
        BY <1>3, <3>1, <3>2
    <2> QED
      BY <1>1, <1>2, <2>1, <2>2, <2>3
  <1> QED
    BY <1>1, <1>4, <1>5, <1>6

LEMMA ElementsOfOneMore ==
  ASSUME NEW T, NEW a \in Seq(T), NEW x \in T
  PROVE  Append(a, x) \in Seq(T) /\ ToSet(Append(a, x)) = ToSet(a) \cup {x}
  <1> DEFINE b == <<x>>
  <1>1. Append(a, x) = a \o b /\ b \in Seq(T)
    OBVIOUS
  <1>2. ToSet(b) = {x}
    BY DEF ToSet
  <1> HIDE DEF b
  <1> QED
    BY <1>1, <1>2, ElementsOfBoth

LEMMA FindsOne ==
  ASSUME NEW out \in Outcome, NEW s \in Subst
  PROVE  Finds(out, Push(out, s), {s})
  <1>1. out.substs \in Seq(Subst)
    BY DEF Outcome
  <1>2. /\ Append(out.substs, s) \in Seq(Subst)
        /\ ToSet(Append(out.substs, s)) = ToSet(out.substs) \cup {s}
    BY <1>1, ElementsOfOneMore
  <1>3. /\ Push(out, s) \in Outcome
        /\ Push(out, s) = [substs |-> Append(out.substs, s), steps |-> out.steps,
                           dry |-> out.dry, short |-> out.short]
    BY <1>2, OutcomeWith DEF Push
  <1> QED
    BY <1>2, <1>3 DEF Finds

AllOf(Q, n) == UNION {Q[i] : i \in 1 .. n}

\* A walk whose steps find the sets Q finds them all.
LEMMA WalkFinds ==
  ASSUME NEW n \in Nat, NEW f, f[0] \in Outcome, NEW Q,
         \A i \in 1 .. n : Finds(f[i - 1], f[i], Q[i])
  PROVE  Finds(f[0], f[n], AllOf(Q, n))
  <1> DEFINE U(m) == UNION {Q[i] : i \in 1 .. m}
             P == {m \in 0 .. n : Finds(f[0], f[m], U(m))}
  <1>1. 0 \in P
    <2>1. U(0) = {}
      OBVIOUS
    <2> HIDE DEF U
    <2> QED
      BY <2>1, FindsNone
  <1>2. \A m \in 0 .. n - 1 : m \in P => m + 1 \in P
    <2> SUFFICES ASSUME NEW m \in 0 .. n - 1, m \in P PROVE m + 1 \in P
      OBVIOUS
    <2>1. m + 1 \in 1 .. n /\ (m + 1) - 1 = m
      OBVIOUS
    <2>2. Finds(f[m], f[m + 1], Q[m + 1])
      BY <2>1
    <2>3. U(m + 1) = U(m) \cup Q[m + 1]
      <3>1. 1 .. m + 1 = (1 .. m) \cup {m + 1}
        OBVIOUS
      <3> QED
        BY <3>1
    <2> HIDE DEF U
    <2>4. Finds(f[0], f[m + 1], U(m) \cup Q[m + 1])
      BY <2>2, FindsMore
    <2>5. Finds(f[0], f[m + 1], U(m + 1))
      BY <2>3, <2>4
    <2>6. m + 1 \in 0 .. n
      OBVIOUS
    <2> QED
      BY <2>5, <2>6
  <1> HIDE DEF P, U
  <1>3. \A m \in 0 .. n : m \in P
    BY <1>1, <1>2, CountingUp
  <1>4. n \in P
    BY <1>3
  <1> QED
    BY <1>4 DEF P, U, AllOf

\* A graph in which ids lead to classes, and nodes are over ids.
Proper(g) ==
  /\ g \in Graph /\ FiniteNodes(g)
  /\ \A i \in Made(g) : g.leader[i] \in Classes(g)
  /\ \A c \in Classes(g) : g.leader[c] = c /\ \A n \in g.nodes[c] : Kids(n) \subseteq Made(g)

ClassSubst(g) == UNION {[filled -> Classes(g)] : filled \in SUBSET Hole}

LEMMA ClassSubsts ==
  ASSUME NEW g, Proper(g)
  PROVE  /\ ClassSubst(g) \subseteq Subst /\ Classes(g) \subseteq Made(g) /\ Made(g) \subseteq Id
         /\ \A s : s \in ClassSubst(g) <=>
              /\ DOMAIN s \in SUBSET Hole /\ s = [h \in DOMAIN s |-> s[h]]
              /\ \A h \in DOMAIN s : s[h] \in Classes(g)
  <1>1. Made(g) \subseteq Id /\ Classes(g) \subseteq Made(g)
    BY MadeIds DEF Proper, Classes
  <1>2. ASSUME NEW s \in ClassSubst(g)
        PROVE  /\ s \in Subst /\ DOMAIN s \in SUBSET Hole /\ s = [h \in DOMAIN s |-> s[h]]
               /\ \A h \in DOMAIN s : s[h] \in Classes(g)
    <2>1. PICK D \in SUBSET Hole : s \in [D -> Classes(g)]
      BY DEF ClassSubst
    <2>2. s \in [D -> Id]
      BY <1>1, <2>1
    <2> QED
      BY <2>1, <2>2 DEF Subst
  <1>3. ASSUME NEW s, DOMAIN s \in SUBSET Hole, s = [h \in DOMAIN s |-> s[h]],
               \A h \in DOMAIN s : s[h] \in Classes(g)
        PROVE  s \in ClassSubst(g)
    <2>1. s \in [DOMAIN s -> Classes(g)]
      BY <1>3
    <2> QED
      BY <1>3, <2>1 DEF ClassSubst
  <1> QED
    BY <1>1, <1>2, <1>3

\* The ways to go on from s so that node k of the pattern denotes a term of c.
Meets(g, p, k, c, s) ==
  {t \in ClassSubst(g) :
     /\ DOMAIN t = DOMAIN s \cup HolesUnder(p, k)
     /\ \A h \in DOMAIN s : t[h] = s[h]
     /\ Find(g, c) \in Denoted(g, p, t)[k]}

\* The same of the first j arguments of node k.
HolesTo(p, k, j) == UNION {HolesUnder(p, p[k].kids[i]) : i \in 1 .. j}

MeetsArgs(g, p, k, args, s, j) ==
  {t \in ClassSubst(g) :
     /\ DOMAIN t = DOMAIN s \cup HolesTo(p, k, j)
     /\ \A h \in DOMAIN s : t[h] = s[h]
     /\ \A i \in 1 .. j : Find(g, args[i]) \in Denoted(g, p, t)[p[k].kids[i]]}

LEMMA MeetsOfNone ==
  ASSUME NEW g, Proper(g), NEW p, NEW k, NEW args, NEW s \in ClassSubst(g)
  PROVE  MeetsArgs(g, p, k, args, s, 0) = {s}
  <1>1. HolesTo(p, k, 0) = {}
    BY DEF HolesTo
  <1>2. s \in MeetsArgs(g, p, k, args, s, 0)
    BY <1>1 DEF MeetsArgs
  <1>3. ASSUME NEW t \in MeetsArgs(g, p, k, args, s, 0) PROVE t = s
    <2>1. t \in ClassSubst(g) /\ DOMAIN t = DOMAIN s /\ \A h \in DOMAIN s : t[h] = s[h]
      BY <1>1 DEF MeetsArgs
    <2>2. t = [h \in DOMAIN t |-> t[h]] /\ s = [h \in DOMAIN s |-> s[h]]
      BY <2>1, ClassSubsts
    <2> QED
      BY <2>1, <2>2
  <1> QED
    BY <1>2, <1>3

LEMMA MeetsOfNext ==
  ASSUME NEW g, Proper(g), NEW p, IsPattern(p), NEW k \in DOMAIN p, NEW args,
         NEW s \in ClassSubst(g), NEW j \in Nat \ {0},
         \A i \in 1 .. j : p[k].kids[i] \in DOMAIN p
  PROVE  \A u : u \in MeetsArgs(g, p, k, args, s, j) <=>
           \E t \in MeetsArgs(g, p, k, args, s, j - 1) :
             u \in Meets(g, p, p[k].kids[j], args[j], t)
  <1> DEFINE kid(i) == p[k].kids[i]
             A == MeetsArgs(g, p, k, args, s, j - 1)
             B == MeetsArgs(g, p, k, args, s, j)
  <1>1. g \in Graph
    BY DEF Proper
  <1>2. HolesTo(p, k, j) = HolesTo(p, k, j - 1) \cup HolesUnder(p, kid(j))
    <2>1. 1 .. j = (1 .. j - 1) \cup {j}
      OBVIOUS
    <2> QED
      BY <2>1 DEF HolesTo
  <1>3. ASSUME NEW i \in 1 .. j, NEW t, NEW u,
               \A h \in HolesUnder(p, kid(i)) : t[h] = u[h]
        PROVE  Denoted(g, p, t)[kid(i)] = Denoted(g, p, u)[kid(i)]
    <2>1. \A m \in DOMAIN p : (\A h \in HolesUnder(p, m) : t[h] = u[h])
            => Denoted(g, p, t)[m] = Denoted(g, p, u)[m]
      BY <1>1, DenotedIsLocal
    <2>2. kid(i) \in DOMAIN p
      OBVIOUS
    <2> HIDE DEF kid
    <2> QED
      BY <1>3, <2>1, <2>2
  <1>4. \A i \in 1 .. j - 1 : i \in 1 .. j /\ HolesUnder(p, kid(i)) \subseteq HolesTo(p, k, j - 1)
    BY DEF HolesTo
  <1>5. j \in 1 .. j /\ \A i \in 1 .. j : i = j \/ i \in 1 .. j - 1
    OBVIOUS
  <1> HIDE DEF kid
  <1>6. ASSUME NEW t \in A, NEW u \in Meets(g, p, kid(j), args[j], t) PROVE u \in B
    <2>1. /\ u \in ClassSubst(g) /\ DOMAIN u = DOMAIN t \cup HolesUnder(p, kid(j))
          /\ \A h \in DOMAIN t : u[h] = t[h]
          /\ Find(g, args[j]) \in Denoted(g, p, u)[kid(j)]
      BY DEF Meets
    <2>2. /\ DOMAIN t = DOMAIN s \cup HolesTo(p, k, j - 1)
          /\ \A h \in DOMAIN s : t[h] = s[h]
          /\ \A i \in 1 .. j - 1 : Find(g, args[i]) \in Denoted(g, p, t)[kid(i)]
      BY DEF MeetsArgs, kid
    <2>3. \A i \in 1 .. j - 1 : Denoted(g, p, t)[kid(i)] = Denoted(g, p, u)[kid(i)]
      BY <1>3, <1>4, <2>1, <2>2
    <2>4. \A i \in 1 .. j : Find(g, args[i]) \in Denoted(g, p, u)[kid(i)]
      BY <1>5, <2>1, <2>2, <2>3
    <2>5. DOMAIN u = DOMAIN s \cup HolesTo(p, k, j) /\ \A h \in DOMAIN s : u[h] = s[h]
      BY <1>2, <2>1, <2>2
    <2> QED
      BY <2>1, <2>4, <2>5 DEF MeetsArgs, kid
  <1>7. ASSUME NEW u \in B PROVE \E t \in A : u \in Meets(g, p, kid(j), args[j], t)
    <2> DEFINE D == DOMAIN s \cup HolesTo(p, k, j - 1)
               t == [h \in D |-> u[h]]
    <2>1. /\ u \in ClassSubst(g) /\ DOMAIN u = DOMAIN s \cup HolesTo(p, k, j)
          /\ \A h \in DOMAIN s : u[h] = s[h]
          /\ \A i \in 1 .. j : Find(g, args[i]) \in Denoted(g, p, u)[kid(i)]
      BY DEF MeetsArgs, kid
    <2>2. DOMAIN t = D /\ (\A h \in D : t[h] = u[h]) /\ D \subseteq DOMAIN u
      BY <1>2, <2>1
    <2>3. t \in ClassSubst(g)
      <3>1. DOMAIN u \in SUBSET Hole /\ \A h \in DOMAIN u : u[h] \in Classes(g)
        BY <2>1, ClassSubsts
      <3>2. t = [h \in DOMAIN t |-> t[h]]
        OBVIOUS
      <3> HIDE DEF t
      <3> QED
        BY <2>2, <3>1, <3>2, ClassSubsts
    <2> HIDE DEF t
    <2>4. \A i \in 1 .. j - 1 : Denoted(g, p, t)[kid(i)] = Denoted(g, p, u)[kid(i)]
      BY <1>3, <1>4, <2>2
    <2>5. t \in A
      <3>1. \A i \in 1 .. j - 1 : Find(g, args[i]) \in Denoted(g, p, t)[kid(i)]
        BY <1>4, <2>1, <2>4
      <3>2. \A h \in DOMAIN s : t[h] = s[h]
        BY <2>1, <2>2
      <3> QED
        BY <2>2, <2>3, <3>1, <3>2 DEF MeetsArgs, kid
    <2>6. u \in Meets(g, p, kid(j), args[j], t)
      <3>1. DOMAIN u = DOMAIN t \cup HolesUnder(p, kid(j))
        BY <1>2, <2>1, <2>2
      <3>2. \A h \in DOMAIN t : u[h] = t[h]
        BY <2>2
      <3>3. Find(g, args[j]) \in Denoted(g, p, u)[kid(j)]
        BY <1>5, <2>1
      <3> QED
        BY <2>1, <3>1, <3>2, <3>3 DEF Meets
    <2> QED
      BY <2>5, <2>6
  <1> QED
    BY <1>6, <1>7 DEF kid

\* A hole is met by the class itself, if it may be.
LEMMA MeetsOfHole ==
  ASSUME NEW g, Proper(g), NEW p, IsPattern(p), NEW k \in DOMAIN p, IsHole(p, k),
         NEW c \in Made(g), NEW s \in ClassSubst(g)
  PROVE  /\ Bound(g, s, p[k].op, c) \in ClassSubst(g)
         /\ Meets(g, p, k, c, s) =
              IF Binds(g, s, p[k].op, c) THEN {Bound(g, s, p[k].op, c)} ELSE {}
  <1> DEFINE h == p[k].op
             b == Bound(g, s, h, c)
             d == Find(g, c)
  <1>1. g \in Graph /\ d \in Classes(g) /\ h \in Hole /\ HolesUnder(p, k) = {h}
    BY HolesParts DEF Proper, Find
  <1>2. /\ DOMAIN s \in SUBSET Hole /\ s = [i \in DOMAIN s |-> s[i]]
        /\ \A i \in DOMAIN s : s[i] \in Classes(g) /\ Find(g, s[i]) = s[i]
    BY ClassSubsts DEF Proper, Find
  <1>3. \A t : Denoted(g, p, t)[k] = {t[h]}
    BY <1>1, DenotedArgs
  <1> HIDE DEF h, d
  <1>4. /\ DOMAIN b = DOMAIN s \cup {h}
        /\ \A i \in DOMAIN s : b[i] = s[i]
        /\ h \notin DOMAIN s => b[h] = d
        /\ b = [i \in DOMAIN b |-> b[i]]
    BY DEF Bound, d
  <1>5. Binds(g, s, h, c) <=> h \notin DOMAIN s \/ s[h] = d
    BY <1>2 DEF Binds, d
  <1> HIDE DEF b
  <1>6. b \in ClassSubst(g)
    <2>1. DOMAIN b \in SUBSET Hole /\ \A i \in DOMAIN b : b[i] \in Classes(g)
      BY <1>1, <1>2, <1>4
    <2> QED
      BY <1>4, <2>1, ClassSubsts
  <1>7. ASSUME NEW t \in Meets(g, p, k, c, s) PROVE Binds(g, s, h, c) /\ t = b
    <2>1. /\ t \in ClassSubst(g) /\ DOMAIN t = DOMAIN s \cup {h}
          /\ (\A i \in DOMAIN s : t[i] = s[i]) /\ d = t[h]
      BY <1>1, <1>3 DEF Meets, d
    <2>2. Binds(g, s, h, c)
      BY <1>5, <2>1
    <2>3. t = [i \in DOMAIN t |-> t[i]]
      BY <2>1, ClassSubsts
    <2>4. \A i \in DOMAIN t : t[i] = b[i]
      BY <1>4, <2>1
    <2> QED
      BY <1>4, <2>1, <2>2, <2>3, <2>4
  <1>8. Binds(g, s, h, c) => b \in Meets(g, p, k, c, s)
    <2> SUFFICES ASSUME Binds(g, s, h, c) PROVE b \in Meets(g, p, k, c, s)
      OBVIOUS
    <2>1. b[h] = d
      BY <1>4, <1>5
    <2> QED
      BY <1>1, <1>3, <1>4, <1>6, <2>1 DEF Meets, d
  <1> QED
    BY <1>6, <1>7, <1>8 DEF b, h

\* The matcher of node k finds the ways to go on, and no others.
Exact(g, p, below, k) ==
  \A c \in Made(g), s \in ClassSubst(g), out \in Outcome :
    Finds(out, below[k][<<c, s, out>>], Meets(g, p, k, c, s))

LEMMA FrontierFinds ==
  ASSUME NEW g, Proper(g), NEW p, NEW below, NEW k, below[k] \in [Call -> Outcome],
         Exact(g, p, below, k), NEW c \in Made(g), NEW at \in Outcome,
         ToSet(at.substs) \subseteq ClassSubst(g)
  PROVE  Finds([at EXCEPT !.substs = <<>>], Frontier(below, k, c, at),
               UNION {Meets(g, p, k, c, t) : t \in ToSet(at.substs)})
  <1> DEFINE q == at.substs
             n == Len(at.substs)
             Q == [i \in 1 .. n |-> Meets(g, p, k, c, q[i])]
  <1>1. c \in Id /\ q \in Seq(Subst) /\ n \in Nat
    BY MadeIds DEF Proper, Outcome
  <1>2. PICK f : FrontierBy(f, below, k, c, at) /\ Frontier(below, k, c, at) = f[n]
    BY <1>1, FrontierGoes
  <1>3. \A t : t \in ToSet(q) <=> \E i \in 1 .. n : q[i] = t
    BY <1>1, ElementsOfSeq
  <1>4. /\ f[0] = [at EXCEPT !.substs = <<>>]
        /\ \A i \in 0 .. n : f[i] \in Outcome
        /\ \A i \in 1 .. n : f[i] = below[k][<<c, q[i], f[i - 1]>>]
    BY <1>2 DEF FrontierBy
  <1> HIDE DEF q, n
  <1>5. ASSUME NEW i \in 1 .. n PROVE Finds(f[i - 1], f[i], Q[i])
    <2>1. q[i] \in ClassSubst(g)
      BY <1>3 DEF q
    <2>2. i - 1 \in 0 .. n
      BY <1>1
    <2>3. f[i - 1] \in Outcome
      BY <1>4, <2>2
    <2>4. Finds(f[i - 1], below[k][<<c, q[i], f[i - 1]>>], Meets(g, p, k, c, q[i]))
      BY <2>1, <2>3 DEF Exact
    <2> QED
      BY <1>4, <2>4
  <1>6. AllOf(Q, n) = UNION {Meets(g, p, k, c, t) : t \in ToSet(q)}
    BY <1>3 DEF AllOf
  <1> HIDE DEF Q
  <1>7. f[0] \in Outcome
    BY <1>1, <1>4
  <1>8. Finds(f[0], f[n], AllOf(Q, n))
    BY <1>1, <1>5, <1>7, WalkFinds
  <1> QED
    BY <1>2, <1>4, <1>6, <1>8 DEF q

\* The arguments of a node of a graph, in an order to match them.
MayRead(g, below, p, k, n, lim) ==
  /\ Proper(g) /\ CanRead(below, p, k, n, lim) /\ Kids(n) \subseteq Made(g)
  /\ \A j \in 1 .. k - 1 : Exact(g, p, below, j)

LEMMA ChildrenFind ==
  ASSUME NEW g, NEW below, NEW p, NEW k, NEW n, NEW lim, MayRead(g, below, p, k, n, lim),
         NEW args \in ArgsOf(n), NEW s \in ClassSubst(g), NEW out \in Outcome
  PROVE  Finds(out, MatchChildren(below, p[k].kids, args, s, out, lim),
               MeetsArgs(g, p, k, args, s, Len(p[k].kids)))
  <1> DEFINE kids == p[k].kids
             L == Len(kids)
             M(j) == MeetsArgs(g, p, k, args, s, j)
             o == [out EXCEPT !.substs = <<>>]
  <1>1. /\ Proper(g) /\ CanRead(below, p, k, n, lim) /\ IsPattern(p) /\ k \in DOMAIN p
        /\ \A j \in 1 .. k - 1 : Exact(g, p, below, j) /\ below[j] \in [Call -> Outcome]
    BY DEF MayRead, CanRead
  <1>2. /\ CanMatch(below, kids, args) /\ DOMAIN kids = 1 .. L /\ L \in Nat
        /\ \A j \in 1 .. L : args[j] \in Made(g)
    BY <1>1, ReadsMatch DEF MayRead, CanMatch
  <1>3. \A j \in 1 .. L : kids[j] \in 1 .. k - 1 /\ kids[j] \in DOMAIN p
    BY <1>1, <1>2, KidsAreBelow
  <1>4. s \in Subst /\ \A j : M(j) \subseteq ClassSubst(g)
    BY <1>1, ClassSubsts DEF MeetsArgs
  <1>5. PICK f : ChildrenBy(f, below, kids, args, s, out, lim)
    BY <1>2, <1>4, ChildrenGo
  <1>6. /\ f[0] = [out EXCEPT !.substs = <<s>>]
        /\ \A j \in 0 .. L : f[j] \in Outcome
        /\ \A j \in 1 .. L : f[j] = Frontier(below, kids[j], args[j], f[j - 1])
        /\ MatchChildren(below, kids, args, s, out, lim) =
             Capped([f[L] EXCEPT !.substs = out.substs \o @], lim.perClass)
    BY <1>5 DEF ChildrenBy
  <1>7. /\ <<>> \in Seq(Subst) /\ <<s>> \in Seq(Subst)
        /\ ToSet(<<>>) = {} /\ ToSet(<<s>>) = {s}
    BY <1>4 DEF ToSet
  <1>8. /\ o \in Outcome /\ o.substs = <<>> /\ o.dry = out.dry /\ o.short = out.short
        /\ f[0] \in Outcome /\ f[0].substs = <<s>> /\ f[0].dry = out.dry
        /\ f[0].short = out.short
    <2> DEFINE one == [out EXCEPT !.substs = <<s>>]
    <2>1. o \in Outcome /\ o.substs = <<>> /\ o.dry = out.dry /\ o.short = out.short
      BY <1>7, WithSubsts
    <2>2. one \in Outcome /\ one.substs = <<s>> /\ one.dry = out.dry /\ one.short = out.short
      BY <1>7, WithSubsts
    <2>3. f[0] = one
      BY <1>6
    <2> HIDE DEF o, one
    <2> QED
      BY <2>1, <2>2, <2>3
  <1>9. M(0) = {s}
    BY <1>1, MeetsOfNone
  <1> HIDE DEF M, o
  <1>10. Finds(o, f[0], M(0))
    BY <1>7, <1>8, <1>9 DEF Finds
  <1>11. \A j \in 0 .. L - 1 : Finds(o, f[j], M(j)) => Finds(o, f[j + 1], M(j + 1))
    <2> SUFFICES ASSUME NEW j \in 0 .. L - 1, Finds(o, f[j], M(j))
                 PROVE  Finds(o, f[j + 1], M(j + 1))
      OBVIOUS
    <2>1. j + 1 \in 1 .. L /\ (j + 1) - 1 = j /\ j \in 0 .. L /\ j + 1 \in Nat \ {0}
      BY <1>2
    <2> DEFINE at == f[j]
               new == f[j + 1]
               K == kids[j + 1]
               U == UNION {Meets(g, p, K, args[j + 1], t) : t \in ToSet(at.substs)}
    <2>2. /\ at \in Outcome /\ new \in Outcome
          /\ new = Frontier(below, K, args[j + 1], at)
          /\ at.substs \in Seq(Subst)
      <3>1. at \in Outcome /\ new \in Outcome
        BY <1>2, <1>6, <2>1
      <3> QED
        BY <1>6, <2>1, <3>1 DEF Outcome
    <2>3. /\ ToSet(at.substs) \subseteq M(j)
          /\ ~ at.dry /\ ~ at.short => M(j) \subseteq ToSet(at.substs)
          /\ o.dry => at.dry
          /\ o.short => at.short
      BY <1>7, <1>8 DEF Finds
    <2>4. \A u : u \in M(j + 1) <=> \E t \in M(j) : u \in Meets(g, p, K, args[j + 1], t)
      <3>1. \A i \in 1 .. j + 1 : p[k].kids[i] \in DOMAIN p
        <4>1. \A i \in 1 .. j + 1 : i \in 1 .. L
          BY <1>2
        <4> HIDE DEF L
        <4> QED
          BY <1>3, <4>1
      <3> QED
        BY <1>1, <2>1, <3>1, MeetsOfNext DEF M
    <2>5. Finds([at EXCEPT !.substs = <<>>], new, U)
      <3>1. below[K] \in [Call -> Outcome] /\ Exact(g, p, below, K) /\ args[j + 1] \in Made(g)
        BY <1>1, <1>2, <1>3, <2>1
      <3>2. ToSet(at.substs) \subseteq ClassSubst(g)
        BY <1>4, <2>3
      <3> HIDE DEF at, new, K, U
      <3>3. Finds([at EXCEPT !.substs = <<>>], Frontier(below, K, args[j + 1], at), U)
        BY <1>1, <2>2, <3>1, <3>2, FrontierFinds DEF U
      <3> QED
        BY <2>2, <3>3
    <2> HIDE DEF at, new, K
    <2>6. /\ [at EXCEPT !.substs = <<>>].dry = at.dry
          /\ [at EXCEPT !.substs = <<>>].short = at.short
          /\ [at EXCEPT !.substs = <<>>].substs = <<>>
      BY <1>7, <2>2, OutcomeWith
    <2>7. /\ at.dry => new.dry
          /\ at.short => new.short
          /\ ToSet(new.substs) \subseteq U
          /\ ~ new.dry /\ ~ new.short => U \subseteq ToSet(new.substs)
      BY <1>7, <2>5, <2>6 DEF Finds
    <2>8. \A u \in U : u \in M(j + 1)
      BY <2>3, <2>4
    <2>9. ~ at.dry /\ ~ at.short => \A u \in M(j + 1) : u \in U
      BY <2>3, <2>4
    <2> HIDE DEF U
    <2>10. Finds(o, new, M(j + 1))
      BY <1>7, <1>8, <2>2, <2>3, <2>7, <2>8, <2>9 DEF Finds
    <2> QED
      BY <2>10 DEF new
  <1>12. Finds(o, f[L], M(L))
    <2> DEFINE P == {j \in 0 .. L : Finds(o, f[j], M(j))}
    <2>1. 0 \in P
      BY <1>2, <1>10
    <2>2. \A j \in 0 .. L - 1 : j \in P => j + 1 \in P
      BY <1>2, <1>11
    <2> HIDE DEF P
    <2>3. \A j \in 0 .. L : j \in P
      BY <1>2, <2>1, <2>2, CountingUp
    <2>4. L \in P
      BY <1>2, <2>3
    <2> QED
      BY <2>4 DEF P
  <1> DEFINE met == f[L]
             q == out.substs \o met.substs
             x == [met EXCEPT !.substs = q]
             new == Capped(x, lim.perClass)
  <1>13. /\ met \in Outcome /\ out.substs \in Seq(Subst) /\ met.substs \in Seq(Subst)
         /\ q \in Seq(Subst)
         /\ ToSet(q) = ToSet(out.substs) \cup ToSet(met.substs)
    <2>1. met \in Outcome /\ out.substs \in Seq(Subst)
      BY <1>2, <1>6 DEF Outcome
    <2>2. met.substs \in Seq(Subst)
      BY <2>1 DEF Outcome
    <2> QED
      BY <2>1, <2>2, ElementsOfBoth
  <1>14. /\ out.dry => met.dry
         /\ out.short => met.short
         /\ ToSet(met.substs) \subseteq M(L)
         /\ ~ met.dry /\ ~ met.short => M(L) \subseteq ToSet(met.substs)
    BY <1>7, <1>8, <1>12 DEF Finds
  <1> HIDE DEF met, q
  <1>15. x \in Outcome /\ x.substs = q /\ x.dry = met.dry /\ x.short = met.short
    BY <1>13, WithSubsts
  <1>16. lim.perClass \in Nat
    BY <1>1 DEF CanRead
  <1> HIDE DEF x
  <1>17. /\ new \in Outcome /\ new.dry = x.dry
         /\ x.short => new.short
         /\ ToSet(new.substs) \subseteq ToSet(x.substs)
         /\ ~ new.short => new = x
    BY <1>15, <1>16, CappedIsOutcome
  <1> HIDE DEF new
  <1>18. Finds(out, new, M(L))
    BY <1>13, <1>14, <1>15, <1>17 DEF Finds
  <1>19. MatchChildren(below, kids, args, s, out, lim) = new
    BY <1>6 DEF new, x, q, met
  <1> QED
    BY <1>18, <1>19 DEF M

\* One node of a class meets the pattern in one order or another.
ENodeMeets(g, p, k, n, s) ==
  UNION {MeetsArgs(g, p, k, args, s, Len(p[k].kids)) : args \in ArgsOf(n)}

LEMMA ENodeFinds ==
  ASSUME NEW g, NEW below, NEW p, NEW k, NEW n, NEW lim, MayRead(g, below, p, k, n, lim),
         NEW s \in ClassSubst(g), NEW out \in Outcome
  PROVE  Finds(out, MatchENode(below, p[k], n, s, out, lim), ENodeMeets(g, p, k, n, s))
  <1> DEFINE kids == p[k].kids
             new == MatchENode(below, p[k], n, s, out, lim)
             M(args) == MeetsArgs(g, p, k, args, s, Len(kids))
             U == ENodeMeets(g, p, k, n, s)
  <1>1. /\ Proper(g) /\ IsPattern(p) /\ k \in DOMAIN p /\ ~ IsHole(p, k)
        /\ n.op = p[k].op /\ s \in Subst
    BY ClassSubsts DEF MayRead, CanRead
  <1>2. U = UNION {M(args) : args \in ArgsOf(n)}
    BY DEF ENodeMeets
  <1>3. CASE out.dry
    <2>1. new = out
      BY <1>3 DEF MatchENode
    <2> HIDE DEF new, U
    <2> QED
      BY <1>3, <2>1, FindsNone DEF new, U
  <1>4. CASE kids = <<>> /\ ~ out.dry
    <2>1. new = Push(out, s)
      BY <1>4 DEF MatchENode
    <2>2. n.op \notin Commutative
      <3>1. p[k].kids = <<>> /\ p[k].op \notin Hole
        BY <1>1, <1>4 DEF IsHole
      <3>2. p[k].op \in Var \cup Number
        <4>1. (\A i : <<i>> # <<>>) /\ (\A i, j : <<i, j>> # <<>>)
          OBVIOUS
        <4> HIDE DEF kids
        <4> QED
          <5> DEFINE op == p[k].op
                     args == p[k].kids
          <5>1. \/ op \in Hole
                \/ op \in Var \cup Number
                \/ \E i \in 1 .. k - 1 : args = <<i>>
                \/ \E i, j \in 1 .. k - 1 : args = <<i, j>>
            BY <1>1, PatternShape
          <5> HIDE DEF op, args
          <5>2. op \notin Hole /\ args = <<>>
            BY <3>1 DEF op, args
          <5>3. op \in Var \cup Number
            BY <4>1, <5>1, <5>2
          <5> QED
            BY <5>3 DEF op
      <3> QED
        BY <1>1, <3>2, OperatorsDiffer
    <2>3. ArgsOf(n) = {n.kids}
      BY <2>2 DEF ArgsOf, Turns
    <2>4. M(n.kids) = {s}
      <3>1. Len(kids) = 0
        BY <1>4
      <3>2. M(n.kids) = MeetsArgs(g, p, k, n.kids, s, 0)
        BY <3>1
      <3> HIDE DEF M
      <3> QED
        BY <1>1, <3>2, MeetsOfNone
    <2> HIDE DEF M, U
    <2>5. U = {s}
      BY <1>2, <2>3, <2>4
    <2> HIDE DEF new
    <2> QED
      BY <1>1, <2>1, <2>5, FindsOne DEF new, U
  <1> DEFINE stored == MatchChildren(below, kids, n.kids, s, out, lim)
             other == <<n.kids[2], n.kids[1]>>
             turned == MatchChildren(below, kids, other, s, stored, lim)
  <1>5. Finds(out, stored, M(n.kids))
    <2>1. n.kids \in ArgsOf(n)
      BY DEF ArgsOf
    <2> QED
      BY <2>1, ChildrenFind
  <1> HIDE DEF M, U, stored
  <1>6. CASE kids # <<>> /\ ~ out.dry /\ Turns(n)
    <2>1. new = turned
      BY <1>6 DEF MatchENode, stored
    <2>2. ArgsOf(n) = {n.kids, other} /\ other \in ArgsOf(n)
      BY <1>6 DEF ArgsOf
    <2> HIDE DEF other
    <2>3. stored \in Outcome
      BY <1>5 DEF Finds
    <2>4. Finds(stored, turned, M(other))
      BY <2>2, <2>3, ChildrenFind DEF M
    <2> HIDE DEF turned, new
    <2>5. Finds(out, turned, M(n.kids) \cup M(other))
      BY <1>5, <2>4, FindsMore
    <2>6. U = M(n.kids) \cup M(other)
      BY <1>2, <2>2
    <2> QED
      BY <2>1, <2>5, <2>6 DEF new, U
  <1>7. CASE kids # <<>> /\ ~ out.dry /\ ~ Turns(n)
    <2>1. new = stored
      BY <1>7 DEF MatchENode, stored
    <2>2. ArgsOf(n) = {n.kids}
      BY <1>7 DEF ArgsOf
    <2>3. U = M(n.kids)
      BY <1>2, <2>2
    <2> HIDE DEF new
    <2> QED
      BY <1>5, <2>1, <2>3 DEF new, U
  <1> QED
    BY <1>3, <1>4, <1>6, <1>7

MayRun(g, below, p, k, run, lim) ==
  /\ Proper(g) /\ CanRun(below, p, k, run, lim)
  /\ \A i \in 1 .. Len(run) : Kids(run[i]) \subseteq Made(g)
  /\ \A j \in 1 .. k - 1 : Exact(g, p, below, j)

RunMeets(g, p, k, run, s) ==
  AllOf([i \in 1 .. Len(run) |-> ENodeMeets(g, p, k, run[i], s)], Len(run))

LEMMA RunFinds ==
  ASSUME NEW g, NEW below, NEW p, NEW k, NEW run, NEW lim, MayRun(g, below, p, k, run, lim),
         NEW s \in ClassSubst(g), NEW out \in Outcome
  PROVE  Finds(out, MatchRun(below, p[k], run, s, out, lim), RunMeets(g, p, k, run, s))
  <1> DEFINE n == Len(run)
             Q == [i \in 1 .. n |-> ENodeMeets(g, p, k, run[i], s)]
  <1>1. /\ Proper(g) /\ CanRun(below, p, k, run, lim) /\ n \in Nat /\ s \in Subst
    BY ClassSubsts DEF MayRun, CanRun
  <1>2. \A i \in 1 .. n : MayRead(g, below, p, k, run[i], lim)
    BY DEF MayRun, MayRead, CanRun, CanRead
  <1>3. PICK f : RunBy(f, below, p[k], run, s, out, lim)
    BY <1>1, RunGoes
  <1>4. /\ f[0] = out
        /\ \A i \in 0 .. n : f[i] \in Outcome
        /\ \A i \in 1 .. n : f[i] = MatchENode(below, p[k], run[i], s, f[i - 1], lim)
        /\ MatchRun(below, p[k], run, s, out, lim) = f[n]
    BY <1>3 DEF RunBy
  <1> HIDE DEF n
  <1>5. ASSUME NEW i \in 1 .. n PROVE Finds(f[i - 1], f[i], Q[i])
    <2>1. i - 1 \in 0 .. n
      BY <1>1
    <2>2. f[i - 1] \in Outcome
      BY <1>4, <2>1
    <2>3. Finds(f[i - 1], MatchENode(below, p[k], run[i], s, f[i - 1], lim),
                ENodeMeets(g, p, k, run[i], s))
      BY <1>2, <2>2, ENodeFinds
    <2> QED
      BY <1>4, <2>3
  <1> HIDE DEF Q
  <1>6. Finds(f[0], f[n], AllOf(Q, n))
    BY <1>1, <1>4, <1>5, WalkFinds
  <1> QED
    BY <1>4, <1>6 DEF Q, n, RunMeets

\* What a node with arguments is met by: what its nodes are met by.
LEMMA NodeMeets ==
  ASSUME NEW g, Proper(g), NEW p, IsPattern(p), NEW k \in DOMAIN p, ~ IsHole(p, k),
         NEW c \in Made(g), NEW s
  PROVE  \A u : u \in Meets(g, p, k, c, s) <=>
           \E n \in g.nodes[Find(g, c)] : n.op = p[k].op /\ u \in ENodeMeets(g, p, k, n, s)
  <1> DEFINE kids == p[k].kids
             L == Len(kids)
             d == Find(g, c)
  <1>1. g \in Graph /\ d \in Classes(g)
    BY DEF Proper, Find
  <1>2. DOMAIN kids = 1 .. L
    BY PatternShape
  <1>3. HolesUnder(p, k) = HolesTo(p, k, L)
    BY <1>2, HolesParts DEF HolesTo
  <1>4. \A u : d \in Denoted(g, p, u)[k] <=>
           \E n \in g.nodes[d] : n.op = p[k].op /\ \E args \in ArgsOf(n) : FitsArgs(g, p, u, k, args)
    <2> HIDE DEF d
    <2> QED
      BY <1>1, DenotedArgs
  <1>5. \A u, args : FitsArgs(g, p, u, k, args) <=>
           \A i \in 1 .. L : Find(g, args[i]) \in Denoted(g, p, u)[kids[i]]
    BY <1>2 DEF FitsArgs
  <1> DEFINE Goes(u) == /\ u \in ClassSubst(g) /\ DOMAIN u = DOMAIN s \cup HolesTo(p, k, L)
                        /\ \A h \in DOMAIN s : u[h] = s[h]
  <1>6. \A u : u \in Meets(g, p, k, c, s) <=> Goes(u) /\ d \in Denoted(g, p, u)[k]
    BY <1>3 DEF Meets
  <1>7. \A u, args : u \in MeetsArgs(g, p, k, args, s, L) <=>
           Goes(u) /\ FitsArgs(g, p, u, k, args)
    BY <1>5 DEF MeetsArgs
  <1>8. \A u, n : u \in ENodeMeets(g, p, k, n, s) <=>
           \E args \in ArgsOf(n) : u \in MeetsArgs(g, p, k, args, s, L)
    BY DEF ENodeMeets
  <1> HIDE DEF Goes, L, kids
  <1>9. \A u, n : u \in ENodeMeets(g, p, k, n, s) <=>
           Goes(u) /\ \E args \in ArgsOf(n) : FitsArgs(g, p, u, k, args)
    BY <1>7, <1>8
  <1> HIDE DEF d
  <1>10. \A u : u \in Meets(g, p, k, c, s) <=>
           \E n \in g.nodes[d] : n.op = p[k].op /\ u \in ENodeMeets(g, p, k, n, s)
    BY <1>4, <1>6, <1>9
  <1> QED
    BY <1>10 DEF d

LEMMA MatchNodeFinds ==
  ASSUME NEW g, Proper(g), NEW p, IsPattern(p), NEW k \in DOMAIN p,
         NEW lim, lim.perClass \in Nat,
         NEW below, \A j \in 1 .. k - 1 : below[j] \in [Call -> Outcome] /\ Exact(g, p, below, j),
         NEW c \in Made(g), NEW s \in ClassSubst(g), NEW out \in Outcome
  PROVE  Finds(out, MatchNode(g, p[k], below, c, s, out, lim), Meets(g, p, k, c, s))
  <1> DEFINE new == MatchNode(g, p[k], below, c, s, out, lim)
             spent == [out EXCEPT !.steps = @ - 1]
             S == Meets(g, p, k, c, s)
             full == Len(out.substs) >= lim.perClass
  <1>1. /\ g \in Graph /\ FiniteNodes(g) /\ c \in Id /\ Find(g, c) \in Classes(g)
        /\ s \in Subst /\ \A j \in 1 .. k - 1 : below[j] \in [Call -> Outcome]
    BY MadeIds, ClassSubsts DEF Proper, Find
  <1>2. CASE full
    <2>1. new = [out EXCEPT !.short = TRUE]
      BY <1>2 DEF MatchNode
    <2> HIDE DEF new, S
    <2>2. /\ new \in Outcome /\ new.substs = out.substs /\ new.dry = out.dry /\ new.short
      BY <2>1 DEF Outcome
    <2> QED
      BY <2>2 DEF Finds, new, S
  <1>3. CASE ~ full /\ out.steps = 0
    <2>1. new = [out EXCEPT !.dry = TRUE]
      BY <1>3 DEF MatchNode
    <2> HIDE DEF new, S
    <2>2. /\ new \in Outcome /\ new.substs = out.substs /\ new.dry /\ new.short = out.short
      BY <2>1 DEF Outcome
    <2> QED
      BY <2>2 DEF Finds, new, S
  <1>4. CASE ~ full /\ out.steps # 0
    <2>1. /\ spent \in Outcome /\ spent.substs = out.substs /\ spent.dry = out.dry
          /\ spent.short = out.short
      BY <1>4 DEF Outcome
    <2>2. \A x, T : Finds(spent, x, T) => Finds(out, x, T)
      BY <2>1 DEF Finds
    <2>3. new = IF IsHole(p, k)
                THEN IF Binds(g, s, p[k].op, c) THEN Push(spent, Bound(g, s, p[k].op, c)) ELSE spent
                ELSE MatchRun(below, p[k], NodesWith(g, Find(g, c), p[k].op), s, spent, lim)
      BY <1>4 DEF MatchNode, IsHole
    <2> HIDE DEF spent, new, S, full
    <2>4. CASE IsHole(p, k)
      <3> DEFINE b == Bound(g, s, p[k].op, c)
      <3>1. /\ b \in Subst
            /\ S = IF Binds(g, s, p[k].op, c) THEN {b} ELSE {}
        BY <2>4, MeetsOfHole, ClassSubsts DEF S
      <3>2. new = IF Binds(g, s, p[k].op, c) THEN Push(spent, b) ELSE spent
        BY <2>3, <2>4
      <3> HIDE DEF b
      <3>3. CASE Binds(g, s, p[k].op, c)
        <4>1. Finds(spent, Push(spent, b), {b})
          BY <2>1, <3>1, FindsOne
        <4> QED
          BY <2>2, <3>1, <3>2, <3>3, <4>1 DEF new, S
      <3>4. CASE ~ Binds(g, s, p[k].op, c)
        <4>1. Finds(spent, spent, {})
          BY <2>1, FindsNone
        <4> QED
          BY <2>2, <3>1, <3>2, <3>4, <4>1 DEF new, S
      <3> QED
        BY <3>3, <3>4
    <2>5. CASE ~ IsHole(p, k)
      <3> DEFINE d == Find(g, c)
                 run == NodesWith(g, d, p[k].op)
      <3>1. /\ CanRun(below, p, k, run, lim)
            /\ \A n : (\E i \in 1 .. Len(run) : run[i] = n) <=> n \in g.nodes[d] /\ n.op = p[k].op
        BY <1>1, <2>5, ClassRuns
      <3>2. new = MatchRun(below, p[k], run, s, spent, lim)
        BY <2>3, <2>5
      <3>3. \A n \in g.nodes[d] : Kids(n) \subseteq Made(g)
        BY <1>1 DEF Proper
      <3>4. \A u : u \in S <=>
              \E n \in g.nodes[d] : n.op = p[k].op /\ u \in ENodeMeets(g, p, k, n, s)
        BY <2>5, NodeMeets DEF S
      <3> HIDE DEF run, d
      <3>5. MayRun(g, below, p, k, run, lim)
        BY <3>1, <3>3 DEF MayRun
      <3>6. Finds(spent, MatchRun(below, p[k], run, s, spent, lim), RunMeets(g, p, k, run, s))
        BY <2>1, <3>5, RunFinds
      <3>7. RunMeets(g, p, k, run, s) = S
        <4> DEFINE R == RunMeets(g, p, k, run, s)
        <4>1. \A u : u \in R <=> \E i \in 1 .. Len(run) : u \in ENodeMeets(g, p, k, run[i], s)
          BY DEF RunMeets, AllOf
        <4> HIDE DEF R
        <4>2. \A u : u \in R <=> u \in S
          BY <3>1, <3>4, <4>1
        <4>3. R = S
          BY <4>2
        <4> QED
          BY <4>3 DEF R
      <3> QED
        BY <2>2, <3>2, <3>6, <3>7 DEF new, S
    <2> QED
      BY <2>4, <2>5
  <1> QED
    BY <1>2, <1>3, <1>4

\* The matcher of every node of a pattern, below any substitution and with any
\* budget, hands on what the node means there and nothing else; all of it unless
\* it says it was cut short or dropped some (match_node, match_children).
THEOREM MatcherIsExact ==
  ASSUME NEW g, Proper(g), NEW p, IsPattern(p), NEW lim, lim.perClass \in Nat
  PROVE  \A k \in DOMAIN p : Exact(g, p, Matcher(g, p, lim), k)
  <1> DEFINE n == Len(p)
             M == Matcher(g, p, lim)
             P == {k \in 1 .. n : Exact(g, p, M, k)}
  <1>1. n \in Nat /\ DOMAIN p = 1 .. n
    BY DEF IsPattern
  <1>2. \A k \in DOMAIN p :
           /\ M[k] \in [Call -> Outcome]
           /\ \A c \in Id, s \in Subst, out \in Outcome :
                M[k][<<c, s, out>>] = MatchNode(g, p[k], M, c, s, out, lim)
    BY MatcherGoes DEF Proper
  <1> HIDE DEF n, M
  <1>3. ASSUME NEW k \in 1 .. n, \A j \in 1 .. k - 1 : j \in P PROVE k \in P
    <2>1. k \in DOMAIN p /\ \A j \in 1 .. k - 1 : j \in DOMAIN p
      BY <1>1
    <2>2. \A j \in 1 .. k - 1 : M[j] \in [Call -> Outcome] /\ Exact(g, p, M, j)
      BY <1>2, <1>3, <2>1
    <2>3. ASSUME NEW c \in Made(g), NEW s \in ClassSubst(g), NEW out \in Outcome
          PROVE  Finds(out, M[k][<<c, s, out>>], Meets(g, p, k, c, s))
      <3>1. c \in Id /\ s \in Subst
        BY MadeIds, ClassSubsts DEF Proper
      <3>2. M[k][<<c, s, out>>] = MatchNode(g, p[k], M, c, s, out, lim)
        BY <1>2, <2>1, <3>1
      <3>3. Finds(out, MatchNode(g, p[k], M, c, s, out, lim), Meets(g, p, k, c, s))
        BY <2>1, <2>2, MatchNodeFinds
      <3> QED
        BY <3>2, <3>3
    <2> QED
      BY <2>3 DEF Exact
  <1>4. \A k \in 1 .. n : k \in P
    <2> HIDE DEF P
    <2> QED
      BY <1>1, <1>3, FromBelow
  <1> QED
    BY <1>1, <1>4 DEF M

----------------------------------------------------------------------------
(* What a search finds.                                                     *)

ClassMeanings(g, p, c) == {s \in [HolesOf(p) -> Classes(g)] : Denotes(g, p, s, c)}

LEMMA ClassIsMet ==
  ASSUME NEW g, Proper(g), NEW p, IsPattern(p), NEW c \in Classes(g)
  PROVE  /\ <<>> \in ClassSubst(g)
         /\ Meets(g, p, Len(p), c, <<>>) = ClassMeanings(g, p, c)
  <1>1. <<>> \in ClassSubst(g)
    <2>1. <<>> \in [{} -> Classes(g)] /\ {} \in SUBSET Hole
      OBVIOUS
    <2> QED
      BY <2>1 DEF ClassSubst
  <1>2. Find(g, c) = c
    BY DEF Proper, Find
  <1>3. HolesUnder(p, Len(p)) = HolesOf(p) /\ HolesOf(p) \subseteq Hole
    BY RootReaches DEF HolesOf
  <1>4. DOMAIN <<>> = {}
    OBVIOUS
  <1>5. \A t : t \in [HolesOf(p) -> Classes(g)] <=> t \in ClassSubst(g) /\ DOMAIN t = HolesOf(p)
    <2>1. ASSUME NEW t \in [HolesOf(p) -> Classes(g)] PROVE t \in ClassSubst(g)
      BY <1>3 DEF ClassSubst
    <2>2. ASSUME NEW t \in ClassSubst(g), DOMAIN t = HolesOf(p)
          PROVE  t \in [HolesOf(p) -> Classes(g)]
      BY <2>2, ClassSubsts
    <2> QED
      BY <2>1, <2>2
  <1>6. \A t : t \in Meets(g, p, Len(p), c, <<>>) <=>
           t \in ClassSubst(g) /\ DOMAIN t = HolesOf(p) /\ c \in Denoted(g, p, t)[Len(p)]
    BY <1>2, <1>3, <1>4 DEF Meets
  <1>7. \A t : t \in ClassMeanings(g, p, c) <=>
           t \in [HolesOf(p) -> Classes(g)] /\ c \in Denoted(g, p, t)[Len(p)]
    BY DEF ClassMeanings, Denotes
  <1>8. \A t : t \in Meets(g, p, Len(p), c, <<>>) <=> t \in ClassMeanings(g, p, c)
    BY <1>5, <1>6, <1>7
  <1> QED
    BY <1>1, <1>8

LEMMA MatchClassFinds ==
  ASSUME NEW g, Proper(g), NEW p, IsPattern(p), NEW c \in Classes(g), NEW steps \in Nat,
         NEW lim, lim.perClass \in Nat
  PROVE  LET out == MatchClass(g, p, c, steps, lim)
         IN  /\ out \in Outcome /\ ToSet(out.substs) \subseteq ClassMeanings(g, p, c)
             /\ ~ out.dry /\ ~ out.short => ToSet(out.substs) = ClassMeanings(g, p, c)
  <1> DEFINE none == [substs |-> <<>>, steps |-> steps, dry |-> FALSE, short |-> FALSE]
             out == MatchClass(g, p, c, steps, lim)
             k == Len(p)
             M == Matcher(g, p, lim)
  <1>1. none \in Outcome /\ none.substs = <<>>
    <2>1. <<>> \in Seq(Subst)
      OBVIOUS
    <2> QED
      BY <2>1 DEF Outcome
  <1>2. k \in DOMAIN p
    BY RootReaches
  <1>3. c \in Made(g) /\ <<>> \in ClassSubst(g)
    BY ClassSubsts, ClassIsMet
  <1>4. Exact(g, p, M, k)
    BY <1>2, MatcherIsExact
  <1>5. out = M[k][<<c, <<>>, none>>]
    BY DEF MatchClass
  <1>6. ToSet(<<>>) = {}
    BY DEF ToSet
  <1> HIDE DEF none, k, M, out
  <1>7. Finds(none, M[k][<<c, <<>>, none>>], Meets(g, p, k, c, <<>>))
    BY <1>1, <1>3, <1>4 DEF Exact
  <1>8. Meets(g, p, k, c, <<>>) = ClassMeanings(g, p, c)
    BY ClassIsMet DEF k
  <1>9. Finds(none, out, ClassMeanings(g, p, c))
    BY <1>5, <1>7, <1>8
  <1>10. /\ out \in Outcome /\ ToSet(out.substs) \subseteq ClassMeanings(g, p, c)
         /\ ~ out.dry /\ ~ out.short => ToSet(out.substs) = ClassMeanings(g, p, c)
    BY <1>1, <1>6, <1>9 DEF Finds
  <1> QED
    BY <1>10 DEF out

\* Where a search is: what was found, and what was lost for want of room or steps.
SearchAt(g, p) ==
  [found : Seq(AllMatches(g, p)), total : Nat, steps : Nat, dry : BOOLEAN, cut : BOOLEAN,
   short : BOOLEAN]

Lost(at) == at.cut \/ at.dry \/ at.short

Searches(g, p, at, new, S) ==
  /\ at \in SearchAt(g, p) /\ new \in SearchAt(g, p)
  /\ Lost(at) => Lost(new)
  /\ ToSet(new.found) \subseteq ToSet(at.found) \cup S
  /\ ~ Lost(new) => ToSet(at.found) \cup S \subseteq ToSet(new.found)

\* The matches at one class.
MatchesAt(g, p, c) == {[class |-> c, subst |-> s] : s \in ClassMeanings(g, p, c)}

LEMMA ListedAreMatches ==
  ASSUME NEW g, Proper(g), NEW p, IsPattern(p), NEW c \in Classes(g),
         NEW S \in SUBSET [HolesOf(p) -> Classes(g)], IsFiniteSet(S)
  PROVE  /\ Listed(c, S) \in Seq(AllMatches(g, p))
         /\ ToSet(Listed(c, S)) = {[class |-> c, subst |-> s] : s \in S}
         /\ Cardinality(S) \in Nat
  <1> DEFINE n == Cardinality(S)
             q == InOrderOf(S, SubstBefore)
             L == Listed(c, S)
             T == AllMatches(g, p)
  <1>1. Lists(q, S)
    <2>1. Classes(g) \subseteq Id
      BY ClassSubsts
    <2>2. S \in SUBSET [HolesOf(p) -> Id] /\ HolesOf(p) \in SUBSET Hole
      BY <2>1 DEF HolesOf
    <2> QED
      BY <2>2, SubstsAreListed
  <1>2. L = [k \in 1 .. n |-> [class |-> c, subst |-> q[k]]]
    BY DEF Listed
  <1> HIDE DEF q, L
  <1>3. /\ n \in Nat /\ \A k \in 1 .. n : q[k] \in S
        /\ \A s \in S : \E k \in 1 .. n : q[k] = s
    BY <1>1 DEF Lists
  <1>4. \A s \in S : [class |-> c, subst |-> s] \in T
    BY DEF AllMatches
  <1> HIDE DEF n, T
  <1>5. L \in [1 .. n -> T]
    BY <1>2, <1>3, <1>4
  <1>6. L \in Seq(T) /\ Len(L) = n
    BY <1>3, <1>5, CountedIsSeq
  <1>7. \A x : x \in ToSet(L) <=> \E k \in 1 .. n : L[k] = x
    BY <1>6, ElementsOfSeq
  <1>8. \A x : x \in ToSet(L) <=> \E s \in S : x = [class |-> c, subst |-> s]
    BY <1>2, <1>3, <1>7
  <1>9. ToSet(L) = {[class |-> c, subst |-> s] : s \in S}
    BY <1>8
  <1> QED
    BY <1>3, <1>6, <1>9 DEF L, T, n

LEMMA SearchClassFinds ==
  ASSUME NEW g, Proper(g), NEW p, IsPattern(p), NEW c \in Classes(g),
         NEW lim, lim.perClass \in Nat, NEW at \in SearchAt(g, p)
  PROVE  Searches(g, p, at, SearchClass(g, p, c, at, lim), MatchesAt(g, p, c))
  <1> DEFINE out == MatchClass(g, p, c, at.steps, lim)
             S == ToSet(out.substs)
             L == Listed(c, S)
             new == SearchClass(g, p, c, at, lim)
             T == AllMatches(g, p)
  <1>1. at.steps \in Nat /\ at.found \in Seq(T) /\ at.total \in Nat
    BY DEF SearchAt
  <1>2. /\ out \in Outcome /\ S \subseteq ClassMeanings(g, p, c)
        /\ ~ out.dry /\ ~ out.short => S = ClassMeanings(g, p, c)
    BY <1>1, MatchClassFinds
  <1>3. CASE at.cut \/ at.total >= lim.perSearch \/ at.dry
    <2>1. new = [at EXCEPT !.cut = TRUE]
      BY <1>3 DEF SearchClass
    <2> HIDE DEF new, out, S, L
    <2>2. new \in SearchAt(g, p) /\ new.found = at.found /\ new.cut
      BY <2>1 DEF SearchAt
    <2> QED
      BY <2>2 DEF Searches, Lost, new
  <1>4. CASE ~ (at.cut \/ at.total >= lim.perSearch \/ at.dry)
    <2>1. new = [found |-> at.found \o L, total |-> at.total + Cardinality(S),
                 steps |-> out.steps, dry |-> out.dry, cut |-> FALSE,
                 short |-> at.short \/ out.short]
      BY <1>4 DEF SearchClass
    <2> HIDE DEF new, out
    <2>2. out.substs \in Seq(Subst) /\ out.steps \in Nat /\ out.dry \in BOOLEAN /\ out.short \in BOOLEAN
      BY <1>2 DEF Outcome
    <2>3. IsFiniteSet(S)
      BY <2>2, ElementsOfSeq
    <2>4. S \in SUBSET [HolesOf(p) -> Classes(g)]
      BY <1>2 DEF ClassMeanings
    <2> HIDE DEF S
    <2>5. /\ L \in Seq(T) /\ ToSet(L) = {[class |-> c, subst |-> s] : s \in S}
          /\ Cardinality(S) \in Nat
      BY <2>3, <2>4, ListedAreMatches
    <2> HIDE DEF L, T
    <2>6. at.found \o L \in Seq(T) /\ ToSet(at.found \o L) = ToSet(at.found) \cup ToSet(L)
      BY <1>1, <2>5, ElementsOfBoth
    <2>7. /\ new.found = at.found \o L /\ new.dry = out.dry /\ new.cut = FALSE
          /\ new.short = (at.short \/ out.short)
      BY <2>1
    <2>8. new \in SearchAt(g, p)
      <3>1. at.short \in BOOLEAN /\ at.total + Cardinality(S) \in Nat
        BY <1>1, <2>5 DEF SearchAt
      <3>2. (at.short \/ out.short) \in BOOLEAN
        OBVIOUS
      <3> QED
        BY <2>1, <2>2, <2>6, <3>1, <3>2 DEF SearchAt, T
    <2>9. ToSet(L) \subseteq MatchesAt(g, p, c)
      BY <1>2, <2>5 DEF MatchesAt
    <2>10. ~ out.dry /\ ~ out.short => ToSet(L) = MatchesAt(g, p, c)
      BY <1>2, <2>5 DEF MatchesAt
    <2>11. Lost(at) => Lost(new)
      BY <1>4, <2>7 DEF Lost
    <2>12. ToSet(new.found) \subseteq ToSet(at.found) \cup MatchesAt(g, p, c)
      BY <2>6, <2>7, <2>9
    <2>13. ~ Lost(new) => ToSet(at.found) \cup MatchesAt(g, p, c) \subseteq ToSet(new.found)
      BY <2>6, <2>7, <2>10 DEF Lost
    <2> QED
      BY <2>8, <2>11, <2>12, <2>13 DEF Searches, new
  <1> QED
    BY <1>3, <1>4

SearchNothing(lim) ==
  [found |-> <<>>, total |-> 0, steps |-> lim.steps, dry |-> FALSE, cut |-> FALSE, short |-> FALSE]

\* search_capped: one class after the other.
SearchBy(f, g, p, lim) ==
  LET classes == Candidates(g, p) IN
  /\ f[0] = SearchNothing(lim)
  /\ \A k \in 0 .. Len(classes) : f[k] \in SearchAt(g, p)
  /\ \A k \in 1 .. Len(classes) : f[k] = SearchClass(g, p, classes[k], f[k - 1], lim)
  /\ SearchCapped(g, p, lim) =
       [found |-> f[Len(classes)].found, cut |-> f[Len(classes)].cut \/ f[Len(classes)].dry,
        short |-> f[Len(classes)].short]

CandidateSet(g, p) == {c \in Classes(g) : \E n \in g.nodes[c] : n.op = p[Len(p)].op}

LEMMA CandidatesAreListed ==
  ASSUME NEW g, Proper(g), NEW p
  PROVE  /\ Len(Candidates(g, p)) \in Nat
         /\ \A k \in 1 .. Len(Candidates(g, p)) :
              Candidates(g, p)[k] \in Classes(g) /\ Candidates(g, p)[k] \in CandidateSet(g, p)
         /\ \A c \in CandidateSet(g, p) : \E k \in 1 .. Len(Candidates(g, p)) : Candidates(g, p)[k] = c
  <1> DEFINE C == CandidateSet(g, p)
  <1>1. Classes(g) \subseteq Id /\ C \subseteq Classes(g)
    BY ClassSubsts DEF CandidateSet
  <1>2. IsFiniteSet(C) /\ C \in SUBSET Nat
    <2>1. Id \subseteq Nat /\ IsFiniteSet(Id)
      BY MaxIdsIsNat, FS_Interval DEF Id
    <2> HIDE DEF C
    <2> QED
      BY <1>1, <2>1, FS_Subset
  <1>3. Candidates(g, p) = Increasing(C)
    BY DEF Candidates, CandidateSet
  <1> HIDE DEF C
  <1>4. Lists(Candidates(g, p), C)
    BY <1>2, <1>3, IncreasingLists
  <1>5. /\ Len(Candidates(g, p)) \in Nat
        /\ \A k \in 1 .. Len(Candidates(g, p)) : Candidates(g, p)[k] \in C
        /\ \A c \in C : \E k \in 1 .. Len(Candidates(g, p)) : Candidates(g, p)[k] = c
    BY <1>4 DEF Lists
  <1> QED
    BY <1>1, <1>5 DEF C

LEMMA SearchGoes ==
  ASSUME NEW g, Proper(g), NEW p, IsPattern(p), NEW lim, lim.perClass \in Nat, lim.steps \in Nat
  PROVE  \E f : SearchBy(f, g, p, lim)
  <1> DEFINE classes == Candidates(g, p)
             n == Len(classes)
             S == SearchAt(g, p)
             x == SearchNothing(lim)
             At(k, at) == SearchClass(g, p, classes[k], at, lim)
             F == [k \in 1 .. n |-> [at \in S |-> At(k, at)]]
             Good(f) == f = [k \in 0 .. n |-> IF k = 0 THEN x ELSE At(k, f[k - 1])]
  <1>1. n \in Nat /\ \A k \in 1 .. n : classes[k] \in Classes(g)
    BY CandidatesAreListed
  <1>2. x \in S
    <2>1. <<>> \in Seq(AllMatches(g, p))
      OBVIOUS
    <2> QED
      BY <2>1 DEF SearchNothing, SearchAt
  <1>3. \A k \in 1 .. n : \A at \in S : At(k, at) \in S
    <2> SUFFICES ASSUME NEW k \in 1 .. n, NEW at \in S PROVE At(k, at) \in S
      OBVIOUS
    <2>1. classes[k] \in Classes(g)
      BY <1>1
    <2> HIDE DEF classes
    <2>2. Searches(g, p, at, At(k, at), MatchesAt(g, p, classes[k]))
      BY <2>1, SearchClassFinds
    <2> QED
      BY <2>2 DEF Searches
  <1>4. SearchCapped(g, p, lim) = LET f == CHOOSE h : Good(h)
          IN [found |-> f[n].found, cut |-> f[n].cut \/ f[n].dry, short |-> f[n].short]
    BY DEF SearchCapped, Reported, SearchNothing
  <1> HIDE DEF classes, n, S, x, At
  <1>5. F \in [1 .. n -> [S -> S]]
    BY <1>3
  <1>6. Steps(F, n, S, x)
    BY <1>1, <1>2, <1>5 DEF Steps
  <1>7. PICK h : Walks(h, F, n, S, x)
    <2> HIDE DEF F
    <2> QED
      BY <1>6, WalkExists
  <1>8. Good(h)
    <2>1. h = [k \in 0 .. n |-> h[k]]
      BY <1>7 DEF Walks
    <2>2. \A k \in 0 .. n : h[k] = IF k = 0 THEN x ELSE At(k, h[k - 1])
      <3> TAKE k \in 0 .. n
      <3>1. CASE k = 0
        BY <1>7, <3>1 DEF Walks
      <3>2. CASE k # 0
        <4>1. k \in 1 .. n /\ k - 1 \in 0 .. n
          BY <1>1, <3>2
        <4>2. h[k - 1] \in S /\ h[k] = F[k][h[k - 1]]
          BY <1>7, <4>1 DEF Walks
        <4> QED
          BY <3>2, <4>1, <4>2
      <3> QED
        BY <3>1, <3>2
    <2> QED
      BY <2>1, <2>2
  <1> DEFINE f == CHOOSE q : Good(q)
  <1>9. Good(f)
    <2> HIDE DEF Good
    <2> QED
      BY <1>8
  <1>10. SearchCapped(g, p, lim) =
           [found |-> f[n].found, cut |-> f[n].cut \/ f[n].dry, short |-> f[n].short]
    BY <1>4
  <1> HIDE DEF f
  <1>11. f[0] = x /\ \A k \in 1 .. n : f[k] = At(k, f[k - 1])
    BY <1>1, <1>9
  <1>12. \A k \in 1 .. n : f[k - 1] \in S => f[k] = F[k][f[k - 1]]
    BY <1>11
  <1> HIDE DEF F, Good
  <1>13. \A k \in 0 .. n : f[k] \in S
    BY <1>6, <1>11, <1>12, WalkStays
  <1>14. SearchBy(f, g, p, lim)
    BY <1>10, <1>11, <1>13 DEF SearchBy, n, classes, S, x, At
  <1> QED
    BY <1>14

\* A match at a class is one of the meanings of the pattern, and one whose root is
\* no hole has no other.
LEMMA MeaningsByClass ==
  ASSUME NEW g, Proper(g), NEW p, IsPattern(p)
  PROVE  /\ \A c \in Classes(g) : MatchesAt(g, p, c) \subseteq Meanings(g, p)
         /\ ~ IsHole(p, Len(p)) =>
              \A m \in Meanings(g, p) :
                m.class \in CandidateSet(g, p) /\ m \in MatchesAt(g, p, m.class)
  <1>1. ASSUME NEW c \in Classes(g), NEW s \in ClassMeanings(g, p, c)
        PROVE  [class |-> c, subst |-> s] \in Meanings(g, p)
    BY DEF ClassMeanings, Meanings, AllMatches
  <1>2. \A c \in Classes(g) : MatchesAt(g, p, c) \subseteq Meanings(g, p)
    BY <1>1 DEF MatchesAt
  <1>3. ASSUME ~ IsHole(p, Len(p)), NEW m \in Meanings(g, p)
        PROVE  m.class \in CandidateSet(g, p) /\ m \in MatchesAt(g, p, m.class)
    <2>1. PICK c \in Classes(g), s \in [HolesOf(p) -> Classes(g)] : m = [class |-> c, subst |-> s]
      BY DEF Meanings, AllMatches
    <2>2. m.class = c /\ m.subst = s /\ Denotes(g, p, s, c)
      BY <2>1 DEF Meanings
    <2>3. c \in Denoted(g, p, s)[Len(p)]
      BY <2>2 DEF Denotes
    <2>4. \E n \in g.nodes[c] : n.op = p[Len(p)].op
      BY <1>3, <2>3, RootReaches, DenotedArgs DEF Proper
    <2>5. m \in MatchesAt(g, p, c)
      BY <2>1, <2>2 DEF MatchesAt, ClassMeanings
    <2> QED
      BY <2>2, <2>4, <2>5 DEF CandidateSet
  <1> QED
    BY <1>2, <1>3

\* A search invents no match; and unless it says that it was cut short, or dropped
\* something for want of room, it finds every one (search_capped).
THEOREM SearchFindsMeanings ==
  ASSUME NEW g, Proper(g), NEW p, IsPattern(p), ~ IsHole(p, Len(p)),
         NEW lim, lim.perClass \in Nat, lim.steps \in Nat
  PROVE  LET got == SearchCapped(g, p, lim)
         IN  /\ got.found \in Seq(AllMatches(g, p)) /\ got.cut \in BOOLEAN /\ got.short \in BOOLEAN
             /\ ToSet(got.found) \subseteq Meanings(g, p)
             /\ ~ got.cut /\ ~ got.short => ToSet(got.found) = Meanings(g, p)
  <1> DEFINE classes == Candidates(g, p)
             n == Len(classes)
             Q == [k \in 1 .. n |-> MatchesAt(g, p, classes[k])]
             got == SearchCapped(g, p, lim)
             U(m) == AllOf(Q, m)
  <1>1. /\ n \in Nat /\ \A k \in 1 .. n : classes[k] \in Classes(g)
        /\ \A c \in CandidateSet(g, p) : \E k \in 1 .. n : classes[k] = c
    BY CandidatesAreListed
  <1>2. PICK f : SearchBy(f, g, p, lim)
    BY SearchGoes
  <1>3. /\ f[0] = SearchNothing(lim)
        /\ \A k \in 0 .. n : f[k] \in SearchAt(g, p)
        /\ \A k \in 1 .. n : f[k] = SearchClass(g, p, classes[k], f[k - 1], lim)
        /\ got = [found |-> f[n].found, cut |-> f[n].cut \/ f[n].dry, short |-> f[n].short]
    BY <1>2 DEF SearchBy
  <1>4. \A x, k : x \in U(k) <=> \E i \in 1 .. k : x \in Q[i]
    BY DEF AllOf
  <1> HIDE DEF n, classes, got
  <1>5. ASSUME NEW k \in 1 .. n PROVE Searches(g, p, f[k - 1], f[k], Q[k])
    <2>1. k - 1 \in 0 .. n /\ classes[k] \in Classes(g)
      BY <1>1
    <2>2. f[k - 1] \in SearchAt(g, p)
      BY <1>3, <2>1
    <2>3. Searches(g, p, f[k - 1], SearchClass(g, p, classes[k], f[k - 1], lim),
                   MatchesAt(g, p, classes[k]))
      BY <2>1, <2>2, SearchClassFinds
    <2> QED
      BY <1>3, <2>3
  <1>6. U(n) \subseteq Meanings(g, p)
    <2>1. \A k \in 1 .. n : Q[k] \subseteq Meanings(g, p)
      BY <1>1, MeaningsByClass
    <2> HIDE DEF Q, U
    <2> QED
      BY <1>4, <2>1
  <1>7. Meanings(g, p) \subseteq U(n)
    <2> SUFFICES ASSUME NEW m \in Meanings(g, p) PROVE m \in U(n)
      OBVIOUS
    <2>1. m.class \in CandidateSet(g, p) /\ m \in MatchesAt(g, p, m.class)
      BY MeaningsByClass
    <2>2. PICK k \in 1 .. n : classes[k] = m.class
      BY <1>1, <2>1
    <2>3. m \in Q[k]
      BY <2>1, <2>2
    <2> HIDE DEF Q, U
    <2> QED
      BY <1>4, <2>3
  <1> HIDE DEF Q
  <1> DEFINE P == {m \in 0 .. n : Searches(g, p, f[0], f[m], U(m))}
  <1>8. 0 \in P
    <2>1. U(0) = {}
      BY <1>4
    <2>2. f[0] \in SearchAt(g, p) /\ 0 \in 0 .. n
      BY <1>1, <1>3
    <2> HIDE DEF U
    <2> QED
      BY <2>1, <2>2 DEF Searches
  <1>9. \A m \in 0 .. n - 1 : m \in P => m + 1 \in P
    <2> SUFFICES ASSUME NEW m \in 0 .. n - 1, m \in P PROVE m + 1 \in P
      OBVIOUS
    <2>1. m + 1 \in 1 .. n /\ m + 1 \in 0 .. n /\ (m + 1) - 1 = m
      BY <1>1
    <2>2. Searches(g, p, f[m], f[m + 1], Q[m + 1])
      BY <1>5, <2>1
    <2>3. U(m + 1) = U(m) \cup Q[m + 1]
      <3>1. 1 .. m + 1 = (1 .. m) \cup {m + 1}
        BY <1>1
      <3> QED
        BY <3>1 DEF AllOf
    <2> HIDE DEF U
    <2>4. Searches(g, p, f[0], f[m + 1], U(m) \cup Q[m + 1])
      BY <2>2 DEF Searches
    <2> QED
      BY <2>1, <2>3, <2>4
  <1> HIDE DEF P, U
  <1>10. \A m \in 0 .. n : m \in P
    BY <1>1, <1>8, <1>9, CountingUp
  <1>11. Searches(g, p, f[0], f[n], U(n))
    <2>1. n \in P
      BY <1>1, <1>10
    <2> QED
      BY <2>1 DEF P
  <1> DEFINE new == f[n]
  <1>12. new \in SearchAt(g, p)
    BY <1>1, <1>3
  <1>13. /\ got.found = new.found /\ got.cut = (new.cut \/ new.dry) /\ got.short = new.short
    BY <1>3
  <1>14. f[0].found = <<>> /\ ToSet(<<>>) = {}
    BY <1>3 DEF SearchNothing, ToSet
  <1>15. /\ ToSet(new.found) \subseteq U(n)
         /\ ~ Lost(new) => U(n) \subseteq ToSet(new.found)
    BY <1>11, <1>14 DEF Searches
  <1> HIDE DEF new
  <1>16. /\ got.found \in Seq(AllMatches(g, p)) /\ got.cut \in BOOLEAN /\ got.short \in BOOLEAN
    BY <1>12, <1>13 DEF SearchAt
  <1>17. ~ got.cut /\ ~ got.short => ~ Lost(new)
    BY <1>13 DEF Lost
  <1>18. ToSet(got.found) \subseteq Meanings(g, p)
    BY <1>6, <1>13, <1>15
  <1>19. ~ got.cut /\ ~ got.short => ToSet(got.found) = Meanings(g, p)
    BY <1>7, <1>13, <1>15, <1>17, <1>18
  <1> QED
    BY <1>16, <1>18, <1>19 DEF got
===============================================================================
