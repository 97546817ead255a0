----------------------------- MODULE MCSecrets -----------------------------
(* Instances of the signing secrets for TLC. *)
EXTENDS Secrets, TLC

Symmetry == Permutations(Secret \ {First}) \cup Permutations(Handler) \cup Permutations(Sender)
=============================================================================
