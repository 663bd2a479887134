------------------------------ MODULE TrustMC ------------------------------
EXTENDS Trust, TLC

(* All bridges are started by one user. *)
OneHome == [b \in Bridges |-> CHOOSE h \in Homes : TRUE]

Symmetry == Permutations(Agents)
=============================================================================
