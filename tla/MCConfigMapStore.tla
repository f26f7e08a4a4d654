-------------------------- MODULE MCConfigMapStore --------------------------
(***************************************************************************)
(* ConfigMapStore on small instances.                                      *)
(***************************************************************************)
EXTENDS ConfigMapStore, TLC

Symmetry == Permutations(Clients) \cup Permutations(Keys)

=============================================================================
