--------------------------- MODULE MCRegistryUpdate ---------------------------
(* Symmetry for RegistryUpdate: the opIds of a request and the adapters of *)
(* the sample registry are interchangeable.                                *)
EXTENDS RegistryUpdate, TLC

Symmetric == Permutations(OpId) \cup Permutations(Adapter)
=============================================================================
