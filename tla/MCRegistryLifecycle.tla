------------------------ MODULE MCRegistryLifecycle ------------------------
(* Small instances of RegistryLifecycle: the model values of the .cfg files. *)
EXTENDS RegistryLifecycle, TLC
CONSTANTS c1, c2, s1, s2

\* Clients are never compared but for equality.
Sym == Permutations(Clients)
=============================================================================
