-------------------------- MODULE MCServerRegistry --------------------------
(* Small instances of ServerRegistry: the model values of the .cfg files.   *)
EXTENDS ServerRegistry, TLC
CONSTANTS c1, c2, c3, s1, s2, s3

\* Servers are started by \E and never compared but for equality.
Sym == Permutations(Servers)
=============================================================================
