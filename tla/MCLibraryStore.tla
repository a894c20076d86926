--------------------------- MODULE MCLibraryStore ---------------------------
(* Small instances of LibraryStore: the model values of the .cfg files.     *)
EXTENDS LibraryStore
CONSTANTS w1, w2, r1, r2, n1, n2, a, b
=============================================================================
