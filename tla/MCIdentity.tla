----------------------------- MODULE MCIdentity -----------------------------
(* Small instances of Identity for TLC.                                    *)
EXTENDS Identity

Symmetry == Permutations(Username) \cup Permutations(Password) \cup Permutations(Request)
=============================================================================
