------------------------------ MODULE MCImport ------------------------------
(* An instance of Import for TLC.                                          *)
EXTENDS ImportProperties, TLC

CONSTANTS a, b, u1, u2, u3, n1, n2, n3, n4, old, new

Symmetric == Permutations(Sources) \union Permutations(Uuids)
               \union Permutations(Names)
=============================================================================
