------------------------------- MODULE MCPersist -------------------------------
(* TLC instances of Persist: two names are interchangeable, and no more    *)
(* than two of the six kinds of mishap come together.                      *)
EXTENDS Persist, TLC

CONSTANTS n1, n2

Symmetric == Permutations({n1, n2})

FewMishaps == Cardinality(mishaps) <= 2
=============================================================================
