------------------------------ MODULE MCSession ------------------------------
(* TLC instances of Session.  Connections and names are interchangeable.    *)
EXTENDS Session, TLC

Symmetry == Permutations(Sockets) \cup Permutations(Names)
=============================================================================
