--------------------------- MODULE MCSnapshotWriter ---------------------------
(* TLC instances of SnapshotWriter: two chunks that share a super-tile and  *)
(* one that has its own.                                                    *)
EXTENDS SnapshotWriter, TLC

CONSTANTS k1, k2, k3, t1, t2

TwoSupers == k1 :> t1 @@ k2 :> t1 @@ k3 :> t2
=============================================================================
