---------------------------- MODULE MCStreamPool ----------------------------
(* Two calls that want a stream to the same peer and one to another peer.     *)
EXTENDS StreamPool, TLC

CONSTANTS c1, c2, c3, p, q

\* The calls to p are alike.
MCSymmetry == Permutations({c1, c2})
MCWant == (c1 :> p) @@ (c2 :> p) @@ (c3 :> q)
=============================================================================
