------------------------------ MODULE MCNotify ------------------------------
(* Two clients that dial each other at the same time.                         *)
EXTENDS Notify, MCCircuit

MCHashOrder == [s \in Sessions |-> IF s = s1 THEN 1 ELSE 2]
=============================================================================
