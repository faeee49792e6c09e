----------------------------- MODULE MCCircuit -----------------------------
(* Small networks for Circuit: two clients, up to five servers, one or two   *)
(* sessions.  The Kad tables choose which shapes of circuit can come up.     *)
EXTENDS Circuit, TLC

CONSTANTS alice, bob, n1, n2, n3, n4, n5, s1, s2

\* s1 is dialled by alice, s2 by bob.
MCFrom == [s \in Sessions |-> IF s = s1 THEN alice ELSE bob]
MCTo == [s \in Sessions |-> IF s = s1 THEN bob ELSE alice]

MCProxyApart == alice :> n1 @@ bob :> n2
MCProxyShared == alice :> n1 @@ bob :> n1

MCKadAll == [n \in Servers |-> Servers]
\* Every shape of a circuit, with one server for each role or pair of roles: sink
\* n2 (the access node) or n3, relay n1 (the entry node) or n4.  n5 is the
\* bootstrap, if it is one of the servers.
MCKadRoles == [n \in Servers |->
    Servers \cap (CASE n = n1 -> {n2, n3, n5} [] n = n2 -> {n1, n3, n4, n5} [] OTHER -> {})]
\* Only circuits of four different servers; only those where the access node is
\* the sink.
MCKadPath == [n \in Servers |-> CASE n = n1 -> {n3} [] n = n2 -> {n4} [] OTHER -> {}]
MCKadShort == [n \in Servers |-> IF n = n1 THEN {n2} ELSE {}]
=============================================================================
