----------------------------- MODULE MCRegistry -----------------------------
(* A client that may crash while it dials or is dialed, and one whose user is *)
(* impatient.                                                                 *)
EXTENDS Registry, TLC

CONSTANTS c1, c2, s1, s2

MCCallee == c2 :> c1

\* Two calls of the client that may crash, one of the impatient one on each server.
MCMaxCalls == [x \in Clients \X Servers |->
    CASE x = <<c1, s1>> -> 2 [] x[1] = c2 -> 1 [] OTHER -> 0]
MCTwice == [x \in Clients \X Servers |-> 2]
=============================================================================
