---------------------------- MODULE MCTransport -----------------------------
(* Two messages from the caller and two from the remote client, one of which is  *)
(* too long for write_message.                                                  *)
EXTENDS Transport, TLC

CONSTANTS hs3, m1, m2, m3, m4

MCFrames == {hs3, m1, m2, m3, m4}
MCBy == (hs3 :> "a") @@ (m1 :> "a") @@ (m2 :> "a") @@ (m3 :> "b") @@ (m4 :> "b")
=============================================================================
