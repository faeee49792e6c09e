---------------------------- MODULE MCStreamPump ----------------------------
(* A relay stream with two frames one way and one the other way, which is too  *)
(* long: its pump may be writing it while a frame arrives.                    *)
EXTENDS StreamPump, TLC

CONSTANTS f1, f2, f3

MCFrames == {f1, f2, f3}
MCBig == {f3}
MCBy == (f1 :> "a") @@ (f2 :> "a") @@ (f3 :> "b")
=============================================================================
