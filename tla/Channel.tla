------------------------------ MODULE Channel ------------------------------
(* What the two ends of a relay stream may rely on.  A frame that was written *)
(* is read at the other end at most once, in no particular order; as long as  *)
(* nobody closes the stream, the network keeps it, every frame is short       *)
(* enough and no read was cut, no frame is lost and neither end is told that  *)
(* the stream is over.  A path of relay streams, spliced by the servers of a  *)
(* circuit, promises its two clients the same.                                *)
CONSTANTS
    Frames, Big,  \* the frames, and the ones that are too long for a reader
    By            \* the end that writes a frame

ASSUME ChannelAssumption == Big \subseteq Frames /\ By \in [Frames -> {"a", "b"}]

Ends == {"a", "b"}
Peer(e) == IF e = "a" THEN "b" ELSE "a"
Causes == {"big", "closed", "cut", "broken"}

VARIABLES
    unsent,  \* frames that nobody has written yet
    flight,  \* frames on their way to an end
    got,     \* frames that an end has read
    over,    \* ends whose reader knows that the stream is over, or has failed
    cause    \* what has happened to the stream so far

vars == <<unsent, flight, got, over, cause>>

TypeOK ==
    /\ unsent \in SUBSET Frames
    /\ flight \in [Ends -> SUBSET Frames]
    /\ got \in [Ends -> SUBSET Frames]
    /\ over \in SUBSET Ends
    /\ cause \in SUBSET Causes

Init ==
    /\ unsent = Frames
    /\ flight = [e \in Ends |-> {}]
    /\ got = [e \in Ends |-> {}]
    /\ over = {}
    /\ cause = {}

Without(F) == [e \in Ends |-> flight[e] \ F]

Send(e, f) ==
    /\ f \in unsent /\ By[f] = e
    /\ unsent' = unsent \ {f}
    /\ flight' = [flight EXCEPT ![Peer(e)] = @ \cup {f}]
    /\ cause' = cause \cup (IF f \in Big THEN {"big"} ELSE {})
    /\ UNCHANGED <<got, over>>

Take(e, f) ==
    /\ e \notin over
    /\ f \in flight[e]
    /\ flight' = [flight EXCEPT ![e] = @ \ {f}]
    /\ got' = [got EXCEPT ![e] = @ \cup {f}]
    /\ UNCHANGED <<unsent, over, cause>>

\* An end closes the stream, or the network drops the connection.
Happen(c) ==
    /\ c \in {"closed", "broken"}
    /\ cause' = cause \cup {c}
    /\ UNCHANGED <<unsent, flight, got, over>>

\* A read is cut only by a write at the same end, while a frame arrives.
Cut(e, F) ==
    /\ flight[e] # {} /\ flight[Peer(e)] # {}
    /\ flight' = Without(F)
    /\ cause' = cause \cup {"cut"}
    /\ UNCHANGED <<unsent, got, over>>

\* Once something has happened to the stream, frames may get lost: on the way,
\* as they are written, or because an end learns that the stream is over.
Lose(F) ==
    /\ cause # {}
    /\ flight' = Without(F)
    /\ UNCHANGED <<unsent, got, over, cause>>

SendInVain(e, f) ==
    /\ cause # {}
    /\ f \in unsent /\ By[f] = e
    /\ unsent' = unsent \ {f}
    /\ cause' = cause \cup (IF f \in Big THEN {"big"} ELSE {})
    /\ UNCHANGED <<flight, got, over>>

End(e, F) ==
    /\ cause # {}
    /\ over' = over \cup {e}
    /\ flight' = Without(F)
    /\ UNCHANGED <<unsent, got, cause>>

Next ==
    \/ \E e \in Ends, f \in Frames : Send(e, f) \/ SendInVain(e, f) \/ Take(e, f)
    \/ \E F \in SUBSET Frames : Lose(F) \/ \E e \in Ends : Cut(e, F) \/ End(e, F)
    \/ \E c \in Causes : Happen(c)

Spec == Init /\ [][Next]_vars

\* What was written and neither read nor lost is read, if nothing happens.
FairSpec == Spec /\ \A e \in Ends, f \in Frames : WF_vars(cause = {} /\ Take(e, f))

-----------------------------------------------------------------------------
\* Safety of the promise: a frame is in one place at most, so it is not read
\* twice and not read by the end that wrote it.
OnePlace == \A f \in Frames :
    /\ f \in unsent => \A e \in Ends : f \notin flight[e] /\ f \notin got[e]
    /\ \A e \in Ends : f \in flight[e] => f \notin got[e]
    /\ f \notin flight["a"] \cup got["a"] \/ f \notin flight["b"] \cup got["b"]
=============================================================================
