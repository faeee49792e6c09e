--------------------------- MODULE ChannelProofs ---------------------------
(* What the promise of Channel means for the readers of a stream, for any     *)
(* frames and any ends that write them.                                       *)
EXTENDS Channel, TLAPS

\* A frame is on its way to, or was read by, only the end that did not write it.
Addressed == \A e \in Ends : \A f \in flight[e] \cup got[e] : By[f] = Peer(e)

\* A frame is not yet written, or on its way, or read.
OneStage == \A e \in Ends :
    /\ flight[e] \cap unsent = {}
    /\ got[e] \cap unsent = {}
    /\ flight[e] \cap got[e] = {}

ChannelInv == TypeOK /\ Addressed /\ OneStage

\* Before anything is sent every frame is unsent.
LEMMA ChannelInitOK == Init => ChannelInv
BY ChannelAssumption DEF Init, ChannelInv, TypeOK, Addressed, OneStage, Ends, Causes

\* Losing frames and learning that a stream is over keep the invariant.
LEMMA WithoutOK ==
    ASSUME ChannelInv, NEW F, flight' = Without(F), UNCHANGED <<unsent, got>>,
           over' \in SUBSET Ends, cause' \in SUBSET Causes
    PROVE  ChannelInv'
BY DEF ChannelInv, TypeOK, Addressed, OneStage, Without

\* Every step keeps the invariant.
LEMMA ChannelNextOK == ChannelInv /\ [Next]_vars => ChannelInv'
<1> SUFFICES ASSUME ChannelInv, [Next]_vars PROVE ChannelInv'
  OBVIOUS
<1> USE DEF ChannelInv
<1>1. ASSUME NEW e \in Ends, NEW f \in Frames, Send(e, f) PROVE ChannelInv'
  <2>1. Peer(e) \in Ends /\ Peer(Peer(e)) = e
    BY DEF Ends, Peer
  <2> QED
    BY <1>1, <2>1, ChannelAssumption DEF Send, TypeOK, Addressed, OneStage, Causes
<1>2. ASSUME NEW e \in Ends, NEW f \in Frames, SendInVain(e, f) PROVE ChannelInv'
  BY <1>2 DEF SendInVain, TypeOK, Addressed, OneStage, Causes
<1>3. ASSUME NEW e \in Ends, NEW f \in Frames, Take(e, f) PROVE ChannelInv'
  BY <1>3 DEF Take, TypeOK, Addressed, OneStage
<1>4. ASSUME NEW F \in SUBSET Frames, Lose(F) PROVE ChannelInv'
  BY <1>4, WithoutOK DEF Lose, TypeOK
<1>5. ASSUME NEW F \in SUBSET Frames, NEW e \in Ends, Cut(e, F) PROVE ChannelInv'
  BY <1>5, WithoutOK DEF Cut, TypeOK, Causes
<1>6. ASSUME NEW F \in SUBSET Frames, NEW e \in Ends, End(e, F) PROVE ChannelInv'
  BY <1>6, WithoutOK DEF End, TypeOK
<1>7. ASSUME NEW c \in Causes, Happen(c) PROVE ChannelInv'
  BY <1>7 DEF Happen, TypeOK, Addressed, OneStage
<1>8. CASE UNCHANGED vars
  BY <1>8 DEF vars, TypeOK, Addressed, OneStage
<1> QED
  BY <1>1, <1>2, <1>3, <1>4, <1>5, <1>6, <1>7, <1>8 DEF Next

\* A stream that keeps its promise never gives a frame to a reader twice, and
\* never to the end that wrote it: WrappedStream::read and write.
THEOREM OnePlaceHolds == Spec => []OnePlace
<1>1. ChannelInv => OnePlace
  BY DEF ChannelInv, TypeOK, Addressed, OneStage, OnePlace, Ends, Peer
<1> QED
  BY <1>1, ChannelInitOK, ChannelNextOK, PTL DEF Spec
=============================================================================
