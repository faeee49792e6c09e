--------------------------- MODULE TransportProofs --------------------------
(* No payload leaves a client before the handshake message that lets the other *)
(* one decrypt it, and no frame that has arrived disappears unnoticed, for any *)
(* messages and any number of concurrent calls of read.                       *)
EXTENDS Transport, ChannelProofs, QueueLemmas

\* A frame in the channel of a circuit, or in a read call, has arrived there, and
\* is there once.
Arrived(e) ==
    /\ Once(chanq[e], Frames)
    /\ \A f \in Frames : f \in Elems(chanq[e]) => f \in got[e]
    /\ \A f \in Frames : f \in held[e] => f \in got[e]

\* The remote client is secured by Hs3, which is then no longer in the channel and
\* does not arrive again.
HandshakeOver(e) == e = "b" /\ Secure(e) => Hs3 \in got[e] /\ Hs3 \notin Elems(chanq[e])

Accounted(e) == \A f \in Frames : f \in got[e] =>
    \/ f \in Elems(chanq[e]) \/ f \in held[e] \/ f \in Elems(read[e])
    \/ f = Hs3 /\ shake[e] # "await"
    \/ shake[e] = "panicked" \/ e \in poisoned \/ e \in closed

\* A nonce is used once by each sender.
Nonces == \A m \in sealed :
    /\ seal[m] < nonce[By[m]]
    /\ \A n \in sealed : By[n] = By[m] /\ seal[n] = seal[m] => n = m

\* A payload is written after it was encrypted, and encrypted after the handshake
\* of its end, the caller's after Hs3.  A failed handshake has taken a payload.
Ordered ==
    /\ Secure("a") => Hs3 \notin unsent
    /\ \A m \in Messages : m \in sealed => Secure(By[m])
    /\ \A m \in Messages : m \notin sealed => m \in unsent
    /\ shake["b"] = "panicked" => \E m \in Messages : m \in got["b"]

ClientOK(e) == Arrived(e) /\ HandshakeOver(e) /\ Accounted(e)

TransportInv ==
    /\ ChannelInv /\ TransportTypeOK /\ Nonces /\ Ordered
    /\ \A e \in Ends : ClientOK(e)

\* A path has two ends, each the peer of the other.
LEMMA EndFacts == \A e \in Ends : Peer(e) \in Ends /\ Peer(e) # e /\ Peer(Peer(e)) = e
BY DEF Ends, Peer

\* The last message of the handshake is the caller's, and no user's message.
LEMMA Hs3Facts == Hs3 \in Frames /\ By[Hs3] = "a" /\ Messages \subseteq Frames /\ Hs3 \notin Messages
BY TransportAssumption DEF Messages

\* Before the last message of the handshake nothing has been sent or read.
LEMMA TransportInitOK == TransportInit => TransportInv
<1> SUFFICES ASSUME TransportInit PROVE TransportInv
  OBVIOUS
<1>1. ChannelInv /\ TypeOK
  BY ChannelInitOK DEF TransportInit, ChannelInv
<1>2. TransportTypeOK
  BY <1>1 DEF TransportInit, TransportTypeOK
<1>3. Nonces
  BY DEF TransportInit, Nonces
<1>4. ASSUME NEW e \in Ends PROVE ClientOK(e)
  BY EmptyQueue DEF TransportInit, Init, Secure, ClientOK, Arrived, HandshakeOver, Accounted
<1>5. Ordered
  BY Hs3Facts DEF TransportInit, Init, Ordered, Secure, Ends
<1> QED
  BY <1>1, <1>2, <1>3, <1>4, <1>5 DEF TransportInv

-----------------------------------------------------------------------------
(* What the clients do to the path is what Channel allows.                    *)

\* Sending and taking frames are steps of Channel.
LEMMA SendIsNext ==
    ASSUME NEW e \in Ends, NEW f \in Frames, Send(e, f) \/ SendInVain(e, f) \/ Take(e, f)
    PROVE  Next
BY DEF Next

\* Every step of the clients is a step of Channel, or none.
LEMMA PathStep ==
    ASSUME TransportInv, TransportNext
    PROVE  [Next]_vars
<1>1. CASE FinishCaller
  BY <1>1, SendIsNext, Hs3Facts DEF FinishCaller, Ends
<1>2. CASE FinishAnswer
  BY <1>2 DEF FinishAnswer, pathVars, vars
<1>3. ASSUME NEW e \in Ends, Client(e) PROVE [Next]_vars
  <2>1. CASE \E m \in Messages : QueueFrame(e, m)
    BY <2>1, SendIsNext, Hs3Facts DEF QueueFrame
  <2>2. CASE \E m \in Messages : Decrypt(e, m) \/ DecryptPanics(e, m)
    BY <2>2 DEF Decrypt, DecryptPanics, pathVars, vars
  <2>3. CASE \E m \in Frames : Receive(e, m)
    BY <2>3, SendIsNext DEF Receive
  <2>4. CASE ReadNext(e)
    BY <2>4 DEF ReadNext, pathVars, vars
  <2> QED
    BY <1>3, <2>1, <2>2, <2>3, <2>4 DEF Client
<1>4. ASSUME NEW e \in Ends, User(e) PROVE [Next]_vars
  BY <1>4 DEF User, Encrypt, EncryptPanics, pathVars, vars
<1>5. ASSUME NEW e \in Ends, Disconnect(e) PROVE [Next]_vars
  BY <1>5 DEF Disconnect, Next, Causes, pathVars, vars
<1>6. ASSUME NEW e \in Ends, PathEnds(e) PROVE [Next]_vars
  <2>1. PICK F \in SUBSET flight[e] : End(e, F)
    BY <1>6 DEF PathEnds
  <2>2. F \in SUBSET Frames
    BY DEF TransportInv, ChannelInv, TypeOK
  <2> QED
    BY <2>1, <2>2 DEF Next
<1>7. CASE PathFaults
  <2>1. CASE Happen("broken")
    BY <2>1 DEF Next, Causes
  <2>2. ASSUME NEW e \in Ends, NEW f \in flight[e], Lose({f}) \/ Cut(e, {f}) PROVE [Next]_vars
    <3>1. {f} \in SUBSET Frames
      BY DEF TransportInv, ChannelInv, TypeOK
    <3> QED
      BY <2>2, <3>1 DEF Next
  <2> QED
    BY <1>7, <2>1, <2>2 DEF PathFaults
<1> QED
  BY <1>1, <1>2, <1>3, <1>4, <1>5, <1>6, <1>7 DEF TransportNext

-----------------------------------------------------------------------------
(* The steps of the clients.                                                  *)

\* A step that does not concern the handshake, and writes and encrypts nothing.
LEMMA OrderedStays ==
    ASSUME TransportInv, UNCHANGED <<unsent, shake, sealed>>, \A e \in Ends : got[e] \subseteq got'[e]
    PROVE  Ordered'
BY DEF TransportInv, Ordered, Secure, Ends

\* A step that neither brings a frame to a client nor takes one from its queues.
LEMMA QuietOK ==
    ASSUME TransportInv, ChannelInv',
           UNCHANGED <<got, sealed, seal, nonce, chanq, held, expect, read>>,
           unsent' \subseteq unsent, \A m \in Messages : m \in unsent => m \in sealed \/ m \in unsent',
           shake' = shake \/ Hs3 \notin unsent',
           closed \subseteq closed', closed' \subseteq Ends, gone' \subseteq Ends,
           poisoned \subseteq poisoned', poisoned' \subseteq Ends,
           panicked' \in SUBSET Messages,
           shake' = shake \/ shake' = [shake EXCEPT !["a"] = "done"],
           shake["a"] # "await" => shake' = shake
    PROVE  TransportInv'
<1>1. TransportTypeOK'
  BY DEF TransportInv, TransportTypeOK, ChannelInv
<1>2. Nonces'
  BY DEF TransportInv, Nonces
<1>3. ASSUME NEW e \in Ends PROVE ClientOK(e)'
  <2>0. ClientOK(e) /\ (shake'[e] = shake[e] \/ (e = "a" /\ shake[e] = "await" /\ shake'[e] = "done"))
    BY DEF TransportInv, TransportTypeOK, Ends
  <2>1. Arrived(e)'
    BY <2>0 DEF ClientOK, Arrived
  <2>2. HandshakeOver(e)'
    BY <2>0 DEF ClientOK, HandshakeOver, Secure
  <2>3. Accounted(e)'
    BY <2>0 DEF ClientOK, Accounted
  <2> QED
    BY <2>1, <2>2, <2>3 DEF ClientOK
<1>4. Ordered'
  <2>0. Ordered /\ shake \in [Ends -> {"await", "done", "panicked"}] /\ sealed \subseteq Messages
    BY DEF TransportInv, TransportTypeOK
  <2>1. shake'["b"] = shake["b"] /\ \A x \in Ends : Secure(x) => shake'[x] = "done"
    BY <2>0 DEF Ends, Secure
  <2>3. \A m \in Messages : By[m] \in Ends
    BY ChannelAssumption, Hs3Facts DEF Ends
  <2>2. shake'["a"] = "done" => Hs3 \notin unsent'
    BY <2>0 DEF Ordered, Secure
  <2> QED
    BY <2>0, <2>1, <2>2, <2>3 DEF Ordered, Secure
<1> QED
  BY <1>1, <1>2, <1>3, <1>4 DEF TransportInv

\* process_handshake of the remote client takes the first frame of its channel.
LEMMA FinishAnswerOK ==
    ASSUME TransportInv, ChannelInv', FinishAnswer
    PROVE  TransportInv'
<1> DEFINE f == Head(chanq["b"])
<1>0. TransportTypeOK /\ Nonces /\ "b" \in Ends /\ \A e \in Ends : ClientOK(e)
  BY DEF TransportInv, Ends
<1>1. chanq["b"] \in Seq(Frames) /\ chanq["b"] # <<>> /\ Once(chanq["b"], Frames)
  BY <1>0 DEF FinishAnswer, TransportTypeOK, ClientOK, Arrived
<1>2. /\ chanq'["b"] = Tail(chanq["b"]) /\ shake'["b"] = IF f = Hs3 THEN "done" ELSE "panicked"
      /\ \A e \in Ends : e # "b" => chanq'[e] = chanq[e] /\ shake'[e] = shake[e]
      /\ gone' \subseteq Ends
      /\ UNCHANGED <<unsent, got, closed, sealed, seal, nonce, panicked, held, expect, read, poisoned>>
  BY <1>0 DEF FinishAnswer, TransportTypeOK, pathVars, sendVars, readVars
<1>3. /\ f \in Frames /\ chanq'["b"] \in Seq(Frames) /\ Once(chanq'["b"], Frames)
      /\ f \notin Elems(chanq'["b"])
      /\ \A x : x \in Elems(chanq["b"]) <=> x \in Elems(chanq'["b"]) \/ x = f
  BY <1>1, <1>2, TailIndex, TailElems, TailOnce
<1>4. TransportTypeOK'
  BY <1>0, <1>2, <1>3 DEF TransportTypeOK, FinishAnswer, ChannelInv, pathVars, sendVars, readVars
<1>5. Nonces'
  BY <1>0, <1>2 DEF Nonces
<1>6. ASSUME NEW e \in Ends PROVE ClientOK(e)'
  <2>0. ClientOK(e)
    BY <1>0
  <2>1. Arrived(e)'
    BY <2>0, <1>2, <1>3 DEF ClientOK, Arrived
  <2>2. HandshakeOver(e)'
    BY <2>0, <1>2, <1>3 DEF ClientOK, HandshakeOver, Secure, Arrived
  <2>3. Accounted(e)'
    BY <2>0, <1>2, <1>3 DEF ClientOK, Accounted, FinishAnswer
  <2> QED
    BY <2>1, <2>2, <2>3 DEF ClientOK
<1>7. Ordered'
  <2>1. f \in got["b"] /\ Ordered /\ (f # Hs3 => f \in Messages) /\ shake["b"] = "await"
    BY <1>0, <1>3 DEF TransportInv, ClientOK, Arrived, Messages, FinishAnswer
  <2>2. \A m \in Messages : m \in sealed => By[m] = "a"
    BY <1>0, <2>1, ChannelAssumption, Hs3Facts DEF Ordered, Secure
  <2> QED
    BY <1>2, <2>1, <2>2 DEF Ordered, Secure, Ends
<1> QED
  BY <1>4, <1>5, <1>6, <1>7 DEF TransportInv

\* send_message encrypts with the next nonce.
LEMMA EncryptOK ==
    ASSUME TransportInv, ChannelInv', NEW e \in Ends, NEW m \in Messages, Encrypt(e, m)
    PROVE  TransportInv'
<1>0. TransportTypeOK /\ Nonces /\ m \notin sealed /\ By[m] = e /\ \A d \in Ends : ClientOK(d)
  BY DEF TransportInv, Encrypt, May, ToSend
<1>1. /\ sealed' = sealed \cup {m} /\ seal'[m] = nonce[e] /\ nonce'[e] = nonce[e] + 1
      /\ \A n \in Messages : n # m => seal'[n] = seal[n]
      /\ \A d \in Ends : d # e => nonce'[d] = nonce[d]
      /\ UNCHANGED <<unsent, got, shake, closed, gone, panicked, chanq, held, expect, read, poisoned>>
  BY <1>0 DEF Encrypt, TransportTypeOK, pathVars, readVars, mapVars
<1>2. TransportTypeOK'
  BY <1>0, <1>1 DEF Encrypt, TransportTypeOK, ChannelInv
<1>3. Nonces'
  <2>1. \A n \in sealed' : By[n] \in Ends
    BY <1>0, <1>1, ChannelAssumption, Hs3Facts DEF TransportTypeOK, Ends
  <2>2. ASSUME NEW n \in sealed PROVE seal'[n] = seal[n] /\ seal[n] < nonce[By[n]] /\ seal'[n] < nonce'[By[n]]
    <3>1. n \in Messages /\ n # m /\ seal[n] \in Nat /\ By[n] \in Ends /\ nonce[By[n]] \in Nat
      BY <1>0, <1>1, <2>1 DEF TransportTypeOK
    <3>2. nonce'[By[n]] = nonce[By[n]] \/ nonce'[By[n]] = nonce[By[n]] + 1
      BY <1>1, <3>1
    <3>3. seal'[n] = seal[n] /\ seal[n] < nonce[By[n]]
      BY <1>0, <1>1, <3>1 DEF Nonces
    <3> QED
      BY <3>1, <3>2, <3>3
  <2>3. nonce[e] \in Nat /\ \A n \in sealed : seal[n] \in Nat
    BY <1>0 DEF TransportTypeOK
  <2> QED
    BY <1>0, <1>1, <2>1, <2>2, <2>3 DEF Nonces
<1>4. ASSUME NEW d \in Ends PROVE ClientOK(d)'
  <2>0. ClientOK(d)
    BY <1>0
  <2> QED
    BY <2>0, <1>1 DEF ClientOK, Arrived, HandshakeOver, Accounted, Secure
<1>5. Ordered'
  BY <1>0, <1>1 DEF TransportInv, Ordered, Secure, Encrypt, May, ToSend
<1> QED
  BY <1>2, <1>3, <1>4, <1>5 DEF TransportInv

\* handle_relay_msg puts a frame that has arrived into the channel of the circuit.
LEMMA ReceiveOK ==
    ASSUME TransportInv, ChannelInv', NEW e \in Ends, NEW m \in Frames, Receive(e, m)
    PROVE  TransportInv'
<1>0. TransportTypeOK /\ Nonces /\ ChannelInv /\ \A d \in Ends : ClientOK(d)
  BY DEF TransportInv
<1>1. chanq[e] \in Seq(Frames) /\ Once(chanq[e], Frames) /\ m \notin got[e] /\ m \notin Elems(chanq[e])
  BY <1>0 DEF Receive, Take, ChannelInv, OneStage, ClientOK, Arrived, TransportTypeOK
<1>2. /\ chanq'[e] = IF HasCircuit(e) THEN Append(chanq[e], m) ELSE chanq[e]
      /\ got'[e] = got[e] \cup {m}
      /\ \A d \in Ends : d # e => chanq'[d] = chanq[d] /\ got'[d] = got[d]
      /\ UNCHANGED <<unsent, shake, closed, gone, sealed, seal, nonce, panicked, held, expect, read, poisoned>>
  BY <1>0 DEF Receive, Take, ChannelInv, TypeOK, TransportTypeOK, sendVars, readVars, mapVars
<1>3. /\ chanq'[e] \in Seq(Frames) /\ Once(chanq'[e], Frames)
      /\ \A x : x \in Elems(chanq[e]) => x \in Elems(chanq'[e])
      /\ \A x : x \in Elems(chanq'[e]) => x \in Elems(chanq[e]) \/ x = m
      /\ m \in Elems(chanq'[e]) \/ e \in closed
  <2>1. CASE HasCircuit(e)
    BY <1>1, <1>2, <2>1, AppendIndex, AppendElems, AppendOnce
  <2>2. CASE ~HasCircuit(e)
    BY <1>1, <1>2, <2>2 DEF HasCircuit
  <2> QED
    BY <2>1, <2>2
<1>4. TransportTypeOK'
  BY <1>0, <1>2, <1>3 DEF TransportTypeOK, Receive, ChannelInv, sendVars, readVars, mapVars
<1>5. Nonces'
  BY <1>0, <1>2 DEF Nonces
<1>6. ASSUME NEW d \in Ends PROVE ClientOK(d)'
  <2>0. ClientOK(d)
    BY <1>0
  <2>1. Arrived(d)'
    BY <2>0, <1>2, <1>3 DEF ClientOK, Arrived
  <2>2. HandshakeOver(d)'
    BY <2>0, <1>1, <1>2, <1>3 DEF ClientOK, HandshakeOver, Secure
  <2>3. Accounted(d)'
    BY <2>0, <1>2, <1>3 DEF ClientOK, Accounted
  <2> QED
    BY <2>1, <2>2, <2>3 DEF ClientOK
<1>7. Ordered'
  BY <1>2, OrderedStays
<1> QED
  BY <1>4, <1>5, <1>6, <1>7 DEF TransportInv

\* What reaches a client was sent by the other one.
LEMMA FromPeer ==
    ASSUME TransportInv, NEW e \in Ends, NEW f \in Frames,
           f \in Elems(chanq[e]) \/ f \in held[e]
    PROVE  f \in got[e] /\ By[f] = Peer(e)
BY DEF TransportInv, ClientOK, Arrived, ChannelInv, Addressed

\* CircuitConn::read takes the next frame, which is never Hs3: it waits until the
\* circuit is secured.
LEMMA ReadNextOK ==
    ASSUME TransportInv, ChannelInv', NEW e \in Ends, ReadNext(e)
    PROVE  TransportInv'
<1> DEFINE f == Head(chanq[e])
<1>0. TransportTypeOK /\ Nonces /\ \A d \in Ends : ClientOK(d)
  BY DEF TransportInv
<1>1. chanq[e] \in Seq(Frames) /\ chanq[e] # <<>> /\ Once(chanq[e], Frames) /\ Secure(e)
  BY <1>0 DEF ReadNext, CanRead, TransportTypeOK, ClientOK, Arrived
<1>2. /\ chanq'[e] = Tail(chanq[e]) /\ held'[e] = held[e] \cup {f}
      /\ \A d \in Ends : d # e => chanq'[d] = chanq[d] /\ held'[d] = held[d]
      /\ UNCHANGED <<unsent, got, shake, closed, gone, sealed, seal, nonce, panicked, expect, read, poisoned>>
  BY <1>0 DEF ReadNext, TransportTypeOK, pathVars, sendVars, mapVars
<1>3. /\ f \in Frames /\ chanq'[e] \in Seq(Frames) /\ Once(chanq'[e], Frames)
      /\ f \in Elems(chanq[e])
      /\ \A x : x \in Elems(chanq[e]) <=> x \in Elems(chanq'[e]) \/ x = f
  BY <1>1, <1>2, TailIndex, TailElems, TailOnce
<1>4. f \in Messages
  <2>1. CASE e = "a"
    BY <1>3, <2>1, FromPeer, Hs3Facts DEF Peer, Messages
  <2>2. CASE e = "b"
    BY <1>0, <1>1, <1>3, <2>2 DEF ClientOK, HandshakeOver, Messages
  <2> QED
    BY <2>1, <2>2 DEF Ends
<1>5. TransportTypeOK'
  <2>1. held' \in [Ends -> SUBSET Messages]
    BY <1>0, <1>4 DEF TransportTypeOK, ReadNext
  <2>2. chanq' \in [Ends -> Seq(Frames)]
    BY <1>0, <1>2, <1>3 DEF TransportTypeOK, ReadNext
  <2> QED
    BY <1>0, <1>2, <2>1, <2>2 DEF TransportTypeOK, ChannelInv
<1>6. Nonces'
  BY <1>0, <1>2 DEF Nonces
<1>7. ASSUME NEW d \in Ends PROVE ClientOK(d)'
  <2>0. ClientOK(d)
    BY <1>0
  <2>1. Arrived(d)'
    BY <2>0, <1>2, <1>3 DEF ClientOK, Arrived
  <2>2. HandshakeOver(d)'
    BY <2>0, <1>2, <1>3 DEF ClientOK, HandshakeOver, Secure
  <2>3. Accounted(d)'
    BY <2>0, <1>2, <1>3 DEF ClientOK, Accounted
  <2> QED
    BY <2>1, <2>2, <2>3 DEF ClientOK
<1>8. Ordered'
  BY <1>2, OrderedStays
<1> QED
  BY <1>5, <1>6, <1>7, <1>8 DEF TransportInv

\* read_message accepts the message with the next nonce.
LEMMA DecryptOK ==
    ASSUME TransportInv, ChannelInv', NEW e \in Ends, NEW m \in Messages, Decrypt(e, m)
    PROVE  TransportInv'
<1>0. TransportTypeOK /\ Nonces /\ m \in Frames /\ \A d \in Ends : ClientOK(d)
  BY Hs3Facts DEF TransportInv
<1>1. /\ read[e] \in Seq(Messages) /\ Len(read[e]) \in Nat /\ m \in sealed
      /\ m \in held[e]
  BY <1>0 DEF TransportTypeOK, Decrypt, InTurn
<1>2. /\ held'[e] = held[e] \ {m} /\ expect'[e] = expect[e] + 1 /\ read'[e] = Append(read[e], m)
      /\ \A d \in Ends : d # e => held'[d] = held[d] /\ expect'[d] = expect[d] /\ read'[d] = read[d]
      /\ UNCHANGED <<unsent, got, shake, closed, gone, sealed, seal, nonce, panicked, chanq, poisoned>>
  BY <1>0 DEF Decrypt, NextNonce, TransportTypeOK, pathVars, sendVars, mapVars
<1>3. /\ read'[e] \in Seq(Messages)
      /\ \A x : x \in Elems(read'[e]) <=> x \in Elems(read[e]) \/ x = m
  BY <1>1, <1>2, AppendIndex, AppendElems
<1>4. TransportTypeOK'
  <2>1. read' \in [Ends -> Seq(Messages)]
    BY <1>0, <1>2, <1>3 DEF TransportTypeOK, Decrypt
  <2>2. held' \in [Ends -> SUBSET Messages] /\ expect' \in [Ends -> Nat]
    BY <1>0 DEF TransportTypeOK, Decrypt, NextNonce
  <2> QED
    BY <1>0, <1>2, <2>1, <2>2 DEF TransportTypeOK, ChannelInv
<1>5. Nonces'
  BY <1>0, <1>2 DEF Nonces
<1>6. ASSUME NEW d \in Ends PROVE ClientOK(d)'
  <2>0. ClientOK(d)
    BY <1>0
  <2>1. Arrived(d)'
    BY <2>0, <1>2 DEF ClientOK, Arrived
  <2>2. HandshakeOver(d)'
    BY <2>0, <1>2 DEF ClientOK, HandshakeOver, Secure
  <2>3. Accounted(d)'
    BY <2>0, <1>2, <1>3 DEF ClientOK, Accounted
  <2> QED
    BY <2>1, <2>2, <2>3 DEF ClientOK
<1>7. Ordered'
  BY <1>2, OrderedStays
<1> QED
  BY <1>4, <1>5, <1>6, <1>7 DEF TransportInv

\* read_message or the lock fails: the message is lost and the lock poisoned.
LEMMA DecryptPanicsOK ==
    ASSUME TransportInv, ChannelInv', NEW e \in Ends, NEW m \in Messages, DecryptPanics(e, m)
    PROVE  TransportInv'
<1>0. TransportTypeOK /\ Nonces /\ \A d \in Ends : ClientOK(d)
  BY DEF TransportInv
<1>1. /\ held'[e] = held[e] \ {m} /\ poisoned' = poisoned \cup {e}
      /\ \A d \in Ends : d # e => held'[d] = held[d]
      /\ UNCHANGED <<unsent, got, shake, closed, gone, sealed, seal, nonce, panicked, chanq, expect, read>>
  BY <1>0 DEF DecryptPanics, TransportTypeOK, pathVars, sendVars, mapVars
<1>2. TransportTypeOK'
  BY <1>0, <1>1 DEF DecryptPanics, TransportTypeOK, ChannelInv
<1>3. Nonces'
  BY <1>0, <1>1 DEF Nonces
<1>4. ASSUME NEW d \in Ends PROVE ClientOK(d)'
  BY <1>0, <1>1 DEF ClientOK, Arrived, HandshakeOver, Accounted, Secure
<1>5. Ordered'
  BY <1>1, OrderedStays
<1> QED
  BY <1>2, <1>3, <1>4, <1>5 DEF TransportInv

\* Every step of the clients and the path keeps the invariant.
LEMMA TransportNextOK == TransportInv /\ [TransportNext]_allVars => TransportInv'
<1> SUFFICES ASSUME TransportInv, [TransportNext]_allVars PROVE TransportInv'
  OBVIOUS
<1> USE DEF pathVars, sendVars, readVars, mapVars
<1>0. TransportTypeOK
  BY DEF TransportInv
<1>1. ChannelInv'
  BY PathStep, ChannelNextOK DEF TransportInv, allVars, vars
<1>2. CASE FinishCaller
  <2>1. /\ Hs3 \in unsent /\ unsent' = unsent \ {Hs3} /\ shake["a"] = "await"
        /\ shake' = [shake EXCEPT !["a"] = "done"] /\ gone' = gone \ {"a"}
        /\ UNCHANGED <<got, sealed, seal, nonce, chanq, held, expect, read, closed, poisoned, panicked>>
    BY <1>2 DEF FinishCaller, Send, SendInVain
  <2> QED
    BY <1>0, <1>1, <2>1, Hs3Facts, QuietOK DEF TransportTypeOK
<1>3. CASE FinishAnswer
  BY <1>1, <1>3, FinishAnswerOK
<1>4. ASSUME NEW e \in Ends, NEW m \in Messages, QueueFrame(e, m) PROVE TransportInv'
  BY <1>0, <1>1, <1>4, QuietOK DEF QueueFrame, Send, SendInVain, TransportTypeOK
<1>5. ASSUME NEW e \in Ends, NEW m \in Messages, EncryptPanics(e, m) PROVE TransportInv'
  BY <1>0, <1>1, <1>5, QuietOK DEF EncryptPanics, TransportTypeOK
<1>6. ASSUME NEW e \in Ends, Disconnect(e) PROVE TransportInv'
  BY <1>0, <1>1, <1>6, QuietOK DEF Disconnect, Happen, TransportTypeOK
<1>7. ASSUME NEW e \in Ends, PathEnds(e) PROVE TransportInv'
  BY <1>0, <1>1, <1>7, QuietOK DEF PathEnds, End, TransportTypeOK
<1>8. CASE PathFaults
  BY <1>0, <1>1, <1>8, QuietOK DEF PathFaults, Happen, Lose, Cut, TransportTypeOK
<1>9. CASE UNCHANGED allVars
  BY <1>0, <1>1, <1>9, QuietOK DEF allVars, TransportTypeOK
<1> QED
  BY <1>1, <1>2, <1>3, <1>4, <1>5, <1>6, <1>7, <1>8, <1>9, EncryptOK, ReceiveOK, ReadNextOK,
     DecryptOK, DecryptPanicsOK DEF TransportNext, Client, User

\* So it holds always.
LEMMA TransportInvHolds == TransportSpec => []TransportInv
BY TransportInitOK, TransportNextOK, PTL DEF TransportSpec

\* The state of a circuit is well-typed: in particular read never takes the last
\* message of the handshake for a user's message.
THEOREM TransportTypeCorrect == TransportSpec => []TransportTypeOK
<1>1. TransportInv => TransportTypeOK
  BY DEF TransportInv
<1> QED
  BY <1>1, TransportInvHolds, PTL

\* No payload is on its way before Hs3 has been queued, and none of the remote client
\* before Hs3 has arrived: send_message looks at transport_state, and
\* process_handshake sets it last.  The remote client's handshake panics only if a
\* payload has overtaken Hs3.  For any number of messages and of concurrent calls.
THEOREM PayloadAfterHandshakeHolds == TransportSpec => []PayloadAfterHandshake
<1>1. TransportInv => PayloadAfterHandshake
  <2> SUFFICES ASSUME TransportInv PROVE PayloadAfterHandshake
    OBVIOUS
  <2>0. TransportTypeOK /\ Ordered /\ ClientOK("b") /\ ChannelInv /\ "b" \in Ends
    BY DEF TransportInv, Ends
  <2>1. ASSUME NEW m \in sealed
        PROVE  Hs3 \notin unsent /\ (By[m] = "b" => Hs3 \in got["b"])
    <3>1. m \in Messages /\ By[m] \in {"a", "b"} /\ Secure(By[m])
      BY <2>0, ChannelAssumption, Hs3Facts DEF TransportTypeOK, Ordered
    <3>2. By[m] = "b" => Hs3 \in got["b"]
      BY <2>0, <3>1 DEF ClientOK, HandshakeOver
    <3> QED
      BY <2>0, <3>1, <3>2 DEF Ordered, ChannelInv, OneStage
  <2>2. ASSUME shake["b"] = "panicked" PROVE got["b"] \cap sealed # {}
    BY <2>0, <2>2 DEF Ordered, ChannelInv, OneStage
  <2> QED
    BY <2>1, <2>2 DEF PayloadAfterHandshake
<1> QED
  BY <1>1, TransportInvHolds, PTL

\* A frame that handle_relay_msg has given to a client is in its channel, in a call
\* of read, or was returned to the user, unless it was the last message of the
\* handshake, a panic has ended the handshake or the reads, or the circuit is closed.
THEOREM FramesAccountedHolds == TransportSpec => []FramesAccounted
<1>1. TransportInv => FramesAccounted
  <2> SUFFICES ASSUME TransportInv, NEW e \in Ends, NEW m \in got[e]
               PROVE  \/ m \in ElementsOf(chanq[e]) \cup held[e] \cup ElementsOf(read[e])
                      \/ m = Hs3 /\ shake[e] # "await"
                      \/ shake[e] = "panicked" \/ e \in poisoned \/ e \in closed
    BY DEF FramesAccounted
  <2>1. m \in Frames /\ ClientOK(e)
    BY DEF TransportInv, ChannelInv, TypeOK
  <2>2. ElementsOf(chanq[e]) = Elems(chanq[e]) /\ ElementsOf(read[e]) = Elems(read[e])
    BY DEF ElementsOf, Elems
  <2> QED
    BY <2>1, <2>2 DEF ClientOK, Accounted
<1> QED
  BY <1>1, TransportInvHolds, PTL

\* transport_state never encrypts two messages of an end with one nonce, though
\* calls of send_message run side by side.
THEOREM NonceUsedOnce == TransportSpec => []Nonces
<1>1. TransportInv => Nonces
  BY DEF TransportInv
<1> QED
  BY <1>1, TransportInvHolds, PTL
=============================================================================
