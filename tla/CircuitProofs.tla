--------------------------- MODULE CircuitProofs ---------------------------
(* Proofs about Circuit: typing, the order of the tasks' steps, the tries of *)
(* a loop, and what an ack means, for every network, every number of         *)
(* sessions and every fault.                                                 *)
EXTENDS Circuit, TLAPS, FiniteSetTheorems

\* The call has no stream (yet, or any more).
Unopened == {"idle", "opening", "failed"}

\* A handler runs at an end of a stream only after the stream was opened, and an
\* open stream leads to a node.
OpenedAt(s) ==
    /\ \A p \in Purposes, side \in {"src", "dst"} :
         handler[<<s, p, side>>] # "off" => call[<<s, p>>] \notin Unopened
    /\ \A p \in Purposes :
         call[<<s, p>>] \notin Unopened => Dst(s, p) \in Nodes

\* The tasks of a session start one another in this order, and each call is
\* made at most once, the retries of a failed one apart.
Order(s) ==
    /\ pc[<<s, "dial">>] = "idle" => call[<<s, "dial">>] = "idle"
    /\ pc[<<s, "circ">>] = "idle" =>
          call[<<s, "direct">>] = "idle" /\ call[<<s, "sink">>] = "idle" /\ sink[s].tries = 0
    /\ pc[<<s, "circ">>] \in {"idle", "direct", "sink", "neg"} => pc[<<s, "pub">>] = "idle"
    /\ pc[<<s, "circ">>] \in {"neg", "probe"} => call[<<s, "sink">>] = "done"
    /\ pc[<<s, "pub">>] # "idle" => call[<<s, "sink">>] = "done"
    /\ pc[<<s, "pub">>] \in {"idle", "queued", "decrypt"} => call[<<s, "answer">>] = "idle"
    /\ pc[<<s, "pub">>] \in {"idle", "queued", "decrypt", "answer"} =>
          call[<<s, "relay">>] = "idle" /\ relay[s].tries = 0
    /\ pc[<<s, "pub">>] \in {"idle", "queued", "decrypt", "answer", "relay"} =>
          call[<<s, "expend">>] = "idle" /\ <<s, "SessionExpend">> \notin asked
    /\ <<s, "SessionExpend">> \in asked =>
          call[<<s, "expend">>] = "idle" /\ call[<<s, "relay">>] = "done"
    /\ pc[<<s, "cmd">>] = "open" => call[<<s, "expend">>] # "idle"
    /\ call[<<s, "expend">>] # "idle" => call[<<s, "relay">>] = "done"

IInv == TypeOK /\ \A s \in Sessions : OpenedAt(s) /\ Order(s)

\* The two ends of a stream are nodes where a task may look them up.
LEMMA EndsAreNodes ==
    ASSUME IInv, NEW s \in Sessions, NEW p \in Purposes
    PROVE  /\ p # "expend" => Src(s, p) \in Nodes
           /\ call[<<s, p>>] # "idle" => Src(s, p) \in Nodes
           /\ call[<<s, p>>] \notin Unopened => Dst(s, p) \in Nodes
           /\ \A side \in {"src", "dst"} :
                handler[<<s, p, side>>] # "off" => NodeAt(<<s, p, side>>) \in Nodes
<1>1. Entry(s) \in Nodes /\ Access(s) \in Nodes /\ From[s] \in Nodes /\ To[s] \in Nodes
  BY CircuitAssumption DEF Entry, Access, Nodes
<1>2. p # "expend" => Src(s, p) \in Nodes
  BY <1>1 DEF Src, Purposes
<1>3. call[<<s, p>>] # "idle" => Src(s, p) \in Nodes
  <2>1. CASE p = "expend"
    BY <2>1, <1>1 DEF IInv, Order, OpenedAt, Src, Dst, Unopened, Purposes
  <2>2. QED BY <2>1, <1>2
<1>4. call[<<s, p>>] \notin Unopened => Dst(s, p) \in Nodes
  BY DEF IInv, OpenedAt
<1>5. ASSUME NEW side \in {"src", "dst"}, handler[<<s, p, side>>] # "off"
      PROVE  NodeAt(<<s, p, side>>) \in Nodes
  BY <1>3, <1>4, <1>5 DEF IInv, OpenedAt, NodeAt, Unopened
<1> QED BY <1>2, <1>3, <1>4, <1>5, Zenon

-----------------------------------------------------------------------------
(* Typing of the helpers that the actions share.                             *)

\* The session records that the actions write are session records.
LEMMA SessionTypes ==
    ASSUME NEW x \in SessionRec, NEW p \in Purposes
    PROVE  /\ NoSession \in SessionRec
           /\ WithLater(x, p) \in SessionRec
           /\ [role |-> MyRole(p), early |-> p, later |-> "none"] \in SessionRec
           /\ [role |-> OtherRole(p), early |-> p, later |-> "none"] \in SessionRec
           /\ Legs(x) \in SUBSET Purposes
<1>1. MyRole(p) \in Roles /\ OtherRole(p) \in Roles
  BY DEF MyRole, OtherRole, Purposes, Roles
<1> QED BY <1>1 DEF SessionRec, NoSession, WithLater, Legs

\* Delivering a frame (start_poll) puts only frames into the inboxes.
LEMMA DeliverType ==
    ASSUME TypeOK, NEW T, NEW m \in Msgs, Deliver(T, m)
    PROVE  inbox' \in [Ends -> SUBSET Msgs]
BY DEF TypeOK, Deliver

\* Taking a frame out of an inbox leaves only frames there.
LEMMA DropType ==
    ASSUME TypeOK, NEW e \in Ends, NEW m, Drop(e, m)
    PROVE  inbox' \in [Ends -> SUBSET Msgs]
BY DEF TypeOK, Drop

\* Forwarding a frame (forward_relay) puts only frames into the inboxes.
LEMMA ForwardType ==
    ASSUME TypeOK, NEW e \in Ends, NEW x, NEW m \in Msgs, Forward(e, x, m)
    PROVE  inbox' \in [Ends -> SUBSET Msgs]
BY DEF TypeOK, Forward

\* handle_close_session keeps the maps it clears well-typed.
LEMMA CloseType ==
    ASSUME TypeOK, NEW n \in Nodes, NEW s \in Sessions, CloseSession(n, s)
    PROVE  /\ session' \in [Nodes \X Sessions -> SessionRec]
           /\ down' \in SUBSET Streams
           /\ circuit' \in [Nodes \X Sessions -> {"none", "open", "secure"}]
           /\ probe' \in SUBSET (Nodes \X Sessions)
<1>1. session[<<n, s>>] \in SessionRec
  BY DEF TypeOK
<1>2. NoSession \in SessionRec /\ Legs(session[<<n, s>>]) \in SUBSET Purposes
  BY <1>1, SessionTypes DEF Purposes
<1>3. session' \in [Nodes \X Sessions -> SessionRec]
  BY <1>2 DEF TypeOK, CloseSession
<1>4. {<<s, p>> : p \in Legs(session[<<n, s>>])} \subseteq Streams
  BY <1>2 DEF Streams
<1>5. down' \in SUBSET Streams
  BY <1>4 DEF TypeOK, CloseSession
<1>6. circuit' \in [Nodes \X Sessions -> {"none", "open", "secure"}]
  BY DEF TypeOK, CloseSession
<1>7. probe' \in SUBSET (Nodes \X Sessions)
  BY DEF TypeOK, CloseSession
<1> QED BY <1>3, <1>5, <1>6, <1>7

\* send_ack puts only acks for known keys on the network.
LEMMA AckType ==
    ASSUME TypeOK, NEW k \in Keys, NEW b \in BOOLEAN, SendAck(k, b)
    PROVE  acks' \in SUBSET (Keys \X BOOLEAN)
<1>1. <<k, b>> \in Keys \X BOOLEAN
  OBVIOUS
<1>2. {<<k, b>>} \in SUBSET (Keys \X BOOLEAN)
  BY <1>1, Zenon
<1> QED BY <1>2 DEF TypeOK, SendAck

\* The frames that the actions name are frames.
LEMMA MsgTypes ==
    /\ {"SetSession", "Success", "Disconnect", "ProbeE", "ProbeA", "Hs1", "Hs2", "Hs3"} \subseteq Msgs
    /\ Probes \subseteq Msgs
    /\ Handshakes \subseteq Msgs
BY DEF Msgs, Probes, Handshakes

\* What a loop chooses and records about its tries keeps its type.
LEMMA PickTypes ==
    ASSUME NEW n \in Servers, NEW pick \in PickRec, NEW others,
           NEW q \in Choices(n, pick, others), pick.tries < MaxTries
    PROVE  Try(pick, q) \in PickRec
<1>1. q \in Servers \cup {NoPeer}
  BY CircuitAssumption DEF Choices, PickRec
<1>2. pick.tries \in 0..3 /\ pick.tries + 1 \in 0..3
  BY DEF PickRec, MaxTries
<1> QED BY <1>1, <1>2 DEF Try, PickRec

\* Marking a peer as invalid keeps a choice well-typed and costs no try.
LEMMA RejectType ==
    ASSUME NEW pick \in PickRec
    PROVE  Reject(pick) \in PickRec /\ Reject(pick).tries = pick.tries
BY DEF Reject, PickRec

-----------------------------------------------------------------------------
(* Every action keeps the types.                                             *)

\* new_session_to_peer keeps the state well-typed.
LEMMA CallType ==
    ASSUME IInv, NEW s \in Sessions, NEW p \in Purposes, Call(s, p)
    PROVE  TypeOK'
<1> USE DEF callVars, readVars, nodeVars, hsVars, busVars, loopVars
<1> DEFINE n == Src(s, p)
<1>a. TypeOK BY DEF IInv
<1>b. <<s, p>> \in Streams /\ <<s, p>> \in Keys
  BY DEF Streams, Keys
<1>c. <<s, p, "src">> \in Ends /\ <<s, p, "dst">> \in Ends
  BY DEF Ends
<1>d. call[<<s, p>>] # "idle" => n \in Nodes /\ session[<<n, s>>] \in SessionRec
  BY <1>a, EndsAreNodes DEF TypeOK
<1>1. CASE OpenStream(s, p)
  BY <1>a, <1>b, <1>c, <1>1, MsgTypes DEF TypeOK, OpenStream, CallStates, HandlerStates
<1>2. CASE OpenTimeout(s, p)
  BY <1>a, <1>b, <1>2 DEF TypeOK, OpenTimeout, CallStates
<1>3. CASE RegisterAck(s, p)
  BY <1>a, <1>b, <1>3 DEF TypeOK, RegisterAck, CallStates
<1>4. CASE CheckSession(s, p)
  BY <1>a, <1>b, <1>c, <1>4 DEF TypeOK, CheckSession, CallStates, HandlerStates
<1>5. CASE InsertNew(s, p)
  <2>1. n \in Nodes /\ call[<<s, p>>] = "insert"
    BY <1>5, <1>d DEF InsertNew
  <2>2. [role |-> MyRole(p), early |-> p, later |-> "none"] \in SessionRec
    BY <1>d, <2>1, SessionTypes
  <2> QED BY <1>a, <1>b, <1>5, <2>1, <2>2 DEF TypeOK, InsertNew, CallStates
<1>6. CASE CloneSession(s, p)
  <2>1. WithLater(session[<<n, s>>], p) \in SessionRec
    BY <1>6, <1>d, SessionTypes DEF CloneSession
  <2> QED BY <1>a, <1>b, <1>6, <2>1 DEF TypeOK, CloneSession, CallStates
<1>7. CASE ClonePanic(s, p)
  <2>1. n \in Nodes
    BY <1>7, <1>d DEF ClonePanic
  <2> QED BY <1>a, <1>b, <1>7, <2>1 DEF TypeOK, ClonePanic, CallStates
<1>8. CASE InsertLater(s, p)
  <2>1. n \in Nodes /\ clone[<<s, p>>] \in SessionRec
    BY <1>8, <1>a, <1>b, <1>d DEF InsertLater, TypeOK
  <2>2. NoSession \in SessionRec
    BY <2>1, SessionTypes
  <2> QED BY <1>a, <1>b, <1>8, <2>1, <2>2 DEF TypeOK, InsertLater, CallStates
<1> QED BY <1>1, <1>2, <1>3, <1>4, <1>5, <1>6, <1>7, <1>8 DEF Call

\* relay_event_handler keeps the state well-typed.
LEMMA HandleType ==
    ASSUME IInv, NEW e \in Ends, Handle(e)
    PROVE  TypeOK'
<1> USE DEF callVars, readVars, nodeVars, hsVars, busVars, loopVars
<1> DEFINE n == NodeAt(e)
           s == e[1]
           p == e[2]
<1>a. TypeOK BY DEF IInv
<1>b. s \in Sessions /\ p \in Purposes /\ e[3] \in {"src", "dst"} /\ e = <<s, p, e[3]>>
  BY DEF Ends
<1>c. <<s, p>> \in Streams /\ <<s, p>> \in Keys
  BY <1>b DEF Streams, Keys
<1>d. handler[e] # "off" => n \in Nodes
  BY <1>b, EndsAreNodes
<1>e. handler[e] # "off" => session[<<n, s>>] \in SessionRec
  BY <1>a, <1>b, <1>d DEF TypeOK
<1>f. snap[e] \in SessionRec /\ NoSession \in SessionRec
  BY <1>a, <1>b, SessionTypes DEF TypeOK
<1>g. Forget(e) => snap' \in [Ends -> SessionRec]
  BY <1>a, <1>f DEF TypeOK, Forget
<1>h. SendAck(<<s, p>>, TRUE) => acks' \in SUBSET (Keys \X BOOLEAN)
  BY <1>a, <1>c, AckType
<1>1. CASE TakeSet(e)
  <2>1. n \in Nodes /\ session[<<n, s>>] \in SessionRec
    BY <1>1, <1>d, <1>e DEF TakeSet
  <2>2. inbox' \in [Ends -> SUBSET Msgs]
    BY <1>a, <1>1, DropType DEF TakeSet
  <2>3. circuit' \in [Nodes \X Sessions -> {"none", "open", "secure"}]
    BY <1>a, <1>b, <1>1 DEF TakeSet, TypeOK
  <2>4. handler' \in [Ends -> HandlerStates] /\ snap' \in [Ends -> SessionRec]
    BY <1>a, <1>1, <2>1 DEF TakeSet, TypeOK, HandlerStates
  <2> QED BY <1>a, <1>1, <2>2, <2>3, <2>4 DEF TypeOK, TakeSet
<1>2. CASE ApplyReplace(e)
  <2>1. n \in Nodes
    BY <1>2, <1>d DEF ApplyReplace
  <2>2. CASE Ready(snap[e])
    <3>1. snap[e].later \in Purposes
      BY <2>2, <1>f DEF Ready, SessionRec
    <3>2. <<s, snap[e].later>> \in Streams
      BY <3>1, <1>b DEF Streams
    <3>3. inbox' \in [Ends -> SUBSET Msgs]
      BY <1>a, <1>2, <2>2, DeliverType, MsgTypes DEF ApplyReplace
    <3>4. WithLater(snap[e], p) \in SessionRec
      BY <1>b, <1>f, SessionTypes
    <3>5. session' \in [Nodes \X Sessions -> SessionRec] /\ down' \in SUBSET Streams
      BY <1>a, <1>b, <1>2, <2>1, <2>2, <3>2, <3>4 DEF TypeOK, ApplyReplace
    <3>6. handler' \in [Ends -> HandlerStates] /\ snap' \in [Ends -> SessionRec]
      BY <1>a, <1>g, <1>2 DEF TypeOK, ApplyReplace, HandlerStates
    <3>7. acks' \in SUBSET (Keys \X BOOLEAN)
      BY <1>h, <1>2, <2>2 DEF ApplyReplace
    <3>8. UNCHANGED <<circuit, probe, poisoned, chan, hs, bus, got, asked, callVars, loopVars>>
      BY <1>2, <2>2 DEF ApplyReplace, hsVars
    <3> QED BY <1>a, <3>3, <3>5, <3>6, <3>7, <3>8 DEF TypeOK, callVars, loopVars
  <2>3. CASE ~Ready(snap[e])
    BY <1>a, <1>b, <1>g, <1>2, <2>1, <2>3, CloseType DEF TypeOK, ApplyReplace, HandlerStates
  <2> QED BY <2>2, <2>3
<1>3. CASE ApplyNew(e)
  <2>1. n \in Nodes
    BY <1>3, <1>d DEF ApplyNew
  <2>2. [role |-> OtherRole(p), early |-> p, later |-> "none"] \in SessionRec
    BY <1>b, <1>f, SessionTypes
  <2> QED BY <1>a, <1>b, <1>g, <1>h, <1>3, <2>1, <2>2 DEF TypeOK, ApplyNew, HandlerStates
<1>4. CASE ApplyLater(e)
  <2>1. n \in Nodes /\ WithLater(session[<<n, s>>], p) \in SessionRec
    BY <1>4, <1>b, <1>d, <1>e, SessionTypes DEF ApplyLater
  <2>2. CASE IsSome(session[<<n, s>>])
    <3>1. session' \in [Nodes \X Sessions -> SessionRec]
      BY <1>a, <1>b, <1>4, <2>1, <2>2 DEF TypeOK, ApplyLater
    <3>2. handler' \in [Ends -> HandlerStates] /\ snap' \in [Ends -> SessionRec]
      BY <1>a, <1>g, <1>4, <2>2 DEF TypeOK, ApplyLater, HandlerStates
    <3>3. acks' \in SUBSET (Keys \X BOOLEAN)
      BY <1>h, <1>4, <2>2 DEF ApplyLater
    <3>4. UNCHANGED <<callVars, inbox, down, circuit, probe, poisoned, hsVars, bus, got, asked,
                      loopVars>>
      BY <1>4, <2>2 DEF ApplyLater
    <3> QED BY <1>a, <3>1, <3>2, <3>3, <3>4 DEF TypeOK
  <2>3. CASE ~IsSome(session[<<n, s>>])
    BY <1>a, <1>b, <1>g, <1>4, <2>1, <2>3 DEF TypeOK, ApplyLater, HandlerStates
  <2> QED BY <2>2, <2>3
<1>5. ASSUME NEW m \in Probes, TakeProbe(e, m) PROVE TypeOK'
  <2>1. inbox' \in [Ends -> SUBSET Msgs]
    BY <1>a, <1>5, MsgTypes, DropType, ForwardType DEF TakeProbe
  <2>2. session[<<n, s>>] \in SessionRec
    BY <1>5, <1>e DEF TakeProbe
  <2>3. handler' \in [Ends -> HandlerStates]
    BY <1>a, <1>5 DEF TypeOK, TakeProbe, HandlerStates
  <2>4. snap' \in [Ends -> SessionRec]
    BY <1>a, <1>5, <2>2 DEF TypeOK, TakeProbe
  <2> QED BY <1>a, <1>5, <2>1, <2>3, <2>4 DEF TypeOK, TakeProbe
<1>6. CASE CheckProbe(e)
  BY <1>a, <1>6 DEF TypeOK, CheckProbe, HandlerStates
<1>7. CASE StoreProbe(e)
  BY <1>a, <1>b, <1>d, <1>g, <1>7 DEF TypeOK, StoreProbe, HandlerStates
<1>8. CASE MatchProbe(e)
  <2>1. inbox' \in [Ends -> SUBSET Msgs]
    BY <1>a, <1>8, MsgTypes, DeliverType DEF MatchProbe, TypeOK
  <2> QED BY <1>a, <1>g, <1>8, <2>1 DEF TypeOK, MatchProbe, HandlerStates
<1>9. CASE TakeSuccess(e)
  <2>1. inbox' \in [Ends -> SUBSET Msgs]
    BY <1>a, <1>9, MsgTypes, DropType, ForwardType DEF TakeSuccess
  <2> QED BY <1>a, <1>9, <2>1 DEF TypeOK, TakeSuccess, HandlerStates
<1>10. CASE StartHandshake(e)
  <2>1. inbox' \in [Ends -> SUBSET Msgs]
    BY <1>a, <1>10, MsgTypes, DeliverType DEF StartHandshake, TypeOK
  <2> QED BY <1>a, <1>10, <2>1 DEF TypeOK, StartHandshake, HandlerStates, HsStates
<1>11. ASSUME NEW m \in Handshakes, TakeData(e, m) PROVE TypeOK'
  <2>1. inbox' \in [Ends -> SUBSET Msgs]
    BY <1>a, <1>11, MsgTypes, DropType, ForwardType DEF TakeData
  <2>2. chan' \in [Nodes \X Sessions -> SUBSET Handshakes]
    <3>1. chan \in [Nodes \X Sessions -> SUBSET Handshakes]
      BY <1>a DEF TypeOK
    <3>2. [chan EXCEPT ![<<n, s>>] = @ \cup {m}] \in [Nodes \X Sessions -> SUBSET Handshakes]
      BY <3>1
    <3>3. chan' = chan \/ chan' = [chan EXCEPT ![<<n, s>>] = @ \cup {m}]
      BY <1>11 DEF TakeData
    <3> QED BY <3>1, <3>2, <3>3, Zenon
  <2> QED BY <1>a, <1>11, <2>1, <2>2 DEF TypeOK, TakeData
<1>12. CASE TakeDisconnect(e)
  <2>1. n \in Nodes
    BY <1>12, <1>d DEF TakeDisconnect
  <2> QED BY <1>a, <1>b, <1>12, <2>1, CloseType DEF TypeOK, TakeDisconnect, HandlerStates
<1>13. CASE TakeErr(e)
  BY <1>a, <1>13 DEF TypeOK, TakeErr, HandlerStates
<1>14. CASE CloseOnErr(e)
  <2>1. n \in Nodes
    BY <1>14, <1>d DEF CloseOnErr
  <2> QED BY <1>a, <1>b, <1>14, <2>1, CloseType DEF TypeOK, CloseOnErr, HandlerStates
<1> QED BY <1>1, <1>2, <1>3, <1>4, <1>5, <1>6, <1>7, <1>8, <1>9, <1>10, <1>11, <1>12,
           <1>13, <1>14 DEF Handle

\* The clients' own steps (acks, dial, handshake, replies) keep the state well-typed.
LEMMA ClientType ==
    ASSUME IInv, NEW s \in Sessions,
           \/ \E c \in Clients : Handshake(c, s) \/ HangUp(c, s)
           \/ Dial(s)
           \/ \E r \in Requests : ClientReply(s, r)
           \/ \E p \in Purposes : BreakStream(s, p)
    PROVE  TypeOK'
<1> USE DEF callVars, readVars, nodeVars, hsVars, busVars, loopVars
<1>a. TypeOK BY DEF IInv
<1>b. From[s] \in Nodes /\ Clients \subseteq Nodes
  BY CircuitAssumption DEF Nodes
<1>1. ASSUME NEW c \in Clients, NEW m \in Handshakes, ReadHandshake(c, s, m) PROVE TypeOK'
  <2>1. inbox' \in [Ends -> SUBSET Msgs]
    BY <1>a, <1>1, MsgTypes, DeliverType DEF ReadHandshake, TypeOK, HsReply, Handshakes
  <2>2. HsNext(m) \in HsStates
    BY DEF HsNext, HsStates
  <2> QED BY <1>a, <1>1, <2>1, <2>2 DEF TypeOK, ReadHandshake
<1>2. ASSUME NEW c \in Clients, FinishHandshake(c, s) PROVE TypeOK'
  BY <1>a, <1>2 DEF TypeOK, FinishHandshake, HsStates
<1>3. ASSUME NEW c \in Clients, HangUp(c, s) PROVE TypeOK'
  <2>1. c \in Nodes /\ CloseSession(c, s)
    BY <1>b, <1>3 DEF HangUp
  <2>2. /\ session' \in [Nodes \X Sessions -> SessionRec]
        /\ down' \in SUBSET Streams
        /\ circuit' \in [Nodes \X Sessions -> {"none", "open", "secure"}]
        /\ probe' \in SUBSET (Nodes \X Sessions)
    BY <1>a, <2>1, CloseType
  <2> QED BY <1>a, <1>3, <2>2 DEF TypeOK, HangUp
<1>4. CASE DialStart(s)
  BY <1>a, <1>4 DEF TypeOK, DialStart, LoopStates, CallStates
<1>5. CASE DialCircuit(s)
  <2>1. <<s, "NewCircuit">> \in Keys /\ <<s, "NewCircuit">> \in Sessions \X Requests
    BY DEF Keys, Requests
  <2>2. bus' \in SUBSET Keys /\ asked' \in SUBSET (Sessions \X Requests)
    BY <1>a, <1>5, <2>1 DEF TypeOK, DialCircuit, AskAndWait
  <2>3. circuit' \in [Nodes \X Sessions -> {"none", "open", "secure"}]
    BY <1>a, <1>5 DEF TypeOK, DialCircuit
  <2>4. pc' \in [Sessions \X Tasks -> LoopStates]
    BY <1>a, <1>5 DEF TypeOK, DialCircuit, LoopStates
  <2> QED BY <1>a, <1>5, <2>2, <2>3, <2>4 DEF TypeOK, DialCircuit
<1>6. CASE DialPanic(s)
  BY <1>a, <1>6 DEF TypeOK, DialPanic, LoopStates
<1>7. CASE DialReturn(s)
  BY <1>a, <1>7 DEF TypeOK, DialReturn, LoopStates
<1>8. ASSUME NEW r \in Requests, ClientReply(s, r) PROVE TypeOK'
  <2>1. acks' \in SUBSET (Keys \X BOOLEAN)
    BY <1>a, <1>8, AckType DEF ClientReply, Keys
  <2> QED BY <1>a, <1>8, <2>1 DEF TypeOK, ClientReply
<1>9. ASSUME NEW p \in Purposes, BreakStream(s, p) PROVE TypeOK'
  BY <1>a, <1>9 DEF TypeOK, BreakStream, Streams
<1> QED BY <1>1, <1>2, <1>3, <1>4, <1>5, <1>6, <1>7, <1>8, <1>9 DEF Handshake, Dial

\* The proxy loop of the entry node keeps the state well-typed.
LEMMA EntryType ==
    ASSUME IInv, NEW s \in Sessions, EntryLoop(s)
    PROVE  TypeOK'
<1> USE DEF callVars, readVars, nodeVars, hsVars, busVars, loopVars
<1> DEFINE n == Entry(s)
<1>a. TypeOK BY DEF IInv
<1>b. n \in Nodes /\ n \in Servers
  BY CircuitAssumption DEF Nodes, Entry
<1>c. \A r \in Requests : <<s, r>> \in Keys /\ <<s, r>> \in Sessions \X Requests
  BY DEF Keys
<1>d. \A r \in Requests, b \in BOOLEAN :
         SendAck(<<s, r>>, b) => acks' \in SUBSET (Keys \X BOOLEAN)
  BY <1>a, <1>c, AckType
<1>e. sink[s] \in PickRec
  BY <1>a DEF TypeOK
<1>1. CASE RefuseCircuit(s)
  BY <1>a, <1>d, <1>1 DEF TypeOK, RefuseCircuit, TakeNewCircuit, LoopStates, Requests
<1>2. CASE AcceptDirect(s)
  BY <1>a, <1>2 DEF TypeOK, AcceptDirect, TakeNewCircuit, LoopStates, CallStates
<1>3. CASE DirectDone(s)
  <2>1. inbox' \in [Ends -> SUBSET Msgs]
    BY <1>a, <1>3, MsgTypes, DeliverType DEF DirectDone
  <2> QED BY <1>a, <1>d, <1>3, <2>1 DEF TypeOK, DirectDone, LoopStates, Requests
<1>4. CASE DirectFailed(s)
  BY <1>a, <1>d, <1>4 DEF TypeOK, DirectFailed, LoopStates, Requests
<1>5. CASE AcceptSink(s)
  <2>1. PICK q \in Choices(n, sink[s], {From[s]}) : sink' = [sink EXCEPT ![s] = Try(@, q)]
    BY <1>5 DEF AcceptSink
  <2>2. sink[s].tries < MaxTries
    <3>1. pc[<<s, "circ">>] = "idle" /\ Order(s)
      BY <1>5 DEF IInv, AcceptSink, TakeNewCircuit
    <3> QED BY <3>1 DEF Order, MaxTries
  <2>3. Try(sink[s], q) \in PickRec
    BY <1>b, <1>e, <2>1, <2>2, PickTypes
  <2>4. sink' \in [Sessions -> PickRec]
    BY <1>a, <2>1, <2>3 DEF TypeOK
  <2> QED BY <1>a, <1>5, <2>4 DEF TypeOK, AcceptSink, TakeNewCircuit, LoopStates, CallStates
<1>6. CASE RetrySink(s)
  <2>1. PICK q \in Choices(n, Reject(sink[s]), {From[s]}) :
                 sink' = [sink EXCEPT ![s] = Try(Reject(sink[s]), q)]
    BY <1>6 DEF RetrySink
  <2>2. Reject(sink[s]) \in PickRec /\ Reject(sink[s]).tries < MaxTries
    BY <1>e, <1>6, RejectType DEF RetrySink
  <2>3. Try(Reject(sink[s]), q) \in PickRec
    BY <1>b, <2>1, <2>2, PickTypes
  <2> QED BY <1>a, <1>6, <2>1, <2>3 DEF TypeOK, RetrySink, CallStates
<1>7. CASE GiveUpSink(s)
  BY <1>a, <1>b, <1>d, <1>7, CloseType DEF TypeOK, GiveUpSink, LoopStates, Requests
<1>8. CASE SinkDone(s)
  BY <1>a, <1>c, <1>8 DEF TypeOK, SinkDone, AskAndWait, LoopStates, Requests
<1>9. CASE Publish(s)
  BY <1>a, <1>9 DEF TypeOK, Publish, LoopStates, Tasks
<1>10. CASE SendProbe(s)
  <2>1. inbox' \in [Ends -> SUBSET Msgs]
    BY <1>a, <1>10, MsgTypes, DeliverType DEF SendProbe
  <2> QED BY <1>a, <1>d, <1>10, <2>1 DEF TypeOK, SendProbe, LoopStates, Requests, IsSome
<1> QED BY <1>1, <1>2, <1>3, <1>4, <1>5, <1>6, <1>7, <1>8, <1>9, <1>10 DEF EntryLoop

\* The publish loop of the access node keeps the state well-typed.
LEMMA AccessType ==
    ASSUME IInv, NEW s \in Sessions, AccessLoop(s)
    PROVE  TypeOK'
<1> USE DEF callVars, readVars, nodeVars, hsVars, busVars, loopVars
<1> DEFINE n == Access(s)
<1>a. TypeOK BY DEF IInv
<1>b. n \in Nodes /\ n \in Servers
  BY CircuitAssumption DEF Nodes, Access
<1>c. \A r \in Requests : AskAndWait(s, r) =>
         bus' \in SUBSET Keys /\ asked' \in SUBSET (Sessions \X Requests)
  BY <1>a DEF TypeOK, AskAndWait, Keys
<1>d. relay[s] \in PickRec
  BY <1>a DEF TypeOK
<1>1. CASE AskDecrypt(s)
  <2>1. bus' \in SUBSET Keys /\ asked' \in SUBSET (Sessions \X Requests)
    BY <1>c, <1>1 DEF AskDecrypt, Requests
  <2> QED BY <1>a, <1>1, <2>1 DEF TypeOK, AskDecrypt, LoopStates
<1>2. CASE Decrypted(s)
  BY <1>a, <1>2 DEF TypeOK, Decrypted, LoopStates, CallStates
<1>3. CASE GiveUpPub(s)
  BY <1>a, <1>b, <1>3, CloseType DEF TypeOK, GiveUpPub, LoopStates
<1>4. CASE SinkIsAccess(s)
  <2>1. inbox' \in [Ends -> SUBSET Msgs]
    BY <1>a, <1>4, MsgTypes, DeliverType DEF SinkIsAccess
  <2> QED BY <1>a, <1>4, <2>1 DEF TypeOK, SinkIsAccess, LoopStates
<1>5. CASE PickRelay(s)
  <2>1. PICK q \in Choices(n, relay[s], NotAsRelay(s)) :
               relay' = [relay EXCEPT ![s] = Try(@, q)]
    BY <1>5 DEF PickRelay
  <2>2. relay[s].tries < MaxTries
    <3>1. pc[<<s, "pub">>] = "answer" /\ Order(s)
      BY <1>5 DEF IInv, PickRelay
    <3> QED BY <3>1 DEF Order, MaxTries
  <2>3. Try(relay[s], q) \in PickRec
    BY <1>b, <1>d, <2>1, <2>2, PickTypes
  <2>4. relay' \in [Sessions -> PickRec]
    BY <1>a, <2>1, <2>3 DEF TypeOK
  <2> QED BY <1>a, <1>5, <2>4 DEF TypeOK, PickRelay, LoopStates, CallStates
<1>6. CASE RetryRelay(s)
  <2>1. PICK q \in Choices(n, Reject(relay[s]), NotAsRelay(s)) :
                 relay' = [relay EXCEPT ![s] = Try(Reject(relay[s]), q)]
    BY <1>6 DEF RetryRelay
  <2>2. Reject(relay[s]) \in PickRec /\ Reject(relay[s]).tries < MaxTries
    BY <1>d, <1>6, RejectType DEF RetryRelay
  <2>3. Try(Reject(relay[s]), q) \in PickRec
    BY <1>b, <2>1, <2>2, PickTypes
  <2> QED BY <1>a, <1>6, <2>1, <2>3 DEF TypeOK, RetryRelay, CallStates
<1>7. CASE AskExpend(s)
  <2>1. bus' \in SUBSET Keys /\ asked' \in SUBSET (Sessions \X Requests)
    BY <1>c, <1>7 DEF AskExpend, Requests
  <2> QED BY <1>a, <1>7, <2>1 DEF TypeOK, AskExpend, LoopStates
<1>8. CASE ExpendDone(s)
  <2>1. inbox' \in [Ends -> SUBSET Msgs]
    BY <1>a, <1>8, MsgTypes, DeliverType DEF ExpendDone
  <2> QED BY <1>a, <1>8, <2>1 DEF TypeOK, ExpendDone, LoopStates
<1> QED BY <1>1, <1>2, <1>3, <1>4, <1>5, <1>6, <1>7, <1>8 DEF AccessLoop

\* A relay that is asked to extend a session, or is doing so, is a node.
LEMMA RelayIsNode ==
    ASSUME IInv, NEW s \in Sessions,
           <<s, "SessionExpend">> \in asked \/ pc[<<s, "cmd">>] = "open"
    PROVE  relay[s].peer \in Nodes
<1>1. call[<<s, "relay">>] = "done"
  BY DEF IInv, Order
<1> QED BY <1>1 DEF IInv, OpenedAt, Unopened, Dst, Purposes

\* The cmd loop of the relay keeps the state well-typed.
LEMMA RelayType ==
    ASSUME IInv, NEW s \in Sessions, RelayLoop(s)
    PROVE  TypeOK'
<1> USE DEF callVars, readVars, nodeVars, hsVars, busVars, loopVars
<1> DEFINE n == relay[s].peer
<1>a. TypeOK BY DEF IInv
<1>b. <<s, "SessionExpend">> \in Keys
  BY DEF Keys, Requests
<1>c. \A b \in BOOLEAN : SendAck(<<s, "SessionExpend">>, b) => acks' \in SUBSET (Keys \X BOOLEAN)
  BY <1>a, <1>b, AckType
<1>1. CASE NoSuchSession(s)
  <2>1. n \in Nodes
    BY <1>1, RelayIsNode DEF NoSuchSession, TakeExpend
  <2> QED BY <1>a, <1>c, <1>1, <2>1, CloseType DEF TypeOK, NoSuchSession, TakeExpend, LoopStates
<1>2. CASE RelayIsEntry(s)
  <2>1. inbox' \in [Ends -> SUBSET Msgs]
    BY <1>a, <1>2, MsgTypes, DeliverType DEF RelayIsEntry
  <2> QED BY <1>a, <1>c, <1>2, <2>1 DEF TypeOK, RelayIsEntry, TakeExpend, LoopStates
<1>3. CASE Expend(s)
  BY <1>a, <1>3 DEF TypeOK, Expend, TakeExpend, LoopStates, CallStates
<1>4. CASE ExpendOpened(s)
  BY <1>a, <1>c, <1>4 DEF TypeOK, ExpendOpened, LoopStates
<1>5. CASE ExpendFailed(s)
  <2>1. n \in Nodes
    BY <1>5, RelayIsNode DEF ExpendFailed
  <2> QED BY <1>a, <1>c, <1>5, <2>1, CloseType DEF TypeOK, ExpendFailed, LoopStates
<1> QED BY <1>1, <1>2, <1>3, <1>4, <1>5 DEF RelayLoop

\* Every step keeps the state well-typed, given the order of the tasks.
LEMMA TypeStep ==
    ASSUME IInv, [Next]_vars
    PROVE  TypeOK'
<1>a. TypeOK BY DEF IInv
<1>1. ASSUME NEW k \in Keys, NEW b \in BOOLEAN, RecvAck(k, b) PROVE TypeOK'
  <2>1. <<k, b>> \in Keys \X BOOLEAN
    OBVIOUS
  <2>2. got \cup {<<k, b>>} \in SUBSET (Keys \X BOOLEAN)
    BY <1>a, <2>1, Zenon DEF TypeOK
  <2> QED BY <1>a, <1>1, <2>2 DEF TypeOK, RecvAck
<1>2. CASE UNCHANGED vars
  BY <1>a, <1>2 DEF TypeOK, vars
<1> QED BY <1>1, <1>2, CallType, HandleType, ClientType, EntryType, AccessType, RelayType
        DEF Next, System, Environment

-----------------------------------------------------------------------------
(* Every action keeps the order.  Most steps leave all of it alone.          *)

SameControl(s) ==
    /\ \A p \in Purposes : call'[<<s, p>>] = call[<<s, p>>]
    /\ \A t \in Tasks : pc'[<<s, t>>] = pc[<<s, t>>]
    /\ <<s, "SessionExpend">> \in asked' => <<s, "SessionExpend">> \in asked
    /\ sink'[s] = sink[s] /\ relay'[s] = relay[s]
    /\ \A p \in Purposes, side \in {"src", "dst"} :
         handler'[<<s, p, side>>] # "off" => handler[<<s, p, side>>] # "off"

\* A step that leaves a session's tasks and calls alone keeps their order.
LEMMA SameKeepsOrder ==
    ASSUME IInv, NEW s \in Sessions, SameControl(s)
    PROVE  OpenedAt(s)' /\ Order(s)'
<1>1. OpenedAt(s) /\ Order(s)
  BY DEF IInv
<1>2. \A p \in Purposes : Dst(s, p)' = Dst(s, p)
  BY DEF SameControl, Dst, Purposes
<1>3. OpenedAt(s)'
  BY <1>1, <1>2 DEF SameControl, OpenedAt
<1>4. Order(s)'
  BY <1>1 DEF SameControl, Order, Purposes, Tasks
<1> QED BY <1>3, <1>4

\* new_session_to_peer keeps the order of the tasks of every session.
LEMMA CallOrder ==
    ASSUME IInv, NEW t \in Sessions, NEW p \in Purposes, Call(t, p), NEW s \in Sessions
    PROVE  OpenedAt(s)' /\ Order(s)'
<1> USE DEF callVars, readVars, nodeVars, hsVars, busVars, loopVars
<1>a. TypeOK /\ OpenedAt(s) /\ Order(s)
  BY DEF IInv
<1>b. PICK v \in CallStates \ {"idle"} : call' = [call EXCEPT ![<<t, p>>] = v]
  BY DEF Call, OpenStream, OpenTimeout, RegisterAck, CheckSession, InsertNew, CloneSession,
         ClonePanic, InsertLater, CallStates
<1>c. /\ UNCHANGED <<pc, asked, sink, relay>>
      /\ call[<<t, p>>] \notin {"idle", "done"}
  BY DEF Call, OpenStream, OpenTimeout, RegisterAck, CheckSession, InsertNew, CloneSession,
         ClonePanic, InsertLater
<1>1. CASE s # t
  <2>1. \A q \in Purposes, side \in {"src", "dst"} : handler'[<<s, q, side>>] = handler[<<s, q, side>>]
    BY <1>a, <1>1 DEF Call, OpenStream, OpenTimeout, RegisterAck, CheckSession, InsertNew,
         CloneSession, ClonePanic, InsertLater, TypeOK, Ends
  <2>2. SameControl(s)
    BY <1>a, <1>b, <1>c, <1>1, <2>1 DEF SameControl, TypeOK, Streams
  <2> QED BY <2>2, SameKeepsOrder
<1>2. CASE s = t
  <2>1. Order(s)'
    BY <1>a, <1>b, <1>c, <1>2 DEF Order, TypeOK, Streams, Purposes
  <2>2. \A q \in Purposes : Dst(s, q)' = Dst(s, q)
    BY <1>c DEF Dst, Purposes
  <2>3. CASE OpenStream(s, p)
    <3>1. Dst(s, p) \in Nodes
      BY <1>a, <2>3, CircuitAssumption
      DEF OpenStream, Dst, Entry, Nodes, Purposes, TypeOK, PickRec
    <3> QED BY <1>a, <2>1, <2>2, <2>3, <3>1
            DEF OpenStream, OpenedAt, TypeOK, Streams, Ends, Unopened
  <2>4. CASE OpenTimeout(s, p)
    BY <1>a, <2>1, <2>2, <2>4 DEF OpenTimeout, OpenedAt, TypeOK, Streams, Unopened
  <2>5. CASE CheckSession(s, p)
    BY <1>a, <2>1, <2>2, <2>5 DEF CheckSession, OpenedAt, TypeOK, Streams, Ends, Unopened
  <2>6. CASE RegisterAck(s, p) \/ InsertNew(s, p) \/ CloneSession(s, p) \/ ClonePanic(s, p)
               \/ InsertLater(s, p)
    <3>1. /\ handler' = handler
          /\ \E w : w \notin Unopened /\ call' = [call EXCEPT ![<<s, p>>] = w]
          /\ call[<<s, p>>] \notin Unopened
      BY <2>6 DEF RegisterAck, InsertNew, CloneSession, ClonePanic, InsertLater, Unopened
    <3> QED BY <1>a, <2>1, <2>2, <3>1 DEF OpenedAt, TypeOK, Streams
  <2> QED BY <1>2, <2>3, <2>4, <2>5, <2>6 DEF Call
<1> QED BY <1>1, <1>2

\* relay_event_handler keeps the order of the tasks of every session.
LEMMA HandleOrder ==
    ASSUME IInv, NEW e \in Ends, Handle(e), NEW s \in Sessions
    PROVE  OpenedAt(s)' /\ Order(s)'
<1> USE DEF callVars, readVars, nodeVars, hsVars, busVars, loopVars
<1>a. TypeOK BY DEF IInv
<1>1. UNCHANGED <<call, pc, asked, sink, relay>>
  BY DEF Handle, TakeSet, ApplyReplace, ApplyNew, ApplyLater, TakeProbe, CheckProbe,
         StoreProbe, MatchProbe, TakeSuccess, StartHandshake, TakeData, TakeDisconnect,
         TakeErr, CloseOnErr
<1>2. handler[e] # "off" /\ \E v : handler' = [handler EXCEPT ![e] = v]
  <2>1. handler = [handler EXCEPT ![e] = handler[e]]
    BY <1>a DEF TypeOK
  <2>2. CASE TakeSet(e) \/ ApplyReplace(e) \/ ApplyNew(e) \/ CheckProbe(e) \/ StoreProbe(e)
    BY <2>2 DEF TakeSet, ApplyReplace, ApplyNew, CheckProbe, StoreProbe
  <2>3. CASE ApplyLater(e)
    BY <2>3 DEF ApplyLater
  <2>4. CASE MatchProbe(e) \/ StartHandshake(e)
    BY <2>4 DEF MatchProbe, StartHandshake
  <2>5. CASE TakeSuccess(e)
    BY <2>1, <2>5 DEF TakeSuccess
  <2>6. CASE \E m \in Probes : TakeProbe(e, m)
    BY <2>1, <2>6 DEF TakeProbe
  <2>7. CASE \E m \in Handshakes : TakeData(e, m)
    BY <2>1, <2>7 DEF TakeData
  <2>8. CASE TakeDisconnect(e) \/ CloseOnErr(e) \/ TakeErr(e)
    BY <2>8 DEF TakeDisconnect, CloseOnErr, TakeErr
  <2> QED BY <2>2, <2>3, <2>4, <2>5, <2>6, <2>7, <2>8 DEF Handle
<1>3. SameControl(s)
  BY <1>a, <1>1, <1>2 DEF SameControl, TypeOK, Ends
<1> QED BY <1>3, SameKeepsOrder

\* The clients' own steps keep the order of the tasks.
LEMMA ClientOrder ==
    ASSUME IInv, NEW t \in Sessions, NEW s \in Sessions,
           \/ \E c \in Clients : Handshake(c, t) \/ HangUp(c, t)
           \/ Dial(t)
           \/ \E r \in Requests : ClientReply(t, r)
           \/ \E p \in Purposes : BreakStream(t, p)
    PROVE  OpenedAt(s)' /\ Order(s)'
<1> USE DEF callVars, readVars, nodeVars, hsVars, busVars, loopVars
<1>a. TypeOK /\ OpenedAt(s) /\ Order(s)
  BY DEF IInv
<1>1. CASE DialStart(t)
  <2>1. CASE s # t
    BY <1>a, <1>1, <2>1, SameKeepsOrder DEF DialStart, SameControl, TypeOK, Streams, Tasks
  <2>2. CASE s = t
    <3>1. call[<<s, "dial">>] = "idle"
      BY <1>a, <1>1, <2>2 DEF DialStart, Order
    <3>2. \A q \in Purposes : Dst(s, q)' = Dst(s, q)
      BY <1>1 DEF DialStart, Dst, Purposes
    <3>3. OpenedAt(s)'
      BY <1>a, <1>1, <2>2, <3>1, <3>2 DEF DialStart, OpenedAt, TypeOK, Streams, Unopened
    <3>4. Order(s)'
      BY <1>a, <1>1, <2>2, <3>1 DEF DialStart, Order, TypeOK, Streams, Purposes, Tasks
    <3> QED BY <3>3, <3>4
  <2> QED BY <2>1, <2>2
<1>2. CASE DialCircuit(t) \/ DialPanic(t) \/ DialReturn(t)
  <2>1. /\ UNCHANGED <<call, sink, relay, handler>>
        /\ pc[<<t, "dial">>] # "idle"
        /\ \E v : v # "idle" /\ pc' = [pc EXCEPT ![<<t, "dial">>] = v]
        /\ asked' \subseteq asked \cup {<<t, "NewCircuit">>}
    BY <1>2 DEF DialCircuit, DialPanic, DialReturn, AskAndWait
  <2>2. \A q \in Purposes : Dst(s, q)' = Dst(s, q)
    BY <2>1 DEF Dst, Purposes
  <2>3. OpenedAt(s)'
    BY <1>a, <2>1, <2>2 DEF OpenedAt
  <2>4. Order(s)'
    BY <1>a, <2>1 DEF Order, TypeOK, Tasks
  <2> QED BY <2>3, <2>4
<1>3. CASE \/ \E c \in Clients : Handshake(c, t) \/ HangUp(c, t)
           \/ \E r \in Requests : ClientReply(t, r)
           \/ \E p \in Purposes : BreakStream(t, p)
  <2>1. UNCHANGED <<call, pc, sink, relay, handler>> /\ asked' \subseteq asked
    BY <1>3 DEF Handshake, ReadHandshake, FinishHandshake, HangUp, ClientReply, BreakStream
  <2> QED BY <2>1, SameKeepsOrder DEF SameControl
<1> QED BY <1>1, <1>2, <1>3 DEF Dial

\* A step of a loop for session t does not concern the order of session s.
OnlyFor(t) ==
    \A s \in Sessions \ {t} :
        /\ \A p \in Purposes : call'[<<s, p>>] = call[<<s, p>>]
        /\ \A k \in Tasks : pc'[<<s, k>>] = pc[<<s, k>>]
        /\ <<s, "SessionExpend">> \in asked' => <<s, "SessionExpend">> \in asked
        /\ sink'[s] = sink[s] /\ relay'[s] = relay[s]

\* The proxy loop of the entry node keeps the order of the tasks.
LEMMA EntryOrder ==
    ASSUME IInv, NEW t \in Sessions, EntryLoop(t), NEW s \in Sessions
    PROVE  OpenedAt(s)' /\ Order(s)'
<1> USE DEF callVars, readVars, nodeVars, hsVars, busVars, loopVars
<1>a. TypeOK /\ OpenedAt(s) /\ Order(s)
  BY DEF IInv
<1>b. UNCHANGED <<handler, relay>>
  BY DEF EntryLoop, RefuseCircuit, AcceptDirect, DirectDone, DirectFailed, AcceptSink,
         RetrySink, GiveUpSink, SinkDone, Publish, SendProbe
<1>1. CASE s # t
  <2>1. OnlyFor(t)
    <3>1. CASE AcceptSink(t) \/ RetrySink(t)
      BY <1>a, <3>1 DEF AcceptSink, RetrySink, TakeNewCircuit, OnlyFor, TypeOK, Streams, Tasks
    <3>2. CASE AcceptDirect(t)
      BY <1>a, <3>2 DEF AcceptDirect, TakeNewCircuit, OnlyFor, TypeOK, Streams, Tasks
    <3>6. CASE RefuseCircuit(t)
      BY <1>a, <3>6 DEF RefuseCircuit, TakeNewCircuit, OnlyFor, TypeOK, Tasks
    <3>3. CASE DirectDone(t) \/ DirectFailed(t) \/ GiveUpSink(t) \/ SendProbe(t)
      BY <1>a, <3>3 DEF DirectDone, DirectFailed, GiveUpSink, SendProbe, OnlyFor, TypeOK, Tasks
    <3>4. CASE SinkDone(t)
      BY <1>a, <3>4 DEF SinkDone, AskAndWait, OnlyFor, TypeOK, Tasks
    <3>5. CASE Publish(t)
      BY <1>a, <3>5 DEF Publish, OnlyFor, TypeOK, Tasks
    <3> QED BY <3>1, <3>2, <3>3, <3>4, <3>5, <3>6 DEF EntryLoop
  <2> QED BY <1>1, <1>b, <2>1, SameKeepsOrder DEF SameControl, OnlyFor
<1>2. CASE s = t /\ (AcceptSink(t) \/ RetrySink(t))
  <2>1. /\ pc[<<s, "circ">>] \in {"idle", "sink"} /\ pc'[<<s, "circ">>] = "sink"
        /\ \A k \in Tasks \ {"circ"} : pc'[<<s, k>>] = pc[<<s, k>>]
        /\ call[<<s, "sink">>] \in {"idle", "failed"}
        /\ call' = [call EXCEPT ![<<s, "sink">>] = "opening"]
        /\ asked' \subseteq asked
    BY <1>a, <1>2 DEF AcceptSink, RetrySink, TakeNewCircuit, Order, TypeOK, Tasks
  <2>2. pc[<<s, "pub">>] = "idle" /\ call[<<s, "expend">>] = "idle"
    BY <1>a, <2>1 DEF Order
  <2>3. \A q \in Purposes \ {"sink", "expend"} : Dst(s, q)' = Dst(s, q)
    BY <1>b DEF Dst, Purposes
  <2>4. OpenedAt(s)'
    BY <1>a, <1>b, <2>1, <2>2, <2>3 DEF OpenedAt, TypeOK, Streams, Unopened
  <2>5. Order(s)'
    BY <1>a, <1>b, <2>1, <2>2 DEF Order, TypeOK, Streams, Purposes, Tasks
  <2> QED BY <2>4, <2>5
<1>3. CASE s = t /\ AcceptDirect(t)
  <2>1. /\ pc[<<s, "circ">>] = "idle" /\ pc' = [pc EXCEPT ![<<s, "circ">>] = "direct"]
        /\ call[<<s, "direct">>] = "idle"
        /\ call' = [call EXCEPT ![<<s, "direct">>] = "opening"]
        /\ asked' \subseteq asked /\ sink' = sink
    BY <1>a, <1>3 DEF AcceptDirect, TakeNewCircuit, Order
  <2>2. \A q \in Purposes : Dst(s, q)' = Dst(s, q)
    BY <1>b, <2>1 DEF Dst, Purposes
  <2>3. OpenedAt(s)'
    BY <1>a, <1>b, <2>1, <2>2 DEF OpenedAt, TypeOK, Streams, Unopened
  <2>4. Order(s)'
    BY <1>a, <1>b, <2>1 DEF Order, TypeOK, Streams, Purposes, Tasks
  <2> QED BY <2>3, <2>4
<1>4. CASE s = t /\ ~(AcceptSink(t) \/ RetrySink(t) \/ AcceptDirect(t))
  <2>1. UNCHANGED <<call, sink>>
    BY <1>4 DEF EntryLoop, RefuseCircuit, DirectDone, DirectFailed, GiveUpSink, SinkDone,
         Publish, SendProbe
  <2>2. \A q \in Purposes : Dst(s, q)' = Dst(s, q)
    BY <1>b, <2>1 DEF Dst, Purposes
  <2>3. OpenedAt(s)'
    BY <1>a, <1>b, <2>1, <2>2 DEF OpenedAt
  <2>4. CASE Publish(s)
    <3>1. /\ pc[<<s, "circ">>] = "neg" /\ pc'[<<s, "circ">>] = "probe"
          /\ pc'[<<s, "pub">>] \in {"idle", "queued"}
          /\ pc'[<<s, "dial">>] = pc[<<s, "dial">>] /\ pc'[<<s, "cmd">>] = pc[<<s, "cmd">>]
          /\ asked' = asked
      BY <1>a, <2>4 DEF Publish, TypeOK, Tasks
    <3> QED BY <1>a, <1>b, <2>1, <2>3, <3>1 DEF Order
  <2>5. CASE SinkDone(s)
    <3>1. /\ pc[<<s, "circ">>] = "sink" /\ pc'[<<s, "circ">>] = "neg"
          /\ call[<<s, "sink">>] = "done"
          /\ \A k \in {"dial", "pub", "cmd"} : pc'[<<s, k>>] = pc[<<s, k>>]
          /\ asked' \subseteq asked \cup {<<s, "NegPlainText">>}
      BY <1>a, <2>5 DEF SinkDone, AskAndWait, TypeOK, Tasks
    <3> QED BY <1>a, <1>b, <2>1, <2>3, <3>1 DEF Order
  <2>6. CASE RefuseCircuit(s) \/ DirectDone(s) \/ DirectFailed(s) \/ GiveUpSink(s) \/ SendProbe(s)
    <3>1. pc' = [pc EXCEPT ![<<s, "circ">>] = "done"] /\ asked' \subseteq asked
      BY <2>6 DEF RefuseCircuit, TakeNewCircuit, DirectDone, DirectFailed, GiveUpSink, SendProbe
    <3>2. pc'[<<s, "circ">>] = "done" /\ \A k \in {"dial", "pub", "cmd"} : pc'[<<s, k>>] = pc[<<s, k>>]
      BY <1>a, <3>1 DEF TypeOK, Tasks
    <3> QED BY <1>a, <1>b, <2>1, <2>3, <3>1, <3>2 DEF Order
  <2> QED BY <1>4, <2>3, <2>4, <2>5, <2>6 DEF EntryLoop
<1> QED BY <1>1, <1>2, <1>3, <1>4

\* The publish loop of the access node keeps the order of the tasks.
LEMMA AccessOrder ==
    ASSUME IInv, NEW t \in Sessions, AccessLoop(t), NEW s \in Sessions
    PROVE  OpenedAt(s)' /\ Order(s)'
<1> USE DEF callVars, readVars, nodeVars, hsVars, busVars, loopVars
<1>a. TypeOK /\ OpenedAt(s) /\ Order(s)
  BY DEF IInv
<1>b. UNCHANGED <<handler, sink>>
  BY DEF AccessLoop, AskDecrypt, Decrypted, GiveUpPub, SinkIsAccess, PickRelay, RetryRelay,
         AskExpend, ExpendDone
<1>1. CASE s # t
  <2>1. OnlyFor(t)
    <3>1. CASE PickRelay(t) \/ RetryRelay(t)
      BY <1>a, <3>1 DEF PickRelay, RetryRelay, OnlyFor, TypeOK, Streams, Tasks
    <3>2. CASE Decrypted(t)
      BY <1>a, <3>2 DEF Decrypted, OnlyFor, TypeOK, Streams, Tasks
    <3>3. CASE GiveUpPub(t) \/ SinkIsAccess(t) \/ ExpendDone(t)
      BY <1>a, <3>3 DEF GiveUpPub, SinkIsAccess, ExpendDone, OnlyFor, TypeOK, Tasks
    <3>4. CASE AskDecrypt(t) \/ AskExpend(t)
      BY <1>a, <3>4 DEF AskDecrypt, AskExpend, AskAndWait, OnlyFor, TypeOK, Tasks
    <3> QED BY <3>1, <3>2, <3>3, <3>4 DEF AccessLoop
  <2> QED BY <1>1, <1>b, <2>1, SameKeepsOrder DEF SameControl, OnlyFor
<1>2. CASE s = t /\ (PickRelay(t) \/ RetryRelay(t))
  <2>1. /\ pc[<<s, "pub">>] \in {"answer", "relay"} /\ pc'[<<s, "pub">>] = "relay"
        /\ \A k \in Tasks \ {"pub"} : pc'[<<s, k>>] = pc[<<s, k>>]
        /\ call[<<s, "relay">>] \in {"idle", "failed"}
        /\ call' = [call EXCEPT ![<<s, "relay">>] = "opening"]
        /\ asked' = asked
    BY <1>a, <1>2 DEF PickRelay, RetryRelay, Order, TypeOK, Tasks
  <2>2. call[<<s, "expend">>] = "idle" /\ <<s, "SessionExpend">> \notin asked
    BY <1>a, <2>1 DEF Order
  <2>3. \A q \in Purposes \ {"relay"} : Dst(s, q)' = Dst(s, q)
    BY <1>b DEF Dst, Purposes
  <2>4. OpenedAt(s)'
    BY <1>a, <1>b, <2>1, <2>2, <2>3 DEF OpenedAt, TypeOK, Streams, Unopened
  <2>5. Order(s)'
    BY <1>a, <1>b, <2>1, <2>2 DEF Order, TypeOK, Streams, Purposes, Tasks
  <2> QED BY <2>4, <2>5
<1>3. CASE s = t /\ Decrypted(t)
  <2>1. /\ pc[<<s, "pub">>] = "decrypt" /\ pc'[<<s, "pub">>] = "answer"
        /\ \A k \in Tasks \ {"pub"} : pc'[<<s, k>>] = pc[<<s, k>>]
        /\ call[<<s, "answer">>] = "idle"
        /\ call' = [call EXCEPT ![<<s, "answer">>] = "opening"]
        /\ asked' = asked /\ relay' = relay
    BY <1>a, <1>3 DEF Decrypted, Order, TypeOK, Tasks
  <2>2. \A q \in Purposes : Dst(s, q)' = Dst(s, q)
    BY <1>b, <2>1 DEF Dst, Purposes
  <2>3. OpenedAt(s)'
    BY <1>a, <1>b, <2>1, <2>2 DEF OpenedAt, TypeOK, Streams, Unopened
  <2>4. Order(s)'
    BY <1>a, <1>b, <2>1 DEF Order, TypeOK, Streams, Purposes, Tasks
  <2> QED BY <2>3, <2>4
<1>4. CASE s = t /\ ~(PickRelay(t) \/ RetryRelay(t) \/ Decrypted(t))
  <2>1. UNCHANGED <<call, relay>>
    BY <1>4 DEF AccessLoop, AskDecrypt, GiveUpPub, SinkIsAccess, AskExpend, ExpendDone
  <2>2. \A q \in Purposes : Dst(s, q)' = Dst(s, q)
    BY <1>b, <2>1 DEF Dst, Purposes
  <2>3. OpenedAt(s)'
    BY <1>a, <1>b, <2>1, <2>2 DEF OpenedAt
  <2>4. CASE AskDecrypt(s)
    <3>1. /\ pc[<<s, "pub">>] = "queued" /\ pc'[<<s, "pub">>] = "decrypt"
          /\ \A k \in {"dial", "circ", "cmd"} : pc'[<<s, k>>] = pc[<<s, k>>]
          /\ asked' \subseteq asked \cup {<<s, "DecryptGossip">>}
      BY <1>a, <2>4 DEF AskDecrypt, AskAndWait, TypeOK, Tasks
    <3> QED BY <1>a, <1>b, <2>1, <2>3, <3>1 DEF Order
  <2>5. CASE AskExpend(s)
    <3>1. /\ pc[<<s, "pub">>] = "relay" /\ pc'[<<s, "pub">>] = "expend"
          /\ call[<<s, "relay">>] = "done"
          /\ \A k \in {"dial", "circ", "cmd"} : pc'[<<s, k>>] = pc[<<s, k>>]
      BY <1>a, <2>5 DEF AskExpend, TypeOK, Tasks
    <3> QED BY <1>a, <1>b, <2>1, <2>3, <3>1 DEF Order
  <2>6. CASE GiveUpPub(s) \/ SinkIsAccess(s) \/ ExpendDone(s)
    <3>1. pc' = [pc EXCEPT ![<<s, "pub">>] = "done"] /\ asked' = asked /\ pc[<<s, "pub">>] # "idle"
      BY <2>6 DEF GiveUpPub, PubFailed, SinkIsAccess, ExpendDone
    <3>2. pc'[<<s, "pub">>] = "done" /\ \A k \in {"dial", "circ", "cmd"} : pc'[<<s, k>>] = pc[<<s, k>>]
      BY <1>a, <3>1 DEF TypeOK, Tasks
    <3> QED BY <1>a, <1>b, <2>1, <2>3, <3>1, <3>2 DEF Order
  <2> QED BY <1>4, <2>4, <2>5, <2>6 DEF AccessLoop
<1> QED BY <1>1, <1>2, <1>3, <1>4

\* The cmd loop of the relay keeps the order of the tasks.
LEMMA RelayOrder ==
    ASSUME IInv, NEW t \in Sessions, RelayLoop(t), NEW s \in Sessions
    PROVE  OpenedAt(s)' /\ Order(s)'
<1> USE DEF callVars, readVars, nodeVars, hsVars, busVars, loopVars
<1>a. TypeOK /\ OpenedAt(s) /\ Order(s)
  BY DEF IInv
<1>b. UNCHANGED <<handler, sink, relay>> /\ asked' \subseteq asked
  BY DEF RelayLoop, NoSuchSession, RelayIsEntry, Expend, ExpendOpened, ExpendFailed, TakeExpend
<1>c. \A q \in Purposes : Dst(s, q)' = Dst(s, q)
  BY <1>b DEF Dst, Purposes
<1>1. CASE ~Expend(t)
  <2>1. call' = call /\ pc' = [pc EXCEPT ![<<t, "cmd">>] = "done"]
    BY <1>1 DEF RelayLoop, NoSuchSession, RelayIsEntry, ExpendOpened, ExpendFailed
  <2>2. /\ \A k \in {"dial", "circ", "pub"} : pc'[<<s, k>>] = pc[<<s, k>>]
        /\ pc'[<<s, "cmd">>] = "open" => pc[<<s, "cmd">>] = "open"
    BY <1>a, <2>1 DEF TypeOK, Tasks
  <2>3. OpenedAt(s)'
    BY <1>a, <1>b, <1>c, <2>1 DEF OpenedAt
  <2>4. Order(s)'
    BY <1>a, <1>b, <2>1, <2>2 DEF Order
  <2> QED BY <2>3, <2>4
<1>2. CASE Expend(t)
  <2>1. /\ call' = [call EXCEPT ![<<t, "expend">>] = "opening"]
        /\ pc' = [pc EXCEPT ![<<t, "cmd">>] = "open"]
        /\ <<t, "SessionExpend">> \in asked
        /\ asked' = asked \ {<<t, "SessionExpend">>}
    BY <1>2 DEF Expend, TakeExpend
  <2>2. CASE s # t
    BY <1>a, <1>b, <2>1, <2>2, SameKeepsOrder DEF SameControl, TypeOK, Streams, Tasks
  <2>3. CASE s = t
    <3>1. /\ call[<<s, "expend">>] = "idle" /\ call[<<s, "relay">>] = "done"
          /\ pc[<<s, "pub">>] \notin {"idle", "queued", "decrypt", "answer", "relay"}
      BY <1>a, <2>1, <2>3 DEF Order
    <3>2. OpenedAt(s)'
      BY <1>a, <1>b, <1>c, <2>1, <2>3, <3>1 DEF OpenedAt, TypeOK, Streams, Unopened
    <3>3. /\ \A k \in {"dial", "circ", "pub"} : pc'[<<s, k>>] = pc[<<s, k>>]
          /\ \A q \in Purposes \ {"expend"} : call'[<<s, q>>] = call[<<s, q>>]
          /\ call'[<<s, "expend">>] = "opening"
      BY <1>a, <2>1, <2>3 DEF TypeOK, Tasks, Streams, Purposes
    <3>4. Order(s)'
      BY <1>a, <1>b, <2>1, <2>3, <3>1, <3>3 DEF Order, Purposes
    <3> QED BY <3>2, <3>4
  <2> QED BY <2>2, <2>3
<1> QED BY <1>1, <1>2

\* The inductive invariant behind typing.
LEMMA IInvInit == Init => IInv
<1> SUFFICES ASSUME Init PROVE IInv
  OBVIOUS
<1>1. NoSession \in SessionRec /\ NoPick \in PickRec
  BY DEF NoSession, SessionRec, NoPick, PickRec
<1>2. TypeOK
  BY <1>1 DEF Init, TypeOK, CallStates, HandlerStates, HsStates, LoopStates
<1>3. ASSUME NEW s \in Sessions PROVE OpenedAt(s) /\ Order(s)
  BY DEF Init, OpenedAt, Order, Unopened, NoPick, Streams, Ends, Tasks, Purposes
<1> QED BY <1>2, <1>3 DEF IInv

\* Every step keeps the inductive invariant.
LEMMA IInvStep == IInv /\ [Next]_vars => IInv'
<1> SUFFICES ASSUME IInv, [Next]_vars PROVE IInv'
  OBVIOUS
<1>1. TypeOK'
  BY TypeStep
<1>2. ASSUME NEW s \in Sessions PROVE OpenedAt(s)' /\ Order(s)'
  <2>1. ASSUME NEW k \in Keys, NEW b \in BOOLEAN, RecvAck(k, b) PROVE SameControl(s)
    BY <2>1 DEF RecvAck, SameControl
  <2>2. CASE UNCHANGED vars
    <3>1. SameControl(s)
      BY <2>2 DEF vars, SameControl
    <3> QED BY <3>1, SameKeepsOrder
  <2> QED BY <2>1, <2>2, SameKeepsOrder, CallOrder, HandleOrder, ClientOrder, EntryOrder,
             AccessOrder, RelayOrder DEF Next, System, Environment
<1> QED BY <1>1, <1>2 DEF IInv

\* Every state of every run has the types that the code's maps, channels and
\* counters have: in particular a loop makes at most MaxTries tries for a peer.
THEOREM TypeCorrect == Spec => []TypeOK
<1>1. IInv => TypeOK
  BY DEF IInv
<1> QED BY <1>1, IInvInit, IInvStep, PTL DEF Spec

-----------------------------------------------------------------------------
(* The tries of a loop are different peers, for every peer table, and an ack *)
(* means what it says.                                                       *)

\* What a loop knows of its tries among the candidates C: nothing before the
\* first; then it has tried only candidates, and as many different ones as it
\* could.
Tries(pick, C) ==
    /\ pick.tries = 0 => pick.invalid = {}
    /\ pick.tries # 0 /\ C # {} => pick.invalid \cup {pick.peer} \subseteq C
    /\ Tried(pick, C)

\* The candidates of the two loops.
SinkCands(s) == Kad[Entry(s)] \ {Entry(s), Boot}
RelayCands(s) == Kad[Access(s)] \ {Access(s), sink[s].peer, Boot}

\* What a try may choose among the candidates C (Choices, with C taken apart).
Next1(pick, C) == IF C \ pick.invalid = {} THEN {pick.peer} ELSE C \ pick.invalid

\* The first try is one of the candidates, if there are any.
LEMMA FirstTry ==
    ASSUME NEW C, IsFiniteSet(C), NEW pick \in PickRec, pick.tries = 0, Tries(pick, C),
           NEW q \in Next1(pick, C)
    PROVE  Tries(Try(pick, q), C)
<1>1. /\ Try(pick, q).invalid = {} /\ Try(pick, q).peer = q
      /\ Try(pick, q).tries = 1
  BY DEF Try, PickRec, Tries
<1>2. C # {} => q \in C
  BY DEF Next1, Tries
<1>3. Cardinality(C) \in Nat /\ (C # {} => Cardinality(C) # 0)
  BY FS_CardinalityType, FS_EmptySet
<1>4. Cardinality({} \cup {q}) = 1
  <2>1. {} \cup {q} = {q}
    OBVIOUS
  <2> QED BY <2>1, FS_Singleton
<1>5. Tried(Try(pick, q), C)
  BY <1>1, <1>3, <1>4 DEF Tried
<1> QED BY <1>1, <1>2, <1>5 DEF Tries

\* A further try is a candidate that has not failed, or all have failed.
LEMMA NextTry ==
    ASSUME NEW C, IsFiniteSet(C), NEW pick \in PickRec, pick.tries # 0, Tries(pick, C),
           NEW q \in Next1(Reject(pick), C)
    PROVE  Tries(Try(Reject(pick), q), C)
<1> DEFINE old == pick.invalid \cup {pick.peer}
           new == Try(Reject(pick), q)
<1>1. /\ new.invalid = old /\ new.peer = q /\ new.tries = pick.tries + 1
      /\ pick.tries \in Nat
      /\ Reject(pick).invalid = old /\ Reject(pick).peer = pick.peer
  BY DEF Try, Reject, PickRec
<1>2. CASE C = {}
  BY <1>1, <1>2 DEF Tries, Tried
<1>3. CASE C # {}
  <2>1. old \subseteq C
    BY <1>3 DEF Tries
  <2>2. /\ Cardinality(C) \in Nat
        /\ IsFiniteSet(old) /\ Cardinality(old) <= Cardinality(C)
        /\ Cardinality(C) = Cardinality(old) => C = old
    BY <2>1, FS_CardinalityType, FS_Subset
  <2>3. Cardinality(old) = IF pick.tries < Cardinality(C) THEN pick.tries ELSE Cardinality(C)
    BY <1>3 DEF Tries, Tried
  <2>4. CASE C \ old = {}
    <3>1. C = old /\ q = pick.peer
      BY <1>1, <2>1, <2>4 DEF Next1
    <3>2. old \cup {q} = C
      BY <3>1
    <3>3. pick.tries + 1 >= Cardinality(C)
      BY <1>1, <2>2, <2>3, <3>1
    <3>4. Tried(new, C)
      BY <1>1, <2>2, <3>2, <3>3 DEF Tried
    <3> QED BY <1>1, <3>2, <3>4 DEF Tries
  <2>5. CASE C \ old # {}
    <3>1. q \in C /\ q \notin old
      BY <1>1, <2>5 DEF Next1
    <3>2. Cardinality(old \cup {q}) = Cardinality(old) + 1
      BY <2>2, <3>1, FS_AddElement
    <3>3. Cardinality(old) # Cardinality(C)
      BY <2>2, <3>1
    <3>4. pick.tries < Cardinality(C) /\ Cardinality(old) = pick.tries
      BY <2>3, <3>3
    <3>5. Cardinality(old \cup {q}) =
            IF pick.tries + 1 < Cardinality(C) THEN pick.tries + 1 ELSE Cardinality(C)
      BY <1>1, <2>2, <3>2, <3>4
    <3>6. Tried(new, C)
      BY <1>1, <3>5 DEF Tried
    <3>7. old \cup {q} \subseteq C
      BY <2>1, <3>1
    <3> QED BY <1>1, <3>6, <3>7 DEF Tries
  <2> QED BY <2>4, <2>5
<1> QED BY <1>2, <1>3

\* A try is counted.
LEMMA TryCounts ==
    ASSUME NEW pick \in PickRec, NEW q
    PROVE  Try(pick, q).tries # 0 /\ Try(Reject(pick), q).tries # 0
BY DEF Try, Reject, PickRec

\* The tries of both loops of a session.
TriesInv(s) ==
    /\ Tries(sink[s], SinkCands(s))
    /\ Tries(relay[s], RelayCands(s))
    /\ pc[<<s, "circ">>] = "sink" => sink[s].tries # 0
    /\ pc[<<s, "pub">>] = "relay" => relay[s].tries # 0

\* A step that chooses no peer for session s.
NoChoice(s) ==
    /\ sink'[s] = sink[s] /\ relay'[s] = relay[s]
    /\ pc'[<<s, "circ">>] = "sink" => pc[<<s, "circ">>] = "sink"
    /\ pc'[<<s, "pub">>] = "relay" => pc[<<s, "pub">>] = "relay"

\* The candidates are finitely many, and Choices takes from them.
LEMMA CandsOK ==
    ASSUME NEW s \in Sessions, NEW pick
    PROVE  /\ IsFiniteSet(SinkCands(s)) /\ IsFiniteSet(RelayCands(s))
           /\ Choices(Entry(s), pick, {From[s]}) = Next1(pick, SinkCands(s))
           /\ Choices(Access(s), pick, NotAsRelay(s)) = Next1(pick, RelayCands(s))
<1>1. Entry(s) \in Servers /\ Access(s) \in Servers
  BY CircuitAssumption DEF Entry, Access
<1>2. IsFiniteSet(Kad[Entry(s)]) /\ IsFiniteSet(Kad[Access(s)])
  BY <1>1, KadAssumption
<1>3. SinkCands(s) \in SUBSET Kad[Entry(s)] /\ RelayCands(s) \in SUBSET Kad[Access(s)]
  BY DEF SinkCands, RelayCands
<1>4. IsFiniteSet(SinkCands(s)) /\ IsFiniteSet(RelayCands(s))
  BY <1>2, <1>3, FS_Subset
<1>5. Kad[Entry(s)] \ ({From[s]} \cup pick.invalid \cup {Entry(s), Boot}) = SinkCands(s) \ pick.invalid
  BY <1>1, CircuitAssumption DEF SinkCands
<1>6. Kad[Access(s)] \ (NotAsRelay(s) \cup pick.invalid \cup {Access(s), Boot})
        = RelayCands(s) \ pick.invalid
  BY DEF RelayCands, NotAsRelay
<1> QED BY <1>4, <1>5, <1>6, Zenon DEF Choices, Next1

\* A step that leaves the choices of a session alone keeps what is known of them.
LEMMA SameTries ==
    ASSUME NEW s \in Sessions, TriesInv(s), NoChoice(s)
    PROVE  TriesInv(s)'
BY DEF TriesInv, NoChoice, Tries, Tried, SinkCands, RelayCands, Entry, Access

\* The two loops that choose peers choose different ones.
LEMMA TriesStep ==
    ASSUME IInv, [Next]_vars, NEW s \in Sessions, TriesInv(s)
    PROVE  TriesInv(s)'
<1> USE DEF callVars, readVars, nodeVars, hsVars, busVars, loopVars
<1>a. TypeOK /\ Order(s)
  BY DEF IInv
<1>b. sink[s] \in PickRec /\ relay[s] \in PickRec
  BY <1>a DEF TypeOK
<1>c. SinkCands(s)' = SinkCands(s)
  BY DEF SinkCands, Entry
<1>1. ASSUME NEW t \in Sessions, AcceptSink(t) \/ RetrySink(t) PROVE TriesInv(s)'
  <2>1. CASE t # s
    <3>1. NoChoice(s)
      BY <1>a, <1>1, <2>1 DEF NoChoice, AcceptSink, RetrySink, TypeOK, Tasks
    <3> QED BY <3>1, SameTries
  <2>2. CASE t = s
    <3>1. relay'[s] = relay[s] /\ relay[s].tries = 0
      BY <1>a, <1>1, <2>2 DEF AcceptSink, RetrySink, TakeNewCircuit, Order
    <3>2. Tries(relay'[s], RelayCands(s)')
      BY <3>1 DEF TriesInv, Tries, Tried
    <3>3. Tries(sink'[s], SinkCands(s))
      <4>1. CASE AcceptSink(s)
        <5>1. PICK q \in Choices(Entry(s), sink[s], {From[s]}) : sink' = [sink EXCEPT ![s] = Try(@, q)]
          BY <4>1 DEF AcceptSink
        <5>2. sink'[s] = Try(sink[s], q) /\ sink[s].tries = 0
          BY <1>a, <4>1, <5>1 DEF AcceptSink, TakeNewCircuit, Order, TypeOK
        <5> QED BY <1>b, <5>1, <5>2, CandsOK, FirstTry DEF TriesInv
      <4>2. CASE RetrySink(s)
        <5>1. PICK q \in Choices(Entry(s), Reject(sink[s]), {From[s]}) :
                 sink' = [sink EXCEPT ![s] = Try(Reject(sink[s]), q)]
          BY <4>2 DEF RetrySink
        <5>2. sink'[s] = Try(Reject(sink[s]), q)
          BY <1>a, <5>1 DEF TypeOK
        <5>3. sink[s].tries # 0
          BY <4>2 DEF RetrySink, TriesInv
        <5> QED BY <1>b, <5>1, <5>2, <5>3, CandsOK, NextTry DEF TriesInv
      <4> QED BY <1>1, <2>2, <4>1, <4>2
    <3>4. sink'[s].tries # 0
      <4>1. \E q : sink'[s] \in {Try(sink[s], q), Try(Reject(sink[s]), q)}
        BY <1>a, <1>1, <2>2 DEF AcceptSink, RetrySink, TypeOK
      <4> QED BY <1>b, <4>1, TryCounts
    <3>5. pc'[<<s, "pub">>] = "relay" => relay'[s].tries # 0
      BY <1>a, <1>1, <2>2, <3>1 DEF AcceptSink, RetrySink, TriesInv, TypeOK, Tasks
    <3> QED BY <1>c, <3>2, <3>3, <3>4, <3>5 DEF TriesInv
  <2> QED BY <2>1, <2>2
<1>2. ASSUME NEW t \in Sessions, PickRelay(t) \/ RetryRelay(t) PROVE TriesInv(s)'
  <2>1. CASE t # s
    <3>1. NoChoice(s)
      BY <1>a, <1>2, <2>1 DEF NoChoice, PickRelay, RetryRelay, TypeOK, Tasks
    <3> QED BY <3>1, SameTries
  <2>2. CASE t = s
    <3>1. sink' = sink
      BY <1>2 DEF PickRelay, RetryRelay
    <3>2. RelayCands(s)' = RelayCands(s) /\ Tries(sink'[s], SinkCands(s)')
      BY <1>c, <3>1 DEF RelayCands, Access, TriesInv
    <3>3. Tries(relay'[s], RelayCands(s))
      <4>1. CASE PickRelay(s)
        <5>1. PICK q \in Choices(Access(s), relay[s], NotAsRelay(s)) :
                 relay' = [relay EXCEPT ![s] = Try(@, q)]
          BY <4>1 DEF PickRelay
        <5>2. relay'[s] = Try(relay[s], q) /\ relay[s].tries = 0
          BY <1>a, <4>1, <5>1 DEF PickRelay, Order, TypeOK
        <5> QED BY <1>b, <5>1, <5>2, CandsOK, FirstTry DEF TriesInv
      <4>2. CASE RetryRelay(s)
        <5>1. PICK q \in Choices(Access(s), Reject(relay[s]), NotAsRelay(s)) :
                 relay' = [relay EXCEPT ![s] = Try(Reject(relay[s]), q)]
          BY <4>2 DEF RetryRelay
        <5>2. relay'[s] = Try(Reject(relay[s]), q)
          BY <1>a, <5>1 DEF TypeOK
        <5>3. relay[s].tries # 0
          BY <4>2 DEF RetryRelay, TriesInv
        <5> QED BY <1>b, <5>1, <5>2, <5>3, CandsOK, NextTry DEF TriesInv
      <4> QED BY <1>2, <2>2, <4>1, <4>2
    <3>4. relay'[s].tries # 0
      <4>1. \E q : relay'[s] \in {Try(relay[s], q), Try(Reject(relay[s]), q)}
        BY <1>a, <1>2, <2>2 DEF PickRelay, RetryRelay, TypeOK
      <4> QED BY <1>b, <4>1, TryCounts
    <3>5. pc'[<<s, "circ">>] = "sink" => sink'[s].tries # 0
      BY <1>a, <1>2, <2>2, <3>1 DEF PickRelay, RetryRelay, TriesInv, TypeOK, Tasks
    <3> QED BY <3>2, <3>3, <3>4, <3>5 DEF TriesInv
  <2> QED BY <2>1, <2>2
<1>3. ASSUME ~\E t \in Sessions : AcceptSink(t) \/ RetrySink(t) \/ PickRelay(t) \/ RetryRelay(t)
      PROVE  NoChoice(s)
  <2>1. ASSUME NEW t \in Sessions, NEW p \in Purposes, Call(t, p) PROVE NoChoice(s)
    BY <2>1 DEF NoChoice, Call, OpenStream, OpenTimeout, RegisterAck, CheckSession, InsertNew, CloneSession,
         ClonePanic, InsertLater
  <2>2. ASSUME NEW e \in Ends, Handle(e) PROVE NoChoice(s)
    BY <2>2 DEF NoChoice, Handle, TakeSet, ApplyReplace, ApplyNew, ApplyLater, TakeProbe, CheckProbe,
         StoreProbe, MatchProbe, TakeSuccess, StartHandshake, TakeData, TakeDisconnect,
         TakeErr, CloseOnErr
  <2>3. ASSUME NEW t \in Sessions, Dial(t) \/ RelayLoop(t) PROVE NoChoice(s)
    BY <1>a, <2>3 DEF TypeOK, Tasks, NoChoice, Dial, DialStart, DialCircuit, DialPanic, DialReturn, RelayLoop, NoSuchSession,
         RelayIsEntry, Expend, ExpendOpened, ExpendFailed
  <2>4. ASSUME NEW t \in Sessions, EntryLoop(t) PROVE NoChoice(s)
    BY <1>a, <1>3, <2>4 DEF TypeOK, Tasks, NoChoice, EntryLoop, RefuseCircuit, AcceptDirect, DirectDone, DirectFailed,
         GiveUpSink, SinkDone, Publish, SendProbe
  <2>5. ASSUME NEW t \in Sessions, AccessLoop(t) PROVE NoChoice(s)
    BY <1>a, <1>3, <2>5 DEF TypeOK, Tasks, NoChoice, AccessLoop, AskDecrypt, Decrypted, GiveUpPub, SinkIsAccess, AskExpend,
         ExpendDone
  <2>6. ASSUME NEW c \in Clients, NEW t \in Sessions, Handshake(c, t) \/ HangUp(c, t)
        PROVE  NoChoice(s)
    BY <2>6 DEF NoChoice, Handshake, ReadHandshake, FinishHandshake, HangUp
  <2>7. ASSUME NEW t \in Sessions, NEW p \in Purposes, BreakStream(t, p)
        PROVE  NoChoice(s)
    BY <2>7 DEF NoChoice, BreakStream
  <2>8. ASSUME NEW t \in Sessions, NEW r \in Requests, ClientReply(t, r)
        PROVE  NoChoice(s)
    BY <2>8 DEF NoChoice, ClientReply
  <2>9. ASSUME NEW k \in Keys, NEW b \in BOOLEAN, RecvAck(k, b) PROVE NoChoice(s)
    BY <2>9 DEF NoChoice, RecvAck
  <2>10. CASE UNCHANGED vars
    BY <2>10 DEF NoChoice, vars
  <2> QED BY <2>1, <2>2, <2>3, <2>4, <2>5, <2>6, <2>7, <2>8, <2>9, <2>10
          DEF Next, System, Environment
<1> QED BY <1>1, <1>2, <1>3, SameTries

\* Retries for every peer table: whatever fails to open, handle_new_circuit and
\* process_publish_request try a peer a second time only when all candidates
\* have failed, so MaxTries tries reach MaxTries peers if there are as many.
THEOREM DistinctTriesHolds == Spec => []DistinctTries
<1> DEFINE DInv == IInv /\ \A s \in Sessions : TriesInv(s)
<1>1. Init => DInv
  <2> SUFFICES ASSUME Init, NEW s \in Sessions PROVE TriesInv(s)
    BY IInvInit
  <2> QED BY DEF Init, NoPick, TriesInv, Tries, Tried, Tasks
<1>2. DInv /\ [Next]_vars => DInv'
  BY IInvStep, TriesStep
<1>3. DInv => DistinctTries
  BY DEF DistinctTries, TriesInv, Tries, SinkCands, RelayCands
<1> QED BY <1>1, <1>2, <1>3, PTL DEF Spec

-----------------------------------------------------------------------------
(* Acks.  An ack of SetSession promises that the peer has the stream in its  *)
(* session, but both ends write sessions that they copied before, so the     *)
(* copies must have every acked stream too.  They do because the streams of  *)
(* a session are set up one after the other.                                 *)

\* The handler of the called end has not added the stream to a session yet.
Early == {"off", "fresh", "set"}
Landed(s, p) == handler[<<s, p, "dst">>] \notin Early
AckSeen(s, p) == <<<<s, p>>, TRUE>> \in acks \cup got

\* The states of a call that has received its ack, and those of a call that may
\* still add its stream to the session it will find.
AfterAck == {"insert", "clone", "later", "done", "panicked"}
Adding == {"opening", "failed", "written", "waiting", "clone"}

\* A session is set up one stream after the other, through different servers.
Chain(s) ==
    /\ call[<<s, "direct">>] # "idle" => call[<<s, "dial">>] = "done" /\ call[<<s, "sink">>] = "idle"
    /\ call[<<s, "sink">>] # "idle" => call[<<s, "dial">>] = "done" /\ ~IsDirect(s)
    /\ call[<<s, "answer">>] # "idle" => call[<<s, "sink">>] = "done" /\ To[s] \in Registered
    /\ call[<<s, "relay">>] # "idle" => call[<<s, "answer">>] = "done" /\ sink[s].peer # Access(s)
    /\ <<s, "NewCircuit">> \in asked => call[<<s, "dial">>] = "done"
    /\ pc[<<s, "pub">>] # "idle" => To[s] \in Registered

Peers(s) ==
    /\ sink[s].peer # Entry(s)
    /\ relay[s].peer # Access(s)
    /\ relay[s].peer # NoPeer => relay[s].peer # sink[s].peer
    /\ relay[s].tries = 0 => relay[s].peer = NoPeer

\* Acks come after the stream is in the session, and calls go on after the ack.
Acks(s) == \A p \in Purposes :
    /\ AckSeen(s, p) => Landed(s, p)
    /\ call[<<s, p>>] \in AfterAck => Acked(<<s, p>>, TRUE)
    /\ handler[<<s, p, "src">>] \notin {"fresh", "set"}

\* The streams that node n has added to a session; those that it has acked, and
\* that are not closed.
Joined(n, s) == {p \in Purposes : \/ n = Src(s, p) /\ call[<<s, p>>] = "done"
                                  \/ n = Dst(s, p) /\ Landed(s, p)}
Owed(n, s) == {p \in Purposes : n = Dst(s, p) /\ AckSeen(s, p) /\ <<s, p>> \notin down}

\* A session, or a copy of one, that has only streams of J and all streams of D.
Copy(x, J, D) ==
    /\ IsSome(x) <=> x.early # "none"
    /\ x.later # "none" => x.early # "none" /\ x.early # x.later
    /\ Legs(x) \subseteq J
    /\ D \subseteq Legs(x)

\* What node n has, and what its calls and handlers will write there.
CopiesAt(n, s) ==
    /\ Copy(session[<<n, s>>], Joined(n, s), Owed(n, s))
    /\ \A p \in Purposes :
         /\ n = Src(s, p) /\ call[<<s, p>>] = "insert" => Owed(n, s) = {}
         /\ n = Src(s, p) /\ call[<<s, p>>] = "later" =>
              Copy(clone[<<s, p>>], Joined(n, s) \cup {p}, Owed(n, s))
         /\ n = Dst(s, p) /\ handler[<<s, p, "dst">>] = "set" =>
              Copy(snap[<<s, p, "dst">>], Joined(n, s), Owed(n, s))

Copies(s) == \A n \in Nodes : CopiesAt(n, s)

\* There is room for the stream that is set up: WithLater replaces none, but for
\* the stream to the sink that the entry node replaces on purpose.
Room(s) ==
    /\ \A p \in Purposes : call[<<s, p>>] \in Adding => session[<<Src(s, p), s>>].later = "none"
    /\ \A p \in Purposes : handler[<<s, p, "dst">>] \in {"fresh", "set"} =>
          \/ session[<<Dst(s, p), s>>].later = "none"
          \/ p = "relay" /\ Dst(s, p) = Entry(s)

\* Until the relay's stream arrives, the session of the entry node says that it
\* is the entry node, so that handle_set_session replaces the stream to the sink.
EntryRole(s) ==
    /\ ~Landed(s, "relay") /\ call[<<s, "direct">>] = "idle" =>
          /\ session[<<Entry(s), s>>].role \in {"none", "Entry"}
          /\ clone[<<s, "sink">>].role \in {"none", "Entry"}
    /\ handler[<<s, "relay", "dst">>] = "set" /\ Dst(s, "relay") = Entry(s) =>
          snap[<<s, "relay", "dst">>].role \in {"none", "Entry"}

AckInv(s) == Chain(s) /\ Peers(s) /\ Acks(s) /\ Copies(s) /\ Room(s) /\ EntryRole(s)

-----------------------------------------------------------------------------
(* What follows from the invariant in one state.                             *)

\* While a stream is set up, every other one is finished or not begun.
LEMMA Solo ==
    ASSUME IInv, NEW s \in Sessions, Chain(s), Acks(s),
           NEW q \in Purposes, call[<<s, q>>] \notin {"idle", "done"},
           NEW p \in Purposes, p # q
    PROVE  call[<<s, p>>] \in {"idle", "done"} /\ handler[<<s, p, "dst">>] \notin {"fresh", "set"}
<1>1. call[<<s, p>>] \in {"idle", "done"}
  BY DEF IInv, Order, Chain, Purposes
<1>2. call[<<s, p>>] = "done" => Landed(s, p)
  BY DEF Acks, AfterAck, Acked, AckSeen
<1>3. call[<<s, p>>] = "idle" => handler[<<s, p, "dst">>] = "off"
  BY DEF IInv, OpenedAt, Unopened
<1> QED BY <1>1, <1>2, <1>3 DEF Landed, Early

\* A handler that has not added its stream belongs to a call that waits for the ack.
LEMMA FreshCall ==
    ASSUME IInv, NEW s \in Sessions, Acks(s), NEW p \in Purposes,
           handler[<<s, p, "dst">>] \in {"fresh", "set"}
    PROVE  call[<<s, p>>] \in {"written", "waiting"} /\ ~AckSeen(s, p)
<1>1. call[<<s, p>>] \notin Unopened /\ call[<<s, p>>] \in CallStates
  BY DEF IInv, OpenedAt, TypeOK, Streams
<1>2. ~Landed(s, p)
  BY DEF Landed, Early
<1>3. ~AckSeen(s, p)
  BY <1>2 DEF Acks
<1>4. call[<<s, p>>] \notin AfterAck
  BY <1>3 DEF Acks, AckSeen, Acked
<1> QED BY <1>1, <1>3, <1>4 DEF Unopened, AfterAck, CallStates

\* The two proxies differ once the remote client's has a part in the session.
LEMMA ProxiesApart ==
    ASSUME NEW s \in Sessions, Chain(s), call[<<s, "answer">>] # "idle"
    PROVE  Entry(s) # Access(s)
BY DEF Chain, IsDirect

\* The two ends of a stream are different nodes.
LEMMA Apart ==
    ASSUME IInv, NEW s \in Sessions, Chain(s), Peers(s), NEW q \in Purposes,
           call[<<s, q>>] # "idle"
    PROVE  Src(s, q) # Dst(s, q)
<1>1. From[s] \in Clients /\ To[s] \in Clients /\ Entry(s) \in Servers /\ Access(s) \in Servers
  BY CircuitAssumption DEF Entry, Access
<1>2. From[s] # Entry(s) /\ Access(s) # To[s] /\ Entry(s) # To[s]
  BY <1>1, CircuitAssumption
<1>3. q = "expend" => relay[s].peer # NoPeer
  <2>1. q = "expend" => call[<<s, "relay">>] = "done"
    BY DEF IInv, Order
  <2>2. q = "expend" => Dst(s, "relay") \in Nodes
    BY <2>1 DEF IInv, OpenedAt, Unopened, Purposes
  <2> QED BY <2>2, CircuitAssumption DEF Dst
<1> QED BY <1>2, <1>3 DEF Peers, Src, Dst, Purposes

\* A copy stays one when nodes add streams, or owe fewer.
LEMMA CopyMono ==
    ASSUME NEW x, NEW J, NEW D, Copy(x, J, D), NEW J2, NEW D2, J \subseteq J2, D2 \subseteq D
    PROVE  Copy(x, J2, D2)
BY DEF Copy

\* No session is a copy for a node that owes nothing.
LEMMA CopyNone ==
    ASSUME NEW J
    PROVE  Copy(NoSession, J, {}) /\ Legs(NoSession) = {}
BY DEF Copy, NoSession, Legs, IsSome

\* A copy of no session says that nothing is owed.
LEMMA CopyOfNone ==
    ASSUME NEW x, NEW J, NEW D, Copy(x, J, D), ~IsSome(x)
    PROVE  D = {}
BY DEF Copy, Legs

\* A session that is not ready has no second stream.
LEMMA CopyNotReady ==
    ASSUME NEW x, NEW J, NEW D, Copy(x, J, D), ~Ready(x)
    PROVE  x.later = "none"
BY DEF Copy, Ready

\* A session whose streams are of one kind has no second stream.
LEMMA CopyOne ==
    ASSUME NEW x, NEW J, NEW D, Copy(x, J, D), NEW p, J \subseteq {p}
    PROVE  x.later = "none"
BY DEF Copy, Legs

\* Adding stream q to a session that has room.
LEMMA CopyLater ==
    ASSUME NEW x \in SessionRec, NEW J, NEW D, Copy(x, J, D), NEW q \in Purposes, q \notin J,
           IsSome(x), x.later = "none"
    PROVE  Copy(WithLater(x, q), J \cup {q}, D \cup {q})
<1>1. /\ WithLater(x, q).early = x.early /\ WithLater(x, q).later = q
      /\ WithLater(x, q).role = x.role
  BY DEF WithLater, SessionRec
<1>2. q # "none" /\ x.early # "none"
  BY DEF Copy, Purposes
<1>3. Legs(x) = {x.early} /\ Legs(WithLater(x, q)) = {x.early, q}
  BY <1>1, <1>2 DEF Legs
<1>4. x.early # q
  BY <1>3 DEF Copy
<1> QED BY <1>1, <1>2, <1>3, <1>4 DEF Copy, IsSome

\* Replacing the second stream of a session, which is no longer owed, by q.
LEMMA CopyReplace ==
    ASSUME NEW x \in SessionRec, NEW J, NEW D, Copy(x, J, D), NEW q \in Purposes, q \notin J,
           Ready(x)
    PROVE  Copy(WithLater(x, q), J \cup {q}, (D \ {x.later}) \cup {q})
<1>1. /\ WithLater(x, q).early = x.early /\ WithLater(x, q).later = q
      /\ WithLater(x, q).role = x.role
  BY DEF WithLater, SessionRec
<1>2. q # "none" /\ x.early # "none"
  BY DEF Ready, Purposes
<1>3. Legs(x) = {x.early, x.later} /\ Legs(WithLater(x, q)) = {x.early, q}
  BY <1>1, <1>2 DEF Legs, Ready
<1>4. x.early # q
  BY <1>3 DEF Copy
<1>5. D \ {x.later} \subseteq {x.early}
  BY <1>3 DEF Copy
<1>6. {x.early, q} \subseteq J \cup {q}
  BY <1>3 DEF Copy
<1>7. (D \ {x.later}) \cup {q} \subseteq {x.early, q}
  BY <1>5
<1>8. IsSome(WithLater(x, q)) <=> WithLater(x, q).early # "none"
  BY <1>1 DEF Copy, IsSome
<1> QED BY <1>1, <1>2, <1>3, <1>4, <1>6, <1>7, <1>8 DEF Copy

\* A new session of stream q alone.
LEMMA CopyNew ==
    ASSUME NEW q \in Purposes, NEW r \in Roles, NEW J, q \in J
    PROVE  /\ Copy([role |-> r, early |-> q, later |-> "none"], J, {})
           /\ Copy([role |-> r, early |-> q, later |-> "none"], J, {q})
<1>1. q # "none" /\ r # "none"
  BY DEF Purposes, Roles
<1>2. Legs([role |-> r, early |-> q, later |-> "none"]) = {q}
  BY <1>1 DEF Legs
<1> QED BY <1>1, <1>2 DEF Copy, IsSome

-----------------------------------------------------------------------------
(* Steps that set nothing up.                                                *)

\* No stream of session s is taken back, and only stream q may be acked anew.
Grows(s, q) == \A p \in Purposes :
    /\ call[<<s, p>>] \notin Unopened => Src(s, p)' = Src(s, p) /\ Dst(s, p)' = Dst(s, p)
    /\ call[<<s, p>>] = "done" => call'[<<s, p>>] = "done"
    /\ Landed(s, p) => Landed(s, p)'
    /\ <<s, p>> \in down => <<s, p>> \in down'
    /\ AckSeen(s, p)' => AckSeen(s, p) \/ p = q

\* Nodes only add streams, and owe no others than before, but for the one acked.
LEMMA Growth ==
    ASSUME IInv, NEW s \in Sessions, Acks(s), NEW q, Grows(s, q), NEW n
    PROVE  /\ Joined(n, s) \subseteq Joined(n, s)'
           /\ Owed(n, s)' \subseteq Owed(n, s) \cup {q}
           /\ q \in Purposes /\ call[<<s, q>>] \notin Unopened /\ n # Dst(s, q) =>
                Owed(n, s)' \subseteq Owed(n, s)
           /\ q \notin Purposes => Owed(n, s)' \subseteq Owed(n, s)
           /\ \A p \in Owed(n, s)' : <<s, p>> \notin down'
<1>1. \A p \in Purposes : Landed(s, p) => call[<<s, p>>] \notin Unopened
  BY DEF IInv, OpenedAt, Landed, Early
<1>2. \A p \in Purposes : AckSeen(s, p) => call[<<s, p>>] \notin Unopened
  BY <1>1 DEF Acks
<1>3. Joined(n, s) \subseteq Joined(n, s)'
  BY <1>1 DEF Grows, Joined, Unopened
<1>4. \A p \in Owed(n, s)' : p \in Owed(n, s) \/ p = q
  BY <1>2 DEF Grows, Owed
<1>5. ASSUME q \in Purposes, call[<<s, q>>] \notin Unopened, n # Dst(s, q)
      PROVE  q \notin Owed(n, s)'
  BY <1>5 DEF Grows, Owed
<1>6. Owed(n, s)' \subseteq Purposes
  BY DEF Owed
<1>7. \A p \in Owed(n, s)' : <<s, p>> \notin down'
  BY DEF Owed
<1> QED BY <1>3, <1>4, <1>5, <1>6, <1>7

\* A step that sets up no stream of session s: at most it closes sessions, deals
\* with frames, and delivers or drops acks.
Still(s) ==
    /\ sink'[s] = sink[s] /\ relay'[s] = relay[s]
    /\ \A p \in Purposes : call'[<<s, p>>] = call[<<s, p>>] /\ clone'[<<s, p>>] = clone[<<s, p>>]
    /\ \A p \in Purposes :
         /\ handler'[<<s, p, "dst">>] \in Early => handler'[<<s, p, "dst">>] = handler[<<s, p, "dst">>]
         /\ Landed(s, p) => Landed(s, p)'
         /\ handler'[<<s, p, "dst">>] = "set" => snap'[<<s, p, "dst">>] = snap[<<s, p, "dst">>]
         /\ handler'[<<s, p, "src">>] \in {"fresh", "set"} =>
              handler[<<s, p, "src">>] \in {"fresh", "set"}
         /\ AckSeen(s, p)' => AckSeen(s, p)
         /\ Acked(<<s, p>>, TRUE) => Acked(<<s, p>>, TRUE)'
         /\ <<s, p>> \in down => <<s, p>> \in down'
    /\ \A n \in Nodes :
         \/ session'[<<n, s>>] = session[<<n, s>>]
         \/ /\ session'[<<n, s>>] = NoSession
            /\ \A p \in Legs(session[<<n, s>>]) : <<s, p>> \in down'
    /\ <<s, "NewCircuit">> \in asked' => <<s, "NewCircuit">> \in asked \/ call[<<s, "dial">>] = "done"
    /\ pc'[<<s, "pub">>] # "idle" => pc[<<s, "pub">>] # "idle" \/ To[s] \in Registered

\* Such a step keeps the invariant.
LEMMA StillKeeps ==
    ASSUME IInv, NEW s \in Sessions, AckInv(s), Still(s)
    PROVE  AckInv(s)'
<1>a. Chain(s) /\ Peers(s) /\ Acks(s) /\ Copies(s) /\ Room(s) /\ EntryRole(s)
  BY DEF AckInv
<1>b. \A p \in Purposes : Src(s, p)' = Src(s, p) /\ Dst(s, p)' = Dst(s, p)
  BY DEF Still, Src, Dst, Purposes
<1>c. Grows(s, "none")
  BY <1>b DEF Grows, Still
<1>d. "none" \notin Purposes
  BY DEF Purposes
<1>1. Chain(s)'
  BY <1>a DEF Chain, Still, Purposes, IsDirect, Entry, Access
<1>2. Peers(s)'
  BY <1>a DEF Peers, Still, Entry, Access
<1>3. Acks(s)'
  BY <1>a DEF Acks, Still
<1>4. ASSUME NEW n \in Nodes PROVE CopiesAt(n, s)'
  <2>1. /\ Joined(n, s) \subseteq Joined(n, s)' /\ Owed(n, s)' \subseteq Owed(n, s)
        /\ \A p \in Owed(n, s)' : <<s, p>> \notin down'
    BY <1>a, <1>c, <1>d, Growth
  <2>2. CopiesAt(n, s)
    BY <1>a DEF Copies
  <2>3. Copy(session'[<<n, s>>], Joined(n, s)', Owed(n, s)')
    <3>1. CASE session'[<<n, s>>] = session[<<n, s>>]
      BY <2>1, <2>2, <3>1, CopyMono DEF CopiesAt
    <3>2. CASE session'[<<n, s>>] = NoSession /\ \A p \in Legs(session[<<n, s>>]) : <<s, p>> \in down'
      <4>1. Owed(n, s) \subseteq Legs(session[<<n, s>>])
        BY <2>2 DEF CopiesAt, Copy
      <4>2. Owed(n, s)' = {}
        BY <2>1, <3>2, <4>1
      <4> QED BY <3>2, <4>2, CopyNone
    <3> QED BY <3>1, <3>2 DEF Still
  <2>4. ASSUME NEW p \in Purposes
        PROVE  /\ n = Src(s, p)' /\ call'[<<s, p>>] = "insert" => Owed(n, s)' = {}
               /\ n = Src(s, p)' /\ call'[<<s, p>>] = "later" =>
                    Copy(clone'[<<s, p>>], Joined(n, s)' \cup {p}, Owed(n, s)')
               /\ n = Dst(s, p)' /\ handler'[<<s, p, "dst">>] = "set" =>
                    Copy(snap'[<<s, p, "dst">>], Joined(n, s)', Owed(n, s)')
    <3>1. n = Src(s, p)' /\ call'[<<s, p>>] = "insert" => Owed(n, s)' = {}
      BY <1>b, <2>1, <2>2 DEF CopiesAt, Still
    <3>2. n = Src(s, p)' /\ call'[<<s, p>>] = "later" =>
                    Copy(clone'[<<s, p>>], Joined(n, s)' \cup {p}, Owed(n, s)')
      <4>1. Joined(n, s) \cup {p} \subseteq Joined(n, s)' \cup {p}
        BY <2>1
      <4>2. /\ Src(s, p)' = Src(s, p) /\ call'[<<s, p>>] = call[<<s, p>>]
            /\ clone'[<<s, p>>] = clone[<<s, p>>]
        BY <1>b DEF Still
      <4>3. n = Src(s, p) /\ call[<<s, p>>] = "later" =>
              Copy(clone[<<s, p>>], Joined(n, s) \cup {p}, Owed(n, s))
        BY <2>2 DEF CopiesAt
      <4> QED BY <2>1, <4>1, <4>2, <4>3, CopyMono
    <3>3. n = Dst(s, p)' /\ handler'[<<s, p, "dst">>] = "set" =>
                    Copy(snap'[<<s, p, "dst">>], Joined(n, s)', Owed(n, s)')
      BY <1>b, <2>1, <2>2, CopyMono DEF CopiesAt, Still, Early
    <3> QED BY <3>1, <3>2, <3>3
  <2> QED BY <2>3, <2>4 DEF CopiesAt
<1>5. \A n \in Nodes : /\ session[<<n, s>>].later = "none" => session'[<<n, s>>].later = "none"
                       /\ session'[<<n, s>>].role \in {session[<<n, s>>].role, "none"}
  BY DEF Still, NoSession
<1>6. Room(s)'
  <2>1. ASSUME NEW p \in Purposes, call'[<<s, p>>] \in Adding
        PROVE  session'[<<Src(s, p)', s>>].later = "none"
    BY <1>a, <1>b, <1>5, <2>1, EndsAreNodes DEF Room, Still, Adding
  <2>2. ASSUME NEW p \in Purposes, handler'[<<s, p, "dst">>] \in {"fresh", "set"}
        PROVE  session'[<<Dst(s, p)', s>>].later = "none" \/ (p = "relay" /\ Dst(s, p)' = Entry(s))
    <3>1. handler[<<s, p, "dst">>] \in {"fresh", "set"}
      BY <2>2 DEF Still, Early
    <3>2. Dst(s, p) \in Nodes
      BY <3>1 DEF IInv, OpenedAt
    <3> QED BY <1>a, <1>b, <1>5, <3>1, <3>2 DEF Room
  <2> QED BY <2>1, <2>2 DEF Room, Entry
<1>7. EntryRole(s)'
  <2>1. Entry(s) \in Nodes
    BY CircuitAssumption DEF Entry, Nodes
  <2>2. Dst(s, "relay")' = Dst(s, "relay")
    BY <1>b DEF Purposes
  <2>3. /\ Landed(s, "relay") => Landed(s, "relay")'
        /\ handler'[<<s, "relay", "dst">>] = "set" =>
             /\ handler[<<s, "relay", "dst">>] = "set"
             /\ snap'[<<s, "relay", "dst">>] = snap[<<s, "relay", "dst">>]
        /\ call'[<<s, "direct">>] = call[<<s, "direct">>]
        /\ clone'[<<s, "sink">>] = clone[<<s, "sink">>]
    BY DEF Still, Purposes, Early
  <2> QED BY <1>a, <1>5, <2>1, <2>2, <2>3 DEF EntryRole, Entry
<1> QED BY <1>1, <1>2, <1>3, <1>4, <1>6, <1>7 DEF AckInv, Copies

-----------------------------------------------------------------------------
(* new_session_to_peer: the calling end.                                     *)

\* In a step of the set-up of stream q, only q has a copy that matters.
LEMMA CopiesSolo ==
    ASSUME NEW s \in Sessions, NEW n, NEW q \in Purposes,
           \A p \in Purposes \ {q} : call'[<<s, p>>] \in {"idle", "done"}
                                     /\ handler'[<<s, p, "dst">>] \notin {"fresh", "set"},
           Copy(session'[<<n, s>>], Joined(n, s)', Owed(n, s)'),
           n = Src(s, q)' /\ call'[<<s, q>>] = "insert" => Owed(n, s)' = {},
           n = Src(s, q)' /\ call'[<<s, q>>] = "later" =>
              Copy(clone'[<<s, q>>], Joined(n, s)' \cup {q}, Owed(n, s)'),
           n = Dst(s, q)' /\ handler'[<<s, q, "dst">>] = "set" =>
              Copy(snap'[<<s, q, "dst">>], Joined(n, s)', Owed(n, s)')
    PROVE  CopiesAt(n, s)'
<1>1. ASSUME NEW p \in Purposes
      PROVE  /\ n = Src(s, p)' /\ call'[<<s, p>>] = "insert" => Owed(n, s)' = {}
             /\ n = Src(s, p)' /\ call'[<<s, p>>] = "later" =>
                  Copy(clone'[<<s, p>>], Joined(n, s)' \cup {p}, Owed(n, s)')
             /\ n = Dst(s, p)' /\ handler'[<<s, p, "dst">>] = "set" =>
                  Copy(snap'[<<s, p, "dst">>], Joined(n, s)', Owed(n, s)')
  <2>1. CASE p = q
    BY <2>1
  <2>2. CASE p # q
    BY <2>2
  <2> QED BY <2>1, <2>2
<1> QED BY <1>1 DEF CopiesAt

\* The frame of a step of new_session_to_peer.
CallFrame(s, q) ==
    /\ UNCHANGED <<snap, down, circuit, acks, got, asked, pc, sink, relay>>
    /\ call[<<s, q>>] \notin {"idle", "done"} /\ call'[<<s, q>>] # "idle"
    /\ \A t \in Sessions, p \in Purposes : <<t, p>> # <<s, q>> =>
         call'[<<t, p>>] = call[<<t, p>>] /\ clone'[<<t, p>>] = clone[<<t, p>>]
    /\ \A t \in Sessions, p \in Purposes : handler'[<<t, p, "dst">>] # handler[<<t, p, "dst">>] =>
         /\ t = s /\ p = q /\ call[<<s, q>>] = "opening" /\ handler'[<<s, q, "dst">>] = "fresh"
    /\ \A t \in Sessions, p \in Purposes : handler'[<<t, p, "src">>] \in {handler[<<t, p, "src">>], "read"}
    /\ call'[<<s, q>>] \in AfterAck => call[<<s, q>>] \in AfterAck \/ Acked(<<s, q>>, TRUE)
    /\ \A t \in Sessions, n \in Nodes : <<t, n>> # <<s, Src(s, q)>> =>
         session'[<<n, t>>] = session[<<n, t>>]
    /\ call'[<<s, q>>] \in Adding => call[<<s, q>>] \in Adding

\* new_session_to_peer touches the session of its own node only, and its stream.
LEMMA CallFrames ==
    ASSUME IInv, NEW s \in Sessions, NEW q \in Purposes, Call(s, q)
    PROVE  CallFrame(s, q)
<1> USE DEF callVars, readVars, nodeVars, hsVars, busVars, loopVars
<1>a. TypeOK
  BY DEF IInv
<1> USE <1>a DEF CallFrame, TypeOK, Streams, Ends, AfterAck, Adding
<1>1. CASE OpenStream(s, q)
  BY <1>1 DEF OpenStream
<1>2. CASE OpenTimeout(s, q)
  BY <1>2 DEF OpenTimeout
<1>3. CASE RegisterAck(s, q)
  BY <1>3 DEF RegisterAck
<1>4. CASE CheckSession(s, q)
  BY <1>4 DEF CheckSession
<1>5. CASE InsertNew(s, q)
  BY <1>5 DEF InsertNew
<1>6. CASE CloneSession(s, q)
  BY <1>6 DEF CloneSession
<1>7. CASE ClonePanic(s, q)
  BY <1>7 DEF ClonePanic
<1>8. CASE InsertLater(s, q)
  BY <1>8 DEF InsertLater
<1> QED BY <1>1, <1>2, <1>3, <1>4, <1>5, <1>6, <1>7, <1>8 DEF Call

\* A call for another session leaves session s alone.
LEMMA CallElsewhere ==
    ASSUME NEW s \in Sessions, NEW t \in Sessions, NEW q \in Purposes, CallFrame(t, q), s # t
    PROVE  Still(s)
<1>1. \A p \in Purposes : /\ call'[<<s, p>>] = call[<<s, p>>] /\ clone'[<<s, p>>] = clone[<<s, p>>]
                          /\ handler'[<<s, p, "dst">>] = handler[<<s, p, "dst">>]
                          /\ handler'[<<s, p, "src">>] \in {handler[<<s, p, "src">>], "read"}
  BY DEF CallFrame
<1>2. \A n \in Nodes : session'[<<n, s>>] = session[<<n, s>>]
  BY DEF CallFrame
<1>3. UNCHANGED <<snap, down, acks, got, asked, pc, sink, relay>>
  BY DEF CallFrame
<1> QED BY <1>1, <1>2, <1>3 DEF Still, Landed, AckSeen, Acked

\* new_session_to_peer keeps the order of the set-up and the meaning of the acks.
LEMMA CallControl ==
    ASSUME IInv, NEW s \in Sessions, AckInv(s), NEW q \in Purposes, CallFrame(s, q)
    PROVE  /\ Chain(s)' /\ Peers(s)' /\ Acks(s)' /\ Grows(s, "none")
           /\ \A p \in Purposes : Src(s, p)' = Src(s, p) /\ Dst(s, p)' = Dst(s, p)
           /\ \A p \in Purposes \ {q} : call'[<<s, p>>] \in {"idle", "done"}
                                     /\ handler'[<<s, p, "dst">>] \notin {"fresh", "set"}
<1>a. Chain(s) /\ Peers(s) /\ Acks(s)
  BY DEF AckInv
<1>b. \A p \in Purposes : Src(s, p)' = Src(s, p) /\ Dst(s, p)' = Dst(s, p)
  BY DEF CallFrame, Src, Dst, Purposes
<1>c. /\ call[<<s, q>>] \notin {"idle", "done"} /\ call'[<<s, q>>] # "idle"
      /\ \A p \in Purposes \ {q} : call'[<<s, p>>] = call[<<s, p>>]
  BY DEF CallFrame
<1>d. UNCHANGED <<down, acks, got, asked, pc, sink, relay>>
  BY DEF CallFrame
<1>1. Chain(s)'
  BY <1>a, <1>c, <1>d DEF Chain, IsDirect, Entry, Access, Purposes
<1>2. Peers(s)'
  BY <1>a, <1>d DEF Peers, Entry, Access
<1>3. \A p \in Purposes : handler'[<<s, p, "dst">>] # handler[<<s, p, "dst">>] =>
         /\ p = q /\ handler[<<s, q, "dst">>] = "off" /\ handler'[<<s, q, "dst">>] = "fresh"
  BY DEF CallFrame, IInv, OpenedAt, Unopened
<1>4. \A p \in Purposes : Landed(s, p)' <=> Landed(s, p)
  BY <1>3 DEF Landed, Early
<1>5. \A p \in Purposes : handler'[<<s, p, "src">>] \in {handler[<<s, p, "src">>], "read"}
  BY DEF CallFrame
<1>6. \A p \in Purposes : (AckSeen(s, p)' <=> AckSeen(s, p)) /\ (Acked(<<s, p>>, TRUE)' <=> Acked(<<s, p>>, TRUE))
  BY <1>d DEF AckSeen, Acked
<1>7. Acks(s)'
  BY <1>a, <1>4, <1>5, <1>6 DEF Acks, CallFrame
<1>8. Grows(s, "none")
  BY <1>b, <1>c, <1>d, <1>4, <1>6 DEF Grows
<1>9. \A p \in Purposes \ {q} : call'[<<s, p>>] \in {"idle", "done"}
                             /\ handler'[<<s, p, "dst">>] \notin {"fresh", "set"}
  BY <1>a, <1>c, <1>3, Solo
<1> QED BY <1>1, <1>2, <1>7, <1>8, <1>b, <1>9

\* new_session_to_peer: the copies of the session have every acked stream.
LEMMA CallCopies ==
    ASSUME IInv, NEW s \in Sessions, AckInv(s), NEW q \in Purposes, Call(s, q),
           NEW n \in Nodes
    PROVE  CopiesAt(n, s)'
<1> USE DEF callVars, readVars, nodeVars, hsVars, busVars, loopVars
<1>a. TypeOK /\ Chain(s) /\ Peers(s) /\ Acks(s) /\ Room(s) /\ CopiesAt(n, s) /\ CallFrame(s, q)
  BY CallFrames DEF IInv, AckInv, Copies
<1>b. /\ \A p \in Purposes : Src(s, p)' = Src(s, p) /\ Dst(s, p)' = Dst(s, p)
      /\ \A p \in Purposes \ {q} : call'[<<s, p>>] \in {"idle", "done"}
                                /\ handler'[<<s, p, "dst">>] \notin {"fresh", "set"}
      /\ Grows(s, "none")
  BY <1>a, CallControl
<1>c. /\ Joined(n, s) \subseteq Joined(n, s)'
      /\ Owed(n, s)' \subseteq Owed(n, s)
  <2>1. "none" \notin Purposes
    BY DEF Purposes
  <2> QED BY <1>a, <1>b, <2>1, Growth
<1>d. n = Dst(s, q)' /\ handler'[<<s, q, "dst">>] = "set" =>
        Copy(snap'[<<s, q, "dst">>], Joined(n, s)', Owed(n, s)')
  <2>1. handler'[<<s, q, "dst">>] = "set" => handler[<<s, q, "dst">>] = "set"
    BY <1>a DEF CallFrame
  <2>2. snap' = snap
    BY <1>a DEF CallFrame
  <2> QED BY <1>a, <1>b, <1>c, <2>1, <2>2, CopyMono DEF CopiesAt
<1>e. session[<<n, s>>] \in SessionRec /\ Copy(session[<<n, s>>], Joined(n, s), Owed(n, s))
  BY <1>a DEF TypeOK, CopiesAt
<1>f. Copy(session[<<n, s>>], Joined(n, s)', Owed(n, s)')
  BY <1>c, <1>e, CopyMono
<1>g. n # Src(s, q) => session'[<<n, s>>] = session[<<n, s>>]
  BY <1>a DEF CallFrame
<1>h. n = Src(s, q) /\ call[<<s, q>>] \notin {"idle", "done"} => q \notin Joined(n, s)
  BY <1>a, Apart DEF Joined
<1>1. CASE OpenStream(s, q) \/ OpenTimeout(s, q) \/ RegisterAck(s, q) \/ ClonePanic(s, q)
  <2>1. session' = session /\ call'[<<s, q>>] \notin {"insert", "later"}
    BY <1>a, <1>1 DEF OpenStream, OpenTimeout, RegisterAck, ClonePanic, TypeOK, Streams
  <2> QED BY <1>b, <1>d, <1>f, <2>1, CopiesSolo
<1>2. CASE CheckSession(s, q)
  <2>1. /\ session' = session
        /\ call'[<<s, q>>] = IF IsSome(session[<<Src(s, q), s>>]) THEN "clone" ELSE "insert"
    BY <1>a, <1>2 DEF CheckSession, TypeOK, Streams
  <2>2. n = Src(s, q)' /\ call'[<<s, q>>] = "insert" => Owed(n, s)' = {}
    <3>1. n = Src(s, q) /\ call'[<<s, q>>] = "insert" => Owed(n, s) = {}
      BY <1>e, <2>1, CopyOfNone
    <3> QED BY <1>b, <1>c, <3>1
  <2>3. call'[<<s, q>>] # "later"
    BY <2>1
  <2> QED BY <1>b, <1>d, <1>f, <2>1, <2>2, <2>3, CopiesSolo
<1>3. CASE InsertNew(s, q)
  <2>1. /\ call[<<s, q>>] = "insert" /\ call'[<<s, q>>] = "done"
        /\ n = Src(s, q) => session'[<<n, s>>] = [role |-> MyRole(q), early |-> q, later |-> "none"]
    BY <1>a, <1>3 DEF InsertNew, TypeOK, Streams
  <2>2. Copy(session'[<<n, s>>], Joined(n, s)', Owed(n, s)')
    <3>1. CASE n = Src(s, q)
      <4>1. Owed(n, s)' = {}
        BY <1>a, <1>c, <2>1, <3>1 DEF CopiesAt
      <4>2. q \in Joined(n, s)'
        BY <1>b, <2>1, <3>1 DEF Joined
      <4>3. MyRole(q) \in Roles
        BY DEF MyRole, Roles, Purposes
      <4> QED BY <2>1, <3>1, <4>1, <4>2, <4>3, CopyNew
    <3>2. CASE n # Src(s, q)
      BY <1>f, <1>g, <3>2
    <3> QED BY <3>1, <3>2
  <2> QED BY <1>b, <1>d, <2>1, <2>2, CopiesSolo
<1>4. CASE CloneSession(s, q)
  <2>1. /\ session' = session /\ call[<<s, q>>] = "clone" /\ call'[<<s, q>>] = "later"
        /\ IsSome(session[<<Src(s, q), s>>])
        /\ clone'[<<s, q>>] = WithLater(session[<<Src(s, q), s>>], q)
    BY <1>a, <1>4 DEF CloneSession, TypeOK, Streams
  <2>2. n = Src(s, q)' /\ call'[<<s, q>>] = "later" =>
          Copy(clone'[<<s, q>>], Joined(n, s)' \cup {q}, Owed(n, s)')
    <3> SUFFICES ASSUME n = Src(s, q)
                 PROVE  Copy(clone'[<<s, q>>], Joined(n, s)' \cup {q}, Owed(n, s)')
      BY <1>b
    <3>1. session[<<n, s>>].later = "none"
      BY <1>a, <2>1 DEF Room, Adding
    <3>2. q \notin Joined(n, s)
      BY <1>h, <2>1
    <3>3. Copy(clone'[<<s, q>>], Joined(n, s) \cup {q}, Owed(n, s) \cup {q})
      BY <1>e, <2>1, <3>1, <3>2, CopyLater
    <3>4. Joined(n, s) \cup {q} \subseteq Joined(n, s)' \cup {q} /\ Owed(n, s)' \subseteq Owed(n, s) \cup {q}
      BY <1>c
    <3> QED BY <3>3, <3>4, CopyMono
  <2>3. call'[<<s, q>>] # "insert"
    BY <2>1
  <2> QED BY <1>b, <1>d, <1>f, <2>1, <2>2, <2>3, CopiesSolo
<1>5. CASE InsertLater(s, q)
  <2>1. /\ call[<<s, q>>] = "later" /\ call'[<<s, q>>] = "done"
        /\ n = Src(s, q) => session'[<<n, s>>] = clone[<<s, q>>]
    BY <1>a, <1>5 DEF InsertLater, TypeOK, Streams
  <2>2. Copy(session'[<<n, s>>], Joined(n, s)', Owed(n, s)')
    <3>1. CASE n = Src(s, q)
      <4>1. Copy(clone[<<s, q>>], Joined(n, s) \cup {q}, Owed(n, s))
        BY <1>a, <2>1, <3>1 DEF CopiesAt
      <4>2. q \in Joined(n, s)'
        BY <1>b, <2>1, <3>1 DEF Joined
      <4>3. Joined(n, s) \cup {q} \subseteq Joined(n, s)'
        BY <1>c, <4>2
      <4> QED BY <1>c, <2>1, <3>1, <4>1, <4>3, CopyMono
    <3>2. CASE n # Src(s, q)
      BY <1>f, <1>g, <3>2
    <3> QED BY <3>1, <3>2
  <2> QED BY <1>b, <1>d, <2>1, <2>2, CopiesSolo
<1> QED BY <1>1, <1>2, <1>3, <1>4, <1>5 DEF Call

\* When a stream opens, the called node has room for it.
LEMMA RoomToOpen ==
    ASSUME IInv, NEW s \in Sessions, AckInv(s), NEW q \in Purposes,
           call[<<s, q>>] = "opening", Dst(s, q) \in Nodes
    PROVE  session[<<Dst(s, q), s>>].later = "none" \/ (q = "relay" /\ Dst(s, q) = Entry(s))
<1>a. Chain(s) /\ Peers(s) /\ Acks(s) /\ Copies(s)
  BY DEF AckInv
<1>b. /\ From[s] \in Clients /\ To[s] \in Clients /\ From[s] # To[s]
      /\ Entry(s) \in Servers /\ Access(s) \in Servers
      /\ Entry(s) \notin Clients /\ Access(s) \notin Clients
      /\ sink[s].peer \notin Clients /\ relay[s].peer \notin Clients
  <2>1. sink[s].peer \in Servers \cup {NoPeer} /\ relay[s].peer \in Servers \cup {NoPeer}
    BY DEF IInv, TypeOK, PickRec
  <2> QED BY <2>1, CircuitAssumption DEF Entry, Access, Nodes
<1> DEFINE n == Dst(s, q)
<1>1. Copy(session[<<n, s>>], Joined(n, s), Owed(n, s))
  BY <1>a DEF Copies, CopiesAt
<1>2. \A p \in Joined(n, s) : /\ p \in Purposes /\ p # q
                              /\ call[<<s, p>>] = "done"
                              /\ n \in {Src(s, p), Dst(s, p)}
  <2>1. ASSUME NEW p \in Joined(n, s) PROVE p \in Purposes /\ n \in {Src(s, p), Dst(s, p)}
    BY DEF Joined
  <2>2. ASSUME NEW p \in Purposes, Landed(s, p) PROVE call[<<s, p>>] \notin Unopened
    BY <2>2 DEF IInv, OpenedAt, Landed, Early
  <2>3. \A p \in Joined(n, s) : call[<<s, p>>] \notin Unopened
    BY <2>2 DEF Joined, Unopened
  <2>4. \A p \in Joined(n, s) : p # q
    BY <2>3 DEF Unopened
  <2>5. \A p \in Joined(n, s) : call[<<s, p>>] = "done"
    BY <1>a, <2>1, <2>3, <2>4, Solo DEF Unopened
  <2> QED BY <2>1, <2>4, <2>5
<1>3. call[<<s, "expend">>] # "idle" => call[<<s, "relay">>] = "done"
  BY DEF IInv, Order
<1>4. CASE q = "dial"
  <2>1. Joined(n, s) = {}
    BY <1>a, <1>2, <1>3, <1>4 DEF Chain, Purposes
  <2> QED BY <1>1, <2>1, CopyOne
<1>5. CASE q = "direct"
  <2>1. Joined(n, s) \subseteq {"dial"}
    BY <1>a, <1>2, <1>3, <1>5 DEF Chain, Purposes
  <2>2. n = To[s]
    BY <1>5 DEF Dst
  <2>3. "dial" \notin Joined(n, s)
    BY <1>b, <1>2, <2>2 DEF Src, Dst
  <2> QED BY <1>1, <2>1, <2>3, CopyOne
<1>6. CASE q = "sink"
  <2>1. Joined(n, s) \subseteq {"dial"}
    BY <1>a, <1>2, <1>3, <1>6 DEF Chain, Purposes
  <2> QED BY <1>1, <2>1, CopyOne
<1>7. CASE q = "answer"
  <2>1. Joined(n, s) \subseteq {"dial", "sink"}
    BY <1>a, <1>2, <1>3, <1>7 DEF Chain, Purposes
  <2>2. n = To[s]
    BY <1>7 DEF Dst
  <2>3. "dial" \notin Joined(n, s) /\ "sink" \notin Joined(n, s)
    BY <1>b, <1>2, <2>2 DEF Src, Dst
  <2> QED BY <1>1, <2>1, <2>3, CopyOne
<1>8. CASE q = "relay" /\ n # Entry(s)
  <2>1. Joined(n, s) \subseteq {"dial", "sink", "answer"}
    BY <1>a, <1>2, <1>3, <1>8 DEF Chain, Purposes
  <2>2. n = relay[s].peer /\ n # NoPeer
    BY <1>8, CircuitAssumption DEF Dst
  <2>3. n # Access(s) /\ n # sink[s].peer /\ n # From[s] /\ n # To[s]
    BY <1>a, <1>b, <2>2 DEF Peers
  <2>4. "dial" \notin Joined(n, s) /\ "sink" \notin Joined(n, s) /\ "answer" \notin Joined(n, s)
    BY <1>2, <1>8, <2>3 DEF Src, Dst
  <2> QED BY <1>1, <2>1, <2>4, CopyOne
<1>9. CASE q = "expend"
  <2>1. Joined(n, s) \subseteq {"dial", "sink", "answer", "relay"}
    BY <1>a, <1>2, <1>3, <1>9 DEF Chain, Purposes
  <2>2. n = sink[s].peer /\ call[<<s, "relay">>] = "done"
    BY <1>3, <1>9 DEF Dst
  <2>3. relay[s].peer # NoPeer
    <3>1. Dst(s, "relay") \in Nodes
      BY <2>2 DEF IInv, OpenedAt, Unopened, Purposes
    <3> QED BY <3>1, CircuitAssumption DEF Dst
  <2>4. /\ n # Access(s) /\ n # relay[s].peer /\ n # Entry(s) /\ n # From[s] /\ n # To[s]
    BY <1>a, <1>b, <2>2, <2>3 DEF Peers, Chain
  <2>5. "dial" \notin Joined(n, s) /\ "answer" \notin Joined(n, s) /\ "relay" \notin Joined(n, s)
    BY <1>2, <2>4 DEF Src, Dst
  <2>6. Joined(n, s) \subseteq {"sink"}
    BY <2>1, <2>5
  <2> QED BY <1>1, <2>6, CopyOne
<1> QED BY <1>4, <1>5, <1>6, <1>7, <1>8, <1>9 DEF Purposes

\* new_session_to_peer leaves room for the stream, and the entry node its role.
LEMMA CallRoom ==
    ASSUME IInv, NEW s \in Sessions, AckInv(s), NEW q \in Purposes, Call(s, q)
    PROVE  Room(s)' /\ EntryRole(s)'
<1> USE DEF callVars, readVars, nodeVars, hsVars, busVars, loopVars
<1>a. TypeOK /\ Chain(s) /\ Peers(s) /\ Acks(s) /\ Room(s) /\ EntryRole(s) /\ CallFrame(s, q)
  BY CallFrames DEF IInv, AckInv
<1>b. /\ \A p \in Purposes : Src(s, p)' = Src(s, p) /\ Dst(s, p)' = Dst(s, p)
      /\ \A p \in Purposes \ {q} : call'[<<s, p>>] \in {"idle", "done"}
                                /\ handler'[<<s, p, "dst">>] \notin {"fresh", "set"}
  BY <1>a, CallControl
<1>c. call[<<s, q>>] \notin {"idle", "done"} /\ Src(s, q) \in Nodes /\ Src(s, q) # Dst(s, q)
  BY <1>a, EndsAreNodes, Apart DEF CallFrame
<1>d. /\ session' = session \/ (call'[<<s, q>>] = "done" /\ call[<<s, q>>] \in {"insert", "later"})
      /\ \A m \in Nodes : m # Src(s, q) => session'[<<m, s>>] = session[<<m, s>>]
  <2>1. \A m \in Nodes : m # Src(s, q) => session'[<<m, s>>] = session[<<m, s>>]
    BY <1>a DEF CallFrame
  <2>2. session' = session \/ (call'[<<s, q>>] = "done" /\ call[<<s, q>>] \in {"insert", "later"})
    BY <1>a DEF Call, OpenStream, OpenTimeout, RegisterAck, CheckSession, InsertNew, CloneSession,
         ClonePanic, InsertLater, TypeOK, Streams
  <2> QED BY <2>1, <2>2
<1>1. ASSUME NEW p \in Purposes, call'[<<s, p>>] \in Adding
      PROVE  session'[<<Src(s, p)', s>>].later = "none"
  <2>0. p # q => call'[<<s, p>>] \in {"idle", "done"}
    BY <1>b
  <2>1. p = q
    BY <1>1, <2>0 DEF Adding
  <2>2. call[<<s, q>>] \in Adding /\ session' = session
    BY <1>a, <1>d, <1>1, <2>1 DEF CallFrame, Adding
  <2> QED BY <1>a, <1>b, <2>1, <2>2 DEF Room
<1>2. ASSUME NEW p \in Purposes, handler'[<<s, p, "dst">>] \in {"fresh", "set"}
      PROVE  session'[<<Dst(s, p)', s>>].later = "none" \/ (p = "relay" /\ Dst(s, p)' = Entry(s))
  <2>1. p = q
    BY <1>b, <1>2
  <2>2. CASE handler'[<<s, q, "dst">>] = handler[<<s, q, "dst">>]
    <3>1. Dst(s, q) \in Nodes
      BY <1>2, <2>1, <2>2 DEF IInv, OpenedAt
    <3>2. session'[<<Dst(s, q), s>>] = session[<<Dst(s, q), s>>]
      BY <1>c, <1>d, <3>1
    <3> QED BY <1>a, <1>b, <1>2, <2>1, <2>2, <3>2 DEF Room
  <2>3. CASE handler'[<<s, q, "dst">>] # handler[<<s, q, "dst">>]
    <3>1. call[<<s, q>>] = "opening"
      BY <1>a, <2>3 DEF CallFrame
    <3>2. session' = session
      BY <1>d, <3>1
    <3>3. Dst(s, q) # NoPeer
      <4>1. OpenStream(s, q)
        BY <2>3, <3>1 DEF Call, OpenStream, OpenTimeout, RegisterAck, CheckSession, InsertNew,
               CloneSession, ClonePanic, InsertLater
      <4> QED BY <4>1 DEF OpenStream
    <3>4. Dst(s, q) \in Nodes
      BY <1>a, <3>3, CircuitAssumption DEF Dst, Entry, Nodes, Purposes, TypeOK, PickRec
    <3> QED BY <1>b, <2>1, <3>1, <3>2, <3>4, RoomToOpen
  <2> QED BY <2>2, <2>3
<1>3. Room(s)'
  BY <1>1, <1>2 DEF Room, Entry
<1>4. ~Landed(s, "relay")' /\ call'[<<s, "direct">>] = "idle" =>
        ~Landed(s, "relay") /\ call[<<s, "direct">>] = "idle"
  <2>1. Landed(s, "relay") => Landed(s, "relay")'
    <3>1. CASE handler'[<<s, "relay", "dst">>] = handler[<<s, "relay", "dst">>]
      BY <3>1 DEF Landed
    <3>2. CASE handler'[<<s, "relay", "dst">>] # handler[<<s, "relay", "dst">>]
      <4>1. q = "relay" /\ call[<<s, q>>] = "opening"
        BY <1>a, <3>2 DEF CallFrame, Purposes
      <4>2. handler[<<s, "relay", "dst">>] = "off"
        BY <4>1 DEF IInv, OpenedAt, Unopened
      <4> QED BY <4>2 DEF Landed, Early
    <3> QED BY <3>1, <3>2
  <2>2. call'[<<s, "direct">>] = "idle" => call[<<s, "direct">>] = "idle"
    BY <1>a DEF CallFrame, Purposes
  <2> QED BY <2>1, <2>2
<1>5. ASSUME ~Landed(s, "relay"), call[<<s, "direct">>] = "idle"
      PROVE  /\ session'[<<Entry(s), s>>].role \in {"none", "Entry"}
             /\ clone'[<<s, "sink">>].role \in {"none", "Entry"}
  <2>a. /\ session[<<Entry(s), s>>].role \in {"none", "Entry"}
        /\ clone[<<s, "sink">>].role \in {"none", "Entry"}
    BY <1>a, <1>5 DEF EntryRole
  <2>b. Entry(s) \in Nodes /\ Entry(s) \notin Clients /\ From[s] \in Clients
    BY CircuitAssumption DEF Entry, Nodes
  <2>c. call[<<s, "expend">>] = "idle"
    <3>1. call[<<s, "relay">>] # "done"
      BY <1>a, <1>5 DEF Acks, AfterAck, Acked, AckSeen, Purposes
    <3> QED BY <3>1 DEF IInv, Order
  <2>d. Src(s, q) = Entry(s) => q = "sink"
    <3>1. q \notin {"direct", "expend"}
      BY <1>5, <1>c, <2>c
    <3>2. q \in {"answer", "relay"} => call[<<s, "answer">>] # "idle"
      BY <1>a, <1>c DEF Chain
    <3>3. q \in {"answer", "relay"} => Entry(s) # Access(s)
      BY <1>a, <3>2, ProxiesApart
    <3> QED BY <2>b, <3>1, <3>3 DEF Src, Purposes
  <2>e. WithLater(session[<<Entry(s), s>>], "sink").role = session[<<Entry(s), s>>].role
    BY <1>a, <2>b DEF TypeOK, SessionRec, WithLater
  <2>1. CASE Src(s, q) # Entry(s)
    <3>1. q # "sink"
      BY <2>1 DEF Src
    <3>2. clone'[<<s, "sink">>] = clone[<<s, "sink">>]
      BY <1>a, <3>1 DEF CallFrame, Purposes
    <3> QED BY <1>d, <2>a, <2>b, <2>1, <3>2
  <2>2. CASE q = "sink"
    <3>0. Src(s, q) = Entry(s) /\ <<s, "sink">> \in Streams
      BY <2>2 DEF Src, Streams
    <3>1. CASE InsertNew(s, q)
      BY <1>a, <2>a, <2>b, <2>2, <3>0, <3>1 DEF InsertNew, TypeOK, MyRole
    <3>2. CASE CloneSession(s, q)
      BY <1>a, <2>a, <2>e, <2>2, <3>0, <3>2 DEF CloneSession, TypeOK
    <3>3. CASE InsertLater(s, q)
      BY <1>a, <2>a, <2>b, <2>2, <3>0, <3>3 DEF InsertLater, TypeOK, NoSession
    <3>4. CASE ~(InsertNew(s, q) \/ CloneSession(s, q) \/ InsertLater(s, q))
      <4>1. UNCHANGED <<session, clone>>
        BY <3>4 DEF Call, OpenStream, OpenTimeout, RegisterAck, CheckSession, ClonePanic
      <4> QED BY <2>a, <4>1
    <3> QED BY <3>1, <3>2, <3>3, <3>4
  <2> QED BY <2>d, <2>1, <2>2
<1>6. handler'[<<s, "relay", "dst">>] = "set" /\ Dst(s, "relay")' = Entry(s) =>
          snap'[<<s, "relay", "dst">>].role \in {"none", "Entry"}
  <2>1. handler'[<<s, "relay", "dst">>] = "set" => handler[<<s, "relay", "dst">>] = "set"
    BY <1>a DEF CallFrame, Purposes
  <2>2. Dst(s, "relay")' = Dst(s, "relay") /\ snap' = snap
    BY <1>a, <1>b DEF CallFrame, Purposes
  <2> QED BY <1>a, <2>1, <2>2 DEF EntryRole
<1>7. EntryRole(s)'
  BY <1>4, <1>5, <1>6 DEF EntryRole, Entry
<1> QED BY <1>3, <1>7

\* new_session_to_peer keeps the invariant.
LEMMA CallKeeps ==
    ASSUME IInv, NEW s \in Sessions, AckInv(s), NEW t \in Sessions, NEW q \in Purposes, Call(t, q)
    PROVE  AckInv(s)'
<1>1. CASE s # t
  BY <1>1, CallFrames, CallElsewhere, StillKeeps
<1>2. CASE s = t
  <2>1. Chain(s)' /\ Peers(s)' /\ Acks(s)'
    BY <1>2, CallFrames, CallControl
  <2>2. \A n \in Nodes : CopiesAt(n, s)'
    BY <1>2, CallCopies
  <2>3. Room(s)' /\ EntryRole(s)'
    BY <1>2, CallRoom
  <2> QED BY <2>1, <2>2, <2>3 DEF AckInv, Copies
<1> QED BY <1>1, <1>2

-----------------------------------------------------------------------------
(* handle_set_session: the called end.                                       *)

\* Sessions that a step may close: their streams are down afterwards.
LEMMA CloseStill ==
    ASSUME TypeOK, NEW n \in Nodes, NEW t \in Sessions, CloseSession(n, t), NEW s \in Sessions
    PROVE  /\ \A m \in Nodes :
                \/ session'[<<m, s>>] = session[<<m, s>>]
                \/ /\ session'[<<m, s>>] = NoSession
                   /\ \A p \in Legs(session[<<m, s>>]) : <<s, p>> \in down'
           /\ \A p \in Purposes : <<s, p>> \in down => <<s, p>> \in down'
<1>1. \A m \in Nodes : <<m, s>> # <<n, t>> => session'[<<m, s>>] = session[<<m, s>>]
  BY DEF TypeOK, CloseSession
<1>2. session'[<<n, t>>] = NoSession /\ \A p \in Legs(session[<<n, t>>]) : <<t, p>> \in down'
  BY DEF TypeOK, CloseSession
<1>3. down \subseteq down'
  BY DEF CloseSession
<1>4. ASSUME NEW m \in Nodes
      PROVE  \/ session'[<<m, s>>] = session[<<m, s>>]
             \/ /\ session'[<<m, s>>] = NoSession
                /\ \A p \in Legs(session[<<m, s>>]) : <<s, p>> \in down'
  <2>1. CASE m = n /\ s = t
    BY <1>2, <2>1
  <2>2. CASE ~(m = n /\ s = t)
    BY <1>1, <2>2
  <2> QED BY <2>1, <2>2
<1> QED BY <1>3, <1>4

\* A frame handler that is not in handle_set_session, or that ends there, leaves
\* the set-up alone.
LEMMA HandleStill ==
    ASSUME IInv, NEW s \in Sessions, AckInv(s), NEW e \in Ends, Handle(e),
           ~(e[1] = s /\ (TakeSet(e) \/ ApplyReplace(e) \/ ApplyNew(e) \/ ApplyLater(e)))
    PROVE  Still(s)
<1> USE DEF callVars, readVars, nodeVars, hsVars, busVars, loopVars
<1>a. TypeOK /\ Acks(s)
  BY DEF IInv, AckInv
<1>b. e[1] \in Sessions /\ e[2] \in Purposes /\ e[3] \in {"src", "dst"} /\ e = <<e[1], e[2], e[3]>>
  BY DEF Ends
<1>c. handler[e] # "off" => NodeAt(e) \in Nodes
  BY <1>b, EndsAreNodes
<1>1. UNCHANGED <<call, clone, asked, pc, sink, relay, got>>
  BY DEF Handle, TakeSet, ApplyReplace, ApplyNew, ApplyLater, TakeProbe, CheckProbe,
         StoreProbe, MatchProbe, TakeSuccess, StartHandshake, TakeData, TakeDisconnect,
         TakeErr, CloseOnErr
<1>2. /\ \A d \in Ends \ {e} : handler'[d] = handler[d] /\ snap'[d] = snap[d]
      /\ handler[e] # "off"
  <2>1. CASE TakeSet(e) \/ ApplyReplace(e) \/ ApplyNew(e) \/ CheckProbe(e) \/ StoreProbe(e)
    BY <1>a, <2>1 DEF TakeSet, ApplyReplace, ApplyNew, CheckProbe, StoreProbe, TypeOK, Forget
  <2>2. CASE ApplyLater(e)
    BY <1>a, <2>2 DEF ApplyLater, TypeOK, Forget
  <2>3. CASE MatchProbe(e) \/ StartHandshake(e)
    BY <1>a, <2>3 DEF MatchProbe, StartHandshake, TypeOK, Forget
  <2>4. CASE TakeSuccess(e)
    BY <1>a, <2>4 DEF TakeSuccess, TypeOK
  <2>5. CASE \E m \in Probes : TakeProbe(e, m)
    BY <1>a, <2>5 DEF TakeProbe, TypeOK
  <2>6. CASE \E m \in Handshakes : TakeData(e, m)
    BY <1>a, <2>6 DEF TakeData, TypeOK
  <2>7. CASE TakeDisconnect(e) \/ CloseOnErr(e) \/ TakeErr(e)
    BY <1>a, <2>7 DEF TakeDisconnect, CloseOnErr, TakeErr, TypeOK
  <2> QED BY <2>1, <2>2, <2>3, <2>4, <2>5, <2>6, <2>7 DEF Handle
<1>3. e[1] = s => handler[e] # "set" /\ handler'[e] \notin Early
  <2>0. CASE e[1] # s
    BY <2>0
  <2>1. CASE CheckProbe(e) \/ StoreProbe(e)
    BY <1>a, <2>1 DEF CheckProbe, StoreProbe, TypeOK, Early
  <2>3. CASE MatchProbe(e) \/ StartHandshake(e)
    BY <1>a, <2>3 DEF MatchProbe, StartHandshake, TypeOK, Early
  <2>4. CASE TakeSuccess(e)
    BY <1>a, <2>4 DEF TakeSuccess, TypeOK, Early
  <2>5. CASE \E m \in Probes : TakeProbe(e, m)
    BY <1>a, <2>5 DEF TakeProbe, TypeOK, Early
  <2>6. CASE \E m \in Handshakes : TakeData(e, m)
    BY <1>a, <2>6 DEF TakeData, TypeOK, Early
  <2>7. CASE TakeDisconnect(e) \/ CloseOnErr(e) \/ TakeErr(e)
    BY <1>a, <2>7 DEF TakeDisconnect, CloseOnErr, TakeErr, TypeOK, Early
  <2> QED BY <2>0, <2>1, <2>3, <2>4, <2>5, <2>6, <2>7 DEF Handle
<1>4. acks' = acks \/ (e[1] # s /\ acks' = acks \cup {<<<<e[1], e[2]>>, TRUE>>})
  <2>1. CASE TakeSet(e) \/ CheckProbe(e) \/ StoreProbe(e) \/ MatchProbe(e) \/ StartHandshake(e)
             \/ TakeSuccess(e) \/ TakeDisconnect(e) \/ CloseOnErr(e) \/ TakeErr(e)
    BY <2>1 DEF TakeSet, CheckProbe, StoreProbe, MatchProbe, StartHandshake, TakeSuccess,
         TakeDisconnect, CloseOnErr, TakeErr
  <2>2. CASE (\E m \in Probes : TakeProbe(e, m)) \/ (\E m \in Handshakes : TakeData(e, m))
    BY <2>2 DEF TakeProbe, TakeData
  <2>3. CASE ApplyReplace(e) \/ ApplyNew(e)
    BY <2>3 DEF ApplyReplace, ApplyNew, SendAck
  <2>4. CASE ApplyLater(e)
    BY <2>4 DEF ApplyLater, SendAck
  <2> QED BY <2>1, <2>2, <2>3, <2>4 DEF Handle
<1>5. /\ \A m \in Nodes :
           \/ session'[<<m, s>>] = session[<<m, s>>]
           \/ /\ session'[<<m, s>>] = NoSession
              /\ \A p \in Legs(session[<<m, s>>]) : <<s, p>> \in down'
      /\ \A p \in Purposes : <<s, p>> \in down => <<s, p>> \in down'
  <2>1. CASE TakeDisconnect(e) \/ CloseOnErr(e)
    <3>1. CloseSession(NodeAt(e), e[1])
      BY <2>1 DEF TakeDisconnect, CloseOnErr
    <3> QED BY <1>a, <1>b, <1>c, <1>2, <3>1, CloseStill
  <2>2. CASE ApplyReplace(e) /\ ~Ready(snap[e])
    <3>1. CloseSession(NodeAt(e), e[1])
      BY <2>2 DEF ApplyReplace
    <3> QED BY <1>a, <1>b, <1>c, <1>2, <3>1, CloseStill
  <2>3. CASE ApplyReplace(e) /\ Ready(snap[e])
    <3>1. e[1] # s /\ down \subseteq down'
      BY <2>3 DEF ApplyReplace
    <3>2. \A m \in Nodes : session'[<<m, s>>] = session[<<m, s>>]
      BY <1>a, <2>3, <3>1 DEF ApplyReplace, TypeOK
    <3> QED BY <3>1, <3>2
  <2>4. CASE ApplyNew(e) \/ ApplyLater(e)
    <3>1. e[1] # s /\ down' = down
      BY <2>4 DEF ApplyNew, ApplyLater
    <3>2. \A m \in Nodes : session'[<<m, s>>] = session[<<m, s>>]
      BY <1>a, <2>4, <3>1 DEF ApplyNew, ApplyLater, TypeOK
    <3> QED BY <3>1, <3>2
  <2>5. CASE TakeSet(e) \/ CheckProbe(e) \/ StoreProbe(e) \/ MatchProbe(e) \/ StartHandshake(e)
             \/ TakeSuccess(e) \/ TakeErr(e)
             \/ (\E m \in Probes : TakeProbe(e, m)) \/ (\E m \in Handshakes : TakeData(e, m))
    <3>1. UNCHANGED <<session, down>>
      BY <2>5 DEF TakeSet, CheckProbe, StoreProbe, MatchProbe, StartHandshake, TakeSuccess,
         TakeErr, TakeProbe, TakeData
    <3> QED BY <3>1
  <2> QED BY <2>1, <2>2, <2>3, <2>4, <2>5 DEF Handle
<1>6. ASSUME NEW p \in Purposes, NEW side \in {"src", "dst"}
      PROVE  \/ handler'[<<s, p, side>>] = handler[<<s, p, side>>] /\ snap'[<<s, p, side>>] = snap[<<s, p, side>>]
             \/ handler'[<<s, p, side>>] \notin Early
  <2>1. <<s, p, side>> \in Ends
    BY DEF Ends
  <2>2. e = <<s, p, side>> => e[1] = s
    OBVIOUS
  <2> QED BY <1>2, <1>3, <2>1, <2>2
<1>7. \A p \in Purposes : AckSeen(s, p)' => AckSeen(s, p)
  <2>0. ASSUME e[1] # s, NEW p \in Purposes PROVE <<<<s, p>>, TRUE>> # <<<<e[1], e[2]>>, TRUE>>
    <3>1. <<s, p>> # <<e[1], e[2]>>
      BY <2>0
    <3> QED BY <3>1, Zenon
  <2>1. ASSUME NEW p \in Purposes, <<<<s, p>>, TRUE>> \in acks' PROVE <<<<s, p>>, TRUE>> \in acks
    <3>1. CASE acks' = acks
      BY <2>1, <3>1, Zenon
    <3>2. CASE e[1] # s /\ acks' = acks \cup {<<<<e[1], e[2]>>, TRUE>>}
      <4>1. <<<<s, p>>, TRUE>> # <<<<e[1], e[2]>>, TRUE>>
        BY <2>0, <3>2
      <4>2. \A a : a \in acks' => a \in acks \/ a = <<<<e[1], e[2]>>, TRUE>>
        BY <3>2, Zenon
      <4> QED BY <2>1, <4>1, <4>2, Zenon
    <3> QED BY <1>4, <3>1, <3>2
  <2> QED BY <1>1, <2>1 DEF AckSeen
<1>8. \A p \in Purposes : Landed(s, p) => Landed(s, p)'
  BY <1>6 DEF Landed
<1>9. \A p \in Purposes :
         /\ handler'[<<s, p, "dst">>] \in Early => handler'[<<s, p, "dst">>] = handler[<<s, p, "dst">>]
         /\ handler'[<<s, p, "dst">>] = "set" => snap'[<<s, p, "dst">>] = snap[<<s, p, "dst">>]
         /\ handler'[<<s, p, "src">>] \in {"fresh", "set"} =>
              handler[<<s, p, "src">>] \in {"fresh", "set"}
  BY <1>6 DEF Early
<1> QED BY <1>1, <1>5, <1>7, <1>8, <1>9 DEF Still, Acked

\* An ack for stream q is an ack for no other stream.
LEMMA AckAdds ==
    ASSUME NEW s, NEW q, NEW p, SendAck(<<s, q>>, TRUE), got' = got, AckSeen(s, p)'
    PROVE  AckSeen(s, p) \/ p = q
<1>1. p # q => <<s, p>> # <<s, q>>
  OBVIOUS
<1>2. p # q => <<<<s, p>>, TRUE>> # <<<<s, q>>, TRUE>>
  BY <1>1, Zenon
<1>3. acks' = acks \cup {<<<<s, q>>, TRUE>>}
  BY DEF SendAck
<1>4. <<<<s, p>>, TRUE>> \in acks' \cup got
  BY Zenon DEF AckSeen
<1>5. <<<<s, p>>, TRUE>> \in acks \cup got \/ <<<<s, p>>, TRUE>> = <<<<s, q>>, TRUE>>
  BY <1>3, <1>4, Zenon
<1> QED BY <1>2, <1>5, Zenon DEF AckSeen

Sets(e) == TakeSet(e) \/ ApplyReplace(e) \/ ApplyNew(e) \/ ApplyLater(e)

\* The frame of a step of handle_set_session for stream q.
SetFrame(s, q) ==
    /\ UNCHANGED <<call, clone, asked, pc, sink, relay, got>>
    /\ handler[<<s, q, "dst">>] \in {"fresh", "set"}
    /\ handler'[<<s, q, "dst">>] \notin {"off", "fresh"}
    /\ \A p \in Purposes \ {q} : handler'[<<s, p, "dst">>] = handler[<<s, p, "dst">>]
    /\ \A p \in Purposes : handler'[<<s, p, "src">>] = handler[<<s, p, "src">>]
    /\ \A p \in Purposes : <<s, p>> \in down => <<s, p>> \in down'
    /\ \A p \in Purposes : AckSeen(s, p)' => AckSeen(s, p) \/ (p = q /\ Landed(s, q)')
    /\ \A m \in Nodes : m # Dst(s, q) => session'[<<m, s>>] = session[<<m, s>>]

\* handle_set_session touches the session of its own node only, and its stream.
LEMMA SetFrames ==
    ASSUME IInv, NEW s \in Sessions, AckInv(s), NEW e \in Ends, e[1] = s, Sets(e)
    PROVE  e[2] \in Purposes /\ e = <<s, e[2], "dst">> /\ NodeAt(e) = Dst(s, e[2]) /\ SetFrame(s, e[2])
<1> USE DEF callVars, readVars, nodeVars, hsVars, busVars, loopVars
<1> DEFINE q == e[2]
<1>a. TypeOK /\ Acks(s)
  BY DEF IInv, AckInv
<1>1. handler[e] \in {"fresh", "set"}
  BY DEF Sets, TakeSet, ApplyReplace, ApplyNew, ApplyLater
<1>2. q \in Purposes /\ e = <<s, q, "dst">>
  <2>1. q \in Purposes /\ e[3] \in {"src", "dst"} /\ e = <<s, q, e[3]>>
    BY DEF Ends
  <2>2. e[3] # "src"
    BY <1>a, <1>1, <2>1 DEF Acks
  <2> QED BY <2>1, <2>2
<1>3. NodeAt(e) = Dst(s, q)
  BY <1>2 DEF NodeAt
<1>4. NodeAt(e) \in Nodes
  BY <1>1, <1>2, EndsAreNodes
<1>5. UNCHANGED <<call, clone, asked, pc, sink, relay, got>>
  BY DEF Sets, TakeSet, ApplyReplace, ApplyNew, ApplyLater
<1>6. handler'[e] \in {"set", "read", "dead"} /\ \A d \in Ends \ {e} : handler'[d] = handler[d]
  <2>1. CASE ApplyLater(e)
    BY <1>a, <2>1 DEF ApplyLater, TypeOK
  <2>2. CASE TakeSet(e) \/ ApplyReplace(e) \/ ApplyNew(e)
    BY <1>a, <2>2 DEF TakeSet, ApplyReplace, ApplyNew, TypeOK
  <2> QED BY <2>1, <2>2 DEF Sets
<1>7. /\ \A p \in Purposes \ {q} : handler'[<<s, p, "dst">>] = handler[<<s, p, "dst">>]
      /\ \A p \in Purposes : handler'[<<s, p, "src">>] = handler[<<s, p, "src">>]
  BY <1>2, <1>6 DEF Ends
<1>8. down \subseteq down'
  BY DEF Sets, TakeSet, ApplyReplace, ApplyNew, ApplyLater, CloseSession
<1>9. \A m \in Nodes : m # Dst(s, q) => session'[<<m, s>>] = session[<<m, s>>]
  <2>1. CASE TakeSet(e)
    BY <2>1 DEF TakeSet
  <2>2. CASE ApplyReplace(e)
    BY <1>a, <1>3, <1>4, <2>2 DEF ApplyReplace, TypeOK, CloseSession
  <2>3. CASE ApplyNew(e)
    BY <1>a, <1>3, <1>4, <2>3 DEF ApplyNew, TypeOK
  <2>4. CASE ApplyLater(e)
    BY <1>a, <1>3, <1>4, <2>4 DEF ApplyLater, TypeOK
  <2> QED BY <2>1, <2>2, <2>3, <2>4 DEF Sets
<1>10. acks' = acks \/ (SendAck(<<s, q>>, TRUE) /\ handler'[e] = "read")
  <2>1. CASE TakeSet(e)
    BY <2>1 DEF TakeSet
  <2>2. CASE ApplyReplace(e)
    BY <1>a, <2>2 DEF ApplyReplace, TypeOK
  <2>3. CASE ApplyNew(e)
    BY <1>a, <2>3 DEF ApplyNew, TypeOK
  <2>4. CASE ApplyLater(e)
    BY <1>a, <2>4 DEF ApplyLater, TypeOK
  <2> QED BY <2>1, <2>2, <2>3, <2>4 DEF Sets
<1>11. ASSUME NEW p \in Purposes, AckSeen(s, p)' PROVE AckSeen(s, p) \/ (p = q /\ Landed(s, q)')
  <2>1. CASE acks' = acks
    BY <1>5, <1>11, <2>1 DEF AckSeen
  <2>2. CASE SendAck(<<s, q>>, TRUE) /\ handler'[e] = "read"
    <3>1. Landed(s, q)'
      BY <1>2, <2>2 DEF Landed, Early
    <3> QED BY <1>5, <1>11, <2>2, <3>1, AckAdds
  <2> QED BY <1>10, <2>1, <2>2
<1>12. SetFrame(s, q)
  <2>1. handler[<<s, q, "dst">>] \in {"fresh", "set"} /\ handler'[<<s, q, "dst">>] \notin {"off", "fresh"}
    BY <1>1, <1>2, <1>6
  <2> QED BY <1>5, <1>7, <1>8, <1>9, <1>11, <2>1 DEF SetFrame
<1> QED BY <1>2, <1>3, <1>12

\* handle_set_session keeps the order of the set-up and the meaning of the acks.
LEMMA SetControl ==
    ASSUME IInv, NEW s \in Sessions, AckInv(s), NEW q \in Purposes, SetFrame(s, q)
    PROVE  /\ Chain(s)' /\ Peers(s)' /\ Acks(s)' /\ Grows(s, q)
           /\ \A p \in Purposes : Src(s, p)' = Src(s, p) /\ Dst(s, p)' = Dst(s, p)
           /\ \A p \in Purposes \ {q} : call'[<<s, p>>] \in {"idle", "done"}
                                     /\ handler'[<<s, p, "dst">>] \notin {"fresh", "set"}
           /\ call'[<<s, q>>] \in {"written", "waiting"} /\ ~AckSeen(s, q)
           /\ Src(s, q) \in Nodes /\ Dst(s, q) \in Nodes /\ Src(s, q) # Dst(s, q)
           /\ q \notin Joined(Dst(s, q), s)
<1>a. Chain(s) /\ Peers(s) /\ Acks(s)
  BY DEF AckInv
<1>b. \A p \in Purposes : Src(s, p)' = Src(s, p) /\ Dst(s, p)' = Dst(s, p)
  BY DEF SetFrame, Src, Dst, Purposes
<1>c. UNCHANGED <<call, asked, pc, sink, relay, got>>
  BY DEF SetFrame
<1>d. call[<<s, q>>] \in {"written", "waiting"} /\ ~AckSeen(s, q) /\ ~Landed(s, q)
  BY <1>a, FreshCall DEF SetFrame, Landed, Early
<1>1. Chain(s)' /\ Peers(s)'
  BY <1>a, <1>c DEF Chain, Peers, IsDirect, Entry, Access
<1>2. \A p \in Purposes : Landed(s, p) => Landed(s, p)'
  BY <1>d DEF Landed, SetFrame
<1>3. Acks(s)'
  <2>1. \A p \in Purposes : AckSeen(s, p)' => Landed(s, p)'
    BY <1>a, <1>2 DEF Acks, SetFrame
  <2>2. \A p \in Purposes : Acked(<<s, p>>, TRUE)' <=> Acked(<<s, p>>, TRUE)
    BY <1>c DEF Acked
  <2>3. \A p \in Purposes : handler'[<<s, p, "src">>] \notin {"fresh", "set"}
    BY <1>a DEF Acks, SetFrame
  <2> QED BY <1>a, <1>c, <2>1, <2>2, <2>3 DEF Acks
<1>4. Grows(s, q)
  BY <1>b, <1>c, <1>2 DEF Grows, SetFrame
<1>5. \A p \in Purposes \ {q} : call'[<<s, p>>] \in {"idle", "done"}
                             /\ handler'[<<s, p, "dst">>] \notin {"fresh", "set"}
  BY <1>a, <1>c, <1>d, Solo DEF SetFrame
<1>6. Src(s, q) \in Nodes /\ Dst(s, q) \in Nodes /\ Src(s, q) # Dst(s, q)
  BY <1>a, <1>d, EndsAreNodes, Apart DEF Unopened
<1>7. q \notin Joined(Dst(s, q), s)
  BY <1>d, <1>6 DEF Joined
<1> QED BY <1>1, <1>3, <1>4, <1>b, <1>5, <1>c, <1>d, <1>6, <1>7

\* handle_set_session: the session, and the copy that it works with, have every
\* acked stream.
LEMMA SetCopies ==
    ASSUME IInv, NEW s \in Sessions, AckInv(s), NEW e \in Ends, e[1] = s, Sets(e), NEW n \in Nodes
    PROVE  CopiesAt(n, s)'
<1> USE DEF callVars, readVars, nodeVars, hsVars, busVars, loopVars
<1> DEFINE q == e[2]
<1>a. /\ TypeOK /\ Acks(s) /\ Chain(s) /\ Room(s) /\ EntryRole(s) /\ CopiesAt(n, s)
      /\ q \in Purposes /\ e = <<s, q, "dst">> /\ NodeAt(e) = Dst(s, q) /\ SetFrame(s, q)
  BY SetFrames DEF IInv, AckInv, Copies
<1>b. /\ \A p \in Purposes : Src(s, p)' = Src(s, p) /\ Dst(s, p)' = Dst(s, p)
      /\ \A p \in Purposes \ {q} : call'[<<s, p>>] \in {"idle", "done"}
                                /\ handler'[<<s, p, "dst">>] \notin {"fresh", "set"}
      /\ Grows(s, q)
      /\ call'[<<s, q>>] \in {"written", "waiting"} /\ ~AckSeen(s, q)
      /\ Src(s, q) # Dst(s, q) /\ q \notin Joined(Dst(s, q), s)
      /\ Dst(s, q) \in Nodes
  BY <1>a, SetControl
<1>c. /\ Joined(n, s) \subseteq Joined(n, s)'
      /\ Owed(n, s)' \subseteq Owed(n, s) \cup {q}
      /\ n # Dst(s, q) => Owed(n, s)' \subseteq Owed(n, s)
      /\ \A p \in Owed(n, s)' : <<s, p>> \notin down'
  <2>1. call[<<s, q>>] \notin Unopened
    BY <1>a, <1>b DEF SetFrame, Unopened
  <2> QED BY <1>a, <1>b, <2>1, Growth
<1>d. session[<<n, s>>] \in SessionRec /\ Copy(session[<<n, s>>], Joined(n, s), Owed(n, s))
  BY <1>a DEF TypeOK, CopiesAt
<1>e. call'[<<s, q>>] \notin {"insert", "later"}
  BY <1>b
<1>1. CASE n # Dst(s, q)
  <2>1. session'[<<n, s>>] = session[<<n, s>>]
    BY <1>a, <1>1 DEF SetFrame
  <2>2. Copy(session'[<<n, s>>], Joined(n, s)', Owed(n, s)')
    BY <1>c, <1>d, <1>1, <2>1, CopyMono
  <2>3. n # Dst(s, q)'
    BY <1>a, <1>b, <1>1
  <2> QED BY <1>a, <1>b, <1>e, <2>2, <2>3, CopiesSolo
<1>2. CASE n = Dst(s, q)
  <2>n. NodeAt(e) = n
    BY <1>a, <1>2
  <2>s. snap[e] \in SessionRec
    BY <1>a DEF TypeOK
  <2>c. handler[e] = "set" => Copy(snap[e], Joined(n, s), Owed(n, s))
    BY <1>a, <1>2 DEF CopiesAt
  <2>q. q \notin Joined(n, s)
    BY <1>b, <1>2
  <2>j. handler'[e] \notin Early => Joined(n, s) \cup {q} \subseteq Joined(n, s)'
    <3>1. handler'[e] \notin Early => q \in Joined(n, s)'
      BY <1>a, <1>b, <1>2 DEF Joined, Landed
    <3> QED BY <1>c, <3>1
  <2>k. SendAck(<<s, q>>, TRUE) \/ acks' = acks
    BY <1>a DEF Sets, TakeSet, ApplyReplace, ApplyNew, ApplyLater
  <2>l. acks' = acks => Owed(n, s)' \subseteq Owed(n, s)
    <3>1. acks' = acks => ~AckSeen(s, q)'
      BY <1>a, <1>b DEF AckSeen, SetFrame
    <3>2. acks' = acks => q \notin Owed(n, s)'
      BY <3>1 DEF Owed
    <3> QED BY <1>c, <3>2
  <2>1. CASE TakeSet(e)
    <3>1. session' = session /\ snap'[e] = session[<<n, s>>] /\ acks' = acks
      BY <1>a, <2>n, <2>1 DEF TakeSet, TypeOK
    <3>2. Copy(session[<<n, s>>], Joined(n, s)', Owed(n, s)')
      BY <1>c, <1>d, <2>l, <3>1, CopyMono
    <3> QED BY <1>a, <1>b, <1>e, <3>1, <3>2, CopiesSolo
  <2>2. CASE ApplyReplace(e) /\ Ready(snap[e])
    <3>1. /\ handler[e] = "set" /\ handler'[e] = "read"
          /\ session'[<<n, s>>] = WithLater(snap[e], q)
          /\ <<s, snap[e].later>> \in down'
      BY <1>a, <2>n, <2>2 DEF ApplyReplace, TypeOK
    <3>2. Copy(WithLater(snap[e], q), Joined(n, s) \cup {q}, (Owed(n, s) \ {snap[e].later}) \cup {q})
      BY <1>a, <2>s, <2>c, <2>q, <2>2, <3>1, CopyReplace
    <3>3. Owed(n, s)' \subseteq (Owed(n, s) \ {snap[e].later}) \cup {q}
      BY <1>c, <3>1
    <3>4. Joined(n, s) \cup {q} \subseteq Joined(n, s)'
      BY <2>j, <3>1 DEF Early
    <3>5. Copy(session'[<<n, s>>], Joined(n, s)', Owed(n, s)')
      BY <3>1, <3>2, <3>3, <3>4, CopyMono
    <3> QED BY <1>a, <1>b, <1>e, <3>1, <3>5, CopiesSolo
  <2>3. CASE ApplyReplace(e) /\ ~Ready(snap[e])
    <3>1. handler'[e] = "read" /\ acks' = acks /\ CloseSession(n, s)
      BY <1>a, <2>n, <2>3 DEF ApplyReplace, TypeOK
    <3>2. session'[<<n, s>>] = NoSession /\ \A p \in Legs(session[<<n, s>>]) : <<s, p>> \in down'
      BY <1>a, <3>1 DEF CloseSession, TypeOK
    <3>3. Owed(n, s) \subseteq Legs(session[<<n, s>>])
      BY <1>d DEF Copy
    <3>4. Owed(n, s)' = {}
      BY <1>c, <2>l, <3>1, <3>2, <3>3
    <3>5. Copy(session'[<<n, s>>], Joined(n, s)', Owed(n, s)')
      BY <3>2, <3>4, CopyNone
    <3> QED BY <1>a, <1>b, <1>e, <3>1, <3>5, CopiesSolo
  <2>4. CASE ApplyNew(e)
    <3>1. /\ handler[e] = "set" /\ handler'[e] = "read" /\ ~IsSome(snap[e])
          /\ session'[<<n, s>>] = [role |-> OtherRole(q), early |-> q, later |-> "none"]
      BY <1>a, <2>n, <2>4 DEF ApplyNew, TypeOK
    <3>2. Owed(n, s) = {}
      BY <2>c, <3>1, CopyOfNone
    <3>3. q \in Joined(n, s)'
      BY <2>j, <3>1 DEF Early
    <3>4. OtherRole(q) \in Roles
      BY <1>a DEF OtherRole, Roles, Purposes
    <3>5. Copy(session'[<<n, s>>], Joined(n, s)', {q})
      BY <1>a, <3>1, <3>3, <3>4, CopyNew
    <3>6. Owed(n, s)' \subseteq {q}
      BY <1>c, <3>2
    <3>7. Copy(session'[<<n, s>>], Joined(n, s)', Owed(n, s)')
      BY <3>5, <3>6, CopyMono
    <3> QED BY <1>a, <1>b, <1>e, <3>1, <3>7, CopiesSolo
  <2>5. CASE ApplyLater(e) /\ IsSome(session[<<n, s>>])
    <3>1. /\ handler[e] = "set" /\ handler'[e] = "read"
          /\ IsSome(snap[e]) /\ ~IsEntryAsRelay(e)
          /\ session'[<<n, s>>] = WithLater(session[<<n, s>>], q)
      BY <1>a, <2>n, <2>5 DEF ApplyLater, TypeOK
    <3>2. session[<<n, s>>].later = "none"
      <4>1. ~(q = "relay" /\ Dst(s, q) = Entry(s))
        <5>1. q = "relay" /\ Dst(s, q) = Entry(s) => snap[e].role \in {"none", "Entry"}
          BY <1>a, <3>1 DEF EntryRole
        <5>2. q = "relay" /\ Dst(s, q) = Entry(s) => snap[e].role = "Entry"
          BY <3>1, <5>1 DEF IsSome
        <5> QED BY <3>1, <5>2 DEF IsEntryAsRelay, OtherRole
      <4> QED BY <1>a, <1>2, <3>1, <4>1 DEF Room
    <3>3. Copy(session'[<<n, s>>], Joined(n, s) \cup {q}, Owed(n, s) \cup {q})
      BY <1>a, <1>d, <2>q, <2>5, <3>1, <3>2, CopyLater
    <3>4. Joined(n, s) \cup {q} \subseteq Joined(n, s)'
      BY <2>j, <3>1 DEF Early
    <3>5. Copy(session'[<<n, s>>], Joined(n, s)', Owed(n, s)')
      BY <1>c, <3>3, <3>4, CopyMono
    <3> QED BY <1>a, <1>b, <1>e, <3>1, <3>5, CopiesSolo
  <2>6. CASE ApplyLater(e) /\ ~IsSome(session[<<n, s>>])
    <3>1. handler'[e] = "dead" /\ session' = session /\ acks' = acks
      BY <1>a, <2>n, <2>6 DEF ApplyLater, TypeOK
    <3>2. Copy(session'[<<n, s>>], Joined(n, s)', Owed(n, s)')
      BY <1>c, <1>d, <2>l, <3>1, CopyMono
    <3> QED BY <1>a, <1>b, <1>e, <3>1, <3>2, CopiesSolo
  <2> QED BY <2>1, <2>2, <2>3, <2>4, <2>5, <2>6 DEF Sets
<1> QED BY <1>1, <1>2

\* handle_set_session leaves room for the stream, and the entry node its role.
LEMMA SetRoom ==
    ASSUME IInv, NEW s \in Sessions, AckInv(s), NEW e \in Ends, e[1] = s, Sets(e)
    PROVE  Room(s)' /\ EntryRole(s)'
<1> USE DEF callVars, readVars, nodeVars, hsVars, busVars, loopVars
<1> DEFINE q == e[2]
           n == Dst(s, q)
<1>a. /\ TypeOK /\ Acks(s) /\ Chain(s) /\ Peers(s) /\ Room(s) /\ EntryRole(s)
      /\ q \in Purposes /\ e = <<s, q, "dst">> /\ NodeAt(e) = n /\ SetFrame(s, q)
  BY SetFrames DEF IInv, AckInv
<1>b. /\ \A p \in Purposes : Src(s, p)' = Src(s, p) /\ Dst(s, p)' = Dst(s, p)
      /\ \A p \in Purposes \ {q} : call'[<<s, p>>] \in {"idle", "done"}
                                /\ handler'[<<s, p, "dst">>] \notin {"fresh", "set"}
      /\ call'[<<s, q>>] \in {"written", "waiting"}
      /\ Src(s, q) \in Nodes /\ n \in Nodes /\ Src(s, q) # n
  BY <1>a, SetControl
<1>c. call' = call /\ clone' = clone
  BY <1>a DEF SetFrame
<1>1. ASSUME NEW p \in Purposes, call'[<<s, p>>] \in Adding
      PROVE  session'[<<Src(s, p)', s>>].later = "none"
  <2>0. p # q => call'[<<s, p>>] \in {"idle", "done"}
    BY <1>b
  <2>1. p = q
    BY <1>1, <2>0 DEF Adding
  <2>2. session'[<<Src(s, q), s>>] = session[<<Src(s, q), s>>]
    BY <1>a, <1>b DEF SetFrame
  <2> QED BY <1>a, <1>b, <1>c, <1>1, <2>1, <2>2 DEF Room
<1>2. ASSUME NEW p \in Purposes, handler'[<<s, p, "dst">>] \in {"fresh", "set"}
      PROVE  session'[<<Dst(s, p)', s>>].later = "none" \/ (p = "relay" /\ Dst(s, p)' = Entry(s))
  <2>1. p = q
    BY <1>b, <1>2
  <2>2. TakeSet(e)
    <3>1. CASE ApplyLater(e)
      BY <1>a, <1>2, <2>1, <3>1 DEF ApplyLater, TypeOK
    <3>2. CASE ApplyReplace(e) \/ ApplyNew(e)
      BY <1>a, <1>2, <2>1, <3>2 DEF ApplyReplace, ApplyNew, TypeOK
    <3> QED BY <3>1, <3>2 DEF Sets
  <2>3. session' = session /\ handler[<<s, q, "dst">>] = "fresh"
    BY <1>a, <2>2 DEF TakeSet
  <2> QED BY <1>a, <1>b, <2>1, <2>3 DEF Room
<1>3. Room(s)'
  BY <1>1, <1>2 DEF Room, Entry
<1>4. ASSUME ~Landed(s, "relay")', call'[<<s, "direct">>] = "idle"
      PROVE  /\ session'[<<Entry(s), s>>].role \in {"none", "Entry"}
             /\ clone'[<<s, "sink">>].role \in {"none", "Entry"}
  <2>a. Entry(s) \in Nodes /\ Entry(s) \notin Clients /\ To[s] \in Clients
    BY CircuitAssumption DEF Entry, Nodes
  <2>b. ~Landed(s, "relay")
    BY <1>a, <1>4 DEF SetFrame, Landed, Early, Purposes
  <2>c. /\ session[<<Entry(s), s>>].role \in {"none", "Entry"}
        /\ clone[<<s, "sink">>].role \in {"none", "Entry"}
    BY <1>a, <1>c, <1>4, <2>b DEF EntryRole
  <2>1. CASE n # Entry(s)
    BY <1>a, <1>c, <2>a, <2>c, <2>1 DEF SetFrame
  <2>2. CASE n = Entry(s) /\ TakeSet(e)
    BY <1>c, <2>c, <2>2 DEF TakeSet
  <2>3. CASE n = Entry(s) /\ ~TakeSet(e)
    <3>1. q # "relay"
      <4>1. CASE ApplyLater(e)
        BY <1>a, <1>4, <4>1 DEF ApplyLater, TypeOK, Landed, Early
      <4>2. CASE ApplyReplace(e) \/ ApplyNew(e)
        BY <1>a, <1>4, <4>2 DEF ApplyReplace, ApplyNew, TypeOK, Landed, Early
      <4> QED BY <2>3, <4>1, <4>2 DEF Sets
    <3>2. q = "dial"
      BY <1>a, <2>a, <2>3, <3>1 DEF Dst, Peers, Purposes
    <3>3. CASE ApplyNew(e)
      BY <1>a, <1>b, <1>c, <2>c, <2>3, <3>2, <3>3 DEF ApplyNew, TypeOK, OtherRole
    <3>4. CASE ApplyReplace(e)
      BY <3>2, <3>4 DEF ApplyReplace, IsEntryAsRelay, OtherRole
    <3>5. CASE ApplyLater(e)
      <4>1. session[<<n, s>>] \in SessionRec
        BY <1>a, <1>b DEF TypeOK
      <4>2. WithLater(session[<<n, s>>], q).role = session[<<n, s>>].role
        BY <4>1 DEF WithLater, SessionRec
      <4>3. session'[<<n, s>>] \in {WithLater(session[<<n, s>>], q), session[<<n, s>>]}
        <5>1. CASE IsSome(session[<<n, s>>])
          BY <1>a, <1>b, <3>5, <5>1 DEF ApplyLater, TypeOK
        <5>2. CASE ~IsSome(session[<<n, s>>])
          BY <1>a, <3>5, <5>2 DEF ApplyLater
        <5> QED BY <5>1, <5>2
      <4> QED BY <1>c, <2>c, <2>3, <4>2, <4>3
    <3> QED BY <2>3, <3>3, <3>4, <3>5 DEF Sets
  <2> QED BY <2>1, <2>2, <2>3
<1>5. ASSUME handler'[<<s, "relay", "dst">>] = "set", Dst(s, "relay")' = Entry(s)
      PROVE  snap'[<<s, "relay", "dst">>].role \in {"none", "Entry"}
  <2>1. q = "relay"
    BY <1>b, <1>5 DEF Purposes
  <2>2. TakeSet(e)
    <3>1. CASE ApplyLater(e)
      BY <1>a, <1>5, <2>1, <3>1 DEF ApplyLater, TypeOK
    <3>2. CASE ApplyReplace(e) \/ ApplyNew(e)
      BY <1>a, <1>5, <2>1, <3>2 DEF ApplyReplace, ApplyNew, TypeOK
    <3> QED BY <3>1, <3>2 DEF Sets
  <2>3. n = Entry(s)
    BY <1>b, <1>5, <2>1 DEF Purposes
  <2>4. snap'[<<s, "relay", "dst">>] = session[<<Entry(s), s>>] /\ handler[<<s, "relay", "dst">>] = "fresh"
    BY <1>a, <2>1, <2>2, <2>3 DEF TakeSet, TypeOK
  <2>5. ~Landed(s, "relay")
    BY <2>4 DEF Landed, Early
  <2>6. call[<<s, "direct">>] = "idle"
    BY <1>a, <1>b, <1>c, <2>1 DEF Chain
  <2> QED BY <1>a, <2>4, <2>5, <2>6 DEF EntryRole
<1>6. EntryRole(s)'
  BY <1>4, <1>5 DEF EntryRole, Entry
<1> QED BY <1>3, <1>6

\* relay_event_handler keeps the invariant.
LEMMA HandleKeeps ==
    ASSUME IInv, NEW s \in Sessions, AckInv(s), NEW e \in Ends, Handle(e)
    PROVE  AckInv(s)'
<1>1. CASE e[1] = s /\ Sets(e)
  <2>0. e[2] \in Purposes /\ SetFrame(s, e[2])
    BY <1>1, SetFrames
  <2>1. Chain(s)' /\ Peers(s)' /\ Acks(s)'
    BY <2>0, SetControl
  <2>2. \A n \in Nodes : CopiesAt(n, s)'
    BY <1>1, SetCopies
  <2>3. Room(s)' /\ EntryRole(s)'
    BY <1>1, SetRoom
  <2> QED BY <2>1, <2>2, <2>3 DEF AckInv, Copies
<1>2. CASE ~(e[1] = s /\ Sets(e))
  BY <1>2, HandleStill, StillKeeps DEF Sets
<1> QED BY <1>1, <1>2

-----------------------------------------------------------------------------
(* The steps of dial and of the loops that start a call.                     *)

\* A step that starts (again) the call for stream q, while no other call runs.
StartFrame(s, q) ==
    /\ UNCHANGED <<clone, handler, snap, session, down, acks, got>>
    /\ call[<<s, q>>] \in {"idle", "failed"} /\ call'[<<s, q>>] = "opening"
    /\ \A p \in Purposes \ {q} : call'[<<s, p>>] = call[<<s, p>>] /\ call[<<s, p>>] \in {"idle", "done"}
    /\ \A p \in Purposes : call[<<s, p>>] \notin Unopened =>
         Src(s, p)' = Src(s, p) /\ Dst(s, p)' = Dst(s, p)

\* The steps outside new_session_to_peer and handle_set_session.
Moves(s) == Still(s) \/ \E q \in Purposes : StartFrame(s, q)

\* Setting the state of one call is such a step.
LEMMA Starts ==
    ASSUME TypeOK, NEW s \in Sessions, NEW q \in Purposes,
           call' = [call EXCEPT ![<<s, q>>] = "opening"], call[<<s, q>>] \in {"idle", "failed"},
           \A p \in Purposes \ {q} : call[<<s, p>>] \in {"idle", "done"},
           UNCHANGED <<clone, handler, snap, session, down, acks, got>>,
           \A p \in Purposes : call[<<s, p>>] \notin Unopened =>
             Src(s, p)' = Src(s, p) /\ Dst(s, p)' = Dst(s, p)
    PROVE  StartFrame(s, q)
<1>1. call'[<<s, q>>] = "opening"
  BY DEF TypeOK, Streams
<1>2. \A p \in Purposes \ {q} : call'[<<s, p>>] = call[<<s, p>>]
  BY DEF TypeOK, Streams
<1> QED BY <1>1, <1>2 DEF StartFrame

\* Starting a call keeps the invariant, if there is room at the calling node.
LEMMA StartKeeps ==
    ASSUME IInv, NEW s \in Sessions, AckInv(s), NEW q \in Purposes, StartFrame(s, q),
           Chain(s)', Peers(s)', session[<<Src(s, q)', s>>].later = "none"
    PROVE  AckInv(s)' /\ Moves(s)
<1>a. Acks(s) /\ Copies(s) /\ EntryRole(s)
  BY DEF AckInv
<1>b. \A p \in Purposes : handler'[<<s, p, "dst">>] = handler[<<s, p, "dst">>]
                       /\ handler[<<s, p, "dst">>] \notin {"fresh", "set"}
  <2>1. ASSUME NEW p \in Purposes, handler[<<s, p, "dst">>] \in {"fresh", "set"} PROVE FALSE
    <3>1. call[<<s, p>>] \in {"written", "waiting"}
      BY <1>a, <2>1, FreshCall
    <3> QED BY <3>1 DEF StartFrame
  <2> QED BY <2>1 DEF StartFrame
<1>c. \A p \in Purposes : Landed(s, p)' <=> Landed(s, p)
  BY <1>b DEF Landed
<1>d. \A p \in Purposes : (AckSeen(s, p)' <=> AckSeen(s, p)) /\ (Acked(<<s, p>>, TRUE)' <=> Acked(<<s, p>>, TRUE))
  BY DEF StartFrame, AckSeen, Acked
<1>e. Grows(s, "none")
  BY <1>c, <1>d DEF Grows, StartFrame
<1>1. Acks(s)'
  <2>1. \A p \in Purposes : call'[<<s, p>>] \in AfterAck => call[<<s, p>>] \in AfterAck
    BY DEF StartFrame, AfterAck
  <2> QED BY <1>a, <1>c, <1>d, <2>1 DEF Acks, StartFrame
<1>2. ASSUME NEW n \in Nodes PROVE CopiesAt(n, s)'
  <2>0. "none" \notin Purposes
    BY DEF Purposes
  <2>1. Joined(n, s) \subseteq Joined(n, s)' /\ Owed(n, s)' \subseteq Owed(n, s)
    BY <1>a, <1>e, <2>0, Growth
  <2>2. Copy(session'[<<n, s>>], Joined(n, s)', Owed(n, s)')
    BY <1>a, <2>1, CopyMono DEF Copies, CopiesAt, StartFrame
  <2>3. /\ \A p \in Purposes \ {q} : call'[<<s, p>>] \in {"idle", "done"}
        /\ call'[<<s, q>>] = "opening"
    BY DEF StartFrame
  <2> QED BY <1>b, <2>2, <2>3, CopiesSolo
<1>3. Room(s)'
  <2>1. ASSUME NEW p \in Purposes, call'[<<s, p>>] \in Adding
        PROVE  session'[<<Src(s, p)', s>>].later = "none"
    <3>1. p # q => call'[<<s, p>>] \in {"idle", "done"}
      BY DEF StartFrame
    <3>2. p = q
      BY <2>1, <3>1 DEF Adding
    <3> QED BY <3>2 DEF StartFrame
  <2> QED BY <1>b, <2>1 DEF Room, Entry
<1>4. EntryRole(s)'
  <2>1. call'[<<s, "direct">>] = "idle" => call[<<s, "direct">>] = "idle"
    BY DEF StartFrame, Purposes
  <2>2. Landed(s, "relay")' <=> Landed(s, "relay")
    BY <1>c DEF Purposes
  <2>3. handler'[<<s, "relay", "dst">>] # "set"
    BY <1>b DEF Purposes
  <2> QED BY <1>a, <2>1, <2>2, <2>3 DEF EntryRole, StartFrame, Entry
<1>5. Moves(s)
  BY DEF Moves
<1> QED BY <1>1, <1>2, <1>3, <1>4, <1>5 DEF AckInv, Copies

\* A node has added only streams that were opened and that it is an end of.
LEMMA JoinedEnds ==
    ASSUME IInv, NEW s \in Sessions, NEW n, NEW p \in Joined(n, s)
    PROVE  p \in Purposes /\ call[<<s, p>>] \notin Unopened /\ n \in {Src(s, p), Dst(s, p)}
<1>1. p \in Purposes /\ n \in {Src(s, p), Dst(s, p)}
  BY DEF Joined
<1>2. Landed(s, p) => call[<<s, p>>] \notin Unopened
  BY <1>1 DEF IInv, OpenedAt, Landed, Early
<1> QED BY <1>1, <1>2 DEF Joined, Unopened

\* dial starts with its own stream.
LEMMA DialStartKeeps ==
    ASSUME IInv, NEW s \in Sessions, AckInv(s), DialStart(s)
    PROVE  AckInv(s)' /\ Moves(s)
<1> USE DEF callVars, readVars, nodeVars, hsVars, busVars, loopVars
<1>a. TypeOK /\ Order(s) /\ Chain(s) /\ Peers(s) /\ Copies(s)
  BY DEF IInv, AckInv
<1>b. \A p \in Purposes : call[<<s, p>>] = "idle"
  BY <1>a DEF DialStart, Order, Chain, Purposes
<1>c. call' = [call EXCEPT ![<<s, "dial">>] = "opening"]
  BY DEF DialStart
<1>1. StartFrame(s, "dial")
  <2>1. UNCHANGED <<clone, handler, snap, session, down, acks, got>>
    BY DEF DialStart
  <2>2. \A p \in Purposes \ {"dial"} : call[<<s, p>>] \in {"idle", "done"}
    BY <1>a, <1>b, <1>c DEF Purposes
  <2> QED BY <2>1, <2>2, <1>a, <1>b, <1>c, Starts DEF Purposes, Unopened
<1>2. Chain(s)'
  BY <1>a, <1>b, <1>c DEF Chain, DialStart, TypeOK, Streams, Purposes, Tasks, IsDirect, Entry, Access
<1>3. Peers(s)'
  BY <1>a DEF Peers, DialStart, Entry, Access
<1>4. Src(s, "dial")' = From[s] /\ From[s] \in Nodes
  BY CircuitAssumption DEF Src, Nodes
<1>5. Joined(From[s], s) = {}
  BY <1>b, JoinedEnds DEF Unopened
<1>6. session[<<From[s], s>>].later = "none"
  BY <1>a, <1>4, <1>5, CopyOne DEF Copies, CopiesAt
<1> QED BY <1>1, <1>2, <1>3, <1>4, <1>6, StartKeeps DEF Purposes

\* handle_new_circuit starts with one stream to the remote client, or to a sink.
LEMMA EntryStartKeeps ==
    ASSUME IInv, NEW s \in Sessions, AckInv(s), AcceptDirect(s) \/ AcceptSink(s) \/ RetrySink(s)
    PROVE  AckInv(s)' /\ Moves(s)
<1> USE DEF callVars, readVars, nodeVars, hsVars, busVars, loopVars
<1>a. TypeOK /\ Order(s) /\ Chain(s) /\ Peers(s) /\ Copies(s) /\ Room(s)
  BY DEF IInv, AckInv
<1>b. Entry(s) \in Nodes /\ Entry(s) \in Servers
  BY CircuitAssumption DEF Entry, Nodes
<1>c. Copy(session[<<Entry(s), s>>], Joined(Entry(s), s), Owed(Entry(s), s))
  BY <1>a, <1>b DEF Copies, CopiesAt
<1>d. call[<<s, "dial">>] = "done"
  BY <1>a DEF Chain, AcceptDirect, AcceptSink, RetrySink, TakeNewCircuit
<1>e. /\ pc[<<s, "pub">>] = "idle" /\ call[<<s, "answer">>] = "idle"
      /\ call[<<s, "relay">>] = "idle" /\ call[<<s, "expend">>] = "idle" /\ relay[s].tries = 0
  BY <1>a DEF Order, AcceptDirect, AcceptSink, RetrySink, TakeNewCircuit
<1>1. CASE AcceptDirect(s)
  <2>1. call[<<s, "direct">>] = "idle" /\ call[<<s, "sink">>] = "idle"
    BY <1>a, <1>1 DEF AcceptDirect, TakeNewCircuit, Order
  <2>2. call' = [call EXCEPT ![<<s, "direct">>] = "opening"] /\ sink' = sink /\ relay' = relay
    BY <1>1 DEF AcceptDirect
  <2>3. \A p \in Purposes : Src(s, p)' = Src(s, p) /\ Dst(s, p)' = Dst(s, p)
    BY <2>2 DEF Src, Dst, Purposes
  <2>4. StartFrame(s, "direct")
    <3>1. UNCHANGED <<clone, handler, snap, session, down, acks, got>>
      BY <1>1 DEF AcceptDirect
    <3>2. \A p \in Purposes \ {"direct"} : call[<<s, p>>] \in {"idle", "done"}
      BY <1>a, <1>d, <1>e, <2>1, <2>2, <2>3 DEF Purposes
    <3> QED BY <3>1, <3>2, <1>a, <1>d, <1>e, <2>1, <2>2, <2>3, Starts DEF Purposes
  <2>5. Chain(s)'
    BY <1>a, <1>d, <1>e, <1>1, <2>1, <2>2
    DEF Chain, AcceptDirect, TakeNewCircuit, TypeOK, Streams, Purposes, Tasks, IsDirect, Entry, Access
  <2>6. Peers(s)'
    BY <1>a, <2>2 DEF Peers, Entry, Access
  <2>7. session[<<Src(s, "direct")', s>>].later = "none"
    <3>1. Src(s, "direct")' = Entry(s)
      BY <2>3 DEF Src, Purposes, Entry
    <3>2. ~Ready(session[<<Entry(s), s>>])
      BY <1>1 DEF AcceptDirect, Admissible
    <3> QED BY <1>c, <3>1, <3>2, CopyNotReady
  <2> QED BY <2>4, <2>5, <2>6, <2>7, StartKeeps DEF Purposes
<1>2. CASE AcceptSink(s) \/ RetrySink(s)
  <2>1. call[<<s, "direct">>] = "idle" /\ call[<<s, "sink">>] \in {"idle", "failed"} /\ ~IsDirect(s)
    BY <1>a, <1>2 DEF AcceptSink, RetrySink, TakeNewCircuit, Order, Chain
  <2>2. call' = [call EXCEPT ![<<s, "sink">>] = "opening"] /\ relay' = relay
    BY <1>2 DEF AcceptSink, RetrySink
  <2>3. /\ \A p \in Purposes \ {"sink", "expend"} : Src(s, p)' = Src(s, p) /\ Dst(s, p)' = Dst(s, p)
        /\ call[<<s, "sink">>] \in Unopened /\ call[<<s, "expend">>] \in Unopened
    BY <1>e, <2>1, <2>2 DEF Src, Dst, Purposes, Unopened
  <2>4. StartFrame(s, "sink")
    <3>1. UNCHANGED <<clone, handler, snap, session, down, acks, got>>
      BY <1>2 DEF AcceptSink, RetrySink
    <3>2. \A p \in Purposes \ {"sink"} : call[<<s, p>>] \in {"idle", "done"}
      BY <1>a, <1>d, <1>e, <2>1, <2>2, <2>3 DEF Purposes
    <3> QED BY <3>1, <3>2, <1>a, <1>d, <1>e, <2>1, <2>2, <2>3, Starts DEF Purposes
  <2>5. Chain(s)'
    <3>1. pc'[<<s, "pub">>] = "idle"
      BY <1>a, <1>e, <1>2 DEF AcceptSink, RetrySink, TypeOK, Tasks
    <3>2. /\ call'[<<s, "dial">>] = "done" /\ call'[<<s, "direct">>] = "idle"
          /\ call'[<<s, "answer">>] = "idle" /\ call'[<<s, "relay">>] = "idle"
      BY <1>a, <1>d, <1>e, <2>1, <2>2 DEF TypeOK, Streams, Purposes
    <3> QED BY <2>1, <3>1, <3>2 DEF Chain, IsDirect, Entry, Access
  <2>6. Peers(s)'
    <3>1. sink'[s].peer # Entry(s)
      <4>1. PICK pick \in PickRec : /\ pick.peer = sink[s].peer
                                  /\ \E q \in Choices(Entry(s), pick, {From[s]}) : sink'[s] = Try(pick, q)
        <5>1. sink[s] \in PickRec /\ Reject(sink[s]) \in PickRec /\ Reject(sink[s]).peer = sink[s].peer
          BY <1>a, RejectType DEF TypeOK, Reject, PickRec
        <5>2. CASE AcceptSink(s)
          BY <1>a, <5>1, <5>2 DEF AcceptSink, TypeOK
        <5>3. CASE RetrySink(s)
          BY <1>a, <5>1, <5>3 DEF RetrySink, TypeOK
        <5> QED BY <1>2, <5>2, <5>3
      <4>2. PICK q \in Choices(Entry(s), pick, {From[s]}) : sink'[s] = Try(pick, q)
        BY <4>1
      <4>3. sink'[s].peer = q
        BY <4>2 DEF Try, PickRec
      <4>4. q # Entry(s)
        BY <1>a, <4>1 DEF Choices, Peers
      <4> QED BY <4>3, <4>4
    <3> QED BY <1>a, <1>e, <2>2, <3>1 DEF Peers, Entry, Access
  <2>7. session[<<Src(s, "sink")', s>>].later = "none"
    <3>1. Src(s, "sink")' = Entry(s) /\ Src(s, "sink") = Entry(s)
      BY DEF Src, Entry
    <3>2. CASE AcceptSink(s)
      <4>1. ~Ready(session[<<Entry(s), s>>])
        BY <3>2 DEF AcceptSink, Admissible
      <4> QED BY <1>c, <3>1, <4>1, CopyNotReady
    <3>3. CASE RetrySink(s)
      BY <1>a, <3>1, <3>3 DEF RetrySink, Room, Adding, Purposes
    <3> QED BY <1>2, <3>2, <3>3
  <2> QED BY <2>4, <2>5, <2>6, <2>7, StartKeeps DEF Purposes
<1> QED BY <1>1, <1>2

\* process_publish_request goes on with a stream to the remote client.
LEMMA AnswerStartKeeps ==
    ASSUME IInv, NEW s \in Sessions, AckInv(s), Decrypted(s)
    PROVE  AckInv(s)' /\ Moves(s)
<1> USE DEF callVars, readVars, nodeVars, hsVars, busVars, loopVars
<1>a. TypeOK /\ Order(s) /\ Chain(s) /\ Peers(s) /\ Copies(s)
  BY DEF IInv, AckInv
<1>b. Access(s) \in Servers /\ Access(s) \in Nodes /\ From[s] # Access(s)
  BY CircuitAssumption DEF Access, Nodes
<1>c. pc[<<s, "pub">>] = "decrypt"
  BY DEF Decrypted
<1>d. /\ call[<<s, "sink">>] = "done" /\ call[<<s, "answer">>] = "idle"
      /\ call[<<s, "relay">>] = "idle" /\ call[<<s, "expend">>] = "idle"
  BY <1>a, <1>c DEF Order
<1>e. call[<<s, "dial">>] = "done" /\ call[<<s, "direct">>] = "idle" /\ To[s] \in Registered
      /\ Entry(s) # Access(s)
  BY <1>a, <1>c, <1>d DEF Chain, IsDirect
<1>f. call' = [call EXCEPT ![<<s, "answer">>] = "opening"] /\ sink' = sink /\ relay' = relay
  BY DEF Decrypted
<1>1. \A p \in Purposes : Src(s, p)' = Src(s, p) /\ Dst(s, p)' = Dst(s, p)
  BY <1>f DEF Src, Dst, Purposes
<1>2. StartFrame(s, "answer")
  <2>1. UNCHANGED <<clone, handler, snap, session, down, acks, got>>
    BY DEF Decrypted
  <2>2. \A p \in Purposes \ {"answer"} : call[<<s, p>>] \in {"idle", "done"}
    BY <1>a, <1>d, <1>e, <1>f, <1>1 DEF Purposes
  <2> QED BY <2>1, <2>2, <1>a, <1>d, <1>e, <1>f, <1>1, Starts DEF Purposes
<1>3. Chain(s)'
  <2>1. /\ call'[<<s, "dial">>] = "done" /\ call'[<<s, "direct">>] = "idle"
        /\ call'[<<s, "sink">>] = "done" /\ call'[<<s, "relay">>] = "idle"
    BY <1>a, <1>d, <1>e, <1>f DEF TypeOK, Streams, Purposes
  <2>2. ~IsDirect(s)
    BY <1>a, <1>d DEF Chain
  <2> QED BY <1>e, <2>1, <2>2 DEF Chain, IsDirect, Entry, Access
<1>4. Peers(s)'
  BY <1>a, <1>f DEF Peers, Entry, Access
<1>5. Joined(Access(s), s) \subseteq {"sink"}
  <2>1. ASSUME NEW p \in Joined(Access(s), s), p # "sink" PROVE FALSE
    <3>1. p \in Purposes /\ call[<<s, p>>] \notin Unopened /\ Access(s) \in {Src(s, p), Dst(s, p)}
      BY JoinedEnds
    <3>2. p = "dial"
      BY <1>d, <1>e, <2>1, <3>1 DEF Purposes, Unopened
    <3> QED BY <1>b, <1>e, <3>1, <3>2 DEF Src, Dst
  <2> QED BY <2>1
<1>6. Src(s, "answer")' = Access(s)
  BY DEF Src, Access
<1>7. session[<<Access(s), s>>].later = "none"
  BY <1>a, <1>b, <1>5, CopyOne DEF Copies, CopiesAt
<1> QED BY <1>2, <1>3, <1>4, <1>6, <1>7, StartKeeps DEF Purposes

\* and then with one to a relay, which it may try again.
LEMMA RelayStartKeeps ==
    ASSUME IInv, NEW s \in Sessions, AckInv(s), PickRelay(s) \/ RetryRelay(s)
    PROVE  AckInv(s)' /\ Moves(s)
<1> USE DEF callVars, readVars, nodeVars, hsVars, busVars, loopVars
<1>a. TypeOK /\ Order(s) /\ Chain(s) /\ Peers(s) /\ Copies(s) /\ Room(s)
  BY DEF IInv, AckInv
<1>b. Access(s) \in Servers /\ Access(s) \in Nodes /\ From[s] # Access(s)
  BY CircuitAssumption DEF Access, Nodes
<1>c. pc[<<s, "pub">>] \in {"answer", "relay"}
  BY DEF PickRelay, RetryRelay
<1>d. /\ call[<<s, "answer">>] = "done" /\ sink[s].peer # Access(s)
      /\ call[<<s, "relay">>] \in {"idle", "failed"} /\ call[<<s, "expend">>] = "idle"
  BY <1>a DEF Order, Chain, PickRelay, RetryRelay
<1>e. /\ call[<<s, "sink">>] = "done" /\ call[<<s, "dial">>] = "done"
      /\ call[<<s, "direct">>] = "idle" /\ To[s] \in Registered /\ Entry(s) # Access(s)
  BY <1>a, <1>d DEF Chain, IsDirect
<1>f. call' = [call EXCEPT ![<<s, "relay">>] = "opening"] /\ sink' = sink
  BY DEF PickRelay, RetryRelay
<1>1. /\ \A p \in Purposes \ {"relay", "expend"} : Src(s, p)' = Src(s, p) /\ Dst(s, p)' = Dst(s, p)
      /\ call[<<s, "relay">>] \in Unopened /\ call[<<s, "expend">>] \in Unopened
  BY <1>d, <1>f DEF Src, Dst, Purposes, Unopened
<1>2. StartFrame(s, "relay")
  <2>1. UNCHANGED <<clone, handler, snap, session, down, acks, got>>
    BY DEF PickRelay, RetryRelay
  <2>2. \A p \in Purposes \ {"relay"} : call[<<s, p>>] \in {"idle", "done"}
    BY <1>a, <1>d, <1>e, <1>f, <1>1 DEF Purposes
  <2> QED BY <2>1, <2>2, <1>a, <1>d, <1>e, <1>f, <1>1, Starts DEF Purposes
<1>3. Chain(s)'
  <2>1. /\ call'[<<s, "dial">>] = "done" /\ call'[<<s, "direct">>] = "idle"
        /\ call'[<<s, "sink">>] = "done" /\ call'[<<s, "answer">>] = "done"
    BY <1>a, <1>d, <1>e, <1>f DEF TypeOK, Streams, Purposes
  <2>2. ~IsDirect(s)
    BY <1>a, <1>e DEF Chain
  <2> QED BY <1>d, <1>e, <1>f, <2>1, <2>2 DEF Chain, IsDirect, Entry, Access
<1>4. Peers(s)'
  <2>1. PICK pick \in PickRec : /\ pick.peer = relay[s].peer
                                /\ \E q \in Choices(Access(s), pick, NotAsRelay(s)) :
                                     relay'[s] = Try(pick, q)
    <3>1. relay[s] \in PickRec /\ Reject(relay[s]) \in PickRec /\ Reject(relay[s]).peer = relay[s].peer
      BY <1>a, RejectType DEF TypeOK, Reject, PickRec
    <3>2. CASE PickRelay(s)
      BY <1>a, <3>1, <3>2 DEF PickRelay, TypeOK
    <3>3. CASE RetryRelay(s)
      BY <1>a, <3>1, <3>3 DEF RetryRelay, TypeOK
    <3> QED BY <3>2, <3>3
  <2>2. PICK q \in Choices(Access(s), pick, NotAsRelay(s)) : relay'[s] = Try(pick, q)
    BY <2>1
  <2>3. relay'[s].peer = q /\ relay'[s].tries # 0
    BY <2>2, TryCounts DEF Try, PickRec
  <2>4. q # Access(s) /\ (q # NoPeer => q # sink[s].peer)
    BY <1>a, <2>1 DEF Choices, Peers, NotAsRelay
  <2> QED BY <1>a, <1>f, <2>3, <2>4 DEF Peers, Entry, Access
<1>5. Src(s, "relay")' = Access(s) /\ Src(s, "relay") = Access(s)
  BY DEF Src, Access
<1>6. session[<<Access(s), s>>].later = "none"
  <2>1. CASE PickRelay(s)
    <3>1. call[<<s, "relay">>] = "idle"
      BY <1>a, <2>1 DEF PickRelay, Order
    <3>2. ASSUME NEW p \in Joined(Access(s), s), p # "answer" PROVE FALSE
      <4>1. p \in Purposes /\ call[<<s, p>>] \notin Unopened /\ Access(s) \in {Src(s, p), Dst(s, p)}
        BY JoinedEnds
      <4>2. p \in {"dial", "sink"}
        BY <1>d, <1>e, <3>1, <3>2, <4>1 DEF Purposes, Unopened
      <4> QED BY <1>b, <1>d, <1>e, <4>1, <4>2 DEF Src, Dst
    <3>3. Joined(Access(s), s) \subseteq {"answer"}
      BY <3>2
    <3> QED BY <1>a, <1>b, <3>3, CopyOne DEF Copies, CopiesAt
  <2>2. CASE RetryRelay(s)
    BY <1>a, <1>5, <2>2 DEF RetryRelay, Room, Adding, Purposes
  <2> QED BY <2>1, <2>2
<1> QED BY <1>2, <1>3, <1>4, <1>5, <1>6, StartKeeps DEF Purposes

\* process_cmd_request extends the session from the relay to the sink.
LEMMA ExpendStartKeeps ==
    ASSUME IInv, NEW s \in Sessions, AckInv(s), Expend(s)
    PROVE  AckInv(s)' /\ Moves(s)
<1> USE DEF callVars, readVars, nodeVars, hsVars, busVars, loopVars
<1>a. TypeOK /\ Order(s) /\ Chain(s) /\ Peers(s) /\ Copies(s)
  BY DEF IInv, AckInv
<1>b. call[<<s, "expend">>] = "idle" /\ call[<<s, "relay">>] = "done"
  BY <1>a DEF Order, Expend, TakeExpend
<1>c. relay[s].peer \in Nodes
  BY <1>b DEF IInv, OpenedAt, Unopened, Dst, Purposes
<1>d. call[<<s, "answer">>] = "done" /\ sink[s].peer # Access(s)
  BY <1>a, <1>b DEF Chain
<1>e. /\ call[<<s, "sink">>] = "done" /\ call[<<s, "dial">>] = "done"
      /\ call[<<s, "direct">>] = "idle" /\ To[s] \in Registered
  BY <1>a, <1>d DEF Chain
<1>f. call' = [call EXCEPT ![<<s, "expend">>] = "opening"] /\ sink' = sink /\ relay' = relay
  BY DEF Expend
<1>1. \A p \in Purposes : Src(s, p)' = Src(s, p) /\ Dst(s, p)' = Dst(s, p)
  BY <1>f DEF Src, Dst, Purposes
<1>2. StartFrame(s, "expend")
  <2>1. UNCHANGED <<clone, handler, snap, session, down, acks, got>>
    BY DEF Expend
  <2>2. \A p \in Purposes \ {"expend"} : call[<<s, p>>] \in {"idle", "done"}
    BY <1>a, <1>b, <1>d, <1>e, <1>f, <1>1 DEF Purposes
  <2> QED BY <2>1, <2>2, <1>a, <1>b, <1>d, <1>e, <1>f, <1>1, Starts DEF Purposes
<1>3. Chain(s)'
  <2>1. /\ call'[<<s, "dial">>] = "done" /\ call'[<<s, "direct">>] = "idle"
        /\ call'[<<s, "sink">>] = "done" /\ call'[<<s, "answer">>] = "done"
    BY <1>a, <1>d, <1>e, <1>f DEF TypeOK, Streams, Purposes
  <2>2. ~IsDirect(s)
    BY <1>a, <1>e DEF Chain
  <2> QED BY <1>d, <1>e, <1>f, <2>1, <2>2 DEF Chain, IsDirect, Entry, Access
<1>4. Peers(s)'
  BY <1>a, <1>f DEF Peers, Entry, Access
<1>5. Src(s, "expend")' = relay[s].peer
  BY <1>f DEF Src
<1>6. ~Ready(session[<<relay[s].peer, s>>])
  BY DEF Expend
<1>7. session[<<relay[s].peer, s>>].later = "none"
  BY <1>a, <1>c, <1>6, CopyNotReady DEF Copies, CopiesAt
<1> QED BY <1>2, <1>3, <1>4, <1>5, <1>7, StartKeeps DEF Purposes

-----------------------------------------------------------------------------
(* The other steps of the clients, the loops and the environment.            *)

\* The ack of a request is not the ack of a stream.
LEMMA RequestAck ==
    ASSUME NEW t, NEW r \in Requests, NEW b, SendAck(<<t, r>>, b),
           NEW s, NEW p \in Purposes, <<<<s, p>>, TRUE>> \in acks'
    PROVE  <<<<s, p>>, TRUE>> \in acks
<1>1. p # r
  BY DEF Purposes, Requests
<1>2. <<s, p>> # <<t, r>>
  BY <1>1
<1>3. <<<<s, p>>, TRUE>> # <<<<t, r>>, b>>
  BY <1>2, Zenon
<1> QED BY <1>3, Zenon DEF SendAck

\* A step outside new_session_to_peer and relay_event_handler that starts no call
\* of session s, and at most closes a session or breaks a stream.
Aside(s) ==
    /\ UNCHANGED <<clone, handler, snap, got>>
    /\ sink'[s] = sink[s] /\ relay'[s] = relay[s]
    /\ \A p \in Purposes : call'[<<s, p>>] = call[<<s, p>>]
    /\ \A p \in Purposes : <<<<s, p>>, TRUE>> \in acks' => <<<<s, p>>, TRUE>> \in acks
    /\ \/ session' = session /\ down \subseteq down'
       \/ \E n \in Nodes, t \in Sessions : CloseSession(n, t)
    /\ <<s, "NewCircuit">> \in asked' => <<s, "NewCircuit">> \in asked \/ call[<<s, "dial">>] = "done"
    /\ pc'[<<s, "pub">>] # "idle" => pc[<<s, "pub">>] # "idle" \/ To[s] \in Registered

\* Such a step keeps the invariant.
LEMMA AsideKeeps ==
    ASSUME IInv, NEW s \in Sessions, AckInv(s), Aside(s)
    PROVE  AckInv(s)' /\ Moves(s)
<1>1. \A p \in Purposes : AckSeen(s, p)' => AckSeen(s, p)
  <2>1. ASSUME NEW p \in Purposes, AckSeen(s, p)' PROVE AckSeen(s, p)
    <3>1. <<<<s, p>>, TRUE>> \in acks' \/ <<<<s, p>>, TRUE>> \in got'
      BY <2>1, Zenon DEF AckSeen
    <3>2. <<<<s, p>>, TRUE>> \in acks \/ <<<<s, p>>, TRUE>> \in got
      BY <3>1 DEF Aside
    <3> QED BY <3>2, Zenon DEF AckSeen
  <2> QED BY <2>1
<1>2. \A p \in Purposes : Acked(<<s, p>>, TRUE) => Acked(<<s, p>>, TRUE)'
  BY DEF Aside, Acked
<1>3. /\ \A m \in Nodes :
           \/ session'[<<m, s>>] = session[<<m, s>>]
           \/ /\ session'[<<m, s>>] = NoSession
              /\ \A p \in Legs(session[<<m, s>>]) : <<s, p>> \in down'
      /\ \A p \in Purposes : <<s, p>> \in down => <<s, p>> \in down'
  <2>1. CASE session' = session /\ down \subseteq down'
    BY <2>1
  <2>2. CASE \E n \in Nodes, t \in Sessions : CloseSession(n, t)
    BY <2>2, CloseStill DEF IInv
  <2> QED BY <2>1, <2>2 DEF Aside
<1>4. \A p \in Purposes :
         /\ handler'[<<s, p, "dst">>] = handler[<<s, p, "dst">>]
         /\ snap'[<<s, p, "dst">>] = snap[<<s, p, "dst">>]
         /\ handler'[<<s, p, "src">>] = handler[<<s, p, "src">>]
  BY DEF Aside
<1>5. \A p \in Purposes : Landed(s, p) => Landed(s, p)'
  BY <1>4 DEF Landed
<1>6. Still(s)
  BY <1>1, <1>2, <1>3, <1>4, <1>5 DEF Still, Aside
<1> QED BY <1>6, StillKeeps DEF Moves

\* The delivery of an ack takes it from the network to its waiter, or drops it.
LEMMA RecvKeeps ==
    ASSUME IInv, NEW s \in Sessions, AckInv(s), NEW k, NEW b, RecvAck(k, b)
    PROVE  AckInv(s)' /\ Moves(s)
<1>1. acks' \cup got' \subseteq acks \cup got /\ got \subseteq got'
  <2>1. CASE k \in bus
    BY <2>1, Zenon DEF RecvAck
  <2>2. CASE k \notin bus
    BY <2>2, Zenon DEF RecvAck
  <2> QED BY <2>1, <2>2
<1>2. \A p \in Purposes : AckSeen(s, p)' => AckSeen(s, p)
  BY <1>1, Zenon DEF AckSeen
<1>3. \A p \in Purposes : Acked(<<s, p>>, TRUE) => Acked(<<s, p>>, TRUE)'
  BY <1>1, Zenon DEF Acked
<1>4. UNCHANGED <<call, clone, handler, snap, down, session, asked, pc, sink, relay>>
  BY DEF RecvAck
<1>5. Still(s)
  BY <1>2, <1>3, <1>4 DEF Still, Landed
<1> QED BY <1>5, StillKeeps DEF Moves

\* The clients' and the environment's own steps keep the invariant.
LEMMA ClientKeeps ==
    ASSUME IInv, NEW s \in Sessions, AckInv(s), NEW t \in Sessions,
           \/ Dial(t)
           \/ \E c \in Clients : Handshake(c, t) \/ HangUp(c, t)
           \/ \E r \in Requests : ClientReply(t, r)
           \/ \E p \in Purposes : BreakStream(t, p)
    PROVE  AckInv(s)' /\ Moves(s)
<1> USE DEF callVars, readVars, nodeVars, hsVars, busVars, loopVars
<1>a. TypeOK
  BY DEF IInv
<1>1. CASE DialStart(t)
  <2>1. CASE s = t
    BY <1>1, <2>1, DialStartKeeps
  <2>2. CASE s # t
    <3>1. \A p \in Purposes : call'[<<s, p>>] = call[<<s, p>>]
      BY <1>a, <1>1, <2>2 DEF DialStart, TypeOK, Streams
    <3>2. pc'[<<s, "pub">>] = pc[<<s, "pub">>]
      BY <1>a, <1>1, <2>2 DEF DialStart, TypeOK, Tasks
    <3>3. UNCHANGED <<clone, handler, snap, got, sink, relay, acks, session, down, asked>>
      BY <1>1 DEF DialStart
    <3> QED BY <3>1, <3>2, <3>3, AsideKeeps DEF Aside
  <2> QED BY <2>1, <2>2
<1>2. CASE DialCircuit(t) \/ DialPanic(t) \/ DialReturn(t)
  <2>1. pc'[<<s, "pub">>] = pc[<<s, "pub">>]
    BY <1>a, <1>2 DEF DialCircuit, DialPanic, DialReturn, TypeOK, Tasks
  <2>2. UNCHANGED <<call, clone, handler, snap, got, sink, relay, acks, session, down>>
    BY <1>2 DEF DialCircuit, DialPanic, DialReturn
  <2>3. <<s, "NewCircuit">> \in asked' => <<s, "NewCircuit">> \in asked \/ call[<<s, "dial">>] = "done"
    BY <1>2 DEF DialCircuit, DialPanic, DialReturn, AskAndWait
  <2> QED BY <2>1, <2>2, <2>3, AsideKeeps DEF Aside
<1>3. CASE \E c \in Clients : Handshake(c, t)
  <2>1. UNCHANGED <<call, clone, handler, snap, got, sink, relay, acks, session, down, asked, pc>>
    BY <1>3 DEF Handshake, ReadHandshake, FinishHandshake
  <2> QED BY <2>1, AsideKeeps DEF Aside
<1>4. CASE \E c \in Clients : HangUp(c, t)
  <2>1. PICK c \in Clients : HangUp(c, t)
    BY <1>4
  <2>2. c \in Nodes /\ CloseSession(c, t)
    BY <2>1 DEF HangUp, Nodes
  <2>3. UNCHANGED <<call, clone, handler, snap, got, sink, relay, acks, asked, pc>>
    BY <2>1 DEF HangUp
  <2> QED BY <2>2, <2>3, AsideKeeps DEF Aside
<1>5. ASSUME NEW r \in Requests, ClientReply(t, r) PROVE AckInv(s)' /\ Moves(s)
  <2>1. UNCHANGED <<call, clone, handler, snap, got, sink, relay, session, down, pc>>
    BY <1>5 DEF ClientReply
  <2>2. \A p \in Purposes : <<<<s, p>>, TRUE>> \in acks' => <<<<s, p>>, TRUE>> \in acks
    BY <1>5, RequestAck DEF ClientReply
  <2>3. asked' \subseteq asked
    BY <1>5 DEF ClientReply
  <2> QED BY <2>1, <2>2, <2>3, AsideKeeps DEF Aside
<1>6. CASE \E p \in Purposes : BreakStream(t, p)
  <2>1. UNCHANGED <<call, clone, handler, snap, got, sink, relay, acks, session, asked, pc>>
    BY <1>6 DEF BreakStream
  <2>2. down \subseteq down'
    BY <1>6 DEF BreakStream
  <2> QED BY <2>1, <2>2, AsideKeeps DEF Aside
<1> QED BY <1>1, <1>2, <1>3, <1>4, <1>5, <1>6 DEF Dial

\* handle_new_circuit keeps the invariant.
LEMMA EntryKeeps ==
    ASSUME IInv, NEW s \in Sessions, AckInv(s), NEW t \in Sessions, EntryLoop(t)
    PROVE  AckInv(s)' /\ Moves(s)
<1> USE DEF callVars, readVars, nodeVars, hsVars, busVars, loopVars
<1>a. TypeOK
  BY DEF IInv
<1>b. "NewCircuit" \in Requests
  BY DEF Requests
<1>1. CASE s = t /\ (AcceptDirect(t) \/ AcceptSink(t) \/ RetrySink(t))
  BY <1>1, EntryStartKeeps
<1>2. CASE s # t /\ (AcceptDirect(t) \/ AcceptSink(t) \/ RetrySink(t))
  <2>1. \A p \in Purposes : call'[<<s, p>>] = call[<<s, p>>]
    BY <1>a, <1>2 DEF AcceptDirect, AcceptSink, RetrySink, TypeOK, Streams
  <2>2. pc'[<<s, "pub">>] = pc[<<s, "pub">>]
    BY <1>a, <1>2 DEF AcceptDirect, AcceptSink, RetrySink, TypeOK, Tasks
  <2>3. UNCHANGED <<clone, handler, snap, got, relay, acks, session, down>>
    BY <1>2 DEF AcceptDirect, AcceptSink, RetrySink
  <2>4. sink'[s] = sink[s] /\ asked' \subseteq asked
    BY <1>a, <1>2 DEF AcceptDirect, AcceptSink, RetrySink, TakeNewCircuit, TypeOK
  <2> QED BY <2>1, <2>2, <2>3, <2>4, AsideKeeps DEF Aside
<1>3. CASE RefuseCircuit(t) \/ DirectDone(t) \/ DirectFailed(t) \/ GiveUpSink(t) \/ SendProbe(t)
  <2>1. UNCHANGED <<call, clone, handler, snap, got, sink, relay>>
    BY <1>3 DEF RefuseCircuit, DirectDone, DirectFailed, GiveUpSink, SendProbe
  <2>2. pc'[<<s, "pub">>] = pc[<<s, "pub">>]
    BY <1>a, <1>3 DEF RefuseCircuit, DirectDone, DirectFailed, GiveUpSink, SendProbe, TypeOK, Tasks
  <2>3. asked' \subseteq asked
    BY <1>3 DEF RefuseCircuit, TakeNewCircuit, DirectDone, DirectFailed, GiveUpSink, SendProbe
  <2>4. PICK b : SendAck(<<t, "NewCircuit">>, b)
    BY <1>3, Zenon DEF RefuseCircuit, DirectDone, DirectFailed, GiveUpSink, SendProbe
  <2>5. \A p \in Purposes : <<<<s, p>>, TRUE>> \in acks' => <<<<s, p>>, TRUE>> \in acks
    BY <1>b, <2>4, RequestAck
  <2>6. \/ session' = session /\ down \subseteq down'
        \/ \E n \in Nodes, u \in Sessions : CloseSession(n, u)
    <3>1. Entry(t) \in Nodes
      BY CircuitAssumption DEF Entry, Nodes
    <3> QED BY <1>3, <3>1 DEF RefuseCircuit, DirectDone, DirectFailed, GiveUpSink, SendProbe
  <2> QED BY <2>1, <2>2, <2>3, <2>5, <2>6, AsideKeeps DEF Aside
<1>4. CASE SinkDone(t) \/ Publish(t)
  <2>1. UNCHANGED <<call, clone, handler, snap, got, sink, relay, acks, session, down>>
    BY <1>4 DEF SinkDone, Publish
  <2>2. pc'[<<s, "pub">>] # "idle" => pc[<<s, "pub">>] # "idle" \/ To[s] \in Registered
    BY <1>a, <1>4 DEF SinkDone, Publish, TypeOK, Tasks
  <2>3. <<s, "NewCircuit">> \in asked' => <<s, "NewCircuit">> \in asked
    <3>1. asked' \subseteq asked \cup {<<t, "NegPlainText">>}
      BY <1>4 DEF SinkDone, Publish, AskAndWait
    <3>2. <<s, "NewCircuit">> # <<t, "NegPlainText">>
      OBVIOUS
    <3> QED BY <3>1, <3>2
  <2> QED BY <2>1, <2>2, <2>3, AsideKeeps DEF Aside
<1> QED BY <1>1, <1>2, <1>3, <1>4 DEF EntryLoop

\* process_publish_request keeps the invariant.
LEMMA AccessKeeps ==
    ASSUME IInv, NEW s \in Sessions, AckInv(s), NEW t \in Sessions, AccessLoop(t)
    PROVE  AckInv(s)' /\ Moves(s)
<1> USE DEF callVars, readVars, nodeVars, hsVars, busVars, loopVars
<1>a. TypeOK
  BY DEF IInv
<1>1. CASE s = t /\ (Decrypted(t) \/ PickRelay(t) \/ RetryRelay(t))
  BY <1>1, AnswerStartKeeps, RelayStartKeeps
<1>2. CASE s # t /\ (Decrypted(t) \/ PickRelay(t) \/ RetryRelay(t))
  <2>1. \A p \in Purposes : call'[<<s, p>>] = call[<<s, p>>]
    BY <1>a, <1>2 DEF Decrypted, PickRelay, RetryRelay, TypeOK, Streams
  <2>2. pc'[<<s, "pub">>] = pc[<<s, "pub">>]
    BY <1>a, <1>2 DEF Decrypted, PickRelay, RetryRelay, TypeOK, Tasks
  <2>3. UNCHANGED <<clone, handler, snap, got, sink, acks, session, down, asked>>
    BY <1>2 DEF Decrypted, PickRelay, RetryRelay
  <2>4. relay'[s] = relay[s]
    BY <1>a, <1>2 DEF Decrypted, PickRelay, RetryRelay, TypeOK
  <2> QED BY <2>1, <2>2, <2>3, <2>4, AsideKeeps DEF Aside
<1>3. CASE AskDecrypt(t) \/ SinkIsAccess(t) \/ AskExpend(t) \/ ExpendDone(t) \/ GiveUpPub(t)
  <2>1. UNCHANGED <<call, clone, handler, snap, got, sink, relay, acks>>
    BY <1>3 DEF AskDecrypt, SinkIsAccess, AskExpend, ExpendDone, GiveUpPub
  <2>2. pc'[<<s, "pub">>] # "idle" => pc[<<s, "pub">>] # "idle"
    BY <1>a, <1>3 DEF AskDecrypt, SinkIsAccess, AskExpend, ExpendDone, GiveUpPub, PubFailed,
         TypeOK, Tasks
  <2>3. <<s, "NewCircuit">> \in asked' => <<s, "NewCircuit">> \in asked
    <3>1. asked' \subseteq asked \cup {<<t, "DecryptGossip">>, <<t, "SessionExpend">>}
      BY <1>3 DEF AskDecrypt, SinkIsAccess, AskExpend, ExpendDone, GiveUpPub, AskAndWait
    <3>2. <<s, "NewCircuit">> # <<t, "DecryptGossip">> /\ <<s, "NewCircuit">> # <<t, "SessionExpend">>
      OBVIOUS
    <3> QED BY <3>1, <3>2
  <2>4. \/ session' = session /\ down \subseteq down'
        \/ \E n \in Nodes, u \in Sessions : CloseSession(n, u)
    <3>1. Access(t) \in Nodes
      BY CircuitAssumption DEF Access, Nodes
    <3> QED BY <1>3, <3>1 DEF AskDecrypt, SinkIsAccess, AskExpend, ExpendDone, GiveUpPub
  <2> QED BY <2>1, <2>2, <2>3, <2>4, AsideKeeps DEF Aside
<1> QED BY <1>1, <1>2, <1>3 DEF AccessLoop

\* process_cmd_request keeps the invariant.
LEMMA RelayKeeps ==
    ASSUME IInv, NEW s \in Sessions, AckInv(s), NEW t \in Sessions, RelayLoop(t)
    PROVE  AckInv(s)' /\ Moves(s)
<1> USE DEF callVars, readVars, nodeVars, hsVars, busVars, loopVars
<1>a. TypeOK
  BY DEF IInv
<1>b. "SessionExpend" \in Requests
  BY DEF Requests
<1>1. CASE Expend(t)
  <2>1. CASE s = t
    BY <1>1, <2>1, ExpendStartKeeps
  <2>2. CASE s # t
    <3>1. \A p \in Purposes : call'[<<s, p>>] = call[<<s, p>>]
      BY <1>a, <1>1, <2>2 DEF Expend, TypeOK, Streams
    <3>2. pc'[<<s, "pub">>] = pc[<<s, "pub">>]
      BY <1>a, <1>1, <2>2 DEF Expend, TypeOK, Tasks
    <3>3. UNCHANGED <<clone, handler, snap, got, sink, relay, acks, session, down>>
      BY <1>1 DEF Expend
    <3>4. asked' \subseteq asked
      BY <1>1 DEF Expend, TakeExpend
    <3> QED BY <3>1, <3>2, <3>3, <3>4, AsideKeeps DEF Aside
  <2> QED BY <2>1, <2>2
<1>2. CASE NoSuchSession(t) \/ RelayIsEntry(t) \/ ExpendOpened(t) \/ ExpendFailed(t)
  <2>1. UNCHANGED <<call, clone, handler, snap, got, sink, relay>>
    BY <1>2 DEF NoSuchSession, RelayIsEntry, ExpendOpened, ExpendFailed
  <2>2. pc'[<<s, "pub">>] = pc[<<s, "pub">>]
    BY <1>a, <1>2 DEF NoSuchSession, RelayIsEntry, ExpendOpened, ExpendFailed, TypeOK, Tasks
  <2>3. asked' \subseteq asked
    BY <1>2 DEF NoSuchSession, RelayIsEntry, ExpendOpened, ExpendFailed, TakeExpend
  <2>4. PICK b : SendAck(<<t, "SessionExpend">>, b)
    BY <1>2, Zenon DEF NoSuchSession, RelayIsEntry, ExpendOpened, ExpendFailed
  <2>5. \A p \in Purposes : <<<<s, p>>, TRUE>> \in acks' => <<<<s, p>>, TRUE>> \in acks
    BY <1>b, <2>4, RequestAck
  <2>6. \/ session' = session /\ down \subseteq down'
        \/ \E n \in Nodes, u \in Sessions : CloseSession(n, u)
    <3>1. relay[t].peer \in Nodes
      BY <1>2, RelayIsNode DEF NoSuchSession, RelayIsEntry, ExpendOpened, ExpendFailed, TakeExpend
    <3> QED BY <1>2, <3>1 DEF NoSuchSession, RelayIsEntry, ExpendOpened, ExpendFailed
  <2> QED BY <2>1, <2>2, <2>3, <2>5, <2>6, AsideKeeps DEF Aside
<1> QED BY <1>1, <1>2 DEF RelayLoop

-----------------------------------------------------------------------------
(* The theorem.                                                              *)

\* The invariant holds before anybody has dialled.
LEMMA AckInvInit ==
    ASSUME Init, NEW s \in Sessions
    PROVE  AckInv(s)
<1>a. Entry(s) \in Servers /\ Access(s) \in Servers
  BY CircuitAssumption DEF Entry, Access
<1>b. Entry(s) # NoPeer /\ Access(s) # NoPeer
  BY <1>a, CircuitAssumption DEF Nodes
<1>1. \A p \in Purposes :
        /\ call[<<s, p>>] = "idle" /\ clone[<<s, p>>] = NoSession
        /\ handler[<<s, p, "src">>] = "off" /\ handler[<<s, p, "dst">>] = "off"
  BY DEF Init, Streams, Ends
<1>2. \A p \in Purposes : ~AckSeen(s, p) /\ ~Landed(s, p)
  BY <1>1 DEF AckSeen, Landed, Early, Init
<1>3. Chain(s)
  <2>1. pc[<<s, "pub">>] = "idle" /\ asked = {}
    BY DEF Init, Tasks
  <2>2. /\ call[<<s, "direct">>] = "idle" /\ call[<<s, "sink">>] = "idle"
        /\ call[<<s, "answer">>] = "idle" /\ call[<<s, "relay">>] = "idle"
    BY <1>1 DEF Purposes
  <2> QED BY <2>1, <2>2 DEF Chain
<1>4. Peers(s)
  BY <1>b DEF Peers, Init, NoPick
<1>5. Acks(s)
  BY <1>1, <1>2 DEF Acks, AfterAck
<1>6. ASSUME NEW n \in Nodes PROVE CopiesAt(n, s)
  <2>1. session[<<n, s>>] = NoSession
    BY DEF Init
  <2>2. Owed(n, s) = {}
    BY <1>2 DEF Owed
  <2>3. Copy(session[<<n, s>>], Joined(n, s), Owed(n, s))
    BY <2>1, <2>2, CopyNone
  <2> QED BY <1>1, <2>3 DEF CopiesAt
<1>7. Room(s)
  BY <1>1 DEF Room, Adding
<1>8. EntryRole(s)
  <2>1. Entry(s) \in Nodes
    BY <1>a DEF Nodes
  <2>2. session[<<Entry(s), s>>] = NoSession
    BY <2>1 DEF Init
  <2>3. clone[<<s, "sink">>] = NoSession /\ handler[<<s, "relay", "dst">>] = "off"
    BY <1>1 DEF Purposes
  <2> QED BY <2>2, <2>3 DEF EntryRole, NoSession
<1> QED BY <1>3, <1>4, <1>5, <1>6, <1>7, <1>8 DEF AckInv, Copies

\* Every step keeps it, for every session.
LEMMA AckInvStep ==
    ASSUME IInv, NEW s \in Sessions, AckInv(s), [Next]_vars
    PROVE  AckInv(s)'
<1>1. CASE UNCHANGED vars
  <2>1. Aside(s)
    BY <1>1 DEF vars, Aside
  <2> QED BY <2>1, AsideKeeps
<1>2. CASE System
  <2>1. CASE \E k \in Keys, b \in BOOLEAN : RecvAck(k, b)
    BY <2>1, RecvKeeps
  <2>2. CASE \E t \in Sessions, p \in Purposes : Call(t, p)
    BY <2>2, CallKeeps
  <2>3. CASE \E e \in Ends : Handle(e)
    BY <2>3, HandleKeeps
  <2>4. CASE \E t \in Sessions : \/ Dial(t)
                                 \/ \E c \in Clients : Handshake(c, t)
                                 \/ \E r \in Requests : ClientReply(t, r)
    BY <2>4, ClientKeeps
  <2>5. CASE \E t \in Sessions : EntryLoop(t) \/ AccessLoop(t) \/ RelayLoop(t)
    BY <2>5, EntryKeeps, AccessKeeps, RelayKeeps
  <2> QED BY <1>2, <2>1, <2>2, <2>3, <2>4, <2>5 DEF System
<1>3. CASE Environment
  BY <1>3, ClientKeeps DEF Environment
<1> QED BY <1>1, <1>2, <1>3 DEF Next

\* An ack of SetSession means what it says, whatever fails: once handle_set_session
\* has acked a stream, no late write of a cloned session drops the stream from the
\* session of that node, and closing the session closes the stream too.
THEOREM AckMeansRecordedHolds == Spec => []AckMeansRecorded
<1> DEFINE Inv == IInv /\ \A s \in Sessions : AckInv(s)
<1>1. Init => Inv
  BY IInvInit, AckInvInit
<1>2. Inv /\ [Next]_vars => Inv'
  BY IInvStep, AckInvStep
<1>3. Inv => AckMeansRecorded
  <2> SUFFICES ASSUME Inv, NEW s \in Sessions, NEW p \in Purposes,
                      <<<<s, p>>, TRUE>> \in acks \cup got, <<s, p>> \notin down
               PROVE  p \in Legs(session[<<Dst(s, p), s>>])
    BY DEF AckMeansRecorded
  <2>1. AckSeen(s, p) /\ Acks(s) /\ Copies(s)
    BY DEF AckSeen, AckInv
  <2>2. Landed(s, p)
    BY <2>1 DEF Acks
  <2>3. Dst(s, p) \in Nodes
    BY <2>2 DEF IInv, OpenedAt, Landed, Early
  <2>4. p \in Owed(Dst(s, p), s)
    BY <2>1 DEF Owed
  <2> QED BY <2>1, <2>3, <2>4 DEF Copies, CopiesAt, Copy
<1> QED BY <1>1, <1>2, <1>3, PTL DEF Spec
=============================================================================
