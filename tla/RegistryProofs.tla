--------------------------- MODULE RegistryProofs ---------------------------
(* The two maps of a proxy agree, and it forgets the clients that have left,  *)
(* for any clients and servers and any number of restarts, calls and dials.   *)
EXTENDS Registry, QueueLemmas

Steps == {"next", "insert", "remove", "joining", "asking", "stuck"}

MapTypes ==
    /\ queue \in [Servers -> Seq(Kinds \X Clients)]
    /\ step \in [Servers -> Steps]
    /\ peerMap \in [Servers -> SUBSET Clients]
    /\ wnMap \in [Servers -> SUBSET Clients]

\* The request that the loop is in the middle of is at the head of the queue, and
\* the first of its two map operations is done.
HalfDone(s) ==
    /\ step[s] = "insert" => \E c \in Clients :
          queue[s] # <<>> /\ Head(queue[s]) = <<"NewProxy", c>> /\ c \in peerMap[s]
    /\ step[s] = "remove" => \E c \in Clients :
          queue[s] # <<>> /\ Head(queue[s]) = <<"Disconnect", c>> /\ c \notin peerMap[s]

Agree(s) == \A c \in Clients :
    \/ c \in peerMap[s] <=> c \in wnMap[s]
    \/ step[s] = "insert" /\ Head(queue[s]) = <<"NewProxy", c>>
    \/ step[s] = "remove" /\ Head(queue[s]) = <<"Disconnect", c>>

MapInv == MapTypes /\ \A s \in Servers : HalfDone(s) /\ Agree(s)

\* The maps of a new proxy are empty, and agree.
LEMMA MapInitOK == Init => MapInv
BY DEF Init, MapInv, MapTypes, Steps, HalfDone, Agree, Kinds

\* A request that is added to a queue does not change the one at its head.
LEMMA HeadOfAppend ==
    ASSUME NEW S, NEW q \in Seq(S), NEW x \in S, q # <<>>
    PROVE  Append(q, x) # <<>> /\ Head(Append(q, x)) = Head(q)
OBVIOUS

\* The swarm may add a request to a queue at any moment: the loop is not disturbed.
LEMMA AppendOK ==
    ASSUME MapInv, NEW t \in Servers, NEW x \in Kinds \X Clients,
           queue' = [queue EXCEPT ![t] = Append(@, x)],
           UNCHANGED <<step, peerMap, wnMap>>
    PROVE  MapInv'
<1> USE DEF MapInv
<1>1. MapTypes'
  BY DEF MapTypes
<1>2. ASSUME NEW s \in Servers PROVE HalfDone(s)' /\ Agree(s)'
  <2>1. queue[s] \in Seq(Kinds \X Clients)
    BY DEF MapTypes
  <2>2. queue[s] # <<>> => queue'[s] # <<>> /\ Head(queue'[s]) = Head(queue[s])
    BY <2>1, HeadOfAppend DEF MapTypes
  <2>3. HalfDone(s)'
    BY <2>2 DEF HalfDone
  <2>4. Agree(s)'
    BY <2>2 DEF HalfDone, Agree
  <2> QED
    BY <2>3, <2>4
<1> QED
  BY <1>1, <1>2

\* A step that changes no map and no queue, and step only from asking to stuck.
LEMMA KeepOK ==
    ASSUME MapInv, UNCHANGED <<queue, peerMap, wnMap>>,
           step' \in [Servers -> Steps],
           \A s \in Servers : step'[s] = step[s] \/ step'[s] \notin {"insert", "remove"},
           \A s \in Servers : step'[s] # step[s] => step[s] \notin {"insert", "remove"}
    PROVE  MapInv'
<1> USE DEF MapInv
<1>1. MapTypes'
  BY DEF MapTypes
<1>2. ASSUME NEW s \in Servers PROVE HalfDone(s)' /\ Agree(s)'
  <2>1. HalfDone(s)'
    BY DEF HalfDone
  <2>2. Agree(s)'
    BY DEF Agree
  <2> QED
    BY <2>1, <2>2
<1> QED
  BY <1>1, <1>2

\* A request that is dealt with leaves the queue, if the maps agree by then.
LEMMA DoneOK ==
    ASSUME MapInv, NEW t \in Servers, queue[t] # <<>>, Done(t),
           peerMap' \in [Servers -> SUBSET Clients], wnMap' \in [Servers -> SUBSET Clients],
           \A s \in Servers \ {t} : peerMap'[s] = peerMap[s] /\ wnMap'[s] = wnMap[s],
           peerMap'[t] = wnMap'[t]
    PROVE  MapInv'
<1> USE DEF MapInv
<1>1. MapTypes'
  <2>1. queue[t] \in Seq(Kinds \X Clients)
    BY DEF MapTypes
  <2>2. Tail(queue[t]) \in Seq(Kinds \X Clients)
    BY <2>1
  <2> QED
    BY <2>2 DEF MapTypes, Done, Steps
<1>2. step'[t] = "next" /\ \A s \in Servers \ {t} : step'[s] = step[s] /\ queue'[s] = queue[s]
  BY DEF Done, MapTypes
<1>3. ASSUME NEW s \in Servers PROVE HalfDone(s)' /\ Agree(s)'
  <2>1. CASE s = t
    BY <2>1, <1>2 DEF HalfDone, Agree
  <2>2. CASE s # t
    BY <2>2, <1>2 DEF HalfDone, Agree
  <2> QED
    BY <2>1, <2>2
<1> QED
  BY <1>1, <1>3

-----------------------------------------------------------------------------
(* One lemma for the loop of a proxy, one for everybody else.                 *)

\* process_proxy_request keeps the agreement of the maps, lock by lock.
LEMMA ProxyLoopOK ==
    ASSUME MapInv, NEW t \in Servers, ProxyLoop(t)
    PROVE  MapInv'
<1> USE DEF MapInv
<1> PICK c \in Clients :
      \/ RefuseProxy(t, c) \/ InsertPeer(t, c) \/ InsertWn(t, c) \/ RemovePeer(t, c)
      \/ RemoveWn(t, c) \/ CircuitFails(t, c) \/ UnknownCaller(t, c) \/ Join(t, c)
      \/ JoinHangs(t, c) \/ CalleeJoined(t, c) \/ SinkJoined(t, c) \/ NegAcked(t, c)
  BY DEF ProxyLoop
<1>1. queue[t] # <<>>
  BY DEF RefuseProxy, InsertPeer, InsertWn, RemovePeer, RemoveWn, Join, JoinHangs,
         SinkJoined,
         CircuitFails, UnknownCaller, CalleeJoined, NegAcked, Current
<1>2. step[t] \notin {"insert", "remove"} => peerMap[t] = wnMap[t]
  BY DEF Agree, MapTypes
<1>3. ASSUME step[t] \notin {"insert", "remove"}, Done(t), UNCHANGED <<peerMap, wnMap>>
      PROVE  MapInv'
  BY <1>1, <1>2, <1>3, DoneOK DEF MapTypes
<1>4. CASE RefuseProxy(t, c)
  BY <1>4, <1>3 DEF RefuseProxy
<1>5. CASE UnknownCaller(t, c)
  BY <1>5, <1>3 DEF UnknownCaller
<1>13. CASE CircuitFails(t, c)
  BY <1>13, <1>3 DEF CircuitFails
<1>6. CASE CalleeJoined(t, c)
  BY <1>6, <1>3 DEF CalleeJoined
<1>7. CASE NegAcked(t, c)
  BY <1>7, <1>3 DEF NegAcked
<1>8. CASE Join(t, c) \/ JoinHangs(t, c) \/ SinkJoined(t, c)
  <2>0. PICK x \in {"joining", "asking", "stuck"} : step' = [step EXCEPT ![t] = x]
    BY <1>8 DEF Join, JoinHangs, SinkJoined, Awaiting
  <2>1. step' \in [Servers -> Steps] /\ step[t] \in {"next", "joining"}
        /\ step'[t] \in {"joining", "asking", "stuck"}
    BY <1>8, <2>0 DEF Join, JoinHangs, SinkJoined, MapTypes, Steps
  <2>2. \A s \in Servers : s # t => step'[s] = step[s]
    BY <2>0 DEF MapTypes
  <2>3. UNCHANGED <<queue, peerMap, wnMap>>
    BY <1>8 DEF Join, JoinHangs, SinkJoined
  <2> QED
    BY <2>1, <2>2, <2>3, KeepOK
<1>9. CASE InsertPeer(t, c)
  <2>1. /\ Head(queue[t]) = <<"NewProxy", c>>
        /\ step[t] = "next" /\ step' = [step EXCEPT ![t] = "insert"]
        /\ peerMap' = [peerMap EXCEPT ![t] = @ \cup {c}]
        /\ UNCHANGED <<queue, wnMap>>
    BY <1>9 DEF InsertPeer, Current
  <2>2. MapTypes'
    BY <2>1 DEF MapTypes, Steps
  <2>3. ASSUME NEW s \in Servers PROVE HalfDone(s)' /\ Agree(s)'
    <3>1. CASE s = t
      BY <2>1, <3>1, <1>1, <1>2 DEF HalfDone, Agree, MapTypes
    <3>2. CASE s # t
      BY <2>1, <3>2 DEF HalfDone, Agree, MapTypes
    <3> QED
      BY <3>1, <3>2
  <2> QED
    BY <2>2, <2>3
<1>10. CASE InsertWn(t, c)
  <2>1. /\ step[t] = "insert" /\ Head(queue[t]) = <<"NewProxy", c>> /\ Done(t)
        /\ wnMap' = [wnMap EXCEPT ![t] = @ \cup {c}] /\ UNCHANGED peerMap
    BY <1>10 DEF InsertWn, Current
  <2>2. c \in peerMap[t]
    BY <2>1 DEF HalfDone
  <2>3. \A d \in Clients : d # c => (d \in peerMap[t] <=> d \in wnMap[t])
    BY <2>1 DEF Agree
  <2>4. peerMap'[t] = wnMap'[t]
    BY <2>1, <2>2, <2>3 DEF MapTypes
  <2> QED
    BY <2>1, <2>4, <1>1, DoneOK DEF MapTypes
<1>11. CASE RemovePeer(t, c)
  <2>1. /\ step[t] = "next" /\ Head(queue[t]) = <<"Disconnect", c>>
        /\ peerMap' = [peerMap EXCEPT ![t] = @ \ {c}] /\ UNCHANGED wnMap
    BY <1>11 DEF RemovePeer, Current
  <2>2. CASE c \notin peerMap[t]
    <3>1. Done(t) /\ peerMap'[t] = wnMap'[t]
      BY <1>11, <2>1, <2>2, <1>2 DEF RemovePeer, MapTypes
    <3> QED
      BY <2>1, <3>1, <1>1, DoneOK DEF MapTypes
  <2>3. CASE c \in peerMap[t]
    <3>1. step' = [step EXCEPT ![t] = "remove"] /\ UNCHANGED queue
      BY <1>11, <2>3 DEF RemovePeer
    <3>2. MapTypes'
      BY <2>1, <3>1 DEF MapTypes, Steps
    <3>3. ASSUME NEW s \in Servers PROVE HalfDone(s)' /\ Agree(s)'
      <4>1. CASE s = t
        BY <2>1, <3>1, <4>1, <1>1, <1>2 DEF HalfDone, Agree, MapTypes
      <4>2. CASE s # t
        BY <2>1, <3>1, <4>2 DEF HalfDone, Agree, MapTypes
      <4> QED
        BY <4>1, <4>2
    <3> QED
      BY <3>2, <3>3
  <2> QED
    BY <2>2, <2>3
<1>12. CASE RemoveWn(t, c)
  <2>1. /\ step[t] = "remove" /\ Head(queue[t]) = <<"Disconnect", c>> /\ Done(t)
        /\ wnMap' = [wnMap EXCEPT ![t] = @ \ {c}] /\ UNCHANGED peerMap
    BY <1>12 DEF RemoveWn, DeleteWn, Current
  <2>2. c \notin peerMap[t]
    BY <2>1 DEF HalfDone
  <2>3. \A d \in Clients : d # c => (d \in peerMap[t] <=> d \in wnMap[t])
    BY <2>1 DEF Agree
  <2>4. peerMap'[t] = wnMap'[t]
    BY <2>1, <2>2, <2>3 DEF MapTypes
  <2> QED
    BY <2>1, <2>4, <1>1, DoneOK DEF MapTypes
<1> QED
  BY <1>4, <1>5, <1>6, <1>7, <1>8, <1>9, <1>10, <1>11, <1>12, <1>13

\* A client that leaves, or loses a connection, leaves no trace in the maps.
LEMMA PartOK ==
    ASSUME MapInv, NEW c \in Clients, NEW S \in SUBSET Servers, Part(c, S),
           UNCHANGED <<queue, peerMap, wnMap>>
    PROVE  MapInv'
<1>1. /\ step' \in [Servers -> Steps]
      /\ \A s \in Servers : step'[s] = step[s] \/ (step[s] \in {"joining", "asking"} /\ step'[s] = "stuck")
  BY DEF Part, MapInv, MapTypes, Steps
<1> QED
  BY <1>1, KeepOK

\* What leaves queues and maps alone keeps it.
LEMMA StutterOK ==
    ASSUME MapInv, UNCHANGED mapVars
    PROVE  MapInv'
BY DEF mapVars, MapInv, MapTypes, HalfDone, Agree

\* Every step of the system keeps it.
LEMMA MapNextOK == MapInv /\ [Next]_vars => MapInv'
<1> SUFFICES ASSUME MapInv, [Next]_vars PROVE MapInv'
  OBVIOUS
<1>1. ASSUME NEW s \in Servers, ProxyLoop(s) PROVE MapInv'
  BY <1>1, ProxyLoopOK
<1>2. ASSUME NEW s \in Servers, PublishLoop(s) PROVE MapInv'
  <2>1. UNCHANGED mapVars
    BY <1>2 DEF PublishLoop, LookUp, AskDecrypt, DecryptAcked
  <2> QED
    BY <2>1, StutterOK
<1>3. ASSUME NEW c \in Clients, NEW s \in Servers, Register(c, s) PROVE MapInv'
  BY <1>3, StutterOK DEF Register
<1>4. ASSUME NEW c \in Clients, NEW s \in Servers, Lose(c, s) PROVE MapInv'
  BY <1>4, PartOK DEF Lose
<1>5. ASSUME NEW c \in Clients, NEW s \in Servers, Arrive(c, s) PROVE MapInv'
  <2>1. <<"NewProxy", c>> \in Kinds \X Clients
    BY DEF Kinds
  <2> QED
    BY <1>5, <2>1, AppendOK DEF Arrive
<1>6. ASSUME NEW c \in Clients, NEW s \in Servers, DropStale(c, s) PROVE MapInv'
  <2>1. <<"Disconnect", c>> \in Kinds \X Clients
    BY DEF Kinds
  <2>2. UNCHANGED <<step, peerMap, wnMap>>
    BY <1>6 DEF DropStale
  <2>3. CASE <<c, s>> \in link
    BY <1>6, <2>2, <2>3, StutterOK DEF DropStale, LastConnection, mapVars
  <2>4. CASE <<c, s>> \notin link
    BY <1>6, <2>1, <2>2, <2>4, AppendOK DEF DropStale, LastConnection
  <2> QED
    BY <2>3, <2>4
<1>7. ASSUME NEW c \in Clients, NEW s \in Servers, TakeAck(c, s) PROVE MapInv'
  <2> PICK b \in BOOLEAN :
        RecvAck(c, s, b) \/ RecvUnknownAck(c, s, b) \/ RecvLateAck(c, s, b)
    BY <1>7 DEF TakeAck
  <2>1. CASE RecvAck(c, s, b)
    BY <2>1, StutterOK DEF RecvAck
  <2>2. CASE RecvUnknownAck(c, s, b)
    BY <2>2, StutterOK DEF RecvUnknownAck
  <2>3. CASE RecvLateAck(c, s, b)
    BY <2>3, PartOK DEF RecvLateAck, Leave
  <2> QED
    BY <2>1, <2>2, <2>3
<1>8. ASSUME NEW c \in Clients, User(c) PROVE MapInv'
  <2>1. CASE Start(c)
    BY <2>1, StutterOK DEF Start
  <2>2. CASE Abandon(c)
    BY <2>2, StutterOK DEF Abandon
  <2>3. CASE Crash(c)
    BY <2>3, PartOK DEF Crash, Leave
  <2>4. CASE DialCircuit(c)
    <3>1. <<"NewCircuit", c>> \in Kinds \X Clients
      BY DEF Kinds
    <3>2. CASE proxyId[c] \in Servers
      BY <2>4, <3>1, <3>2, AppendOK DEF DialCircuit
    <3>3. CASE proxyId[c] \notin Servers
      <4>1. queue' = queue
        BY <2>4, <3>3 DEF DialCircuit, MapInv, MapTypes
      <4> QED
        BY <2>4, <4>1, StutterOK DEF DialCircuit, mapVars
    <3> QED
      BY <3>2, <3>3
  <2> QED
    BY <1>8, <2>1, <2>2, <2>3, <2>4 DEF User
<1>9. CASE UNCHANGED vars
  BY <1>9, StutterOK DEF vars, mapVars
<1> QED
  BY <1>1, <1>2, <1>3, <1>4, <1>5, <1>6, <1>7, <1>8, <1>9 DEF Next

\* Whatever clients start, crash, register, dial and leave in any order, a proxy
\* lists a client in client_peer_map exactly if it does in client_wn_map, but for
\* the client whose request process_proxy_request is in the middle of.
THEOREM MapsAgreeHolds == Spec => []MapsAgree
<1>1. MapInv => MapsAgree
  BY DEF MapInv, Agree, MapsAgree
<1> QED
  BY <1>1, MapInitOK, MapNextOK, PTL DEF Spec

-----------------------------------------------------------------------------
(* No client that has left stays registered.                                  *)

\* WillList for a queue q and a map W.
Word(x, c) == x \in {<<"NewProxy", c>>, <<"Disconnect", c>>}
AboutIn(q, c) == {i \in DOMAIN q : Word(q[i], c)}
WillIn(q, W, c) ==
    IF AboutIn(q, c) = {} THEN c \in W
    ELSE \E i \in AboutIn(q, c) : /\ \A j \in AboutIn(q, c) : j <= i
                                  /\ q[i] = <<"NewProxy", c>>

\* WillList is WillIn of the queue and the map there are now.
LEMMA WillInIs == \A s \in Servers, c \in Clients : WillList(s, c) <=> WillIn(queue[s], wnMap[s], c)
BY DEF WillList, WillIn, About, AboutIn, Word

\* A request about another client, or a NewCircuit, does not matter.
LEMMA AppendOther ==
    ASSUME NEW S, NEW q \in Seq(S), NEW x \in S, NEW W, NEW c, ~Word(x, c)
    PROVE  WillIn(Append(q, x), W, c) <=> WillIn(q, W, c)
<1>1. /\ Len(Append(q, x)) = Len(q) + 1
      /\ \A i \in 1..Len(q) : Append(q, x)[i] = q[i]
      /\ Append(q, x)[Len(q) + 1] = x
      /\ DOMAIN Append(q, x) = 1..(Len(q) + 1) /\ DOMAIN q = 1..Len(q) /\ Len(q) \in Nat
  OBVIOUS
<1>2. AboutIn(Append(q, x), c) = AboutIn(q, c)
  BY <1>1 DEF AboutIn
<1>3. \A i \in AboutIn(q, c) : Append(q, x)[i] = q[i]
  BY <1>1 DEF AboutIn
<1> QED
  BY <1>2, <1>3 DEF WillIn

\* After a Disconnect the client will not be listed.
LEMMA AppendDisconnect ==
    ASSUME NEW S, NEW q \in Seq(S), NEW W, NEW c, <<"Disconnect", c>> \in S
    PROVE  ~WillIn(Append(q, <<"Disconnect", c>>), W, c)
<1> DEFINE x == <<"Disconnect", c>>
           n == Len(q) + 1
<1>1. /\ Append(q, x)[n] = x
      /\ DOMAIN Append(q, x) = 1..n /\ n \in Nat \ {0}
  OBVIOUS
<1>2. n \in AboutIn(Append(q, x), c)
  BY <1>1 DEF AboutIn, Word
<1>3. \A i \in AboutIn(Append(q, x), c) : n <= i => i = n
  BY <1>1 DEF AboutIn
<1>4. Append(q, x)[n] # <<"NewProxy", c>>
  BY <1>1
<1> QED
  BY <1>2, <1>3, <1>4 DEF WillIn

\* Dealing with the request at the head does what WillList foresees.
LEMMA TailWill ==
    ASSUME NEW S, NEW q \in Seq(S), q # <<>>, NEW W, NEW V, NEW c,
           Head(q) = <<"NewProxy", c>> => c \in V,
           Head(q) = <<"Disconnect", c>> => c \notin V,
           ~Word(Head(q), c) => (c \in V <=> c \in W)
    PROVE  WillIn(Tail(q), V, c) <=> WillIn(q, W, c)
<1> DEFINE A == AboutIn(q, c)
           B == AboutIn(Tail(q), c)
<1>1. /\ Len(q) \in Nat \ {0} /\ DOMAIN q = 1..Len(q)
      /\ DOMAIN Tail(q) = 1..(Len(q) - 1)
      /\ \A i \in 1..(Len(q) - 1) : Tail(q)[i] = q[i + 1]
      /\ Head(q) = q[1]
  OBVIOUS
<1>2. A \subseteq Nat \ {0} /\ B \subseteq Nat \ {0}
  BY <1>1 DEF AboutIn
<1>3. \A i \in Nat \ {0} : i \in B <=> i + 1 \in A
  BY <1>1 DEF AboutIn
<1>4. \A i \in B : Tail(q)[i] = q[i + 1]
  BY <1>1 DEF AboutIn
<1>5. 1 \in A <=> Word(Head(q), c)
  BY <1>1 DEF AboutIn
<1>6. CASE B = {}
  <2>1. A \subseteq {1}
    <3> SUFFICES ASSUME NEW i \in A, i # 1 PROVE FALSE
      OBVIOUS
    <3>1. i - 1 \in Nat \ {0} /\ (i - 1) + 1 = i
      BY <1>2
    <3> QED
      BY <3>1, <1>3, <1>6
  <2>2. CASE A = {}
    BY <2>2, <1>5, <1>6 DEF WillIn
  <2>3. CASE A = {1}
    <3>1. WillIn(q, W, c) <=> q[1] = <<"NewProxy", c>>
      BY <2>3 DEF WillIn
    <3>2. Head(q) = <<"NewProxy", c>> \/ Head(q) = <<"Disconnect", c>>
      BY <2>3, <1>5 DEF Word
    <3>3. WillIn(Tail(q), V, c) <=> c \in V
      BY <1>6 DEF WillIn
    <3> QED
      BY <3>1, <3>2, <3>3, <1>1
  <2> QED
    BY <2>1, <2>2, <2>3
<1>7. CASE B # {}
  <2>1. A # {}
    BY <1>7, <1>2, <1>3
  <2>2. ASSUME NEW i \in B, \A j \in B : j <= i, Tail(q)[i] = <<"NewProxy", c>>
        PROVE  \E k \in A : (\A j \in A : j <= k) /\ q[k] = <<"NewProxy", c>>
    <3>1. i + 1 \in A /\ q[i + 1] = <<"NewProxy", c>>
      BY <2>2, <1>2, <1>3, <1>4
    <3>2. ASSUME NEW j \in A PROVE j <= i + 1
      <4>1. CASE j = 1
        BY <4>1, <1>2
      <4>2. CASE j # 1
        <5>1. j - 1 \in Nat \ {0} /\ (j - 1) + 1 = j
          BY <4>2, <1>2
        <5>2. j - 1 \in B
          BY <5>1, <1>3
        <5>3. j - 1 <= i
          BY <5>2, <2>2
        <5> QED
          BY <5>1, <5>3, <1>2
      <4> QED
        BY <4>1, <4>2
    <3> QED
      BY <3>1, <3>2
  <2>3. ASSUME NEW k \in A, \A j \in A : j <= k, q[k] = <<"NewProxy", c>>
        PROVE  \E i \in B : (\A j \in B : j <= i) /\ Tail(q)[i] = <<"NewProxy", c>>
    <3>1. PICK b \in B : TRUE
      BY <1>7
    <3>2. b + 1 <= k /\ b \in Nat \ {0} /\ k \in Nat
      BY <3>1, <1>2, <1>3, <2>3
    <3>3. k - 1 \in Nat \ {0} /\ (k - 1) + 1 = k
      BY <3>2
    <3>4. k - 1 \in B /\ Tail(q)[k - 1] = <<"NewProxy", c>>
      BY <3>3, <1>3, <1>4, <2>3
    <3>5. ASSUME NEW j \in B PROVE j <= k - 1
      <4>1. j \in Nat \ {0} /\ j + 1 \in A
        BY <1>2, <1>3
      <4>2. j + 1 <= k
        BY <4>1, <2>3
      <4> QED
        BY <4>1, <4>2, <3>2
    <3> QED
      BY <3>4, <3>5
  <2>4. WillIn(q, W, c) <=> \E k \in A : (\A j \in A : j <= k) /\ q[k] = <<"NewProxy", c>>
    BY <2>1 DEF WillIn
  <2>5. WillIn(Tail(q), V, c) <=>
          \E i \in B : (\A j \in B : j <= i) /\ Tail(q)[i] = <<"NewProxy", c>>
    BY <1>7 DEF WillIn
  <2> QED
    BY <2>2, <2>3, <2>4, <2>5
<1> QED
  BY <1>6, <1>7

Same(s, c) == WillIn(queue'[s], wnMap'[s], c) <=> WillIn(queue[s], wnMap[s], c)

\* The loop of a proxy brings about what its queue says, and nothing else.
LEMMA LoopKeepsWord ==
    ASSUME MapInv, NEW t \in Servers, ProxyLoop(t), NEW s \in Servers, NEW c \in Clients
    PROVE  Same(s, c)
<1> PICK d \in Clients :
      \/ RefuseProxy(t, d) \/ InsertPeer(t, d) \/ InsertWn(t, d) \/ RemovePeer(t, d)
      \/ RemoveWn(t, d) \/ CircuitFails(t, d) \/ UnknownCaller(t, d) \/ Join(t, d)
      \/ JoinHangs(t, d) \/ CalleeJoined(t, d) \/ SinkJoined(t, d) \/ NegAcked(t, d)
  BY DEF ProxyLoop
<1>1. queue[t] # <<>> /\ queue[t] \in Seq(Kinds \X Clients)
  BY DEF RefuseProxy, InsertPeer, InsertWn, RemovePeer, RemoveWn, Join, JoinHangs,
         SinkJoined,
         CircuitFails, UnknownCaller, CalleeJoined, NegAcked, Current, MapInv, MapTypes
<1>2. ASSUME UNCHANGED <<queue, wnMap>> PROVE Same(s, c)
  BY <1>2 DEF Same
<1>3. ASSUME Done(t), UNCHANGED wnMap,
             Head(queue[t]) = <<"NewProxy", c>> => c \in wnMap[t],
             Head(queue[t]) = <<"Disconnect", c>> => c \notin wnMap[t]
      PROVE  Same(s, c)
  <2>1. CASE s = t
    <3>1. queue'[t] = Tail(queue[t])
      BY <1>3 DEF Done, MapInv, MapTypes
    <3>2. WillIn(Tail(queue[t]), wnMap[t], c) <=> WillIn(queue[t], wnMap[t], c)
      BY <1>1, <1>3, TailWill
    <3> QED
      BY <1>3, <2>1, <3>1, <3>2 DEF Same
  <2>2. CASE s # t
    BY <1>3, <2>2 DEF Done, Same, MapInv, MapTypes
  <2> QED
    BY <2>1, <2>2
<1>4. CASE RefuseProxy(t, d)
  BY <1>4, <1>3 DEF RefuseProxy, Current, AlreadyProxy
<1>5. CASE UnknownCaller(t, d)
  BY <1>5, <1>3 DEF UnknownCaller, Current
<1>13. CASE CircuitFails(t, d)
  BY <1>13, <1>3 DEF CircuitFails, Current
<1>6. CASE CalleeJoined(t, d)
  BY <1>6, <1>3 DEF CalleeJoined, Current
<1>7. CASE NegAcked(t, d)
  BY <1>7, <1>3 DEF NegAcked, Current
<1>8. CASE Join(t, d) \/ JoinHangs(t, d) \/ SinkJoined(t, d)
  BY <1>8, <1>2 DEF Join, JoinHangs, SinkJoined
<1>9. CASE InsertPeer(t, d)
  BY <1>9, <1>2 DEF InsertPeer
<1>10. CASE InsertWn(t, d)
  <2>1. /\ Head(queue[t]) = <<"NewProxy", d>> /\ Done(t)
        /\ wnMap' = [wnMap EXCEPT ![t] = @ \cup {d}]
    BY <1>10 DEF InsertWn, Current
  <2>2. CASE s = t
    <3>1. queue'[t] = Tail(queue[t]) /\ wnMap'[t] = wnMap[t] \cup {d}
      BY <2>1 DEF Done, MapInv, MapTypes
    <3>2. Head(queue[t]) = <<"NewProxy", c>> => c \in wnMap'[t]
      BY <2>1, <3>1
    <3>3. Head(queue[t]) = <<"Disconnect", c>> => c \notin wnMap'[t]
      BY <2>1
    <3>4. ASSUME ~Word(Head(queue[t]), c) PROVE c \in wnMap'[t] <=> c \in wnMap[t]
      <4>1. c # d
        BY <3>4, <2>1 DEF Word
      <4> QED
        BY <4>1, <3>1
    <3>5. WillIn(Tail(queue[t]), wnMap'[t], c) <=> WillIn(queue[t], wnMap[t], c)
      BY <1>1, <3>2, <3>3, <3>4, TailWill
    <3> QED
      BY <2>2, <3>1, <3>5 DEF Same
  <2>3. CASE s # t
    BY <2>1, <2>3 DEF Done, Same, MapInv, MapTypes
  <2> QED
    BY <2>2, <2>3
<1>11. CASE RemovePeer(t, d)
  <2>1. CASE d \in peerMap[t]
    BY <1>11, <2>1, <1>2 DEF RemovePeer
  <2>2. CASE d \notin peerMap[t]
    <3>1. d \notin wnMap[t]
      BY <1>11, <2>2 DEF RemovePeer, MapInv, Agree
    <3> QED
      BY <1>11, <2>2, <3>1, <1>3 DEF RemovePeer, Current
  <2> QED
    BY <2>1, <2>2
<1>12. CASE RemoveWn(t, d)
  <2>1. /\ Head(queue[t]) = <<"Disconnect", d>> /\ Done(t)
        /\ wnMap' = [wnMap EXCEPT ![t] = @ \ {d}]
    BY <1>12 DEF RemoveWn, DeleteWn, Current
  <2>2. CASE s = t
    <3>1. queue'[t] = Tail(queue[t]) /\ wnMap'[t] = wnMap[t] \ {d}
      BY <2>1 DEF Done, MapInv, MapTypes
    <3>2. Head(queue[t]) = <<"NewProxy", c>> => c \in wnMap'[t]
      BY <2>1
    <3>3. Head(queue[t]) = <<"Disconnect", c>> => c \notin wnMap'[t]
      BY <2>1, <3>1
    <3>4. ASSUME ~Word(Head(queue[t]), c) PROVE c \in wnMap'[t] <=> c \in wnMap[t]
      <4>1. c # d
        BY <3>4, <2>1 DEF Word
      <4> QED
        BY <4>1, <3>1
    <3>5. WillIn(Tail(queue[t]), wnMap'[t], c) <=> WillIn(queue[t], wnMap[t], c)
      BY <1>1, <3>2, <3>3, <3>4, TailWill
    <3> QED
      BY <2>2, <3>1, <3>5 DEF Same
  <2>3. CASE s # t
    BY <2>1, <2>3 DEF Done, Same, MapInv, MapTypes
  <2> QED
    BY <2>2, <2>3
<1> QED
  BY <1>4, <1>5, <1>6, <1>7, <1>8, <1>9, <1>10, <1>11, <1>12, <1>13

\* ListedWhileConnected over all servers, with the operators above.
NoneLeft == \A s \in swarm, c \in Clients : WillIn(queue[s], wnMap[s], c) => Connected(c, s)
LeftInv == MapInv /\ swarm \subseteq Servers /\ NoneLeft

\* A step after which no more clients will be listed, and no connection is lost.
LEMMA KeepsConnections ==
    ASSUME LeftInv, swarm' \subseteq swarm,
           \A s \in Servers, c \in Clients : Same(s, c),
           \A s \in Servers, c \in Clients : Connected(c, s) => Connected(c, s)'
    PROVE  NoneLeft' /\ swarm' \subseteq Servers
BY DEF LeftInv, NoneLeft, Same

\* A connection that is cut lives on at the server, which has not noticed.
LEMMA PartKeeps ==
    ASSUME LeftInv, NEW c \in Clients, NEW S \in SUBSET Servers, Part(c, S),
           UNCHANGED <<queue, wnMap, swarm>>
    PROVE  NoneLeft' /\ swarm' \subseteq Servers
<1>1. \A s \in Servers, d \in Clients : Connected(d, s) => Connected(d, s)'
  BY DEF Part, Connected
<1>2. \A s \in Servers, d \in Clients : Same(s, d)
  BY DEF Same
<1> QED
  BY <1>1, <1>2, KeepsConnections

\* A step that touches neither connections nor what the proxy lists.
LEMMA QuietKeeps ==
    ASSUME LeftInv, UNCHANGED <<queue, wnMap, swarm, link, stale>>
    PROVE  NoneLeft' /\ swarm' \subseteq Servers
BY DEF LeftInv, NoneLeft, Connected

\* Every step of the system keeps NoneLeft.
LEMMA NoneLeftOK == LeftInv /\ [Next]_vars => NoneLeft' /\ swarm' \subseteq Servers
<1> SUFFICES ASSUME LeftInv, [Next]_vars PROVE NoneLeft' /\ swarm' \subseteq Servers
  OBVIOUS
<1>0. \A s \in Servers : queue[s] \in Seq(Kinds \X Clients)
  BY DEF LeftInv, MapInv, MapTypes
<1>1. ASSUME NEW t \in Servers, ProxyLoop(t) PROVE NoneLeft' /\ swarm' \subseteq Servers
  <2>1. \A s \in Servers, c \in Clients : Same(s, c)
    BY <1>1, LoopKeepsWord DEF LeftInv
  <2>2. swarm' \subseteq swarm /\ UNCHANGED <<link, stale>>
    BY <1>1 DEF ProxyLoop, RefuseProxy, InsertPeer, InsertWn, RemovePeer, RemoveWn, Join, JoinHangs,
         SinkJoined,
                CircuitFails, UnknownCaller, CalleeJoined, NegAcked, Gossip, netVars, pubVars
  <2> QED
    BY <2>1, <2>2, KeepsConnections DEF Connected
<1>2. ASSUME NEW s \in Servers, PublishLoop(s) PROVE NoneLeft' /\ swarm' \subseteq Servers
  BY <1>2, QuietKeeps DEF PublishLoop, LookUp, AskDecrypt, DecryptAcked, mapVars, netVars
<1>3. ASSUME NEW c \in Clients, NEW s \in Servers, Register(c, s)
      PROVE  NoneLeft' /\ swarm' \subseteq Servers
  BY <1>3, QuietKeeps DEF Register, mapVars, pubVars
<1>4. ASSUME NEW c \in Clients, NEW s \in Servers, Lose(c, s)
      PROVE  NoneLeft' /\ swarm' \subseteq Servers
  BY <1>4, PartKeeps DEF Lose
<1>5. ASSUME NEW c \in Clients, NEW t \in Servers, Arrive(c, t)
      PROVE  NoneLeft' /\ swarm' \subseteq Servers
  <2>1. /\ link' = link \cup {<<c, t>>} /\ UNCHANGED <<stale, wnMap, swarm>>
        /\ queue' = [queue EXCEPT ![t] = Append(@, <<"NewProxy", c>>)]
    BY <1>5 DEF Arrive, pubVars
  <2>2. ASSUME NEW s \in swarm, NEW d \in Clients, WillIn(queue'[s], wnMap'[s], d)
        PROVE  Connected(d, s)'
    <3>1. CASE s = t /\ d = c
      BY <2>1, <3>1 DEF Connected
    <3>2. CASE s = t /\ d # c
      <4>1. queue'[t] = Append(queue[t], <<"NewProxy", c>>)
        BY <2>1 DEF LeftInv, MapInv, MapTypes
      <4>2. ~Word(<<"NewProxy", c>>, d) /\ <<"NewProxy", c>> \in Kinds \X Clients
        BY <3>2 DEF Word, Kinds
      <4>3. WillIn(queue[s], wnMap[s], d)
        BY <4>1, <4>2, <3>2, <2>1, <2>2, <1>0, AppendOther
      <4> QED
        BY <4>3, <2>1 DEF LeftInv, NoneLeft, Connected
    <3>3. CASE s # t
      BY <2>1, <2>2, <3>3 DEF LeftInv, MapInv, MapTypes, NoneLeft, Connected
    <3> QED
      BY <3>1, <3>2, <3>3
  <2> QED
    BY <2>1, <2>2 DEF NoneLeft, LeftInv
<1>6. ASSUME NEW c \in Clients, NEW t \in Servers, DropStale(c, t)
      PROVE  NoneLeft' /\ swarm' \subseteq Servers
  <2>1. stale' = stale \ {<<c, t>>} /\ UNCHANGED <<link, wnMap, swarm>>
    BY <1>6 DEF DropStale, pubVars
  <2>2. CASE <<c, t>> \in link
    <3>1. UNCHANGED queue
      BY <1>6, <2>2 DEF DropStale, LastConnection
    <3>2. \A s \in Servers, d \in Clients : Connected(d, s) => Connected(d, s)'
      BY <2>1, <2>2 DEF Connected
    <3> QED
      BY <2>1, <3>1, <3>2, KeepsConnections DEF Same
  <2>3. CASE <<c, t>> \notin link
    <3>1. queue' = [queue EXCEPT ![t] = Append(@, <<"Disconnect", c>>)]
      BY <1>6, <2>3 DEF DropStale, LastConnection
    <3>2. ASSUME NEW s \in swarm, NEW d \in Clients, WillIn(queue'[s], wnMap'[s], d)
          PROVE  Connected(d, s)'
      <4>0. s \in Servers /\ <<"Disconnect", c>> \in Kinds \X Clients
        BY DEF LeftInv, Kinds
      <4>1. CASE s # t
        BY <2>1, <3>1, <3>2, <4>0, <4>1 DEF LeftInv, MapInv, MapTypes, NoneLeft, Connected
      <4>2. CASE s = t
        <5>1. queue'[t] = Append(queue[t], <<"Disconnect", c>>)
          BY <3>1 DEF LeftInv, MapInv, MapTypes
        <5>2. d # c
          BY <5>1, <4>0, <4>2, <3>2, <1>0, AppendDisconnect
        <5>3. ~Word(<<"Disconnect", c>>, d)
          BY <5>2 DEF Word
        <5>4. WillIn(Append(queue[s], <<"Disconnect", c>>), wnMap[s], d)
          BY <5>1, <4>2, <3>2, <2>1
        <5>5. WillIn(queue[s], wnMap[s], d)
          BY <5>3, <5>4, <4>0, <1>0, AppendOther
        <5> QED
          BY <5>2, <5>5, <2>1 DEF LeftInv, NoneLeft, Connected
      <4> QED
        BY <4>1, <4>2
    <3> QED
      BY <2>1, <3>2 DEF NoneLeft, LeftInv
  <2> QED
    BY <2>2, <2>3
<1>7. ASSUME NEW c \in Clients, NEW s \in Servers, TakeAck(c, s)
      PROVE  NoneLeft' /\ swarm' \subseteq Servers
  <2> PICK b \in BOOLEAN :
        RecvAck(c, s, b) \/ RecvUnknownAck(c, s, b) \/ RecvLateAck(c, s, b)
    BY <1>7 DEF TakeAck
  <2>1. CASE RecvAck(c, s, b)
    BY <2>1, QuietKeeps DEF RecvAck, mapVars, pubVars
  <2>2. CASE RecvUnknownAck(c, s, b)
    BY <2>2, QuietKeeps DEF RecvUnknownAck, mapVars, pubVars
  <2>3. CASE RecvLateAck(c, s, b)
    BY <2>3, PartKeeps DEF RecvLateAck, Leave
  <2> QED
    BY <2>1, <2>2, <2>3
<1>8. ASSUME NEW c \in Clients, User(c) PROVE NoneLeft' /\ swarm' \subseteq Servers
  <2>1. CASE Start(c)
    BY <2>1, QuietKeeps DEF Start, mapVars, netVars, pubVars
  <2>2. CASE Abandon(c)
    BY <2>2, QuietKeeps DEF Abandon, mapVars, netVars, pubVars
  <2>3. CASE Crash(c)
    BY <2>3, PartKeeps DEF Crash, Leave
  <2>4. CASE DialCircuit(c)
    <3> DEFINE t == proxyId[c]
    <3>1. /\ link' = link \cup {<<c, t>>} /\ UNCHANGED <<stale, wnMap, swarm>>
          /\ t \in swarm /\ queue' = [queue EXCEPT ![t] = Append(@, <<"NewCircuit", c>>)]
      BY <2>4 DEF DialCircuit, pubVars
    <3>2. t \in Servers /\ queue[t] \in Seq(Kinds \X Clients)
      BY <3>1, <1>0 DEF LeftInv
    <3>3. ASSUME NEW s \in Servers, NEW d \in Clients PROVE Same(s, d)
      <4>1. CASE s # t
        BY <3>1, <4>1 DEF Same, LeftInv, MapInv, MapTypes
      <4>2. CASE s = t
        <5>1. queue'[s] = Append(queue[s], <<"NewCircuit", c>>)
          BY <3>1, <3>2, <4>2 DEF LeftInv, MapInv, MapTypes
        <5>2. ~Word(<<"NewCircuit", c>>, d) /\ <<"NewCircuit", c>> \in Kinds \X Clients
          BY DEF Word, Kinds
        <5> QED
          BY <5>1, <5>2, <3>1, <1>0, AppendOther DEF Same
      <4> QED
        BY <4>1, <4>2
    <3> QED
      BY <3>1, <3>3, KeepsConnections DEF Connected
  <2> QED
    BY <1>8, <2>1, <2>2, <2>3, <2>4 DEF User
<1>9. CASE UNCHANGED vars
  BY <1>9, QuietKeeps DEF vars, mapVars, netVars, pubVars
<1> QED
  BY <1>1, <1>2, <1>3, <1>4, <1>5, <1>6, <1>7, <1>8, <1>9 DEF Next

\* Once its queue is dealt with, a proxy whose swarm runs lists no client that has
\* lost its last connection, for any clients, servers, restarts and losses: the
\* Disconnect of inject_disconnected is behind every NewProxy of that connection.
THEOREM ListedWhileConnectedHolds == Spec => []ListedWhileConnected
<1>1. Init => LeftInv
  <2>1. Init => MapInv /\ swarm \subseteq Servers
    BY MapInitOK DEF Init
  <2>2. Init => NoneLeft
    BY DEF Init, NoneLeft, WillIn, AboutIn
  <2> QED
    BY <2>1, <2>2 DEF LeftInv
<1>2. LeftInv /\ [Next]_vars => LeftInv'
  BY MapNextOK, NoneLeftOK DEF LeftInv
<1>3. LeftInv => ListedWhileConnected
  BY WillInIs DEF LeftInv, NoneLeft, ListedWhileConnected
<1> QED
  BY <1>1, <1>2, <1>3, PTL DEF Spec

-----------------------------------------------------------------------------
(* What a client and its proxy know of each other.                            *)

\* A process that is not running waits for nothing and has no proxy; one that
\* waits for a server, or has it as its proxy, has asked it, holds a connection to
\* it, or has lost one.
Reached(c) ==
    /\ calling[c] # Nobody => Up(c)
    /\ life[c] = "off" => proxyId[c] = Nobody
    /\ \A s \in Servers : Up(c) /\ s \in {calling[c], proxyId[c]} =>
          <<c, s>> \in asked \/ <<c, s>> \in link \/ <<c, s>> \in lost

\* Whoever has lost no connection to a server since it last asked will be listed there.
Known(s, c) == s \in swarm /\ <<c, s>> \in link /\ <<c, s>> \notin lost =>
    WillIn(queue[s], wnMap[s], c) \/ <<c, s>> \in asked

\* The one NewProxy of a client that has called register once on a server is
\* nowhere, on its way, in the queue of the server, or has been dealt with.
AskedOnce(s, c) ==
    /\ Once(queue[s], {<<"NewProxy", c>>})
    /\ <<c, s>> \in asked => <<"NewProxy", c>> \notin Elems(queue[s]) /\ c \notin wnMap[s]
    /\ <<"NewProxy", c>> \in Elems(queue[s]) => c \notin wnMap[s]
    /\ calls[<<c, s>>] = 0 => /\ <<c, s>> \notin asked /\ <<"NewProxy", c>> \notin Elems(queue[s])
                              /\ c \notin wnMap[s]

\* The server has not refused it, and is not about to.
Welcome(s, c) == <<c, s>> \notin refused /\ <<c, s, FALSE>> \notin acks

\* Only a client that dials has a circuit to ask for.
Dialers(s) == \A c \in Clients : <<"NewCircuit", c>> \in Elems(queue[s]) => c \in MayDial

ClientInv ==
    /\ TypeOK /\ MapInv
    /\ \A s \in Servers : Dialers(s)
    /\ \A c \in Clients : Reached(c)
    /\ \A c \in Clients, s \in Servers : Known(s, c)
    /\ \A c \in Clients, s \in Servers :
          calls[<<c, s>>] <= 1 => AskedOnce(s, c) /\ Welcome(s, c)

\* The part of TypeOK that the loop of a proxy does not write.
ClientTypes ==
    /\ starts \in [Clients -> 0..MaxStarts]
    /\ calls \in [Clients \X Servers -> Nat]
    /\ \A x \in Clients \X Servers : calls[x] <= MaxCalls[x]
    /\ life \in [Clients -> {"off", "on", "panicked"}]
    /\ calling \in [Clients -> Servers \cup {Nobody}]
    /\ bus \in [Clients -> {"none", "live", "dropped"}]
    /\ \A c \in Clients : bus[c] = "live" <=> calling[c] # Nobody
    /\ proxyId \in [Clients -> Servers \cup {Nobody}]
    /\ refused \in SUBSET (Clients \X Servers) /\ dialed \in [Clients -> 0..MaxDials]

NetTypes ==
    /\ link \in SUBSET (Clients \X Servers) /\ stale \in SUBSET (Clients \X Servers)
    /\ lost \in SUBSET (Clients \X Servers) /\ asked \in SUBSET (Clients \X Servers)
    /\ acks \in SUBSET (Clients \X Servers \X BOOLEAN)

PubTypes ==
    /\ asks \in [Servers -> Clients \cup {Nobody}]
    /\ gossip \in [Servers -> SUBSET Clients]
    /\ pub \in [Servers -> {"next", "found", "asking", "stuck", "panicked"}]
    /\ looking \in [Servers -> Clients \cup {Nobody}]
    /\ swarm \in SUBSET Servers

AllTypes == ClientTypes /\ NetTypes /\ PubTypes

\* TypeOK is the typing of who writes what.
LEMMA TypeParts == TypeOK <=> AllTypes /\ MapTypes
BY DEF TypeOK, AllTypes, ClientTypes, NetTypes, PubTypes, MapTypes, Steps

\* A cut connection keeps the types.
LEMMA PartTypes ==
    ASSUME AllTypes, NEW c, NEW S, Part(c, S)
    PROVE  /\ link' \in SUBSET (Clients \X Servers) /\ stale' \in SUBSET (Clients \X Servers)
           /\ asked' \in SUBSET (Clients \X Servers) /\ acks' \in SUBSET (Clients \X Servers \X BOOLEAN)
           /\ pub' \in [Servers -> {"next", "found", "asking", "stuck", "panicked"}]
<1>1. /\ link' \subseteq link /\ asked' \subseteq asked /\ acks' \subseteq acks
      /\ stale' \subseteq stale \cup link
  BY DEF Part
<1>2. pub' \in [Servers -> {"next", "found", "asking", "stuck", "panicked"}]
  BY DEF Part, AllTypes, PubTypes
<1> QED
  BY <1>1, <1>2 DEF AllTypes, NetTypes

\* A client that crashes or stops keeps the types.
LEMMA LeaveTypes ==
    ASSUME AllTypes, NEW c \in Clients, Leave(c),
           life' \in [Clients -> {"off", "on", "panicked"}],
           proxyId' \in [Clients -> Servers \cup {Nobody}],
           UNCHANGED <<starts, calls, refused, dialed, asks, gossip, looking, swarm>>
    PROVE  AllTypes'
<1>1. Part(c, Servers) /\ lost' \subseteq lost
  BY DEF Leave
<1>2. ClientTypes'
  BY DEF Leave, AllTypes, ClientTypes
<1>3. NetTypes'
  BY <1>1, PartTypes DEF AllTypes, NetTypes
<1>4. PubTypes'
  BY <1>1, PartTypes DEF AllTypes, PubTypes
<1> QED
  BY <1>2, <1>3, <1>4 DEF AllTypes

\* The steps of connections and acks keep the types.
LEMMA SwarmTypes ==
    ASSUME AllTypes, NEW c \in Clients, NEW s \in Servers,
           Register(c, s) \/ Lose(c, s) \/ Arrive(c, s) \/ DropStale(c, s) \/ TakeAck(c, s)
    PROVE  AllTypes'
<1> USE DEF AllTypes
<1>0. <<c, s>> \in Clients \X Servers
  OBVIOUS
<1>1. CASE Register(c, s)
  <2>1. /\ calls[<<c, s>>] \in Nat /\ MaxCalls[<<c, s>>] \in Nat
        /\ calls[<<c, s>>] < MaxCalls[<<c, s>>]
        /\ calls' = [calls EXCEPT ![<<c, s>>] = calls[<<c, s>>] + 1]
    BY <1>0, <1>1, RegistryAssumption DEF Register, ClientTypes
  <2>2. calls[<<c, s>>] + 1 \in Nat /\ calls[<<c, s>>] + 1 <= MaxCalls[<<c, s>>]
    BY <2>1
  <2>3. /\ calls' \in [Clients \X Servers -> Nat]
        /\ \A x \in Clients \X Servers : calls'[x] <= MaxCalls[x]
    BY <1>0, <2>1, <2>2 DEF ClientTypes
  <2>5. ClientTypes'
    BY <1>1, <2>3, RegistryAssumption DEF Register, ClientTypes
  <2>4. NetTypes' /\ PubTypes'
    BY <1>0, <1>1 DEF Register, NetTypes, PubTypes, pubVars
  <2> QED
    BY <2>4, <2>5
<1>2. CASE Lose(c, s)
  <2>1. Part(c, {s}) /\ lost' = lost \cup {<<c, s>>}
    BY <1>2 DEF Lose
  <2>2. ClientTypes'
    BY <1>2 DEF Lose, clientVars, ClientTypes
  <2>3. NetTypes'
    BY <1>0, <2>1, PartTypes DEF NetTypes
  <2>4. PubTypes'
    BY <1>2, <2>1, PartTypes DEF Lose, PubTypes
  <2> QED
    BY <2>2, <2>3, <2>4
<1>3. CASE Arrive(c, s)
  BY <1>0, <1>3 DEF Arrive, clientVars, pubVars, ClientTypes, NetTypes, PubTypes
<1>4. CASE DropStale(c, s)
  BY <1>4 DEF DropStale, clientVars, pubVars, ClientTypes, NetTypes, PubTypes
<1>5. CASE TakeAck(c, s)
  <2> PICK b \in BOOLEAN :
        RecvAck(c, s, b) \/ RecvUnknownAck(c, s, b) \/ RecvLateAck(c, s, b)
    BY <1>5 DEF TakeAck
  <2>1. CASE RecvAck(c, s, b)
    <3>1. ClientTypes'
      BY <1>0, <2>1 DEF RecvAck, TakeWaiter, ClientTypes
    <3>2. NetTypes' /\ PubTypes'
      BY <2>1 DEF RecvAck, NetTypes, PubTypes, pubVars
    <3> QED
      BY <3>1, <3>2
  <2>2. CASE RecvUnknownAck(c, s, b)
    BY <2>2 DEF RecvUnknownAck, clientVars, pubVars, ClientTypes, NetTypes, PubTypes
  <2>3. CASE RecvLateAck(c, s, b)
    <3>1. /\ life' \in [Clients -> {"off", "on", "panicked"}] /\ Leave(c)
          /\ UNCHANGED <<starts, calls, proxyId, refused, dialed, asks, gossip, looking, swarm>>
      BY <2>3 DEF RecvLateAck, ClientTypes
    <3> QED
      BY <3>1, LeaveTypes DEF ClientTypes
  <2> QED
    BY <2>1, <2>2, <2>3
<1> QED
  BY <1>1, <1>2, <1>3, <1>4, <1>5

\* The steps of a client's user keep the types.
LEMMA UserTypes ==
    ASSUME AllTypes, NEW c \in Clients, User(c)
    PROVE  AllTypes'
<1> USE DEF AllTypes
<1>1. CASE Start(c)
  <2>1. starts[c] \in 0..MaxStarts /\ starts[c] < MaxStarts
    BY <1>1 DEF Start, ClientTypes
  <2>2. starts[c] + 1 \in 0..MaxStarts
    BY <2>1, RegistryAssumption
  <2> QED
    BY <1>1, <2>2 DEF Start, netVars, pubVars, ClientTypes, NetTypes, PubTypes
<1>2. CASE Abandon(c)
  BY <1>2 DEF Abandon, netVars, pubVars, ClientTypes, NetTypes, PubTypes
<1>3. CASE Crash(c)
  <2>1. /\ life' \in [Clients -> {"off", "on", "panicked"}]
        /\ proxyId' \in [Clients -> Servers \cup {Nobody}] /\ Leave(c)
        /\ UNCHANGED <<starts, calls, refused, dialed, asks, gossip, looking, swarm>>
    BY <1>3 DEF Crash, ClientTypes
  <2> QED
    BY <2>1, LeaveTypes
<1>4. CASE DialCircuit(c)
  <2>1. dialed[c] \in 0..MaxDials /\ dialed[c] < MaxDials /\ proxyId[c] \in Servers
    BY <1>4 DEF DialCircuit, ClientTypes
  <2>2. dialed[c] + 1 \in 0..MaxDials /\ <<c, proxyId[c]>> \in Clients \X Servers
    BY <2>1, RegistryAssumption
  <2> QED
    BY <1>4, <2>2 DEF DialCircuit, pubVars, ClientTypes, NetTypes, PubTypes
<1> QED
  BY <1>1, <1>2, <1>3, <1>4 DEF User

\* What the loops of a server send or choose.
LEMMA LoopTypes ==
    ASSUME AllTypes, MapTypes, NEW s \in Servers, Dialers(s), ProxyLoop(s) \/ PublishLoop(s)
    PROVE  AllTypes'
<1> USE DEF AllTypes
<1>1. CASE ProxyLoop(s)
  <2> PICK c \in Clients :
        \/ RefuseProxy(s, c) \/ InsertPeer(s, c) \/ InsertWn(s, c) \/ RemovePeer(s, c)
        \/ RemoveWn(s, c) \/ CircuitFails(s, c) \/ UnknownCaller(s, c) \/ Join(s, c)
        \/ JoinHangs(s, c) \/ CalleeJoined(s, c) \/ SinkJoined(s, c) \/ NegAcked(s, c)
    BY <1>1 DEF ProxyLoop
  <2>1. ClientTypes'
    <3>1. UNCHANGED clientVars
      BY DEF RefuseProxy, InsertPeer, InsertWn, RemovePeer, RemoveWn, Join, JoinHangs,
           SinkJoined, CircuitFails,
             UnknownCaller, CalleeJoined, NegAcked
    <3> QED
      BY <3>1 DEF clientVars, ClientTypes
  <2>2. NetTypes'
    <3>1. \A b \in BOOLEAN : <<c, s, b>> \in Clients \X Servers \X BOOLEAN
      OBVIOUS
    <3>2. UNCHANGED <<link, stale, lost, asked>>
      BY DEF RefuseProxy, InsertPeer, InsertWn, RemovePeer, RemoveWn, Join, JoinHangs,
           SinkJoined, CircuitFails,
             UnknownCaller, CalleeJoined, NegAcked, netVars
    <3>3. acks' = acks \/ acks' = acks \cup {<<c, s, TRUE>>} \/ acks' = acks \cup {<<c, s, FALSE>>}
      BY DEF RefuseProxy, InsertPeer, InsertWn, RemovePeer, RemoveWn, Join, JoinHangs,
           SinkJoined, CircuitFails,
             UnknownCaller, CalleeJoined, NegAcked, netVars, Ack
    <3> QED
      BY <3>1, <3>2, <3>3 DEF NetTypes
  <2>3. PubTypes'
    <3>1. CASE Join(s, c) \/ JoinHangs(s, c) \/ SinkJoined(s, c)
      <4>1. Callee[c] \in wnMap[s] => Callee[c] \in Clients
        BY DEF MapTypes
      <4>2. asks' = asks \/ \E d \in Clients \cup {Nobody} : asks' = [asks EXCEPT ![s] = d]
        BY <3>1, <4>1 DEF Join, JoinHangs, SinkJoined
      <4>3. UNCHANGED pubVars
        BY <3>1 DEF Join, JoinHangs, SinkJoined
      <4> QED
        BY <4>2, <4>3 DEF PubTypes, pubVars
    <3>2. CASE NegAcked(s, c)
      <4>1. queue[s] \in Seq(Kinds \X Clients) /\ queue[s] # <<>> /\ Head(queue[s]) = <<"NewCircuit", c>>
        BY <3>2 DEF NegAcked, Current, MapTypes
      <4>2. c \in MayDial
        BY <4>1, TailElems DEF Dialers
      <4>3. Callee[c] \in Clients
        BY <4>2, RegistryAssumption
      <4> QED
        BY <3>2, <4>3 DEF NegAcked, Gossip, PubTypes
    <3>3. CASE ~Join(s, c) /\ ~JoinHangs(s, c) /\ ~SinkJoined(s, c) /\ ~NegAcked(s, c)
      BY <3>3 DEF RefuseProxy, InsertPeer, InsertWn, RemovePeer, RemoveWn, CircuitFails,
                  UnknownCaller, CalleeJoined, PubTypes, pubVars
    <3> QED
      BY <3>1, <3>2, <3>3
  <2> QED
    BY <2>1, <2>2, <2>3
<1>2. CASE PublishLoop(s)
  <2>1. UNCHANGED <<clientVars, netVars>>
    BY <1>2 DEF PublishLoop, LookUp, AskDecrypt, DecryptAcked
  <2>2. ClientTypes' /\ NetTypes'
    BY <2>1 DEF clientVars, netVars, ClientTypes, NetTypes
  <2>3. ASSUME NEW d \in Clients, LookUp(s, d) PROVE PubTypes'
    BY <2>3 DEF LookUp, PubTypes
  <2>4. CASE AskDecrypt(s)
    <3>1. PICK x \in {"panicked", "asking", "stuck"} : pub' = [pub EXCEPT ![s] = x]
      BY <2>4 DEF AskDecrypt, Awaiting
    <3>2. UNCHANGED <<asks, gossip, looking, swarm>>
      BY <2>4 DEF AskDecrypt
    <3>3. PubTypes
      OBVIOUS
    <3> QED
      BY <2>2, <3>1, <3>2, <3>3 DEF PubTypes
  <2>5. CASE DecryptAcked(s)
    <3>1. PICK x \in {"next", "stuck"} :
            /\ pub' = [pub EXCEPT ![s] = x] /\ looking' = [looking EXCEPT ![s] = Nobody]
            /\ UNCHANGED <<asks, gossip, swarm>>
      BY <2>5 DEF DecryptAcked
    <3>2. PubTypes
      OBVIOUS
    <3> QED
      BY <2>2, <3>1, <3>2 DEF PubTypes
  <2> QED
    BY <1>2, <2>2, <2>3, <2>4, <2>5 DEF PublishLoop
<1> QED
  BY <1>1, <1>2

-----------------------------------------------------------------------------
(* How a queue changes: it loses its head to the loop, or the swarm adds the  *)
(* request of a client, the end of its last connection, or a circuit.         *)

QueueStep(s) ==
    \/ queue'[s] = queue[s]
    \/ queue[s] # <<>> /\ queue'[s] = Tail(queue[s])
    \/ \E c \in Clients : /\ <<c, s>> \in asked /\ <<c, s>> \notin asked'
                          /\ queue'[s] = Append(queue[s], <<"NewProxy", c>>)
    \/ \E c \in Clients : queue'[s] = Append(queue[s], <<"Disconnect", c>>)
    \/ \E c \in MayDial : queue'[s] = Append(queue[s], <<"NewCircuit", c>>)

\* The queue of a proxy only loses its head or gets one request more.
LEMMA QueueSteps ==
    ASSUME MapTypes, [Next]_vars, NEW s \in Servers
    PROVE  QueueStep(s)
<1>0. queue \in [Servers -> Seq(Kinds \X Clients)]
  BY DEF MapTypes
<1>1. ASSUME NEW t \in Servers, ProxyLoop(t) PROVE QueueStep(s)
  <2> PICK c \in Clients :
        \/ RefuseProxy(t, c) \/ InsertPeer(t, c) \/ InsertWn(t, c) \/ RemovePeer(t, c)
        \/ RemoveWn(t, c) \/ CircuitFails(t, c) \/ UnknownCaller(t, c) \/ Join(t, c)
        \/ JoinHangs(t, c) \/ CalleeJoined(t, c) \/ SinkJoined(t, c) \/ NegAcked(t, c)
    BY <1>1 DEF ProxyLoop
  <2>1. queue[t] # <<>> /\ (queue' = queue \/ queue' = [queue EXCEPT ![t] = Tail(@)])
    BY DEF RefuseProxy, InsertPeer, InsertWn, RemovePeer, RemoveWn, Join, JoinHangs,
           SinkJoined, CircuitFails,
           UnknownCaller, CalleeJoined, NegAcked, Current, Done
  <2> QED
    BY <1>0, <2>1 DEF QueueStep
<1>2. ASSUME UNCHANGED queue PROVE QueueStep(s)
  BY <1>2 DEF QueueStep
<1>3. ASSUME NEW c \in Clients, NEW t \in Servers, Arrive(c, t) PROVE QueueStep(s)
  <2>1. /\ <<c, t>> \in asked /\ <<c, t>> \notin asked'
        /\ queue' = [queue EXCEPT ![t] = Append(@, <<"NewProxy", c>>)]
    BY <1>3 DEF Arrive
  <2> QED
    BY <1>0, <2>1 DEF QueueStep
<1>4. ASSUME NEW c \in Clients, NEW t \in Servers, DropStale(c, t) PROVE QueueStep(s)
  <2>1. queue' = queue \/ queue' = [queue EXCEPT ![t] = Append(@, <<"Disconnect", c>>)]
    BY <1>4 DEF DropStale, LastConnection
  <2> QED
    BY <1>0, <2>1 DEF QueueStep
<1>5. ASSUME NEW c \in Clients, DialCircuit(c) PROVE QueueStep(s)
  <2>1. PICK t : c \in MayDial /\ queue' = [queue EXCEPT ![t] = Append(@, <<"NewCircuit", c>>)]
    BY <1>5 DEF DialCircuit
  <2> QED
    BY <1>0, <2>1 DEF QueueStep
<1>6. ASSUME NEW t \in Servers, PublishLoop(t) PROVE UNCHANGED queue
  BY <1>6 DEF PublishLoop, LookUp, AskDecrypt, DecryptAcked, mapVars
<1>7. ASSUME NEW c \in Clients, NEW t \in Servers, Register(c, t) \/ Lose(c, t) \/ TakeAck(c, t)
      PROVE  UNCHANGED queue
  BY <1>7 DEF Register, Lose, TakeAck, RecvAck, RecvUnknownAck, RecvLateAck, mapVars
<1>8. ASSUME NEW c \in Clients, Start(c) \/ Crash(c) \/ Abandon(c) PROVE UNCHANGED queue
  BY <1>8 DEF Start, Crash, Abandon, mapVars
<1>9. CASE UNCHANGED vars
  BY <1>9, <1>2 DEF vars, mapVars
<1> QED
  BY <1>1, <1>2, <1>3, <1>4, <1>5, <1>6, <1>7, <1>8, <1>9 DEF Next, User

\* What the queue holds after such a step.
LEMMA QueueElems ==
    ASSUME MapTypes, NEW s \in Servers, QueueStep(s)
    PROVE  /\ \A c \in Clients : <<"NewCircuit", c>> \in Elems(queue'[s]) =>
                 <<"NewCircuit", c>> \in Elems(queue[s]) \/ c \in MayDial
           /\ \A c \in Clients : <<"NewProxy", c>> \in Elems(queue'[s]) =>
                 <<"NewProxy", c>> \in Elems(queue[s]) \/ (<<c, s>> \in asked /\ <<c, s>> \notin asked')
           /\ \A c \in Clients : Once(queue[s], {<<"NewProxy", c>>}) =>
                 \/ Once(queue'[s], {<<"NewProxy", c>>})
                 \/ <<"NewProxy", c>> \in Elems(queue[s]) /\ <<c, s>> \in asked
<1>0. queue[s] \in Seq(Kinds \X Clients)
  BY DEF MapTypes
<1>1. CASE queue'[s] = queue[s]
  BY <1>1
<1>2. CASE queue[s] # <<>> /\ queue'[s] = Tail(queue[s])
  <2>1. Elems(queue[s]) = Elems(queue'[s]) \cup {Head(queue[s])}
    BY <1>0, <1>2, TailElems
  <2>2. \A c \in Clients : Once(queue[s], {<<"NewProxy", c>>}) => Once(queue'[s], {<<"NewProxy", c>>})
    BY <1>0, <1>2, TailOnce
  <2> QED
    BY <2>1, <2>2
<1>3. ASSUME NEW x \in Kinds \X Clients, queue'[s] = Append(queue[s], x)
      PROVE  /\ Elems(queue'[s]) = Elems(queue[s]) \cup {x}
             /\ \A c \in Clients : Once(queue[s], {<<"NewProxy", c>>}) =>
                   \/ Once(queue'[s], {<<"NewProxy", c>>})
                   \/ x = <<"NewProxy", c>> /\ x \in Elems(queue[s])
  <2>1. Elems(queue'[s]) = Elems(queue[s]) \cup {x}
    BY <1>0, <1>3, AppendElems
  <2>2. ASSUME NEW c \in Clients, Once(queue[s], {<<"NewProxy", c>>}),
               x # <<"NewProxy", c>> \/ x \notin Elems(queue[s])
        PROVE  Once(queue'[s], {<<"NewProxy", c>>})
    <3>1. x \in {<<"NewProxy", c>>} => x \notin Elems(queue[s])
      BY <2>2
    <3> QED
      BY <1>0, <1>3, <2>2, <3>1, AppendOnce
  <2> QED
    BY <2>1, <2>2, Zenon
<1>4. ASSUME NEW d \in Clients, <<d, s>> \in asked, <<d, s>> \notin asked',
             queue'[s] = Append(queue[s], <<"NewProxy", d>>)
      PROVE  /\ \A x : x \in Elems(queue'[s]) <=> x \in Elems(queue[s]) \/ x = <<"NewProxy", d>>
             /\ \A c \in Clients : Once(queue[s], {<<"NewProxy", c>>}) =>
                 \/ Once(queue'[s], {<<"NewProxy", c>>})
                 \/ <<"NewProxy", c>> \in Elems(queue[s]) /\ <<c, s>> \in asked
  <2>1. <<"NewProxy", d>> \in Kinds \X Clients
    BY DEF Kinds
  <2>2. \A c \in Clients : <<"NewProxy", d>> = <<"NewProxy", c>> => c = d
    OBVIOUS
  <2>3. /\ Elems(queue'[s]) = Elems(queue[s]) \cup {<<"NewProxy", d>>}
        /\ \A c \in Clients : Once(queue[s], {<<"NewProxy", c>>}) =>
              \/ Once(queue'[s], {<<"NewProxy", c>>})
              \/ <<"NewProxy", d>> = <<"NewProxy", c>> /\ <<"NewProxy", d>> \in Elems(queue[s])
    BY <1>3, <1>4, <2>1, Zenon
  <2>4. \A c \in Clients : Once(queue[s], {<<"NewProxy", c>>}) =>
              \/ Once(queue'[s], {<<"NewProxy", c>>})
              \/ <<"NewProxy", c>> \in Elems(queue[s]) /\ <<c, s>> \in asked
    BY <1>4, <2>2, <2>3, Zenon
  <2> QED
    BY <2>3, <2>4
<1>5. ASSUME NEW k \in {"Disconnect", "NewCircuit"}, NEW d \in Clients,
             queue'[s] = Append(queue[s], <<k, d>>)
      PROVE  /\ \A x : x \in Elems(queue'[s]) <=> x \in Elems(queue[s]) \/ x = <<k, d>>
             /\ \A c \in Clients : Once(queue[s], {<<"NewProxy", c>>}) =>
                   Once(queue'[s], {<<"NewProxy", c>>})
  <2>1. <<k, d>> \in Kinds \X Clients /\ \A c \in Clients : <<k, d>> # <<"NewProxy", c>>
    BY DEF Kinds
  <2> QED
    BY <1>3, <1>5, <2>1
<1>6. CASE \E c \in Clients : /\ <<c, s>> \in asked /\ <<c, s>> \notin asked'
                              /\ queue'[s] = Append(queue[s], <<"NewProxy", c>>)
  BY <1>4, <1>6
<1>7. CASE \E c \in Clients : queue'[s] = Append(queue[s], <<"Disconnect", c>>)
  BY <1>5, <1>7
<1>8. CASE \E c \in MayDial : queue'[s] = Append(queue[s], <<"NewCircuit", c>>)
  BY <1>5, <1>8, RegistryAssumption
<1> QED
  BY <1>1, <1>2, <1>6, <1>7, <1>8 DEF QueueStep

\* What a broken connection takes away.
LEMMA PartFacts ==
    ASSUME NEW c \in Clients, NEW S \in SUBSET Servers, Part(c, S),
           NEW d \in Clients, NEW s \in Servers
    PROVE  /\ <<d, s>> \in link' <=> <<d, s>> \in link /\ ~(d = c /\ s \in S)
           /\ <<d, s>> \in asked' <=> <<d, s>> \in asked /\ ~(d = c /\ s \in S)
           /\ \A b \in BOOLEAN : <<d, s, b>> \in acks' => <<d, s, b>> \in acks
BY DEF Part

\* What a client that crashes or stops takes with it.
LEMMA LeaveFacts ==
    ASSUME AllTypes, NEW c \in Clients, Leave(c), NEW d \in Clients, NEW s \in Servers
    PROVE  /\ <<d, s>> \in link' <=> <<d, s>> \in link /\ d # c
           /\ <<d, s>> \in asked' <=> <<d, s>> \in asked /\ d # c
           /\ <<d, s>> \in lost' <=> <<d, s>> \in lost /\ d # c
           /\ \A b \in BOOLEAN : <<d, s, b>> \in acks' => <<d, s, b>> \in acks
           /\ calling'[c] = Nobody /\ bus'[c] = "none"
           /\ d # c => calling'[d] = calling[d] /\ bus'[d] = bus[d]
<1>1. Part(c, Servers) /\ lost' = {x \in lost : x[1] # c}
  BY DEF Leave
<1>2. <<d, s>> \in lost' <=> <<d, s>> \in lost /\ d # c
  BY <1>1
<1>3. /\ calling'[c] = Nobody /\ bus'[c] = "none"
      /\ d # c => calling'[d] = calling[d] /\ bus'[d] = bus[d]
  BY DEF Leave, AllTypes, ClientTypes
<1> QED
  BY <1>1, <1>2, <1>3, PartFacts

-----------------------------------------------------------------------------
(* Reached.                                                                   *)

\* Reached is kept by what leaves the calls and the connections of a client.
LEMMA ReachedKept ==
    ASSUME NEW d \in Clients, Reached(d),
           life'[d] = life[d], calling'[d] = calling[d], proxyId'[d] = proxyId[d],
           \A s \in Servers : <<d, s>> \in asked \/ <<d, s>> \in link \/ <<d, s>> \in lost =>
               <<d, s>> \in asked' \/ <<d, s>> \in link' \/ <<d, s>> \in lost'
    PROVE  Reached(d)'
BY DEF Reached, Up

\* It is kept by a client that crashes or stops.
LEMMA LeaveReached ==
    ASSUME AllTypes, NEW c \in Clients, Leave(c), life'[c] # "on",
           life'[c] = "off" => proxyId'[c] = Nobody,
           NEW d \in Clients, Reached(d), d # c => life'[d] = life[d] /\ proxyId'[d] = proxyId[d]
    PROVE  Reached(d)'
<1>1. CASE d = c
  <2>1. calling'[c] = Nobody
    BY DEF Leave, AllTypes, ClientTypes
  <2> QED
    BY <1>1, <2>1 DEF Reached, Up
<1>2. CASE d # c
  <2>1. \A s \in Servers : /\ <<d, s>> \in link' <=> <<d, s>> \in link
                           /\ <<d, s>> \in asked' <=> <<d, s>> \in asked
                           /\ <<d, s>> \in lost' <=> <<d, s>> \in lost
    BY <1>2, LeaveFacts
  <2>2. calling'[d] = calling[d]
    BY <1>2 DEF Leave, AllTypes, ClientTypes
  <2> QED
    BY <1>2, <2>1, <2>2, ReachedKept
<1> QED
  BY <1>1, <1>2

\* Every step of the system keeps Reached.
LEMMA ReachedOK ==
    ASSUME AllTypes, NEW d \in Clients, Reached(d), [Next]_vars
    PROVE  Reached(d)'
<1> USE DEF AllTypes
<1>0. ASSUME UNCHANGED <<life, calling, proxyId, asked, link, lost>> PROVE Reached(d)'
  BY <1>0, ReachedKept
<1>1. ASSUME NEW s \in Servers, ProxyLoop(s) \/ PublishLoop(s) PROVE Reached(d)'
  <2>1. UNCHANGED <<life, calling, proxyId, asked, link, lost>>
    BY <1>1 DEF ProxyLoop, RefuseProxy, InsertPeer, InsertWn, RemovePeer, RemoveWn, Join, JoinHangs,
         SinkJoined,
         CircuitFails, UnknownCaller, CalleeJoined, NegAcked, PublishLoop, LookUp, AskDecrypt,
         DecryptAcked, clientVars, netVars
  <2> QED
    BY <2>1, <1>0
<1>2. ASSUME NEW c \in Clients, NEW s \in Servers, Register(c, s) PROVE Reached(d)'
  <2>1. /\ calling'[c] = s /\ asked' = asked \cup {<<c, s>>} /\ lost' = lost \ {<<c, s>>}
        /\ life[c] = "on"
        /\ d # c => calling'[d] = calling[d]
        /\ UNCHANGED <<life, proxyId, link>>
    BY <1>2 DEF Register, ClientTypes, Up
  <2>2. CASE d = c
    BY <2>1, <2>2, RegistryAssumption DEF Reached, Up
  <2>3. CASE d # c
    BY <2>1, <2>3, ReachedKept
  <2> QED
    BY <2>2, <2>3
<1>3. ASSUME NEW c \in Clients, NEW s \in Servers, Lose(c, s) PROVE Reached(d)'
  <2>1. /\ Part(c, {s}) /\ lost' = lost \cup {<<c, s>>} /\ UNCHANGED <<life, calling, proxyId>>
    BY <1>3 DEF Lose, clientVars
  <2>2. \A t \in Servers : <<d, t>> \in asked \/ <<d, t>> \in link \/ <<d, t>> \in lost =>
               <<d, t>> \in asked' \/ <<d, t>> \in link' \/ <<d, t>> \in lost'
    BY <2>1, PartFacts
  <2> QED
    BY <2>1, <2>2, ReachedKept
<1>4. ASSUME NEW c \in Clients, NEW s \in Servers, Arrive(c, s) PROVE Reached(d)'
  <2>1. /\ link' = link \cup {<<c, s>>} /\ asked' = asked \ {<<c, s>>}
        /\ UNCHANGED <<life, calling, proxyId, lost>>
    BY <1>4 DEF Arrive, clientVars
  <2> QED
    BY <2>1, ReachedKept
<1>5. ASSUME NEW c \in Clients, NEW s \in Servers, DropStale(c, s) PROVE Reached(d)'
  BY <1>5, <1>0 DEF DropStale, clientVars
<1>6. ASSUME NEW c \in Clients, NEW s \in Servers, NEW b \in BOOLEAN, RecvAck(c, s, b) PROVE Reached(d)'
  <2>1. /\ calling'[c] = Nobody /\ calling[c] # Nobody
        /\ proxyId'[c] \in {calling[c], proxyId[c]}
        /\ d # c => calling'[d] = calling[d] /\ proxyId'[d] = proxyId[d]
        /\ UNCHANGED <<life, asked, link, lost>>
    BY <1>6 DEF RecvAck, ClientTypes
  <2>2. CASE d = c
    BY <2>1, <2>2, RegistryAssumption DEF Reached, Up
  <2>3. CASE d # c
    BY <2>1, <2>3, ReachedKept
  <2> QED
    BY <2>2, <2>3
<1>7. ASSUME NEW c \in Clients, NEW s \in Servers, NEW b \in BOOLEAN, RecvUnknownAck(c, s, b)
      PROVE  Reached(d)'
  BY <1>7, <1>0 DEF RecvUnknownAck, clientVars
<1>8. ASSUME NEW c \in Clients, NEW s \in Servers, NEW b \in BOOLEAN, RecvLateAck(c, s, b)
      PROVE  Reached(d)'
  <2>1. /\ Leave(c) /\ life'[c] = "panicked"
        /\ d # c => life'[d] = life[d]
        /\ UNCHANGED proxyId
    BY <1>8 DEF RecvLateAck, ClientTypes
  <2> QED
    BY <2>1, LeaveReached
<1>9. ASSUME NEW c \in Clients, Crash(c) PROVE Reached(d)'
  <2>1. /\ Leave(c) /\ life'[c] = "off" /\ proxyId'[c] = Nobody
        /\ d # c => life'[d] = life[d] /\ proxyId'[d] = proxyId[d]
    BY <1>9 DEF Crash, ClientTypes
  <2> QED
    BY <2>1, LeaveReached
<1>10. ASSUME NEW c \in Clients, Start(c) PROVE Reached(d)'
  <2>1. /\ life[c] = "off" /\ life'[c] = "on"
        /\ d # c => life'[d] = life[d]
        /\ UNCHANGED <<calling, proxyId, asked, link, lost>>
    BY <1>10 DEF Start, ClientTypes, netVars
  <2>2. CASE d = c
    BY <2>1, <2>2, RegistryAssumption DEF Reached, Up
  <2>3. CASE d # c
    BY <2>1, <2>3, ReachedKept
  <2> QED
    BY <2>2, <2>3
<1>11. ASSUME NEW c \in Clients, Abandon(c) PROVE Reached(d)'
  <2>1. /\ calling'[c] = Nobody
        /\ d # c => calling'[d] = calling[d]
        /\ UNCHANGED <<life, proxyId, asked, link, lost>>
    BY <1>11 DEF Abandon, ClientTypes, netVars
  <2>2. CASE d = c
    BY <2>1, <2>2, RegistryAssumption DEF Reached, Up
  <2>3. CASE d # c
    BY <2>1, <2>3, ReachedKept
  <2> QED
    BY <2>2, <2>3
<1>12. ASSUME NEW c \in Clients, DialCircuit(c) PROVE Reached(d)'
  <2>1. link \subseteq link' /\ UNCHANGED <<life, calling, proxyId, asked, lost>>
    BY <1>12 DEF DialCircuit
  <2> QED
    BY <2>1, ReachedKept
<1>13. CASE UNCHANGED vars
  BY <1>13, <1>0 DEF vars, clientVars, netVars
<1> QED
  BY <1>1, <1>2, <1>3, <1>4, <1>5, <1>6, <1>7, <1>8, <1>9, <1>10, <1>11, <1>12, <1>13
  DEF Next, User, TakeAck

-----------------------------------------------------------------------------
(* Known.                                                                     *)

\* After a NewProxy the client will be listed.
LEMMA AppendNewProxy ==
    ASSUME NEW S, NEW q \in Seq(S), NEW W, NEW c, <<"NewProxy", c>> \in S
    PROVE  WillIn(Append(q, <<"NewProxy", c>>), W, c)
<1> DEFINE x == <<"NewProxy", c>>
           n == Len(q) + 1
<1>1. /\ Append(q, x)[n] = x
      /\ DOMAIN Append(q, x) = 1..n /\ n \in Nat \ {0}
  OBVIOUS
<1>2. n \in AboutIn(Append(q, x), c)
  BY <1>1 DEF AboutIn, Word
<1>3. \A i \in AboutIn(Append(q, x), c) : i <= n
  BY <1>1 DEF AboutIn
<1> QED
  BY <1>1, <1>2, <1>3 DEF WillIn

\* A step that brings no connection and takes no promise away.
LEMMA KnownKept ==
    ASSUME NEW s \in Servers, NEW d \in Clients, Known(s, d), Same(s, d), swarm' \subseteq swarm,
           <<d, s>> \in link' /\ <<d, s>> \notin lost' =>
               /\ <<d, s>> \in link /\ <<d, s>> \notin lost
               /\ <<d, s>> \in asked => <<d, s>> \in asked'
    PROVE  Known(s, d)'
BY DEF Known, Same

\* Every step of the system keeps Known.
LEMMA KnownOK ==
    ASSUME AllTypes, MapInv, NEW s \in Servers, NEW d \in Clients, Known(s, d), Reached(d),
           [Next]_vars
    PROVE  Known(s, d)'
<1> USE DEF AllTypes
<1>q. queue \in [Servers -> Seq(Kinds \X Clients)]
  BY DEF MapInv, MapTypes
<1>0. ASSUME UNCHANGED <<queue, wnMap, link, lost>>, swarm' \subseteq swarm, asked \subseteq asked'
      PROVE  Known(s, d)'
  BY <1>0, KnownKept DEF Same
<1>1. ASSUME NEW t \in Servers, ProxyLoop(t) PROVE Known(s, d)'
  <2>1. Same(s, d)
    BY <1>1, LoopKeepsWord
  <2>2. swarm' \subseteq swarm /\ UNCHANGED <<link, lost, asked>>
    BY <1>1 DEF ProxyLoop, RefuseProxy, InsertPeer, InsertWn, RemovePeer, RemoveWn, Join, JoinHangs,
         SinkJoined,
                CircuitFails, UnknownCaller, CalleeJoined, NegAcked, Gossip, netVars, pubVars
  <2> QED
    BY <2>1, <2>2, KnownKept
<1>2. ASSUME NEW t \in Servers, PublishLoop(t) PROVE Known(s, d)'
  BY <1>2, <1>0 DEF PublishLoop, LookUp, AskDecrypt, DecryptAcked, mapVars, netVars
<1>3. ASSUME NEW c \in Clients, NEW t \in Servers, Register(c, t) PROVE Known(s, d)'
  <2>1. /\ asked' = asked \cup {<<c, t>>} /\ lost' = lost \ {<<c, t>>}
        /\ UNCHANGED <<queue, wnMap, link, swarm>>
    BY <1>3 DEF Register, mapVars, pubVars
  <2> QED
    BY <2>1 DEF Known
<1>4. ASSUME NEW c \in Clients, NEW t \in Servers, Lose(c, t) PROVE Known(s, d)'
  <2>1. /\ Part(c, {t}) /\ lost' = lost \cup {<<c, t>>} /\ UNCHANGED <<queue, wnMap, swarm>>
    BY <1>4 DEF Lose
  <2>2. <<d, s>> \in link' /\ <<d, s>> \notin lost' =>
               /\ <<d, s>> \in link /\ <<d, s>> \notin lost
               /\ <<d, s>> \in asked => <<d, s>> \in asked'
    BY <2>1, PartFacts
  <2> QED
    BY <2>1, <2>2, KnownKept DEF Same
<1>5. ASSUME NEW c \in Clients, Leave(c), UNCHANGED <<queue, wnMap, swarm>> PROVE Known(s, d)'
  <2>1. <<d, s>> \in link' /\ <<d, s>> \notin lost' =>
               /\ <<d, s>> \in link /\ <<d, s>> \notin lost
               /\ <<d, s>> \in asked => <<d, s>> \in asked'
    BY <1>5, LeaveFacts
  <2> QED
    BY <1>5, <2>1, KnownKept DEF Same
<1>6. ASSUME NEW c \in Clients, NEW t \in Servers, Arrive(c, t) PROVE Known(s, d)'
  <2>1. /\ link' = link \cup {<<c, t>>} /\ asked' = asked \ {<<c, t>>}
        /\ queue' = [queue EXCEPT ![t] = Append(@, <<"NewProxy", c>>)]
        /\ UNCHANGED <<lost, wnMap, swarm>>
    BY <1>6 DEF Arrive, pubVars
  <2>2. <<"NewProxy", c>> \in Kinds \X Clients /\ (d # c => ~Word(<<"NewProxy", c>>, d))
    BY DEF Kinds, Word
  <2>3. CASE s = t /\ d = c
    BY <1>q, <2>1, <2>2, <2>3, AppendNewProxy DEF Known
  <2>4. CASE s # t \/ d # c
    <3>1. Same(s, d)
      BY <1>q, <2>1, <2>2, <2>4, AppendOther DEF Same
    <3> QED
      BY <2>1, <2>4, <3>1, KnownKept
  <2> QED
    BY <2>3, <2>4
<1>7. ASSUME NEW c \in Clients, NEW t \in Servers, DropStale(c, t) PROVE Known(s, d)'
  <2>1. /\ \/ queue' = queue
           \/ <<c, t>> \notin link /\ queue' = [queue EXCEPT ![t] = Append(@, <<"Disconnect", c>>)]
        /\ UNCHANGED <<link, lost, asked, wnMap, swarm>>
    BY <1>7 DEF DropStale, LastConnection, pubVars
  <2>2. <<"Disconnect", c>> \in Kinds \X Clients /\ (d # c => ~Word(<<"Disconnect", c>>, d))
    BY DEF Kinds, Word
  <2>3. CASE <<d, s>> \notin link
    BY <2>1, <2>3 DEF Known
  <2>4. CASE <<d, s>> \in link
    <3>1. CASE queue'[s] = queue[s]
      BY <2>1, <3>1, KnownKept DEF Same
    <3>2. CASE queue'[s] # queue[s]
      <4>1. d # c /\ queue'[s] = Append(queue[s], <<"Disconnect", c>>)
        BY <1>q, <2>1, <2>4, <3>2
      <4>2. WillIn(Append(queue[s], <<"Disconnect", c>>), wnMap[s], d) <=> WillIn(queue[s], wnMap[s], d)
        BY <1>q, <2>2, <4>1, AppendOther
      <4>3. Same(s, d)
        BY <2>1, <4>1, <4>2 DEF Same
      <4> QED
        BY <2>1, <4>3, KnownKept
    <3> QED
      BY <3>1, <3>2
  <2> QED
    BY <2>3, <2>4
<1>8. ASSUME NEW c \in Clients, NEW t \in Servers, NEW b \in BOOLEAN, RecvAck(c, t, b)
      PROVE  Known(s, d)'
  BY <1>8, <1>0 DEF RecvAck, mapVars, pubVars
<1>9. ASSUME NEW c \in Clients, NEW t \in Servers, NEW b \in BOOLEAN, RecvUnknownAck(c, t, b)
      PROVE  Known(s, d)'
  BY <1>9, <1>0 DEF RecvUnknownAck, mapVars, pubVars
<1>10. ASSUME NEW c \in Clients, NEW t \in Servers, NEW b \in BOOLEAN, RecvLateAck(c, t, b)
       PROVE  Known(s, d)'
  BY <1>10, <1>5 DEF RecvLateAck
<1>11. ASSUME NEW c \in Clients, Crash(c) PROVE Known(s, d)'
  BY <1>11, <1>5 DEF Crash
<1>12. ASSUME NEW c \in Clients, Start(c) \/ Abandon(c) PROVE Known(s, d)'
  BY <1>12, <1>0 DEF Start, Abandon, netVars, mapVars, pubVars
<1>13. ASSUME NEW c \in Clients, DialCircuit(c) PROVE Known(s, d)'
  <2> DEFINE t == proxyId[c]
  <2>1. /\ link' = link \cup {<<c, t>>} /\ Up(c) /\ t \in Servers
        /\ queue' = [queue EXCEPT ![t] = Append(@, <<"NewCircuit", c>>)]
        /\ UNCHANGED <<lost, asked, wnMap, swarm>>
    BY <1>13 DEF DialCircuit, pubVars, PubTypes
  <2>2. <<"NewCircuit", c>> \in Kinds \X Clients /\ ~Word(<<"NewCircuit", c>>, d)
    BY DEF Kinds, Word
  <2>3. Same(s, d)
    BY <1>q, <2>1, <2>2, AppendOther DEF Same
  <2>4. CASE s = t /\ d = c
    BY <2>1, <2>3, <2>4 DEF Known, Same, Reached
  <2>5. CASE s # t \/ d # c
    BY <2>1, <2>3, <2>5, KnownKept
  <2> QED
    BY <2>4, <2>5
<1>14. CASE UNCHANGED vars
  BY <1>14, <1>0 DEF vars, netVars, mapVars, pubVars
<1> QED
  BY <1>1, <1>2, <1>3, <1>4, <1>6, <1>7, <1>8, <1>9, <1>10, <1>11, <1>12, <1>13, <1>14
  DEF Next, User, TakeAck

-----------------------------------------------------------------------------
(* Welcome and AskedOnce.                                                     *)

\* d enters the map of s with its request, and asks s by a call of register.
MapStep(s, d) ==
    /\ d \in wnMap'[s] =>
          \/ d \in wnMap[s]
          \/ /\ queue[s] # <<>> /\ Head(queue[s]) = <<"NewProxy", d>>
             /\ queue'[s] = Tail(queue[s]) /\ asked' = asked
    /\ <<d, s>> \in asked' =>
          <<d, s>> \in asked \/ (calls'[<<d, s>>] # calls[<<d, s>>] /\ UNCHANGED <<queue, wnMap>>)
    /\ calls'[<<d, s>>] \in {calls[<<d, s>>], calls[<<d, s>>] + 1}

\* A client enters a map, or asks to, only as MapStep says.
LEMMA MapSteps ==
    ASSUME AllTypes, MapInv, [Next]_vars, NEW s \in Servers, NEW d \in Clients
    PROVE  MapStep(s, d)
<1> USE DEF AllTypes
<1>0. /\ queue \in [Servers -> Seq(Kinds \X Clients)] /\ wnMap \in [Servers -> SUBSET Clients]
      /\ calls[<<d, s>>] \in Nat
  BY RegistryAssumption DEF MapInv, MapTypes, ClientTypes
<1>1. ASSUME wnMap'[s] \subseteq wnMap[s], <<d, s>> \in asked' => <<d, s>> \in asked, UNCHANGED calls
      PROVE  MapStep(s, d)
  BY <1>1 DEF MapStep
<1>2. ASSUME NEW t \in Servers, ProxyLoop(t) PROVE MapStep(s, d)
  <2> PICK c \in Clients :
        \/ RefuseProxy(t, c) \/ InsertPeer(t, c) \/ InsertWn(t, c) \/ RemovePeer(t, c)
        \/ RemoveWn(t, c) \/ CircuitFails(t, c) \/ UnknownCaller(t, c) \/ Join(t, c)
        \/ JoinHangs(t, c) \/ CalleeJoined(t, c) \/ SinkJoined(t, c) \/ NegAcked(t, c)
    BY <1>2 DEF ProxyLoop
  <2>1. UNCHANGED <<asked, calls>>
    BY DEF RefuseProxy, InsertPeer, InsertWn, RemovePeer, RemoveWn, Join, JoinHangs,
           SinkJoined, CircuitFails,
           UnknownCaller, CalleeJoined, NegAcked, netVars, clientVars
  <2>2. CASE InsertWn(t, c)
    <3>1. /\ queue[t] # <<>> /\ Head(queue[t]) = <<"NewProxy", c>>
          /\ queue' = [queue EXCEPT ![t] = Tail(@)] /\ wnMap' = [wnMap EXCEPT ![t] = @ \cup {c}]
      BY <2>2 DEF InsertWn, Current, Done
    <3> QED
      BY <1>0, <2>1, <3>1 DEF MapStep
  <2>3. CASE RemoveWn(t, c)
    <3>1. wnMap' = [wnMap EXCEPT ![t] = @ \ {c}]
      BY <2>3 DEF RemoveWn, DeleteWn
    <3>2. wnMap'[s] \subseteq wnMap[s]
      BY <1>0, <3>1
    <3> QED
      BY <1>1, <2>1, <3>2
  <2>4. CASE ~InsertWn(t, c) /\ ~RemoveWn(t, c)
    <3>1. UNCHANGED wnMap
      BY <2>4 DEF RefuseProxy, InsertPeer, RemovePeer, Join, JoinHangs, SinkJoined, CircuitFails, UnknownCaller,
             CalleeJoined, NegAcked
    <3> QED
      BY <1>1, <2>1, <3>1
  <2> QED
    BY <2>2, <2>3, <2>4
<1>3. ASSUME NEW t \in Servers, PublishLoop(t) PROVE MapStep(s, d)
  BY <1>3, <1>1 DEF PublishLoop, LookUp, AskDecrypt, DecryptAcked, mapVars, netVars, clientVars
<1>4. ASSUME NEW c \in Clients, NEW t \in Servers, Register(c, t) PROVE MapStep(s, d)
  <2>1. /\ asked' = asked \cup {<<c, t>>} /\ UNCHANGED <<queue, wnMap>>
        /\ calls' = [calls EXCEPT ![<<c, t>>] = @ + 1] /\ calls \in [Clients \X Servers -> Nat]
    BY <1>4 DEF Register, mapVars, ClientTypes
  <2>2. calls'[<<d, s>>] = IF <<d, s>> = <<c, t>> THEN calls[<<d, s>>] + 1 ELSE calls[<<d, s>>]
    BY <2>1
  <2> QED
    BY <1>0, <2>1, <2>2 DEF MapStep
<1>5. ASSUME NEW c \in Clients, NEW t \in Servers, Lose(c, t) PROVE MapStep(s, d)
  <2>1. Part(c, {t}) /\ UNCHANGED <<wnMap, calls>>
    BY <1>5 DEF Lose, clientVars
  <2> QED
    BY <2>1, <1>1, PartFacts
<1>6. ASSUME NEW c \in Clients, Leave(c), UNCHANGED <<wnMap, calls>> PROVE MapStep(s, d)
  BY <1>6, <1>1, LeaveFacts
<1>7. ASSUME NEW c \in Clients, NEW t \in Servers, Arrive(c, t) \/ DropStale(c, t)
      PROVE  MapStep(s, d)
  BY <1>7, <1>1 DEF Arrive, DropStale, clientVars
<1>8. ASSUME NEW c \in Clients, NEW t \in Servers, NEW b \in BOOLEAN,
             RecvAck(c, t, b) \/ RecvUnknownAck(c, t, b) PROVE MapStep(s, d)
  BY <1>8, <1>1 DEF RecvAck, RecvUnknownAck, mapVars, clientVars
<1>9. ASSUME NEW c \in Clients, NEW t \in Servers, NEW b \in BOOLEAN, RecvLateAck(c, t, b)
      PROVE  MapStep(s, d)
  BY <1>9, <1>6 DEF RecvLateAck
<1>10. ASSUME NEW c \in Clients, Crash(c) PROVE MapStep(s, d)
  BY <1>10, <1>6 DEF Crash
<1>11. ASSUME NEW c \in Clients, Start(c) \/ Abandon(c) \/ DialCircuit(c) PROVE MapStep(s, d)
  BY <1>11, <1>1 DEF Start, Abandon, DialCircuit, netVars, mapVars
<1>12. CASE UNCHANGED vars
  BY <1>12, <1>1 DEF vars, netVars, mapVars, clientVars
<1> QED
  BY <1>2, <1>3, <1>4, <1>5, <1>7, <1>8, <1>9, <1>10, <1>11, <1>12 DEF Next, User, TakeAck

\* The one NewProxy stays one.
LEMMA AskedOnceOK ==
    ASSUME AllTypes, MapInv, [Next]_vars, NEW s \in Servers, NEW d \in Clients,
           AskedOnce(s, d), calls'[<<d, s>>] <= 1
    PROVE  AskedOnce(s, d)'
<1> DEFINE np == <<"NewProxy", d>>
           k == calls[<<d, s>>]
<1>0. queue[s] \in Seq(Kinds \X Clients) /\ k \in Nat
  BY DEF MapInv, MapTypes, AllTypes, ClientTypes
<1>1. MapStep(s, d)
  BY MapSteps
<1>2. QueueStep(s)
  BY QueueSteps DEF MapInv
<1>3. /\ np \in Elems(queue'[s]) => np \in Elems(queue[s]) \/ (<<d, s>> \in asked /\ <<d, s>> \notin asked')
      /\ Once(queue[s], {np}) =>
            Once(queue'[s], {np}) \/ (np \in Elems(queue[s]) /\ <<d, s>> \in asked)
  BY <1>2, QueueElems DEF MapInv
<1>4. Once(queue'[s], {np})
  BY <1>3 DEF AskedOnce
<1>5. CASE calls'[<<d, s>>] # k
  <2>1. k = 0 /\ calls'[<<d, s>>] = 1
    BY <1>0, <1>1, <1>5 DEF MapStep
  <2>2. <<d, s>> \notin asked /\ np \notin Elems(queue[s]) /\ d \notin wnMap[s]
    BY <2>1 DEF AskedOnce
  <2>3. np \notin Elems(queue'[s])
    BY <1>3, <2>2
  <2>4. d \notin wnMap'[s]
    <3>1. ASSUME d \in wnMap'[s] PROVE FALSE
      <4>1. queue[s] # <<>> /\ Head(queue[s]) = np
        BY <1>1, <2>2, <3>1 DEF MapStep
      <4>2. np \in Elems(queue[s])
        BY <1>0, <4>1, TailElems
      <4> QED
        BY <4>2, <2>2
    <3> QED
      BY <3>1
  <2> QED
    BY <1>0, <1>4, <2>1, <2>3, <2>4 DEF AskedOnce
<1>6. CASE calls'[<<d, s>>] = k
  <2>1. <<d, s>> \in asked' => <<d, s>> \in asked
    BY <1>1, <1>6 DEF MapStep
  <2>2. CASE d \in wnMap'[s] /\ d \notin wnMap[s]
    <3>1. /\ queue[s] # <<>> /\ Head(queue[s]) = np /\ queue'[s] = Tail(queue[s]) /\ asked' = asked
      BY <1>1, <2>2 DEF MapStep
    <3>2. np \in Elems(queue[s]) /\ np \notin Elems(queue'[s])
      BY <1>0, <3>1, TailElems, TailOnce DEF AskedOnce
    <3>3. <<d, s>> \notin asked /\ k # 0
      BY <3>2 DEF AskedOnce
    <3> QED
      BY <1>4, <1>6, <3>1, <3>2, <3>3 DEF AskedOnce
  <2>3. CASE d \in wnMap'[s] => d \in wnMap[s]
    BY <1>3, <1>4, <1>6, <2>1, <2>3 DEF AskedOnce
  <2> QED
    BY <2>2, <2>3
<1> QED
  BY <1>5, <1>6

\* Who sends a refusal, and who takes it.
RefusalStep(s, d) ==
    /\ <<d, s, FALSE>> \in acks' => <<d, s, FALSE>> \in acks \/ RefuseProxy(s, d)
    /\ <<d, s>> \in refused' => <<d, s>> \in refused \/ <<d, s, FALSE>> \in acks

\* A refusal comes from RefuseProxy, and only a client that got one is refused.
LEMMA RefusalSteps ==
    ASSUME AllTypes, [Next]_vars, NEW s \in Servers, NEW d \in Clients
    PROVE  RefusalStep(s, d)
<1>0. ASSUME UNCHANGED refused, <<d, s, FALSE>> \in acks' => <<d, s, FALSE>> \in acks
      PROVE  RefusalStep(s, d)
  BY <1>0 DEF RefusalStep
<1>1. ASSUME NEW t \in Servers, ProxyLoop(t) PROVE RefusalStep(s, d)
  <2> PICK c \in Clients :
        \/ RefuseProxy(t, c) \/ InsertPeer(t, c) \/ InsertWn(t, c) \/ RemovePeer(t, c)
        \/ RemoveWn(t, c) \/ CircuitFails(t, c) \/ UnknownCaller(t, c) \/ Join(t, c)
        \/ JoinHangs(t, c) \/ CalleeJoined(t, c) \/ SinkJoined(t, c) \/ NegAcked(t, c)
    BY <1>1 DEF ProxyLoop
  <2>1. UNCHANGED refused
    BY DEF RefuseProxy, InsertPeer, InsertWn, RemovePeer, RemoveWn, Join, JoinHangs,
         SinkJoined,
           CircuitFails, UnknownCaller, CalleeJoined, NegAcked, clientVars
  <2>2. CASE RefuseProxy(t, c)
    <3>1. acks' \subseteq acks \cup {<<c, t, FALSE>>}
      BY <2>2 DEF RefuseProxy, Ack
    <3> QED
      BY <2>1, <2>2, <3>1 DEF RefusalStep
  <2>3. CASE ~RefuseProxy(t, c)
    <3>1. acks' \subseteq acks \cup {<<c, t, TRUE>>}
      BY <2>3 DEF InsertPeer, InsertWn, RemovePeer, RemoveWn, Join, JoinHangs,
         SinkJoined,
           CircuitFails, UnknownCaller, CalleeJoined, NegAcked, netVars, Ack
    <3>2. <<d, s, FALSE>> # <<c, t, TRUE>>
      OBVIOUS
    <3> QED
      BY <1>0, <2>1, <3>1, <3>2
  <2> QED
    BY <2>2, <2>3
<1>2. ASSUME NEW t \in Servers, PublishLoop(t) PROVE RefusalStep(s, d)
  BY <1>2, <1>0 DEF PublishLoop, LookUp, AskDecrypt, DecryptAcked, netVars, clientVars
<1>3. ASSUME NEW c \in Clients, NEW t \in Servers, Register(c, t) PROVE RefusalStep(s, d)
  BY <1>3, <1>0 DEF Register
<1>4. ASSUME NEW c \in Clients, NEW t \in Servers, Lose(c, t) PROVE RefusalStep(s, d)
  <2>1. Part(c, {t}) /\ UNCHANGED refused
    BY <1>4 DEF Lose, clientVars
  <2> QED
    BY <2>1, <1>0, PartFacts
<1>5. ASSUME NEW c \in Clients, NEW t \in Servers, Arrive(c, t) \/ DropStale(c, t)
      PROVE  RefusalStep(s, d)
  BY <1>5, <1>0 DEF Arrive, DropStale, clientVars
<1>6. ASSUME NEW c \in Clients, NEW t \in Servers, NEW b \in BOOLEAN, RecvAck(c, t, b)
      PROVE  RefusalStep(s, d)
  <2>1. acks' \subseteq acks /\ <<c, t, b>> \in acks
    BY <1>6 DEF RecvAck
  <2>2. CASE b
    BY <1>6, <1>0, <2>1, <2>2 DEF RecvAck
  <2>3. CASE b = FALSE
    <3>1. refused' = refused \cup {<<c, t>>}
      BY <1>6, <2>3 DEF RecvAck
    <3>2. <<c, t, FALSE>> \in acks
      BY <2>1, <2>3
    <3>3. <<d, s>> = <<c, t>> => <<d, s, FALSE>> \in acks
      BY <3>2
    <3> QED
      BY <2>1, <3>1, <3>3 DEF RefusalStep
  <2> QED
    BY <2>2, <2>3
<1>7. ASSUME NEW c \in Clients, NEW t \in Servers, NEW b \in BOOLEAN, RecvUnknownAck(c, t, b)
      PROVE  RefusalStep(s, d)
  BY <1>7, <1>0 DEF RecvUnknownAck, clientVars
<1>8. ASSUME NEW c \in Clients, Leave(c), UNCHANGED refused PROVE RefusalStep(s, d)
  BY <1>8, <1>0, LeaveFacts
<1>9. ASSUME NEW c \in Clients, NEW t \in Servers, NEW b \in BOOLEAN, RecvLateAck(c, t, b)
      PROVE  RefusalStep(s, d)
  BY <1>9, <1>8 DEF RecvLateAck
<1>10. ASSUME NEW c \in Clients, Crash(c) PROVE RefusalStep(s, d)
  BY <1>10, <1>8 DEF Crash
<1>11. ASSUME NEW c \in Clients, Start(c) \/ Abandon(c) \/ DialCircuit(c) PROVE RefusalStep(s, d)
  BY <1>11, <1>0 DEF Start, Abandon, DialCircuit, netVars
<1>12. CASE UNCHANGED vars
  BY <1>12, <1>0 DEF vars, netVars, clientVars
<1> QED
  BY <1>1, <1>2, <1>3, <1>4, <1>5, <1>6, <1>7, <1>9, <1>10, <1>11, <1>12 DEF Next, User, TakeAck

\* A server does not refuse a client whose one NewProxy it has not dealt with.
LEMMA WelcomeOK ==
    ASSUME AllTypes, MapInv, [Next]_vars, NEW s \in Servers, NEW d \in Clients,
           AskedOnce(s, d), Welcome(s, d)
    PROVE  Welcome(s, d)'
<1>1. ~RefuseProxy(s, d)
  <2> SUFFICES ASSUME RefuseProxy(s, d) PROVE FALSE
    OBVIOUS
  <2>1. /\ queue[s] \in Seq(Kinds \X Clients) /\ queue[s] # <<>>
        /\ Head(queue[s]) = <<"NewProxy", d>> /\ d \in wnMap[s]
    BY DEF RefuseProxy, Current, AlreadyProxy, MapInv, MapTypes
  <2>2. <<"NewProxy", d>> \in Elems(queue[s])
    BY <2>1, TailElems
  <2> QED
    BY <2>1, <2>2 DEF AskedOnce
<1> QED
  BY <1>1, RefusalSteps DEF RefusalStep, Welcome

-----------------------------------------------------------------------------
\* Before any client is started the invariant holds.
LEMMA ClientInitOK == Init => ClientInv
<1> SUFFICES ASSUME Init PROVE ClientInv
  OBVIOUS
<1>1. TypeOK /\ MapInv
  BY MapInitOK, RegistryAssumption DEF Init, TypeOK, Kinds
<1>2. \A s \in Servers : queue[s] = <<>> /\ Elems(queue[s]) = {} /\ \A A : Once(queue[s], A)
  BY EmptyQueue DEF Init
<1>3. \A s \in Servers : Dialers(s)
  BY <1>2 DEF Dialers
<1>4. ASSUME NEW c \in Clients PROVE Reached(c)
  BY RegistryAssumption DEF Init, Reached, Up
<1>5. ASSUME NEW c \in Clients, NEW s \in Servers PROVE Known(s, c) /\ AskedOnce(s, c) /\ Welcome(s, c)
  BY <1>2 DEF Init, Known, AskedOnce, Welcome
<1> QED
  BY <1>1, <1>3, <1>4, <1>5 DEF ClientInv

\* Every step of the system keeps it.
LEMMA ClientNextOK == ClientInv /\ [Next]_vars => ClientInv'
<1> SUFFICES ASSUME ClientInv, [Next]_vars PROVE ClientInv'
  OBVIOUS
<1>1. AllTypes /\ MapTypes /\ MapInv
  BY TypeParts DEF ClientInv
<1>2. MapInv' /\ MapTypes'
  BY <1>1, MapNextOK DEF MapInv
<1>3. AllTypes'
  <2>1. ASSUME UNCHANGED vars PROVE AllTypes'
    BY <1>1, <2>1 DEF vars, clientVars, netVars, pubVars, AllTypes, ClientTypes, NetTypes, PubTypes
  <2> QED
    BY <1>1, <2>1, LoopTypes, SwarmTypes, UserTypes DEF Next, ClientInv
<1>4. TypeOK'
  BY <1>2, <1>3 DEF TypeOK, AllTypes, ClientTypes, NetTypes, PubTypes, MapTypes, Steps
<1>5. ASSUME NEW s \in Servers PROVE Dialers(s)'
  BY <1>1, QueueSteps, QueueElems DEF ClientInv, Dialers
<1>6. ASSUME NEW c \in Clients PROVE Reached(c)'
  BY <1>1, ReachedOK DEF ClientInv
<1>7. ASSUME NEW c \in Clients, NEW s \in Servers PROVE Known(s, c)'
  BY <1>1, KnownOK DEF ClientInv
<1>8. ASSUME NEW c \in Clients, NEW s \in Servers, calls'[<<c, s>>] <= 1
      PROVE  AskedOnce(s, c)' /\ Welcome(s, c)'
  <2>1. calls[<<c, s>>] \in Nat /\ calls'[<<c, s>>] \in {calls[<<c, s>>], calls[<<c, s>>] + 1}
    BY <1>1, MapSteps DEF MapStep, AllTypes, ClientTypes
  <2>2. calls[<<c, s>>] <= 1
    BY <1>8, <2>1
  <2>3. AskedOnce(s, c) /\ Welcome(s, c)
    BY <2>2 DEF ClientInv
  <2> QED
    BY <1>1, <1>8, <2>3, AskedOnceOK, WelcomeOK
<1> QED
  BY <1>2, <1>4, <1>5, <1>6, <1>7, <1>8 DEF ClientInv

\* So it holds always.
LEMMA ClientSafe == Spec => []ClientInv
BY ClientInitOK, ClientNextOK, PTL DEF Spec

\* Every variable keeps its type, and the event bus of a client has a live waiter
\* exactly while register_proxy waits.
THEOREM RegistryTypeCorrect == Spec => []TypeOK
<1>1. ClientInv => TypeOK
  BY DEF ClientInv
<1> QED
  BY <1>1, ClientSafe, PTL

\* A client that has lost no connection to its proxy since it last called register
\* there is listed once the queue is dealt with: no restart, loss or stale ack makes
\* the two disagree.
THEOREM ProxyKnowsClientHolds == Spec => []ProxyKnowsClient
<1>1. ClientInv => ProxyKnowsClient
  <2> SUFFICES ASSUME ClientInv, NEW c \in Clients, NEW s \in swarm, <<c, s>> \in link \ lost
               PROVE  WillList(s, c) \/ <<c, s>> \in asked
    BY DEF ProxyKnowsClient
  <2>1. s \in Servers /\ Known(s, c)
    BY DEF ClientInv, TypeOK
  <2> QED
    BY <2>1, WillInIs DEF Known
<1> QED
  BY <1>1, ClientSafe, PTL

\* register returns false only on the word of a server that the client had asked
\* before, for any clients, servers, restarts, lost connections and calls given up.
THEOREM RefusedOnlyIfAskedBeforeHolds == Spec => []RefusedOnlyIfAskedBefore
<1>1. ClientInv => RefusedOnlyIfAskedBefore
  <2> SUFFICES ASSUME ClientInv, NEW x \in refused PROVE calls[x] > 1
    BY DEF RefusedOnlyIfAskedBefore
  <2>1. PICK c \in Clients, s \in Servers : x = <<c, s>>
    BY DEF ClientInv, TypeOK
  <2>2. calls[<<c, s>>] \in Nat
    BY DEF ClientInv, TypeOK
  <2>3. ~(calls[<<c, s>>] <= 1)
    BY <2>1 DEF ClientInv, Welcome
  <2> QED
    BY <2>1, <2>2, <2>3
<1> QED
  BY <1>1, ClientSafe, PTL
=============================================================================
