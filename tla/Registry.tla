------------------------------ MODULE Registry ------------------------------
(* How clients register with a proxy and how a proxy forgets them: the queue  *)
(* of process_proxy_request, the two maps it keeps, the look-up that          *)
(* process_publish_request makes in one of them, and register_proxy with the  *)
(* event bus of the client.  A client's peer id, its WhiteNoise id and the    *)
(* hash of that id all come from its key pair, so the client stands for all   *)
(* three.                                                                     *)
EXTENDS Naturals, Sequences, FiniteSets

CONSTANTS
    Clients, Servers, Nobody,
    MayCrash,    \* clients that may crash and start again with the same key pair
    MayAbandon,  \* clients whose user may give up waiting for register
    MayLose,     \* clients that may lose a connection
    MayDial,     \* clients that dial a circuit
    Callee,      \* the client that they dial
    MaxStarts,   \* bound: processes that a client may start
    MaxCalls,    \* bound: its calls of register on each server
    MaxDials     \* bound: its calls of dial

ASSUME RegistryAssumption ==
    /\ Nobody \notin Clients \cup Servers
    /\ MayCrash \subseteq Clients /\ MayAbandon \subseteq Clients
    /\ MayLose \subseteq Clients
    /\ MayDial \subseteq Clients /\ Callee \in [MayDial -> Clients]
    /\ \A c \in MayDial : Callee[c] # c
    /\ MaxStarts \in Nat \ {0} /\ MaxDials \in Nat
    /\ MaxCalls \in [Clients \X Servers -> Nat]

VARIABLES
    starts,    \* processes the client has started
    calls,     \* its calls of register on each server
    life,      \* its process: off, on, or its swarm has panicked
    link,      \* connections of running clients to servers
    stale,     \* dead connections that the server still keeps
    lost,      \* history: connections lost since the client last called register there
    calling,   \* the server that register_proxy waits for
    bus,       \* the waiter in the client's event bus, and whether it still waits
    proxyId,   \* proxy_id of the client
    refused,   \* history: servers whose ack made register return false
    asked,     \* NewProxy requests on their way
    acks,      \* acks on their way
    dialed,    \* its calls of dial
    queue,     \* proxy_request_channel
    step,      \* process_proxy_request, within the request at the head
    asks,      \* the client that handle_new_circuit waited for last, or Nobody: a sink
    peerMap,   \* client_peer_map
    wnMap,     \* client_wn_map
    gossip,    \* publish_channel: destinations of negotiations
    pub,       \* process_publish_request
    looking,   \* the destination it deals with
    swarm      \* servers whose swarm runs

clientVars == <<starts, calls, life, calling, bus, proxyId, refused, dialed>>
netVars == <<link, stale, lost, asked, acks>>
mapVars == <<queue, step, peerMap, wnMap>>
pubVars == <<gossip, pub, looking, swarm>>
vars == <<clientVars, netVars, mapVars, asks, pubVars>>

Kinds == {"NewProxy", "Disconnect", "NewCircuit"}

\* The types, and one waiter in the event bus for each call that waits.
TypeOK ==
    /\ starts \in [Clients -> 0..MaxStarts]
    /\ calls \in [Clients \X Servers -> Nat]
    /\ \A x \in Clients \X Servers : calls[x] <= MaxCalls[x]
    /\ life \in [Clients -> {"off", "on", "panicked"}]
    /\ link \in SUBSET (Clients \X Servers)
    /\ stale \in SUBSET (Clients \X Servers)
    /\ calling \in [Clients -> Servers \cup {Nobody}]
    /\ bus \in [Clients -> {"none", "live", "dropped"}]
    /\ \A c \in Clients : bus[c] = "live" <=> calling[c] # Nobody
    /\ proxyId \in [Clients -> Servers \cup {Nobody}]
    /\ refused \in SUBSET (Clients \X Servers)
    /\ lost \in SUBSET (Clients \X Servers)
    /\ asked \in SUBSET (Clients \X Servers)
    /\ acks \in SUBSET (Clients \X Servers \X BOOLEAN)
    /\ dialed \in [Clients -> 0..MaxDials]
    /\ queue \in [Servers -> Seq(Kinds \X Clients)]
    /\ step \in [Servers -> {"next", "insert", "remove", "joining", "asking", "stuck"}]
    /\ asks \in [Servers -> Clients \cup {Nobody}]
    /\ peerMap \in [Servers -> SUBSET Clients]
    /\ wnMap \in [Servers -> SUBSET Clients]
    /\ gossip \in [Servers -> SUBSET Clients]
    /\ pub \in [Servers -> {"next", "found", "asking", "stuck", "panicked"}]
    /\ looking \in [Servers -> Clients \cup {Nobody}]
    /\ swarm \in SUBSET Servers

Init ==
    /\ starts = [c \in Clients |-> 0] /\ calls = [x \in Clients \X Servers |-> 0]
    /\ life = [c \in Clients |-> "off"]
    /\ link = {} /\ stale = {} /\ lost = {} /\ asked = {} /\ acks = {} /\ refused = {}
    /\ dialed = [c \in Clients |-> 0]
    /\ calling = [c \in Clients |-> Nobody] /\ proxyId = [c \in Clients |-> Nobody]
    /\ bus = [c \in Clients |-> "none"]
    /\ queue = [s \in Servers |-> <<>>] /\ step = [s \in Servers |-> "next"]
    /\ peerMap = [s \in Servers |-> {}] /\ wnMap = [s \in Servers |-> {}]
    /\ asks = [s \in Servers |-> Nobody]
    /\ gossip = [s \in Servers |-> {}] /\ pub = [s \in Servers |-> "next"]
    /\ looking = [s \in Servers |-> Nobody]
    /\ swarm = Servers

Up(c) == life[c] = "on"
Connected(c, s) == <<c, s>> \in link \/ <<c, s>> \in stale

-----------------------------------------------------------------------------
(* The client: start-up, register_proxy, and its swarm.                       *)

Start(c) ==
    /\ life[c] = "off" /\ starts[c] < MaxStarts
    /\ life' = [life EXCEPT ![c] = "on"]
    /\ starts' = [starts EXCEPT ![c] = @ + 1]
    /\ UNCHANGED <<calls, calling, bus, proxyId, refused, dialed, netVars, mapVars, asks, pubVars>>

\* The key of a NewProxy request does not depend on the server: a waiter of an
\* earlier call that was given up is replaced.  A client that has a proxy may ask
\* it, or another server, again.
Register(c, s) ==
    /\ Up(c) /\ calling[c] = Nobody
    /\ calls[<<c, s>>] < MaxCalls[<<c, s>>]
    /\ <<c, s>> \notin asked  \* bound: one NewProxy on its way to a server at a time
    /\ calls' = [calls EXCEPT ![<<c, s>>] = @ + 1]
    /\ calling' = [calling EXCEPT ![c] = s]
    /\ bus' = [bus EXCEPT ![c] = "live"]
    /\ asked' = asked \cup {<<c, s>>}
    /\ lost' = lost \ {<<c, s>>}
    /\ UNCHANGED <<starts, life, proxyId, refused, dialed, link, stale, acks, mapVars, asks, pubVars>>

\* The future of the call is dropped; its sender stays in the event bus.
Abandon(c) ==
    /\ c \in MayAbandon /\ Up(c) /\ calling[c] # Nobody
    /\ calling' = [calling EXCEPT ![c] = Nobody]
    /\ bus' = [bus EXCEPT ![c] = "dropped"]
    /\ UNCHANGED <<starts, calls, life, proxyId, refused, dialed, netVars, mapVars, asks, pubVars>>

\* The connections of c to the servers S break.  A server does not notice at
\* once, and what it has asked of the client stays unanswered.
Part(c, S) ==
    LET gone(x) == x[1] = c /\ x[2] \in S IN
    /\ stale' = stale \cup {x \in link : gone(x)}
    /\ link' = {x \in link : ~gone(x)}
    /\ asked' = {x \in asked : ~gone(x)}
    /\ acks' = {x \in acks : ~gone(x)}
    /\ step' = [s \in Servers |-> IF s \in S /\ step[s] \in {"joining", "asking"} /\ asks[s] = c
                                    THEN "stuck" ELSE step[s]]
    /\ pub' = [s \in Servers |-> IF s \in S /\ pub[s] = "asking" /\ looking[s] = c
                                   THEN "stuck" ELSE pub[s]]

\* The process, or its swarm, ends.
Leave(c) ==
    /\ Part(c, Servers)
    /\ lost' = {x \in lost : x[1] # c}
    /\ calling' = [calling EXCEPT ![c] = Nobody]
    /\ bus' = [bus EXCEPT ![c] = "none"]

Lose(c, s) ==
    /\ c \in MayLose /\ <<c, s>> \in link
    /\ <<c, s>> \notin stale  \* bound: one dead connection at a time
    /\ Part(c, {s})
    /\ lost' = lost \cup {<<c, s>>}
    /\ UNCHANGED <<clientVars, queue, peerMap, wnMap, asks, gossip, looking, swarm>>

KeepWaiter(c) == UNCHANGED bus  \* mutant: get instead of remove

TakeWaiter(c) == bus' = [bus EXCEPT ![c] = "none"]

\* An ack whose waiter is there ends the call; register_proxy stores the peer that
\* it was called with.
RecvAck(c, s, b) ==
    /\ <<c, s, b>> \in acks /\ bus[c] = "live"
    /\ acks' = acks \ {<<c, s, b>>}
    /\ TakeWaiter(c)
    /\ calling' = [calling EXCEPT ![c] = Nobody]
    /\ IF b THEN proxyId' = [proxyId EXCEPT ![c] = calling[c]] /\ UNCHANGED refused
            ELSE refused' = refused \cup {<<c, s>>} /\ UNCHANGED proxyId
    /\ UNCHANGED <<starts, calls, life, dialed, link, stale, lost, asked, mapVars, asks, pubVars>>

\* No sender in the event bus: the ack is dropped.
RecvUnknownAck(c, s, b) ==
    /\ <<c, s, b>> \in acks /\ bus[c] = "none"
    /\ acks' = acks \ {<<c, s, b>>}
    /\ UNCHANGED <<clientVars, link, stale, lost, asked, mapVars, asks, pubVars>>

\* The waiter has been given up: sender.send(..).unwrap() panics in the swarm.
RecvLateAck(c, s, b) ==
    /\ <<c, s, b>> \in acks /\ bus[c] = "dropped"
    /\ life' = [life EXCEPT ![c] = "panicked"]
    /\ Leave(c)
    /\ UNCHANGED <<starts, calls, proxyId, refused, dialed, queue, peerMap, wnMap, asks, gossip,
                   looking, swarm>>

\* A dial, as far as the loop of the proxy is concerned.  It opens a connection if
\* the one of the registration is lost.
DialCircuit(c) ==
    LET s == proxyId[c] IN
    /\ c \in MayDial /\ dialed[c] < MaxDials /\ Up(c) /\ s # Nobody
    /\ s \in swarm
    /\ link' = link \cup {<<c, s>>}
    /\ dialed' = [dialed EXCEPT ![c] = @ + 1]
    /\ queue' = [queue EXCEPT ![s] = Append(@, <<"NewCircuit", c>>)]
    /\ UNCHANGED <<starts, calls, life, calling, bus, proxyId, refused, stale, lost, asked, acks,
                   step, peerMap, wnMap, asks, pubVars>>

Crash(c) ==
    /\ c \in MayCrash /\ life[c] # "off"
    /\ \A s \in Servers : <<c, s>> \notin stale  \* bound: one dead connection at a time
    /\ life' = [life EXCEPT ![c] = "off"]
    /\ proxyId' = [proxyId EXCEPT ![c] = Nobody]
    /\ Leave(c)
    /\ UNCHANGED <<starts, calls, refused, dialed, queue, peerMap, wnMap, asks, gossip, looking, swarm>>

-----------------------------------------------------------------------------
(* The network and the swarm of a server.                                     *)

\* The request opens a connection if there is none.
Arrive(c, s) ==
    /\ <<c, s>> \in asked /\ s \in swarm
    /\ asked' = asked \ {<<c, s>>}
    /\ link' = link \cup {<<c, s>>}
    /\ queue' = [queue EXCEPT ![s] = Append(@, <<"NewProxy", c>>)]
    /\ UNCHANGED <<clientVars, stale, lost, acks, step, peerMap, wnMap, asks, pubVars>>

NoReport(c, s) == UNCHANGED queue  \* mutant: inject_disconnected does nothing

\* mutant: each connection reports its end
EveryConnection(c, s) == queue' = [queue EXCEPT ![s] = Append(@, <<"Disconnect", c>>)]

\* inject_disconnected comes with the last connection of the peer.
LastConnection(c, s) ==
    queue' = IF <<c, s>> \in link THEN queue
                                  ELSE [queue EXCEPT ![s] = Append(@, <<"Disconnect", c>>)]

\* The server notices that a connection of a former process is dead.
DropStale(c, s) ==
    /\ <<c, s>> \in stale /\ s \in swarm
    /\ stale' = stale \ {<<c, s>>}
    /\ LastConnection(c, s)
    /\ UNCHANGED <<clientVars, link, lost, asked, acks, step, peerMap, wnMap, asks, pubVars>>

-----------------------------------------------------------------------------
(* process_proxy_request: one request after the other, each map under a lock  *)
(* of its own.                                                                *)

Current(s, k, c) == s \in swarm /\ queue[s] # <<>> /\ Head(queue[s]) = <<k, c>>
Done(s) == queue' = [queue EXCEPT ![s] = Tail(@)] /\ step' = [step EXCEPT ![s] = "next"]

NeverAcks(c, s, b) == UNCHANGED acks  \* mutant: the answer is forgotten

\* An ack takes one of the connections of the peer; on a dead one it is lost.
Ack(c, s, b) ==
    \/ <<c, s>> \in link /\ acks' = acks \cup {<<c, s, b>>}
    \/ (<<c, s>> \notin link \/ <<c, s>> \in stale) /\ UNCHANGED acks

AnyoneKnown(s, c) == wnMap[s] # {}  \* mutant: the map holds one client

AlreadyProxy(s, c) == c \in wnMap[s]

RefuseProxy(s, c) ==
    /\ step[s] = "next" /\ Current(s, "NewProxy", c) /\ AlreadyProxy(s, c)
    /\ Ack(c, s, FALSE)
    /\ Done(s)
    /\ UNCHANGED <<clientVars, link, stale, lost, asked, peerMap, wnMap, asks, pubVars>>

InsertPeer(s, c) ==
    /\ step[s] = "next" /\ Current(s, "NewProxy", c) /\ ~AlreadyProxy(s, c)
    /\ peerMap' = [peerMap EXCEPT ![s] = @ \cup {c}]
    /\ step' = [step EXCEPT ![s] = "insert"]
    /\ UNCHANGED <<clientVars, netVars, queue, wnMap, asks, pubVars>>

InsertWn(s, c) ==
    /\ step[s] = "insert" /\ Current(s, "NewProxy", c)
    /\ wnMap' = [wnMap EXCEPT ![s] = @ \cup {c}]
    /\ Ack(c, s, TRUE)
    /\ Done(s)
    /\ UNCHANGED <<clientVars, link, stale, lost, asked, peerMap, asks, pubVars>>

RemovePeer(s, c) ==
    /\ step[s] = "next" /\ Current(s, "Disconnect", c)
    /\ peerMap' = [peerMap EXCEPT ![s] = @ \ {c}]
    /\ IF c \in peerMap[s] THEN step' = [step EXCEPT ![s] = "remove"] /\ UNCHANGED queue
                           ELSE Done(s)
    /\ UNCHANGED <<clientVars, netVars, wnMap, asks, pubVars>>

KeepWn(s, c) == UNCHANGED wnMap  \* mutant: the second map is forgotten

DeleteWn(s, c) == wnMap' = [wnMap EXCEPT ![s] = @ \ {c}]

RemoveWn(s, c) ==
    /\ step[s] = "remove" /\ Current(s, "Disconnect", c)
    /\ DeleteWn(s, c)
    /\ Done(s)
    /\ UNCHANGED <<clientVars, netVars, peerMap, asks, pubVars>>

\* A request that awaits its answer takes one of the connections of the peer as an
\* ack does.  OutboundFailure is only logged: without an answer it waits for ever.
Awaiting(d, s) == (IF <<d, s>> \in link THEN {"asking"} ELSE {})
                     \cup (IF <<d, s>> \notin link \/ <<d, s>> \in stale THEN {"stuck"} ELSE {})

\* handle_new_circuit returns false: the session of the caller is gone or full,
\* the callee's stream did not open in five seconds, or none to a sink in three tries.
CircuitFails(s, c) ==
    /\ step[s] = "next" /\ Current(s, "NewCircuit", c) /\ c \in wnMap[s]
    /\ Done(s)
    /\ UNCHANGED <<clientVars, netVars, peerMap, wnMap, asks, pubVars>>

UnknownCaller(s, c) ==
    /\ step[s] = "next" /\ Current(s, "NewCircuit", c) /\ c \notin wnMap[s]
    /\ Done(s)
    /\ UNCHANGED <<clientVars, netVars, peerMap, wnMap, asks, pubVars>>

\* A stream opens to the callee if it is registered here too, else to a sink, and
\* new_session_to_peer waits for the ack of the SetSession it has written.
Join(s, c) ==
    LET direct == Callee[c] \in wnMap[s] IN
    /\ step[s] = "next" /\ Current(s, "NewCircuit", c) /\ c \in wnMap[s]
    /\ direct => <<Callee[c], s>> \in link
    /\ asks' = [asks EXCEPT ![s] = IF direct THEN Callee[c] ELSE Nobody]
    /\ step' = [step EXCEPT ![s] = "joining"]
    /\ UNCHANGED <<clientVars, netVars, queue, peerMap, wnMap, pubVars>>

\* The wait has no timeout, and its ack need not come: it is dropped if it arrives
\* before the key is in the event bus, and a peer may never send it.
JoinHangs(s, c) ==
    /\ step[s] = "joining" /\ Current(s, "NewCircuit", c)
    /\ step' = [step EXCEPT ![s] = "stuck"]
    /\ UNCHANGED <<clientVars, netVars, queue, peerMap, wnMap, asks, pubVars>>

\* The callee has joined: the circuit is there.
CalleeJoined(s, c) ==
    /\ step[s] = "joining" /\ Current(s, "NewCircuit", c) /\ asks[s] # Nobody
    /\ Done(s)
    /\ UNCHANGED <<clientVars, netVars, peerMap, wnMap, asks, pubVars>>

\* The sink has joined: the caller is asked for the encrypted negotiation.
SinkJoined(s, c) ==
    /\ step[s] = "joining" /\ Current(s, "NewCircuit", c) /\ asks[s] = Nobody
    /\ asks' = [asks EXCEPT ![s] = c]
    /\ \E x \in Awaiting(c, s) : step' = [step EXCEPT ![s] = x]
    /\ UNCHANGED <<clientVars, netVars, queue, peerMap, wnMap, pubVars>>

\* A negotiation for d reaches the other servers.  One whose publish loop is gone
\* panics in its swarm: unbounded_send(..).unwrap().
Gossip(s, d) ==
    /\ gossip' = [t \in Servers |-> IF t # s /\ t \in swarm THEN gossip[t] \cup {d} ELSE gossip[t]]
    /\ swarm' = {t \in swarm : t = s \/ pub[t] # "panicked"}

NegAcked(s, c) ==
    /\ step[s] = "asking" /\ Current(s, "NewCircuit", c)
    /\ Gossip(s, Callee[c])
    /\ Done(s)
    /\ UNCHANGED <<clientVars, netVars, peerMap, wnMap, asks, pub, looking>>

-----------------------------------------------------------------------------
(* process_publish_request up to the answers of the client.                   *)

LookUp(s, d) ==
    /\ s \in swarm /\ pub[s] = "next" /\ d \in gossip[s]
    /\ gossip' = [gossip EXCEPT ![s] = @ \ {d}]
    /\ IF d \in wnMap[s] THEN /\ pub' = [pub EXCEPT ![s] = "found"]
                              /\ looking' = [looking EXCEPT ![s] = d]
                         ELSE UNCHANGED <<pub, looking>>
    /\ UNCHANGED <<clientVars, netVars, mapVars, asks, swarm>>

\* contains_key and get are two locks apart: get(..).cloned().unwrap().
AskDecrypt(s) ==
    LET d == looking[s] IN
    /\ s \in swarm /\ pub[s] = "found"
    /\ \E x \in IF d \notin wnMap[s] THEN {"panicked"} ELSE Awaiting(d, s) :
           pub' = [pub EXCEPT ![s] = x]
    /\ UNCHANGED <<clientVars, netVars, mapVars, asks, gossip, looking, swarm>>

\* The sessions it then sets up end, or hang as in handle_new_circuit.
DecryptAcked(s) ==
    /\ s \in swarm /\ pub[s] = "asking"
    /\ \E x \in {"next", "stuck"} : pub' = [pub EXCEPT ![s] = x]
    /\ looking' = [looking EXCEPT ![s] = Nobody]
    /\ UNCHANGED <<clientVars, netVars, mapVars, asks, gossip, swarm>>

-----------------------------------------------------------------------------
ProxyLoop(s) == \E c \in Clients :
    \/ RefuseProxy(s, c) \/ InsertPeer(s, c) \/ InsertWn(s, c) \/ RemovePeer(s, c)
    \/ RemoveWn(s, c) \/ CircuitFails(s, c) \/ UnknownCaller(s, c) \/ Join(s, c)
    \/ JoinHangs(s, c) \/ CalleeJoined(s, c) \/ SinkJoined(s, c) \/ NegAcked(s, c)

PublishLoop(s) == (\E d \in Clients : LookUp(s, d)) \/ AskDecrypt(s) \/ DecryptAcked(s)

TakeAck(c, s) == \E b \in BOOLEAN :
    RecvAck(c, s, b) \/ RecvUnknownAck(c, s, b) \/ RecvLateAck(c, s, b)

User(c) == Start(c) \/ Crash(c) \/ Abandon(c) \/ DialCircuit(c)

Next ==
    \/ \E s \in Servers : ProxyLoop(s) \/ PublishLoop(s)
    \/ \E c \in Clients, s \in Servers :
           Register(c, s) \/ Lose(c, s) \/ Arrive(c, s) \/ DropStale(c, s) \/ TakeAck(c, s)
    \/ \E c \in Clients : User(c)

Spec == Init /\ [][Next]_vars

\* The loops run, messages arrive and a dead connection is noticed in the end.
FairSpec ==
    /\ Spec
    /\ \A s \in Servers : WF_vars(ProxyLoop(s))
    /\ \A c \in Clients, s \in Servers :
           WF_vars(Arrive(c, s)) /\ WF_vars(DropStale(c, s)) /\ WF_vars(TakeAck(c, s))

-----------------------------------------------------------------------------
(* Properties.                                                                *)

\* The two maps list the same clients, but for the one whose request the loop is
\* in the middle of: no client stays in one map for ever.
MapsAgree == \A s \in Servers, c \in Clients :
    \/ c \in peerMap[s] <=> c \in wnMap[s]
    \/ step[s] = "insert" /\ Head(queue[s]) = <<"NewProxy", c>>
    \/ step[s] = "remove" /\ Head(queue[s]) = <<"Disconnect", c>>

\* Whether s lists c once the requests that wait in its queue are dealt with.
About(s, c) == {i \in DOMAIN queue[s] : queue[s][i] \in {<<"NewProxy", c>>, <<"Disconnect", c>>}}
WillList(s, c) ==
    IF About(s, c) = {} THEN c \in wnMap[s]
    ELSE \E i \in About(s, c) : /\ \A j \in About(s, c) : j <= i
                                /\ queue[s][i] = <<"NewProxy", c>>

\* No client that has left stays registered once the queue is dealt with: the
\* end of its last connection comes after everything that it has asked for.
ListedWhileConnected == \A s \in swarm, c \in Clients : WillList(s, c) => Connected(c, s)

\* A client that has lost no connection to its proxy_id since it last called register
\* there is listed, or will be once the queue is dealt with or its request has come:
\* the end of an earlier connection cannot undo its registration, though the ack it
\* got may be that of an earlier process or, if it gave up a call, of another server.
ProxyKnowsClient == \A c \in Clients, s \in swarm :
    proxyId[c] = s /\ <<c, s>> \in link \ lost => WillList(s, c) \/ <<c, s>> \in asked

\* register returns false only on the word of a server that the client had asked
\* before, in this process or an earlier one: no other client, no end of a
\* connection and no call that was given up makes a server refuse a newcomer.
RefusedOnlyIfAskedBefore == \A x \in refused : calls[x] > 1

\* A client that has left is forgotten in the end, unless it comes back, or the loop
\* waits for an answer that never comes (of a client that left, or of a peer that
\* was to join a session), or the swarm stops.
Forgotten == \A s \in Servers, c \in Clients :
    ~Connected(c, s) ~> c \notin wnMap[s] \/ Connected(c, s) \/ step[s] = "stuck" \/ s \notin swarm

\* register returns, unless it follows a restart (its ack may take the dead
\* connection), or the loop waits for an answer that never comes, or the swarm stops.
RegisterReturns == \A c \in Clients \ MayLose, s \in Servers :
    calling[c] = s ~> calling[c] # s \/ starts[c] > 1 \/ step[s] = "stuck" \/ s \notin swarm
=============================================================================
