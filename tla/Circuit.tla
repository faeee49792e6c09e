------------------------------ MODULE Circuit ------------------------------
(* How WhiteNoise builds a circuit: a caller dials a remote client, its      *)
(* proxy (the entry node) joins a sink, the remote client's proxy (the       *)
(* access node) joins a relay, and the nodes pair two relay streams each     *)
(* into a session until a Success frame reaches both clients, which then run *)
(* a Noise handshake through the paired streams.                             *)
(*                                                                           *)
(* One action is what one task does between two points where another task   *)
(* can get in between: an await, or the release of a lock.  A session has at *)
(* most one stream for each purpose, so <<session, purpose>> names a stream. *)
EXTENDS Naturals, FiniteSets

CONSTANTS
    Clients, Servers, \* the two run modes of a node
    Sessions,         \* the session ids that dial may generate
    From, To,         \* caller and remote client of a session
    Proxy,            \* the server each client calls register_proxy on
    Registered,       \* the clients still in client_wn_map of their proxy
    Kad,              \* get_kad_peers of a server: its connected peers
    Boot,             \* boot_peer_id of the servers
    NoPeer,           \* PeerId::random(): nobody
    Flaky,            \* purposes whose stream may fail to open in 5 seconds
    Fragile,          \* purposes whose stream the network may break
    MayHangUp         \* clients that may call disconnect_circuit

Nodes == Clients \cup Servers
Purposes == {"dial", "direct", "sink", "answer", "relay", "expend"}
Requests == {"NewCircuit", "NegPlainText", "DecryptGossip", "SessionExpend"}

ASSUME CircuitAssumption ==
    /\ Clients \cap Servers = {}
    /\ NoPeer \notin Nodes
    /\ From \in [Sessions -> Clients]
    /\ To \in [Sessions -> Clients]
    /\ \A s \in Sessions : From[s] # To[s]
    /\ Proxy \in [Clients -> Servers]
    /\ Registered \subseteq Clients
    /\ Kad \in [Servers -> SUBSET Servers]
    /\ Boot \in Servers \cup {NoPeer}
    /\ Flaky \subseteq Purposes
    /\ Fragile \subseteq Purposes
    /\ MayHangUp \subseteq Clients

\* A server has finitely many connections.
ASSUME KadAssumption == \A n \in Servers : IsFiniteSet(Kad[n])

Streams == Sessions \X Purposes
Ends == Sessions \X Purposes \X {"src", "dst"}
Tasks == {"dial", "circ", "pub", "cmd"}
Keys == Streams \cup (Sessions \X Requests)
Handshakes == {"Hs1", "Hs2", "Hs3"}
Probes == {"ProbeE", "ProbeA"}   \* sent by the entry and by the access node
Msgs == {"SetSession", "Success", "Disconnect"} \cup Probes \cup Handshakes
Roles == {"Caller", "Entry", "Sink", "Relay", "Access", "Answer"}

\* session.rs: the pair of streams a node splices, by purpose.
SessionRec == [role  : Roles \cup {"none"},
               early : Purposes \cup {"none"},
               later : Purposes \cup {"none"}]
NoSession == [role |-> "none", early |-> "none", later |-> "none"]
IsSome(x) == x.role # "none"
Ready(x) == x.early # "none" /\ x.later # "none"
Legs(x) == {x.early, x.later} \ {"none"}
WithFirstLater(x, p) == IF x.later = "none" THEN [x EXCEPT !.later = p] ELSE x  \* mutant
WithoutLater(x, p) == x  \* mutant: the session is not written back
WithLater(x, p) == [x EXCEPT !.later = p]

\* The peers a loop tries: the current one, the ones that failed, the attempt.
PickRec == [peer : Servers \cup {NoPeer}, invalid : SUBSET (Servers \cup {NoPeer}),
            tries : 0..3]
OneTryTooMany == 4  \* mutant: <= for < in the loop
MaxTries == 3

VARIABLES
    call,      \* new_session_to_peer, one call for each stream
    clone,     \* the copy of a session that such a call will write back
    handler,   \* relay_event_handler at each end of a stream
    snap,      \* the clone of the session that a handler is working with
    inbox,     \* frames read from the stream and not yet handled
    down,      \* streams that were closed or broken
    session,   \* session_map of every node
    circuit,   \* circuit_map: no entry, open, or secure (transport_state set)
    probe,     \* probe_map
    poisoned,  \* nodes whose session_map lock a panic has poisoned
    chan,      \* in_channel of a circuit: handshake frames not yet read
    hs,        \* process_handshake of each client
    bus,       \* event_bus: the keys somebody waits on
    acks,      \* acks on the network
    got,       \* acks handed to their waiter
    asked,     \* proxy and cmd requests on the network or in a loop's channel
    pc,        \* dial, and the proxy, publish and cmd loops, by session
    sink,      \* handle_new_circuit's choice of the sink
    relay      \* process_publish_request's choice of the relay

callVars == <<call, clone>>
readVars == <<handler, snap>>
nodeVars == <<session, circuit, probe, poisoned>>
hsVars == <<chan, hs>>
busVars == <<bus, acks, got, asked>>
loopVars == <<pc, sink, relay>>
vars == <<call, clone, handler, snap, inbox, down, session, circuit, probe,
          poisoned, chan, hs, bus, acks, got, asked, pc, sink, relay>>

CallStates == {"idle", "opening", "written", "waiting", "insert", "clone",
               "later", "done", "failed", "panicked"}
HandlerStates == {"off", "fresh", "set", "read", "probe", "match", "store",
                  "success", "close", "dead"}
HsStates == {"idle", "await1", "await2", "await3", "finish", "done"}
LoopStates == {"idle", "session", "wait", "returned", "panicked", "direct", "sink",
               "neg", "probe", "queued", "decrypt", "answer", "relay",
               "expend", "open", "done"}

TypeOK ==
    /\ call \in [Streams -> CallStates]
    /\ clone \in [Streams -> SessionRec]
    /\ handler \in [Ends -> HandlerStates]
    /\ snap \in [Ends -> SessionRec]
    /\ inbox \in [Ends -> SUBSET Msgs]
    /\ down \in SUBSET Streams
    /\ session \in [Nodes \X Sessions -> SessionRec]
    /\ circuit \in [Nodes \X Sessions -> {"none", "open", "secure"}]
    /\ probe \in SUBSET (Nodes \X Sessions)
    /\ poisoned \in SUBSET Nodes
    /\ chan \in [Nodes \X Sessions -> SUBSET Handshakes]
    /\ hs \in [Nodes \X Sessions -> HsStates]
    /\ bus \in SUBSET Keys
    /\ acks \in SUBSET (Keys \X BOOLEAN)
    /\ got \in SUBSET (Keys \X BOOLEAN)
    /\ asked \in SUBSET (Sessions \X Requests)
    /\ pc \in [Sessions \X Tasks -> LoopStates]
    /\ sink \in [Sessions -> PickRec]
    /\ relay \in [Sessions -> PickRec]

NoPick == [peer |-> NoPeer, invalid |-> {}, tries |-> 0]

Init ==
    /\ call = [st \in Streams |-> "idle"]
    /\ clone = [st \in Streams |-> NoSession]
    /\ handler = [e \in Ends |-> "off"]
    /\ snap = [e \in Ends |-> NoSession]
    /\ inbox = [e \in Ends |-> {}]
    /\ down = {}
    /\ session = [x \in Nodes \X Sessions |-> NoSession]
    /\ circuit = [x \in Nodes \X Sessions |-> "none"]
    /\ probe = {}
    /\ poisoned = {}
    /\ chan = [x \in Nodes \X Sessions |-> {}]
    /\ hs = [x \in Nodes \X Sessions |-> "idle"]
    /\ bus = {} /\ acks = {} /\ got = {} /\ asked = {}
    /\ pc = [x \in Sessions \X Tasks |-> "idle"]
    /\ sink = [s \in Sessions |-> NoPick]
    /\ relay = [s \in Sessions |-> NoPick]

-----------------------------------------------------------------------------
(* Who is at the ends of a stream, and in which role.                        *)

Entry(s) == Proxy[From[s]]
Access(s) == Proxy[To[s]]

Src(s, p) == CASE p = "dial"   -> From[s]
               [] p \in {"direct", "sink"}  -> Entry(s)
               [] p \in {"answer", "relay"} -> Access(s)
               [] p = "expend" -> relay[s].peer

Dst(s, p) == CASE p = "dial"   -> Entry(s)
               [] p \in {"direct", "answer"} -> To[s]
               [] p \in {"sink", "expend"}   -> sink[s].peer
               [] p = "relay"  -> relay[s].peer

MyRole(p) == CASE p = "dial" -> "Caller"
               [] p = "sink" -> "Entry"
               [] p \in {"direct", "answer", "relay"} -> "Access"
               [] p = "expend" -> "Relay"

OtherRole(p) == CASE p = "dial" -> "Entry"
                  [] p \in {"sink", "expend"}   -> "Sink"
                  [] p \in {"direct", "answer"} -> "Answer"
                  [] p = "relay" -> "Relay"

NodeAt(e) == IF e[3] = "src" THEN Src(e[1], e[2]) ELSE Dst(e[1], e[2])
Alive(n) == n \notin poisoned

\* The reading ends of node n's streams for the purposes P of session s: where
\* a frame that n writes to them comes out.
FarEnds(n, s, P) ==
    {e \in Ends : /\ e[1] = s /\ e[2] \in P
                  /\ \/ e[3] = "dst" /\ Src(s, e[2]) = n
                     \/ e[3] = "src" /\ Dst(s, e[2]) = n}

\* A frame written to a closed stream is lost, and nobody reads after a
\* handler has returned.  Frames wait in a set: start_poll hands each one over
\* in a task of its own, so a later frame can overtake an earlier one.  No two
\* copies of a frame need to be pending at once: the handlers may always take
\* the first before the second is written.
Deliver(targets, m) ==
    inbox' = [e \in Ends |->
                IF e \in targets /\ <<e[1], e[2]>> \notin down /\ handler[e] # "dead"
                  THEN inbox[e] \cup {m} ELSE inbox[e]]

Drop(e, m) == inbox' = [inbox EXCEPT ![e] = @ \ {m}]

BothLegs(x, p) == Legs(x)  \* mutant: the frame is echoed as well

\* forward_relay: the other stream of the pair, none if p is not of the pair.
OtherLeg(x, p) == CASE x.early = p -> {x.later}
                    [] x.early # p /\ x.later = p -> {x.early}
                    [] OTHER -> {}

\* A handler takes m from its inbox and writes it to the other stream.
Forward(e, x, m) ==
    LET far == FarEnds(NodeAt(e), e[1], OtherLeg(x, e[2])) IN
    inbox' = [d \in Ends |->
        CASE d = e -> inbox[d] \ {m}
          [] d # e /\ d \in far /\ <<d[1], d[2]>> \notin down /\ handler[d] # "dead"
               -> inbox[d] \cup {m}
          [] OTHER -> inbox[d]]

\* handle_close_session.  Every other step reads or writes the maps it clears
\* in an order that cannot tell the three removals from one.
CloseSession(n, s) ==
    /\ session' = [session EXCEPT ![<<n, s>>] = NoSession]
    /\ down' = down \cup {<<s, p>> : p \in Legs(session[<<n, s>>])}
    /\ circuit' = [circuit EXCEPT ![<<n, s>>] = "none"]
    /\ probe' = probe \ {<<n, s>>}

SendAck(k, b) == acks' = acks \cup {<<k, b>>}

\* external_send_node_request_and_wait: listed in the event bus, then sent.
AskAndWait(s, r) == bus' = bus \cup {<<s, r>>} /\ asked' = asked \cup {<<s, r>>}

Acked(k, b) == <<k, b>> \in got

-----------------------------------------------------------------------------
(* The swarm of the waiting node hands an ack to its waiter, if there is one *)
(* by now, and drops it otherwise.                                           *)
RecvAck(k, b) ==
    /\ <<k, b>> \in acks
    /\ acks' = acks \ {<<k, b>>}
    /\ IF k \in bus THEN bus' = bus \ {k} /\ got' = got \cup {<<k, b>>}
                    ELSE UNCHANGED <<bus, got>>
    /\ UNCHANGED <<call, clone, handler, snap, inbox, down, session, circuit,
                   probe, poisoned, chan, hs, asked, pc, sink, relay>>

-----------------------------------------------------------------------------
(* new_session_to_peer: open a stream, write SetSession, wait for the ack,   *)
(* start the stream's handler, add the stream to the session.                *)

OpenStream(s, p) ==
    /\ call[<<s, p>>] = "opening"
    /\ Dst(s, p) # NoPeer
    /\ call' = [call EXCEPT ![<<s, p>>] = "written"]
    /\ handler' = [handler EXCEPT ![<<s, p, "dst">>] = "fresh"]
    /\ inbox' = [inbox EXCEPT ![<<s, p, "dst">>] = {"SetSession"}]
    /\ UNCHANGED <<clone, snap, down, nodeVars, hsVars, busVars, loopVars>>

OpenTimeout(s, p) ==
    /\ call[<<s, p>>] = "opening"
    /\ Dst(s, p) = NoPeer \/ p \in Flaky
    /\ call' = [call EXCEPT ![<<s, p>>] = "failed"]
    /\ UNCHANGED <<clone, readVars, inbox, down, nodeVars, hsVars, busVars, loopVars>>

\* The key enters the event bus only after SetSession has been written.
RegisterAck(s, p) ==
    /\ call[<<s, p>>] = "written"
    /\ call' = [call EXCEPT ![<<s, p>>] = "waiting"]
    /\ bus' = bus \cup {<<s, p>>}
    /\ UNCHANGED <<clone, readVars, inbox, down, nodeVars, hsVars, acks, got, asked, loopVars>>

CheckSession(s, p) ==
    LET n == Src(s, p) IN
    /\ call[<<s, p>>] = "waiting"
    /\ Acked(<<s, p>>, TRUE)
    /\ Alive(n)
    /\ handler' = [handler EXCEPT ![<<s, p, "src">>] = "read"]
    /\ call' = [call EXCEPT ![<<s, p>>] = IF IsSome(session[<<n, s>>]) THEN "clone" ELSE "insert"]
    /\ UNCHANGED <<clone, snap, inbox, down, nodeVars, hsVars, busVars, loopVars>>

InsertNew(s, p) ==
    LET n == Src(s, p) IN
    /\ call[<<s, p>>] = "insert"
    /\ Alive(n)
    /\ session' = [session EXCEPT ![<<n, s>>] =
                     [role |-> MyRole(p), early |-> p, later |-> "none"]]
    /\ call' = [call EXCEPT ![<<s, p>>] = "done"]
    /\ UNCHANGED <<clone, readVars, inbox, down, circuit, probe, poisoned, hsVars,
                   busVars, loopVars>>

CloneSession(s, p) ==
    LET n == Src(s, p) IN
    /\ call[<<s, p>>] = "clone"
    /\ Alive(n)
    /\ IsSome(session[<<n, s>>])
    /\ clone' = [clone EXCEPT ![<<s, p>>] = WithLater(session[<<n, s>>], p)]
    /\ call' = [call EXCEPT ![<<s, p>>] = "later"]
    /\ UNCHANGED <<readVars, inbox, down, nodeVars, hsVars, busVars, loopVars>>

\* The session went away after contains_key: unwrap() panics inside the
\* statement that holds the write guard.
ClonePanic(s, p) ==
    LET n == Src(s, p) IN
    /\ call[<<s, p>>] = "clone"
    /\ Alive(n)
    /\ ~IsSome(session[<<n, s>>])
    /\ poisoned' = poisoned \cup {n}
    /\ call' = [call EXCEPT ![<<s, p>>] = "panicked"]
    /\ UNCHANGED <<clone, readVars, inbox, down, session, circuit, probe, hsVars,
                   busVars, loopVars>>

InsertLater(s, p) ==
    LET n == Src(s, p) IN
    /\ call[<<s, p>>] = "later"
    /\ Alive(n)
    /\ session' = [session EXCEPT ![<<n, s>>] = clone[<<s, p>>]]
    /\ clone' = [clone EXCEPT ![<<s, p>>] = NoSession]
    /\ call' = [call EXCEPT ![<<s, p>>] = "done"]
    /\ UNCHANGED <<readVars, inbox, down, circuit, probe, poisoned, hsVars,
                   busVars, loopVars>>

Call(s, p) ==
    \/ OpenStream(s, p) \/ OpenTimeout(s, p) \/ RegisterAck(s, p)
    \/ CheckSession(s, p) \/ InsertNew(s, p) \/ CloneSession(s, p)
    \/ ClonePanic(s, p) \/ InsertLater(s, p)

-----------------------------------------------------------------------------
(* relay_event_handler, SetSession: handle_set_session.                      *)

\* A handler's locals go out of scope.
Forget(e) == snap' = [snap EXCEPT ![e] = NoSession]

TakeSet(e) ==
    LET n == NodeAt(e) IN
    /\ handler[e] = "fresh"
    /\ "SetSession" \in inbox[e]
    /\ Alive(n)
    /\ Drop(e, "SetSession")
    /\ handler' = [handler EXCEPT ![e] = "set"]
    /\ snap' = [snap EXCEPT ![e] = session[<<n, e[1]>>]]
    /\ circuit' = IF OtherRole(e[2]) = "Answer" /\ circuit[<<n, e[1]>>] = "none"
                    THEN [circuit EXCEPT ![<<n, e[1]>>] = "open"] ELSE circuit
    /\ UNCHANGED <<callVars, down, session, probe, poisoned, hsVars, busVars, loopVars>>

\* The stream of a relay request arrives at the node that is already the entry.
IsEntryAsRelay(e) == snap[e].role = "Entry" /\ OtherRole(e[2]) = "Relay"

\* The new stream replaces the one to the sink, which is told to disconnect.
\* One step for four awaits: after the insert the handler works on the old
\* stream alone, which no other task at this node uses any more, and then sends
\* an ack.  Nothing that other tasks do in between can tell the difference: a
\* break or a close of the old stream before the Disconnect, after it, or with
\* it makes the sink close the session once.
ApplyReplace(e) ==
    LET n == NodeAt(e)
        s == e[1]
        old == snap[e].later IN
    /\ handler[e] = "set"
    /\ Alive(n)
    /\ IsEntryAsRelay(e)
    /\ handler' = [handler EXCEPT ![e] = "read"]
    /\ IF Ready(snap[e])
         THEN /\ session' = [session EXCEPT ![<<n, s>>] = WithLater(snap[e], e[2])]
              /\ Deliver(FarEnds(n, s, {old}), "Disconnect")
              /\ down' = down \cup {<<s, old>>}
              /\ SendAck(<<s, e[2]>>, TRUE)
              /\ UNCHANGED <<circuit, probe>>
         ELSE CloseSession(n, s) /\ UNCHANGED <<inbox, acks>>
    /\ Forget(e)
    /\ UNCHANGED <<callVars, poisoned, hsVars, bus, got, asked, loopVars>>

ApplyNew(e) ==
    LET n == NodeAt(e) IN
    /\ handler[e] = "set"
    /\ Alive(n)
    /\ ~IsSome(snap[e])
    /\ session' = [session EXCEPT ![<<n, e[1]>>] =
                     [role |-> OtherRole(e[2]), early |-> e[2], later |-> "none"]]
    /\ handler' = [handler EXCEPT ![e] = "read"]
    /\ SendAck(<<e[1], e[2]>>, TRUE)
    /\ Forget(e)
    /\ UNCHANGED <<callVars, inbox, down, circuit, probe, poisoned, hsVars,
                   bus, got, asked, loopVars>>

\* Adds the stream to the session there is now; if it went away since it was
\* read, unwrap() panics under the write guard.
ApplyLater(e) ==
    LET n == NodeAt(e) IN
    /\ handler[e] = "set"
    /\ Alive(n)
    /\ IsSome(snap[e])
    /\ ~IsEntryAsRelay(e)
    /\ IF IsSome(session[<<n, e[1]>>])
         THEN /\ session' = [session EXCEPT ![<<n, e[1]>>] = WithLater(@, e[2])]
              /\ handler' = [handler EXCEPT ![e] = "read"]
              /\ SendAck(<<e[1], e[2]>>, TRUE)
              /\ UNCHANGED poisoned
         ELSE /\ poisoned' = poisoned \cup {n}
              /\ handler' = [handler EXCEPT ![e] = "dead"]
              /\ UNCHANGED <<session, acks>>
    /\ Forget(e)
    /\ UNCHANGED <<callVars, inbox, down, circuit, probe, hsVars,
                   bus, got, asked, loopVars>>

-----------------------------------------------------------------------------
(* relay_event_handler, Probe: handle_relay_probe.  The session is cloned    *)
(* once; probe_map is looked up, and looked up again or written, afterwards. *)

TakeProbe(e, m) ==
    LET n == NodeAt(e)
        x == session[<<n, e[1]>>] IN
    /\ handler[e] = "read"
    /\ m \in inbox[e] \cap Probes
    /\ Alive(n)
    /\ IF x.role = "Sink"
         THEN /\ handler' = [handler EXCEPT ![e] = "probe"]
              /\ snap' = [snap EXCEPT ![e] = x]
              /\ Drop(e, m)
         ELSE /\ UNCHANGED readVars
              /\ IF Ready(x) THEN Forward(e, x, m) ELSE Drop(e, m)
    /\ UNCHANGED <<callVars, down, nodeVars, hsVars, busVars, loopVars>>

AnyProbe(n, s) == TRUE   \* mutant: the first probe counts as a match
NoProbe(n, s) == FALSE   \* mutant: the stored probe is never found

HasProbe(n, s) == <<n, s>> \in probe

CheckProbe(e) ==
    /\ handler[e] = "probe"
    /\ handler' = [handler EXCEPT ![e] =
                     IF HasProbe(NodeAt(e), e[1]) THEN "match" ELSE "store"]
    /\ UNCHANGED <<callVars, snap, inbox, down, nodeVars, hsVars, busVars, loopVars>>

StoreProbe(e) ==
    /\ handler[e] = "store"
    /\ probe' = probe \cup {<<NodeAt(e), e[1]>>}
    /\ handler' = [handler EXCEPT ![e] = "read"]
    /\ Forget(e)
    /\ UNCHANGED <<callVars, inbox, down, session, circuit, poisoned, hsVars,
                   busVars, loopVars>>

\* Both probes of a session carry the hash of its id, so they are equal.  A
\* probe that was removed after CheckProbe makes unwrap() panic.
MatchProbe(e) ==
    /\ handler[e] = "match"
    /\ IF HasProbe(NodeAt(e), e[1])
         THEN /\ Deliver(FarEnds(NodeAt(e), e[1], Legs(snap[e])), "Success")
              /\ handler' = [handler EXCEPT ![e] = "read"]
         ELSE handler' = [handler EXCEPT ![e] = "dead"] /\ UNCHANGED inbox
    /\ Forget(e)
    /\ UNCHANGED <<callVars, down, nodeVars, hsVars, busVars, loopVars>>

-----------------------------------------------------------------------------
(* relay_event_handler, Success, Data and Disconnect frames, and read errors *)

TakeSuccess(e) ==
    LET n == NodeAt(e)
        x == session[<<n, e[1]>>] IN
    /\ handler[e] = "read"
    /\ "Success" \in inbox[e]
    /\ Alive(n)
    /\ IF x.role \in {"Caller", "Answer"}
         THEN handler' = [handler EXCEPT ![e] = "success"] /\ Drop(e, "Success")
         ELSE /\ UNCHANGED handler
              /\ IF Ready(x) THEN Forward(e, x, "Success") ELSE Drop(e, "Success")
    /\ UNCHANGED <<callVars, snap, down, nodeVars, hsVars, busVars, loopVars>>

\* Spawns process_handshake; the initiator writes its first message at once.
StartHandshake(e) ==
    LET n == NodeAt(e)
        s == e[1] IN
    /\ handler[e] = "success"
    /\ IF circuit[<<n, s>>] = "none"
         THEN handler' = [handler EXCEPT ![e] = "dead"] /\ UNCHANGED <<hs, inbox>>
         ELSE /\ handler' = [handler EXCEPT ![e] = "read"]
              /\ IF n = From[s]
                   THEN /\ hs' = [hs EXCEPT ![<<n, s>>] = "await2"]
                        /\ Deliver(FarEnds(n, s, {"dial"}), "Hs1")
                   ELSE /\ hs' = [hs EXCEPT ![<<n, s>>] = "await1"]
                        /\ UNCHANGED inbox
    /\ UNCHANGED <<callVars, snap, down, nodeVars, chan, busVars, loopVars>>

TakeData(e, m) ==
    LET n == NodeAt(e)
        s == e[1]
        x == session[<<n, s>>] IN
    /\ handler[e] = "read"
    /\ m \in inbox[e] \cap Handshakes
    /\ Alive(n)
    /\ IF x.role \in {"Caller", "Answer"}
         THEN /\ chan' = IF circuit[<<n, s>>] = "none" THEN chan
                         ELSE [chan EXCEPT ![<<n, s>>] = @ \cup {m}]
              /\ Drop(e, m)
         ELSE /\ UNCHANGED chan
              /\ IF Ready(x) THEN Forward(e, x, m) ELSE Drop(e, m)
    /\ UNCHANGED <<callVars, readVars, down, nodeVars, hs, busVars, loopVars>>

TakeDisconnect(e) ==
    /\ handler[e] = "read"
    /\ "Disconnect" \in inbox[e]
    /\ Alive(NodeAt(e))
    /\ CloseSession(NodeAt(e), e[1])
    /\ handler' = [handler EXCEPT ![e] = "dead"]
    /\ inbox' = [inbox EXCEPT ![e] = {}]
    /\ UNCHANGED <<callVars, snap, poisoned, hsVars, busVars, loopVars>>

FindNothing(n, s, p) == FALSE                     \* mutant: read errors are ignored
FindAnyStream(n, s, p) == IsSome(session[<<n, s>>])  \* mutant: any stream closes the session
FindEarlyOnly(n, s, p) == p = session[<<n, s>>].early \* mutant: only one stream is compared

\* Whether the session still uses the stream that failed.
FindStream(n, s, p) == p \in Legs(session[<<n, s>>])

TakeErr(e) ==
    LET n == NodeAt(e) IN
    /\ <<e[1], e[2]>> \in down
    /\ \/ handler[e] = "fresh"
       \/ handler[e] = "read" /\ Alive(n)
    /\ handler' = [handler EXCEPT ![e] =
                     IF @ = "read" /\ FindStream(n, e[1], e[2]) THEN "close" ELSE "dead"]
    /\ inbox' = [inbox EXCEPT ![e] = {}]
    /\ UNCHANGED <<callVars, snap, down, nodeVars, hsVars, busVars, loopVars>>

CloseOnErr(e) ==
    /\ handler[e] = "close"
    /\ Alive(NodeAt(e))
    /\ CloseSession(NodeAt(e), e[1])
    /\ handler' = [handler EXCEPT ![e] = "dead"]
    /\ UNCHANGED <<callVars, snap, inbox, poisoned, hsVars, busVars, loopVars>>

Handle(e) ==
    \/ TakeSet(e) \/ ApplyReplace(e) \/ ApplyNew(e) \/ ApplyLater(e)
    \/ \E m \in Probes : TakeProbe(e, m)
    \/ CheckProbe(e) \/ StoreProbe(e) \/ MatchProbe(e)
    \/ TakeSuccess(e) \/ StartHandshake(e)
    \/ \E m \in Handshakes : TakeData(e, m)
    \/ TakeDisconnect(e) \/ TakeErr(e) \/ CloseOnErr(e)

-----------------------------------------------------------------------------
(* process_handshake at the caller (await2) and at the answer (await1, 3).   *)

\* The state that reads m next, and what it writes back.
HsReads(m) == CASE m = "Hs1" -> "await1" [] m = "Hs2" -> "await2" [] m = "Hs3" -> "await3"
HsSkipsLast(m) == "finish"  \* mutant: the responder does not wait for the last message
HsNext(m) == IF m = "Hs1" THEN "await3" ELSE "finish"
HsReply(m) == IF m = "Hs1" THEN "Hs2" ELSE "Hs3"

ReadHandshake(c, s, m) ==
    /\ hs[<<c, s>>] = HsReads(m)
    /\ m \in chan[<<c, s>>]
    /\ chan' = [chan EXCEPT ![<<c, s>>] = @ \ {m}]
    /\ hs' = [hs EXCEPT ![<<c, s>>] = HsNext(m)]
    /\ IF m = "Hs3" THEN UNCHANGED inbox
       ELSE Deliver({e \in FarEnds(c, s, {"dial", "direct", "answer"}) :
                       c = From[s] \/ handler[<<s, e[2], "dst">>] # "off"}, HsReply(m))
    /\ UNCHANGED <<callVars, readVars, down, nodeVars, busVars, loopVars>>

\* transport_state is set on the handshake's own copy, which is then inserted
\* into circuit_map whatever has become of the entry.
FinishHandshake(c, s) ==
    /\ hs[<<c, s>>] = "finish"
    /\ hs' = [hs EXCEPT ![<<c, s>>] = "done"]
    /\ circuit' = [circuit EXCEPT ![<<c, s>>] = "secure"]
    /\ UNCHANGED <<callVars, readVars, inbox, down, session, probe, poisoned, chan,
                   busVars, loopVars>>

Handshake(c, s) == \/ \E m \in Handshakes : ReadHandshake(c, s, m)
                   \/ FinishHandshake(c, s)

-----------------------------------------------------------------------------
(* dial.                                                                     *)

DialStart(s) ==
    /\ pc[<<s, "dial">>] = "idle"
    /\ pc' = [pc EXCEPT ![<<s, "dial">>] = "session"]
    /\ call' = [call EXCEPT ![<<s, "dial">>] = "opening"]
    /\ UNCHANGED <<clone, readVars, inbox, down, nodeVars, hsVars, busVars, sink, relay>>

DialCircuit(s) ==
    /\ pc[<<s, "dial">>] = "session"
    /\ call[<<s, "dial">>] = "done"
    /\ circuit' = [circuit EXCEPT ![<<From[s], s>>] = "open"]
    /\ pc' = [pc EXCEPT ![<<s, "dial">>] = "wait"]
    /\ AskAndWait(s, "NewCircuit")
    /\ UNCHANGED <<callVars, readVars, inbox, down, session, probe, poisoned, hsVars,
                   acks, got, sink, relay>>

DialPanic(s) ==
    /\ pc[<<s, "dial">>] = "session"
    /\ call[<<s, "dial">>] = "failed"
    /\ pc' = [pc EXCEPT ![<<s, "dial">>] = "panicked"]
    /\ UNCHANGED <<callVars, readVars, inbox, down, nodeVars, hsVars, busVars, sink, relay>>

\* new_circuit only logs the ack: its result does not matter.
DialReturn(s) ==
    /\ pc[<<s, "dial">>] = "wait"
    /\ \E b \in BOOLEAN : Acked(<<s, "NewCircuit">>, b)
    /\ pc' = [pc EXCEPT ![<<s, "dial">>] = "returned"]
    /\ UNCHANGED <<callVars, readVars, inbox, down, nodeVars, hsVars, busVars, sink, relay>>

Dial(s) == DialStart(s) \/ DialCircuit(s) \/ DialPanic(s) \/ DialReturn(s)

\* The clients' own proxy loops answer NegPlainText and DecryptGossip.
ClientReply(s, r) ==
    /\ r \in {"NegPlainText", "DecryptGossip"}
    /\ <<s, r>> \in asked
    /\ asked' = asked \ {<<s, r>>}
    /\ SendAck(<<s, r>>, TRUE)
    /\ UNCHANGED <<callVars, readVars, inbox, down, nodeVars, hsVars, bus, got, loopVars>>

-----------------------------------------------------------------------------
(* The proxy loop of the entry node: handle_new_circuit.  The loop awaits    *)
(* each NewCircuit to the end before it takes another one.                   *)

EntryNeverFree(n) == \A s \in Sessions : Entry(s) = n => pc[<<s, "circ">>] = "idle"  \* mutant

EntryFree(n) == \A s \in Sessions : Entry(s) = n => pc[<<s, "circ">>] \in {"idle", "done"}

\* The peers a loop at n chooses from on its next try; if all have failed it
\* keeps the last one.  A further check, that the peer is not the remote client,
\* excludes nobody: client_peer_map holds hashes, and it hashes the hash again.
Choices(n, pick, others) ==
    LET cands == Kad[n] \ (others \cup pick.invalid \cup {n, Boot}) IN
    IF cands = {} THEN {pick.peer} ELSE cands

Try(pick, q) == [pick EXCEPT !.peer = q, !.tries = @ + 1]
RejectNobody(pick) == pick  \* mutant: a failed peer may be chosen again
Reject(pick) == [pick EXCEPT !.invalid = @ \cup {pick.peer}]

\* A NewCircuit that passes the checks: a known caller, whose session holds
\* one stream so far.
Admissible(s) ==
    /\ From[s] \in Registered
    /\ IsSome(session[<<Entry(s), s>>])
    /\ ~Ready(session[<<Entry(s), s>>])

IsDirect(s) == To[s] \in Registered /\ Access(s) = Entry(s)

TakeNewCircuit(s) ==
    /\ <<s, "NewCircuit">> \in asked
    /\ pc[<<s, "circ">>] = "idle"
    /\ EntryFree(Entry(s))
    /\ Alive(Entry(s))
    /\ asked' = asked \ {<<s, "NewCircuit">>}

RefuseCircuit(s) ==
    /\ TakeNewCircuit(s)
    /\ ~Admissible(s)
    /\ pc' = [pc EXCEPT ![<<s, "circ">>] = "done"]
    /\ SendAck(<<s, "NewCircuit">>, FALSE)
    /\ UNCHANGED <<callVars, readVars, inbox, down, nodeVars, hsVars, bus, got, sink, relay>>

AcceptDirect(s) ==
    /\ TakeNewCircuit(s)
    /\ Admissible(s)
    /\ IsDirect(s)
    /\ pc' = [pc EXCEPT ![<<s, "circ">>] = "direct"]
    /\ call' = [call EXCEPT ![<<s, "direct">>] = "opening"]
    /\ UNCHANGED <<clone, readVars, inbox, down, nodeVars, hsVars, bus, acks, got, sink, relay>>

\* Success goes out on the streams of the session, if it is still there.
DirectDone(s) ==
    LET n == Entry(s) IN
    /\ pc[<<s, "circ">>] = "direct"
    /\ call[<<s, "direct">>] = "done"
    /\ Alive(n)
    /\ Deliver(FarEnds(n, s, Legs(session[<<n, s>>])), "Success")
    /\ pc' = [pc EXCEPT ![<<s, "circ">>] = "done"]
    /\ SendAck(<<s, "NewCircuit">>, TRUE)
    /\ UNCHANGED <<callVars, readVars, down, nodeVars, hsVars, bus, got, asked, sink, relay>>

DirectFailed(s) ==
    /\ pc[<<s, "circ">>] = "direct"
    /\ call[<<s, "direct">>] = "failed"
    /\ pc' = [pc EXCEPT ![<<s, "circ">>] = "done"]
    /\ SendAck(<<s, "NewCircuit">>, FALSE)
    /\ UNCHANGED <<callVars, readVars, inbox, down, nodeVars, hsVars, bus, got, asked,
                   sink, relay>>

AcceptSink(s) ==
    /\ TakeNewCircuit(s)
    /\ Admissible(s)
    /\ ~IsDirect(s)
    /\ pc' = [pc EXCEPT ![<<s, "circ">>] = "sink"]
    /\ \E q \in Choices(Entry(s), sink[s], {From[s]}) : sink' = [sink EXCEPT ![s] = Try(@, q)]
    /\ call' = [call EXCEPT ![<<s, "sink">>] = "opening"]
    /\ UNCHANGED <<clone, readVars, inbox, down, nodeVars, hsVars, bus, acks, got, relay>>

RetrySink(s) ==
    LET tried == Reject(sink[s]) IN
    /\ pc[<<s, "circ">>] = "sink"
    /\ call[<<s, "sink">>] = "failed"
    /\ sink[s].tries < MaxTries
    /\ \E q \in Choices(Entry(s), tried, {From[s]}) : sink' = [sink EXCEPT ![s] = Try(tried, q)]
    /\ call' = [call EXCEPT ![<<s, "sink">>] = "opening"]
    /\ UNCHANGED <<clone, readVars, inbox, down, nodeVars, hsVars, busVars, pc, relay>>

GiveUpSink(s) ==
    /\ pc[<<s, "circ">>] = "sink"
    /\ call[<<s, "sink">>] = "failed"
    /\ sink[s].tries = MaxTries
    /\ Alive(Entry(s))
    /\ CloseSession(Entry(s), s)
    /\ pc' = [pc EXCEPT ![<<s, "circ">>] = "done"]
    /\ SendAck(<<s, "NewCircuit">>, FALSE)
    /\ UNCHANGED <<callVars, readVars, inbox, poisoned, hsVars, bus, got, asked, sink, relay>>

\* Ask the caller to encrypt the negotiation for the remote client.
SinkDone(s) ==
    /\ pc[<<s, "circ">>] = "sink"
    /\ call[<<s, "sink">>] = "done"
    /\ pc' = [pc EXCEPT ![<<s, "circ">>] = "neg"]
    /\ AskAndWait(s, "NegPlainText")
    /\ UNCHANGED <<callVars, readVars, inbox, down, nodeVars, hsVars, acks, got, sink, relay>>

\* The gossip reaches the publish loop of every server; only the one that has
\* the remote client acts on it.
Publish(s) ==
    /\ pc[<<s, "circ">>] = "neg"
    /\ Acked(<<s, "NegPlainText">>, TRUE)
    /\ pc' = [pc EXCEPT ![<<s, "circ">>] = "probe",
                        ![<<s, "pub">>] = IF To[s] \in Registered THEN "queued" ELSE "idle"]
    /\ UNCHANGED <<callVars, readVars, inbox, down, nodeVars, hsVars, busVars, sink, relay>>

SendProbe(s) ==
    LET n == Entry(s) IN
    /\ pc[<<s, "circ">>] = "probe"
    /\ Alive(n)
    /\ Deliver(FarEnds(n, s, Legs(session[<<n, s>>])), "ProbeE")
    /\ pc' = [pc EXCEPT ![<<s, "circ">>] = "done"]
    /\ SendAck(<<s, "NewCircuit">>, IsSome(session[<<n, s>>]))
    /\ UNCHANGED <<callVars, readVars, down, nodeVars, hsVars, bus, got, asked, sink, relay>>

EntryLoop(s) ==
    \/ RefuseCircuit(s) \/ AcceptDirect(s) \/ DirectDone(s) \/ DirectFailed(s)
    \/ AcceptSink(s) \/ RetrySink(s) \/ GiveUpSink(s) \/ SinkDone(s)
    \/ Publish(s) \/ SendProbe(s)

-----------------------------------------------------------------------------
(* The publish loop of the access node: process_publish_request.             *)

PubFree(n) == \A s \in Sessions :
                 Access(s) = n => pc[<<s, "pub">>] \in {"idle", "queued", "done"}

AskDecrypt(s) ==
    /\ pc[<<s, "pub">>] = "queued"
    /\ PubFree(Access(s))
    /\ pc' = [pc EXCEPT ![<<s, "pub">>] = "decrypt"]
    /\ AskAndWait(s, "DecryptGossip")
    /\ UNCHANGED <<callVars, readVars, inbox, down, nodeVars, hsVars, acks, got, sink, relay>>

Decrypted(s) ==
    /\ pc[<<s, "pub">>] = "decrypt"
    /\ Acked(<<s, "DecryptGossip">>, TRUE)
    /\ pc' = [pc EXCEPT ![<<s, "pub">>] = "answer"]
    /\ call' = [call EXCEPT ![<<s, "answer">>] = "opening"]
    /\ UNCHANGED <<clone, readVars, inbox, down, nodeVars, hsVars, busVars, sink, relay>>

\* No stream to the client, no relay after the last try, or the relay could
\* not extend the session.
PubFailed(s) ==
    \/ pc[<<s, "pub">>] = "answer" /\ call[<<s, "answer">>] = "failed"
    \/ pc[<<s, "pub">>] = "relay" /\ call[<<s, "relay">>] = "failed" /\ relay[s].tries = MaxTries
    \/ pc[<<s, "pub">>] = "expend" /\ Acked(<<s, "SessionExpend">>, FALSE)

GiveUpPub(s) ==
    /\ PubFailed(s)
    /\ Alive(Access(s))
    /\ CloseSession(Access(s), s)
    /\ pc' = [pc EXCEPT ![<<s, "pub">>] = "done"]
    /\ UNCHANGED <<callVars, readVars, inbox, poisoned, hsVars, busVars, sink, relay>>

\* The access node is also the sink: the circuit is complete.
SinkIsAccess(s) ==
    LET n == Access(s) IN
    /\ pc[<<s, "pub">>] = "answer"
    /\ call[<<s, "answer">>] = "done"
    /\ sink[s].peer = n
    /\ Alive(n)
    /\ Deliver(FarEnds(n, s, Legs(session[<<n, s>>])), "Success")
    /\ pc' = [pc EXCEPT ![<<s, "pub">>] = "done"]
    /\ UNCHANGED <<callVars, readVars, down, nodeVars, hsVars, busVars, sink, relay>>

NobodyExcluded(s) == {}  \* mutant: the sink may be chosen as the relay

NotAsRelay(s) == {sink[s].peer}

PickRelay(s) ==
    /\ pc[<<s, "pub">>] = "answer"
    /\ call[<<s, "answer">>] = "done"
    /\ sink[s].peer # Access(s)
    /\ pc' = [pc EXCEPT ![<<s, "pub">>] = "relay"]
    /\ \E q \in Choices(Access(s), relay[s], NotAsRelay(s)) :
         relay' = [relay EXCEPT ![s] = Try(@, q)]
    /\ call' = [call EXCEPT ![<<s, "relay">>] = "opening"]
    /\ UNCHANGED <<clone, readVars, inbox, down, nodeVars, hsVars, busVars, sink>>

RetryRelay(s) ==
    LET tried == Reject(relay[s]) IN
    /\ pc[<<s, "pub">>] = "relay"
    /\ call[<<s, "relay">>] = "failed"
    /\ relay[s].tries < MaxTries
    /\ \E q \in Choices(Access(s), tried, NotAsRelay(s)) :
         relay' = [relay EXCEPT ![s] = Try(tried, q)]
    /\ call' = [call EXCEPT ![<<s, "relay">>] = "opening"]
    /\ UNCHANGED <<clone, readVars, inbox, down, nodeVars, hsVars, busVars, pc, sink>>

AskExpend(s) ==
    /\ pc[<<s, "pub">>] = "relay"
    /\ call[<<s, "relay">>] = "done"
    /\ pc' = [pc EXCEPT ![<<s, "pub">>] = "expend"]
    /\ AskAndWait(s, "SessionExpend")
    /\ UNCHANGED <<callVars, readVars, inbox, down, nodeVars, hsVars, acks, got, sink, relay>>

ExpendDone(s) ==
    LET n == Access(s) IN
    /\ pc[<<s, "pub">>] = "expend"
    /\ Acked(<<s, "SessionExpend">>, TRUE)
    /\ Alive(n)
    /\ Deliver(FarEnds(n, s, Legs(session[<<n, s>>])), "ProbeA")
    /\ pc' = [pc EXCEPT ![<<s, "pub">>] = "done"]
    /\ UNCHANGED <<callVars, readVars, down, nodeVars, hsVars, busVars, sink, relay>>

AccessLoop(s) ==
    \/ AskDecrypt(s) \/ Decrypted(s) \/ GiveUpPub(s) \/ SinkIsAccess(s)
    \/ PickRelay(s) \/ RetryRelay(s) \/ AskExpend(s) \/ ExpendDone(s)

-----------------------------------------------------------------------------
(* The cmd loop of the relay node: process_cmd_request, SessionExpend.       *)

CmdFree(n) == \A s \in Sessions : relay[s].peer = n => pc[<<s, "cmd">>] # "open"

TakeExpend(s) ==
    /\ <<s, "SessionExpend">> \in asked
    /\ CmdFree(relay[s].peer)
    /\ Alive(relay[s].peer)
    /\ asked' = asked \ {<<s, "SessionExpend">>}

NoSuchSession(s) ==
    LET n == relay[s].peer IN
    /\ TakeExpend(s)
    /\ ~IsSome(session[<<n, s>>])
    /\ CloseSession(n, s)
    /\ SendAck(<<s, "SessionExpend">>, FALSE)
    /\ pc' = [pc EXCEPT ![<<s, "cmd">>] = "done"]
    /\ UNCHANGED <<callVars, readVars, inbox, poisoned, hsVars, bus, got, sink, relay>>

\* The relay is also the entry: the circuit is complete.
RelayIsEntry(s) ==
    LET n == relay[s].peer IN
    /\ TakeExpend(s)
    /\ Ready(session[<<n, s>>])
    /\ SendAck(<<s, "SessionExpend">>, TRUE)
    /\ Deliver(FarEnds(n, s, Legs(session[<<n, s>>])), "Success")
    /\ pc' = [pc EXCEPT ![<<s, "cmd">>] = "done"]
    /\ UNCHANGED <<callVars, readVars, down, nodeVars, hsVars, bus, got, sink, relay>>

Expend(s) ==
    LET n == relay[s].peer IN
    /\ TakeExpend(s)
    /\ IsSome(session[<<n, s>>])
    /\ ~Ready(session[<<n, s>>])
    /\ pc' = [pc EXCEPT ![<<s, "cmd">>] = "open"]
    /\ call' = [call EXCEPT ![<<s, "expend">>] = "opening"]
    /\ UNCHANGED <<clone, readVars, inbox, down, nodeVars, hsVars, bus, acks, got, sink, relay>>

ExpendOpened(s) ==
    /\ pc[<<s, "cmd">>] = "open"
    /\ call[<<s, "expend">>] = "done"
    /\ SendAck(<<s, "SessionExpend">>, TRUE)
    /\ pc' = [pc EXCEPT ![<<s, "cmd">>] = "done"]
    /\ UNCHANGED <<callVars, readVars, inbox, down, nodeVars, hsVars, bus, got, asked,
                   sink, relay>>

ExpendFailed(s) ==
    LET n == relay[s].peer IN
    /\ pc[<<s, "cmd">>] = "open"
    /\ call[<<s, "expend">>] = "failed"
    /\ Alive(n)
    /\ CloseSession(n, s)
    /\ SendAck(<<s, "SessionExpend">>, FALSE)
    /\ pc' = [pc EXCEPT ![<<s, "cmd">>] = "done"]
    /\ UNCHANGED <<callVars, readVars, inbox, poisoned, hsVars, bus, got, asked, sink, relay>>

RelayLoop(s) == \/ NoSuchSession(s) \/ RelayIsEntry(s) \/ Expend(s)
                \/ ExpendOpened(s) \/ ExpendFailed(s)

-----------------------------------------------------------------------------
(* The environment: the network breaks a stream, a user hangs up.            *)

BreakStream(s, p) ==
    /\ p \in Fragile
    /\ handler[<<s, p, "dst">>] # "off"
    /\ <<s, p>> \notin down
    /\ down' = down \cup {<<s, p>>}
    /\ UNCHANGED <<callVars, readVars, inbox, nodeVars, hsVars, busVars, loopVars>>

\* disconnect_circuit needs the session id: dial returns it to the caller, and
\* process_new_session reports it to a client that has finished its handshake,
\* to the caller even before dial returns.
HangUp(c, s) ==
    /\ c \in MayHangUp
    /\ \/ c = From[s] /\ pc[<<s, "dial">>] = "returned"
       \/ c \in {From[s], To[s]} /\ circuit[<<c, s>>] = "secure"
    /\ IsSome(session[<<c, s>>]) \/ circuit[<<c, s>>] # "none"
    /\ Alive(c)
    /\ CloseSession(c, s)
    /\ UNCHANGED <<callVars, readVars, inbox, poisoned, hsVars, busVars, loopVars>>

Environment == \E s \in Sessions :
    \/ \E p \in Purposes : BreakStream(s, p)
    \/ \E c \in Clients : HangUp(c, s)

System ==
    \/ \E k \in Keys, b \in BOOLEAN : RecvAck(k, b)
    \/ \E s \in Sessions, p \in Purposes : Call(s, p)
    \/ \E e \in Ends : Handle(e)
    \/ \E c \in Clients, s \in Sessions : Handshake(c, s)
    \/ \E s \in Sessions : Dial(s) \/ EntryLoop(s) \/ AccessLoop(s) \/ RelayLoop(s)
    \/ \E s \in Sessions, r \in Requests : ClientReply(s, r)

Next == System \/ Environment

Spec == Init /\ [][Next]_vars

\* Tasks that can run do run; the network and the users owe nothing.
FairSpec == Spec /\ WF_vars(System)

-----------------------------------------------------------------------------
(* Properties.                                                               *)

Paired(n, s, p, q) == n \in Servers /\ Legs(session[<<n, s>>]) = {p, q}

\* The four shapes of a finished circuit, by the servers that play two roles.
Linked(s) ==
    LET e == Entry(s)
        a == Access(s)
        k == sink[s].peer
        r == relay[s].peer IN
    \/ Paired(e, s, "dial", "direct")
    \/ k = a /\ k # Boot /\ Paired(e, s, "dial", "sink") /\ Paired(a, s, "sink", "answer")
    \/ r = e /\ k # Boot /\ Paired(e, s, "dial", "relay") /\ Paired(a, s, "relay", "answer")
    \/ /\ Cardinality({e, k, r, a}) = 4 /\ Boot \notin {k, r}
       /\ Paired(e, s, "dial", "sink") /\ Paired(k, s, "sink", "expend")
       /\ Paired(r, s, "relay", "expend") /\ Paired(a, s, "relay", "answer")

\* Success frames that a client has not acted on yet.
PendingSuccess(c, s) == \E e \in Ends :
    /\ e[1] = s
    /\ NodeAt(e) = c
    /\ handler[e] = "success" \/ "Success" \in inbox[e]

\* A client is told that the circuit stands, and starts its handshake, only
\* when the sessions of the servers splice the streams of the caller and of the
\* remote client into one path that visits no server twice.
SuccessMeansLinked == \A s \in Sessions, c \in Clients :
    PendingSuccess(c, s) \/ hs[<<c, s>>] # "idle" => Linked(s)

\* Success never reaches a client twice: process_handshake would start again
\* on a circuit whose handshake is under way or done.
OneHandshake == \A s \in Sessions, c \in Clients :
    hs[<<c, s>>] # "idle" => ~PendingSuccess(c, s)

\* A client that enters or leaves the handshake is matched by its peer: the
\* remote client is never secure before the caller has sent its last message.
HandshakeAgreement == \A s \in Sessions :
    /\ hs[<<To[s], s>>] \in {"finish", "done"} => hs[<<From[s], s>>] \in {"finish", "done"}
    /\ hs[<<From[s], s>>] \in {"finish", "done"} => hs[<<To[s], s>>] \in {"await3", "finish", "done"}

\* An ack promises that the peer has recorded the stream: from then on, and until
\* the stream is closed, it is in the session of that peer.
AckMeansRecorded == \A s \in Sessions, p \in Purposes :
    <<<<s, p>>, TRUE>> \in acks \cup got =>
        p \in Legs(session[<<Dst(s, p), s>>]) \/ <<s, p>> \in down

\* No session holds a stream whose handler has returned: nobody would notice
\* the end of that stream, and the session would stay for ever.
NoGhostSession == \A s \in Sessions, n \in Nodes : \A p \in Legs(session[<<n, s>>]) :
    \E side \in {"src", "dst"} :
        NodeAt(<<s, p, side>>) = n /\ handler[<<s, p, side>>] \notin {"off", "dead"}

\* The peers tried for a role are different ones, up to MaxTries or until all
\* candidates have failed.
Tried(pick, cands) ==
    pick.tries = 0 \/ cands = {} \/
    Cardinality(pick.invalid \cup {pick.peer}) =
        (IF pick.tries < Cardinality(cands) THEN pick.tries ELSE Cardinality(cands))
DistinctTries == \A s \in Sessions :
    /\ Tried(sink[s], Kad[Entry(s)] \ {Entry(s), Boot})
    /\ Tried(relay[s], Kad[Access(s)] \ {Access(s), sink[s].peer, Boot})

\* With no fault, the only session that is ever torn down is the sink's that
\* was left over when the relay turned out to be the entry; in particular the
\* read error of the replaced stream does not close the entry's new session.
NoSpuriousClose ==
    [][\A s \in Sessions, n \in Nodes :
         IsSome(session[<<n, s>>]) /\ ~IsSome(session'[<<n, s>>]) =>
             /\ n = sink[s].peer
             /\ n \notin {Entry(s), Access(s), relay[s].peer}
             /\ session[<<Entry(s), s>>].later = "relay"]_vars

\* The two windows in which the set-up can stall.  An ack that is under way
\* before its key is in the event bus may be dropped;
AckEarly == \E s \in Sessions, p \in Purposes :
    <<<<s, p>>, TRUE>> \in acks /\ call[<<s, p>>] = "written"

\* a probe handler at the sink may see a session or a probe_map that the other
\* one is about to change.
ProbeRace == \E s \in Sessions :
    LET busy == {p \in {"sink", "expend"} : handler[<<s, p, "dst">>] \in {"probe", "store"}} IN
    \/ busy = {"sink", "expend"}
    \/ \E p \in busy : snap[<<s, p, "dst">>] # session[<<sink[s].peer, s>>]

\* A stream that was wanted has failed to open in time.
OpenFailed == \E s \in Sessions, p \in Purposes : call[<<s, p>>] = "failed"

Secured(s) == circuit[<<From[s], s>>] = "secure" /\ circuit[<<To[s], s>>] = "secure"

\* Outside those windows, and if its streams open, every dial ends with a secured
\* circuit at both clients: nobody waits for an ack, a probe or a frame that never
\* comes.
DialSecures == []~AckEarly /\ []~ProbeRace /\ []~OpenFailed =>
    \A s \in Sessions : pc[<<s, "dial">>] = "session" ~> Secured(s)

\* The assertions of tests/network_test.rs: after dial has returned, both
\* circuits get their transport_state.
DialedThenSecured == \A s \in Sessions : pc[<<s, "dial">>] = "returned" ~> Secured(s)

\* Without faults no session vanishes between the look-up and the unwrap() in
\* new_session_to_peer and handle_set_session, which would poison session_map.
SessionStillThere == poisoned = {}

\* Nothing of session s is left at any node.
Gone(s) == \A n \in Nodes : ~IsSome(session[<<n, s>>]) /\ circuit[<<n, s>>] = "none"

\* Once a secured circuit has lost a client, because its user hung up or its
\* stream broke, the loss travels along the path until every server and the
\* other client have let go of the session.
Established(s) == Secured(s) /\ \A c \in {From[s], To[s]} : IsSome(session[<<c, s>>])
TeardownSpreads == \A s \in Sessions :
    [](Established(s) =>
        []((\E c \in {From[s], To[s]} : ~IsSome(session[<<c, s>>])) => <>Gone(s)))

\* An entry node that has run out of tries for a sink closes its own session only.
\* Nobody else keeps one but the caller, whose dial may have returned: unless all is
\* gone, its stream is down, and its handler has not yet read that but will find the
\* stream in the session and close session and circuit.
GiveUpSpreads == \A s \in Sessions :
    pc[<<s, "circ">>] = "done" /\ call[<<s, "sink">>] = "failed" =>
        \/ Gone(s)
        \/ /\ <<s, "dial">> \in down
           /\ \A n \in Nodes \ {From[s]} : ~IsSome(session[<<n, s>>])
           /\ "dial" \in Legs(session[<<From[s], s>>])
           /\ handler[<<s, "dial", "src">>] \in {"read", "close"}

\* README: disconnect_circuit closes the streams of all relay nodes and of the
\* clients of the circuit.
HungUp(s) == pc[<<s, "dial">>] = "returned" /\ ~IsSome(session[<<From[s], s>>])
HangUpCloses == \A s \in Sessions : HungUp(s) ~> Gone(s)

=============================================================================
