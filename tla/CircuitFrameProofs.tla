------------------------- MODULE CircuitFrameProofs -------------------------
(* Proofs about Circuit.  For every network and every fault: no client hears *)
(* twice that its circuit stands, so none starts a second handshake, and the *)
(* two handshakes of a session agree with one another.                       *)
(*                                                                           *)
(* When no stream breaks and nobody hangs up, although streams may fail to   *)
(* open: no session vanishes under a task that works with it, none outlives  *)
(* its handlers, and success means that the streams are spliced into one     *)
(* path.  When streams open as well: only what is left over is torn down.    *)
EXTENDS CircuitProofs

-----------------------------------------------------------------------------
(* The invariant.                                                            *)

\* The ends of the streams at which a frame for the caller, or for the remote
\* client, is read on its way, as <<purpose, side>>; and those at which a probe
\* is read on its way to the sink.
ForCaller == {<<"dial", "src">>, <<"direct", "src">>, <<"sink", "src">>,
              <<"answer", "src">>, <<"relay", "dst">>, <<"expend", "dst">>}
ForRemote == {<<"dial", "dst">>, <<"direct", "dst">>, <<"sink", "dst">>,
              <<"answer", "dst">>, <<"relay", "src">>, <<"expend", "src">>}
ToSink == {<<"sink", "dst">>, <<"expend", "dst">>, <<"relay", "dst">>}
AtClient == {<<"dial", "src">>, <<"direct", "dst">>, <<"answer", "dst">>}

Way(e) == <<e[2], e[3]>>
EndsOf(s) == {e \in Ends : e[1] = s}

AtMostOne(S) == \A a, b \in S : a = b
AtMostTwo(S) == \A a, b, c \in S : a = b \/ b = c \/ a = c

\* The pairs of streams that an entry node splices: it may be the relay, too.
EntryPair(x) == x.later # "none" =>
    \/ x.early = "dial" /\ x.later \in {"direct", "sink", "relay"}
    \/ x.early = "relay" /\ x.later = "expend"

\* Only the clients treat a frame as theirs, and only the sink a probe.
RoleOK(x, n, s) ==
    /\ x.role \in {"Caller", "Answer"} => n \in Clients
    /\ x.role = "Sink" => n = sink[s].peer /\ call[<<s, "sink">>] \notin Unopened

\* Sessions and the copies that will be written back splice the right streams.
\* Once the entry has acked the stream of a relay request, its session has no
\* room for another one, unless the relay's stream is its first.
Spliced(s) ==
    /\ \A n \in Nodes : RoleOK(session[<<n, s>>], n, s)
    /\ \A p \in Purposes : call[<<s, p>>] = "later" =>
         /\ RoleOK(clone[<<s, p>>], Src(s, p), s)
         /\ clone[<<s, p>>].later = p
         /\ Src(s, p) = Entry(s) => EntryPair(clone[<<s, p>>])
    /\ EntryPair(session[<<Entry(s), s>>])
    /\ handler[<<s, "relay", "dst">>] = "set" /\ relay[s].peer = Entry(s) =>
         EntryPair(snap[<<s, "relay", "dst">>])
    /\ relay[s].peer = Entry(s) /\ AckSeen(s, "relay") =>
         \/ session[<<Entry(s), s>>].early \in {"none", "relay", "expend"}
         \/ session[<<Entry(s), s>>].early = "dial" /\ session[<<Entry(s), s>>].later = "relay"

\* The ends in D at which a frame m waits.
Waits(s, D, m) == {e \in EndsOf(s) : Way(e) \in D /\ m \in inbox[e]}

\* handle_relay_probe runs at the sink only.
AtProbe == {"probe", "match", "store"}
SinkEnds(s) == {<<s, "sink", "dst">>, <<s, "expend", "dst">>}
Busy(s) == \A e \in EndsOf(s) : handler[e] \in AtProbe => e \in SinkEnds(s)

\* The probes still to come to the sink, those being handled and the stored one.
Outstanding(s) ==
    {x \in {"ProbeE", "ProbeA"} :
        \/ x = "ProbeE" /\ pc[<<s, "circ">>] # "done"
        \/ x = "ProbeA" /\ pc[<<s, "pub">>] # "done"
        \/ Waits(s, ToSink, x) # {}}
Handled(s) == {p \in {"sink", "expend"} : handler[<<s, p, "dst">>] \in AtProbe}
Stored(s) == {x \in {"stored"} : \E n \in Nodes : <<n, s>> \in probe}

\* Every probe travels on one stream at most, towards the sink, once it is sent.
Routed(s) ==
    /\ \A m \in Probes : Waits(s, {<<"dial", "dst">>, <<"answer", "src">>}, m) = {}
    /\ Waits(s, {<<"sink", "dst">>}, "ProbeA") = {}
    /\ \A m \in Probes : AtMostOne(Waits(s, ToSink, m))
    /\ pc[<<s, "circ">>] # "done" => Waits(s, ToSink, "ProbeE") = {}
    /\ pc[<<s, "pub">>] # "done" => Waits(s, ToSink, "ProbeA") = {}

\* The sink never gets more than the two probes, and without the relay's stream
\* only the one of the entry node.
ProbeInv(s) ==
    /\ Routed(s)
    /\ AtMostTwo(Outstanding(s) \cup Handled(s) \cup Stored(s))
    /\ call[<<s, "expend">>] \in Unopened =>
         AtMostOne((Outstanding(s) \ {"ProbeA"}) \cup Handled(s) \cup Stored(s))

\* Where the news that the circuit stands is, on its way to client c: in a frame,
\* in a handler, or in the handshake it has started.
Places(s, D, c) ==
    {<<"in", e>> : e \in Waits(s, D, "Success")}
    \cup {<<"at", e>> : e \in {d \in EndsOf(s) : Way(d) \in D /\ handler[d] = "success"}}
    \cup {x \in {<<"hs", s>>} : hs[<<c, s>>] # "idle"}
ToCaller(s) == Places(s, ForCaller, From[s])
ToRemote(s) == Places(s, ForRemote, To[s])

\* The publish loop has not asked the relay to extend the session yet.
BeforeExpend == {"idle", "queued", "decrypt", "answer", "relay"}

\* The one step that reports success is past: at the proxy that both clients
\* share, at the access node that is the sink, at the relay that is the entry,
\* or at the sink that has both probes.
Concluded(s) ==
    \/ pc[<<s, "circ">>] = "done" /\ call[<<s, "direct">>] # "idle"
    \/ pc[<<s, "pub">>] = "done" /\ sink[s].peer = Access(s)
    \/ /\ pc[<<s, "pub">>] \notin BeforeExpend
       /\ <<s, "SessionExpend">> \notin asked
       /\ call[<<s, "expend">>] = "idle" /\ call[<<s, "relay">>] = "done"
    \/ call[<<s, "expend">>] # "idle" /\ Outstanding(s) \cup Handled(s) = {}

SuccessInv(s) ==
    /\ AtMostOne(ToCaller(s)) /\ AtMostOne(ToRemote(s))
    /\ ToCaller(s) \cup ToRemote(s) # {} => Concluded(s)
    /\ \A e \in EndsOf(s) : handler[e] = "success" => Way(e) \in AtClient

\* A handshake message is under way, or waits to be read.
Anywhere(s, m) == \/ \E e \in EndsOf(s) : m \in inbox[e]
                  \/ \E n \in Nodes : m \in chan[<<n, s>>]

HsInv(s) ==
    /\ \A c \in Clients \ {From[s], To[s]} : hs[<<c, s>>] = "idle"
    /\ hs[<<From[s], s>>] \in {"idle", "await2", "finish", "done"}
    /\ hs[<<To[s], s>>] \in {"idle", "await1", "await3", "finish", "done"}
    /\ Anywhere(s, "Hs1") => hs[<<From[s], s>>] # "idle"
    /\ Anywhere(s, "Hs2") => hs[<<To[s], s>>] \in {"await3", "finish", "done"}
    /\ Anywhere(s, "Hs3") => hs[<<From[s], s>>] \in {"finish", "done"}
    /\ hs[<<To[s], s>>] \in {"finish", "done"} => hs[<<From[s], s>>] \in {"finish", "done"}
    /\ hs[<<From[s], s>>] \in {"finish", "done"} => hs[<<To[s], s>>] \in {"await3", "finish", "done"}
    /\ hs[<<To[s], s>>] \in {"await3", "finish", "done"} => hs[<<From[s], s>>] # "idle"

FrameInv(s) == Spliced(s) /\ Busy(s) /\ ProbeInv(s) /\ SuccessInv(s) /\ HsInv(s)

-----------------------------------------------------------------------------
(* Counting.                                                                 *)

\* A set is counted no higher than the one it is part of.
LEMMA CountSub ==
    ASSUME NEW S, NEW T, T \subseteq S
    PROVE  (AtMostOne(S) => AtMostOne(T)) /\ (AtMostTwo(S) => AtMostTwo(T))
BY DEF AtMostOne, AtMostTwo

\* Nor are there more after one element was exchanged for another.
LEMMA CountMoved ==
    ASSUME NEW S, NEW T, NEW a \in S, NEW b, T \subseteq (S \ {a}) \cup {b}
    PROVE  (AtMostOne(S) => AtMostOne(T)) /\ (AtMostTwo(S) => AtMostTwo(T))
BY DEF AtMostOne, AtMostTwo

-----------------------------------------------------------------------------
(* What follows from the invariant in one state: who is at an end.           *)

\* The parts of an end of a stream of session s.
LEMMA EndParts ==
    ASSUME NEW s \in Sessions, NEW e \in EndsOf(s)
    PROVE  /\ e \in Ends /\ e[1] = s /\ e[2] \in Purposes /\ e[3] \in {"src", "dst"}
           /\ e = <<s, e[2], e[3]>>
           /\ NodeAt(e) = IF e[3] = "src" THEN Src(s, e[2]) ELSE Dst(s, e[2])
           /\ Way(e) = <<e[2], e[3]>>
BY DEF EndsOf, Ends, NodeAt, Way

\* An end is named by its session and its way.
LEMMA SameWay ==
    ASSUME NEW s \in Sessions, NEW e \in EndsOf(s), NEW f \in EndsOf(s), Way(e) = Way(f)
    PROVE  e = f
<1>1. e = <<s, e[2], e[3]>> /\ f = <<s, f[2], f[3]>>
  BY EndParts
<1>2. e[2] = f[2] /\ e[3] = f[3]
  BY DEF Way
<1> QED BY <1>1, <1>2

\* Every end is on the way to one of the clients.
LEMMA TwoWays ==
    ASSUME NEW s \in Sessions, NEW e \in EndsOf(s)
    PROVE  /\ Way(e) \in ForCaller \/ Way(e) \in ForRemote
           /\ ~(Way(e) \in ForCaller /\ Way(e) \in ForRemote)
<1>1. e[2] \in Purposes /\ e[3] \in {"src", "dst"} /\ Way(e) = <<e[2], e[3]>>
  BY EndParts
<1> QED BY <1>1 DEF Purposes, ForCaller, ForRemote

\* The servers of a session, and its clients, are apart.
LEMMA Parties ==
    ASSUME IInv, NEW s \in Sessions
    PROVE  /\ From[s] \in Clients /\ To[s] \in Clients /\ From[s] # To[s]
           /\ Entry(s) \in Servers /\ Access(s) \in Servers
           /\ From[s] \in Nodes /\ To[s] \in Nodes /\ Entry(s) \in Nodes /\ Access(s) \in Nodes
           /\ sink[s].peer \notin Clients /\ relay[s].peer \notin Clients
           /\ Entry(s) \notin Clients /\ Access(s) \notin Clients
<1>1. TypeOK
  BY DEF IInv
<1>2. sink[s].peer \in Servers \cup {NoPeer} /\ relay[s].peer \in Servers \cup {NoPeer}
  BY <1>1 DEF TypeOK, PickRec
<1> QED BY <1>2, CircuitAssumption DEF Entry, Access, Nodes

\* A client is at one end of the session's streams.
LEMMA ClientEnd ==
    ASSUME IInv, NEW s \in Sessions, NEW e \in EndsOf(s), NodeAt(e) \in Clients
    PROVE  /\ Way(e) \in AtClient
           /\ NodeAt(e) = From[s] <=> Way(e) = <<"dial", "src">>
           /\ NodeAt(e) # From[s] => NodeAt(e) = To[s] /\ Way(e) \in ForRemote
<1>1. /\ e[2] \in Purposes /\ e[3] \in {"src", "dst"} /\ Way(e) = <<e[2], e[3]>>
      /\ NodeAt(e) = IF e[3] = "src" THEN Src(s, e[2]) ELSE Dst(s, e[2])
  BY EndParts
<1> QED BY <1>1, Parties DEF Src, Dst, Purposes, AtClient, ForRemote

\* And the other way round.
LEMMA EndOfClient ==
    ASSUME IInv, NEW s \in Sessions, NEW e \in EndsOf(s), Way(e) \in AtClient
    PROVE  NodeAt(e) = (IF Way(e) = <<"dial", "src">> THEN From[s] ELSE To[s])
<1>1. /\ e[2] \in Purposes /\ e[3] \in {"src", "dst"} /\ Way(e) = <<e[2], e[3]>>
      /\ NodeAt(e) = IF e[3] = "src" THEN Src(s, e[2]) ELSE Dst(s, e[2])
  BY EndParts
<1> QED BY <1>1 DEF Src, Dst, Purposes, AtClient

\* Whose stream is joined, and how far the session is then.
LEMMA Progress ==
    ASSUME IInv, NEW s \in Sessions, Chain(s), NEW n, NEW p \in Joined(n, s)
    PROVE  /\ p \in Purposes /\ call[<<s, p>>] \notin Unopened /\ n \in {Src(s, p), Dst(s, p)}
           /\ p = "direct" => call[<<s, "sink">>] = "idle"
           /\ p \in {"answer", "relay", "expend"} =>
                /\ call[<<s, "direct">>] = "idle" /\ call[<<s, "sink">>] = "done"
                /\ Entry(s) # Access(s)
           /\ p \in {"relay", "expend"} => call[<<s, "answer">>] = "done" /\ sink[s].peer # Access(s)
<1>1. p \in Purposes /\ call[<<s, p>>] \notin Unopened /\ n \in {Src(s, p), Dst(s, p)}
  BY JoinedEnds
<1>2. call[<<s, p>>] # "idle"
  BY <1>1 DEF Unopened
<1>3. Order(s)
  BY DEF IInv
<1>4. p = "expend" => call[<<s, "relay">>] = "done"
  BY <1>2, <1>3 DEF Order
<1>5. p \in {"relay", "expend"} => call[<<s, "relay">>] # "idle"
  BY <1>2, <1>4
<1>6. p \in {"relay", "expend"} => call[<<s, "answer">>] = "done" /\ sink[s].peer # Access(s)
  BY <1>5 DEF Chain
<1>7. p \in {"answer", "relay", "expend"} => call[<<s, "answer">>] # "idle"
  BY <1>2, <1>6
<1>8. p \in {"answer", "relay", "expend"} => call[<<s, "sink">>] = "done" /\ Entry(s) # Access(s)
  BY <1>7, ProxiesApart DEF Chain
<1>9. call[<<s, "sink">>] # "idle" => call[<<s, "direct">>] = "idle"
  BY DEF Chain
<1> QED BY <1>1, <1>2, <1>6, <1>8, <1>9

\* The far ends of node n's streams.
LEMMA FarParts ==
    ASSUME NEW s \in Sessions, NEW n, NEW P, NEW f \in FarEnds(n, s, P)
    PROVE  /\ f \in EndsOf(s) /\ f[2] \in P /\ f[2] \in Purposes
           /\ n = IF f[3] = "src" THEN Dst(s, f[2]) ELSE Src(s, f[2])
BY DEF FarEnds, EndsOf, Ends

\* The streams of a session that is stored are streams that its node has joined;
\* two of the entry node's are a pair.
LEMMA LegsJoined ==
    ASSUME IInv, NEW s \in Sessions, AckInv(s), Spliced(s), NEW n \in Nodes
    PROVE  /\ Legs(session[<<n, s>>]) \subseteq Joined(n, s)
           /\ Ready(session[<<n, s>>]) => session[<<n, s>>].early # session[<<n, s>>].later
           /\ n = Entry(s) => EntryPair(session[<<n, s>>])
<1>1. Copy(session[<<n, s>>], Joined(n, s), Owed(n, s))
  BY DEF AckInv, Copies, CopiesAt
<1> QED BY <1>1 DEF Copy, Ready, Spliced

\* What the entry node splices, for SMT: no stream of the caller's with one of
\* the relay's other stream, and none of the sink with one of the relay.
LEMMA EntryLegs ==
    ASSUME NEW x, EntryPair(x), NEW p \in Legs(x), NEW q \in Legs(x)
    PROVE  /\ ~(p = "dial" /\ q = "expend") /\ ~(p = "sink" /\ q \in {"relay", "expend"})
           /\ p = "sink" /\ q # "sink" => q = "dial"
           /\ p = "expend" /\ q # "expend" => q = "relay"
BY DEF EntryPair, Legs

\* Of the far ends of the streams of one session, at most one is on the way to
\* each client.
LEMMA OneEachWay ==
    ASSUME IInv, NEW s \in Sessions, Chain(s), Peers(s), NEW n, NEW L, L \subseteq Joined(n, s),
           n = Entry(s) => \A p, q \in L :
              ~(p = "dial" /\ q = "expend") /\ ~(p = "sink" /\ q \in {"relay", "expend"}),
           NEW f \in FarEnds(n, s, L), NEW g \in FarEnds(n, s, L),
           \/ Way(f) \in ForCaller /\ Way(g) \in ForCaller
           \/ Way(f) \in ForRemote /\ Way(g) \in ForRemote
    PROVE  f = g
<1> DEFINE p == f[2]
           q == g[2]
<1>1. /\ f \in EndsOf(s) /\ p \in L /\ n = IF f[3] = "src" THEN Dst(s, p) ELSE Src(s, p)
      /\ g \in EndsOf(s) /\ q \in L /\ n = IF g[3] = "src" THEN Dst(s, q) ELSE Src(s, q)
  BY FarParts
<1>2. p \in Joined(n, s) /\ q \in Joined(n, s) /\ p \in Purposes /\ q \in Purposes
  BY <1>1 DEF Joined
<1>3. Way(f) = <<p, f[3]>> /\ Way(g) = <<q, g[3]>>
  BY DEF Way
<1>4. /\ p = "direct" => call[<<s, "sink">>] = "idle"
      /\ p \in {"answer", "relay", "expend"} =>
           /\ call[<<s, "direct">>] = "idle" /\ call[<<s, "sink">>] = "done"
           /\ Entry(s) # Access(s)
      /\ p \in {"relay", "expend"} => call[<<s, "answer">>] = "done" /\ sink[s].peer # Access(s)
      /\ call[<<s, p>>] \notin Unopened
  BY <1>2, Progress
<1>5. /\ q = "direct" => call[<<s, "sink">>] = "idle"
      /\ q \in {"answer", "relay", "expend"} =>
           /\ call[<<s, "direct">>] = "idle" /\ call[<<s, "sink">>] = "done"
           /\ Entry(s) # Access(s)
      /\ q \in {"relay", "expend"} => call[<<s, "answer">>] = "done" /\ sink[s].peer # Access(s)
      /\ call[<<s, q>>] \notin Unopened
  BY <1>2, Progress
<1>6. call[<<s, p>>] # "idle" /\ call[<<s, q>>] # "idle"
  BY <1>4, <1>5 DEF Unopened
<1>7. sink[s].peer # Entry(s) /\ relay[s].peer # Access(s)
  BY DEF Peers
<1>8. p \in {"relay", "expend"} \/ q \in {"relay", "expend"} => relay[s].peer # sink[s].peer
  <2>1. p \in {"relay", "expend"} \/ q \in {"relay", "expend"} => call[<<s, "relay">>] \notin Unopened
    BY <1>4, <1>5, <1>6 DEF IInv, Order, Unopened
  <2>2. call[<<s, "relay">>] \notin Unopened => relay[s].peer \in Nodes
    BY DEF IInv, OpenedAt, Dst, Purposes
  <2> QED BY <2>1, <2>2, CircuitAssumption DEF Peers
<1>9. CASE Way(f) \in ForCaller /\ Way(g) \in ForCaller
  <2>1. p = q
    BY <1>1, <1>2, <1>3, <1>4, <1>5, <1>6, <1>7, <1>8, <1>9, Parties DEF Src, Dst, Purposes, ForCaller
  <2>2. f[3] = g[3]
    BY <1>3, <1>9, <2>1 DEF ForCaller
  <2> QED BY <1>1, <1>3, <2>1, <2>2, SameWay
<1>10. CASE Way(f) \in ForRemote /\ Way(g) \in ForRemote
  <2>1. p = q
    BY <1>1, <1>2, <1>3, <1>4, <1>5, <1>6, <1>7, <1>8, <1>10, Parties DEF Src, Dst, Purposes, ForRemote
  <2>2. f[3] = g[3]
    BY <1>3, <1>10, <2>1 DEF ForRemote
  <2> QED BY <1>1, <1>3, <2>1, <2>2, SameWay
<1> QED BY <1>9, <1>10

\* The same, for the session that a node has stored.
LEMMA SessionFar ==
    ASSUME IInv, NEW s \in Sessions, AckInv(s), Spliced(s), NEW n \in Nodes,
           NEW f \in FarEnds(n, s, Legs(session[<<n, s>>])),
           NEW g \in FarEnds(n, s, Legs(session[<<n, s>>])),
           \/ Way(f) \in ForCaller /\ Way(g) \in ForCaller
           \/ Way(f) \in ForRemote /\ Way(g) \in ForRemote
    PROVE  f = g
<1>1. Legs(session[<<n, s>>]) \subseteq Joined(n, s)
  BY LegsJoined
<1>2. n = Entry(s) => \A p, q \in Legs(session[<<n, s>>]) :
              ~(p = "dial" /\ q = "expend") /\ ~(p = "sink" /\ q \in {"relay", "expend"})
  BY LegsJoined, EntryLegs
<1>3. Chain(s) /\ Peers(s)
  BY DEF AckInv
<1> QED BY <1>1, <1>2, <1>3, OneEachWay

\* forward_relay: a frame goes on to one stream at most, and in its direction.  On
\* the way to the sink it came from the caller, from the access node or the relay.
LEMMA PassOn ==
    ASSUME IInv, NEW s \in Sessions, AckInv(s), Spliced(s), NEW e \in EndsOf(s),
           NodeAt(e) \in Nodes, Ready(session[<<NodeAt(e), s>>]),
           NEW f \in FarEnds(NodeAt(e), s, OtherLeg(session[<<NodeAt(e), s>>], e[2])),
           NEW g \in FarEnds(NodeAt(e), s, OtherLeg(session[<<NodeAt(e), s>>], e[2]))
    PROVE  /\ f = g /\ f \in EndsOf(s) /\ f # e
           /\ Way(f) \in ForCaller <=> Way(e) \in ForCaller
           /\ Way(f) \in ForRemote <=> Way(e) \in ForRemote
           /\ Way(f) = <<"sink", "dst">> => Way(e) = <<"dial", "dst">>
           /\ Way(f) = <<"relay", "dst">> => Way(e) = <<"answer", "src">>
           /\ Way(f) = <<"expend", "dst">> => Way(e) = <<"relay", "dst">>
           /\ Way(f) \notin {<<"dial", "dst">>, <<"answer", "src">>}
<1> DEFINE n == NodeAt(e)
           x == session[<<n, s>>]
           L == Legs(x)
           p == e[2]
           d == <<s, p, IF e[3] = "src" THEN "dst" ELSE "src">>
<1>0. Chain(s) /\ Peers(s)
  BY DEF AckInv
<1>1. /\ e[2] \in Purposes /\ e[3] \in {"src", "dst"} /\ e = <<s, e[2], e[3]>> /\ Way(e) = <<e[2], e[3]>>
      /\ n = IF e[3] = "src" THEN Src(s, p) ELSE Dst(s, p)
  BY EndParts
<1>2. L = {x.early, x.later} /\ x.early # x.later /\ L \subseteq Joined(n, s)
  <2>1. x.early # x.later /\ L \subseteq Joined(n, s)
    BY LegsJoined
  <2> QED BY <2>1 DEF Legs, Ready
<1>3. OtherLeg(x, p) \subseteq L \ {p} /\ (OtherLeg(x, p) # {} => p \in L)
  BY <1>2 DEF OtherLeg
<1>4. f[2] \in L \ {p} /\ g[2] \in L \ {p} /\ f \in EndsOf(s) /\ g \in EndsOf(s) /\ p \in L
  BY <1>3, FarParts
<1>5. f \in FarEnds(n, s, L) /\ g \in FarEnds(n, s, L)
  BY <1>3 DEF FarEnds
<1>6. d \in Ends /\ d[1] = s /\ d[2] = p /\ d[3] = (IF e[3] = "src" THEN "dst" ELSE "src")
  BY <1>1 DEF Ends
<1>7. d \in FarEnds(n, s, L) /\ d \in EndsOf(s)
  BY <1>1, <1>4, <1>6 DEF FarEnds, EndsOf
<1>8. Way(d) = <<p, IF e[3] = "src" THEN "dst" ELSE "src">>
  BY <1>6 DEF Way
<1>9. (Way(e) \in ForCaller <=> Way(d) \in ForRemote) /\ (Way(e) \in ForRemote <=> Way(d) \in ForCaller)
  BY <1>1, <1>8 DEF ForCaller, ForRemote, Purposes
<1>10. f # d /\ g # d
  BY <1>4, <1>6
<1>11. Way(f) \in ForCaller <=> Way(e) \in ForCaller
  BY <1>4, <1>5, <1>7, <1>9, <1>10, TwoWays, SessionFar
<1>12. Way(f) \in ForRemote <=> Way(e) \in ForRemote
  BY <1>4, <1>11, TwoWays
<1>13. f = g
  <2>1. Way(g) \in ForCaller <=> Way(e) \in ForCaller
    BY <1>4, <1>5, <1>7, <1>9, <1>10, TwoWays, SessionFar
  <2> QED BY <1>4, <1>5, <1>11, <1>12, <2>1, TwoWays, SessionFar
<1>14. f # e
  BY <1>4
<1>15. n = (IF f[3] = "src" THEN Dst(s, f[2]) ELSE Src(s, f[2])) /\ Way(f) = <<f[2], f[3]>>
       /\ f[2] \in Purposes /\ f[3] \in {"src", "dst"}
  BY <1>4, FarParts, EndParts
<1>16. p \in Joined(n, s) /\ f[2] \in Joined(n, s) /\ p # f[2]
  BY <1>2, <1>4
<1>17. ~(Way(f) \in {<<"dial", "dst">>, <<"answer", "src">>})
  <2>1. SUFFICES ASSUME Way(f) \in {<<"dial", "dst">>, <<"answer", "src">>} PROVE FALSE
    OBVIOUS
  <2>2. n \in {From[s], To[s]}
    BY <1>15, <2>1 DEF Src, Dst
  <2>3. n \in Clients
    BY <2>2, Parties
  <2>4. Way(e) \in AtClient /\ (n = From[s] <=> Way(e) = <<"dial", "src">>)
    BY <2>3, ClientEnd
  <2>5. Way(f) = <<"answer", "src">> /\ n = To[s] /\ p = "direct"
    BY <1>1, <1>15, <1>16, <2>1, <2>4, Parties DEF Src, Dst, AtClient
  <2>6. f[2] = "answer"
    BY <1>15, <2>5
  <2>7. call[<<s, "direct">>] = "idle" /\ call[<<s, "direct">>] \notin Unopened
    BY <1>0, <1>16, <2>5, <2>6, Progress
  <2> QED BY <2>7 DEF Unopened
<1>18. Way(f) = <<"sink", "dst">> => Way(e) = <<"dial", "dst">>
  <2>1. SUFFICES ASSUME Way(f) = <<"sink", "dst">> PROVE Way(e) = <<"dial", "dst">>
    OBVIOUS
  <2>2. n = Entry(s) /\ f[2] = "sink"
    BY <1>15, <2>1 DEF Src
  <2>3. EntryPair(x)
    BY <2>2, LegsJoined
  <2>4. p = "dial"
    BY <1>4, <2>2, <2>3, EntryLegs
  <2> QED BY <1>1, <2>2, <2>4, Parties DEF Src
<1>19. Way(f) = <<"expend", "dst">> => Way(e) = <<"relay", "dst">>
  <2>1. SUFFICES ASSUME Way(f) = <<"expend", "dst">> PROVE Way(e) = <<"relay", "dst">>
    OBVIOUS
  <2>2. n = relay[s].peer /\ f[2] = "expend"
    BY <1>15, <2>1 DEF Src
  <2>3. Way(e) \in ForCaller
    BY <1>11, <2>1 DEF ForCaller
  <2>4. n \notin {sink[s].peer, Access(s)} /\ n \notin Clients
    <3>1. call[<<s, "expend">>] \notin Unopened
      BY <1>0, <1>16, <2>2, Progress
    <3>2. Src(s, "expend") # Dst(s, "expend")
      BY <1>0, <3>1, Apart DEF Unopened, Purposes
    <3> QED BY <1>0, <2>2, <3>2, Parties DEF Src, Dst, Peers
  <2>5. n = Entry(s) => p = "relay"
    BY <1>4, <2>2, LegsJoined, EntryLegs
  <2> QED BY <1>1, <1>16, <2>2, <2>3, <2>4, <2>5, Parties DEF Src, Dst, ForCaller, Purposes
<1>20. Way(f) = <<"relay", "dst">> => Way(e) = <<"answer", "src">>
  <2>1. SUFFICES ASSUME Way(f) = <<"relay", "dst">> PROVE Way(e) = <<"answer", "src">>
    OBVIOUS
  <2>2. n = Access(s) /\ f[2] = "relay"
    BY <1>15, <2>1 DEF Src
  <2>3. Way(e) \in ForCaller
    BY <1>11, <2>1 DEF ForCaller
  <2>4. n \notin {sink[s].peer, Entry(s), relay[s].peer} /\ n \notin Clients
    BY <1>0, <1>16, <2>2, Progress, Parties DEF Peers
  <2> QED BY <1>1, <1>16, <2>2, <2>3, <2>4, Parties DEF Src, Dst, ForCaller, Purposes
<1> QED BY <1>4, <1>11, <1>12, <1>13, <1>14, <1>17, <1>18, <1>19, <1>20

\* The entry node's probe goes to the sink on one stream at most.
LEMMA EntryProbe ==
    ASSUME IInv, NEW s \in Sessions, AckInv(s), Spliced(s),
           NEW f \in FarEnds(Entry(s), s, Legs(session[<<Entry(s), s>>])),
           NEW g \in FarEnds(Entry(s), s, Legs(session[<<Entry(s), s>>]))
    PROVE  /\ Way(f) \notin {<<"dial", "dst">>, <<"answer", "src">>}
           /\ Way(f) \in ToSink /\ Way(g) \in ToSink => f = g
<1> DEFINE n == Entry(s)
           L == Legs(session[<<n, s>>])
<1>0. Chain(s) /\ Peers(s) /\ n \in Nodes
  BY Parties DEF AckInv
<1>1. /\ f \in EndsOf(s) /\ f[2] \in L /\ n = (IF f[3] = "src" THEN Dst(s, f[2]) ELSE Src(s, f[2]))
      /\ f[2] \in Purposes /\ f[3] \in {"src", "dst"} /\ Way(f) = <<f[2], f[3]>>
  BY FarParts, EndParts
<1>2. /\ g \in EndsOf(s) /\ g[2] \in L /\ n = (IF g[3] = "src" THEN Dst(s, g[2]) ELSE Src(s, g[2]))
      /\ g[2] \in Purposes /\ g[3] \in {"src", "dst"} /\ Way(g) = <<g[2], g[3]>>
  BY FarParts, EndParts
<1>3. Way(f) \notin {<<"dial", "dst">>, <<"answer", "src">>}
  BY <1>1, Parties DEF Src, Dst
<1>4. f[2] \in Joined(n, s) /\ g[2] \in Joined(n, s)
  BY <1>0, <1>1, <1>2, LegsJoined
<1>5. f[2] = "relay" \/ g[2] = "relay" => n # Access(s)
  BY <1>0, <1>4, Progress
<1>6. ~(f[2] = "sink" /\ g[2] = "expend") /\ ~(g[2] = "sink" /\ f[2] = "expend")
  BY <1>0, <1>1, <1>2, LegsJoined, EntryLegs
<1>7. ASSUME Way(f) \in ToSink, Way(g) \in ToSink PROVE f = g
  <2>1. Way(f) = Way(g)
    BY <1>1, <1>2, <1>5, <1>6, <1>7 DEF ToSink, Src
  <2> QED BY <1>1, <1>2, <2>1, SameWay
<1> QED BY <1>3, <1>7

\* The access node's probe goes to the sink through the relay only.
LEMMA AccessProbe ==
    ASSUME IInv, NEW s \in Sessions, AckInv(s), Spliced(s), pc[<<s, "pub">>] # "idle",
           NEW f \in FarEnds(Access(s), s, Legs(session[<<Access(s), s>>])),
           NEW g \in FarEnds(Access(s), s, Legs(session[<<Access(s), s>>]))
    PROVE  /\ Way(f) \notin {<<"dial", "dst">>, <<"answer", "src">>, <<"sink", "dst">>}
           /\ Way(f) \in ToSink /\ Way(g) \in ToSink => f = g
<1> DEFINE n == Access(s)
           L == Legs(session[<<n, s>>])
<1>0. Chain(s) /\ Peers(s) /\ n \in Nodes
  BY Parties DEF AckInv
<1>1. /\ f \in EndsOf(s) /\ f[2] \in L /\ n = (IF f[3] = "src" THEN Dst(s, f[2]) ELSE Src(s, f[2]))
      /\ f[2] \in Purposes /\ f[3] \in {"src", "dst"} /\ Way(f) = <<f[2], f[3]>>
  BY FarParts, EndParts
<1>2. /\ g \in EndsOf(s) /\ g[2] \in L /\ n = (IF g[3] = "src" THEN Dst(s, g[2]) ELSE Src(s, g[2]))
      /\ g[2] \in Purposes /\ g[3] \in {"src", "dst"} /\ Way(g) = <<g[2], g[3]>>
  BY FarParts, EndParts
<1>3. Entry(s) # Access(s) /\ relay[s].peer # Access(s)
  BY <1>0 DEF IInv, Order, Chain, Peers, IsDirect
<1>4. Way(f) \notin {<<"dial", "dst">>, <<"answer", "src">>, <<"sink", "dst">>}
  BY <1>1, <1>3, Parties DEF Src, Dst
<1>5. ASSUME Way(f) \in ToSink, Way(g) \in ToSink PROVE f = g
  <2>1. Way(f) = Way(g)
    BY <1>1, <1>2, <1>3, <1>5 DEF ToSink, Src
  <2> QED BY <1>1, <1>2, <2>1, SameWay
<1> QED BY <1>4, <1>5

-----------------------------------------------------------------------------
(* Sessions splice the right streams.                                        *)

\* What a step can be for session s.
LEMMA StepKind ==
    ASSUME IInv, NEW s \in Sessions, AckInv(s), [Next]_vars
    PROVE  \/ Moves(s)
           \/ \E q \in Purposes : Call(s, q)
           \/ \E e \in Ends : e[1] = s /\ Sets(e)
<1>1. CASE UNCHANGED vars
  <2>1. Aside(s)
    BY <1>1 DEF vars, Aside
  <2> QED BY <2>1, AsideKeeps
<1>2. CASE System
  <2>1. CASE \E k \in Keys, b \in BOOLEAN : RecvAck(k, b)
    BY <2>1, RecvKeeps
  <2>2. ASSUME NEW t \in Sessions, NEW p \in Purposes, Call(t, p)
        PROVE  Moves(s) \/ \E q \in Purposes : Call(s, q)
    <3>1. CASE s = t
      BY <2>2, <3>1
    <3>2. CASE s # t
      BY <2>2, <3>2, CallFrames, CallElsewhere DEF Moves
    <3> QED BY <3>1, <3>2
  <2>3. ASSUME NEW e \in Ends, Handle(e)
        PROVE  Moves(s) \/ \E d \in Ends : d[1] = s /\ Sets(d)
    <3>1. CASE e[1] = s /\ Sets(e)
      BY <3>1
    <3>2. CASE ~(e[1] = s /\ Sets(e))
      BY <2>3, <3>2, HandleStill DEF Moves, Sets
    <3> QED BY <3>1, <3>2
  <2>4. CASE \E t \in Sessions : \/ Dial(t)
                                 \/ \E c \in Clients : Handshake(c, t)
                                 \/ \E r \in Requests : ClientReply(t, r)
    BY <2>4, ClientKeeps
  <2>5. CASE \E t \in Sessions : EntryLoop(t) \/ AccessLoop(t) \/ RelayLoop(t)
    BY <2>5, EntryKeeps, AccessKeeps, RelayKeeps
  <2> QED BY <1>2, <2>1, <2>2, <2>3, <2>4, <2>5 DEF System
<1>3. CASE Environment
  BY <1>3, ClientKeeps DEF Environment
<1> QED BY <1>1, <1>2, <1>3 DEF Next

\* A step that sets nothing up keeps what the sessions splice.
LEMMA SplicedStill ==
    ASSUME IInv, NEW s \in Sessions, Spliced(s), Still(s)
    PROVE  Spliced(s)'
<1>1. \A p \in Purposes : Src(s, p)' = Src(s, p)
  BY DEF Still, Src, Purposes
<1>2. /\ sink'[s] = sink[s] /\ relay'[s] = relay[s] /\ call'[<<s, "sink">>] = call[<<s, "sink">>]
      /\ AckSeen(s, "relay")' => AckSeen(s, "relay")
      /\ handler'[<<s, "relay", "dst">>] = "set" =>
           /\ handler[<<s, "relay", "dst">>] = "set"
           /\ snap'[<<s, "relay", "dst">>] = snap[<<s, "relay", "dst">>]
  BY DEF Still, Purposes, Early
<1>3. \A p \in Purposes : call'[<<s, p>>] = call[<<s, p>>] /\ clone'[<<s, p>>] = clone[<<s, p>>]
  BY DEF Still
<1>4. \A n \in Nodes : session'[<<n, s>>] = session[<<n, s>>] \/ session'[<<n, s>>] = NoSession
  BY DEF Still
<1>5. \A n \in Nodes : RoleOK(session[<<n, s>>], n, s)'
  BY <1>2, <1>4 DEF Spliced, RoleOK, NoSession
<1>6. \A p \in Purposes : call'[<<s, p>>] = "later" =>
         /\ RoleOK(clone[<<s, p>>], Src(s, p), s)'
         /\ clone'[<<s, p>>].later = p
         /\ Src(s, p)' = Entry(s) => EntryPair(clone'[<<s, p>>])
  BY <1>1, <1>2, <1>3 DEF Spliced, RoleOK
<1>7. Entry(s) \in Nodes
  BY Parties
<1>8. EntryPair(session'[<<Entry(s), s>>])
  BY <1>4, <1>7 DEF Spliced, EntryPair, NoSession
<1>9. relay'[s].peer = Entry(s) /\ AckSeen(s, "relay")' =>
         \/ session'[<<Entry(s), s>>].early \in {"none", "relay", "expend"}
         \/ session'[<<Entry(s), s>>].early = "dial" /\ session'[<<Entry(s), s>>].later = "relay"
  BY <1>2, <1>4, <1>7 DEF Spliced, NoSession
<1>10. handler'[<<s, "relay", "dst">>] = "set" /\ relay'[s].peer = Entry(s) =>
         EntryPair(snap'[<<s, "relay", "dst">>])
  BY <1>2 DEF Spliced
<1> QED BY <1>5, <1>6, <1>8, <1>9, <1>10 DEF Spliced, Entry, EntryPair

\* Nor does the start of a call change it: a peer is chosen before the stream to
\* it is opened.
LEMMA SplicedStart ==
    ASSUME IInv, NEW s \in Sessions, AckInv(s), Spliced(s), NEW q \in Purposes, StartFrame(s, q)
    PROVE  Spliced(s)'
<1>a. Acks(s)
  BY DEF AckInv
<1>1. UNCHANGED <<clone, handler, snap, session, acks, got>>
  BY DEF StartFrame
<1>2. \A p \in Purposes : call'[<<s, p>>] # "later"
  BY DEF StartFrame
<1>3. call[<<s, "sink">>] \notin Unopened =>
        sink'[s].peer = sink[s].peer /\ call'[<<s, "sink">>] \notin Unopened
  BY DEF StartFrame, Dst, Purposes, Unopened
<1>4. \A n \in Nodes : RoleOK(session[<<n, s>>], n, s)'
  BY <1>1, <1>3 DEF Spliced, RoleOK
<1>5. AckSeen(s, "relay")' => AckSeen(s, "relay")
  BY <1>1 DEF AckSeen
<1>6. AckSeen(s, "relay") \/ handler[<<s, "relay", "dst">>] = "set" => call[<<s, "relay">>] \notin Unopened
  <2>1. AckSeen(s, "relay") => handler[<<s, "relay", "dst">>] # "off"
    BY <1>a DEF Acks, Landed, Early, Purposes
  <2> QED BY <2>1 DEF IInv, OpenedAt, Purposes
<1>7. call[<<s, "relay">>] \notin Unopened => relay'[s].peer = relay[s].peer
  BY DEF StartFrame, Dst, Purposes
<1>8. relay'[s].peer = Entry(s) /\ AckSeen(s, "relay")' =>
         \/ session'[<<Entry(s), s>>].early \in {"none", "relay", "expend"}
         \/ session'[<<Entry(s), s>>].early = "dial" /\ session'[<<Entry(s), s>>].later = "relay"
  BY <1>1, <1>5, <1>6, <1>7 DEF Spliced
<1>9. handler'[<<s, "relay", "dst">>] = "set" /\ relay'[s].peer = Entry(s) =>
         EntryPair(snap'[<<s, "relay", "dst">>])
  BY <1>1, <1>6, <1>7 DEF Spliced
<1> QED BY <1>1, <1>2, <1>4, <1>8, <1>9 DEF Spliced, Entry, EntryPair

\* While the entry node sets up a stream, its session holds what comes before:
\* the caller's stream, or the relay's if it is the relay.
LEMMA EntryFirst ==
    ASSUME IInv, NEW s \in Sessions, AckInv(s), Spliced(s), NEW q \in Purposes, Src(s, q) = Entry(s),
           call[<<s, q>>] = "clone", IsSome(session[<<Entry(s), s>>])
    PROVE  EntryPair(WithLater(session[<<Entry(s), s>>], q))
<1> DEFINE n == Entry(s)
           x == session[<<n, s>>]
<1>a. TypeOK /\ Chain(s) /\ Peers(s) /\ Acks(s) /\ Room(s) /\ n \in Nodes
  BY Parties DEF IInv, AckInv
<1>1. Copy(x, Joined(n, s), Owed(n, s))
  BY <1>a DEF AckInv, Copies, CopiesAt
<1>2. x.early \in Joined(n, s)
  BY <1>1 DEF Copy, Legs
<1>3. x.later = "none"
  BY <1>a DEF Room, Adding
<1>4. x \in SessionRec
  BY <1>a DEF TypeOK
<1>5. WithLater(x, q).early = x.early /\ WithLater(x, q).later = q
  BY <1>4 DEF WithLater, SessionRec
<1>6. \A p \in Purposes : p # q => call[<<s, p>>] \in {"idle", "done"}
  BY <1>a, Solo
<1>7. Src(s, q) # Dst(s, q)
  BY <1>a, Apart
<1>8. q \notin Joined(n, s)
  BY <1>7 DEF Joined
<1>9. x.early \in Purposes /\ x.early # q /\ call[<<s, x.early>>] = "done" /\ n \in {Src(s, x.early), Dst(s, x.early)}
  <2>1. x.early \in Purposes /\ x.early # q /\ n \in {Src(s, x.early), Dst(s, x.early)}
        /\ call[<<s, x.early>>] \notin Unopened
    BY <1>2, <1>8, JoinedEnds
  <2> QED BY <1>6, <2>1 DEF Unopened
<1>10. CASE q \in {"direct", "sink"}
  <2>1. x.early = "dial"
    BY <1>a, <1>9, <1>10 DEF Chain, IInv, Order, Purposes
  <2> QED BY <1>5, <1>10, <2>1 DEF EntryPair
<1>11. CASE q \notin {"direct", "sink"}
  <2>1. q = "expend" /\ relay[s].peer = Entry(s)
    <3>1. q \in {"answer", "relay"} => Entry(s) # Access(s)
      BY <1>a, ProxiesApart DEF Chain
    <3> QED BY <1>11, <3>1, Parties DEF Src, Purposes
  <2>2. call[<<s, "relay">>] = "done"
    BY <2>1 DEF IInv, Order
  <2>3. AckSeen(s, "relay")
    BY <1>a, <2>2 DEF Acks, AfterAck, Acked, AckSeen, Purposes
  <2>4. x.early = "relay"
    BY <1>3, <1>9, <2>1, <2>3 DEF Spliced, Purposes
  <2> QED BY <1>5, <2>1, <2>4 DEF EntryPair
<1> QED BY <1>10, <1>11

\* new_session_to_peer keeps what the sessions splice.
LEMMA SplicedCall ==
    ASSUME IInv, NEW s \in Sessions, AckInv(s), Spliced(s), NEW q \in Purposes, Call(s, q)
    PROVE  Spliced(s)'
<1> USE DEF callVars, readVars, nodeVars, hsVars, busVars, loopVars
<1> DEFINE n == Src(s, q)
<1>a. TypeOK /\ Chain(s) /\ Peers(s) /\ Acks(s) /\ Entry(s) \in Nodes /\ CallFrame(s, q)
  BY Parties, CallFrames DEF IInv, AckInv
<1>b. \A p \in Purposes : Src(s, p)' = Src(s, p)
  BY <1>a, CallControl
<1>c. UNCHANGED <<snap, acks, got, sink, relay>>
  BY <1>a DEF CallFrame
<1>d. call[<<s, q>>] # "idle" /\ n \in Nodes
  BY <1>a, EndsAreNodes DEF CallFrame
<1>e. call[<<s, "sink">>] \notin Unopened => call'[<<s, "sink">>] \notin Unopened
  <2>1. CASE q = "sink"
    <3>1. CASE OpenStream(s, q) \/ OpenTimeout(s, q)
      BY <2>1, <3>1 DEF OpenStream, OpenTimeout, Unopened
    <3>2. CASE RegisterAck(s, q) \/ CheckSession(s, q) \/ InsertNew(s, q) \/ CloneSession(s, q)
                 \/ ClonePanic(s, q) \/ InsertLater(s, q)
      <4>1. call'[<<s, q>>] \in {"waiting", "clone", "insert", "done", "later", "panicked"}
        BY <1>a, <3>2 DEF RegisterAck, CheckSession, InsertNew, CloneSession, ClonePanic,
             InsertLater, TypeOK, Streams
      <4> QED BY <2>1, <4>1 DEF Unopened
    <3> QED BY <3>1, <3>2 DEF Call
  <2>2. CASE q # "sink"
    BY <1>a, <2>2 DEF CallFrame, Purposes
  <2> QED BY <2>1, <2>2
<1>g. handler'[<<s, "relay", "dst">>] = "set" => handler[<<s, "relay", "dst">>] = "set"
  BY <1>a DEF CallFrame, Purposes
<1>h. AckSeen(s, "relay")' <=> AckSeen(s, "relay")
  BY <1>c DEF AckSeen
<1>i. AckSeen(s, "relay") => q = "expend" \/ q = "relay"
  <2>1. AckSeen(s, "relay") => call[<<s, "relay">>] \notin Unopened
    BY <1>a DEF Acks, Landed, Early, IInv, OpenedAt, Purposes
  <2>2. SUFFICES ASSUME call[<<s, "relay">>] # "idle" PROVE q = "expend" \/ q = "relay"
    BY <2>1 DEF Unopened
  <2>3. call[<<s, q>>] # "done"
    BY <1>a DEF CallFrame
  <2> QED BY <1>a, <1>d, <2>2, <2>3 DEF Chain, Purposes
<1>j. n = Entry(s) => q # "relay"
  BY <1>a, <1>d, ProxiesApart DEF Src, Chain
\* What the call leaves in the session of its node.
<1>1. /\ RoleOK(session'[<<n, s>>], n, s)
      /\ n = Entry(s) => EntryPair(session'[<<n, s>>])
      /\ n = Entry(s) /\ q = "expend" =>
            session'[<<n, s>>] = session[<<n, s>>] \/ session'[<<n, s>>].early \in {"relay", "expend"}
  <2>1. CASE session' = session
    BY <1>a, <1>d, <2>1 DEF Spliced
  <2>2. CASE InsertNew(s, q)
    <3>1. session'[<<n, s>>] = [role |-> MyRole(q), early |-> q, later |-> "none"]
      BY <1>a, <1>d, <2>2 DEF InsertNew, TypeOK
    <3>2. MyRole(q) # "Sink" /\ (MyRole(q) \in {"Caller", "Answer"} => n \in Clients)
      BY Parties DEF MyRole, Purposes, Src
    <3> QED BY <3>1, <3>2 DEF RoleOK, EntryPair
  <2>3. CASE InsertLater(s, q)
    <3>1. session'[<<n, s>>] = clone[<<s, q>>] /\ call[<<s, q>>] = "later"
      BY <1>a, <1>d, <2>3 DEF InsertLater, TypeOK
    <3>2. RoleOK(clone[<<s, q>>], n, s) /\ clone[<<s, q>>].later = q /\ (n = Entry(s) => EntryPair(clone[<<s, q>>]))
      BY <3>1 DEF Spliced
    <3> QED BY <3>1, <3>2 DEF EntryPair, Purposes
  <2> QED BY <2>1, <2>2, <2>3 DEF Call, OpenStream, OpenTimeout, RegisterAck, CheckSession,
        CloneSession, ClonePanic
<1>2. \A m \in Nodes : RoleOK(session[<<m, s>>], m, s)'
  <2>1. ASSUME NEW m \in Nodes PROVE RoleOK(session'[<<m, s>>], m, s)
    BY <1>1, <1>a DEF CallFrame, Spliced
  <2> QED BY <1>c, <1>e, <2>1 DEF RoleOK
<1>3. EntryPair(session'[<<Entry(s), s>>])
  BY <1>a, <1>1 DEF CallFrame, Spliced
<1>4. relay[s].peer = Entry(s) /\ AckSeen(s, "relay") =>
         \/ session'[<<Entry(s), s>>].early \in {"none", "relay", "expend"}
         \/ session'[<<Entry(s), s>>].early = "dial" /\ session'[<<Entry(s), s>>].later = "relay"
  <2>1. CASE n = Entry(s)
    BY <1>i, <1>j, <1>1, <2>1 DEF Spliced
  <2>2. CASE n # Entry(s)
    BY <1>a, <2>2 DEF Spliced, CallFrame
  <2> QED BY <2>1, <2>2
<1>5. ASSUME NEW p \in Purposes, call'[<<s, p>>] = "later"
      PROVE  /\ RoleOK(clone'[<<s, p>>], Src(s, p), s)
             /\ clone'[<<s, p>>].later = p
             /\ Src(s, p) = Entry(s) => EntryPair(clone'[<<s, p>>])
  <2>1. CASE p # q
    BY <1>a, <1>5, <2>1 DEF CallFrame, Spliced
  <2>2. CASE p = q
    <3>1. CloneSession(s, q)
      BY <1>a, <1>5, <2>2 DEF Call, OpenStream, OpenTimeout, RegisterAck, CheckSession, InsertNew,
           ClonePanic, InsertLater, TypeOK, Streams
    <3>2. clone'[<<s, q>>] = WithLater(session[<<n, s>>], q)
      BY <1>a, <3>1 DEF CloneSession, TypeOK, Streams
    <3>3. session[<<n, s>>] \in SessionRec
      BY <1>a, <1>d DEF TypeOK
    <3>4. clone'[<<s, q>>].role = session[<<n, s>>].role /\ clone'[<<s, q>>].later = q
      BY <3>2, <3>3 DEF WithLater, SessionRec
    <3>5. RoleOK(clone'[<<s, q>>], n, s)
      BY <1>d, <3>4 DEF Spliced, RoleOK
    <3>6. n = Entry(s) => EntryPair(clone'[<<s, q>>])
      BY <3>1, <3>2, EntryFirst DEF CloneSession
    <3> QED BY <2>2, <3>4, <3>5, <3>6
  <2> QED BY <2>1, <2>2
<1>6. \A p \in Purposes : call'[<<s, p>>] = "later" =>
         /\ RoleOK(clone[<<s, p>>], Src(s, p), s)'
         /\ clone'[<<s, p>>].later = p
         /\ Src(s, p)' = Entry(s) => EntryPair(clone'[<<s, p>>])
  BY <1>b, <1>c, <1>e, <1>5 DEF RoleOK
<1>7. handler'[<<s, "relay", "dst">>] = "set" /\ relay'[s].peer = Entry(s) =>
         EntryPair(snap'[<<s, "relay", "dst">>])
  BY <1>c, <1>g DEF Spliced
<1> QED BY <1>c, <1>h, <1>2, <1>3, <1>4, <1>6, <1>7 DEF Spliced, Entry, EntryPair

\* What handle_set_session leaves in the session of its node.
LEMMA SetWrites ==
    ASSUME IInv, NEW s \in Sessions, AckInv(s), Spliced(s), NEW e \in Ends, e[1] = s, Sets(e),
           ~TakeSet(e)
    PROVE  LET y == session'[<<NodeAt(e), s>>] IN
           /\ RoleOK(y, NodeAt(e), s)
           /\ NodeAt(e) = Entry(s) =>
                /\ EntryPair(y)
                /\ e[2] = "relay" =>
                     \/ y.early \in {"none", "relay", "expend"}
                     \/ y.early = "dial" /\ y.later = "relay"
<1> USE DEF callVars, readVars, nodeVars, hsVars, busVars, loopVars
<1> DEFINE q == e[2]
           n == NodeAt(e)
           y == session'[<<n, s>>]
<1>a. /\ TypeOK /\ Acks(s) /\ Chain(s) /\ Peers(s) /\ Copies(s) /\ EntryRole(s)
      /\ q \in Purposes /\ e = <<s, q, "dst">> /\ n = Dst(s, q) /\ SetFrame(s, q)
  BY SetFrames DEF IInv, AckInv
<1>b. /\ call[<<s, q>>] \in {"written", "waiting"} /\ n \in Nodes /\ q \notin Joined(n, s)
      /\ UNCHANGED <<call, sink, relay>>
  BY <1>a, SetControl DEF SetFrame
<1>c. handler[<<s, q, "dst">>] = "set" /\ handler[e] = "set"
  BY <1>a DEF Sets, ApplyReplace, ApplyNew, ApplyLater
<1>d. Copy(snap[e], Joined(n, s), Owed(n, s))
  BY <1>a, <1>b, <1>c DEF Copies, CopiesAt
<1>e. snap[e] \in SessionRec /\ session[<<n, s>>] \in SessionRec
  BY <1>a, <1>b DEF TypeOK
<1>f. n = Entry(s) => q \in {"dial", "relay"}
  BY <1>a, Parties DEF Dst, Peers, Purposes
<1>g. call[<<s, "sink">>] \notin Unopened \/ q \notin {"sink", "expend"}
  <2>1. q = "expend" => call[<<s, "relay">>] # "idle"
    BY <1>b DEF IInv, Order
  <2>2. q = "expend" => call[<<s, "sink">>] = "done"
    BY <1>a, <2>1 DEF Chain
  <2> QED BY <1>b, <2>2 DEF Unopened
<1>1. CASE ApplyReplace(e)
  <2>1. q = "relay" /\ snap[e].role = "Entry"
    BY <1>a, <1>1 DEF ApplyReplace, IsEntryAsRelay, OtherRole, Purposes
  <2>2. CASE Ready(snap[e])
    <3>1. y = WithLater(snap[e], q)
      BY <1>a, <1>b, <1>1, <2>2 DEF ApplyReplace, TypeOK
    <3>2. y.role = "Entry" /\ y.early = snap[e].early /\ y.later = "relay"
      BY <1>e, <2>1, <3>1 DEF WithLater, SessionRec
    <3>3. snap[e].early \in Joined(n, s)
      BY <1>d, <2>2 DEF Copy, Legs, Ready
    <3>4. n = Entry(s) => EntryPair(snap[e])
      BY <1>a, <1>c, <2>1 DEF Spliced, Dst
    <3>5. n = Entry(s) => snap[e].early = "dial"
      BY <1>b, <2>1, <2>2, <3>3, <3>4 DEF EntryPair, Ready
    <3> QED BY <3>2, <3>5 DEF RoleOK, EntryPair
  <2>3. CASE ~Ready(snap[e])
    <3>1. y = NoSession
      BY <1>a, <1>b, <1>1, <2>3 DEF ApplyReplace, CloseSession, TypeOK
    <3> QED BY <3>1 DEF RoleOK, EntryPair, NoSession
  <2> QED BY <2>2, <2>3
<1>2. CASE ApplyNew(e)
  <2>1. y = [role |-> OtherRole(q), early |-> q, later |-> "none"]
    BY <1>a, <1>b, <1>2 DEF ApplyNew, TypeOK
  <2>2. /\ OtherRole(q) \in {"Caller", "Answer"} => n \in Clients
        /\ OtherRole(q) = "Sink" => n = sink[s].peer /\ q \in {"sink", "expend"}
    BY <1>a, Parties DEF OtherRole, Purposes, Dst
  <2> QED BY <1>g, <2>1, <2>2 DEF RoleOK, EntryPair
<1>3. CASE ApplyLater(e)
  <2>1. y.role = session[<<n, s>>].role
    <3>1. CASE IsSome(session[<<n, s>>])
      <4>1. y = WithLater(session[<<n, s>>], q)
        BY <1>a, <1>b, <1>3, <3>1 DEF ApplyLater, TypeOK
      <4> QED BY <1>e, <4>1 DEF WithLater, SessionRec
    <3>2. CASE ~IsSome(session[<<n, s>>])
      BY <1>3, <3>2 DEF ApplyLater
    <3> QED BY <3>1, <3>2
  <2>2. RoleOK(y, n, s)
    BY <1>b, <2>1 DEF Spliced, RoleOK
  <2>3. n # Entry(s)
    <3>1. SUFFICES ASSUME n = Entry(s) PROVE FALSE
      OBVIOUS
    <3>2. IsSome(snap[e]) /\ ~IsEntryAsRelay(e)
      BY <1>3 DEF ApplyLater
    <3>3. CASE q = "relay"
      <4>1. snap[e].role \in {"none", "Entry"}
        BY <1>a, <1>c, <3>1, <3>3 DEF EntryRole
      <4> QED BY <1>a, <3>2, <3>3, <4>1 DEF IsSome, IsEntryAsRelay, OtherRole
    <3>4. CASE q = "dial"
      <4>1. snap[e].early \in Joined(n, s)
        BY <1>d, <3>2 DEF Copy, Legs
      <4>2. snap[e].early \in Purposes /\ call[<<s, snap[e].early>>] \notin Unopened
        BY <4>1, JoinedEnds
      <4>3. snap[e].early # "dial"
        BY <1>b, <3>4, <4>1
      <4>4. call[<<s, "direct">>] = "idle" /\ call[<<s, "sink">>] = "idle"
        BY <1>a, <1>b, <3>4 DEF Chain
      <4> QED BY <1>a, <4>2, <4>3, <4>4 DEF Chain, IInv, Order, Unopened, Purposes
    <3> QED BY <1>f, <3>1, <3>3, <3>4
  <2> QED BY <2>2, <2>3
<1> QED BY <1>1, <1>2, <1>3 DEF Sets

\* handle_set_session keeps what the sessions splice.
LEMMA SplicedSet ==
    ASSUME IInv, NEW s \in Sessions, AckInv(s), Spliced(s), NEW e \in Ends, e[1] = s, Sets(e)
    PROVE  Spliced(s)'
<1> USE DEF callVars, readVars, nodeVars, hsVars, busVars, loopVars
<1> DEFINE q == e[2]
           n == NodeAt(e)
<1>a. /\ TypeOK /\ Acks(s) /\ Chain(s) /\ Peers(s)
      /\ q \in Purposes /\ e = <<s, q, "dst">> /\ n = Dst(s, q) /\ SetFrame(s, q)
  BY SetFrames DEF IInv, AckInv
<1>b. /\ UNCHANGED <<call, clone, sink, relay>>
      /\ \A m \in Nodes : m # n => session'[<<m, s>>] = session[<<m, s>>]
      /\ AckSeen(s, "relay")' => AckSeen(s, "relay") \/ q = "relay"
  BY <1>a DEF SetFrame, Purposes
<1>c. \A p \in Purposes : Src(s, p)' = Src(s, p)
  BY <1>a, SetControl
<1>d. call[<<s, q>>] \in {"written", "waiting"} /\ n \in Nodes /\ Entry(s) \in Nodes
  BY <1>a, SetControl, Parties DEF SetFrame
<1>e. n = Entry(s) => q \in {"dial", "relay"}
  BY <1>a, Parties DEF Dst, Peers, Purposes
<1>f. AckSeen(s, "relay") => q # "dial"
  <2>1. AckSeen(s, "relay") => call[<<s, "relay">>] \notin Unopened
    BY <1>a DEF Acks, Landed, Early, IInv, OpenedAt, Purposes
  <2>2. call[<<s, "relay">>] # "idle" => call[<<s, "dial">>] = "done"
    BY <1>a DEF Chain
  <2> QED BY <1>d, <2>1, <2>2 DEF Unopened
<1>1. CASE TakeSet(e)
  <2>1. session' = session /\ acks' = acks /\ got' = got
    BY <1>1 DEF TakeSet
  <2>2. AckSeen(s, "relay")' <=> AckSeen(s, "relay")
    BY <2>1 DEF AckSeen
  <2>3. handler'[<<s, "relay", "dst">>] = "set" /\ relay[s].peer = Entry(s) =>
          EntryPair(snap'[<<s, "relay", "dst">>])
    <3>1. CASE q = "relay"
      <4>1. snap'[<<s, "relay", "dst">>] = session[<<n, s>>]
        BY <1>a, <1>1, <3>1 DEF TakeSet, TypeOK
      <4> QED BY <1>a, <3>1, <4>1 DEF Spliced, Dst
    <3>2. CASE q # "relay"
      <4>1. <<s, "relay", "dst">> \in Ends /\ <<s, "relay", "dst">> # e
        BY <1>a, <3>2 DEF Ends, Purposes
      <4>2. /\ snap'[<<s, "relay", "dst">>] = snap[<<s, "relay", "dst">>]
            /\ handler'[<<s, "relay", "dst">>] = handler[<<s, "relay", "dst">>]
        BY <1>a, <1>1, <4>1 DEF TakeSet, TypeOK
      <4> QED BY <4>2 DEF Spliced
    <3> QED BY <3>1, <3>2
  <2>4. \A m \in Nodes : RoleOK(session[<<m, s>>], m, s)'
    BY <1>b, <2>1 DEF RoleOK, Spliced
  <2>5. \A p \in Purposes : call'[<<s, p>>] = "later" =>
         /\ RoleOK(clone[<<s, p>>], Src(s, p), s)'
         /\ clone'[<<s, p>>].later = p
         /\ Src(s, p)' = Entry(s) => EntryPair(clone'[<<s, p>>])
    BY <1>b, <1>c DEF RoleOK, Spliced
  <2> QED BY <1>b, <2>1, <2>2, <2>3, <2>4, <2>5 DEF Spliced, Entry, EntryPair
<1>2. CASE ~TakeSet(e)
  <2>1. /\ RoleOK(session'[<<n, s>>], n, s)
        /\ n = Entry(s) => EntryPair(session'[<<n, s>>])
        /\ n = Entry(s) /\ q = "relay" =>
              \/ session'[<<n, s>>].early \in {"none", "relay", "expend"}
              \/ session'[<<n, s>>].early = "dial" /\ session'[<<n, s>>].later = "relay"
    BY <1>2, SetWrites
  <2>2. \A m \in Nodes : RoleOK(session[<<m, s>>], m, s)'
    BY <1>b, <2>1 DEF RoleOK, Spliced
  <2>3. \A p \in Purposes : call'[<<s, p>>] = "later" =>
         /\ RoleOK(clone[<<s, p>>], Src(s, p), s)'
         /\ clone'[<<s, p>>].later = p
         /\ Src(s, p)' = Entry(s) => EntryPair(clone'[<<s, p>>])
    BY <1>b, <1>c DEF RoleOK, Spliced
  <2>4. EntryPair(session'[<<Entry(s), s>>])
    BY <1>b, <1>d, <2>1 DEF Spliced
  <2>5. relay[s].peer = Entry(s) /\ AckSeen(s, "relay")' =>
         \/ session'[<<Entry(s), s>>].early \in {"none", "relay", "expend"}
         \/ session'[<<Entry(s), s>>].early = "dial" /\ session'[<<Entry(s), s>>].later = "relay"
    <3>1. CASE n = Entry(s)
      BY <1>b, <1>e, <1>f, <2>1, <3>1
    <3>2. CASE n # Entry(s)
      <4>1. relay[s].peer = Entry(s) => q # "relay"
        BY <1>a, <3>2 DEF Dst
      <4> QED BY <1>b, <1>d, <3>2, <4>1 DEF Spliced
    <3> QED BY <3>1, <3>2
  <2>6. handler'[<<s, "relay", "dst">>] = "set" /\ relay[s].peer = Entry(s) =>
          EntryPair(snap'[<<s, "relay", "dst">>])
    <3>1. handler'[e] # "set"
      BY <1>a, <1>2 DEF Sets, ApplyReplace, ApplyNew, ApplyLater, TypeOK
    <3>2. CASE q = "relay"
      BY <1>a, <3>1, <3>2
    <3>3. CASE q # "relay"
      <4>1. <<s, "relay", "dst">> \in Ends /\ <<s, "relay", "dst">> # e
        BY <1>a, <3>3 DEF Ends, Purposes
      <4>2. snap'[<<s, "relay", "dst">>] = snap[<<s, "relay", "dst">>]
        BY <1>a, <1>2, <4>1 DEF Sets, ApplyReplace, ApplyNew, ApplyLater, Forget, TypeOK
      <4>3. handler'[<<s, "relay", "dst">>] = handler[<<s, "relay", "dst">>]
        BY <1>a, <3>3 DEF SetFrame, Purposes
      <4> QED BY <4>2, <4>3 DEF Spliced
    <3> QED BY <3>2, <3>3
  <2> QED BY <1>b, <2>2, <2>3, <2>4, <2>5, <2>6 DEF Spliced, Entry, EntryPair
<1> QED BY <1>1, <1>2

\* Every step keeps what the sessions splice.
LEMMA SplicedStep ==
    ASSUME IInv, NEW s \in Sessions, AckInv(s), Spliced(s), [Next]_vars
    PROVE  Spliced(s)'
<1>1. CASE Moves(s)
  BY <1>1, SplicedStill, SplicedStart DEF Moves
<1>2. CASE \E q \in Purposes : Call(s, q)
  BY <1>2, SplicedCall
<1>3. CASE \E e \in Ends : e[1] = s /\ Sets(e)
  BY <1>3, SplicedSet
<1> QED BY <1>1, <1>2, <1>3, StepKind

-----------------------------------------------------------------------------
(* What is past stays past.                                                  *)

Onward(s) ==
    /\ pc[<<s, "circ">>] = "done" => pc'[<<s, "circ">>] = "done"
    /\ pc[<<s, "pub">>] = "done" => pc'[<<s, "pub">>] = "done" /\ sink'[s] = sink[s]
    /\ pc[<<s, "pub">>] \notin BeforeExpend => pc'[<<s, "pub">>] \notin BeforeExpend
    /\ call[<<s, "direct">>] # "idle" => call'[<<s, "direct">>] # "idle"
    /\ call[<<s, "expend">>] # "idle" => call'[<<s, "expend">>] # "idle"
    /\ call[<<s, "expend">>] \notin Unopened => call'[<<s, "expend">>] \notin Unopened
    /\ call[<<s, "relay">>] = "done" => call'[<<s, "relay">>] = "done"
    /\ pc[<<s, "pub">>] \notin BeforeExpend /\ <<s, "SessionExpend">> \notin asked
         /\ call[<<s, "expend">>] = "idle" =>
           <<s, "SessionExpend">> \notin asked' /\ call'[<<s, "expend">>] = "idle"

\* A step that touches no call and no loop.
LEMMA OnwardSame ==
    ASSUME NEW s \in Sessions, call' = call, pc' = pc, sink' = sink, asked' \subseteq asked
    PROVE  Onward(s)
BY DEF Onward

\* The steps of the loops of a session leave the tasks of the others alone.
LEMMA OnwardLoops ==
    ASSUME IInv, NEW s \in Sessions, AckInv(s), NEW t \in Sessions,
           Dial(t) \/ EntryLoop(t) \/ AccessLoop(t) \/ RelayLoop(t)
    PROVE  Onward(s)
<1> USE DEF callVars, readVars, nodeVars, hsVars, busVars, loopVars
<1>a. TypeOK /\ Order(s) /\ Chain(s)
  BY DEF IInv, AckInv
<1> USE <1>a DEF TypeOK, Streams, Tasks, Purposes
<1>1. CASE Dial(t)
  <2>1. /\ \A p \in Purposes \ {"dial"} : call'[<<s, p>>] = call[<<s, p>>]
        /\ pc'[<<s, "circ">>] = pc[<<s, "circ">>] /\ pc'[<<s, "pub">>] = pc[<<s, "pub">>]
        /\ sink' = sink
    BY <1>1 DEF Dial, DialStart, DialCircuit, DialPanic, DialReturn
  <2>2. <<s, "SessionExpend">> \in asked' => <<s, "SessionExpend">> \in asked
    <3>1. asked' \subseteq asked \cup {<<t, "NewCircuit">>}
      BY <1>1 DEF Dial, DialStart, DialCircuit, DialPanic, DialReturn, AskAndWait
    <3> QED BY <3>1
  <2> QED BY <2>1, <2>2 DEF Onward
<1>2. CASE RefuseCircuit(t) \/ DirectDone(t) \/ DirectFailed(t) \/ GiveUpSink(t) \/ SendProbe(t)
  <2>1. /\ pc' = [pc EXCEPT ![<<t, "circ">>] = "done"] /\ call' = call /\ sink' = sink
        /\ asked' \subseteq asked
    BY <1>2 DEF RefuseCircuit, TakeNewCircuit, DirectDone, DirectFailed, GiveUpSink, SendProbe
  <2> QED BY <2>1 DEF Onward
<1>3. CASE SinkDone(t)
  <2>1. /\ pc' = [pc EXCEPT ![<<t, "circ">>] = "neg"] /\ call' = call /\ sink' = sink
        /\ pc[<<t, "circ">>] = "sink" /\ asked' = asked \cup {<<t, "NegPlainText">>}
    BY <1>3 DEF SinkDone, AskAndWait
  <2> QED BY <2>1 DEF Onward
<1>4. CASE Publish(t)
  <2>1. /\ pc[<<t, "circ">>] = "neg" /\ call' = call /\ sink' = sink /\ asked' = asked
        /\ \A x \in (Sessions \X Tasks) \ {<<t, "circ">>, <<t, "pub">>} : pc'[x] = pc[x]
    BY <1>4 DEF Publish
  <2>2. CASE s = t
    BY <2>1, <2>2 DEF Onward, Order, BeforeExpend
  <2>3. CASE s # t
    <3>1. pc'[<<s, "circ">>] = pc[<<s, "circ">>] /\ pc'[<<s, "pub">>] = pc[<<s, "pub">>]
      BY <2>1, <2>3
    <3> QED BY <2>1, <3>1 DEF Onward
  <2> QED BY <2>2, <2>3
<1>5. CASE AcceptDirect(t) \/ AcceptSink(t) \/ RetrySink(t)
  <2>1. /\ pc[<<t, "circ">>] \in {"idle", "sink"} /\ asked' \subseteq asked
        /\ \A x \in (Sessions \X Tasks) \ {<<t, "circ">>} : pc'[x] = pc[x]
        /\ \A u \in Sessions \ {t} : sink'[u] = sink[u]
    BY <1>5 DEF AcceptDirect, AcceptSink, RetrySink, TakeNewCircuit
  <2>2. \E q \in {"direct", "sink"} : call' = [call EXCEPT ![<<t, q>>] = "opening"]
    BY <1>5 DEF AcceptDirect, AcceptSink, RetrySink
  <2>3. pc'[<<s, "pub">>] = pc[<<s, "pub">>]
    BY <2>1
  <2>4. pc[<<s, "circ">>] = "done" => pc'[<<s, "circ">>] = "done"
    BY <2>1
  <2>5. pc[<<s, "pub">>] = "done" => sink'[s] = sink[s]
    BY <2>1 DEF Order
  <2>6. /\ call[<<s, "direct">>] # "idle" => call'[<<s, "direct">>] # "idle"
        /\ call'[<<s, "relay">>] = call[<<s, "relay">>]
        /\ call'[<<s, "expend">>] = call[<<s, "expend">>]
    BY <2>2
  <2> QED BY <2>1, <2>3, <2>4, <2>5, <2>6 DEF Onward
<1>6. CASE AskDecrypt(t) \/ AskExpend(t)
  <2>1. /\ call' = call /\ sink' = sink /\ pc[<<t, "pub">>] \in BeforeExpend \ {"done"}
        /\ \A x \in (Sessions \X Tasks) \ {<<t, "pub">>} : pc'[x] = pc[x]
        /\ asked' \subseteq asked \cup {<<t, "DecryptGossip">>, <<t, "SessionExpend">>}
    BY <1>6 DEF AskDecrypt, AskExpend, AskAndWait, BeforeExpend
  <2>2. CASE s = t
    BY <2>1, <2>2 DEF Onward, BeforeExpend
  <2>3. CASE s # t
    BY <2>1, <2>3 DEF Onward
  <2> QED BY <2>2, <2>3
<1>7. CASE Decrypted(t) \/ PickRelay(t) \/ RetryRelay(t)
  <2>1. /\ pc[<<t, "pub">>] \in {"decrypt", "answer", "relay"} /\ asked' = asked /\ sink' = sink
        /\ \A x \in (Sessions \X Tasks) \ {<<t, "pub">>} : pc'[x] = pc[x]
    BY <1>7 DEF Decrypted, PickRelay, RetryRelay
  <2>2. \E q \in {"answer", "relay"} : call' = [call EXCEPT ![<<t, q>>] = "opening"]
            /\ (q = "relay" => call[<<t, "relay">>] # "done")
    <3>1. CASE Decrypted(t)
      BY <3>1 DEF Decrypted
    <3>2. CASE PickRelay(t)
      BY <3>2 DEF PickRelay, IInv, Order
    <3>3. CASE RetryRelay(t)
      BY <3>3 DEF RetryRelay
    <3> QED BY <1>7, <3>1, <3>2, <3>3
  <2>3. /\ call'[<<s, "direct">>] = call[<<s, "direct">>]
        /\ call[<<s, "relay">>] = "done" => call'[<<s, "relay">>] = "done"
        /\ call'[<<s, "expend">>] = call[<<s, "expend">>]
    BY <2>2
  <2>4. /\ pc'[<<s, "circ">>] = pc[<<s, "circ">>]
        /\ pc[<<s, "pub">>] \notin BeforeExpend => pc'[<<s, "pub">>] = pc[<<s, "pub">>]
    BY <2>1 DEF BeforeExpend
  <2>5. "done" \notin BeforeExpend
    BY DEF BeforeExpend
  <2> QED BY <2>1, <2>3, <2>4, <2>5 DEF Onward
<1>8. CASE GiveUpPub(t) \/ SinkIsAccess(t) \/ ExpendDone(t)
  <2>1. pc' = [pc EXCEPT ![<<t, "pub">>] = "done"] /\ call' = call /\ sink' = sink /\ asked' = asked
    BY <1>8 DEF GiveUpPub, SinkIsAccess, ExpendDone
  <2> QED BY <2>1 DEF Onward, BeforeExpend
<1>9. CASE NoSuchSession(t) \/ RelayIsEntry(t) \/ ExpendOpened(t) \/ ExpendFailed(t)
  <2>1. /\ pc' = [pc EXCEPT ![<<t, "cmd">>] = "done"] /\ call' = call /\ sink' = sink
        /\ asked' \subseteq asked
    BY <1>9 DEF NoSuchSession, RelayIsEntry, ExpendOpened, ExpendFailed, TakeExpend
  <2> QED BY <2>1 DEF Onward
<1>10. CASE Expend(t)
  <2>1. /\ pc' = [pc EXCEPT ![<<t, "cmd">>] = "open"] /\ sink' = sink /\ asked' \subseteq asked
        /\ call' = [call EXCEPT ![<<t, "expend">>] = "opening"] /\ <<t, "SessionExpend">> \in asked
    BY <1>10 DEF Expend, TakeExpend
  <2>2. call[<<s, "expend">>] \notin Unopened => call'[<<s, "expend">>] \notin Unopened
    BY <2>1 DEF Order, Unopened
  <2> QED BY <2>1, <2>2 DEF Onward
<1> QED BY <1>1, <1>2, <1>3, <1>4, <1>5, <1>6, <1>7, <1>8, <1>9, <1>10
        DEF EntryLoop, AccessLoop, RelayLoop

\* Every step of the program goes onward.
LEMMA OnwardStep ==
    ASSUME IInv, NEW s \in Sessions, AckInv(s), [Next]_vars
    PROVE  Onward(s)
<1> USE DEF callVars, readVars, nodeVars, hsVars, busVars, loopVars
<1>1. CASE UNCHANGED vars
  BY <1>1, OnwardSame DEF vars
<1>2. CASE \E k \in Keys, b \in BOOLEAN : RecvAck(k, b)
  BY <1>2, OnwardSame DEF RecvAck
<1>3. ASSUME NEW t \in Sessions, NEW q \in Purposes, Call(t, q) PROVE Onward(s)
  <2>1. CallFrame(t, q)
    BY <1>3, CallFrames
  <2>2. /\ UNCHANGED <<asked, pc, sink>>
        /\ \A p \in Purposes : /\ call[<<s, p>>] # "idle" => call'[<<s, p>>] # "idle"
                               /\ call[<<s, p>>] \in {"idle", "done"} => call'[<<s, p>>] = call[<<s, p>>]
    BY <2>1 DEF CallFrame
  <2>3. call[<<t, q>>] \notin Unopened => call'[<<t, q>>] \notin Unopened
    BY <1>3 DEF Call, OpenStream, OpenTimeout, RegisterAck, CheckSession, InsertNew, CloneSession,
         ClonePanic, InsertLater, IInv, TypeOK, Streams, Unopened
  <2>4. \A p \in Purposes : call[<<s, p>>] \notin Unopened => call'[<<s, p>>] \notin Unopened
    BY <2>1, <2>3 DEF CallFrame
  <2> QED BY <2>2, <2>4 DEF Onward, Purposes
<1>4. ASSUME NEW e \in Ends, Handle(e) PROVE Onward(s)
  <2>1. call' = call /\ asked' = asked /\ pc' = pc /\ sink' = sink
    BY <1>4 DEF Handle, TakeSet, ApplyReplace, ApplyNew, ApplyLater, TakeProbe, CheckProbe,
         StoreProbe, MatchProbe, TakeSuccess, StartHandshake, TakeData, TakeDisconnect,
         TakeErr, CloseOnErr
  <2>2. asked' \subseteq asked
    BY <2>1
  <2> QED BY <2>1, <2>2, OnwardSame
<1>5. CASE \E c \in Clients, t \in Sessions : Handshake(c, t) \/ HangUp(c, t)
  BY <1>5, OnwardSame DEF Handshake, ReadHandshake, FinishHandshake, HangUp
<1>6. CASE \E t \in Sessions, r \in Requests : ClientReply(t, r)
  BY <1>6, OnwardSame DEF ClientReply
<1>7. CASE \E t \in Sessions, p \in Purposes : BreakStream(t, p)
  BY <1>7, OnwardSame DEF BreakStream
<1>8. CASE \E t \in Sessions : Dial(t) \/ EntryLoop(t) \/ AccessLoop(t) \/ RelayLoop(t)
  BY <1>8, OnwardLoops
<1> QED BY <1>1, <1>2, <1>3, <1>4, <1>5, <1>6, <1>7, <1>8 DEF Next, System, Environment

-----------------------------------------------------------------------------
(* Steps that bring no new frame of a kind.                                  *)

QuietProbes(s) ==
    /\ \A e \in EndsOf(s) : /\ \A m \in Probes : m \in inbox'[e] => m \in inbox[e]
                            /\ handler'[e] \in AtProbe => handler[e] \in AtProbe
    /\ \A n \in Nodes : <<n, s>> \in probe' => <<n, s>> \in probe

QuietSuccess(s) ==
    /\ \A e \in EndsOf(s) : /\ "Success" \in inbox'[e] => "Success" \in inbox[e]
                            /\ handler'[e] = "success" => handler[e] = "success"
    /\ \A c \in Clients : hs'[<<c, s>>] # "idle" => hs[<<c, s>>] # "idle"

QuietHandshake(s) ==
    /\ \A e \in EndsOf(s), m \in Handshakes : m \in inbox'[e] => m \in inbox[e]
    /\ \A n \in Nodes : hs'[<<n, s>>] = hs[<<n, s>>] /\ chan'[<<n, s>>] \subseteq chan[<<n, s>>]

Quiet(s) == QuietProbes(s) /\ QuietSuccess(s) /\ QuietHandshake(s)

\* The kinds of frames are different.
LEMMA Kinds ==
    /\ "Success" \notin Probes \cup Handshakes
    /\ "ProbeE" \in Probes /\ "ProbeA" \in Probes /\ "ProbeE" # "ProbeA"
    /\ Probes = {"ProbeE", "ProbeA"}
    /\ Probes \cap Handshakes = {}
    /\ \A m \in {"SetSession", "Disconnect"} : m \notin Probes \cup Handshakes \cup {"Success"}
BY DEF Probes, Handshakes

\* The two ends of the sink's streams.
LEMMA AtSink ==
    ASSUME NEW s \in Sessions
    PROVE  /\ \A p \in {"sink", "expend"} : <<s, p, "dst">> \in EndsOf(s) /\ <<s, p, "dst">> \in SinkEnds(s)
           /\ \A e \in SinkEnds(s) : /\ e \in EndsOf(s) /\ e[2] \in {"sink", "expend"}
                                     /\ e = <<s, e[2], "dst">> /\ Way(e) \in ToSink
BY DEF EndsOf, Ends, SinkEnds, Purposes, Way, ToSink

\* What counts the probes does not grow.
LEMMA ProbesLess ==
    ASSUME NEW s \in Sessions, Onward(s), ProbeInv(s), Routed(s)',
           Outstanding(s)' \subseteq Outstanding(s), Handled(s)' \subseteq Handled(s),
           Stored(s)' \subseteq Stored(s)
    PROVE  ProbeInv(s)'
<1>1. AtMostTwo(Outstanding(s)' \cup Handled(s)' \cup Stored(s)')
  <2>1. Outstanding(s)' \cup Handled(s)' \cup Stored(s)' \subseteq Outstanding(s) \cup Handled(s) \cup Stored(s)
    OBVIOUS
  <2> QED BY <2>1, CountSub DEF ProbeInv
<1>2. call'[<<s, "expend">>] \in Unopened =>
         AtMostOne((Outstanding(s)' \ {"ProbeA"}) \cup Handled(s)' \cup Stored(s)')
  <2>1. (Outstanding(s)' \ {"ProbeA"}) \cup Handled(s)' \cup Stored(s)'
           \subseteq (Outstanding(s) \ {"ProbeA"}) \cup Handled(s) \cup Stored(s)
    OBVIOUS
  <2>2. call'[<<s, "expend">>] \in Unopened => call[<<s, "expend">>] \in Unopened
    BY DEF Onward
  <2> QED BY <2>1, <2>2, CountSub DEF ProbeInv
<1> QED BY <1>1, <1>2 DEF ProbeInv, AtMostOne, AtMostTwo

\* A step that starts no probe handler and stores no probe.
QuietSink(s) ==
    /\ \A e \in EndsOf(s) : handler'[e] \in AtProbe => handler[e] \in AtProbe
    /\ \A n \in Nodes : <<n, s>> \in probe' => <<n, s>> \in probe

\* Such a step keeps a sink busy, and gives it no probe.
LEMMA SinkQuiet ==
    ASSUME NEW s \in Sessions, Busy(s), QuietSink(s)
    PROVE  Busy(s)' /\ Handled(s)' \subseteq Handled(s) /\ Stored(s)' \subseteq Stored(s)
<1>1. Handled(s)' \subseteq Handled(s)
  BY AtSink DEF Handled, QuietSink
<1>2. Stored(s)' \subseteq Stored(s)
  BY DEF Stored, QuietSink
<1>3. Busy(s)'
  BY DEF Busy, QuietSink, EndsOf, SinkEnds
<1> QED BY <1>1, <1>2, <1>3

\* No new probe: the counts do not grow.
LEMMA ProbesQuiet ==
    ASSUME NEW s \in Sessions, Onward(s), Busy(s), ProbeInv(s), QuietProbes(s)
    PROVE  /\ Busy(s)' /\ ProbeInv(s)'
           /\ Outstanding(s)' \subseteq Outstanding(s) /\ Handled(s)' \subseteq Handled(s)
<1>1. \A m \in Probes :
        /\ Waits(s, ToSink, m)' \subseteq Waits(s, ToSink, m)
        /\ Waits(s, {<<"dial", "dst">>, <<"answer", "src">>}, m)'
             \subseteq Waits(s, {<<"dial", "dst">>, <<"answer", "src">>}, m)
        /\ Waits(s, {<<"sink", "dst">>}, m)' \subseteq Waits(s, {<<"sink", "dst">>}, m)
  BY DEF Waits, QuietProbes, ToSink, EndsOf, Way
<1>2. Outstanding(s)' \subseteq Outstanding(s)
  <2>1. Waits(s, ToSink, "ProbeE")' # {} => Waits(s, ToSink, "ProbeE") # {}
    BY <1>1, Kinds
  <2>2. Waits(s, ToSink, "ProbeA")' # {} => Waits(s, ToSink, "ProbeA") # {}
    BY <1>1, Kinds
  <2> QED BY <2>1, <2>2 DEF Outstanding, Onward
<1>3. Routed(s)
  BY DEF ProbeInv
<1>4. \A m \in Probes : Waits(s, {<<"dial", "dst">>, <<"answer", "src">>}, m)' = {}
  BY <1>1, <1>3 DEF Routed
<1>5. Waits(s, {<<"sink", "dst">>}, "ProbeA")' = {}
  BY <1>1, <1>3, Kinds DEF Routed
<1>6. \A m \in Probes : AtMostOne(Waits(s, ToSink, m)')
  BY <1>1, <1>3, CountSub DEF Routed
<1>7. /\ pc'[<<s, "circ">>] # "done" => Waits(s, ToSink, "ProbeE")' = {}
      /\ pc'[<<s, "pub">>] # "done" => Waits(s, ToSink, "ProbeA")' = {}
  BY <1>1, <1>3, Kinds DEF Routed, Onward
<1>8. Routed(s)'
  BY <1>4, <1>5, <1>6, <1>7 DEF Routed, AtMostOne
<1>9. Busy(s)' /\ Handled(s)' \subseteq Handled(s) /\ Stored(s)' \subseteq Stored(s)
  BY SinkQuiet DEF QuietProbes, QuietSink
<1> QED BY <1>2, <1>8, <1>9, ProbesLess

\* The reporting step stays past, if no probe comes after both are handled.
LEMMA ConcludedStays ==
    ASSUME NEW s \in Sessions, Onward(s), Concluded(s),
           Outstanding(s) \cup Handled(s) = {} => Outstanding(s)' \cup Handled(s)' = {}
    PROVE  Concluded(s)'
<1>1. CASE pc[<<s, "circ">>] = "done" /\ call[<<s, "direct">>] # "idle"
  BY <1>1 DEF Onward, Concluded
<1>2. CASE pc[<<s, "pub">>] = "done" /\ sink[s].peer = Access(s)
  BY <1>2 DEF Onward, Concluded, Access
<1>3. CASE /\ pc[<<s, "pub">>] \notin BeforeExpend /\ <<s, "SessionExpend">> \notin asked
           /\ call[<<s, "expend">>] = "idle" /\ call[<<s, "relay">>] = "done"
  BY <1>3 DEF Onward, Concluded
<1>4. CASE call[<<s, "expend">>] # "idle" /\ Outstanding(s) \cup Handled(s) = {}
  BY <1>4 DEF Onward, Concluded
<1> QED BY <1>1, <1>2, <1>3, <1>4 DEF Concluded

\* What is in Places.
LEMMA InPlaces ==
    ASSUME NEW s, NEW D, NEW c
    PROVE  /\ \A e \in EndsOf(s) : Way(e) \in D /\ "Success" \in inbox[e] => <<"in", e>> \in Places(s, D, c)
           /\ \A e \in EndsOf(s) : Way(e) \in D /\ handler[e] = "success" => <<"at", e>> \in Places(s, D, c)
           /\ hs[<<c, s>>] # "idle" => <<"hs", s>> \in Places(s, D, c)
           /\ \A x \in Places(s, D, c) :
                \/ \E e \in EndsOf(s) : Way(e) \in D /\ "Success" \in inbox[e] /\ x = <<"in", e>>
                \/ \E e \in EndsOf(s) : Way(e) \in D /\ handler[e] = "success" /\ x = <<"at", e>>
                \/ hs[<<c, s>>] # "idle" /\ x = <<"hs", s>>
BY DEF Places, Waits

\* And what is there after a step.
LEMMA NextPlaces ==
    ASSUME NEW s, NEW D, NEW c, NEW x \in Places(s, D, c)'
    PROVE  \/ \E e \in EndsOf(s) : Way(e) \in D /\ "Success" \in inbox'[e] /\ x = <<"in", e>>
           \/ \E e \in EndsOf(s) : Way(e) \in D /\ handler'[e] = "success" /\ x = <<"at", e>>
           \/ hs'[<<c, s>>] # "idle" /\ x = <<"hs", s>>
BY DEF Places, Waits, EndsOf, Way

\* No new report of success.
LEMMA SuccessQuiet ==
    ASSUME NEW s \in Sessions, SuccessInv(s), QuietSuccess(s), Concluded(s) => Concluded(s)'
    PROVE  SuccessInv(s)'
<1>1. ASSUME NEW D, NEW c \in Clients PROVE Places(s, D, c)' \subseteq Places(s, D, c)
  BY DEF Places, Waits, QuietSuccess
<1>2. From[s] \in Clients /\ To[s] \in Clients
  BY CircuitAssumption
<1>3. ToCaller(s)' \subseteq ToCaller(s) /\ ToRemote(s)' \subseteq ToRemote(s)
  BY <1>1, <1>2 DEF ToCaller, ToRemote
<1>4. AtMostOne(ToCaller(s)') /\ AtMostOne(ToRemote(s)')
  BY <1>3, CountSub DEF SuccessInv
<1>5. ToCaller(s)' \cup ToRemote(s)' # {} => Concluded(s)'
  BY <1>3 DEF SuccessInv
<1>6. \A e \in EndsOf(s) : handler'[e] = "success" => Way(e) \in AtClient
  BY DEF SuccessInv, QuietSuccess
<1> QED BY <1>4, <1>5, <1>6 DEF SuccessInv, AtMostOne, Way, EndsOf

\* No step of a handshake.
LEMMA HandshakeQuiet ==
    ASSUME NEW s \in Sessions, HsInv(s), QuietHandshake(s)
    PROVE  HsInv(s)'
<1>1. Clients \subseteq Nodes /\ From[s] \in Nodes /\ To[s] \in Nodes
  BY CircuitAssumption DEF Nodes
<1>2. \A m \in Handshakes : Anywhere(s, m)' => Anywhere(s, m)
  BY DEF Anywhere, QuietHandshake
<1>3. {"Hs1", "Hs2", "Hs3"} = Handshakes
  BY DEF Handshakes
<1>4. \A c \in Clients : hs'[<<c, s>>] = hs[<<c, s>>]
  BY <1>1 DEF QuietHandshake
<1>5. hs'[<<From[s], s>>] = hs[<<From[s], s>>] /\ hs'[<<To[s], s>>] = hs[<<To[s], s>>]
  BY <1>1 DEF QuietHandshake
<1> QED BY <1>2, <1>3, <1>4, <1>5 DEF HsInv

-----------------------------------------------------------------------------
(* What the steps do to the frames.                                          *)

\* At end e frame m is taken, and what comes in its place comes to an end of F.
Took(e, m, F) == \A d \in Ends : \A k : k \in inbox'[d] =>
    \/ k \in inbox[d] /\ ~(d = e /\ k = m)
    \/ k = m /\ d # e /\ d \in F

\* Frame m is added, at ends of F.
Wrote(m, F) == \A d \in Ends : \A k : k \in inbox'[d] => k \in inbox[d] \/ (k = m /\ d \in F)

\* Deliver adds nothing but the frame, and that only at the ends it goes to.
LEMMA Delivered ==
    ASSUME NEW F, NEW m, Deliver(F, m)
    PROVE  Wrote(m, F)
<1>1. \A d \in Ends : inbox'[d] \in {inbox[d], inbox[d] \cup {m}} /\ (d \notin F => inbox'[d] = inbox[d])
  BY DEF Deliver
<1> QED BY <1>1 DEF Wrote

\* Drop takes the frame from the end that read it, and adds none.
LEMMA Dropped ==
    ASSUME TypeOK, NEW e \in Ends, NEW m, Drop(e, m)
    PROVE  Took(e, m, {})
<1>1. \A d \in Ends : inbox'[d] = IF d = e THEN inbox[d] \ {m} ELSE inbox[d]
  BY DEF Drop, TypeOK
<1> QED BY <1>1 DEF Took

\* Forward takes the frame from the end that read it, and adds it, if at all, at
\* the far ends of the other leg.
LEMMA Forwarded ==
    ASSUME NEW e \in Ends, NEW x, NEW m, Forward(e, x, m)
    PROVE  Took(e, m, FarEnds(NodeAt(e), e[1], OtherLeg(x, e[2])))
<1> DEFINE F == FarEnds(NodeAt(e), e[1], OtherLeg(x, e[2]))
<1>1. \A d \in Ends : /\ d = e => inbox'[d] = inbox[d] \ {m}
                      /\ d # e => inbox'[d] \in {inbox[d], inbox[d] \cup {m}}
                      /\ d # e /\ d \notin F => inbox'[d] = inbox[d]
  BY DEF Forward
<1> QED BY <1>1 DEF Took

\* A step that adds no frame and starts no handler is quiet.
LEMMA QuietSame ==
    ASSUME NEW s \in Sessions, handler' = handler, hs' = hs, chan' = chan, probe' \subseteq probe,
           inbox' = inbox
    PROVE  Quiet(s)
BY DEF Quiet, QuietProbes, QuietSuccess, QuietHandshake

\* So is, for the other frames of session s, one that writes a frame.
LEMMA QuietWrite ==
    ASSUME NEW s \in Sessions, NEW m, NEW F, Wrote(m, F), handler' = handler, hs' = hs, chan' = chan,
           probe' = probe
    PROVE  /\ m \notin Probes \/ EndsOf(s) \cap F = {} => QuietProbes(s)
           /\ m # "Success" \/ EndsOf(s) \cap F = {} => QuietSuccess(s)
           /\ m \notin Handshakes \/ EndsOf(s) \cap F = {} => QuietHandshake(s)
<1>1. \A d \in EndsOf(s) : d \in Ends
  BY DEF EndsOf
<1>2. \A d \in EndsOf(s) : \A k : k \in inbox'[d] => k \in inbox[d] \/ (k = m /\ d \in F)
  BY <1>1 DEF Wrote
<1> QED BY <1>2 DEF QuietProbes, QuietSuccess, QuietHandshake

\* new_session_to_peer writes SetSession only.
LEMMA QuietCall ==
    ASSUME IInv, NEW s \in Sessions, NEW t \in Sessions, NEW q \in Purposes, Call(t, q)
    PROVE  Quiet(s)
<1> USE DEF callVars, readVars, nodeVars, hsVars, busVars, loopVars
<1>a. TypeOK
  BY DEF IInv
<1>1. CASE OpenStream(t, q)
  <2>1. <<t, q, "dst">> \in Ends
    BY DEF Ends
  <2>2. \A d \in EndsOf(s) : /\ \A k : k \in inbox'[d] => k \in inbox[d] \/ k = "SetSession"
                             /\ handler'[d] \in {handler[d], "fresh"}
    BY <1>a, <1>1 DEF OpenStream, TypeOK, EndsOf
  <2>3. UNCHANGED <<hs, chan, probe>>
    BY <1>1 DEF OpenStream
  <2>4. /\ \A d \in EndsOf(s) : handler'[d] \in AtProbe => handler[d] \in AtProbe
        /\ \A d \in EndsOf(s) : handler'[d] = "success" => handler[d] = "success"
    BY <2>2 DEF AtProbe
  <2>5. \A d \in EndsOf(s) : \A k \in Probes \cup Handshakes \cup {"Success"} : k \in inbox'[d] => k \in inbox[d]
    BY <2>2, Kinds
  <2> QED BY <2>3, <2>4, <2>5 DEF Quiet, QuietProbes, QuietSuccess, QuietHandshake
<1>2. CASE CheckSession(t, q)
  <2>1. \A d \in EndsOf(s) : handler'[d] \in {handler[d], "read"}
    BY <1>a, <1>2 DEF CheckSession, TypeOK, EndsOf
  <2>2. UNCHANGED <<inbox, hs, chan, probe>>
    BY <1>2 DEF CheckSession
  <2> QED BY <2>1, <2>2 DEF Quiet, QuietProbes, QuietSuccess, QuietHandshake, AtProbe
<1>3. CASE OpenTimeout(t, q) \/ RegisterAck(t, q) \/ InsertNew(t, q) \/ CloneSession(t, q)
             \/ ClonePanic(t, q) \/ InsertLater(t, q)
  <2>1. UNCHANGED <<handler, inbox, hs, chan, probe>>
    BY <1>3 DEF OpenTimeout, RegisterAck, InsertNew, CloneSession, ClonePanic, InsertLater
  <2> QED BY <2>1, QuietSame
<1> QED BY <1>1, <1>2, <1>3 DEF Call

\* The far ends of a node's streams of session t are ends of t.
LEMMA FarElsewhere ==
    ASSUME NEW s \in Sessions, NEW t \in Sessions, s # t, NEW n, NEW P
    PROVE  EndsOf(s) \cap FarEnds(n, t, P) = {}
BY DEF EndsOf, FarEnds

\* The loops, the environment and the delivery of acks add no frame, but for the
\* five steps that send one on the streams of their own session.
LEMMA QuietLoops ==
    ASSUME IInv, NEW s \in Sessions, NEW t \in Sessions,
           \/ Dial(t) \/ EntryLoop(t) \/ AccessLoop(t) \/ RelayLoop(t)
           \/ \E c \in Clients : HangUp(c, t)
           \/ \E r \in Requests : ClientReply(t, r)
           \/ \E p \in Purposes : BreakStream(t, p)
           \/ \E k \in Keys, b \in BOOLEAN : RecvAck(k, b)
           \/ UNCHANGED vars
    PROVE  \/ Quiet(s)
           \/ /\ s = t /\ QuietProbes(s) /\ QuietHandshake(s)
              /\ DirectDone(s) \/ SinkIsAccess(s) \/ RelayIsEntry(s)
           \/ /\ s = t /\ QuietSuccess(s) /\ QuietHandshake(s)
              /\ SendProbe(s) \/ ExpendDone(s)
<1> USE DEF callVars, readVars, nodeVars, hsVars, busVars, loopVars
<1>1. CASE \E k \in Keys, b \in BOOLEAN : RecvAck(k, b)
  BY <1>1, QuietSame DEF RecvAck
<1>2. CASE UNCHANGED vars
  BY <1>2, QuietSame DEF vars
<1>3. CASE \/ Dial(t) \/ \E c \in Clients : HangUp(c, t)
           \/ \E r \in Requests : ClientReply(t, r)
           \/ \E p \in Purposes : BreakStream(t, p)
  <2>1. UNCHANGED <<handler, hs, chan, inbox>> /\ probe' \subseteq probe
    BY <1>3 DEF Dial, DialStart, DialCircuit, DialPanic, DialReturn, HangUp, ClientReply, BreakStream,
         CloseSession
  <2> QED BY <2>1, QuietSame
<1>4. CASE EntryLoop(t) /\ ~DirectDone(t) /\ ~SendProbe(t)
  <2>1. UNCHANGED <<handler, hs, chan, inbox>> /\ probe' \subseteq probe
    BY <1>4 DEF EntryLoop, RefuseCircuit, AcceptDirect, DirectFailed, AcceptSink, RetrySink, GiveUpSink,
         SinkDone, Publish, CloseSession
  <2> QED BY <2>1, QuietSame
<1>5. CASE AccessLoop(t) /\ ~SinkIsAccess(t) /\ ~ExpendDone(t)
  <2>1. UNCHANGED <<handler, hs, chan, inbox>> /\ probe' \subseteq probe
    BY <1>5 DEF AccessLoop, AskDecrypt, Decrypted, GiveUpPub, PickRelay, RetryRelay, AskExpend,
         CloseSession
  <2> QED BY <2>1, QuietSame
<1>6. CASE RelayLoop(t) /\ ~RelayIsEntry(t)
  <2>1. UNCHANGED <<handler, hs, chan, inbox>> /\ probe' \subseteq probe
    BY <1>6 DEF RelayLoop, NoSuchSession, Expend, ExpendOpened, ExpendFailed, CloseSession
  <2> QED BY <2>1, QuietSame
<1>7. CASE DirectDone(t) \/ SinkIsAccess(t) \/ RelayIsEntry(t)
  <2>1. PICK n : Deliver(FarEnds(n, t, Legs(session[<<n, t>>])), "Success")
    BY <1>7 DEF DirectDone, SinkIsAccess, RelayIsEntry
  <2>2. UNCHANGED <<handler, hs, chan, probe>>
    BY <1>7 DEF DirectDone, SinkIsAccess, RelayIsEntry
  <2>3. Wrote("Success", FarEnds(n, t, Legs(session[<<n, t>>])))
    BY <2>1, Delivered
  <2>4. QuietProbes(s) /\ QuietHandshake(s)
    BY <2>2, <2>3, QuietWrite, Kinds
  <2>5. s # t => QuietSuccess(s)
    BY <2>2, <2>3, QuietWrite, FarElsewhere
  <2> QED BY <1>7, <2>4, <2>5 DEF Quiet
<1>8. CASE SendProbe(t) \/ ExpendDone(t)
  <2>1. PICK n, m : m \in Probes /\ Deliver(FarEnds(n, t, Legs(session[<<n, t>>])), m)
    BY <1>8, Kinds DEF SendProbe, ExpendDone
  <2>2. UNCHANGED <<handler, hs, chan, probe>>
    BY <1>8 DEF SendProbe, ExpendDone
  <2>3. Wrote(m, FarEnds(n, t, Legs(session[<<n, t>>])))
    BY <2>1, Delivered
  <2>4. m \notin Handshakes /\ m # "Success"
    BY <2>1, Kinds
  <2>5. QuietSuccess(s) /\ QuietHandshake(s)
    BY <2>2, <2>3, <2>4, QuietWrite
  <2>6. s # t => QuietProbes(s)
    BY <2>2, <2>3, QuietWrite, FarElsewhere
  <2> QED BY <1>8, <2>5, <2>6 DEF Quiet
<1> QED BY <1>1, <1>2, <1>3, <1>4, <1>5, <1>6, <1>7, <1>8

\* relay_event_handler leaves the frames and handshakes of other sessions alone.
LEMMA HandleElsewhere ==
    ASSUME IInv, NEW s \in Sessions, NEW e \in Ends, Handle(e), e[1] # s
    PROVE  Quiet(s)
<1> USE DEF callVars, readVars, nodeVars, hsVars, busVars, loopVars
<1>a. TypeOK
  BY DEF IInv
<1>b. e[1] \in Sessions /\ \A d \in EndsOf(s) : d \in Ends /\ d # e /\ d[1] = s
  BY DEF EndsOf, Ends
<1>1. \A d \in EndsOf(s) : handler'[d] = handler[d]
  <2>1. CASE TakeSet(e) \/ ApplyReplace(e) \/ ApplyNew(e) \/ ApplyLater(e) \/ CheckProbe(e) \/ StoreProbe(e)
    BY <1>a, <1>b, <2>1 DEF TakeSet, ApplyReplace, ApplyNew, ApplyLater, CheckProbe, StoreProbe, TypeOK
  <2>2. CASE MatchProbe(e) \/ TakeSuccess(e) \/ StartHandshake(e)
    BY <1>a, <1>b, <2>2 DEF MatchProbe, TakeSuccess, StartHandshake, TypeOK
  <2>3. CASE \/ \E m \in Probes : TakeProbe(e, m)
             \/ \E m \in Handshakes : TakeData(e, m)
    BY <1>a, <1>b, <2>3 DEF TakeProbe, TakeData, TypeOK
  <2>4. CASE TakeDisconnect(e) \/ TakeErr(e) \/ CloseOnErr(e)
    BY <1>a, <1>b, <2>4 DEF TakeDisconnect, TakeErr, CloseOnErr, TypeOK
  <2> QED BY <2>1, <2>2, <2>3, <2>4 DEF Handle
<1>2. \A d \in EndsOf(s) : \A k : k \in inbox'[d] => k \in inbox[d]
  <2>1. ASSUME NEW m, Drop(e, m) PROVE \A d \in EndsOf(s) : \A k : k \in inbox'[d] => k \in inbox[d]
    BY <1>a, <1>b, <2>1 DEF Drop, TypeOK
  <2>2. ASSUME NEW m, NEW n, NEW P, Deliver(FarEnds(n, e[1], P), m)
        PROVE  \A d \in EndsOf(s) : \A k : k \in inbox'[d] => k \in inbox[d]
    <3>1. Wrote(m, FarEnds(n, e[1], P))
      BY <2>2, Delivered
    <3>2. EndsOf(s) \cap FarEnds(n, e[1], P) = {}
      BY <1>b, FarElsewhere
    <3> QED BY <1>b, <3>1, <3>2 DEF Wrote
  <2>3. ASSUME NEW m, NEW x, Forward(e, x, m)
        PROVE  \A d \in EndsOf(s) : \A k : k \in inbox'[d] => k \in inbox[d]
    <3>1. Took(e, m, FarEnds(NodeAt(e), e[1], OtherLeg(x, e[2])))
      BY <2>3, Forwarded
    <3>2. EndsOf(s) \cap FarEnds(NodeAt(e), e[1], OtherLeg(x, e[2])) = {}
      BY <1>b, FarElsewhere
    <3> QED BY <1>b, <3>1, <3>2 DEF Took
  <2>4. CASE TakeSet(e)
    BY <2>1, <2>4 DEF TakeSet
  <2>5. CASE ApplyReplace(e)
    BY <2>2, <2>5 DEF ApplyReplace
  <2>6. CASE ApplyNew(e) \/ ApplyLater(e) \/ CheckProbe(e) \/ StoreProbe(e) \/ CloseOnErr(e)
    BY <2>6 DEF ApplyNew, ApplyLater, CheckProbe, StoreProbe, CloseOnErr
  <2>7. CASE MatchProbe(e) \/ StartHandshake(e)
    BY <2>2, <2>7 DEF MatchProbe, StartHandshake
  <2>8. CASE TakeSuccess(e)
    BY <2>1, <2>3, <2>8 DEF TakeSuccess
  <2>9. CASE \E m \in Probes : TakeProbe(e, m)
    BY <2>1, <2>3, <2>9 DEF TakeProbe
  <2>10. CASE \E m \in Handshakes : TakeData(e, m)
    BY <2>1, <2>3, <2>10 DEF TakeData
  <2>11. CASE TakeDisconnect(e) \/ TakeErr(e)
    BY <1>a, <1>b, <2>11 DEF TakeDisconnect, TakeErr, TypeOK
  <2> QED BY <2>4, <2>5, <2>6, <2>7, <2>8, <2>9, <2>10, <2>11 DEF Handle
<1>3. \A n \in Nodes : <<n, s>> \in probe' => <<n, s>> \in probe
  <2>1. CASE StoreProbe(e)
    BY <1>b, <2>1 DEF StoreProbe
  <2>2. CASE ~StoreProbe(e)
    <3>1. probe' \subseteq probe
      BY <2>2 DEF Handle, TakeSet, ApplyReplace, ApplyNew, ApplyLater, TakeProbe, CheckProbe,
         MatchProbe, TakeSuccess, StartHandshake, TakeData, TakeDisconnect, TakeErr, CloseOnErr,
         CloseSession
    <3> QED BY <3>1
  <2> QED BY <2>1, <2>2
<1>4. \A n \in Nodes : hs'[<<n, s>>] = hs[<<n, s>>] /\ chan'[<<n, s>>] = chan[<<n, s>>]
  <2>1. CASE StartHandshake(e)
    BY <1>a, <1>b, <2>1 DEF StartHandshake, TypeOK
  <2>2. CASE \E m \in Handshakes : TakeData(e, m)
    BY <1>a, <1>b, <2>2 DEF TakeData, TypeOK
  <2>3. CASE UNCHANGED <<hs, chan>>
    BY <2>3
  <2> QED BY <2>1, <2>2, <2>3 DEF Handle, TakeSet, ApplyReplace, ApplyNew, ApplyLater, TakeProbe,
        CheckProbe, StoreProbe, MatchProbe, TakeSuccess, TakeDisconnect, TakeErr, CloseOnErr
<1> QED BY <1>1, <1>2, <1>3, <1>4, CircuitAssumption
        DEF Quiet, QuietProbes, QuietSuccess, QuietHandshake, Nodes

\* In its own session it is quiet when it sets up a session or closes one.
LEMMA HandleQuiet ==
    ASSUME IInv, NEW s \in Sessions, NEW e \in Ends, e[1] = s,
           \/ TakeSet(e) \/ ApplyReplace(e) \/ ApplyNew(e) \/ ApplyLater(e) \/ CheckProbe(e)
           \/ TakeDisconnect(e) \/ TakeErr(e) \/ CloseOnErr(e)
    PROVE  Quiet(s)
<1> USE DEF callVars, readVars, nodeVars, hsVars, busVars, loopVars
<1>a. TypeOK /\ \A d \in EndsOf(s) : d \in Ends
  BY DEF IInv, EndsOf
<1>1. \A d \in EndsOf(s) : /\ handler'[d] \in AtProbe => handler[d] \in AtProbe
                           /\ handler'[d] = "success" => handler[d] = "success"
  <2>1. CASE TakeSet(e) \/ ApplyReplace(e) \/ ApplyNew(e)
    BY <1>a, <2>1 DEF TakeSet, ApplyReplace, ApplyNew, TypeOK, AtProbe
  <2>2. CASE ApplyLater(e)
    BY <1>a, <2>2 DEF ApplyLater, TypeOK, AtProbe
  <2>3. CASE CheckProbe(e)
    BY <1>a, <2>3 DEF CheckProbe, TypeOK, AtProbe
  <2>4. CASE TakeDisconnect(e) \/ TakeErr(e) \/ CloseOnErr(e)
    BY <1>a, <2>4 DEF TakeDisconnect, TakeErr, CloseOnErr, TypeOK, AtProbe
  <2> QED BY <2>1, <2>2, <2>3, <2>4
<1>2. \A d \in EndsOf(s) : \A k : k \in inbox'[d] => k \in inbox[d] \/ k = "Disconnect"
  <2>1. CASE TakeSet(e)
    BY <1>a, <2>1 DEF TakeSet, Drop, TypeOK
  <2>2. CASE ApplyReplace(e)
    <3>1. inbox' = inbox \/ \E F : Wrote("Disconnect", F)
      BY <2>2, Delivered DEF ApplyReplace
    <3> QED BY <1>a, <3>1 DEF Wrote
  <2>3. CASE ApplyNew(e) \/ ApplyLater(e) \/ CheckProbe(e) \/ CloseOnErr(e)
    BY <2>3 DEF ApplyNew, ApplyLater, CheckProbe, CloseOnErr
  <2>4. CASE TakeDisconnect(e) \/ TakeErr(e)
    BY <1>a, <2>4 DEF TakeDisconnect, TakeErr, TypeOK
  <2> QED BY <2>1, <2>2, <2>3, <2>4
<1>3. \A d \in EndsOf(s) : \A k \in Probes \cup Handshakes \cup {"Success"} : k \in inbox'[d] => k \in inbox[d]
  BY <1>2, Kinds
<1>4. UNCHANGED <<hs, chan>> /\ probe' \subseteq probe
  BY DEF TakeSet, ApplyReplace, ApplyNew, ApplyLater, CheckProbe, TakeDisconnect, TakeErr, CloseOnErr,
       CloseSession
<1> QED BY <1>1, <1>3, <1>4 DEF Quiet, QuietProbes, QuietSuccess, QuietHandshake

-----------------------------------------------------------------------------
(* The steps of the probes.                                                  *)

\* Where a probe that was taken at end e may come next.
OnFrom(s, e, F) ==
    /\ \A f, g \in F : f = g
    /\ \A f \in F : /\ f \in EndsOf(s)
                    /\ Way(f) \notin {<<"dial", "dst">>, <<"answer", "src">>}
                    /\ Way(f) = <<"sink", "dst">> => Way(e) = <<"dial", "dst">>
                    /\ Way(f) = <<"relay", "dst">> => Way(e) = <<"answer", "src">>
                    /\ Way(f) = <<"expend", "dst">> => Way(e) = <<"relay", "dst">>

\* A probe that moves on moves towards the sink.
LEMMA ProbeMoves ==
    ASSUME NEW s \in Sessions, Onward(s), Routed(s), NEW e \in EndsOf(s), NEW m \in Probes,
           m \in inbox[e], NEW F, Took(e, m, F), OnFrom(s, e, F)
    PROVE  Routed(s)' /\ Outstanding(s)' \subseteq Outstanding(s)
<1> DEFINE Back == {<<"dial", "dst">>, <<"answer", "src">>}
<1>a. \A d \in EndsOf(s) : d \in Ends
  BY DEF EndsOf
<1>1. \A d \in EndsOf(s) : \A k : k \in inbox'[d] =>
        \/ k \in inbox[d] /\ ~(d = e /\ k = m)
        \/ k = m /\ d # e /\ d \in F
  BY <1>a DEF Took
<1>2. Way(e) \notin Back
  BY DEF Routed, Waits
<1>3. \A f \in F : /\ Way(f) \notin Back /\ Way(f) # <<"sink", "dst">>
                   /\ Way(f) \in ToSink => Way(f) = <<"expend", "dst">> /\ Way(e) = <<"relay", "dst">>
  BY <1>2 DEF OnFrom, ToSink
<1>4. \A k \in Probes : \A d \in EndsOf(s) : k \in inbox'[d] /\ Way(d) \in Back => FALSE
  BY <1>1, <1>3 DEF Routed, Waits
<1>5. \A d \in EndsOf(s) : Way(d) = <<"sink", "dst">> => "ProbeA" \notin inbox'[d]
  BY <1>1, <1>3 DEF Routed, Waits
<1>6. ASSUME NEW k \in Probes
      PROVE  /\ Waits(s, ToSink, k)' # {} => Waits(s, ToSink, k) # {}
             /\ AtMostOne(Waits(s, ToSink, k)')
  <2>0. AtMostOne(Waits(s, ToSink, k))
    BY DEF Routed
  <2>1. CASE k # m \/ \A f \in F : Way(f) \notin ToSink
    <3>1. Waits(s, ToSink, k)' \subseteq Waits(s, ToSink, k)
      BY <1>1, <2>1 DEF Waits, ToSink, EndsOf, Way
    <3> QED BY <2>0, <3>1, CountSub
  <2>2. CASE k = m /\ \E f \in F : Way(f) \in ToSink
    <3>1. PICK f \in F : Way(f) \in ToSink
      BY <2>2
    <3>2. Way(e) \in ToSink
      BY <1>3, <3>1 DEF ToSink
    <3>3. e \in Waits(s, ToSink, k)
      BY <2>2, <3>2 DEF Waits
    <3>4. Waits(s, ToSink, k)' \subseteq (Waits(s, ToSink, k) \ {e}) \cup {f}
      <4>1. \A g \in F : g = f
        BY <3>1 DEF OnFrom
      <4> QED BY <1>1, <2>2, <4>1 DEF Waits, ToSink, EndsOf, Way
    <3> QED BY <2>0, <3>3, <3>4, CountMoved
  <2> QED BY <2>1, <2>2
<1>7. /\ pc'[<<s, "circ">>] # "done" => Waits(s, ToSink, "ProbeE")' = {}
      /\ pc'[<<s, "pub">>] # "done" => Waits(s, ToSink, "ProbeA")' = {}
  BY <1>6, Kinds DEF Routed, Onward
<1>8. Outstanding(s)' \subseteq Outstanding(s)
  BY <1>6, Kinds DEF Outstanding, Onward
<1>9. /\ \A k \in Probes : Waits(s, Back, k)' = {}
      /\ Waits(s, {<<"sink", "dst">>}, "ProbeA")' = {}
  BY <1>4, <1>5 DEF Waits, EndsOf, Way
<1>10. Routed(s)'
  BY <1>6, <1>7, <1>9 DEF Routed, AtMostOne
<1> QED BY <1>8, <1>10

\* Only the streams to the sink end there.
LEMMA ProbeAtSink ==
    ASSUME IInv, NEW s \in Sessions, AckInv(s), Routed(s), NEW e \in EndsOf(s), NEW m \in Probes,
           m \in inbox[e], handler[e] # "off", NodeAt(e) = sink[s].peer
    PROVE  e \in SinkEnds(s)
<1>1. /\ e[2] \in Purposes /\ e[3] \in {"src", "dst"} /\ e = <<s, e[2], e[3]>> /\ Way(e) = <<e[2], e[3]>>
      /\ NodeAt(e) = IF e[3] = "src" THEN Src(s, e[2]) ELSE Dst(s, e[2])
  BY EndParts
<1>2. call[<<s, e[2]>>] \notin Unopened /\ NodeAt(e) \in Nodes
  <2>1. handler[<<s, e[2], e[3]>>] # "off"
    BY <1>1
  <2>2. call[<<s, e[2]>>] \notin Unopened
    BY <1>1, <2>1 DEF IInv, OpenedAt
  <2>3. NodeAt(<<s, e[2], e[3]>>) \in Nodes
    BY <1>1, <2>1, EndsAreNodes
  <2> QED BY <1>1, <2>2, <2>3
<1>3. call[<<s, e[2]>>] # "idle"
  BY <1>2 DEF Unopened
<1>4. NodeAt(e) # NoPeer
  BY <1>2, CircuitAssumption
<1>5. sink[s].peer # Entry(s) /\ (relay[s].peer # NoPeer => relay[s].peer # sink[s].peer)
  BY DEF AckInv, Peers
<1>6. e[2] = "relay" => sink[s].peer # Access(s)
  BY <1>3 DEF AckInv, Chain
<1>7. Way(e) # <<"answer", "src">>
  BY DEF Routed, Waits
<1>8. Way(e) \in {<<"sink", "dst">>, <<"expend", "dst">>}
  BY <1>1, <1>4, <1>5, <1>6, <1>7, Parties DEF Src, Dst, Purposes
<1>9. e[2] \in {"sink", "expend"} /\ e[3] = "dst"
  BY <1>1, <1>8
<1> QED BY <1>1, <1>9 DEF SinkEnds

\* The sink takes a probe: it is no longer under way, but in the handler.
LEMMA SinkTakes ==
    ASSUME IInv, NEW s \in Sessions, Onward(s), Busy(s), ProbeInv(s), NEW e \in SinkEnds(s),
           handler[e] # "off", NEW m \in Probes, m \in inbox[e], Routed(s)', Took(e, m, {}),
           Outstanding(s)' \subseteq Outstanding(s), probe' = probe, call' = call,
           handler' = [handler EXCEPT ![e] = "probe"]
    PROVE  Busy(s)' /\ ProbeInv(s)' /\ Outstanding(s) # {}
<1> DEFINE O == Outstanding(s)
           H == Handled(s)
           S == Stored(s)
<1>a. TypeOK
  BY DEF IInv
<1>b. /\ e \in EndsOf(s) /\ e[2] \in {"sink", "expend"} /\ e = <<s, e[2], "dst">> /\ Way(e) \in ToSink
      /\ e \in Ends
  BY AtSink DEF EndsOf
<1>c. Routed(s)
  BY DEF ProbeInv
<1>1. e \in Waits(s, ToSink, m)
  BY <1>b DEF Waits
<1>2. m \in O
  BY <1>1, Kinds DEF Outstanding
<1>3. Waits(s, ToSink, m)' = {}
  <2>1. \A d \in EndsOf(s) : Way(d) \in ToSink /\ m \in inbox[d] => d = e
    BY <1>1, <1>c DEF Routed, AtMostOne, Waits
  <2>2. \A d \in EndsOf(s) : m \in inbox'[d] => m \in inbox[d] /\ d # e
    BY DEF Took, EndsOf
  <2> QED BY <2>1, <2>2 DEF Waits, ToSink, EndsOf, Way
<1>4. m \notin Outstanding(s)'
  <2>1. /\ m = "ProbeE" => pc[<<s, "circ">>] = "done"
        /\ m = "ProbeA" => pc[<<s, "pub">>] = "done"
    BY <1>1, <1>c DEF Routed
  <2>2. /\ m = "ProbeE" => pc'[<<s, "circ">>] = "done"
        /\ m = "ProbeA" => pc'[<<s, "pub">>] = "done"
    BY <2>1 DEF Onward
  <2>3. CASE m = "ProbeE"
    BY <1>3, <2>2, <2>3 DEF Outstanding
  <2>4. CASE m = "ProbeA"
    BY <1>3, <2>2, <2>4 DEF Outstanding
  <2> QED BY <2>3, <2>4, Kinds
<1>5. Handled(s)' \subseteq H \cup {e[2]}
  <2>1. \A p \in {"sink", "expend"} : p # e[2] => handler'[<<s, p, "dst">>] = handler[<<s, p, "dst">>]
    <3>1. \A p \in {"sink", "expend"} : <<s, p, "dst">> \in Ends
      BY DEF Ends, Purposes
    <3>2. \A p \in {"sink", "expend"} : p # e[2] => <<s, p, "dst">> # e
      BY <1>b
    <3> QED BY <1>a, <3>1, <3>2 DEF TypeOK
  <2> QED BY <2>1 DEF Handled
<1>6. Stored(s)' \subseteq S
  BY DEF Stored
<1>7. m \notin H /\ m \notin S
  BY Kinds DEF Handled, Stored
<1>8. AtMostTwo(Outstanding(s)' \cup Handled(s)' \cup Stored(s)')
  <2>1. Outstanding(s)' \cup Handled(s)' \cup Stored(s)' \subseteq ((O \cup H \cup S) \ {m}) \cup {e[2]}
    BY <1>4, <1>5, <1>6, <1>7
  <2>2. m \in O \cup H \cup S
    BY <1>2
  <2>3. AtMostTwo(O \cup H \cup S)
    BY DEF ProbeInv
  <2> DEFINE U == O \cup H \cup S
             T == Outstanding(s)' \cup Handled(s)' \cup Stored(s)'
  <2>4. T \subseteq (U \ {m}) \cup {e[2]} /\ m \in U /\ AtMostTwo(U)
    BY <2>1, <2>2, <2>3
  <2> HIDE DEF U, T
  <2>5. AtMostTwo(U) => AtMostTwo(T)
    BY <2>4, CountMoved
  <2>6. AtMostTwo(T)
    BY <2>4, <2>5
  <2> QED BY <2>6 DEF T
<1>9. call'[<<s, "expend">>] \in Unopened =>
         AtMostOne((Outstanding(s)' \ {"ProbeA"}) \cup Handled(s)' \cup Stored(s)')
  <2>1. SUFFICES ASSUME call[<<s, "expend">>] \in Unopened
                 PROVE  AtMostOne((Outstanding(s)' \ {"ProbeA"}) \cup Handled(s)' \cup Stored(s)')
    OBVIOUS
  <2>2. handler[<<s, "expend", "dst">>] = "off"
    BY <2>1 DEF IInv, OpenedAt, Purposes
  <2>3. e[2] = "sink"
    BY <1>b, <2>2
  <2>4. Way(e) = <<"sink", "dst">>
    BY <1>b, <2>3, EndParts
  <2>5. m # "ProbeA"
    BY <1>b, <1>c, <2>4 DEF Routed, Waits
  <2>6. (Outstanding(s)' \ {"ProbeA"}) \cup Handled(s)' \cup Stored(s)'
          \subseteq (((O \ {"ProbeA"}) \cup H \cup S) \ {m}) \cup {e[2]}
    BY <1>4, <1>5, <1>6, <1>7
  <2>7. m \in (O \ {"ProbeA"}) \cup H \cup S
    BY <1>2, <2>5
  <2>8. AtMostOne((O \ {"ProbeA"}) \cup H \cup S)
    BY <2>1 DEF ProbeInv
  <2> HIDE DEF O, H, S
  <2> QED BY <2>6, <2>7, <2>8, CountMoved
<1>10. ProbeInv(s)'
  BY <1>8, <1>9 DEF ProbeInv, AtMostOne, AtMostTwo
<1>11. Busy(s)'
  BY <1>a, <1>b DEF Busy, TypeOK, EndsOf, SinkEnds
<1> QED BY <1>2, <1>10, <1>11

\* A frame that is taken or moves on brings no frame of another kind.
LEMMA TookOthers ==
    ASSUME NEW s \in Sessions, NEW e, NEW m, NEW F, Took(e, m, F), NEW k, k # m
    PROVE  \A d \in EndsOf(s) : k \in inbox'[d] => k \in inbox[d]
BY DEF Took, EndsOf

\* handle_relay_probe, the first half: at the sink the handler has the probe, any
\* other node passes it on.
LEMMA TakeProbeStep ==
    ASSUME IInv, NEW s \in Sessions, AckInv(s), Spliced(s), Onward(s), Busy(s), ProbeInv(s),
           NEW e \in EndsOf(s), NEW m \in Probes, TakeProbe(e, m)
    PROVE  /\ Busy(s)' /\ ProbeInv(s)' /\ QuietSuccess(s) /\ QuietHandshake(s)
           /\ Outstanding(s) \cup Handled(s) = {} => Outstanding(s)' \cup Handled(s)' = {}
<1> USE DEF callVars, readVars, nodeVars, hsVars, busVars, loopVars
<1> DEFINE n == NodeAt(e)
           x == session[<<n, s>>]
           F == FarEnds(n, e[1], OtherLeg(x, e[2]))
<1>a. TypeOK /\ Routed(s)
  BY DEF IInv, ProbeInv
<1>b. e \in Ends /\ e[1] = s /\ e = <<s, e[2], e[3]>> /\ e[2] \in Purposes /\ e[3] \in {"src", "dst"}
  BY EndParts
<1>c. /\ handler[e] = "read" /\ m \in inbox[e] /\ UNCHANGED <<probe, call, hs, chan, pc>>
  BY DEF TakeProbe
<1>d. n \in Nodes
  <2>1. handler[<<s, e[2], e[3]>>] # "off"
    BY <1>b, <1>c
  <2>2. NodeAt(<<s, e[2], e[3]>>) \in Nodes
    BY <1>b, <2>1, EndsAreNodes
  <2> QED BY <1>b, <2>2
<1>e. m # "Success" /\ m \notin Handshakes
  BY Kinds
<1>1. OnFrom(s, e, {})
  BY DEF OnFrom
<1>2. CASE x.role = "Sink"
  <2>1. Took(e, m, {}) /\ handler' = [handler EXCEPT ![e] = "probe"]
    BY <1>a, <1>b, <1>2, Dropped DEF TakeProbe
  <2>2. Routed(s)' /\ Outstanding(s)' \subseteq Outstanding(s)
    BY <1>a, <1>c, <1>1, <2>1, ProbeMoves
  <2>3. n = sink[s].peer
    BY <1>d, <1>2 DEF Spliced, RoleOK
  <2>4. e \in SinkEnds(s)
    BY <1>a, <1>c, <2>3, ProbeAtSink
  <2>5. Busy(s)' /\ ProbeInv(s)' /\ Outstanding(s) # {}
    BY <1>c, <2>1, <2>2, <2>4, SinkTakes
  <2>6. \A d \in EndsOf(s) : "Success" \in inbox'[d] => "Success" \in inbox[d]
    BY <1>e, <2>1, TookOthers
  <2>7. \A k \in Handshakes : \A d \in EndsOf(s) : k \in inbox'[d] => k \in inbox[d]
    BY <1>e, <2>1, TookOthers
  <2>8. \A d \in EndsOf(s) : handler'[d] = "success" => handler[d] = "success"
    BY <1>a, <2>1 DEF EndsOf, TypeOK
  <2>9. QuietSuccess(s) /\ QuietHandshake(s)
    BY <1>c, <2>6, <2>7, <2>8 DEF QuietSuccess, QuietHandshake
  <2> QED BY <2>5, <2>9
<1>3. CASE x.role # "Sink"
  <2>1. handler' = handler
    BY <1>b, <1>3 DEF TakeProbe
  <2>2. \E G : Took(e, m, G) /\ OnFrom(s, e, G)
    <3>1. CASE Ready(x)
      <4>1. Forward(e, x, m)
        BY <1>b, <1>3, <3>1 DEF TakeProbe
      <4>2. Took(e, m, F)
        BY <1>b, <4>1, Forwarded
      <4>3. ASSUME NEW f \in F, NEW g \in F
            PROVE  /\ f = g /\ f \in EndsOf(s)
                   /\ Way(f) = <<"sink", "dst">> => Way(e) = <<"dial", "dst">>
                   /\ Way(f) = <<"relay", "dst">> => Way(e) = <<"answer", "src">>
                   /\ Way(f) = <<"expend", "dst">> => Way(e) = <<"relay", "dst">>
                   /\ Way(f) \notin {<<"dial", "dst">>, <<"answer", "src">>}
        BY <1>b, <1>d, <3>1, PassOn
      <4>4. OnFrom(s, e, F)
        BY <4>3 DEF OnFrom
      <4> QED BY <4>2, <4>4
    <3>2. CASE ~Ready(x)
      BY <1>a, <1>b, <1>1, <1>3, <3>2, Dropped DEF TakeProbe
    <3> QED BY <3>1, <3>2
  <2>3. PICK G : Took(e, m, G) /\ OnFrom(s, e, G)
    BY <2>2
  <2>4. Routed(s)' /\ Outstanding(s)' \subseteq Outstanding(s)
    BY <1>a, <1>c, <2>3, ProbeMoves
  <2>5. Busy(s)' /\ Handled(s)' \subseteq Handled(s) /\ Stored(s)' \subseteq Stored(s)
    BY <1>c, <2>1, SinkQuiet DEF QuietSink
  <2>6. ProbeInv(s)'
    BY <2>4, <2>5, ProbesLess
  <2>7. \A d \in EndsOf(s) : "Success" \in inbox'[d] => "Success" \in inbox[d]
    BY <1>e, <2>3, TookOthers
  <2>8. \A k \in Handshakes : \A d \in EndsOf(s) : k \in inbox'[d] => k \in inbox[d]
    BY <1>e, <2>3, TookOthers
  <2>9. QuietSuccess(s) /\ QuietHandshake(s)
    BY <1>c, <2>1, <2>7, <2>8 DEF QuietSuccess, QuietHandshake
  <2> QED BY <2>4, <2>5, <2>6, <2>9
<1> QED BY <1>2, <1>3

\* handle_relay_probe stores the first probe.
LEMMA StoreProbeStep ==
    ASSUME IInv, NEW s \in Sessions, Onward(s), Busy(s), ProbeInv(s), NEW e \in EndsOf(s), StoreProbe(e)
    PROVE  /\ Busy(s)' /\ ProbeInv(s)' /\ QuietSuccess(s) /\ QuietHandshake(s)
           /\ Outstanding(s) \cup Handled(s) # {}
<1> USE DEF callVars, readVars, nodeVars, hsVars, busVars, loopVars
<1> DEFINE O == Outstanding(s)
           H == Handled(s)
           S == Stored(s)
<1>a. TypeOK
  BY DEF IInv
<1>b. /\ UNCHANGED <<call, inbox, hs, chan, pc>> /\ handler[e] = "store"
      /\ handler' = [handler EXCEPT ![e] = "read"]
  BY DEF StoreProbe
<1>c. e \in SinkEnds(s)
  BY <1>b DEF Busy, AtProbe
<1>d. e[2] \in {"sink", "expend"} /\ e = <<s, e[2], "dst">> /\ e \in Ends
  BY <1>c, AtSink DEF EndsOf
<1>1. e[2] \in H
  BY <1>b, <1>d DEF Handled, AtProbe
<1>2. Outstanding(s)' = O
  BY <1>b DEF Outstanding, Waits, EndsOf, ToSink, Way
<1>3. \A d \in EndsOf(s) : /\ handler'[d] \in AtProbe => handler[d] \in AtProbe /\ d # e
                           /\ handler'[d] = "success" => handler[d] = "success"
  BY <1>a, <1>b DEF EndsOf, TypeOK, AtProbe
<1>4. Handled(s)' \subseteq H \ {e[2]}
  <2>1. \A p \in {"sink", "expend"} : <<s, p, "dst">> \in EndsOf(s)
    BY AtSink
  <2> QED BY <1>3, <1>d, <2>1 DEF Handled
<1>5. Stored(s)' \subseteq {"stored"} /\ "stored" \notin {"sink", "expend"}
  BY DEF Stored
<1>6. e[2] \notin O
  BY <1>d DEF Outstanding
<1>7. AtMostTwo(Outstanding(s)' \cup Handled(s)' \cup Stored(s)')
  <2> DEFINE U == O \cup H \cup S
             T == Outstanding(s)' \cup Handled(s)' \cup Stored(s)'
  <2>1. T \subseteq (U \ {e[2]}) \cup {"stored"} /\ e[2] \in U /\ AtMostTwo(U)
    BY <1>1, <1>2, <1>4, <1>5, <1>6 DEF ProbeInv
  <2> HIDE DEF U, T
  <2>2. AtMostTwo(T)
    BY <2>1, CountMoved
  <2> QED BY <2>2 DEF T
<1>8. call'[<<s, "expend">>] \in Unopened =>
         AtMostOne((Outstanding(s)' \ {"ProbeA"}) \cup Handled(s)' \cup Stored(s)')
  <2>1. SUFFICES ASSUME call[<<s, "expend">>] \in Unopened
                 PROVE  AtMostOne((Outstanding(s)' \ {"ProbeA"}) \cup Handled(s)' \cup Stored(s)')
    BY <1>b
  <2> DEFINE U == (O \ {"ProbeA"}) \cup H \cup S
             T == (Outstanding(s)' \ {"ProbeA"}) \cup Handled(s)' \cup Stored(s)'
  <2>2. T \subseteq (U \ {e[2]}) \cup {"stored"} /\ e[2] \in U /\ AtMostOne(U)
    BY <1>1, <1>2, <1>4, <1>5, <1>6, <2>1 DEF ProbeInv
  <2> HIDE DEF U, T
  <2>3. AtMostOne(T)
    BY <2>2, CountMoved
  <2> QED BY <2>3 DEF T
<1>9. Routed(s)'
  BY <1>b DEF ProbeInv, Routed, Waits, EndsOf, ToSink, Way, AtMostOne
<1>10. ProbeInv(s)'
  BY <1>7, <1>8, <1>9 DEF ProbeInv, AtMostOne, AtMostTwo
<1>11. Busy(s)'
  BY <1>3 DEF Busy, EndsOf, SinkEnds
<1>12. QuietSuccess(s) /\ QuietHandshake(s)
  BY <1>b, <1>3 DEF QuietSuccess, QuietHandshake
<1> QED BY <1>1, <1>10, <1>11, <1>12

\* handle_relay_probe compares the second probe.
LEMMA MatchProbeQuiet ==
    ASSUME IInv, NEW s \in Sessions, NEW e \in EndsOf(s), MatchProbe(e)
    PROVE  QuietProbes(s) /\ QuietHandshake(s)
<1> USE DEF callVars, readVars, nodeVars, hsVars, busVars, loopVars
<1>a. TypeOK /\ e \in Ends
  BY DEF IInv, EndsOf
<1>1. UNCHANGED <<hs, chan, probe>>
  BY DEF MatchProbe
<1>2. \A d \in EndsOf(s) : handler'[d] \in AtProbe => handler[d] \in AtProbe
  BY <1>a DEF MatchProbe, EndsOf, TypeOK, AtProbe
<1>3. inbox' = inbox \/ \E F : Wrote("Success", F)
  BY Delivered DEF MatchProbe
<1>4. \A d \in EndsOf(s) : \A k \in Probes \cup Handshakes : k \in inbox'[d] => k \in inbox[d]
  BY <1>3, Kinds DEF Wrote, EndsOf
<1> QED BY <1>1, <1>2, <1>4 DEF QuietProbes, QuietHandshake

\* A probe is sent once, on one stream towards the sink.
LEMMA ProbeSent ==
    ASSUME NEW s \in Sessions, Onward(s), Routed(s), NEW m \in Probes, m \in Outstanding(s),
           Waits(s, ToSink, m) = {}, NEW F, Wrote(m, F),
           \A f, g \in F : Way(f) \in ToSink /\ Way(g) \in ToSink => f = g,
           \A f \in F : /\ Way(f) \notin {<<"dial", "dst">>, <<"answer", "src">>}
                        /\ m = "ProbeA" => Way(f) # <<"sink", "dst">>,
           m = "ProbeE" => pc'[<<s, "circ">>] = "done",
           m = "ProbeA" => pc'[<<s, "pub">>] = "done"
    PROVE  Routed(s)' /\ Outstanding(s)' \subseteq Outstanding(s)
<1> DEFINE Back == {<<"dial", "dst">>, <<"answer", "src">>}
<1>1. \A d \in EndsOf(s) : \A k : k \in inbox'[d] => k \in inbox[d] \/ (k = m /\ d \in F)
  BY DEF Wrote, EndsOf
<1>2. \A k \in Probes : \A d \in EndsOf(s) : k \in inbox'[d] /\ Way(d) \in Back => FALSE
  BY <1>1 DEF Routed, Waits
<1>3. \A d \in EndsOf(s) : Way(d) = <<"sink", "dst">> => "ProbeA" \notin inbox'[d]
  BY <1>1 DEF Routed, Waits
<1>4. /\ \A k \in Probes : Waits(s, Back, k)' = {}
      /\ Waits(s, {<<"sink", "dst">>}, "ProbeA")' = {}
  BY <1>2, <1>3 DEF Waits, EndsOf, Way
<1>5. \A k \in Probes : k # m => Waits(s, ToSink, k)' \subseteq Waits(s, ToSink, k)
  BY <1>1 DEF Waits, ToSink, EndsOf, Way
<1>6. AtMostOne(Waits(s, ToSink, m)')
  <2>1. \A d \in EndsOf(s) : Way(d) \in ToSink /\ m \in inbox'[d] => d \in F
    BY <1>1 DEF Waits
  <2>2. \A d \in Waits(s, ToSink, m)' : d \in F /\ Way(d) \in ToSink
    BY <2>1 DEF Waits, ToSink, EndsOf, Way
  <2> QED BY <2>2 DEF AtMostOne
<1>7. \A k \in Probes : AtMostOne(Waits(s, ToSink, k)')
  BY <1>5, <1>6, CountSub DEF Routed
<1>8. /\ pc'[<<s, "circ">>] # "done" => Waits(s, ToSink, "ProbeE")' = {}
      /\ pc'[<<s, "pub">>] # "done" => Waits(s, ToSink, "ProbeA")' = {}
  BY <1>5, Kinds DEF Routed, Onward
<1>9. Routed(s)'
  BY <1>4, <1>7, <1>8 DEF Routed, AtMostOne
<1>10. \A k \in Probes : k # m => (Waits(s, ToSink, k)' # {} => Waits(s, ToSink, k) # {})
  BY <1>5
<1>11. Outstanding(s)' \subseteq Outstanding(s)
  BY <1>10, Kinds DEF Outstanding, Onward
<1> QED BY <1>9, <1>11

\* The entry and the access node send their probes.
LEMMA SendProbeStep ==
    ASSUME IInv, NEW s \in Sessions, AckInv(s), Spliced(s), Onward(s), Busy(s), ProbeInv(s),
           SendProbe(s) \/ ExpendDone(s)
    PROVE  /\ Busy(s)' /\ ProbeInv(s)'
           /\ Outstanding(s)' \subseteq Outstanding(s) /\ Handled(s)' \subseteq Handled(s)
<1> USE DEF callVars, readVars, nodeVars, hsVars, busVars, loopVars
<1>a. TypeOK /\ Routed(s)
  BY DEF IInv, ProbeInv
<1>1. Routed(s)' /\ Outstanding(s)' \subseteq Outstanding(s)
  <2>1. CASE SendProbe(s)
    <3> DEFINE F == FarEnds(Entry(s), s, Legs(session[<<Entry(s), s>>]))
    <3>1. /\ pc[<<s, "circ">>] = "probe" /\ pc'[<<s, "circ">>] = "done"
          /\ Deliver(F, "ProbeE")
      BY <1>a, <2>1 DEF SendProbe, TypeOK, Tasks
    <3>2. Wrote("ProbeE", F)
      BY <3>1, Delivered
    <3>3. "ProbeE" \in Outstanding(s) /\ Waits(s, ToSink, "ProbeE") = {} /\ "ProbeE" \in Probes
      BY <1>a, <3>1, Kinds DEF Outstanding, Routed
    <3>4. /\ \A f, g \in F : Way(f) \in ToSink /\ Way(g) \in ToSink => f = g
          /\ \A f \in F : Way(f) \notin {<<"dial", "dst">>, <<"answer", "src">>}
      BY EntryProbe
    <3> HIDE DEF F
    <3> QED BY <1>a, <3>1, <3>2, <3>3, <3>4, ProbeSent, Kinds
  <2>2. CASE ExpendDone(s)
    <3> DEFINE F == FarEnds(Access(s), s, Legs(session[<<Access(s), s>>]))
    <3>1. /\ pc[<<s, "pub">>] = "expend" /\ pc'[<<s, "pub">>] = "done"
          /\ Deliver(F, "ProbeA")
      BY <1>a, <2>2 DEF ExpendDone, TypeOK, Tasks
    <3>2. Wrote("ProbeA", F)
      BY <3>1, Delivered
    <3>3. "ProbeA" \in Outstanding(s) /\ Waits(s, ToSink, "ProbeA") = {} /\ "ProbeA" \in Probes
      BY <1>a, <3>1, Kinds DEF Outstanding, Routed
    <3>4. /\ \A f, g \in F : Way(f) \in ToSink /\ Way(g) \in ToSink => f = g
          /\ \A f \in F : Way(f) \notin {<<"dial", "dst">>, <<"answer", "src">>, <<"sink", "dst">>}
      BY <3>1, AccessProbe
    <3>5. \A f \in F : /\ Way(f) \notin {<<"dial", "dst">>, <<"answer", "src">>}
                       /\ Way(f) # <<"sink", "dst">>
      BY <3>4
    <3> HIDE DEF F
    <3> QED BY <1>a, <3>1, <3>2, <3>3, <3>4, <3>5, ProbeSent, Kinds
  <2> QED BY <2>1, <2>2
<1>2. UNCHANGED <<handler, probe>>
  BY DEF SendProbe, ExpendDone
<1>3. Busy(s)' /\ Handled(s)' \subseteq Handled(s) /\ Stored(s)' \subseteq Stored(s)
  BY <1>2, SinkQuiet DEF QuietSink
<1> QED BY <1>1, <1>3, ProbesLess

-----------------------------------------------------------------------------
(* The steps of the Success frames.                                          *)

\* The report of success that was in S is now in T, or lost.
Kept(S, T) == T \subseteq S \/ \E a \in S : \E b : T \subseteq (S \ {a}) \cup {b}

\* A report that is passed on is still the only one.
LEMMA SuccessMoves ==
    ASSUME NEW s \in Sessions, SuccessInv(s), Concluded(s) => Concluded(s)',
           Kept(ToCaller(s), ToCaller(s)'), Kept(ToRemote(s), ToRemote(s)'),
           \A e \in EndsOf(s) : handler'[e] = "success" => Way(e) \in AtClient
    PROVE  SuccessInv(s)'
<1>1. ASSUME NEW S, NEW T, Kept(S, T), AtMostOne(S)
      PROVE  AtMostOne(T) /\ (T # {} => S # {})
  <2>1. CASE T \subseteq S
    BY <1>1, <2>1, CountSub
  <2>2. CASE \E a \in S : \E b : T \subseteq (S \ {a}) \cup {b}
    BY <1>1, <2>2, CountMoved
  <2> QED BY <1>1, <2>1, <2>2 DEF Kept
<1>2. AtMostOne(ToCaller(s)') /\ AtMostOne(ToRemote(s)')
  BY <1>1 DEF SuccessInv
<1>3. ToCaller(s)' \cup ToRemote(s)' # {} => Concluded(s)'
  BY <1>1 DEF SuccessInv
<1> QED BY <1>2, <1>3 DEF SuccessInv, AtMostOne, Way, EndsOf

\* Success is reported for the first time, on one stream to each client.
LEMMA SuccessSent ==
    ASSUME IInv, NEW s \in Sessions, SuccessInv(s), ~Concluded(s), Concluded(s)', NEW F,
           Wrote("Success", F), hs' = hs,
           \A f, g \in F : /\ Way(f) \in ForCaller /\ Way(g) \in ForCaller => f = g
                           /\ Way(f) \in ForRemote /\ Way(g) \in ForRemote => f = g,
           \A e \in EndsOf(s) : handler'[e] = "success" => handler[e] = "success"
    PROVE  SuccessInv(s)'
<1>1. ToCaller(s) = {} /\ ToRemote(s) = {}
  BY DEF SuccessInv
<1>2. ASSUME NEW D, NEW c, Places(s, D, c) = {},
             \A f, g \in F : Way(f) \in D /\ Way(g) \in D => f = g
      PROVE  AtMostOne(Places(s, D, c)')
  <2>1. /\ \A e \in EndsOf(s) : Way(e) \in D => "Success" \notin inbox[e] /\ handler[e] # "success"
        /\ hs[<<c, s>>] = "idle"
    BY <1>2, InPlaces
  <2>2. \A e \in EndsOf(s) : /\ Way(e) \in D /\ "Success" \in inbox'[e] => e \in F
                             /\ Way(e) \in D => handler'[e] # "success"
    BY <2>1 DEF Wrote, EndsOf
  <2>3. \A x \in Places(s, D, c)' : \E f \in F : Way(f) \in D /\ x = <<"in", f>>
    BY <2>1, <2>2 DEF Places, Waits, EndsOf, Way
  <2> QED BY <1>2, <2>3 DEF AtMostOne
<1>3. AtMostOne(ToCaller(s)')
  <2>1. AtMostOne(Places(s, ForCaller, From[s])')
    BY <1>1, <1>2 DEF ToCaller, ForCaller
  <2> QED BY <2>1 DEF ToCaller
<1>4. AtMostOne(ToRemote(s)')
  <2>1. AtMostOne(Places(s, ForRemote, To[s])')
    BY <1>1, <1>2 DEF ToRemote, ForRemote
  <2> QED BY <2>1 DEF ToRemote
<1> QED BY <1>3, <1>4 DEF SuccessInv, AtMostOne, Way, EndsOf

\* Three loops report success: each one when nobody has yet.
LEMMA LoopConcludes ==
    ASSUME IInv, NEW s \in Sessions, AckInv(s),
           DirectDone(s) \/ SinkIsAccess(s) \/ RelayIsEntry(s)
    PROVE  ~Concluded(s) /\ Concluded(s)'
<1> USE DEF callVars, readVars, nodeVars, hsVars, busVars, loopVars
<1>a. TypeOK /\ Order(s) /\ Chain(s)
  BY DEF IInv, AckInv
<1>1. CASE DirectDone(s)
  <2>1. /\ pc[<<s, "circ">>] = "direct" /\ pc'[<<s, "circ">>] = "done"
        /\ call[<<s, "direct">>] = "done" /\ call' = call
    BY <1>a, <1>1 DEF DirectDone, TypeOK, Tasks
  <2>2. pc[<<s, "pub">>] = "idle" /\ call[<<s, "expend">>] = "idle"
    BY <1>a, <2>1 DEF Order
  <2> QED BY <2>1, <2>2 DEF Concluded, BeforeExpend
<1>2. CASE SinkIsAccess(s)
  <2>1. /\ pc[<<s, "pub">>] = "answer" /\ pc'[<<s, "pub">>] = "done" /\ call[<<s, "answer">>] = "done"
        /\ sink' = sink /\ sink[s].peer = Access(s)
    BY <1>a, <1>2 DEF SinkIsAccess, TypeOK, Tasks
  <2>2. call[<<s, "expend">>] = "idle" /\ call[<<s, "direct">>] = "idle"
    BY <1>a, <2>1 DEF Order, Chain
  <2> QED BY <2>1, <2>2 DEF Concluded, BeforeExpend, Access
<1>3. CASE RelayIsEntry(s)
  <2>1. <<s, "SessionExpend">> \in asked /\ <<s, "SessionExpend">> \notin asked' /\ call' = call
    BY <1>3 DEF RelayIsEntry, TakeExpend
  <2>2. call[<<s, "expend">>] = "idle" /\ call[<<s, "relay">>] = "done"
    BY <1>a, <2>1 DEF Order
  <2>3. call[<<s, "direct">>] = "idle" /\ sink[s].peer # Access(s)
    BY <1>a, <2>2 DEF Chain
  <2>4. pc[<<s, "pub">>] \notin BeforeExpend
    BY <1>a, <2>1 DEF Order, BeforeExpend
  <2>5. pc'[<<s, "pub">>] = pc[<<s, "pub">>]
    BY <1>a, <1>3 DEF RelayIsEntry, TypeOK, Tasks
  <2> QED BY <2>1, <2>2, <2>3, <2>4, <2>5 DEF Concluded
<1> QED BY <1>1, <1>2, <1>3

\* They send it on the streams of one session.
LEMMA LoopSuccess ==
    ASSUME IInv, NEW s \in Sessions, AckInv(s), Spliced(s), SuccessInv(s),
           DirectDone(s) \/ SinkIsAccess(s) \/ RelayIsEntry(s)
    PROVE  SuccessInv(s)'
<1> USE DEF callVars, readVars, nodeVars, hsVars, busVars, loopVars
<1>1. \E n \in Nodes : Deliver(FarEnds(n, s, Legs(session[<<n, s>>])), "Success")
  <2>1. CASE DirectDone(s)
    BY <2>1, Parties DEF DirectDone
  <2>2. CASE SinkIsAccess(s)
    BY <2>2, Parties DEF SinkIsAccess
  <2>3. CASE RelayIsEntry(s)
    BY <2>3, RelayIsNode DEF RelayIsEntry, TakeExpend
  <2> QED BY <2>1, <2>2, <2>3
<1>2. PICK n \in Nodes : Deliver(FarEnds(n, s, Legs(session[<<n, s>>])), "Success")
  BY <1>1
<1> DEFINE F == FarEnds(n, s, Legs(session[<<n, s>>]))
<1>3. Wrote("Success", F)
  BY <1>2, Delivered
<1>4. UNCHANGED <<handler, hs>>
  BY DEF DirectDone, SinkIsAccess, RelayIsEntry
<1>5. \A f, g \in F : /\ Way(f) \in ForCaller /\ Way(g) \in ForCaller => f = g
                      /\ Way(f) \in ForRemote /\ Way(g) \in ForRemote => f = g
  BY SessionFar
<1>6. ~Concluded(s) /\ Concluded(s)'
  BY LoopConcludes
<1> HIDE DEF F
<1> QED BY <1>3, <1>4, <1>5, <1>6, SuccessSent

\* The sink that has the second probe is the first to report: both probes were
\* sent, and no other is under way.
LEMMA MatchConcludes ==
    ASSUME IInv, NEW s \in Sessions, AckInv(s), Onward(s), Busy(s), ProbeInv(s), NEW e \in EndsOf(s),
           MatchProbe(e), HasProbe(NodeAt(e), s)
    PROVE  /\ ~Concluded(s) /\ Concluded(s)' /\ e \in SinkEnds(s) /\ NodeAt(e) \in Nodes
           /\ sink[s].peer # Access(s)
<1> USE DEF callVars, readVars, nodeVars, hsVars, busVars, loopVars
<1>a. TypeOK /\ Order(s) /\ Chain(s)
  BY DEF IInv, AckInv
<1>b. handler[e] = "match" /\ e[1] = s /\ handler' = [handler EXCEPT ![e] = "read"]
  BY EndParts DEF MatchProbe
<1>c. e \in SinkEnds(s)
  BY <1>b DEF Busy, AtProbe
<1>d. e[2] \in {"sink", "expend"} /\ e = <<s, e[2], "dst">> /\ e \in Ends
  BY <1>c, AtSink DEF EndsOf
<1>e. NodeAt(e) \in Nodes
  <2>1. handler[<<s, e[2], "dst">>] # "off" /\ e[2] \in Purposes
    BY <1>b, <1>d DEF Purposes
  <2>2. NodeAt(<<s, e[2], "dst">>) \in Nodes
    BY <2>1, EndsAreNodes
  <2> QED BY <1>d, <2>2
<1>1. e[2] \in Handled(s)
  BY <1>b, <1>d DEF Handled, AtProbe
<1>2. "stored" \in Stored(s)
  BY <1>e DEF Stored, HasProbe
<1>3. call[<<s, "expend">>] # "idle"
  BY <1>1, <1>2, <1>d DEF ProbeInv, AtMostOne, Unopened
<1>4. Outstanding(s) = {} /\ Handled(s) = {e[2]}
  <2>1. \A x \in Outstanding(s) \cup Handled(s) : x = e[2] \/ x = "stored"
    BY <1>1, <1>2, <1>d DEF ProbeInv, AtMostTwo
  <2> QED BY <1>1, <1>d, <2>1 DEF Outstanding, Handled
<1>5. call[<<s, "direct">>] = "idle" /\ sink[s].peer # Access(s)
  BY <1>a, <1>3 DEF Order, Chain
<1>6. ~Concluded(s)
  BY <1>1, <1>3, <1>5 DEF Concluded
<1>7. Outstanding(s)' = {} /\ Handled(s)' = {}
  <2>1. Outstanding(s)' \subseteq Outstanding(s) /\ Handled(s)' \subseteq Handled(s)
    BY MatchProbeQuiet, ProbesQuiet
  <2>2. handler'[e] = "read"
    BY <1>a, <1>b, <1>d DEF TypeOK
  <2>3. e[2] \notin Handled(s)'
    BY <1>d, <2>2 DEF Handled, AtProbe
  <2> QED BY <1>4, <2>1, <2>3
<1>8. call'[<<s, "expend">>] # "idle"
  BY <1>3 DEF Onward
<1>9. Concluded(s)'
  BY <1>7, <1>8 DEF Concluded
<1> QED BY <1>c, <1>e, <1>5, <1>6, <1>9

\* The sink has one stream towards each client.
LEMMA SinkFar ==
    ASSUME IInv, NEW s \in Sessions, AckInv(s), NEW n \in Nodes, n = sink[s].peer, n # Access(s),
           NEW P, NEW f \in FarEnds(n, s, P), NEW g \in FarEnds(n, s, P),
           \/ Way(f) \in ForCaller /\ Way(g) \in ForCaller
           \/ Way(f) \in ForRemote /\ Way(g) \in ForRemote
    PROVE  f = g
<1>1. n # NoPeer /\ n # Entry(s) /\ n # relay[s].peer
  BY CircuitAssumption DEF AckInv, Peers
<1>2. ASSUME NEW d \in FarEnds(n, s, P)
      PROVE  d \in EndsOf(s) /\ Way(d) \in {<<"sink", "src">>, <<"expend", "src">>}
  <2>1. /\ d \in EndsOf(s) /\ d[2] \in Purposes /\ d[3] \in {"src", "dst"}
        /\ n = (IF d[3] = "src" THEN Dst(s, d[2]) ELSE Src(s, d[2])) /\ Way(d) = <<d[2], d[3]>>
    BY FarParts, EndParts
  <2> QED BY <1>1, <2>1, Parties DEF Src, Dst, Purposes
<1>3. Way(f) = Way(g)
  BY <1>2 DEF ForCaller, ForRemote
<1> QED BY <1>2, <1>3, SameWay

\* handle_relay_probe reports success when the second probe matches.
LEMMA MatchSuccess ==
    ASSUME IInv, NEW s \in Sessions, AckInv(s), Onward(s), Busy(s), ProbeInv(s), SuccessInv(s),
           NEW e \in EndsOf(s), MatchProbe(e)
    PROVE  SuccessInv(s)'
<1> USE DEF callVars, readVars, nodeVars, hsVars, busVars, loopVars
<1>a. TypeOK /\ e \in Ends /\ e[1] = s /\ hs' = hs
  BY EndParts DEF IInv, MatchProbe
<1>1. \A d \in EndsOf(s) : handler'[d] = "success" => handler[d] = "success"
  BY <1>a DEF MatchProbe, EndsOf, TypeOK
<1>2. CASE HasProbe(NodeAt(e), s)
  <2> DEFINE n == NodeAt(e)
             F == FarEnds(n, s, Legs(snap[e]))
  <2>1. /\ ~Concluded(s) /\ Concluded(s)' /\ e \in SinkEnds(s) /\ n \in Nodes
        /\ sink[s].peer # Access(s)
    BY <1>2, MatchConcludes
  <2>2. n = sink[s].peer
    BY <2>1 DEF SinkEnds, NodeAt, Dst
  <2>3. Deliver(F, "Success")
    BY <1>a, <1>2 DEF MatchProbe
  <2>4. Wrote("Success", F)
    BY <2>3, Delivered
  <2>5. \A f, g \in F : /\ Way(f) \in ForCaller /\ Way(g) \in ForCaller => f = g
                        /\ Way(f) \in ForRemote /\ Way(g) \in ForRemote => f = g
    BY <2>1, <2>2, SinkFar
  <2> HIDE DEF F, n
  <2> QED BY <1>a, <1>1, <2>1, <2>4, <2>5, SuccessSent
<1>3. CASE ~HasProbe(NodeAt(e), s)
  <2>1. inbox' = inbox
    BY <1>a, <1>3 DEF MatchProbe
  <2>2. QuietSuccess(s)
    BY <1>a, <1>1, <2>1 DEF QuietSuccess
  <2>3. Outstanding(s)' \subseteq Outstanding(s) /\ Handled(s)' \subseteq Handled(s)
    BY MatchProbeQuiet, ProbesQuiet
  <2>4. Concluded(s) => Concluded(s)'
    BY <2>3, ConcludedStays
  <2> QED BY <2>2, <2>4, SuccessQuiet
<1> QED BY <1>2, <1>3

\* The places are told apart.
LEMMA PlaceNames ==
    ASSUME NEW d, NEW e
    PROVE  /\ <<"in", d>> = <<"in", e>> => d = e
           /\ <<"at", d>> = <<"at", e>> => d = e
           /\ <<"at", d>> # <<"in", e>> /\ <<"hs", d>> # <<"in", e>> /\ <<"hs", d>> # <<"at", e>>
OBVIOUS

\* A Success frame is the client's, or goes on to the same client.
LEMMA TakeSuccessStep ==
    ASSUME IInv, NEW s \in Sessions, AckInv(s), Spliced(s), Onward(s), Busy(s), ProbeInv(s), SuccessInv(s),
           NEW e \in EndsOf(s), TakeSuccess(e)
    PROVE  SuccessInv(s)' /\ QuietProbes(s) /\ QuietHandshake(s)
<1> USE DEF callVars, readVars, nodeVars, hsVars, busVars, loopVars
<1> DEFINE n == NodeAt(e)
           x == session[<<n, s>>]
           F == FarEnds(n, e[1], OtherLeg(x, e[2]))
<1>a. TypeOK
  BY DEF IInv
<1>b. e \in Ends /\ e[1] = s /\ e = <<s, e[2], e[3]>> /\ e[2] \in Purposes /\ e[3] \in {"src", "dst"}
  BY EndParts
<1>c. handler[e] = "read" /\ "Success" \in inbox[e] /\ UNCHANGED <<probe, call, hs, chan, pc>>
  BY DEF TakeSuccess
<1>d. n \in Nodes
  <2>1. handler[<<s, e[2], e[3]>>] # "off"
    BY <1>b, <1>c
  <2>2. NodeAt(<<s, e[2], e[3]>>) \in Nodes
    BY <1>b, <2>1, EndsAreNodes
  <2> QED BY <1>b, <2>2
<1>1. CASE x.role \in {"Caller", "Answer"}
  <2>1. Took(e, "Success", {}) /\ handler' = [handler EXCEPT ![e] = "success"]
    BY <1>a, <1>b, <1>1, Dropped DEF TakeSuccess
  <2>2. n \in Clients
    BY <1>d, <1>1 DEF Spliced, RoleOK
  <2>3. Way(e) \in AtClient
    BY <2>2, ClientEnd
  <2>4. \A k \in Probes \cup Handshakes : \A d \in EndsOf(s) : k \in inbox'[d] => k \in inbox[d]
    BY <2>1, TookOthers, Kinds
  <2>5. \A d \in EndsOf(s) : handler'[d] = IF d = e THEN "success" ELSE handler[d]
    BY <1>a, <1>b, <2>1 DEF EndsOf, TypeOK
  <2>6. QuietProbes(s) /\ QuietHandshake(s)
    BY <1>c, <2>4, <2>5 DEF QuietProbes, QuietHandshake, AtProbe
  <2>7. \A d \in EndsOf(s) : "Success" \in inbox'[d] => "Success" \in inbox[d] /\ d # e
    BY <2>1 DEF Took, EndsOf
  <2>8. ASSUME NEW D, NEW c PROVE Kept(Places(s, D, c), Places(s, D, c)')
    <3>1. CASE Way(e) \in D
      <4>1. <<"in", e>> \in Places(s, D, c)
        BY <1>c, <3>1, InPlaces
      <4>2. Places(s, D, c)' \subseteq (Places(s, D, c) \ {<<"in", e>>}) \cup {<<"at", e>>}
        <5> SUFFICES ASSUME NEW y \in Places(s, D, c)', y # <<"at", e>>
                     PROVE  y \in Places(s, D, c) /\ y # <<"in", e>>
          OBVIOUS
        <5>1. CASE \E d \in EndsOf(s) : Way(d) \in D /\ "Success" \in inbox'[d] /\ y = <<"in", d>>
          <6>1. PICK d \in EndsOf(s) : Way(d) \in D /\ "Success" \in inbox'[d] /\ y = <<"in", d>>
            BY <5>1
          <6>2. "Success" \in inbox[d] /\ d # e
            BY <2>7, <6>1
          <6>3. y \in Places(s, D, c)
            BY <6>1, <6>2, InPlaces, Zenon
          <6> QED BY <6>1, <6>2, <6>3, PlaceNames, Zenon
        <5>2. CASE \E d \in EndsOf(s) : Way(d) \in D /\ handler'[d] = "success" /\ y = <<"at", d>>
          <6>1. PICK d \in EndsOf(s) : Way(d) \in D /\ handler'[d] = "success" /\ y = <<"at", d>>
            BY <5>2
          <6>2. d # e
            BY <6>1
          <6>3. handler[d] = "success"
            BY <2>5, <6>1, <6>2
          <6>4. y \in Places(s, D, c)
            BY <6>1, <6>3, InPlaces, Zenon
          <6> QED BY <6>1, <6>4, PlaceNames, Zenon
        <5>3. CASE hs'[<<c, s>>] # "idle" /\ y = <<"hs", s>>
          BY <1>c, <5>3, InPlaces
        <5> QED BY <5>1, <5>2, <5>3, NextPlaces
      <4> QED BY <4>1, <4>2 DEF Kept
    <3>2. CASE Way(e) \notin D
      <4>1. Places(s, D, c)' \subseteq Places(s, D, c)
        BY <1>c, <2>5, <2>7, <3>2 DEF Places, Waits, EndsOf, Way
      <4> QED BY <4>1 DEF Kept
    <3> QED BY <3>1, <3>2
  <2>9. \A d \in EndsOf(s) : handler'[d] = "success" => Way(d) \in AtClient
    BY <2>3, <2>5 DEF SuccessInv
  <2>10. Concluded(s) => Concluded(s)'
    BY <2>6, ProbesQuiet, ConcludedStays
  <2>11. Kept(ToCaller(s), ToCaller(s)') /\ Kept(ToRemote(s), ToRemote(s)')
    BY <2>8 DEF ToCaller, ToRemote, ForCaller, ForRemote
  <2> QED BY <2>6, <2>9, <2>10, <2>11, SuccessMoves
<1>2. CASE x.role \notin {"Caller", "Answer"}
  <2>1. handler' = handler
    BY <1>b, <1>2 DEF TakeSuccess
  <2>2. \E G : /\ Took(e, "Success", G) /\ \A f, g \in G : f = g
               /\ \A f \in G : /\ Way(f) \in ForCaller <=> Way(e) \in ForCaller
                               /\ Way(f) \in ForRemote <=> Way(e) \in ForRemote
    <3>1. CASE Ready(x)
      <4>1. Forward(e, x, "Success")
        BY <1>b, <1>2, <3>1 DEF TakeSuccess
      <4>2. Took(e, "Success", F)
        BY <1>b, <4>1, Forwarded
      <4>3. ASSUME NEW f \in F, NEW g \in F
            PROVE  /\ f = g /\ (Way(f) \in ForCaller <=> Way(e) \in ForCaller)
                   /\ Way(f) \in ForRemote <=> Way(e) \in ForRemote
        BY <1>b, <1>d, <3>1, PassOn
      <4> QED BY <4>2, <4>3
    <3>2. CASE ~Ready(x)
      BY <1>a, <1>b, <1>2, <3>2, Dropped DEF TakeSuccess
    <3> QED BY <3>1, <3>2
  <2>3. PICK G : /\ Took(e, "Success", G) /\ \A f, g \in G : f = g
                 /\ \A f \in G : /\ Way(f) \in ForCaller <=> Way(e) \in ForCaller
                                 /\ Way(f) \in ForRemote <=> Way(e) \in ForRemote
    BY <2>2
  <2>4. \A k \in Probes \cup Handshakes : \A d \in EndsOf(s) : k \in inbox'[d] => k \in inbox[d]
    BY <2>3, TookOthers, Kinds
  <2>5. QuietProbes(s) /\ QuietHandshake(s)
    BY <1>c, <2>1, <2>4 DEF QuietProbes, QuietHandshake
  <2>6. \A d \in EndsOf(s) : "Success" \in inbox'[d] => ("Success" \in inbox[d] /\ d # e) \/ d \in G
    BY <2>3 DEF Took, EndsOf
  <2>7. ASSUME NEW D, NEW c, \A f \in G : Way(f) \in D => Way(e) \in D
        PROVE  Kept(Places(s, D, c), Places(s, D, c)')
    <3>1. CASE \E f \in G : Way(f) \in D
      <4>1. PICK f \in G : Way(f) \in D
        BY <3>1
      <4>2. <<"in", e>> \in Places(s, D, c)
        BY <1>c, <2>7, <4>1, InPlaces
      <4>3. \A g \in G : g = f
        BY <2>3, <4>1
      <4>4. Places(s, D, c)' \subseteq (Places(s, D, c) \ {<<"in", e>>}) \cup {<<"in", f>>}
        <5> SUFFICES ASSUME NEW y \in Places(s, D, c)', y # <<"in", f>>
                     PROVE  y \in Places(s, D, c) /\ y # <<"in", e>>
          OBVIOUS
        <5>1. CASE \E d \in EndsOf(s) : Way(d) \in D /\ "Success" \in inbox'[d] /\ y = <<"in", d>>
          <6>1. PICK d \in EndsOf(s) : Way(d) \in D /\ "Success" \in inbox'[d] /\ y = <<"in", d>>
            BY <5>1
          <6>2. d # f
            BY <6>1
          <6>3. "Success" \in inbox[d] /\ d # e
            BY <2>6, <4>3, <6>1, <6>2
          <6>4. y \in Places(s, D, c)
            BY <6>1, <6>3, InPlaces, Zenon
          <6> QED BY <6>1, <6>3, <6>4, PlaceNames, Zenon
        <5>2. CASE \E d \in EndsOf(s) : Way(d) \in D /\ handler'[d] = "success" /\ y = <<"at", d>>
          <6>1. PICK d \in EndsOf(s) : Way(d) \in D /\ handler'[d] = "success" /\ y = <<"at", d>>
            BY <5>2
          <6>3. handler[d] = "success"
            BY <2>1, <6>1
          <6>4. y \in Places(s, D, c)
            BY <6>1, <6>3, InPlaces, Zenon
          <6> QED BY <6>1, <6>4, PlaceNames, Zenon
        <5>3. CASE hs'[<<c, s>>] # "idle" /\ y = <<"hs", s>>
          BY <1>c, <5>3, InPlaces
        <5> QED BY <5>1, <5>2, <5>3, NextPlaces
      <4> QED BY <4>2, <4>4 DEF Kept
    <3>2. CASE \A f \in G : Way(f) \notin D
      <4>1. Places(s, D, c)' \subseteq Places(s, D, c)
        BY <1>c, <2>1, <2>6, <3>2 DEF Places, Waits, EndsOf, Way
      <4> QED BY <4>1 DEF Kept
    <3> QED BY <3>1, <3>2
  <2>8. Concluded(s) => Concluded(s)'
    BY <2>5, ProbesQuiet, ConcludedStays
  <2>9. Kept(ToCaller(s), ToCaller(s)')
    BY <2>3, <2>7 DEF ToCaller, ForCaller
  <2>10. Kept(ToRemote(s), ToRemote(s)')
    BY <2>3, <2>7 DEF ToRemote, ForRemote
  <2>11. \A d \in EndsOf(s) : handler'[d] = "success" => Way(d) \in AtClient
    BY <2>1 DEF SuccessInv
  <2> QED BY <2>5, <2>8, <2>9, <2>10, <2>11, SuccessMoves
<1> QED BY <1>1, <1>2

-----------------------------------------------------------------------------
(* The steps of the handshakes.                                              *)

\* No handshake message appears that was not there, and nobody goes on.
LEMMA HandshakeSame ==
    ASSUME NEW s \in Sessions, HsInv(s), hs' = hs,
           \A k \in Handshakes : Anywhere(s, k)' => Anywhere(s, k)
    PROVE  HsInv(s)'
<1>1. {"Hs1", "Hs2", "Hs3"} = Handshakes
  BY DEF Handshakes
<1> QED BY <1>1 DEF HsInv

\* Only the two clients run the handshake, each with the states of its side.
LEMMA HandshakeSides ==
    ASSUME NEW s \in Sessions, HsInv(s), NEW c \in Clients, hs[<<c, s>>] # "idle"
    PROVE  /\ c \in {From[s], To[s]}
           /\ hs[<<c, s>>] \in {"await1", "await3"} => c = To[s]
           /\ hs[<<c, s>>] = "await2" => c = From[s]
<1>1. c \in {From[s], To[s]}
  BY DEF HsInv
<1> QED BY <1>1 DEF HsInv

\* One client goes on in its handshake.
LEMMA HandshakeGoes ==
    ASSUME IInv, NEW s \in Sessions, HsInv(s), NEW c \in Clients, NEW v,
           hs' = [hs EXCEPT ![<<c, s>>] = v], c \in {From[s], To[s]}
    PROVE  /\ \A d \in Clients \ {From[s], To[s]} : hs'[<<d, s>>] = "idle"
           /\ c = From[s] => hs'[<<From[s], s>>] = v /\ hs'[<<To[s], s>>] = hs[<<To[s], s>>]
           /\ c = To[s] => hs'[<<To[s], s>>] = v /\ hs'[<<From[s], s>>] = hs[<<From[s], s>>]
<1>1. hs \in [Nodes \X Sessions -> HsStates] /\ Clients \subseteq Nodes
  BY DEF IInv, TypeOK, Nodes
<1>2. From[s] \in Nodes /\ To[s] \in Nodes /\ From[s] # To[s]
  BY Parties
<1>3. \A d \in Nodes : <<d, s>> \in Nodes \X Sessions
  OBVIOUS
<1>4. \A d \in Nodes : hs'[<<d, s>>] = IF d = c THEN v ELSE hs[<<d, s>>]
  BY <1>1, <1>3
<1> QED BY <1>1, <1>2, <1>4 DEF HsInv

\* A message under way to a client, written while others stay where they are.
LEMMA AnywhereWrote ==
    ASSUME NEW s \in Sessions, NEW m, NEW F, Wrote(m, F), NEW k, k # m,
           \A n \in Nodes : chan'[<<n, s>>] \subseteq chan[<<n, s>>], Anywhere(s, k)'
    PROVE  Anywhere(s, k)
<1>1. CASE \E d \in EndsOf(s) : k \in inbox'[d]
  BY <1>1 DEF Anywhere, Wrote, EndsOf
<1>2. CASE \E n \in Nodes : k \in chan'[<<n, s>>]
  BY <1>2 DEF Anywhere
<1> QED BY <1>1, <1>2 DEF Anywhere, EndsOf

\* process_handshake starts at a client that was idle.
LEMMA StartIdle ==
    ASSUME IInv, NEW s \in Sessions, SuccessInv(s), NEW e \in EndsOf(s), handler[e] = "success"
    PROVE  /\ NodeAt(e) \in {From[s], To[s]} /\ hs[<<NodeAt(e), s>>] = "idle"
           /\ NodeAt(e) = From[s] => Way(e) \in ForCaller /\ Way(e) \notin ForRemote
           /\ NodeAt(e) = To[s] => Way(e) \in ForRemote /\ Way(e) \notin ForCaller
<1> DEFINE n == NodeAt(e)
<1>1. Way(e) \in AtClient
  BY DEF SuccessInv
<1>2. n = (IF Way(e) = <<"dial", "src">> THEN From[s] ELSE To[s]) /\ From[s] # To[s]
  BY <1>1, EndOfClient, Parties
<1>3. /\ n = From[s] => Way(e) \in ForCaller /\ Way(e) \notin ForRemote
      /\ n = To[s] => Way(e) \in ForRemote /\ Way(e) \notin ForCaller
  BY <1>1, <1>2 DEF AtClient, ForCaller, ForRemote
<1>4. ASSUME NEW D, Way(e) \in D, AtMostOne(Places(s, D, n)), hs[<<n, s>>] # "idle" PROVE FALSE
  <2>1. <<"at", e>> \in Places(s, D, n) /\ <<"hs", s>> \in Places(s, D, n)
    BY <1>4, InPlaces, Zenon
  <2>2. <<"at", e>> = <<"hs", s>>
    BY <1>4, <2>1, Zenon DEF AtMostOne
  <2> QED BY <2>2
<1>5. hs[<<n, s>>] = "idle"
  <2>1. CASE n = From[s]
    BY <1>3, <1>4, <2>1 DEF SuccessInv, ToCaller
  <2>2. CASE n = To[s]
    BY <1>3, <1>4, <2>2 DEF SuccessInv, ToRemote
  <2> QED BY <1>2, <2>1, <2>2
<1> QED BY <1>2, <1>3, <1>5

\* process_handshake starts: the report has reached its client.
LEMMA StartSuccess ==
    ASSUME IInv, NEW s \in Sessions, SuccessInv(s), Concluded(s) => Concluded(s)', NEW e \in EndsOf(s),
           handler[e] = "success", NEW v, hs' = [hs EXCEPT ![<<NodeAt(e), s>>] = v],
           handler' = [handler EXCEPT ![e] = "read"],
           \A d \in EndsOf(s) : "Success" \in inbox'[d] => "Success" \in inbox[d]
    PROVE  SuccessInv(s)'
<1> DEFINE n == NodeAt(e)
<1>a. TypeOK /\ e \in Ends /\ From[s] # To[s] /\ From[s] \in Nodes /\ To[s] \in Nodes
  BY Parties DEF IInv, EndsOf
<1>1. \A d \in EndsOf(s) : handler'[d] = "success" => handler[d] = "success" /\ d # e
  BY <1>a DEF EndsOf, TypeOK
<1>2. \A c \in Nodes : c # n => hs'[<<c, s>>] = hs[<<c, s>>]
  BY <1>a DEF TypeOK
<1>3. ASSUME NEW D, NEW c \in Nodes, c # n \/ Way(e) \in D
      PROVE  Kept(Places(s, D, c), Places(s, D, c)')
  <2>1. ASSUME NEW y \in Places(s, D, c)', y # <<"hs", s>> \/ c # n
        PROVE  y \in Places(s, D, c) /\ y # <<"at", e>>
    <3>1. CASE \E d \in EndsOf(s) : Way(d) \in D /\ "Success" \in inbox'[d] /\ y = <<"in", d>>
      <4>1. PICK d \in EndsOf(s) : Way(d) \in D /\ "Success" \in inbox'[d] /\ y = <<"in", d>>
        BY <3>1
      <4>2. "Success" \in inbox[d]
        BY <4>1
      <4>3. y \in Places(s, D, c)
        BY <4>1, <4>2, InPlaces, Zenon
      <4> QED BY <4>1, <4>3, PlaceNames, Zenon
    <3>2. CASE \E d \in EndsOf(s) : Way(d) \in D /\ handler'[d] = "success" /\ y = <<"at", d>>
      <4>1. PICK d \in EndsOf(s) : Way(d) \in D /\ handler'[d] = "success" /\ y = <<"at", d>>
        BY <3>2
      <4>2. handler[d] = "success" /\ d # e
        BY <1>1, <4>1
      <4>3. y \in Places(s, D, c)
        BY <4>1, <4>2, InPlaces, Zenon
      <4> QED BY <4>1, <4>2, <4>3, PlaceNames, Zenon
    <3>3. CASE hs'[<<c, s>>] # "idle" /\ y = <<"hs", s>>
      <4>1. hs[<<c, s>>] # "idle"
        BY <1>2, <2>1, <3>3
      <4>2. y \in Places(s, D, c)
        BY <3>3, <4>1, InPlaces, Zenon
      <4> QED BY <3>3, <4>2, PlaceNames, Zenon
    <3> QED BY <3>1, <3>2, <3>3, NextPlaces
  <2>2. CASE c # n
    <3>1. Places(s, D, c)' \subseteq Places(s, D, c)
      BY <2>1, <2>2
    <3> QED BY <3>1 DEF Kept
  <2>3. CASE Way(e) \in D
    <3>1. <<"at", e>> \in Places(s, D, c)
      BY <2>3, InPlaces, Zenon
    <3>2. Places(s, D, c)' \subseteq (Places(s, D, c) \ {<<"at", e>>}) \cup {<<"hs", s>>}
      BY <2>1
    <3> QED BY <3>1, <3>2 DEF Kept
  <2> QED BY <1>3, <2>2, <2>3
<1>4. /\ n = From[s] => Way(e) \in ForCaller
      /\ n = To[s] => Way(e) \in ForRemote
  BY StartIdle
<1>5. Kept(ToCaller(s), ToCaller(s)')
  BY <1>a, <1>3, <1>4 DEF ToCaller, ForCaller
<1>6. Kept(ToRemote(s), ToRemote(s)')
  BY <1>a, <1>3, <1>4 DEF ToRemote, ForRemote
<1>7. \A d \in EndsOf(s) : handler'[d] = "success" => Way(d) \in AtClient
  BY <1>1 DEF SuccessInv
<1> QED BY <1>5, <1>6, <1>7, SuccessMoves

\* process_handshake starts, or its circuit is gone.
LEMMA StartHandshakeStep ==
    ASSUME IInv, NEW s \in Sessions, Onward(s), Busy(s), ProbeInv(s), SuccessInv(s), HsInv(s),
           NEW e \in EndsOf(s), StartHandshake(e)
    PROVE  QuietProbes(s) /\ SuccessInv(s)' /\ HsInv(s)'
<1> USE DEF callVars, readVars, nodeVars, hsVars, busVars, loopVars
<1> DEFINE n == NodeAt(e)
<1>a. TypeOK /\ e \in Ends /\ e[1] = s
  BY EndParts DEF IInv
<1>b. handler[e] = "success" /\ UNCHANGED <<chan, probe>>
  BY DEF StartHandshake
<1>c. /\ n \in {From[s], To[s]} /\ hs[<<n, s>>] = "idle"
  BY <1>b, StartIdle
<1>d. From[s] # To[s] /\ From[s] \in Clients /\ To[s] \in Clients
  BY Parties
<1>1. \A d \in EndsOf(s) : /\ handler'[d] \in AtProbe => handler[d] \in AtProbe
                           /\ handler'[d] = "success" => handler[d] = "success"
  BY <1>a DEF StartHandshake, EndsOf, TypeOK, AtProbe
<1>2. inbox' = inbox \/ \E F : Wrote("Hs1", F)
  BY Delivered DEF StartHandshake
<1>3. \A d \in EndsOf(s) : \A k : k # "Hs1" /\ k \in inbox'[d] => k \in inbox[d]
  BY <1>2 DEF Wrote, EndsOf
<1>4. "Hs1" # "Success" /\ "Hs1" \notin Probes
  BY DEF Probes
<1>5. QuietProbes(s)
  BY <1>b, <1>1, <1>3, <1>4 DEF QuietProbes
<1>6. Concluded(s) => Concluded(s)'
  BY <1>5, ProbesQuiet, ConcludedStays
<1>7. \A k : k # "Hs1" /\ Anywhere(s, k)' => Anywhere(s, k)
  BY <1>b, <1>3 DEF Anywhere, EndsOf
<1>8. CASE circuit[<<n, s>>] = "none"
  <2>1. UNCHANGED <<hs, inbox>>
    BY <1>a, <1>8 DEF StartHandshake
  <2>2. QuietSuccess(s) /\ QuietHandshake(s)
    BY <1>b, <1>1, <2>1 DEF QuietSuccess, QuietHandshake
  <2> QED BY <1>5, <1>6, <2>2, SuccessQuiet, HandshakeQuiet
<1>9. CASE circuit[<<n, s>>] # "none" /\ n = From[s]
  <2>1. hs' = [hs EXCEPT ![<<n, s>>] = "await2"] /\ handler' = [handler EXCEPT ![e] = "read"]
    BY <1>a, <1>9 DEF StartHandshake
  <2>2. SuccessInv(s)'
    BY <1>b, <1>3, <1>4, <1>6, <2>1, StartSuccess
  <2>3. /\ \A d \in Clients \ {From[s], To[s]} : hs'[<<d, s>>] = "idle"
        /\ hs'[<<From[s], s>>] = "await2" /\ hs'[<<To[s], s>>] = hs[<<To[s], s>>]
    BY <1>9, <1>c, <1>d, <2>1, HandshakeGoes
  <2>4. hs[<<To[s], s>>] \in {"idle", "await1"}
    BY <1>c, <1>9 DEF HsInv
  <2>5. ~Anywhere(s, "Hs2") /\ ~Anywhere(s, "Hs3")
    BY <1>c, <1>9, <2>4 DEF HsInv
  <2>6. ~Anywhere(s, "Hs2")' /\ ~Anywhere(s, "Hs3")'
    BY <1>7, <2>5
  <2>7. HsInv(s)'
    BY <2>3, <2>4, <2>6 DEF HsInv
  <2> QED BY <1>5, <2>2, <2>7
<1>10. CASE circuit[<<n, s>>] # "none" /\ n # From[s]
  <2>0. n = To[s]
    BY <1>c, <1>10
  <2>1. hs' = [hs EXCEPT ![<<n, s>>] = "await1"] /\ handler' = [handler EXCEPT ![e] = "read"]
        /\ inbox' = inbox
    BY <1>a, <1>10 DEF StartHandshake
  <2>2. SuccessInv(s)'
    BY <1>b, <1>3, <1>4, <1>6, <2>1, StartSuccess
  <2>3. /\ \A d \in Clients \ {From[s], To[s]} : hs'[<<d, s>>] = "idle"
        /\ hs'[<<To[s], s>>] = "await1" /\ hs'[<<From[s], s>>] = hs[<<From[s], s>>]
    <3>1. hs' = [hs EXCEPT ![<<To[s], s>>] = "await1"]
      BY <2>0, <2>1
    <3> QED BY <1>d, <3>1, HandshakeGoes
  <2>4. hs[<<From[s], s>>] \in {"idle", "await2"}
    BY <1>c, <2>0 DEF HsInv
  <2>5. ~Anywhere(s, "Hs2") /\ ~Anywhere(s, "Hs3")
    BY <1>c, <2>0, <2>4 DEF HsInv
  <2>6. \A k : Anywhere(s, k)' => Anywhere(s, k)
    BY <1>b, <2>1 DEF Anywhere, EndsOf
  <2>7. HsInv(s)'
    BY <2>3, <2>4, <2>5, <2>6 DEF HsInv
  <2> QED BY <1>5, <2>2, <2>7
<1> QED BY <1>8, <1>9, <1>10

\* A handshake message is the client's, or goes on.
LEMMA TakeDataStep ==
    ASSUME IInv, NEW s \in Sessions, HsInv(s), NEW e \in EndsOf(s), NEW m \in Handshakes, TakeData(e, m)
    PROVE  QuietProbes(s) /\ QuietSuccess(s) /\ HsInv(s)'
<1> USE DEF callVars, readVars, nodeVars, hsVars, busVars, loopVars
<1> DEFINE n == NodeAt(e)
<1>a. TypeOK /\ e \in Ends /\ e[1] = s
  BY EndParts DEF IInv
<1>b. m \in inbox[e] /\ UNCHANGED <<handler, hs, probe>>
  BY DEF TakeData
<1>1. \E G : Took(e, m, G)
  <2>1. CASE Drop(e, m)
    BY <1>a, <2>1, Dropped
  <2>2. CASE Forward(e, session[<<n, e[1]>>], m)
    BY <1>a, <2>2, Forwarded
  <2> QED BY <2>1, <2>2 DEF TakeData
<1>2. PICK G : Took(e, m, G)
  BY <1>1
<1>3. m # "Success" /\ m \notin Probes
  BY Kinds
<1>4. \A k \in Probes \cup {"Success"} : \A d \in EndsOf(s) : k \in inbox'[d] => k \in inbox[d]
  BY <1>2, <1>3, TookOthers
<1>5. QuietProbes(s) /\ QuietSuccess(s)
  BY <1>b, <1>4 DEF QuietProbes, QuietSuccess
<1>6. \A d \in EndsOf(s) : \A k : k \in inbox'[d] => k \in inbox[d] \/ k = m
  BY <1>2 DEF Took, EndsOf
<1>7. \A c \in Nodes : \A k : k \in chan'[<<c, s>>] => k \in chan[<<c, s>>] \/ k = m
  <2>1. chan' = chan \/ chan' = [chan EXCEPT ![<<n, s>>] = @ \cup {m}]
    BY <1>a DEF TakeData
  <2>2. \A c \in Nodes : <<c, s>> \in Nodes \X Sessions
    OBVIOUS
  <2>3. chan \in [Nodes \X Sessions -> SUBSET Handshakes]
    BY <1>a DEF TypeOK
  <2>4. \A c \in Nodes : chan'[<<c, s>>] \in {chan[<<c, s>>], chan[<<c, s>>] \cup {m}}
    BY <2>1, <2>2, <2>3
  <2> QED BY <2>4
<1>8. ASSUME NEW k \in Handshakes, Anywhere(s, k)' PROVE Anywhere(s, k)
  <2>1. CASE k = m
    BY <1>b, <2>1 DEF Anywhere
  <2>2. CASE k # m
    BY <1>6, <1>7, <1>8, <2>2 DEF Anywhere, EndsOf
  <2> QED BY <2>1, <2>2
<1>9. HsInv(s)'
  BY <1>b, <1>8, HandshakeSame
<1> QED BY <1>5, <1>9

\* process_handshake reads a message: it was written by the other client.
LEMMA ReadStep ==
    ASSUME IInv, NEW s \in Sessions, HsInv(s), NEW c \in Clients, NEW m \in Handshakes,
           ReadHandshake(c, s, m)
    PROVE  QuietProbes(s) /\ QuietSuccess(s) /\ HsInv(s)'
<1> USE DEF callVars, readVars, nodeVars, hsVars, busVars, loopVars
<1>a. TypeOK /\ c \in Nodes /\ From[s] # To[s]
  BY Parties DEF IInv, Nodes
<1>b. /\ hs[<<c, s>>] = HsReads(m) /\ m \in chan[<<c, s>>] /\ hs' = [hs EXCEPT ![<<c, s>>] = HsNext(m)]
      /\ chan' = [chan EXCEPT ![<<c, s>>] = @ \ {m}] /\ UNCHANGED <<handler, probe>>
  BY DEF ReadHandshake
<1>c. m \in {"Hs1", "Hs2", "Hs3"}
  BY DEF Handshakes
<1>d. hs[<<c, s>>] # "idle"
  BY <1>b, <1>c DEF HsReads
<1>e. Anywhere(s, m)
  BY <1>a, <1>b DEF Anywhere
<1>1. \E k \in {"Hs2", "Hs3"} : /\ \E F : Wrote(k, F)
                                /\ m = "Hs1" => k = "Hs2"
                                /\ m # "Hs1" => k = "Hs3"
  <2>1. CASE m = "Hs3"
    <3>1. Wrote("Hs3", {})
      BY <2>1 DEF ReadHandshake, Wrote
    <3> QED BY <2>1, <3>1
  <2>2. CASE m \in {"Hs1", "Hs2"}
    <3>1. \E F : Deliver(F, HsReply(m))
      BY <2>2 DEF ReadHandshake
    <3>2. \E F : Wrote(HsReply(m), F)
      BY <3>1, Delivered
    <3> QED BY <2>2, <3>2 DEF HsReply
  <2> QED BY <1>c, <2>1, <2>2
<1>2. PICK k \in {"Hs2", "Hs3"} : /\ \E F : Wrote(k, F)
                                  /\ m = "Hs1" => k = "Hs2"
                                  /\ m # "Hs1" => k = "Hs3"
  BY <1>1
<1>3. \A d \in EndsOf(s) : \A j : j \in inbox'[d] => j \in inbox[d] \/ j = k
  BY <1>2 DEF Wrote, EndsOf
<1>4. \A d \in Nodes : chan'[<<d, s>>] \subseteq chan[<<d, s>>]
  BY <1>a, <1>b DEF TypeOK
<1>5. \A j : j # k /\ Anywhere(s, j)' => Anywhere(s, j)
  BY <1>3, <1>4 DEF Anywhere, EndsOf
<1>6. k \notin Probes /\ k # "Success"
  BY DEF Probes
<1>7. QuietProbes(s)
  BY <1>b, <1>3, <1>6 DEF QuietProbes
<1>8. QuietSuccess(s)
  <2>1. \A d \in Clients : hs'[<<d, s>>] # "idle" => hs[<<d, s>>] # "idle"
    BY <1>a, <1>b, <1>d DEF TypeOK, Nodes
  <2> QED BY <1>b, <1>3, <1>6, <2>1 DEF QuietSuccess
<1>9. /\ c \in {From[s], To[s]}
      /\ \A d \in Clients \ {From[s], To[s]} : hs'[<<d, s>>] = "idle"
      /\ c = From[s] => hs'[<<From[s], s>>] = HsNext(m) /\ hs'[<<To[s], s>>] = hs[<<To[s], s>>]
      /\ c = To[s] => hs'[<<To[s], s>>] = HsNext(m) /\ hs'[<<From[s], s>>] = hs[<<From[s], s>>]
  BY <1>b, <1>d, HandshakeSides, HandshakeGoes
<1>10. CASE m = "Hs1"
  <2>1. c = To[s] /\ hs[<<To[s], s>>] = "await1" /\ HsNext(m) = "await3" /\ k = "Hs2"
    BY <1>2, <1>b, <1>d, <1>10, HandshakeSides DEF HsReads, HsNext
  <2>2. hs[<<From[s], s>>] = "await2"
    BY <1>e, <1>10, <2>1 DEF HsInv
  <2>3. ~Anywhere(s, "Hs3")'
    BY <1>5, <2>1, <2>2 DEF HsInv
  <2> QED BY <1>7, <1>8, <1>9, <2>1, <2>2, <2>3 DEF HsInv
<1>11. CASE m = "Hs2"
  <2>1. c = From[s] /\ HsNext(m) = "finish"
    BY <1>b, <1>d, <1>11, HandshakeSides DEF HsReads, HsNext
  <2>2. hs[<<To[s], s>>] \in {"await3", "finish", "done"}
    BY <1>e, <1>11 DEF HsInv
  <2> QED BY <1>7, <1>8, <1>9, <2>1, <2>2 DEF HsInv
<1>12. CASE m = "Hs3"
  <2>1. c = To[s] /\ HsNext(m) = "finish"
    BY <1>b, <1>d, <1>12, HandshakeSides DEF HsReads, HsNext
  <2>2. hs[<<From[s], s>>] \in {"finish", "done"}
    BY <1>e, <1>12 DEF HsInv
  <2> QED BY <1>7, <1>8, <1>9, <2>1, <2>2 DEF HsInv
<1> QED BY <1>c, <1>10, <1>11, <1>12

\* process_handshake ends.
LEMMA FinishStep ==
    ASSUME IInv, NEW s \in Sessions, HsInv(s), NEW c \in Clients, FinishHandshake(c, s)
    PROVE  QuietProbes(s) /\ QuietSuccess(s) /\ HsInv(s)'
<1> USE DEF callVars, readVars, nodeVars, hsVars, busVars, loopVars
<1>a. TypeOK /\ c \in Nodes /\ From[s] # To[s]
  BY Parties DEF IInv, Nodes
<1>b. /\ hs[<<c, s>>] = "finish" /\ hs' = [hs EXCEPT ![<<c, s>>] = "done"]
      /\ UNCHANGED <<handler, probe, inbox, chan>>
  BY DEF FinishHandshake
<1>1. \A d \in Clients : hs'[<<d, s>>] # "idle" => hs[<<d, s>>] # "idle"
  BY <1>a, <1>b DEF TypeOK, Nodes
<1>2. QuietProbes(s) /\ QuietSuccess(s)
  BY <1>b, <1>1 DEF QuietProbes, QuietSuccess
<1>3. \A k : Anywhere(s, k)' => Anywhere(s, k)
  BY <1>b DEF Anywhere, EndsOf
<1>4. /\ c \in {From[s], To[s]}
      /\ \A d \in Clients \ {From[s], To[s]} : hs'[<<d, s>>] = "idle"
      /\ c = From[s] => hs'[<<From[s], s>>] = "done" /\ hs'[<<To[s], s>>] = hs[<<To[s], s>>]
      /\ c = To[s] => hs'[<<To[s], s>>] = "done" /\ hs'[<<From[s], s>>] = hs[<<From[s], s>>]
  BY <1>b, HandshakeSides, HandshakeGoes
<1>5. HsInv(s)'
  <2>1. CASE c = From[s]
    BY <1>b, <1>3, <1>4, <2>1 DEF HsInv
  <2>2. CASE c = To[s]
    BY <1>b, <1>3, <1>4, <2>2 DEF HsInv
  <2> QED BY <1>4, <2>1, <2>2
<1> QED BY <1>2, <1>5

\* The handshakes of other sessions are quiet.
LEMMA HandshakeElsewhere ==
    ASSUME IInv, NEW s \in Sessions, NEW t \in Sessions, s # t, NEW c \in Clients, Handshake(c, t)
    PROVE  Quiet(s)
<1> USE DEF callVars, readVars, nodeVars, hsVars, busVars, loopVars
<1>a. TypeOK /\ \A d \in Nodes : <<d, s>> # <<c, t>> /\ <<d, s>> \in Nodes \X Sessions
  BY DEF IInv
<1>1. /\ UNCHANGED <<handler, probe>>
      /\ \A d \in Nodes : hs'[<<d, s>>] = hs[<<d, s>>] /\ chan'[<<d, s>>] = chan[<<d, s>>]
  <2>1. CASE FinishHandshake(c, t)
    BY <1>a, <2>1 DEF FinishHandshake, TypeOK
  <2>2. CASE \E m \in Handshakes : ReadHandshake(c, t, m)
    BY <1>a, <2>2 DEF ReadHandshake, TypeOK
  <2> QED BY <2>1, <2>2 DEF Handshake
<1>2. \A d \in EndsOf(s) : \A k : k \in inbox'[d] => k \in inbox[d]
  <2>1. CASE inbox' = inbox
    BY <2>1
  <2>2. CASE \E m, P : Deliver({e \in FarEnds(c, t, P) : c = From[t] \/ handler[<<t, e[2], "dst">>] # "off"}, m)
    <3>1. PICK m, P : Deliver({e \in FarEnds(c, t, P) : c = From[t] \/ handler[<<t, e[2], "dst">>] # "off"}, m)
      BY <2>2
    <3>2. EndsOf(s) \cap FarEnds(c, t, P) = {}
      BY FarElsewhere
    <3>3. Wrote(m, {e \in FarEnds(c, t, P) : c = From[t] \/ handler[<<t, e[2], "dst">>] # "off"})
      BY <3>1, Delivered
    <3> QED BY <3>2, <3>3 DEF Wrote, EndsOf
  <2> QED BY <2>1, <2>2 DEF Handshake, ReadHandshake, FinishHandshake
<1>3. Clients \subseteq Nodes
  BY DEF Nodes
<1> QED BY <1>1, <1>2, <1>3 DEF Quiet, QuietProbes, QuietSuccess, QuietHandshake

-----------------------------------------------------------------------------
(* The theorems.                                                             *)

\* No step of a kind: the rest of the invariant holds by the lemmas above.
LEMMA FrameQuiet ==
    ASSUME NEW s \in Sessions, Onward(s), FrameInv(s), Spliced(s)', QuietProbes(s),
           SuccessInv(s)' \/ QuietSuccess(s), HsInv(s)' \/ QuietHandshake(s)
    PROVE  FrameInv(s)'
<1>1. /\ Busy(s)' /\ ProbeInv(s)'
      /\ Outstanding(s)' \subseteq Outstanding(s) /\ Handled(s)' \subseteq Handled(s)
  BY ProbesQuiet DEF FrameInv
<1>2. Concluded(s) => Concluded(s)'
  BY <1>1, ConcludedStays
<1>3. SuccessInv(s)'
  BY <1>2, SuccessQuiet DEF FrameInv
<1>4. HsInv(s)'
  BY HandshakeQuiet DEF FrameInv
<1> QED BY <1>1, <1>3, <1>4 DEF FrameInv

\* relay_event_handler keeps the invariant of its own session.
LEMMA FrameHandle ==
    ASSUME IInv, NEW s \in Sessions, AckInv(s), Onward(s), FrameInv(s), Spliced(s)',
           NEW e \in EndsOf(s), Handle(e)
    PROVE  FrameInv(s)'
<1>a. Spliced(s) /\ Busy(s) /\ ProbeInv(s) /\ SuccessInv(s) /\ HsInv(s)
  BY DEF FrameInv
<1>b. e \in Ends /\ e[1] = s
  BY EndParts
<1>1. CASE \/ TakeSet(e) \/ ApplyReplace(e) \/ ApplyNew(e) \/ ApplyLater(e) \/ CheckProbe(e)
           \/ TakeDisconnect(e) \/ TakeErr(e) \/ CloseOnErr(e)
  BY <1>b, <1>1, HandleQuiet, FrameQuiet DEF Quiet
<1>2. CASE (\E m \in Probes : TakeProbe(e, m)) \/ StoreProbe(e)
  <2>1. /\ Busy(s)' /\ ProbeInv(s)' /\ QuietSuccess(s) /\ QuietHandshake(s)
        /\ Outstanding(s) \cup Handled(s) = {} => Outstanding(s)' \cup Handled(s)' = {}
    BY <1>a, <1>2, TakeProbeStep, StoreProbeStep
  <2>2. Concluded(s) => Concluded(s)'
    BY <2>1, ConcludedStays
  <2>3. SuccessInv(s)' /\ HsInv(s)'
    BY <1>a, <2>1, <2>2, SuccessQuiet, HandshakeQuiet
  <2> QED BY <2>1, <2>3 DEF FrameInv
<1>3. CASE MatchProbe(e)
  BY <1>a, <1>3, MatchProbeQuiet, MatchSuccess, FrameQuiet
<1>4. CASE TakeSuccess(e)
  BY <1>a, <1>4, TakeSuccessStep, FrameQuiet
<1>5. CASE StartHandshake(e)
  BY <1>a, <1>5, StartHandshakeStep, FrameQuiet
<1>6. CASE \E m \in Handshakes : TakeData(e, m)
  BY <1>a, <1>6, TakeDataStep, FrameQuiet
<1> QED BY <1>1, <1>2, <1>3, <1>4, <1>5, <1>6 DEF Handle

\* The invariant holds before anybody has dialled.
LEMMA FrameInvInit ==
    ASSUME Init, NEW s \in Sessions
    PROVE  FrameInv(s)
<1>a. IInv
  BY IInvInit
<1>b. \A e \in EndsOf(s) : handler[e] = "off" /\ inbox[e] = {}
  BY DEF Init, EndsOf
<1>c. \A n \in Nodes : /\ session[<<n, s>>] = NoSession /\ hs[<<n, s>>] = "idle"
                       /\ chan[<<n, s>>] = {}
  BY DEF Init
<1>d. /\ \A p \in Purposes : call[<<s, p>>] = "idle"
      /\ pc[<<s, "circ">>] = "idle" /\ pc[<<s, "pub">>] = "idle" /\ probe = {} /\ acks = {} /\ got = {}
  BY DEF Init, Streams, Tasks
<1>1. Spliced(s)
  <2>1. Entry(s) \in Nodes
    BY <1>a, Parties
  <2>2. \A n \in Nodes : RoleOK(session[<<n, s>>], n, s)
    BY <1>c DEF RoleOK, NoSession
  <2>3. EntryPair(session[<<Entry(s), s>>])
    BY <1>c, <2>1 DEF EntryPair, NoSession
  <2>4. handler[<<s, "relay", "dst">>] = "off"
    BY DEF Init, Ends, Purposes
  <2>5. ~AckSeen(s, "relay")
    BY <1>d DEF AckSeen
  <2> QED BY <1>d, <2>2, <2>3, <2>4, <2>5 DEF Spliced
<1>2. Busy(s)
  BY <1>b DEF Busy, AtProbe
<1>3. ProbeInv(s)
  <2>1. Handled(s) = {}
    BY <1>b, AtSink DEF Handled, AtProbe
  <2>2. Stored(s) = {}
    BY <1>d DEF Stored
  <2>3. \A D, m : Waits(s, D, m) = {}
    BY <1>b DEF Waits
  <2>4. Outstanding(s) \subseteq {"ProbeE", "ProbeA"}
    BY DEF Outstanding
  <2>5. AtMostTwo(Outstanding(s) \cup Handled(s) \cup Stored(s))
    BY <2>1, <2>2, <2>4 DEF AtMostTwo
  <2>6. AtMostOne((Outstanding(s) \ {"ProbeA"}) \cup Handled(s) \cup Stored(s))
    BY <2>1, <2>2, <2>4 DEF AtMostOne
  <2>7. Routed(s)
    BY <2>3 DEF Routed, AtMostOne
  <2> QED BY <2>5, <2>6, <2>7 DEF ProbeInv
<1>4. From[s] \in Nodes /\ To[s] \in Nodes /\ Clients \subseteq Nodes
  BY <1>a, Parties DEF Nodes
<1>5. SuccessInv(s)
  <2>1. \A D : \A c \in Nodes : Places(s, D, c) = {}
    BY <1>b, <1>c DEF Places, Waits
  <2>2. ToCaller(s) = {} /\ ToRemote(s) = {}
    BY <1>4, <2>1 DEF ToCaller, ToRemote
  <2> QED BY <1>b, <2>2 DEF SuccessInv, AtMostOne
<1>6. HsInv(s)
  <2>1. \A m : ~Anywhere(s, m)
    BY <1>b, <1>c DEF Anywhere
  <2> QED BY <1>c, <1>4, <2>1 DEF HsInv
<1> QED BY <1>1, <1>2, <1>3, <1>5, <1>6 DEF FrameInv

\* Every step keeps it, for every session.
LEMMA FrameInvStep ==
    ASSUME IInv, NEW s \in Sessions, AckInv(s), FrameInv(s), [Next]_vars
    PROVE  FrameInv(s)'
<1>a. Spliced(s) /\ Busy(s) /\ ProbeInv(s) /\ SuccessInv(s) /\ HsInv(s)
  BY DEF FrameInv
<1>b. Spliced(s)' /\ Onward(s)
  BY <1>a, SplicedStep, OnwardStep
<1>1. ASSUME Quiet(s) PROVE FrameInv(s)'
  BY <1>b, <1>1, FrameQuiet DEF Quiet
<1>2. CASE \E t \in Sessions, q \in Purposes : Call(t, q)
  BY <1>1, <1>2, QuietCall
<1>3. ASSUME NEW e \in Ends, Handle(e) PROVE FrameInv(s)'
  <2>1. CASE e[1] = s
    <3>1. e \in EndsOf(s)
      BY <2>1 DEF EndsOf
    <3> QED BY <1>b, <1>3, <3>1, FrameHandle
  <2>2. CASE e[1] # s
    BY <1>1, <1>3, <2>2, HandleElsewhere
  <2> QED BY <2>1, <2>2
<1>4. ASSUME NEW c \in Clients, NEW t \in Sessions, Handshake(c, t) PROVE FrameInv(s)'
  <2>1. CASE t = s
    <3>1. QuietProbes(s) /\ QuietSuccess(s) /\ HsInv(s)'
      BY <1>a, <1>4, <2>1, ReadStep, FinishStep DEF Handshake
    <3> QED BY <1>b, <3>1, FrameQuiet
  <2>2. CASE t # s
    BY <1>1, <1>4, <2>2, HandshakeElsewhere
  <2> QED BY <2>1, <2>2
<1>5. ASSUME NEW t \in Sessions,
             \/ Dial(t) \/ EntryLoop(t) \/ AccessLoop(t) \/ RelayLoop(t)
             \/ \E c \in Clients : HangUp(c, t)
             \/ \E r \in Requests : ClientReply(t, r)
             \/ \E p \in Purposes : BreakStream(t, p)
             \/ \E k \in Keys, b \in BOOLEAN : RecvAck(k, b)
             \/ UNCHANGED vars
      PROVE  FrameInv(s)'
  <2>1. CASE Quiet(s)
    BY <1>1, <2>1
  <2>2. CASE /\ QuietProbes(s) /\ QuietHandshake(s)
             /\ DirectDone(s) \/ SinkIsAccess(s) \/ RelayIsEntry(s)
    BY <1>a, <1>b, <2>2, LoopSuccess, FrameQuiet
  <2>3. CASE /\ QuietSuccess(s) /\ QuietHandshake(s)
             /\ SendProbe(s) \/ ExpendDone(s)
    <3>1. /\ Busy(s)' /\ ProbeInv(s)'
          /\ Outstanding(s)' \subseteq Outstanding(s) /\ Handled(s)' \subseteq Handled(s)
      BY <1>a, <1>b, <2>3, SendProbeStep
    <3>2. Concluded(s) => Concluded(s)'
      BY <1>b, <3>1, ConcludedStays
    <3>3. SuccessInv(s)' /\ HsInv(s)'
      BY <1>a, <2>3, <3>2, SuccessQuiet, HandshakeQuiet
    <3> QED BY <1>b, <3>1, <3>3 DEF FrameInv
  <2> QED BY <1>5, <2>1, <2>2, <2>3, QuietLoops
<1>6. CASE System
  BY <1>2, <1>3, <1>4, <1>5, <1>6 DEF System
<1>7. CASE Environment
  BY <1>5, <1>7 DEF Environment
<1>8. CASE UNCHANGED vars
  BY <1>5, <1>8
<1> QED BY <1>6, <1>7, <1>8 DEF Next

\* What the provers show of every state.
FrameInvs == IInv /\ \A s \in Sessions : AckInv(s) /\ FrameInv(s)

\* The invariant is inductive.
LEMMA FrameInvsHold == Spec => []FrameInvs
<1>1. Init => FrameInvs
  BY IInvInit, AckInvInit, FrameInvInit DEF FrameInvs
<1>2. FrameInvs /\ [Next]_vars => FrameInvs'
  BY IInvStep, AckInvStep, FrameInvStep DEF FrameInvs
<1> QED BY <1>1, <1>2, PTL DEF Spec

\* Success never reaches a client twice, whatever fails: of the four steps that
\* report success only one can happen in a session, each node that passes the
\* frame on writes it to one stream, and the client that has started its handshake
\* (process_handshake) has no other Success frame or handler to come.
THEOREM OneHandshakeHolds == Spec => []OneHandshake
<1>1. FrameInvs => OneHandshake
  <2> SUFFICES ASSUME FrameInvs, NEW s \in Sessions, NEW c \in Clients, hs[<<c, s>>] # "idle",
                      NEW e \in Ends, e[1] = s, NodeAt(e) = c,
                      handler[e] = "success" \/ "Success" \in inbox[e]
               PROVE  FALSE
    BY DEF OneHandshake, PendingSuccess
  <2>1. IInv /\ AtMostOne(ToCaller(s)) /\ AtMostOne(ToRemote(s)) /\ e \in EndsOf(s)
    BY DEF FrameInvs, FrameInv, SuccessInv, EndsOf
  <2>2. ASSUME NEW D, Way(e) \in D PROVE ~AtMostOne(Places(s, D, c))
    <3>1. <<"hs", s>> \in Places(s, D, c)
      BY InPlaces
    <3>2. <<"in", e>> \in Places(s, D, c) \/ <<"at", e>> \in Places(s, D, c)
      BY <2>1, <2>2, InPlaces
    <3> QED BY <3>1, <3>2, PlaceNames DEF AtMostOne
  <2>3. CASE c = From[s]
    <3>1. Way(e) = <<"dial", "src">>
      BY <2>1, <2>3, ClientEnd
    <3> QED BY <2>1, <2>2, <2>3, <3>1 DEF ForCaller, ToCaller
  <2>4. CASE c # From[s]
    <3>1. c = To[s] /\ Way(e) \in ForRemote
      BY <2>1, <2>4, ClientEnd
    <3> QED BY <2>1, <2>2, <3>1 DEF ToRemote
  <2> QED BY <2>3, <2>4
<1> QED BY <1>1, FrameInvsHold, PTL

\* The two handshakes of a session agree, whatever fails: the caller is through
\* with process_handshake only when the remote client has answered it, and the
\* remote client only when the caller has sent its last message.
THEOREM HandshakeAgreementHolds == Spec => []HandshakeAgreement
<1>1. FrameInvs => HandshakeAgreement
  BY DEF FrameInvs, FrameInv, HsInv, HandshakeAgreement
<1> QED BY <1>1, FrameInvsHold, PTL

-----------------------------------------------------------------------------
(* The invariant of the runs in which streams stay.                          *)

\* The network keeps the streams, and no user hangs up.
Calm == Fragile = {} /\ MayHangUp = {}

\* A loop has given up on session s, and closes what it has of it.
Ended(s) ==
    \/ pc[<<s, "circ">>] = "done" /\ call[<<s, "sink">>] = "failed"
    \/ pc[<<s, "pub">>] = "done" /\ (call[<<s, "answer">>] = "failed" \/ call[<<s, "relay">>] = "failed")
    \/ pc[<<s, "cmd">>] = "done" /\ call[<<s, "expend">>] = "failed"

\* The entry node has become the relay too, and let go of its stream to the sink.
Replaced(s) == relay[s].peer = Entry(s) /\ Landed(s, "relay")

\* Who has asked whom: dial before the proxy loop works, and SessionExpend once,
\* before its ack.
Asked(s) ==
    /\ pc[<<s, "circ">>] # "idle" \/ <<s, "NewCircuit">> \in asked =>
         pc[<<s, "dial">>] \in {"wait", "returned"}
    /\ pc[<<s, "dial">>] \in {"wait", "returned"} => call[<<s, "dial">>] = "done"
    /\ <<s, "SessionExpend">> \in asked \/ call[<<s, "expend">>] \notin {"idle", "done", "failed"} =>
         pc[<<s, "pub">>] = "expend"
    /\ \A b \in BOOLEAN : <<<<s, "SessionExpend">>, b>> \in acks \cup got =>
         /\ <<s, "SessionExpend">> \notin asked /\ pc[<<s, "pub">>] \notin BeforeExpend
         /\ call[<<s, "expend">>] \in {"idle", "done", "failed"}
         /\ b => call[<<s, "expend">>] # "failed"

\* The caller's end of a stream has a handler from the ack on.
Started(s) == \A p \in Purposes : call[<<s, p>>] \in AfterAck => handler[<<s, p, "src">>] # "off"

\* The bootstrap is chosen for no role.
Chosen(s) ==
    /\ sink[s].peer # NoPeer => sink[s].peer # Boot
    /\ relay[s].peer # NoPeer => relay[s].peer # Boot

\* The open streams that node n has set up are in its session, and in the copies
\* that will be written back.
Held(n, s) == {p \in Purposes : n = Src(s, p) /\ call[<<s, p>>] = "done" /\ <<s, p>> \notin down}
Keeps(s) ==
    /\ \A n \in Nodes : Held(n, s) \subseteq Legs(session[<<n, s>>])
    /\ \A p \in Purposes :
         /\ call[<<s, p>>] = "insert" => Held(Src(s, p), s) = {}
         /\ call[<<s, p>>] = "later" => Held(Src(s, p), s) \subseteq Legs(clone[<<s, p>>])
         /\ handler[<<s, p, "dst">>] = "set" => Held(Dst(s, p), s) \subseteq Legs(snap[<<s, p, "dst">>])

\* Streams are closed, and handlers told to close, after a loop has given up,
\* and otherwise only around the stream that the entry node has replaced.
Losses(s) ==
    /\ \A p \in Purposes : <<s, p>> \in down => Ended(s) \/ (p = "sink" /\ Replaced(s))
    /\ \A p \in Purposes : <<s, p>> \in down /\ call[<<s, "expend">>] # "idle" => p \in {"answer", "relay"}
    /\ \A e \in EndsOf(s) : handler[e] = "close" =>
         <<s, e[2]>> \in down /\ (Ended(s) \/ e = <<s, "sink", "dst">>)
    /\ \A e \in EndsOf(s) : "Disconnect" \in inbox[e] => e = <<s, "sink", "dst">> /\ Replaced(s)
    /\ <<<<s, "SessionExpend">>, FALSE>> \in acks \cup got =>
         pc[<<s, "cmd">>] = "done" /\ call[<<s, "expend">>] = "failed"
    /\ Replaced(s) => call[<<s, "expend">>] = "idle" /\ "sink" \notin Legs(session[<<Entry(s), s>>])

\* A session that a task has found is there when the task comes back to it.
There(s) == \A p \in Purposes :
    /\ call[<<s, p>>] = "clone" => IsSome(session[<<Src(s, p), s>>])
    /\ handler[<<s, p, "dst">>] = "set" /\ IsSome(snap[<<s, p, "dst">>]) =>
         IsSome(session[<<Dst(s, p), s>>])

\* A handler returns after its stream has ended and has left the session.
Live(s) == \A e \in EndsOf(s) : handler[e] = "dead" =>
    <<s, e[2]>> \in down /\ e[2] \notin Legs(session[<<NodeAt(e), s>>])

\* A client has a circuit as long as its stream is open.
Circuits(s) ==
    /\ pc[<<s, "dial">>] \in {"wait", "returned"} /\ <<s, "dial">> \notin down =>
         circuit[<<From[s], s>>] # "none"
    /\ \A p \in {"direct", "answer"} : handler[<<s, p, "dst">>] \notin {"off", "fresh"} /\ <<s, p>> \notin down =>
         circuit[<<To[s], s>>] # "none"

\* The probe that a handler has found stays, and the relay has sent it.
Matched(s) == \A e \in EndsOf(s) : handler[e] = "match" =>
    HasProbe(NodeAt(e), s) /\ call[<<s, "expend">>] = "done"

\* The streams of one of the four shapes of a circuit are set up.
Stands(s) ==
    \/ call[<<s, "direct">>] = "done"
    \/ call[<<s, "answer">>] = "done" /\ sink[s].peer = Access(s)
    \/ call[<<s, "relay">>] = "done" /\ Replaced(s)
    \/ call[<<s, "expend">>] = "done"

\* A Success frame is under way, or a client has acted on it.
Told(s) == \/ \E e \in EndsOf(s) : "Success" \in inbox[e] \/ handler[e] = "success"
           \/ \E c \in Clients : hs[<<c, s>>] # "idle"

CalmInv(s) ==
    /\ Asked(s) /\ Started(s) /\ Chosen(s) /\ Keeps(s)
    /\ Losses(s) /\ There(s) /\ Live(s) /\ Circuits(s) /\ Matched(s)
    /\ Told(s) => Stands(s)

-----------------------------------------------------------------------------
(* Steps that set nothing up and close nothing.                              *)

\* The states of a handler that is at work on a frame, or waits for one.
Working == {"read", "probe", "store", "success"}

Steady(s) ==
    /\ \A p \in Purposes :
         /\ call'[<<s, p>>] = call[<<s, p>>] /\ clone'[<<s, p>>] = clone[<<s, p>>]
         /\ <<s, p>> \in down' <=> <<s, p>> \in down
    /\ \A e \in EndsOf(s) :
         /\ \/ handler'[e] = handler[e]
            \/ handler[e] \in Working \cup {"match"} /\ handler'[e] \in Working
            \/ /\ handler[e] = "probe" /\ handler'[e] = "match"
               /\ <<NodeAt(e), s>> \in probe /\ call[<<s, "expend">>] = "done"
         /\ handler'[e] = "set" => snap'[e] = snap[e]
         /\ "Disconnect" \in inbox'[e] => "Disconnect" \in inbox[e]
    /\ \A n \in Nodes :
         /\ session'[<<n, s>>] = session[<<n, s>>]
         /\ circuit'[<<n, s>>] = "none" => circuit[<<n, s>>] = "none"
         /\ <<n, s>> \in probe => <<n, s>> \in probe'
    /\ sink'[s] = sink[s] /\ relay'[s] = relay[s]

\* The control of a session goes onward, too.
Forward1(s) ==
    /\ Ended(s) => Ended(s)'
    /\ pc'[<<s, "dial">>] \in {"wait", "returned"} =>
         pc[<<s, "dial">>] \in {"wait", "returned"} \/ circuit'[<<From[s], s>>] # "none"
    /\ <<<<s, "SessionExpend">>, FALSE>> \in (acks \cup got)' =>
         \/ <<<<s, "SessionExpend">>, FALSE>> \in acks \cup got
         \/ pc'[<<s, "cmd">>] = "done" /\ call'[<<s, "expend">>] = "failed"
    /\ pc[<<s, "cmd">>] = "done" => pc'[<<s, "cmd">>] = "done"

\* The parts of an end, and who is there.
LEMMA EndNames ==
    ASSUME NEW s \in Sessions, NEW p \in Purposes, NEW d \in {"src", "dst"}
    PROVE  <<s, p, d>> \in EndsOf(s) /\ <<s, p, d>> \in Ends
BY DEF EndsOf, Ends

\* A handler runs at a node.
LEMMA EndIsNode ==
    ASSUME IInv, NEW s \in Sessions, NEW e \in EndsOf(s), handler[e] # "off"
    PROVE  NodeAt(e) \in Nodes
<1>1. e = <<s, e[2], e[3]>> /\ e[2] \in Purposes /\ e[3] \in {"src", "dst"}
  BY EndParts
<1> QED BY <1>1, EndsAreNodes

\* The peers of a stream stay when the choices of the loops do.
LEMMA SamePeers ==
    ASSUME NEW s \in Sessions, sink'[s] = sink[s], relay'[s] = relay[s]
    PROVE  /\ \A p \in Purposes : Src(s, p)' = Src(s, p) /\ Dst(s, p)' = Dst(s, p)
           /\ \A e \in EndsOf(s) : NodeAt(e)' = NodeAt(e)
<1>1. \A p \in Purposes : Src(s, p)' = Src(s, p) /\ Dst(s, p)' = Dst(s, p)
  BY DEF Src, Dst, Purposes
<1>2. ASSUME NEW e \in EndsOf(s) PROVE NodeAt(e)' = NodeAt(e)
  BY <1>1, EndParts DEF NodeAt
<1> QED BY <1>1, <1>2

\* A step that sets nothing up and closes nothing keeps the invariant, if it
\* keeps what is said of the control and tells nobody of success too early.
LEMMA SteadyKeeps ==
    ASSUME IInv, NEW s \in Sessions, CalmInv(s), Steady(s), Asked(s)', Forward1(s),
           Told(s)' => Stands(s)
    PROVE  CalmInv(s)'
<1>a. /\ \A p \in Purposes : Src(s, p)' = Src(s, p) /\ Dst(s, p)' = Dst(s, p)
      /\ \A e \in EndsOf(s) : NodeAt(e)' = NodeAt(e)
  BY SamePeers DEF Steady
<1>b. "expend" \in Purposes /\ "relay" \in Purposes /\ "sink" \in Purposes
      /\ "direct" \in Purposes /\ "answer" \in Purposes
  BY DEF Purposes
<1>c. Landed(s, "relay")' <=> Landed(s, "relay")
  BY <1>b, EndNames DEF Steady, Landed, Early, Working
<1>d. Replaced(s)' <=> Replaced(s)
  BY <1>c DEF Replaced, Steady, Entry
<1>e. Entry(s) \in Nodes /\ From[s] \in Nodes /\ To[s] \in Nodes
  BY Parties
<1>1. Started(s)'
  BY EndNames DEF CalmInv, Started, Steady, AfterAck, Working
<1>2. Chosen(s)'
  BY DEF CalmInv, Chosen, Steady
<1>3. Keeps(s)'
  <2>1. \A n : Held(n, s)' = Held(n, s)
    BY <1>a DEF Held, Steady
  <2>2. \A n \in Nodes : Held(n, s)' \subseteq Legs(session'[<<n, s>>])
    BY <2>1 DEF CalmInv, Keeps, Steady
  <2>3. ASSUME NEW p \in Purposes
        PROVE  /\ call'[<<s, p>>] = "insert" => Held(Src(s, p), s)' = {}
               /\ call'[<<s, p>>] = "later" => Held(Src(s, p), s)' \subseteq Legs(clone'[<<s, p>>])
    BY <1>a, <2>1 DEF CalmInv, Keeps, Steady
  <2>4. ASSUME NEW p \in Purposes, handler'[<<s, p, "dst">>] = "set"
        PROVE  Held(Dst(s, p), s)' \subseteq Legs(snap'[<<s, p, "dst">>])
    <3>1. handler[<<s, p, "dst">>] = "set" /\ snap'[<<s, p, "dst">>] = snap[<<s, p, "dst">>]
      BY <2>4, EndNames DEF Steady, Working
    <3> QED BY <1>a, <2>1, <3>1 DEF CalmInv, Keeps
  <2> QED BY <2>2, <2>3, <2>4 DEF Keeps
<1>4. Losses(s)'
  <2>1. \A p \in Purposes : <<s, p>> \in down' => Ended(s)' \/ (p = "sink" /\ Replaced(s)')
    BY <1>d DEF CalmInv, Losses, Steady, Forward1
  <2>2. \A p \in Purposes : <<s, p>> \in down' /\ call'[<<s, "expend">>] # "idle" => p \in {"answer", "relay"}
    BY <1>b DEF CalmInv, Losses, Steady
  <2>3. ASSUME NEW e \in EndsOf(s), handler'[e] = "close"
        PROVE  <<s, e[2]>> \in down' /\ (Ended(s)' \/ e = <<s, "sink", "dst">>)
    <3>1. handler[e] = "close" /\ e[2] \in Purposes
      BY <2>3, EndParts DEF Steady, Working
    <3> QED BY <3>1 DEF CalmInv, Losses, Steady, Forward1
  <2>4. \A e \in EndsOf(s) : "Disconnect" \in inbox'[e] => e = <<s, "sink", "dst">> /\ Replaced(s)'
    BY <1>d DEF CalmInv, Losses, Steady
  <2>5. <<<<s, "SessionExpend">>, FALSE>> \in acks' \cup got' =>
          pc'[<<s, "cmd">>] = "done" /\ call'[<<s, "expend">>] = "failed"
    BY <1>b DEF CalmInv, Losses, Steady, Forward1
  <2>6. Replaced(s)' => call'[<<s, "expend">>] = "idle" /\ "sink" \notin Legs(session'[<<Entry(s), s>>])
    BY <1>b, <1>d, <1>e DEF CalmInv, Losses, Steady
  <2> QED BY <2>1, <2>2, <2>3, <2>4, <2>5, <2>6 DEF Losses, Entry
<1>5. There(s)'
  <2>1. ASSUME NEW p \in Purposes, call'[<<s, p>>] = "clone"
        PROVE  IsSome(session'[<<Src(s, p)', s>>])
    <3>1. call[<<s, p>>] = "clone" /\ Src(s, p) \in Nodes
      BY <2>1, EndsAreNodes DEF Steady
    <3> QED BY <1>a, <3>1 DEF CalmInv, There, Steady
  <2>2. ASSUME NEW p \in Purposes, handler'[<<s, p, "dst">>] = "set", IsSome(snap'[<<s, p, "dst">>])
        PROVE  IsSome(session'[<<Dst(s, p)', s>>])
    <3>1. handler[<<s, p, "dst">>] = "set" /\ snap'[<<s, p, "dst">>] = snap[<<s, p, "dst">>]
      BY <2>2, EndNames DEF Steady, Working
    <3>2. Dst(s, p) \in Nodes
      BY <3>1, EndsAreNodes DEF IInv, OpenedAt
    <3> QED BY <1>a, <2>2, <3>1, <3>2 DEF CalmInv, There, Steady
  <2> QED BY <2>1, <2>2 DEF There
<1>6. Live(s)'
  <2>1. ASSUME NEW e \in EndsOf(s), handler'[e] = "dead"
        PROVE  <<s, e[2]>> \in down' /\ e[2] \notin Legs(session'[<<NodeAt(e)', s>>])
    <3>1. handler[e] = "dead" /\ e[2] \in Purposes
      BY <2>1, EndParts DEF Steady, Working
    <3>2. NodeAt(e) \in Nodes
      BY <3>1, EndIsNode
    <3> QED BY <1>a, <3>1, <3>2 DEF CalmInv, Live, Steady
  <2> QED BY <2>1 DEF Live
<1>7. Circuits(s)'
  <2>1. /\ pc'[<<s, "dial">>] \in {"wait", "returned"} /\ <<s, "dial">> \notin down' =>
              circuit'[<<From[s], s>>] # "none"
    BY <1>e DEF CalmInv, Circuits, Steady, Forward1, Purposes
  <2>2. ASSUME NEW p \in {"direct", "answer"}, handler'[<<s, p, "dst">>] \notin {"off", "fresh"},
               <<s, p>> \notin down'
        PROVE  circuit'[<<To[s], s>>] # "none"
    <3>1. handler[<<s, p, "dst">>] \notin {"off", "fresh"} /\ <<s, p>> \notin down
      BY <1>b, <2>2, EndNames DEF Steady, Working
    <3> QED BY <1>e, <3>1 DEF CalmInv, Circuits, Steady
  <2> QED BY <2>1, <2>2 DEF Circuits
<1>8. Matched(s)'
  <2>1. ASSUME NEW e \in EndsOf(s), handler'[e] = "match"
        PROVE  <<NodeAt(e)', s>> \in probe' /\ call'[<<s, "expend">>] = "done"
    <3>1. handler[e] \in {"match", "probe"} /\ <<NodeAt(e), s>> \in probe /\ call[<<s, "expend">>] = "done"
      BY <2>1 DEF Steady, Working, CalmInv, Matched, HasProbe
    <3>2. NodeAt(e) \in Nodes
      BY <3>1, EndIsNode
    <3> QED BY <1>a, <1>b, <3>1, <3>2 DEF Steady
  <2> QED BY <2>1 DEF Matched, HasProbe
<1>9. Stands(s) => Stands(s)'
  BY <1>b, <1>d DEF Stands, Steady, Access
<1> QED BY <1>1, <1>2, <1>3, <1>4, <1>5, <1>6, <1>7, <1>8, <1>9 DEF CalmInv

-----------------------------------------------------------------------------
(* Steps of other sessions.                                                  *)

\* The loops of session s and what they wait for stay as they are.
SameLoops(s) ==
    /\ \A x \in Tasks : pc'[<<s, x>>] = pc[<<s, x>>]
    /\ \A r \in {"NewCircuit", "SessionExpend"} : <<s, r>> \in asked' => <<s, r>> \in asked
    /\ \A b \in BOOLEAN : <<<<s, "SessionExpend">>, b>> \in acks' \cup got' =>
                          <<<<s, "SessionExpend">>, b>> \in acks \cup got

\* A step that has nothing to do with how session s is set up.
Placid(s) == Steady(s) /\ SameLoops(s) /\ QuietSuccess(s)

\* Success is not new.
LEMMA ToldBefore ==
    ASSUME NEW s \in Sessions, QuietSuccess(s), Told(s)'
    PROVE  Told(s)
BY DEF QuietSuccess, Told

\* A step that leaves the loops alone goes on as the invariant asks.
LEMMA SteadySame ==
    ASSUME IInv, NEW s \in Sessions, CalmInv(s), Steady(s), SameLoops(s), Told(s)' => Stands(s)
    PROVE  CalmInv(s)'
<1>1. \A p \in Purposes : call'[<<s, p>>] = call[<<s, p>>]
  BY DEF Steady
<1>2. /\ call'[<<s, "dial">>] = call[<<s, "dial">>] /\ call'[<<s, "expend">>] = call[<<s, "expend">>]
      /\ call'[<<s, "sink">>] = call[<<s, "sink">>] /\ call'[<<s, "answer">>] = call[<<s, "answer">>]
      /\ call'[<<s, "relay">>] = call[<<s, "relay">>]
  BY <1>1 DEF Purposes
<1>3. \A x \in {"dial", "circ", "pub", "cmd"} : pc'[<<s, x>>] = pc[<<s, x>>]
  BY DEF SameLoops, Tasks
<1>4. Asked(s)'
  <2>1. Asked(s)
    BY DEF CalmInv
  <2>2. /\ <<s, "NewCircuit">> \in asked' => <<s, "NewCircuit">> \in asked
        /\ <<s, "SessionExpend">> \in asked' => <<s, "SessionExpend">> \in asked
        /\ \A b \in BOOLEAN : <<<<s, "SessionExpend">>, b>> \in acks' \cup got' =>
                              <<<<s, "SessionExpend">>, b>> \in acks \cup got
    BY DEF SameLoops
  <2> QED BY <1>2, <1>3, <2>1, <2>2 DEF Asked
<1>5. Ended(s) => Ended(s)'
  BY <1>2, <1>3 DEF Ended
<1>6. Forward1(s)
  BY <1>3, <1>5 DEF Forward1, SameLoops
<1> QED BY <1>4, <1>6, SteadyKeeps

\* So does one that has nothing to do with session s.
LEMMA PlacidKeeps ==
    ASSUME IInv, NEW s \in Sessions, CalmInv(s), Placid(s)
    PROVE  CalmInv(s)'
<1>1. Told(s)' => Stands(s)
  BY ToldBefore DEF CalmInv, Placid
<1> QED BY <1>1, SteadySame DEF Placid

\* Closing a session leaves the others alone.
LEMMA CloseElsewhere ==
    ASSUME TypeOK, NEW s \in Sessions, NEW t \in Sessions, s # t, NEW n, CloseSession(n, t)
    PROVE  /\ \A p \in Purposes : <<s, p>> \in down' <=> <<s, p>> \in down
           /\ \A m \in Nodes : /\ session'[<<m, s>>] = session[<<m, s>>]
                               /\ circuit'[<<m, s>>] = circuit[<<m, s>>]
                               /\ <<m, s>> \in probe' <=> <<m, s>> \in probe
<1>1. \A p : <<s, p>> \notin {<<t, q>> : q \in Legs(session[<<n, t>>])}
  OBVIOUS
<1> QED BY <1>1 DEF CloseSession, TypeOK

\* A frame on a stream of another session is not one of session s.
LEMMA FarAway ==
    ASSUME NEW s \in Sessions, NEW t \in Sessions, s # t, NEW n, NEW P, NEW m, Deliver(FarEnds(n, t, P), m)
    PROVE  \A e \in EndsOf(s) : inbox'[e] = inbox[e]
BY FarElsewhere DEF Deliver, EndsOf

\* new_session_to_peer, for another session.
LEMMA CallAway ==
    ASSUME IInv, NEW s \in Sessions, NEW t \in Sessions, s # t, NEW q \in Purposes, Call(t, q)
    PROVE  Steady(s) /\ SameLoops(s)
<1> USE DEF callVars, readVars, nodeVars, hsVars, busVars, loopVars
<1>a. TypeOK
  BY DEF IInv
<1>1. UNCHANGED <<down, circuit, probe, pc, sink, relay, asked, acks, got, snap>>
  BY DEF Call, OpenStream, OpenTimeout, RegisterAck, CheckSession, InsertNew, CloneSession,
         ClonePanic, InsertLater
<1>b. CallFrame(t, q)
  BY CallFrames
<1>2. \A p \in Purposes : call'[<<s, p>>] = call[<<s, p>>] /\ clone'[<<s, p>>] = clone[<<s, p>>]
  BY <1>b DEF CallFrame
<1>3. \A n \in Nodes : session'[<<n, s>>] = session[<<n, s>>]
  BY <1>b DEF CallFrame
<1>4. \A e \in EndsOf(s) : handler'[e] = handler[e] /\ inbox'[e] = inbox[e]
  <2>1. \A e \in EndsOf(s) : e \in Ends /\ e # <<t, q, "src">> /\ e # <<t, q, "dst">>
    BY DEF EndsOf
  <2>2. CASE OpenStream(t, q)
    BY <1>a, <2>1, <2>2 DEF OpenStream, TypeOK
  <2>3. CASE CheckSession(t, q)
    BY <1>a, <2>1, <2>3 DEF CheckSession, TypeOK
  <2>4. CASE ~OpenStream(t, q) /\ ~CheckSession(t, q)
    BY <2>4 DEF Call, OpenTimeout, RegisterAck, InsertNew, CloneSession, ClonePanic, InsertLater
  <2> QED BY <2>2, <2>3, <2>4
<1>5. Steady(s)
  BY <1>1, <1>2, <1>3, <1>4 DEF Steady
<1>6. SameLoops(s)
  BY <1>1 DEF SameLoops
<1> QED BY <1>5, <1>6

\* relay_event_handler, for another session.
LEMMA HandleAway ==
    ASSUME IInv, NEW s \in Sessions, NEW e \in Ends, e[1] # s, Handle(e)
    PROVE  Steady(s) /\ SameLoops(s)
<1> USE DEF callVars, readVars, nodeVars, hsVars, busVars, loopVars
<1> DEFINE t == e[1]
<1>a. TypeOK /\ t \in Sessions /\ s # t /\ e[2] \in Purposes
  BY DEF IInv, Ends
<1>b. \A d \in EndsOf(s) : d \in Ends /\ d # e
  BY DEF EndsOf
<1>1. UNCHANGED <<call, clone, pc, sink, relay, asked, got>>
  BY DEF Handle, TakeSet, ApplyReplace, ApplyNew, ApplyLater, TakeProbe, CheckProbe,
         StoreProbe, MatchProbe, TakeSuccess, StartHandshake, TakeData, TakeDisconnect,
         TakeErr, CloseOnErr
<1>2. \A b \in BOOLEAN : <<<<s, "SessionExpend">>, b>> \in acks' => <<<<s, "SessionExpend">>, b>> \in acks
  <2> DEFINE z == <<<<t, e[2]>>, TRUE>>
  <2>1. acks' = acks \/ acks' = acks \cup {z}
    BY DEF Handle, TakeSet, ApplyReplace, ApplyNew, ApplyLater, TakeProbe, CheckProbe,
         StoreProbe, MatchProbe, TakeSuccess, StartHandshake, TakeData, TakeDisconnect,
         TakeErr, CloseOnErr, SendAck
  <2>2. \A b : <<<<s, "SessionExpend">>, b>> # z
    BY <1>a
  <2> HIDE DEF z
  <2> QED BY <2>1, <2>2
<1>3. \A d \in EndsOf(s) : handler'[d] = handler[d] /\ snap'[d] = snap[d]
  <2>1. /\ \A d \in Ends : d # e => handler'[d] = handler[d]
        /\ \A d \in Ends : d # e => snap'[d] = snap[d]
    <3> USE DEF Forget, TypeOK
    <3>1. CASE TakeSet(e) \/ ApplyReplace(e) \/ ApplyNew(e) \/ ApplyLater(e)
      BY <1>a, <3>1 DEF TakeSet, ApplyReplace, ApplyNew, ApplyLater
    <3>2. CASE (\E m \in Probes : TakeProbe(e, m)) \/ CheckProbe(e) \/ StoreProbe(e) \/ MatchProbe(e)
      BY <1>a, <3>2 DEF TakeProbe, CheckProbe, StoreProbe, MatchProbe
    <3>3. CASE \/ TakeSuccess(e) \/ StartHandshake(e) \/ TakeDisconnect(e) \/ TakeErr(e)
               \/ CloseOnErr(e) \/ \E m \in Handshakes : TakeData(e, m)
      BY <1>a, <3>3 DEF TakeSuccess, StartHandshake, TakeDisconnect, TakeErr, CloseOnErr, TakeData
    <3> QED BY <3>1, <3>2, <3>3 DEF Handle
  <2> QED BY <1>b, <2>1
<1>4. /\ \A p \in Purposes : <<s, p>> \in down' <=> <<s, p>> \in down
      /\ \A n \in Nodes : /\ session'[<<n, s>>] = session[<<n, s>>]
                          /\ circuit'[<<n, s>>] = circuit[<<n, s>>]
                          /\ <<n, s>> \in probe => <<n, s>> \in probe'
  <2>1. CASE CloseSession(NodeAt(e), t)
    BY <1>a, <2>1, CloseElsewhere
  <2>2. CASE UNCHANGED <<down, session, circuit>> /\ probe \subseteq probe'
    BY <2>2
  <2>3. CASE TakeSet(e)
    BY <1>a, <2>3 DEF TakeSet, TypeOK
  <2>4. CASE ApplyReplace(e) /\ Ready(snap[e])
    <3>1. \A p : <<s, p>> # <<t, snap[e].later>>
      BY <1>a
    <3> QED BY <1>a, <2>4, <3>1 DEF ApplyReplace, TypeOK
  <2>5. CASE ApplyNew(e) \/ ApplyLater(e)
    BY <1>a, <2>5 DEF ApplyNew, ApplyLater, TypeOK
  <2>6. (ApplyReplace(e) /\ ~Ready(snap[e])) \/ TakeDisconnect(e) \/ CloseOnErr(e) => CloseSession(NodeAt(e), t)
    BY DEF ApplyReplace, TakeDisconnect, CloseOnErr
  <2>7. \/ TakeSuccess(e) \/ StartHandshake(e) \/ TakeErr(e) \/ CheckProbe(e) \/ StoreProbe(e) \/ MatchProbe(e)
           \/ (\E m \in Probes : TakeProbe(e, m)) \/ (\E m \in Handshakes : TakeData(e, m))
        => UNCHANGED <<down, session, circuit>> /\ probe \subseteq probe'
    BY DEF TakeSuccess, StartHandshake, TakeErr, TakeData, TakeProbe, CheckProbe, StoreProbe, MatchProbe
  <2> QED BY <2>1, <2>2, <2>3, <2>4, <2>5, <2>6, <2>7 DEF Handle
<1>5. \A d \in EndsOf(s) : "Disconnect" \in inbox'[d] => "Disconnect" \in inbox[d]
  <2>1. CASE inbox' = inbox \/ inbox' = [inbox EXCEPT ![e] = {}]
    BY <1>a, <1>b, <2>1 DEF TypeOK
  <2>2. ASSUME NEW m, Drop(e, m) PROVE \A d \in EndsOf(s) : inbox'[d] = inbox[d]
    BY <1>a, <1>b, <2>2 DEF TypeOK, Drop
  <2>3. ASSUME NEW m, NEW n, NEW P, Deliver(FarEnds(n, t, P), m) PROVE \A d \in EndsOf(s) : inbox'[d] = inbox[d]
    BY <1>a, <2>3, FarAway
  <2>4. ASSUME NEW m, NEW x, Forward(e, x, m) PROVE \A d \in EndsOf(s) : inbox'[d] = inbox[d]
    <3>1. \A d \in EndsOf(s) : d \notin FarEnds(NodeAt(e), t, OtherLeg(x, e[2]))
      BY <1>a, FarElsewhere
    <3> QED BY <1>b, <2>4, <3>1 DEF Forward
  <2>5. CASE \/ ApplyReplace(e) \/ MatchProbe(e) \/ StartHandshake(e)
    <3>1. \/ inbox' = inbox
          \/ \E m, n, P : Deliver(FarEnds(n, t, P), m)
      <4>1. CASE ApplyReplace(e)
        BY <4>1 DEF ApplyReplace
      <4>2. CASE MatchProbe(e)
        BY <4>2 DEF MatchProbe
      <4>3. CASE StartHandshake(e)
        BY <4>3 DEF StartHandshake
      <4> QED BY <2>5, <4>1, <4>2, <4>3
    <3> QED BY <2>1, <2>3, <3>1
  <2>6. CASE \/ TakeSet(e) \/ TakeSuccess(e) \/ (\E m \in Probes : TakeProbe(e, m))
             \/ (\E m \in Handshakes : TakeData(e, m))
    <3>1. \/ \E m : Drop(e, m)
          \/ \E m, x : Forward(e, x, m)
      BY <2>6 DEF TakeSet, TakeSuccess, TakeProbe, TakeData
    <3> QED BY <2>2, <2>4, <3>1
  <2>7. CASE \/ ApplyNew(e) \/ ApplyLater(e) \/ CheckProbe(e) \/ StoreProbe(e)
             \/ TakeDisconnect(e) \/ TakeErr(e) \/ CloseOnErr(e)
    <3>1. inbox' = inbox \/ inbox' = [inbox EXCEPT ![e] = {}]
      BY <2>7 DEF ApplyNew, ApplyLater, CheckProbe, StoreProbe, TakeDisconnect, TakeErr, CloseOnErr
    <3> QED BY <2>1, <3>1
  <2> QED BY <2>5, <2>6, <2>7 DEF Handle
<1>6. Steady(s)
  BY <1>1, <1>3, <1>4, <1>5 DEF Steady
<1>7. SameLoops(s)
  BY <1>1, <1>2 DEF SameLoops
<1> QED BY <1>6, <1>7

\* dial, the loops, the handshakes and the delivery of acks, for another session.
LEMMA LoopsAway ==
    ASSUME IInv, NEW s \in Sessions, NEW t \in Sessions, s # t,
           \/ Dial(t) \/ EntryLoop(t) \/ AccessLoop(t) \/ RelayLoop(t)
    PROVE  Steady(s) /\ SameLoops(s)
<1> USE DEF callVars, readVars, nodeVars, hsVars, busVars, loopVars
<1>a. TypeOK
  BY DEF IInv
<1>1. UNCHANGED <<clone, handler, snap, got>>
  BY DEF Dial, DialStart, DialCircuit, DialPanic, DialReturn, EntryLoop, RefuseCircuit,
         AcceptDirect, DirectDone, DirectFailed, AcceptSink, RetrySink, GiveUpSink, SinkDone,
         Publish, SendProbe, AccessLoop, AskDecrypt, Decrypted, GiveUpPub, SinkIsAccess, PickRelay,
         RetryRelay, AskExpend, ExpendDone, RelayLoop, NoSuchSession, RelayIsEntry, Expend,
         ExpendOpened, ExpendFailed
<1>2. \A p \in Purposes : call'[<<s, p>>] = call[<<s, p>>]
  <2>1. call' = call \/ \E q \in Purposes : call' = [call EXCEPT ![<<t, q>>] = "opening"]
    BY DEF Dial, DialStart, DialCircuit, DialPanic, DialReturn, EntryLoop, RefuseCircuit,
         AcceptDirect, DirectDone, DirectFailed, AcceptSink, RetrySink, GiveUpSink, SinkDone,
         Publish, SendProbe, AccessLoop, AskDecrypt, Decrypted, GiveUpPub, SinkIsAccess, PickRelay,
         RetryRelay, AskExpend, ExpendDone, RelayLoop, NoSuchSession, RelayIsEntry, Expend,
         ExpendOpened, ExpendFailed, Purposes
  <2> QED BY <1>a, <2>1 DEF TypeOK, Streams
<1>3. sink'[s] = sink[s] /\ relay'[s] = relay[s]
  <2>1. /\ sink' = sink \/ \E v : sink' = [sink EXCEPT ![t] = v]
        /\ relay' = relay \/ \E v : relay' = [relay EXCEPT ![t] = v]
    <3>1. CASE Dial(t)
      BY <3>1 DEF Dial, DialStart, DialCircuit, DialPanic, DialReturn
    <3>2. CASE EntryLoop(t)
      BY <3>2 DEF EntryLoop, RefuseCircuit, AcceptDirect, DirectDone, DirectFailed, AcceptSink,
         RetrySink, GiveUpSink, SinkDone, Publish, SendProbe
    <3>3. CASE AccessLoop(t)
      BY <3>3 DEF AccessLoop, AskDecrypt, Decrypted, GiveUpPub, SinkIsAccess, PickRelay, RetryRelay,
         AskExpend, ExpendDone
    <3>4. CASE RelayLoop(t)
      BY <3>4 DEF RelayLoop, NoSuchSession, RelayIsEntry, Expend, ExpendOpened, ExpendFailed
    <3> QED BY <3>1, <3>2, <3>3, <3>4
  <2> QED BY <1>a, <2>1 DEF TypeOK
<1>4. \A x \in Tasks : pc'[<<s, x>>] = pc[<<s, x>>]
  <2>1. \/ pc' = pc
        \/ \E x, v : pc' = [pc EXCEPT ![<<t, x>>] = v]
        \/ \E x, y, v, w : pc' = [pc EXCEPT ![<<t, x>>] = v, ![<<t, y>>] = w]
    <3>1. CASE DialStart(t)
      BY <3>1 DEF DialStart
    <3>2. CASE DialCircuit(t)
      BY <3>2 DEF DialCircuit
    <3>3. CASE DialPanic(t)
      BY <3>3 DEF DialPanic
    <3>4. CASE DialReturn(t)
      BY <3>4 DEF DialReturn
    <3>5. CASE RefuseCircuit(t)
      BY <3>5 DEF RefuseCircuit
    <3>6. CASE AcceptDirect(t)
      BY <3>6 DEF AcceptDirect
    <3>7. CASE DirectDone(t)
      BY <3>7 DEF DirectDone
    <3>8. CASE DirectFailed(t)
      BY <3>8 DEF DirectFailed
    <3>9. CASE AcceptSink(t)
      BY <3>9 DEF AcceptSink
    <3>10. CASE RetrySink(t)
      BY <3>10 DEF RetrySink
    <3>11. CASE GiveUpSink(t)
      BY <3>11 DEF GiveUpSink
    <3>12. CASE SinkDone(t)
      BY <3>12 DEF SinkDone
    <3>13. CASE Publish(t)
      BY <3>13 DEF Publish
    <3>14. CASE SendProbe(t)
      BY <3>14 DEF SendProbe
    <3>15. CASE AskDecrypt(t)
      BY <3>15 DEF AskDecrypt
    <3>16. CASE Decrypted(t)
      BY <3>16 DEF Decrypted
    <3>17. CASE GiveUpPub(t)
      BY <3>17 DEF GiveUpPub
    <3>18. CASE SinkIsAccess(t)
      BY <3>18 DEF SinkIsAccess
    <3>19. CASE PickRelay(t)
      BY <3>19 DEF PickRelay
    <3>20. CASE RetryRelay(t)
      BY <3>20 DEF RetryRelay
    <3>21. CASE AskExpend(t)
      BY <3>21 DEF AskExpend
    <3>22. CASE ExpendDone(t)
      BY <3>22 DEF ExpendDone
    <3>23. CASE RelayLoop(t)
      BY <3>23 DEF RelayLoop, NoSuchSession, RelayIsEntry, Expend, ExpendOpened, ExpendFailed
    <3> QED BY <3>1, <3>2, <3>3, <3>4, <3>5, <3>6, <3>7, <3>8, <3>9, <3>10, <3>11, <3>12, <3>13,
               <3>14, <3>15, <3>16, <3>17, <3>18, <3>19, <3>20, <3>21, <3>22, <3>23
            DEF Dial, EntryLoop, AccessLoop
  <2>2. \A x, y : <<s, x>> # <<t, y>>
    OBVIOUS
  <2> QED BY <1>a, <2>1, <2>2 DEF TypeOK
<1>5. /\ \A r \in {"NewCircuit", "SessionExpend"} : <<s, r>> \in asked' => <<s, r>> \in asked
      /\ \A b \in BOOLEAN : <<<<s, "SessionExpend">>, b>> \in acks' => <<<<s, "SessionExpend">>, b>> \in acks
  <2>1. /\ asked' \subseteq asked \/ \E r : asked' = asked \cup {<<t, r>>}
        /\ acks' = acks \/ \E r, b : acks' = acks \cup {<<<<t, r>>, b>>}
    <3> USE DEF AskAndWait, SendAck, TakeNewCircuit, TakeExpend
    <3>1. CASE Dial(t)
      BY <3>1 DEF Dial, DialStart, DialCircuit, DialPanic, DialReturn
    <3>2. CASE EntryLoop(t)
      BY <3>2 DEF EntryLoop, RefuseCircuit, AcceptDirect, DirectDone, DirectFailed, AcceptSink,
         RetrySink, GiveUpSink, SinkDone, Publish, SendProbe
    <3>3. CASE AccessLoop(t)
      BY <3>3 DEF AccessLoop, AskDecrypt, Decrypted, GiveUpPub, SinkIsAccess, PickRelay, RetryRelay,
         AskExpend, ExpendDone
    <3>4. CASE RelayLoop(t)
      BY <3>4 DEF RelayLoop, NoSuchSession, RelayIsEntry, Expend, ExpendOpened, ExpendFailed
    <3> QED BY <3>1, <3>2, <3>3, <3>4
  <2>2. \A r, k, b, c : <<s, r>> # <<t, k>> /\ <<<<s, r>>, b>> # <<<<t, k>>, c>>
    OBVIOUS
  <2> QED BY <2>1, <2>2
<1>6. /\ \A p \in Purposes : <<s, p>> \in down' <=> <<s, p>> \in down
      /\ \A n \in Nodes : /\ session'[<<n, s>>] = session[<<n, s>>]
                          /\ circuit'[<<n, s>>] = circuit[<<n, s>>]
                          /\ <<n, s>> \in probe => <<n, s>> \in probe'
  <2>1. \/ UNCHANGED <<down, session, circuit, probe>>
        \/ UNCHANGED <<down, session, probe>> /\ circuit' = [circuit EXCEPT ![<<From[t], t>>] = "open"]
        \/ \E n : CloseSession(n, t)
    <3>1. CASE Dial(t)
      BY <3>1 DEF Dial, DialStart, DialCircuit, DialPanic, DialReturn
    <3>2. CASE EntryLoop(t)
      BY <3>2 DEF EntryLoop, RefuseCircuit, AcceptDirect, DirectDone, DirectFailed, AcceptSink,
         RetrySink, GiveUpSink, SinkDone, Publish, SendProbe
    <3>3. CASE AccessLoop(t)
      BY <3>3 DEF AccessLoop, AskDecrypt, Decrypted, GiveUpPub, SinkIsAccess, PickRelay, RetryRelay,
         AskExpend, ExpendDone
    <3>4. CASE RelayLoop(t)
      BY <3>4 DEF RelayLoop, NoSuchSession, RelayIsEntry, Expend, ExpendOpened, ExpendFailed
    <3> QED BY <3>1, <3>2, <3>3, <3>4
  <2>2. CASE UNCHANGED <<down, session, probe>> /\ circuit' = [circuit EXCEPT ![<<From[t], t>>] = "open"]
    BY <1>a, <2>2 DEF TypeOK
  <2>3. CASE \E n : CloseSession(n, t)
    BY <1>a, <2>3, CloseElsewhere
  <2> QED BY <2>1, <2>2, <2>3
<1>7. \A e \in EndsOf(s) : inbox'[e] = inbox[e]
  <2>1. inbox' = inbox \/ \E n, P, m : Deliver(FarEnds(n, t, P), m)
    <3>1. CASE Dial(t)
      BY <3>1 DEF Dial, DialStart, DialCircuit, DialPanic, DialReturn
    <3>2. CASE EntryLoop(t)
      BY <3>2 DEF EntryLoop, RefuseCircuit, AcceptDirect, DirectDone, DirectFailed, AcceptSink,
         RetrySink, GiveUpSink, SinkDone, Publish, SendProbe
    <3>3. CASE AccessLoop(t)
      BY <3>3 DEF AccessLoop, AskDecrypt, Decrypted, GiveUpPub, SinkIsAccess, PickRelay, RetryRelay,
         AskExpend, ExpendDone
    <3>4. CASE RelayLoop(t)
      BY <3>4 DEF RelayLoop, NoSuchSession, RelayIsEntry, Expend, ExpendOpened, ExpendFailed
    <3> QED BY <3>1, <3>2, <3>3, <3>4
  <2> QED BY <2>1, FarAway
<1>8. Steady(s)
  BY <1>1, <1>2, <1>3, <1>6, <1>7 DEF Steady
<1>9. SameLoops(s)
  BY <1>1, <1>4, <1>5 DEF SameLoops
<1> QED BY <1>8, <1>9

\* process_handshake, of any session.
LEMMA HandshakePlacid ==
    ASSUME IInv, NEW s \in Sessions, AckInv(s), FrameInv(s), NEW t \in Sessions, NEW c \in Clients,
           Handshake(c, t)
    PROVE  Placid(s)
<1> USE DEF callVars, readVars, nodeVars, hsVars, busVars, loopVars
<1>a. TypeOK /\ HsInv(s)
  BY DEF IInv, FrameInv
<1>1. UNCHANGED <<call, clone, handler, snap, down, session, probe, pc, sink, relay, acks, got, asked>>
  BY DEF Handshake, ReadHandshake, FinishHandshake
<1>2. \A n \in Nodes : circuit'[<<n, s>>] = "none" => circuit[<<n, s>>] = "none"
  <2>1. CASE FinishHandshake(c, t)
    BY <1>a, <2>1 DEF FinishHandshake, TypeOK
  <2>2. CASE \E m \in Handshakes : ReadHandshake(c, t, m)
    BY <2>2 DEF ReadHandshake
  <2> QED BY <2>1, <2>2 DEF Handshake
<1>3. \A e \in EndsOf(s) : "Disconnect" \in inbox'[e] => "Disconnect" \in inbox[e]
  <2>1. CASE inbox' = inbox
    BY <2>1
  <2>2. ASSUME NEW m \in Handshakes, NEW E, Deliver(E, HsReply(m))
        PROVE  \A e \in EndsOf(s) : "Disconnect" \in inbox'[e] => "Disconnect" \in inbox[e]
    BY <2>2 DEF Deliver, HsReply, EndsOf
  <2> QED BY <2>1, <2>2 DEF Handshake, ReadHandshake, FinishHandshake
<1>4. QuietSuccess(s)
  <2>1. CASE t = s
    BY <1>a, <2>1, ReadStep, FinishStep DEF Handshake, FrameInv
  <2>2. CASE t # s
    BY <2>2, HandshakeElsewhere DEF Quiet
  <2> QED BY <2>1, <2>2
<1>5. Steady(s)
  BY <1>1, <1>2, <1>3 DEF Steady
<1>6. SameLoops(s)
  BY <1>1 DEF SameLoops
<1> QED BY <1>4, <1>5, <1>6 DEF Placid

\* The delivery of acks, and the answers of the clients.
LEMMA BusPlacid ==
    ASSUME IInv, NEW s \in Sessions,
           \/ \E k \in Keys, b \in BOOLEAN : RecvAck(k, b)
           \/ \E t \in Sessions, r \in Requests : ClientReply(t, r)
           \/ UNCHANGED vars
    PROVE  Placid(s)
<1> USE DEF callVars, readVars, nodeVars, hsVars, busVars, loopVars
<1>1. /\ UNCHANGED <<call, clone, handler, snap, inbox, down, session, circuit, probe, hs, chan, pc, sink, relay>>
      /\ asked' \subseteq asked
  BY DEF RecvAck, ClientReply, vars
<1>2. \A b \in BOOLEAN : <<<<s, "SessionExpend">>, b>> \in acks' \cup got' =>
                         <<<<s, "SessionExpend">>, b>> \in acks \cup got
  <2>1. CASE \E k \in Keys, b \in BOOLEAN : RecvAck(k, b)
    BY <2>1 DEF RecvAck
  <2>2. ASSUME NEW t \in Sessions, NEW r \in Requests, ClientReply(t, r)
        PROVE  \A b \in BOOLEAN : <<<<s, "SessionExpend">>, b>> \in acks' \cup got' =>
                                  <<<<s, "SessionExpend">>, b>> \in acks \cup got
    <3> DEFINE z == <<<<t, r>>, TRUE>>
    <3>1. acks' = acks \cup {z} /\ got' = got
      BY <2>2 DEF ClientReply, SendAck
    <3>2. \A b : <<<<s, "SessionExpend">>, b>> # z
      BY <2>2 DEF ClientReply
    <3> HIDE DEF z
    <3> QED BY <3>1, <3>2
  <2>3. CASE UNCHANGED vars
    BY <2>3 DEF vars
  <2> QED BY <2>1, <2>2, <2>3
<1>3. Steady(s)
  BY <1>1 DEF Steady
<1>4. SameLoops(s)
  BY <1>1, <1>2 DEF SameLoops
<1>5. QuietSuccess(s)
  BY <1>1, QuietSame DEF Quiet
<1> QED BY <1>3, <1>4, <1>5 DEF Placid

\* The tasks of another session.
LEMMA OthersPlacid ==
    ASSUME IInv, NEW s \in Sessions, NEW t \in Sessions, s # t,
           \/ \E q \in Purposes : Call(t, q)
           \/ \E e \in Ends : e[1] = t /\ Handle(e)
           \/ Dial(t) \/ EntryLoop(t) \/ AccessLoop(t) \/ RelayLoop(t)
    PROVE  Placid(s)
<1>1. CASE \E q \in Purposes : Call(t, q)
  BY <1>1, CallAway, QuietCall DEF Placid, Quiet
<1>2. CASE \E e \in Ends : e[1] = t /\ Handle(e)
  BY <1>2, HandleAway, HandleElsewhere DEF Placid, Quiet
<1>3. CASE Dial(t) \/ EntryLoop(t) \/ AccessLoop(t) \/ RelayLoop(t)
  <2>1. Steady(s) /\ SameLoops(s)
    BY <1>3, LoopsAway
  <2>2. \/ Quiet(s)
        \/ s = t
    BY <1>3, QuietLoops
  <2> QED BY <2>1, <2>2 DEF Placid, Quiet
<1> QED BY <1>1, <1>2, <1>3

-----------------------------------------------------------------------------
(* relay_event_handler, the frames that set nothing up and close nothing.    *)

\* No loop has given up on a session whose streams are set up.
LEMMA StandsUp ==
    ASSUME IInv, NEW s \in Sessions, AckInv(s), CalmInv(s), Stands(s)
    PROVE  ~Ended(s) /\ pc[<<s, "circ">>] # "idle"
<1>a. Order(s) /\ Chain(s) /\ Losses(s)
  BY DEF IInv, AckInv, CalmInv
<1>1. CASE call[<<s, "direct">>] = "done"
  <2>1. call[<<s, "sink">>] = "idle" /\ pc[<<s, "pub">>] = "idle" /\ call[<<s, "expend">>] = "idle"
    BY <1>a, <1>1 DEF Chain, Order
  <2> QED BY <1>a, <1>1, <2>1 DEF Ended, Order
<1>2. CASE call[<<s, "answer">>] = "done" /\ sink[s].peer = Access(s)
  <2>1. call[<<s, "sink">>] = "done" /\ call[<<s, "relay">>] = "idle" /\ call[<<s, "expend">>] = "idle"
    BY <1>a, <1>2 DEF Chain, Order
  <2> QED BY <1>a, <1>2, <2>1 DEF Ended, Order
<1>3. CASE call[<<s, "relay">>] = "done" /\ (Replaced(s) \/ call[<<s, "expend">>] = "done")
  <2>1. call[<<s, "answer">>] = "done" /\ call[<<s, "sink">>] = "done" /\ call[<<s, "expend">>] # "failed"
    BY <1>a, <1>3 DEF Chain, Losses
  <2> QED BY <1>a, <1>3, <2>1 DEF Ended, Order
<1>4. call[<<s, "expend">>] = "done" => call[<<s, "relay">>] = "done"
  BY <1>a DEF Order
<1> QED BY <1>1, <1>2, <1>3, <1>4 DEF Stands

\* A step of the handler of end e that writes no session.
LEMMA OneHandler ==
    ASSUME IInv, NEW s \in Sessions, NEW e \in EndsOf(s),
           UNCHANGED <<call, clone, down, session, circuit, pc, sink, relay, asked, acks, got>>,
           probe \subseteq probe',
           \A d \in EndsOf(s) \ {e} : handler'[d] = handler[d] /\ snap'[d] = snap[d],
           handler'[e] # "set",
           \/ handler'[e] = handler[e]
           \/ handler[e] \in Working \cup {"match"} /\ handler'[e] \in Working
           \/ /\ handler[e] = "probe" /\ handler'[e] = "match"
              /\ <<NodeAt(e), s>> \in probe /\ call[<<s, "expend">>] = "done",
           NEW m, NEW F, Took(e, m, F) \/ Wrote(m, F) \/ inbox' = inbox, m # "Disconnect"
    PROVE  Steady(s) /\ SameLoops(s)
<1>1. \A d \in EndsOf(s) : "Disconnect" \in inbox'[d] => "Disconnect" \in inbox[d]
  BY DEF Took, Wrote, EndsOf
<1>2. \A d \in EndsOf(s) :
         /\ \/ handler'[d] = handler[d]
            \/ handler[d] \in Working \cup {"match"} /\ handler'[d] \in Working
            \/ /\ handler[d] = "probe" /\ handler'[d] = "match"
               /\ <<NodeAt(d), s>> \in probe /\ call[<<s, "expend">>] = "done"
         /\ handler'[d] = "set" => snap'[d] = snap[d]
  OBVIOUS
<1>3. Steady(s)
  BY <1>1, <1>2 DEF Steady
<1> QED BY <1>3 DEF SameLoops

\* Both probes are at the sink: the relay has set up its stream.
LEMMA BothProbes ==
    ASSUME IInv, NEW s \in Sessions, FrameInv(s), Asked(s), NEW e \in EndsOf(s), handler[e] = "probe",
           HasProbe(NodeAt(e), s)
    PROVE  call[<<s, "expend">>] = "done"
<1>a. Busy(s) /\ ProbeInv(s)
  BY DEF FrameInv
<1>1. e \in SinkEnds(s)
  BY <1>a DEF Busy, AtProbe
<1>2. e[2] \in {"sink", "expend"} /\ e = <<s, e[2], "dst">>
  BY <1>1, AtSink
<1>3. e[2] \in Handled(s)
  BY <1>2 DEF Handled, AtProbe
<1>4. NodeAt(e) \in Nodes
  BY EndIsNode
<1>5. "stored" \in Stored(s)
  BY <1>4 DEF Stored, HasProbe
<1>6. call[<<s, "expend">>] \notin Unopened
  BY <1>a, <1>2, <1>3, <1>5 DEF ProbeInv, AtMostOne
<1>7. "ProbeA" \notin Outstanding(s)
  BY <1>a, <1>2, <1>3, <1>5 DEF ProbeInv, AtMostTwo
<1>8. pc[<<s, "pub">>] = "done"
  BY <1>7 DEF Outstanding
<1> QED BY <1>6, <1>8 DEF Asked, Unopened

\* Probes: handle_relay_probe.
LEMMA ProbeSteady ==
    ASSUME IInv, NEW s \in Sessions, AckInv(s), FrameInv(s), Onward(s), CalmInv(s), NEW e \in EndsOf(s),
           (\E m \in Probes : TakeProbe(e, m)) \/ CheckProbe(e) \/ StoreProbe(e) \/ MatchProbe(e)
    PROVE  Steady(s) /\ SameLoops(s) /\ (Told(s)' => Stands(s))
<1> USE DEF callVars, readVars, nodeVars, hsVars, busVars, loopVars
<1>a. TypeOK /\ \A d \in EndsOf(s) : d \in Ends
  BY DEF IInv, EndsOf
<1>b. Spliced(s) /\ Busy(s) /\ ProbeInv(s)
  BY DEF FrameInv
<1>c. e \in EndsOf(s) /\ e \in Ends /\ e[1] = s
  BY EndParts
<1>d. "Success" # "Disconnect" /\ \A m \in Probes : m # "Disconnect"
  BY DEF Probes
<1>1. ASSUME NEW m \in Probes, TakeProbe(e, m) PROVE Steady(s) /\ SameLoops(s) /\ (Told(s)' => Stands(s))
  <2>1. /\ UNCHANGED <<call, clone, down, session, circuit, probe, pc, sink, relay, asked, acks, got>>
        /\ \A d \in EndsOf(s) \ {e} : handler'[d] = handler[d] /\ snap'[d] = snap[d]
        /\ handler[e] = "read" /\ handler'[e] \in {"read", "probe"}
    BY <1>a, <1>1 DEF TakeProbe, TypeOK
  <2>2. \E F : Took(e, m, F)
    BY <1>1, <1>a, <1>c, Dropped, Forwarded DEF TakeProbe
  <2>3. Steady(s) /\ SameLoops(s)
    BY <1>c, <1>d, <2>1, <2>2, OneHandler DEF Working
  <2>4. QuietSuccess(s)
    BY <1>b, <1>1, TakeProbeStep
  <2> QED BY <2>3, <2>4, ToldBefore DEF CalmInv
<1>2. CASE CheckProbe(e)
  <2>1. /\ UNCHANGED <<call, clone, snap, inbox, down, session, circuit, probe, pc, sink, relay, asked, acks, got, hs>>
        /\ \A d \in EndsOf(s) \ {e} : handler'[d] = handler[d]
        /\ handler[e] = "probe" /\ handler'[e] = (IF HasProbe(NodeAt(e), s) THEN "match" ELSE "store")
    BY <1>a, <1>c, <1>2 DEF CheckProbe, TypeOK
  <2>2. HasProbe(NodeAt(e), s) => call[<<s, "expend">>] = "done"
    BY <2>1, BothProbes DEF CalmInv
  <2>3. Steady(s) /\ SameLoops(s)
    BY <1>d, <2>1, <2>2, OneHandler DEF Working, HasProbe
  <2>4. QuietSuccess(s)
    BY <1>2, <1>c, HandleQuiet DEF Quiet
  <2> QED BY <2>3, <2>4, ToldBefore DEF CalmInv
<1>3. CASE StoreProbe(e)
  <2>1. /\ UNCHANGED <<call, clone, inbox, down, session, circuit, pc, sink, relay, asked, acks, got>>
        /\ \A d \in EndsOf(s) \ {e} : handler'[d] = handler[d] /\ snap'[d] = snap[d]
        /\ handler[e] = "store" /\ handler'[e] = "read" /\ probe \subseteq probe'
    BY <1>a, <1>c, <1>3 DEF StoreProbe, TypeOK, Forget
  <2>2. Steady(s) /\ SameLoops(s)
    BY <1>d, <2>1, OneHandler DEF Working
  <2>3. QuietSuccess(s)
    BY <1>b, <1>3, StoreProbeStep
  <2> QED BY <2>2, <2>3, ToldBefore DEF CalmInv
<1>4. CASE MatchProbe(e)
  <2>1. HasProbe(NodeAt(e), s) /\ call[<<s, "expend">>] = "done"
    BY <1>4 DEF MatchProbe, CalmInv, Matched
  <2>2. /\ UNCHANGED <<call, clone, down, session, circuit, probe, pc, sink, relay, asked, acks, got>>
        /\ \A d \in EndsOf(s) \ {e} : handler'[d] = handler[d] /\ snap'[d] = snap[d]
        /\ handler[e] = "match" /\ handler'[e] = "read"
    BY <1>a, <1>c, <1>4, <2>1 DEF MatchProbe, TypeOK, Forget
  <2>3. \E F : Wrote("Success", F)
    BY <1>c, <1>4, <2>1, Delivered DEF MatchProbe
  <2>4. Steady(s) /\ SameLoops(s)
    BY <1>d, <2>2, <2>3, OneHandler DEF Working
  <2> QED BY <2>1, <2>4 DEF Stands
<1> QED BY <1>1, <1>2, <1>3, <1>4

\* Success and data frames.
LEMMA FrameSteady ==
    ASSUME IInv, NEW s \in Sessions, AckInv(s), FrameInv(s), Onward(s), CalmInv(s), NEW e \in EndsOf(s),
           TakeSuccess(e) \/ StartHandshake(e) \/ \E m \in Handshakes : TakeData(e, m)
    PROVE  Steady(s) /\ SameLoops(s) /\ (Told(s)' => Stands(s))
<1> USE DEF callVars, readVars, nodeVars, hsVars, busVars, loopVars
<1>a. TypeOK /\ \A d \in EndsOf(s) : d \in Ends
  BY DEF IInv, EndsOf
<1>b. Spliced(s) /\ Busy(s) /\ ProbeInv(s) /\ SuccessInv(s) /\ HsInv(s)
  BY DEF FrameInv
<1>c. e \in EndsOf(s) /\ e \in Ends /\ e[1] = s
  BY EndParts
<1>d. "Success" # "Disconnect" /\ \A m \in Handshakes : m # "Disconnect"
  BY DEF Handshakes
<1>1. CASE TakeSuccess(e)
  <2>1. /\ UNCHANGED <<call, clone, snap, down, session, circuit, probe, pc, sink, relay, asked, acks, got>>
        /\ \A d \in EndsOf(s) \ {e} : handler'[d] = handler[d]
        /\ handler[e] = "read" /\ handler'[e] \in {"read", "success"} /\ "Success" \in inbox[e]
    BY <1>a, <1>1 DEF TakeSuccess, TypeOK
  <2>2. \E F : Took(e, "Success", F)
    BY <1>1, <1>a, <1>c, Dropped, Forwarded DEF TakeSuccess
  <2>3. Steady(s) /\ SameLoops(s)
    BY <1>d, <2>1, <2>2, OneHandler DEF Working
  <2>4. Told(s)
    BY <2>1 DEF Told
  <2> QED BY <2>3, <2>4 DEF CalmInv
<1>2. CASE StartHandshake(e)
  <2>1. handler[e] = "success"
    BY <1>2 DEF StartHandshake
  <2>2. Stands(s)
    BY <2>1 DEF Told, CalmInv
  <2>3. ~Ended(s) /\ pc[<<s, "circ">>] # "idle"
    BY <2>2, StandsUp
  <2>4. circuit[<<NodeAt(e), s>>] # "none"
    <3>1. Way(e) \in AtClient /\ NodeAt(e) = (IF Way(e) = <<"dial", "src">> THEN From[s] ELSE To[s])
      BY <1>b, <2>1, EndOfClient DEF SuccessInv
    <3>2. \A p \in {"dial", "direct", "answer"} : <<s, p>> \notin down
      BY <2>3 DEF CalmInv, Losses, Purposes
    <3>3. e = <<s, e[2], e[3]>> /\ Way(e) = <<e[2], e[3]>>
      BY EndParts
    <3>4. CASE Way(e) = <<"dial", "src">>
      BY <2>3, <3>1, <3>2, <3>4 DEF CalmInv, Circuits, Asked
    <3>5. CASE Way(e) # <<"dial", "src">>
      <4>1. e[2] \in {"direct", "answer"} /\ e[3] = "dst"
        BY <3>1, <3>3, <3>5 DEF AtClient
      <4>2. handler[<<s, e[2], "dst">>] = "success"
        BY <2>1, <3>3, <4>1
      <4> QED BY <3>1, <3>2, <3>5, <4>1, <4>2 DEF CalmInv, Circuits
    <3> QED BY <3>4, <3>5
  <2>5. /\ UNCHANGED <<call, clone, snap, down, session, circuit, probe, pc, sink, relay, asked, acks, got>>
        /\ \A d \in EndsOf(s) \ {e} : handler'[d] = handler[d]
        /\ handler[e] = "success" /\ handler'[e] = "read"
    BY <1>a, <1>c, <1>2, <2>4 DEF StartHandshake, TypeOK
  <2>6. inbox' = inbox \/ \E F : Wrote("Hs1", F)
    BY <1>c, <1>2, Delivered DEF StartHandshake
  <2>7. Steady(s) /\ SameLoops(s)
    BY <2>5, <2>6, OneHandler DEF Working
  <2> QED BY <2>2, <2>7
<1>3. ASSUME NEW m \in Handshakes, TakeData(e, m) PROVE Steady(s) /\ SameLoops(s) /\ (Told(s)' => Stands(s))
  <2>1. /\ UNCHANGED <<call, clone, handler, snap, down, session, circuit, probe, pc, sink, relay, asked, acks, got>>
        /\ handler[e] = "read"
    BY <1>3 DEF TakeData
  <2>2. \E F : Took(e, m, F)
    BY <1>3, <1>a, <1>c, Dropped, Forwarded DEF TakeData
  <2>3. Steady(s) /\ SameLoops(s)
    BY <1>d, <2>1, <2>2, OneHandler
  <2>4. QuietSuccess(s)
    BY <1>b, <1>3, TakeDataStep
  <2> QED BY <2>3, <2>4, ToldBefore DEF CalmInv
<1> QED BY <1>1, <1>2, <1>3

-----------------------------------------------------------------------------
(* dial and the loops, the steps that set nothing up and close nothing.      *)

Plain(s) ==
    \/ DialCircuit(s) \/ DialPanic(s) \/ DialReturn(s)
    \/ RefuseCircuit(s) \/ DirectDone(s) \/ DirectFailed(s) \/ SinkDone(s) \/ Publish(s) \/ SendProbe(s)
    \/ AskDecrypt(s) \/ SinkIsAccess(s) \/ AskExpend(s) \/ ExpendDone(s)
    \/ RelayIsEntry(s) \/ ExpendOpened(s)

\* They touch no stream and no session.
LEMMA PlainSteady ==
    ASSUME IInv, NEW s \in Sessions, Plain(s)
    PROVE  Steady(s)
<1> USE DEF callVars, readVars, nodeVars, hsVars, busVars, loopVars
<1>a. TypeOK
  BY DEF IInv
<1>1. UNCHANGED <<call, clone, handler, snap, down, session, probe, sink, relay>>
  BY DEF Plain, DialCircuit, DialPanic, DialReturn, RefuseCircuit, DirectDone, DirectFailed, SinkDone,
         Publish, SendProbe, AskDecrypt, SinkIsAccess, AskExpend, ExpendDone, RelayIsEntry, ExpendOpened
<1>2. \A n \in Nodes : circuit'[<<n, s>>] = "none" => circuit[<<n, s>>] = "none"
  <2>1. CASE DialCircuit(s)
    BY <1>a, <2>1 DEF DialCircuit, TypeOK
  <2>2. CASE ~DialCircuit(s)
    BY <2>2 DEF Plain, DialPanic, DialReturn, RefuseCircuit, DirectDone, DirectFailed, SinkDone,
         Publish, SendProbe, AskDecrypt, SinkIsAccess, AskExpend, ExpendDone, RelayIsEntry, ExpendOpened
  <2> QED BY <2>1, <2>2
<1>3. \A e \in EndsOf(s) : "Disconnect" \in inbox'[e] => "Disconnect" \in inbox[e]
  <2>1. ASSUME NEW F, NEW m \in {"Success", "ProbeE", "ProbeA"}, Deliver(F, m)
        PROVE  \A e \in EndsOf(s) : "Disconnect" \in inbox'[e] => "Disconnect" \in inbox[e]
    <3>1. Wrote(m, F)
      BY <2>1, Delivered
    <3> QED BY <3>1 DEF Wrote, EndsOf
  <2>2. CASE DirectDone(s) \/ SinkIsAccess(s) \/ RelayIsEntry(s)
    BY <2>1, <2>2 DEF DirectDone, SinkIsAccess, RelayIsEntry
  <2>3. CASE SendProbe(s) \/ ExpendDone(s)
    BY <2>1, <2>3 DEF SendProbe, ExpendDone
  <2>4. CASE inbox' = inbox
    BY <2>4
  <2> QED BY <2>2, <2>3, <2>4 DEF Plain, DialCircuit, DialPanic, DialReturn, RefuseCircuit,
         DirectFailed, SinkDone, Publish, AskDecrypt, AskExpend, ExpendOpened
<1> QED BY <1>1, <1>2, <1>3 DEF Steady

\* What a step may do to the requests of a session.
LEMMA NewAsked ==
    ASSUME NEW s \in Sessions, NEW r, AskAndWait(s, r)
    PROVE  \A k : <<s, k>> \in asked' <=> <<s, k>> \in asked \/ k = r
BY DEF AskAndWait

\* What it may do to the acks on the network.
LEMMA NewAck ==
    ASSUME NEW s \in Sessions, NEW r, NEW v, SendAck(<<s, r>>, v), got' = got
    PROVE  \A b : <<<<s, "SessionExpend">>, b>> \in acks' \cup got' <=>
                  <<<<s, "SessionExpend">>, b>> \in acks \cup got \/ (r = "SessionExpend" /\ b = v)
<1> DEFINE z == <<<<s, r>>, v>>
<1>1. acks' = acks \cup {z}
  BY DEF SendAck
<1>2. \A b : <<<<s, "SessionExpend">>, b>> = z <=> r = "SessionExpend" /\ b = v
  OBVIOUS
<1> HIDE DEF z
<1> QED BY <1>1, <1>2

\* The loops go on in order, and no step takes back what was asked or given up.
LEMMA PlainControl ==
    ASSUME IInv, NEW s \in Sessions, Asked(s), Plain(s)
    PROVE  Asked(s)' /\ Forward1(s)
<1> USE DEF callVars, readVars, nodeVars, hsVars, busVars, loopVars
<1>a. TypeOK /\ Order(s)
  BY DEF IInv
<1>b. From[s] \in Nodes
  BY Parties
<1>c. \A x \in {"dial", "circ", "pub", "cmd"} : <<s, x>> \in Sessions \X Tasks
  BY DEF Tasks
<1> DEFINE Sent(b) == <<<<s, "SessionExpend">>, b>> \in acks \cup got
           Sent2(b) == <<<<s, "SessionExpend">>, b>> \in acks' \cup got'
           Same(X) == \A x \in {"dial", "circ", "pub", "cmd"} \ X : pc'[<<s, x>>] = pc[<<s, x>>]
<1>1. CASE DialCircuit(s)
  <2>1. /\ pc[<<s, "dial">>] = "session" /\ pc'[<<s, "dial">>] = "wait" /\ call[<<s, "dial">>] = "done"
        /\ call' = call /\ Same({"dial"})
        /\ circuit'[<<From[s], s>>] = "open"
    BY <1>a, <1>b, <1>c, <1>1 DEF DialCircuit, TypeOK
  <2>2. \A k : <<s, k>> \in asked' <=> <<s, k>> \in asked \/ k = "NewCircuit"
    BY <1>1, NewAsked DEF DialCircuit
  <2>3. \A b : Sent2(b) <=> Sent(b)
    BY <1>1 DEF DialCircuit
  <2>4. Asked(s)'
    BY <1>a, <2>1, <2>2, <2>3 DEF Asked, Order, BeforeExpend
  <2>5. Forward1(s)
    BY <1>a, <2>1, <2>3 DEF Forward1, Ended, Order
  <2> QED BY <2>4, <2>5
<1>2. CASE DialPanic(s)
  <2>1. /\ pc[<<s, "dial">>] = "session" /\ pc'[<<s, "dial">>] = "panicked"
        /\ call' = call /\ Same({"dial"})
    BY <1>a, <1>b, <1>c, <1>2 DEF DialPanic, TypeOK
  <2>2. asked' \subseteq asked
    BY <1>2 DEF DialPanic
  <2>3. \A b : Sent2(b) <=> Sent(b)
    BY <1>2 DEF DialPanic
  <2>4. Asked(s)'
    BY <1>a, <2>1, <2>2, <2>3 DEF Asked, Order, BeforeExpend
  <2>5. Forward1(s)
    BY <1>a, <2>1, <2>3 DEF Forward1, Ended, Order
  <2> QED BY <2>4, <2>5
<1>3. CASE DialReturn(s)
  <2>1. /\ pc[<<s, "dial">>] = "wait" /\ pc'[<<s, "dial">>] = "returned"
        /\ call' = call /\ Same({"dial"})
    BY <1>a, <1>b, <1>c, <1>3 DEF DialReturn, TypeOK
  <2>2. asked' \subseteq asked
    BY <1>3 DEF DialReturn
  <2>3. \A b : Sent2(b) <=> Sent(b)
    BY <1>3 DEF DialReturn
  <2>4. Asked(s)'
    BY <1>a, <2>1, <2>2, <2>3 DEF Asked, Order, BeforeExpend
  <2>5. Forward1(s)
    BY <1>a, <2>1, <2>3 DEF Forward1, Ended, Order
  <2> QED BY <2>4, <2>5
<1>4. CASE RefuseCircuit(s)
  <2>1. /\ <<s, "NewCircuit">> \in asked /\ pc'[<<s, "circ">>] = "done"
        /\ call' = call /\ Same({"circ"})
    BY <1>a, <1>b, <1>c, <1>4 DEF RefuseCircuit, TakeNewCircuit, TypeOK
  <2>2. asked' \subseteq asked
    BY <1>4 DEF RefuseCircuit, TakeNewCircuit
  <2>3. \A b : Sent2(b) <=> Sent(b)
    <3> DEFINE v == FALSE
    <3>1. SendAck(<<s, "NewCircuit">>, v) /\ got' = got
      BY <1>4 DEF RefuseCircuit
    <3> HIDE DEF v
    <3>2. \A b : <<<<s, "SessionExpend">>, b>> \in acks' \cup got' <=>
                 <<<<s, "SessionExpend">>, b>> \in acks \cup got \/ ("NewCircuit" = "SessionExpend" /\ b = v)
      BY <3>1, NewAck
    <3> QED BY <3>2 DEF v
  <2>4. Asked(s)'
    BY <1>a, <2>1, <2>2, <2>3 DEF Asked, Order, BeforeExpend
  <2>5. Forward1(s)
    BY <1>a, <2>1, <2>3 DEF Forward1, Ended, Order
  <2> QED BY <2>4, <2>5
<1>5. CASE DirectDone(s)
  <2>1. /\ pc[<<s, "circ">>] = "direct" /\ pc'[<<s, "circ">>] = "done"
        /\ call' = call /\ Same({"circ"})
    BY <1>a, <1>b, <1>c, <1>5 DEF DirectDone, TypeOK
  <2>2. asked' \subseteq asked
    BY <1>5 DEF DirectDone
  <2>3. \A b : Sent2(b) <=> Sent(b)
    <3> DEFINE v == TRUE
    <3>1. SendAck(<<s, "NewCircuit">>, v) /\ got' = got
      BY <1>5 DEF DirectDone
    <3> HIDE DEF v
    <3>2. \A b : <<<<s, "SessionExpend">>, b>> \in acks' \cup got' <=>
                 <<<<s, "SessionExpend">>, b>> \in acks \cup got \/ ("NewCircuit" = "SessionExpend" /\ b = v)
      BY <3>1, NewAck
    <3> QED BY <3>2 DEF v
  <2>4. Asked(s)'
    BY <1>a, <2>1, <2>2, <2>3 DEF Asked, Order, BeforeExpend
  <2>5. Forward1(s)
    BY <1>a, <2>1, <2>3 DEF Forward1, Ended, Order
  <2> QED BY <2>4, <2>5
<1>6. CASE DirectFailed(s)
  <2>1. /\ pc[<<s, "circ">>] = "direct" /\ pc'[<<s, "circ">>] = "done"
        /\ call' = call /\ Same({"circ"})
    BY <1>a, <1>b, <1>c, <1>6 DEF DirectFailed, TypeOK
  <2>2. asked' \subseteq asked
    BY <1>6 DEF DirectFailed
  <2>3. \A b : Sent2(b) <=> Sent(b)
    <3> DEFINE v == FALSE
    <3>1. SendAck(<<s, "NewCircuit">>, v) /\ got' = got
      BY <1>6 DEF DirectFailed
    <3> HIDE DEF v
    <3>2. \A b : <<<<s, "SessionExpend">>, b>> \in acks' \cup got' <=>
                 <<<<s, "SessionExpend">>, b>> \in acks \cup got \/ ("NewCircuit" = "SessionExpend" /\ b = v)
      BY <3>1, NewAck
    <3> QED BY <3>2 DEF v
  <2>4. Asked(s)'
    BY <1>a, <2>1, <2>2, <2>3 DEF Asked, Order, BeforeExpend
  <2>5. Forward1(s)
    BY <1>a, <2>1, <2>3 DEF Forward1, Ended, Order
  <2> QED BY <2>4, <2>5
<1>7. CASE SinkDone(s)
  <2>1. /\ pc[<<s, "circ">>] = "sink" /\ pc'[<<s, "circ">>] = "neg"
        /\ call' = call /\ Same({"circ"})
    BY <1>a, <1>b, <1>c, <1>7 DEF SinkDone, TypeOK
  <2>2. \A k : <<s, k>> \in asked' <=> <<s, k>> \in asked \/ k = "NegPlainText"
    BY <1>7, NewAsked DEF SinkDone
  <2>3. \A b : Sent2(b) <=> Sent(b)
    BY <1>7 DEF SinkDone
  <2>4. Asked(s)'
    BY <1>a, <2>1, <2>2, <2>3 DEF Asked, Order, BeforeExpend
  <2>5. Forward1(s)
    BY <1>a, <2>1, <2>3 DEF Forward1, Ended, Order
  <2> QED BY <2>4, <2>5
<1>8. CASE Publish(s)
  <2>1. /\ pc[<<s, "circ">>] = "neg" /\ pc'[<<s, "circ">>] = "probe" /\ pc'[<<s, "pub">>] \in {"queued", "idle"} /\ pc[<<s, "pub">>] = "idle"
        /\ call' = call /\ Same({"circ", "pub"})
    BY <1>a, <1>b, <1>c, <1>8 DEF Publish, Order, TypeOK
  <2>2. asked' \subseteq asked
    BY <1>8 DEF Publish, Order
  <2>3. \A b : Sent2(b) <=> Sent(b)
    BY <1>8 DEF Publish
  <2>4. Asked(s)'
    BY <1>a, <2>1, <2>2, <2>3 DEF Asked, Order, BeforeExpend
  <2>5. Forward1(s)
    BY <1>a, <2>1, <2>3 DEF Forward1, Ended, Order
  <2> QED BY <2>4, <2>5
<1>9. CASE SendProbe(s)
  <2>1. /\ pc[<<s, "circ">>] = "probe" /\ pc'[<<s, "circ">>] = "done"
        /\ call' = call /\ Same({"circ"})
    BY <1>a, <1>b, <1>c, <1>9 DEF SendProbe, TypeOK
  <2>2. asked' \subseteq asked
    BY <1>9 DEF SendProbe
  <2>3. \A b : Sent2(b) <=> Sent(b) \/ ("NewCircuit" = "SessionExpend" /\ b = IsSome(session[<<Entry(s), s>>]))
    BY <1>9, NewAck DEF SendProbe
  <2>4. Asked(s)'
    BY <1>a, <2>1, <2>2, <2>3 DEF Asked, Order, BeforeExpend
  <2>5. Forward1(s)
    BY <1>a, <2>1, <2>3 DEF Forward1, Ended, Order
  <2> QED BY <2>4, <2>5
<1>10. CASE AskDecrypt(s)
  <2>1. /\ pc[<<s, "pub">>] = "queued" /\ pc'[<<s, "pub">>] = "decrypt"
        /\ call' = call /\ Same({"pub"})
    BY <1>a, <1>b, <1>c, <1>10 DEF AskDecrypt, TypeOK
  <2>2. \A k : <<s, k>> \in asked' <=> <<s, k>> \in asked \/ k = "DecryptGossip"
    BY <1>10, NewAsked DEF AskDecrypt
  <2>3. \A b : Sent2(b) <=> Sent(b)
    BY <1>10 DEF AskDecrypt
  <2>4. Asked(s)'
    BY <1>a, <2>1, <2>2, <2>3 DEF Asked, Order, BeforeExpend
  <2>5. Forward1(s)
    BY <1>a, <2>1, <2>3 DEF Forward1, Ended, Order
  <2> QED BY <2>4, <2>5
<1>11. CASE SinkIsAccess(s)
  <2>1. /\ pc[<<s, "pub">>] = "answer" /\ pc'[<<s, "pub">>] = "done"
        /\ call' = call /\ Same({"pub"})
    BY <1>a, <1>b, <1>c, <1>11 DEF SinkIsAccess, TypeOK
  <2>2. asked' \subseteq asked
    BY <1>11 DEF SinkIsAccess
  <2>3. \A b : Sent2(b) <=> Sent(b)
    BY <1>11 DEF SinkIsAccess
  <2>4. Asked(s)'
    BY <1>a, <2>1, <2>2, <2>3 DEF Asked, Order, BeforeExpend
  <2>5. Forward1(s)
    BY <1>a, <2>1, <2>3 DEF Forward1, Ended, Order
  <2> QED BY <2>4, <2>5
<1>12. CASE AskExpend(s)
  <2>1. /\ pc[<<s, "pub">>] = "relay" /\ pc'[<<s, "pub">>] = "expend"
        /\ call' = call /\ Same({"pub"})
    BY <1>a, <1>b, <1>c, <1>12 DEF AskExpend, TypeOK
  <2>2. \A k : <<s, k>> \in asked' <=> <<s, k>> \in asked \/ k = "SessionExpend"
    BY <1>12, NewAsked DEF AskExpend
  <2>3. \A b : Sent2(b) <=> Sent(b)
    BY <1>12 DEF AskExpend
  <2>4. Asked(s)'
    BY <1>a, <2>1, <2>2, <2>3 DEF Asked, Order, BeforeExpend
  <2>5. Forward1(s)
    BY <1>a, <2>1, <2>3 DEF Forward1, Ended, Order
  <2> QED BY <2>4, <2>5
<1>13. CASE ExpendDone(s)
  <2>1. /\ pc[<<s, "pub">>] = "expend" /\ pc'[<<s, "pub">>] = "done" /\ Sent(TRUE)
        /\ call' = call /\ Same({"pub"})
    BY <1>a, <1>b, <1>c, <1>13 DEF ExpendDone, Acked, TypeOK
  <2>2. asked' \subseteq asked
    BY <1>13 DEF ExpendDone, Acked
  <2>3. \A b : Sent2(b) <=> Sent(b)
    BY <1>13 DEF ExpendDone
  <2>4. Asked(s)'
    BY <1>a, <2>1, <2>2, <2>3 DEF Asked, Order, BeforeExpend
  <2>5. Forward1(s)
    BY <1>a, <2>1, <2>3 DEF Forward1, Ended, Order
  <2> QED BY <2>4, <2>5
<1>14. CASE RelayIsEntry(s)
  <2>1. /\ <<s, "SessionExpend">> \in asked /\ pc'[<<s, "cmd">>] = "done"
        /\ call' = call /\ Same({"cmd"})
    BY <1>a, <1>b, <1>c, <1>14 DEF RelayIsEntry, TakeExpend, TypeOK
  <2>2. \A k : <<s, k>> \in asked' <=> <<s, k>> \in asked /\ k # "SessionExpend"
    BY <1>14 DEF RelayIsEntry, TakeExpend
  <2>3. \A b : Sent2(b) <=> Sent(b) \/ b = TRUE
    <3> DEFINE v == TRUE
    <3>1. SendAck(<<s, "SessionExpend">>, v) /\ got' = got
      BY <1>14 DEF RelayIsEntry
    <3> HIDE DEF v
    <3>2. \A b : <<<<s, "SessionExpend">>, b>> \in acks' \cup got' <=>
                 <<<<s, "SessionExpend">>, b>> \in acks \cup got \/ ("SessionExpend" = "SessionExpend" /\ b = v)
      BY <3>1, NewAck
    <3> QED BY <3>2 DEF v
  <2>4. Asked(s)'
    BY <1>a, <2>1, <2>2, <2>3 DEF Asked, Order, BeforeExpend
  <2>5. Forward1(s)
    BY <1>a, <2>1, <2>3 DEF Forward1, Ended, Order
  <2> QED BY <2>4, <2>5
<1>15. CASE ExpendOpened(s)
  <2>1. /\ call[<<s, "expend">>] = "done" /\ pc'[<<s, "cmd">>] = "done"
        /\ call' = call /\ Same({"cmd"})
    BY <1>a, <1>b, <1>c, <1>15 DEF ExpendOpened, TypeOK
  <2>2. asked' \subseteq asked
    BY <1>15 DEF ExpendOpened
  <2>3. \A b : Sent2(b) <=> Sent(b) \/ b = TRUE
    <3> DEFINE v == TRUE
    <3>1. SendAck(<<s, "SessionExpend">>, v) /\ got' = got
      BY <1>15 DEF ExpendOpened
    <3> HIDE DEF v
    <3>2. \A b : <<<<s, "SessionExpend">>, b>> \in acks' \cup got' <=>
                 <<<<s, "SessionExpend">>, b>> \in acks \cup got \/ ("SessionExpend" = "SessionExpend" /\ b = v)
      BY <3>1, NewAck
    <3> QED BY <3>2 DEF v
  <2>4. Asked(s)'
    BY <1>a, <2>1, <2>2, <2>3 DEF Asked, Order, BeforeExpend
  <2>5. Forward1(s)
    BY <1>a, <2>1, <2>3 DEF Forward1, Ended, Order
  <2> QED BY <2>4, <2>5
<1> QED BY <1>1, <1>2, <1>3, <1>4, <1>5, <1>6, <1>7, <1>8, <1>9, <1>10, <1>11, <1>12, <1>13, <1>14, <1>15 DEF Plain


\* The relay whose session holds two streams before it was asked to open one is
\* the entry node.
LEMMA RelayReady ==
    ASSUME IInv, NEW s \in Sessions, AckInv(s), <<s, "SessionExpend">> \in asked,
           Ready(session[<<relay[s].peer, s>>])
    PROVE  relay[s].peer = Entry(s)
<1> SUFFICES ASSUME relay[s].peer # Entry(s) PROVE FALSE
  OBVIOUS
<1> DEFINE n == relay[s].peer
           x == session[<<n, s>>]
<1>1. n \in Nodes /\ call[<<s, "expend">>] = "idle"
  BY RelayIsNode DEF IInv, Order
<1>2. n # NoPeer /\ n \notin Clients /\ From[s] \in Clients /\ To[s] \in Clients
  BY <1>1, Parties, CircuitAssumption
<1>3. n # Access(s) /\ n # sink[s].peer
  BY <1>2 DEF AckInv, Peers
<1>4. Joined(n, s) \subseteq {"relay"}
  BY <1>1, <1>2, <1>3 DEF Joined, Src, Dst, Purposes
<1>5. Copy(x, Joined(n, s), Owed(n, s))
  BY <1>1 DEF AckInv, Copies, CopiesAt
<1>6. x.early # x.later /\ x.early # "none" /\ x.later # "none"
  BY <1>5 DEF Copy, Ready
<1>7. x.early \in Joined(n, s) /\ x.later \in Joined(n, s)
  BY <1>5, <1>6 DEF Copy, Legs
<1> QED BY <1>4, <1>6, <1>7

\* Success is reported when the streams of the circuit are set up.
LEMMA PlainTold ==
    ASSUME IInv, NEW s \in Sessions, AckInv(s), CalmInv(s), Plain(s), Told(s)'
    PROVE  Stands(s)
<1>a. Dial(s) \/ EntryLoop(s) \/ AccessLoop(s) \/ RelayLoop(s)
  BY DEF Plain, Dial, EntryLoop, AccessLoop, RelayLoop
<1>1. CASE QuietSuccess(s)
  BY <1>1, ToldBefore DEF CalmInv
<1>2. CASE DirectDone(s) \/ SinkIsAccess(s)
  BY <1>2 DEF DirectDone, SinkIsAccess, Stands
<1>3. CASE RelayIsEntry(s)
  <2>1. <<s, "SessionExpend">> \in asked /\ Ready(session[<<relay[s].peer, s>>])
    BY <1>3 DEF RelayIsEntry, TakeExpend
  <2>2. relay[s].peer = Entry(s)
    BY <2>1, RelayReady
  <2>3. call[<<s, "relay">>] = "done"
    BY <2>1 DEF IInv, Order
  <2>4. Landed(s, "relay")
    BY <2>3 DEF AckInv, Acks, AfterAck, Acked, AckSeen, Purposes
  <2> QED BY <2>2, <2>3, <2>4 DEF Stands, Replaced
<1> QED BY <1>a, <1>1, <1>2, <1>3, QuietLoops DEF Quiet

\* These steps keep the invariant.
LEMMA PlainKeeps ==
    ASSUME IInv, NEW s \in Sessions, AckInv(s), CalmInv(s), Plain(s)
    PROVE  CalmInv(s)'
<1>1. Asked(s)' /\ Forward1(s)
  BY PlainControl DEF CalmInv
<1> QED BY <1>1, PlainSteady, PlainTold, SteadyKeeps

-----------------------------------------------------------------------------
(* new_session_to_peer.                                                      *)

\* A node whose session says so has streams, and otherwise has none.
LEMMA NoLegs ==
    ASSUME NEW x, NEW J, NEW D, Copy(x, J, D), ~IsSome(x)
    PROVE  Legs(x) = {}
BY DEF Copy, Legs

\* While a call is under way no loop has given up, and only the stream that the
\* entry node has replaced is closed.
LEMMA UnderWay ==
    ASSUME IInv, NEW s \in Sessions, AckInv(s), CalmInv(s), NEW q \in Purposes,
           call[<<s, q>>] \notin {"idle", "done", "failed"}
    PROVE  /\ ~Ended(s)
           /\ \A p \in Purposes : <<s, p>> \in down => p = "sink" /\ Replaced(s)
           /\ Replaced(s) => q = "relay" /\ Src(s, q) # Entry(s)
           /\ \A e \in EndsOf(s) : handler[e] = "dead" =>
                e[2] = "sink" /\ Replaced(s) /\ NodeAt(e) # Src(s, q)
<1>a. Chain(s) /\ Acks(s) /\ Order(s) /\ OpenedAt(s) /\ Losses(s) /\ Live(s)
  BY DEF IInv, AckInv, CalmInv
<1>b. \A p \in Purposes \ {q} : call[<<s, p>>] \in {"idle", "done"}
  BY <1>a, Solo
<1>1. ~Ended(s)
  BY <1>b DEF Ended, Purposes
<1>2. \A p \in Purposes : <<s, p>> \in down => p = "sink" /\ Replaced(s)
  BY <1>a, <1>1 DEF Losses
<1>3. ASSUME Replaced(s)
      PROVE  q = "relay" /\ Src(s, q) = Access(s) /\ Access(s) # Entry(s) /\ sink[s].peer # Access(s)
  <2>1. call[<<s, "relay">>] \notin Unopened /\ call[<<s, "expend">>] = "idle"
    BY <1>a, <1>3 DEF Replaced, Landed, Early, OpenedAt, Losses, Purposes
  <2>2. call[<<s, "answer">>] = "done" /\ call[<<s, "sink">>] = "done" /\ call[<<s, "dial">>] = "done"
        /\ call[<<s, "direct">>] = "idle" /\ sink[s].peer # Access(s)
    BY <1>a, <2>1 DEF Chain, Unopened
  <2>3. q = "relay"
    BY <2>1, <2>2 DEF Purposes
  <2> QED BY <1>a, <2>2, <2>3, ProxiesApart DEF Src
<1>4. ASSUME NEW e \in EndsOf(s), handler[e] = "dead"
      PROVE  e[2] = "sink" /\ Replaced(s) /\ NodeAt(e) # Src(s, q)
  <2>1. e[2] \in Purposes /\ NodeAt(e) = (IF e[3] = "src" THEN Src(s, e[2]) ELSE Dst(s, e[2]))
    BY EndParts
  <2>2. e[2] = "sink" /\ Replaced(s)
    BY <1>a, <1>2, <1>4, <2>1 DEF Live
  <2>3. NodeAt(e) \in {Entry(s), sink[s].peer}
    BY <2>1, <2>2 DEF Src, Dst
  <2> QED BY <1>3, <2>2, <2>3
<1> QED BY <1>1, <1>2, <1>3, <1>4

\* What a step of new_session_to_peer leaves as it is.
CallSteady(s, q) ==
    /\ CallFrame(s, q) /\ call[<<s, q>>] # "failed"
    /\ probe' = probe
    /\ \A e \in EndsOf(s) : /\ \/ handler'[e] \in {handler[e], "fresh"}
                               \/ e[3] = "src" /\ handler'[e] = "read"
                            /\ "Disconnect" \in inbox'[e] => "Disconnect" \in inbox[e]

\* A step of new_session_to_peer, if what it writes has the streams it should.
LEMMA CallKeepsCalm ==
    ASSUME IInv, NEW s \in Sessions, AckInv(s), CalmInv(s), NEW q \in Purposes, CallSteady(s, q),
           QuietSuccess(s), Keeps(s)', Started(s)',
           call'[<<s, q>>] = "clone" => IsSome(session'[<<Src(s, q), s>>])
    PROVE  CalmInv(s)'
<1>a. CallFrame(s, q) /\ call[<<s, q>>] \notin {"idle", "done", "failed"}
  BY DEF CallSteady, CallFrame
<1>b. /\ \A p \in Purposes : Src(s, p)' = Src(s, p) /\ Dst(s, p)' = Dst(s, p)
      /\ \A p \in Purposes \ {q} : call'[<<s, p>>] \in {"idle", "done"}
                                /\ handler'[<<s, p, "dst">>] \notin {"fresh", "set"}
      /\ Grows(s, "none")
  BY <1>a, CallControl
<1>c. UNCHANGED <<snap, down, circuit, acks, got, asked, pc, sink, relay, probe>>
  BY DEF CallSteady, CallFrame
<1>d. \A p \in Purposes \ {q} : call'[<<s, p>>] = call[<<s, p>>]
  BY <1>a DEF CallFrame
<1>e. call'[<<s, q>>] # "idle" /\ \A n \in Nodes : n # Src(s, q) => session'[<<n, s>>] = session[<<n, s>>]
  BY <1>a DEF CallFrame
<1>f. \A e \in EndsOf(s) : NodeAt(e)' = NodeAt(e)
  BY <1>c, SamePeers
<1>g. /\ ~Ended(s)
      /\ \A p \in Purposes : <<s, p>> \in down => p = "sink" /\ Replaced(s)
      /\ Replaced(s) => q = "relay" /\ Src(s, q) # Entry(s)
      /\ \A e \in EndsOf(s) : handler[e] = "dead" =>
           e[2] = "sink" /\ Replaced(s) /\ NodeAt(e) # Src(s, q)
  BY <1>a, UnderWay
<1>h. \A p \in Purposes : Landed(s, p)' <=> Landed(s, p)
  <2>1. \A p \in Purposes : handler'[<<s, p, "dst">>] # handler[<<s, p, "dst">>] =>
         /\ p = q /\ handler[<<s, q, "dst">>] = "off" /\ handler'[<<s, q, "dst">>] = "fresh"
    BY <1>a DEF CallFrame, IInv, OpenedAt, Unopened
  <2> QED BY <2>1 DEF Landed, Early
<1>i. Replaced(s)' <=> Replaced(s)
  BY <1>c, <1>h DEF Replaced, Entry, Purposes
<1>j. Entry(s) \in Nodes /\ {"dial", "direct", "sink", "answer", "relay", "expend"} = Purposes
  BY Parties DEF Purposes
<1>1. Asked(s)'
  <2>1. Asked(s)
    BY DEF CalmInv
  <2>2. pc[<<s, "dial">>] \in {"wait", "returned"} => call'[<<s, "dial">>] = "done"
    BY <1>a, <1>d, <1>j, <2>1 DEF Asked
  <2>3. call'[<<s, "expend">>] \notin {"idle", "done", "failed"} => pc[<<s, "pub">>] = "expend"
    BY <1>a, <1>d, <1>j, <2>1 DEF Asked
  <2>4. \A b \in BOOLEAN : <<<<s, "SessionExpend">>, b>> \in acks \cup got =>
          call'[<<s, "expend">>] = call[<<s, "expend">>]
    BY <1>a, <1>d, <1>j, <2>1 DEF Asked
  <2> QED BY <1>c, <2>1, <2>2, <2>3, <2>4 DEF Asked
<1>2. Chosen(s)'
  BY <1>c DEF CalmInv, Chosen
<1>3. Losses(s)'
  <2>a. Losses(s)
    BY DEF CalmInv
  <2>b. call'[<<s, "expend">>] = "idle" <=> call[<<s, "expend">>] = "idle"
    BY <1>a, <1>d, <1>e, <1>j
  <2>1. \A p \in Purposes : <<s, p>> \in down' => Ended(s)' \/ (p = "sink" /\ Replaced(s)')
    BY <1>c, <1>g, <1>i
  <2>2. \A p \in Purposes : <<s, p>> \in down' /\ call'[<<s, "expend">>] # "idle" => p \in {"answer", "relay"}
    BY <1>c, <2>a, <2>b DEF Losses
  <2>3. ASSUME NEW e \in EndsOf(s), handler'[e] = "close"
        PROVE  <<s, e[2]>> \in down' /\ (Ended(s)' \/ e = <<s, "sink", "dst">>)
    BY <1>c, <1>g, <2>a, <2>3 DEF Losses, CallSteady
  <2>4. \A e \in EndsOf(s) : "Disconnect" \in inbox'[e] => e = <<s, "sink", "dst">> /\ Replaced(s)'
    BY <1>i, <2>a DEF Losses, CallSteady
  <2>5. <<<<s, "SessionExpend">>, FALSE>> \notin acks' \cup got'
    <3>1. call[<<s, "expend">>] # "failed"
      BY <1>a, <1>b, <1>d, <1>j
    <3> QED BY <1>c, <2>a, <3>1 DEF Losses
  <2>6. Replaced(s)' => call'[<<s, "expend">>] = "idle" /\ "sink" \notin Legs(session'[<<Entry(s), s>>])
    BY <1>e, <1>g, <1>i, <1>j, <2>a, <2>b DEF Losses
  <2> QED BY <2>1, <2>2, <2>3, <2>4, <2>5, <2>6 DEF Losses, Entry
<1>4. There(s)'
  <2>1. ASSUME NEW p \in Purposes, call'[<<s, p>>] = "clone"
        PROVE  IsSome(session'[<<Src(s, p)', s>>])
    <3>1. p = q
      BY <1>b, <2>1
    <3> QED BY <1>b, <2>1, <3>1
  <2>2. ASSUME NEW p \in Purposes, handler'[<<s, p, "dst">>] = "set", IsSome(snap'[<<s, p, "dst">>])
        PROVE  IsSome(session'[<<Dst(s, p)', s>>])
    <3>1. p = q
      BY <1>b, <2>2
    <3>2. handler[<<s, q, "dst">>] = "set" /\ snap' = snap
      BY <1>c, <2>2, <3>1, EndNames DEF CallSteady
    <3>3. Dst(s, q) \in Nodes /\ Src(s, q) # Dst(s, q)
      BY <1>a, <3>2, EndsAreNodes, Apart DEF AckInv, IInv, OpenedAt
    <3> QED BY <1>b, <1>e, <2>2, <3>1, <3>2, <3>3 DEF CalmInv, There
  <2> QED BY <2>1, <2>2 DEF There
<1>5. Live(s)'
  <2>1. ASSUME NEW e \in EndsOf(s), handler'[e] = "dead"
        PROVE  <<s, e[2]>> \in down' /\ e[2] \notin Legs(session'[<<NodeAt(e)', s>>])
    <3>1. handler[e] = "dead"
      BY <2>1 DEF CallSteady
    <3>2. NodeAt(e) \in Nodes /\ NodeAt(e) # Src(s, q)
      BY <1>g, <3>1, EndIsNode
    <3> QED BY <1>c, <1>e, <1>f, <3>1, <3>2 DEF CalmInv, Live
  <2> QED BY <2>1 DEF Live
<1>6. Circuits(s)'
  <2>1. ASSUME NEW p \in {"direct", "answer"}, handler'[<<s, p, "dst">>] \notin {"off", "fresh"}
        PROVE  handler[<<s, p, "dst">>] \notin {"off", "fresh"}
    <3>1. <<s, p, "dst">> \in EndsOf(s)
      BY <1>j, EndNames
    <3> QED BY <2>1, <3>1 DEF CallSteady
  <2> QED BY <1>c, <2>1 DEF CalmInv, Circuits
<1>7. Matched(s)'
  <2>1. ASSUME NEW e \in EndsOf(s), handler'[e] = "match"
        PROVE  <<NodeAt(e)', s>> \in probe' /\ call'[<<s, "expend">>] = "done"
    <3>1. handler[e] = "match" /\ <<NodeAt(e), s>> \in probe /\ call[<<s, "expend">>] = "done"
      BY <2>1 DEF CallSteady, CalmInv, Matched, HasProbe
    <3> QED BY <1>a, <1>c, <1>d, <1>f, <1>j, <3>1
  <2> QED BY <2>1 DEF Matched, HasProbe
<1>8. Told(s)' => Stands(s)'
  <2>1. \A p \in Purposes : call[<<s, p>>] = "done" => call'[<<s, p>>] = "done"
    BY <1>b DEF Grows
  <2>2. Stands(s) => Stands(s)'
    BY <1>c, <1>i, <1>j, <2>1 DEF Stands, Access
  <2> QED BY <2>2, ToldBefore DEF CalmInv
<1> QED BY <1>1, <1>2, <1>3, <1>4, <1>5, <1>6, <1>7, <1>8 DEF CalmInv

\* What node n has set up: nothing new, but for the stream of a call that ends.
LEMMA HeldCall ==
    ASSUME IInv, NEW s \in Sessions, AckInv(s), NEW q \in Purposes, CallFrame(s, q), NEW n
    PROVE  /\ Held(n, s)' \subseteq Held(n, s) \cup {q}
           /\ call'[<<s, q>>] # "done" \/ n # Src(s, q) => Held(n, s)' = Held(n, s)
<1>1. \A p \in Purposes : Src(s, p)' = Src(s, p)
  BY CallControl
<1>2. /\ down' = down /\ call[<<s, q>>] # "done"
      /\ \A p \in Purposes \ {q} : call'[<<s, p>>] = call[<<s, p>>]
  BY DEF CallFrame
<1> QED BY <1>1, <1>2 DEF Held

\* The calling node keeps its streams, if what it writes has them.
LEMMA CallHolds ==
    ASSUME IInv, NEW s \in Sessions, AckInv(s), Keeps(s), NEW q \in Purposes, CallSteady(s, q),
           Held(Src(s, q), s)' \subseteq Legs(session'[<<Src(s, q), s>>]),
           call'[<<s, q>>] = "insert" => Held(Src(s, q), s) = {},
           call'[<<s, q>>] = "later" => Held(Src(s, q), s) \subseteq Legs(clone'[<<s, q>>])
    PROVE  Keeps(s)'
<1>a. CallFrame(s, q) /\ call[<<s, q>>] \notin {"idle", "done", "failed"} /\ snap' = snap
  BY DEF CallSteady, CallFrame
<1>b. /\ \A p \in Purposes : Src(s, p)' = Src(s, p) /\ Dst(s, p)' = Dst(s, p)
      /\ \A p \in Purposes \ {q} : call'[<<s, p>>] \in {"idle", "done"}
                                /\ handler'[<<s, p, "dst">>] \notin {"fresh", "set"}
  BY <1>a, CallControl
<1>c. \A n : call'[<<s, q>>] # "done" \/ n # Src(s, q) => Held(n, s)' = Held(n, s)
  BY <1>a, HeldCall
<1>1. ASSUME NEW n \in Nodes PROVE Held(n, s)' \subseteq Legs(session'[<<n, s>>])
  <2>1. n # Src(s, q) => session'[<<n, s>>] = session[<<n, s>>]
    BY <1>a DEF CallFrame
  <2> QED BY <1>b, <1>c, <2>1 DEF Keeps
<1>2. ASSUME NEW p \in Purposes
      PROVE  /\ call'[<<s, p>>] = "insert" => Held(Src(s, p), s)' = {}
             /\ call'[<<s, p>>] = "later" => Held(Src(s, p), s)' \subseteq Legs(clone'[<<s, p>>])
  BY <1>b, <1>c
<1>3. ASSUME NEW p \in Purposes, handler'[<<s, p, "dst">>] = "set"
      PROVE  Held(Dst(s, p), s)' \subseteq Legs(snap'[<<s, p, "dst">>])
  <2>1. p = q
    BY <1>b, <1>3
  <2>2. handler[<<s, q, "dst">>] = "set"
    BY <1>3, <2>1, EndNames DEF CallSteady
  <2>3. Src(s, q) # Dst(s, q)
    BY <1>a, Apart DEF AckInv
  <2> QED BY <1>a, <1>b, <1>c, <2>1, <2>2, <2>3 DEF Keeps
<1> QED BY <1>1, <1>2, <1>3 DEF Keeps

\* new_session_to_peer keeps the invariant, and does not panic.
LEMMA CallCalm ==
    ASSUME IInv, NEW s \in Sessions, AckInv(s), FrameInv(s), CalmInv(s), NEW q \in Purposes, Call(s, q)
    PROVE  CalmInv(s)' /\ poisoned' = poisoned
<1> USE DEF callVars, readVars, nodeVars, hsVars, busVars, loopVars
<1>a. TypeOK /\ CallFrame(s, q) /\ Keeps(s) /\ Started(s) /\ QuietSuccess(s)
  BY CallFrames, QuietCall DEF IInv, CalmInv, Quiet
<1>b. <<s, q>> \in Streams /\ <<s, q, "src">> \in Ends /\ <<s, q, "dst">> \in Ends
      /\ \A d \in EndsOf(s) : d \in Ends
  BY DEF Streams, Ends, EndsOf
<1>c. ~ClonePanic(s, q)
  BY DEF ClonePanic, CalmInv, There
<1>d. poisoned' = poisoned
  BY <1>c DEF Call, OpenStream, OpenTimeout, RegisterAck, CheckSession, InsertNew, CloneSession, InsertLater
<1>e. CallSteady(s, q)
  <2>1. call[<<s, q>>] # "failed" /\ probe' = probe
    BY DEF Call, OpenStream, OpenTimeout, RegisterAck, CheckSession, InsertNew, CloneSession,
           ClonePanic, InsertLater
  <2>2. \A d \in EndsOf(s) : /\ \/ handler'[d] \in {handler[d], "fresh"}
                                \/ d[3] = "src" /\ handler'[d] = "read"
                             /\ "Disconnect" \in inbox'[d] => "Disconnect" \in inbox[d]
    <3>1. CASE OpenStream(s, q)
      BY <1>a, <1>b, <3>1 DEF OpenStream, TypeOK
    <3>2. CASE CheckSession(s, q)
      BY <1>a, <1>b, <3>2 DEF CheckSession, TypeOK
    <3>3. CASE ~OpenStream(s, q) /\ ~CheckSession(s, q)
      BY <3>3 DEF Call, OpenTimeout, RegisterAck, InsertNew, CloneSession, ClonePanic, InsertLater
    <3> QED BY <3>1, <3>2, <3>3
  <2> QED BY <1>a, <2>1, <2>2 DEF CallSteady
<1>f. Src(s, q) \in Nodes
  BY <1>a, EndsAreNodes DEF CallFrame
<1>g. /\ Copy(session[<<Src(s, q), s>>], Joined(Src(s, q), s), Owed(Src(s, q), s))
      /\ session[<<Src(s, q), s>>] \in SessionRec
  BY <1>a, <1>f DEF AckInv, Copies, CopiesAt, TypeOK
<1>h. Held(Src(s, q), s) \subseteq Legs(session[<<Src(s, q), s>>])
  BY <1>a, <1>f DEF Keeps
<1>i. /\ Held(Src(s, q), s)' \subseteq Held(Src(s, q), s) \cup {q}
      /\ call'[<<s, q>>] # "done" => Held(Src(s, q), s)' = Held(Src(s, q), s)
  <2>1. Src(s, q)' = Src(s, q)
    BY <1>a, CallControl
  <2> QED BY <1>a, <2>1, HeldCall
<1>1. Started(s)'
  <2>1. \A p \in Purposes : handler[<<s, p, "src">>] # "off" => handler'[<<s, p, "src">>] # "off"
    BY <1>e, EndNames DEF CallSteady
  <2>2. call'[<<s, q>>] \in AfterAck => call[<<s, q>>] \in AfterAck \/ handler'[<<s, q, "src">>] = "read"
    BY <1>a, <1>b DEF Call, OpenStream, OpenTimeout, RegisterAck, CheckSession, InsertNew, CloneSession,
           ClonePanic, InsertLater, AfterAck, TypeOK
  <2>3. \A p \in Purposes \ {q} : call'[<<s, p>>] = call[<<s, p>>]
    BY <1>a DEF CallFrame
  <2> QED BY <1>a, <2>1, <2>2, <2>3 DEF Started
<1>2. Keeps(s)' /\ (call'[<<s, q>>] = "clone" => IsSome(session'[<<Src(s, q), s>>]))
  <2>1. CASE OpenStream(s, q) \/ OpenTimeout(s, q) \/ RegisterAck(s, q)
    <3>1. session' = session /\ call'[<<s, q>>] \in {"written", "failed", "waiting"}
      BY <1>a, <1>b, <2>1 DEF OpenStream, OpenTimeout, RegisterAck, TypeOK
    <3> QED BY <1>a, <1>e, <1>h, <1>i, <3>1, CallHolds
  <2>2. CASE CheckSession(s, q)
    <3>1. /\ session' = session
          /\ call'[<<s, q>>] = IF IsSome(session[<<Src(s, q), s>>]) THEN "clone" ELSE "insert"
      BY <1>a, <1>b, <2>2 DEF CheckSession, TypeOK
    <3>2. call'[<<s, q>>] = "insert" => Held(Src(s, q), s) = {}
      BY <1>g, <1>h, <3>1, NoLegs
    <3> QED BY <1>a, <1>e, <1>h, <1>i, <3>1, <3>2, CallHolds
  <2>3. CASE InsertNew(s, q)
    <3>1. /\ call[<<s, q>>] = "insert" /\ call'[<<s, q>>] = "done"
          /\ session'[<<Src(s, q), s>>] = [role |-> MyRole(q), early |-> q, later |-> "none"]
      BY <1>a, <1>b, <1>f, <2>3 DEF InsertNew, TypeOK
    <3>2. Held(Src(s, q), s) = {}
      BY <1>a, <3>1 DEF Keeps
    <3>3. q \in Legs(session'[<<Src(s, q), s>>])
      BY <3>1 DEF Legs, Purposes
    <3> QED BY <1>a, <1>e, <1>i, <3>1, <3>2, <3>3, CallHolds
  <2>4. CASE CloneSession(s, q)
    <3>1. /\ session' = session /\ call[<<s, q>>] = "clone" /\ call'[<<s, q>>] = "later"
          /\ clone'[<<s, q>>] = WithLater(session[<<Src(s, q), s>>], q)
      BY <1>a, <1>b, <2>4 DEF CloneSession, TypeOK
    <3>2. session[<<Src(s, q), s>>].later = "none"
      BY <3>1 DEF AckInv, Room, Adding
    <3>3. Legs(session[<<Src(s, q), s>>]) \subseteq Legs(clone'[<<s, q>>])
      BY <1>g, <3>1, <3>2 DEF Legs, WithLater, SessionRec
    <3> QED BY <1>a, <1>e, <1>h, <1>i, <3>1, <3>3, CallHolds
  <2>5. CASE InsertLater(s, q)
    <3>1. /\ call[<<s, q>>] = "later" /\ call'[<<s, q>>] = "done"
          /\ session'[<<Src(s, q), s>>] = clone[<<s, q>>]
      BY <1>a, <1>b, <1>f, <2>5 DEF InsertLater, TypeOK
    <3>2. Held(Src(s, q), s) \subseteq Legs(clone[<<s, q>>])
      BY <1>a, <3>1 DEF Keeps
    <3>3. q \in Legs(clone[<<s, q>>])
      BY <3>1 DEF FrameInv, Spliced, Legs, Purposes
    <3> QED BY <1>a, <1>e, <1>i, <3>1, <3>2, <3>3, CallHolds
  <2> QED BY <1>c, <2>1, <2>2, <2>3, <2>4, <2>5 DEF Call
<1> QED BY <1>a, <1>d, <1>e, <1>1, <1>2, CallKeepsCalm

-----------------------------------------------------------------------------
(* relay_event_handler, SetSession: handle_set_session.                      *)

\* The ack for a stream is none for SessionExpend.
LEMMA StreamAck ==
    ASSUME NEW s \in Sessions, NEW q \in Purposes, SendAck(<<s, q>>, TRUE), got' = got, NEW b
    PROVE  <<<<s, "SessionExpend">>, b>> \in acks' \cup got' <=>
           <<<<s, "SessionExpend">>, b>> \in acks \cup got
<1> DEFINE v == TRUE
<1>1. SendAck(<<s, q>>, v)
  OBVIOUS
<1>2. q # "SessionExpend"
  BY DEF Purposes
<1> HIDE DEF v
<1> QED BY <1>1, <1>2, NewAck

\* While a handler sets its stream up, nothing of the session is closed.
LEMMA SettingUp ==
    ASSUME IInv, NEW s \in Sessions, AckInv(s), CalmInv(s), NEW q \in Purposes,
           handler[<<s, q, "dst">>] \in {"fresh", "set"}
    PROVE  /\ ~Ended(s) /\ ~Replaced(s)
           /\ \A p \in Purposes : <<s, p>> \notin down
           /\ \A e \in EndsOf(s) : handler[e] \notin {"dead", "close"} /\ "Disconnect" \notin inbox[e]
           /\ <<<<s, "SessionExpend">>, FALSE>> \notin acks \cup got
           /\ call[<<s, q>>] \in {"written", "waiting"}
           /\ \A p \in Purposes \ {q} : call[<<s, p>>] \in {"idle", "done"}
<1>1. call[<<s, q>>] \in {"written", "waiting"}
  BY FreshCall DEF AckInv
<1>2. /\ ~Ended(s)
      /\ \A p \in Purposes : <<s, p>> \in down => p = "sink" /\ Replaced(s)
      /\ Replaced(s) => q = "relay"
  BY <1>1, UnderWay
<1>3. ~Replaced(s)
  BY <1>2 DEF Replaced, Landed, Early
<1>4. \A p \in Purposes : <<s, p>> \notin down
  BY <1>2, <1>3
<1>5. \A e \in EndsOf(s) : e[2] \in Purposes
  BY EndParts
<1>6. \A e \in EndsOf(s) : handler[e] \notin {"dead", "close"} /\ "Disconnect" \notin inbox[e]
  BY <1>3, <1>4, <1>5 DEF CalmInv, Losses, Live
<1>7. \A p \in Purposes \ {q} : call[<<s, p>>] \in {"idle", "done"}
  BY <1>1, Solo DEF AckInv
<1>8. call[<<s, "expend">>] # "failed"
  BY <1>1, <1>7 DEF Purposes
<1>9. <<<<s, "SessionExpend">>, FALSE>> \notin acks \cup got
  BY <1>8 DEF CalmInv, Losses
<1> QED BY <1>1, <1>2, <1>3, <1>4, <1>6, <1>7, <1>9

\* The copy that the handler of a relay request works with: at the entry node
\* the session that splices the streams to the caller and to the sink, at any
\* other node none.
LEMMA RelaySnap ==
    ASSUME IInv, NEW s \in Sessions, AckInv(s), FrameInv(s), CalmInv(s),
           handler[<<s, "relay", "dst">>] = "set"
    PROVE  LET x == snap[<<s, "relay", "dst">>] IN
           /\ relay[s].peer = Entry(s) => x.role = "Entry" /\ x.early = "dial" /\ x.later = "sink"
           /\ relay[s].peer # Entry(s) => ~IsSome(x)
<1> DEFINE n == relay[s].peer
           x == snap[<<s, "relay", "dst">>]
<1>a. "relay" \in Purposes /\ "sink" \in Purposes /\ "dial" \in Purposes /\ Dst(s, "relay") = n
  BY DEF Purposes, Dst
<1>b. /\ call[<<s, "relay">>] \in {"written", "waiting"} /\ ~Replaced(s)
      /\ \A p \in Purposes : <<s, p>> \notin down
  BY <1>a, SettingUp
<1>c. n \in Nodes
  BY <1>a, <1>b, EndsAreNodes DEF Unopened
<1>d. call[<<s, "answer">>] = "done" /\ call[<<s, "sink">>] = "done" /\ call[<<s, "dial">>] = "done"
      /\ call[<<s, "direct">>] = "idle" /\ call[<<s, "expend">>] = "idle" /\ sink[s].peer # Access(s)
  BY <1>b DEF AckInv, Chain, IInv, Order
<1>e. Copy(x, Joined(n, s), Owed(n, s))
  BY <1>a, <1>c DEF AckInv, Copies, CopiesAt
<1>1. ASSUME n = Entry(s) PROVE x.role = "Entry" /\ x.early = "dial" /\ x.later = "sink"
  <2>1. "sink" \in Held(n, s)
    BY <1>a, <1>b, <1>d, <1>1 DEF Held, Src
  <2>2. "sink" \in Legs(x)
    BY <1>a, <2>1 DEF CalmInv, Keeps
  <2>3. "dial" \in Owed(n, s)
    BY <1>a, <1>b, <1>d, <1>1 DEF Owed, Dst, AckInv, Acks, AfterAck, Acked, AckSeen
  <2>4. "dial" \in Legs(x)
    BY <1>e, <2>3 DEF Copy
  <2>5. EntryPair(x)
    BY <1>1 DEF FrameInv, Spliced
  <2>6. x.early = "dial" /\ x.later = "sink"
    BY <2>2, <2>4, <2>5 DEF EntryPair, Legs
  <2>7. x.role \in {"none", "Entry"} /\ x.role # "none"
    BY <1>a, <1>e, <1>1, <2>6 DEF AckInv, EntryRole, Copy, IsSome
  <2> QED BY <2>6, <2>7
<1>2. ASSUME n # Entry(s) PROVE ~IsSome(x)
  <2>1. n # NoPeer /\ n \notin Clients /\ From[s] \in Clients /\ To[s] \in Clients
    BY <1>c, Parties, CircuitAssumption
  <2>2. n # Access(s) /\ n # sink[s].peer
    BY <2>1 DEF AckInv, Peers
  <2>3. ~Landed(s, "relay")
    BY DEF Landed, Early
  <2>4. Joined(n, s) = {}
    BY <1>2, <1>d, <2>1, <2>2, <2>3 DEF Joined, Src, Dst, Purposes
  <2> QED BY <1>e, <2>4 DEF Copy, Legs
<1> QED BY <1>1, <1>2

\* A step of handle_set_session that closes nothing, if what it writes has the
\* streams it should.
LEMMA SetKeepsCalm ==
    ASSUME IInv, NEW s \in Sessions, AckInv(s), CalmInv(s), NEW q \in Purposes, SetFrame(s, q),
           QuietSuccess(s), Keeps(s)', There(s)', ~Replaced(s)',
           \A p \in Purposes : <<s, p>> \notin down',
           \A e \in EndsOf(s) : "Disconnect" \notin inbox'[e],
           handler'[<<s, q, "dst">>] \in {"set", "read"},
           probe' = probe,
           \A n \in Nodes : circuit'[<<n, s>>] = "none" => circuit[<<n, s>>] = "none",
           q \in {"direct", "answer"} => circuit'[<<To[s], s>>] # "none",
           \A b : <<<<s, "SessionExpend">>, b>> \in acks' \cup got' <=>
                  <<<<s, "SessionExpend">>, b>> \in acks \cup got
    PROVE  CalmInv(s)'
<1>a. UNCHANGED <<call, asked, pc, sink, relay>>
  BY DEF SetFrame
<1>b. /\ ~Ended(s) /\ ~Replaced(s)
      /\ \A p \in Purposes : <<s, p>> \notin down
      /\ \A e \in EndsOf(s) : handler[e] \notin {"dead", "close"} /\ "Disconnect" \notin inbox[e]
      /\ <<<<s, "SessionExpend">>, FALSE>> \notin acks \cup got
      /\ call[<<s, q>>] \in {"written", "waiting"}
      /\ \A p \in Purposes \ {q} : call[<<s, p>>] \in {"idle", "done"}
  BY SettingUp DEF SetFrame
<1>c. \A e \in EndsOf(s) : e = <<s, q, "dst">> \/ handler'[e] = handler[e]
  BY EndParts DEF SetFrame
<1>d. \A e \in EndsOf(s) : NodeAt(e)' = NodeAt(e)
  BY <1>a, SamePeers
<1>e. From[s] \in Nodes /\ To[s] \in Nodes
  BY Parties
<1>1. Asked(s)'
  BY <1>a DEF CalmInv, Asked
<1>2. Started(s)'
  BY <1>a DEF CalmInv, Started, SetFrame
<1>3. Chosen(s)'
  BY <1>a DEF CalmInv, Chosen
<1>4. \A e \in EndsOf(s) : handler'[e] \notin {"dead", "close"}
  BY <1>b, <1>c
<1>5. Losses(s)'
  BY <1>b, <1>4 DEF Losses
<1>6. Live(s)'
  BY <1>4 DEF Live
<1>7. Circuits(s)'
  <2>1. /\ pc'[<<s, "dial">>] \in {"wait", "returned"} => circuit'[<<From[s], s>>] # "none"
    BY <1>a, <1>b, <1>e DEF CalmInv, Circuits, Purposes
  <2>2. ASSUME NEW p \in {"direct", "answer"}, handler'[<<s, p, "dst">>] \notin {"off", "fresh"}
        PROVE  circuit'[<<To[s], s>>] # "none"
    <3>1. CASE p = q
      BY <3>1
    <3>2. CASE p # q
      <4>1. handler[<<s, p, "dst">>] \notin {"off", "fresh"} /\ <<s, p>> \notin down
        BY <1>b, <2>2, <3>2 DEF SetFrame, Purposes
      <4> QED BY <1>e, <4>1 DEF CalmInv, Circuits
    <3> QED BY <3>1, <3>2
  <2> QED BY <2>1, <2>2 DEF Circuits
<1>8. Matched(s)'
  <2>1. ASSUME NEW e \in EndsOf(s), handler'[e] = "match"
        PROVE  <<NodeAt(e)', s>> \in probe' /\ call'[<<s, "expend">>] = "done"
    <3>1. handler[e] = "match"
      BY <1>c, <2>1
    <3> QED BY <1>a, <1>d, <3>1 DEF CalmInv, Matched, HasProbe
  <2> QED BY <2>1 DEF Matched, HasProbe
<1>9. Told(s)' => Stands(s)'
  <2>1. Stands(s) => Stands(s)'
    BY <1>a, <1>b DEF Stands, Access
  <2> QED BY <2>1, ToldBefore DEF CalmInv
<1> QED BY <1>1, <1>2, <1>3, <1>5, <1>6, <1>7, <1>8, <1>9 DEF CalmInv

\* The streams that are set up, when handle_set_session writes a session.
LEMMA SetHolds ==
    ASSUME IInv, NEW s \in Sessions, AckInv(s), Keeps(s), NEW q \in Purposes, SetFrame(s, q),
           NEW n \in Nodes, n = Dst(s, q),
           \A p \in Purposes : <<s, p>> \in down' <=> <<s, p>> \in down,
           Held(n, s) \subseteq Legs(session'[<<n, s>>]),
           handler'[<<s, q, "dst">>] = "set" => Held(n, s) \subseteq Legs(snap'[<<s, q, "dst">>])
    PROVE  Keeps(s)'
<1>a. /\ \A p \in Purposes : Src(s, p)' = Src(s, p) /\ Dst(s, p)' = Dst(s, p)
      /\ \A p \in Purposes \ {q} : call'[<<s, p>>] \in {"idle", "done"}
                                /\ handler'[<<s, p, "dst">>] \notin {"fresh", "set"}
      /\ call'[<<s, q>>] \in {"written", "waiting"}
  BY SetControl
<1>b. call' = call /\ \A m \in Nodes : m # n => session'[<<m, s>>] = session[<<m, s>>]
  BY DEF SetFrame
<1>c. \A m : Held(m, s)' = Held(m, s)
  BY <1>a, <1>b DEF Held
<1>1. \A m \in Nodes : Held(m, s)' \subseteq Legs(session'[<<m, s>>])
  BY <1>b, <1>c DEF Keeps
<1>2. \A p \in Purposes : call'[<<s, p>>] \notin {"insert", "later"}
  BY <1>a
<1>3. ASSUME NEW p \in Purposes, handler'[<<s, p, "dst">>] = "set"
      PROVE  Held(Dst(s, p), s)' \subseteq Legs(snap'[<<s, p, "dst">>])
  BY <1>a, <1>c, <1>3
<1> QED BY <1>1, <1>2, <1>3 DEF Keeps

\* handle_set_session but for the replacement at the entry node keeps the
\* invariant, and does not panic.
LEMMA SetCalm ==
    ASSUME IInv, NEW s \in Sessions, AckInv(s), FrameInv(s), CalmInv(s), NEW e \in Ends, e[1] = s,
           TakeSet(e) \/ ApplyNew(e) \/ ApplyLater(e)
    PROVE  CalmInv(s)' /\ poisoned' = poisoned
<1> USE DEF callVars, readVars, nodeVars, hsVars, busVars, loopVars
<1> DEFINE q == e[2]
           n == NodeAt(e)
           x == snap[e]
<1>a. /\ TypeOK /\ Keeps(s) /\ There(s)
      /\ q \in Purposes /\ e = <<s, q, "dst">> /\ n = Dst(s, q) /\ SetFrame(s, q)
  BY SetFrames DEF IInv, CalmInv, Sets
<1>b. /\ ~Replaced(s)
      /\ \A p \in Purposes : <<s, p>> \notin down
      /\ \A d \in EndsOf(s) : "Disconnect" \notin inbox[d]
      /\ call[<<s, q>>] \in {"written", "waiting"}
      /\ \A p \in Purposes \ {q} : call[<<s, p>>] \in {"idle", "done"}
  BY <1>a, SettingUp DEF SetFrame
<1>c. /\ \A p \in Purposes : Src(s, p)' = Src(s, p) /\ Dst(s, p)' = Dst(s, p)
      /\ \A p \in Purposes \ {q} : call'[<<s, p>>] \in {"idle", "done"}
                                /\ handler'[<<s, p, "dst">>] \notin {"fresh", "set"}
      /\ call'[<<s, q>>] \in {"written", "waiting"} /\ Dst(s, q) \in Nodes
  BY <1>a, SetControl
<1>d. n \in Nodes /\ session[<<n, s>>] \in SessionRec
      /\ Copy(session[<<n, s>>], Joined(n, s), Owed(n, s))
      /\ Held(n, s) \subseteq Legs(session[<<n, s>>])
  BY <1>a, <1>c DEF AckInv, Copies, CopiesAt, TypeOK, Keeps
<1>e. handler[e] = "set" => Copy(x, Joined(n, s), Owed(n, s)) /\ Held(n, s) \subseteq Legs(x)
  BY <1>a, <1>c DEF AckInv, Copies, CopiesAt, Keeps
<1>f. QuietSuccess(s)
  BY HandleQuiet DEF Quiet
<1>g. handler[e] = "set" => ~(ApplyNew(e) \/ ApplyLater(e)) \/ q # "relay" \/ relay[s].peer # Entry(s)
  <2> SUFFICES ASSUME handler[e] = "set", q = "relay", relay[s].peer = Entry(s)
               PROVE  ~ApplyNew(e) /\ ~ApplyLater(e)
    OBVIOUS
  <2>1. x.role = "Entry"
    BY <1>a, RelaySnap
  <2> QED BY <2>1 DEF ApplyNew, ApplyLater, IsEntryAsRelay, OtherRole, IsSome
<1>h. ApplyLater(e) => IsSome(session[<<n, s>>])
  BY <1>a DEF ApplyLater, There
<1>i. down' = down /\ probe' = probe /\ poisoned' = poisoned
  BY <1>h DEF TakeSet, ApplyNew, ApplyLater
<1>j. \A d \in EndsOf(s) : "Disconnect" \notin inbox'[d]
  <2>1. CASE TakeSet(e)
    <3>1. Took(e, "SetSession", {})
      BY <1>a, <2>1, Dropped DEF TakeSet
    <3> QED BY <1>b, <3>1 DEF Took, EndsOf
  <2>2. CASE ApplyNew(e) \/ ApplyLater(e)
    BY <1>b, <2>2 DEF ApplyNew, ApplyLater
  <2> QED BY <2>1, <2>2
<1>k. To[s] \in Nodes
  BY Parties
<1>l. /\ \A m \in Nodes : circuit'[<<m, s>>] = "none" => circuit[<<m, s>>] = "none"
      /\ q \in {"direct", "answer"} => circuit'[<<To[s], s>>] # "none"
  <2>1. q \in {"direct", "answer"} => n = To[s] /\ OtherRole(q) = "Answer"
    BY <1>a DEF Dst, OtherRole
  <2>2. CASE TakeSet(e)
    BY <1>a, <1>d, <1>k, <2>1, <2>2 DEF TakeSet, TypeOK
  <2>3. CASE ApplyNew(e) \/ ApplyLater(e)
    <3>1. circuit' = circuit /\ handler[<<s, q, "dst">>] = "set"
      BY <1>a, <2>3 DEF ApplyNew, ApplyLater
    <3> QED BY <1>a, <1>b, <3>1 DEF CalmInv, Circuits
  <2> QED BY <2>2, <2>3
<1>m. \A b : <<<<s, "SessionExpend">>, b>> \in acks' \cup got' <=>
             <<<<s, "SessionExpend">>, b>> \in acks \cup got
  <2>1. got' = got /\ (acks' = acks \/ SendAck(<<s, q>>, TRUE))
    BY <1>a, <1>h DEF TakeSet, ApplyNew, ApplyLater
  <2> QED BY <1>a, <2>1, StreamAck
<1>1. CASE TakeSet(e)
  <2>1. session' = session /\ snap'[e] = session[<<n, s>>] /\ handler'[e] = "set"
    BY <1>a, <1>1 DEF TakeSet, TypeOK
  <2>2. Keeps(s)'
    BY <1>a, <1>d, <1>i, <2>1, SetHolds
  <2>3. There(s)'
    <3>1. \A p \in Purposes : call'[<<s, p>>] # "clone"
      BY <1>c
    <3>2. ASSUME NEW p \in Purposes, handler'[<<s, p, "dst">>] = "set", IsSome(snap'[<<s, p, "dst">>])
          PROVE  IsSome(session'[<<Dst(s, p)', s>>])
      BY <1>a, <1>c, <2>1, <3>2
    <3> QED BY <3>1, <3>2 DEF There
  <2>4. ~Replaced(s)'
    <3>1. ~Landed(s, "relay") => ~Landed(s, "relay")'
      BY <1>a, <2>1 DEF Landed, Early, SetFrame, Purposes
    <3> QED BY <1>a, <1>b, <3>1 DEF Replaced, SetFrame, Entry
  <2> QED BY <1>a, <1>b, <1>f, <1>i, <1>j, <1>l, <1>m, <2>1, <2>2, <2>3, <2>4, SetKeepsCalm
<1>2. CASE ApplyNew(e) \/ ApplyLater(e)
  <2>1. handler[e] = "set" /\ handler'[e] = "read"
    BY <1>a, <1>h, <1>2 DEF ApplyNew, ApplyLater, TypeOK
  <2>2. Held(n, s) \subseteq Legs(session'[<<n, s>>])
    <3>1. CASE ApplyNew(e)
      BY <1>e, <2>1, <3>1, NoLegs DEF ApplyNew
    <3>2. CASE ApplyLater(e)
      <4>1. session'[<<n, s>>] = WithLater(session[<<n, s>>], q)
        BY <1>a, <1>d, <1>h, <3>2 DEF ApplyLater, TypeOK
      <4>2. session[<<n, s>>].later = "none"
        BY <1>a, <1>g, <2>1, <3>2 DEF AckInv, Room, Dst
      <4> QED BY <1>d, <4>1, <4>2 DEF Legs, WithLater, SessionRec
    <3> QED BY <1>2, <3>1, <3>2
  <2>3. Keeps(s)'
    BY <1>a, <1>d, <1>i, <2>1, <2>2, SetHolds
  <2>4. There(s)'
    BY <1>a, <1>c, <2>1 DEF There
  <2>5. ~Replaced(s)'
    <3>1. Landed(s, "relay")' => Landed(s, "relay") \/ q = "relay"
      BY <1>a DEF Landed, SetFrame, Purposes
    <3> QED BY <1>a, <1>b, <1>g, <1>2, <2>1, <3>1 DEF Replaced, SetFrame, Entry
  <2> QED BY <1>a, <1>b, <1>f, <1>i, <1>j, <1>l, <1>m, <2>1, <2>3, <2>4, <2>5, SetKeepsCalm
<1> QED BY <1>i, <1>1, <1>2

\* The entry node that becomes the relay, too, gives up its stream to the sink
\* and nothing else.
LEMMA ReplaceCalm ==
    ASSUME IInv, NEW s \in Sessions, AckInv(s), FrameInv(s), CalmInv(s), NEW e \in Ends, e[1] = s,
           ApplyReplace(e)
    PROVE  CalmInv(s)' /\ poisoned' = poisoned
<1> USE DEF callVars, readVars, nodeVars, hsVars, busVars, loopVars
<1> DEFINE n == Entry(s)
           x == snap[e]
           old == <<s, "sink", "dst">>
<1>a. /\ TypeOK /\ Keeps(s) /\ There(s)
      /\ e[2] \in Purposes /\ e = <<s, e[2], "dst">> /\ NodeAt(e) = Dst(s, e[2]) /\ SetFrame(s, e[2])
  BY SetFrames DEF IInv, CalmInv, Sets
<1>b. e[2] = "relay" /\ e = <<s, "relay", "dst">> /\ handler[e] = "set" /\ x.role = "Entry"
  BY <1>a DEF ApplyReplace, IsEntryAsRelay, OtherRole, Purposes
<1>c. relay[s].peer = n /\ x.early = "dial" /\ x.later = "sink" /\ NodeAt(e) = n
  BY <1>a, <1>b, RelaySnap DEF IsSome, Dst
<1>d. n \in Nodes /\ From[s] \in Nodes /\ To[s] \in Nodes /\ x \in SessionRec
  BY <1>a, Parties DEF TypeOK
<1>e. "relay" \in Purposes /\ "sink" \in Purposes /\ SetFrame(s, "relay")
  BY <1>a, <1>b DEF Purposes
<1>f. /\ ~Ended(s) /\ ~Replaced(s)
      /\ \A p \in Purposes : <<s, p>> \notin down
      /\ \A d \in EndsOf(s) : handler[d] \notin {"dead", "close"} /\ "Disconnect" \notin inbox[d]
      /\ <<<<s, "SessionExpend">>, FALSE>> \notin acks \cup got
      /\ call[<<s, "relay">>] \in {"written", "waiting"}
      /\ \A p \in Purposes \ {"relay"} : call[<<s, p>>] \in {"idle", "done"}
  <2>1. handler[<<s, "relay", "dst">>] \in {"fresh", "set"}
    BY <1>e DEF SetFrame
  <2> QED BY <1>e, <2>1, SettingUp
<1>g. /\ \A p \in Purposes : Src(s, p)' = Src(s, p) /\ Dst(s, p)' = Dst(s, p)
      /\ \A p \in Purposes \ {"relay"} : call'[<<s, p>>] \in {"idle", "done"}
                                      /\ handler'[<<s, p, "dst">>] \notin {"fresh", "set"}
      /\ call'[<<s, "relay">>] \in {"written", "waiting"}
  BY <1>e, SetControl
<1>h. Ready(x)
  BY <1>c DEF Ready
<1>i. /\ session' = [session EXCEPT ![<<n, s>>] = WithLater(x, "relay")]
      /\ Deliver(FarEnds(n, s, {"sink"}), "Disconnect")
      /\ down' = down \cup {<<s, "sink">>} /\ handler' = [handler EXCEPT ![e] = "read"]
      /\ SendAck(<<s, "relay">>, TRUE) /\ got' = got
      /\ UNCHANGED <<circuit, probe, poisoned, call, clone, asked, pc, sink, relay>>
  BY <1>b, <1>c, <1>h DEF ApplyReplace
<1>j. /\ session'[<<n, s>>] = WithLater(x, "relay")
      /\ \A m \in Nodes : m # n => session'[<<m, s>>] = session[<<m, s>>]
      /\ handler'[e] = "read" /\ \A d \in EndsOf(s) : d # e => handler'[d] = handler[d]
      /\ \A p \in Purposes : <<s, p>> \in down' <=> p = "sink"
  BY <1>a, <1>d, <1>f, <1>i DEF TypeOK, EndsOf
<1>k. Legs(session'[<<n, s>>]) = {"dial", "relay"}
  BY <1>c, <1>d, <1>j DEF Legs, WithLater, SessionRec
<1>l. Replaced(s)' /\ call'[<<s, "expend">>] = "idle"
  <2>1. call[<<s, "expend">>] = "idle"
    BY <1>f DEF IInv, Order
  <2>2. Landed(s, "relay")'
    BY <1>b, <1>j DEF Landed, Early
  <2> QED BY <1>c, <1>i, <2>1, <2>2 DEF Replaced, Entry
<1>m. \A b : <<<<s, "SessionExpend">>, b>> \in acks' \cup got' <=>
             <<<<s, "SessionExpend">>, b>> \in acks \cup got
  BY <1>e, <1>i, StreamAck
<1>n. \A d \in EndsOf(s) : NodeAt(d)' = NodeAt(d)
  BY <1>i, SamePeers
<1>1. Asked(s)'
  BY <1>i, <1>m DEF CalmInv, Asked
<1>2. Started(s)'
  BY <1>e, <1>i DEF CalmInv, Started, SetFrame
<1>3. Chosen(s)'
  BY <1>i DEF CalmInv, Chosen
<1>4. Keeps(s)'
  <2>1. \A m : Held(m, s)' = Held(m, s) \ {"sink"}
    BY <1>f, <1>g, <1>i, <1>j DEF Held
  <2>2. Held(n, s) \subseteq {"dial", "sink"}
    <3>1. Held(n, s) \subseteq Legs(x)
      BY <1>a, <1>b, <1>c DEF Keeps
    <3> QED BY <1>c, <3>1 DEF Legs
  <2>3. \A m \in Nodes : Held(m, s)' \subseteq Legs(session'[<<m, s>>])
    BY <1>a, <1>j, <1>k, <2>1, <2>2 DEF Keeps
  <2>4. \A p \in Purposes : call'[<<s, p>>] \notin {"insert", "later"} /\ handler'[<<s, p, "dst">>] # "set"
    BY <1>b, <1>g, <1>j
  <2> QED BY <2>3, <2>4 DEF Keeps
<1>5. Losses(s)'
  <2>1. ASSUME NEW d \in EndsOf(s), "Disconnect" \in inbox'[d] PROVE d = old
    <3>1. Wrote("Disconnect", FarEnds(n, s, {"sink"}))
      BY <1>i, Delivered
    <3>2. d \in FarEnds(n, s, {"sink"})
      BY <1>f, <2>1, <3>1 DEF Wrote, EndsOf
    <3>3. d[2] = "sink" /\ (d[3] = "dst" \/ Dst(s, "sink") = n)
      BY <3>2 DEF FarEnds
    <3>4. Dst(s, "sink") # n
      BY DEF Dst, AckInv, Peers
    <3> QED BY <3>3, <3>4, EndParts
  <2>2. \A d \in EndsOf(s) : handler'[d] # "close"
    BY <1>f, <1>j
  <2> QED BY <1>f, <1>j, <1>k, <1>l, <1>m, <2>1, <2>2 DEF Losses, Entry
<1>6. There(s)'
  BY <1>b, <1>g, <1>j DEF There
<1>7. Live(s)'
  BY <1>f, <1>j DEF Live
<1>8. Circuits(s)'
  <2>1. \A p \in {"direct", "answer"} : handler'[<<s, p, "dst">>] = handler[<<s, p, "dst">>]
    BY <1>e DEF SetFrame, Purposes
  <2> QED BY <1>f, <1>i, <2>1 DEF CalmInv, Circuits, Purposes
<1>9. Matched(s)'
  <2>1. ASSUME NEW d \in EndsOf(s), handler'[d] = "match"
        PROVE  <<NodeAt(d)', s>> \in probe' /\ call'[<<s, "expend">>] = "done"
    <3>1. handler[d] = "match"
      BY <1>j, <2>1
    <3> QED BY <1>i, <1>n, <3>1 DEF CalmInv, Matched, HasProbe
  <2> QED BY <2>1 DEF Matched, HasProbe
<1>10. Told(s)' => Stands(s)'
  <2>1. QuietSuccess(s)
    BY HandleQuiet DEF Quiet
  <2>2. Stands(s) => Stands(s)'
    BY <1>f, <1>i DEF Stands, Access
  <2> QED BY <2>1, <2>2, ToldBefore DEF CalmInv
<1> QED BY <1>i, <1>1, <1>2, <1>3, <1>4, <1>5, <1>6, <1>7, <1>8, <1>9, <1>10 DEF CalmInv

-----------------------------------------------------------------------------
(* dial and the loops, the steps that start a call.                          *)

\* A step that opens stream q starts the call for it.
LEMMA StartsThat ==
    ASSUME TypeOK, NEW s \in Sessions, NEW q \in Purposes, Moves(s), call[<<s, q>>] # "opening",
           call' = [call EXCEPT ![<<s, q>>] = "opening"]
    PROVE  StartFrame(s, q)
<1>1. call'[<<s, q>>] # call[<<s, q>>] /\ \A p \in Purposes \ {q} : call'[<<s, p>>] = call[<<s, p>>]
  BY DEF TypeOK, Streams
<1>2. PICK r \in Purposes : StartFrame(s, r)
  BY <1>1 DEF Moves, Still
<1>3. r = q
  BY <1>1, <1>2 DEF StartFrame
<1> QED BY <1>2, <1>3

\* No relay is in place before its stream was opened.
LEMMA NoRelayYet ==
    ASSUME IInv, NEW s \in Sessions, call[<<s, "relay">>] \in Unopened
    PROVE  ~Replaced(s)
BY DEF IInv, OpenedAt, Replaced, Landed, Early, Purposes

\* Starting a call keeps the invariant, if it keeps what is said of the control.
LEMMA StartKeepsCalm ==
    ASSUME IInv, NEW s \in Sessions, AckInv(s), CalmInv(s), NEW q \in Purposes, StartFrame(s, q),
           \/ call[<<s, q>>] = "idle"
           \/ q = "sink" /\ pc[<<s, "circ">>] = "sink"
           \/ q = "relay" /\ pc[<<s, "pub">>] = "relay",
           ~Replaced(s),
           q # "sink" => sink'[s] = sink[s], q # "relay" => relay'[s] = relay[s],
           UNCHANGED <<inbox, circuit, probe, hs, chan>>,
           Asked(s)', Chosen(s)',
           pc'[<<s, "dial">>] \in {"wait", "returned"} => pc[<<s, "dial">>] \in {"wait", "returned"}
    PROVE  CalmInv(s)'
<1>a. UNCHANGED <<clone, handler, snap, session, down, acks, got>>
  BY DEF StartFrame
<1>b. /\ call[<<s, q>>] \in {"idle", "failed"} /\ call'[<<s, q>>] = "opening"
      /\ \A p \in Purposes \ {q} : call'[<<s, p>>] = call[<<s, p>>] /\ call[<<s, p>>] \in {"idle", "done"}
      /\ \A p \in Purposes : call[<<s, p>>] \notin Unopened =>
           Src(s, p)' = Src(s, p) /\ Dst(s, p)' = Dst(s, p)
  BY DEF StartFrame
<1>c. ~Ended(s) /\ call[<<s, "expend">>] # "failed"
  BY <1>b DEF Ended, Purposes
<1>d. \A p \in Purposes : handler[<<s, p, "dst">>] \notin {"fresh", "set"}
  <2>1. ASSUME NEW p \in Purposes, handler[<<s, p, "dst">>] \in {"fresh", "set"} PROVE FALSE
    <3>1. call[<<s, p>>] \in {"written", "waiting"}
      BY <2>1, FreshCall DEF AckInv
    <3> QED BY <1>b, <3>1
  <2> QED BY <2>1
<1>e. \A p \in Purposes : <<s, p>> \notin down
  BY <1>c DEF CalmInv, Losses
<1>f. \A e \in EndsOf(s) : handler[e] \notin {"dead", "close"} /\ "Disconnect" \notin inbox[e]
  BY <1>e, EndParts DEF CalmInv, Losses, Live
<1>g. <<<<s, "SessionExpend">>, FALSE>> \notin acks \cup got
  BY <1>c DEF CalmInv, Losses
<1>h. ~Replaced(s)'
  <2>1. CASE q = "relay"
    <3>1. ~Landed(s, "relay")
      BY <1>b, <2>1 DEF IInv, OpenedAt, Landed, Early, Unopened
    <3> QED BY <1>a, <3>1 DEF Replaced, Landed
  <2>2. CASE q # "relay"
    BY <1>a, <2>2 DEF Replaced, Landed, Entry
  <2> QED BY <2>1, <2>2
<1>i. \A p \in Purposes : call'[<<s, p>>] \in {"idle", "done", "opening"}
  BY <1>b
<1>j. \A e \in EndsOf(s) : handler[e] # "off" => NodeAt(e)' = NodeAt(e)
  <2>1. ASSUME NEW e \in EndsOf(s), handler[e] # "off" PROVE NodeAt(e)' = NodeAt(e)
    <3>1. e = <<s, e[2], e[3]>> /\ e[2] \in Purposes /\ e[3] \in {"src", "dst"} /\ e[1] = s
      BY EndParts
    <3>2. call[<<s, e[2]>>] \notin Unopened
      BY <2>1, <3>1 DEF IInv, OpenedAt
    <3> QED BY <1>b, <3>1, <3>2 DEF NodeAt
  <2> QED BY <2>1
<1>k. \A p \in Purposes : call[<<s, p>>] = "done" => call'[<<s, p>>] = "done"
  BY <1>b
<1>1. Started(s)'
  BY <1>a, <1>b DEF CalmInv, Started, AfterAck
<1>2. Keeps(s)'
  <2>1. \A n : Held(n, s)' \subseteq Held(n, s)
    BY <1>a, <1>b DEF Held, Unopened
  <2>2. \A n \in Nodes : Held(n, s)' \subseteq Legs(session'[<<n, s>>])
    BY <1>a, <2>1 DEF CalmInv, Keeps
  <2> QED BY <1>a, <1>d, <1>i, <2>2 DEF Keeps
<1>3. Losses(s)'
  BY <1>a, <1>e, <1>f, <1>g, <1>h DEF Losses
<1>4. There(s)'
  BY <1>a, <1>d, <1>i DEF There
<1>5. Live(s)'
  BY <1>a, <1>f DEF Live
<1>6. Circuits(s)'
  BY <1>a DEF CalmInv, Circuits
<1>7. Matched(s)'
  <2>1. ASSUME NEW e \in EndsOf(s), handler'[e] = "match"
        PROVE  <<NodeAt(e)', s>> \in probe' /\ call'[<<s, "expend">>] = "done"
    <3>1. handler[e] = "match"
      BY <1>a, <2>1
    <3> QED BY <1>j, <1>k, <3>1 DEF CalmInv, Matched, HasProbe, Purposes
  <2> QED BY <2>1 DEF Matched, HasProbe
<1>8. Told(s)' => Stands(s)'
  <2>1. QuietSuccess(s)
    BY <1>a, QuietSame DEF Quiet
  <2>2. q = "sink" => call[<<s, "answer">>] # "done"
    BY <1>b DEF AckInv, Chain
  <2>3. Stands(s) => Stands(s)'
    BY <1>k, <2>2 DEF Stands, Access, Purposes
  <2> QED BY <2>1, <2>3, ToldBefore DEF CalmInv
<1> QED BY <1>1, <1>2, <1>3, <1>4, <1>5, <1>6, <1>7, <1>8 DEF CalmInv

\* The bootstrap is not chosen: a loop takes a candidate, or keeps the last one.
LEMMA NotBoot ==
    ASSUME NEW n, NEW pick \in PickRec, NEW others, NEW q \in Choices(n, pick, others),
           pick.peer # NoPeer => pick.peer # Boot
    PROVE  Try(pick, q).peer # NoPeer => Try(pick, q).peer # Boot
<1>1. Try(pick, q).peer = q
  BY DEF Try, PickRec
<1> QED BY <1>1 DEF Choices

\* dial starts with a stream to the proxy.
LEMMA DialStartCalm ==
    ASSUME IInv, NEW s \in Sessions, AckInv(s), CalmInv(s), DialStart(s)
    PROVE  CalmInv(s)'
<1> USE DEF callVars, readVars, nodeVars, hsVars, busVars, loopVars
<1>a. TypeOK /\ Order(s) /\ Chain(s) /\ Asked(s)
  BY DEF IInv, AckInv, CalmInv
<1>b. \A p \in Purposes : call[<<s, p>>] = "idle"
  BY <1>a DEF DialStart, Order, Chain, Purposes
<1>c. "dial" \in Purposes /\ call[<<s, "dial">>] = "idle" /\ call[<<s, "relay">>] = "idle"
  BY <1>b DEF Purposes
<1>1. StartFrame(s, "dial")
  <2>1. Moves(s) /\ call' = [call EXCEPT ![<<s, "dial">>] = "opening"]
    BY DialStartKeeps DEF DialStart
  <2> QED BY <1>a, <1>c, <2>1, StartsThat
<1>2. ~Replaced(s)
  BY <1>c, NoRelayYet DEF Unopened
<1>3. UNCHANGED <<inbox, circuit, probe, hs, chan, sink, relay, asked, acks, got>>
  BY DEF DialStart
<1>4. /\ pc'[<<s, "dial">>] = "session" /\ pc[<<s, "dial">>] = "idle"
      /\ \A x \in {"circ", "pub", "cmd"} : pc'[<<s, x>>] = pc[<<s, x>>]
  BY <1>a DEF DialStart, TypeOK, Tasks
<1>5. call'[<<s, "expend">>] = "idle"
  BY <1>a, <1>b DEF DialStart, TypeOK, Streams, Purposes
<1>6. Asked(s)'
  BY <1>a, <1>b, <1>3, <1>4, <1>5 DEF Asked, Purposes
<1>7. Chosen(s)'
  BY <1>3 DEF CalmInv, Chosen
<1> QED BY <1>c, <1>1, <1>2, <1>3, <1>4, <1>6, <1>7, StartKeepsCalm

\* handle_new_circuit starts with one stream to the remote client, or to a sink.
LEMMA EntryStartCalm ==
    ASSUME IInv, NEW s \in Sessions, AckInv(s), CalmInv(s), AcceptDirect(s) \/ AcceptSink(s) \/ RetrySink(s)
    PROVE  CalmInv(s)'
<1> USE DEF callVars, readVars, nodeVars, hsVars, busVars, loopVars
<1>a. TypeOK /\ Order(s) /\ Chain(s) /\ Asked(s) /\ Chosen(s) /\ Moves(s)
  BY EntryStartKeeps DEF IInv, AckInv, CalmInv
<1>b. /\ pc[<<s, "circ">>] \in {"idle", "sink"} /\ pc[<<s, "pub">>] = "idle"
      /\ call[<<s, "relay">>] = "idle" /\ call[<<s, "expend">>] = "idle"
  BY <1>a DEF Order, AcceptDirect, AcceptSink, RetrySink, TakeNewCircuit
<1>c. ~Replaced(s)
  BY <1>b, NoRelayYet DEF Unopened
<1>d. UNCHANGED <<inbox, circuit, probe, hs, chan, relay, acks, got>> /\ asked' \subseteq asked
  BY DEF AcceptDirect, AcceptSink, RetrySink, TakeNewCircuit
<1>e. /\ pc'[<<s, "dial">>] = pc[<<s, "dial">>] /\ pc'[<<s, "pub">>] = "idle"
      /\ pc[<<s, "dial">>] \in {"wait", "returned"}
  BY <1>a, <1>b DEF AcceptDirect, AcceptSink, RetrySink, TakeNewCircuit, TypeOK, Tasks, Asked
<1>f. call'[<<s, "expend">>] = "idle" /\ call'[<<s, "dial">>] = call[<<s, "dial">>]
  BY <1>a, <1>b DEF AcceptDirect, AcceptSink, RetrySink, TypeOK, Streams, Purposes
<1>1. Asked(s)'
  BY <1>a, <1>b, <1>d, <1>e, <1>f DEF Asked, BeforeExpend
<1>2. CASE AcceptDirect(s)
  <2>1. /\ "direct" \in Purposes /\ call[<<s, "direct">>] = "idle" /\ sink' = sink
        /\ call' = [call EXCEPT ![<<s, "direct">>] = "opening"]
    BY <1>a, <1>2 DEF AcceptDirect, TakeNewCircuit, Order, Purposes
  <2>2. StartFrame(s, "direct")
    BY <1>a, <2>1, StartsThat
  <2>3. Chosen(s)'
    BY <1>a, <1>d, <2>1 DEF Chosen
  <2> QED BY <1>c, <1>d, <1>e, <1>1, <2>1, <2>2, <2>3, StartKeepsCalm
<1>3. CASE AcceptSink(s) \/ RetrySink(s)
  <2>1. /\ "sink" \in Purposes /\ call[<<s, "sink">>] \in {"idle", "failed"}
        /\ call[<<s, "sink">>] = "idle" \/ pc[<<s, "circ">>] = "sink"
        /\ call' = [call EXCEPT ![<<s, "sink">>] = "opening"]
    BY <1>a, <1>3 DEF AcceptSink, RetrySink, TakeNewCircuit, Order, Purposes
  <2>2. StartFrame(s, "sink")
    BY <1>a, <2>1, StartsThat
  <2>3. Chosen(s)'
    <3>1. sink[s] \in PickRec /\ Reject(sink[s]) \in PickRec /\ Reject(sink[s]).peer = sink[s].peer
      BY <1>a, RejectType DEF TypeOK, Reject, PickRec
    <3>2. PICK pick \in PickRec : /\ pick.peer = sink[s].peer
                                  /\ \E q \in Choices(Entry(s), pick, {From[s]}) : sink'[s] = Try(pick, q)
      <4>1. CASE AcceptSink(s)
        BY <1>a, <3>1, <4>1 DEF AcceptSink, TypeOK
      <4>2. CASE RetrySink(s)
        BY <1>a, <3>1, <4>2 DEF RetrySink, TypeOK
      <4> QED BY <1>3, <4>1, <4>2
    <3>3. sink'[s].peer # NoPeer => sink'[s].peer # Boot
      BY <1>a, <3>2, NotBoot DEF Chosen
    <3> QED BY <1>a, <1>d, <3>3 DEF Chosen
  <2> QED BY <1>c, <1>d, <1>e, <1>1, <2>1, <2>2, <2>3, StartKeepsCalm
<1> QED BY <1>2, <1>3

\* process_publish_request goes on with a stream to the remote client, and with
\* one to a relay.
LEMMA AccessStartCalm ==
    ASSUME IInv, NEW s \in Sessions, AckInv(s), CalmInv(s), Decrypted(s) \/ PickRelay(s) \/ RetryRelay(s)
    PROVE  CalmInv(s)'
<1> USE DEF callVars, readVars, nodeVars, hsVars, busVars, loopVars
<1>a. TypeOK /\ Order(s) /\ Chain(s) /\ Asked(s) /\ Chosen(s) /\ Moves(s)
  BY AnswerStartKeeps, RelayStartKeeps DEF IInv, AckInv, CalmInv
<1>b. /\ pc[<<s, "pub">>] \in {"decrypt", "answer", "relay"}
      /\ call[<<s, "relay">>] \in {"idle", "failed"} /\ call[<<s, "expend">>] = "idle"
  BY <1>a DEF Order, Decrypted, PickRelay, RetryRelay
<1>c. ~Replaced(s)
  BY <1>b, NoRelayYet DEF Unopened
<1>d. UNCHANGED <<inbox, circuit, probe, hs, chan, sink, acks, got, asked>>
  BY DEF Decrypted, PickRelay, RetryRelay
<1>e. /\ pc'[<<s, "dial">>] = pc[<<s, "dial">>] /\ pc'[<<s, "circ">>] = pc[<<s, "circ">>]
  BY <1>a DEF Decrypted, PickRelay, RetryRelay, TypeOK, Tasks
<1>f. call'[<<s, "expend">>] = "idle" /\ call'[<<s, "dial">>] = call[<<s, "dial">>]
  BY <1>a, <1>b DEF Decrypted, PickRelay, RetryRelay, TypeOK, Streams, Purposes
<1>g. /\ <<s, "SessionExpend">> \notin asked
      /\ \A b \in BOOLEAN : <<<<s, "SessionExpend">>, b>> \notin acks \cup got
  BY <1>a, <1>b DEF Asked, BeforeExpend
<1>1. Asked(s)'
  BY <1>a, <1>d, <1>e, <1>f, <1>g DEF Asked
<1>2. CASE Decrypted(s)
  <2>1. /\ "answer" \in Purposes /\ call[<<s, "answer">>] = "idle" /\ relay' = relay
        /\ call' = [call EXCEPT ![<<s, "answer">>] = "opening"]
    BY <1>a, <1>2 DEF Decrypted, Order, Purposes
  <2>2. StartFrame(s, "answer")
    BY <1>a, <2>1, StartsThat
  <2>3. Chosen(s)'
    BY <1>a, <1>d, <2>1 DEF Chosen
  <2> QED BY <1>c, <1>d, <1>e, <1>1, <2>1, <2>2, <2>3, StartKeepsCalm
<1>3. CASE PickRelay(s) \/ RetryRelay(s)
  <2>1. /\ "relay" \in Purposes
        /\ call[<<s, "relay">>] = "idle" \/ pc[<<s, "pub">>] = "relay"
        /\ call' = [call EXCEPT ![<<s, "relay">>] = "opening"]
    BY <1>a, <1>3 DEF PickRelay, RetryRelay, Order, Purposes
  <2>2. StartFrame(s, "relay")
    BY <1>a, <1>b, <2>1, StartsThat
  <2>3. Chosen(s)'
    <3>1. relay[s] \in PickRec /\ Reject(relay[s]) \in PickRec /\ Reject(relay[s]).peer = relay[s].peer
      BY <1>a, RejectType DEF TypeOK, Reject, PickRec
    <3>2. PICK pick \in PickRec : /\ pick.peer = relay[s].peer
                                  /\ \E q \in Choices(Access(s), pick, NotAsRelay(s)) : relay'[s] = Try(pick, q)
      <4>1. CASE PickRelay(s)
        BY <1>a, <3>1, <4>1 DEF PickRelay, TypeOK
      <4>2. CASE RetryRelay(s)
        BY <1>a, <3>1, <4>2 DEF RetryRelay, TypeOK
      <4> QED BY <1>3, <4>1, <4>2
    <3>3. relay'[s].peer # NoPeer => relay'[s].peer # Boot
      BY <1>a, <3>2, NotBoot DEF Chosen
    <3> QED BY <1>a, <1>d, <3>3 DEF Chosen
  <2> QED BY <1>c, <1>d, <1>e, <1>1, <2>1, <2>2, <2>3, StartKeepsCalm
<1> QED BY <1>2, <1>3

\* The entry node that became the relay, too, splices two streams.
LEMMA ReplacedReady ==
    ASSUME IInv, NEW s \in Sessions, AckInv(s), CalmInv(s), ~Ended(s), Replaced(s),
           call[<<s, "relay">>] = "done"
    PROVE  Ready(session[<<Entry(s), s>>]) /\ Legs(session[<<Entry(s), s>>]) = {"dial", "relay"}
<1> DEFINE n == Entry(s)
           x == session[<<n, s>>]
<1>1. call[<<s, "dial">>] = "done" /\ "dial" \in Purposes /\ "relay" \in Purposes
  BY DEF AckInv, Chain, Purposes
<1>2. <<s, "dial">> \notin down /\ <<s, "relay">> \notin down
  BY <1>1 DEF CalmInv, Losses
<1>3. AckSeen(s, "dial") /\ AckSeen(s, "relay")
  BY <1>1 DEF AckInv, Acks, AfterAck, Acked, AckSeen
<1>4. Dst(s, "dial") = n /\ Dst(s, "relay") = n /\ n \in Nodes
  BY Parties DEF Dst, Replaced
<1>5. {"dial", "relay"} \subseteq Owed(n, s)
  BY <1>1, <1>2, <1>3, <1>4 DEF Owed
<1>6. {"dial", "relay"} \subseteq Legs(x)
  BY <1>4, <1>5 DEF AckInv, Copies, CopiesAt, Copy
<1> QED BY <1>6 DEF Legs, Ready

\* process_cmd_request extends the session from the relay to the sink.
LEMMA ExpendStartCalm ==
    ASSUME IInv, NEW s \in Sessions, AckInv(s), CalmInv(s), Expend(s)
    PROVE  CalmInv(s)'
<1> USE DEF callVars, readVars, nodeVars, hsVars, busVars, loopVars
<1>a. TypeOK /\ Order(s) /\ Chain(s) /\ Asked(s) /\ Chosen(s) /\ Moves(s)
  BY ExpendStartKeeps DEF IInv, AckInv, CalmInv
<1>b. "expend" \in Purposes /\ call[<<s, "expend">>] = "idle" /\ call[<<s, "relay">>] = "done"
      /\ <<s, "SessionExpend">> \in asked
  BY <1>a DEF Order, Expend, TakeExpend, Purposes
<1>c. call' = [call EXCEPT ![<<s, "expend">>] = "opening"]
  BY DEF Expend
<1>1. StartFrame(s, "expend")
  BY <1>a, <1>b, <1>c, StartsThat
<1>2. UNCHANGED <<inbox, circuit, probe, hs, chan, sink, relay, acks, got>>
      /\ asked' = asked \ {<<s, "SessionExpend">>}
  BY DEF Expend, TakeExpend
<1>3. \A x \in {"dial", "circ", "pub"} : pc'[<<s, x>>] = pc[<<s, x>>]
  BY <1>a DEF Expend, TypeOK, Tasks
<1>4. call'[<<s, "expend">>] = "opening" /\ call'[<<s, "dial">>] = call[<<s, "dial">>]
  BY <1>a, <1>c DEF TypeOK, Streams, Purposes
<1>5. Asked(s)'
  BY <1>a, <1>b, <1>2, <1>3, <1>4 DEF Asked
<1>6. Chosen(s)'
  BY <1>a, <1>2 DEF Chosen
<1>7. ~Replaced(s)
  <2>1. ~Ended(s)
    <3>1. \A p \in Purposes \ {"expend"} : call[<<s, p>>] \in {"idle", "done"}
      BY <1>1 DEF StartFrame
    <3> QED BY <1>b, <3>1 DEF Ended, Purposes
  <2>2. ~Ready(session[<<relay[s].peer, s>>])
    BY DEF Expend
  <2> QED BY <1>b, <2>1, <2>2, ReplacedReady DEF Replaced
<1> QED BY <1>b, <1>1, <1>2, <1>3, <1>5, <1>6, <1>7, StartKeepsCalm

-----------------------------------------------------------------------------
(* Steps that close a session, or notice that a stream has ended.            *)

\* Once a call has failed for good, nothing is being set up any more, and the
\* circuit does not stand.
LEMMA AfterFailure ==
    ASSUME IInv, NEW s \in Sessions, AckInv(s), Losses(s),
           NEW q \in {"sink", "answer", "relay", "expend"}, call[<<s, q>>] = "failed"
    PROVE  /\ \A p \in Purposes : /\ call[<<s, p>>] \in {"idle", "done", "failed"}
                                  /\ handler[<<s, p, "dst">>] \notin {"fresh", "set"}
           /\ call[<<s, "expend">>] # "done" /\ ~Stands(s)
           /\ call[<<s, "expend">>] # "idle" => q = "expend"
<1>a. Order(s) /\ Chain(s) /\ Acks(s) /\ q \in Purposes
  BY DEF IInv, AckInv, Purposes
<1>1. \A p \in Purposes \ {q} : call[<<s, p>>] \in {"idle", "done"}
  BY <1>a, Solo
<1>2. ASSUME NEW p \in Purposes, handler[<<s, p, "dst">>] \in {"fresh", "set"} PROVE FALSE
  <2>1. call[<<s, p>>] \in {"written", "waiting"}
    BY <1>a, <1>2, FreshCall
  <2> QED BY <1>1, <2>1
<1>3. call[<<s, "expend">>] # "done" /\ (call[<<s, "expend">>] # "idle" => q = "expend")
  BY <1>a DEF Order, Chain
<1>4. call[<<s, "direct">>] # "done"
  BY <1>a, <1>3 DEF Order, Chain
<1>5. call[<<s, "answer">>] = "done" => sink[s].peer # Access(s)
  BY <1>a, <1>3 DEF Order, Chain
<1>6. call[<<s, "relay">>] = "done" => ~Replaced(s)
  BY <1>a, <1>3 DEF Order, Chain, Losses
<1> QED BY <1>1, <1>2, <1>3, <1>4, <1>5, <1>6 DEF Stands

\* The relay, the access node and the remote client have no stream that leads to
\* the caller, when the relay could not extend the session.
LEMMA LegsBelow ==
    ASSUME IInv, NEW s \in Sessions, AckInv(s), Losses(s), call[<<s, "expend">>] = "failed",
           NEW n \in {Access(s), To[s], relay[s].peer}
    PROVE  Legs(session[<<n, s>>]) \subseteq {"answer", "relay"}
<1>1. /\ call[<<s, "relay">>] = "done" /\ call[<<s, "answer">>] = "done" /\ call[<<s, "sink">>] = "done"
      /\ call[<<s, "direct">>] = "idle" /\ sink[s].peer # Access(s)
  BY DEF IInv, Order, AckInv, Chain
<1>2. relay[s].peer \in Nodes /\ n \in Nodes
  <2>1. Dst(s, "relay") \in Nodes
    BY <1>1, EndsAreNodes DEF Unopened, Purposes
  <2> QED BY <2>1, Parties DEF Dst
<1>3. Landed(s, "relay")
  BY <1>1 DEF AckInv, Acks, AfterAck, Acked, AckSeen, Purposes
<1>4. relay[s].peer # Entry(s)
  BY <1>3 DEF Losses, Replaced
<1>5. relay[s].peer # NoPeer /\ Entry(s) # Access(s)
  BY <1>1, <1>2, CircuitAssumption, ProxiesApart DEF AckInv
<1>6. relay[s].peer # sink[s].peer /\ relay[s].peer # Access(s)
  BY <1>5 DEF AckInv, Peers
<1>7. ~Landed(s, "expend") /\ ~Landed(s, "direct")
  BY <1>1 DEF IInv, OpenedAt, Landed, Early, Unopened, Purposes
<1>8. Joined(n, s) \subseteq {"answer", "relay"}
  <2>1. ASSUME NEW p \in Joined(n, s) PROVE p \in {"answer", "relay"}
    <3>1. p \in Purposes /\ n \in {Src(s, p), Dst(s, p)} /\ p # "expend" /\ p # "direct"
      BY <1>1, <1>7 DEF Joined
    <3> QED BY <1>4, <1>5, <1>6, <1>1, <3>1, Parties DEF Purposes, Src, Dst
  <2> QED BY <2>1
<1> QED BY <1>2, <1>8 DEF AckInv, Copies, CopiesAt, Copy

\* A session that is closed when its stream q was told to be recorded: if the
\* stream is not in it, the stream has ended before.
LEMMA ClosesStream ==
    ASSUME IInv, NEW s \in Sessions, AckInv(s), NEW p \in Purposes, call[<<s, p>>] = "done"
    PROVE  /\ Dst(s, p) \in Nodes
           /\ p \in Legs(session[<<Dst(s, p), s>>]) \/ <<s, p>> \in down
<1>1. AckSeen(s, p)
  BY DEF AckInv, Acks, AfterAck, Acked, AckSeen
<1>2. Dst(s, p) \in Nodes
  BY EndsAreNodes DEF Unopened
<1>3. <<s, p>> \notin down => p \in Owed(Dst(s, p), s)
  BY <1>1 DEF Owed
<1> QED BY <1>2, <1>3 DEF AckInv, Copies, CopiesAt, Copy

\* Node n may have let go of session s, and closed the streams L of it.
LetGo(s, n, L) ==
    /\ UNCHANGED <<call, clone, snap, sink, relay>>
    /\ \A p \in Purposes : <<s, p>> \in down' <=> <<s, p>> \in down \/ p \in L
    /\ \A m \in Nodes : m # n => /\ session'[<<m, s>>] = session[<<m, s>>]
                                 /\ circuit'[<<m, s>>] = circuit[<<m, s>>]
                                 /\ <<m, s>> \in probe => <<m, s>> \in probe'
    /\ \/ /\ session'[<<n, s>>] = session[<<n, s>>] /\ circuit'[<<n, s>>] = circuit[<<n, s>>]
          /\ <<n, s>> \in probe => <<n, s>> \in probe'
          /\ L = {}
       \/ session'[<<n, s>>] = NoSession /\ L = Legs(session[<<n, s>>])
    /\ \A e \in EndsOf(s) :
         /\ \/ handler'[e] = handler[e]
            \/ /\ handler[e] \notin Early /\ <<s, e[2]>> \in down'
               /\ \/ handler'[e] = "dead" /\ e[2] \notin Legs(session'[<<NodeAt(e), s>>])
                  \/ handler'[e] = "close" /\ (Ended(s)' \/ e = <<s, "sink", "dst">>)
         /\ "Disconnect" \in inbox'[e] => "Disconnect" \in inbox[e]

\* Such a step keeps the invariant after a loop has given up, and when the sink
\* loses the stream that the entry node has replaced.
LEMMA LossKeeps ==
    ASSUME IInv, NEW s \in Sessions, AckInv(s), CalmInv(s), NEW n \in Nodes, NEW L, LetGo(s, n, L),
           QuietSuccess(s), Asked(s)', pc'[<<s, "dial">>] = pc[<<s, "dial">>],
           Ended(s) => Ended(s)',
           <<<<s, "SessionExpend">>, FALSE>> \in acks' \cup got' =>
             pc'[<<s, "cmd">>] = "done" /\ call[<<s, "expend">>] = "failed",
           \/ Ended(s)' /\ (call[<<s, "expend">>] = "failed" => L \subseteq {"answer", "relay"})
           \/ ~Ended(s)' /\ Replaced(s) /\ n = sink[s].peer
    PROVE  CalmInv(s)'
<1>a. UNCHANGED <<call, clone, snap, sink, relay>>
  BY DEF LetGo
<1>b. /\ \A p \in Purposes : Src(s, p)' = Src(s, p) /\ Dst(s, p)' = Dst(s, p)
      /\ \A e \in EndsOf(s) : NodeAt(e)' = NodeAt(e)
  BY <1>a, SamePeers
<1>c. \A p \in Purposes : <<s, p>> \in down' <=> <<s, p>> \in down \/ p \in L
  BY DEF LetGo
<1>d. \A m \in Nodes : session'[<<m, s>>] \in {session[<<m, s>>], NoSession}
  BY DEF LetGo
<1>e. \A e \in EndsOf(s) : handler'[e] # handler[e] =>
         /\ handler[e] \notin Early /\ handler'[e] \in {"dead", "close"} /\ <<s, e[2]>> \in down'
  BY DEF LetGo
<1>f. \A p \in Purposes : Landed(s, p)' <=> Landed(s, p)
  BY <1>e, EndNames DEF Landed, Early
<1>g. Replaced(s)' <=> Replaced(s)
  BY <1>a, <1>f DEF Replaced, Entry, Purposes
<1>h. ASSUME Ended(s)'
      PROVE  /\ \A p \in Purposes : /\ call[<<s, p>>] \in {"idle", "done", "failed"}
                                    /\ handler[<<s, p, "dst">>] \notin {"fresh", "set"}
             /\ call[<<s, "expend">>] # "done" /\ ~Stands(s)
  <2>1. \E q \in {"sink", "answer", "relay", "expend"} : call[<<s, q>>] = "failed"
    BY <1>a, <1>h DEF Ended
  <2> QED BY <2>1, AfterFailure DEF CalmInv
<1>i. ASSUME ~Ended(s)'
      PROVE  /\ Replaced(s) /\ n = sink[s].peer /\ call[<<s, "expend">>] = "idle"
             /\ n \notin Clients /\ n # Entry(s) /\ n # Access(s)
             /\ \A p \in Purposes : handler[<<s, p, "dst">>] # "set"
             /\ L \subseteq {"sink"}
  <2>1. Replaced(s) /\ n = sink[s].peer /\ call[<<s, "expend">>] = "idle"
    BY <1>i DEF CalmInv, Losses
  <2>2. \A p \in Purposes : handler[<<s, p, "dst">>] # "set"
    BY <2>1, SettingUp
  <2>3. call[<<s, "relay">>] \notin Unopened
    BY <2>1 DEF Replaced, IInv, OpenedAt, Landed, Early, Purposes
  <2>4. /\ sink[s].peer # Access(s) /\ sink[s].peer # Entry(s) /\ sink[s].peer # relay[s].peer
        /\ sink[s].peer \notin Clients /\ relay[s].peer # NoPeer
    BY <2>1, <2>3, Parties, CircuitAssumption DEF AckInv, Chain, Peers, Replaced, Unopened, Nodes
  <2>5. ~Landed(s, "expend")
    BY <2>1 DEF IInv, OpenedAt, Landed, Early, Unopened, Purposes
  <2>6. Joined(n, s) \subseteq {"sink"}
    <3>1. ASSUME NEW p \in Joined(n, s) PROVE p = "sink"
      <4>1. p \in Purposes /\ n \in {Src(s, p), Dst(s, p)} /\ p # "expend"
        BY <2>1, <2>5 DEF Joined
      <4> QED BY <2>1, <2>4, <4>1, Parties DEF Purposes, Src, Dst
    <3> QED BY <3>1
  <2>7. Legs(session[<<n, s>>]) \subseteq {"sink"}
    BY <2>6 DEF AckInv, Copies, CopiesAt, Copy
  <2> QED BY <2>1, <2>2, <2>4, <2>7 DEF LetGo
<1>j. From[s] \in Nodes /\ To[s] \in Nodes /\ Entry(s) \in Nodes /\ From[s] \in Clients /\ To[s] \in Clients
  BY Parties
<1>k. "sink" \in Purposes /\ "dial" \in Purposes /\ "direct" \in Purposes /\ "answer" \in Purposes /\ "expend" \in Purposes
  BY DEF Purposes
<1>1. Started(s)'
  BY <1>a, <1>e, EndNames DEF CalmInv, Started
<1>2. Chosen(s)'
  BY <1>a DEF CalmInv, Chosen
<1>3. Keeps(s)'
  <2>1. \A m : Held(m, s)' = Held(m, s) \ L
    BY <1>a, <1>b, <1>c DEF Held
  <2>2. ASSUME NEW m \in Nodes PROVE Held(m, s)' \subseteq Legs(session'[<<m, s>>])
    <3>1. Held(m, s) \subseteq Legs(session[<<m, s>>])
      BY DEF CalmInv, Keeps
    <3>2. CASE session'[<<m, s>>] = session[<<m, s>>]
      BY <2>1, <3>1, <3>2
    <3>3. CASE session'[<<m, s>>] # session[<<m, s>>]
      <4>1. m = n /\ L = Legs(session[<<n, s>>])
        BY <3>3 DEF LetGo
      <4> QED BY <2>1, <3>1, <4>1
    <3> QED BY <3>2, <3>3
  <2>3. ASSUME NEW p \in Purposes
        PROVE  /\ call'[<<s, p>>] = "insert" => Held(Src(s, p), s)' = {}
               /\ call'[<<s, p>>] = "later" => Held(Src(s, p), s)' \subseteq Legs(clone'[<<s, p>>])
    BY <1>a, <1>b, <2>1 DEF CalmInv, Keeps
  <2>4. ASSUME NEW p \in Purposes, handler'[<<s, p, "dst">>] = "set" PROVE FALSE
    <3>1. handler[<<s, p, "dst">>] = "set"
      BY <1>e, <2>4, EndNames
    <3> QED BY <1>h, <1>i, <3>1
  <2> QED BY <2>2, <2>3, <2>4 DEF Keeps
<1>4. Losses(s)'
  <2>a. Losses(s)
    BY DEF CalmInv
  <2>1. \A p \in Purposes : <<s, p>> \in down' => Ended(s)' \/ (p = "sink" /\ Replaced(s)')
    BY <1>c, <1>g, <1>i, <2>a DEF Losses
  <2>2. ASSUME NEW p \in Purposes, <<s, p>> \in down', call'[<<s, "expend">>] # "idle"
        PROVE  p \in {"answer", "relay"}
    <3>1. call[<<s, "expend">>] = "failed" /\ Ended(s)'
      BY <1>a, <1>h, <1>i, <1>k, <2>2
    <3> QED BY <1>c, <2>2, <2>a, <3>1 DEF Losses
  <2>3. ASSUME NEW e \in EndsOf(s), handler'[e] = "close"
        PROVE  <<s, e[2]>> \in down' /\ (Ended(s)' \/ e = <<s, "sink", "dst">>)
    <3>1. e[2] \in Purposes
      BY EndParts
    <3>2. CASE handler'[e] = handler[e]
      BY <1>c, <2>3, <2>a, <3>1, <3>2 DEF Losses
    <3>3. CASE handler'[e] # handler[e]
      BY <2>3, <3>3 DEF LetGo
    <3> QED BY <3>2, <3>3
  <2>4. \A e \in EndsOf(s) : "Disconnect" \in inbox'[e] => e = <<s, "sink", "dst">> /\ Replaced(s)'
    BY <1>g, <2>a DEF Losses, LetGo
  <2>5. Replaced(s)' => call'[<<s, "expend">>] = "idle" /\ "sink" \notin Legs(session'[<<Entry(s), s>>])
    <3>1. "sink" \notin Legs(NoSession)
      BY DEF Legs, NoSession
    <3> QED BY <1>a, <1>d, <1>g, <1>j, <2>a, <3>1 DEF Losses
  <2> QED BY <1>a, <2>1, <2>2, <2>3, <2>4, <2>5 DEF Losses, Entry
<1>5. There(s)'
  <2>1. ASSUME NEW p \in Purposes, call'[<<s, p>>] = "clone"
        PROVE  IsSome(session'[<<Src(s, p)', s>>])
    <3>1. call[<<s, p>>] = "clone" /\ Src(s, p) \in Nodes
      BY <1>a, <2>1, EndsAreNodes
    <3>2. ~Ended(s)'
      BY <1>h, <3>1
    <3>3. p = "relay"
      BY <1>i, <3>1, <3>2, UnderWay
    <3>4. Src(s, p) # n
      BY <1>i, <3>2, <3>3 DEF Src
    <3> QED BY <1>b, <3>1, <3>4 DEF CalmInv, There, LetGo
  <2>2. ASSUME NEW p \in Purposes, handler'[<<s, p, "dst">>] = "set" PROVE FALSE
    <3>1. handler[<<s, p, "dst">>] = "set"
      BY <1>e, <2>2, EndNames
    <3> QED BY <1>h, <1>i, <3>1
  <2> QED BY <2>1, <2>2 DEF There
<1>6. Live(s)'
  <2>1. ASSUME NEW e \in EndsOf(s), handler'[e] = "dead"
        PROVE  <<s, e[2]>> \in down' /\ e[2] \notin Legs(session'[<<NodeAt(e)', s>>])
    <3>1. e[2] \in Purposes
      BY EndParts
    <3>2. CASE handler'[e] = handler[e]
      <4>1. handler[e] = "dead" /\ NodeAt(e) \in Nodes
        BY <2>1, <3>2, EndIsNode
      <4>2. Legs(NoSession) = {}
        BY DEF Legs, NoSession
      <4> QED BY <1>b, <1>c, <1>d, <3>1, <4>1, <4>2 DEF CalmInv, Live
    <3>3. CASE handler'[e] # handler[e]
      BY <1>b, <2>1, <3>3 DEF LetGo
    <3> QED BY <3>2, <3>3
  <2> QED BY <2>1 DEF Live
<1>7. Circuits(s)'
  <2>1. ASSUME pc'[<<s, "dial">>] \in {"wait", "returned"}, <<s, "dial">> \notin down'
        PROVE  circuit'[<<From[s], s>>] # "none"
    <3>1. circuit[<<From[s], s>>] # "none" /\ call[<<s, "dial">>] = "done"
      BY <1>c, <1>k, <2>1 DEF CalmInv, Circuits, Asked
    <3>2. "dial" \in Held(From[s], s)
      BY <1>c, <1>k, <2>1, <3>1 DEF Held, Src
    <3>3. "dial" \in Legs(session[<<From[s], s>>]) /\ "dial" \notin L
      BY <1>c, <1>j, <1>k, <2>1, <3>2 DEF CalmInv, Keeps
    <3> QED BY <1>j, <3>1, <3>3 DEF LetGo
  <2>2. ASSUME NEW p \in {"direct", "answer"}, handler'[<<s, p, "dst">>] \notin {"off", "fresh"},
               <<s, p>> \notin down'
        PROVE  circuit'[<<To[s], s>>] # "none"
    <3>1. handler[<<s, p, "dst">>] \notin {"off", "fresh"} /\ <<s, p>> \notin down /\ p \notin L
      BY <1>c, <1>e, <1>k, <2>2, EndNames DEF Early
    <3>2. circuit[<<To[s], s>>] # "none"
      BY <3>1 DEF CalmInv, Circuits
    <3>3. CASE Ended(s)'
      <4>1. call[<<s, p>>] = "done"
        BY <1>h, <1>k, <3>1, <3>3 DEF IInv, OpenedAt, Unopened
      <4>2. Dst(s, p) = To[s]
        BY DEF Dst
      <4>3. p \in Legs(session[<<To[s], s>>])
        BY <1>k, <3>1, <4>1, <4>2, ClosesStream
      <4> QED BY <1>j, <3>1, <3>2, <4>3 DEF LetGo
    <3>4. CASE ~Ended(s)'
      BY <1>i, <1>j, <3>2, <3>4 DEF LetGo
    <3> QED BY <3>3, <3>4
  <2> QED BY <2>1, <2>2 DEF Circuits
<1>8. Matched(s)'
  <2>1. ASSUME NEW e \in EndsOf(s), handler'[e] = "match" PROVE FALSE
    <3>1. handler[e] = "match"
      BY <1>e, <2>1
    <3> QED BY <1>h, <1>i, <3>1 DEF CalmInv, Matched
  <2> QED BY <2>1 DEF Matched
<1>9. Told(s)' => Stands(s)'
  <2>1. Stands(s) => Stands(s)'
    BY <1>a, <1>g DEF Stands, Access
  <2> QED BY <2>1, ToldBefore DEF CalmInv
<1> QED BY <1>1, <1>2, <1>3, <1>4, <1>5, <1>6, <1>7, <1>8, <1>9 DEF CalmInv

\* handle_close_session lets go of the session.
LEMMA CloseLetsGo ==
    ASSUME TypeOK, NEW s \in Sessions, NEW n \in Nodes, CloseSession(n, s)
    PROVE  /\ \A p \in Purposes : <<s, p>> \in down' <=> <<s, p>> \in down \/ p \in Legs(session[<<n, s>>])
           /\ \A m \in Nodes : m # n => /\ session'[<<m, s>>] = session[<<m, s>>]
                                        /\ circuit'[<<m, s>>] = circuit[<<m, s>>]
                                        /\ <<m, s>> \in probe => <<m, s>> \in probe'
           /\ session'[<<n, s>>] = NoSession
           /\ \A p : p \notin Legs(session'[<<n, s>>])
<1>1. \A p : <<s, p>> \in {<<s, q>> : q \in Legs(session[<<n, s>>])} <=> p \in Legs(session[<<n, s>>])
  OBVIOUS
<1>2. session'[<<n, s>>] = NoSession
  BY DEF CloseSession, TypeOK
<1>3. \A p \in Purposes : <<s, p>> \in down' <=> <<s, p>> \in down \/ p \in Legs(session[<<n, s>>])
  BY <1>1 DEF CloseSession
<1>4. \A m \in Nodes : m # n => /\ session'[<<m, s>>] = session[<<m, s>>]
                                /\ circuit'[<<m, s>>] = circuit[<<m, s>>]
                                /\ <<m, s>> \in probe => <<m, s>> \in probe'
  BY DEF CloseSession, TypeOK
<1>5. \A p : p \notin Legs(session'[<<n, s>>])
  BY <1>2 DEF Legs, NoSession
<1> QED BY <1>2, <1>3, <1>4, <1>5

\* Which loops have given up, and what they have asked for, is not up to handlers.
LEMMA HandlersAside ==
    ASSUME NEW s \in Sessions, Asked(s), UNCHANGED <<call, pc, asked, acks, got>>
    PROVE  Asked(s)' /\ (Ended(s)' <=> Ended(s))
BY DEF Asked, Ended

\* A handler is told to disconnect, or closes the session after a read error.
LEMMA CloseCalm ==
    ASSUME IInv, NEW s \in Sessions, AckInv(s), CalmInv(s), NEW e \in Ends, e[1] = s,
           TakeDisconnect(e) \/ CloseOnErr(e)
    PROVE  CalmInv(s)' /\ poisoned' = poisoned
<1> USE DEF callVars, readVars, nodeVars, hsVars, busVars, loopVars
<1> DEFINE n == NodeAt(e)
           L == Legs(session[<<n, s>>])
<1>a. /\ TypeOK /\ e \in EndsOf(s) /\ \A d \in EndsOf(s) : d \in Ends
      /\ e = <<s, e[2], e[3]>> /\ e[2] \in Purposes /\ e[3] \in {"src", "dst"}
      /\ n = (IF e[3] = "src" THEN Src(s, e[2]) ELSE Dst(s, e[2]))
  BY EndParts DEF IInv, EndsOf
<1>b. /\ UNCHANGED <<call, clone, snap, sink, relay, pc, asked, acks, got, poisoned>>
      /\ CloseSession(n, s) /\ handler[e] \in {"read", "close"}
      /\ handler'[e] = "dead" /\ \A d \in EndsOf(s) : d # e => handler'[d] = handler[d]
      /\ \A d \in EndsOf(s) : "Disconnect" \in inbox'[d] => "Disconnect" \in inbox[d]
  BY <1>a DEF TakeDisconnect, CloseOnErr, TypeOK
<1>c. n \in Nodes
  BY <1>a, <1>b, EndIsNode
<1>d. Asked(s)' /\ (Ended(s)' <=> Ended(s))
  BY <1>b, HandlersAside DEF CalmInv
<1>e. QuietSuccess(s)
  BY HandleQuiet DEF Quiet
<1>f. \/ Ended(s) /\ <<s, e[2]>> \in down
      \/ ~Ended(s) /\ e = <<s, "sink", "dst">> /\ Replaced(s)
      \/ Ended(s) /\ e = <<s, "sink", "dst">> /\ Replaced(s)
  BY <1>a DEF CalmInv, Losses, TakeDisconnect, CloseOnErr
<1>g. ASSUME e = <<s, "sink", "dst">>, Replaced(s) PROVE n = sink[s].peer /\ (<<s, "sink">> \in down \/ "sink" \in L)
  <2>1. n = sink[s].peer /\ e[2] = "sink" /\ "sink" \in Purposes
    BY <1>a, <1>g DEF Dst, Purposes
  <2>2. call[<<s, "sink">>] = "done"
    BY <1>g DEF AckInv, Chain, Replaced, IInv, OpenedAt, Landed, Early, Unopened, Purposes
  <2> QED BY <2>1, <2>2, ClosesStream DEF Dst
<1>h. e = <<s, "sink", "dst">> => n = sink[s].peer
  BY <1>a DEF Dst
<1>i. /\ \A p \in Purposes : <<s, p>> \in down' <=> <<s, p>> \in down \/ p \in L
      /\ \A m \in Nodes : m # n => /\ session'[<<m, s>>] = session[<<m, s>>]
                                   /\ circuit'[<<m, s>>] = circuit[<<m, s>>]
                                   /\ <<m, s>> \in probe => <<m, s>> \in probe'
      /\ session'[<<n, s>>] = NoSession
      /\ \A p : p \notin Legs(session'[<<n, s>>])
  BY <1>a, <1>b, <1>c, CloseLetsGo
<1>j. <<s, e[2]>> \in down'
  BY <1>a, <1>f, <1>g, <1>i
<1>1. LetGo(s, n, L)
  BY <1>b, <1>i, <1>j DEF LetGo, Early
<1>2. call[<<s, "expend">>] = "failed" => L \subseteq {"answer", "relay"}
  <2> SUFFICES ASSUME call[<<s, "expend">>] = "failed" PROVE L \subseteq {"answer", "relay"}
    OBVIOUS
  <2>1. Losses(s) /\ ~Replaced(s)
    BY DEF CalmInv, Losses
  <2>2. e[2] \in {"answer", "relay"}
    BY <1>a, <1>f, <2>1 DEF Losses
  <2>3. n \in {Access(s), To[s], relay[s].peer}
    BY <1>a, <2>2 DEF Src, Dst
  <2> QED BY <2>1, <2>3, LegsBelow
<1>3. <<<<s, "SessionExpend">>, FALSE>> \in acks' \cup got' =>
        pc'[<<s, "cmd">>] = "done" /\ call[<<s, "expend">>] = "failed"
  BY <1>b DEF CalmInv, Losses
<1> QED BY <1>b, <1>c, <1>d, <1>e, <1>f, <1>h, <1>1, <1>2, <1>3, LossKeeps

\* A handler notices that its stream has ended.
LEMMA ErrCalm ==
    ASSUME IInv, NEW s \in Sessions, AckInv(s), CalmInv(s), NEW e \in Ends, e[1] = s, TakeErr(e)
    PROVE  CalmInv(s)' /\ poisoned' = poisoned
<1> USE DEF callVars, readVars, nodeVars, hsVars, busVars, loopVars
<1> DEFINE n == IF Ended(s) THEN Entry(s) ELSE sink[s].peer
<1>a. /\ TypeOK /\ e \in EndsOf(s) /\ \A d \in EndsOf(s) : d \in Ends
      /\ e = <<s, e[2], e[3]>> /\ e[2] \in Purposes /\ e[3] \in {"src", "dst"}
      /\ NodeAt(e) = (IF e[3] = "src" THEN Src(s, e[2]) ELSE Dst(s, e[2]))
  BY EndParts DEF IInv, EndsOf
<1>b. /\ UNCHANGED <<call, clone, snap, sink, relay, pc, asked, acks, got, poisoned, down, session, circuit, probe>>
      /\ <<s, e[2]>> \in down
      /\ \A d \in EndsOf(s) : d # e => handler'[d] = handler[d]
      /\ \A d \in EndsOf(s) : "Disconnect" \in inbox'[d] => "Disconnect" \in inbox[d]
  BY <1>a DEF TakeErr, TypeOK
<1>c. handler[e] = "read"
  <2>1. CASE e[3] = "src"
    <3>1. handler[<<s, e[2], "src">>] \notin {"fresh", "set"}
      BY <1>a DEF AckInv, Acks
    <3> QED BY <1>a, <2>1, <3>1 DEF TakeErr
  <2>2. CASE e[3] = "dst"
    <3>1. ASSUME handler[<<s, e[2], "dst">>] = "fresh" PROVE FALSE
      <4> DEFINE q == e[2]
      <4>1. q \in Purposes /\ handler[<<s, q, "dst">>] \in {"fresh", "set"} /\ <<s, q>> \in down
        BY <1>a, <1>b, <3>1
      <4> HIDE DEF q
      <4> QED BY <4>1, SettingUp
    <3> QED BY <1>a, <2>2, <3>1 DEF TakeErr
  <2> QED BY <1>a, <2>1, <2>2
<1>d. handler'[e] = (IF e[2] \in Legs(session[<<NodeAt(e), s>>]) THEN "close" ELSE "dead")
  BY <1>a, <1>c DEF TakeErr, TypeOK, FindStream
<1>e. Asked(s)' /\ (Ended(s)' <=> Ended(s))
  BY <1>b, HandlersAside DEF CalmInv
<1>f. QuietSuccess(s)
  BY HandleQuiet DEF Quiet
<1>g. Ended(s) \/ (e[2] = "sink" /\ Replaced(s))
  BY <1>a, <1>b DEF CalmInv, Losses
<1>h. n \in Nodes
  <2>1. CASE Ended(s)
    BY <2>1, Parties
  <2>2. CASE ~Ended(s)
    <3>1. call[<<s, "sink">>] \notin Unopened /\ "sink" \in Purposes
      BY <1>a, <1>c, <1>g, <2>2 DEF IInv, OpenedAt
    <3> QED BY <2>2, <3>1, EndsAreNodes DEF Dst
  <2> QED BY <2>1, <2>2
<1>i. handler'[e] = "close" => Ended(s)' \/ e = <<s, "sink", "dst">>
  <2> SUFFICES ASSUME handler'[e] = "close", ~Ended(s) PROVE e[3] = "dst"
    BY <1>a, <1>e, <1>g
  <2>1. e[2] = "sink" /\ "sink" \notin Legs(session[<<Entry(s), s>>])
    BY <1>g DEF CalmInv, Losses
  <2> QED BY <1>a, <1>d, <2>1 DEF Src
<1>1. LetGo(s, n, {})
  <2>1. \A d \in EndsOf(s) :
         /\ \/ handler'[d] = handler[d]
            \/ /\ handler[d] \notin Early /\ <<s, d[2]>> \in down'
               /\ \/ handler'[d] = "dead" /\ d[2] \notin Legs(session'[<<NodeAt(d), s>>])
                  \/ handler'[d] = "close" /\ (Ended(s)' \/ d = <<s, "sink", "dst">>)
         /\ "Disconnect" \in inbox'[d] => "Disconnect" \in inbox[d]
    BY <1>b, <1>c, <1>d, <1>i DEF Early
  <2> HIDE DEF n
  <2> QED BY <1>b, <2>1 DEF LetGo
<1>2. <<<<s, "SessionExpend">>, FALSE>> \in acks' \cup got' =>
        pc'[<<s, "cmd">>] = "done" /\ call[<<s, "expend">>] = "failed"
  BY <1>b DEF CalmInv, Losses
<1>3. \/ Ended(s)' /\ (call[<<s, "expend">>] = "failed" => {} \subseteq {"answer", "relay"})
      \/ ~Ended(s)' /\ Replaced(s) /\ n = sink[s].peer
  BY <1>e, <1>g
<1> HIDE DEF n
<1> QED BY <1>b, <1>e, <1>f, <1>h, <1>1, <1>2, <1>3, LossKeeps

\* A loop lets go of the session.
LEMMA LoopLetsGo ==
    ASSUME TypeOK, NEW s \in Sessions, NEW n \in Nodes, CloseSession(n, s),
           UNCHANGED <<call, clone, handler, snap, inbox, sink, relay>>
    PROVE  LetGo(s, n, Legs(session[<<n, s>>]))
<1>1. /\ \A p \in Purposes : <<s, p>> \in down' <=> <<s, p>> \in down \/ p \in Legs(session[<<n, s>>])
      /\ \A m \in Nodes : m # n => /\ session'[<<m, s>>] = session[<<m, s>>]
                                   /\ circuit'[<<m, s>>] = circuit[<<m, s>>]
                                   /\ <<m, s>> \in probe => <<m, s>> \in probe'
      /\ session'[<<n, s>>] = NoSession
  BY CloseLetsGo
<1> QED BY <1>1 DEF LetGo

\* The proxy loop has found no sink.
LEMMA GiveUpSinkCalm ==
    ASSUME IInv, NEW s \in Sessions, AckInv(s), CalmInv(s), GiveUpSink(s)
    PROVE  CalmInv(s)'
<1> USE DEF callVars, readVars, nodeVars, hsVars, busVars, loopVars
<1> DEFINE n == Entry(s)
           L == Legs(session[<<n, s>>])
<1>a. TypeOK /\ n \in Nodes
  BY Parties DEF IInv
<1>b. /\ UNCHANGED <<call, clone, handler, snap, inbox, sink, relay, asked>>
      /\ CloseSession(n, s) /\ call[<<s, "sink">>] = "failed"
      /\ pc'[<<s, "circ">>] = "done"
      /\ \A x \in {"dial", "pub", "cmd"} : pc'[<<s, x>>] = pc[<<s, x>>]
      /\ pc[<<s, "circ">>] = "sink"
  BY <1>a DEF GiveUpSink, TypeOK, Tasks
<1>c. \A b : <<<<s, "SessionExpend">>, b>> \in acks' \cup got' <=>
             <<<<s, "SessionExpend">>, b>> \in acks \cup got
  <2> DEFINE v == FALSE
  <2>1. SendAck(<<s, "NewCircuit">>, v) /\ got' = got
    BY DEF GiveUpSink
  <2> HIDE DEF v
  <2>2. \A b : <<<<s, "SessionExpend">>, b>> \in acks' \cup got' <=>
               <<<<s, "SessionExpend">>, b>> \in acks \cup got \/ ("NewCircuit" = "SessionExpend" /\ b = v)
    BY <2>1, NewAck
  <2> QED BY <2>2
<1>1. LetGo(s, n, L)
  BY <1>a, <1>b, LoopLetsGo
<1>2. Ended(s)'
  BY <1>b DEF Ended
<1>3. call[<<s, "expend">>] = "idle"
  BY <1>b, AfterFailure DEF CalmInv
<1>4. Asked(s)'
  <2>1. Asked(s) /\ pc[<<s, "dial">>] \in {"wait", "returned"}
    BY <1>b DEF CalmInv, Asked
  <2> QED BY <1>b, <1>c, <2>1 DEF Asked, BeforeExpend
<1>5. QuietSuccess(s)
  <2>1. handler' = handler /\ hs' = hs /\ chan' = chan /\ probe' \subseteq probe /\ inbox' = inbox
    BY <1>b DEF GiveUpSink, CloseSession
  <2> QED BY <2>1, QuietSame DEF Quiet
<1>6. <<<<s, "SessionExpend">>, FALSE>> \in acks' \cup got' =>
        pc'[<<s, "cmd">>] = "done" /\ call[<<s, "expend">>] = "failed"
  BY <1>b, <1>c DEF CalmInv, Losses
<1>7. pc'[<<s, "dial">>] = pc[<<s, "dial">>]
  BY <1>b
<1>8. Ended(s)' /\ (call[<<s, "expend">>] = "failed" => L \subseteq {"answer", "relay"})
  BY <1>2, <1>3
<1> HIDE DEF n, L
<1> QED BY <1>a, <1>1, <1>2, <1>4, <1>5, <1>6, <1>7, <1>8, LossKeeps

\* The publish loop has no stream to the client, no relay, or the relay could not
\* extend the session.
LEMMA GiveUpPubCalm ==
    ASSUME IInv, NEW s \in Sessions, AckInv(s), CalmInv(s), GiveUpPub(s)
    PROVE  CalmInv(s)'
<1> USE DEF callVars, readVars, nodeVars, hsVars, busVars, loopVars
<1> DEFINE n == Access(s)
           L == Legs(session[<<n, s>>])
<1>a. TypeOK /\ Order(s) /\ n \in Nodes
  BY Parties DEF IInv
<1>b. /\ UNCHANGED <<call, clone, handler, snap, inbox, sink, relay, asked, acks, got>>
      /\ CloseSession(n, s) /\ PubFailed(s)
      /\ pc'[<<s, "pub">>] = "done"
      /\ \A x \in {"dial", "circ", "cmd"} : pc'[<<s, x>>] = pc[<<s, x>>]
  BY <1>a DEF GiveUpPub, TypeOK, Tasks
<1>c. /\ Asked(s) /\ Losses(s)
      /\ \A x \in {"dial", "circ", "cmd"} : pc'[<<s, x>>] = pc[<<s, x>>]
  BY <1>b DEF CalmInv
<1>d. \/ pc[<<s, "pub">>] = "answer" /\ call[<<s, "answer">>] = "failed"
      \/ pc[<<s, "pub">>] = "relay" /\ call[<<s, "relay">>] = "failed"
      \/ pc[<<s, "pub">>] = "expend" /\ <<<<s, "SessionExpend">>, FALSE>> \in acks \cup got
  BY <1>b DEF PubFailed, Acked
<1>1. LetGo(s, n, L)
  BY <1>a, <1>b, LoopLetsGo
<1>2. Ended(s)'
  BY <1>b, <1>c, <1>d DEF Ended, Losses
<1>3. call[<<s, "expend">>] = "failed" => L \subseteq {"answer", "relay"}
  BY <1>c, LegsBelow
<1>4. Asked(s)'
  <2>1. <<s, "SessionExpend">> \notin asked /\ call[<<s, "expend">>] \in {"idle", "done", "failed"}
    BY <1>a, <1>c, <1>d DEF Asked, Order
  <2>2. /\ pc'[<<s, "dial">>] = pc[<<s, "dial">>] /\ pc'[<<s, "circ">>] = pc[<<s, "circ">>]
        /\ pc'[<<s, "pub">>] = "done" /\ "done" \notin BeforeExpend
        /\ call' = call /\ asked' = asked /\ acks' = acks /\ got' = got
    BY <1>b DEF BeforeExpend
  <2> QED BY <1>c, <2>1, <2>2 DEF Asked, BeforeExpend
<1>5. QuietSuccess(s)
  <2>1. handler' = handler /\ hs' = hs /\ chan' = chan /\ probe' \subseteq probe /\ inbox' = inbox
    BY <1>b DEF GiveUpPub, CloseSession
  <2> QED BY <2>1, QuietSame DEF Quiet
<1>6. <<<<s, "SessionExpend">>, FALSE>> \in acks' \cup got' =>
        pc'[<<s, "cmd">>] = "done" /\ call[<<s, "expend">>] = "failed"
  BY <1>b, <1>c DEF Losses
<1>7. pc'[<<s, "dial">>] = pc[<<s, "dial">>]
  BY <1>b
<1> HIDE DEF n, L
<1> QED BY <1>a, <1>1, <1>2, <1>3, <1>4, <1>5, <1>6, <1>7, LossKeeps

\* The cmd loop could not extend the session.
LEMMA ExpendFailedCalm ==
    ASSUME IInv, NEW s \in Sessions, AckInv(s), CalmInv(s), ExpendFailed(s)
    PROVE  CalmInv(s)'
<1> USE DEF callVars, readVars, nodeVars, hsVars, busVars, loopVars
<1> DEFINE n == relay[s].peer
           L == Legs(session[<<n, s>>])
<1>a. TypeOK /\ Order(s)
  BY DEF IInv
<1>b. /\ UNCHANGED <<call, clone, handler, snap, inbox, sink, relay, asked>>
      /\ CloseSession(n, s) /\ call[<<s, "expend">>] = "failed"
      /\ pc'[<<s, "cmd">>] = "done"
      /\ \A x \in {"dial", "circ", "pub"} : pc'[<<s, x>>] = pc[<<s, x>>]
  BY <1>a DEF ExpendFailed, TypeOK, Tasks
<1>c. n \in Nodes
  <2>1. call[<<s, "relay">>] = "done" /\ "relay" \in Purposes
    BY <1>a, <1>b DEF Order, Purposes
  <2>2. Dst(s, "relay") \in Nodes
    BY <2>1, EndsAreNodes DEF Unopened
  <2> QED BY <2>2 DEF Dst
<1>d. \A b : <<<<s, "SessionExpend">>, b>> \in acks' \cup got' =>
             <<<<s, "SessionExpend">>, b>> \in acks \cup got \/ b = FALSE
  <2> DEFINE v == FALSE
             r == "SessionExpend"
  <2>1. SendAck(<<s, r>>, v) /\ got' = got
    BY DEF ExpendFailed
  <2>2. r = "SessionExpend"
    OBVIOUS
  <2> HIDE DEF v, r
  <2>3. \A b : <<<<s, "SessionExpend">>, b>> \in acks' \cup got' <=>
               <<<<s, "SessionExpend">>, b>> \in acks \cup got \/ (r = "SessionExpend" /\ b = v)
    BY <2>1, NewAck
  <2> QED BY <2>3 DEF v
<1>1. LetGo(s, n, L)
  BY <1>a, <1>b, <1>c, LoopLetsGo
<1>2. Ended(s)'
  BY <1>b DEF Ended
<1>3. L \subseteq {"answer", "relay"}
  BY <1>b, LegsBelow DEF CalmInv
<1>4. Asked(s)'
  <2>1. <<s, "SessionExpend">> \notin asked /\ pc[<<s, "pub">>] \notin BeforeExpend
    BY <1>a, <1>b DEF Order, BeforeExpend
  <2>2. /\ pc'[<<s, "dial">>] = pc[<<s, "dial">>] /\ pc'[<<s, "circ">>] = pc[<<s, "circ">>]
        /\ pc'[<<s, "pub">>] = pc[<<s, "pub">>]
        /\ call' = call /\ asked' = asked
    BY <1>b
  <2>3. Asked(s)
    BY DEF CalmInv
  <2> QED BY <1>b, <1>d, <2>1, <2>2, <2>3 DEF Asked, BeforeExpend
<1>5. QuietSuccess(s)
  <2>1. handler' = handler /\ hs' = hs /\ chan' = chan /\ probe' \subseteq probe /\ inbox' = inbox
    BY <1>b DEF ExpendFailed, CloseSession
  <2> QED BY <2>1, QuietSame DEF Quiet
<1>6. <<<<s, "SessionExpend">>, FALSE>> \in acks' \cup got' =>
        pc'[<<s, "cmd">>] = "done" /\ call[<<s, "expend">>] = "failed"
  BY <1>b
<1>7. pc'[<<s, "dial">>] = pc[<<s, "dial">>]
  BY <1>b
<1> HIDE DEF n, L
<1> QED BY <1>c, <1>1, <1>2, <1>3, <1>4, <1>5, <1>6, <1>7, LossKeeps

\* The relay that is asked to extend a session has the session.
LEMMA RelayHasSession ==
    ASSUME IInv, NEW s \in Sessions, AckInv(s), CalmInv(s), TakeExpend(s)
    PROVE  relay[s].peer \in Nodes /\ IsSome(session[<<relay[s].peer, s>>])
<1>1. /\ Order(s) /\ Chain(s) /\ call[<<s, "relay">>] = "done" /\ call[<<s, "expend">>] = "idle"
      /\ "relay" \in Purposes /\ Dst(s, "relay") = relay[s].peer
  BY DEF IInv, Order, TakeExpend, AckInv, Purposes, Dst
<1>2. pc[<<s, "pub">>] = "expend"
  BY DEF CalmInv, Asked, TakeExpend
<1>3. ~Ended(s)
  BY <1>1, <1>2 DEF Ended, Chain
<1>4. <<s, "relay">> \notin down
  BY <1>1, <1>3 DEF CalmInv, Losses
<1>5. relay[s].peer \in Nodes /\ "relay" \in Legs(session[<<relay[s].peer, s>>])
  BY <1>1, <1>4, ClosesStream
<1>6. Copy(session[<<relay[s].peer, s>>], Joined(relay[s].peer, s), Owed(relay[s].peer, s))
  BY <1>5 DEF AckInv, Copies, CopiesAt
<1> QED BY <1>5, <1>6 DEF Copy, Legs

-----------------------------------------------------------------------------
(* Every step.                                                               *)

\* A handler of the session.
LEMMA HandleCalm ==
    ASSUME IInv, NEW s \in Sessions, AckInv(s), FrameInv(s), Onward(s), CalmInv(s),
           NEW e \in Ends, e[1] = s, Handle(e)
    PROVE  CalmInv(s)' /\ poisoned' = poisoned
<1> USE DEF callVars, readVars, nodeVars, hsVars, busVars, loopVars
<1>a. e \in EndsOf(s)
  BY DEF EndsOf
<1>1. CASE (\E m \in Probes : TakeProbe(e, m)) \/ CheckProbe(e) \/ StoreProbe(e) \/ MatchProbe(e)
  <2>1. Steady(s) /\ SameLoops(s) /\ (Told(s)' => Stands(s))
    BY <1>a, <1>1, ProbeSteady
  <2>2. poisoned' = poisoned
    BY <1>1 DEF TakeProbe, CheckProbe, StoreProbe, MatchProbe
  <2> QED BY <2>1, <2>2, SteadySame
<1>2. CASE TakeSuccess(e) \/ StartHandshake(e) \/ \E m \in Handshakes : TakeData(e, m)
  <2>1. Steady(s) /\ SameLoops(s) /\ (Told(s)' => Stands(s))
    BY <1>a, <1>2, FrameSteady
  <2>2. poisoned' = poisoned
    BY <1>2 DEF TakeSuccess, StartHandshake, TakeData
  <2> QED BY <2>1, <2>2, SteadySame
<1>3. CASE TakeSet(e) \/ ApplyNew(e) \/ ApplyLater(e)
  BY <1>3, SetCalm
<1>4. CASE ApplyReplace(e)
  BY <1>4, ReplaceCalm
<1>5. CASE TakeDisconnect(e) \/ CloseOnErr(e)
  BY <1>5, CloseCalm
<1>6. CASE TakeErr(e)
  BY <1>6, ErrCalm
<1> QED BY <1>1, <1>2, <1>3, <1>4, <1>5, <1>6 DEF Handle

\* dial and the loops of the session.
LEMMA LoopsCalm ==
    ASSUME IInv, NEW s \in Sessions, AckInv(s), CalmInv(s),
           \/ Dial(s) \/ EntryLoop(s) \/ AccessLoop(s) \/ RelayLoop(s)
    PROVE  CalmInv(s)' /\ poisoned' = poisoned
<1> USE DEF callVars, readVars, nodeVars, hsVars, busVars, loopVars
<1>1. poisoned' = poisoned
  BY DEF Dial, DialStart, DialCircuit, DialPanic, DialReturn, EntryLoop, RefuseCircuit,
         AcceptDirect, DirectDone, DirectFailed, AcceptSink, RetrySink, GiveUpSink, SinkDone,
         Publish, SendProbe, AccessLoop, AskDecrypt, Decrypted, GiveUpPub, SinkIsAccess, PickRelay,
         RetryRelay, AskExpend, ExpendDone, RelayLoop, NoSuchSession, RelayIsEntry, Expend,
         ExpendOpened, ExpendFailed
<1>2. ~NoSuchSession(s)
  BY RelayHasSession DEF NoSuchSession
<1>3. CASE Plain(s)
  BY <1>1, <1>3, PlainKeeps
<1>4. CASE DialStart(s)
  BY <1>1, <1>4, DialStartCalm
<1>5. CASE AcceptDirect(s) \/ AcceptSink(s) \/ RetrySink(s)
  BY <1>1, <1>5, EntryStartCalm
<1>6. CASE Decrypted(s) \/ PickRelay(s) \/ RetryRelay(s)
  BY <1>1, <1>6, AccessStartCalm
<1>7. CASE Expend(s)
  BY <1>1, <1>7, ExpendStartCalm
<1>8. CASE GiveUpSink(s) \/ GiveUpPub(s) \/ ExpendFailed(s)
  BY <1>1, <1>8, GiveUpSinkCalm, GiveUpPubCalm, ExpendFailedCalm
<1> QED BY <1>2, <1>3, <1>4, <1>5, <1>6, <1>7, <1>8 DEF Dial, EntryLoop, AccessLoop, RelayLoop, Plain

\* What the provers show of every state, if no stream breaks and nobody hangs up.
CalmInvs == FrameInvs /\ poisoned = {} /\ \A s \in Sessions : CalmInv(s)

\* The invariant holds at the start.
LEMMA CalmInvInit ==
    ASSUME Init
    PROVE  CalmInvs
<1>1. FrameInvs
  BY IInvInit, AckInvInit, FrameInvInit DEF FrameInvs
<1>2. ASSUME NEW s \in Sessions PROVE CalmInv(s)
  <2>a. /\ \A p \in Purposes : call[<<s, p>>] = "idle" /\ <<s, p>> \notin down
        /\ \A e \in EndsOf(s) : handler[e] = "off" /\ inbox[e] = {}
        /\ \A x \in Tasks : pc[<<s, x>>] = "idle"
        /\ \A c \in Clients : hs[<<c, s>>] = "idle"
        /\ acks = {} /\ got = {} /\ asked = {}
        /\ sink[s].peer = NoPeer /\ relay[s].peer = NoPeer
    BY DEF Init, Streams, EndsOf, Nodes, NoPick
  <2>b. /\ call[<<s, "expend">>] = "idle" /\ call[<<s, "dial">>] = "idle"
        /\ pc[<<s, "circ">>] = "idle" /\ pc[<<s, "dial">>] = "idle" /\ pc[<<s, "pub">>] = "idle"
    BY <2>a DEF Purposes, Tasks
  <2>c. \A p \in Purposes, d \in {"src", "dst"} : handler[<<s, p, d>>] = "off"
    BY <2>a, EndNames
  <2>d. ~Replaced(s)
    BY <2>c DEF Replaced, Landed, Early, Purposes
  <2>1. Asked(s)
    BY <2>a, <2>b DEF Asked
  <2>2. Started(s) /\ Chosen(s)
    BY <2>a DEF Started, Chosen, AfterAck
  <2>3. Keeps(s)
    BY <2>a, <2>c DEF Keeps, Held
  <2>4. Losses(s)
    BY <2>a, <2>d DEF Losses
  <2>5. There(s) /\ Live(s) /\ Matched(s)
    BY <2>a, <2>c DEF There, Live, Matched
  <2>6. Circuits(s)
    BY <2>b, <2>c DEF Circuits, Purposes
  <2>7. ~Told(s)
    BY <2>a DEF Told
  <2> QED BY <2>1, <2>2, <2>3, <2>4, <2>5, <2>6, <2>7 DEF CalmInv
<1>3. poisoned = {}
  BY DEF Init
<1> QED BY <1>1, <1>2, <1>3 DEF CalmInvs

\* Every step keeps it.
LEMMA CalmInvStep ==
    ASSUME Calm, CalmInvs, [Next]_vars
    PROVE  CalmInvs'
<1>a. IInv /\ \A s \in Sessions : AckInv(s) /\ FrameInv(s) /\ CalmInv(s)
  BY DEF CalmInvs, FrameInvs
<1>b. FrameInvs'
  BY <1>a, IInvStep, AckInvStep, FrameInvStep DEF FrameInvs
<1>c. \A s \in Sessions : Onward(s)
  BY <1>a, OnwardStep
<1>d. SUFFICES poisoned' = poisoned /\ \A s \in Sessions : CalmInv(s)'
  BY <1>b DEF CalmInvs
<1>1. ASSUME NEW t \in Sessions,
             \/ \E q \in Purposes : Call(t, q)
             \/ \E e \in Ends : e[1] = t /\ Handle(e)
             \/ Dial(t) \/ EntryLoop(t) \/ AccessLoop(t) \/ RelayLoop(t)
      PROVE  poisoned' = poisoned /\ \A s \in Sessions : CalmInv(s)'
  <2>1. CalmInv(t)' /\ poisoned' = poisoned
    BY <1>a, <1>c, <1>1, CallCalm, HandleCalm, LoopsCalm
  <2>2. ASSUME NEW s \in Sessions, s # t PROVE CalmInv(s)'
    BY <1>a, <1>1, <2>2, OthersPlacid, PlacidKeeps
  <2> QED BY <2>1, <2>2
<1>2. ASSUME NEW c \in Clients, NEW t \in Sessions, Handshake(c, t)
      PROVE  poisoned' = poisoned /\ \A s \in Sessions : CalmInv(s)'
  <2>1. poisoned' = poisoned
    BY <1>2 DEF Handshake, ReadHandshake, FinishHandshake, nodeVars
  <2> QED BY <1>a, <1>2, <2>1, HandshakePlacid, PlacidKeeps
<1>3. ASSUME \/ \E k \in Keys, b \in BOOLEAN : RecvAck(k, b)
             \/ \E t \in Sessions, r \in Requests : ClientReply(t, r)
             \/ UNCHANGED vars
      PROVE  poisoned' = poisoned /\ \A s \in Sessions : CalmInv(s)'
  <2>1. poisoned' = poisoned
    BY <1>3 DEF RecvAck, ClientReply, vars, nodeVars
  <2> QED BY <1>a, <1>3, <2>1, BusPlacid, PlacidKeeps
<1>4. ~Environment
  BY DEF Environment, BreakStream, HangUp, Calm
<1>5. CASE System
  <2>1. ASSUME NEW e \in Ends, Handle(e) PROVE poisoned' = poisoned /\ \A s \in Sessions : CalmInv(s)'
    <3>1. e[1] \in Sessions
      BY DEF Ends
    <3> QED BY <1>1, <2>1, <3>1
  <2> QED BY <1>1, <1>2, <1>3, <1>5, <2>1 DEF System
<1> QED BY <1>3, <1>4, <1>5 DEF Next

\* The invariant is inductive.
LEMMA CalmInvsHold == Calm => (Spec => []CalmInvs)
<1> SUFFICES ASSUME Calm PROVE Spec => []CalmInvs
  OBVIOUS
<1>1. Init => CalmInvs
  BY CalmInvInit
<1>2. CalmInvs /\ [Next]_vars => CalmInvs'
  BY CalmInvStep
<1> QED BY <1>1, <1>2, PTL DEF Spec

-----------------------------------------------------------------------------
(* The theorems.                                                             *)

\* With no stream broken and nobody hanging up, no session vanishes between the
\* look-up and the unwrap() in new_session_to_peer and handle_set_session, even
\* when streams fail to open and loops give up: no session_map is ever poisoned.
THEOREM SessionStillThereHolds == Calm => (Spec => []SessionStillThere)
<1> SUFFICES ASSUME Calm PROVE Spec => []SessionStillThere
  OBVIOUS
<1>1. CalmInvs => SessionStillThere
  BY DEF CalmInvs, SessionStillThere
<1> QED BY <1>1, CalmInvsHold, PTL

\* With no stream broken and nobody hanging up, no session holds a stream whose
\* handler (relay_event_handler) has returned: no entry of session_map is left
\* that nobody would remove.
THEOREM NoGhostSessionHolds == Calm => (Spec => []NoGhostSession)
<1> SUFFICES ASSUME Calm PROVE Spec => []NoGhostSession
  OBVIOUS
<1>1. CalmInvs => NoGhostSession
  <2> SUFFICES ASSUME CalmInvs, NEW s \in Sessions, NEW n \in Nodes, NEW p \in Legs(session[<<n, s>>])
               PROVE  \E side \in {"src", "dst"} :
                         NodeAt(<<s, p, side>>) = n /\ handler[<<s, p, side>>] \notin {"off", "dead"}
    BY DEF NoGhostSession
  <2>1. IInv /\ AckInv(s) /\ Started(s) /\ Live(s)
    BY DEF CalmInvs, FrameInvs, CalmInv
  <2>2. p \in Joined(n, s)
    BY <2>1 DEF AckInv, Copies, CopiesAt, Copy
  <2>3. p \in Purposes
    BY <2>2 DEF Joined
  <2>4. ASSUME NEW side \in {"src", "dst"}, NodeAt(<<s, p, side>>) = n
        PROVE  handler[<<s, p, side>>] # "dead"
    <3>1. <<s, p, side>> \in EndsOf(s) /\ <<s, p, side>>[2] = p
      BY <2>3, EndNames
    <3> QED BY <2>1, <2>4, <3>1 DEF Live
  <2>5. CASE n = Src(s, p) /\ call[<<s, p>>] = "done"
    <3>1. NodeAt(<<s, p, "src">>) = n
      BY <2>5 DEF NodeAt
    <3>2. handler[<<s, p, "src">>] # "off"
      BY <2>1, <2>3, <2>5 DEF Started, AfterAck
    <3> QED BY <2>4, <3>1, <3>2
  <2>6. CASE n = Dst(s, p) /\ Landed(s, p)
    <3>1. NodeAt(<<s, p, "dst">>) = n
      BY <2>6 DEF NodeAt
    <3> QED BY <2>4, <2>6, <3>1 DEF Landed, Early
  <2> QED BY <2>2, <2>5, <2>6 DEF Joined
<1> QED BY <1>1, CalmInvsHold, PTL

\* Two streams are all that a session has.
LEMMA TwoLegs ==
    ASSUME NEW x, NEW p, NEW q, p # q, p \in Legs(x), q \in Legs(x)
    PROVE  Legs(x) = {p, q}
BY DEF Legs

\* A stream that was set up, and was not closed, is in the sessions of both peers.
LEMMA InBothSessions ==
    ASSUME IInv, NEW s \in Sessions, AckInv(s), CalmInv(s), NEW p \in Purposes,
           call[<<s, p>>] = "done", ~Ended(s), p # "sink" \/ ~Replaced(s)
    PROVE  p \in Legs(session[<<Src(s, p), s>>]) /\ p \in Legs(session[<<Dst(s, p), s>>])
<1>1. <<s, p>> \notin down
  BY DEF CalmInv, Losses
<1>2. Src(s, p) \in Nodes /\ p \in Held(Src(s, p), s)
  BY <1>1, EndsAreNodes DEF Held
<1>3. p \in Legs(session[<<Src(s, p), s>>])
  BY <1>2 DEF CalmInv, Keeps
<1> QED BY <1>1, <1>3, ClosesStream

\* Four servers.
LEMMA FourServers ==
    ASSUME NEW a, NEW b, NEW c, NEW d, a # b, a # c, a # d, b # c, b # d, c # d
    PROVE  Cardinality({a, b, c, d}) = 4
<1>1. IsFiniteSet({a}) /\ Cardinality({a}) = 1
  BY FS_Singleton
<1>2. IsFiniteSet({a} \cup {b}) /\ Cardinality({a} \cup {b}) = 2
  BY <1>1, FS_AddElement
<1>3. IsFiniteSet(({a} \cup {b}) \cup {c}) /\ Cardinality(({a} \cup {b}) \cup {c}) = 3
  BY <1>2, FS_AddElement
<1>4. Cardinality((({a} \cup {b}) \cup {c}) \cup {d}) = 4
  BY <1>3, FS_AddElement
<1>5. (({a} \cup {b}) \cup {c}) \cup {d} = {a, b, c, d}
  OBVIOUS
<1> QED BY <1>4, <1>5

\* A circuit that stands is one path.
LEMMA StandsLinked ==
    ASSUME IInv, NEW s \in Sessions, AckInv(s), CalmInv(s), Stands(s)
    PROVE  Linked(s)
<1> DEFINE e == Entry(s)
           a == Access(s)
           k == sink[s].peer
           r == relay[s].peer
           At(n) == Legs(session[<<n, s>>])
<1>a. /\ ~Ended(s) /\ Chain(s) /\ Peers(s) /\ Acks(s) /\ Order(s) /\ TypeOK
      /\ e \in Servers /\ a \in Servers /\ e \in Nodes /\ a \in Nodes
  BY StandsUp, CircuitAssumption DEF AckInv, IInv, Entry, Access, Nodes
<1>b. ASSUME NEW p \in Purposes, call[<<s, p>>] = "done", p # "sink" \/ ~Replaced(s)
      PROVE  p \in At(Src(s, p)) /\ p \in At(Dst(s, p))
  BY <1>a, <1>b, InBothSessions
<1>c. call[<<s, "sink">>] = "done" => k \in Servers /\ k # Boot /\ k # NoPeer
  <2> SUFFICES ASSUME call[<<s, "sink">>] = "done" PROVE k \in Servers /\ k # Boot /\ k # NoPeer
    OBVIOUS
  <2>1. Dst(s, "sink") \in Nodes
    BY EndsAreNodes DEF Unopened, Purposes
  <2>2. k \in Servers \cup {NoPeer}
    BY <1>a DEF TypeOK, PickRec
  <2> QED BY <2>1, <2>2, CircuitAssumption DEF Dst, CalmInv, Chosen
<1>d. call[<<s, "relay">>] = "done" => r \in Servers /\ r # Boot /\ r # NoPeer
  <2> SUFFICES ASSUME call[<<s, "relay">>] = "done" PROVE r \in Servers /\ r # Boot /\ r # NoPeer
    OBVIOUS
  <2>1. Dst(s, "relay") \in Nodes
    BY EndsAreNodes DEF Unopened, Purposes
  <2>2. r \in Servers \cup {NoPeer}
    BY <1>a DEF TypeOK, PickRec
  <2> QED BY <2>1, <2>2, CircuitAssumption DEF Dst, CalmInv, Chosen
<1>1. CASE call[<<s, "direct">>] = "done"
  <2>1. call[<<s, "dial">>] = "done"
    BY <1>a, <1>1 DEF Chain
  <2>2. "dial" \in At(e) /\ "direct" \in At(e)
    BY <1>b, <1>1, <2>1 DEF Purposes, Src, Dst
  <2>3. Paired(e, s, "dial", "direct")
    BY <1>a, <2>2, TwoLegs DEF Paired
  <2> QED BY <2>3 DEF Linked
<1>2. CASE call[<<s, "answer">>] = "done" /\ k = a
  <2>1. call[<<s, "sink">>] = "done" /\ call[<<s, "dial">>] = "done" /\ call[<<s, "relay">>] = "idle"
    BY <1>a, <1>2 DEF Chain
  <2>2. ~Replaced(s)
    BY <2>1, NoRelayYet DEF Unopened
  <2>3. "dial" \in At(e) /\ "sink" \in At(e) /\ "sink" \in At(k) /\ "answer" \in At(a)
    BY <1>b, <1>2, <2>1, <2>2 DEF Purposes, Src, Dst
  <2>4. Paired(e, s, "dial", "sink") /\ Paired(a, s, "sink", "answer")
    BY <1>a, <1>2, <2>3, TwoLegs DEF Paired
  <2> QED BY <1>c, <1>2, <2>1, <2>4 DEF Linked
<1>3. CASE call[<<s, "relay">>] = "done" /\ Replaced(s)
  <2>1. call[<<s, "answer">>] = "done" /\ call[<<s, "sink">>] = "done"
    BY <1>a, <1>3 DEF Chain
  <2>2. "relay" \in At(a) /\ "answer" \in At(a)
    BY <1>b, <1>3, <2>1 DEF Purposes, Src
  <2>3. At(e) = {"dial", "relay"}
    BY <1>a, <1>3, ReplacedReady
  <2>4. Paired(e, s, "dial", "relay") /\ Paired(a, s, "relay", "answer")
    BY <1>a, <2>2, <2>3, TwoLegs DEF Paired
  <2>5. r = e
    BY <1>3 DEF Replaced
  <2> QED BY <1>c, <2>1, <2>4, <2>5 DEF Linked
<1>4. CASE call[<<s, "expend">>] = "done"
  <2>1. /\ call[<<s, "relay">>] = "done" /\ call[<<s, "answer">>] = "done" /\ call[<<s, "sink">>] = "done"
        /\ call[<<s, "dial">>] = "done" /\ k # a
    BY <1>a, <1>4 DEF Chain, Order
  <2>2. ~Replaced(s)
    BY <1>4 DEF CalmInv, Losses
  <2>3. Landed(s, "relay")
    BY <1>a, <2>1 DEF Acks, AfterAck, Acked, AckSeen, Purposes
  <2>4. r # e /\ r # a /\ r # k /\ k # e /\ e # a
    BY <1>a, <1>d, <2>1, <2>2, <2>3, ProxiesApart DEF Replaced, Peers
  <2>5. Cardinality({e, k, r, a}) = 4
    <3>1. e # k /\ e # r /\ e # a /\ k # r /\ k # a /\ r # a
      BY <2>1, <2>4
    <3> HIDE DEF e, k, r, a
    <3> QED BY <3>1, FourServers
  <2>6. /\ "dial" \in At(e) /\ "sink" \in At(e) /\ "sink" \in At(k) /\ "expend" \in At(k)
        /\ "relay" \in At(r) /\ "expend" \in At(r) /\ "relay" \in At(a) /\ "answer" \in At(a)
    BY <1>b, <1>4, <2>1, <2>2 DEF Purposes, Src, Dst
  <2>7. /\ Paired(e, s, "dial", "sink") /\ Paired(k, s, "sink", "expend")
        /\ Paired(r, s, "relay", "expend") /\ Paired(a, s, "relay", "answer")
    BY <1>a, <1>c, <1>d, <2>1, <2>6, TwoLegs DEF Paired
  <2> QED BY <1>c, <1>d, <2>1, <2>5, <2>7 DEF Linked
<1> QED BY <1>1, <1>2, <1>3, <1>4 DEF Stands

\* With no stream broken and nobody hanging up, a client is told of success, and
\* starts process_handshake, only when the sessions of the servers splice the
\* streams of the two clients into one path that visits no server twice, and it
\* stays so from then on.
THEOREM SuccessMeansLinkedHolds == Calm => (Spec => []SuccessMeansLinked)
<1> SUFFICES ASSUME Calm PROVE Spec => []SuccessMeansLinked
  OBVIOUS
<1>1. CalmInvs => SuccessMeansLinked
  <2> SUFFICES ASSUME CalmInvs, NEW s \in Sessions, NEW c \in Clients,
                      PendingSuccess(c, s) \/ hs[<<c, s>>] # "idle"
               PROVE  Linked(s)
    BY DEF SuccessMeansLinked
  <2>1. IInv /\ AckInv(s) /\ CalmInv(s)
    BY DEF CalmInvs, FrameInvs
  <2>2. Told(s)
    BY DEF PendingSuccess, Told, EndsOf
  <2>3. Stands(s)
    BY <2>1, <2>2 DEF CalmInv
  <2> QED BY <2>1, <2>3, StandsLinked
<1> QED BY <1>1, CalmInvsHold, PTL

-----------------------------------------------------------------------------
(* No fault at all: streams open, too.                                       *)

\* Streams open in time, and there are peers for the sink and for the relay.
Faultless ==
    /\ Calm /\ Flaky = {}
    /\ \A s \in Sessions :
         /\ SinkCands(s) # {}
         /\ \A k \in SinkCands(s) \ {Access(s)} : Kad[Access(s)] \ {Access(s), k, Boot} # {}

\* A peer is chosen before its stream is opened.
Begun(s) ==
    /\ call[<<s, "sink">>] # "idle" => sink[s].tries # 0
    /\ call[<<s, "relay">>] # "idle" => relay[s].tries # 0

\* Every stream that was wanted has opened.
AllOpen(s) == \A p \in Purposes : call[<<s, p>>] # "failed"

\* The entry node that has become the relay splices the caller with the relay's stream.
Swapped(s) == Replaced(s) =>
    session[<<Entry(s), s>>].early = "dial" /\ session[<<Entry(s), s>>].later = "relay"

FaultlessInvs == CalmInvs /\ \A s \in Sessions : TriesInv(s) /\ Begun(s) /\ AllOpen(s) /\ Swapped(s)

\* The loops count their tries.
LEMMA BegunStep ==
    ASSUME IInv, NEW s \in Sessions, Begun(s), [Next]_vars
    PROVE  Begun(s)'
<1> USE DEF callVars, readVars, nodeVars, hsVars, busVars, loopVars
<1>a. TypeOK /\ sink[s] \in PickRec /\ relay[s] \in PickRec /\ "sink" \in Purposes /\ "relay" \in Purposes
  BY DEF IInv, TypeOK, Purposes
<1>b. ASSUME sink'[s] = sink[s], relay'[s] = relay[s],
             call[<<s, "sink">>] = "idle" => call'[<<s, "sink">>] = "idle",
             call[<<s, "relay">>] = "idle" => call'[<<s, "relay">>] = "idle"
      PROVE  Begun(s)'
  BY <1>b DEF Begun
<1>1. CASE UNCHANGED <<call, sink, relay>>
  BY <1>b, <1>1
<1>2. ASSUME NEW t \in Sessions, NEW q \in Purposes, Call(t, q) PROVE Begun(s)'
  <2>1. CallFrame(t, q)
    BY <1>2, CallFrames
  <2> QED BY <1>a, <1>b, <2>1 DEF CallFrame
<1>3. ASSUME NEW t \in Sessions, NEW q \in Purposes \ {"sink", "relay"},
             call' = [call EXCEPT ![<<t, q>>] = "opening"], UNCHANGED <<sink, relay>>
      PROVE  Begun(s)'
  BY <1>a, <1>b, <1>3 DEF TypeOK, Streams
<1>4. ASSUME NEW t \in Sessions, AcceptSink(t) \/ RetrySink(t) PROVE Begun(s)'
  <2>1. CASE t # s
    BY <1>a, <1>b, <1>4, <2>1 DEF AcceptSink, RetrySink, TypeOK, Streams
  <2>2. CASE t = s
    <3>1. relay' = relay /\ call'[<<s, "relay">>] = call[<<s, "relay">>]
      BY <1>a, <1>4, <2>2 DEF AcceptSink, RetrySink, TypeOK, Streams
    <3>2. \E q : sink'[s] = Try(sink[s], q) \/ sink'[s] = Try(Reject(sink[s]), q)
      <4>1. CASE AcceptSink(s)
        BY <1>a, <4>1 DEF AcceptSink, TypeOK
      <4>2. CASE RetrySink(s)
        BY <1>a, <4>2 DEF RetrySink, TypeOK
      <4> QED BY <1>4, <2>2, <4>1, <4>2
    <3>3. sink'[s].tries # 0
      BY <1>a, <3>2, TryCounts
    <3> QED BY <3>1, <3>3 DEF Begun
  <2> QED BY <2>1, <2>2
<1>5. ASSUME NEW t \in Sessions, PickRelay(t) \/ RetryRelay(t) PROVE Begun(s)'
  <2>1. CASE t # s
    BY <1>a, <1>b, <1>5, <2>1 DEF PickRelay, RetryRelay, TypeOK, Streams
  <2>2. CASE t = s
    <3>1. sink' = sink /\ call'[<<s, "sink">>] = call[<<s, "sink">>]
      BY <1>a, <1>5, <2>2 DEF PickRelay, RetryRelay, TypeOK, Streams
    <3>2. \E q : relay'[s] = Try(relay[s], q) \/ relay'[s] = Try(Reject(relay[s]), q)
      <4>1. CASE PickRelay(s)
        BY <1>a, <4>1 DEF PickRelay, TypeOK
      <4>2. CASE RetryRelay(s)
        BY <1>a, <4>2 DEF RetryRelay, TypeOK
      <4> QED BY <1>5, <2>2, <4>1, <4>2
    <3>3. relay'[s].tries # 0
      BY <1>a, <3>2, TryCounts
    <3> QED BY <3>1, <3>3 DEF Begun
  <2> QED BY <2>1, <2>2
<1>6. ASSUME NEW t \in Sessions, Dial(t) \/ EntryLoop(t) \/ AccessLoop(t) \/ RelayLoop(t) PROVE Begun(s)'
  <2>1. CASE DialStart(t) \/ AcceptDirect(t) \/ Decrypted(t) \/ Expend(t)
    <3>1. UNCHANGED <<sink, relay>> /\ \E q \in Purposes \ {"sink", "relay"} :
             call' = [call EXCEPT ![<<t, q>>] = "opening"]
      BY <2>1 DEF DialStart, AcceptDirect, Decrypted, Expend, Purposes
    <3> QED BY <1>3, <3>1
  <2>2. CASE UNCHANGED <<call, sink, relay>>
    BY <1>1, <2>2
  <2> QED BY <1>4, <1>5, <1>6, <2>1, <2>2
          DEF Dial, DialCircuit, DialPanic, DialReturn, EntryLoop, RefuseCircuit, DirectDone,
              DirectFailed, GiveUpSink, SinkDone, Publish, SendProbe, AccessLoop, AskDecrypt,
              GiveUpPub, SinkIsAccess, AskExpend, ExpendDone, RelayLoop, NoSuchSession,
              RelayIsEntry, ExpendOpened, ExpendFailed
<1>7. ASSUME NEW e \in Ends, Handle(e) PROVE UNCHANGED <<call, sink, relay>>
  BY <1>7 DEF Handle, TakeSet, ApplyReplace, ApplyNew, ApplyLater, TakeProbe, CheckProbe, StoreProbe,
         MatchProbe, TakeSuccess, StartHandshake, TakeData, TakeDisconnect, TakeErr, CloseOnErr
<1>8. CASE \/ \E k \in Keys, b \in BOOLEAN : RecvAck(k, b)
           \/ \E c \in Clients, t \in Sessions : Handshake(c, t)
           \/ \E t \in Sessions, r \in Requests : ClientReply(t, r)
           \/ Environment \/ UNCHANGED vars
  <2>1. UNCHANGED <<call, sink, relay>>
    BY <1>8 DEF RecvAck, Handshake, ReadHandshake, FinishHandshake, ClientReply, Environment,
           BreakStream, HangUp, vars
  <2> QED BY <1>1, <2>1
<1> QED BY <1>1, <1>2, <1>6, <1>7, <1>8 DEF Next, System

\* A stream that is being opened leads to a node.
LEMMA FaultlessPeer ==
    ASSUME Faultless, IInv, NEW s \in Sessions, AckInv(s), TriesInv(s), Begun(s), NEW q \in Purposes,
           call[<<s, q>>] = "opening"
    PROVE  Dst(s, q) # NoPeer
<1>a. /\ sink[s].tries # 0 => sink[s].peer \in SinkCands(s)
      /\ \A k \in Kad[Entry(s)] \cup Kad[Access(s)] : k # NoPeer
  <2>1. Entry(s) \in Servers /\ Access(s) \in Servers
    BY Parties
  <2>2. Kad[Entry(s)] \subseteq Servers /\ Kad[Access(s)] \subseteq Servers
    BY <2>1, CircuitAssumption
  <2>3. sink[s].tries # 0 => sink[s].peer \in SinkCands(s)
    BY DEF TriesInv, Tries, Faultless
  <2> QED BY <2>2, <2>3, CircuitAssumption DEF Nodes
<1>1. CASE q \in {"dial", "direct", "answer"}
  BY <1>1, Parties, CircuitAssumption DEF Dst
<1>2. CASE q = "sink"
  BY <1>a, <1>2 DEF Begun, SinkCands, Dst
<1>3. CASE q = "relay"
  <2>1. sink[s].tries # 0 /\ relay[s].tries # 0 /\ sink[s].peer # Access(s)
    BY <1>3 DEF Begun, AckInv, Chain
  <2>2. RelayCands(s) # {}
    BY <1>a, <2>1 DEF Faultless, RelayCands
  <2>3. relay[s].peer \in RelayCands(s)
    BY <2>1, <2>2 DEF TriesInv, Tries
  <2> QED BY <1>a, <1>3, <2>3 DEF RelayCands, Dst
<1>4. CASE q = "expend"
  <2>1. call[<<s, "sink">>] = "done" /\ "sink" \in Purposes
    BY <1>4 DEF IInv, Order, AckInv, Chain, Purposes
  <2>2. Dst(s, "sink") \in Nodes
    BY <2>1, EndsAreNodes DEF Unopened
  <2> QED BY <1>4, <2>2, CircuitAssumption DEF Dst
<1> QED BY <1>1, <1>2, <1>3, <1>4 DEF Purposes

\* No call fails.
LEMMA AllOpenStep ==
    ASSUME Faultless, IInv, NEW s \in Sessions, AckInv(s), TriesInv(s), Begun(s), AllOpen(s), [Next]_vars
    PROVE  AllOpen(s)'
<1>a. TypeOK
  BY DEF IInv
<1>1. CASE Moves(s)
  BY <1>1 DEF Moves, Still, StartFrame, AllOpen
<1>2. ASSUME NEW q \in Purposes, Call(s, q) PROVE AllOpen(s)'
  <2>a. CallFrame(s, q)
    BY <1>2, CallFrames
  <2>1. \A p \in Purposes \ {q} : call'[<<s, p>>] = call[<<s, p>>]
    BY <2>a DEF CallFrame
  <2>2. ~OpenTimeout(s, q)
    BY FaultlessPeer DEF OpenTimeout, Faultless
  <2>3. call'[<<s, q>>] # "failed"
    BY <1>a, <1>2, <2>2 DEF Call, OpenStream, RegisterAck, CheckSession, InsertNew, CloneSession,
         ClonePanic, InsertLater, TypeOK, Streams
  <2> QED BY <2>1, <2>3 DEF AllOpen
<1>3. ASSUME NEW e \in Ends, e[1] = s, Sets(e) PROVE AllOpen(s)'
  BY <1>3, SetFrames DEF SetFrame, AllOpen
<1> QED BY <1>1, <1>2, <1>3, StepKind

\* Without failed calls no loop gives up.
LEMMA NeverEnded == \A s \in Sessions : AllOpen(s) => ~Ended(s)
BY DEF AllOpen, Ended, Purposes

\* Once the relay's stream has landed the earlier ones are set up.
LEMMA LandedLast ==
    ASSUME IInv, NEW s \in Sessions, AckInv(s), call[<<s, "relay">>] \notin Unopened
    PROVE  /\ call[<<s, "answer">>] = "done" /\ call[<<s, "sink">>] = "done" /\ call[<<s, "dial">>] = "done"
           /\ call[<<s, "direct">>] = "idle" /\ sink[s].peer # Access(s)
BY DEF AckInv, Chain, Unopened

\* A step that sets nothing up replaces no stream.
LEMMA StillReplaced ==
    ASSUME IInv, NEW s \in Sessions, AckInv(s), CalmInv(s), AllOpen(s), Still(s),
           IInv', CalmInv(s)', AllOpen(s)', Replaced(s)'
    PROVE  /\ Replaced(s) /\ session'[<<Entry(s), s>>] = session[<<Entry(s), s>>]
           /\ "dial" \in Legs(session[<<Entry(s), s>>])
<1> DEFINE x == session[<<Entry(s), s>>]
<1>a. /\ "dial" \in Purposes /\ "sink" \in Purposes /\ "relay" \in Purposes
      /\ Src(s, "sink") = Entry(s) /\ Dst(s, "dial") = Entry(s) /\ Entry(s) \in Nodes
  BY Parties DEF Purposes, Src, Dst
<1>b. ~Ended(s) /\ ~Ended(s)'
  <2>1. ~Ended(s)
    BY NeverEnded
  <2>2. ~Ended(s)'
    BY DEF AllOpen, Ended, Purposes
  <2> QED BY <2>1, <2>2
<1>c. call[<<s, "relay">>] \notin Unopened
  <2>1. handler'[<<s, "relay", "dst">>] # "off"
    BY DEF Replaced, Landed, Early
  <2>2. call'[<<s, "relay">>] \notin Unopened'
    BY <1>a, <2>1 DEF IInv, OpenedAt
  <2> QED BY <1>a, <2>2 DEF Still, Unopened
<1>d. call[<<s, "dial">>] = "done" /\ call[<<s, "sink">>] = "done"
  BY <1>c, LandedLast
<1>e. <<s, "dial">> \notin down'
  BY <1>a, <1>b DEF CalmInv, Losses
<1>f. "dial" \in Legs(x)
  BY <1>a, <1>b, <1>d, InBothSessions
<1>1. session'[<<Entry(s), s>>] = x
  BY <1>a, <1>e, <1>f DEF Still
<1>2. "sink" \notin Legs(x)
  <2>1. "sink" \notin Legs(session'[<<Entry(s), s>>])
    BY DEF CalmInv, Losses, Entry
  <2> QED BY <1>1, <2>1
<1>3. Replaced(s)
  BY <1>a, <1>b, <1>d, <1>2, InBothSessions
<1> QED BY <1>f, <1>1, <1>3

\* handle_set_session at the entry node, which becomes the relay, too.
LEMMA SetSwaps ==
    ASSUME IInv, NEW s \in Sessions, AckInv(s), FrameInv(s), CalmInv(s), NEW e \in Ends, e[1] = s, Sets(e),
           Replaced(s)'
    PROVE  /\ session'[<<Entry(s), s>>].early = "dial" /\ session'[<<Entry(s), s>>].later = "relay"
<1> USE DEF callVars, readVars, nodeVars, hsVars, busVars, loopVars
<1> DEFINE q == e[2]
<1>a. TypeOK /\ q \in Purposes /\ e = <<s, q, "dst">> /\ NodeAt(e) = Dst(s, q) /\ SetFrame(s, q)
  BY SetFrames DEF IInv
<1>b. Entry(s) \in Nodes /\ "relay" \in Purposes
  BY Parties DEF Purposes
<1>c. ~Replaced(s)
  <2>1. handler[<<s, q, "dst">>] \in {"fresh", "set"}
    BY <1>a DEF SetFrame
  <2> HIDE DEF q
  <2> QED BY <1>a, <2>1, SettingUp
<1>d. relay[s].peer = Entry(s) /\ ~Landed(s, "relay") /\ Landed(s, "relay")'
  BY <1>a, <1>c DEF Replaced, SetFrame, Entry
<1>e. q = "relay"
  BY <1>a, <1>b, <1>d DEF SetFrame, Landed
<1>f. handler[e] = "set" /\ ~TakeSet(e)
  <2>1. handler'[e] \notin Early
    BY <1>a, <1>d, <1>e DEF Landed, Early
  <2>2. ~TakeSet(e)
    BY <1>a, <2>1 DEF TakeSet, Early, TypeOK
  <2> QED BY <2>2 DEF Sets, ApplyReplace, ApplyNew, ApplyLater
<1>g. snap[e].role = "Entry" /\ snap[e].early = "dial" /\ snap[e].later = "sink"
  BY <1>a, <1>d, <1>e, <1>f, RelaySnap
<1>h. IsEntryAsRelay(e) /\ IsSome(snap[e]) /\ Ready(snap[e])
  BY <1>e, <1>g DEF IsEntryAsRelay, OtherRole, IsSome, Ready
<1>i. ApplyReplace(e)
  BY <1>f, <1>h DEF Sets, ApplyNew, ApplyLater
<1>j. session' = [session EXCEPT ![<<Entry(s), s>>] = WithLater(snap[e], "relay")]
  BY <1>a, <1>d, <1>e, <1>h, <1>i DEF ApplyReplace, Dst
<1>k. snap[e] \in SessionRec
  BY <1>a DEF TypeOK
<1> QED BY <1>a, <1>b, <1>g, <1>j, <1>k DEF WithLater, TypeOK, SessionRec

\* Every step keeps what is said of the entry node that has become the relay.
LEMMA SwappedStep ==
    ASSUME IInv, NEW s \in Sessions, AckInv(s), FrameInv(s), CalmInv(s), AllOpen(s), Swapped(s), [Next]_vars,
           IInv', CalmInv(s)', AllOpen(s)'
    PROVE  Swapped(s)'
<1> SUFFICES ASSUME Replaced(s)'
             PROVE  session'[<<Entry(s), s>>].early = "dial" /\ session'[<<Entry(s), s>>].later = "relay"
  BY DEF Swapped, Entry
<1>a. "relay" \in Purposes /\ Entry(s) \in Nodes
  BY Parties DEF Purposes
<1>1. CASE Still(s)
  BY <1>1, StillReplaced DEF Swapped
<1>2. ASSUME NEW q \in Purposes, StartFrame(s, q)
      PROVE  Replaced(s) /\ session' = session
  <2>1. UNCHANGED <<handler, session>> /\ Landed(s, "relay")
    BY <1>2 DEF StartFrame, Replaced, Landed
  <2>2. call[<<s, "relay">>] \notin Unopened
    BY <1>a, <2>1 DEF IInv, OpenedAt, Landed, Early
  <2>3. Dst(s, "relay")' = Dst(s, "relay")
    BY <1>a, <1>2, <2>2 DEF StartFrame
  <2> QED BY <2>1, <2>3 DEF Dst, Replaced, Entry
<1>3. ASSUME NEW q \in Purposes, Call(s, q)
      PROVE  Replaced(s) /\ session'[<<Entry(s), s>>] = session[<<Entry(s), s>>]
  <2>1. CallFrame(s, q)
    BY <1>3, CallFrames
  <2>2. Replaced(s)
    BY <1>a, <2>1 DEF CallFrame, Replaced, Landed, Early, Entry
  <2>3. call[<<s, "relay">>] \notin Unopened
    BY <1>a, <2>2 DEF IInv, OpenedAt, Replaced, Landed, Early
  <2>4. call[<<s, "expend">>] = "idle" /\ relay[s].peer = Entry(s)
    BY <2>2 DEF CalmInv, Losses, Replaced
  <2>5. q = "relay"
    <3>1. call[<<s, q>>] \notin {"idle", "done"}
      BY <2>1 DEF CallFrame
    <3>2. /\ call[<<s, "answer">>] = "done" /\ call[<<s, "sink">>] = "done" /\ call[<<s, "dial">>] = "done"
          /\ call[<<s, "direct">>] = "idle"
      BY <2>3, LandedLast
    <3> QED BY <2>4, <3>1, <3>2 DEF Purposes
  <2>6. Src(s, q) # Entry(s)
    BY <2>4, <2>5 DEF Src, AckInv, Peers
  <2> QED BY <1>a, <2>1, <2>2, <2>6 DEF CallFrame
<1>4. ASSUME NEW e \in Ends, e[1] = s, Sets(e)
      PROVE  session'[<<Entry(s), s>>].early = "dial" /\ session'[<<Entry(s), s>>].later = "relay"
  BY <1>4, SetSwaps
<1> QED BY <1>1, <1>2, <1>3, <1>4, StepKind DEF Moves, Swapped

\* A step that sets nothing up drops the sink's session only, and only after the
\* entry node has become the relay.
LEMMA StillClose ==
    ASSUME IInv, NEW s \in Sessions, AckInv(s), CalmInv(s), AllOpen(s), Swapped(s), Still(s),
           IInv', CalmInv(s)', AllOpen(s)', NEW n \in Nodes,
           IsSome(session[<<n, s>>]), ~IsSome(session'[<<n, s>>])
    PROVE  /\ n = sink[s].peer
           /\ n \notin {Entry(s), Access(s), relay[s].peer}
           /\ session[<<Entry(s), s>>].later = "relay"
<1> DEFINE x == session[<<n, s>>]
<1>a. session'[<<n, s>>] # x
  BY DEF IsSome
<1>b. \A p \in Legs(x) : <<s, p>> \in down'
  BY <1>a DEF Still
<1>c. Copy(x, Joined(n, s), Owed(n, s)) /\ Peers(s)
  BY DEF AckInv, Copies, CopiesAt
<1>d. ~Ended(s)'
  BY DEF AllOpen, Ended, Purposes
<1>e. \A p \in Legs(x) : p = "sink" /\ Replaced(s)'
  <2>1. \A p \in Legs(x) : p \in Purposes
    BY <1>c DEF Copy, Joined
  <2> QED BY <1>b, <1>d, <2>1 DEF CalmInv, Losses
<1>f. "sink" \in Legs(x) /\ Replaced(s)'
  <2>1. x.early \in Legs(x)
    BY <1>c DEF Copy, Legs
  <2> QED BY <1>e, <2>1
<1>1. Replaced(s) /\ "dial" \in Legs(session[<<Entry(s), s>>])
  BY <1>f, StillReplaced
<1>2. n # Entry(s)
  BY <1>e, <1>1
<1>3. n = sink[s].peer
  BY <1>c, <1>f, <1>2 DEF Copy, Joined, Src, Dst
<1>4. call[<<s, "relay">>] \notin Unopened
  BY <1>1 DEF IInv, OpenedAt, Replaced, Landed, Early, Purposes
<1>5. sink[s].peer # Access(s)
  BY <1>4, LandedLast
<1> QED BY <1>1, <1>2, <1>3, <1>5 DEF Swapped, Replaced

\* new_session_to_peer drops no session.
LEMMA CallsKeepSession ==
    ASSUME IInv, NEW s \in Sessions, AckInv(s), FrameInv(s), NEW q \in Purposes, Call(s, q), NEW n \in Nodes,
           IsSome(session[<<n, s>>])
    PROVE  IsSome(session'[<<n, s>>])
<1> USE DEF callVars, readVars, nodeVars, hsVars, busVars, loopVars
<1>a. TypeOK /\ session \in [Nodes \X Sessions -> SessionRec]
  BY DEF IInv, TypeOK
<1>1. CASE session' = session
  BY <1>1
<1>2. CASE InsertNew(s, q)
  <2>1. session'[<<n, s>>] = session[<<n, s>>] \/ session'[<<n, s>>].role = MyRole(q)
    BY <1>a, <1>2 DEF InsertNew
  <2>2. MyRole(q) # "none"
    BY DEF MyRole, Purposes
  <2> QED BY <2>1, <2>2 DEF IsSome
<1>3. CASE InsertLater(s, q)
  <2>1. call[<<s, q>>] = "later"
    BY <1>3 DEF InsertLater
  <2>2. n # Src(s, q) => session'[<<n, s>>] = session[<<n, s>>]
    BY <1>a, <1>3 DEF InsertLater
  <2>3. n = Src(s, q) => session'[<<n, s>>] = clone[<<s, q>>]
    BY <1>a, <1>3 DEF InsertLater
  <2>4. n = Src(s, q) => Copy(clone[<<s, q>>], Joined(n, s) \cup {q}, Owed(n, s))
    BY <2>1 DEF AckInv, Copies, CopiesAt
  <2>5. clone[<<s, q>>].later = q
    BY <2>1 DEF FrameInv, Spliced
  <2>6. n = Src(s, q) => IsSome(clone[<<s, q>>])
    BY <2>4, <2>5 DEF Copy, Purposes
  <2> QED BY <2>2, <2>3, <2>6
<1> QED BY <1>1, <1>2, <1>3 DEF Call, OpenStream, OpenTimeout, RegisterAck, CheckSession, CloneSession, ClonePanic

\* handle_set_session drops no session: the entry node finds both streams in its
\* session when the relay's arrives.
LEMMA SetsKeepSession ==
    ASSUME IInv, NEW s \in Sessions, AckInv(s), FrameInv(s), CalmInv(s), NEW e \in Ends, e[1] = s, Sets(e),
           NEW n \in Nodes, IsSome(session[<<n, s>>])
    PROVE  IsSome(session'[<<n, s>>])
<1> USE DEF callVars, readVars, nodeVars, hsVars, busVars, loopVars
<1> DEFINE q == e[2]
<1>a. TypeOK /\ session \in [Nodes \X Sessions -> SessionRec] /\ q \in Purposes /\ e = <<s, q, "dst">>
      /\ snap[e] \in SessionRec
  BY SetFrames DEF IInv, TypeOK
<1>b. OtherRole(q) # "none"
  BY <1>a DEF OtherRole, Purposes
<1>1. CASE TakeSet(e)
  BY <1>1 DEF TakeSet
<1>2. CASE ApplyNew(e)
  <2>1. session'[<<n, s>>] = session[<<n, s>>] \/ session'[<<n, s>>].role = OtherRole(q)
    BY <1>a, <1>2 DEF ApplyNew
  <2> QED BY <1>b, <2>1 DEF IsSome
<1>3. CASE ApplyLater(e)
  <2>1. session'[<<n, s>>] = session[<<n, s>>] \/ session'[<<n, s>>] = WithLater(session[<<n, s>>], q)
    BY <1>a, <1>3 DEF ApplyLater
  <2>2. session[<<n, s>>] \in SessionRec
    BY <1>a
  <2> QED BY <2>1, <2>2 DEF IsSome, WithLater, SessionRec
<1>4. CASE ApplyReplace(e)
  <2>1. handler[e] = "set" /\ snap[e].role = "Entry" /\ OtherRole(q) = "Relay"
    BY <1>4 DEF ApplyReplace, IsEntryAsRelay
  <2>2. q = "relay"
    BY <1>a, <2>1 DEF OtherRole, Purposes
  <2>3. snap[e].early = "dial" /\ snap[e].later = "sink"
    <3>1. handler[<<s, "relay", "dst">>] = "set" /\ IsSome(snap[<<s, "relay", "dst">>]) /\ e = <<s, "relay", "dst">>
      BY <1>a, <2>1, <2>2 DEF IsSome
    <3> QED BY <3>1, RelaySnap
  <2>4. session'[<<n, s>>] = session[<<n, s>>] \/ session'[<<n, s>>] = WithLater(snap[e], q)
    BY <1>a, <1>4, <2>3 DEF ApplyReplace, Ready
  <2> QED BY <1>a, <2>1, <2>4 DEF IsSome, WithLater, SessionRec
<1> QED BY <1>1, <1>2, <1>3, <1>4 DEF Sets

\* Every step keeps the invariant of the runs without faults.
LEMMA FaultlessStep ==
    ASSUME Faultless, FaultlessInvs, [Next]_vars
    PROVE  FaultlessInvs'
<1>a. Calm /\ CalmInvs /\ IInv /\ \A s \in Sessions : AckInv(s) /\ FrameInv(s) /\ CalmInv(s)
  BY DEF Faultless, FaultlessInvs, CalmInvs, FrameInvs
<1>b. \A s \in Sessions : TriesInv(s) /\ Begun(s) /\ AllOpen(s) /\ Swapped(s)
  BY DEF FaultlessInvs
<1>1. CalmInvs'
  BY <1>a, CalmInvStep
<1>2. IInv' /\ \A s \in Sessions : CalmInv(s)'
  BY <1>1 DEF CalmInvs, FrameInvs
<1>3. \A s \in Sessions : TriesInv(s)' /\ Begun(s)' /\ AllOpen(s)'
  BY <1>a, <1>b, TriesStep, BegunStep, AllOpenStep
<1>4. \A s \in Sessions : Swapped(s)'
  BY <1>a, <1>b, <1>2, <1>3, SwappedStep
<1> QED BY <1>1, <1>3, <1>4 DEF FaultlessInvs

\* What a step may drop.
LEMMA FaultlessClose ==
    ASSUME Faultless, FaultlessInvs, [Next]_vars, NEW s \in Sessions, NEW n \in Nodes,
           IsSome(session[<<n, s>>]), ~IsSome(session'[<<n, s>>])
    PROVE  /\ n = sink[s].peer
           /\ n \notin {Entry(s), Access(s), relay[s].peer}
           /\ session[<<Entry(s), s>>].later = "relay"
<1>a. IInv /\ AckInv(s) /\ FrameInv(s) /\ CalmInv(s) /\ AllOpen(s) /\ Swapped(s)
  BY DEF FaultlessInvs, CalmInvs, FrameInvs
<1>b. IInv' /\ CalmInv(s)' /\ AllOpen(s)'
  BY FaultlessStep DEF FaultlessInvs, CalmInvs, FrameInvs
<1>1. CASE Still(s)
  BY <1>a, <1>b, <1>1, StillClose
<1>2. ~\E q \in Purposes : StartFrame(s, q)
  BY DEF StartFrame
<1>3. ~\E q \in Purposes : Call(s, q)
  BY <1>a, CallsKeepSession
<1>4. ~\E e \in Ends : e[1] = s /\ Sets(e)
  BY <1>a, SetsKeepSession
<1> QED BY <1>a, <1>1, <1>2, <1>3, <1>4, StepKind DEF Moves

\* When streams open and stay, nobody hangs up and each server knows a peer to go
\* on to, handle_close_session is called for no session but the one that is left
\* over at the sink after handle_set_session at the entry node has replaced the
\* stream to it: the read error of the replaced stream, which reaches the entry
\* node as well, finds the stream in no session there.
THEOREM NoSpuriousCloseHolds == Faultless => (Spec => NoSpuriousClose)
<1> SUFFICES ASSUME Faultless PROVE Spec => NoSpuriousClose
  OBVIOUS
<1>1. Init => FaultlessInvs
  <2> SUFFICES ASSUME Init, NEW s \in Sessions PROVE TriesInv(s) /\ Begun(s) /\ AllOpen(s) /\ Swapped(s)
    BY CalmInvInit DEF FaultlessInvs
  <2>1. TriesInv(s)
    BY DEF Init, NoPick, TriesInv, Tries, Tried, Tasks
  <2>2. \A p \in Purposes : call[<<s, p>>] = "idle"
    BY DEF Init, Streams
  <2>3. handler[<<s, "relay", "dst">>] = "off"
    BY DEF Init, Ends, Purposes
  <2> QED BY <2>1, <2>2, <2>3 DEF Begun, AllOpen, Swapped, Replaced, Landed, Early, Purposes
<1>2. FaultlessInvs /\ [Next]_vars => FaultlessInvs'
  BY FaultlessStep
<1>3. FaultlessInvs /\ [Next]_vars =>
        [\A s \in Sessions, n \in Nodes :
           IsSome(session[<<n, s>>]) /\ ~IsSome(session'[<<n, s>>]) =>
             /\ n = sink[s].peer
             /\ n \notin {Entry(s), Access(s), relay[s].peer}
             /\ session[<<Entry(s), s>>].later = "relay"]_vars
  BY FaultlessClose
<1> QED BY <1>1, <1>2, <1>3, PTL DEF Spec, NoSpuriousClose
=============================================================================
