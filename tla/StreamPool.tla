---------------------------- MODULE StreamPool ------------------------------
(* How a node gets the relay stream it asked for.  new_relay_stream sends a   *)
(* request through the swarm to the handler of a connection and then looks    *)
(* for a stream to its peer in relay_out_streams, a queue that all calls of   *)
(* the node share, until five seconds have passed; the other node puts its    *)
(* end in relay_in_streams, from where a loop gives it to a new handler.      *)
(* A stream is named by the call that asked for it; nothing in the code ties  *)
(* it to that call.                                                           *)
EXTENDS Naturals, Sequences, FiniteSets

CONSTANTS
    Calls, Peers,
    Want,      \* the peer a call wants a stream to
    NoStream,
    MaxTicks,  \* 50 ms waits of a call: 100 in the code
    MaxDrops   \* bound: how often connections may be lost

ASSUME StreamPoolAssumption ==
    /\ IsFiniteSet(Calls)
    /\ Want \in [Calls -> Peers]
    /\ NoStream \notin Calls
    /\ MaxTicks \in Nat /\ MaxDrops \in Nat

VARIABLES
    stage,   \* where the request, and then the stream, of a call is
    pool,    \* relay_out_streams
    call,    \* wait_for_out_peer_relay_stream
    len,     \* its len
    index,   \* its index
    ticks,   \* its wait_time
    hand,    \* the stream it has popped
    due,     \* history: streams it could have taken when it read the length, and
             \* that no other call has popped since
    up,      \* peers with a connection
    drops

Stages == {"none", "asked", "opening", "pool", "hand", "taken", "dropped"}

lookVars == <<call, len, index, ticks, hand, due>>
vars == <<stage, pool, lookVars, up, drops>>

TypeOK ==
    /\ stage \in [Calls -> Stages]
    /\ pool \in Seq(Calls)
    /\ call \in [Calls -> {"idle", "check", "scan", "back", "got", "timeout"}]
    /\ len \in [Calls -> 0..Cardinality(Calls)]
    /\ index \in [Calls -> 0..Cardinality(Calls)]
    /\ ticks \in [Calls -> 0..MaxTicks]
    /\ hand \in [Calls -> Calls \cup {NoStream}]
    /\ due \in [Calls -> SUBSET Calls]
    /\ up \in SUBSET Peers
    /\ drops \in 0..MaxDrops

Init ==
    /\ stage = [c \in Calls |-> "none"]
    /\ pool = <<>>
    /\ call = [c \in Calls |-> "idle"]
    /\ len = [c \in Calls |-> 0] /\ index = [c \in Calls |-> 0]
    /\ ticks = [c \in Calls |-> 0]
    /\ hand = [c \in Calls |-> NoStream]
    /\ due = [c \in Calls |-> {}]
    /\ up = Peers /\ drops = 0

Move(c, s) == stage' = [stage EXCEPT ![c] = s]

-----------------------------------------------------------------------------
(* new_relay_stream, and the way of its request to the pool.  The queues on   *)
(* the way are first in, first out, but substreams are negotiated side by     *)
(* side, so streams reach the pool in any order.                              *)

NewRelayStream(c) ==
    /\ call[c] = "idle"
    /\ call' = [call EXCEPT ![c] = "check"]
    /\ Move(c, "asked")
    /\ UNCHANGED <<pool, len, index, ticks, hand, due, up, drops>>

HasHandler(c) == Want[c] \in up

\* The spawned task sends NewStreamRequest, the swarm loop calls new_stream,
\* Relay::poll notifies the handler of a connection, if there is one then, and
\* RelayHandler::poll asks for a substream.
NotifyHandler(c) ==
    /\ stage[c] = "asked"
    /\ Move(c, IF HasHandler(c) THEN "opening" ELSE "dropped")
    /\ UNCHANGED <<pool, lookVars, up, drops>>

\* inject_dial_upgrade_error only logs.
UpgradeError(c) ==
    /\ stage[c] = "opening" /\ drops < MaxDrops
    /\ Move(c, "dropped")
    /\ drops' = drops + 1
    /\ UNCHANGED <<pool, lookVars, up>>

\* The substream is negotiated and goes through RelayHandler::poll, Relay's
\* inject_event and poll, and the inject_event of WhitenoiseBehaviour.  The other
\* node's end goes the same way to relay_in_streams, and the loop around
\* wait_for_relay_stream starts a relay_event_handler for it, whatever becomes of
\* the call.
Push(s) == pool' = Append(pool, s) /\ Move(s, "pool")

RelayOutbound(c) ==
    /\ stage[c] = "opening"
    /\ Push(c)
    /\ UNCHANGED <<lookVars, up, drops>>

-----------------------------------------------------------------------------
(* wait_for_out_peer_relay_stream: every access to the pool takes the lock    *)
(* anew, and a stream in hand is in nobody's sight.                           *)

\* The locals of a call go out of scope.
Forget(c) ==
    /\ len' = [len EXCEPT ![c] = 0]
    /\ index' = [index EXCEPT ![c] = 0]
    /\ ticks' = [ticks EXCEPT ![c] = 0]

OneTickMore(c) == ticks[c] > MaxTicks  \* mutant: > for >=

TimeUp(c) == ticks[c] >= MaxTicks

GiveUp(c) ==
    /\ call[c] = "check" /\ TimeUp(c)
    /\ call' = [call EXCEPT ![c] = "timeout"]
    /\ Forget(c)
    /\ UNCHANGED <<stage, pool, hand, due, up, drops>>

OneLess(n) == IF n = 0 THEN 0 ELSE n - 1  \* mutant: the last stream is not looked at

ScanLength(n) == n

ReadLen(c) ==
    /\ call[c] = "check" /\ ~TimeUp(c)
    /\ call' = [call EXCEPT ![c] = "scan"]
    /\ len' = [len EXCEPT ![c] = ScanLength(Len(pool))]
    /\ index' = [index EXCEPT ![c] = 0]
    /\ due' = [due EXCEPT ![c] = {s \in Calls : stage[s] = "pool" /\ Want[s] = Want[c]}]
    /\ UNCHANGED <<stage, pool, ticks, hand, up, drops>>

AnyPeer(c, s) == TRUE  \* mutant: the peer of the stream is not compared

RightPeer(c, s) == Want[s] = Want[c]

Pop(c) ==
    /\ call[c] = "scan" /\ index[c] < len[c]
    /\ pool # <<>>
    /\ pool' = Tail(pool)
    /\ hand' = [hand EXCEPT ![c] = Head(pool)]
    /\ due' = [d \in Calls |-> IF RightPeer(c, Head(pool)) /\ c = d THEN {}
                               ELSE due[d] \ {Head(pool)}]
    /\ UNCHANGED <<up, drops>>

PopMine(c) ==
    /\ Pop(c)
    /\ RightPeer(c, Head(pool))
    /\ Move(Head(pool), "taken")
    /\ call' = [call EXCEPT ![c] = "got"]
    /\ Forget(c)

PopOther(c) ==
    /\ Pop(c)
    /\ ~RightPeer(c, Head(pool))
    /\ Move(Head(pool), "hand")
    /\ call' = [call EXCEPT ![c] = "back"]
    /\ UNCHANGED <<len, index, ticks>>

PopNothing(c) ==
    /\ call[c] = "scan" /\ index[c] < len[c]
    /\ pool = <<>>
    /\ index' = [index EXCEPT ![c] = @ + 1]
    /\ UNCHANGED <<stage, pool, call, len, ticks, hand, due, up, drops>>

ForgetStream(s) == UNCHANGED pool /\ Move(s, "none")  \* mutant: it is not put back

Return(s) == Push(s)

PushBack(c) ==
    /\ call[c] = "back"
    /\ Return(hand[c])
    /\ hand' = [hand EXCEPT ![c] = NoStream]
    /\ call' = [call EXCEPT ![c] = "scan"]
    /\ index' = [index EXCEPT ![c] = @ + 1]
    /\ UNCHANGED <<len, ticks, due, up, drops>>

Sleep(c) ==
    /\ call[c] = "scan" /\ index[c] = len[c]
    /\ call' = [call EXCEPT ![c] = "check"]
    /\ ticks' = [ticks EXCEPT ![c] = @ + 1]
    /\ UNCHANGED <<stage, pool, len, index, hand, due, up, drops>>

-----------------------------------------------------------------------------
\* A connection is lost: its handlers vanish with what they hold, while streams
\* that have left them stay where they are.
Disconnect(p) ==
    LET mine == {c \in Calls : Want[c] = p} IN
    /\ p \in up /\ drops < MaxDrops
    /\ up' = up \ {p}
    /\ drops' = drops + 1
    /\ stage' = [c \in Calls |-> IF c \in mine /\ stage[c] = "opening"
                                   THEN "dropped" ELSE stage[c]]
    /\ UNCHANGED <<pool, lookVars>>

Connect(p) ==
    /\ p \notin up
    /\ up' = up \cup {p}
    /\ UNCHANGED <<stage, pool, lookVars, drops>>

Look(c) == \/ GiveUp(c) \/ ReadLen(c) \/ PopMine(c) \/ PopOther(c)
           \/ PopNothing(c) \/ PushBack(c) \/ Sleep(c)

Carry(c) == NotifyHandler(c) \/ RelayOutbound(c)

Next ==
    \/ \E c \in Calls : NewRelayStream(c) \/ Look(c) \/ Carry(c) \/ UpgradeError(c)
    \/ \E p \in Peers : Disconnect(p) \/ Connect(p)

Spec == Init /\ [][Next]_vars

-----------------------------------------------------------------------------
(* Properties.                                                                *)

\* The streams to a peer that are on their way or lie in the pool or in a hand.
Coming(p) == {c \in Calls : Want[c] = p /\ stage[c] \notin {"none", "taken", "dropped"}}
Waiting(p) == {c \in Calls : Want[c] = p /\ call[c] \notin {"idle", "got", "timeout"}}
Ended(p, how) == {c \in Calls : Want[c] = p /\ call[c] = how}
Dropped(p) == {c \in Calls : Want[c] = p /\ stage[c] = "dropped"}

\* Streams are conserved: those that are left to a peer are one for each call
\* that still waits and one for each that has given up, less the requests that
\* were dropped.  So no stream is lost between the scans of two calls, though one
\* call may time out while another has its stream in hand, and a stream that comes
\* too late is what the next call to the peer gets.
Conserved == \A p \in Peers :
    Cardinality(Coming(p)) + Cardinality(Dropped(p)) =
        Cardinality(Waiting(p)) + Cardinality(Ended(p, "timeout"))

\* A stream has one owner, the queue or one call, and a call that has returned
\* one has one to its peer.
OneOwner ==
    /\ \A i, j \in DOMAIN pool : pool[i] = pool[j] => i = j
    /\ \A i \in DOMAIN pool : \A c \in Calls : hand[c] # pool[i]
    /\ \A c, d \in Calls : hand[c] = hand[d] /\ hand[c] # NoStream => c = d
    /\ \A c \in Calls : call[c] = "got" => hand[c] # NoStream /\ Want[hand[c]] = Want[c]

\* A scan misses a stream to its peer that was in the pool when it began only if
\* another call had that stream in its hand meanwhile: neither the streams put
\* back nor those the swarm adds during the scan push it out of reach.
ScanFinds == \A c \in Calls : call[c] = "scan" /\ index[c] = len[c] => due[c] = {}
=============================================================================
