-------------------------- MODULE StreamPoolProofs --------------------------
(* No relay stream is lost, duplicated or overlooked by the calls that look   *)
(* for theirs in the pool, for any number of calls and peers.                 *)
EXTENDS StreamPool, QueueLemmas, FiniteSetTheorems

\* TypeOK without the bounds that rest on the number of streams.
PoolTypes ==
    /\ stage \in [Calls -> Stages]
    /\ pool \in Seq(Calls)
    /\ call \in [Calls -> {"idle", "check", "scan", "back", "got", "timeout"}]
    /\ len \in [Calls -> Nat] /\ index \in [Calls -> Nat] /\ ticks \in [Calls -> Nat]
    /\ hand \in [Calls -> Calls \cup {NoStream}]
    /\ due \in [Calls -> SUBSET Calls]
    /\ up \in SUBSET Peers
    /\ drops \in 0..MaxDrops

\* A stream lies in the pool once, in one hand, or nowhere.
Placed ==
    /\ Once(pool, Calls)
    /\ \A s \in Calls : stage[s] = "pool" <=> s \in Elems(pool)
    /\ \A s \in Calls : stage[s] = "taken" => \E c \in Calls : call[c] = "got" /\ hand[c] = s
    /\ \A c, d \in Calls : hand[c] = hand[d] /\ hand[c] # NoStream => c = d

\* What a call has in its hand fits the point it has reached.
Holds(c) ==
    /\ stage[c] = "none" <=> call[c] = "idle"
    /\ hand[c] # NoStream <=> call[c] \in {"back", "got"}
    /\ call[c] = "back" => stage[hand[c]] = "hand"
    /\ call[c] = "got" => stage[hand[c]] = "taken" /\ Want[hand[c]] = Want[c]

\* The locals of a scan.
Scan(c) ==
    /\ len[c] <= Cardinality(Calls)
    /\ index[c] <= len[c]
    /\ call[c] = "back" => index[c] < len[c]
    /\ ticks[c] <= MaxTicks
    /\ call[c] \in {"scan", "back"} => ticks[c] < MaxTicks

\* How many streams a scan still looks at.
Left(c) == len[c] - index[c] - (IF call[c] = "back" THEN 1 ELSE 0)

\* A stream that a scan has to find is within its reach.
InReach(c) == call[c] \in {"scan", "back"} =>
    \A s \in due[c] : \E i \in 1..Len(pool) : pool[i] = s /\ i <= Left(c)

PoolInv == PoolTypes /\ Placed /\ \A c \in Calls : Holds(c) /\ Scan(c) /\ InReach(c)

\* A queue without copies is no longer than there are streams.
LEMMA PoolBound ==
    ASSUME NEW q \in Seq(Calls), Once(q, Calls)
    PROVE  Len(q) <= Cardinality(Calls)
<1>1. q \in [1..Len(q) -> Calls] /\ Len(q) \in Nat
  BY DomainOfQueue
<1>2. q \in Injection(1..Len(q), Calls)
  <2>1. \A i, j \in 1..Len(q) : q[i] = q[j] => i = j
    BY <1>1 DEF Once
  <2> QED
    BY <1>1, <2>1 DEF Injection, IsInjective
<1>3. Cardinality(1..Len(q)) = Len(q)
  <2>1. Cardinality(1..Len(q)) = IF 1 > Len(q) THEN 0 ELSE Len(q) - 1 + 1
    BY <1>1, FS_Interval, SMTT(30)
  <2> QED
    BY <1>1, <2>1
<1>4. Cardinality(1..Len(q)) <= Cardinality(Calls)
  BY <1>2, FS_Injection, StreamPoolAssumption
<1> QED
  BY <1>3, <1>4

\* The number of calls is a number.
LEMMA CallsFinite == Cardinality(Calls) \in Nat
BY FS_CardinalityType, StreamPoolAssumption

\* Before any call the pool is empty and nobody holds a stream.
LEMMA PoolInitOK == Init => PoolInv
<1> SUFFICES ASSUME Init PROVE PoolInv
  OBVIOUS
<1>1. PoolTypes
  BY StreamPoolAssumption DEF Init, PoolTypes, Stages
<1>2. Placed
  BY EmptyQueue DEF Init, Placed
<1>3. ASSUME NEW c \in Calls PROVE Holds(c) /\ Scan(c) /\ InReach(c)
  BY StreamPoolAssumption, CallsFinite DEF Init, Holds, Scan, InReach
<1> QED
  BY <1>1, <1>2, <1>3 DEF PoolInv

-----------------------------------------------------------------------------
\* Requests on their way to the pool, and connections that come and go.
LEMMA StagesOK ==
    ASSUME PoolInv, UNCHANGED <<pool, call, len, index, ticks, hand, due>>,
           stage' \in [Calls -> Stages], up' \in SUBSET Peers, drops' \in 0..MaxDrops,
           \A s \in Calls : stage'[s] = stage[s] \/
               (stage[s] \in {"asked", "opening"} /\ stage'[s] \in {"opening", "dropped"})
    PROVE  PoolInv'
<1>1. PoolTypes'
  BY DEF PoolInv, PoolTypes
<1>2. Placed'
  BY DEF PoolInv, Placed
<1>3. ASSUME NEW c \in Calls PROVE Holds(c)' /\ Scan(c)' /\ InReach(c)'
  <2>0. Holds(c) /\ Scan(c) /\ InReach(c) /\ hand[c] \in Calls \cup {NoStream}
    BY DEF PoolInv, PoolTypes
  <2>1. Holds(c)'
    BY <2>0 DEF Holds
  <2>2. Scan(c)' /\ InReach(c)'
    BY <2>0 DEF Scan, InReach, Left
  <2> QED
    BY <2>1, <2>2
<1> QED
  BY <1>1, <1>2, <1>3 DEF PoolInv

\* A call asks for a stream.
LEMMA NewRelayStreamOK ==
    ASSUME PoolInv, NEW c \in Calls, NewRelayStream(c)
    PROVE  PoolInv'
<1>0. PoolTypes /\ Placed /\ \A d \in Calls : Holds(d) /\ Scan(d) /\ InReach(d)
  BY DEF PoolInv
<1>1. /\ call[c] = "idle" /\ call'[c] = "check" /\ stage[c] = "none" /\ stage'[c] = "asked"
      /\ \A d \in Calls : d # c => call'[d] = call[d] /\ stage'[d] = stage[d]
      /\ UNCHANGED <<pool, len, index, ticks, hand, due, up, drops>>
  BY <1>0 DEF NewRelayStream, Move, PoolTypes, Holds
<1>2. PoolTypes'
  BY <1>0 DEF NewRelayStream, Move, PoolTypes, Stages
<1>3. Placed'
  BY <1>0, <1>1 DEF Placed
<1>4. ASSUME NEW d \in Calls PROVE Holds(d)' /\ Scan(d)' /\ InReach(d)'
  <2>0. Holds(d) /\ Scan(d) /\ InReach(d) /\ hand[d] \in Calls \cup {NoStream}
    BY <1>0 DEF PoolTypes
  <2>1. Holds(d)'
    BY <2>0, <1>1, StreamPoolAssumption DEF Holds
  <2>2. Scan(d)' /\ InReach(d)'
    BY <2>0, <1>1 DEF Scan, InReach, Left
  <2> QED
    BY <2>1, <2>2
<1> QED
  BY <1>2, <1>3, <1>4 DEF PoolInv

\* A stream is added at the end of the pool: by the swarm, or by a call that has
\* no use for it.
LEMMA AppendReach ==
    ASSUME pool \in Seq(Calls), NEW s \in Calls, pool' = Append(pool, s),
           NEW x, NEW n \in Int, \E i \in 1..Len(pool) : pool[i] = x /\ i <= n
    PROVE  \E i \in 1..Len(pool') : pool'[i] = x /\ i <= n
BY AppendIndex, DomainOfQueue

\* The swarm loop puts a stream that was opened at the end of the pool.
LEMMA RelayOutboundOK ==
    ASSUME PoolInv, NEW c \in Calls, RelayOutbound(c)
    PROVE  PoolInv'
<1>0. PoolTypes /\ Placed /\ \A d \in Calls : Holds(d) /\ Scan(d) /\ InReach(d)
  BY DEF PoolInv
<1>1. /\ stage[c] = "opening" /\ stage'[c] = "pool" /\ pool' = Append(pool, c)
      /\ \A d \in Calls : d # c => stage'[d] = stage[d]
      /\ UNCHANGED <<call, len, index, ticks, hand, due, up, drops>>
  BY <1>0 DEF RelayOutbound, Push, Move, PoolTypes, lookVars
<1>2. pool \in Seq(Calls) /\ c \notin Elems(pool) /\ Once(pool, Calls)
  BY <1>0, <1>1 DEF Placed, PoolTypes
<1>3. /\ pool' \in Seq(Calls) /\ Once(pool', Calls)
      /\ \A x : x \in Elems(pool') <=> x \in Elems(pool) \/ x = c
  BY <1>1, <1>2, AppendIndex, AppendElems, AppendOnce
<1>4. PoolTypes'
  BY <1>0, <1>1, <1>3 DEF RelayOutbound, Push, Move, PoolTypes, Stages
<1>5. Placed'
  BY <1>0, <1>1, <1>3 DEF Placed
<1>6. ASSUME NEW d \in Calls PROVE Holds(d)' /\ Scan(d)' /\ InReach(d)'
  <2>0. Holds(d) /\ Scan(d) /\ InReach(d) /\ hand[d] \in Calls \cup {NoStream} /\ Left(d) \in Int
    BY <1>0 DEF PoolTypes, Left
  <2>1. Holds(d)'
    BY <2>0, <1>1 DEF Holds
  <2>2. Scan(d)'
    BY <2>0, <1>1 DEF Scan
  <2>3. InReach(d)'
    BY <2>0, <1>1, <1>2, AppendReach DEF InReach, Left
  <2> QED
    BY <2>1, <2>2, <2>3
<1> QED
  BY <1>4, <1>5, <1>6 DEF PoolInv

-----------------------------------------------------------------------------
(* wait_for_out_peer_relay_stream.                                            *)

\* The time is up.
LEMMA GiveUpOK ==
    ASSUME PoolInv, NEW c \in Calls, GiveUp(c)
    PROVE  PoolInv'
<1>0. PoolTypes /\ Placed /\ \A d \in Calls : Holds(d) /\ Scan(d) /\ InReach(d)
  BY DEF PoolInv
<1>1. /\ call[c] = "check" /\ call'[c] = "timeout" /\ len'[c] = 0 /\ index'[c] = 0 /\ ticks'[c] = 0
      /\ \A d \in Calls : d # c => /\ call'[d] = call[d] /\ len'[d] = len[d]
                                   /\ index'[d] = index[d] /\ ticks'[d] = ticks[d]
      /\ UNCHANGED <<stage, pool, hand, due, up, drops>>
  BY <1>0 DEF GiveUp, Forget, PoolTypes
<1>2. PoolTypes'
  BY <1>0 DEF GiveUp, Forget, PoolTypes
<1>3. Placed'
  BY <1>0, <1>1 DEF Placed
<1>4. ASSUME NEW d \in Calls PROVE Holds(d)' /\ Scan(d)' /\ InReach(d)'
  <2>0. Holds(d) /\ Scan(d) /\ InReach(d)
    BY <1>0
  <2>1. Holds(d)'
    BY <2>0, <1>1 DEF Holds
  <2>2. Scan(d)' /\ InReach(d)'
    BY <2>0, <1>1, CallsFinite, StreamPoolAssumption DEF Scan, InReach, Left
  <2> QED
    BY <2>1, <2>2
<1> QED
  BY <1>2, <1>3, <1>4 DEF PoolInv

\* A scan begins: every stream in the pool is within its reach.
LEMMA ReadLenOK ==
    ASSUME PoolInv, NEW c \in Calls, ReadLen(c)
    PROVE  PoolInv'
<1>0. PoolTypes /\ Placed /\ \A d \in Calls : Holds(d) /\ Scan(d) /\ InReach(d)
  BY DEF PoolInv
<1>1. /\ call[c] = "check" /\ call'[c] = "scan" /\ len'[c] = Len(pool) /\ index'[c] = 0
      /\ ticks[c] \in Nat /\ ticks[c] < MaxTicks
      /\ due'[c] = {s \in Calls : stage[s] = "pool" /\ Want[s] = Want[c]}
      /\ \A d \in Calls : d # c => /\ call'[d] = call[d] /\ len'[d] = len[d]
                                   /\ index'[d] = index[d] /\ due'[d] = due[d]
      /\ UNCHANGED <<stage, pool, ticks, hand, up, drops>>
  BY <1>0, StreamPoolAssumption DEF ReadLen, ScanLength, TimeUp, PoolTypes
<1>2. Len(pool) \in Nat /\ Len(pool) <= Cardinality(Calls)
  BY <1>0, PoolBound DEF PoolTypes, Placed
<1>3. PoolTypes'
  BY <1>0, <1>2 DEF ReadLen, ScanLength, PoolTypes
<1>4. Placed'
  BY <1>0, <1>1 DEF Placed
<1>5. ASSUME NEW d \in Calls PROVE Holds(d)' /\ Scan(d)' /\ InReach(d)'
  <2>0. Holds(d) /\ Scan(d) /\ InReach(d)
    BY <1>0
  <2>1. Holds(d)'
    BY <2>0, <1>1 DEF Holds
  <2>2. Scan(d)'
    BY <2>0, <1>1, <1>2 DEF Scan
  <2>3. CASE d # c
    BY <2>0, <2>1, <2>2, <2>3, <1>1 DEF InReach, Left
  <2>4. CASE d = c
    <3>1. \A s \in due'[c] : \E i \in 1..Len(pool) : pool[i] = s
      BY <1>0, <1>1, DomainOfQueue DEF Placed, Elems, PoolTypes
    <3>2. Left(c)' = Len(pool)
      BY <1>1, <1>2 DEF Left
    <3> QED
      BY <2>1, <2>2, <2>4, <3>1, <3>2, <1>1, <1>2 DEF InReach
  <2> QED
    BY <2>3, <2>4
<1> QED
  BY <1>3, <1>4, <1>5 DEF PoolInv

\* After the head was popped, every other stream is one place nearer.
LEMMA TailReach ==
    ASSUME pool \in Seq(Calls), pool # <<>>, pool' = Tail(pool),
           NEW x, x # Head(pool), NEW n \in Int, \E i \in 1..Len(pool) : pool[i] = x /\ i <= n
    PROVE  \E i \in 1..Len(pool') : pool'[i] = x /\ i <= n - 1
<1>1. PICK i \in 1..Len(pool) : pool[i] = x /\ i <= n
  OBVIOUS
<1>2. i # 1 /\ Len(pool) \in Nat /\ Len(pool') = Len(pool) - 1
  BY <1>1, TailIndex, DomainOfQueue
<1>3. i - 1 \in 1..Len(pool') /\ i - 1 <= n - 1 /\ (i - 1) + 1 = i
  BY <1>1, <1>2
<1>4. pool'[i - 1] = x
  BY <1>1, <1>2, <1>3, TailIndex
<1> QED
  BY <1>3, <1>4

\* Nobody else holds what is in the pool, and nobody misses it who cannot reach
\* what is left.
LEMMA PopFacts ==
    ASSUME PoolInv, NEW c \in Calls, Pop(c)
    PROVE  /\ pool \in Seq(Calls) /\ Head(pool) \in Calls /\ stage[Head(pool)] = "pool"
           /\ pool' \in Seq(Calls) /\ Once(pool', Calls)
           /\ \A x : x \in Elems(pool') <=> x \in Elems(pool) /\ x # Head(pool)
           /\ \A d \in Calls : hand[d] # Head(pool)
           /\ hand'[c] = Head(pool) /\ \A d \in Calls : d # c => hand'[d] = hand[d]
           /\ hand' \in [Calls -> Calls \cup {NoStream}]
           /\ due' \in [Calls -> SUBSET Calls]
           /\ \A d \in Calls : d # c \/ ~RightPeer(c, Head(pool)) => due'[d] = due[d] \ {Head(pool)}
           /\ \A d \in Calls : call[d] \in {"scan", "back"} => \A x \in due[d] \ {Head(pool)} :
                 \E i \in 1..Len(pool') : pool'[i] = x /\ i <= Left(d) - 1
           /\ hand[c] = NoStream /\ call[c] = "scan" /\ index[c] < len[c]
<1>0. PoolTypes /\ Placed /\ \A d \in Calls : Holds(d) /\ Scan(d) /\ InReach(d)
  BY DEF PoolInv
<1>1. pool \in Seq(Calls) /\ pool # <<>> /\ pool' = Tail(pool) /\ Once(pool, Calls)
  BY <1>0 DEF Pop, PoolTypes, Placed
<1>2. /\ Head(pool) \in Calls /\ pool' \in Seq(Calls) /\ Once(pool', Calls)
      /\ Head(pool) \in Elems(pool)
      /\ \A x : x \in Elems(pool') <=> x \in Elems(pool) /\ x # Head(pool)
  BY <1>1, TailIndex, TailElems, TailOnce
<1>3. stage[Head(pool)] = "pool"
  BY <1>0, <1>2 DEF Placed
<1>4. ASSUME NEW d \in Calls PROVE hand[d] # Head(pool)
  <2>1. hand[d] = NoStream \/ stage[hand[d]] \in {"hand", "taken"}
    BY <1>0 DEF Holds
  <2> QED
    BY <1>2, <1>3, <2>1, StreamPoolAssumption
<1>5. /\ hand'[c] = Head(pool) /\ \A d \in Calls : d # c => hand'[d] = hand[d]
      /\ hand' \in [Calls -> Calls \cup {NoStream}]
  BY <1>0, <1>2 DEF Pop, PoolTypes
<1>6. /\ due' \in [Calls -> SUBSET Calls]
      /\ \A d \in Calls : d # c \/ ~RightPeer(c, Head(pool)) => due'[d] = due[d] \ {Head(pool)}
  BY <1>0 DEF Pop, PoolTypes
<1>7. ASSUME NEW d \in Calls, call[d] \in {"scan", "back"}, NEW x \in due[d] \ {Head(pool)}
      PROVE  \E i \in 1..Len(pool') : pool'[i] = x /\ i <= Left(d) - 1
  <2>1. Left(d) \in Int
    BY <1>0 DEF Left, PoolTypes
  <2>2. x # Head(pool) /\ \E i \in 1..Len(pool) : pool[i] = x /\ i <= Left(d)
    BY <1>0, <1>7 DEF InReach
  <2> QED
    BY <1>1, <2>1, <2>2, TailReach
<1>8. hand[c] = NoStream /\ call[c] = "scan" /\ index[c] < len[c]
  BY <1>0 DEF Holds, Pop
<1> QED
  BY <1>1, <1>2, <1>3, <1>4, <1>5, <1>6, <1>7, <1>8

\* A call pops a stream to its peer and returns it.
LEMMA PopMineOK ==
    ASSUME PoolInv, NEW c \in Calls, PopMine(c)
    PROVE  PoolInv'
<1>0. PoolTypes /\ Placed /\ \A d \in Calls : Holds(d) /\ Scan(d) /\ InReach(d)
  BY DEF PoolInv
<1> DEFINE h == Head(pool)
<1>1. /\ pool \in Seq(Calls) /\ h \in Calls /\ stage[h] = "pool"
      /\ pool' \in Seq(Calls) /\ Once(pool', Calls)
      /\ \A x : x \in Elems(pool') <=> x \in Elems(pool) /\ x # h
      /\ \A d \in Calls : hand[d] # h
      /\ hand'[c] = h /\ \A d \in Calls : d # c => hand'[d] = hand[d] /\ due'[d] = due[d] \ {h}
      /\ hand' \in [Calls -> Calls \cup {NoStream}] /\ due' \in [Calls -> SUBSET Calls]
      /\ hand[c] = NoStream /\ call[c] = "scan"
  BY PopFacts DEF PopMine
<1>2. /\ call'[c] = "got" /\ len'[c] = 0 /\ index'[c] = 0 /\ ticks'[c] = 0
      /\ stage'[h] = "taken" /\ Want[h] = Want[c]
      /\ \A s \in Calls : s # h => stage'[s] = stage[s]
      /\ \A d \in Calls : d # c => /\ call'[d] = call[d] /\ len'[d] = len[d]
                                   /\ index'[d] = index[d] /\ ticks'[d] = ticks[d]
      /\ UNCHANGED <<up, drops>>
  BY <1>0, <1>1 DEF PopMine, Pop, RightPeer, Move, Forget, PoolTypes
<1>3. PoolTypes'
  BY <1>0, <1>1, <1>2 DEF PopMine, Move, Forget, PoolTypes, Stages
<1>4. Placed'
  <2>1. \A s \in Calls : stage'[s] = "pool" <=> s \in Elems(pool')
    BY <1>0, <1>1, <1>2 DEF Placed
  <2>2. ASSUME NEW s \in Calls, stage'[s] = "taken"
        PROVE  \E d \in Calls : call'[d] = "got" /\ hand'[d] = s
    <3>1. CASE s = h
      BY <3>1, <1>1, <1>2
    <3>2. CASE s # h
      <4>1. PICK d \in Calls : call[d] = "got" /\ hand[d] = s
        BY <2>2, <3>2, <1>0, <1>2 DEF Placed
      <4> QED
        BY <4>1, <1>1, <1>2
    <3> QED
      BY <3>1, <3>2
  <2>3. ASSUME NEW a \in Calls, NEW d \in Calls, hand'[a] = hand'[d], hand'[a] # NoStream
        PROVE  a = d
    <3>1. CASE a = c \/ d = c
      BY <1>1, <2>3, <3>1
    <3>2. CASE a # c /\ d # c
      BY <1>0, <1>1, <2>3, <3>2 DEF Placed
    <3> QED
      BY <3>1, <3>2
  <2> QED
    BY <1>1, <2>1, <2>2, <2>3 DEF Placed
<1>5. ASSUME NEW d \in Calls PROVE Holds(d)' /\ Scan(d)' /\ InReach(d)'
  <2>0. /\ Holds(d) /\ Scan(d) /\ InReach(d) /\ hand[d] \in Calls \cup {NoStream} /\ Left(d) \in Int
        /\ Holds(h) /\ Holds(c)
    <3>1. len[d] \in Nat /\ index[d] \in Nat /\ hand[d] \in Calls \cup {NoStream}
      BY <1>0 DEF PoolTypes
    <3>2. Left(d) \in Int
      BY <3>1 DEF Left
    <3> QED
      BY <1>0, <1>1, <3>1, <3>2
  <2>1. stage'[d] = "none" <=> call'[d] = "idle"
    BY <2>0, <1>1, <1>2 DEF Holds
  <2>2. Holds(d)'
    BY <2>0, <2>1, <1>1, <1>2, StreamPoolAssumption DEF Holds
  <2>3. Scan(d)'
    BY <2>0, <1>2, CallsFinite, StreamPoolAssumption DEF Scan
  <2>4. CASE d = c
    BY <2>2, <2>3, <2>4, <1>2 DEF InReach
  <2>5. CASE d # c
    <3>1. Left(d)' = Left(d) /\ call'[d] = call[d] /\ due'[d] = due[d] \ {h} /\ Len(pool') \in Nat
      BY <2>5, <1>1, <1>2 DEF Left
    <3>2. call[d] \in {"scan", "back"} => \A x \in due[d] \ {h} :
              \E i \in 1..Len(pool') : pool'[i] = x /\ i <= Left(d) - 1
      BY PopFacts DEF PopMine
    <3>3. call'[d] \in {"scan", "back"} => \A x \in due'[d] :
              \E i \in 1..Len(pool') : pool'[i] = x /\ i <= Left(d)
      BY <2>0, <3>1, <3>2
    <3> QED
      BY <2>2, <2>3, <3>1, <3>3 DEF InReach
  <2> QED
    BY <2>4, <2>5
<1> QED
  BY <1>3, <1>4, <1>5 DEF PoolInv

\* A call pops a stream to another peer.
LEMMA PopOtherOK ==
    ASSUME PoolInv, NEW c \in Calls, PopOther(c)
    PROVE  PoolInv'
<1>0. PoolTypes /\ Placed /\ \A d \in Calls : Holds(d) /\ Scan(d) /\ InReach(d)
  BY DEF PoolInv
<1> DEFINE h == Head(pool)
<1>1. /\ pool \in Seq(Calls) /\ h \in Calls /\ stage[h] = "pool"
      /\ pool' \in Seq(Calls) /\ Once(pool', Calls)
      /\ \A x : x \in Elems(pool') <=> x \in Elems(pool) /\ x # h
      /\ \A d \in Calls : hand[d] # h
      /\ hand'[c] = h /\ \A d \in Calls : d # c => hand'[d] = hand[d]
      /\ \A d \in Calls : due'[d] = due[d] \ {h}
      /\ hand' \in [Calls -> Calls \cup {NoStream}] /\ due' \in [Calls -> SUBSET Calls]
      /\ hand[c] = NoStream /\ call[c] = "scan" /\ index[c] < len[c]
  BY PopFacts DEF PopOther
<1>2. /\ call'[c] = "back" /\ stage'[h] = "hand"
      /\ \A s \in Calls : s # h => stage'[s] = stage[s]
      /\ \A d \in Calls : d # c => call'[d] = call[d]
      /\ UNCHANGED <<len, index, ticks, up, drops>>
  BY <1>0, <1>1 DEF PopOther, Pop, Move, PoolTypes
<1>3. PoolTypes'
  BY <1>0, <1>1, <1>2 DEF PopOther, Move, PoolTypes, Stages
<1>4. Placed'
  <2>1. \A s \in Calls : stage'[s] = "pool" <=> s \in Elems(pool')
    BY <1>0, <1>1, <1>2 DEF Placed
  <2>2. ASSUME NEW s \in Calls, stage'[s] = "taken"
        PROVE  \E d \in Calls : call'[d] = "got" /\ hand'[d] = s
    <3>1. stage[s] = "taken"
      BY <1>2, <2>2
    <3>2. PICK d \in Calls : call[d] = "got" /\ hand[d] = s
      BY <1>0, <3>1 DEF Placed
    <3>3. d # c
      BY <1>1, <3>2
    <3> QED
      BY <1>1, <1>2, <3>2, <3>3
  <2>3. ASSUME NEW a \in Calls, NEW d \in Calls, hand'[a] = hand'[d], hand'[a] # NoStream
        PROVE  a = d
    <3>1. CASE a = c \/ d = c
      BY <1>1, <2>3, <3>1
    <3>2. CASE a # c /\ d # c
      BY <1>0, <1>1, <2>3, <3>2 DEF Placed
    <3> QED
      BY <3>1, <3>2
  <2> QED
    BY <1>1, <2>1, <2>2, <2>3 DEF Placed
<1>5. ASSUME NEW d \in Calls PROVE Holds(d)' /\ Scan(d)' /\ InReach(d)'
  <2>0. /\ Holds(d) /\ Scan(d) /\ InReach(d) /\ hand[d] \in Calls \cup {NoStream}
        /\ Holds(h) /\ Holds(c) /\ len[d] \in Nat /\ index[d] \in Nat
    BY <1>0, <1>1 DEF PoolTypes
  <2>1. stage'[d] = "none" <=> call'[d] = "idle"
    BY <2>0, <1>1, <1>2 DEF Holds
  <2>2. Holds(d)'
    BY <2>0, <2>1, <1>1, <1>2, StreamPoolAssumption DEF Holds
  <2>3. Scan(d)'
    BY <2>0, <1>1, <1>2 DEF Scan
  <2>4. /\ Left(d) \in Int /\ Left(d)' \in Int /\ Left(d)' >= Left(d) - 1
        /\ call'[d] \in {"scan", "back"} => call[d] \in {"scan", "back"}
    <3>1. CASE d = c
      BY <2>0, <3>1, <1>1, <1>2 DEF Left
    <3>2. CASE d # c
      BY <2>0, <3>2, <1>2 DEF Left
    <3> QED
      BY <3>1, <3>2
  <2>5. call[d] \in {"scan", "back"} => \A x \in due[d] \ {h} :
            \E i \in 1..Len(pool') : pool'[i] = x /\ i <= Left(d) - 1
    BY PopFacts DEF PopOther
  <2>6. call'[d] \in {"scan", "back"} => \A x \in due'[d] :
            \E i \in 1..Len(pool') : pool'[i] = x /\ i <= Left(d)'
    <3>1. Len(pool') \in Nat /\ due'[d] = due[d] \ {h}
      BY <1>1
    <3>2. \A i \in 1..Len(pool') : i <= Left(d) - 1 => i <= Left(d)'
      BY <2>4, <3>1
    <3> HIDE DEF h
    <3> QED
      BY <2>4, <2>5, <3>1, <3>2
  <2> QED
    BY <2>2, <2>3, <2>6 DEF InReach
<1> QED
  BY <1>3, <1>4, <1>5 DEF PoolInv

\* A call finds the pool empty: it has nothing left to find in this scan.
LEMMA PopNothingOK ==
    ASSUME PoolInv, NEW c \in Calls, PopNothing(c)
    PROVE  PoolInv'
<1>0. PoolTypes /\ Placed /\ \A d \in Calls : Holds(d) /\ Scan(d) /\ InReach(d)
  BY DEF PoolInv
<1>1. /\ call[c] = "scan" /\ index[c] < len[c] /\ index'[c] = index[c] + 1 /\ pool = <<>>
      /\ \A d \in Calls : d # c => index'[d] = index[d]
      /\ UNCHANGED <<stage, pool, call, len, ticks, hand, due, up, drops>>
  BY <1>0 DEF PopNothing, PoolTypes
<1>2. PoolTypes'
  BY <1>0 DEF PopNothing, PoolTypes
<1>3. Placed'
  BY <1>0, <1>1 DEF Placed
<1>4. ASSUME NEW d \in Calls PROVE Holds(d)' /\ Scan(d)' /\ InReach(d)'
  <2>0. Holds(d) /\ Scan(d) /\ InReach(d) /\ len[d] \in Nat /\ index[d] \in Nat
    BY <1>0 DEF PoolTypes
  <2>1. Holds(d)'
    BY <2>0, <1>1 DEF Holds
  <2>2. Scan(d)'
    BY <2>0, <1>1, CallsFinite DEF Scan
  <2>3. InReach(d)'
    BY <2>0, <1>1 DEF InReach
  <2> QED
    BY <2>1, <2>2, <2>3
<1> QED
  BY <1>2, <1>3, <1>4 DEF PoolInv

\* A call puts a stream to another peer back.
LEMMA PushBackOK ==
    ASSUME PoolInv, NEW c \in Calls, PushBack(c)
    PROVE  PoolInv'
<1>0. PoolTypes /\ Placed /\ \A d \in Calls : Holds(d) /\ Scan(d) /\ InReach(d)
  BY DEF PoolInv
<1>1. PICK s \in Calls : hand[c] = s /\ stage[s] = "hand"
  BY <1>0, StreamPoolAssumption DEF PushBack, Holds, PoolTypes
<1>2. /\ call[c] = "back" /\ call'[c] = "scan" /\ hand'[c] = NoStream
      /\ stage'[s] = "pool" /\ pool' = Append(pool, s) /\ index'[c] = index[c] + 1
      /\ \A d \in Calls : d # s => stage'[d] = stage[d]
      /\ \A d \in Calls : d # c => /\ call'[d] = call[d] /\ hand'[d] = hand[d] /\ hand[d] # s
                                   /\ index'[d] = index[d]
      /\ UNCHANGED <<len, ticks, due, up, drops>>
  BY <1>0, <1>1, StreamPoolAssumption DEF PushBack, Return, Push, Move, PoolTypes, Placed
<1>3. pool \in Seq(Calls) /\ s \notin Elems(pool) /\ Once(pool, Calls)
  BY <1>0, <1>1 DEF Placed, PoolTypes
<1>4. /\ pool' \in Seq(Calls) /\ Once(pool', Calls)
      /\ \A x : x \in Elems(pool') <=> x \in Elems(pool) \/ x = s
  BY <1>2, <1>3, AppendIndex, AppendElems, AppendOnce
<1>5. PoolTypes'
  <2>1. stage' \in [Calls -> Stages]
    BY <1>0 DEF PushBack, Return, Push, Move, PoolTypes, Stages
  <2>2. /\ call' \in [Calls -> {"idle", "check", "scan", "back", "got", "timeout"}]
        /\ hand' \in [Calls -> Calls \cup {NoStream}]
    BY <1>0 DEF PushBack, PoolTypes
  <2>3. index' \in [Calls -> Nat]
    BY <1>0 DEF PushBack, PoolTypes
  <2> QED
    BY <1>0, <1>2, <1>4, <2>1, <2>2, <2>3 DEF PoolTypes
<1>6. Placed'
  <2>1. \A x \in Calls : stage'[x] = "pool" <=> x \in Elems(pool')
    BY <1>0, <1>2, <1>4 DEF Placed
  <2>2. \A x \in Calls : stage'[x] = "taken" => \E d \in Calls : call'[d] = "got" /\ hand'[d] = x
    BY <1>0, <1>2 DEF Placed
  <2>3. \A a, d \in Calls : hand'[a] = hand'[d] /\ hand'[a] # NoStream => a = d
    BY <1>0, <1>2 DEF Placed
  <2> QED
    BY <1>4, <2>1, <2>2, <2>3 DEF Placed
<1>7. ASSUME NEW d \in Calls PROVE Holds(d)' /\ Scan(d)' /\ InReach(d)'
  <2>0. /\ Holds(d) /\ Scan(d) /\ InReach(d) /\ Holds(s) /\ Holds(c)
        /\ hand[d] \in Calls \cup {NoStream} /\ len[d] \in Nat /\ index[d] \in Nat
    BY <1>0 DEF PoolTypes
  <2>1. stage'[d] = "none" <=> call'[d] = "idle"
    BY <2>0, <1>1, <1>2 DEF Holds
  <2>2. Holds(d)'
    BY <2>0, <2>1, <1>1, <1>2, StreamPoolAssumption DEF Holds
  <2>3. Scan(d)'
    BY <2>0, <1>2, CallsFinite DEF Scan
  <2>4. /\ Left(d) \in Int /\ Left(d)' = Left(d) /\ due'[d] = due[d]
        /\ call'[d] \in {"scan", "back"} => call[d] \in {"scan", "back"}
    BY <2>0, <1>2 DEF Left
  <2>5. InReach(d)'
    BY <2>0, <2>4, <1>2, <1>3, AppendReach DEF InReach
  <2> QED
    BY <2>2, <2>3, <2>5
<1> QED
  BY <1>5, <1>6, <1>7 DEF PoolInv

\* A scan is over; the call waits for 50 ms.
LEMMA SleepOK ==
    ASSUME PoolInv, NEW c \in Calls, Sleep(c)
    PROVE  PoolInv'
<1>0. PoolTypes /\ Placed /\ \A d \in Calls : Holds(d) /\ Scan(d) /\ InReach(d)
  BY DEF PoolInv
<1>1. /\ call[c] = "scan" /\ call'[c] = "check" /\ ticks'[c] = ticks[c] + 1
      /\ \A d \in Calls : d # c => call'[d] = call[d] /\ ticks'[d] = ticks[d]
      /\ UNCHANGED <<stage, pool, len, index, hand, due, up, drops>>
  BY <1>0 DEF Sleep, PoolTypes
<1>2. PoolTypes'
  BY <1>0 DEF Sleep, PoolTypes
<1>3. Placed'
  BY <1>0, <1>1 DEF Placed
<1>4. ASSUME NEW d \in Calls PROVE Holds(d)' /\ Scan(d)' /\ InReach(d)'
  <2>0. Holds(d) /\ Scan(d) /\ InReach(d) /\ ticks[d] \in Nat
    BY <1>0 DEF PoolTypes
  <2>1. Holds(d)'
    BY <2>0, <1>1 DEF Holds
  <2>2. Scan(d)'
    BY <2>0, <1>1, StreamPoolAssumption DEF Scan
  <2>3. InReach(d)'
    BY <2>0, <1>1 DEF InReach, Left
  <2> QED
    BY <2>1, <2>2, <2>3
<1> QED
  BY <1>2, <1>3, <1>4 DEF PoolInv

\* Every step keeps the invariant.
LEMMA PoolNextOK == PoolInv /\ [Next]_vars => PoolInv'
<1> SUFFICES ASSUME PoolInv, [Next]_vars PROVE PoolInv'
  OBVIOUS
<1>0. stage \in [Calls -> Stages] /\ up \in SUBSET Peers /\ drops \in 0..MaxDrops /\ MaxDrops \in Nat
  BY StreamPoolAssumption DEF PoolInv, PoolTypes
<1>1. ASSUME NEW c \in Calls, NotifyHandler(c) PROVE PoolInv'
  <2>1. /\ stage' \in [Calls -> Stages]
        /\ UNCHANGED <<pool, call, len, index, ticks, hand, due, up, drops>>
        /\ \A s \in Calls : stage'[s] = stage[s] \/
               (stage[s] \in {"asked", "opening"} /\ stage'[s] \in {"opening", "dropped"})
    BY <1>0, <1>1 DEF NotifyHandler, Move, Stages, lookVars
  <2> QED
    BY <1>0, <2>1, StagesOK
<1>2. ASSUME NEW c \in Calls, UpgradeError(c) PROVE PoolInv'
  <2>1. /\ stage' \in [Calls -> Stages] /\ drops' \in 0..MaxDrops
        /\ UNCHANGED <<pool, call, len, index, ticks, hand, due, up>>
        /\ \A s \in Calls : stage'[s] = stage[s] \/
               (stage[s] \in {"asked", "opening"} /\ stage'[s] \in {"opening", "dropped"})
    BY <1>0, <1>2 DEF UpgradeError, Move, Stages, lookVars
  <2> QED
    BY <1>0, <2>1, StagesOK
<1>3. ASSUME NEW p \in Peers, Disconnect(p) PROVE PoolInv'
  <2>1. /\ stage' \in [Calls -> Stages] /\ drops' \in 0..MaxDrops /\ up' \in SUBSET Peers
        /\ UNCHANGED <<pool, call, len, index, ticks, hand, due>>
        /\ \A s \in Calls : stage'[s] = stage[s] \/
               (stage[s] \in {"asked", "opening"} /\ stage'[s] \in {"opening", "dropped"})
    BY <1>0, <1>3 DEF Disconnect, Stages, lookVars
  <2> QED
    BY <2>1, StagesOK
<1>4. ASSUME NEW p \in Peers, Connect(p) PROVE PoolInv'
  <2>1. up' \in SUBSET Peers /\ UNCHANGED <<stage, pool, call, len, index, ticks, hand, due, drops>>
    BY <1>0, <1>4 DEF Connect, lookVars
  <2> QED
    BY <1>0, <2>1, StagesOK
<1>5. CASE UNCHANGED vars
  <2>1. UNCHANGED <<stage, pool, call, len, index, ticks, hand, due, up, drops>>
    BY <1>5 DEF vars, lookVars
  <2> QED
    BY <1>0, <2>1, StagesOK
<1> QED
  BY <1>1, <1>2, <1>3, <1>4, <1>5, NewRelayStreamOK, RelayOutboundOK, GiveUpOK, ReadLenOK,
     PopMineOK, PopOtherOK, PopNothingOK, PushBackOK, SleepOK
  DEF Next, Look, Carry

\* The inductive invariant holds.
LEMMA PoolSafe == Spec => []PoolInv
BY PoolInitOK, PoolNextOK, PTL DEF Spec

-----------------------------------------------------------------------------
\* Every variable keeps its type: no scan counts beyond the number of streams
\* there can be, and no call waits longer than its 100 rounds.
THEOREM PoolTypeCorrect == Spec => []TypeOK
<1>1. PoolInv => TypeOK
  <2> SUFFICES ASSUME PoolInv PROVE TypeOK
    OBVIOUS
  <2>1. PoolTypes /\ \A c \in Calls : Scan(c)
    BY DEF PoolInv
  <2>2. ASSUME NEW c \in Calls
        PROVE  /\ len[c] \in 0..Cardinality(Calls) /\ index[c] \in 0..Cardinality(Calls)
               /\ ticks[c] \in 0..MaxTicks
    BY <2>1, CallsFinite, StreamPoolAssumption DEF PoolTypes, Scan
  <2> QED
    BY <2>1, <2>2 DEF PoolTypes, TypeOK
<1> QED
  BY <1>1, PoolSafe, PTL

\* A stream that the calls of a node share has one owner at a time, the queue or
\* one call, and wait_for_out_peer_relay_stream returns one to the peer it asked for.
THEOREM OneOwnerHolds == Spec => []OneOwner
<1>1. PoolInv => OneOwner
  <2> SUFFICES ASSUME PoolInv PROVE OneOwner
    OBVIOUS
  <2>0. PoolTypes /\ Placed /\ \A c \in Calls : Holds(c)
    BY DEF PoolInv
  <2>1. \A i \in DOMAIN pool : pool[i] \in Calls /\ stage[pool[i]] = "pool"
    BY <2>0, DomainOfQueue DEF PoolTypes, Placed, Elems
  <2>2. \A i, j \in DOMAIN pool : pool[i] = pool[j] => i = j
    BY <2>0, <2>1 DEF Placed, Once
  <2>3. ASSUME NEW i \in DOMAIN pool, NEW c \in Calls PROVE hand[c] # pool[i]
    <3>1. hand[c] = NoStream \/ stage[hand[c]] \in {"hand", "taken"}
      BY <2>0 DEF Holds
    <3> QED
      BY <2>1, <3>1, StreamPoolAssumption
  <2>4. \A c \in Calls : call[c] = "got" => hand[c] # NoStream /\ Want[hand[c]] = Want[c]
    BY <2>0 DEF Holds
  <2> QED
    BY <2>0, <2>2, <2>3, <2>4 DEF OneOwner, Placed
<1> QED
  BY <1>1, PoolSafe, PTL

\* A scan that has run to the length it read has not overlooked a stream to its
\* peer, unless another call had that stream in its hand meanwhile.
THEOREM ScanFindsHolds == Spec => []ScanFinds
<1>1. PoolInv => ScanFinds
  <2> SUFFICES ASSUME PoolInv, NEW c \in Calls, call[c] = "scan", index[c] = len[c]
               PROVE  due[c] = {}
    BY DEF ScanFinds
  <2>1. Left(c) = 0 /\ InReach(c) /\ pool \in Seq(Calls)
    BY DEF PoolInv, PoolTypes, Left
  <2>2. \A s \in due[c] : \E i \in 1..Len(pool) : i <= 0
    BY <2>1 DEF InReach
  <2> QED
    BY <2>1, <2>2
<1> QED
  BY <1>1, PoolSafe, PTL

\* The sizes of two parts that make up a whole.
LEMMA TwoParts ==
    ASSUME NEW A, NEW B, NEW S, IsFiniteSet(A), IsFiniteSet(B),
           \A x : ~(x \in A /\ x \in B), \A x : x \in S <=> x \in A \/ x \in B
    PROVE  Cardinality(S) = Cardinality(A) + Cardinality(B)
<1>1. A \cap B = {} /\ S = A \cup B
  OBVIOUS
<1>2. Cardinality(A \cup B) = Cardinality(A) + Cardinality(B) - Cardinality(A \cap B)
  BY FS_Union
<1>3. Cardinality(A) \in Nat /\ Cardinality(B) \in Nat
  BY FS_CardinalityType
<1>4. Cardinality(A \cap B) = 0
  BY <1>1, FS_EmptySet
<1> QED
  BY <1>1, <1>2, <1>3, <1>4

\* The streams taken to a peer and the calls that have returned one to it.
Taken(p) == {s \in Calls : Want[s] = p /\ stage[s] = "taken"}

\* Each call that has returned has another stream, and each stream that was taken
\* is some call's, though not always the one's that asked for it.
LEMMA TakenByGot ==
    ASSUME PoolInv, NEW p \in Peers
    PROVE  Cardinality(Ended(p, "got")) = Cardinality(Taken(p))
<1> DEFINE G == Ended(p, "got")
           T == Taken(p)
           f == [c \in G |-> hand[c]]
<1>0. PoolTypes /\ Placed /\ \A d \in Calls : Holds(d)
  BY DEF PoolInv
<1>1. f \in [G -> T]
  <2> SUFFICES ASSUME NEW c \in G PROVE hand[c] \in T
    OBVIOUS
  <2>1. c \in Calls /\ Want[c] = p /\ call[c] = "got"
    BY DEF Ended
  <2>2. hand[c] \in Calls /\ stage[hand[c]] = "taken" /\ Want[hand[c]] = Want[c]
    BY <1>0, <2>1 DEF Holds, PoolTypes
  <2> QED
    BY <2>1, <2>2 DEF Taken
<1>2. \A a, b \in G : f[a] = f[b] => a = b
  <2> SUFFICES ASSUME NEW a \in G, NEW b \in G, hand[a] = hand[b] PROVE a = b
    OBVIOUS
  <2>1. a \in Calls /\ b \in Calls /\ call[a] = "got"
    BY DEF Ended
  <2> QED
    BY <1>0, <2>1 DEF Holds, Placed
<1>3. \A s \in T : \E c \in G : f[c] = s
  <2> SUFFICES ASSUME NEW s \in T PROVE \E c \in G : hand[c] = s
    OBVIOUS
  <2>1. s \in Calls /\ Want[s] = p /\ stage[s] = "taken"
    BY DEF Taken
  <2>2. PICK c \in Calls : call[c] = "got" /\ hand[c] = s
    BY <1>0, <2>1 DEF Placed
  <2>3. Want[c] = p
    BY <1>0, <2>1, <2>2 DEF Holds
  <2> QED
    BY <2>2, <2>3 DEF Ended
<1>4. IsFiniteSet(G)
  BY FS_Subset, StreamPoolAssumption DEF Ended
<1> HIDE DEF G, T, f
<1>5. f \in Bijection(G, T)
  BY <1>1, <1>2, <1>3 DEF Bijection, Injection, Surjection, IsInjective
<1>6. ExistsBijection(G, T)
  BY <1>5 DEF ExistsBijection
<1> QED
  BY <1>4, <1>6, FS_Bijection DEF G, T

\* No stream is lost among the calls of a node: those that are left to a peer are
\* one for each call that waits or has given up, less the requests dropped.
THEOREM ConservedHolds == Spec => []Conserved
<1>1. PoolInv => Conserved
  <2> SUFFICES ASSUME PoolInv, NEW p \in Peers
               PROVE  Cardinality(Coming(p)) + Cardinality(Dropped(p)) =
                          Cardinality(Waiting(p)) + Cardinality(Ended(p, "timeout"))
    BY DEF Conserved
  <2> DEFINE Asked == {c \in Calls : Want[c] = p /\ call[c] # "idle"}
             Out == {c \in Calls : Want[c] = p /\ stage[c] \in {"taken", "dropped"}}
             Over == {c \in Calls : Want[c] = p /\ call[c] \in {"got", "timeout"}}
  <2>1. \A c \in Calls : stage[c] = "none" <=> call[c] = "idle"
    BY DEF PoolInv, Holds
  <2>2. /\ IsFiniteSet(Coming(p)) /\ IsFiniteSet(Dropped(p)) /\ IsFiniteSet(Waiting(p))
        /\ IsFiniteSet(Taken(p)) /\ IsFiniteSet(Ended(p, "timeout")) /\ IsFiniteSet(Ended(p, "got"))
        /\ IsFiniteSet(Out) /\ IsFiniteSet(Over)
    BY FS_Subset, StreamPoolAssumption DEF Coming, Dropped, Waiting, Taken, Ended
  <2>3. Cardinality(Out) = Cardinality(Taken(p)) + Cardinality(Dropped(p))
    <3>1. /\ \A x : ~(x \in Taken(p) /\ x \in Dropped(p))
          /\ \A x : x \in Out <=> x \in Taken(p) \/ x \in Dropped(p)
      BY DEF Taken, Dropped
    <3> QED
      BY <2>2, <3>1, TwoParts
  <2>4. Cardinality(Asked) = Cardinality(Coming(p)) + Cardinality(Out)
    <3>1. /\ \A x : ~(x \in Coming(p) /\ x \in Out)
          /\ \A x : x \in Asked <=> x \in Coming(p) \/ x \in Out
      BY <2>1 DEF Coming
    <3> QED
      BY <2>2, <3>1, TwoParts
  <2>5. Cardinality(Over) = Cardinality(Ended(p, "got")) + Cardinality(Ended(p, "timeout"))
    <3>1. /\ \A x : ~(x \in Ended(p, "got") /\ x \in Ended(p, "timeout"))
          /\ \A x : x \in Over <=> x \in Ended(p, "got") \/ x \in Ended(p, "timeout")
      BY DEF Ended
    <3> QED
      BY <2>2, <3>1, TwoParts
  <2>6. Cardinality(Asked) = Cardinality(Waiting(p)) + Cardinality(Over)
    <3>1. /\ \A x : ~(x \in Waiting(p) /\ x \in Over)
          /\ \A x : x \in Asked <=> x \in Waiting(p) \/ x \in Over
      BY DEF Waiting
    <3> QED
      BY <2>2, <3>1, TwoParts
  <2>7. Cardinality(Ended(p, "got")) = Cardinality(Taken(p))
    BY TakenByGot
  <2>8. /\ Cardinality(Coming(p)) \in Nat /\ Cardinality(Dropped(p)) \in Nat
        /\ Cardinality(Waiting(p)) \in Nat /\ Cardinality(Taken(p)) \in Nat
        /\ Cardinality(Ended(p, "timeout")) \in Nat
    BY <2>2, FS_CardinalityType
  <2>9. ASSUME NEW a \in Nat, NEW b \in Nat, NEW c \in Nat, NEW d \in Nat, NEW e \in Nat,
               a + (b + c) = d + (b + e)
        PROVE  a + c = d + e
    BY <2>9
  <2>10. Cardinality(Coming(p)) + (Cardinality(Taken(p)) + Cardinality(Dropped(p))) =
             Cardinality(Waiting(p)) + (Cardinality(Taken(p)) + Cardinality(Ended(p, "timeout")))
    BY <2>3, <2>4, <2>5, <2>6, <2>7
  <2> QED
    BY <2>8, <2>9, <2>10
<1> QED
  BY <1>1, PoolSafe, PTL
=============================================================================
