-------------------------- MODULE StreamPumpProofs --------------------------
(* A relay stream keeps the promise of Channel in every step, and its pump    *)
(* reports one error, for any frames and any ends that write them.            *)
EXTENDS StreamPump, QueueLemmas

\* A read that has begun has a frame to read, and stands at its beginning.
Reading(e) == part[e] => wire[e] # <<>> /\ ~skew[e]

\* A handler that has stopped leaves nothing behind that could still be read.
Silent(e) == reader[e] # "on" => inq[e] = <<>> /\ spawned[e] = {}

\* Whatever ends a reader, or makes a frame disappear, has a cause.
Suspect(e) ==
    \/ pump[e] # "run" \/ shut[e] # "no" \/ reader[e] # "on" \/ skew[e]
    \/ "Close" \in Elems(out[e]) \/ "Err" \in Elems(inq[e]) \/ "Junk" \in Elems(inq[e])
    \/ \E f \in Big : f \in Elems(wire[e]) \/ f \in Elems(out[e])
Caused(e) == Suspect(e) => cause # {}

\* What is on its way to an end was written by the other one.
Addressed(e) == \A f \in Frames :
    /\ f \in Elems(out[e]) => By[f] = e /\ f \notin unsent
    /\ f \in Elems(wire[e]) => By[f] = Peer(e) /\ f \notin unsent
    /\ f \in spawned[e] => By[f] = Peer(e) /\ f \notin unsent
    /\ f \in Elems(inq[e]) => By[f] = Peer(e) /\ f \notin unsent

\* A frame on its way to an end is in one place.
Apart(e) ==
    /\ Once(out[e], Frames) /\ Once(wire[e], Frames)
    /\ \A f \in Frames :
         /\ f \in Elems(out[Peer(e)]) =>
               f \notin Elems(wire[e]) /\ f \notin spawned[e] /\ f \notin Elems(inq[e])
         /\ f \in Elems(wire[e]) => f \notin spawned[e] /\ f \notin Elems(inq[e])
         /\ f \in spawned[e] => f \notin Elems(inq[e])

\* ErrIffStopped in terms of the elements of a queue.
Errors(e) ==
    /\ Once(inq[e], Frames \cup {"Err"})
    /\ reader[e] = "on" => ("Err" \in Elems(inq[e]) <=> pump[e] \in {"closed", "failed"})
    /\ reader[e] = "off" => pump[e] \in {"closed", "failed"}

EndOK(e) == Reading(e) /\ Silent(e) /\ Caused(e) /\ Addressed(e) /\ Apart(e) /\ Errors(e)

PumpInv == TypeOK /\ \A e \in Ends : EndOK(e)

\* A stream has two ends, each the peer of the other.
LEMMA PeerFacts == \A e \in Ends :
    Peer(e) \in Ends /\ Peer(e) # e /\ Peer(Peer(e)) = e /\ \A d \in Ends : d = e \/ d = Peer(e)
BY DEF Ends, Peer

\* Before anything is written all queues are empty.
LEMMA PumpInitOK == Init => PumpInv
BY EmptyQueue, PeerFacts DEF Init, PumpInv, TypeOK, EndOK, Reading, Silent, Caused, Suspect,
    Addressed, Apart, Errors

\* What follows from the types of the queues.
LEMMA QueueTypes ==
    ASSUME TypeOK, NEW e \in Ends
    PROVE  /\ out[e] \in Seq(Frames \cup {"Close"}) /\ Elems(out[e]) \subseteq Frames \cup {"Close"}
           /\ wire[e] \in Seq(Frames) /\ Elems(wire[e]) \subseteq Frames
           /\ inq[e] \in Seq(Frames \cup {"Err", "Junk"})
           /\ Elems(inq[e]) \subseteq Frames \cup {"Err", "Junk"}
           /\ spawned[e] \subseteq Frames
           /\ "Close" \notin Frames /\ "Err" \notin Frames /\ "Junk" \notin Frames
           /\ Big \subseteq Frames
BY ElemsType, StreamPumpAssumption DEF TypeOK

-----------------------------------------------------------------------------
\* WrappedStream::write adds a frame that was nowhere before.
LEMMA WriteOK ==
    ASSUME PumpInv, NEW e \in Ends, NEW f \in Frames, Write(e, f)
    PROVE  PumpInv'
<1>0. TypeOK /\ \A d \in Ends : EndOK(d)
  BY DEF PumpInv
<1>1. /\ out[e] \in Seq(Frames \cup {"Close"}) /\ f \in Frames \cup {"Close"}
      /\ f \notin Elems(out[e])
  BY <1>0, QueueTypes DEF Write, EndOK, Addressed
<1>2. /\ out'[e] \in Seq(Frames \cup {"Close"}) /\ Once(out'[e], Frames)
      /\ \A x : x \in Elems(out'[e]) => x \in Elems(out[e]) \/ x = f
      /\ \A d \in Ends : d # e => out'[d] = out[d]
  <2>1. CASE Running(e)
    <3>1. out'[e] = Append(out[e], f) /\ \A d \in Ends : d # e => out'[d] = out[d]
      BY <1>0, <2>1 DEF Write, PushIf, Push, TypeOK
    <3> QED
      BY <1>0, <2>1, <3>1, <1>1, AppendIndex, AppendElems, AppendOnce DEF EndOK, Apart
  <2>2. CASE ~Running(e)
    BY <1>0, <2>2, <1>1 DEF Write, PushIf, EndOK, Apart
  <2> QED
    BY <2>1, <2>2
<1>3. /\ \A c : c \in cause => c \in cause'
      /\ f \in Big => "big" \in cause'
      /\ \A x : x \in unsent' <=> x \in unsent /\ x # f
      /\ f \in unsent /\ By[f] = e
  BY DEF Write
<1>4. TypeOK'
  BY <1>0, <1>2 DEF Write, TypeOK, PushIf, Push
<1>5. ASSUME NEW d \in Ends PROVE EndOK(d)'
  <2>0. EndOK(d) /\ EndOK(Peer(d)) /\ UNCHANGED <<wire, part, skew, shut, pump, spawned, inq, reader, got>>
    BY <1>0, PeerFacts DEF Write
  <2>1. Reading(d)' /\ Silent(d)' /\ Errors(d)'
    BY <2>0 DEF Write, EndOK, Reading, Silent, Errors
  <2>2. Caused(d)'
    BY <2>0, <1>1, <1>2, <1>3, QueueTypes, <1>0 DEF EndOK, Caused, Suspect
  <2>3. Addressed(d)'
    BY <2>0, <1>2, <1>3 DEF EndOK, Addressed
  <2>4. Apart(d)'
    BY <2>0, <1>2, <1>3, PeerFacts DEF EndOK, Apart, Addressed
  <2> QED
    BY <2>1, <2>2, <2>3, <2>4 DEF EndOK
<1> QED
  BY <1>4, <1>5 DEF PumpInv

-----------------------------------------------------------------------------
(* Every other step moves a frame forward, or drops it.                       *)

Forward(e) ==
    /\ Once(out'[e], Frames) /\ Once(wire'[e], Frames)
    /\ \A f \in Frames :
         /\ f \in Elems(out'[e]) => f \in Elems(out[e])
         /\ f \in Elems(wire'[e]) =>
               f \in Elems(wire[e]) \/ (f \in Elems(out[Peer(e)]) /\ f \notin Elems(out'[Peer(e)]))
         /\ f \in spawned'[e] => f \in spawned[e] \/ (f \in Elems(wire[e]) /\ f \notin Elems(wire'[e]))
         /\ f \in Elems(inq'[e]) => f \in Elems(inq[e]) \/ (f \in spawned[e] /\ f \notin spawned'[e])

\* Frames that only move forward stay addressed and in one place.
LEMMA ForwardOK ==
    ASSUME PumpInv, unsent' = unsent, \A e \in Ends : Forward(e), NEW d \in Ends
    PROVE  Addressed(d)' /\ Apart(d)'
<1>1. EndOK(d) /\ EndOK(Peer(d)) /\ Forward(d) /\ Forward(Peer(d)) /\ Peer(d) \in Ends /\ Peer(Peer(d)) = d
  BY PeerFacts DEF PumpInv
<1>2. Addressed(d)'
  BY <1>1 DEF EndOK, Addressed, Forward
<1>3. Apart(d)'
  BY <1>1 DEF EndOK, Apart, Forward
<1> QED
  BY <1>2, <1>3

\* What a step has to show besides: the first four facts are about types, reads,
\* handlers and errors, the last one about causes.
StepOK ==
    /\ TypeOK' /\ UNCHANGED unsent
    /\ \A e \in Ends : Forward(e) /\ Reading(e)' /\ Silent(e)' /\ Errors(e)' /\ Caused(e)'

\* A step of this form keeps the invariant.
LEMMA StepKeepsInv == PumpInv /\ StepOK => PumpInv'
BY ForwardOK DEF StepOK, PumpInv, EndOK

\* WrappedStream::close.
LEMMA CloseStreamOK ==
    ASSUME PumpInv, NEW e \in Ends, CloseStream(e)
    PROVE  StepOK
<1>0. TypeOK /\ \A d \in Ends : EndOK(d)
  BY DEF PumpInv
<1>1. /\ out[e] \in Seq(Frames \cup {"Close"}) /\ "Close" \in Frames \cup {"Close"}
      /\ out'[e] = Append(out[e], "Close") /\ \A d \in Ends : d # e => out'[d] = out[d]
      /\ "Close" \notin Frames
  BY <1>0, QueueTypes DEF CloseStream, Push, TypeOK
<1>2. /\ out'[e] \in Seq(Frames \cup {"Close"}) /\ Once(out'[e], Frames)
      /\ \A x : x \in Elems(out'[e]) => x \in Elems(out[e]) \/ x = "Close"
  BY <1>0, <1>1, AppendIndex, AppendElems, AppendOnce DEF EndOK, Apart
<1>3. TypeOK' /\ UNCHANGED unsent
  BY <1>0, <1>2 DEF CloseStream, TypeOK, Push
<1>4. "closed" \in cause'
  BY DEF CloseStream
<1>5. ASSUME NEW d \in Ends
      PROVE  Forward(d) /\ Reading(d)' /\ Silent(d)' /\ Errors(d)' /\ Caused(d)'
  BY <1>0, <1>1, <1>2, <1>4 DEF CloseStream, EndOK, Apart, Forward, Reading, Silent, Errors, Caused
<1> QED
  BY <1>3, <1>5 DEF StepOK

\* start_poll ends, and has told the handler unless it panicked.
LEMMA StopsOK ==
    ASSUME PumpInv, NEW e \in Ends, NEW how \in {"closed", "failed", "panicked"},
           Running(e), cause # {}, PumpStops(e, how),
           shut' = shut \/ shut' = [shut EXCEPT ![e] = "closed"],
           (how = "panicked" /\ inq' = inq) \/ (how # "panicked" /\ Report(e))
    PROVE  StepOK
<1>0. TypeOK /\ \A d \in Ends : EndOK(d)
  BY DEF PumpInv
<1>1. /\ out'[e] = <<>> /\ wire'[e] = <<>> /\ pump'[e] = how /\ ~part'[e] /\ ~skew'[e]
      /\ \A d \in Ends : d # e =>
            out'[d] = out[d] /\ wire'[d] = wire[d] /\ pump'[d] = pump[d] /\ part'[d] = part[d] /\ skew'[d] = skew[d]
      /\ UNCHANGED <<unsent, spawned, reader, got, cause>>
  BY <1>0 DEF PumpStops, TypeOK
<1>2. /\ inq[e] \in Seq(Frames \cup {"Err", "Junk"}) /\ "Err" \in Frames \cup {"Err", "Junk"}
      /\ "Err" \notin Frames
      /\ reader[e] = "on" => "Err" \notin Elems(inq[e])
  BY <1>0, QueueTypes DEF EndOK, Errors, Running
<1>3. /\ inq'[e] \in Seq(Frames \cup {"Err", "Junk"}) /\ Once(inq'[e], Frames \cup {"Err"})
      /\ \A f \in Frames : f \in Elems(inq'[e]) => f \in Elems(inq[e])
      /\ reader[e] = "on" => ("Err" \in Elems(inq'[e]) <=> how # "panicked")
      /\ reader[e] # "on" => inq'[e] = inq[e]
      /\ \A d \in Ends : d # e => inq'[d] = inq[d]
  <2>1. CASE how # "panicked" /\ reader[e] = "on"
    <3>1. inq'[e] = Append(inq[e], "Err") /\ \A d \in Ends : d # e => inq'[d] = inq[d]
      BY <1>0, <2>1 DEF Report, PushIf, Push, TypeOK
    <3>2. Once(inq[e], Frames \cup {"Err"})
      BY <1>0 DEF EndOK, Errors
    <3> QED
      BY <1>2, <2>1, <3>1, <3>2, AppendIndex, AppendElems, AppendOnce
  <2>2. CASE ~(how # "panicked" /\ reader[e] = "on")
    BY <1>0, <1>2, <2>2 DEF Report, PushIf, EndOK, Errors
  <2> QED
    BY <2>1, <2>2
<1>4. TypeOK' /\ UNCHANGED unsent
  <2>1. <<>> \in Seq(Frames \cup {"Close"}) /\ <<>> \in Seq(Frames)
    OBVIOUS
  <2>2. inq' \in [Ends -> Seq(Frames \cup {"Err", "Junk"})]
    BY <1>0, <1>3 DEF Report, PushIf, Push, TypeOK
  <2> QED
    BY <1>0, <1>1, <2>1, <2>2 DEF TypeOK, PumpStops
<1>5. ASSUME NEW d \in Ends
      PROVE  Forward(d) /\ Reading(d)' /\ Silent(d)' /\ Errors(d)' /\ Caused(d)'
  <2>0. EndOK(d) /\ EndOK(Peer(d)) /\ Peer(d) \in Ends
    BY <1>0, PeerFacts
  <2>1. Forward(d)
    BY <2>0, <1>1, <1>3, EmptyQueue DEF EndOK, Apart, Forward
  <2>2. Reading(d)' /\ Silent(d)' /\ Caused(d)'
    BY <2>0, <1>1, <1>3 DEF EndOK, Reading, Silent, Caused
  <2>3. Errors(d)'
    BY <2>0, <1>1, <1>3 DEF EndOK, Errors, Running
  <2> QED
    BY <2>1, <2>2, <2>3
<1> QED
  BY <1>4, <1>5 DEF StepOK

\* relay_event_handler returns or panics.
LEMMA HandlerStopsOK ==
    ASSUME PumpInv, NEW e \in Ends, NEW how \in {"off", "panicked"}, cause # {},
           HandlerStops(e, how),
           how = "off" => pump[e] \in {"closed", "failed"}
    PROVE  StepOK
<1>0. TypeOK /\ \A d \in Ends : EndOK(d)
  BY DEF PumpInv
<1>1. /\ reader'[e] = how /\ inq'[e] = <<>> /\ spawned'[e] = {}
      /\ \A d \in Ends : d # e =>
            reader'[d] = reader[d] /\ inq'[d] = inq[d] /\ spawned'[d] = spawned[d]
      /\ UNCHANGED <<unsent, out, wire, part, skew, shut, pump, got, cause>>
  BY <1>0 DEF HandlerStops, TypeOK
<1>2. TypeOK' /\ UNCHANGED unsent
  <2>1. <<>> \in Seq(Frames \cup {"Err", "Junk"})
    OBVIOUS
  <2> QED
    BY <1>0, <1>1, <2>1 DEF TypeOK, HandlerStops
<1>3. ASSUME NEW d \in Ends
      PROVE  Forward(d) /\ Reading(d)' /\ Silent(d)' /\ Errors(d)' /\ Caused(d)'
  <2>0. EndOK(d) /\ EndOK(Peer(d)) /\ Peer(d) \in Ends
    BY <1>0, PeerFacts
  <2>1. Forward(d)
    BY <2>0, <1>1, EmptyQueue DEF EndOK, Apart, Forward
  <2>2. Reading(d)' /\ Silent(d)' /\ Caused(d)'
    BY <2>0, <1>1 DEF EndOK, Reading, Silent, Caused
  <2>3. Errors(d)'
    BY <2>0, <1>1, EmptyQueue DEF EndOK, Errors
  <2> QED
    BY <2>1, <2>2, <2>3
<1> QED
  BY <1>2, <1>3 DEF StepOK

\* A frame goes from the queue of its writer to the substream, or nowhere if the
\* other pump has stopped; a read that had begun loses its frame.
LEMMA PumpWriteOK ==
    ASSUME PumpInv, NEW e \in Ends, PumpWrite(e)
    PROVE  StepOK
<1> DEFINE f == Head(out[e])
           p == Peer(e)
<1>0. TypeOK /\ (\A d \in Ends : EndOK(d)) /\ p \in Ends /\ p # e /\ Peer(p) = e
      /\ \A d \in Ends : d = e \/ d = p
  BY PeerFacts DEF PumpInv
<1>1. /\ out[e] \in Seq(Frames \cup {"Close"}) /\ out[e] # <<>> /\ f # "Close"
      /\ Once(out[e], Frames)
      /\ wire[e] \in Seq(Frames) /\ Once(wire[e], Frames)
      /\ wire[p] \in Seq(Frames) /\ Once(wire[p], Frames)
      /\ part[e] => wire[e] # <<>>
  BY <1>0, QueueTypes DEF PumpWrite, DataNext, EndOK, Apart, Reading
<1>2. /\ f \in Frames /\ f \in Elems(out[e]) /\ Tail(out[e]) \in Seq(Frames \cup {"Close"})
      /\ Once(Tail(out[e]), Frames) /\ f \notin Elems(Tail(out[e]))
      /\ \A x : x \in Elems(Tail(out[e])) => x \in Elems(out[e])
  BY <1>1, TailIndex, TailElems, TailOnce
<1>3. /\ out'[e] = Tail(out[e]) /\ out'[p] = out[p]
      /\ wire'[e] = IF part[e] THEN Tail(wire[e]) ELSE wire[e]
      /\ wire'[p] = IF Running(p) THEN Append(wire[p], f) ELSE wire[p]
      /\ ~part'[e] /\ part'[p] = part[p] /\ (skew'[e] <=> skew[e] \/ part[e]) /\ skew'[p] = skew[p]
      /\ UNCHANGED <<unsent, shut, pump, spawned, inq, reader, got>>
  BY <1>0 DEF PumpWrite, PumpOut, Pop, Push, PushIf, TypeOK
<1>4. /\ wire'[e] \in Seq(Frames) /\ Once(wire'[e], Frames)
      /\ \A x : x \in Elems(wire'[e]) => x \in Elems(wire[e])
  BY <1>1, <1>3, TailIndex, TailElems, TailOnce
<1>5. f \notin Elems(wire[p])
  BY <1>0, <1>2 DEF EndOK, Apart
<1>6. /\ wire'[p] \in Seq(Frames) /\ Once(wire'[p], Frames)
      /\ \A x : x \in Elems(wire'[p]) => x \in Elems(wire[p]) \/ x = f
      /\ wire[p] # <<>> => wire'[p] # <<>>
  BY <1>1, <1>2, <1>3, <1>5, AppendIndex, AppendElems, AppendOnce
<1>7. (\A c : c \in cause => c \in cause') /\ (part[e] => "cut" \in cause')
  BY DEF PumpWrite
<1>8. TypeOK' /\ UNCHANGED unsent
  <2>1. /\ out' \in [Ends -> Seq(Frames \cup {"Close"})] /\ wire' \in [Ends -> Seq(Frames)]
        /\ part' \in [Ends -> BOOLEAN] /\ skew' \in [Ends -> BOOLEAN]
    <3>1. DOMAIN out' = Ends /\ DOMAIN wire' = Ends /\ DOMAIN part' = Ends /\ DOMAIN skew' = Ends
      BY <1>0 DEF PumpWrite, PumpOut, Pop, Push, PushIf, TypeOK
    <3>2. out' \in [Ends -> Seq(Frames \cup {"Close"})]
      BY <1>0, <1>2 DEF PumpWrite, Pop, TypeOK
    <3>3. wire' = [d \in Ends |-> wire'[d]]
      BY <1>0 DEF PumpWrite, PumpOut, Pop, Push, PushIf, TypeOK
    <3>4. wire' \in [Ends -> Seq(Frames)]
      BY <1>0, <1>4, <1>6, <3>3
    <3> QED
      BY <1>0, <3>2, <3>4 DEF PumpWrite, PumpOut, TypeOK
  <2>2. cause' \in SUBSET {"big", "closed", "cut", "broken"}
    BY <1>0 DEF PumpWrite, TypeOK
  <2> QED
    BY <1>0, <1>3, <2>1, <2>2 DEF TypeOK
<1>9. ASSUME NEW d \in Ends
      PROVE  Forward(d) /\ Reading(d)' /\ Silent(d)' /\ Errors(d)' /\ Caused(d)'
  <2>0. EndOK(d)
    BY <1>0
  <2>1. Forward(d)
    <3>1. CASE d = e
      BY <3>1, <2>0, <1>0, <1>2, <1>3, <1>4 DEF Forward
    <3>2. CASE d = p
      BY <3>2, <2>0, <1>0, <1>1, <1>2, <1>3, <1>6 DEF Forward, EndOK, Apart
    <3> QED
      BY <3>1, <3>2, <1>0
  <2>2. Reading(d)'
    BY <2>0, <1>0, <1>3, <1>6 DEF EndOK, Reading
  <2>3. Silent(d)' /\ Errors(d)'
    BY <2>0, <1>3 DEF EndOK, Silent, Errors
  <2>4. Caused(d)'
    <3>1. Suspect(d)' => Suspect(d) \/ part[e] \/ Suspect(e)
      BY <1>0, <1>2, <1>3, <1>4, <1>6 DEF Suspect
    <3> QED
      BY <3>1, <1>0, <1>7 DEF EndOK, Caused
  <2> QED
    BY <2>1, <2>2, <2>3, <2>4
<1> QED
  BY <1>8, <1>9 DEF StepOK

\* read_one has the length of a frame.
LEMMA ReadLenOK ==
    ASSUME PumpInv, NEW e \in Ends, ReadLen(e)
    PROVE  StepOK
<1>0. TypeOK /\ \A d \in Ends : EndOK(d)
  BY DEF PumpInv
<1>1. TypeOK' /\ UNCHANGED unsent
  BY <1>0 DEF ReadLen, TypeOK
<1>2. ASSUME NEW d \in Ends
      PROVE  Forward(d) /\ Reading(d)' /\ Silent(d)' /\ Errors(d)' /\ Caused(d)'
  <2>0. EndOK(d)
    BY <1>0
  <2>1. Forward(d) /\ Silent(d)' /\ Errors(d)' /\ Caused(d)'
    BY <2>0 DEF ReadLen, EndOK, Apart, Forward, Silent, Errors, Caused, Suspect
  <2>2. Reading(d)'
    BY <2>0, <1>0 DEF ReadLen, EndOK, Reading, TypeOK
  <2> QED
    BY <2>1, <2>2
<1> QED
  BY <1>1, <1>2 DEF StepOK

\* The frame goes to a task that will queue it for the handler.
LEMMA ReadBodyOK ==
    ASSUME PumpInv, NEW e \in Ends, ReadBody(e)
    PROVE  StepOK
<1> DEFINE f == Head(wire[e])
<1>0. TypeOK /\ \A d \in Ends : EndOK(d)
  BY DEF PumpInv
<1>1. wire[e] \in Seq(Frames) /\ wire[e] # <<>> /\ Once(wire[e], Frames)
  BY <1>0, QueueTypes DEF ReadBody, EndOK, Apart, Reading
<1>2. /\ f \in Frames /\ f \in Elems(wire[e]) /\ Tail(wire[e]) \in Seq(Frames)
      /\ Once(Tail(wire[e]), Frames) /\ f \notin Elems(Tail(wire[e]))
      /\ \A x : x \in Elems(Tail(wire[e])) => x \in Elems(wire[e])
  BY <1>1, TailIndex, TailElems, TailOnce
<1>3. /\ wire'[e] = Tail(wire[e]) /\ ~part'[e]
      /\ spawned'[e] = IF reader[e] = "on" THEN spawned[e] \cup {f} ELSE spawned[e]
      /\ \A d \in Ends : d # e => wire'[d] = wire[d] /\ part'[d] = part[d] /\ spawned'[d] = spawned[d]
      /\ UNCHANGED <<unsent, out, skew, shut, pump, inq, reader, got, cause>>
  BY <1>0 DEF ReadBody, SpawnHandOver, Pop, TypeOK
<1>4. TypeOK' /\ UNCHANGED unsent
  BY <1>0, <1>2, <1>3 DEF TypeOK, ReadBody, SpawnHandOver, Pop
<1>5. ASSUME NEW d \in Ends
      PROVE  Forward(d) /\ Reading(d)' /\ Silent(d)' /\ Errors(d)' /\ Caused(d)'
  <2>0. EndOK(d)
    BY <1>0
  <2>1. Forward(d)
    BY <2>0, <1>2, <1>3 DEF EndOK, Apart, Forward
  <2>2. Reading(d)' /\ Silent(d)' /\ Errors(d)'
    BY <2>0, <1>3 DEF EndOK, Reading, Silent, Errors
  <2>3. Caused(d)'
    BY <2>0, <1>2, <1>3 DEF EndOK, Caused, Suspect
  <2> QED
    BY <2>1, <2>2, <2>3
<1> QED
  BY <1>4, <1>5 DEF StepOK

\* Behind a cut frame, read_one takes some bytes for a frame.
Misread(e, n, s) ==
    /\ wire' = [wire EXCEPT ![e] = SubSeq(@, n + 1, Len(@))]
    /\ skew' = [skew EXCEPT ![e] = s]
    /\ inq' = PushIf(reader[e] = "on", inq, e, "Junk")
    /\ UNCHANGED <<unsent, out, part, shut, pump, spawned, reader, got, cause>>

\* Reading from the middle of a frame keeps the invariant.
LEMMA MisreadOK ==
    ASSUME PumpInv, NEW e \in Ends, NEW n \in 0..Len(wire[e]), NEW s \in BOOLEAN,
           skew[e], Misread(e, n, s)
    PROVE  StepOK
<1>0. TypeOK /\ \A d \in Ends : EndOK(d)
  BY DEF PumpInv
<1>1. /\ wire[e] \in Seq(Frames) /\ Once(wire[e], Frames)
      /\ inq[e] \in Seq(Frames \cup {"Err", "Junk"}) /\ Once(inq[e], Frames \cup {"Err"})
      /\ "Junk" \in Frames \cup {"Err", "Junk"} /\ "Junk" \notin Frames \cup {"Err"}
      /\ cause # {} /\ ~part[e]
  BY <1>0, QueueTypes DEF EndOK, Apart, Errors, Caused, Suspect, Reading
<1>2. /\ wire'[e] = SubSeq(wire[e], n + 1, Len(wire[e]))
      /\ \A d \in Ends : d # e => wire'[d] = wire[d] /\ skew'[d] = skew[d] /\ inq'[d] = inq[d]
      /\ UNCHANGED <<unsent, out, part, shut, pump, spawned, reader, got, cause>>
  BY <1>0 DEF Misread, PushIf, Push, TypeOK
<1>3. /\ wire'[e] \in Seq(Frames) /\ Once(wire'[e], Frames)
      /\ \A x : x \in Elems(wire'[e]) => x \in Elems(wire[e])
  BY <1>1, <1>2, SuffixElems
<1>4. /\ inq'[e] \in Seq(Frames \cup {"Err", "Junk"}) /\ Once(inq'[e], Frames \cup {"Err"})
      /\ \A x \in Frames \cup {"Err"} : x \in Elems(inq'[e]) <=> x \in Elems(inq[e])
      /\ reader[e] # "on" => inq'[e] = inq[e]
  <2>1. inq'[e] = IF reader[e] = "on" THEN Append(inq[e], "Junk") ELSE inq[e]
    BY <1>0 DEF Misread, PushIf, Push, TypeOK
  <2> QED
    BY <1>1, <2>1, AppendIndex, AppendElems, AppendOnce
<1>5. TypeOK' /\ UNCHANGED unsent
  BY <1>0, <1>2, <1>3, <1>4 DEF TypeOK, Misread, PushIf, Push
<1>6. ASSUME NEW d \in Ends
      PROVE  Forward(d) /\ Reading(d)' /\ Silent(d)' /\ Errors(d)' /\ Caused(d)'
  <2>0. EndOK(d)
    BY <1>0
  <2>1. Forward(d)
    BY <2>0, <1>2, <1>3, <1>4 DEF EndOK, Apart, Forward
  <2>2. Reading(d)' /\ Silent(d)' /\ Caused(d)'
    BY <2>0, <1>1, <1>2, <1>4 DEF EndOK, Reading, Silent, Caused
  <2>3. Errors(d)'
    BY <2>0, <1>2, <1>4 DEF EndOK, Errors
  <2> QED
    BY <2>1, <2>2, <2>3
<1> QED
  BY <1>5, <1>6 DEF StepOK

\* A task queues its frame for the handler.
LEMMA HandOverOK ==
    ASSUME PumpInv, NEW e \in Ends, NEW f \in Frames, HandOver(e, f)
    PROVE  StepOK
<1>0. TypeOK /\ \A d \in Ends : EndOK(d)
  BY DEF PumpInv
<1>1. /\ inq[e] \in Seq(Frames \cup {"Err", "Junk"}) /\ Once(inq[e], Frames \cup {"Err"})
      /\ f \in Frames \cup {"Err", "Junk"} /\ f \notin Elems(inq[e]) /\ f \in spawned[e]
      /\ f # "Err" /\ f # "Junk" /\ reader[e] = "on"
  BY <1>0, QueueTypes DEF HandOver, EndOK, Apart, Errors, Silent
<1>2. /\ inq'[e] = Append(inq[e], f) /\ spawned'[e] = spawned[e] \ {f}
      /\ \A d \in Ends : d # e => inq'[d] = inq[d] /\ spawned'[d] = spawned[d]
      /\ UNCHANGED <<unsent, out, wire, part, skew, shut, pump, reader, got, cause>>
  BY <1>0 DEF HandOver, Push, TypeOK
<1>3. /\ inq'[e] \in Seq(Frames \cup {"Err", "Junk"}) /\ Once(inq'[e], Frames \cup {"Err"})
      /\ \A x : x \in Elems(inq'[e]) <=> x \in Elems(inq[e]) \/ x = f
  BY <1>1, <1>2, AppendIndex, AppendElems, AppendOnce
<1>4. TypeOK' /\ UNCHANGED unsent
  BY <1>0, <1>2, <1>3 DEF TypeOK, HandOver, Push
<1>5. ASSUME NEW d \in Ends
      PROVE  Forward(d) /\ Reading(d)' /\ Silent(d)' /\ Errors(d)' /\ Caused(d)'
  <2>0. EndOK(d)
    BY <1>0
  <2>1. Forward(d)
    BY <2>0, <1>1, <1>2, <1>3 DEF EndOK, Apart, Forward
  <2>2. Reading(d)' /\ Silent(d)'
    BY <2>0, <1>1, <1>2 DEF EndOK, Reading, Silent
  <2>3. Errors(d)'
    BY <2>0, <1>1, <1>2, <1>3 DEF EndOK, Errors
  <2>4. Caused(d)'
    BY <2>0, <1>1, <1>2, <1>3 DEF EndOK, Caused, Suspect
  <2> QED
    BY <2>1, <2>2, <2>3, <2>4
<1> QED
  BY <1>4, <1>5 DEF StepOK

\* The handler takes what is at the head of its queue, if it is no error.
LEMMA TakeOK ==
    ASSUME PumpInv, NEW e \in Ends, reader[e] = "on", inq[e] # <<>>, Head(inq[e]) # "Err",
           inq' = Pop(inq, e), got' \in [Ends -> SUBSET Frames],
           UNCHANGED <<unsent, out, wire, part, skew, shut, pump, spawned, reader, cause>>
    PROVE  StepOK
<1>0. TypeOK /\ \A d \in Ends : EndOK(d)
  BY DEF PumpInv
<1>1. inq[e] \in Seq(Frames \cup {"Err", "Junk"}) /\ Once(inq[e], Frames \cup {"Err"})
  BY <1>0, QueueTypes DEF EndOK, Errors
<1>2. /\ inq'[e] = Tail(inq[e]) /\ \A d \in Ends : d # e => inq'[d] = inq[d]
      /\ inq'[e] \in Seq(Frames \cup {"Err", "Junk"}) /\ Once(inq'[e], Frames \cup {"Err"})
      /\ \A x : x \in Elems(inq[e]) <=> x \in Elems(inq'[e]) \/ x = Head(inq[e])
  BY <1>0, <1>1, TailIndex, TailElems, TailOnce DEF Pop, TypeOK
<1>3. TypeOK' /\ UNCHANGED unsent
  BY <1>0, <1>2 DEF TypeOK, Pop
<1>4. ASSUME NEW d \in Ends
      PROVE  Forward(d) /\ Reading(d)' /\ Silent(d)' /\ Errors(d)' /\ Caused(d)'
  <2>0. EndOK(d)
    BY <1>0
  <2>1. Forward(d)
    BY <2>0, <1>2 DEF EndOK, Apart, Forward
  <2>2. Reading(d)' /\ Silent(d)'
    BY <2>0, <1>2 DEF EndOK, Reading, Silent
  <2>3. Errors(d)'
    BY <2>0, <1>2 DEF EndOK, Errors
  <2>4. Caused(d)'
    BY <2>0, <1>2 DEF EndOK, Caused, Suspect
  <2> QED
    BY <2>1, <2>2, <2>3, <2>4
<1> QED
  BY <1>3, <1>4 DEF StepOK

\* The network breaks the stream.
LEMMA BreakOK == PumpInv /\ Break => StepOK
<1> SUFFICES ASSUME PumpInv, Break PROVE StepOK
  OBVIOUS
<1>1. /\ UNCHANGED <<unsent, out, wire, part, skew, shut, pump, spawned, inq, reader, got>>
      /\ cause' = cause \cup {"broken"}
  BY DEF Break
<1>2. TypeOK'
  BY <1>1 DEF PumpInv, TypeOK
<1>3. ASSUME NEW e \in Ends
      PROVE  Forward(e) /\ Reading(e)' /\ Silent(e)' /\ Errors(e)' /\ Caused(e)'
  <2>0. EndOK(e)
    BY DEF PumpInv
  <2>1. Forward(e)
    BY <1>1, <2>0 DEF EndOK, Forward, Apart
  <2>2. Reading(e)' /\ Silent(e)'
    BY <1>1, <2>0 DEF EndOK, Reading, Silent
  <2>3. Errors(e)'
    BY <1>1, <2>0 DEF EndOK, Errors
  <2>4. Caused(e)'
    BY <1>1 DEF Caused
  <2> QED
    BY <2>1, <2>2, <2>3, <2>4
<1> QED
  BY <1>1, <1>2, <1>3 DEF StepOK

\* The last clone of a stream that has ended is dropped.
LEMMA DropStreamOK ==
    ASSUME PumpInv, NEW e \in Ends, DropStream(e)
    PROVE  StepOK /\ cause # {}
<1>0. TypeOK /\ \A d \in Ends : EndOK(d)
  BY DEF PumpInv
<1>1. /\ UNCHANGED <<unsent, out, wire, part, skew, pump, spawned, inq, reader, got, cause>>
      /\ shut' = [shut EXCEPT ![e] = "dropped"]
  BY DEF DropStream
<1>2. cause # {}
  BY <1>0 DEF DropStream, Running, EndOK, Caused, Suspect
<1>3. TypeOK'
  BY <1>0, <1>1 DEF TypeOK
<1>4. ASSUME NEW d \in Ends
      PROVE  Forward(d) /\ Reading(d)' /\ Silent(d)' /\ Errors(d)' /\ Caused(d)'
  <2>0. EndOK(d)
    BY <1>0
  <2>1. Forward(d)
    BY <1>1, <2>0 DEF EndOK, Forward, Apart
  <2>2. Reading(d)' /\ Silent(d)' /\ Errors(d)'
    BY <1>1, <2>0 DEF EndOK, Reading, Silent, Errors
  <2>3. Caused(d)'
    BY <1>1, <1>2 DEF Caused
  <2> QED
    BY <2>1, <2>2, <2>3
<1> QED
  BY <1>1, <1>2, <1>3, <1>4 DEF StepOK

-----------------------------------------------------------------------------
(* The steps of start_poll and of the handler, with what each has to do with  *)
(* the cause of the stream's end.                                             *)

\* The head of a queue is one of its elements.
LEMMA HeadIn ==
    ASSUME NEW S, NEW q \in Seq(S), q # <<>>
    PROVE  Head(q) \in Elems(q)
BY TailElems

\* start_poll ends, or the substream goes after it.
Stopping(e) ==
    DropStream(e) \/ PumpWriteFails(e) \/ PumpClose(e) \/ TooLarge(e) \/ ReadEof(e) \/ ReadError(e)
      \/ (Running(e) /\ skew[e] /\ ReadFails(e))

\* A pump that returns or panics, and a substream that goes after it, keeps the
\* invariant, and has a cause.
LEMMA StoppingOK ==
    ASSUME PumpInv, NEW e \in Ends, Stopping(e)
    PROVE  StepOK /\ cause # {} /\ UNCHANGED <<cause, got, reader>>
<1>0. /\ TypeOK /\ EndOK(e) /\ EndOK(Peer(e)) /\ Peer(e) \in Ends
      /\ out[e] \in Seq(Frames \cup {"Close"}) /\ wire[e] \in Seq(Frames)
  BY PeerFacts, QueueTypes DEF PumpInv
<1> USE DEF Broken
<1>1. CASE PumpWriteFails(e)
  <2>1. cause # {}
    BY <1>0, <1>1 DEF PumpWriteFails, Torn, EndOK, Caused, Suspect
  <2> QED
    BY <1>1, <2>1, StopsOK DEF PumpWriteFails, PumpStops
<1>2. CASE PumpClose(e)
  <2>1. cause # {}
    BY <1>0, <1>2, HeadIn DEF PumpClose, EndOK, Caused, Suspect
  <2> QED
    BY <1>2, <2>1, StopsOK DEF PumpClose, ReportClosed, PumpStops
<1>3. ASSUME Running(e), ReadFails(e), cause # {}
      PROVE  StepOK /\ UNCHANGED <<cause, got, reader>>
  BY <1>3, StopsOK DEF ReadFails, PumpStops
<1>4. CASE TooLarge(e)
  <2>1. cause # {}
    BY <1>0, <1>4, HeadIn DEF TooLarge, EndOK, Caused, Suspect
  <2> QED
    BY <1>3, <1>4, <2>1 DEF TooLarge
<1>5. CASE ReadEof(e)
  BY <1>0, <1>3, <1>5 DEF ReadEof, EndOK, Caused, Suspect
<1>6. CASE ReadError(e)
  BY <1>3, <1>6 DEF ReadError
<1>7. CASE Running(e) /\ skew[e] /\ ReadFails(e)
  BY <1>0, <1>3, <1>7 DEF EndOK, Caused, Suspect
<1>8. CASE DropStream(e)
  BY <1>8, DropStreamOK DEF DropStream
<1> QED
  BY <1>1, <1>2, <1>4, <1>5, <1>6, <1>7, <1>8 DEF Stopping

\* The handler ends: after an error, or because it cannot decode what it has read.
Leaving(e) == HandlerEnds(e) \/ (/\ reader[e] = "on" /\ inq[e] # <<>> /\ Head(inq[e]) = "Junk"
                                 /\ HandlerStops(e, "panicked"))

\* A handler that ends or panics keeps the invariant, and has a cause.
LEMMA LeavingOK ==
    ASSUME PumpInv, NEW e \in Ends, Leaving(e)
    PROVE  /\ StepOK /\ cause # {} /\ UNCHANGED <<cause, got>>
           /\ reader[e] = "on"
           /\ \E how \in {"off", "panicked"} : reader' = [reader EXCEPT ![e] = how]
<1>0. TypeOK /\ EndOK(e) /\ inq[e] \in Seq(Frames \cup {"Err", "Junk"})
  BY QueueTypes DEF PumpInv
<1>1. reader[e] = "on" /\ inq[e] # <<>> /\ Head(inq[e]) \in {"Err", "Junk"}
  BY DEF Leaving, HandlerEnds
<1>2. cause # {}
  BY <1>0, <1>1, HeadIn DEF EndOK, Caused, Suspect
<1>3. CASE HandlerEnds(e)
  <2>1. pump[e] \in {"closed", "failed"}
    BY <1>0, <1>3, HeadIn DEF HandlerEnds, EndOK, Errors
  <2> QED
    BY <1>1, <1>2, <1>3, <2>1, HandlerStopsOK DEF HandlerEnds, HandlerStops
<1>4. CASE HandlerStops(e, "panicked")
  BY <1>1, <1>2, <1>4, HandlerStopsOK DEF HandlerStops
<1> QED
  BY <1>3, <1>4 DEF Leaving

\* Every step of Next is one of these.
LEMMA Steps ==
    ASSUME Next
    PROVE  \/ \E e \in Ends, f \in Frames : Write(e, f)
           \/ \E e \in Ends : CloseStream(e)
           \/ \E e \in Ends : PumpWrite(e) \/ ReadLen(e) \/ ReadBody(e) \/ Stopping(e)
           \/ \E e \in Ends, n \in Nat, s \in BOOLEAN :
                 Running(e) /\ skew[e] /\ n \in 0..Len(wire[e]) /\ Misread(e, n, s)
           \/ \E e \in Ends, f \in Frames : HandOver(e, f)
           \/ \E e \in Ends : HandlerRead(e) \/ Leaving(e)
           \/ \E e \in Ends : /\ reader[e] = "on" /\ inq[e] # <<>> /\ Head(inq[e]) = "Junk"
                              /\ inq' = Pop(inq, e)
                              /\ UNCHANGED <<unsent, out, wire, part, skew, shut, pump, spawned,
                                             reader, got, cause>>
           \/ Break
<1>1. ASSUME NEW e \in Ends, ReadSkewed(e)
      PROVE  Stopping(e) \/ \E n \in Nat, s \in BOOLEAN :
                 Running(e) /\ skew[e] /\ n \in 0..Len(wire[e]) /\ Misread(e, n, s)
  BY <1>1 DEF ReadSkewed, Stopping, Misread
<1>2. ASSUME NEW e \in Ends, HandlerJunk(e)
      PROVE  Leaving(e) \/ (/\ reader[e] = "on" /\ inq[e] # <<>> /\ Head(inq[e]) = "Junk"
                            /\ inq' = Pop(inq, e)
                            /\ UNCHANGED <<unsent, out, wire, part, skew, shut, pump, spawned,
                                           reader, got, cause>>)
  BY <1>2 DEF HandlerJunk, Leaving
<1> QED
  BY <1>1, <1>2 DEF Next, StartPoll, Deliver, Stopping, Leaving

\* Every step of the system keeps the invariant.
LEMMA PumpNextOK == PumpInv /\ [Next]_vars => PumpInv'
<1> SUFFICES ASSUME PumpInv, [Next]_vars PROVE PumpInv'
  OBVIOUS
<1>1. ASSUME NEW e \in Ends, HandlerRead(e) PROVE StepOK
  <2>1. TypeOK /\ "Err" \notin Frames
    BY StreamPumpAssumption DEF PumpInv
  <2>2. got' \in [Ends -> SUBSET Frames]
    BY <1>1, <2>1 DEF HandlerRead, TypeOK
  <2> QED
    BY <1>1, <2>1, <2>2, TakeOK DEF HandlerRead
<1>2. ASSUME NEW e \in Ends, reader[e] = "on", inq[e] # <<>>, Head(inq[e]) = "Junk",
             inq' = Pop(inq, e),
             UNCHANGED <<unsent, out, wire, part, skew, shut, pump, spawned, reader, got, cause>>
      PROVE  StepOK
  BY <1>2, TakeOK DEF PumpInv, TypeOK
<1>3. CASE UNCHANGED vars
  <2>1. UNCHANGED <<unsent, out, wire, part, skew, shut, pump, spawned, inq, reader, got, cause>>
    BY <1>3 DEF vars
  <2>2. TypeOK'
    BY <2>1 DEF PumpInv, TypeOK
  <2>3. ASSUME NEW e \in Ends PROVE EndOK(e)'
    <3>0. EndOK(e)
      BY DEF PumpInv
    <3>1. Reading(e)' /\ Silent(e)'
      BY <2>1, <3>0 DEF EndOK, Reading, Silent
    <3>2. Caused(e)'
      BY <2>1, <3>0 DEF EndOK, Caused, Suspect
    <3>3. Addressed(e)'
      BY <2>1, <3>0 DEF EndOK, Addressed
    <3>4. Apart(e)'
      BY <2>1, <3>0 DEF EndOK, Apart
    <3>5. Errors(e)'
      BY <2>1, <3>0 DEF EndOK, Errors
    <3> QED BY <3>1, <3>2, <3>3, <3>4, <3>5 DEF EndOK
  <2> QED BY <2>2, <2>3 DEF PumpInv
<1>4. CASE Next
  BY <1>1, <1>2, <1>4, Steps, WriteOK, CloseStreamOK, PumpWriteOK, ReadLenOK, ReadBodyOK,
     StoppingOK, MisreadOK, HandOverOK, LeavingOK, BreakOK, StepKeepsInv
<1> QED
  BY <1>3, <1>4

\* The invariant implies ErrIffStopped, of which it has the elements.
LEMMA InvImpliesErr == PumpInv => ErrIffStopped
<1> SUFFICES ASSUME PumpInv, NEW e \in Ends
             PROVE  LET errs == {i \in DOMAIN inq[e] : inq[e][i] = "Err"} IN
                    /\ \A i, j \in errs : i = j
                    /\ reader[e] = "on" => (errs # {} <=> pump[e] \in {"closed", "failed"})
                    /\ reader[e] = "off" => pump[e] \in {"closed", "failed"}
  BY DEF ErrIffStopped
<1>1. Errors(e)
  BY DEF PumpInv, EndOK
<1> QED
  BY <1>1 DEF Errors, Once, Elems

\* The queues of a relay stream hold only what they may hold, and a read of a
\* frame that has begun (read_one) has that frame before it.
THEOREM PumpTypeCorrect == Spec => []TypeOK
<1>1. PumpInv => TypeOK
  BY DEF PumpInv
<1> QED
  BY <1>1, PumpInitOK, PumpNextOK, PTL DEF Spec

\* start_poll reports an error to the handler once, and exactly if it has
\* returned: a handler is never ended while its pump runs, and waits for ever
\* only if the pump has panicked.
THEOREM ErrIffStoppedHolds == Spec => []ErrIffStopped
BY InvImpliesErr, PumpInitOK, PumpNextOK, PTL DEF Spec

-----------------------------------------------------------------------------
(* The refinement: every step of the pumps, the tasks and the handlers is a   *)
(* step of Channel, or changes nothing there.                                 *)

\* The frames of a queue are its elements that are frames.
LEMMA FramesOfQueue == \A q : FramesIn(q) = Elems(q) \cap Frames
BY DEF FramesIn, Elems

\* Where a frame is that is on its way to an end.
LEMMA FlightIs ==
    \A e \in Ends : \A f : f \in InFlight(e) <=>
        \/ f \in Frames /\ f \in Elems(out[Peer(e)])
        \/ f \in Frames /\ f \in Elems(wire[e])
        \/ f \in spawned[e]
        \/ f \in Frames /\ f \in Elems(inq[e])
BY FramesOfQueue DEF InFlight

\* No step but a write puts a frame on its way.
LEMMA FlightShrinks ==
    ASSUME PumpInv, StepOK, NEW e \in Ends
    PROVE  InFlight(e)' \subseteq InFlight(e)
<1>1. Forward(e) /\ Forward(Peer(e)) /\ Peer(e) \in Ends /\ TypeOK /\ TypeOK'
  BY PeerFacts DEF StepOK, PumpInv
<1>2. \A f : f \in InFlight(e)' <=>
        \/ f \in Frames /\ f \in Elems(out'[Peer(e)])
        \/ f \in Frames /\ f \in Elems(wire'[e])
        \/ f \in spawned'[e]
        \/ f \in Frames /\ f \in Elems(inq'[e])
  BY FramesOfQueue DEF InFlight
<1>3. spawned'[e] \subseteq Frames /\ spawned[e] \subseteq Frames
  BY <1>1 DEF TypeOK
<1>4. ASSUME NEW f \in InFlight(e)' PROVE f \in InFlight(e)
  BY <1>1, <1>2, <1>3, <1>4, FlightIs DEF Forward
<1> QED
  BY <1>4

\* The frames that a step loses.
Lost == {f \in Frames : \E e \in Ends : f \in InFlight(e) /\ f \notin InFlight(e)'}

\* A frame is not on its way to both ends, so the loss of a frame is the loss on
\* one way.
LEMMA FlightWithout ==
    ASSUME PumpInv, StepOK
    PROVE  [e \in Ends |-> InFlight(e)'] = Promise!Without(Lost)
<1>1. ASSUME NEW e \in Ends PROVE InFlight(e)' = InFlight(e) \ Lost
  <2>1. InFlight(e)' \subseteq InFlight(e)
    BY FlightShrinks
  <2>2. ASSUME NEW d \in Ends, NEW f \in InFlight(d), f \in InFlight(e) PROVE d = e
    <3>1. EndOK(e) /\ EndOK(Peer(e)) /\ EndOK(d) /\ EndOK(Peer(d))
      BY PeerFacts DEF PumpInv
    <3>2. spawned[e] \subseteq Frames /\ spawned[d] \subseteq Frames
      BY DEF PumpInv, TypeOK
    <3>3. By[f] = Peer(e)
      BY <2>2, <3>1, <3>2, FlightIs DEF EndOK, Addressed
    <3>4. By[f] = Peer(d)
      BY <2>2, <3>1, <3>2, FlightIs DEF EndOK, Addressed
    <3> QED
      BY <3>3, <3>4, PeerFacts
  <2>3. InFlight(e) \subseteq Frames
    BY FlightIs DEF PumpInv, TypeOK
  <2> QED
    BY <2>1, <2>2, <2>3 DEF Lost
<1> QED
  BY <1>1 DEF Promise!Without, Promise!Ends, Ends

\* What is lost are frames.
LEMMA LostType == Lost \in SUBSET Frames
BY DEF Lost

\* After a cause, frames may disappear.
LEMMA LoseStep ==
    ASSUME PumpInv, StepOK, cause # {}, UNCHANGED <<got, reader, cause>>
    PROVE  Promise!Next
<1>1. Promise!Lose(Lost)
  BY FlightWithout DEF StepOK, Promise!Lose
<1> QED
  BY <1>1, LostType DEF Promise!Next

\* If no frame disappears, nothing happens.
LEMMA StayStep ==
    ASSUME PumpInv, StepOK, UNCHANGED <<got, reader, cause>>,
           cause = {} => \A e \in Ends : InFlight(e) \subseteq InFlight(e)'
    PROVE  [Promise!Next]_(Promise!vars)
<1>1. CASE cause # {}
  BY <1>1, LoseStep
<1>2. CASE cause = {}
  <2>1. \A e \in Ends : InFlight(e)' = InFlight(e)
    BY <1>2, FlightShrinks
  <2>2. [e \in Ends |-> InFlight(e)'] = [e \in Ends |-> InFlight(e)]
    BY <2>1
  <2> QED
    BY <2>2 DEF StepOK, Promise!vars
<1> QED
  BY <1>1, <1>2

\* A frame that was written is on its way to the other end, unless the pump has
\* stopped.
LEMMA WriteStep ==
    ASSUME PumpInv, NEW e \in Ends, NEW f \in Frames, Write(e, f)
    PROVE  Promise!Next
<1>0. TypeOK /\ EndOK(e) /\ Peer(e) \in Ends /\ Peer(Peer(e)) = e /\ out[e] \in Seq(Frames \cup {"Close"})
      /\ \A d \in Ends : d # Peer(e) => Peer(d) # e
  BY QueueTypes, PeerFacts DEF PumpInv
<1>1. CASE Running(e)
  <2>1. /\ out'[e] = Append(out[e], f) /\ \A d \in Ends : d # e => out'[d] = out[d]
        /\ UNCHANGED <<wire, spawned, inq>>
    BY <1>0, <1>1 DEF Write, PushIf, Push, TypeOK
  <2>2. \A x : x \in Elems(out'[e]) <=> x \in Elems(out[e]) \/ x = f
    BY <1>0, <2>1, AppendElems
  <2>3. \A d \in Ends : FramesIn(out'[Peer(d)]) =
            IF d = Peer(e) THEN FramesIn(out[Peer(d)]) \cup {f} ELSE FramesIn(out[Peer(d)])
    <3>1. FramesIn(out'[e]) = FramesIn(out[e]) \cup {f}
      BY <2>2, FramesOfQueue
    <3> QED
      BY <1>0, <2>1, <3>1, PeerFacts
  <2>4. \A d \in Ends : InFlight(d)' = IF d = Peer(e) THEN InFlight(d) \cup {f} ELSE InFlight(d)
    BY <2>1, <2>3 DEF InFlight
  <2>5. [d \in Ends |-> InFlight(d)'] =
            [[d \in Ends |-> InFlight(d)] EXCEPT ![Peer(e)] = @ \cup {f}]
    BY <1>0, <2>4
  <2>6. Promise!Send(e, f)
    BY <2>5 DEF Write, Promise!Send, Promise!Peer, Peer
  <2> QED
    BY <2>6 DEF Promise!Next, Promise!Ends, Ends
<1>2. CASE ~Running(e)
  <2>1. cause # {}
    BY <1>0, <1>2 DEF EndOK, Caused, Suspect, Running
  <2>2. UNCHANGED <<out, wire, spawned, inq>>
    BY <1>2 DEF Write, PushIf
  <2>3. \A d \in Ends : InFlight(d)' = InFlight(d)
    BY <2>2 DEF InFlight
  <2>4. [d \in Ends |-> InFlight(d)'] = [d \in Ends |-> InFlight(d)]
    BY <2>3
  <2>5. Promise!SendInVain(e, f)
    BY <2>1, <2>4 DEF Write, Promise!SendInVain
  <2> QED
    BY <2>5 DEF Promise!Next, Promise!Ends, Ends
<1> QED
  BY <1>1, <1>2

\* Closing and breaking lose nothing by themselves.
LEMMA HappenStep ==
    ASSUME PumpInv, StepOK, NEW c \in {"closed", "broken"}, cause' = cause \cup {c},
           UNCHANGED <<got, reader>>, \A e \in Ends : InFlight(e) \subseteq InFlight(e)'
    PROVE  Promise!Next
<1>1. \A e \in Ends : InFlight(e)' = InFlight(e)
  BY FlightShrinks
<1>2. [e \in Ends |-> InFlight(e)'] = [e \in Ends |-> InFlight(e)]
  BY <1>1
<1>3. Promise!Happen(c)
  BY <1>2 DEF StepOK, Promise!Happen
<1> QED
  BY <1>3 DEF Promise!Next, Promise!Causes

\* WrappedStream::close is a step of Channel that gives a cause.
LEMMA CloseStep ==
    ASSUME PumpInv, NEW e \in Ends, CloseStream(e)
    PROVE  Promise!Next
<1>1. StepOK /\ TypeOK /\ out[e] \in Seq(Frames \cup {"Close"}) /\ "Close" \in Frames \cup {"Close"}
  BY CloseStreamOK, QueueTypes DEF PumpInv
<1>2. out'[e] = Append(out[e], "Close") /\ \A d \in Ends : d # e => out'[d] = out[d]
  BY <1>1 DEF CloseStream, Push, TypeOK
<1>3. \A x : x \in Elems(out[e]) => x \in Elems(out'[e])
  BY <1>1, <1>2, AppendElems
<1>4. ASSUME NEW d \in Ends PROVE FramesIn(out[Peer(d)]) \subseteq FramesIn(out'[Peer(d)])
  BY <1>2, <1>3, FramesOfQueue, PeerFacts
<1>5. \A d \in Ends : InFlight(d) \subseteq InFlight(d)'
  BY <1>4 DEF InFlight, CloseStream
<1> QED
  BY <1>1, <1>5, HappenStep DEF CloseStream

\* A broken substream is a step of Channel that gives a cause.
LEMMA BreakStep == PumpInv /\ Break => Promise!Next
<1> SUFFICES ASSUME PumpInv, Break PROVE Promise!Next
  OBVIOUS
<1>1. \A e \in Ends : InFlight(e) \subseteq InFlight(e)'
  BY DEF Break, InFlight
<1> QED
  BY <1>1, BreakOK, HappenStep DEF Break

\* A frame goes on; or a read is cut, which takes a frame to be written and one
\* that is being read.
LEMMA PumpWriteStep ==
    ASSUME PumpInv, NEW e \in Ends, PumpWrite(e)
    PROVE  [Promise!Next]_(Promise!vars)
<1> DEFINE f == Head(out[e])
           p == Peer(e)
<1>0. TypeOK /\ (\A d \in Ends : EndOK(d)) /\ p \in Ends /\ p # e /\ Peer(p) = e
      /\ \A d \in Ends : d = e \/ d = p
  BY PeerFacts DEF PumpInv
<1>1. /\ out[e] \in Seq(Frames \cup {"Close"}) /\ out[e] # <<>> /\ f \in Frames
      /\ wire[p] \in Seq(Frames) /\ wire[e] \in Seq(Frames)
  BY <1>0, QueueTypes, TailIndex DEF PumpWrite, DataNext
<1>2. StepOK
  BY PumpWriteOK
<1>3. CASE part[e]
  <2>1. wire[e] # <<>>
    BY <1>0, <1>3 DEF EndOK, Reading
  <2>2. Head(wire[e]) \in Elems(wire[e]) /\ Head(wire[e]) \in Frames /\ f \in Elems(out[e])
    BY <1>1, <2>1, HeadIn, TailIndex
  <2>3. InFlight(e) # {} /\ InFlight(p) # {}
    BY <1>0, <1>1, <2>2, FlightIs
  <2>4. Promise!Cut(e, Lost)
    <3>1. cause' = cause \cup {"cut"} /\ UNCHANGED <<unsent, got, reader>>
      BY <1>3 DEF PumpWrite
    <3>2. [d \in Ends |-> InFlight(d)][e] # {} /\ [d \in Ends |-> InFlight(d)][p] # {}
      BY <1>0, <2>3
    <3> QED
      BY <1>2, <3>1, <3>2, FlightWithout DEF Promise!Cut, Promise!Peer, Peer
  <2> QED
    BY <2>4, LostType DEF Promise!Next, Promise!Ends, Ends
<1>4. CASE ~part[e]
  <2>1. ASSUME cause = {}, NEW d \in Ends PROVE InFlight(d) \subseteq InFlight(d)'
    <3>1. Running(p)
      BY <1>0, <2>1 DEF EndOK, Caused, Suspect, Running
    <3>2. /\ out'[e] = Tail(out[e]) /\ out'[p] = out[p] /\ wire'[p] = Append(wire[p], f)
          /\ wire'[e] = wire[e] /\ UNCHANGED <<spawned, inq>>
      BY <1>0, <1>4, <3>1 DEF PumpWrite, PumpOut, Push, PushIf, Pop, TypeOK
    <3>3. /\ \A x : x \in Elems(out[e]) => x \in Elems(out'[e]) \/ x = f
          /\ \A x : x \in Elems(wire'[p]) <=> x \in Elems(wire[p]) \/ x = f
      BY <1>1, <3>2, TailElems, AppendElems
    <3>4. FramesIn(out[e]) \cup FramesIn(wire[p]) \subseteq FramesIn(out'[e]) \cup FramesIn(wire'[p])
      BY <3>3, FramesOfQueue
    <3>5. CASE d = e
      BY <1>0, <3>2, <3>5 DEF InFlight
    <3>6. CASE d = p
      BY <1>0, <3>2, <3>4, <3>6 DEF InFlight
    <3> QED
      BY <1>0, <3>5, <3>6
  <2> QED
    BY <1>2, <1>4, <2>1, StayStep DEF PumpWrite
<1> QED
  BY <1>3, <1>4

\* A frame is handed to a task, and by the task to the handler.
LEMMA HandStep ==
    ASSUME PumpInv, NEW e \in Ends,
           ReadLen(e) \/ ReadBody(e) \/ \E f \in Frames : HandOver(e, f)
    PROVE  [Promise!Next]_(Promise!vars)
<1>0. TypeOK /\ EndOK(e) /\ wire[e] \in Seq(Frames) /\ inq[e] \in Seq(Frames \cup {"Err", "Junk"})
  BY QueueTypes DEF PumpInv
<1>1. CASE ReadLen(e)
  <2>1. \A d \in Ends : InFlight(d) \subseteq InFlight(d)'
    BY <1>1 DEF ReadLen, InFlight
  <2> QED
    BY <1>1, <2>1, ReadLenOK, StayStep DEF ReadLen
<1>2. CASE ReadBody(e)
  <2>1. ASSUME cause = {}, NEW d \in Ends PROVE InFlight(d) \subseteq InFlight(d)'
    <3>1. reader[e] = "on" /\ wire[e] # <<>>
      BY <1>0, <1>2, <2>1 DEF ReadBody, EndOK, Caused, Suspect, Reading
    <3>2. /\ wire'[e] = Tail(wire[e]) /\ spawned'[e] = spawned[e] \cup {Head(wire[e])}
          /\ (d # e => wire'[d] = wire[d] /\ spawned'[d] = spawned[d]) /\ UNCHANGED <<out, inq>>
      BY <1>0, <1>2, <3>1 DEF ReadBody, SpawnHandOver, Pop, TypeOK
    <3>3. \A x : x \in Elems(wire[e]) => x \in Elems(wire'[e]) \/ x = Head(wire[e])
      BY <1>0, <3>1, <3>2, TailElems
    <3>4. FramesIn(wire[e]) \cup spawned[e] \subseteq FramesIn(wire'[e]) \cup spawned'[e]
      BY <3>2, <3>3, FramesOfQueue
    <3> QED
      BY <3>2, <3>4 DEF InFlight
  <2> QED
    BY <1>2, <2>1, ReadBodyOK, StayStep DEF ReadBody
<1>3. ASSUME NEW f \in Frames, HandOver(e, f) PROVE [Promise!Next]_(Promise!vars)
  <2>1. ASSUME NEW d \in Ends PROVE InFlight(d) \subseteq InFlight(d)'
    <3>1. /\ inq'[e] = Append(inq[e], f) /\ spawned'[e] = spawned[e] \ {f}
          /\ (d # e => inq'[d] = inq[d] /\ spawned'[d] = spawned[d]) /\ UNCHANGED <<out, wire>>
      BY <1>0, <1>3 DEF HandOver, Push, TypeOK
    <3>2. \A x : x \in Elems(inq'[e]) <=> x \in Elems(inq[e]) \/ x = f
      BY <1>0, <3>1, AppendElems
    <3>3. FramesIn(inq[e]) \cup spawned[e] \subseteq FramesIn(inq'[e]) \cup spawned'[e]
      BY <3>1, <3>2, FramesOfQueue
    <3> QED
      BY <3>1, <3>3 DEF InFlight
  <2> QED
    BY <1>3, <2>1, HandOverOK, StayStep DEF HandOver
<1> QED
  BY <1>1, <1>2, <1>3

\* The handler reads a frame, which is then on its way no more: it was in one
\* place.
LEMMA TakeStep ==
    ASSUME PumpInv, NEW e \in Ends, HandlerRead(e)
    PROVE  Promise!Next
<1> DEFINE f == Head(inq[e])
<1>0. /\ TypeOK /\ EndOK(e) /\ inq[e] \in Seq(Frames \cup {"Err", "Junk"}) /\ inq[e] # <<>>
      /\ f \in Frames /\ reader[e] = "on" /\ spawned[e] \subseteq Frames
  BY QueueTypes DEF PumpInv, HandlerRead
<1>1. /\ inq'[e] = Tail(inq[e]) /\ (\A d \in Ends : d # e => inq'[d] = inq[d])
      /\ UNCHANGED <<out, wire, spawned, reader>>
  BY <1>0 DEF HandlerRead, Pop, TypeOK
<1>2. /\ \A x : x \in Elems(inq[e]) <=> x \in Elems(inq'[e]) \/ x = f
      /\ f \notin Elems(inq'[e])
  BY <1>0, <1>1, TailElems, TailOnce DEF EndOK, Errors
<1>3. /\ f \notin Elems(out[Peer(e)]) /\ f \notin Elems(wire[e]) /\ f \notin spawned[e]
      /\ f \in Elems(inq[e])
  BY <1>0, <1>2 DEF EndOK, Apart
<1>4. FramesIn(inq'[e]) = FramesIn(inq[e]) \ {f}
  BY <1>2, FramesOfQueue
<1>5. InFlight(e)' = InFlight(e) \ {f} /\ f \in InFlight(e)
  <2>1. /\ FramesIn(out[Peer(e)]) = FramesIn(out[Peer(e)]) \ {f}
        /\ FramesIn(wire[e]) = FramesIn(wire[e]) \ {f} /\ spawned[e] = spawned[e] \ {f}
    BY <1>3, FramesOfQueue
  <2> QED
    BY <1>0, <1>1, <1>3, <1>4, <2>1, FlightIs DEF InFlight
<1>6. \A d \in Ends : d # e => InFlight(d)' = InFlight(d)
  BY <1>1 DEF InFlight
<1>7. [d \in Ends |-> InFlight(d)'] = [[d \in Ends |-> InFlight(d)] EXCEPT ![e] = @ \ {f}]
  BY <1>5, <1>6
<1>8. Promise!Take(e, f)
  BY <1>0, <1>5, <1>7 DEF HandlerRead, Promise!Take, Ends
<1> QED
  BY <1>0, <1>8 DEF Promise!Next, Promise!Ends, Ends

\* The handler has learnt that the stream is over.
LEMMA EndStep ==
    ASSUME PumpInv, NEW e \in Ends, Leaving(e)
    PROVE  Promise!Next
<1>1. StepOK /\ cause # {} /\ UNCHANGED <<cause, got, unsent>>
  BY LeavingOK DEF StepOK
<1>2. PICK how \in {"off", "panicked"} : reader' = [reader EXCEPT ![e] = how]
  BY LeavingOK
<1>3. {d \in Ends : reader'[d] # "on"} = {d \in Ends : reader[d] # "on"} \cup {e}
  BY <1>2 DEF PumpInv, TypeOK
<1>4. PICK F \in SUBSET Frames : F = Lost
  BY LostType
<1>5. [d \in Ends |-> InFlight(d)'] = Promise!Without(F)
  BY <1>1, <1>4, FlightWithout DEF Promise!Without
<1>6. Promise!End(e, F)
  BY <1>1, <1>3, <1>5 DEF Promise!End
<1> QED
  BY <1>6 DEF Promise!Next, Promise!Ends, Ends

\* Every step of the pumps and handlers is a step of Channel, or none.
LEMMA PumpSimulates == PumpInv /\ [Next]_vars => [Promise!Next]_(Promise!vars)
<1> SUFFICES ASSUME PumpInv, [Next]_vars PROVE [Promise!Next]_(Promise!vars)
  OBVIOUS
<1>1. ASSUME NEW e \in Ends, NEW n \in Nat, NEW s \in BOOLEAN,
             Running(e), skew[e], n \in 0..Len(wire[e]), Misread(e, n, s)
      PROVE  Promise!Next
  <2>1. cause # {}
    BY <1>1 DEF PumpInv, EndOK, Caused, Suspect
  <2> QED
    BY <1>1, <2>1, MisreadOK, LoseStep DEF Misread
<1>2. ASSUME NEW e \in Ends, Stopping(e) PROVE Promise!Next
  BY <1>2, StoppingOK, LoseStep
<1>3. ASSUME NEW e \in Ends, reader[e] = "on", inq[e] # <<>>, Head(inq[e]) = "Junk",
             inq' = Pop(inq, e),
             UNCHANGED <<unsent, out, wire, part, skew, shut, pump, spawned, reader, got, cause>>
      PROVE  Promise!Next
  <2>1. StepOK
    BY <1>3, TakeOK DEF PumpInv, TypeOK
  <2>2. EndOK(e) /\ inq[e] \in Seq(Frames \cup {"Err", "Junk"})
    BY QueueTypes DEF PumpInv
  <2>3. cause # {}
    BY <1>3, <2>2, HeadIn DEF EndOK, Caused, Suspect
  <2> QED
    BY <1>3, <2>1, <2>3, LoseStep
<1>4. CASE UNCHANGED vars
  <2>1. \A e \in Ends : InFlight(e)' = InFlight(e)
    BY <1>4 DEF vars, InFlight
  <2>2. [e \in Ends |-> InFlight(e)'] = [e \in Ends |-> InFlight(e)]
    BY <2>1
  <2> QED
    BY <1>4, <2>2 DEF vars, Promise!vars
<1>5. CASE Next
  BY <1>1, <1>2, <1>3, <1>5, Steps, WriteStep, CloseStep, PumpWriteStep, HandStep, TakeStep,
     EndStep, BreakStep
<1> QED
  BY <1>4, <1>5

\* A new stream is a new Channel.
LEMMA PumpInitMaps == Init => Promise!Init
<1> SUFFICES ASSUME Init PROVE Promise!Init
  OBVIOUS
<1>1. \A e \in Ends : InFlight(e) = {}
  BY EmptyQueue, FramesOfQueue, PeerFacts DEF Init, InFlight
<1>2. [e \in Ends |-> InFlight(e)] = [e \in Ends |-> {}] /\ {e \in Ends : reader[e] # "on"} = {}
  BY <1>1 DEF Init
<1> QED
  BY <1>2 DEF Init, Promise!Init, Promise!Ends, Ends

\* The safety half of KeepsPromise: WrappedStream, start_poll, the hand-over tasks
\* and the handlers implement Channel.  So a frame is read at most once and only at
\* the other end, and is lost, or an end told that the stream is over, only after
\* the stream was closed, broken, cut or given a frame too long.
THEOREM PumpImplementsChannel == Spec => Promise!Spec
BY PumpInitOK, PumpInitMaps, PumpNextOK, PumpSimulates, PTL DEF Spec, Promise!Spec

\* What is proved about Channel holds for the streams of the code.
Kept == INSTANCE ChannelProofs WITH
    flight <- [e \in Ends |-> InFlight(e)],
    over <- {e \in Ends : reader[e] # "on"}

\* A frame that was written to a relay stream is read at most once, and never by
\* the end that wrote it, whatever the pumps and the tasks that hand it over do.
THEOREM FrameInOnePlace == Spec => []Promise!OnePlace
<1>1. Kept!ChannelAssumption
  BY StreamPumpAssumption DEF Kept!ChannelAssumption
<1>2. Kept!Spec => []Kept!OnePlace
  BY <1>1, Kept!OnePlaceHolds
<1>3. Promise!Spec => Kept!Spec
  BY DEF Promise!Spec, Kept!Spec, Promise!Init, Kept!Init, Promise!Next, Kept!Next, Promise!vars, Kept!vars,
    Promise!Send, Kept!Send, Promise!SendInVain, Kept!SendInVain, Promise!Take, Kept!Take, 
    Promise!Lose, Kept!Lose, Promise!Cut, Kept!Cut, Promise!End, Kept!End, Promise!Happen, Kept!Happen,
    Promise!Without, Kept!Without, Promise!Ends, Kept!Ends, Promise!Peer, Kept!Peer, Promise!Causes, Kept!Causes
<1>4. Kept!OnePlace => Promise!OnePlace
  BY DEF Promise!OnePlace, Kept!OnePlace, Promise!Ends, Kept!Ends
<1> QED
  BY <1>2, <1>3, <1>4, PumpImplementsChannel, PTL
=============================================================================
