----------------------------- MODULE StreamPump -----------------------------
(* A relay stream: WrappedStream and the task start_poll that pumps frames    *)
(* between the queues of its end and the substream.  The two ends are "a" and *)
(* "b"; a frame is a name, Big the frames that are longer than read_one's     *)
(* limit of 4096 bytes.  What the substream does (bytes arrive in order, a    *)
(* frame may arrive in two parts, the end of the other side is seen after its *)
(* last byte, a substream that is dropped is reset) is libp2p's.              *)
EXTENDS Sequences, Naturals, FiniteSets

CONSTANTS Frames, Big, By  \* By: the end that writes a frame

ASSUME StreamPumpAssumption ==
    /\ Big \subseteq Frames
    /\ By \in [Frames -> {"a", "b"}]
    /\ {"Close", "Err", "Junk"} \cap Frames = {}

Ends == {"a", "b"}
Peer(e) == IF e = "a" THEN "b" ELSE "a"

VARIABLES
    unsent,   \* frames that nobody has written yet
    out,      \* out_sender .. out_receiver
    wire,     \* whole frames on the substream to an end
    part,     \* read_one has the length of the first frame but not its body
    skew,     \* the substream stands in the middle of a frame
    shut,     \* whether the end has closed its half of the substream, or dropped it
    pump,     \* start_poll
    spawned,  \* frames in a task that will put them on the in_receiver queue
    inq,      \* in_sender .. in_receiver
    reader,   \* the relay_event_handler that reads the stream
    got,      \* frames that the handler has read
    cause     \* what has happened to the stream so far

vars == <<unsent, out, wire, part, skew, shut, pump, spawned, inq, reader, got, cause>>

TypeOK ==
    /\ unsent \in SUBSET Frames
    /\ out \in [Ends -> Seq(Frames \cup {"Close"})]
    /\ wire \in [Ends -> Seq(Frames)]
    /\ part \in [Ends -> BOOLEAN]
    /\ skew \in [Ends -> BOOLEAN]
    /\ shut \in [Ends -> {"no", "closed", "dropped"}]
    /\ pump \in [Ends -> {"run", "closed", "failed", "panicked"}]
    /\ spawned \in [Ends -> SUBSET Frames]
    /\ inq \in [Ends -> Seq(Frames \cup {"Err", "Junk"})]
    /\ reader \in [Ends -> {"on", "off", "panicked"}]
    /\ got \in [Ends -> SUBSET Frames]
    /\ cause \in SUBSET {"big", "closed", "cut", "broken"}

Init ==
    /\ unsent = Frames
    /\ out = [e \in Ends |-> <<>>]
    /\ wire = [e \in Ends |-> <<>>]
    /\ part = [e \in Ends |-> FALSE]
    /\ skew = [e \in Ends |-> FALSE]
    /\ shut = [e \in Ends |-> "no"]
    /\ pump = [e \in Ends |-> "run"]
    /\ spawned = [e \in Ends |-> {}]
    /\ inq = [e \in Ends |-> <<>>]
    /\ reader = [e \in Ends |-> "on"]
    /\ got = [e \in Ends |-> {}]
    /\ cause = {}

Broken == "broken" \in cause

\* Writes fail: the network broke the substream, or the other side has reset it.
Torn(e) == Broken \/ shut[Peer(e)] = "dropped"

Running(e) == pump[e] = "run"
Push(q, e, x) == [q EXCEPT ![e] = Append(@, x)]
Pop(q, e) == [q EXCEPT ![e] = Tail(@)]

\* A queue whose reader will not come back: what is put there is forgotten.
PushIf(live, q, e, x) == IF live THEN Push(q, e, x) ELSE q

-----------------------------------------------------------------------------
(* WrappedStream: write and close only queue; they work as long as a clone of *)
(* the stream exists, whatever start_poll does.                               *)

Write(e, f) ==
    /\ f \in unsent /\ By[f] = e
    /\ unsent' = unsent \ {f}
    /\ out' = PushIf(Running(e), out, e, f)
    /\ cause' = cause \cup (IF f \in Big THEN {"big"} ELSE {})
    /\ UNCHANGED <<wire, part, skew, shut, pump, spawned, inq, reader, got>>

\* Only the first Close matters: start_poll returns on it.
CloseStream(e) ==
    /\ Running(e)
    /\ \A i \in DOMAIN out[e] : out[e][i] # "Close"
    /\ out' = Push(out, e, "Close")
    /\ cause' = cause \cup {"closed"}
    /\ UNCHANGED <<unsent, wire, part, skew, shut, pump, spawned, inq, reader, got>>

-----------------------------------------------------------------------------
(* start_poll, first branch of select!: something is to be written.  A read   *)
(* that has taken part of a frame is dropped with what it took.               *)

AnythingNext(e) == out[e] # <<>>  \* mutant: a Close is written as if it were data

DataNext(e) == out[e] # <<>> /\ Head(out[e]) # "Close"

PumpOut(e) ==
    /\ wire' = PushIf(Running(Peer(e)), IF part[e] THEN Pop(wire, e) ELSE wire,
                      Peer(e), Head(out[e]))
    /\ part' = [part EXCEPT ![e] = FALSE]
    /\ skew' = [skew EXCEPT ![e] = @ \/ part[e]]

\* A write on a torn substream still succeeds, in vain, until the end is known here.
PumpWrite(e) ==
    /\ Running(e)
    /\ DataNext(e)
    /\ out' = Pop(out, e)
    /\ PumpOut(e)
    /\ cause' = IF part[e] THEN cause \cup {"cut"} ELSE cause
    /\ UNCHANGED <<unsent, shut, pump, spawned, inq, reader, got>>

\* start_poll returns or panics: nobody empties its queue or reads any more.
PumpStops(e, how) ==
    /\ pump' = [pump EXCEPT ![e] = how]
    /\ out' = [out EXCEPT ![e] = <<>>]
    /\ wire' = [wire EXCEPT ![e] = <<>>]
    /\ part' = [part EXCEPT ![e] = FALSE]
    /\ skew' = [skew EXCEPT ![e] = FALSE]
    /\ UNCHANGED <<unsent, spawned, reader, got, cause>>

\* write_with_len_prefix(..).await.unwrap(): the handler is not told.
PumpWriteFails(e) ==
    /\ Running(e)
    /\ DataNext(e)
    /\ Torn(e)
    /\ PumpStops(e, "panicked")
    /\ UNCHANGED <<shut, inq>>

\* An error is queued at once, with no task in between.
Report(e) == inq' = PushIf(reader[e] = "on", inq, e, "Err")

CloseUnreported(e) == UNCHANGED inq  \* mutant: the handler of a closed stream is not told

ReportClosed(e) == Report(e)

PumpClose(e) ==
    /\ Running(e)
    /\ out[e] # <<>> /\ Head(out[e]) = "Close"
    /\ shut' = [shut EXCEPT ![e] = "closed"]
    /\ PumpStops(e, "closed")
    /\ ReportClosed(e)

-----------------------------------------------------------------------------
(* Second branch: read_one.                                                   *)

FailsAndGoesOn(e) ==  \* mutant: no break after the error
    /\ Report(e)
    /\ UNCHANGED <<unsent, out, wire, part, skew, shut, pump, spawned, reader, got, cause>>

ReadFails(e) == PumpStops(e, "failed") /\ Report(e) /\ UNCHANGED shut

ReadLen(e) ==
    /\ Running(e) /\ ~part[e] /\ ~skew[e]
    /\ wire[e] # <<>> /\ Head(wire[e]) \notin Big
    /\ part' = [part EXCEPT ![e] = TRUE]
    /\ UNCHANGED <<unsent, out, wire, skew, shut, pump, spawned, inq, reader, got, cause>>

TooLarge(e) ==
    /\ Running(e) /\ ~skew[e]
    /\ wire[e] # <<>> /\ Head(wire[e]) \in Big
    /\ ReadFails(e)

QueueTwice(e, f) ==  \* mutant: the frame is queued at once and by a task as well
    /\ spawned' = [spawned EXCEPT ![e] = @ \cup {f}]
    /\ inq' = Push(inq, e, f)

\* async_std::task::spawn: frames are queued by tasks that race one another.
SpawnHandOver(e, f) ==
    /\ spawned' = IF reader[e] = "on" THEN [spawned EXCEPT ![e] = @ \cup {f}] ELSE spawned
    /\ UNCHANGED inq

ReadBody(e) ==
    /\ Running(e) /\ part[e]
    /\ part' = [part EXCEPT ![e] = FALSE]
    /\ wire' = Pop(wire, e)
    /\ SpawnHandOver(e, Head(wire[e]))
    /\ UNCHANGED <<unsent, out, skew, shut, pump, reader, got, cause>>

\* Bound: as many reads that are no frame wait for the handler.
MaxJunk == 1
JunkPending(e) == Cardinality({i \in DOMAIN inq[e] : inq[e][i] = "Junk"})

\* The rest of a frame is read as the length of the next one: an error, or some
\* bytes that are no frame and may take n frames that follow with them.
ReadSkewed(e) ==
    /\ Running(e) /\ skew[e]
    /\ \/ ReadFails(e)
       \/ \E n \in 0..Len(wire[e]), s \in BOOLEAN :
            /\ JunkPending(e) < MaxJunk
            /\ wire' = [wire EXCEPT ![e] = SubSeq(@, n + 1, Len(@))]
            /\ skew' = [skew EXCEPT ![e] = s]
            /\ inq' = PushIf(reader[e] = "on", inq, e, "Junk")
            /\ UNCHANGED <<unsent, out, part, shut, pump, spawned, reader, got, cause>>

\* The other side has ended and everything before that was read: zero bytes.
ReadEof(e) ==
    /\ Running(e)
    /\ shut[Peer(e)] # "no" /\ wire[e] = <<>>
    /\ ReadFails(e)

ReadError(e) ==
    /\ Running(e)
    /\ Broken
    /\ ReadFails(e)

-----------------------------------------------------------------------------
(* WrappedStream::read, for the handler.                                      *)

HandOver(e, f) ==
    /\ f \in spawned[e]
    /\ spawned' = [spawned EXCEPT ![e] = @ \ {f}]
    /\ inq' = Push(inq, e, f)
    /\ UNCHANGED <<unsent, out, wire, part, skew, shut, pump, reader, got, cause>>

HandlerRead(e) ==
    /\ reader[e] = "on"
    /\ inq[e] # <<>> /\ Head(inq[e]) \in Frames
    /\ inq' = Pop(inq, e)
    /\ got' = [got EXCEPT ![e] = @ \cup {Head(inq[e])}]
    /\ UNCHANGED <<unsent, out, wire, part, skew, shut, pump, spawned, reader, cause>>

\* The handler is gone, and with it what it would have read.
HandlerStops(e, how) ==
    /\ reader' = [reader EXCEPT ![e] = how]
    /\ inq' = [inq EXCEPT ![e] = <<>>]
    /\ spawned' = [spawned EXCEPT ![e] = {}]
    /\ UNCHANGED <<unsent, out, wire, part, skew, shut, pump, got, cause>>

\* It returns after an error.
HandlerEnds(e) ==
    /\ reader[e] = "on"
    /\ inq[e] # <<>> /\ Head(inq[e]) = "Err"
    /\ HandlerStops(e, "off")

\* The substream goes with the last clone of the stream; sessions and circuits may
\* keep clones after its pump and its handler have stopped.
DropStream(e) ==
    /\ ~Running(e) /\ reader[e] # "on" /\ shut[e] # "dropped"
    /\ shut' = [shut EXCEPT ![e] = "dropped"]
    /\ UNCHANGED <<unsent, out, wire, part, skew, pump, spawned, inq, reader, got, cause>>

\* Relay::decode(..).unwrap() on bytes that are no Relay, or are one of no use.
HandlerJunk(e) ==
    /\ reader[e] = "on"
    /\ inq[e] # <<>> /\ Head(inq[e]) = "Junk"
    /\ \/ HandlerStops(e, "panicked")
       \/ inq' = Pop(inq, e) /\ UNCHANGED <<unsent, out, wire, part, skew, shut, pump, spawned,
                                            reader, got, cause>>

Break ==
    /\ ~Broken
    /\ cause' = cause \cup {"broken"}
    /\ UNCHANGED <<unsent, out, wire, part, skew, shut, pump, spawned, inq, reader, got>>

-----------------------------------------------------------------------------
StartPoll(e) ==
    \/ PumpWrite(e) \/ PumpWriteFails(e) \/ PumpClose(e)
    \/ ReadLen(e) \/ TooLarge(e) \/ ReadBody(e) \/ ReadSkewed(e)
    \/ ReadEof(e) \/ ReadError(e)

Deliver(e) ==
    \/ \E f \in Frames : HandOver(e, f)
    \/ HandlerRead(e) \/ HandlerEnds(e) \/ HandlerJunk(e)

Next ==
    \/ \E e \in Ends : (\E f \in Frames : Write(e, f)) \/ CloseStream(e)
    \/ \E e \in Ends : StartPoll(e) \/ Deliver(e) \/ DropStream(e)
    \/ Break

Spec == Init /\ [][Next]_vars

\* The tasks run; nobody has to write, to close or to drop the last clone, and bytes
\* behind a cut frame may look like a length that never gets its body.
FairSpec ==
    /\ Spec
    /\ \A e \in Ends :
         /\ WF_vars(StartPoll(e) /\ ~skew[e])
         /\ WF_vars(HandlerRead(e) \/ HandlerEnds(e) \/ HandlerJunk(e))
         /\ \A f \in Frames : WF_vars(HandOver(e, f))

-----------------------------------------------------------------------------
(* Properties.                                                                *)

FramesIn(q) == {q[i] : i \in DOMAIN q} \cap Frames

\* A frame is on its way from the queue of its writer to that of its reader.
InFlight(e) == FramesIn(out[Peer(e)]) \cup FramesIn(wire[e]) \cup spawned[e] \cup FramesIn(inq[e])

Promise == INSTANCE Channel WITH
    flight <- [e \in Ends |-> InFlight(e)],
    over <- {e \in Ends : reader[e] # "on"}

\* A stream keeps the promise of Channel: whatever the two pumps, the hand-over
\* tasks and the handlers do, a frame is read at most once, and none is lost or
\* stuck unless the stream was closed, broken, cut or given a frame too long.
KeepsPromise == Promise!FairSpec

\* The end of a stream is noticed: when the other side has closed or dropped it, or
\* the network has broken it, the handler that reads it is told, so that it can close
\* the session; unless a read was cut before, or a write was waiting when the
\* substream was torn, which panics the pump (PumpWriteFails).  A peer that has only
\* closed panics nobody.
LossNoticed == \A e \in Ends :
    shut[Peer(e)] # "no" \/ Broken ~>
        reader[e] # "on" \/ (Torn(e) /\ pump[e] = "panicked") \/ "cut" \in cause

\* An error is reported once and by a pump that has stopped, and a pump that has
\* stopped has reported one or panicked: a handler is never ended while its pump
\* runs, and never waits for a pump that has returned.
ErrIffStopped == \A e \in Ends :
    LET errs == {i \in DOMAIN inq[e] : inq[e][i] = "Err"} IN
    /\ \A i, j \in errs : i = j
    /\ reader[e] = "on" => (errs # {} <=> pump[e] \in {"closed", "failed"})
    /\ reader[e] = "off" => pump[e] \in {"closed", "failed"}
=============================================================================
