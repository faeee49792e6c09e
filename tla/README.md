# WhiteNoise.rs: a TLA+ verification project

WhiteNoise is an overlay network on libp2p. Two *clients* talk through a
*circuit* of *servers*: every server on the path joins two relay streams into a
*session* and forwards frames from one to the other, and the clients run a Noise
handshake end to end. This directory models how clients register, how relay
streams are opened and pumped, how circuits are built, probed, secured, used and
torn down, checks that with TLC and proves parts of it with TLAPS.
Paths below are relative to the repository's `src/` directory.

## 1. Inventory

| Part | State | Operations | Talks to |
|---|---|---|---|
| Circuit set-up: `network/node.rs`, `proxy_event_handler.rs`, `publish_event_handler.rs`, `cmd_event_handler.rs` | `session_map`, `circuit_map`, `probe_map`, `circuit_task`, the locals of three request loops | `dial`, `new_circuit`, `new_session_to_peer`, `handle_new_circuit`, `process_publish_request`, `process_cmd_request`, `handle_close_session` | relay streams, event bus, gossip |
| Frame handler: `relay_event_handler.rs` | one task per stream end; clones of sessions | `SetSession`, `Probe`, `Success`, `Data`, `Disconnect`, read errors | the other stream of the session, acks |
| Handshake: `process_handshake` | the circuit's `in_channel`, `transport_state` | three Noise messages, then insertion into `circuit_map` | the remote client, through the circuit |
| Event bus: `event_bus`, the swarm's `inject_event` for acks | a map from request hash to a one-shot sender | register a key, deliver or drop an ack | every request that waits |
| Registration: `client_wn_map`, `client_peer_map`, `proxy_id` | two maps at the proxy | `register_proxy`, `NewProxy`, `UnRegister`, `Disconnect` | proxy loop |
| Stream pump: `WrappedStream`, `start_poll` | two channels per stream | write, read, close, error | libp2p substream |
| Stream pools: `relay_in_streams`, `relay_out_streams` | two queues | `new_relay_stream`, `wait_for_*` | swarm loop |
| Transport: `CircuitConn`, `send_message` | Noise transport state | read, write | stream pump |
| Discovery: Kademlia, identify, `get_main_nets` | libp2p's tables | list connected peers | swarm loop |
| Host and SDK: `sdk/host.rs`, `sdk/client.rs` | – | start the tasks; `dial`, `disconnect_circuit`, `notify_next_session` | all |
| Codecs, account, chat client | – | encodings, keys, user interface | – |

What is hard here. All maps are shared by tasks that take and release a lock for
each access, so every look-up followed by a write is a race. Each set-up is a
chain of awaits, without timeouts, over five nodes and three single-threaded
request loops. Frames are handed over by spawned tasks and can overtake each
other. Streams fail at any time and the loss is found out hop by hop. Servers may
play two roles, which gives a circuit four shapes with different code paths. The
full list is under `hazards` in `PROJECT.json`.

What makes the parts correct:

* set-up: success is announced only on a complete path; acks mean what they say;
  retries use different peers; no dial waits for ever;
* handshake: the two clients stay in step, and it runs once;
* teardown: a lost circuit disappears everywhere, and nothing else does;
* registration: the two maps agree, and follow the last (dis)connection;
* pump and transport: no frame is lost or split while the stream is open, and
  messages can be decrypted in the order they arrive.

## 2. Modules

| Module | Contents |
|---|---|
| `Circuit` | set-up, probes, handshake, teardown and acks of circuits |
| `Notify` | `Circuit` composed with the SDK task that reports new circuits |
| `Channel` | abstract: what the two ends of a relay stream, or of a path, may rely on |
| `StreamPump` | `WrappedStream` and `start_poll` at both ends of a stream; implements `Channel` |
| `Transport` | the end of the handshake, `send_message`, `CircuitConn::read` and `write`, on top of `Channel` |
| `StreamPool` | `new_relay_stream` and the shared queue of outbound streams |
| `Registry` | `register_proxy`, the proxy's maps and request loop, the look-ups of its publish loop |
| `MCCircuit`, `MCNotify`, `MCStreamPump`, `MCTransport`, `MCStreamPool`, `MCRegistry` | instances for TLC; one `.cfg` per run |
| `CircuitProofs` | typing, order of the tasks, tries of the loops and meaning of an ack in `Circuit` |
| `CircuitFrameProofs` | on top of it, the frames along a path: each client is told of success once, and handshakes agree; and what holds of sessions when no stream breaks |
| `ChannelProofs`, `StreamPumpProofs`, `TransportProofs`, `StreamPoolProofs`, `RegistryProofs` | inductive invariants and theorems of those modules |
| `QueueLemmas` | what appending to a queue and taking its head do to its elements |

How they fit together. `StreamPool` is how a stream comes about, `StreamPump` what
carries its frames; `Circuit` uses streams that open or not, reorder frames and
end. `Circuit` ends when both clients are secured, `Notify` is how their users
learn of it and `Transport` what they do next. `Circuit` takes registrations as
constants; `Registry` is how they come about and go. `Registry` knows of a circuit
only for whom the loop of the proxy waits, and that the answer may never come.

### How `Circuit` corresponds to the code

A session has at most one stream for each *purpose* (a call site of
`new_session_to_peer`), so a stream is named `<<session, purpose>>`:

    dial    caller -> entry        direct  entry -> remote client (shared proxy)
    sink    entry  -> sink         answer  access -> remote client
    relay   access -> relay        expend  relay -> sink

The *grain* of the actions: one action is what a task does between two points at
which another task can interfere, that is, an `await` or the release of a lock.
Thus `new_session_to_peer` is eight actions (`OpenStream` ... `InsertLater`), with
the event bus entry after the write of SetSession, and the look-up, the clone and
the insertion of the session apart, as in the code. `handle_set_session` is
`TakeSet` (read) followed by one of `ApplyNew`, `ApplyLater`, `ApplyReplace`. The
last is the one place where a step is larger than the grain: `handle_set_session`
inserts the session with the new stream (305), writes a Disconnect to the old one
after a random delay (308), closes it (309) and acks (314). Nobody can tell these
apart. The old stream is in no session of the entry node once the insert is done, so
its handler there does nothing whatever it reads; the new stream cannot be used
before the ack, which comes last; the sink notices the end of the old stream at any
later moment (`TakeErr`, `TakeDisconnect`), which is when a later Disconnect or
Close would have been noticed; and if the new stream breaks or the session is closed
in between, what is written afterwards goes to a stream that nothing depends on.
`handle_relay_probe` is `TakeProbe`, `CheckProbe` and `StoreProbe` or `MatchProbe`.

| Variable | Code |
|---|---|
| `call`, `clone` | a call of `new_session_to_peer` and its `new_session` |
| `handler`, `snap` | a `relay_event_handler` task and the session it has cloned |
| `inbox`, `down` | frames between two handlers; streams closed or broken |
| `session`, `circuit`, `probe` | `session_map`, `circuit_map` (open, or secure once `transport_state` is set), `probe_map` |
| `poisoned` | nodes whose `session_map` lock was poisoned by a panic |
| `chan`, `hs` | `in_channel` of a circuit; `process_handshake` |
| `bus`, `acks`, `got` | `event_bus`, acks on the way, acks received by a waiter |
| `asked`, `pc`, `sink`, `relay` | pending requests; `dial` and the three loops; the peer choices of the loops |

Abstractions, and why they are sound for the properties:

* *Frames are a set per stream end.* `start_poll` hands each frame over in a
  spawned task and `send_relay_twoway` writes in spawned tasks after a random
  jitter, so a stream promises no order. A delayed write is a frame that stays in
  the inbox; a write that comes too late is a frame lost when the reader ends
  (`TakeErr` empties the inbox). Wake and Ack frames change nothing and are left
  out. A padded frame (`confusion_relay`) is the frame.
* *SetSession is the first frame of a stream*: no other frame is written to a
  stream before its ack.
* *Writing to a closed stream does nothing*: the channel's receiver lives in the
  `WrappedStream` itself, so the send never fails.
* *`handle_close_session` is one step.* It removes from three maps and queues two
  closes, with no `await` that suspends; no other task can tell the order apart.
* *A closed or broken stream is noticed at both ends*, if there is a handler.
  After Disconnect and Close the reader sees either first. `StreamPump` shows when
  this fails: a write that waits when the network breaks the stream panics in the
  pump (`LossNoticed` names the case).
* *Encryption always succeeds*: NegPlainText and DecryptGossip are answered by
  the client's proxy loop, and the gossip reaches the proxy of the remote client.
* *Both probes of a session are equal* (they are the hash of its id), so the
  branch for unequal probes is never taken.
* *Constants stand for registration and discovery*: `Proxy`, `Registered`
  (`Registry` models them), `Kad`, `Boot`. `NoPeer` is the `PeerId::random()` a loop starts from.
* *A server does not choose the caller as sink.* `Choices` leaves out the caller, as
  `id != remote_peer_id` does. The other test of lines 255 and 256, by which the
  callee should be left out, compares a value of `client_peer_map` that is hashed once
  more; candidates come from Kademlia, which lists no client, since clients do not
  listen (`client.rs:77`), so it never decides (`Kad` has servers only).
* *A user hangs up a session whose id it has.* `dial` returns the id at once to the
  caller; both clients get it from `process_new_session` when the circuit is secure,
  the caller possibly before `dial` has returned (`HangUp`).
* *A panic* ends the task; one under the write guard of `session_map` also poisons
  the lock, after which every task of that node that takes it stops (`Alive`).

### How `Notify` corresponds to the code

`Poll` is one turn of `process_new_session` that changes something. `for_each`
overwrites its result, so the *last* circuit in the iteration order of the map
that is not in `exist_session` is looked at (`LastNew`), and reported only if it
has a `transport_state`: an open circuit hides the others. The order is the
constant `HashOrder`; a hash map keeps it as long as it does not grow.

### How `StreamPump` and `Channel` correspond to the code

A frame is a name. Per end: `out` and `inq` are the two channels of
`WrappedStream`, `wire` the frames on the substream towards the end, `pump` the
task `start_poll`, `reader` the `relay_event_handler`. Each action is one branch of
the `select!` or one of its early exits. What needs care:

* `read_one` reads a length and then a body, and `select!` drops the future of the
  branch that was not taken. `ReadLen` marks a half-read frame (`part`); a write in
  that state (`PumpWrite`) loses it, and the substream stands in the middle of a
  frame (`skew`). What is read then (`ReadSkewed`) is arbitrary: an error, or bytes
  that are no frame and may swallow later frames; `read_from_negotiated_arc` panics
  on them or finds a frame of no use.
* Frames go to the handler through spawned tasks (`spawned`), errors directly.
* A write error panics in the pump, and the handler is not told. A write fails when
  the network is broken and also, on a sound network, when the peer has dropped its
  side: mplex (`host.rs:62`) then resets the substream (`Torn`).
* The clones of a `WrappedStream` keep its channels alive, so `write` and `close`
  never fail. The substream is dropped with the last clone (`DropStream`): after pump
  and handler, at any later moment or never, since sessions and circuits keep clones.
  `shut` tells a stream that is open, closed and dropped at each end.

`Channel` states the promise without pumps: frames are unsent, in flight or read;
they may be lost, or an end may be told that the stream is over, only once there
is a `cause` (closed, broken, a frame too long, a read that was cut by a write at
the same end). Refinement mapping (`Promise` in `StreamPump`): a frame is in flight
while it is in any of the queues or tasks on its way, and an end is over when its
handler has stopped. `KeepsPromise` is the whole of `Channel!FairSpec`, the fairness
included: without a cause, what was written is read.

### How `Transport` corresponds to the code

The state of `Channel` is the path between two clients, of whom "a" is the caller.
That a *path* of streams behaves as one `Channel` is an assumption: servers
forward each frame once (`forward_relay`) and drop frames only if the session is
not ready, which `SuccessMeansLinked` of `Circuit` excludes. `seal`
and `nonce`/`expect` are the Noise nonces, which snow counts; a message that comes
out of turn does not decrypt and the `unwrap` poisons the lock of the
`transport_state` (`DecryptPanics`). Encrypting and queueing are two steps
(`Encrypt`, `QueueFrame`) with the jitter in between. The caller may send as soon
as its last handshake message is queued, so payload can overtake that message
(`FinishAnswer` panics on it). `read` may be called by several tasks (`Readers`).
`closed` are the ends whose session is closed, so that nothing is received there any
more; `gone` those without an entry in `circuit_map`, where `send_message` panics. The
two differ: process_handshake inserts its copy when it ends, also after a close, and
what is then sent goes nowhere.

### How `StreamPool` corresponds to the code

A stream is named by the call that asked for it, while the code lets any call to
the same peer take it. `stage` is where request and stream are on their way
(`NodeRequest`, `Relay`, `RelayHandler`, pool); `call`, `len`, `index`, `ticks` and
`hand` are the locals of `wait_for_out_peer_relay_stream`, one action per lock.
`due` is a history variable for `ScanFinds`. Requests to a peer without a
connection vanish in libp2p, and upgrade errors are only logged.

### How `Registry` corresponds to the code

`queue` is the channel of `process_proxy_request`, `step` its position within the
request at the head: each map is changed under a lock of its own, so NewProxy and
Disconnect are two steps each. `peerMap` and `wnMap` are the two maps; peer id,
WhiteNoise id and its hash come from one key pair, so a client is its own key and
value. `link` and `stale` are the connections: a server notices the end of one late
(`DropStale`), a restarted client has a new one next to it, and libp2p reports a
peer as disconnected only with its last connection. An ack or a request to a client
with a dead connection may be lost on it (`Ack`, `Awaiting`). `register_proxy` looks
at no `proxy_id`, so a client may register again on the same server, and is refused.
`bus` is the one
event-bus entry all NewProxy calls of a client share, since the request's bytes do
not depend on the server; it may be live, given up, or gone. Of a dial, the model
keeps what the loop does: it fails in bounded time (`CircuitFails`); or a stream opens
to the callee or to a sink (`Join`) and `new_session_to_peer` waits for the ack of its
SetSession without a timeout, which comes (`CalleeJoined`, `SinkJoined`) or never does
(`JoinHangs`: the early ack that `ackrace` shows to be dropped, or a silent peer); then
the caller is asked for the negotiation, without a timeout again. The publish loop is
modelled up to the client's answer, with `contains_key` and `get` apart. Other
servers than those in `Servers` exist: a sink can be found and gossip has peers.

## 3. Runs

Deadlock is not an error in any of them: when everything is built, or has failed,
all tasks wait.

**Circuits.** One or two sessions, two clients, up to five servers. One session is
enough for all races inside a circuit, since sessions share only the request
loops and the SDK task; the run `two` covers those. Four servers (and a bootstrap)
give every shape of a circuit: four different servers; the access node as the
sink; the entry node as the relay; one shared proxy. `Flaky`, `Fragile` and
`MayHangUp` choose the faults. The three tries of a peer (`MaxTries`) are the
code's.

| Run | Instance | Shows |
|---|---|---|
| `build` | all shapes with separate proxies, a bootstrap, no faults, fair | `SuccessMeansLinked`, `OneHandshake`, `AckMeansRecorded`, `HandshakeAgreement`, `NoGhostSession`, `SessionStillThere`, `NoSpuriousClose`, `DialSecures` |
| `retry` | any stream may fail to open | `TypeOK`, `DistinctTries`, `SuccessMeansLinked`, `GiveUpSpreads` |
| `shared` | one proxy; failures, breaks and hang-ups | `HandshakeAgreement` |
| `two` (`Notify`) | two dials at once through one proxy, the stream to the callee may fail, fair | `DialSecures`, `EachReportedOnce` |
| `teardown` | a circuit of four servers, the relay's stream may break and the answering user may hang up, fair | `AckMeansRecorded`, `HandshakeAgreement`, `TeardownSpreads` |

`NoGhostSession` and `SessionStillThere` hold in `build`, where streams end only
because they are replaced, and are false when streams break: TLC shows both within
seconds if `Fragile` is `{"dial"}` and `Proxy` is `MCProxyShared`. A stream that breaks between the start of its handler and the insertion of its session leaves a
session that nobody removes (`node.rs:308-317`). One that ends a session between
`contains_key` and the clone makes `unwrap` panic, with the write guard of
`session_map` held (`node.rs:310-324`, likewise `relay_event_handler.rs:330`).

`dial` returns a session id whatever the entry node answers (`node.rs:252`);
`GiveUpSpreads` says what becomes of it when no sink is found: the close of the one
stream reaches the caller, and circuit and session go. It holds without breaks only,
since a session that nobody removes may stay at the caller. When the *access* node
gives up (no relay, or a refused expansion) it closes its own session, and the entry
node, a sink of its own and the caller keep theirs; nothing in the repository says
that they should not, so this is a hazard without a property.

**The other components.**

| Run | Instance | Shows |
|---|---|---|
| `pump` | two frames one way and one, too long to be read, the other way; closes, dropped streams and a break at any time; fair | `TypeOK`, `ErrIffStopped`, `KeepsPromise`, `LossNoticed` |
| `transport` | the last handshake message, two messages each way, one too long for `write_message`, two readers, losses, closes; fair | `TransportTypeOK`, `PayloadAfterHandshake`, `FramesAccounted`, `MessagesArrive` |
| `pool` | two calls to one peer and one to another; symmetry between the two | `TypeOK`, `Conserved`, `OneOwner`, `ScanFinds` |
| `registry` | a client that may crash, restart and register twice on one server, one that gives up calls, registers with two servers and dials the other | `TypeOK`, `MapsAgree`, `ListedWhileConnected`, `ProxyKnowsClient`, `RefusedOnlyIfAskedBefore` |
| `return` | the same clients at one server, both may register twice and one may lose connections; fair | `ProxyKnowsClient`, `Forgotten`, `RegisterReturns` |

Bounds, and why they are enough:

* `pump`: two frames that can overtake each other, and one the other way that cannot
  be read and whose writing can cut a read, are all the cases of one stream;
  `MaxJunk` = 1 bounds the reads of no frame that wait for the handler, which treats
  them one by one.
* `transport`: two messages suffice to reorder, and one each way to share a
  `transport_state`; `Readers` = 2 to swap two reads.
* `pool`: `MaxTicks` = 2 instead of 100 waits of 50 ms: a call scans at least twice,
  and can time out at any point of the others' scans; `MaxDrops` = 1 connection
  lost or upgrade failed, at any moment. Three calls let one hold a stream while a
  second passes it and a third is served.
* `registry`, `return`: `MaxStarts` = 2, a restart; `MaxCalls` = 2 for a client and
  server where a repeated call matters, so that a client is refused, or its first ack
  comes in its second call; `MaxDials` = 2 or 1, a dial before and after; one dead
  connection per client and server at a time (`Lose`, `Crash`).

**Violations.** Two runs state what a document or a test of the repository says,
and TLC finds a behaviour of the code that differs:

| Run | Statement | What happens |
|---|---|---|
| `ackrace` | `tests/network_test.rs`: after a dial the circuits have a transport state | the ack of SetSession arrives before `event_bus` has its key (`node.rs:304`), is dropped, and the server that waits never goes on: `dial` has returned and the circuit is never secured |
| `hangup` | README: `disconnect_circuit` closes all streams and clients | the handshake re-inserts the closed circuit (`relay_event_handler.rs:201`) |

Symmetry is not used for circuits: the peer tables already name one server for
each role, which stands for all that could take it, and most runs with all shapes
check liveness.

Fairness. In `Circuit` it asks only that the system as a whole does not stop while
some task can run (`WF_vars(System)`), which the async executor guarantees; breaks
and hang-ups are never forced. It is weaker than fairness for each task and
suffices because a session takes finitely many steps. `DialSecures` is conditional
on `AckEarly` and `ProbeRace` never happening: these are the windows in which an
ack is dropped (`ackrace`) and in which the handlers of the sink's two streams
both find `probe_map` empty (`relay_event_handler.rs:90`) or an old session, so
that no Success is sent; and on no stream failing to open. It says that there are
no other ways to hang. `NotifySpec` adds the SDK's polling task of each client.
`StreamPump`: the pump, the hand-over tasks and the handlers run; nobody has to
write, close or drop a stream, and a pump that stands in the middle of a frame may wait for bytes
that never come. `Transport`: tasks run, frames arrive and users read; nobody has to
send. `Registry`: the loop of a proxy runs, requests and acks arrive, and a dead
connection is noticed in the end (TCP); nobody has to register or crash. A loop
that waits for an ack of SetSession goes on or hangs (`JoinHangs` is one of its steps):
no fairness makes the ack come. Only an ack on a live connection that has no dead one
beside it is sure to come, since its key is inserted before the request is sent
(`node.rs:55-58`).
`StreamPool` has safety properties only, since a call ends by its timeout.

What the properties leave out says where the code is fragile. Each of these is a
behaviour of the modules, reached in a few steps without a crash, which the property
names as its excuse:

* `LossNoticed`: a pump that panicked in a write (`relay_behaviour.rs:80`) because the
  network broke or because the peer had dropped its side of a sound connection, and a
  read that was cut; the handler is not told.
* `MessagesArrive`: every reordering, since one message out of turn poisons the circuit
  (`connection.rs:26`). Two calls of `send_message`, two hand-over tasks or two calls of
  `read` are enough, on a path without any fault. Likewise a payload of the caller that
  overtakes Hs3 (`relay_event_handler.rs:259`); `PayloadAfterHandshake` says that this is
  the only way in which that `unwrap` fails.
* `DialSecures`: two races, the one of `ackrace` and that of the two probes. TLC shows
  the second as well, as a violation of `[]~AckEarly => DialedThenSecured`.
* `Forgotten`, `RegisterReturns`: a loop that waits for ever, for a client that left
  before it answered or for an ack of SetSession that was dropped, and a swarm that
  stopped, which a Disconnect between the two look-ups of the publish loop brings about.
* `EachReportedOnce`: a circuit whose handshake never ends, which hides the others.

Each property of a passing run is shown to depend on the code by a mutant in
`PROJECT.json` (a definition replaced by a plausible mistake, marked `mutant` in
the module), under which TLC finds it violated.

## 4. Proofs

Every theorem holds for all values of the constants that satisfy the named
assumptions of the modules, which TLC evaluates on each run: any number of
clients, servers, sessions, calls, frames and messages, any peer table, any choice
of faults, but for four theorems of `CircuitFrameProofs` that name the faults they
exclude. All typing invariants are proved. The proofs go action by action, grouped
as in `Next`.

**`CircuitProofs`** (`CircuitAssumption`: clients and servers are disjoint, nobody
dials itself, peer tables list servers).

* `TypeCorrect`: `Spec => []TypeOK`. Typing is not inductive alone: an action
  looks up the node at the end of a stream, and the sink or relay may be `NoPeer`.
  The invariant `IInv` adds that a handler runs only on a stream that was opened,
  that an open stream leads to a node (`OpenedAt`), and in which order the tasks of
  a session start one another (`Order`), from which follows that a peer choice
  does not change under an open stream and that a try is counted once.
* `DistinctTriesHolds` (also `KadAssumption`: a server has finitely many connections): `Spec => []DistinctTries`. `TriesInv` adds that what was tried
  so far are candidates, and that nothing is invalid before the first try; the
  lemmas `FirstTry` and `NextTry` count, with the cardinality theorems, that a try
  adds one peer to the tried ones unless all candidates are among them.
* `AckMeansRecordedHolds`: `Spec => []AckMeansRecorded`, under all faults. Both ends of
  a stream copy a session under one lock and write it under another, so a late write
  could drop a stream that was acked meanwhile. It cannot, and `AckInv` says why:
  the streams of a session are set up one after the other (`Chain`) between
  different nodes (`Peers`); a call goes on only after its ack and an ack comes after
  the stream is in the session (`Acks`); hence while a copy is held no other stream
  is added at that node, and every session and copy has all acked and open streams
  of its node and only streams of its node (`Copies`); there is room for the stream
  that is being set up (`Room`), but at an entry node that is asked to be the relay,
  which replaces its stream to the sink and closes it, and does so because its
  session still says that it is the entry (`EntryRole`). The proof also showed
  that the property may be stated without an exception for sessions that are gone:
  closing a session closes every acked stream of it.

**`CircuitFrameProofs`**, with `FrameInv` on top of `AckInv`, under all faults. A frame has no
address: `forward_relay` looks in the session for the other stream. So the invariant
first says where frames can be, and then how many there are.

* `Spliced`: the two streams of a session, and of a copy that will be written back, lie
  next to each other on the path and lead to different ends of it. Hence forwarding
  keeps the direction of a frame (lemma `PassOn`), also when the stream was replaced
  between the look-up and the write.
* `ProbeInv`: a probe goes towards the sink only, and is in one place: outstanding in an
  inbox, in the hands of a handler, or stored. The sets `Outstanding`, `Handled` and
  `Stored` are counted together, two at most (`Busy`), and a match uses up both.
* `SuccessInv`: of the four places that write `Success` only one is reached in a session, and
  each direction has one report at most, counted over inboxes, handlers and the
  handshake it has started (`Concluded`).
* `HsInv`: a handshake message under way, or a step a client has taken, implies the state
  its writer is in.
* `OneHandshakeHolds`: `Spec => []OneHandshake`, from `SuccessInv`.
* `HandshakeAgreementHolds`: `Spec => []HandshakeAgreement`, from `HsInv`.

The second half of the module is about runs in which streams stay, once they are open:
`Calm` is `Fragile = {} /\ MayHangUp = {}`. Streams may still fail to open (`Flaky` is
arbitrary), so loops retry, give up and close what they had built; the hypothesis is
not a convenience, since under breaks and hang-ups the three properties are false
(section 3). `CalmInv`, on top of `FrameInv`, has these parts:

* who asked whom (`Asked`): the entry node works for a session only after its dial has
  stored it, and `SessionExpend` is asked for once and answered after its call;
* what a node keeps (`Keeps`): an open stream that it has set up is in its session,
  and in each copy that will be written back over it;
* why streams go down (`Losses`): a loop has given up (`Ended`), or the entry node has
  become the relay and let its stream to the sink go (`Replaced`); only then is a
  handler closing or a Disconnect under way;
* what follows for the tasks: a session that a task found is there when the task comes
  back (`There`), a handler that has returned has left no stream in a session
  (`Live`), a client with an open stream has its circuit (`Circuits`), and a probe
  that was found is not removed before it is matched (`Matched`), so that no `unwrap`
  panics and no lock is poisoned;
* a `Success` under way, or one that a client has acted on, means that all streams of
  one of the four shapes of a circuit are set up (`Told => Stands`).

Steps are sorted by what they can disturb: those of other sessions and of the bus
(`Placid`), those that set a stream up (`Call`, `Sets`, the replacement apart), those that
start one, and those that close (`LetGo`). The hard case is the replacement: the
Disconnect to the sink, the read error at the entry node and the removal of the
session at the sink come in any order, and none may reach the new path.

* `SessionStillThereHolds`, `NoGhostSessionHolds`: `Calm => (Spec => []...)`, from `There`
  and `Live`.
* `SuccessMeansLinkedHolds`: `Calm => (Spec => []SuccessMeansLinked)`. Lemma
  `StandsLinked` builds the path for each of the four shapes: two streams of a session
  are all it can hold (`TwoLegs`), so holding both makes them a pair.
* `NoSpuriousCloseHolds`: `Faultless => (Spec => NoSpuriousClose)`, an action property.
  `Faultless` adds to `Calm` that streams open in time (`Flaky = {}`) and that there
  is a server to choose for the sink and for the relay: without one a loop gives up
  and closes the session, which is a fault as well. Then no call fails (`AllOpen`), no
  loop gives up (`NeverEnded`), and the only stream that goes down is the replaced one
  (`Swapped`). `build` is an instance of `Faultless`.

**`ChannelProofs`**, for any set of frames: `OnePlaceHolds`, that the promise of
`Channel` implies that a frame is read at most once and not by its writer
(`OnePlace`). The invariant adds that frames are only where their addressee is
(`Addressed`).

**`StreamPumpProofs`**, with `PumpInv`: a handler that has stopped leaves nothing to
read (`Silent`), everything that can end a reader or lose a frame has a cause
(`Caused`), frames are only on the way to their addressee (`Addressed`), in one place
(`Apart`), and an error is in the queue once (`Errors`).

* `PumpTypeCorrect`, `ErrIffStoppedHolds`: `TypeOK` and `ErrIffStopped`.
* `PumpImplementsChannel`: `Spec => Promise!Spec`, the safety half of `KeepsPromise`.
  The initial state maps to that of `Channel`, and each action to a step or a stutter:
  moving a frame from one queue to the next is a stutter; cutting a read is `Channel`
  giving a cause and losing the frame; a pump or handler that stops loses what it had.
* `FrameInOnePlace`: `OnePlaceHolds` carried through the refinement.

**`TransportProofs`**, with `TransportInv` on top of the invariant of `Channel`: nonces
are used once (`Nonces`); nothing is encrypted before the end of the handshake
(`Ordered`); frames in the channel and in reads have arrived (`Arrived`), and all that
arrived are somewhere (`Accounted`); the last message of the handshake is never read by
a user (`HandshakeOver`).

* `PayloadAfterHandshakeHolds`: what is sealed was sealed after Hs3 was written or read,
  so the answering client can panic in its handshake only on an overtaking payload.
* `FramesAccountedHolds`, `TransportTypeCorrect`: the other invariants of the run
  `transport`.
* `NonceUsedOnce`: two messages of an end never share a nonce. That messages are read in
  the order of their nonces is what snow does, whatever this code does, and is not
  stated.

**`StreamPoolProofs`** (`StreamPoolAssumption`: finitely many calls), with `PoolInv`.

* `OneOwnerHolds`, `PoolTypeCorrect`: each stream is in the queue once, in one hand or
  taken (`Placed`), and the hand fits the point a call has reached (`Holds`).
* `ScanFindsHolds`: `InReach` says that a stream which a scan must still find is among
  the first `Left` of the queue, the number of streams the scan still looks at. A scan
  of another call rotates the queue, and moves the stream forward or into its hand.
* `ConservedHolds`: a counting argument, by a bijection between the streams that calls
  have returned and those calls.

**`RegistryProofs`**.

* `MapsAgreeHolds`: `Spec => []MapsAgree`. `MapInv` adds that the request which the
  loop is in the middle of is at the head of its queue, and that the first of its
  two map operations is done (`HalfDone`); new requests go to the end (`AppendOK`).
* `ListedWhileConnectedHolds`: `Spec => []ListedWhileConnected`. `LeftInv` adds that
  the servers whose swarm runs are servers. Whether a client will be listed is a
  function `WillIn` of the queue and the map, and three lemmas say how it changes:
  not at all when the loop deals with the head (`TailWill`, the agreement of the
  maps is needed here: `RemovePeer` skips the second map for a client that is not in
  the first), not by a request that is not about the client (`AppendOther`), and
  to FALSE by its Disconnect (`AppendDisconnect`).
* `RegistryTypeCorrect`, `ProxyKnowsClientHolds`, `RefusedOnlyIfAskedBeforeHolds`, with
  `ClientInv`: who waits for a server, or has it as its proxy, has asked it, is
  connected to it or has lost a connection to it (`Reached`); who has kept its
  connection since it last asked will be listed (`Known`); and of a client that has
  asked a server once, the one NewProxy is in one place (`AskedOnce`), so that no
  refusal is under way and none can come (`Welcome`).

Only model-checked:

* liveness, out of the reach of the prover: the fairness half of `KeepsPromise`,
  `LossNoticed`, `MessagesArrive`, `DialSecures`, `TeardownSpreads`, `EachReportedOnce`,
  `Forgotten`, `RegisterReturns`;
* `GiveUpSpreads`, a safety property of `Circuit` that has no proof yet. Every other
  property of a passing run is proved.

## 5. Plan

Done: all modules, and the theorems above. Left:

1. Proofs: `GiveUpSpreads` for any network without breaks (from `CalmInv`), and the safety half of `EachReportedOnce` (at most one report for a dial) as an
   invariant of `Notify` of its own.
2. An abstract circuit (idle, dialling, secured, gone, per client) implemented by
   `Circuit`.
3. Paths: that streams spliced by `forward_relay` implement one `Channel`.

## 6. Not modelled

Cryptography and key storage (`account/`), protobuf encodings and codecs, building
the libp2p transports, Kademlia, identify and gossipsub themselves (external:
their results are constants or single steps), the address book that `get_main_nets`
fills, UnRegister (nobody in the repository sends it), logging, and the chat client.
A read that waits on a circuit which is then closed, and `publish().unwrap()`
without gossip peers, are listed as hazards only. `PROJECT.json` lists every
component with the reason.
