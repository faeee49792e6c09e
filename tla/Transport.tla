----------------------------- MODULE Transport ------------------------------
(* The two clients of a circuit and the path between them: the end of the     *)
(* handshake, send_message, and CircuitConn's read and write.  Client "a" is  *)
(* the caller, which sends the last message of the handshake.  A frame of the *)
(* path is Hs3 or a message; the path is a Channel, so frames can overtake    *)
(* one another, while Noise accepts messages only in the order of their       *)
(* nonces.                                                                    *)
EXTENDS Channel, Sequences, Naturals, FiniteSets

CONSTANTS
    Hs3,      \* the last message of the handshake, which is no user's message
    Huge,     \* messages that do not fit write_message's buffer
    Readers   \* calls of read that may be active at an end at once

ASSUME TransportAssumption ==
    /\ Hs3 \in Frames \ Big
    /\ By[Hs3] = "a"
    /\ Huge \subseteq Frames \ {Hs3}
    /\ Readers \in Nat \ {0}

Messages == Frames \ {Hs3}

VARIABLES
    shake,     \* process_handshake: awaiting, done (transport_state set), panicked
    closed,    \* ends that have removed the session from session_map
    gone,      \* ends that have removed the circuit from circuit_map
    sealed,    \* messages that were encrypted
    seal,      \* the nonce a message was encrypted with
    nonce,     \* sending nonce of a transport_state
    chanq,     \* in_channel of the circuit
    held,      \* messages that a read call has taken and not yet decrypted
    expect,    \* receiving nonce of a transport_state
    read,      \* messages returned to the user
    panicked,  \* messages whose send_message panicked
    poisoned   \* ends whose transport_state lock is poisoned

pathVars == <<unsent, flight, got, over, cause>>
sendVars == <<sealed, seal, nonce, panicked>>
readVars == <<held, expect, read>>
mapVars == <<closed, gone>>
allVars == <<pathVars, shake, mapVars, sendVars, chanq, readVars, poisoned>>

TransportTypeOK ==
    /\ TypeOK
    /\ shake \in [Ends -> {"await", "done", "panicked"}]
    /\ closed \in SUBSET Ends
    /\ gone \in SUBSET Ends
    /\ sealed \in SUBSET Messages
    /\ seal \in [Messages -> Nat]
    /\ nonce \in [Ends -> Nat]
    /\ chanq \in [Ends -> Seq(Frames)]
    /\ held \in [Ends -> SUBSET Messages]
    /\ expect \in [Ends -> Nat]
    /\ read \in [Ends -> Seq(Messages)]
    /\ panicked \in SUBSET Messages
    /\ poisoned \in SUBSET Ends

TransportInit ==
    /\ Init
    /\ shake = [e \in Ends |-> "await"] /\ closed = {} /\ gone = {}
    /\ sealed = {} /\ seal = [m \in Messages |-> 0]
    /\ nonce = [e \in Ends |-> 0]
    /\ chanq = [e \in Ends |-> <<>>]
    /\ held = [e \in Ends |-> {}]
    /\ expect = [e \in Ends |-> 0]
    /\ read = [e \in Ends |-> <<>>]
    /\ panicked = {} /\ poisoned = {}

-----------------------------------------------------------------------------
(* The end of process_handshake.                                              *)

Secure(e) == shake[e] = "done"

\* The caller queues Hs3 and only then switches to transport mode: it inserts its
\* copy of the circuit, also if the circuit was closed and removed meanwhile.
FinishCaller ==
    /\ shake["a"] = "await"
    /\ Send("a", Hs3) \/ SendInVain("a", Hs3)
    /\ shake' = [shake EXCEPT !["a"] = "done"]
    /\ gone' = gone \ {"a"}
    /\ UNCHANGED <<closed, sendVars, chanq, readVars, poisoned>>

\* The remote client takes what comes first for Hs3; on anything else it panics
\* in handle_read_shake, and the circuit never gets its transport_state.
FinishAnswer ==
    /\ shake["b"] = "await"
    /\ chanq["b"] # <<>>
    /\ chanq' = [chanq EXCEPT !["b"] = Tail(@)]
    /\ \/ /\ Head(chanq["b"]) = Hs3
          /\ shake' = [shake EXCEPT !["b"] = "done"]
          /\ gone' = gone \ {"b"}
       \/ /\ Head(chanq["b"]) # Hs3
          /\ shake' = [shake EXCEPT !["b"] = "panicked"]
          /\ UNCHANGED gone
    /\ UNCHANGED <<pathVars, closed, sendVars, readVars, poisoned>>

-----------------------------------------------------------------------------
(* send_message and CircuitConn::write.                                       *)

ToSend(e, m) == By[m] = e /\ m \in Messages \ (sealed \cup panicked)

MayEarly(e, m) == ToSend(e, m)  \* mutant: transport_state is not looked at

\* Without a transport_state both return at once.
May(e, m) == ToSend(e, m) /\ Secure(e)

\* The nonce is taken under the lock of the transport_state.  CircuitConn::write
\* works on a clone of the circuit, also after it was removed from circuit_map.
Encrypt(e, m) ==
    /\ May(e, m)
    /\ e \notin poisoned /\ m \notin Huge
    /\ sealed' = sealed \cup {m}
    /\ seal' = [seal EXCEPT ![m] = nonce[e]]
    /\ nonce' = [nonce EXCEPT ![e] = @ + 1]
    /\ UNCHANGED <<pathVars, shake, mapVars, panicked, chanq, readVars, poisoned>>

\* unwrap() of a circuit that send_message does not find in the map, of a poisoned
\* lock, or of the error of write_message, which poisons it.
EncryptPanics(e, m) ==
    /\ May(e, m)
    /\ \/ e \in gone /\ UNCHANGED poisoned
       \/ (e \in poisoned \/ m \in Huge) /\ poisoned' = poisoned \cup {e}
    /\ panicked' = panicked \cup {m}
    /\ UNCHANGED <<pathVars, shake, mapVars, sealed, seal, nonce, chanq, readVars>>

\* The lock is released by now: after a jitter of its own each call queues its
\* frame, so concurrent calls may queue theirs in another order.
QueueFrame(e, m) ==
    /\ m \in sealed
    /\ Send(e, m) \/ SendInVain(e, m)
    /\ UNCHANGED <<shake, mapVars, sendVars, chanq, readVars, poisoned>>

-----------------------------------------------------------------------------
(* handle_relay_msg of the client, and CircuitConn::read.                     *)

HasTransport(e) == e \notin closed /\ Secure(e)  \* mutant: frames of the handshake are dropped

\* It looks the session up first: a circuit that was inserted again is of no use.
HasCircuit(e) == e \notin closed

Receive(e, m) ==
    /\ Take(e, m)
    /\ chanq' = IF HasCircuit(e) THEN [chanq EXCEPT ![e] = Append(@, m)] ELSE chanq
    /\ UNCHANGED <<shake, mapVars, sendVars, readVars, poisoned>>

ReadsEarly(e) == chanq[e] # <<>>  \* mutant: read does not look at transport_state

CanRead(e) == Secure(e) /\ chanq[e] # <<>>

ReadNext(e) ==
    /\ CanRead(e)
    /\ Cardinality(held[e]) < Readers
    /\ held' = [held EXCEPT ![e] = @ \cup {Head(chanq[e])}]
    /\ chanq' = [chanq EXCEPT ![e] = Tail(@)]
    /\ UNCHANGED <<pathVars, shake, mapVars, sendVars, expect, read, poisoned>>

InTurn(e, m) == m \in sealed /\ seal[m] = expect[e]

ForgetNonce(e) == UNCHANGED expect  \* mutant: the receiving nonce stays

NextNonce(e) == expect' = [expect EXCEPT ![e] = @ + 1]

Decrypt(e, m) ==
    /\ m \in held[e] /\ e \notin poisoned
    /\ InTurn(e, m)
    /\ held' = [held EXCEPT ![e] = @ \ {m}]
    /\ NextNonce(e)
    /\ read' = [read EXCEPT ![e] = Append(@, m)]
    /\ UNCHANGED <<pathVars, shake, mapVars, sendVars, chanq, poisoned>>

\* read_message(..).unwrap() with the lock held, or lock().unwrap() after that.
DecryptPanics(e, m) ==
    /\ m \in held[e]
    /\ e \in poisoned \/ ~InTurn(e, m)
    /\ held' = [held EXCEPT ![e] = @ \ {m}]
    /\ poisoned' = poisoned \cup {e}
    /\ UNCHANGED <<pathVars, shake, mapVars, sendVars, chanq, expect, read>>

-----------------------------------------------------------------------------
\* handle_close_session at a client, called by its user, who knows the id of the
\* session from dial or from process_new_session.  The session is removed once, the
\* circuit as often as it is there.
Disconnect(e) ==
    /\ e = "a" \/ Secure(e)
    /\ e \notin gone
    /\ \/ e \notin closed /\ Happen("closed")
       \/ e \in closed /\ UNCHANGED pathVars
    /\ closed' = closed \cup {e} /\ gone' = gone \cup {e}
    /\ UNCHANGED <<shake, sendVars, chanq, readVars, poisoned>>

\* The same at a read error.
PathEnds(e) ==
    /\ e \notin over
    /\ \E F \in SUBSET flight[e] : End(e, F)
    /\ closed' = closed \cup {e} /\ gone' = gone \cup {e}
    /\ UNCHANGED <<shake, sendVars, chanq, readVars, poisoned>>

PathFaults ==
    /\ \/ Happen("broken") \/ \E e \in Ends : \E f \in flight[e] : Lose({f}) \/ Cut(e, {f})
    /\ UNCHANGED <<shake, mapVars, sendVars, chanq, readVars, poisoned>>

Client(e) ==
    \/ \E m \in Messages : QueueFrame(e, m) \/ Decrypt(e, m) \/ DecryptPanics(e, m)
    \/ \E m \in Frames : Receive(e, m)
    \/ ReadNext(e)

User(e) == \E m \in Messages : Encrypt(e, m) \/ EncryptPanics(e, m)

TransportNext ==
    \/ FinishCaller \/ FinishAnswer
    \/ \E e \in Ends : Client(e) \/ User(e) \/ Disconnect(e) \/ PathEnds(e)
    \/ PathFaults

\* Frames arrive, tasks run and a user reads; nobody has to send.
TransportSpec ==
    /\ TransportInit /\ [][TransportNext]_allVars
    /\ WF_allVars(FinishCaller) /\ WF_allVars(FinishAnswer)
    /\ \A e \in Ends :
         /\ WF_allVars(ReadNext(e))
         /\ \A m \in Frames : WF_allVars(Receive(e, m))
         /\ \A m \in Messages : /\ WF_allVars(QueueFrame(e, m))
                                /\ WF_allVars(Decrypt(e, m) \/ DecryptPanics(e, m))

-----------------------------------------------------------------------------
(* Properties.                                                                *)

ElementsOf(q) == {q[i] : i \in DOMAIN q}

\* A payload never leaves an end before the handshake message that lets the other
\* end decrypt it (send_message looks at transport_state, process_handshake sets it
\* after the write): the remote client takes a payload for the handshake, and
\* panics, only if it overtook Hs3 on the way.
PayloadAfterHandshake ==
    /\ \A m \in sealed : Hs3 \notin unsent /\ (By[m] = "b" => Hs3 \in got["b"])
    /\ shake["b"] = "panicked" => got["b"] \cap sealed # {}

\* No frame that has reached a client disappears: it waits in the channel of the
\* circuit, was read, or was Hs3, unless the handshake or a read has panicked or
\* the circuit is closed.
FramesAccounted == \A e \in Ends : \A m \in got[e] :
    \/ m \in ElementsOf(chanq[e]) \cup held[e] \cup ElementsOf(read[e])
    \/ m = Hs3 /\ shake[e] # "await"
    \/ shake[e] = "panicked" \/ e \in poisoned \/ e \in closed

\* m1 was written to the circuit before m2 was encrypted or with a lower nonce.
Before(m1, m2) ==
    /\ By[m1] = By[m2] /\ m2 \in sealed
    /\ m1 = Hs3 \/ (m1 \in sealed /\ seal[m1] < seal[m2])

\* A frame is handled before one that precedes it, or two reads are under way.
Overtaking == \E e \in Ends :
    \/ Cardinality(held[e]) > 1
    \/ \E m1 \in Frames, m2 \in got[e] \ {Hs3} : Before(m1, m2) /\ m1 \notin got[e]

\* As long as no frame overtakes another, nothing happens to the path and no
\* message is too long, every message that was encrypted is read: nonces, jitter
\* and the two directions of one transport_state do not get in each other's way.
MessagesArrive == []~Overtaking /\ [](cause = {} /\ panicked = {}) =>
    \A m \in Messages : m \in sealed ~> m \in ElementsOf(read[Peer(By[m])])
=============================================================================
