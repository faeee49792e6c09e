------------------------------- MODULE Notify -------------------------------
(* The SDK of a client next to Circuit: the task process_new_session looks   *)
(* into circuit_map every 50 ms and hands the id of a secured circuit to the  *)
(* channel that notify_next_session reads.                                    *)
EXTENDS Circuit, Sequences

CONSTANT HashOrder  \* the order in which circuit_map iterates

ASSUME HashOrderAssumption ==
    /\ HashOrder \in [Sessions -> Nat]
    /\ \A s, t \in Sessions : HashOrder[s] = HashOrder[t] => s = t

VARIABLES
    exist,    \* exist_session of a client
    reported  \* what it sent into new_connected_session

notifyVars == <<exist, reported>>

NotifyInit ==
    /\ Init
    /\ exist = [c \in Clients |-> {}]
    /\ reported = [c \in Clients |-> <<>>]

\* mutant: exist_session is a flag, and only the first circuit is new
FirstOnly(c, s) == exist[c] = {} /\ circuit[<<c, s>>] # "none"

\* for_each overwrites: the last circuit that is not in exist_session remains.
LastNew(c, s) ==
    LET new == {t \in Sessions : circuit[<<c, t>>] # "none"} \ exist[c] IN
    s \in new /\ \A t \in new : HashOrder[t] <= HashOrder[s]

\* One that is not secure yet is left for the next round, and so is every other.
Report(c, s) ==
    /\ circuit[<<c, s>>] = "secure"
    /\ reported' = [reported EXCEPT ![c] = Append(@, s)]
    /\ exist' = [exist EXCEPT ![c] = @ \cup {s}]

Poll(c) == (\E s \in Sessions : LastNew(c, s) /\ Report(c, s)) /\ UNCHANGED vars

NotifyNext == (Next /\ UNCHANGED notifyVars) \/ \E c \in Clients : Poll(c)

\* The task of each client runs, as the tasks of Circuit do.
NotifySpec ==
    /\ NotifyInit /\ [][NotifyNext]_<<vars, notifyVars>>
    /\ WF_vars(System /\ UNCHANGED notifyVars)
    /\ \A c \in Clients : WF_notifyVars(Poll(c))

-----------------------------------------------------------------------------
(* Properties.                                                                *)

Times(c, s) == Cardinality({i \in DOMAIN reported[c] : reported[c][i] = s})

\* In the end every session that was dialed is reported at both of its clients, and
\* once: dials in both directions at the same time do not hide each other's circuit
\* for good, though a circuit that is still open does while it is.  As in DialSecures
\* this leaves out the windows in which a circuit stays open for ever.
EachReportedOnce == []~AckEarly /\ []~ProbeRace /\ []~OpenFailed =>
    <>[](\A s \in Sessions : Times(From[s], s) = 1 /\ Times(To[s], s) = 1)
=============================================================================
