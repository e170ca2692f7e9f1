----------------------------- MODULE EventStream -----------------------------
(***************************************************************************)
(* What the event stream promises a client that follows a session: every   *)
(* event it is interested in, in the order of the log, none twice and none *)
(* left out, whatever happens to connections, queues and daemon processes. *)
(* EventDelivery is shown to implement this module.                        *)
(***************************************************************************)
EXTENDS Naturals, Sequences

CONSTANTS
    Kinds,      \* the kinds of events
    Clients     \* the clients that follow the stream

VARIABLES
    log,        \* the events, in the order of their cursors
    seen,       \* the cursors each client has shown, in order
    interest    \* the kinds each of them wants to see, which never change

LastSeen(c) == IF seen[c] = <<>> THEN 0 ELSE seen[c][Len(seen[c])]

\* The wanted events of the log that come after those already shown.
Missing(c) == {k \in LastSeen(c) + 1 .. Len(log) : log[k] \in interest[c]}

Init ==
    /\ log  = <<>>
    /\ seen = [c \in Clients |-> <<>>]
    /\ interest \in [Clients -> SUBSET Kinds]

\* The log grows at its end only.
Grow ==
    /\ log' \in Seq(Kinds)
    /\ Len(log) < Len(log')
    /\ \A k \in 1..Len(log) : log'[k] = log[k]
    /\ UNCHANGED <<seen, interest>>

\* A client shows the first event it misses.
Show(c, k) ==
    /\ k \in Missing(c)
    /\ \A j \in Missing(c) : k <= j
    /\ seen' = [seen EXCEPT ![c] = Append(@, k)]
    /\ UNCHANGED <<log, interest>>

Next == Grow \/ \E c \in Clients : \E k \in Missing(c) : Show(c, k)

Spec == Init /\ [][Next]_<<log, seen, interest>>
==============================================================================
