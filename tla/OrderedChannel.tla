--------------------------- MODULE OrderedChannel ---------------------------
(***************************************************************************)
(* What a stream of sealed messages promises its two ends: a log in which   *)
(* every position of a sender holds one message, and a reader of it who is  *)
(* handed messages of the log only, each at most once and never backwards.  *)
(* Messages may be skipped: nothing is promised about a lost one.           *)
(***************************************************************************)
EXTENDS Naturals, Sequences

CONSTANTS Senders, Messages    \* a message has a fixed field and a counter

VARIABLES log, delivered

Init == log = {} /\ delivered = [s \in Senders |-> <<>>]

SamePosition(m, n) == m.fixed = n.fixed /\ m.counter = n.counter

Post(m) ==
    /\ \A n \in log : ~SamePosition(m, n)
    /\ log' = log \union {m}
    /\ UNCHANGED delivered

Deliver(s, m) ==
    /\ m \in log
    /\ m.fixed = s
    /\ \A i \in DOMAIN delivered[s] : delivered[s][i].counter < m.counter
    /\ delivered' = [delivered EXCEPT ![s] = Append(@, m)]
    /\ UNCHANGED log

\* A new reader starts over.
Rejoin(s) == delivered' = [delivered EXCEPT ![s] = <<>>] /\ UNCHANGED log

Next ==
    \/ \E m \in Messages : Post(m)
    \/ \E s \in Senders, m \in Messages : Deliver(s, m)
    \/ \E s \in Senders : Rejoin(s)

Spec == Init /\ [][Next]_<<log, delivered>>
=============================================================================
