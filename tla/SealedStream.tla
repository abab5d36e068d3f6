---------------------------- MODULE SealedStream ----------------------------
(***************************************************************************)
(* ic_cipher::sealer: Sealers that build their own nonces under one key,    *)
(* and Openers that refuse replays, over a network that loses, duplicates,  *)
(* reorders and alters.  The process of a Sealer may crash at any moment    *)
(* and continue from the counter it saved (Sealer::resume), and the process *)
(* of an Opener may crash and start a new one.                              *)
(*                                                                          *)
(* A Sealer is named by its fixed field: "any other party sealing under key *)
(* must use a different one".  The AEAD is ideal: a message verifies if and *)
(* only if it was sealed under this key and is presented unaltered.         *)
(***************************************************************************)
EXTENDS Naturals, Sequences, FiniteSets

CONSTANTS
    Senders,       \* the fixed fields, one Sealer and one Opener for each
    Payloads,      \* what the application seals
    MaxCounter     \* u64::MAX

ASSUME CounterAssumption == MaxCounter \in Nat \ {0}

VARIABLES
    alive,      \* a Sealer exists
    counter,    \* Sealer::counter
    saved,      \* the counter that the program has persisted
    unsent,     \* sealed, still in the sender's memory
    sent,       \* has left the sender: on the network, and may arrive any time
    next,       \* Opener::next
    opened,     \* what the present Opener has opened, in order
    up          \* ic_core::module::operational() is Ok

sender == <<alive, counter, saved, unsent, sent>>
receiver == <<next, opened>>
vars == <<sender, receiver, up>>

Counters == 0..MaxCounter

\* The last counter value is never in a nonce.
Messages == [fixed : Senders, counter : 0..(MaxCounter - 1), payload : Payloads]

\* What may be presented to open: a message that was sent or anything else,
\* with a nonce of twelve bytes or of another length.
Arrivals ==
    [msg : sent, whole : BOOLEAN, altered : {FALSE}]
        \union
    [msg : [fixed : Senders, counter : Counters, payload : Payloads],
     whole : BOOLEAN, altered : {TRUE}]

-----------------------------------------------------------------------------
\* new is resume from 0; a program may have used the key before.
Init ==
    /\ alive = [s \in Senders |-> TRUE]
    /\ saved \in [Senders -> Counters]
    /\ counter = saved
    /\ unsent = [s \in Senders |-> {}]
    /\ sent = {}
    /\ next = [s \in Senders |-> 0]
    /\ opened = [s \in Senders |-> <<>>]
    /\ up = TRUE

\* self.counter += 1, on a u64.
Advanced(c) == (c + 1) % (MaxCounter + 1)

\* nonce(): refuses the last counter value.
HasNonce(s) == counter[s] # MaxCounter

\* seal.  When it is refused nothing changes.
Seal(s, p) ==
    /\ alive[s]
    /\ HasNonce(s)
    /\ up
    /\ unsent' = [unsent EXCEPT ![s] =
                    @ \union {[fixed |-> s, counter |-> counter[s], payload |-> p]}]
    /\ counter' = [counter EXCEPT ![s] = Advanced(@)]
    /\ UNCHANGED <<alive, saved, sent, receiver, up>>

\* The program persists what Sealer::counter returns.
Persist(s) ==
    /\ alive[s]
    /\ saved' = [saved EXCEPT ![s] = counter[s]]
    /\ UNCHANGED <<alive, counter, unsent, sent, receiver, up>>

\* Mutant: the program sends first.
MaySend_Unsaved(s, m) == m.counter < counter[s]

\* "Persist the counter before sending what it sealed, not after."
MaySend(s, m) == m.counter < saved[s]

Send(s) ==
    \E m \in unsent[s] :
        /\ MaySend(s, m)
        /\ sent' = sent \union {m}
        /\ unsent' = [unsent EXCEPT ![s] = @ \ {m}]
        /\ UNCHANGED <<alive, counter, saved, receiver, up>>

\* The sender's process dies: what was not sent never will be.
Crash(s) ==
    /\ alive[s]
    /\ alive' = [alive EXCEPT ![s] = FALSE]
    /\ unsent' = [unsent EXCEPT ![s] = {}]
    /\ UNCHANGED <<counter, saved, sent, receiver, up>>

\* Sealer::resume, with the counter that was saved.
Resume(s) ==
    /\ ~alive[s]
    /\ up
    /\ alive' = [alive EXCEPT ![s] = TRUE]
    /\ counter' = [counter EXCEPT ![s] = saved[s]]
    /\ UNCHANGED <<saved, unsent, sent, receiver, up>>

-----------------------------------------------------------------------------
\* Mutant: the counter is not compared with the window.
InWindow_NoReplayCheck(s, a) ==
    /\ a.whole
    /\ a.msg.fixed = s
    /\ a.msg.counter # MaxCounter

\* Mutant: the opener stops one counter earlier than the sealer.
InWindow_StopsEarly(s, a) ==
    /\ a.whole
    /\ a.msg.fixed = s
    /\ a.msg.counter >= next[s]
    /\ a.msg.counter < MaxCounter - 1

\* The checks of open that come before the AEAD, the nonce's length first.
InWindow(s, a) ==
    /\ a.whole
    /\ a.msg.fixed = s
    /\ a.msg.counter >= next[s]
    /\ a.msg.counter # MaxCounter

\* open_detached.
Verifies(a) == up /\ ~a.altered

\* open returns Ok.
Open(s) ==
    \E a \in Arrivals :
        /\ InWindow(s, a)
        /\ Verifies(a)
        /\ next' = [next EXCEPT ![s] = Advanced(a.msg.counter)]
        /\ opened' = [opened EXCEPT ![s] = Append(@, a.msg)]
        /\ UNCHANGED <<sender, up>>

\* Mutant: the window moves before the AEAD has verified.
Refuse_Advances(s) ==
    \E a \in Arrivals :
        /\ ~(InWindow(s, a) /\ Verifies(a))
        /\ next' = [next EXCEPT ![s] = IF InWindow(s, a) THEN Advanced(a.msg.counter) ELSE @]
        /\ UNCHANGED <<sender, opened, up>>

\* open returns an error: the window stays where it is.
Refuse(s) ==
    \E a \in Arrivals :
        /\ ~(InWindow(s, a) /\ Verifies(a))
        /\ UNCHANGED vars

\* Opener::new after the receiver's process died: it starts from 0.
NewOpener(s) ==
    /\ up
    /\ next' = [next EXCEPT ![s] = 0]
    /\ opened' = [opened EXCEPT ![s] = <<>>]
    /\ UNCHANGED <<sender, up>>

\* The module enters its error state.
ModuleFails ==
    /\ up
    /\ up' = FALSE
    /\ UNCHANGED <<sender, receiver>>

SenderStep(s) ==
    \/ \E p \in Payloads : Seal(s, p)
    \/ Persist(s)
    \/ Send(s)
    \/ Crash(s)
    \/ Resume(s)

ReceiverStep(s) == Open(s) \/ Refuse(s) \/ NewOpener(s)

Next == (\E s \in Senders : SenderStep(s) \/ ReceiverStep(s)) \/ ModuleFails

Spec == Init /\ [][Next]_vars

-----------------------------------------------------------------------------
(* Every variable has its type; what is in a sender's memory carries its    *)
(* fixed field and what an opener has opened came from its sender           *)
(* (sealer.rs, the fields of Sealer and Opener).                            *)
TypeOK ==
    /\ alive \in [Senders -> BOOLEAN]
    /\ counter \in [Senders -> Counters]
    /\ saved \in [Senders -> Counters]
    /\ unsent \in [Senders -> SUBSET Messages]
    /\ sent \subseteq Messages
    /\ next \in [Senders -> Counters]
    /\ opened \in [Senders -> Seq(Messages)]
    /\ up \in BOOLEAN

(* No two different messages ever leave under one nonce, across crashes and *)
(* resumptions and up to the last counter: the promise of Sealer.           *)
NonceOnce ==
    \A m, n \in sent : m.fixed = n.fixed /\ m.counter = n.counter => m = n

(* The inductive strengthening of NonceOnce.  What has left was sealed      *)
(* below the saved counter, so a resumed Sealer cannot meet it again; what  *)
(* is in memory was sealed below the counter, each under a counter of its   *)
(* own that nothing sent has used.                                          *)
SentBelowSaved == \A m \in sent : m.counter < saved[m.fixed]

SavedBelowCounter == \A s \in Senders : alive[s] => saved[s] <= counter[s]

UnsentFresh ==
    \A s \in Senders : \A m \in unsent[s] :
        /\ alive[s]
        /\ m.fixed = s
        /\ m.counter < counter[s]
        /\ \A n \in unsent[s] : m.counter = n.counter => m = n
        /\ \A n \in sent : n.fixed = s => m.counter # n.counter

(* An opener's window starts right after the last message it opened, and    *)
(* nothing that it refused has moved it: a forgery with a high counter      *)
(* cannot shut a sender out (sealer.rs: "On any failure the accepted        *)
(* counter does not advance").                                              *)
WindowFollowsOpened ==
    \A s \in Senders :
        next[s] = IF opened[s] = <<>> THEN 0
                  ELSE opened[s][Len(opened[s])].counter + 1

(* What an opener has opened was sent to it, in increasing counter order.   *)
OpenedInOrder ==
    \A s \in Senders :
        /\ \A i \in 1..Len(opened[s]) : opened[s][i] \in sent /\ opened[s][i].fixed = s
        /\ \A i, j \in 1..Len(opened[s]) : i < j => opened[s][i].counter < opened[s][j].counter

IndInv ==
    /\ TypeOK
    /\ NonceOnce
    /\ SentBelowSaved
    /\ SavedBelowCounter
    /\ UnsentFresh
    /\ WindowFollowsOpened
    /\ OpenedInOrder

(* The two ends agree about the last counter: whatever a Sealer was ready   *)
(* to seal, its Opener will open if it arrives before something later, so   *)
(* that a stream never ends with messages that nobody can read.             *)
NothingStranded ==
    \A m \in sent :
        up /\ next[m.fixed] <= m.counter =>
            InWindow(m.fixed, [msg |-> m, whole |-> TRUE, altered |-> FALSE])

(* The stream implements the channel: one message for each position, and    *)
(* readers that are handed each at most once and in order, whatever the     *)
(* network does and whoever crashes.                                        *)
Channel == INSTANCE OrderedChannel WITH log <- sent, delivered <- opened

ImplementsChannel == Channel!Spec
=============================================================================
