----------------------------- MODULE StreamsProofs -----------------------------
(***************************************************************************)
(* Proofs about the two kinds of stream that count their own nonces.        *)
(* SealedStream, for any number of senders, any payloads and any width of   *)
(* the counter: no nonce is used for two messages that leave, and the       *)
(* stream implements OrderedChannel.  HpkeContext, for any plaintexts and   *)
(* any width of the sequence number: no side uses a nonce twice, no side    *)
(* opens its own messages, and with one sealing side what is opened is a    *)
(* prefix of what was sealed.                                               *)
(***************************************************************************)
EXTENDS SealedStream, HpkeContext, SequenceTheorems, TLAPS

-----------------------------------------------------------------------------
(* The counter.                                                             *)

\* Below the last counter value, += 1 does not wrap.
LEMMA AdvancedIsNext ==
    ASSUME NEW c \in Counters, c # MaxCounter
    PROVE  Advanced(c) = c + 1 /\ Advanced(c) \in Counters
  BY CounterAssumption DEF Advanced, Counters

LEMMA InitInvariant == Init => IndInv
  <1> SUFFICES ASSUME Init PROVE IndInv
    OBVIOUS
  <1>1. 0 \in Counters
    BY CounterAssumption DEF Counters
  <1>2. TypeOK
    BY <1>1 DEF Init, TypeOK
  <1> QED
    BY <1>2 DEF Init, TypeOK, IndInv, NonceOnce, SentBelowSaved, SavedBelowCounter,
                UnsentFresh, WindowFollowsOpened, OpenedInOrder, Counters

-----------------------------------------------------------------------------
(* The sender's steps.                                                      *)

LEMMA SealPreserves ==
    ASSUME IndInv, NEW s \in Senders, NEW p \in Payloads, Seal(s, p)
    PROVE  IndInv'
  <1> DEFINE m0 == [fixed |-> s, counter |-> counter[s], payload |-> p]
  <1> USE DEF IndInv
  <1>1. m0 \in Messages /\ m0.fixed = s /\ m0.counter = counter[s]
    BY CounterAssumption DEF Seal, HasNonce, TypeOK, Messages, Counters
  <1>2. counter[s] \in Counters /\ Advanced(counter[s]) = counter[s] + 1
        /\ Advanced(counter[s]) \in Counters
    BY AdvancedIsNext DEF Seal, HasNonce, TypeOK
  <1>3. /\ unsent' = [unsent EXCEPT ![s] = @ \union {m0}]
        /\ counter' = [counter EXCEPT ![s] = counter[s] + 1]
        /\ UNCHANGED <<alive, saved, sent, next, opened, up>>
    BY <1>2 DEF Seal, receiver, TypeOK
  <1> HIDE DEF m0
  <1>4. TypeOK'
    <2>1. counter' \in [Senders -> Counters]
      BY <1>2, <1>3 DEF TypeOK
    <2>2. unsent' \in [Senders -> SUBSET Messages]
      BY <1>1, <1>3 DEF TypeOK
    <2> QED
      BY <2>1, <2>2, <1>3 DEF TypeOK
  <1>5. SavedBelowCounter'
    BY <1>3 DEF SavedBelowCounter, TypeOK, Counters
  <1>6. \A n \in unsent[s] : n.counter < counter[s] /\ n.counter # counter[s]
    BY <1>2 DEF UnsentFresh, TypeOK, Messages, Counters
  <1>7. \A n \in sent : n.fixed = s => n.counter # counter[s]
    <2>1. saved[s] <= counter[s]
      BY DEF SavedBelowCounter, Seal
    <2> QED
      BY <2>1 DEF SentBelowSaved, TypeOK, Messages, Counters
  <1>8. UnsentFresh'
    <2> SUFFICES ASSUME NEW q \in Senders, NEW m \in unsent'[q]
                 PROVE  /\ alive[q]
                        /\ m.fixed = q
                        /\ m.counter < counter'[q]
                        /\ \A n \in unsent'[q] : m.counter = n.counter => m = n
                        /\ \A n \in sent : n.fixed = q => m.counter # n.counter
      BY <1>3 DEF UnsentFresh
    <2>1. CASE q # s
      BY <2>1, <1>3 DEF UnsentFresh, TypeOK
    <2>2. CASE q = s
      <3>1. unsent'[s] = unsent[s] \union {m0} /\ counter'[s] = counter[s] + 1
        BY <1>3 DEF TypeOK
      <3>2. alive[q]
        BY <2>2 DEF Seal
      <3>3. CASE m = m0
        BY <2>2, <3>1, <3>2, <3>3, <1>1, <1>2, <1>6, <1>7 DEF Counters
      <3>4. CASE m \in unsent[s]
        <4>1. m.counter < counter[s] + 1
          BY <3>4, <1>2 DEF UnsentFresh, TypeOK, Messages, Counters
        <4> QED
          BY <2>2, <3>1, <3>2, <3>4, <4>1, <1>1, <1>6 DEF UnsentFresh
      <3> QED
        BY <2>2, <3>1, <3>3, <3>4
    <2> QED
      BY <2>1, <2>2
  <1>9. NonceOnce' /\ SentBelowSaved' /\ WindowFollowsOpened' /\ OpenedInOrder'
    BY <1>3 DEF NonceOnce, SentBelowSaved, WindowFollowsOpened, OpenedInOrder
  <1> QED
    BY <1>4, <1>5, <1>8, <1>9

LEMMA PersistPreserves ==
    ASSUME IndInv, NEW s \in Senders, Persist(s)
    PROVE  IndInv'
  <1> USE DEF IndInv
  <1>1. UNCHANGED <<alive, counter, unsent, sent, next, opened, up>>
        /\ saved' = [saved EXCEPT ![s] = counter[s]]
    BY DEF Persist, receiver
  <1>2. TypeOK'
    BY <1>1 DEF TypeOK
  <1>3. \A q \in Senders : saved[q] <= saved'[q]
    BY <1>1 DEF Persist, SavedBelowCounter, TypeOK, Counters
  <1>4. SentBelowSaved'
    BY <1>1, <1>2, <1>3 DEF SentBelowSaved, TypeOK, Messages, Counters
  <1>5. SavedBelowCounter'
    BY <1>1 DEF SavedBelowCounter, TypeOK, Counters
  <1>6. NonceOnce' /\ UnsentFresh' /\ WindowFollowsOpened' /\ OpenedInOrder'
    BY <1>1 DEF NonceOnce, UnsentFresh, WindowFollowsOpened, OpenedInOrder
  <1> QED
    BY <1>2, <1>4, <1>5, <1>6

\* What leaves is what was in memory, at a position that nothing sent has.
LEMMA SendPreserves ==
    ASSUME IndInv, NEW s \in Senders, NEW m \in unsent[s], MaySend(s, m),
           sent' = sent \union {m},
           unsent' = [unsent EXCEPT ![s] = @ \ {m}],
           UNCHANGED <<alive, counter, saved, receiver, up>>
    PROVE  IndInv' /\ \A n \in sent : ~Channel!SamePosition(m, n)
  <1> USE DEF IndInv
  <1>1. UNCHANGED <<alive, counter, saved, next, opened, up>>
    BY DEF receiver
  <1>2. m \in Messages /\ m.fixed = s
    BY DEF UnsentFresh, TypeOK
  <1>3. \A n \in sent : n.fixed = s => m.counter # n.counter
    BY DEF UnsentFresh
  <1>4. TypeOK'
    BY <1>1, <1>2 DEF TypeOK
  <1>5. NonceOnce'
    BY <1>2, <1>3 DEF NonceOnce
  <1>6. SentBelowSaved'
    BY <1>1, <1>2 DEF SentBelowSaved, MaySend
  <1>7. UnsentFresh'
    <2>1. \A q \in Senders : unsent'[q] \subseteq unsent[q]
      BY DEF TypeOK
    <2>2. m \notin unsent'[s]
      BY DEF TypeOK
    <2>3. \A q \in Senders : \A k \in unsent'[q] : m.fixed = q => k.counter # m.counter
      BY <2>1, <2>2, <1>2 DEF UnsentFresh
    <2> QED
      BY <1>1, <2>1, <2>3 DEF UnsentFresh
  <1>8. OpenedInOrder' /\ WindowFollowsOpened' /\ SavedBelowCounter'
    BY <1>1 DEF OpenedInOrder, WindowFollowsOpened, SavedBelowCounter
  <1> QED
    BY <1>2, <1>3, <1>4, <1>5, <1>6, <1>7, <1>8 DEF Channel!SamePosition

LEMMA CrashPreserves ==
    ASSUME IndInv, NEW s \in Senders, Crash(s)
    PROVE  IndInv'
  <1> USE DEF IndInv
  <1>1. UNCHANGED <<counter, saved, sent, next, opened, up>>
        /\ alive' = [alive EXCEPT ![s] = FALSE] /\ unsent' = [unsent EXCEPT ![s] = {}]
    BY DEF Crash, receiver
  <1>2. TypeOK'
    BY <1>1 DEF TypeOK
  <1>3. SavedBelowCounter' /\ UnsentFresh'
    BY <1>1 DEF SavedBelowCounter, UnsentFresh, TypeOK
  <1> QED
    BY <1>1, <1>2, <1>3 DEF NonceOnce, SentBelowSaved, WindowFollowsOpened, OpenedInOrder

LEMMA ResumePreserves ==
    ASSUME IndInv, NEW s \in Senders, Resume(s)
    PROVE  IndInv'
  <1> USE DEF IndInv
  <1>1. UNCHANGED <<saved, unsent, sent, next, opened, up>>
        /\ alive' = [alive EXCEPT ![s] = TRUE] /\ counter' = [counter EXCEPT ![s] = saved[s]]
    BY DEF Resume, receiver
  <1>2. TypeOK'
    BY <1>1 DEF TypeOK
  <1>3. unsent[s] = {}
    BY DEF Resume, UnsentFresh
  <1>4. SavedBelowCounter' /\ UnsentFresh'
    BY <1>1, <1>3, SMTT(30) DEF SavedBelowCounter, UnsentFresh, TypeOK, Counters
  <1> QED
    BY <1>1, <1>2, <1>4 DEF NonceOnce, SentBelowSaved, WindowFollowsOpened, OpenedInOrder

-----------------------------------------------------------------------------
(* The receiver's steps.                                                    *)

\* What open accepts was sent by its sender and is later than all it opened.
LEMMA OpensOnlyNew ==
    ASSUME IndInv, NEW s \in Senders, NEW a \in Arrivals, InWindow(s, a), Verifies(a)
    PROVE  /\ a.msg \in sent /\ a.msg \in Messages /\ a.msg.fixed = s
           /\ Advanced(a.msg.counter) = a.msg.counter + 1
           /\ Advanced(a.msg.counter) \in Counters
           /\ \A i \in DOMAIN opened[s] : opened[s][i].counter < a.msg.counter
  <1> USE DEF IndInv
  <1>1. a.msg \in sent /\ a.msg \in Messages /\ a.msg.fixed = s
    BY DEF Arrivals, Verifies, InWindow, TypeOK
  <1>2. a.msg.counter \in Counters /\ a.msg.counter # MaxCounter
    BY <1>1, CounterAssumption DEF Messages, InWindow, Counters
  <1>3. opened[s] \in Seq(Messages) /\ DOMAIN opened[s] = 1..Len(opened[s])
    BY DEF TypeOK
  <1>4. ASSUME NEW i \in 1..Len(opened[s])
        PROVE  opened[s][i].counter < a.msg.counter
    <2> DEFINE k == Len(opened[s])
    <2>1. opened[s][i] \in Messages /\ opened[s][k] \in Messages /\ k \in 1..k /\ i <= k
      BY <1>3, <1>4
    <2>2. opened[s] # <<>>
      BY <1>3, <1>4
    <2>3. next[s] = opened[s][k].counter + 1 /\ next[s] <= a.msg.counter
      BY <2>2, <1>2 DEF WindowFollowsOpened, InWindow, TypeOK, Counters
    <2>4. opened[s][i].counter <= opened[s][k].counter
      <3>1. CASE i = k
        BY <2>1, <3>1 DEF Messages, Counters
      <3>2. CASE i < k
        BY <2>1, <3>2 DEF OpenedInOrder, Messages, Counters
      <3> QED
        BY <2>1, <3>1, <3>2, <1>3
    <2>5. opened[s][i].counter \in Nat /\ opened[s][k].counter \in Nat /\ a.msg.counter \in Nat
      BY <2>1, <1>2 DEF Messages, Counters
    <2> QED
      BY <2>3, <2>4, <2>5, SMTT(30)
  <1> QED
    BY <1>1, <1>2, <1>3, <1>4, AdvancedIsNext

LEMMA OpenPreserves ==
    ASSUME IndInv, NEW s \in Senders, NEW a \in Arrivals, InWindow(s, a), Verifies(a),
           next' = [next EXCEPT ![s] = Advanced(a.msg.counter)],
           opened' = [opened EXCEPT ![s] = Append(@, a.msg)],
           UNCHANGED <<sender, up>>
    PROVE  IndInv'
  <1> USE DEF IndInv
  <1>1. UNCHANGED <<alive, counter, saved, unsent, sent, up>>
    BY DEF sender
  <1> DEFINE o == opened[s]
             k == Len(opened[s])
  <1>2. /\ a.msg \in sent /\ a.msg \in Messages /\ a.msg.fixed = s
        /\ Advanced(a.msg.counter) = a.msg.counter + 1
        /\ Advanced(a.msg.counter) \in Counters
        /\ \A i \in 1..k : o[i].counter < a.msg.counter
    BY OpensOnlyNew DEF TypeOK
  <1>3. /\ opened'[s] = Append(o, a.msg) /\ next'[s] = a.msg.counter + 1
        /\ \A q \in Senders : q # s => opened'[q] = opened[q] /\ next'[q] = next[q]
    BY <1>2 DEF TypeOK
  <1>4. /\ o \in Seq(Messages) /\ Append(o, a.msg) \in Seq(Messages)
        /\ Len(Append(o, a.msg)) = k + 1 /\ k \in Nat
        /\ Append(o, a.msg)[k + 1] = a.msg
        /\ \A i \in 1..k : Append(o, a.msg)[i] = o[i]
    BY <1>2 DEF TypeOK
  <1>5. TypeOK'
    BY <1>1, <1>2, <1>4 DEF TypeOK
  <1>6. WindowFollowsOpened'
    <2> SUFFICES ASSUME NEW q \in Senders
                 PROVE  next'[q] = IF opened'[q] = <<>> THEN 0
                                   ELSE opened'[q][Len(opened'[q])].counter + 1
      BY DEF WindowFollowsOpened
    <2>1. CASE q = s
      <3>1. Append(o, a.msg) # <<>>
        BY <1>4
      <3> QED
        BY <2>1, <3>1, <1>3, <1>4
    <2>2. CASE q # s
      BY <2>2, <1>3 DEF WindowFollowsOpened
    <2> QED
      BY <2>1, <2>2
  <1>7. OpenedInOrder'
    <2> SUFFICES ASSUME NEW q \in Senders
                 PROVE  /\ \A i \in 1..Len(opened'[q]) :
                              opened'[q][i] \in sent /\ opened'[q][i].fixed = q
                        /\ \A i, j \in 1..Len(opened'[q]) :
                              i < j => opened'[q][i].counter < opened'[q][j].counter
      BY <1>1 DEF OpenedInOrder
    <2>1. CASE q = s
      <3>1. \A i \in 1..(k + 1) : i \in 1..k \/ i = k + 1
        BY <1>4
      <3>2. \A i \in 1..(k + 1) :
              Append(o, a.msg)[i] \in sent /\ Append(o, a.msg)[i].fixed = s
        BY <3>1, <1>2, <1>4 DEF OpenedInOrder
      <3>3. ASSUME NEW i \in 1..(k + 1), NEW j \in 1..(k + 1), i < j
            PROVE  Append(o, a.msg)[i].counter < Append(o, a.msg)[j].counter
        <4>1. i \in 1..k
          BY <3>3, <1>4
        <4>2. CASE j \in 1..k
          BY <4>1, <4>2, <3>3, <1>4 DEF OpenedInOrder
        <4>3. CASE j = k + 1
          BY <4>1, <4>3, <1>2, <1>4
        <4> QED
          BY <3>1, <4>2, <4>3
      <3> QED
        BY <2>1, <3>2, <3>3, <1>3, <1>4
    <2>2. CASE q # s
      BY <2>2, <1>3 DEF OpenedInOrder
    <2> QED
      BY <2>1, <2>2
  <1>8. NonceOnce' /\ SentBelowSaved' /\ SavedBelowCounter' /\ UnsentFresh'
    BY <1>1 DEF NonceOnce, SentBelowSaved, SavedBelowCounter, UnsentFresh
  <1> QED
    BY <1>5, <1>6, <1>7, <1>8

LEMMA NewOpenerPreserves ==
    ASSUME IndInv, NEW s \in Senders, NewOpener(s)
    PROVE  IndInv'
  <1> USE DEF IndInv
  <1>1. UNCHANGED <<alive, counter, saved, unsent, sent, up>>
    BY DEF NewOpener, sender
  <1>2. 0 \in Counters /\ <<>> \in Seq(Messages) /\ Len(<<>>) = 0
    BY CounterAssumption DEF Counters
  <1>3. /\ opened'[s] = <<>> /\ next'[s] = 0
        /\ \A q \in Senders : q # s => opened'[q] = opened[q] /\ next'[q] = next[q]
    BY DEF NewOpener, TypeOK
  <1>4. TypeOK'
    BY <1>1, <1>2 DEF NewOpener, TypeOK
  <1>5. WindowFollowsOpened'
    BY <1>3 DEF WindowFollowsOpened
  <1>6. OpenedInOrder'
    <2> SUFFICES ASSUME NEW q \in Senders
                 PROVE  /\ \A i \in 1..Len(opened'[q]) :
                              opened'[q][i] \in sent /\ opened'[q][i].fixed = q
                        /\ \A i, j \in 1..Len(opened'[q]) :
                              i < j => opened'[q][i].counter < opened'[q][j].counter
      BY <1>1 DEF OpenedInOrder
    <2>1. CASE q = s
      <3>1. 1..Len(opened'[q]) = {}
        BY <2>1, <1>2, <1>3
      <3> QED
        BY <3>1
    <2>2. CASE q # s
      BY <2>2, <1>3 DEF OpenedInOrder
    <2> QED
      BY <2>1, <2>2
  <1> QED
    BY <1>1, <1>4, <1>5, <1>6 DEF NonceOnce, SentBelowSaved, SavedBelowCounter, UnsentFresh

-----------------------------------------------------------------------------
(* The invariant, and what it says about the network.                       *)

LEMMA UnchangedPreserves ==
    ASSUME IndInv, UNCHANGED <<sender, receiver>>, up' \in BOOLEAN
    PROVE  IndInv'
  BY DEF sender, receiver, IndInv, TypeOK, NonceOnce, SentBelowSaved, SavedBelowCounter,
         UnsentFresh, WindowFollowsOpened, OpenedInOrder

LEMMA NextPreserves == IndInv /\ [Next]_vars => IndInv'
  <1> SUFFICES ASSUME IndInv, [Next]_vars PROVE IndInv'
    OBVIOUS
  <1>1. up \in BOOLEAN
    BY DEF IndInv, TypeOK
  <1>2. ASSUME NEW s \in Senders, SenderStep(s) PROVE IndInv'
    BY <1>2, SealPreserves, PersistPreserves, SendPreserves, CrashPreserves, ResumePreserves
       DEF SenderStep, Send
  <1>3. ASSUME NEW s \in Senders, ReceiverStep(s) PROVE IndInv'
    <2>1. CASE Open(s)
      BY <2>1, OpenPreserves DEF Open
    <2>2. CASE Refuse(s)
      BY <2>2, <1>1, UnchangedPreserves DEF Refuse, vars
    <2>3. CASE NewOpener(s)
      BY <2>3, NewOpenerPreserves
    <2> QED
      BY <1>3, <2>1, <2>2, <2>3 DEF ReceiverStep
  <1>4. CASE ModuleFails
    BY <1>4, UnchangedPreserves DEF ModuleFails
  <1>5. CASE UNCHANGED vars
    BY <1>5, <1>1, UnchangedPreserves DEF vars
  <1> QED
    BY <1>2, <1>3, <1>4, <1>5 DEF Next

(* The inductive invariant of the stream holds for every number of senders  *)
(* and every counter width (Sealer and Opener of sealer.rs).                *)
THEOREM StreamInvariant == Spec => []IndInv
  BY InitInvariant, NextPreserves, PTL DEF Spec

(* No nonce is ever used for two messages that leave a sender: crashes and  *)
(* the end of the counter included (Sealer::seal, Sealer::resume).          *)
THEOREM NoNonceReuse == Spec => []NonceOnce
  BY StreamInvariant, PTL DEF IndInv

(* Nothing that open refuses moves the window (Opener::open).               *)
THEOREM WindowIsExact == Spec => []WindowFollowsOpened
  BY StreamInvariant, PTL DEF IndInv

\* What was sent was sealed by a Sealer that had a nonce left.
LEMMA SentCanBeOpened == IndInv => NothingStranded
  <1> SUFFICES ASSUME IndInv, NEW m \in sent, up, next[m.fixed] <= m.counter
               PROVE  InWindow(m.fixed, [msg |-> m, whole |-> TRUE, altered |-> FALSE])
    BY DEF NothingStranded
  <1>1. m.counter \in 0..(MaxCounter - 1)
    BY DEF IndInv, TypeOK, Messages
  <1>2. m.fixed \in Senders /\ next[m.fixed] \in Nat
    BY DEF IndInv, TypeOK, Messages, Counters
  <1>3. m.counter # MaxCounter /\ m.counter >= next[m.fixed]
    BY <1>1, <1>2, CounterAssumption
  <1> QED
    BY <1>3 DEF InWindow

(* Sealer and Opener agree about the last counter, for every width of it:   *)
(* a message that left can be opened unless something later was opened      *)
(* before (sealer.rs, Sealer::nonce and the limit in Opener::open).         *)
THEOREM NeverStranded == Spec => []NothingStranded
  BY StreamInvariant, SentCanBeOpened, PTL

-----------------------------------------------------------------------------
(* The stream implements the channel.                                       *)

LEMMA ChannelInit == Init => Channel!Init
  BY DEF Init, Channel!Init

LEMMA ChannelStep == IndInv /\ [Next]_vars => [Channel!Next]_<<sent, opened>>
  <1> SUFFICES ASSUME IndInv, [Next]_vars
               PROVE  Channel!Next \/ UNCHANGED <<sent, opened>>
    OBVIOUS
  <1>1. ASSUME NEW s \in Senders, Send(s) PROVE Channel!Next
    <2>1. PICK m \in unsent[s] :
            /\ MaySend(s, m)
            /\ sent' = sent \union {m}
            /\ unsent' = [unsent EXCEPT ![s] = @ \ {m}]
            /\ UNCHANGED <<alive, counter, saved, receiver, up>>
      BY <1>1 DEF Send
    <2>2. m \in Messages
      BY DEF IndInv, TypeOK
    <2>3. Channel!Post(m)
      BY <2>1, SendPreserves DEF Channel!Post, receiver
    <2> QED
      BY <2>2, <2>3 DEF Channel!Next
  <1>2. ASSUME NEW s \in Senders, Open(s) PROVE Channel!Next
    <2>1. PICK a \in Arrivals :
            /\ InWindow(s, a)
            /\ Verifies(a)
            /\ next' = [next EXCEPT ![s] = Advanced(a.msg.counter)]
            /\ opened' = [opened EXCEPT ![s] = Append(@, a.msg)]
            /\ UNCHANGED <<sender, up>>
      BY <1>2 DEF Open
    <2>2. a.msg \in Messages /\ Channel!Deliver(s, a.msg)
      BY <2>1, OpensOnlyNew DEF Channel!Deliver, sender
    <2> QED
      BY <2>2 DEF Channel!Next
  <1>3. ASSUME NEW s \in Senders, NewOpener(s) PROVE Channel!Next
    BY <1>3 DEF NewOpener, Channel!Rejoin, Channel!Next, sender
  <1>4. ASSUME NEW s \in Senders, SenderStep(s), ~Send(s) PROVE UNCHANGED <<sent, opened>>
    BY <1>4 DEF SenderStep, Seal, Persist, Crash, Resume, receiver
  <1>5. ASSUME NEW s \in Senders, Refuse(s) PROVE UNCHANGED <<sent, opened>>
    BY <1>5 DEF Refuse, vars, sender, receiver
  <1>6. CASE ModuleFails
    BY <1>6 DEF ModuleFails, sender, receiver
  <1>7. CASE UNCHANGED vars
    BY <1>7 DEF vars, sender, receiver
  <1> QED
    BY <1>1, <1>2, <1>3, <1>4, <1>5, <1>6, <1>7 DEF Next, ReceiverStep

(* Sealer, Opener and any network implement the ordered channel: one        *)
(* message for a position, each handed over at most once, never backwards,  *)
(* and nothing that was not sent (sealer.rs).                               *)
THEOREM StreamImplementsChannel == Spec => ImplementsChannel
  <1>1. IndInv /\ [Next]_vars => [Channel!Next]_<<sent, opened>>
    BY ChannelStep
  <1> QED
    BY <1>1, ChannelInit, StreamInvariant, PTL DEF Spec, ImplementsChannel, Channel!Spec

-----------------------------------------------------------------------------
(* HPKE contexts: sequences and the counter.                                               *)

\* Below the last value, += 1 does not wrap.
LEMMA NextSeqIsNext ==
    ASSUME NEW n \in 0..MaxSeq, n # MaxSeq
    PROVE  NextSeq(n) = n + 1 /\ NextSeq(n) \in 0..MaxSeq
  BY HpkeAssumption DEF NextSeq

\* What Append does to a log.
LEMMA Appended ==
    ASSUME NEW S, NEW s \in Seq(S), NEW e \in S
    PROVE  /\ Append(s, e) \in Seq(S)
           /\ Len(Append(s, e)) = Len(s) + 1
           /\ \A i \in 1..Len(s) : Append(s, e)[i] = s[i]
           /\ Append(s, e)[Len(s) + 1] = e
  BY AppendProperties

LEMMA ToSetType ==
    ASSUME NEW S, NEW s \in Seq(S)
    PROVE  ToSet(s) \subseteq S
  BY DEF ToSet

LEMMA ContextInitInvariant == ContextInit => ContextInv
  <1> SUFFICES ASSUME ContextInit PROVE ContextInv
    OBVIOUS
  <1>1. LogsOK
    BY EmptySeq DEF ContextInit, LogsOK
  <1>2. seq \in [Roles -> 0..MaxSeq]
    BY HpkeAssumption DEF ContextInit
  <1>3. talkers \in SUBSET Roles
    BY DEF ContextInit, Roles
  <1>4. ContextTypeOK
    BY <1>1, <1>2, <1>3, ToSetType DEF ContextInit, ContextTypeOK, LogsOK
  <1> QED
    BY <1>1, <1>4 DEF ContextInit, ContextInv, EveryCallCounts, SealedInOrder, NoReflection, OneWay, Roles

-----------------------------------------------------------------------------
(* The steps.                                                               *)

LEMMA ContextSealPreserves ==
    ASSUME ContextInv, NEW r \in Roles, NEW p \in Plaintexts, SealInPlace(r, p)
    PROVE  ContextInv'
  <1> DEFINE m == [by |-> r, nonce |-> seq[r], payload |-> p]
  <1> USE DEF ContextInv
  <1>1. seq[r] \in 0..MaxSeq /\ seq[r] # MaxSeq /\ NextSeq(seq[r]) = seq[r] + 1
    BY NextSeqIsNext DEF SealInPlace, NonceLeft, ContextTypeOK
  <1>2. m \in ContextMessages
    BY <1>1, HpkeAssumption DEF ContextMessages
  <1>3. /\ sealed' = [sealed EXCEPT ![r] = Append(sealed[r], m)]
        /\ seq' = [seq EXCEPT ![r] = seq[r] + 1]
        /\ UNCHANGED <<talkers, received, operational>>
    BY <1>1 DEF SealInPlace, ContextTypeOK
  <1>4. m.by = r /\ m.nonce = seq[r]
    OBVIOUS
  <1> HIDE DEF m
  <1>a. sealed[r] \in Seq(ContextMessages) /\ Len(sealed[r]) \in Nat
    BY DEF LogsOK
  <1>b. PICK n \in Nat : n = Len(sealed[r])
    BY <1>a
  <1>5. sealed[r] \in Seq(ContextMessages) /\ n = Len(sealed[r]) /\ n \in Nat
    BY <1>a, <1>b
  <1>6. /\ sealed'[r] = Append(sealed[r], m)
        /\ sealed'[r] \in Seq(ContextMessages)
        /\ Len(sealed'[r]) = n + 1
        /\ \A i \in 1..n : sealed'[r][i] = sealed[r][i]
        /\ sealed'[r][n + 1] = m
        /\ \A q \in Roles : q # r => sealed'[q] = sealed[q]
    BY <1>2, <1>3, <1>5, Appended DEF LogsOK
  <1>7. seq'[r] = seq[r] + 1 /\ \A q \in Roles : q # r => seq'[q] = seq[q]
    BY <1>3 DEF ContextTypeOK
  <1>8. LogsOK'
    BY <1>3, <1>6 DEF LogsOK
  <1>9. ContextTypeOK'
    <2>1. seq' \in [Roles -> 0..MaxSeq]
      BY <1>1, <1>3, HpkeAssumption DEF ContextTypeOK
    <2> QED
      BY <1>3, <1>8, <2>1, ToSetType DEF ContextTypeOK, LogsOK
  <1>10. EveryCallCounts'
    <2> SUFFICES ASSUME NEW q \in Roles PROVE seq'[q] = Len(sealed'[q]) + Len(received[q])
      BY <1>3 DEF EveryCallCounts
    <2>1. Len(received[q]) \in Nat /\ seq[q] = Len(sealed[q]) + Len(received[q])
      BY DEF LogsOK, EveryCallCounts
    <2>2. CASE q = r
      <3>1. PICK l \in Nat : l = Len(received[r])
        BY <2>1, <2>2
      <3>2. seq[r] = n + l
        BY <2>1, <2>2, <3>1, <1>b
      <3>3. seq'[r] = (n + 1) + l
        BY <3>2, <1>7
      <3> QED
        BY <2>2, <3>1, <3>3, <1>6
    <2>3. CASE q # r
      BY <2>1, <2>3, <1>6, <1>7
    <2> QED
      BY <2>2, <2>3
  <1>11. SealedInOrder'
    <2> SUFFICES ASSUME NEW q \in Roles
                 PROVE  /\ \A i \in 1..Len(sealed'[q]) : sealed'[q][i].by = q /\ sealed'[q][i].nonce < seq'[q]
                        /\ \A i, j \in 1..Len(sealed'[q]) : i < j => sealed'[q][i].nonce < sealed'[q][j].nonce
      BY DEF SealedInOrder
    <2>1. CASE q # r
      BY <2>1, <1>6, <1>7, SMTT(30) DEF SealedInOrder
    <2>2. CASE q = r
      <3>1. \A i \in 1..n : sealed[r][i].nonce \in Nat
        <4>1. \A i \in 1..n : sealed[r][i] \in ContextMessages
          BY <1>5
        <4> QED
          BY <4>1 DEF ContextMessages
      <3>2. \A i \in 1..(n + 1) : i \in 1..n \/ i = n + 1
        BY <1>5
      <3>3. \A i \in 1..(n + 1) : sealed'[r][i].by = r /\ sealed'[r][i].nonce < seq[r] + 1
        BY <1>1, <1>4, <1>6, <3>1, <3>2, SMTT(30) DEF SealedInOrder
      <3>4. \A i, j \in 1..(n + 1) : i < j => i \in 1..n
        BY <1>5
      <3>5. \A i, j \in 1..(n + 1) : i < j => sealed'[r][i].nonce < sealed'[r][j].nonce
        BY <1>4, <1>6, <3>2, <3>4, SMTT(30) DEF SealedInOrder
      <3> QED
        BY <2>2, <1>6, <1>7, <3>3, <3>5
    <2> QED
      BY <2>1, <2>2
  <1>12. NoReflection'
    BY <1>3 DEF NoReflection
  <1>13. OneWay'
    <2> SUFFICES ASSUME talkers = {"sender"}
                 PROVE  OneWay'
      BY <1>3 DEF OneWay
    <2>1. r = "sender"
      BY DEF SealInPlace
    <2>2. seq[r] = n
      <3>1. Len(received[r]) = 0
        BY <2>1 DEF OneWay
      <3>2. seq[r] = n + 0
        BY <3>1, <1>b DEF EveryCallCounts
      <3> QED
        BY <3>2
    <2>3. \A i \in 1..(n + 1) : sealed'[r][i].nonce = i - 1
      BY <2>1, <2>2, <1>4, <1>5, <1>6 DEF OneWay
    <2>4. Len(received["receiver"]) \in Nat /\ \A i \in 1..Len(received["receiver"]) : i \in 1..n
      BY <2>1, <1>5 DEF LogsOK, OneWay, Roles
    <2>5. \A i \in 1..Len(received["receiver"]) : received["receiver"][i] = sealed'["sender"][i]
      BY <2>1, <2>4, <1>6 DEF OneWay
    <2>6. sealed'["receiver"] = <<>>
      BY <2>1, <1>6 DEF OneWay, Roles
    <2> QED
      BY <2>1, <2>3, <2>4, <2>5, <2>6, <1>3, <1>5, <1>6 DEF OneWay
  <1> QED
    BY <1>8, <1>9, <1>10, <1>11, <1>12, <1>13

(* An opened message carries this side's number, and this side's own are   *)
(* all below it: it is the other side's.                                    *)
LEMMA ContextOpenPreserves ==
    ASSUME ContextInv, NEW r \in Roles, OpenInPlace(r)
    PROVE  ContextInv'
  <1> USE DEF ContextInv
  <1>1. PICK a \in Presented :
            /\ Accepts(r, a)
            /\ received' = [received EXCEPT ![r] = Append(@, a.msg)]
            /\ seq' = [seq EXCEPT ![r] = NextSeq(@)]
            /\ UNCHANGED <<talkers, sealed, operational>>
    BY DEF OpenInPlace
  <1>2. PICK m : m = a.msg
    OBVIOUS
  <1>3. m \in OnNetwork /\ m.nonce = seq[r] /\ seq[r] # MaxSeq
    BY <1>1, <1>2 DEF Presented, Accepts, NonceLeft
  <1>4. PICK s \in Roles : m \in ToSet(sealed[s])
    BY <1>3 DEF OnNetwork
  <1>5. sealed[s] \in Seq(ContextMessages) /\ received[r] \in Seq(ContextMessages)
    BY DEF LogsOK
  <1>6. PICK i \in 1..Len(sealed[s]) : m = sealed[s][i]
    BY <1>4, <1>5 DEF ToSet
  <1>7. m \in ContextMessages
    BY <1>5, <1>6
  <1>8. seq[r] \in 0..MaxSeq /\ NextSeq(seq[r]) = seq[r] + 1
    BY <1>3, NextSeqIsNext DEF ContextTypeOK
  <1>9. m.by = s /\ s # r
    <2>1. m.by = s /\ m.nonce < seq[s]
      BY <1>6 DEF SealedInOrder
    <2>2. seq[r] \in Nat
      BY <1>8, HpkeAssumption
    <2> QED
      BY <1>3, <2>1, <2>2
  <1>10. /\ received' = [received EXCEPT ![r] = Append(received[r], m)]
         /\ seq' = [seq EXCEPT ![r] = seq[r] + 1]
         /\ UNCHANGED <<talkers, sealed, operational>>
    BY <1>1, <1>2, <1>8 DEF LogsOK, ContextTypeOK
  <1>11. PICK n \in Nat : n = Len(received[r])
    BY <1>5
  <1>12. /\ received'[r] = Append(received[r], m)
         /\ received'[r] \in Seq(ContextMessages)
         /\ Len(received'[r]) = n + 1
         /\ \A k \in 1..n : received'[r][k] = received[r][k]
         /\ received'[r][n + 1] = m
         /\ \A q \in Roles : q # r => received'[q] = received[q]
    BY <1>5, <1>7, <1>10, <1>11, Appended DEF LogsOK
  <1>13. seq'[r] = seq[r] + 1 /\ \A q \in Roles : q # r => seq'[q] = seq[q]
    BY <1>10 DEF ContextTypeOK
  <1>14. LogsOK'
    BY <1>10, <1>12 DEF LogsOK
  <1>15. ContextTypeOK'
    <2>1. seq' \in [Roles -> 0..MaxSeq]
      BY <1>3, <1>8, <1>10, HpkeAssumption DEF ContextTypeOK
    <2> QED
      BY <1>10, <1>14, <2>1, ToSetType DEF ContextTypeOK, LogsOK
  <1>16. EveryCallCounts'
    <2> SUFFICES ASSUME NEW q \in Roles PROVE seq'[q] = Len(sealed[q]) + Len(received'[q])
      BY <1>10 DEF EveryCallCounts
    <2>1. PICK l \in Nat : l = Len(sealed[q])
      BY DEF LogsOK
    <2>2. CASE q = r
      <3>1. seq[r] = l + n
        BY <2>1, <2>2, <1>11 DEF EveryCallCounts
      <3>2. seq'[r] = l + (n + 1)
        BY <3>1, <1>13
      <3> QED
        BY <2>1, <2>2, <3>2, <1>12
    <2>3. CASE q # r
      BY <2>3, <1>12, <1>13 DEF EveryCallCounts
    <2> QED
      BY <2>2, <2>3
  <1>17. SealedInOrder'
    <2> SUFFICES ASSUME NEW q \in Roles, NEW k \in 1..Len(sealed[q])
                 PROVE  sealed[q][k].nonce < seq'[q]
      BY <1>10 DEF SealedInOrder
    <2>1. sealed[q][k].nonce \in Nat /\ sealed[q][k].nonce < seq[q]
      <3>1. sealed[q][k] \in ContextMessages
        BY DEF LogsOK
      <3> QED
        BY <3>1 DEF SealedInOrder, ContextMessages
    <2> QED
      BY <2>1, <1>8, <1>13, SMTT(30)
  <1>18. NoReflection'
    <2> SUFFICES ASSUME NEW q \in Roles, NEW k \in 1..Len(received'[q])
                 PROVE  received'[q][k].by # q
      BY DEF NoReflection
    <2>1. CASE q = r
      <3>1. k \in 1..n \/ k = n + 1
        BY <2>1, <1>12
      <3> QED
        BY <2>1, <3>1, <1>9, <1>11, <1>12, SMTT(30) DEF NoReflection
    <2>2. CASE q # r
      BY <2>2, <1>12 DEF NoReflection
    <2> QED
      BY <2>1, <2>2
  <1>19. OneWay'
    <2> SUFFICES ASSUME talkers = {"sender"}
                 PROVE  OneWay'
      BY <1>10 DEF OneWay
    <2>1. s = "sender" /\ r = "receiver"
      <3>1. s # "receiver"
        BY <1>6 DEF OneWay
      <3> QED
        BY <3>1, <1>9 DEF Roles
    <2>2. PICK l \in Nat : l = Len(sealed["sender"])
      BY <1>5, <2>1
    <2>3. seq[r] = 0 + n
      <3>1. Len(sealed[r]) = 0
        BY <2>1 DEF OneWay
      <3> QED
        BY <3>1, <1>11 DEF EveryCallCounts
    <2>4. i \in 1..l /\ i - 1 = n
      BY <2>1, <2>2, <2>3, <1>3, <1>6 DEF OneWay
    <2>5. i = n + 1 /\ n + 1 <= l
      BY <2>4
    <2>6. \A k \in 1..(n + 1) : received'[r][k] = sealed["sender"][k]
      <3> SUFFICES ASSUME NEW k \in 1..(n + 1) PROVE received'[r][k] = sealed["sender"][k]
        OBVIOUS
      <3>1. k \in 1..n \/ k = n + 1
        OBVIOUS
      <3> QED
        BY <3>1, <2>1, <2>5, <1>6, <1>11, <1>12 DEF OneWay
    <2>7. received'["sender"] = <<>>
      BY <2>1, <1>12 DEF OneWay, Roles
    <2> QED
      BY <2>1, <2>2, <2>5, <2>6, <2>7, <1>10, <1>12 DEF OneWay
  <1> QED
    BY <1>14, <1>15, <1>16, <1>17, <1>18, <1>19

\* The other steps leave the counters and the logs alone.
LEMMA ContextStillPreserves ==
    ASSUME ContextInv, UNCHANGED <<talkers, seq, sealed, received>>, operational' \in BOOLEAN
    PROVE  ContextInv'
  BY DEF ContextInv, ContextTypeOK, LogsOK, EveryCallCounts, SealedInOrder, NoReflection, OneWay

LEMMA ContextStepInvariant == ContextInv /\ [ContextNext]_contextVars => ContextInv'
  <1> SUFFICES ASSUME ContextInv, [ContextNext]_contextVars
               PROVE  ContextInv'
    OBVIOUS
  <1>1. ASSUME NEW r \in Roles, NEW p \in Plaintexts, SealInPlace(r, p)
        PROVE  ContextInv'
    BY <1>1, ContextSealPreserves
  <1>2. ASSUME NEW r \in Roles, OpenInPlace(r)
        PROVE  ContextInv'
    BY <1>2, ContextOpenPreserves
  <1>3. ASSUME NEW r \in Roles, OpenRefused(r) \/ SealRefused(r)
        PROVE  ContextInv'
    BY <1>3, ContextStillPreserves DEF OpenRefused, SealRefused, contextVars, ContextInv, ContextTypeOK
  <1>4. CASE ContextModuleFails
    BY <1>4, ContextStillPreserves DEF ContextModuleFails
  <1>5. CASE UNCHANGED contextVars
    BY <1>5, ContextStillPreserves DEF contextVars, ContextInv, ContextTypeOK
  <1> QED
    BY <1>1, <1>2, <1>3, <1>4, <1>5 DEF ContextNext

-----------------------------------------------------------------------------
(* The theorems.                                                            *)

(* The strengthened invariant holds throughout: Context::seq is the number  *)
(* of calls of seal and open that succeeded, and what a side sealed is in   *)
(* the order of its nonces (lib.rs, Context).                               *)
THEOREM ContextInvariant == ContextSpec => []ContextInv
  BY ContextInitInvariant, ContextStepInvariant, PTL DEF ContextSpec

(* No side of a context seals two messages under one nonce, at any width of *)
(* the sequence number (Context::nonce refuses the last one).               *)
THEOREM NoncesOnce == ContextSpec => []ContextNonceOnce
  <1>1. ContextInv => ContextNonceOnce
    <2> SUFFICES ASSUME ContextInv, NEW r \in Roles, NEW i \in 1..Len(sealed[r]), NEW j \in 1..Len(sealed[r]), i # j
                 PROVE  sealed[r][i].nonce # sealed[r][j].nonce
      BY DEF ContextNonceOnce
    <2>1. sealed[r] \in Seq(ContextMessages)
      BY DEF ContextInv, LogsOK
    <2>2. PICK n \in Nat : n = Len(sealed[r])
      BY <2>1
    <2>3. i < j \/ j < i
      BY <2>2
    <2>4. sealed[r][i].nonce \in Nat /\ sealed[r][j].nonce \in Nat
      <3>1. sealed[r][i] \in ContextMessages /\ sealed[r][j] \in ContextMessages
        BY <2>1
      <3> QED
        BY <3>1 DEF ContextMessages
    <2> QED
      BY <2>3, <2>4 DEF ContextInv, SealedInOrder
  <1> QED
    BY <1>1, ContextInvariant, PTL

(* A side never opens a message of its own, though both share one key and   *)
(* one base nonce (open_in_place).                                          *)
THEOREM NeverReflected == ContextSpec => []NoReflection
  <1>1. ContextInv => NoReflection
    BY DEF ContextInv
  <1> QED
    BY <1>1, ContextInvariant, PTL

(* With one sealing side, what the other has opened is a prefix of what was *)
(* sealed (open_in_place advances only when the tag verifies).              *)
THEOREM PrefixOpened == ContextSpec => []OpenedIsPrefix
  <1>1. ContextInv => OpenedIsPrefix
    <2> SUFFICES ASSUME ContextInv, talkers = {"sender"}
                 PROVE  IsPrefix(received["receiver"], sealed["sender"])
      BY DEF OpenedIsPrefix
    <2>1. PICK s \in Seq(ContextMessages) : s = received["receiver"]
      BY DEF ContextInv, LogsOK, Roles
    <2>2. PICK t \in Seq(ContextMessages) : t = sealed["sender"]
      BY DEF ContextInv, LogsOK, Roles
    <2>3. Len(s) <= Len(t) /\ \A i \in 1..Len(s) : s[i] = t[i]
      BY <2>1, <2>2 DEF ContextInv, OneWay
    <2>4. SubSeq(s, 1, Len(s)) = SubSeq(t, 1, Len(s))
      <3>1. PICK n \in Nat : n = Len(s)
        OBVIOUS
      <3>2. \A i \in 1..n : s[i] = t[i]
        BY <2>3, <3>1
      <3>3. SubSeq(s, 1, n) = [i \in 1..n |-> s[i]]
        BY <3>1
      <3>4. SubSeq(t, 1, n) = [i \in 1..n |-> t[i]]
        BY <3>1, <2>3
      <3> QED
        BY <3>1, <3>2, <3>3, <3>4
    <2> QED
      BY <2>1, <2>2, <2>3, <2>4 DEF IsPrefix
  <1> QED
    BY <1>1, ContextInvariant, PTL

=============================================================================
