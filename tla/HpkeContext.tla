---------------------------- MODULE HpkeContext -----------------------------
(***************************************************************************)
(* ic_hpke::Context: the sender's and the receiver's side of one HPKE setup, *)
(* which share a key and a base nonce and each count a sequence number that *)
(* seal and open both use.  Between them is a network that loses,           *)
(* duplicates, reorders and alters.                                         *)
(*                                                                          *)
(* Both sides are the same type with the same methods, so nothing in the    *)
(* code stops the receiver from sealing; talkers is the sides the program   *)
(* seals with, and never changes.  The AEAD is ideal.                       *)
(***************************************************************************)
EXTENDS Naturals, Sequences, FiniteSets, SequencesExt

CONSTANTS
    Plaintexts,
    MaxSeq       \* u64::MAX

Roles == {"sender", "receiver"}

ASSUME HpkeAssumption == MaxSeq \in Nat \ {0}

VARIABLES
    talkers,   \* the sides that call seal
    seq,       \* Context::seq of each side
    sealed,    \* what each side has sealed, in order; all of it on the network
    received,  \* what each side has opened, in order
    operational    \* ic_core::module::operational() is Ok

contextVars == <<talkers, seq, sealed, received, operational>>

\* The last sequence number is never a nonce.
ContextMessages == [by : Roles, nonce : 0..(MaxSeq - 1), payload : Plaintexts]

OnNetwork == UNION {ToSet(sealed[r]) : r \in Roles}

\* What may be handed to open: a whole message or one shorter than a tag,
\* unaltered or not.
Presented == [msg : OnNetwork, whole : BOOLEAN, altered : BOOLEAN]

-----------------------------------------------------------------------------
\* key_schedule, on both sides.
ContextInit ==
    /\ talkers \in {{"sender"}, Roles}
    /\ seq = [r \in Roles |-> 0]
    /\ sealed = [r \in Roles |-> <<>>]
    /\ received = [r \in Roles |-> <<>>]
    /\ operational = TRUE

\* Mutant: the last sequence number is used, and += 1 wraps.
NonceLeft_Wraps(r) == seq[r] <= MaxSeq

\* Context::nonce.
NonceLeft(r) == seq[r] # MaxSeq

\* self.seq += 1, on a u64.
NextSeq(n) == (n + 1) % (MaxSeq + 1)

\* Mutant: seal leaves the sequence number to open.
SealInPlace_NoAdvance(r, p) ==
    /\ r \in talkers
    /\ operational
    /\ NonceLeft(r)
    /\ Len(sealed[r]) < MaxSeq
    /\ sealed' = [sealed EXCEPT ![r] =
                    Append(@, [by |-> r, nonce |-> seq[r], payload |-> p])]
    /\ UNCHANGED <<talkers, seq, received, operational>>

\* seal_in_place, seal.
SealInPlace(r, p) ==
    /\ r \in talkers
    /\ operational
    /\ NonceLeft(r)
    /\ sealed' = [sealed EXCEPT ![r] =
                    Append(@, [by |-> r, nonce |-> seq[r], payload |-> p])]
    /\ seq' = [seq EXCEPT ![r] = NextSeq(@)]
    /\ UNCHANGED <<talkers, received, operational>>

\* seal_in_place, seal: an error.
SealRefused(r) == r \in talkers /\ ~(operational /\ NonceLeft(r)) /\ UNCHANGED contextVars

\* Everything that open checks: the module, the length, the counter, the tag.
Accepts(r, a) ==
    /\ a.whole
    /\ operational
    /\ NonceLeft(r)
    /\ ~a.altered
    /\ a.msg.nonce = seq[r]

\* open_in_place, open: Ok.
OpenInPlace(r) ==
    \E a \in Presented :
        /\ Accepts(r, a)
        /\ received' = [received EXCEPT ![r] = Append(@, a.msg)]
        /\ seq' = [seq EXCEPT ![r] = NextSeq(@)]
        /\ UNCHANGED <<talkers, sealed, operational>>

\* Mutant: a failed open uses its sequence number up.
OpenRefused_Advances(r) ==
    \E a \in Presented :
        /\ ~Accepts(r, a)
        /\ seq' = [seq EXCEPT ![r] = IF NonceLeft(r) THEN NextSeq(@) ELSE @]
        /\ UNCHANGED <<talkers, sealed, received, operational>>

\* open_in_place, open: an error, which leaves the sequence number alone.
OpenRefused(r) ==
    \E a \in Presented : ~Accepts(r, a) /\ UNCHANGED contextVars

ContextModuleFails == operational /\ operational' = FALSE /\ UNCHANGED <<talkers, seq, sealed, received>>

ContextNext ==
    \/ \E r \in Roles :
        \/ \E p \in Plaintexts : SealInPlace(r, p)
        \/ OpenInPlace(r)
        \/ OpenRefused(r)
        \/ SealRefused(r)
    \/ ContextModuleFails

ContextSpec == ContextInit /\ [][ContextNext]_contextVars

\* Every message is presented to the receiver again and again.
FairContextSpec == ContextSpec /\ WF_contextVars(OpenInPlace("receiver"))

-----------------------------------------------------------------------------
(* The counters stay in range and the logs hold messages (Context).         *)
ContextTypeOK ==
    /\ talkers \in SUBSET Roles
    /\ seq \in [Roles -> 0..MaxSeq]
    /\ \A r \in Roles : ToSet(sealed[r]) \subseteq ContextMessages /\ ToSet(received[r]) \subseteq ContextMessages
    /\ operational \in BOOLEAN

(* "A context never reuses one": no side seals two messages under one nonce, *)
(* whatever it opens in between and however long it runs (lib.rs:40-45).    *)
ContextNonceOnce ==
    \A r \in Roles : \A i, j \in 1..Len(sealed[r]) :
        i # j => sealed[r][i].nonce # sealed[r][j].nonce

(* A side's own messages can be sent back to it, and under a shared key     *)
(* they would verify at the nonce they were sealed under; it never opens    *)
(* one, because its sequence number has moved on.                           *)
NoReflection == \A r \in Roles : \A i \in 1..Len(received[r]) : received[r][i].by # r

(* With one sealing side, what is opened is what was sealed from the first  *)
(* message on, without a gap, a repetition or a swap.                       *)
OpenedIsPrefix ==
    talkers = {"sender"} => IsPrefix(received["receiver"], sealed["sender"])

(* The inductive strengthening of these.  Every call of seal and of open    *)
(* that succeeds counts, so what a side has sealed is below its sequence    *)
(* number and in order, and with one sealing side the place of a message is *)
(* its nonce.                                                               *)
LogsOK == sealed \in [Roles -> Seq(ContextMessages)] /\ received \in [Roles -> Seq(ContextMessages)]

EveryCallCounts == \A r \in Roles : seq[r] = Len(sealed[r]) + Len(received[r])

SealedInOrder ==
    \A r \in Roles :
        /\ \A i \in 1..Len(sealed[r]) : sealed[r][i].by = r /\ sealed[r][i].nonce < seq[r]
        /\ \A i, j \in 1..Len(sealed[r]) : i < j => sealed[r][i].nonce < sealed[r][j].nonce

OneWay ==
    talkers = {"sender"} =>
        /\ sealed["receiver"] = <<>> /\ received["sender"] = <<>>
        /\ \A i \in 1..Len(sealed["sender"]) : sealed["sender"][i].nonce = i - 1
        /\ Len(received["receiver"]) <= Len(sealed["sender"])
        /\ \A i \in 1..Len(received["receiver"]) : received["receiver"][i] = sealed["sender"][i]

ContextInv ==
    /\ ContextTypeOK
    /\ LogsOK
    /\ EveryCallCounts
    /\ SealedInOrder
    /\ NoReflection
    /\ OneWay

(* "A forged message cannot desynchronize the two sides": as long as the    *)
(* module is up and one side seals, whatever was sealed is opened in the    *)
(* end, if the network keeps presenting it, with any number of forgeries in *)
(* between.                                                                 *)
StaysInStep ==
    \A n \in 1..MaxSeq :
        talkers = {"sender"} /\ Len(sealed["sender"]) >= n
            ~> Len(received["receiver"]) >= n \/ ~operational
=============================================================================
