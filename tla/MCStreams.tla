------------------------------ MODULE MCStreams ------------------------------
(* One instance for TLC of the two kinds of stream that count their own     *)
(* nonces: Sealers with their Openers, and HPKE contexts.  A behaviour is   *)
(* of one of them, and the variables of the other stay as they began.       *)
(* MaxCounter and MaxSeq stand for u64::MAX; a Sealer starts at any         *)
(* counter, so it meets the limit at once or after several messages.        *)
EXTENDS SealedStream, HpkeContext

CONSTANTS p1, p2

VARIABLE kind

MCPayloads == {p1, p2}

StreamsInit ==
    /\ kind \in {"sealer", "hpke"}
    /\ Init
    /\ ContextInit
    /\ IF kind = "sealer" THEN talkers = {"sender"} ELSE saved = [s \in Senders |-> 0]

SealerStep == kind = "sealer" /\ Next /\ UNCHANGED <<kind, contextVars>>

HpkeStep == kind = "hpke" /\ ContextNext /\ UNCHANGED <<kind, vars>>

StreamsNext == SealerStep \/ HpkeStep

\* Every message is presented to the receiver of a context again and again.
StreamsSpec ==
    /\ StreamsInit /\ [][StreamsNext]_<<kind, vars, contextVars>>
    /\ WF_contextVars(HpkeStep /\ OpenInPlace("receiver"))
=============================================================================
