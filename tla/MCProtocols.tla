----------------------------- MODULE MCProtocols -----------------------------
(* One instance for TLC of the two protocols that the workspace takes part  *)
(* in over a network: OPAQUE, and the records of TLS and QUIC.  A behaviour *)
(* is of one of them, and the variables of the other stay as they began.    *)
EXTENDS Opaque, RecordLayer, TLC

CONSTANTS p, q, alice, bob

VARIABLE subject

Arg(client, server, context) == [client |-> client, server |-> server, context |-> context]

MCArgs == {Arg(Default, Default, "app"), Arg(<<"name">>, Default, "app"),
           Arg(Default, Default, "other"), Arg(Empty, Default, "app"),
           Arg(Default, ServerPublicKey, "app")}

MCPayloads == {[typ |-> "handshake", len |-> 1, id |-> 1],
               [typ |-> "application_data", len |-> 1, id |-> 1],
               [typ |-> "application_data", len |-> 2, id |-> 2]}

\* One password is as good as another, and one user.
Renaming == Permutations({p, q}) \cup Permutations({alice, bob})

Init ==
    /\ subject \in {"opaque", "records"}
    /\ OpaqueInit
    /\ RecordInit
    /\ subject = "opaque" => protocol = "tls13"

OpaqueStep == subject = "opaque" /\ OpaqueNext /\ UNCHANGED <<subject, recordVars>>

RecordStep == subject = "records" /\ RecordNext /\ UNCHANGED <<subject, opaqueVars>>

Next == OpaqueStep \/ RecordStep

Spec == Init /\ [][Next]_<<subject, opaqueVars, recordVars>>
=============================================================================
