----------------------------- MODULE MCServices ------------------------------
(* One instance for TLC of what answers requests and reads what others      *)
(* wrote: the seal tool, the server loop, the JSON it speaks, and DER.  A   *)
(* behaviour is of one of them, and the variables of the others stay as     *)
(* they began.                                                              *)
EXTENDS SealService, McpServer, Json, Der

CONSTANTS c1, c2

VARIABLE service

-----------------------------------------------------------------------------
(* The keys and the nonces are two bytes or one, so that one string of      *)
(* three bytes is a key and a nonce in two ways.                            *)
MCCallers == {c1, c2}
MCKeys == {<<0>>, <<0, 0>>}
MCNonces == {<<0>>, <<0, 0>>}

\* Every short stream over all bytes, and longer ones of requests and line
\* ends, in which an oversized message takes several rounds to discard.
MCInputs == BoundedSeq(Bytes, 5) \union BoundedSeq({"NL", "request"}, 9)

-----------------------------------------------------------------------------
(* Texts of all shapes up to the limit of nesting and past it, and strings  *)
(* with every order of two escapes; numbers with a fraction and an exponent *)
(* from zero to infinity, halfway between two floats among them.            *)
Quoted(s) == <<"\"">> \o s \o <<"\"">>

MCJsonTexts ==
    BoundedSeq({"[", "]", ",", "7", " "}, 6)
    \cup BoundedSeq({"[", "]", ","}, 8)
    \cup BoundedSeq({"[", "]", "{", "}", "null", "nul", "-", "7"}, 4)
    \cup {<<"{">> \o s : s \in BoundedSeq({"\"", ":", "7", ",", "}"}, 6)}
    \cup BoundedSeq({"-", ".", "e", "+", "1", "5"}, 5)
    \cup {Quoted(s) : s \in BoundedSeq({"\\", "u", "a", "c", "f", "4"}, 6)
                            \cup BoundedSeq({"\\", "x4", "nl", "\"", "n"}, 4)}

Numbers == {[number |-> sign * Floats[i]] : sign \in {-1, 1}, i \in DOMAIN Floats}

Scalars == {[null |-> TRUE], [number |-> -7], [string |-> <<>>]}

Strings == {[string |-> s] : s \in BoundedSeq({"nl", "x1", "\"", "\\", "x4", "fffd", "u", "s16"}, 3)}

Objects(values) == UNION {{[object |-> f] : f \in [names -> values]} : names \in SUBSET {<<>>, <<"x4", "\"">>}}

Arrays(values) == {[array |-> s] : s \in BoundedSeq(values, 3)}

Towers == LET tower[n \in 0..4] ==
                  IF n = 0 THEN {[null |-> TRUE]}
                  ELSE UNION {{[array |-> <<v>>], [array |-> <<v, v>>], [object |-> [k \in {<<"x4">>} |-> v]]} :
                              v \in tower[n - 1]}
          IN  UNION {tower[n] : n \in 0..4}

MCJsonValues ==
    Strings \cup Numbers \cup Scalars \cup Objects(Scalars) \cup Towers
    \cup Arrays({[array |-> <<>>], [object |-> NoMembers], [null |-> TRUE]})

-----------------------------------------------------------------------------
(* DER: contents whose first bytes are at the ends of the ranges, elements  *)
(* whose lengths are right, too long a form, or wrong.                      *)
Ends == {0, 1, HALF - 1, HALF, HALF + 1, BYTE - 1}

Runs(n) == {[i \in 1..n |-> IF i = 1 THEN a ELSE IF i = 2 THEN b ELSE BYTE - 1] : a, b \in {0, 1, HALF}}

MCSignatures == UNION {{r \o s : r, s \in Runs(n)} : n \in {1, 2, 4, 5}} \cup {<<>>, <<1>>, <<1, 2, 3>>}

MCContents == UNION {Runs(n) : n \in {0, 1, 2, HALF - 2, HALF - 1, HALF, BYTE}}

Tags == {INTEGER, BIT_STRING, OCTET_STRING, NULL, OID}

LengthForms(n) ==
    {<<n>>, <<n + 1>>, <<HALF + 1, n>>, <<HALF + 1, n - 1>>, <<HALF + 2, 0, n>>, <<HALF + 2, n \div BYTE, n % BYTE>>}

Elements == UNION {{<<t>> \o l \o c : t \in Tags, l \in LengthForms(n), c \in Runs(n)} :
                   n \in {1, 2, 3, HALF - 1, HALF, BYTE}}

MCElementInputs ==
    BoundedSeq(Ends, 2) \cup {<<t>> \o s : t \in Tags, s \in BoundedSeq(Ends, 3)}
    \cup {s \in Elements : \A i \in DOMAIN s : s[i] < BYTE}

IntegerForms == {<<2, 0>>, <<2, 1, 0>>, <<2, 1, 1>>, <<2, 1, HALF>>, <<2, 2, 0, HALF>>, <<2, 2, 0, 1>>, <<2, 2, 1, 0>>,
              <<2, 3, 1, 1, 1>>, <<2, HALF + 1, 1, 1>>, <<3, 1, 1>>, <<2, 4, 0, BYTE - 1, 1, 1>>, <<2, 5, 1>>}

Bodies == {r \o s : r, s \in IntegerForms} \cup {<<2, 1, 1, 2, 1, 1, 0>>} \cup IntegerForms

Heads(n) == {<<SEQUENCE, n>>, <<SEQUENCE, HALF + 1, n>>, <<SEQUENCE, n + 1>>, <<OID, n>>}

MCSignatureInputs ==
    [input : UNION {{h \o b \o t : h \in Heads(Len(b)), t \in {<<>>, <<0>>}} : b \in Bodies},
     size : {0, 2, 3, 4, 10}]

-----------------------------------------------------------------------------
allVars == <<service, vars, serverVars, lastJson, lastDer>>

ServicesInit ==
    /\ service \in {"seal", "server", "json", "der"}
    /\ Init
    /\ ServerInit
    /\ JsonInit
    /\ DerInit
    /\ service # "server" => input = <<>>

SealStep == service = "seal" /\ Next /\ UNCHANGED <<service, serverVars, lastJson, lastDer>>

ServerStep == service = "server" /\ ServerNext /\ UNCHANGED <<service, vars, lastJson, lastDer>>

JsonStep == service = "json" /\ JsonNext /\ UNCHANGED <<service, vars, serverVars, lastDer>>

DerStep == service = "der" /\ DerNext /\ UNCHANGED <<service, vars, serverVars, lastJson>>

ServicesNext == SealStep \/ ServerStep \/ JsonStep \/ DerStep

ServicesSpec == ServicesInit /\ [][ServicesNext]_allVars

\* The loop of the server goes on.
FairServicesSpec == ServicesSpec /\ WF_serverVars(service = "server" /\ Loop)
=============================================================================
