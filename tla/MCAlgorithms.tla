---------------------------- MODULE MCAlgorithms -----------------------------
(* One instance for TLC of the algorithms with a state of their own and no  *)
(* partner: the memory of Argon2, the streaming hashes, the AEAD calls, key *)
(* wrapping and secret sharing.                                             *)
(* A behaviour is of one of them, and the variables of the others stay as   *)
(* they began.                                                              *)
EXTENDS Argon2Lanes, StreamingHash, Aead, KeyWrap, Shamir

VARIABLE subject

MCParams == {[memory_kib |-> 8, passes |-> 2, lanes |-> 1],
             [memory_kib |-> 35, passes |-> 2, lanes |-> 2],
             [memory_kib |-> 24, passes |-> 1, lanes |-> 3],
             [memory_kib |-> 15, passes |-> 1, lanes |-> 2],
             [memory_kib |-> 8, passes |-> 0, lanes |-> 1]}

AeadCallOf(alg, backend, end, len, aad, counter, long) ==
    [alg |-> alg, backend |-> backend, op |-> end[1], len |-> len, aad |-> aad,
     counter |-> counter, long |-> long, genuine |-> end[2]]

Sealing == <<"seal", TRUE>>
Ends == {Sealing, <<"open", TRUE>>, <<"open", FALSE>>}

\* Every length up to beyond the widest group, and those about the limit.
Lengths == 0..52 \cup 122..130

MCCalls ==
    {AeadCallOf("chacha20", b, Sealing, n, 0, k, TRUE) :
        b \in Backends, n \in Lengths, k \in {0, 1, 17, 63}}
    \cup {AeadCallOf("chacha20-poly1305", b, e, n, 3, 0, l) :
        b \in Backends, e \in Ends, n \in Lengths, l \in BOOLEAN}
    \cup {AeadCallOf("xchacha20-poly1305", "avx2", e, n, 3, 0, TRUE) : e \in Ends, n \in 0..9}
    \cup {AeadCallOf("gcm", k, e, n, aad, j, TRUE) :
        k \in Kernels, e \in Ends, n \in Lengths, aad \in {0, 3, 10}, j \in {1, 40}}
    \cup {AeadCallOf("gcm-siv", "generic", e, n, 3, j, TRUE) :
        e \in Ends, n \in Lengths, j \in {0, 40}}
    \cup {AeadCallOf("ctr", "generic", Sealing, n, 0, j, TRUE) : n \in Lengths, j \in {0, 40}}

\* Ones and then zeros, at the end perhaps a one again: what padding looks
\* like and what it does not.
OnesZeros(len, ones, tail) ==
    [k \in 1..len |-> IF k <= ones \/ (tail /\ k = len) THEN 1 ELSE 0]

\* Every number of bytes at an end of a semiblock, and one of the middle.
Edges == {0, 1, 7, 8, 9, 12, 15, 16, 17, 23, 24, 25}

MCPlaintexts == {OnesZeros(len, ones, tail) : len \in Edges, ones \in Edges, tail \in BOOLEAN}

Genuine == [made : {"wrap"}, alg : {"kw", "kwp"}, kek : {"k1"},
            p : {OnesZeros(len, ones, FALSE) : len \in {1, 8, 9, 16, 23, 24}, ones \in {0, 8, 24}},
            change : {"none", "drop", "swap", "repeat"}]
Crafted == [made : {"header"}, kek : {"k1"}, declared : Edges \cup {2^16 - 8, 2^16 - 7, 2^16 - 1},
            p : {OnesZeros(8 * n, ones, tail) : n \in 1..3, ones \in Edges, tail \in BOOLEAN},
            change : {"none"}]

\* A wrapping call of KW is only made of what KW takes.
MCCiphertexts ==
    {r \in Genuine : r.alg = "kw" => Len(r.p) \in {16, 24}} \cup Crafted

SplitOf(secret, threshold, count, exact, random) ==
    [secret |-> secret, threshold |-> threshold, share_count |-> count, exact |-> exact, random |-> random]

MCSplits ==
    {SplitOf(<<s>>, 2, n, TRUE, 0..7) : s \in 0..7, n \in 2..5}
    \cup {SplitOf(<<s>>, 3, n, TRUE, {0, 1, 6}) : s \in {0, 5}, n \in 3..5}
    \cup {SplitOf(<<6>>, 4, 5, TRUE, {0, 3})}
    \cup {SplitOf(<<4, 1>>, 2, 3, TRUE, {0, 2, 7})}
    \cup {SplitOf(<<2>>, t, n, e, {1}) : t \in 0..3, n \in 0..2, e \in BOOLEAN}
    \cup {SplitOf(<<>>, 2, 3, TRUE, {1})}

MCPicks == {<<>>, <<1>>, <<0, 1>>, <<1, 0>>, <<1, 1>>, <<2, 1, 2>>, <<1, 2>>, <<3, 1>>, <<2, 4>>, <<5, 4>>,
            <<1, 2, 3>>, <<3, 5, 1>>, <<4, 2, 5>>, <<1, 2, 3, 4>>, <<5, 3, 2, 1>>, <<1, 2, 3, 4, 5>>}

AnyKind == CHOOSE k \in Kinds : TRUE

Init ==
    /\ subject \in {"argon2", "hash", "aead", "wrap", "shamir"}
    /\ LaneInit
    /\ HashInit
    /\ AeadInit
    /\ WrapInit
    /\ ShamirInit
    /\ subject # "hash" => kind = AnyKind

LaneStep ==
    subject = "argon2" /\ LaneNext /\ UNCHANGED <<subject, hashVars, aeadVars, wrapVars, shamirVars>>

HashStep ==
    subject = "hash" /\ HashNext /\ UNCHANGED <<subject, laneVars, aeadVars, wrapVars, shamirVars>>

AeadStep ==
    subject = "aead" /\ AeadNext /\ UNCHANGED <<subject, laneVars, hashVars, wrapVars, shamirVars>>

WrapStep ==
    subject = "wrap" /\ WrapNext /\ UNCHANGED <<subject, laneVars, hashVars, aeadVars, shamirVars>>

ShamirStep ==
    subject = "shamir" /\ ShamirNext /\ UNCHANGED <<subject, laneVars, hashVars, aeadVars, wrapVars>>

Next == LaneStep \/ HashStep \/ AeadStep \/ WrapStep \/ ShamirStep

Spec == Init /\ [][Next]_<<subject, laneVars, hashVars, aeadVars, wrapVars, shamirVars>>
=============================================================================
