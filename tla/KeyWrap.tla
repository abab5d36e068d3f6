------------------------------ MODULE KeyWrap -------------------------------
(***************************************************************************)
(* AES key wrapping (ic-cipher/src/keywrap.rs): KW for whole semiblocks,    *)
(* KWP for any number of bytes, over one loop of six passes.                *)
(*                                                                          *)
(* The block cipher is ideal: the two halves of an encrypted block are      *)
(* symbols for what was encrypted, and only both halves of one block under  *)
(* its own key decrypt to anything but noise.  A half is a pair of such a   *)
(* symbol and the number that is xored into it.                             *)
(***************************************************************************)
EXTENDS Integers, Sequences, Bitwise

CONSTANTS
    Keks,          \* key-encryption keys
    MaxBlocks,     \* MAX_BLOCKS (128)
    LengthBits,    \* the width of the length in a KWP header (32)
    Plaintexts,    \* what may be wrapped
    Ciphertexts    \* what may be unwrapped: a recipe for each, see Ciphertext

ASSUME KeyWrapAssumption == MaxBlocks \in Nat /\ LengthBits \in Nat /\ MaxBlocks * 8 + 8 < 2^LengthBits

VARIABLES
    lastWrap,      \* the last call and what it returned
    wrapDown       \* the module is in its error state

wrapVars == <<lastWrap, wrapDown>>

-----------------------------------------------------------------------------
(* The loop *)

Half(symbol) == <<symbol, 0>>
Bytes(b) == Half(<<"bytes", b>>)
KW_IV == Half(<<"kw iv">>)
KWP_IV(len) == Half(<<"kwp iv", len>>)
Noise == Half(<<"noise">>)

XorT(half, t) == <<half[1], half[2] ^^ t>>

EncryptBlock(kek, a, r) ==
    LET block == <<kek, a, r>> IN [a |-> Half(<<"high", block>>), r |-> Half(<<"low", block>>)]

DecryptBlock(kek, a, r) ==
    IF /\ a[1][1] = "high" /\ a[2] = 0 /\ r[1][1] = "low" /\ r[2] = 0
       /\ a[1][2] = r[1][2] /\ a[1][2][1] = kek
    THEN [a |-> a[1][2][2], r |-> a[1][2][3]]
    ELSE [a |-> Noise, r |-> Noise]

\* Step t of the six passes is on block t - 1 modulo n.
wrap_blocks(kek, a, r) ==
    LET n == Len(r)
        state[t \in 0..6 * n] ==
            IF t = 0 THEN [a |-> a, r |-> r]
            ELSE LET before == state[t - 1]
                     i == ((t - 1) % n) + 1
                     block == EncryptBlock(kek, before.a, before.r[i])
                 IN  [a |-> XorT(block.a, t), r |-> [before.r EXCEPT ![i] = block.r]]
    IN  state[6 * n]

unwrap_blocks(kek, a, r) ==
    LET n == Len(r)
        state[k \in 0..6 * n] ==
            IF k = 0 THEN [a |-> a, r |-> r]
            ELSE LET before == state[k - 1]
                     t == 6 * n - k + 1
                     i == ((t - 1) % n) + 1
                     block == DecryptBlock(kek, XorT(before.a, t), before.r[i])
                 IN  [a |-> block.a, r |-> [before.r EXCEPT ![i] = block.r]]
    IN  state[6 * n]

\* A single semiblock of KWP is one block of the cipher and no loop.
KwpWrapBlocks(kek, a, r) ==
    IF Len(r) = 1
    THEN LET block == EncryptBlock(kek, a, r[1]) IN [a |-> block.a, r |-> <<block.r>>]
    ELSE wrap_blocks(kek, a, r)

KwpUnwrapBlocks(kek, a, r) ==
    IF Len(r) = 1
    THEN LET block == DecryptBlock(kek, a, r[1]) IN [a |-> block.a, r |-> <<block.r>>]
    ELSE unwrap_blocks(kek, a, r)

-----------------------------------------------------------------------------
(* Wrapping *)

SemiblocksOf(len) == (len + 7) \div 8

\* The bytes in an array of zero semiblocks, as many of them as are used.
Semiblocks(p) ==
    SubSeq([i \in 1..MaxBlocks |->
              Bytes([k \in 1..8 |-> IF 8 * (i - 1) + k <= Len(p) THEN p[8 * (i - 1) + k] ELSE 0])],
           1, SemiblocksOf(Len(p)))

WrapLengthOk(alg, len) ==
    IF alg = "kw" THEN len % 8 = 0 /\ len \div 8 \in 2..MaxBlocks
    ELSE len \in 1..(MaxBlocks * 8)

Wrapped(alg, kek, p) ==
    LET made == IF alg = "kw" THEN wrap_blocks(kek, KW_IV, Semiblocks(p))
                ELSE KwpWrapBlocks(kek, KWP_IV(Len(p)), Semiblocks(p))
    IN  <<made.a>> \o made.r

\* The call, the second look at the module in the cipher's constructor
\* included: whichever of the two refuses, nothing is done.  room says that
\* the key and the caller's buffer have the right lengths.
KeyWrapCall(alg, kek, p, room) ==
    LET result == IF wrapDown THEN "ModuleErrorState"
                  ELSE IF WrapLengthOk(alg, Len(p)) /\ room THEN "Ok" ELSE "InvalidLength"
    IN  lastWrap' = [op |-> "wrap", alg |-> alg, kek |-> kek, input |-> p, result |-> result,
                     out |-> IF result = "Ok" THEN Wrapped(alg, kek, p) ELSE <<>>]

-----------------------------------------------------------------------------
(* Unwrapping *)

UnwrapLengthOk(alg, blocks, ragged) ==
    /\ ~ragged
    /\ blocks - 1 \in (IF alg = "kw" THEN 2 ELSE 1)..MaxBlocks

\* Mutant: only the upper end of the length is checked.
Plausible_UpperOnly(n, declared) == declared <= 8 * n

\* One subtraction on words for both ends: 8(n - 1) < declared <= 8n.
Plausible(n, declared) == ((8 * n - declared) % 2^LengthBits) \div 8 = 0

\* Padding is looked for in the last semiblock only.
PaddingIsZero(last, n, declared) ==
    \A k \in 1..8 : 8 * (n - 1) + k > declared => last[1][2][k] = 0

ContentOf(r) == [k \in 1..(8 * Len(r)) |-> r[(k - 1) \div 8 + 1][1][2][((k - 1) % 8) + 1]]

UnwrapOutcome(alg, kek, c) ==
    LET n == Len(c) - 1
        blocks == SubSeq(c, 2, n + 1)
        made == IF alg = "kw" THEN unwrap_blocks(kek, c[1], blocks) ELSE KwpUnwrapBlocks(kek, c[1], blocks)
        declared == made.a[1][2]
        good == IF alg = "kw" THEN made.a = KW_IV
                ELSE /\ made.a[1][1] = "kwp iv" /\ made.a[2] = 0
                     /\ Plausible(n, declared)
                     /\ PaddingIsZero(made.r[n], n, declared)
    IN  IF ~good THEN [result |-> "AuthenticationFailed", out |-> <<>>]
        ELSE [result |-> "Ok",
              out |-> IF alg = "kw" THEN ContentOf(made.r) ELSE SubSeq(ContentOf(made.r), 1, declared)]

\* What arrives: what some call wrapped; what a holder of the key made with
\* a header and semiblocks of its own; and either of them with semiblocks
\* dropped, exchanged or repeated.
Ciphertext(recipe) ==
    LET base == IF recipe.made = "wrap" THEN Wrapped(recipe.alg, recipe.kek, recipe.p)
                ELSE LET made == KwpWrapBlocks(recipe.kek, KWP_IV(recipe.declared), Semiblocks(recipe.p))
                     IN  <<made.a>> \o made.r
        n == Len(base)
    IN  CASE recipe.change = "none" -> base
          [] recipe.change = "drop" -> SubSeq(base, 1, n - 1)
          [] recipe.change = "swap" -> [base EXCEPT ![n] = base[n - 1], ![n - 1] = base[n]]
          [] recipe.change = "repeat" -> base \o <<base[n]>>

KeyUnwrapCall(alg, kek, recipe, ragged, room) ==
    LET c == Ciphertext(recipe)
        refused == IF wrapDown THEN {"ModuleErrorState"}
                   ELSE IF UnwrapLengthOk(alg, Len(c), ragged) /\ room THEN {} ELSE {"InvalidLength"}
        outcome == IF refused = {} THEN UnwrapOutcome(alg, kek, c)
                   ELSE [result |-> CHOOSE e \in refused : TRUE, out |-> <<>>]
    IN  lastWrap' = [op |-> "unwrap", alg |-> alg, kek |-> kek, input |-> recipe,
                     result |-> outcome.result, out |-> outcome.out]

-----------------------------------------------------------------------------
NoWrap == [op |-> "none"]

WrapInit == lastWrap = NoWrap /\ wrapDown = FALSE

WrapModuleFails == ~wrapDown /\ wrapDown' = TRUE /\ UNCHANGED lastWrap

WrapNext ==
    \/ /\ lastWrap = NoWrap
       /\ \/ \E alg \in {"kw", "kwp"}, kek \in Keks, p \in Plaintexts, room \in BOOLEAN :
               KeyWrapCall(alg, kek, p, room)
          \/ \E alg \in {"kw", "kwp"}, kek \in Keks, recipe \in Ciphertexts, ragged, room \in BOOLEAN :
               KeyUnwrapCall(alg, kek, recipe, ragged, room)
       /\ UNCHANGED wrapDown
    \/ WrapModuleFails

WrapSpec == WrapInit /\ [][WrapNext]_wrapVars

-----------------------------------------------------------------------------
(* Properties *)

Images == [alg \in {"kw", "kwp"}, kek \in Keks |->
             [p \in {q \in Plaintexts : WrapLengthOk(alg, Len(q))} |-> Wrapped(alg, kek, p)]]

(* Unwrapping accepts exactly what wrapping under the same key in the same  *)
(* variant makes, and returns the bytes that went in: no header with        *)
(* another length, no padding that is not zero, no exchange of semiblocks   *)
(* and no ciphertext of the other variant is taken, from one semiblock,     *)
(* which bypasses the loop, to the largest (Kw::unwrap, Kwp::unwrap).       *)
UnwrapExact ==
    lastWrap.op = "unwrap" =>
        LET c == Ciphertext(lastWrap.input)
            images == Images[lastWrap.alg, lastWrap.kek]
            sources == {p \in DOMAIN images : SemiblocksOf(Len(p)) + 1 = Len(c) /\ images[p] = c}
        IN  /\ lastWrap.result = "Ok" => sources = {lastWrap.out}
            /\ lastWrap.result = "AuthenticationFailed" => sources = {}
=============================================================================
