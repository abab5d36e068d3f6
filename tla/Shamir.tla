------------------------------- MODULE Shamir -------------------------------
(***************************************************************************)
(* Secret sharing (ic-cipher/src/shamir.rs) over the field of gf.rs: split, *)
(* with a random source that may fail at any byte, and combine, on any list *)
(* of the shares.                                                           *)
(***************************************************************************)
EXTENDS Integers, Sequences, FiniteSets, Bitwise

CONSTANTS
    FieldBits,     \* 8
    MODULUS,       \* the low bits of the reduction polynomial (0x1b)
    Splits,        \* calls of split: secret, threshold, share_count, exact length of out
    Picks          \* the lists of indices that combine is called with

ASSUME ShamirAssumption == FieldBits \in Nat \ {0} /\ MODULUS \in Nat

VARIABLES
    splitCall,     \* the call of split
    splitResult,
    shares,        \* its out buffer
    combined,      \* the last call of combine: its indices, result and out buffer
    shamirDown     \* the module is in its error state

shamirVars == <<splitCall, splitResult, shares, combined, shamirDown>>

-----------------------------------------------------------------------------
(* The field *)

Field == 0..(2^FieldBits - 1)

xtime(a) ==
    ((2 * a) % 2^FieldBits) ^^ (IF a >= 2^(FieldBits - 1) THEN MODULUS ELSE 0)

mul == [a \in Field, b \in Field |->
    LET state[i \in 0..FieldBits] ==
            IF i = 0 THEN [p |-> 0, a |-> a]
            ELSE LET before == state[i - 1]
                 IN  [p |-> IF (b \div 2^(i - 1)) % 2 = 1 THEN before.p ^^ before.a ELSE before.p,
                      a |-> xtime(before.a)]
    IN  state[FieldBits].p]

\* x to the power 2^FieldBits - 2, by squaring and multiplying.
inv == [x \in Field |->
    LET r[k \in 0..(FieldBits - 1)] ==
            IF k = 0 THEN x
            ELSE LET squared == mul[r[k - 1], r[k - 1]]
                 IN  IF k < FieldBits - 1 THEN mul[squared, x] ELSE squared
    IN  r[FieldBits - 1]]

-----------------------------------------------------------------------------
(* Splitting *)

\* Mutant: the shares are numbered from zero.
ShareX_FromZero(i) == i

\* The x of share i, counting from zero.
ShareX(i) == i + 1

\* Horner's rule from the highest coefficient down, ending on the secret.
Evaluated(s, coefficients, x) ==
    LET n == Len(coefficients)
        y[k \in 0..n] == IF k = 0 THEN 0 ELSE mul[y[k - 1], x] ^^ coefficients[n - k + 1]
    IN  mul[y[n], x] ^^ s

SplitError(c) ==
    CASE shamirDown -> "ModuleErrorState"
      [] ~shamirDown /\ c.secret = <<>> -> "InvalidLength"
      [] ~shamirDown /\ c.secret # <<>> /\ (c.threshold < 2 \/ c.share_count < c.threshold) -> "InvalidParameter"
      [] ~shamirDown /\ c.secret # <<>> /\ c.threshold >= 2 /\ c.share_count >= c.threshold /\ ~c.exact ->
           "InvalidLength"
      [] OTHER -> "none"

\* What the caller's buffer held.
Untouched == <<"untouched">>

NoSplit == [secret |-> <<>>]

\* The coefficients of each byte are whatever the source gives; it fails at
\* byte number fails, or not at all, and then everything is wiped.
Split(c, coefficients, fails) ==
    LET len == Len(c.secret) IN
    /\ splitCall = NoSplit
    /\ splitCall' = c
    /\ splitResult' = IF SplitError(c) # "none" THEN SplitError(c)
                      ELSE IF fails \in 1..len THEN "EntropyFailure" ELSE "Ok"
    /\ shares' = IF SplitError(c) # "none" THEN Untouched
                 ELSE IF fails \in 1..len THEN [k \in 1..(c.share_count * len) |-> 0]
                 ELSE [k \in 1..(c.share_count * len) |->
                         LET b == ((k - 1) % len) + 1
                         IN  Evaluated(c.secret[b], coefficients[b], ShareX((k - 1) \div len))]
    /\ UNCHANGED <<combined, shamirDown>>

-----------------------------------------------------------------------------
(* Combining *)

ShareOf(index) ==
    LET len == Len(splitCall.secret)
    IN  IF index \in 1..splitCall.share_count
        THEN SubSeq(shares, (index - 1) * len + 1, index * len)
        ELSE [b \in 1..len |-> 1]

\* The Lagrange basis polynomial of the i-th share at zero.
Basis(picks, i) ==
    LET products[j \in 0..Len(picks)] ==
            IF j = 0 THEN <<1, 1>>
            ELSE LET before == products[j - 1]
                 IN  IF j = i THEN before
                     ELSE <<mul[before[1], picks[j]], mul[before[2], picks[j] ^^ picks[i]]>>
        both == products[Len(picks)]
    IN  mul[both[1], inv[both[2]]]

Interpolated(picks) ==
    [b \in 1..Len(splitCall.secret) |->
        LET sum[i \in 0..Len(picks)] ==
                IF i = 0 THEN 0
                ELSE sum[i - 1] ^^ mul[ShareOf(picks[i])[b], Basis(picks, i)]
        IN  sum[Len(picks)]]

CombineError(picks, same_length) ==
    IF shamirDown THEN "ModuleErrorState"
    ELSE IF Len(picks) < 2 THEN "InvalidParameter"
    ELSE IF picks[1] = 0 THEN "InvalidParameter"
    ELSE IF ~same_length THEN "InvalidLength"
    ELSE IF \E i, j \in DOMAIN picks : picks[i] = 0 \/ (i # j /\ picks[i] = picks[j]) THEN "InvalidParameter"
    ELSE "none"

NoCombine == [picks |-> <<>>]

Combine(picks, same_length) ==
    LET error == CombineError(picks, same_length) IN
    /\ splitResult = "Ok"
    /\ combined = NoCombine
    /\ combined' = [picks |-> picks, result |-> IF error = "none" THEN "Ok" ELSE error,
                    out |-> IF error = "none" THEN Interpolated(picks) ELSE Untouched]
    /\ UNCHANGED <<splitCall, splitResult, shares, shamirDown>>

-----------------------------------------------------------------------------
ShamirInit ==
    /\ splitCall = NoSplit
    /\ splitResult = "none"
    /\ shares = Untouched
    /\ combined = NoCombine
    /\ shamirDown = FALSE

ShamirModuleFails ==
    /\ ~shamirDown
    /\ shamirDown' = TRUE
    /\ UNCHANGED <<splitCall, splitResult, shares, combined>>

\* What the random source may hand out for a call.
Drawn(c) ==
    IF c.threshold < 2 THEN {[b \in DOMAIN c.secret |-> <<>>]}
    ELSE [DOMAIN c.secret -> [1..(c.threshold - 1) -> c.random]]

ShamirNext ==
    \/ \E c \in Splits : \E coefficients \in Drawn(c), fails \in 0..Len(c.secret) :
          Split(c, coefficients, fails)
    \/ \E picks \in Picks, same_length \in BOOLEAN : Combine(picks, same_length)
    \/ ShamirModuleFails

ShamirSpec == ShamirInit /\ [][ShamirNext]_shamirVars

-----------------------------------------------------------------------------
(* Properties *)

\* Whether the shares with these indices could be of byte s at place b.
Explains(s, b, indices) ==
    \E coefficients \in [1..(splitCall.threshold - 1) -> Field] :
        \A i \in indices : Evaluated(s, coefficients, i) = ShareOf(i)[b]

(* The threshold is exact.  Any list of at least threshold shares, in any   *)
(* order, gives the secret back, and is refused for its indices only if they *)
(* repeat or one is zero; any fewer shares could be of every other secret;  *)
(* and a split that fails, at whichever byte, leaves none of what it had    *)
(* computed in the buffer (shamir.rs: "any threshold of which recover it",  *)
(* "If rng fails, out is wiped").                                           *)
ThresholdExact ==
    /\ splitResult = "Ok" /\ combined = NoCombine /\ ~shamirDown =>
         \A indices \in SUBSET (1..splitCall.share_count) :
             Cardinality(indices) = splitCall.threshold - 1 =>
                 \A b \in DOMAIN splitCall.secret, s \in Field : Explains(s, b, indices)
    /\ combined # NoCombine =>
         LET given == {combined.picks[i] : i \in DOMAIN combined.picks}
             usable == Cardinality(given) = Len(combined.picks) /\ Cardinality(given) >= 2 /\ 0 \notin given
         IN  /\ combined.result = "Ok" =>
                    /\ usable
                    /\ given \subseteq 1..splitCall.share_count /\ Cardinality(given) >= splitCall.threshold =>
                           combined.out = splitCall.secret
             /\ combined.result = "InvalidParameter" => ~usable
    /\ splitResult \notin {"none", "Ok"} =>
         shares = Untouched \/ \A k \in DOMAIN shares : shares[k] = 0
=============================================================================
