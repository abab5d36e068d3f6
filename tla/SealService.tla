------------------------------ MODULE SealService ------------------------------
(***************************************************************************)
(* The crypto_seal tool of ic-cli (crates/ic-cli/src/mcp.rs) and the       *)
(* process-wide memory of (key, nonce) pairs behind it: random_nonce,      *)
(* claim_nonce and seal_hex of crates/ic-cli/src/ops.rs.                   *)
(*                                                                         *)
(* MEMORY is a static OnceLock<Mutex<Memory>> that the first calls create  *)
(* in a race and every call then locks, so the tool is modelled with       *)
(* several callers; one step is what no other caller can observe the       *)
(* inside of.  HMAC-SHA-256 is ideal: a fingerprint is the pair of the MAC *)
(* key and the MAC's input.  A key or a nonce is a sequence of bytes,      *)
(* because the split between the two is what the length prefix is for.     *)
(***************************************************************************)
EXTENDS Integers, Sequences, FiniteSets

CONSTANTS
    Callers,        \* the threads that call the tool
    Keys,           \* AEAD keys, as byte sequences
    Nonces,         \* nonces, as byte sequences
    DrawnLen,       \* the length random_nonce draws
    NONCE_MEMORY,   \* how many pairs the process remembers
    None            \* no caller

ASSUME SealServiceAssumption ==
    /\ Keys \subseteq Seq(Nat) /\ Nonces \subseteq Seq(Nat)
    /\ NONCE_MEMORY \in Nat
    /\ None \notin Callers

VARIABLES
    pc,         \* where each caller is
    call,       \* its arguments: key, nonce, and whether the nonce was drawn
    refusal,    \* why claim_nonce refused its last call, if it did
    memory,     \* the caller whose drawn MAC key MEMORY holds, or None
    seen,       \* the fingerprints in MEMORY
    holder,     \* the caller that holds the mutex, or None
    claimed,    \* history: the pairs claim_nonce has let through
    sealed      \* history: how often each pair was sealed under

vars == <<pc, call, refusal, memory, seen, holder, claimed, sealed>>

Pairs == Keys \X Nonces

Pair(c) == <<call[c].key, call[c].nonce>>

Refusals == {"no", "reused", "full"}

Steps == {"idle", "find", "draw", "set", "lock", "look", "insert", "seal"}

TypeOK ==
    /\ pc \in [Callers -> Steps]
    /\ call \in [Callers -> [key : Keys, nonce : Nonces, drawn : BOOLEAN]]
    /\ refusal \in [Callers -> Refusals]
    /\ memory \in Callers \cup {None}
    /\ seen \subseteq Callers \X Seq(Nat)
    /\ holder \in Callers \cup {None}
    /\ claimed \subseteq Pairs
    /\ sealed \in [Pairs -> Nat]

Init ==
    /\ pc = [c \in Callers |-> "idle"]
    /\ call \in [Callers -> [key : Keys, nonce : Nonces, drawn : {FALSE}]]
    /\ \A c, d \in Callers : call[c] = call[d]
    /\ refusal = [c \in Callers |-> "no"]
    /\ memory = None
    /\ seen = {}
    /\ holder = None
    /\ claimed = {}
    /\ sealed = [p \in Pairs |-> 0]

--------------------------------------------------------------------------------
Goto(c, step) == pc' = [pc EXCEPT ![c] = step]

\* The call of c ends: refused by claim_nonce, or ("no") sealed or failed.
Return(c, how) ==
    /\ Goto(c, "idle")
    /\ refusal' = [refusal EXCEPT ![c] = how]

Begin(c, key, nonce, drawn) ==
    /\ pc[c] = "idle"
    /\ call' = [call EXCEPT ![c] = [key |-> key, nonce |-> nonce, drawn |-> drawn]]
    /\ UNCHANGED <<memory, seen, holder, claimed, sealed>>

\* A nonce given with protocol_nonce, and used as it stands whatever its length.
CallWithNonce(c) ==
    \E key \in Keys, nonce \in {n \in Nonces : n # <<>>} :
        /\ Begin(c, key, nonce, FALSE)
        /\ Goto(c, "find")
        /\ UNCHANGED refusal

\* No nonce: random_nonce draws one.  A repetition is only improbable, so any
\* nonce of the right length may come.
CallWithoutNonce(c) ==
    \E key \in Keys, nonce \in {n \in Nonces : Len(n) = DrawnLen} :
        /\ Begin(c, key, nonce, TRUE)
        /\ Goto(c, "find")
        /\ UNCHANGED refusal

\* A nonce without protocol_nonce, arguments that do not parse, or no entropy
\* for a nonce: the call ends before it reaches claim_nonce.
CallRefused(c) ==
    \E key \in Keys, nonce \in Nonces :
        /\ Begin(c, key, nonce, FALSE)
        /\ Return(c, "no")

--------------------------------------------------------------------------------
\* The look at MEMORY before it is created.
FindMemory(c) ==
    /\ pc[c] = "find"
    /\ Goto(c, IF memory = None THEN "draw" ELSE "lock")
    /\ UNCHANGED <<call, refusal, memory, seen, holder, claimed, sealed>>

DrawKey(c) ==
    /\ pc[c] = "draw"
    /\ \/ Goto(c, "set") /\ UNCHANGED refusal
       \/ Return(c, "no")
    /\ UNCHANGED <<call, memory, seen, holder, claimed, sealed>>

\* Mutant: the loser of the race stores its own memory over the winner's.
SetMemory_Overwrites(c) ==
    /\ pc[c] = "set"
    /\ memory' = c
    /\ seen' = {}
    /\ Goto(c, "lock")
    /\ UNCHANGED <<call, refusal, holder, claimed, sealed>>

\* OnceLock::set: the first one wins and the others' keys are dropped.
SetMemory(c) ==
    /\ pc[c] = "set"
    /\ memory' = IF memory = None THEN c ELSE memory
    /\ Goto(c, "lock")
    /\ UNCHANGED <<call, refusal, seen, holder, claimed, sealed>>

Lock(c) ==
    /\ pc[c] = "lock" /\ holder = None
    /\ holder' = c
    /\ Goto(c, "look")
    /\ UNCHANGED <<call, refusal, memory, seen, claimed, sealed>>

\* Mutant: key and nonce go into the MAC without the key's length.
MacInput_NoPrefix(key, nonce) == key \o nonce

\* What claim_nonce streams into the MAC: the key's length, the key, the nonce.
MacInput(key, nonce) == <<Len(key)>> \o key \o nonce

Fingerprint(p) == <<memory, MacInput(p[1], p[2])>>

HasRoom == Cardinality(seen) < NONCE_MEMORY

\* The guard goes with every return.
Unlock(c) == holder' = None

\* Under the lock: refuse a pair that is known, refuse when the memory is
\* full, or go on.  HmacSha256::new refuses every key once the module is in
\* its error state.
Look(c) ==
    /\ pc[c] = "look"
    /\ \/ /\ Return(c, "no")
          /\ Unlock(c)
       \/ /\ Fingerprint(Pair(c)) \in seen
          /\ Return(c, "reused")
          /\ Unlock(c)
       \/ /\ Fingerprint(Pair(c)) \notin seen /\ ~HasRoom
          /\ Return(c, "full")
          /\ Unlock(c)
       \/ /\ Fingerprint(Pair(c)) \notin seen /\ HasRoom
          /\ Goto(c, "insert")
          /\ UNCHANGED <<refusal, holder>>
    /\ UNCHANGED <<call, memory, seen, claimed, sealed>>

Remember(c) ==
    /\ pc[c] = "insert"
    /\ seen' = seen \cup {Fingerprint(Pair(c))}
    /\ claimed' = claimed \cup {Pair(c)}
    /\ holder' = None
    /\ Goto(c, "seal")
    /\ UNCHANGED <<call, refusal, memory, sealed>>

SealHex(c) ==
    /\ pc[c] = "seal"
    /\ sealed' = [sealed EXCEPT ![Pair(c)] = @ + 1]
    /\ Return(c, "no")
    /\ UNCHANGED <<call, memory, seen, holder, claimed>>

\* Additional data that is not hex, no plaintext, an unknown algorithm, a key or
\* nonce of the wrong length, a module in error: all found after the claim.
SealFails(c) ==
    /\ pc[c] = "seal"
    /\ Return(c, "no")
    /\ UNCHANGED <<call, memory, seen, holder, claimed, sealed>>

Continue(c) ==
    \/ FindMemory(c) \/ DrawKey(c) \/ SetMemory(c) \/ Lock(c)
    \/ Look(c) \/ Remember(c) \/ SealHex(c) \/ SealFails(c)

Next ==
    \E c \in Callers :
        CallWithNonce(c) \/ CallWithoutNonce(c) \/ CallRefused(c) \/ Continue(c)

Spec == Init /\ [][Next]_vars

--------------------------------------------------------------------------------
\* No (key, nonce) pair is sealed under twice in one process, however the calls
\* interleave and whichever of them creates the memory (claim_nonce).
PairOnce == \A p \in Pairs : sealed[p] <= 1

\* A pair refused as a reuse really was claimed before: no other split of the
\* same bytes into key and nonce is mistaken for it (the length prefix).
RefusedOnlyIfClaimed ==
    \A c \in Callers : refusal[c] = "reused" /\ pc[c] = "idle" => Pair(c) \in claimed

\* The memory never holds more than NONCE_MEMORY fingerprints, with any number
\* of callers between the look at its length and the insertion.
MemoryBounded == Cardinality(seen) <= NONCE_MEMORY

\* What the documentation of claim_nonce promises a caller that omits the
\* nonce: it is never the one refused because the memory is full.
DrawnServedWhenFull ==
    \A c \in Callers : refusal[c] = "full" /\ pc[c] = "idle" => ~call[c].drawn

--------------------------------------------------------------------------------
\* The parts of the inductive invariant of SealServiceProofs.

\* The mutex is held by the one caller inside the critical section.
LockHeld == \A c \in Callers : pc[c] \in {"look", "insert"} <=> holder = c

\* Whoever is past the creation of the memory finds one.
MemoryThere ==
    \A c \in Callers : pc[c] \in {"lock", "look", "insert", "seal"} => memory # None

\* The memory knows exactly the pairs that were claimed.
SeenIsClaimed ==
    /\ seen = {Fingerprint(p) : p \in claimed}
    /\ memory = None => claimed = {}

\* Between the look and the insertion nobody else has claimed the pair.
InsertIsNew ==
    \A c \in Callers : pc[c] = "insert" => Pair(c) \notin claimed /\ HasRoom

\* A claim belongs to one call, and is not used up before that call seals.
ClaimIsExclusive ==
    /\ \A c \in Callers : pc[c] = "seal" => Pair(c) \in claimed /\ sealed[Pair(c)] = 0
    /\ \A c, d \in Callers :
         c # d /\ pc[c] = "seal" /\ pc[d] = "seal" => Pair(c) # Pair(d)
    /\ \A p \in Pairs : sealed[p] > 0 => p \in claimed

\* The inductive invariant: TypeOK, PairOnce and the parts above.
IndInv ==
    /\ TypeOK
    /\ PairOnce /\ RefusedOnlyIfClaimed
    /\ IsFiniteSet(seen) /\ MemoryBounded
    /\ LockHeld /\ MemoryThere /\ SeenIsClaimed /\ InsertIsNew /\ ClaimIsExclusive
================================================================================
