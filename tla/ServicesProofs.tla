---------------------------- MODULE ServicesProofs ----------------------------
(***************************************************************************)
(* Proofs about SealService for any number of callers, any keys and nonces  *)
(* and any NONCE_MEMORY, and about McpServer for any streams and any bounds *)
(* on what is held and what is discarded at a time.                         *)
(*                                                                          *)
(* PairOnce is not inductive: that a pair has not been sealed under yet     *)
(* when its claim is used rests on the claim being exclusive, which rests   *)
(* on the look and the insertion being under one lock and on the memory     *)
(* knowing exactly the claimed pairs, which rests on the length prefix.     *)
(* Nor is OneResponsePerMessage: it rests on where in the stream each phase *)
(* of the loop may be.                                                      *)
(***************************************************************************)
EXTENDS SealService, McpServer, WellFoundedInduction, FiniteSetTheorems, SequenceTheorems, TLAPS

-----------------------------------------------------------------------------
(* SealService.                                                             *)

Joined(s, t, q) ==
    /\ Len(q) = Len(s) + Len(t)
    /\ \A i \in 1..Len(s) : q[i] = s[i]
    /\ \A i \in 1..Len(t) : q[Len(s) + i] = t[i]

LEMMA JoinOf ==
    ASSUME NEW s \in Seq(Nat), NEW t \in Seq(Nat), NEW q, q = s \o t
    PROVE  Joined(s, t, q)
  BY SMTT(30) DEF Joined

\* The layout of what claim_nonce streams into the MAC.
LEMMA MacInputLayout ==
    ASSUME NEW k \in Seq(Nat), NEW n \in Seq(Nat)
    PROVE  /\ Len(MacInput(k, n)) = 1 + Len(k) + Len(n)
           /\ MacInput(k, n)[1] = Len(k)
           /\ \A i \in 1..Len(k) : MacInput(k, n)[i + 1] = k[i]
           /\ \A i \in 1..Len(n) : MacInput(k, n)[i + 1 + Len(k)] = n[i]
<1> DEFINE h == <<Len(k)>>
           p == h \o k
<1>1. h \in Seq(Nat) /\ Len(h) = 1 /\ h[1] = Len(k) /\ Len(k) \in Nat
  OBVIOUS
<1>3. MacInput(k, n) = p \o n
  BY DEF MacInput
<1> HIDE DEF h
<1>2. p \in Seq(Nat) /\ Joined(h, k, p)
  <2>1. p \in Seq(Nat)
    BY <1>1
  <2>2. h \in Seq(Nat) /\ p = h \o k
    BY <1>1
  <2> HIDE DEF p
  <2>3. Joined(h, k, p)
    BY <2>2, JoinOf
  <2> QED BY <2>1, <2>3
<1> HIDE DEF p
<1>4. PICK q : q = p \o n
  OBVIOUS
<1>5. /\ Len(q) = Len(p) + Len(n)
      /\ \A i \in 1..Len(p) : q[i] = p[i]
      /\ \A i \in 1..Len(n) : q[Len(p) + i] = n[i]
  <2>1. p \in Seq(Nat)
    BY <1>2
  <2>2. Joined(p, n, q)
    BY <1>4, <2>1, JoinOf
  <2> QED BY <2>2 DEF Joined
<1>9. Len(p) = 1 + Len(k)
  BY <1>1, <1>2 DEF Joined
<1>6. ASSUME NEW i \in 1..Len(n)
      PROVE  q[i + 1 + Len(k)] = n[i]
  <2>1. Len(p) + i = i + 1 + Len(k)
    BY <1>1, <1>9
  <2> QED BY <1>5, <2>1
<1>7. q[1] = Len(k)
  <2>1. 1 \in 1..Len(p) /\ 1 \in 1..Len(h)
    BY <1>1, <1>9
  <2>2. p[1] = h[1]
    BY <1>2, <2>1 DEF Joined
  <2> QED BY <1>1, <1>5, <2>1, <2>2
<1>8. ASSUME NEW i \in 1..Len(k)
      PROVE  q[i + 1] = k[i]
  <2>1. i + 1 = Len(h) + i /\ i + 1 \in 1..Len(p)
    BY <1>1, <1>9
  <2>2. p[i + 1] = k[i]
    BY <1>2, <2>1 DEF Joined
  <2> QED BY <1>5, <2>1, <2>2
<1>10. Len(q) = 1 + Len(k) + Len(n)
  BY <1>5, <1>9
<1> QED BY <1>3, <1>4, <1>6, <1>7, <1>8, <1>10

\* The length prefix makes the MAC's input injective: no other key and nonce
\* give claim_nonce the same bytes.
LEMMA MacInputInjective ==
    ASSUME NEW k1 \in Seq(Nat), NEW n1 \in Seq(Nat),
           NEW k2 \in Seq(Nat), NEW n2 \in Seq(Nat),
           MacInput(k1, n1) = MacInput(k2, n2)
    PROVE  k1 = k2 /\ n1 = n2
<1> DEFINE m1 == MacInput(k1, n1)
           m2 == MacInput(k2, n2)
<1>1. /\ Len(m1) = 1 + Len(k1) + Len(n1)
      /\ m1[1] = Len(k1)
      /\ \A i \in 1..Len(k1) : m1[i + 1] = k1[i]
      /\ \A i \in 1..Len(n1) : m1[i + 1 + Len(k1)] = n1[i]
  BY MacInputLayout
<1>2. /\ Len(m2) = 1 + Len(k2) + Len(n2)
      /\ m2[1] = Len(k2)
      /\ \A i \in 1..Len(k2) : m2[i + 1] = k2[i]
      /\ \A i \in 1..Len(n2) : m2[i + 1 + Len(k2)] = n2[i]
  BY MacInputLayout
<1>3. m1 = m2
  OBVIOUS
<1> HIDE DEF m1, m2
<1>4. Len(k1) = Len(k2) /\ Len(n1) = Len(n2)
  BY <1>1, <1>2, <1>3, SMTT(30)
<1>5. \A i \in 1..Len(k1) : k1[i] = k2[i]
  BY <1>1, <1>2, <1>3, <1>4
<1>6. \A i \in 1..Len(n1) : n1[i] = n2[i]
  BY <1>1, <1>2, <1>3, <1>4
<1>7. k1 = k2
  BY <1>4, <1>5, SeqEqual
<1>8. n1 = n2
  BY <1>4, <1>6, SeqEqual
<1> QED BY <1>7, <1>8

\* The fingerprints of two pairs under one memory are equal only if the pairs are.
LEMMA FingerprintInjective ==
    ASSUME NEW p \in Pairs, NEW q \in Pairs, Fingerprint(p) = Fingerprint(q)
    PROVE  p = q
<1>1. MacInput(p[1], p[2]) = MacInput(q[1], q[2])
  BY DEF Fingerprint
<1>2. p[1] \in Seq(Nat) /\ p[2] \in Seq(Nat) /\ q[1] \in Seq(Nat) /\ q[2] \in Seq(Nat)
  BY SealServiceAssumption DEF Pairs
<1>3. p[1] = q[1] /\ p[2] = q[2]
  BY <1>1, <1>2, MacInputInjective
<1> QED BY <1>3 DEF Pairs

--------------------------------------------------------------------------------
\* The memory knows a pair if and only if it was claimed.
LEMMA SeenIffClaimed ==
    ASSUME IndInv, NEW p \in Pairs
    PROVE  Fingerprint(p) \in seen <=> p \in claimed
<1>1. seen = {Fingerprint(q) : q \in claimed} /\ claimed \subseteq Pairs
  BY DEF IndInv, TypeOK, SeenIsClaimed
<1>2. ASSUME Fingerprint(p) \in seen PROVE p \in claimed
  <2>1. PICK q \in claimed : Fingerprint(p) = Fingerprint(q)
    BY <1>1, <1>2
  <2>2. q \in Pairs
    BY <1>1
  <2> QED BY <2>1, <2>2, FingerprintInjective
<1> QED BY <1>1, <1>2

\* A caller's arguments are a pair.
LEMMA PairTyped ==
    ASSUME TypeOK, NEW c \in Callers
    PROVE  Pair(c) \in Pairs
BY DEF TypeOK, Pair, Pairs

\* A fingerprint under a memory that exists is typed.
LEMMA FingerprintTyped ==
    ASSUME TypeOK, memory # None, NEW p \in Pairs
    PROVE  Fingerprint(p) \in Callers \X Seq(Nat)
<1>1. p[1] \in Seq(Nat) /\ p[2] \in Seq(Nat)
  BY SealServiceAssumption DEF Pairs
<1>2. <<Len(p[1])>> \in Seq(Nat)
  BY <1>1
<1>3. <<Len(p[1])>> \o p[1] \in Seq(Nat)
  BY <1>1, <1>2, ConcatProperties
<1>4. MacInput(p[1], p[2]) \in Seq(Nat)
  BY <1>1, <1>3, ConcatProperties DEF MacInput
<1> QED BY <1>4 DEF TypeOK, Fingerprint

\* The memory starts empty, nobody is inside the tool and nothing is sealed.
LEMMA InitInv == Init => IndInv
<1> SUFFICES ASSUME Init PROVE IndInv
  OBVIOUS
<1>1. TypeOK
  BY DEF Init, TypeOK, Steps, Refusals
<1>2. PairOnce /\ RefusedOnlyIfClaimed
  BY DEF Init, PairOnce, RefusedOnlyIfClaimed
<1>3. IsFiniteSet(seen) /\ MemoryBounded
  BY FS_EmptySet, SealServiceAssumption DEF Init, MemoryBounded
<1>4. LockHeld /\ MemoryThere /\ SeenIsClaimed
  BY SealServiceAssumption DEF Init, LockHeld, MemoryThere, SeenIsClaimed
<1>5. InsertIsNew /\ ClaimIsExclusive
  BY DEF Init, InsertIsNew, ClaimIsExclusive
<1> QED BY <1>1, <1>2, <1>3, <1>4, <1>5 DEF IndInv

\* What a step that leaves the memory and the seals alone keeps.
LEMMA MemoryKept ==
    ASSUME IndInv, UNCHANGED <<memory, seen, claimed, sealed>>
    PROVE  PairOnce' /\ IsFiniteSet(seen)' /\ MemoryBounded' /\ SeenIsClaimed'
<1>1. PairOnce' /\ IsFiniteSet(seen)' /\ MemoryBounded'
  BY DEF IndInv, PairOnce, MemoryBounded
<1>2. SeenIsClaimed'
  BY DEF IndInv, SeenIsClaimed, Fingerprint
<1> QED BY <1>1, <1>2

\* The start of a call.
LEMMA BeginStep ==
    ASSUME IndInv, NEW c \in Callers,
           CallWithNonce(c) \/ CallWithoutNonce(c) \/ CallRefused(c)
    PROVE  IndInv'
<1>0. PICK key \in Keys, nonce \in Nonces, drawn \in BOOLEAN, step \in {"find", "idle"} :
        /\ pc[c] = "idle"
        /\ call' = [call EXCEPT ![c] = [key |-> key, nonce |-> nonce, drawn |-> drawn]]
        /\ pc' = [pc EXCEPT ![c] = step]
        /\ \/ step = "find" /\ refusal' = refusal
           \/ step = "idle" /\ refusal' = [refusal EXCEPT ![c] = "no"]
        /\ UNCHANGED <<memory, seen, holder, claimed, sealed>>
  BY DEF CallWithNonce, CallWithoutNonce, CallRefused, Begin, Goto, Return
<1>1. TypeOK /\ TypeOK'
  BY <1>0 DEF IndInv, TypeOK, Steps, Refusals
<1>2. PairOnce' /\ IsFiniteSet(seen)' /\ MemoryBounded' /\ SeenIsClaimed'
  BY <1>0, MemoryKept
<1>3. ASSUME NEW d \in Callers, d # c
      PROVE  pc'[d] = pc[d] /\ Pair(d)' = Pair(d) /\ refusal'[d] = refusal[d]
  BY <1>0, <1>1, <1>3 DEF TypeOK, Pair
<1>4. pc'[c] = step /\ (step = "idle" => refusal'[c] = "no")
  BY <1>0, <1>1 DEF TypeOK
<1>5. RefusedOnlyIfClaimed'
  BY <1>0, <1>3, <1>4 DEF IndInv, RefusedOnlyIfClaimed
<1>6. LockHeld' /\ MemoryThere'
  BY <1>0, <1>3, <1>4 DEF IndInv, LockHeld, MemoryThere
<1>7. InsertIsNew'
  BY <1>0, <1>3, <1>4 DEF IndInv, InsertIsNew, HasRoom
<1>8. ClaimIsExclusive'
  BY <1>0, <1>3, <1>4 DEF IndInv, ClaimIsExclusive
<1> QED BY <1>1, <1>2, <1>5, <1>6, <1>7, <1>8 DEF IndInv

\* The creation of the memory, in a race.
LEMMA CreateStep ==
    ASSUME IndInv, NEW c \in Callers,
           FindMemory(c) \/ DrawKey(c) \/ SetMemory(c)
    PROVE  IndInv'
<1>0. PICK step \in {"draw", "lock", "set", "idle"} :
        /\ pc[c] \in {"find", "draw", "set"}
        /\ pc' = [pc EXCEPT ![c] = step]
        /\ \/ step # "idle" /\ refusal' = refusal
           \/ step = "idle" /\ refusal' = [refusal EXCEPT ![c] = "no"]
        /\ memory' = memory \/ (memory = None /\ memory' = c)
        /\ step = "lock" => memory' # None
        /\ UNCHANGED <<call, seen, holder, claimed, sealed>>
  BY SealServiceAssumption DEF FindMemory, DrawKey, SetMemory, Goto, Return
<1>1. TypeOK /\ TypeOK'
  BY <1>0 DEF IndInv, TypeOK, Steps, Refusals
<1>2. PairOnce' /\ IsFiniteSet(seen)' /\ MemoryBounded'
  BY <1>0 DEF IndInv, PairOnce, MemoryBounded
<1>2a. SeenIsClaimed'
  <2>1. CASE memory' = memory
    BY <1>0, <2>1, MemoryKept
  <2>2. CASE memory = None /\ memory' = c
    BY <1>0, <2>2 DEF IndInv, SeenIsClaimed
  <2> QED BY <1>0, <2>1, <2>2
<1>3. ASSUME NEW d \in Callers
      PROVE  Pair(d)' = Pair(d) /\ (d # c => pc'[d] = pc[d] /\ refusal'[d] = refusal[d])
  BY <1>0, <1>1 DEF TypeOK, Pair
<1>4. pc'[c] = step /\ (step = "idle" => refusal'[c] = "no")
  BY <1>0, <1>1 DEF TypeOK
<1>5. RefusedOnlyIfClaimed'
  BY <1>0, <1>3, <1>4 DEF IndInv, RefusedOnlyIfClaimed
<1>6. LockHeld'
  BY <1>0, <1>3, <1>4 DEF IndInv, LockHeld
<1>7. MemoryThere'
  BY <1>0, <1>3, <1>4, SealServiceAssumption DEF IndInv, MemoryThere
<1>8. InsertIsNew'
  BY <1>0, <1>3, <1>4 DEF IndInv, InsertIsNew, HasRoom
<1>9. ClaimIsExclusive'
  BY <1>0, <1>3, <1>4 DEF IndInv, ClaimIsExclusive
<1> QED BY <1>1, <1>2, <1>2a, <1>5, <1>6, <1>7, <1>8, <1>9 DEF IndInv

\* Taking the lock.
LEMMA LockStep ==
    ASSUME IndInv, NEW c \in Callers, Lock(c)
    PROVE  IndInv'
<1>0. /\ pc[c] = "lock" /\ holder = None /\ holder' = c
      /\ pc' = [pc EXCEPT ![c] = "look"]
      /\ UNCHANGED <<call, refusal, memory, seen, claimed, sealed>>
  BY DEF Lock, Goto
<1>1. TypeOK /\ TypeOK'
  BY <1>0 DEF IndInv, TypeOK, Steps
<1>2. PairOnce' /\ IsFiniteSet(seen)' /\ MemoryBounded' /\ SeenIsClaimed'
  BY <1>0, MemoryKept
<1>3. ASSUME NEW d \in Callers
      PROVE  Pair(d)' = Pair(d) /\ (d # c => pc'[d] = pc[d])
  BY <1>0, <1>1 DEF TypeOK, Pair
<1>4. pc'[c] = "look"
  BY <1>0, <1>1 DEF TypeOK
<1>5. RefusedOnlyIfClaimed'
  BY <1>0, <1>3, <1>4 DEF IndInv, RefusedOnlyIfClaimed
<1>6. LockHeld'
  BY <1>0, <1>3, <1>4, SealServiceAssumption DEF IndInv, LockHeld
<1>7. MemoryThere'
  BY <1>0, <1>3, <1>4 DEF IndInv, MemoryThere
<1>8. InsertIsNew'
  BY <1>0, <1>3, <1>4 DEF IndInv, InsertIsNew, HasRoom
<1>9. ClaimIsExclusive'
  BY <1>0, <1>3, <1>4 DEF IndInv, ClaimIsExclusive
<1> QED BY <1>1, <1>2, <1>5, <1>6, <1>7, <1>8, <1>9 DEF IndInv

\* The look under the lock: a refusal is justified by the memory, and a caller
\* that goes on has found its pair unclaimed.
LEMMA LookStep ==
    ASSUME IndInv, NEW c \in Callers, Look(c)
    PROVE  IndInv'
<1>0. /\ pc[c] = "look"
      /\ UNCHANGED <<call, memory, seen, claimed, sealed>>
      /\ \/ /\ pc' = [pc EXCEPT ![c] = "idle"] /\ holder' = None
            /\ \E how \in Refusals :
                 /\ refusal' = [refusal EXCEPT ![c] = how]
                 /\ how = "reused" => Fingerprint(Pair(c)) \in seen
         \/ /\ pc' = [pc EXCEPT ![c] = "insert"] /\ UNCHANGED <<refusal, holder>>
            /\ Fingerprint(Pair(c)) \notin seen /\ HasRoom
  BY DEF Look, Goto, Return, Unlock, Refusals
<1>1. TypeOK /\ TypeOK'
  BY <1>0, SMTT(30) DEF IndInv, TypeOK, Steps
<1>2. PairOnce' /\ IsFiniteSet(seen)' /\ MemoryBounded' /\ SeenIsClaimed'
  BY <1>0, MemoryKept
<1>3. ASSUME NEW d \in Callers
      PROVE  Pair(d)' = Pair(d) /\ (d # c => pc'[d] = pc[d] /\ refusal'[d] = refusal[d])
  BY <1>0, <1>1 DEF TypeOK, Pair
<1>4. \/ pc'[c] = "idle" /\ (refusal'[c] = "reused" => Fingerprint(Pair(c)) \in seen)
      \/ pc'[c] = "insert" /\ Fingerprint(Pair(c)) \notin seen /\ HasRoom
  BY <1>0, <1>1 DEF TypeOK
<1>5. Fingerprint(Pair(c)) \in seen <=> Pair(c) \in claimed
  BY <1>1, PairTyped, SeenIffClaimed
<1>6. RefusedOnlyIfClaimed'
  BY <1>0, <1>3, <1>4, <1>5 DEF IndInv, RefusedOnlyIfClaimed
<1>7. holder = c
  BY <1>0 DEF IndInv, LockHeld
<1>8. LockHeld'
  <2>1. \A d \in Callers : d # c => pc[d] \notin {"look", "insert"}
    BY <1>7 DEF IndInv, LockHeld
  <2>2. \/ pc'[c] = "idle" /\ holder' = None
        \/ pc'[c] = "insert" /\ holder' = c
    BY <1>0, <1>1, <1>7 DEF TypeOK
  <2> QED BY <1>3, <2>1, <2>2, SealServiceAssumption DEF LockHeld
<1>9. MemoryThere'
  BY <1>0, <1>3, <1>4 DEF IndInv, MemoryThere
<1>10. InsertIsNew'
  BY <1>0, <1>3, <1>4, <1>5 DEF IndInv, InsertIsNew, HasRoom
<1>11. ClaimIsExclusive'
  BY <1>0, <1>3, <1>4 DEF IndInv, ClaimIsExclusive
<1> QED BY <1>1, <1>2, <1>6, <1>8, <1>9, <1>10, <1>11 DEF IndInv

\* The insertion: the pair becomes this call's alone.
LEMMA RememberStep ==
    ASSUME IndInv, NEW c \in Callers, Remember(c)
    PROVE  IndInv'
<1>0. /\ pc[c] = "insert"
      /\ seen' = seen \cup {Fingerprint(Pair(c))}
      /\ claimed' = claimed \cup {Pair(c)}
      /\ holder' = None
      /\ pc' = [pc EXCEPT ![c] = "seal"]
      /\ UNCHANGED <<call, refusal, memory, sealed>>
  BY DEF Remember, Goto
<1>1. TypeOK /\ memory # None /\ Pair(c) \notin claimed /\ HasRoom /\ holder = c
  BY <1>0 DEF IndInv, MemoryThere, InsertIsNew, LockHeld
<1>2. Pair(c) \in Pairs
  BY <1>1, PairTyped
<1>3. Fingerprint(Pair(c)) \in Callers \X Seq(Nat)
  BY <1>1, <1>2, FingerprintTyped
<1>4. TypeOK'
  BY <1>0, <1>1, <1>2, <1>3 DEF TypeOK, Steps
<1>5. ASSUME NEW d \in Callers
      PROVE  Pair(d)' = Pair(d) /\ (d # c => pc'[d] = pc[d])
  BY <1>0, <1>1 DEF TypeOK, Pair
<1>6. pc'[c] = "seal"
  BY <1>0, <1>1 DEF TypeOK
<1>7. PairOnce' /\ RefusedOnlyIfClaimed'
  BY <1>0, <1>5, <1>6 DEF IndInv, PairOnce, RefusedOnlyIfClaimed
<1>8. IsFiniteSet(seen') /\ Cardinality(seen') <= Cardinality(seen) + 1
  <2>1. IsFiniteSet(seen) BY DEF IndInv
  <2> DEFINE f == Fingerprint(Pair(c))
  <2> HIDE DEF f
  <2>2. /\ IsFiniteSet(seen \cup {f})
        /\ Cardinality(seen \cup {f}) = IF f \in seen THEN Cardinality(seen) ELSE Cardinality(seen) + 1
    BY <2>1, FS_AddElement
  <2>3. Cardinality(seen) \in Nat
    BY <2>1, FS_CardinalityType
  <2>4. seen' = seen \cup {f}
    BY <1>0 DEF f
  <2> QED BY <2>2, <2>3, <2>4
<1>9. IsFiniteSet(seen)' /\ MemoryBounded'
  <2>1. Cardinality(seen) \in Nat /\ Cardinality(seen') \in Nat
    BY <1>8, FS_CardinalityType DEF IndInv
  <2> QED BY <1>1, <1>8, <2>1, SealServiceAssumption DEF HasRoom, MemoryBounded
<1>10. SeenIsClaimed'
  <2>1. seen = {Fingerprint(p) : p \in claimed}
    BY DEF IndInv, SeenIsClaimed
  <2>2. seen' = {Fingerprint(p) : p \in claimed'}
    BY <1>0, <2>1
  <2> QED BY <1>0, <1>1, <2>2 DEF SeenIsClaimed, Fingerprint
<1>11. \A d \in Callers : d # c => pc[d] \notin {"look", "insert"}
  BY <1>1 DEF IndInv, LockHeld
<1>12. LockHeld'
  BY <1>0, <1>5, <1>6, <1>11, SealServiceAssumption DEF LockHeld
<1>13. MemoryThere'
  BY <1>0, <1>1 DEF MemoryThere
<1>14. InsertIsNew'
  BY <1>5, <1>6, <1>11 DEF InsertIsNew
<1>15. ClaimIsExclusive'
  <2>1. sealed[Pair(c)] = 0
    BY <1>1, <1>2 DEF IndInv, TypeOK, ClaimIsExclusive
  <2>2. \A d \in Callers : d # c /\ pc[d] = "seal" => Pair(d) # Pair(c)
    BY <1>1 DEF IndInv, ClaimIsExclusive
  <2> QED BY <1>0, <1>5, <1>6, <2>1, <2>2 DEF IndInv, ClaimIsExclusive
<1> QED BY <1>4, <1>7, <1>9, <1>10, <1>12, <1>13, <1>14, <1>15 DEF IndInv

\* The seal, or its failure: the claim is used up or dropped.
LEMMA SealStep ==
    ASSUME IndInv, NEW c \in Callers, SealHex(c) \/ SealFails(c)
    PROVE  IndInv'
<1>0. /\ pc[c] = "seal"
      /\ pc' = [pc EXCEPT ![c] = "idle"]
      /\ refusal' = [refusal EXCEPT ![c] = "no"]
      /\ sealed' = sealed \/ sealed' = [sealed EXCEPT ![Pair(c)] = @ + 1]
      /\ UNCHANGED <<call, memory, seen, holder, claimed>>
  BY DEF SealHex, SealFails, Return, Goto
<1>1. TypeOK /\ Pair(c) \in claimed
  BY <1>0 DEF IndInv, ClaimIsExclusive
<1>2. Pair(c) \in Pairs
  BY <1>1, PairTyped
<1>3. /\ sealed[Pair(c)] = 0
      /\ \A d \in Callers : d # c /\ pc[d] = "seal" => Pair(d) # Pair(c)
  BY <1>0 DEF IndInv, ClaimIsExclusive
<1>4. /\ sealed' \in [Pairs -> Nat]
      /\ sealed'[Pair(c)] <= 1
      /\ \A p \in Pairs : p # Pair(c) => sealed'[p] = sealed[p]
  <2>1. PICK pair \in Pairs : pair = Pair(c)
    BY <1>2
  <2>2. sealed \in [Pairs -> Nat]
    BY <1>1 DEF TypeOK
  <2>3. CASE sealed' = sealed
    BY <1>3, <2>1, <2>2, <2>3
  <2>4. CASE sealed' = [sealed EXCEPT ![Pair(c)] = @ + 1]
    <3>1. sealed' = [sealed EXCEPT ![pair] = 1]
      BY <1>3, <2>1, <2>2, <2>4
    <3> QED BY <2>1, <2>2, <3>1
  <2> QED BY <1>0, <2>3, <2>4
<1>5. TypeOK'
  BY <1>0, <1>1, <1>4 DEF TypeOK, Steps, Refusals
<1>6. ASSUME NEW d \in Callers
      PROVE  /\ Pair(d)' = Pair(d) /\ Pair(d) \in Pairs
             /\ d # c => pc'[d] = pc[d] /\ refusal'[d] = refusal[d]
  BY <1>0, <1>1, PairTyped DEF TypeOK, Pair
<1>7. pc'[c] = "idle" /\ refusal'[c] = "no"
  BY <1>0, <1>1 DEF TypeOK
<1>8. PairOnce'
  BY <1>4 DEF IndInv, PairOnce
<1>9. RefusedOnlyIfClaimed'
  BY <1>0, <1>6, <1>7 DEF IndInv, RefusedOnlyIfClaimed
<1>10. IsFiniteSet(seen)' /\ MemoryBounded'
  BY <1>0 DEF IndInv, MemoryBounded
<1>11. SeenIsClaimed'
  BY <1>0 DEF IndInv, SeenIsClaimed, Fingerprint
<1>12. LockHeld' /\ MemoryThere'
  BY <1>0, <1>6, <1>7 DEF IndInv, LockHeld, MemoryThere
<1>13. InsertIsNew'
  BY <1>0, <1>6, <1>7 DEF IndInv, InsertIsNew, HasRoom
<1>14. ClaimIsExclusive'
  <2>1. \A d \in Callers : pc'[d] = "seal" => Pair(d)' \in claimed' /\ sealed'[Pair(d)'] = 0
    BY <1>0, <1>3, <1>4, <1>6, <1>7 DEF IndInv, ClaimIsExclusive
  <2>2. \A d, g \in Callers :
          d # g /\ pc'[d] = "seal" /\ pc'[g] = "seal" => Pair(d)' # Pair(g)'
    BY <1>6, <1>7 DEF IndInv, ClaimIsExclusive
  <2>3. \A p \in Pairs : sealed'[p] > 0 => p \in claimed'
    BY <1>0, <1>1, <1>4 DEF IndInv, ClaimIsExclusive
  <2> QED BY <2>1, <2>2, <2>3 DEF ClaimIsExclusive
<1> QED BY <1>5, <1>8, <1>9, <1>10, <1>11, <1>12, <1>13, <1>14 DEF IndInv

\* Nothing happens.
LEMMA StutterStep ==
    ASSUME IndInv, UNCHANGED vars
    PROVE  IndInv'
<1>1. TypeOK'
  BY DEF IndInv, TypeOK, vars
<1>2. PairOnce' /\ IsFiniteSet(seen)' /\ MemoryBounded' /\ SeenIsClaimed'
  BY MemoryKept DEF vars
<1>3. RefusedOnlyIfClaimed' /\ LockHeld' /\ MemoryThere'
  BY DEF IndInv, RefusedOnlyIfClaimed, LockHeld, MemoryThere, vars, Pair
<1>4. InsertIsNew' /\ ClaimIsExclusive'
  BY DEF IndInv, InsertIsNew, ClaimIsExclusive, HasRoom, vars, Pair
<1> QED BY <1>1, <1>2, <1>3, <1>4 DEF IndInv

\* The inductive invariant of crypto_seal and its nonce memory holds in every
\* state, for any number of callers.
THEOREM ServiceInvariant == Spec => []IndInv
<1>1. Init => IndInv
  BY InitInv
<1>2. IndInv /\ [Next]_vars => IndInv'
  <2> SUFFICES ASSUME IndInv, [Next]_vars PROVE IndInv'
    OBVIOUS
  <2>1. CASE UNCHANGED vars
    BY <2>1, StutterStep
  <2>2. ASSUME NEW c \in Callers, CallWithNonce(c) \/ CallWithoutNonce(c) \/ CallRefused(c)
        PROVE  IndInv'
    BY <2>2, BeginStep
  <2>3. ASSUME NEW c \in Callers, Continue(c)
        PROVE  IndInv'
    <3>1. CASE FindMemory(c) \/ DrawKey(c) \/ SetMemory(c)
      BY <3>1, CreateStep
    <3>2. CASE Lock(c)
      BY <3>2, LockStep
    <3>3. CASE Look(c)
      BY <3>3, LookStep
    <3>4. CASE Remember(c)
      BY <3>4, RememberStep
    <3>5. CASE SealHex(c) \/ SealFails(c)
      BY <3>5, SealStep
    <3> QED BY <2>3, <3>1, <3>2, <3>3, <3>4, <3>5 DEF Continue
  <2> QED BY <2>1, <2>2, <2>3 DEF Next
<1> QED BY <1>1, <1>2, PTL DEF Spec

\* crypto_seal never seals twice under one (key, nonce) pair in a process.
THEOREM PairsSealedOnce == Spec => []PairOnce
<1>1. IndInv => PairOnce
  BY DEF IndInv
<1> QED BY <1>1, ServiceInvariant, PTL

\* claim_nonce calls a pair used only if that very pair was claimed before.
THEOREM FreshPairsPass == Spec => []RefusedOnlyIfClaimed
<1>1. IndInv => RefusedOnlyIfClaimed
  BY DEF IndInv
<1> QED BY <1>1, ServiceInvariant, PTL

\* The nonce memory never exceeds NONCE_MEMORY.
THEOREM MemoryStaysBounded == Spec => []MemoryBounded
<1>1. IndInv => MemoryBounded
  BY DEF IndInv
<1> QED BY <1>1, ServiceInvariant, PTL

-----------------------------------------------------------------------------
(* McpServer: how a stream is cut and read.                                 *)

LEMMA LeastOf ==
    ASSUME NEW T, T \subseteq Nat, T # {}
    PROVE  \E x \in T : \A y \in T : x <= y
  <1> DEFINE R == OpToRel(<, Nat)
  <1>1. IsWellFoundedOn(R, Nat)
    BY NatLessThanWellFounded
  <1> HIDE DEF R
  <1>2. PICK x \in T : \A y \in T : ~(<<y, x>> \in R)
    BY <1>1, WFMin
  <1>3. \A y \in T : ~(y < x)
    BY <1>2 DEF OpToRel, R
  <1> QED
    BY <1>3

LEMMA InputType ==
    ASSUME input \in Inputs
    PROVE  input \in Seq(Bytes) /\ Len(input) \in Nat
  BY McpAssumption

\* A message ends at one place.
LEMMA EndUnique ==
    ASSUME input \in Inputs, NEW s \in Nat, NEW d, NEW e, EndOf(s, d), EndOf(s, e)
    PROVE  d = e
  <1>1. PICK n \in Nat : n = Len(input)
    BY InputType
  <1>2. d \in Nat /\ e \in Nat /\ d > s /\ e > s /\ d <= n /\ e <= n
    BY <1>1 DEF EndOf
  <1>3. CASE d < e
    <2>1. d \in (s + 1)..(e - 1) /\ d # n
      BY <1>2, <1>3
    <2>2. input[d] # "NL"
      BY <2>1 DEF EndOf, Unended
    <2> QED
      BY <1>1, <1>2, <2>1, <2>2 DEF EndOf, Boundary
  <1>4. CASE e < d
    <2>1. e \in (s + 1)..(d - 1) /\ e # n
      BY <1>2, <1>4
    <2>2. input[e] # "NL"
      BY <2>1 DEF EndOf, Unended
    <2> QED
      BY <1>1, <1>2, <2>1, <2>2 DEF EndOf, Boundary
  <1> QED
    BY <1>2, <1>3, <1>4

\* The message from s on is what is up to its end.
LEMMA MessageIs ==
    ASSUME input \in Inputs, NEW s \in Nat, NEW e, EndOf(s, e)
    PROVE  Message(s) = SubSeq(input, s + 1, e) /\ Len(Message(s)) = e - s
  <1>1. PICK n \in Nat : n = Len(input)
    BY InputType
  <1>2. PICK ends : ends = {i \in (s + 1)..n : input[i] = "NL" \/ i = n}
    OBVIOUS
  <1>3. e \in ends /\ e \in Nat /\ e > s /\ e <= n
    BY <1>1, <1>2 DEF EndOf, Boundary
  <1>4. \A i \in ends : e <= i
    <2> SUFFICES ASSUME NEW i \in ends, i < e PROVE FALSE
      BY <1>1, <1>2, <1>3
    <2>1. i \in (s + 1)..(e - 1) /\ i # n /\ input[i] = "NL"
      BY <1>2, <1>3
    <2> QED
      BY <2>1 DEF EndOf, Unended
  <1>5. PICK c : c = CHOOSE i \in ends : \A j \in ends : i <= j
    OBVIOUS
  <1>6. c \in ends /\ \A j \in ends : c <= j
    BY <1>3, <1>4, <1>5
  <1>7. c = e
    BY <1>2, <1>3, <1>4, <1>6
  <1>8. Message(s) = SubSeq(input, s + 1, e)
    BY <1>1, <1>2, <1>5, <1>7 DEF Message
  <1>9. Len(SubSeq(input, s + 1, e)) = e - s
    BY <1>1, <1>3, InputType
  <1> QED
    BY <1>8, <1>9

Piece(l, seq, a, b) == Len(l) = b - a /\ l # <<>> /\ l[Len(l)] = seq[b]

LEMMA PieceIs ==
    ASSUME NEW S, NEW seq \in Seq(S), NEW a \in Nat, NEW b \in Nat, a < b, b <= Len(seq),
           NEW l, l = SubSeq(seq, a + 1, b)
    PROVE  l \in Seq(S) /\ Piece(l, seq, a, b)
  <1>1. l \in Seq(S) /\ Len(l) = b - a
    OBVIOUS
  <1>2. l[b - a] = seq[b]
    OBVIOUS
  <1>3. Len(l) # 0
    BY <1>1
  <1> QED
    BY <1>1, <1>2, <1>3 DEF Piece

\* What a read takes.
LEMMA ReadTakes ==
    ASSUME input \in Inputs, pos \in 0..Len(input), NEW limit \in Nat, limit > 0
    PROVE  \E e \in pos..Len(input) :
              /\ ReadUntil(limit) = SubSeq(input, pos + 1, e)
              /\ ReadUntil(limit) \in Seq(Bytes) /\ Len(ReadUntil(limit)) = e - pos
              /\ ReadUntil(limit) = <<>> <=> e = pos
              /\ e = pos <=> pos = Len(input)
              /\ Unended(pos, e - 1)
              /\ e > pos => Boundary(e) \/ e = pos + limit
              /\ EndsLine(ReadUntil(limit)) <=> e > pos /\ input[e] = "NL"
  <1>1. PICK n \in Nat, p \in Nat : n = Len(input) /\ p = pos /\ p <= n
    BY InputType
  <1>2. PICK stops : stops = {i \in (p + 1)..n : input[i] = "NL" \/ i = p + limit \/ i = n}
    OBVIOUS
  <1>3. CASE p = n
    <2>1. stops = {}
      BY <1>2, <1>3
    <2>2. ReadUntil(limit) = <<>>
      BY <1>1, <1>2, <2>1 DEF ReadUntil
    <2>3. SubSeq(input, p + 1, p) = <<>>
      BY <1>1, InputType
    <2>4. Unended(p, p - 1) /\ ~EndsLine(<<>>)
      BY DEF Unended, EndsLine
    <2> QED
      BY <1>1, <1>3, <2>2, <2>3, <2>4
  <1>4. CASE p # n
    <2>1. n \in stops /\ stops \subseteq Nat
      BY <1>1, <1>2, <1>4
    <2>2. \E i \in stops : \A j \in stops : i <= j
      BY <2>1, LeastOf
    <2>3. PICK e : e = CHOOSE i \in stops : \A j \in stops : i <= j
      OBVIOUS
    <2>4. e \in stops /\ \A j \in stops : e <= j
      BY <2>2, <2>3
    <2>5. ReadUntil(limit) = SubSeq(input, p + 1, e)
      BY <1>1, <1>2, <2>1, <2>3 DEF ReadUntil
    <2>6. e \in Nat /\ e > p /\ e <= n
      BY <1>2, <2>4
    <2>7. PICK r : r = SubSeq(input, p + 1, e)
      OBVIOUS
    <2>13. e <= Len(input) /\ input \in Seq(Bytes)
      BY <1>1, <2>6, InputType
    <2>14. r \in Seq(Bytes) /\ Piece(r, input, p, e)
      BY <2>6, <2>7, <2>13, PieceIs
    <2>8. r \in Seq(Bytes) /\ Len(r) = e - p
      BY <2>14 DEF Piece
    <2>9. r # <<>> /\ (EndsLine(r) <=> input[e] = "NL")
      BY <2>14 DEF Piece, EndsLine
    <2>10. Unended(p, e - 1)
      <3> SUFFICES ASSUME NEW i \in (p + 1)..(e - 1), input[i] = "NL" PROVE FALSE
        BY DEF Unended
      <3>1. i \in stops /\ i < e
        BY <1>2, <2>6
      <3> QED
        BY <2>4, <2>6, <3>1
    <2>11. Boundary(e) \/ e = p + limit
      BY <1>1, <1>2, <2>4 DEF Boundary
    <2>12. e \in p..n /\ e # p
      BY <2>6
    <2> QED
      BY <1>1, <1>4, <2>5, <2>6, <2>7, <2>8, <2>9, <2>10, <2>11, <2>12
  <1> QED
    BY <1>3, <1>4

-----------------------------------------------------------------------------

\* What the peer sends does not change.
LEMMA InputKept ==
    ASSUME input' = input
    PROVE  /\ Starts' = Starts /\ Due' = Due
           /\ \A s : Response(s)' = Response(s)
           /\ \A s, e : (EndOf(s, e)' <=> EndOf(s, e)) /\ (Unended(s, e)' <=> Unended(s, e))
           /\ \A p : Boundary(p)' <=> Boundary(p)
  BY DEF Starts, Due, Answered, Response, Message, EndOf, Unended, Boundary

LEMMA DealtKept ==
    ASSUME input' = input, out' = out, NEW p
    PROVE  DealtWith(p)' <=> DealtWith(p)
  BY DEF Starts, Due, Answered, Response, Message, DealtWith, Responses

\* No message begins between the start of one and its end.
LEMMA DueUpTo ==
    ASSUME input \in Inputs, NEW s \in Starts, NEW e, EndOf(s, e)
    PROVE  {d \in Due : d < e} = {d \in Due : d < s} \cup (IF Answered(s) THEN {s} ELSE {})
  <1>1. PICK n \in Nat : n = Len(input)
    BY InputType
  <1>2. s \in Nat /\ e \in Nat /\ s < e /\ e <= n
    BY <1>1 DEF Starts, EndOf
  <1>3. ASSUME NEW d \in Starts, d < e, ~(d < s)
        PROVE  d = s
    <2>1. d \in Nat /\ (d = 0 \/ input[d] = "NL")
      BY <1>1 DEF Starts
    <2>2. d > s => d \in (s + 1)..(e - 1)
      BY <1>2, <1>3, <2>1
    <2>3. d > s => input[d] # "NL"
      BY <2>2 DEF EndOf, Unended
    <2> QED
      BY <1>2, <1>3, <2>1, <2>3
  <1>4. \A d \in Starts : d \in Nat
    BY <1>1 DEF Starts
  <1>5. ASSUME NEW d \in Due
        PROVE  d < e <=> d < s \/ d = s
    <2>1. d \in Starts /\ d \in Nat
      BY <1>4 DEF Due
    <2> QED
      BY <1>2, <1>3, <2>1
  <1>6. s \in Due <=> Answered(s)
    BY DEF Due
  <1> QED
    BY <1>5, <1>6

LEMMA ResponseFirst == \A s : Response(s)[1] = s
  BY DEF Response

LEMMA Appended ==
    ASSUME NEW S, NEW seq \in Seq(S), NEW x
    PROVE  /\ DOMAIN Append(seq, x) = 1..(Len(seq) + 1) /\ DOMAIN seq = 1..Len(seq)
           /\ \A i \in 1..(Len(seq) + 1) : Append(seq, x)[i] = IF i <= Len(seq) THEN seq[i] ELSE x
  OBVIOUS

\* A message that is answered is the next one dealt with.
LEMMA AnswerDeals ==
    ASSUME input \in Inputs, input' = input, NEW S, out \in Seq(S), DealtWith(start), start \in Starts,
           NEW e, EndOf(start, e), Answered(start), out' = Append(out, Response(start))
    PROVE  DealtWith(e)'
  <1>1. PICK m \in Nat : m = Len(out) /\ DOMAIN out = 1..m
    OBVIOUS
  <1>2. /\ DOMAIN out' = 1..(m + 1)
        /\ \A i \in 1..(m + 1) : out'[i] = IF i <= m THEN out[i] ELSE Response(start)
    BY <1>1, Appended
  <1>3. Responses' = Responses \cup {Response(start)}
    BY <1>1, <1>2 DEF Responses
  <1>4. Response(start)[1] = start
    BY ResponseFirst
  <1>5. \A i \in 1..m : out[i][1] < start
    <2> SUFFICES ASSUME NEW i \in 1..m PROVE out[i][1] < start
      OBVIOUS
    <2>1. out[i] \in {Response(s) : s \in {d \in Due : d < start}}
      BY <1>1 DEF DealtWith, Responses
    <2>2. PICK s \in Due : s < start /\ out[i] = Response(s)
      BY <2>1
    <2> QED
      BY <2>2, ResponseFirst
  <1>6. \A i, j \in 1..(m + 1) : i < j => out'[i][1] < out'[j][1]
    <2> SUFFICES ASSUME NEW i \in 1..(m + 1), NEW j \in 1..(m + 1), i < j
                 PROVE  out'[i][1] < out'[j][1]
      OBVIOUS
    <2>1. i \in 1..m /\ out'[i] = out[i]
      BY <1>2
    <2>2. CASE j <= m
      <3>1. j \in 1..m /\ out'[j] = out[j]
        BY <1>2, <2>2
      <3> QED
        BY <1>1, <2>1, <3>1 DEF DealtWith
    <2>3. CASE ~(j <= m)
      BY <1>2, <1>4, <1>5, <2>1, <2>3
    <2> QED
      BY <2>2, <2>3
  <1>7. {d \in Due : d < e} = {d \in Due : d < start} \cup {start}
    BY DueUpTo
  <1>8. Responses' = {Response(s) : s \in {d \in Due : d < e}}
    BY <1>3, <1>7 DEF DealtWith
  <1>9. {Response(s) : s \in {d \in Due : d < e}} = {Response(s)' : s \in {d \in Due' : d < e}}
    BY InputKept
  <1>10. \A i, j \in DOMAIN out' : i < j => out'[i][1] < out'[j][1]
    BY <1>2, <1>6
  <1> QED
    BY <1>8, <1>9, <1>10 DEF DealtWith

\* One that is not answered is dealt with by passing it over.
LEMMA SilenceDeals ==
    ASSUME input \in Inputs, input' = input, DealtWith(start), start \in Starts,
           NEW e, EndOf(start, e), ~Answered(start), out' = out
    PROVE  DealtWith(e)'
  <1>1. {d \in Due : d < e} = {d \in Due : d < start}
    BY DueUpTo
  <1>2. DealtWith(e)
    BY <1>1 DEF DealtWith
  <1> QED
    BY <1>2, DealtKept

-----------------------------------------------------------------------------

LEMMA ServerInitInvariant == ServerInit => ServerInv
  <1> SUFFICES ASSUME ServerInit PROVE ServerInv
    OBVIOUS
  <1>1. PICK n \in Nat : n = Len(input) /\ input \in Inputs
    BY InputType DEF ServerInit
  <1>2. ServerTypeOK
    BY <1>1 DEF ServerInit, ServerTypeOK, Phases
  <1>3. {d \in Due : d < 0} = {}
    BY <1>1 DEF Due, Starts
  <1>4. out = <<>> /\ pos = 0 /\ phase = "idle"
    BY DEF ServerInit
  <1>5. Responses = {}
    BY <1>4 DEF Responses
  <1>6. DealtWith(0)
    BY <1>3, <1>4, <1>5 DEF DealtWith
  <1> QED
    BY <1>2, <1>4, <1>6 DEF ServerInv, Boundary

\* A message under way, with the stream and the responses as they were.
UnderWay(s, p, l, f) ==
    /\ s \in Starts /\ s < p /\ DealtWith(s)
    /\ f \in {"measure", "serve"} =>
          /\ l = SubSeq(input, s + 1, p)
          /\ EndOf(s, p) \/ (Unended(s, p) /\ Len(l) > MAX_MESSAGE)
    /\ f = "serve" => Len(l) <= MAX_MESSAGE
    /\ f = "discard" => p - s > MAX_MESSAGE /\ Unended(s, p)
    /\ f = "refuse" => p - s > MAX_MESSAGE /\ EndOf(s, p)

LEMMA UnderWayIs == MessageUnderWay <=> UnderWay(start, pos, line, phase)
  BY DEF MessageUnderWay, UnderWay

\* A step that stays within a message.
LEMMA WithinMessage ==
    ASSUME ServerInv, input' = input, out' = out, ServerTypeOK',
           NEW s, NEW p, NEW l, NEW f, start' = s, pos' = p, line' = l, phase' = f,
           f \in {"measure", "discard", "refuse", "serve"}, UnderWay(s, p, l, f)
    PROVE  ServerInv'
  <1>1. UnderWay(s, p, l, f)'
    BY InputKept, DealtKept DEF UnderWay
  <1>2. MessageUnderWay'
    BY <1>1 DEF MessageUnderWay, UnderWay
  <1> QED
    BY <1>2 DEF ServerInv

LEMMA ServeOnPreserves == ServerInv /\ ServeOn => ServerInv'
  <1> SUFFICES ASSUME ServerInv, ServeOn PROVE ServerInv'
    OBVIOUS
  <1>1. /\ input' = input /\ pos' = pos /\ start' = start /\ line' = line /\ sink' = sink /\ out' = out
        /\ phase = "idle" /\ phase' = "read"
    BY DEF ServeOn
  <1>2. ServerTypeOK'
    BY <1>1 DEF ServerInv, ServerTypeOK, Phases
  <1>3. PICK p : p = pos
    OBVIOUS
  <1>4. Boundary(p) /\ DealtWith(p)
    BY <1>1, <1>3 DEF ServerInv
  <1>5. Boundary(p)' /\ DealtWith(p)'
    BY <1>1, <1>4, InputKept, DealtKept
  <1>6. Boundary(pos)' /\ DealtWith(pos)'
    BY <1>1, <1>3, <1>5 DEF Boundary, DealtWith
  <1> QED
    BY <1>1, <1>2, <1>6 DEF ServerInv

\* A step to the place between two messages.
LEMMA BetweenMessages ==
    ASSUME input' = input, ServerTypeOK', NEW p, pos' = p, phase' \in {"read", "end"},
           Boundary(p), DealtWith(p)', phase' = "end" => p = Len(input)
    PROVE  ServerInv'
  <1>1. Boundary(p)'
    BY InputKept
  <1>2. Boundary(pos)' /\ DealtWith(pos)'
    BY <1>1 DEF Boundary, DealtWith
  <1> QED
    BY <1>2 DEF ServerInv

LEMMA InputIs ==
    ASSUME ServerInv
    PROVE  input \in Inputs /\ input \in Seq(Bytes)
  BY InputType DEF ServerInv, ServerTypeOK

LEMMA TypeIs ==
    ASSUME ServerInv
    PROVE  /\ Len(input) \in Nat
           /\ pos \in 0..Len(input) /\ pos \in Nat /\ start \in 0..pos /\ start \in Nat
           /\ MAX_MESSAGE \in Nat /\ MAX_MESSAGE > 0 /\ CHUNK \in Nat /\ CHUNK > 0
  <1>1. Len(input) \in Nat
    BY InputIs, InputType
  <1>2. pos \in 0..Len(input) /\ start \in 0..pos
    BY DEF ServerInv, ServerTypeOK
  <1> QED
    BY <1>1, <1>2, McpAssumption

LEMMA LinesTyped ==
    ASSUME ServerInv
    PROVE  line \in Seq(Bytes) /\ sink \in Seq(Bytes) /\ Len(line) \in Nat
  <1>1. line \in Seq(Bytes) /\ sink \in Seq(Bytes)
    BY DEF ServerInv, ServerTypeOK
  <1>2. \A t \in Seq(Bytes) : Len(t) \in Nat
    OBVIOUS
  <1> QED
    BY <1>1, <1>2

LEMMA UnendedOneMore ==
    ASSUME NEW s \in Nat, NEW e \in Nat, Unended(s, e - 1), input[e] # "NL"
    PROVE  Unended(s, e)
  <1> SUFFICES ASSUME NEW i \in (s + 1)..e PROVE input[i] # "NL"
    BY DEF Unended
  <1>1. i = e \/ i \in (s + 1)..(e - 1)
    OBVIOUS
  <1> QED
    BY <1>1 DEF Unended

LEMMA AppendIn ==
    ASSUME NEW S, NEW seq \in Seq(S), NEW x \in S
    PROVE  Append(seq, x) \in Seq(S)
  OBVIOUS

ResponseLists == Seq((0..Len(input)) \X {"answer", "too large"})

LEMMA OutTyped == ServerInv => out \in ResponseLists
  BY DEF ServerInv, ServerTypeOK, ResponseLists

LEMMA TypeKept ==
    ASSUME ServerInv, input' = input, pos' \in 0..Len(input), start' \in 0..pos',
           line' \in Seq(Bytes), sink' \in Seq(Bytes), phase' \in Phases, out' \in ResponseLists
    PROVE  ServerTypeOK'
  BY DEF ServerInv, ServerTypeOK, ResponseLists

LEMMA StartsIn ==
    ASSUME ServerInv, NEW s \in Starts
    PROVE  s \in Nat /\ s < Len(input) /\ s \in 0..Len(input)
  BY TypeIs DEF Starts

LEMMA ReadLinePreserves == ServerInv /\ ReadLine => ServerInv'
  <1> SUFFICES ASSUME ServerInv, ReadLine PROVE ServerInv'
    OBVIOUS
  <1>1. /\ phase = "read" /\ line' = ReadUntil(MAX_MESSAGE + 1) /\ pos' = pos + Len(line') /\ start' = pos
        /\ phase' = (IF line' = <<>> THEN "end" ELSE "measure")
        /\ input' = input /\ sink' = sink /\ out' = out
    BY DEF ReadLine
  <1>2. PICK n \in Nat, p \in Nat, limit \in Nat : n = Len(input) /\ p = pos /\ p <= n
                                                  /\ limit = MAX_MESSAGE + 1 /\ limit > 0
    BY TypeIs
  <1>3. PICK e \in p..n :
              /\ ReadUntil(limit) = SubSeq(input, p + 1, e)
              /\ ReadUntil(limit) \in Seq(Bytes) /\ Len(ReadUntil(limit)) = e - p
              /\ ReadUntil(limit) = <<>> <=> e = p
              /\ e = p <=> p = n
              /\ Unended(p, e - 1)
              /\ e > p => Boundary(e) \/ e = p + limit
              /\ EndsLine(ReadUntil(limit)) <=> e > p /\ input[e] = "NL"
    BY <1>2, ReadTakes, TypeIs, InputIs, ZenonT(60)
  <1>4. e \in Nat /\ pos' = e /\ start' = p /\ line' = SubSeq(input, p + 1, e) /\ line' \in Seq(Bytes)
    <2>1. PICK l : l = ReadUntil(limit) /\ l = line'
      BY <1>1, <1>2
    <2>2. l = SubSeq(input, p + 1, e) /\ l \in Seq(Bytes) /\ Len(l) = e - p
      BY <1>3, <2>1, Zenon
    <2>3. pos' = p + Len(l) /\ start' = p
      BY <1>1, <1>2, <2>1
    <2>4. e \in Nat /\ p + (e - p) = e
      BY <1>2
    <2> QED
      BY <2>1, <2>2, <2>3, <2>4
  <1>5. Boundary(p) /\ DealtWith(p)
    BY <1>1, <1>2 DEF ServerInv
  <1>6. ServerTypeOK'
    <2>1. pos' \in 0..Len(input) /\ start' \in 0..pos'
      BY <1>2, <1>3, <1>4
    <2>2. phase' \in Phases
      BY <1>1 DEF Phases
    <2> QED
      BY <1>1, <1>4, <2>1, <2>2, InputIs, LinesTyped, OutTyped, TypeKept
  <1>7. CASE e = p
    <2>1. phase' = "end" /\ p = n
      BY <1>1, <1>2, <1>3, <1>7
    <2>2. DealtWith(p)'
      BY <1>1, <1>5, DealtKept
    <2> QED
      BY <1>1, <1>2, <1>4, <1>5, <1>6, <1>7, <2>1, <2>2, BetweenMessages
  <1>8. CASE e # p
    <2>1. phase' = "measure"
      BY <1>1, <1>2, <1>3, <1>8
    <2>2. p \in Starts /\ p < e
      <3>1. p # n /\ p < n
        BY <1>2, <1>3, <1>8
      <3> QED
        BY <1>2, <1>3, <1>5, <1>8, <3>1 DEF Starts, Boundary
    <2>3. PICK l : l = SubSeq(input, p + 1, e) /\ Len(l) = e - p
      BY <1>2, <1>3
    <2>4. EndOf(p, e) \/ (Unended(p, e) /\ Len(l) > MAX_MESSAGE)
      <3>1. CASE Boundary(e)
        <4>1. e \in (p + 1)..Len(input)
          BY <1>2, <1>3, <2>2
        <4> QED
          BY <1>3, <3>1, <4>1 DEF EndOf
      <3>2. CASE ~Boundary(e)
        <4>1. e = p + limit /\ input[e] # "NL"
          BY <1>3, <2>2, <3>2 DEF Boundary
        <4>2. Unended(p, e)
          BY <1>3, <1>4, <4>1, UnendedOneMore
        <4>3. Len(l) > MAX_MESSAGE
          <5>1. PICK m \in Nat : m = MAX_MESSAGE /\ limit = m + 1
            BY <1>2, TypeIs
          <5>2. Len(l) = limit
            BY <1>4, <2>3, <4>1
          <5> QED
            BY <5>1, <5>2
        <4> QED
          BY <4>2, <4>3
      <3> QED
        BY <3>1, <3>2
    <2>5. UnderWay(p, e, l, "measure")
      BY <1>5, <2>2, <2>3, <2>4 DEF UnderWay
    <2> QED
      BY <1>1, <1>4, <1>6, <2>1, <2>3, <2>5, WithinMessage
  <1> QED
    BY <1>7, <1>8

LEMMA MeasurePreserves == ServerInv /\ Measure => ServerInv'
  <1> SUFFICES ASSUME ServerInv, Measure PROVE ServerInv'
    OBVIOUS
  <1>1. /\ phase = "measure"
        /\ phase' = CASE TooLarge /\ ~EndsLine(line) -> "discard"
                      [] TooLarge /\ EndsLine(line)  -> "refuse"
                      [] ~TooLarge                   -> "serve"
        /\ input' = input /\ pos' = pos /\ start' = start /\ line' = line /\ sink' = sink /\ out' = out
    BY DEF Measure
  <1>2. PICK s, p, l : s = start /\ p = pos /\ l = line
    OBVIOUS
  <1>3. UnderWay(s, p, l, "measure")
    BY <1>1, <1>2, UnderWayIs DEF ServerInv
  <1>4. /\ s \in Nat /\ p \in Nat /\ s < p /\ p <= Len(input) /\ Len(input) \in Nat
        /\ l = SubSeq(input, s + 1, p)
        /\ EndOf(s, p) \/ (Unended(s, p) /\ Len(l) > MAX_MESSAGE)
    BY <1>2, <1>3, TypeIs DEF UnderWay
  <1>5. Len(l) = p - s /\ l # <<>> /\ l[Len(l)] = input[p]
    <2>1. s < p /\ p <= Len(input) /\ input \in Seq(Bytes) /\ s \in Nat /\ p \in Nat
          /\ l = SubSeq(input, s + 1, p)
      BY <1>4, InputIs
    <2>2. Piece(l, input, s, p)
      BY <2>1, PieceIs
    <2> QED
      BY <2>2 DEF Piece
  <1>6. EndsLine(l) <=> input[p] = "NL"
    BY <1>5 DEF EndsLine
  <1>7. ServerTypeOK'
    BY <1>1 DEF ServerInv, ServerTypeOK, Phases
  <1>8. CASE TooLarge /\ ~EndsLine(line)
    <2>1. phase' = "discard" /\ Len(l) > MAX_MESSAGE /\ input[p] # "NL"
      BY <1>1, <1>2, <1>6, <1>8 DEF TooLarge
    <2>2. Unended(s, p)
      BY <1>4, <2>1 DEF EndOf, Unended
    <2>3. UnderWay(s, p, l, "discard")
      BY <1>3, <1>5, <2>1, <2>2 DEF UnderWay
    <2> QED
      BY <1>1, <1>2, <1>7, <2>1, <2>3, WithinMessage
  <1>9. CASE TooLarge /\ EndsLine(line)
    <2>1. phase' = "refuse" /\ Len(l) > MAX_MESSAGE /\ input[p] = "NL"
      BY <1>1, <1>2, <1>6, <1>9 DEF TooLarge
    <2>2. ~Unended(s, p)
      BY <1>4, <2>1 DEF Unended
    <2>3. UnderWay(s, p, l, "refuse")
      BY <1>3, <1>4, <1>5, <2>1, <2>2 DEF UnderWay
    <2> QED
      BY <1>1, <1>2, <1>7, <2>1, <2>3, WithinMessage
  <1>10. CASE ~TooLarge
    <2>1. phase' = "serve" /\ Len(l) <= MAX_MESSAGE
      BY <1>1, <1>2, <1>4, <1>5, <1>10, TypeIs, SMTT(30) DEF TooLarge
    <2>2. UnderWay(s, p, l, "serve")
      BY <1>3, <2>1 DEF UnderWay
    <2> QED
      BY <1>1, <1>2, <1>7, <2>1, <2>2, WithinMessage
  <1> QED
    BY <1>8, <1>9, <1>10

LEMMA DiscardPreserves == ServerInv /\ Discard => ServerInv'
  <1> SUFFICES ASSUME ServerInv, Discard PROVE ServerInv'
    OBVIOUS
  <1>1. /\ phase = "discard" /\ sink' = ReadUntil(CHUNK) /\ pos' = pos + Len(sink')
        /\ phase' = (IF Discarded(sink') THEN "refuse" ELSE "discard")
        /\ input' = input /\ start' = start /\ line' = line /\ out' = out
    BY DEF Discard
  <1>2. PICK n \in Nat, p \in Nat : n = Len(input) /\ p = pos /\ p <= n
    BY TypeIs
  <1>3. PICK e \in p..n :
              /\ ReadUntil(CHUNK) = SubSeq(input, p + 1, e)
              /\ ReadUntil(CHUNK) \in Seq(Bytes) /\ Len(ReadUntil(CHUNK)) = e - p
              /\ ReadUntil(CHUNK) = <<>> <=> e = p
              /\ e = p <=> p = n
              /\ Unended(p, e - 1)
              /\ e > p => Boundary(e) \/ e = p + CHUNK
              /\ EndsLine(ReadUntil(CHUNK)) <=> e > p /\ input[e] = "NL"
    BY <1>2, ReadTakes, TypeIs, InputIs
  <1>4. e \in Nat /\ pos' = e /\ sink' \in Seq(Bytes)
    BY <1>1, <1>2, <1>3
  <1>5. PICK s, l : s = start /\ l = line
    OBVIOUS
  <1>6. UnderWay(s, p, l, "discard")
    BY <1>1, <1>2, <1>5, UnderWayIs DEF ServerInv
  <1>7. s \in Nat /\ s < p /\ p - s > MAX_MESSAGE /\ Unended(s, p)
    BY <1>5, <1>6, TypeIs DEF UnderWay
  <1>8. ServerTypeOK'
    <2>1. pos' \in 0..Len(input) /\ start' \in 0..pos'
      BY <1>1, <1>2, <1>3, <1>4, <1>5, <1>7
    <2>2. phase' \in Phases
      BY <1>1 DEF Phases
    <2> QED
      BY <1>1, <1>4, <2>1, <2>2, InputIs, LinesTyped, OutTyped, TypeKept
  <1>9. Unended(s, e - 1)
    <2> SUFFICES ASSUME NEW i \in (s + 1)..(e - 1) PROVE input[i] # "NL"
      BY DEF Unended
    <2>1. CASE i \in (s + 1)..p
      BY <1>7, <2>1 DEF Unended
    <2>2. CASE i \in (p + 1)..(e - 1)
      BY <1>3, <2>2 DEF Unended
    <2> QED
      BY <1>4, <1>7, <2>1, <2>2
  <1>10. e - s > MAX_MESSAGE /\ s < e
    <2>1. e >= p
      BY <1>3
    <2> QED
      BY <1>4, <1>7, <2>1, TypeIs
  <1>11. CASE Discarded(sink')
    <2>1. phase' = "refuse" /\ (e = p \/ input[e] = "NL")
      BY <1>1, <1>3, <1>11 DEF Discarded
    <2>2. Boundary(e)
      BY <1>2, <1>3, <2>1 DEF Boundary
    <2>3. e \in (s + 1)..Len(input)
      BY <1>2, <1>3, <1>4, <1>7, <1>10
    <2>4. EndOf(s, e)
      BY <1>9, <2>2, <2>3 DEF EndOf
    <2>5. UnderWay(s, e, l, "refuse")
      BY <1>6, <1>10, <2>4 DEF UnderWay
    <2> QED
      BY <1>1, <1>4, <1>5, <1>8, <2>1, <2>5, WithinMessage
  <1>12. CASE ~Discarded(sink')
    <2>1. phase' = "discard" /\ e # p /\ input[e] # "NL"
      <3>1. phase' = "discard" /\ e # p
        BY <1>1, <1>3, <1>12 DEF Discarded
      <3>2. e > p
        BY <1>3, <3>1
      <3> QED
        BY <1>1, <1>3, <1>12, <3>1, <3>2 DEF Discarded
    <2>2. Unended(s, e)
      BY <1>4, <1>7, <1>9, <2>1, UnendedOneMore
    <2>3. UnderWay(s, e, l, "discard")
      BY <1>6, <1>10, <2>2 DEF UnderWay
    <2> QED
      BY <1>1, <1>4, <1>5, <1>8, <2>1, <2>3, WithinMessage
  <1> QED
    BY <1>11, <1>12

\* The end of a message, however it is answered.
LEMMA NextPreserves ==
    ASSUME ServerInv, NextMessage, NEW s, NEW e, s = start, e = pos, s \in Starts, DealtWith(s), EndOf(s, e),
           \/ Answered(s) /\ out' = Append(out, Response(s))
           \/ ~Answered(s) /\ out' = out
    PROVE  ServerInv'
  <1>1. /\ input' = input /\ pos' = e /\ start' = s /\ phase' = "read" /\ line' = <<>> /\ sink' = <<>>
    BY DEF NextMessage
  <1>2. DealtWith(e)'
    <2>1. out \in ResponseLists
      BY OutTyped
    <2>2. DealtWith(start) /\ start \in Starts /\ EndOf(start, e) /\ input \in Inputs
      BY InputIs
    <2>3. CASE Answered(s) /\ out' = Append(out, Response(s))
      <3>1. Answered(start) /\ out' = Append(out, Response(start))
        BY <2>3
      <3> QED
        BY <1>1, <2>1, <2>2, <3>1, AnswerDeals DEF ResponseLists
    <2>4. CASE ~Answered(s) /\ out' = out
      <3>1. ~Answered(start)
        BY <2>4
      <3> QED
        BY <1>1, <2>2, <2>4, <3>1, SilenceDeals
    <2> QED
      BY <2>3, <2>4
  <1>3. Boundary(e)
    BY DEF EndOf
  <1>4. Response(s) \in (0..Len(input)) \X {"answer", "too large"}
    <2>1. s \in 0..Len(input)
      BY StartsIn
    <2> QED
      BY <2>1 DEF Response
  <1>5. out' \in ResponseLists
    <2>1. Append(out, Response(s)) \in ResponseLists
      BY <1>4, OutTyped, AppendIn DEF ResponseLists
    <2> QED
      BY <2>1, OutTyped
  <1>6. ServerTypeOK'
    <2>1. pos' \in 0..Len(input) /\ start' \in 0..pos'
      BY <1>1, TypeIs
    <2>2. phase' \in Phases /\ <<>> \in Seq(Bytes)
      BY <1>1 DEF Phases
    <2> QED
      BY <1>1, <1>5, <2>1, <2>2, TypeKept
  <1> QED
    BY <1>1, <1>2, <1>3, <1>6, BetweenMessages

LEMMA RefusePreserves == ServerInv /\ Refuse => ServerInv'
  <1> SUFFICES ASSUME ServerInv, Refuse PROVE ServerInv'
    OBVIOUS
  <1>1. phase = "refuse" /\ out' = Append(out, <<start, "too large">>) /\ NextMessage
    BY DEF Refuse
  <1>2. PICK s, e, l : s = start /\ e = pos /\ l = line
    OBVIOUS
  <1>3. UnderWay(s, e, l, "refuse")
    BY <1>1, <1>2, UnderWayIs DEF ServerInv
  <1>4. s \in Starts /\ DealtWith(s) /\ EndOf(s, e) /\ e - s > MAX_MESSAGE /\ s \in Nat
    BY <1>2, <1>3, TypeIs DEF UnderWay
  <1>5. Len(Message(s)) > MAX_MESSAGE
    BY <1>4, MessageIs, InputIs
  <1>6. Answered(s) /\ Response(s) = <<s, "too large">>
    BY <1>5 DEF Answered, Response
  <1> QED
    BY <1>1, <1>2, <1>4, <1>6, NextPreserves

\* The loop ends in the middle of a step, and leaves everything else as it is.
LEMMA HaltsPreserves ==
    ASSUME ServerInv, phase \in {"read", "discard", "refuse", "serve"},
           phase' = "failed" \/ (phase' = "stopped" /\ phase = "serve"),
           UNCHANGED <<input, pos, start, line, sink, out>>
    PROVE  ServerInv'
  <1>1. /\ input' = input /\ pos' = pos /\ start' = start /\ line' = line /\ sink' = sink /\ out' = out
        /\ phase' \in {"failed", "stopped"}
    OBVIOUS
  <1>2. PICK s, p : s = start /\ p = pos
    OBVIOUS
  <1>3. (DealtWith(s) \/ DealtWith(p)) /\ (phase' = "stopped" => DealtWith(s))
    BY <1>2 DEF ServerInv, MessageUnderWay
  <1>4. (DealtWith(s)' \/ DealtWith(p)') /\ (phase' = "stopped" => DealtWith(s)')
    BY <1>1, <1>3, DealtKept
  <1>5. (DealtWith(start)' \/ DealtWith(pos)') /\ (phase' = "stopped" => DealtWith(start)')
    BY <1>1, <1>2, <1>4 DEF DealtWith
  <1>6. ServerTypeOK'
    BY <1>1 DEF ServerInv, ServerTypeOK, Phases
  <1> QED
    BY <1>1, <1>5, <1>6 DEF ServerInv

LEMMA ServePreserves == ServerInv /\ Serve => ServerInv'
  <1> SUFFICES ASSUME ServerInv, Serve PROVE ServerInv'
    OBVIOUS
  <1>0. CASE phase = "serve" /\ phase' = "stopped" /\ UNCHANGED <<input, pos, start, line, sink, out>>
    BY <1>0, HaltsPreserves
  <1>1. SUFFICES ASSUME phase = "serve", NextMessage,
                        out' = IF Silent THEN out ELSE Append(out, <<start, "answer">>)
                 PROVE  ServerInv'
    BY <1>0 DEF Serve
  <1>2. PICK s, e, l : s = start /\ e = pos /\ l = line
    OBVIOUS
  <1>3. UnderWay(s, e, l, "serve")
    BY <1>1, <1>2, UnderWayIs DEF ServerInv
  <1>4. /\ s \in Starts /\ DealtWith(s) /\ s \in Nat /\ l = SubSeq(input, s + 1, e) /\ EndOf(s, e)
        /\ Len(l) \in Nat /\ MAX_MESSAGE \in Nat /\ Len(l) <= MAX_MESSAGE
    <2>1. Len(l) \in Nat /\ s \in Nat /\ MAX_MESSAGE \in Nat
      BY <1>2, TypeIs, LinesTyped
    <2> QED
      BY <1>3, <2>1 DEF UnderWay
  <1>5. Message(s) = l
    BY <1>4, MessageIs, InputIs
  <1>6. ~(Len(Message(s)) > MAX_MESSAGE)
    <2>1. PICK m \in Nat, n \in Nat : m = MAX_MESSAGE /\ n = Len(l) /\ n <= m
      BY <1>4
    <2> QED
      BY <1>5, <2>1
  <1>7. (Silent <=> ~Answered(s)) /\ Response(s) = <<s, "answer">>
    BY <1>2, <1>5, <1>6 DEF Silent, Answered, Response
  <1> QED
    BY <1>1, <1>2, <1>4, <1>7, NextPreserves

LEMMA IoFailsPreserves == ServerInv /\ IoFails => ServerInv'
  BY HaltsPreserves DEF IoFails

LEMMA ServerUnchangedPreserves ==
    ASSUME ServerInv, UNCHANGED serverVars
    PROVE  ServerInv'
  <1>1. /\ input' = input /\ pos' = pos /\ start' = start /\ line' = line /\ sink' = sink
        /\ phase' = phase /\ out' = out
    BY DEF serverVars
  <1>2. ServerTypeOK'
    BY <1>1 DEF ServerInv, ServerTypeOK
  <1>3. PICK s, p, l, f : s = start /\ p = pos /\ l = line /\ f = phase
    OBVIOUS
  <1>4. CASE phase \in {"measure", "discard", "refuse", "serve"}
    <2>1. UnderWay(s, p, l, f)
      BY <1>3, <1>4, UnderWayIs DEF ServerInv
    <2> QED
      BY <1>1, <1>2, <1>3, <1>4, <2>1, WithinMessage
  <1>5. CASE phase \in {"idle", "read", "end", "failed", "stopped"}
    <2>1. /\ phase \in {"idle", "read", "end"} => Boundary(p) /\ DealtWith(p)
          /\ phase = "failed" => DealtWith(s) \/ DealtWith(p)
          /\ phase = "stopped" => DealtWith(s)
      BY <1>3 DEF ServerInv
    <2>2. /\ phase \in {"idle", "read", "end"} => Boundary(p)' /\ DealtWith(p)'
          /\ phase = "failed" => DealtWith(s)' \/ DealtWith(p)'
          /\ phase = "stopped" => DealtWith(s)'
      BY <1>1, <2>1, InputKept, DealtKept
    <2>3. /\ phase \in {"idle", "read", "end"} => Boundary(pos)' /\ DealtWith(pos)'
          /\ phase = "failed" => DealtWith(start)' \/ DealtWith(pos)'
          /\ phase = "stopped" => DealtWith(start)'
      BY <1>1, <1>3, <2>2 DEF Boundary, DealtWith
    <2> QED
      BY <1>1, <1>2, <1>5, <2>3 DEF ServerInv
  <1> QED
    BY <1>4, <1>5 DEF ServerInv, ServerTypeOK, Phases

LEMMA ServerNextPreserves == ServerInv /\ [ServerNext]_serverVars => ServerInv'
  <1> SUFFICES ASSUME ServerInv, [ServerNext]_serverVars PROVE ServerInv'
    OBVIOUS
  <1>1. CASE Returned
    BY <1>1, ServerUnchangedPreserves DEF Returned
  <1>2. CASE UNCHANGED serverVars
    BY <1>2, ServerUnchangedPreserves
  <1> QED
    BY <1>1, <1>2, ServeOnPreserves, ReadLinePreserves, MeasurePreserves, DiscardPreserves,
       RefusePreserves, ServePreserves, IoFailsPreserves DEF ServerNext, Loop

(* Between two messages the loop is at a cut of the stream and has dealt    *)
(* with exactly the messages before it; within one it holds, or has thrown  *)
(* away, exactly that message so far (serve_on).                            *)
THEOREM ServerInvariant == ServerSpec => []ServerInv
  BY ServerInitInvariant, ServerNextPreserves, PTL DEF ServerSpec

LEMMA ResponsesFollow ==
    ASSUME ServerInv
    PROVE  OneResponsePerMessage
  <1>1. PICK p \in Nat : DealtWith(p) /\ (phase = "end" => p = Len(input))
    <2>1. DealtWith(pos) \/ DealtWith(start)
      BY DEF ServerInv, ServerTypeOK, Phases, MessageUnderWay
    <2>2. phase = "end" => DealtWith(pos) /\ pos = Len(input)
      BY DEF ServerInv
    <2> QED
      BY <2>1, <2>2, TypeIs
  <1>2. /\ \A i, j \in DOMAIN out : i < j => out[i][1] < out[j][1]
        /\ Responses = {Response(s) : s \in {d \in Due : d < p}}
    BY <1>1 DEF DealtWith
  <1>3. Responses \subseteq {Response(s) : s \in Due}
    BY <1>2
  <1>4. \A s \in Due : s \in Nat /\ s < Len(input)
    BY StartsIn DEF Due
  <1>5. ASSUME NEW s \in Due, NEW r \in Responses, s < r[1]
        PROVE  Response(s) \in Responses
    <2>1. PICK d \in Due : r = Response(d) /\ d < p
      BY <1>2
    <2>2. r[1] = d
      BY <2>1, ResponseFirst
    <2>3. s < p
      BY <1>4, <1>5, <2>1, <2>2
    <2> QED
      BY <1>2, <2>3
  <1>6. phase = "end" => \A s \in Due : Response(s) \in Responses
    BY <1>1, <1>2, <1>4
  <1> QED
    BY <1>2, <1>3, <1>5, <1>6 DEF OneResponsePerMessage

(* For any stream and any sizes of a message and of what is discarded at a  *)
(* time: every message is answered once, in order, and an oversized one     *)
(* costs neither the message after it nor a second answer (serve_on).       *)
THEOREM ServerAnswersEach == ServerSpec => []OneResponsePerMessage
  BY ServerInvariant, ResponsesFollow, PTL
=============================================================================
