----------------------------- MODULE RngProofs ------------------------------
(***************************************************************************)
(* Proofs about Rng, for any number of generators and every reseed interval: *)
(* what is returned is never older than the interval allows, an Rng never   *)
(* meets the limit of the DRBG it is built on, and no block comes twice.    *)
(***************************************************************************)
EXTENDS Rng, SequenceTheorems, TLAPS

-----------------------------------------------------------------------------
(* The limits.                                                              *)

LEMMA LimitBounds ==
    ASSUME NEW g \in Generators
    PROVE  /\ Half \in Nat /\ Half <= Interval
           /\ Limit(g) \in 1..Interval
           /\ g \in Drbgs => Limit(g) = Interval
           /\ g \in Rngs /\ Half > 0 => Limit(g) = Half
  BY RngAssumption DEF Half, Limit, Generators

LEMMA AlikeIsDraw == Alike \in Draws
  BY RngAssumption DEF Alike, Draws, OsDraw

LEMMA InitInvariant == Init => IndInv
  <1> SUFFICES ASSUME Init PROVE IndInv
    OBVIOUS
  <1>1. TypeOK
    BY AlikeIsDraw, RngAssumption DEF Init, TypeOK, Labels, Results, Sources, Generators
  <1>2. CountersAgree
    BY LimitBounds DEF Init, CountersAgree, Generators
  <1>3. OutputsFresh
    BY DEF Init, OutputsFresh
  <1>4. ExhaustionNeverSurfaces
    BY DEF Init, ExhaustionNeverSurfaces, Generators
  <1> QED
    BY <1>1, <1>2, <1>3, <1>4 DEF IndInv

-----------------------------------------------------------------------------
(* Most steps leave the DRBG and the outputs alone.                         *)

\* A step of g that leaves its DRBG alone and does not go on to generate.
LEMMA QuietStep ==
    ASSUME IndInv, NEW g \in Generators, TypeOK',
           UNCHANGED <<state, outputs>>,
           NEW label \in Labels \ {"generate", "update"},
           pc' = [pc EXCEPT ![g] = label],
           NEW r \in Results, g \in Rngs => r # "CounterExhausted",
           result' = [result EXCEPT ![g] = r] \/ UNCHANGED result
    PROVE  IndInv'
  <1> USE DEF IndInv
  <1>1. UNCHANGED <<chain, gens, counter, calls, outputs>>
    BY DEF state
  <1>2. pc'[g] = label /\ \A q \in Generators : q # g => pc'[q] = pc[q]
    BY DEF TypeOK
  <1>3. CountersAgree'
    <2> SUFFICES ASSUME NEW q \in Generators
                 PROVE  /\ counter[q] = gens[q] + 1
                        /\ gens[q] <= Limit(q)
                        /\ q \in Rngs =>
                            /\ pc'[q] \notin {"generate", "update"} => gens[q] <= calls[q]
                            /\ pc'[q] \in {"generate", "update"} => gens[q] < calls[q]
                            /\ calls[q] <= Limit(q)
                        /\ pc'[q] = "update" => gens[q] < Limit(q)
      BY <1>1 DEF CountersAgree, Limit, Half
    <2>1. gens[q] \in Nat /\ calls[q] \in Nat
      BY DEF TypeOK
    <2> QED
      BY <1>2, <2>1 DEF CountersAgree
  <1>4. OutputsFresh'
    BY <1>1 DEF OutputsFresh, Limit, Half
  <1>5. ExhaustionNeverSurfaces'
    BY DEF ExhaustionNeverSurfaces, TypeOK, Generators
  <1> QED
    BY <1>3, <1>4, <1>5

LEMMA FailTyped ==
    ASSUME TypeOK, NEW g \in Generators, NEW r \in Results, Fail(g, r),
           drawn' \in 0..MaxDraws, up' \in BOOLEAN, UNCHANGED source
    PROVE  TypeOK'
  <1>1. Home(g) \in Labels /\ Home(g) \in {"absent", "idle"}
    BY DEF Home, Labels
  <1>2. UNCHANGED <<chain, gens, counter, calls, outputs>>
    BY DEF Fail, state
  <1>3. /\ pc' = [pc EXCEPT ![g] = Home(g)] /\ result' = [result EXCEPT ![g] = r]
        /\ seed' = [seed EXCEPT ![g] = Alike] /\ nonce' = [nonce EXCEPT ![g] = Alike]
        /\ filling' = [filling EXCEPT ![g] = FALSE]
    BY DEF Fail, Wiped
  <1> QED
    BY <1>1, <1>2, <1>3, AlikeIsDraw DEF TypeOK, Generators

\* A call that ends with an error, whatever else has happened.
LEMMA FailPreserves ==
    ASSUME IndInv, NEW g \in Generators, NEW r \in Results, Fail(g, r),
           g \in Rngs => r # "CounterExhausted",
           drawn' \in 0..MaxDraws, up' \in BOOLEAN, UNCHANGED source
    PROVE  IndInv'
  <1>1. TypeOK'
    BY FailTyped DEF IndInv
  <1>2. Home(g) \in Labels \ {"generate", "update"}
    BY DEF Home, Labels
  <1> QED
    BY <1>1, <1>2, QuietStep DEF Fail

LEMMA RefusedPreserves ==
    ASSUME IndInv, NEW g \in Generators, Refused(g)
    PROVE  IndInv'
  BY FailPreserves DEF Refused, Results, IndInv, TypeOK

LEMMA UnavailablePreserves ==
    ASSUME IndInv, NEW g \in Generators, Unavailable(g)
    PROVE  IndInv'
  BY FailPreserves DEF Unavailable, Results, IndInv, TypeOK

LEMMA BadInputPreserves ==
    ASSUME IndInv, NEW g \in Generators, NEW E \in SUBSET (Results \ {"CounterExhausted"}), BadInput(g, E)
    PROVE  IndInv'
  BY FailPreserves DEF BadInput, IndInv, TypeOK

LEMMA BadInputs ==
    {"EntropyFailure", "InvalidLength", "InvalidParameter"} \subseteq Results \ {"CounterExhausted"}
  BY DEF Results

LEMMA FillsTyped ==
    ASSUME TypeOK, NEW d \in Draws, Fills(d)
    PROVE  drawn' \in 0..MaxDraws
  BY RngAssumption DEF Fills, TypeOK

LEMMA EndsModulePreserves ==
    ASSUME IndInv, NEW g \in Generators, NEW d \in Draws, Fills(d), EndsModule(g)
    PROVE  IndInv'
  <1>1. drawn' \in 0..MaxDraws
    BY FillsTyped DEF IndInv
  <1> QED
    BY <1>1, FailPreserves DEF EndsModule, Results

-----------------------------------------------------------------------------
(* Seeding.                                                                 *)

\* A draw that is kept takes the call to its next step.
LEMMA DrawKept ==
    ASSUME IndInv, NEW g \in Generators, NEW d \in Draws, Fills(d), g \in Rngs,
           \/ seed' = [seed EXCEPT ![g] = d] /\ UNCHANGED nonce
           \/ nonce' = [nonce EXCEPT ![g] = d] /\ UNCHANGED seed,
           NEW label \in {"draw_nonce", "instantiate", "reseed"},
           Goto(g, label),
           UNCHANGED <<filling, state, source, outputs, up>>
    PROVE  IndInv'
  <1>1. drawn' \in 0..MaxDraws
    BY FillsTyped DEF IndInv
  <1>2. label \in Labels \ {"generate", "update"}
    BY DEF Labels
  <1>3. TypeOK'
    <2>1. seed' \in [Generators -> Draws] /\ nonce' \in [Generators -> Draws]
      BY DEF IndInv, TypeOK
    <2>2. pc' \in [Generators -> Labels]
      BY <1>2 DEF Goto, IndInv, TypeOK
    <2>3. \A q \in Drbgs : pc'[q] = pc[q]
      BY RngAssumption DEF Goto, IndInv, TypeOK, Generators
    <2> QED
      BY <1>1, <2>1, <2>2, <2>3 DEF Goto, IndInv, TypeOK, state
  <1>4. "Ok" \in Results
    BY DEF Results
  <1> QED
    BY <1>2, <1>3, <1>4, QuietStep DEF Goto

LEMMA FromOsPreserves ==
    ASSUME IndInv, NEW g \in Generators, FromOs(g)
    PROVE  IndInv'
  BY RefusedPreserves, UnavailablePreserves, EndsModulePreserves, DrawKept DEF FromOs

LEMMA DrawNoncePreserves ==
    ASSUME IndInv, NEW g \in Generators, DrawNonce(g)
    PROVE  IndInv'
  <1>1. g \in Rngs
    BY DEF DrawNonce, IndInv, TypeOK, Generators
  <1> QED
    BY <1>1, UnavailablePreserves, EndsModulePreserves, DrawKept DEF DrawNonce

LEMMA DrawReseedPreserves ==
    ASSUME IndInv, NEW g \in Generators, DrawReseed(g)
    PROVE  IndInv'
  <1>1. g \in Rngs
    BY DEF DrawReseed, IndInv, TypeOK, Generators
  <1> QED
    BY <1>1, RefusedPreserves, UnavailablePreserves, EndsModulePreserves, DrawKept
       DEF DrawReseed

\* A fresh seeding, or a reseed: the counters start over together.
LEMMA StartsOver ==
    ASSUME IndInv, NEW g \in Generators, TypeOK',
           gens' = [gens EXCEPT ![g] = 0],
           counter' = [counter EXCEPT ![g] = 1],
           NEW n \in {0, 1}, calls' = [calls EXCEPT ![g] = n] \/ (n = 0 /\ UNCHANGED calls),
           NEW label \in Labels \ {"update"}, label = "generate" => n = 1,
           pc' = [pc EXCEPT ![g] = label],
           result' = [result EXCEPT ![g] = "Ok"] \/ UNCHANGED result,
           UNCHANGED outputs
    PROVE  IndInv'
  <1> USE DEF IndInv
  <1>1. /\ gens'[g] = 0 /\ counter'[g] = 1 /\ pc'[g] = label
        /\ \A q \in Generators : q # g =>
             gens'[q] = gens[q] /\ counter'[q] = counter[q] /\ pc'[q] = pc[q]
             /\ calls'[q] = calls[q]
        /\ calls'[g] = n \/ (n = 0 /\ calls'[g] = calls[g])
    BY DEF TypeOK
  <1>2. CountersAgree'
    <2> SUFFICES ASSUME NEW q \in Generators
                 PROVE  /\ counter'[q] = gens'[q] + 1
                        /\ gens'[q] <= Limit(q)
                        /\ q \in Rngs =>
                            /\ pc'[q] \notin {"generate", "update"} => gens'[q] <= calls'[q]
                            /\ pc'[q] \in {"generate", "update"} => gens'[q] < calls'[q]
                            /\ calls'[q] <= Limit(q)
                        /\ pc'[q] = "update" => gens'[q] < Limit(q)
      BY DEF CountersAgree, Limit, Half
    <2>1. CASE q = g
      <3>1. Limit(g) \in 1..Interval /\ calls[g] \in Nat /\ (g \in Rngs => calls[g] <= Limit(g))
        BY LimitBounds DEF CountersAgree, TypeOK
      <3> QED
        BY <1>1, <2>1, <3>1, RngAssumption
    <2>2. CASE q # g
      BY <1>1, <2>2 DEF CountersAgree
    <2> QED
      BY <2>1, <2>2
  <1>3. OutputsFresh'
    BY DEF OutputsFresh, Limit, Half
  <1>4. ExhaustionNeverSurfaces'
    BY DEF ExhaustionNeverSurfaces, TypeOK, Generators
  <1> QED
    BY <1>2, <1>3, <1>4

LEMMA SeededPreserves ==
    ASSUME IndInv, NEW g \in Generators, NEW entropy \in Seq(Entropy), Seeded(g, entropy),
           UNCHANGED <<source, drawn, outputs, up>>
    PROVE  IndInv'
  <1> USE DEF IndInv
  <1>1. <<[entropy |-> entropy, after |-> 0]>> \in Seq(Seeding)
    BY DEF Seeding
  <1>2. "idle" \in Labels /\ "Ok" \in Results /\ 1 \in 1..(Interval + 1) /\ 0 \in 0..Interval
    BY RngAssumption DEF Labels, Results
  <1>3. TypeOK'
    BY <1>1, <1>2, AlikeIsDraw DEF Seeded, Wiped, TypeOK, Generators
  <1> QED
    BY <1>2, <1>3, StartsOver DEF Seeded

\* What goes into a DRBG is entropy.
LEMMA EntropyTyped ==
    ASSUME TypeOK, NEW g \in Generators
    PROVE  /\ seed[g] \in Entropy /\ nonce[g] \in Entropy /\ Supplied(g) \in Entropy
  BY DEF TypeOK, Entropy, Supplied

LEMMA InstantiatePreserves ==
    ASSUME IndInv, NEW g \in Generators, Instantiate(g)
    PROVE  IndInv'
  <1>1. <<seed[g], nonce[g]>> \in Seq(Entropy)
    BY EntropyTyped DEF IndInv
  <1> QED
    BY <1>1, RefusedPreserves, SeededPreserves DEF Instantiate

LEMMA FromEntropyPreserves ==
    ASSUME IndInv, NEW g \in Generators, FromEntropy(g)
    PROVE  IndInv'
  <1>1. <<Supplied(g)>> \in Seq(Entropy)
    BY EntropyTyped DEF IndInv
  <1>2. CASE BadInput(g, {"EntropyFailure", "InvalidLength", "InvalidParameter"})
    BY <1>2, BadInputs, BadInputPreserves
  <1> QED
    BY <1>1, <1>2, RefusedPreserves, SeededPreserves DEF FromEntropy

LEMMA MixedTyped ==
    ASSUME TypeOK, NEW g \in Generators, NEW entropy \in Seq(Entropy), Mixed(g, entropy)
    PROVE  /\ chain' \in [Generators -> Seq(Seeding)]
           /\ gens' \in [Generators -> Nat]
           /\ counter' \in [Generators -> 1..(Interval + 1)]
  <1>1. [entropy |-> entropy, after |-> gens[g]] \in Seeding /\ chain[g] \in Seq(Seeding)
    BY DEF Seeding, TypeOK
  <1>2. Append(chain[g], [entropy |-> entropy, after |-> gens[g]]) \in Seq(Seeding)
    BY <1>1
  <1> QED
    BY <1>2, RngAssumption DEF Mixed, TypeOK

LEMMA ReseedPreserves ==
    ASSUME IndInv, NEW g \in Generators, Reseed(g)
    PROVE  IndInv'
  <1> USE DEF IndInv
  <1>1. CASE Refused(g)
    BY <1>1, RefusedPreserves
  <1>2. CASE ~Refused(g)
    <2>1. <<seed[g]>> \in Seq(Entropy) /\ g \in Rngs
      <3>1. <<seed[g]>> \in Seq(Entropy)
        BY EntropyTyped
      <3>2. g \in Rngs
        BY DEF Reseed, TypeOK, Generators
      <3> QED
        BY <3>1, <3>2
    <2>2. /\ Mixed(g, <<seed[g]>>) /\ Wiped(g) /\ UNCHANGED <<source, drawn, outputs, up>>
          /\ \/ calls' = [calls EXCEPT ![g] = 1] /\ Goto(g, "generate")
             \/ /\ calls' = [calls EXCEPT ![g] = 0] /\ pc' = [pc EXCEPT ![g] = "idle"]
                /\ result' = [result EXCEPT ![g] = "Ok"]
      BY <1>2 DEF Reseed
    <2>3. {"generate", "idle"} \subseteq Labels /\ "Ok" \in Results
          /\ 1 \in 0..Interval /\ 0 \in 0..Interval
      BY RngAssumption DEF Labels, Results
    <2>4. TypeOK'
      <3>1. /\ chain' \in [Generators -> Seq(Seeding)] /\ gens' \in [Generators -> Nat]
            /\ counter' \in [Generators -> 1..(Interval + 1)]
        BY <2>1, <2>2, MixedTyped
      <3>2. seed' \in [Generators -> Draws] /\ nonce' \in [Generators -> Draws]
            /\ filling' \in [Generators -> BOOLEAN]
        BY <2>2, AlikeIsDraw DEF Wiped, TypeOK
      <3>3. pc' \in [Generators -> Labels] /\ result' \in [Generators -> Results]
            /\ calls' \in [Generators -> 0..Interval]
        <4>1. pc \in [Generators -> Labels] /\ result \in [Generators -> Results]
              /\ calls \in [Generators -> 0..Interval]
          BY DEF TypeOK
        <4>2. \/ /\ calls' = [calls EXCEPT ![g] = 1] /\ pc' = [pc EXCEPT ![g] = "generate"]
                 /\ result' = result
              \/ /\ calls' = [calls EXCEPT ![g] = 0] /\ pc' = [pc EXCEPT ![g] = "idle"]
                 /\ result' = [result EXCEPT ![g] = "Ok"]
          BY <2>2 DEF Goto
        <4> QED
          BY <4>1, <4>2, <2>3
      <3>4. \A q \in Drbgs : pc'[q] = pc[q]
        BY <2>1, <2>2, RngAssumption, SMTT(30) DEF Goto, TypeOK, Generators
      <3> QED
        BY <2>2, <3>1, <3>2, <3>3, <3>4 DEF TypeOK
    <2>5. /\ gens' = [gens EXCEPT ![g] = 0] /\ counter' = [counter EXCEPT ![g] = 1]
          /\ UNCHANGED outputs
      BY <2>2 DEF Mixed
    <2>6. CASE calls' = [calls EXCEPT ![g] = 1] /\ Goto(g, "generate")
      <3>1. "generate" \in Labels \ {"update"} /\ 1 \in {0, 1}
        BY <2>3
      <3>2. pc' = [pc EXCEPT ![g] = "generate"] /\ UNCHANGED result
        BY <2>6 DEF Goto
      <3> QED
        BY <2>4, <2>5, <2>6, <3>1, <3>2, StartsOver
    <2>7. CASE calls' = [calls EXCEPT ![g] = 0] /\ pc' = [pc EXCEPT ![g] = "idle"]
                /\ result' = [result EXCEPT ![g] = "Ok"]
      BY <2>3, <2>4, <2>5, <2>7, StartsOver
    <2> QED
      BY <2>2, <2>6, <2>7
  <1> QED
    BY <1>1, <1>2

LEMMA DirectReseedPreserves ==
    ASSUME IndInv, NEW g \in Generators, DirectReseed(g)
    PROVE  IndInv'
  <1> USE DEF IndInv
  <1>1. CASE Refused(g)
    BY <1>1, RefusedPreserves
  <1>3. CASE BadInput(g, {"EntropyFailure", "InvalidLength"})
    BY <1>3, BadInputs, BadInputPreserves
  <1>2. CASE ~Refused(g) /\ ~BadInput(g, {"EntropyFailure", "InvalidLength"})
    <2>1. <<Supplied(g)>> \in Seq(Entropy)
      BY EntropyTyped
    <2>2. /\ Mixed(g, <<Supplied(g)>>) /\ result' = [result EXCEPT ![g] = "Ok"]
          /\ UNCHANGED <<pc, seed, nonce, filling, calls, source, drawn, outputs, up>>
          /\ pc[g] = "idle"
      BY <1>2 DEF DirectReseed
    <2>3. TypeOK'
      <3>1. "Ok" \in Results
        BY DEF Results
      <3>2. /\ chain' \in [Generators -> Seq(Seeding)] /\ gens' \in [Generators -> Nat]
            /\ counter' \in [Generators -> 1..(Interval + 1)]
        BY <2>1, <2>2, MixedTyped
      <3> QED
        BY <2>2, <3>1, <3>2 DEF TypeOK
    <2>4. pc' = [pc EXCEPT ![g] = "idle"] /\ "idle" \in Labels \ {"update"}
      BY <2>2 DEF TypeOK, Labels
    <2> QED
      BY <2>2, <2>3, <2>4, StartsOver DEF Mixed
  <1> QED
    BY <1>1, <1>2, <1>3

-----------------------------------------------------------------------------
(* Generating.                                                              *)

LEMMA FillPreserves ==
    ASSUME IndInv, NEW g \in Generators, Fill(g)
    PROVE  IndInv'
  <1> USE DEF IndInv
  <1>1. CASE Refused(g)
    BY <1>1, RefusedPreserves
  <1>2. CASE ~Refused(g) /\ Due(g)
    <2>1. /\ filling' = [filling EXCEPT ![g] = TRUE] /\ Goto(g, "draw_reseed")
          /\ UNCHANGED <<seed, nonce, chain, gens, counter, calls, source, drawn, outputs, up>>
      BY <1>2 DEF Fill
    <2>2. "draw_reseed" \in Labels \ {"generate", "update"} /\ "Ok" \in Results
      BY DEF Labels, Results
    <2>3. TypeOK'
      BY <2>1, <2>2, RngAssumption DEF Goto, TypeOK, Fill, Generators
    <2> QED
      BY <2>1, <2>2, <2>3, QuietStep DEF Goto, state
  <1>3. CASE ~Refused(g) /\ ~Due(g)
    <2>1. /\ calls' = [calls EXCEPT ![g] = @ + 1] /\ Goto(g, "generate")
          /\ UNCHANGED <<seed, nonce, chain, gens, counter, filling, source, drawn, outputs, up>>
          /\ g \in Rngs /\ pc[g] = "idle"
      BY <1>3 DEF Fill
    <2>2. calls[g] \in Nat /\ calls[g] + 1 <= Half /\ Limit(g) = Half
      <3>1. calls[g] \in Nat /\ calls[g] < Half /\ Half \in Nat
        BY <1>3, LimitBounds DEF TypeOK, Due, Half
      <3>2. Limit(g) = Half
        BY <2>1, <3>1, LimitBounds
      <3> QED
        BY <3>1, <3>2
    <2>3. Half <= Interval /\ Half \in Nat
      BY LimitBounds
    <2>4. TypeOK'
      <3>1. "generate" \in Labels
        BY DEF Labels
      <3>2. calls' \in [Generators -> 0..Interval]
        BY <2>1, <2>2, <2>3, RngAssumption DEF TypeOK
      <3> QED
        BY <2>1, <3>1, <3>2, RngAssumption DEF Goto, TypeOK, Generators
    <2>5. /\ calls'[g] = calls[g] + 1 /\ pc'[g] = "generate"
          /\ \A q \in Generators : q # g => pc'[q] = pc[q] /\ calls'[q] = calls[q]
      BY <2>1 DEF Goto, TypeOK
    <2>6. CountersAgree'
      <3> SUFFICES ASSUME NEW q \in Generators
                   PROVE  /\ counter[q] = gens[q] + 1
                          /\ gens[q] <= Limit(q)
                          /\ q \in Rngs =>
                              /\ pc'[q] \notin {"generate", "update"} => gens[q] <= calls'[q]
                              /\ pc'[q] \in {"generate", "update"} => gens[q] < calls'[q]
                              /\ calls'[q] <= Limit(q)
                          /\ pc'[q] = "update" => gens[q] < Limit(q)
        BY <2>1 DEF CountersAgree, Limit, Half
      <3>1. CASE q = g
        <4>1. gens[g] \in Nat /\ gens[g] <= calls[g]
          BY <2>1 DEF CountersAgree, TypeOK
        <4> QED
          BY <3>1, <4>1, <2>2, <2>5 DEF CountersAgree
      <3>2. CASE q # g
        BY <3>2, <2>5 DEF CountersAgree
      <3> QED
        BY <3>1, <3>2
    <2>7. OutputsFresh' /\ ExhaustionNeverSurfaces'
      BY <2>1 DEF Goto, OutputsFresh, ExhaustionNeverSurfaces, Limit, Half
    <2> QED
      BY <2>4, <2>6, <2>7
  <1> QED
    BY <1>1, <1>2, <1>3

LEMMA ReseedFromOsPreserves ==
    ASSUME IndInv, NEW g \in Generators, ReseedFromOs(g)
    PROVE  IndInv'
  <1> USE DEF IndInv
  <1>1. "draw_reseed" \in Labels \ {"generate", "update"} /\ "Ok" \in Results
    BY DEF Labels, Results
  <1>2. TypeOK'
    BY <1>1, RngAssumption DEF ReseedFromOs, Goto, TypeOK, Generators, state
  <1> QED
    BY <1>1, <1>2, QuietStep DEF ReseedFromOs, Goto

\* A step that leaves the state alone and takes g to generate or to update.
LEMMA DirectGeneratePreserves ==
    ASSUME IndInv, NEW g \in Generators, DirectGenerate(g)
    PROVE  IndInv'
  <1> USE DEF IndInv
  <1>1. /\ UNCHANGED <<seed, nonce, filling, chain, gens, counter, calls, result, source, drawn, outputs, up>>
        /\ pc' = [pc EXCEPT ![g] = "generate"] /\ g \notin Rngs
    BY RngAssumption DEF DirectGenerate, Goto, state
  <1>2. TypeOK'
    BY <1>1 DEF TypeOK, Labels, Generators
  <1>3. \A q \in Generators : pc'[q] = pc[q] \/ (q \notin Rngs /\ pc'[q] = "generate")
    BY <1>1 DEF TypeOK
  <1>4. CountersAgree'
    BY <1>1, <1>3 DEF CountersAgree, Limit, Half
  <1>5. OutputsFresh' /\ ExhaustionNeverSurfaces'
    BY <1>1 DEF OutputsFresh, ExhaustionNeverSurfaces, Limit, Half
  <1> QED
    BY <1>2, <1>4, <1>5

\* An Rng that is about to generate is within the DRBG's interval.
LEMMA RngWithinInterval ==
    ASSUME IndInv, NEW g \in Rngs, pc[g] = "generate"
    PROVE  WithinInterval(g)
  <1>1. g \in Generators /\ Limit(g) \in 1..Interval
    BY LimitBounds DEF Generators
  <1>2. gens[g] \in Nat /\ calls[g] \in Nat /\ counter[g] = gens[g] + 1
        /\ gens[g] < calls[g] /\ calls[g] <= Limit(g)
    BY <1>1 DEF IndInv, TypeOK, CountersAgree
  <1> QED
    BY <1>1, <1>2, RngAssumption DEF WithinInterval

LEMMA GeneratePreserves ==
    ASSUME IndInv, NEW g \in Generators, Generate(g)
    PROVE  IndInv'
  <1> USE DEF IndInv
  <1>1. CASE Refused(g)
    BY <1>1, RefusedPreserves
  <1>2. CASE ~WithinInterval(g) /\ ~Refused(g)
    <2>1. g \notin Rngs
      BY <1>2, RngWithinInterval DEF Generate
    <2> QED
      BY <1>2, <2>1, FailPreserves DEF Generate, Results, TypeOK
  <1>4. CASE WithinInterval(g) /\ BadInput(g, {"InvalidLength"})
    BY <1>4, BadInputs, BadInputPreserves
  <1>3. CASE WithinInterval(g) /\ ~Refused(g) /\ ~BadInput(g, {"InvalidLength"})
    <2>1. /\ UNCHANGED <<seed, nonce, filling, chain, gens, counter, calls, result, source, drawn, outputs, up>>
          /\ pc' = [pc EXCEPT ![g] = "update"] /\ pc[g] = "generate"
      BY <1>3 DEF Generate, Goto, state
    <2>2. TypeOK'
      BY <2>1 DEF TypeOK, Labels, Generators
    <2>3. pc'[g] = "update" /\ \A q \in Generators : q # g => pc'[q] = pc[q]
      BY <2>1 DEF TypeOK
    <2>4. gens[g] \in Nat /\ gens[g] < Limit(g)
      <3>1. gens[g] \in Nat /\ calls[g] \in Nat /\ counter[g] = gens[g] + 1
            /\ Limit(g) \in 1..Interval
        BY LimitBounds DEF TypeOK, CountersAgree
      <3>2. CASE g \in Rngs
        BY <2>1, <3>1, <3>2, RngAssumption DEF CountersAgree
      <3>3. CASE g \in Drbgs
        BY <1>3, <3>1, <3>3, LimitBounds, RngAssumption DEF WithinInterval
      <3> QED
        BY <3>1, <3>2, <3>3 DEF Generators
    <2>5. CountersAgree'
      <3> SUFFICES ASSUME NEW q \in Generators
                   PROVE  /\ counter[q] = gens[q] + 1
                          /\ gens[q] <= Limit(q)
                          /\ q \in Rngs =>
                              /\ pc'[q] \notin {"generate", "update"} => gens[q] <= calls[q]
                              /\ pc'[q] \in {"generate", "update"} => gens[q] < calls[q]
                              /\ calls[q] <= Limit(q)
                          /\ pc'[q] = "update" => gens[q] < Limit(q)
        BY <2>1 DEF CountersAgree, Limit, Half
      <3> QED
        BY <2>1, <2>3, <2>4 DEF CountersAgree
    <2>6. OutputsFresh' /\ ExhaustionNeverSurfaces'
      BY <2>1 DEF OutputsFresh, ExhaustionNeverSurfaces, Limit, Half
    <2> QED
      BY <2>2, <2>5, <2>6
  <1> QED
    BY <1>1, <1>2, <1>3, <1>4

LEMMA UpdatePreserves ==
    ASSUME IndInv, NEW g \in Generators, Update(g)
    PROVE  IndInv'
  <1> USE DEF IndInv
  <1> DEFINE b == [by |-> g, chain |-> chain[g], gens |-> gens[g]]
  <1>1. CASE Refused(g)
    BY <1>1, RefusedPreserves
  <1>2. CASE ~Refused(g)
    <2>1. /\ pc[g] = "update" /\ outputs' = Append(outputs, b)
          /\ gens' = [gens EXCEPT ![g] = @ + 1]
          /\ counter' = [counter EXCEPT ![g] = @ + 1]
          /\ pc' = [pc EXCEPT ![g] = "idle"]
          /\ result' = [result EXCEPT ![g] = "Ok"]
          /\ UNCHANGED <<seed, nonce, filling, chain, calls, source, drawn, up>>
      BY <1>2 DEF Update
    <2>2. /\ gens[g] \in Nat /\ gens[g] < Limit(g) /\ counter[g] = gens[g] + 1
          /\ Limit(g) \in 1..Interval /\ calls[g] \in Nat
          /\ g \in Rngs => gens[g] < calls[g] /\ calls[g] <= Limit(g)
      BY <2>1, LimitBounds DEF CountersAgree, TypeOK
    <2>3. /\ gens'[g] = gens[g] + 1 /\ counter'[g] = counter[g] + 1 /\ pc'[g] = "idle"
          /\ \A q \in Generators : q # g =>
               gens'[q] = gens[q] /\ counter'[q] = counter[q] /\ pc'[q] = pc[q]
      BY <2>1 DEF TypeOK
    <2>4. b \in Blocks /\ b.by = g /\ b.gens = gens[g]
      BY DEF Blocks, TypeOK
    <2>5. TypeOK'
      <3>1. outputs' \in Seq(Blocks)
        <4>1. outputs \in Seq(Blocks)
          BY Zenon DEF TypeOK
        <4> QED
          BY <2>1, <2>4, <4>1
      <3>2. counter' \in [Generators -> 1..(Interval + 1)]
        BY <2>1, <2>2, RngAssumption, SMTT(30) DEF TypeOK
      <3>3. gens' \in [Generators -> Nat]
        BY <2>1, <2>2, SMTT(30) DEF TypeOK
      <3>4. pc' \in [Generators -> Labels] /\ result' \in [Generators -> Results]
        BY <2>1 DEF TypeOK, Labels, Results
      <3>5. \A q \in Drbgs : pc'[q] = pc[q] \/ pc'[q] = "idle"
        BY <2>1 DEF TypeOK, Generators
      <3> QED
        BY <2>1, <3>1, <3>2, <3>3, <3>4, <3>5 DEF TypeOK
    <2>6. CountersAgree'
      <3> SUFFICES ASSUME NEW q \in Generators
                   PROVE  /\ counter'[q] = gens'[q] + 1
                          /\ gens'[q] <= Limit(q)
                          /\ q \in Rngs =>
                              /\ pc'[q] \notin {"generate", "update"} => gens'[q] <= calls[q]
                              /\ pc'[q] \in {"generate", "update"} => gens'[q] < calls[q]
                              /\ calls[q] <= Limit(q)
                          /\ pc'[q] = "update" => gens'[q] < Limit(q)
        BY <2>1 DEF CountersAgree, Limit, Half
      <3>1. CASE q = g
        BY <3>1, <2>2, <2>3, RngAssumption
      <3>2. CASE q # g
        BY <3>2, <2>3 DEF CountersAgree
      <3> QED
        BY <3>1, <3>2
    <2>7. OutputsFresh'
      <3>1. /\ outputs \in Seq(Blocks) /\ Len(outputs') = Len(outputs) + 1
            /\ outputs'[Len(outputs) + 1] = b
            /\ \A i \in 1..Len(outputs) : outputs'[i] = outputs[i]
        BY <2>1, <2>4 DEF TypeOK
      <3>2. ASSUME NEW i \in 1..Len(outputs') PROVE outputs'[i].gens < Limit(outputs'[i].by)
        <4>1. CASE i \in 1..Len(outputs)
          BY <4>1, <3>1 DEF OutputsFresh
        <4>2. CASE i = Len(outputs) + 1
          BY <4>2, <3>1, <2>2, <2>4
        <4> QED
          BY <3>1, <3>2, <4>1, <4>2
      <3> QED
        BY <3>2 DEF OutputsFresh, Limit, Half
    <2>8. ExhaustionNeverSurfaces'
      BY <2>1 DEF ExhaustionNeverSurfaces, TypeOK, Generators
    <2> QED
      BY <2>5, <2>6, <2>7, <2>8
  <1> QED
    BY <1>1, <1>2

-----------------------------------------------------------------------------
(* The invariant.                                                           *)

LEMMA EnvironmentPreserves ==
    ASSUME IndInv, source' \in Sources, up' \in BOOLEAN,
           UNCHANGED <<pc, seed, nonce, filling, state, result, drawn, outputs>>
    PROVE  IndInv'
  BY DEF state, IndInv, TypeOK, CountersAgree, OutputsFresh, ExhaustionNeverSurfaces,
         Limit, Half

LEMMA NextPreserves == IndInv /\ [Next]_vars => IndInv'
  <1> SUFFICES ASSUME IndInv, [Next]_vars PROVE IndInv'
    OBVIOUS
  <1>1. source \in Sources /\ up \in BOOLEAN
    BY DEF IndInv, TypeOK
  <1>2. ASSUME NEW g \in Generators, Step(g) PROVE IndInv'
    BY <1>2, FromOsPreserves, DrawNoncePreserves, InstantiatePreserves, FromEntropyPreserves,
       FillPreserves, ReseedFromOsPreserves, DrawReseedPreserves, ReseedPreserves,
       DirectReseedPreserves, DirectGeneratePreserves, GeneratePreserves, UpdatePreserves
       DEF Step
  <1>3. CASE SourceChanges
    BY <1>1, <1>3, EnvironmentPreserves DEF SourceChanges, Sources
  <1>4. CASE ModuleFails
    BY <1>1, <1>4, EnvironmentPreserves DEF ModuleFails
  <1>5. CASE UNCHANGED vars
    BY <1>1, <1>5, EnvironmentPreserves DEF vars
  <1> QED
    BY <1>2, <1>3, <1>4, <1>5 DEF Next

(* The counters of the two layers agree in every state, for every interval  *)
(* and any number of generators (Rng::fill, Drbg::generate).                *)
THEOREM RngInvariant == Spec => []IndInv
  BY InitInvariant, NextPreserves, PTL DEF Spec

(* What is returned is within the interval of the last entropy, also after  *)
(* reseeds that failed (Rng::fill, HmacDrbg::generate, CtrDrbg::generate).  *)
THEOREM NeverStale == Spec => []OutputsFresh
  BY RngInvariant, PTL DEF IndInv

(* CounterExhausted never surfaces from an Rng (rng.rs:5).                  *)
THEOREM NeverExhausted == Spec => []ExhaustionNeverSurfaces
  BY RngInvariant, PTL DEF IndInv

-----------------------------------------------------------------------------
(* No block twice.  First, which entropy belongs to which generator.        *)

LEMMA OsDrawsDiffer ==
    ASSUME NEW j, NEW k, OsDraw(j) = OsDraw(k)
    PROVE  j = k
  BY DEF OsDraw

LEMMA NotSupplied ==
    ASSUME NEW g \in Generators, NEW n, NEW k
    PROVE  OsDraw(k) # <<g, n>>
  BY RngAssumption DEF OsDraw, Generators

LEMMA RangesGrow ==
    ASSUME NEW a \in Nat, NEW b \in Nat, a <= b
    PROVE  /\ \A k \in 1..a : k \in 1..b
           /\ \A k \in 1..(a - 1) : k \in 1..(b - 1)
           /\ \A k \in 1..(a - 1) : k \in 1..a
  OBVIOUS

\* What a generator is seeded by has been drawn; and the last draw belongs to
\* none that is past its second draw.
LEMMA SeededByDrawn ==
    ASSUME IndInv, SeedOrigin, NEW g \in Generators, NEW k \in Nat, SeededBy(g, k)
    PROVE  k \in 1..drawn
  <1>1. drawn \in Nat
    BY RngAssumption DEF IndInv, TypeOK
  <1>2. OriginOf(g)
    BY DEF SeedOrigin
  <1>3. \A j \in 1..(drawn - 1) : j \in 1..drawn
    BY <1>1, RangesGrow
  <1>4. CASE pc[g] \in {"draw_nonce", "instantiate"} /\ seed[g] = OsDraw(k)
    <2>1. PICK j \in 1..drawn : seed[g] = OsDraw(j)
      BY <1>2, <1>3, <1>4 DEF OriginOf
    <2> QED
      BY <1>4, <2>1, OsDrawsDiffer
  <1>5. CASE chain[g] # <<>> /\ chain[g][1].entropy[1] = OsDraw(k)
    <2>1. chain[g][1].entropy[1] # <<g, 0>>
      BY <1>5, NotSupplied
    <2>2. PICK j \in 1..drawn : chain[g][1].entropy[1] = OsDraw(j)
      BY <1>2, <1>3, <1>5, <2>1 DEF OriginOf
    <2> QED
      BY <1>5, <2>2, OsDrawsDiffer
  <1> QED
    BY <1>4, <1>5 DEF SeededBy

\* How the source and the number of draws move in a step.
SourceMoves ==
    \/ UNCHANGED <<source, drawn>>
    \/ source = "working" /\ UNCHANGED source /\ drawn' = drawn + 1
    \/ source # "frozen" /\ UNCHANGED drawn

\* A step that gives no generator a seed it did not have.
LEMMA NoNewSeed ==
    ASSUME IndInv, SeedOrigin, OneSeedEach, SourceMoves,
           \A g \in Generators : \A k \in Nat : SeededBy(g, k)' => SeededBy(g, k)
    PROVE  OneSeedEach'
  <1> SUFFICES ASSUME NEW g \in Generators, NEW h \in Generators, NEW k \in 1..drawn',
                      g # h, k < drawn' \/ source' # "frozen",
                      SeededBy(g, k)', SeededBy(h, k)'
               PROVE  FALSE
    BY DEF OneSeedEach
  <1>1. drawn \in Nat /\ drawn' \in Nat
    BY RngAssumption, SMTT(30) DEF IndInv, TypeOK, SourceMoves
  <1>2. k \in Nat
    BY <1>1
  <1>3. SeededBy(g, k) /\ SeededBy(h, k) /\ k \in 1..drawn
    BY <1>2, SeededByDrawn
  <1>4. k < drawn \/ source # "frozen"
    <2>1. CASE drawn' = drawn /\ source' = source
      BY <2>1
    <2>2. CASE source # "frozen"
      BY <2>2
    <2> QED
      BY <2>1, <2>2 DEF SourceMoves
  <1> QED
    BY <1>3, <1>4 DEF OneSeedEach

\* A step of g leaves the origin of the others' entropy as it was.
LEMMA OriginOfOthers ==
    ASSUME IndInv, SeedOrigin, SourceMoves, NEW h \in Generators,
           pc'[h] = pc[h], seed'[h] = seed[h], chain'[h] = chain[h]
    PROVE  OriginOf(h)'
  <1>1. drawn \in Nat /\ drawn' \in Nat /\ drawn <= drawn'
    BY RngAssumption, SMTT(30) DEF IndInv, TypeOK, SourceMoves
  <1>2. \A k \in 1..drawn : k \in 1..drawn'
    BY <1>1, RangesGrow
  <1>3. \A k \in 1..(drawn - 1) : k \in 1..(drawn' - 1)
    BY <1>1, RangesGrow
  <1>4. OriginOf(h)
    BY DEF SeedOrigin
  <1> QED
    BY <1>2, <1>3, <1>4 DEF OriginOf

-----------------------------------------------------------------------------
(* Steps that leave chains and outputs alone.                               *)

LEMMA HistoryKept ==
    ASSUME OutputHistory, UNCHANGED <<chain, gens, outputs>>
    PROVE  OutputHistory'
  BY DEF OutputHistory, Earlier

\* A call fails, or goes on past its seeding.
LEMMA PassesOn ==
    ASSUME IndInv, Separation, NEW g \in Generators, SourceMoves,
           UNCHANGED <<chain, gens, outputs>>,
           \A h \in Generators : h # g => pc'[h] = pc[h] /\ seed'[h] = seed[h],
           pc'[g] \notin {"draw_nonce", "instantiate"},
           chain[g] = <<>> <=> pc'[g] = "absent"
    PROVE  Separation'
  <1> USE DEF Separation
  <1>1. OriginOf(g)'
    <2>1. drawn \in Nat /\ drawn' \in Nat /\ drawn <= drawn'
      BY RngAssumption, SMTT(30) DEF IndInv, TypeOK, SourceMoves
    <2>2. \A k \in 1..(drawn - 1) : k \in 1..(drawn' - 1)
      BY <2>1, RangesGrow
    <2>3. OriginOf(g)
      BY DEF SeedOrigin
    <2> QED
      BY <2>2, <2>3 DEF OriginOf
  <1>2. SeedOrigin'
    BY <1>1, OriginOfOthers DEF SeedOrigin
  <1>3. OneSeedEach'
    <2>1. \A h \in Generators : \A k \in Nat : SeededBy(h, k)' => SeededBy(h, k)
      BY DEF SeededBy
    <2> QED
      BY <2>1, NoNewSeed
  <1> QED
    BY <1>2, <1>3, HistoryKept

LEMMA FailSeparates ==
    ASSUME IndInv, Separation, NEW g \in Generators, NEW r, Fail(g, r), SourceMoves
    PROVE  Separation'
  <1>1. UNCHANGED <<chain, gens, outputs>>
    BY DEF Fail, state
  <1>2. pc' = [pc EXCEPT ![g] = Home(g)] /\ seed' = [seed EXCEPT ![g] = Alike]
    BY DEF Fail, Wiped
  <1> QED
    BY <1>1, <1>2, PassesOn DEF Home, IndInv, TypeOK

LEMMA FillsMoves ==
    ASSUME NEW d, Fills(d), UNCHANGED source
    PROVE  SourceMoves
  BY DEF Fills, SourceMoves

LEMMA ErrorsSeparate ==
    ASSUME IndInv, Separation, NEW g \in Generators,
           \/ Refused(g)
           \/ Unavailable(g)
           \/ EndsModule(g) /\ \E d \in Draws : Fills(d)
    PROVE  Separation'
  <1>1. CASE Refused(g)
    BY <1>1, FailSeparates DEF Refused, SourceMoves
  <1>2. CASE Unavailable(g)
    BY <1>2, FailSeparates DEF Unavailable, SourceMoves
  <1>3. CASE EndsModule(g) /\ \E d \in Draws : Fills(d)
    BY <1>3, FailSeparates, FillsMoves DEF EndsModule
  <1> QED
    BY <1>1, <1>2, <1>3

LEMMA BadInputSeparates ==
    ASSUME IndInv, Separation, NEW g \in Generators, NEW E, BadInput(g, E)
    PROVE  Separation'
  BY FailSeparates DEF BadInput, SourceMoves

-----------------------------------------------------------------------------
(* Seeding.                                                                 *)

\* from_os keeps its first draw: a new one, or the last one of a frozen source.
LEMMA SeedDrawnSeparates ==
    ASSUME IndInv, Separation, NEW g \in Generators, pc[g] = "absent",
           NEW d \in Draws, Fills(d), ~Stuck(d),
           seed' = [seed EXCEPT ![g] = d], Goto(g, "draw_nonce"),
           UNCHANGED <<state, source, outputs>>
    PROVE  Separation'
  <1> USE DEF Separation
  <1>1. UNCHANGED <<chain, gens>>
    BY DEF state
  <1>2. /\ pc'[g] = "draw_nonce" /\ seed'[g] = d
        /\ \A h \in Generators : h # g => pc'[h] = pc[h] /\ seed'[h] = seed[h]
    BY DEF Goto, IndInv, TypeOK
  <1>3. drawn \in Nat
    BY RngAssumption DEF IndInv, TypeOK
  <1>4. /\ d = OsDraw(drawn') /\ drawn' \in 1..drawn'
        /\ \/ drawn' = drawn /\ source = "frozen"
           \/ drawn' = drawn + 1 /\ source = "working"
    <2>1. source # "alike"
      BY DEF Fills, Stuck
    <2>2. drawn' \in Nat /\ d = OsDraw(drawn') /\ drawn' # 0
      BY <1>3, <2>1 DEF Fills, Stuck, Alike
    <2>3. drawn' \in 1..drawn'
      BY <2>2
    <2> QED
      BY <2>1, <2>2, <2>3 DEF Fills
  <1>5. SourceMoves
    BY FillsMoves
  <1>6. chain[g] = <<>>
    BY DEF SeedOrigin, OriginOf
  <1>7. OriginOf(g)'
    BY <1>1, <1>2, <1>4, <1>6 DEF OriginOf
  <1>8. SeedOrigin'
    BY <1>1, <1>2, <1>5, <1>7, OriginOfOthers DEF SeedOrigin
  <1>9. OneSeedEach'
    <2> SUFFICES ASSUME NEW p \in Generators, NEW q \in Generators, NEW k \in 1..drawn',
                        p # q, k < drawn' \/ source # "frozen",
                        SeededBy(p, k)', SeededBy(q, k)'
                 PROVE  FALSE
      BY DEF OneSeedEach
    <2>1. drawn' \in Nat /\ k \in Nat
      BY <1>3, <1>4
    <2>2. \A h \in Generators : h # g /\ SeededBy(h, k)' => SeededBy(h, k) /\ k \in 1..drawn
      BY <1>1, <1>2, <2>1, SeededByDrawn DEF SeededBy
    <2>3. SeededBy(g, k)' => k = drawn'
      BY <1>1, <1>2, <1>4, <1>6, OsDrawsDiffer DEF SeededBy
    <2>4. CASE p = g \/ q = g
      <3>1. k = drawn' /\ k \in 1..drawn
        BY <2>2, <2>3, <2>4
      <3> QED
        BY <1>3, <1>4, <3>1
    <2>5. CASE p # g /\ q # g
      <3>1. SeededBy(p, k) /\ SeededBy(q, k) /\ k \in 1..drawn
        BY <2>2, <2>5
      <3>2. k < drawn \/ source # "frozen"
        BY <1>4
      <3> QED
        BY <3>1, <3>2 DEF OneSeedEach
    <2> QED
      BY <2>4, <2>5
  <1> QED
    BY <1>1, <1>8, <1>9, HistoryKept

\* from_os keeps its second draw, which is not the first: the first is no
\* longer the last draw.
LEMMA NonceDrawnSeparates ==
    ASSUME IndInv, Separation, NEW g \in Generators, pc[g] = "draw_nonce",
           NEW d \in Draws, Fills(d), ~Stuck(d), ~Repeated(g, d),
           Goto(g, "instantiate"), UNCHANGED <<seed, state, source, outputs>>
    PROVE  Separation'
  <1> USE DEF Separation
  <1>1. UNCHANGED <<chain, gens>>
    BY DEF state
  <1>2. /\ pc'[g] = "instantiate"
        /\ \A h \in Generators : h # g => pc'[h] = pc[h]
    BY DEF Goto, IndInv, TypeOK
  <1>3. drawn \in Nat
    BY RngAssumption DEF IndInv, TypeOK
  <1>4. PICK k \in 1..drawn : seed[g] = OsDraw(k)
    BY DEF SeedOrigin, OriginOf
  <1>5. k \in 1..(drawn' - 1)
    <2>1. CASE drawn' = drawn + 1
      BY <1>3, <1>4, <2>1
    <2>2. CASE drawn' = drawn /\ d = OsDraw(drawn)
      <3>1. k # drawn
        BY <1>4, <2>2 DEF Repeated
      <3> QED
        BY <1>3, <1>4, <2>2, <3>1
    <2> QED
      BY <2>1, <2>2 DEF Fills, Stuck
  <1>6. SourceMoves
    BY FillsMoves
  <1>7. chain[g] = <<>>
    BY DEF SeedOrigin, OriginOf
  <1>8. OriginOf(g)'
    BY <1>1, <1>2, <1>4, <1>5, <1>7 DEF OriginOf
  <1>9. SeedOrigin'
    BY <1>1, <1>2, <1>6, <1>8, OriginOfOthers DEF SeedOrigin
  <1>10. OneSeedEach'
    <2>1. \A h \in Generators : \A j \in Nat : SeededBy(h, j)' => SeededBy(h, j)
      BY <1>1, <1>2 DEF SeededBy
    <2> QED
      BY <2>1, <1>6, NoNewSeed
  <1> QED
    BY <1>1, <1>9, <1>10, HistoryKept

\* A generator that has no state yet has returned nothing.
LEMMA AbsentReturnedNothing ==
    ASSUME IndInv, Separation, NEW g \in Generators, chain[g] = <<>>,
           NEW i \in 1..Len(outputs)
    PROVE  outputs[i].by # g
  <1>1. outputs[i] \in Blocks
    BY DEF IndInv, TypeOK
  <1>2. PICK n \in Nat : n = Len(outputs[i].chain)
    BY <1>1 DEF Blocks
  <1>3. outputs[i].chain \in Seq(Seeding) /\ outputs[i].chain # <<>>
    BY <1>1 DEF Blocks, Separation, OutputHistory
  <1>4. n # 0
    BY <1>2, <1>3, EmptySeq
  <1>5. Len(chain[g]) = 0
    OBVIOUS
  <1> QED
    BY <1>2, <1>4, <1>5 DEF Separation, OutputHistory, Earlier

\* instantiate: the entropy is the generator's own, or the seed it held.
LEMMA SeededSeparates ==
    ASSUME IndInv, Separation, NEW g \in Generators, NEW entropy, Seeded(g, entropy),
           UNCHANGED <<source, drawn, outputs>>,
           \/ pc[g] = "instantiate" /\ entropy[1] = seed[g]
           \/ pc[g] = "absent" /\ entropy[1] = <<g, 0>>
    PROVE  Separation'
  <1> USE DEF Separation
  <1>1. chain[g] = <<>>
    BY DEF SeedOrigin, OriginOf
  <1>2. /\ pc'[g] = "idle" /\ chain'[g] # <<>> /\ chain'[g][1].entropy = entropy
        /\ \A h \in Generators : h # g =>
             /\ pc'[h] = pc[h] /\ seed'[h] = seed[h] /\ chain'[h] = chain[h] /\ gens'[h] = gens[h]
    BY DEF Seeded, Wiped, IndInv, TypeOK
  <1>3. SourceMoves
    BY DEF SourceMoves
  <1>4. OriginOf(g)'
    BY <1>2 DEF OriginOf, SeedOrigin
  <1>5. SeedOrigin'
    BY <1>2, <1>3, <1>4, OriginOfOthers DEF SeedOrigin
  <1>6. OneSeedEach'
    <2>1. ASSUME NEW k \in Nat, SeededBy(g, k)' PROVE SeededBy(g, k)
      <3>1. entropy[1] = OsDraw(k)
        BY <1>2, <2>1 DEF SeededBy
      <3>2. entropy[1] # <<g, 0>>
        BY <3>1, NotSupplied
      <3> QED
        BY <3>1, <3>2 DEF SeededBy
    <2>2. \A h \in Generators : \A k \in Nat : h # g /\ SeededBy(h, k)' => SeededBy(h, k)
      BY <1>2 DEF SeededBy
    <2> QED
      BY <1>3, <2>1, <2>2, NoNewSeed
  <1>7. OutputHistory'
    <2>1. \A i \in 1..Len(outputs) : outputs[i].by \in Generators /\ outputs[i].by # g
      <3>1. \A i \in 1..Len(outputs) : outputs[i] \in Blocks
        BY DEF IndInv, TypeOK
      <3> QED
        BY <1>1, <3>1, AbsentReturnedNothing DEF Blocks
    <2> QED
      BY <1>2, <2>1 DEF OutputHistory, Earlier
  <1> QED
    BY <1>5, <1>6, <1>7

\* reseed: the state it starts from stays at the bottom of the new one.
LEMMA MixedSeparates ==
    ASSUME IndInv, IndInv', Separation, NEW g \in Generators, NEW entropy, Mixed(g, entropy),
           UNCHANGED <<source, drawn, outputs>>,
           pc[g] \in {"idle", "reseed"}, pc'[g] \in {"idle", "generate"},
           \A h \in Generators : h # g => pc'[h] = pc[h] /\ seed'[h] = seed[h]
    PROVE  Separation'
  <1> USE DEF Separation
  <1>1. chain[g] # <<>> /\ OriginOf(g)
    BY DEF SeedOrigin, OriginOf
  <1>2. PICK s : s = [entropy |-> entropy, after |-> gens[g]]
    OBVIOUS
  <1>3. /\ chain'[g] = Append(chain[g], s)
        /\ \A h \in Generators : h # g => chain'[h] = chain[h] /\ gens'[h] = gens[h]
    BY <1>2 DEF Mixed, IndInv, TypeOK
  <1>4. chain[g] \in Seq(Seeding) /\ chain'[g] \in Seq(Seeding)
    BY DEF IndInv, TypeOK
  <1>5. PICK n \in Nat : n = Len(chain[g])
    BY <1>4
  <1>6. n # 0
    BY <1>1, <1>4, <1>5, EmptySeq
  <1>7. 1 \in 1..n
    BY <1>6
  <1>8. Len(chain'[g]) = n + 1 /\ chain'[g][1] = chain[g][1] /\ chain'[g] # <<>>
    BY <1>3, <1>4, <1>5, <1>7
  <1>9. SourceMoves
    BY DEF SourceMoves
  <1>10. OriginOf(g)'
    BY <1>1, <1>8 DEF OriginOf
  <1>11. SeedOrigin'
    BY <1>3, <1>9, <1>10, OriginOfOthers DEF SeedOrigin
  <1>12. OneSeedEach'
    <2>1. \A h \in Generators : \A k \in Nat : SeededBy(h, k)' => SeededBy(h, k)
      BY <1>1, <1>3, <1>8 DEF SeededBy
    <2> QED
      BY <1>9, <2>1, NoNewSeed
  <1>13. OutputHistory'
    <2> SUFFICES ASSUME NEW i \in 1..Len(outputs)
                 PROVE  /\ outputs[i].chain[1] = chain'[outputs[i].by][1]
                        /\ Earlier(outputs[i].chain, outputs[i].gens,
                                   chain'[outputs[i].by], gens'[outputs[i].by])
      BY DEF OutputHistory, Earlier
    <2>1. outputs[i] \in Blocks
      BY SMTT(30) DEF IndInv, TypeOK
    <2>2. PICK m \in Nat : m = Len(outputs[i].chain)
      BY <2>1 DEF Blocks
    <2>3. outputs[i].by \in Generators
      BY <2>1 DEF Blocks
    <2>4. CASE outputs[i].by # g
      <3>1. chain'[outputs[i].by] = chain[outputs[i].by] /\ gens'[outputs[i].by] = gens[outputs[i].by]
        BY <1>3, <2>3, <2>4
      <3>2. /\ outputs[i].chain[1] = chain[outputs[i].by][1]
            /\ Earlier(outputs[i].chain, outputs[i].gens, chain[outputs[i].by], gens[outputs[i].by])
        BY Zenon DEF OutputHistory
      <3> QED
        BY <3>1, <3>2, Zenon
    <2>5. CASE outputs[i].by = g
      <3>1. m < n \/ m = n
        BY <2>2, <2>5, <1>5 DEF OutputHistory, Earlier
      <3>2. m < n + 1
        BY <3>1
      <3> QED
        BY <3>2, <2>2, <2>5, <1>8 DEF OutputHistory, Earlier
    <2> QED
      BY <2>4, <2>5
  <1> QED
    BY <1>11, <1>12, <1>13

\* generate: the block comes from the state that the generator then leaves.
LEMMA UpdateSeparates ==
    ASSUME IndInv, Separation, NEW g \in Generators, Update(g)
    PROVE  Separation'
  <1> USE DEF Separation
  <1>1. CASE Refused(g)
    BY <1>1, ErrorsSeparate
  <1>2. CASE ~Refused(g)
    <2>1. PICK b : b = [by |-> g, chain |-> chain[g], gens |-> gens[g]]
      OBVIOUS
    <2>2. /\ outputs' = Append(outputs, b)
          /\ UNCHANGED <<chain, seed, source, drawn>>
          /\ gens' = [gens EXCEPT ![g] = gens[g] + 1]
          /\ pc' = [pc EXCEPT ![g] = "idle"]
      BY <1>2, <2>1 DEF Update
    <2>3. chain[g] # <<>>
      BY DEF Update, SeedOrigin, OriginOf
    <2>4. PICK n \in Nat : n = Len(outputs)
      BY DEF IndInv, TypeOK
    <2>5. outputs \in Seq(Blocks) /\ chain[g] \in Seq(Seeding) /\ gens[g] \in Nat
      BY DEF IndInv, TypeOK
    <2>6. b \in Blocks
      BY <2>1, <2>5 DEF Blocks
    <2>7. /\ Len(outputs') = n + 1
          /\ \A i \in 1..n : outputs'[i] = outputs[i]
          /\ outputs'[n + 1] = b
      BY <2>2, <2>4, <2>5, <2>6, AppendProperties
    <2>8. gens'[g] = gens[g] + 1 /\ \A h \in Generators : h # g => gens'[h] = gens[h]
      BY <2>2 DEF IndInv, TypeOK
    <2>9. b.by = g /\ b.chain = chain[g] /\ b.gens = gens[g]
      BY <2>1
    <2>10. \A i \in 1..(n + 1) : i \in 1..n \/ i = n + 1
      OBVIOUS
    <2>11. SeedOrigin' /\ OneSeedEach'
      <3>1. /\ pc'[g] = "idle"
            /\ \A h \in Generators : h # g => pc'[h] = pc[h] /\ seed'[h] = seed[h]
        BY <2>2 DEF IndInv, TypeOK
      <3>2. SourceMoves
        BY <2>2 DEF SourceMoves
      <3>3. \A h \in Generators : \A k \in Nat : SeededBy(h, k)' => SeededBy(h, k)
        BY <2>2, <3>1 DEF SeededBy
      <3>4. OriginOf(g)'
        BY <2>2, <2>3, <3>1 DEF OriginOf, SeedOrigin
      <3> QED
        BY <2>2, <3>1, <3>2, <3>3, <3>4, NoNewSeed, OriginOfOthers DEF SeedOrigin
    <2>12. ASSUME NEW i \in 1..(n + 1)
           PROVE  /\ outputs'[i].chain # <<>>
                  /\ outputs'[i].chain[1] = chain[outputs'[i].by][1]
                  /\ Earlier(outputs'[i].chain, outputs'[i].gens,
                             chain[outputs'[i].by], gens'[outputs'[i].by])
      <3>1. CASE i = n + 1
        BY <3>1, <2>3, <2>5, <2>7, <2>8, <2>9 DEF Earlier
      <3>2. CASE i \in 1..n
        <4>1. outputs[i] \in Blocks
          BY <3>2, <2>4, <2>5
        <4>2. outputs[i].gens \in Nat /\ outputs[i].by \in Generators
          BY <4>1 DEF Blocks
        <4>3. /\ outputs[i].chain # <<>> /\ outputs[i].chain[1] = chain[outputs[i].by][1]
              /\ Earlier(outputs[i].chain, outputs[i].gens, chain[outputs[i].by], gens[outputs[i].by])
          BY <3>2, <2>4 DEF OutputHistory
        <4>4. gens[outputs[i].by] \in Nat
          BY <4>2 DEF IndInv, TypeOK
        <4>5. outputs[i].gens < gens[outputs[i].by] => outputs[i].gens < gens'[outputs[i].by]
          BY <4>2, <4>4, <2>8
        <4> QED
          BY <3>2, <4>3, <4>5, <2>7 DEF Earlier
      <3> QED
        BY <2>10, <3>1, <3>2
    <2>13. ASSUME NEW i \in 1..(n + 1), NEW j \in 1..(n + 1), i < j,
                  outputs'[i].by = outputs'[j].by
           PROVE  Earlier(outputs'[i].chain, outputs'[i].gens, outputs'[j].chain, outputs'[j].gens)
      <3>1. i \in 1..n
        BY <2>13
      <3>2. CASE j \in 1..n
        BY <2>4, <2>7, <2>13, <3>1, <3>2 DEF OutputHistory
      <3>3. CASE j = n + 1
        BY <2>4, <2>7, <2>9, <2>13, <3>1, <3>3 DEF OutputHistory
      <3> QED
        BY <2>10, <3>2, <3>3
    <2>14. OutputHistory'
      BY <2>2, <2>7, <2>12, <2>13 DEF OutputHistory
    <2> QED
      BY <2>11, <2>14
  <1> QED
    BY <1>1, <1>2

-----------------------------------------------------------------------------
(* Every step.                                                              *)

\* A step between two points of a call, past its seeding.
LEMMA MovesSeparate ==
    ASSUME IndInv, Separation, NEW g \in Generators, SourceMoves,
           UNCHANGED <<chain, gens, outputs>>,
           NEW label \in {"idle", "draw_reseed", "reseed", "generate", "update"},
           pc' = [pc EXCEPT ![g] = label],
           pc[g] \in {"idle", "draw_reseed", "reseed", "generate", "update"},
           \A h \in Generators : h # g => seed'[h] = seed[h]
    PROVE  Separation'
  <1>1. chain[g] # <<>>
    BY DEF Separation, SeedOrigin, OriginOf
  <1>2. pc'[g] = label /\ \A h \in Generators : h # g => pc'[h] = pc[h]
    BY DEF IndInv, TypeOK
  <1> QED
    BY <1>1, <1>2, PassesOn

LEMMA EnvironmentSeparates ==
    ASSUME IndInv, Separation, SourceMoves, UNCHANGED <<pc, seed, chain, gens, outputs>>
    PROVE  Separation'
  <1>1. SeedOrigin'
    BY OriginOfOthers DEF SeedOrigin, Separation
  <1>2. \A g \in Generators : \A k \in Nat : SeededBy(g, k)' => SeededBy(g, k)
    BY DEF SeededBy
  <1> QED
    BY <1>1, <1>2, NoNewSeed, HistoryKept DEF Separation

LEMMA StepSeparates ==
    ASSUME IndInv, IndInv', Separation, NEW g \in Generators, Step(g)
    PROVE  Separation'
  <1>0. CASE Refused(g) \/ Unavailable(g) \/ (EndsModule(g) /\ \E d \in Draws : Fills(d))
    BY <1>0, ErrorsSeparate
  <1>1. CASE FromOs(g)
    BY <1>0, <1>1, SeedDrawnSeparates DEF FromOs
  <1>2. CASE DrawNonce(g)
    BY <1>0, <1>2, NonceDrawnSeparates DEF DrawNonce
  <1>3. CASE Instantiate(g)
    <2>1. CASE Seeded(g, <<seed[g], nonce[g]>>) /\ UNCHANGED <<source, drawn, outputs>>
      <3>1. PICK e : e = <<seed[g], nonce[g]>>
        OBVIOUS
      <3>2. e[1] = seed[g] /\ pc[g] = "instantiate"
        BY <1>3, <3>1 DEF Instantiate
      <3> QED
        BY <2>1, <3>1, <3>2, SeededSeparates
    <2> QED
      BY <1>0, <1>3, <2>1 DEF Instantiate
  <1>4. CASE FromEntropy(g)
    <2>1. CASE BadInput(g, {"EntropyFailure", "InvalidLength", "InvalidParameter"})
      BY <2>1, BadInputSeparates
    <2>2. CASE Seeded(g, <<Supplied(g)>>) /\ UNCHANGED <<source, drawn, outputs>>
      <3>1. PICK e : e = <<Supplied(g)>>
        OBVIOUS
      <3>2. chain[g] = <<>> /\ pc[g] = "absent"
        BY <1>4 DEF FromEntropy, Separation, SeedOrigin, OriginOf
      <3>3. e[1] = <<g, 0>>
        BY <3>1, <3>2 DEF Supplied
      <3> QED
        BY <2>2, <3>1, <3>2, <3>3, SeededSeparates
    <2> QED
      BY <1>0, <1>4, <2>1, <2>2 DEF FromEntropy
  <1>5. CASE Fill(g) \/ ReseedFromOs(g) \/ DirectGenerate(g)
    <2>1. CASE ~Refused(g)
      <3>1. /\ UNCHANGED <<chain, gens, outputs, seed, source, drawn>>
            /\ pc[g] = "idle"
            /\ Goto(g, "draw_reseed") \/ Goto(g, "generate")
        BY <1>5, <2>1 DEF Fill, ReseedFromOs, DirectGenerate, state
      <3> QED
        BY <3>1, MovesSeparate DEF Goto, SourceMoves
    <2> QED
      BY <1>0, <2>1
  <1>6. CASE DrawReseed(g)
    <2>1. ASSUME NEW d \in Draws, Fills(d), seed' = [seed EXCEPT ![g] = d], Goto(g, "reseed"),
                 UNCHANGED <<nonce, filling, state, source, outputs, up>>
          PROVE  Separation'
      <3>1. UNCHANGED <<chain, gens>>
        BY <2>1 DEF state
      <3>2. \A h \in Generators : h # g => seed'[h] = seed[h]
        BY <2>1 DEF IndInv, TypeOK
      <3>3. SourceMoves
        BY <2>1, FillsMoves
      <3> QED
        BY <1>6, <2>1, <3>1, <3>2, <3>3, MovesSeparate DEF Goto, DrawReseed
    <2> QED
      BY <1>0, <1>6, <2>1 DEF DrawReseed
  <1>7. CASE Reseed(g)
    <2>1. CASE ~Refused(g)
      <3>1. PICK e : e = <<seed[g]>>
        OBVIOUS
      <3>2. Mixed(g, e) /\ UNCHANGED <<source, drawn, outputs>>
        BY <1>7, <2>1, <3>1 DEF Reseed
      <3>3. pc[g] = "reseed" /\ pc'[g] \in {"idle", "generate"}
        BY <1>7, <2>1 DEF Reseed, Goto, IndInv, TypeOK
      <3>4. \A h \in Generators : h # g => pc'[h] = pc[h] /\ seed'[h] = seed[h]
        BY <1>7, <2>1 DEF Reseed, Goto, Wiped, IndInv, TypeOK
      <3> QED
        BY <3>2, <3>3, <3>4, MixedSeparates
    <2> QED
      BY <1>0, <2>1
  <1>8. CASE DirectReseed(g)
    <2>1. CASE BadInput(g, {"EntropyFailure", "InvalidLength"})
      BY <2>1, BadInputSeparates
    <2>2. CASE ~Refused(g) /\ ~BadInput(g, {"EntropyFailure", "InvalidLength"})
      <3>1. PICK e : e = <<Supplied(g)>>
        OBVIOUS
      <3> QED
        BY <1>8, <2>2, <3>1, MixedSeparates DEF DirectReseed
    <2> QED
      BY <1>0, <2>1, <2>2
  <1>9. CASE Generate(g)
    <2>1. CASE Fail(g, "CounterExhausted") /\ UNCHANGED <<source, drawn, up>>
      BY <2>1, FailSeparates DEF SourceMoves
    <2>2. CASE Goto(g, "update") /\ UNCHANGED <<seed, nonce, filling, state, source, drawn, outputs, up>>
      BY <1>9, <2>2, MovesSeparate DEF Generate, Goto, state, SourceMoves
    <2>3. CASE BadInput(g, {"InvalidLength"})
      BY <2>3, BadInputSeparates
    <2> QED
      BY <1>0, <1>9, <2>1, <2>2, <2>3 DEF Generate
  <1>10. CASE Update(g)
    BY <1>10, UpdateSeparates
  <1> QED
    BY <1>1, <1>2, <1>3, <1>4, <1>5, <1>6, <1>7, <1>8, <1>9, <1>10 DEF Step

LEMMA SeparationHolds == Spec => []Separation
  <1>1. Init => Separation
    BY DEF Init, Separation, SeedOrigin, OriginOf, OneSeedEach, SeededBy, OutputHistory
  <1>2. IndInv /\ IndInv' /\ Separation /\ [Next]_vars => Separation'
    <2> SUFFICES ASSUME IndInv, IndInv', Separation, [Next]_vars PROVE Separation'
      OBVIOUS
    <2>1. ASSUME NEW g \in Generators, Step(g) PROVE Separation'
      BY <2>1, StepSeparates
    <2>2. CASE SourceChanges
      BY <2>2, EnvironmentSeparates DEF SourceChanges, SourceMoves, state
    <2>3. CASE ModuleFails \/ UNCHANGED vars
      BY <2>3, EnvironmentSeparates DEF ModuleFails, vars, state, SourceMoves
    <2> QED
      BY <2>1, <2>2, <2>3 DEF Next
  <1> QED
    BY <1>1, <1>2, RngInvariant, PTL DEF Spec

(* No block is returned twice, by one generator or by two, for any number   *)
(* of generators, draws and reseeds, whenever the source fails or freezes   *)
(* (Rng::from_os, Rng::fill, Drbg::reseed, Drbg::generate).                 *)
THEOREM NoBlockTwice == Spec => []OutputsDistinct
  <1>1. IndInv /\ Separation => OutputsDistinct
    <2> SUFFICES ASSUME IndInv, Separation,
                        NEW i \in 1..Len(outputs), NEW j \in 1..Len(outputs), i # j,
                        outputs[i].chain = outputs[j].chain, outputs[i].gens = outputs[j].gens
                 PROVE  FALSE
      BY DEF OutputsDistinct
    <2> USE DEF Separation
    <2>1. /\ outputs[i].by \in Generators /\ outputs[j].by \in Generators
          /\ outputs[i].gens \in Nat /\ outputs[i].chain \in Seq(Seeding)
      <3>1. outputs[i] \in Blocks /\ outputs[j] \in Blocks
        BY DEF IndInv, TypeOK
      <3> QED
        BY <3>1 DEF Blocks
    <2>2. PICK n \in Nat : n = Len(outputs[i].chain)
      BY <2>1
    <2>3. CASE outputs[i].by = outputs[j].by
      <3>1. PICK l \in Nat : l = Len(outputs)
        BY DEF IndInv, TypeOK
      <3>2. i < j \/ j < i
        BY <3>1
      <3>3. Earlier(outputs[i].chain, outputs[i].gens, outputs[i].chain, outputs[i].gens)
        BY <2>3, <3>2 DEF OutputHistory
      <3> QED
        BY <2>1, <2>2, <3>3 DEF Earlier
    <2>4. CASE outputs[i].by # outputs[j].by
      <3>1. PICK g \in Generators : g = outputs[i].by
        BY <2>1
      <3>2. PICK h \in Generators : h = outputs[j].by
        BY <2>1
      <3>3. PICK e : e = outputs[i].chain[1].entropy[1]
        OBVIOUS
      <3>4. e = chain[g][1].entropy[1] /\ e = chain[h][1].entropy[1]
        BY <3>1, <3>2, <3>3 DEF OutputHistory
      <3>5. chain[g] # <<>> /\ chain[h] # <<>>
        BY <3>1, <3>2, AbsentReturnedNothing
      <3>6. CASE \E k \in 1..(drawn - 1) : e = OsDraw(k)
        <4>1. PICK k \in 1..(drawn - 1) : e = OsDraw(k)
          BY <3>6
        <4>2. SeededBy(g, k) /\ SeededBy(h, k)
          BY <3>4, <3>5, <4>1 DEF SeededBy
        <4>3. drawn \in Nat
          BY RngAssumption DEF IndInv, TypeOK
        <4>4. k \in 1..drawn /\ k < drawn
          BY <4>3
        <4> QED
          BY <2>4, <3>1, <3>2, <4>2, <4>4 DEF OneSeedEach
      <3>7. CASE e = <<g, 0>> /\ e = <<h, 0>>
        BY <2>4, <3>1, <3>2, <3>7
      <3> QED
        BY <3>4, <3>5, <3>6, <3>7 DEF SeedOrigin, OriginOf
    <2> QED
      BY <2>3, <2>4
  <1> QED
    BY <1>1, RngInvariant, SeparationHolds, PTL
=============================================================================
