-------------------------------- MODULE Rng ---------------------------------
(***************************************************************************)
(* ic_drbg: the DRBGs of SP 800-90A with their reseed counter, and Rng, the *)
(* generator over HMAC_DRBG that seeds and reseeds itself from the operating *)
(* system.  Any number of generators, each used by one thread, share the    *)
(* entropy source and the error flag of ic_core::module.                    *)
(*                                                                          *)
(* A step runs from one load of the error flag to the next.  The state of a *)
(* DRBG is what went into it, in order: HMAC and AES are ideal, so that two *)
(* blocks are equal if and only if the states they come from are.           *)
(***************************************************************************)
EXTENDS Naturals, Sequences

CONSTANTS
    Rngs,        \* generators of type Rng
    Drbgs,       \* HmacDrbg and CtrDrbg values that an application drives
    Interval,    \* RESEED_INTERVAL
    MaxDraws,    \* bound: fresh draws from the source
    MaxChain,    \* bound: seedings of one generator
    MaxOutputs   \* bound: blocks returned

ASSUME RngAssumption ==
    /\ Rngs \intersect Drbgs = {}
    /\ "os" \notin Rngs \union Drbgs
    /\ Interval \in Nat \ {0}
    /\ MaxDraws \in Nat /\ MaxChain \in Nat /\ MaxOutputs \in Nat

Generators == Rngs \union Drbgs

VARIABLES
    pc,        \* what the call that a generator is in does next
    seed,      \* the buffers of from_os and reseed_from_os
    nonce,
    filling,   \* the reseed under way is part of a fill
    chain,     \* key and value of the DRBG: the entropy that went in, and
    gens,      \*   the blocks generated since the last of it
    counter,   \* reseed_counter
    calls,     \* Rng::calls_since_reseed
    result,    \* of the last call
    source,    \* the operating system's entropy source
    drawn,     \* its fresh draws so far, each with a number
    outputs,   \* the blocks returned, in order
    up         \* the error flag is not set

state == <<chain, gens, counter, calls>>
vars == <<pc, seed, nonce, filling, state, result, source, drawn, outputs, up>>

\* What the source can return: bytes that are all alike, or a draw of its own.
\* What an application supplies differs from all of them and from each other.
OsDraw(n) == <<"os", n>>
Alike == OsDraw(0)
Draws == {OsDraw(n) : n \in 0..MaxDraws}
Supplied(g) == <<g, Len(chain[g])>>
Entropy == Draws \union (Generators \X Nat)

\* A seeding: the entropy (from_os puts in two draws) and the number of blocks
\* that the state before had produced.
Seeding == [entropy : Seq(Entropy), after : Nat]

Blocks == [by : Generators, chain : Seq(Seeding), gens : Nat]

Sources == {"working", "unavailable", "alike", "frozen"}

Results == {"none", "Ok", "EntropyFailure", "ModuleErrorState", "CounterExhausted",
            "InvalidLength", "InvalidParameter"}

Labels == {"absent", "idle", "draw_nonce", "instantiate",
           "draw_reseed", "reseed", "generate", "update"}

-----------------------------------------------------------------------------
Init ==
    /\ pc = [g \in Generators |-> "absent"]
    /\ seed = [g \in Generators |-> Alike]
    /\ nonce = [g \in Generators |-> Alike]
    /\ filling = [g \in Generators |-> FALSE]
    /\ chain = [g \in Generators |-> <<>>]
    /\ gens = [g \in Generators |-> 0]
    /\ counter = [g \in Generators |-> 1]
    /\ calls = [g \in Generators |-> 0]
    /\ result = [g \in Generators |-> "none"]
    /\ source = "working"
    /\ drawn = 0
    /\ outputs = <<>>
    /\ up = TRUE

Goto(g, label) == pc' = [pc EXCEPT ![g] = label] /\ UNCHANGED result

Home(g) == IF chain[g] = <<>> THEN "absent" ELSE "idle"

\* The buffers are wiped on every return.
Wiped(g) ==
    /\ seed' = [seed EXCEPT ![g] = Alike]
    /\ nonce' = [nonce EXCEPT ![g] = Alike]
    /\ filling' = [filling EXCEPT ![g] = FALSE]

\* The call ends with an error and leaves the generator as it was.
Fail(g, r) ==
    /\ pc' = [pc EXCEPT ![g] = Home(g)]
    /\ result' = [result EXCEPT ![g] = r]
    /\ Wiped(g)
    /\ UNCHANGED <<state, outputs>>

\* ic_core::module::operational() at the head of a step.
Refused(g) ==
    /\ ~up
    /\ Fail(g, "ModuleErrorState")
    /\ UNCHANGED <<source, drawn, up>>

\* ic_core::entropy::fill: what the source returns.
Fills(d) ==
    \/ source = "working" /\ drawn < MaxDraws /\ d = OsDraw(drawn + 1) /\ drawn' = drawn + 1
    \/ source = "frozen" /\ d = OsDraw(drawn) /\ UNCHANGED drawn
    \/ source = "alike" /\ d = Alike /\ UNCHANGED drawn

Unavailable(g) ==
    /\ source = "unavailable"
    /\ Fail(g, "EntropyFailure")
    /\ UNCHANGED <<source, drawn, up>>

\* conditional_self_test of a test that fails.
EndsModule(g) ==
    /\ Fail(g, "EntropyFailure")
    /\ up' = FALSE
    /\ UNCHANGED source

\* not_stuck fails.
Stuck(d) == d = Alike

-----------------------------------------------------------------------------
(* Rng::from_os, whose two draws come without a look at the flag between.   *)

FromOs(g) ==
    /\ g \in Rngs /\ pc[g] = "absent"
    /\ \/ Refused(g)
       \/ up /\ Unavailable(g)
       \/ /\ up
          /\ \E d \in Draws :
                /\ Fills(d)
                /\ \/ Stuck(d) /\ EndsModule(g)
                   \/ /\ ~Stuck(d)
                      /\ seed' = [seed EXCEPT ![g] = d]
                      /\ Goto(g, "draw_nonce")
                      /\ UNCHANGED <<nonce, filling, state, source, outputs, up>>

\* Mutant: the two draws are not compared.
Repeated_Never(g, d) == FALSE

\* Two draws that begin alike are one draw made twice.
Repeated(g, d) == seed[g] = d

DrawNonce(g) ==
    /\ pc[g] = "draw_nonce"
    /\ \/ Unavailable(g)
       \/ \E d \in Draws :
            /\ Fills(d)
            /\ \/ (Stuck(d) \/ Repeated(g, d)) /\ EndsModule(g)
               \/ /\ ~(Stuck(d) \/ Repeated(g, d))
                  /\ nonce' = [nonce EXCEPT ![g] = d]
                  /\ Goto(g, "instantiate")
                  /\ UNCHANGED <<seed, filling, state, source, outputs, up>>

\* The DRBG's instantiate.
Seeded(g, entropy) ==
    /\ pc' = [pc EXCEPT ![g] = "idle"]
    /\ result' = [result EXCEPT ![g] = "Ok"]
    /\ chain' = [chain EXCEPT ![g] = <<[entropy |-> entropy, after |-> 0]>>]
    /\ gens' = [gens EXCEPT ![g] = 0]
    /\ counter' = [counter EXCEPT ![g] = 1]
    /\ calls' = [calls EXCEPT ![g] = 0]
    /\ Wiped(g)

Instantiate(g) ==
    /\ pc[g] = "instantiate"
    /\ \/ Refused(g)
       \/ /\ up
          /\ Seeded(g, <<seed[g], nonce[g]>>)
          /\ UNCHANGED <<source, drawn, outputs, up>>

\* Input of the caller's is refused: too little entropy, and by CtrDrbg another
\* length of it, a string too long, or a nonce next to a string.
BadInput(g, errors) ==
    /\ up
    /\ \E r \in errors : Fail(g, r) /\ (g \in Rngs => r = "EntropyFailure")
    /\ UNCHANGED <<source, drawn, up>>

\* Rng::from_entropy, and instantiate called by an application: the entropy is
\* the caller's.
FromEntropy(g) ==
    /\ pc[g] = "absent"
    /\ \/ Refused(g)
       \/ BadInput(g, {"EntropyFailure", "InvalidLength", "InvalidParameter"})
       \/ /\ up
          /\ Seeded(g, <<Supplied(g)>>)
          /\ UNCHANGED <<source, drawn, outputs, up>>

-----------------------------------------------------------------------------
(* Rng::fill, Rng::reseed_from_os, Drbg::reseed and Drbg::generate.         *)

\* Mutant: the reseed is left until the DRBG's own limit.
Due_AtLimit(g) == calls[g] > Interval

Due(g) == calls[g] >= Interval \div 2

Fill(g) ==
    /\ g \in Rngs /\ pc[g] = "idle"
    /\ \/ Refused(g)
       \/ /\ up
          /\ Len(outputs) < MaxOutputs
          /\ IF Due(g)
             THEN /\ Len(chain[g]) < MaxChain
                  /\ filling' = [filling EXCEPT ![g] = TRUE]
                  /\ Goto(g, "draw_reseed")
                  /\ UNCHANGED calls
             ELSE /\ calls' = [calls EXCEPT ![g] = @ + 1]
                  /\ Goto(g, "generate")
                  /\ UNCHANGED filling
          /\ UNCHANGED <<seed, nonce, chain, gens, counter, source, drawn, outputs, up>>

ReseedFromOs(g) ==
    /\ g \in Rngs /\ pc[g] = "idle"
    /\ Len(chain[g]) < MaxChain
    /\ filling' = [filling EXCEPT ![g] = FALSE]
    /\ Goto(g, "draw_reseed")
    /\ UNCHANGED <<seed, nonce, state, source, drawn, outputs, up>>

DrawReseed(g) ==
    /\ pc[g] = "draw_reseed"
    /\ \/ Refused(g)
       \/ up /\ Unavailable(g)
       \/ /\ up
          /\ \E d \in Draws :
                /\ Fills(d)
                /\ \/ Stuck(d) /\ EndsModule(g)
                   \/ /\ ~Stuck(d)
                      /\ seed' = [seed EXCEPT ![g] = d]
                      /\ Goto(g, "reseed")
                      /\ UNCHANGED <<nonce, filling, state, source, outputs, up>>

\* The DRBG's reseed: update mixes the entropy with key and value.
Mixed(g, entropy) ==
    /\ chain' = [chain EXCEPT ![g] = Append(@, [entropy |-> entropy, after |-> gens[g]])]
    /\ gens' = [gens EXCEPT ![g] = 0]
    /\ counter' = [counter EXCEPT ![g] = 1]

\* The rest of reseed_from_os, and of the fill it is part of.
Reseed(g) ==
    /\ pc[g] = "reseed"
    /\ \/ Refused(g)
       \/ /\ up
          /\ Mixed(g, <<seed[g]>>)
          /\ Wiped(g)
          /\ \/ /\ filling[g]
                /\ calls' = [calls EXCEPT ![g] = 1]
                /\ Goto(g, "generate")
             \/ /\ ~filling[g]
                /\ calls' = [calls EXCEPT ![g] = 0]
                /\ pc' = [pc EXCEPT ![g] = "idle"]
                /\ result' = [result EXCEPT ![g] = "Ok"]
          /\ UNCHANGED <<source, drawn, outputs, up>>

\* An application reseeds its DRBG, with entropy of its own.
DirectReseed(g) ==
    /\ g \in Drbgs /\ pc[g] = "idle"
    /\ \/ Refused(g)
       \/ BadInput(g, {"EntropyFailure", "InvalidLength"})
       \/ /\ up
          /\ Len(chain[g]) < MaxChain
          /\ Mixed(g, <<Supplied(g)>>)
          /\ result' = [result EXCEPT ![g] = "Ok"]
          /\ UNCHANGED <<pc, seed, nonce, filling, calls, source, drawn, outputs, up>>

\* An application calls generate.
DirectGenerate(g) ==
    /\ g \in Drbgs /\ pc[g] = "idle"
    /\ Len(outputs) < MaxOutputs
    /\ Goto(g, "generate")
    /\ UNCHANGED <<seed, nonce, filling, state, source, drawn, outputs, up>>

\* Mutant: one generate too many.
WithinInterval_OneMore(g) == counter[g] <= Interval + 1

WithinInterval(g) == counter[g] <= Interval

\* generate, up to the blocks of output.  CtrDrbg refuses additional input that
\* is too long; an Rng gives none.
Generate(g) ==
    /\ pc[g] = "generate"
    /\ \/ Refused(g)
       \/ /\ up /\ ~WithinInterval(g)
          /\ Fail(g, "CounterExhausted")
          /\ UNCHANGED <<source, drawn, up>>
       \/ WithinInterval(g) /\ BadInput(g, {"InvalidLength"})
       \/ /\ up /\ WithinInterval(g)
          /\ Goto(g, "update")
          /\ UNCHANGED <<seed, nonce, filling, state, source, drawn, outputs, up>>

\* generate, the final update, which fails if the module has: the caller's
\* buffer holds a block then, but the call is an error.
Update(g) ==
    /\ pc[g] = "update"
    /\ \/ Refused(g)
       \/ /\ up
          /\ outputs' = Append(outputs, [by |-> g, chain |-> chain[g], gens |-> gens[g]])
          /\ gens' = [gens EXCEPT ![g] = @ + 1]
          /\ counter' = [counter EXCEPT ![g] = @ + 1]
          /\ pc' = [pc EXCEPT ![g] = "idle"]
          /\ result' = [result EXCEPT ![g] = "Ok"]
          /\ UNCHANGED <<seed, nonce, filling, chain, calls, source, drawn, up>>

-----------------------------------------------------------------------------
\* The source goes away and comes back, or stops for good: it returns bytes
\* that are all alike, or the last draw for ever.
SourceChanges ==
    /\ \/ source = "working" /\ source' \in {"unavailable", "alike"}
       \/ source = "working" /\ drawn > 0 /\ source' = "frozen"
       \/ source = "unavailable" /\ source' = "working"
    /\ UNCHANGED <<pc, seed, nonce, filling, state, result, drawn, outputs, up>>

\* Another part of the library fails a test of its own.
ModuleFails ==
    /\ up
    /\ up' = FALSE
    /\ UNCHANGED <<pc, seed, nonce, filling, state, result, source, drawn, outputs>>

Step(g) ==
    \/ FromOs(g) \/ DrawNonce(g) \/ Instantiate(g) \/ FromEntropy(g)
    \/ Fill(g) \/ ReseedFromOs(g) \/ DrawReseed(g) \/ Reseed(g)
    \/ DirectReseed(g) \/ DirectGenerate(g) \/ Generate(g) \/ Update(g)

Next == (\E g \in Generators : Step(g)) \/ SourceChanges \/ ModuleFails

Spec == Init /\ [][Next]_vars

-----------------------------------------------------------------------------
(* Every variable has its type; a call in progress is in a generator of the *)
(* kind that has it.                                                        *)
TypeOK ==
    /\ pc \in [Generators -> Labels]
    /\ seed \in [Generators -> Draws]
    /\ nonce \in [Generators -> Draws]
    /\ filling \in [Generators -> BOOLEAN]
    /\ chain \in [Generators -> Seq(Seeding)]
    /\ gens \in [Generators -> Nat]
    /\ counter \in [Generators -> 1..(Interval + 1)]
    /\ calls \in [Generators -> 0..Interval]
    /\ result \in [Generators -> Results]
    /\ source \in Sources
    /\ drawn \in 0..MaxDraws
    /\ outputs \in Seq(Blocks)
    /\ up \in BOOLEAN
    /\ \A g \in Drbgs : pc[g] \in {"absent", "idle", "generate", "update"}

Half == Interval \div 2

\* The blocks that a generator may return on the entropy of one seeding.
Limit(g) == IF g \in Drbgs THEN Interval ELSE IF Half = 0 THEN 1 ELSE Half

(* Every block returned was generated within the reseed interval: an Rng    *)
(* has mixed in another draw, one that passed the test of the source, at    *)
(* least every half interval, also when the source was away in between; and *)
(* a bare DRBG is refused beyond it (rng.rs:109-113, hmac_drbg.rs:125-129,  *)
(* ctr.rs:138-142).                                                         *)
OutputsFresh == \A i \in 1..Len(outputs) : outputs[i].gens < Limit(outputs[i].by)

(* "The CounterExhausted failure mode never surfaces to ordinary callers"   *)
(* (rng.rs:5): the count of calls and the DRBG's own counter never drift so *)
(* far apart that an Rng runs into the DRBG's limit.                        *)
ExhaustionNeverSurfaces == \A g \in Rngs : result[g] # "CounterExhausted"

(* The counters behind the two: calls_since_reseed covers the blocks that   *)
(* the DRBG has generated, failed calls included.                           *)
CountersAgree ==
    \A g \in Generators :
        /\ counter[g] = gens[g] + 1
        /\ gens[g] <= Limit(g)
        /\ g \in Rngs =>
            /\ pc[g] \notin {"generate", "update"} => gens[g] <= calls[g]
            /\ pc[g] \in {"generate", "update"} => gens[g] < calls[g]
            /\ calls[g] <= Limit(g)
        /\ pc[g] = "update" => gens[g] < Limit(g)

IndInv ==
    /\ TypeOK
    /\ CountersAgree
    /\ OutputsFresh
    /\ ExhaustionNeverSurfaces

(* What makes the blocks of two generators differ.  An Rng's first entropy  *)
(* is a draw: one it has not finished with may have been repeated by a      *)
(* source that froze, but only the last draw is, and from_os refuses it.    *)
SeededBy(g, k) ==
    \/ pc[g] \in {"draw_nonce", "instantiate"} /\ seed[g] = OsDraw(k)
    \/ chain[g] # <<>> /\ chain[g][1].entropy[1] = OsDraw(k)

OriginOf(g) ==
    /\ chain[g] = <<>> <=> pc[g] \in {"absent", "draw_nonce", "instantiate"}
    /\ pc[g] = "draw_nonce" => \E k \in 1..drawn : seed[g] = OsDraw(k)
    /\ pc[g] = "instantiate" => \E k \in 1..(drawn - 1) : seed[g] = OsDraw(k)
    /\ chain[g] # <<>> =>
        \/ chain[g][1].entropy[1] = <<g, 0>>
        \/ \E k \in 1..(drawn - 1) : chain[g][1].entropy[1] = OsDraw(k)

SeedOrigin == \A g \in Generators : OriginOf(g)

OneSeedEach ==
    \A g, h \in Generators : \A k \in 1..drawn :
        g # h /\ (k < drawn \/ source # "frozen") => ~(SeededBy(g, k) /\ SeededBy(h, k))

(* What makes the blocks of one generator differ: its state moves on from   *)
(* each of them.                                                            *)
Earlier(c1, n1, c2, n2) == Len(c1) < Len(c2) \/ (Len(c1) = Len(c2) /\ n1 < n2)

OutputHistory ==
    /\ \A i \in 1..Len(outputs) :
        LET o == outputs[i] IN
        /\ o.chain # <<>> /\ o.chain[1] = chain[o.by][1]
        /\ Earlier(o.chain, o.gens, chain[o.by], gens[o.by])
    /\ \A i, j \in 1..Len(outputs) :
        i < j /\ outputs[i].by = outputs[j].by =>
            Earlier(outputs[i].chain, outputs[i].gens, outputs[j].chain, outputs[j].gens)

Separation == SeedOrigin /\ OneSeedEach /\ OutputHistory

(* No block is ever returned twice, by one generator or by two, while the   *)
(* source works, goes away, and after it has stopped (rng.rs:7-16).         *)
OutputsDistinct ==
    \A i, j \in 1..Len(outputs) :
        i # j => <<outputs[i].chain, outputs[i].gens>> # <<outputs[j].chain, outputs[j].gens>>
=============================================================================
