------------------------------- MODULE MCRng --------------------------------
(* Rng for TLC.  The interval is four calls, so that an Rng reseeds every    *)
(* two.  Two generators at a time: two Rngs that seed from one source, or    *)
(* an Rng beside a bare DRBG; the others stay absent.                       *)
EXTENDS Rng, TLC

CONSTANTS
    PairOutputs,   \* bound: blocks returned to a program with two Rngs
    MixedDraws     \* bound: fresh draws in a program with one

VARIABLE crew   \* the generators of this program

Crews == {Rngs} \cup {{r, d} : r \in Rngs, d \in Drbgs}

CrewInit == crew \in Crews /\ Init

CrewNext ==
    /\ (\E g \in crew : Step(g)) \/ SourceChanges \/ ModuleFails
    /\ IF crew = Rngs THEN Len(outputs') <= PairOutputs ELSE drawn' <= MixedDraws
    /\ UNCHANGED crew

CrewSpec == CrewInit /\ [][CrewNext]_<<crew, vars>>

\* Generators of one kind are alike.
Alikeness == Permutations(Rngs)
=============================================================================
