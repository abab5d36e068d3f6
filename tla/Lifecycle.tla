----------------------------- MODULE Lifecycle ------------------------------
(***************************************************************************)
(* What the module boundary promises, as the state diagram of docs/FIPS.md  *)
(* draws it: pre-operational tests once, then operation in a mode that only *)
(* set_mode changes, and an error state that latches.                       *)
(***************************************************************************)
CONSTANT Initial     \* the mode the module comes up in

VARIABLE phase

Operational == {"Approved", "Unrestricted"}

Init == phase = "Uninitialized"

Initialize == phase = "Uninitialized" /\ phase' = "Testing"

AllPass == phase = "Testing" /\ phase' = Initial

AnyFail == phase = "Testing" /\ phase' = "Error"

SetMode == phase \in Operational /\ phase' \in Operational

\* enter_error_state, or a conditional self-test that fails.
BringDown == phase' = "Error"

Next == Initialize \/ AllPass \/ AnyFail \/ SetMode \/ BringDown

Safety == Init /\ [][Next]_phase

\* The tests end.
Spec == Safety /\ WF_phase(AllPass \/ AnyFail)
=============================================================================
