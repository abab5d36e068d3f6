-------------------------- MODULE FipsModuleProofs --------------------------
(***************************************************************************)
(* Proofs about FipsModule, for any number of threads, any CAST table, any  *)
(* registry and every build.                                                *)
(***************************************************************************)
EXTENDS FipsModule, TLAPS

-----------------------------------------------------------------------------
(* Type correctness.  The typing of the locals that Goto and Return change  *)
(* is stated once.                                                          *)

AllRequests == Requests \union {NoRequest, Reinitialize}

LocalsTyped ==
    /\ pc \in [Threads -> Labels]
    /\ req \in [Threads -> AllRequests]
    /\ cast \in [Threads -> 0..NumCasts]
    /\ passed \in [Threads -> 0..NumCasts]
    /\ failed \in [Threads -> 0..NumCasts]
    /\ result \in [Threads -> Results]
    /\ initialized \in BOOLEAN
    /\ reported \in BOOLEAN
    /\ late \in [Threads -> BOOLEAN]

\* A call that returns leaves its thread's locals typed.
LEMMA ReturnTyped ==
    ASSUME TypeOK, NEW t \in Threads, NEW r \in Results, Return(t, r)
    PROVE  LocalsTyped'
  <1>1. "idle" \in Labels /\ NoRequest \in AllRequests /\ 0 \in 0..NumCasts
    BY CastsAssumption DEF Labels, AllRequests
  <1> QED
    BY <1>1 DEF TypeOK, LocalsTyped, AllRequests, Return

\* A call that goes on to another access leaves its thread's locals typed.
LEMMA GotoTyped ==
    ASSUME TypeOK, NEW t \in Threads, NEW label \in Labels, Goto(t, label),
           UNCHANGED report
    PROVE  LocalsTyped'
  BY DEF TypeOK, LocalsTyped, AllRequests, Goto, report

\* Typed locals and typed shared state make the whole state typed.
LEMMA ObserveTyped ==
    ASSUME TypeOK, LocalsTyped', Observe,
           FIPS_STATE' \in StateValues, FAILED' \in BOOLEAN,
           SELF_TESTS' \in {"UNTESTED", "TESTING", "PASSED"},
           certified' \in BOOLEAN, accepted' \in Modes
    PROVE  TypeOK'
  <1>1. Observed' \in StateValues
    BY DEF Observed, StateValues
  <1>2. \A t \in Threads : seen[t] \union {Observed'} \in SUBSET StateValues
    BY <1>1 DEF TypeOK
  <1>3. seen' \in [Threads -> SUBSET StateValues]
    BY <1>2 DEF Observe, TypeOK
  <1> QED
    BY <1>3 DEF TypeOK, LocalsTyped, AllRequests

\* A step that leaves the shared state alone keeps the type invariant.
LEMMA SharedTyped ==
    ASSUME TypeOK, LocalsTyped', Observe, UNCHANGED <<shared, certified, accepted>>
    PROVE  TypeOK'
  BY ObserveTyped DEF TypeOK, shared


-----------------------------------------------------------------------------
(* The inductive invariant.  First the two ways in which a step that leaves  *)
(* the shared state alone can end.                                          *)

\* A call returns, without having been on its way to settle anything.
LEMMA LocalReturn ==
    ASSUME IndInv, NEW t \in Threads, NEW r \in Results,
           Return(t, r), Observe, UNCHANGED <<shared, certified, accepted>>,
           ~Begun(t), req[t].op # "enter_error_state",
           req[t].op \in {"initialize", "keygen"} => r # "SelfTestFailed",
           late[t] => r = "ModuleErrorState"
    PROVE  IndInv'
  <1> USE DEF IndInv
  <1>1. TypeOK'
    BY ReturnTyped, SharedTyped
  <1>2. CallShape'
    BY DEF CallShape, Return, TypeOK, NoRequest
  <1>3. ReportCounts'
    BY DEF ReportCounts, Return, TypeOK, Started, Begun, NoRequest
  <1>4. Certification'
    BY DEF Certification, Return, TypeOK, shared
  <1>5. Settling'
    BY DEF Settling, Return, TypeOK, Started, Begun, NoRequest, shared
  <1>6. Latching'
    BY DEF Latching, Return, TypeOK, shared
  <1>7. Gating'
    BY DEF Gating, Return, TypeOK, shared
  <1> QED BY <1>1, <1>2, <1>3, <1>4, <1>5, <1>6, <1>7

\* A call that has stored nothing yet goes on to another access.
LEMMA LocalGoto ==
    ASSUME IndInv, NEW t \in Threads,
           NEW label \in {"state_load", "store_testing", "store_mode",
                          "mode_failed", "mode_load", "gate_failed",
                          "gate_tested", "serve", "store_failed"},
           Goto(t, label), Observe,
           UNCHANGED <<shared, report, certified, accepted>>,
           ~Begun(t), ~late[t],
           pc[t] \notin {"idle", "cast", "cast_gate"},
           req[t].op # "enter_error_state",
           CallShape',
           label = "store_mode" => certified,
           label = "serve" /\ StartupGate => SELF_TESTS # "UNTESTED",
           label = "store_failed" => req[t].op = "keygen"
    PROVE  IndInv'
  <1> USE DEF IndInv
  <1>1. TypeOK'
    BY GotoTyped, SharedTyped DEF Labels
  <1>3. ReportCounts'
    BY DEF ReportCounts, Goto, TypeOK, Started, Begun, report
  <1>4. Certification'
    BY DEF Certification, Goto, TypeOK, shared
  <1>5. Settling'
    BY DEF Settling, Goto, TypeOK, Started, Begun, shared, CallShape
  <1>6. Latching'
    BY DEF Latching, Goto, TypeOK, shared
  <1>7. Gating'
    BY DEF Gating, Goto, TypeOK, shared
  <1> QED BY <1>1, <1>3, <1>4, <1>5, <1>6, <1>7

-----------------------------------------------------------------------------
(* One lemma per action: it preserves the inductive invariant.              *)

LEMMA StateFailedInv ==
    ASSUME IndInv, NEW t \in Threads, StateFailed(t) PROVE IndInv'
  <1> USE DEF IndInv
  <1>1. ~Begun(t) /\ req[t].op # "enter_error_state"
    BY DEF StateFailed, Begun, CallShape
  <1>2. CASE FAILED /\ Return(t, "ModuleErrorState")
    BY <1>1, <1>2, LocalReturn DEF StateFailed, Results, Errors
  <1>3. CASE ~FAILED /\ Goto(t, "state_load") /\ UNCHANGED report
    <2>1. CallShape'
      BY <1>3 DEF CallShape, StateFailed, Goto, TypeOK
    <2>2. ~late[t]
      BY <1>3 DEF Latching
    <2> QED
      BY <1>1, <1>3, <2>1, <2>2, LocalGoto DEF StateFailed
  <1> QED BY <1>2, <1>3 DEF StateFailed

LEMMA InitializeStateInv ==
    ASSUME IndInv, NEW t \in Threads, InitializeState(t) PROVE IndInv'
  <1> USE DEF IndInv
  <1>1. ~Begun(t) /\ req[t].op = "initialize" /\ ~late[t]
    BY DEF InitializeState, Begun, Latching
  <1>2. CASE Return(t, "ModuleErrorState")
    BY <1>1, <1>2, LocalReturn DEF InitializeState, Results, Errors
  <1>3. CASE Goto(t, "store_testing") /\ UNCHANGED report
    <2>1. CallShape'
      BY <1>1, <1>3 DEF CallShape, InitializeState, Goto, TypeOK, NoRequest
    <2> QED
      BY <1>1, <1>3, <2>1, LocalGoto DEF InitializeState
  <1>4. CASE /\ pc' = [pc EXCEPT ![t] = "cast"]
             /\ req' = [req EXCEPT ![t] = Reinitialize]
             /\ cast' = [cast EXCEPT ![t] = 1]
             /\ UNCHANGED <<passed, failed, result, initialized, reported, late>>
    <2> USE <1>4
    <2>1. TypeOK'
      <3>1. LocalsTyped'
        BY CastsAssumption DEF LocalsTyped, AllRequests, TypeOK, Labels
      <3> QED BY <3>1, SharedTyped DEF InitializeState
    <2>2. CallShape'
      BY DEF CallShape, TypeOK, Reinitialize, NoRequest
    <2>3. ReportCounts'
      BY <1>1, CastsAssumption DEF ReportCounts, Started, TypeOK, Begun, Reinitialize, InitializeState
    <2>4. Certification'
      BY DEF Certification, InitializeState, shared, TypeOK
    <2>5. Settling'
      BY <1>1 DEF Settling, Started, Begun, InitializeState, shared, TypeOK, Reinitialize
    <2>6. Latching'
      BY <1>1 DEF Latching, InitializeState, shared, TypeOK
    <2>7. Gating'
      BY DEF Gating, InitializeState, shared, TypeOK
    <2> QED BY <2>1, <2>2, <2>3, <2>4, <2>5, <2>6, <2>7
  <1> QED BY <1>2, <1>3, <1>4 DEF InitializeState

LEMMA SetModeStateInv ==
    ASSUME IndInv, NEW t \in Threads, SetModeState(t) PROVE IndInv'
  <1> USE DEF IndInv
  <1>1. ~Begun(t) /\ req[t].op = "set_mode" /\ ~late[t]
    BY DEF SetModeState, Begun, Latching
  <1>2. ASSUME NEW r \in Errors, Return(t, r) PROVE IndInv'
    BY <1>1, <1>2, LocalReturn DEF SetModeState, Results
  <1>3. CASE FIPS_STATE \in Modes /\ Goto(t, "store_mode") /\ UNCHANGED report
    <2>1. req[t].arg \in Modes
      BY <1>1 DEF TypeOK, Requests, NoRequest, Reinitialize
    <2>2. CallShape'
      BY <1>1, <1>3, <2>1 DEF CallShape, SetModeState, Goto, TypeOK, NoRequest
    <2> QED
      BY <1>1, <1>3, <2>2, LocalGoto DEF SetModeState, Certification
  <1> QED BY <1>2, <1>3 DEF SetModeState, Errors

LEMMA CheckStateInv ==
    ASSUME IndInv, NEW t \in Threads, CheckState(t) PROVE IndInv'
  <1> USE DEF IndInv
  <1>1. ~Begun(t) /\ req[t].op \in {"check", "guarded"} /\ ~late[t]
    BY DEF CheckState, Begun, Latching
  <1>2. ASSUME NEW r \in Errors, Return(t, r) PROVE IndInv'
    BY <1>1, <1>2, LocalReturn DEF CheckState, Results
  <1>3. CASE req[t].arg # UnknownId /\ Goto(t, "mode_failed") /\ UNCHANGED report
    <2>1. req[t].arg \in Algorithms
      BY <1>1, <1>3 DEF TypeOK, Requests, NoRequest, Reinitialize, Identifiers
    <2>2. CallShape'
      BY <1>1, <1>3, <2>1 DEF CallShape, CheckState, Goto, TypeOK, NoRequest
    <2> QED
      BY <1>1, <1>3, <2>2, LocalGoto DEF CheckState
  <1> QED BY <1>2, <1>3 DEF CheckState, Errors

\* The end of check, for ModeFailed and ModeLoad.
LEMMA VerdictInv ==
    ASSUME IndInv, NEW t \in Threads, NEW approved_mode \in BOOLEAN,
           pc[t] \in {"mode_failed", "mode_load"},
           Verdict(t, approved_mode), Observe,
           UNCHANGED <<shared, certified, accepted>>
    PROVE  IndInv'
  <1> USE DEF IndInv
  <1>1. ~Begun(t) /\ req[t].op \in {"check", "guarded"} /\ ~late[t]
    BY DEF Begun, Latching, CallShape
  <1>2. CASE Return(t, "NotApprovedInFipsMode")
    BY <1>1, <1>2, LocalReturn DEF Results, Errors
  <1>3. CASE Return(t, Indicator(Fips[req[t].arg]))
    <2>1. Indicator(Fips[req[t].arg]) \in Results \ {"SelfTestFailed"}
      BY DEF Indicator, Results, Errors, Indicators
    <2> QED BY <1>1, <1>3, <2>1, LocalReturn
  <1>4. CASE req[t].op = "guarded" /\ Goto(t, "gate_failed") /\ UNCHANGED report
    <2>1. CallShape'
      BY <1>4 DEF CallShape, Goto, TypeOK, NoRequest
    <2> QED BY <1>1, <1>4, <2>1, LocalGoto
  <1> QED BY <1>1, <1>2, <1>3, <1>4 DEF Verdict

LEMMA ModeFailedInv ==
    ASSUME IndInv, NEW t \in Threads, ModeFailed(t) PROVE IndInv'
  <1> USE DEF IndInv
  <1>1. CASE Verdict(t, FALSE)
    BY <1>1, VerdictInv DEF ModeFailed
  <1>2. CASE ~FAILED /\ Goto(t, "mode_load") /\ UNCHANGED report
    <2>1. ~Begun(t) /\ req[t].op \in {"check", "guarded"} /\ ~late[t]
      BY DEF Begun, Latching, CallShape, ModeFailed
    <2>2. CallShape'
      BY <1>2 DEF CallShape, Goto, TypeOK, ModeFailed, NoRequest
    <2> QED BY <1>2, <2>1, <2>2, LocalGoto DEF ModeFailed
  <1> QED BY <1>1, <1>2 DEF ModeFailed

LEMMA ModeLoadInv ==
    ASSUME IndInv, NEW t \in Threads, ModeLoad(t) PROVE IndInv'
  BY VerdictInv DEF ModeLoad

LEMMA StoreModeInv ==
    ASSUME IndInv, NEW t \in Threads, StoreMode(t) PROVE IndInv'
  <1> USE DEF IndInv
  <1>1. ~Begun(t) /\ req[t].op = "set_mode" /\ req[t].arg \in Modes /\ ~late[t]
    BY DEF StoreMode, Begun, Latching, CallShape
  <1>2. TypeOK'
    <2>1. LocalsTyped'
      BY ReturnTyped DEF StoreMode, Results
    <2> QED BY <1>1, <2>1, ObserveTyped DEF StoreMode, TypeOK, StateValues
  <1>3. CallShape'
    BY DEF CallShape, StoreMode, Return, TypeOK, NoRequest
  <1>4. ReportCounts'
    BY DEF ReportCounts, StoreMode, Return, TypeOK, Started, Begun, NoRequest
  <1>5. Certification'
    BY <1>1 DEF Certification, StoreMode, Return, TypeOK
  <1>6. Settling'
    BY <1>1 DEF Settling, StoreMode, Return, TypeOK, Started, Begun, NoRequest, Modes
  <1>7. Latching'
    BY <1>1 DEF Latching, StoreMode, Return, TypeOK
  <1>8. Gating'
    BY DEF Gating, StoreMode, Return, TypeOK
  <1> QED BY <1>2, <1>3, <1>4, <1>5, <1>6, <1>7, <1>8

LEMMA StoreTestingInv ==
    ASSUME IndInv, NEW t \in Threads, StoreTesting(t) PROVE IndInv'
  <1> USE DEF IndInv
  <1>1. req[t].op = "initialize" /\ ~late[t]
    BY DEF StoreTesting, Latching, CallShape
  <1>2. TypeOK'
    <2>1. LocalsTyped'
      BY GotoTyped DEF StoreTesting, Labels
    <2> QED BY <2>1, ObserveTyped DEF StoreTesting, TypeOK, StateValues
  <1>3. CallShape'
    BY DEF CallShape, StoreTesting, Goto, TypeOK, NoRequest
  <1>4. ReportCounts'
    BY DEF ReportCounts, StoreTesting, Goto, TypeOK, Started, Begun, report
  <1>5. Certification'
    BY DEF Certification, StoreTesting, Goto, TypeOK, Modes
  <1>6. Settling'
    BY <1>1 DEF Settling, StoreTesting, Goto, TypeOK, Started, Begun
  <1>7. Latching'
    BY <1>1 DEF Latching, StoreTesting, Goto, TypeOK
  <1>8. Gating'
    BY DEF Gating, StoreTesting, Goto, TypeOK
  <1> QED BY <1>2, <1>3, <1>4, <1>5, <1>6, <1>7, <1>8

LEMMA LoadSelfTestsInv ==
    ASSUME IndInv, NEW t \in Threads, LoadSelfTests(t) PROVE IndInv'
  <1> USE DEF IndInv
  <1>1. req[t].op = "initialize" /\ ~late[t] /\ Begun(t) /\ passed[t] = 0 /\ failed[t] = 0
    BY DEF LoadSelfTests, Latching, CallShape, Begun, ReportCounts, Started
  <1>2. TypeOK'
    <2>1. LocalsTyped'
      BY CastsAssumption DEF LoadSelfTests, Labels, LocalsTyped, Goto, TypeOK, AllRequests
    <2> QED BY <2>1, SharedTyped DEF LoadSelfTests
  <1>3. CallShape'
    BY <1>1 DEF CallShape, LoadSelfTests, Goto, TypeOK, NoRequest
  <1>4. ReportCounts'
    BY <1>1, CastsAssumption DEF ReportCounts, LoadSelfTests, Goto, TypeOK, Started, Begun
  <1>5. Certification'
    BY DEF Certification, LoadSelfTests, Goto, TypeOK, shared
  <1>6. Settling'
    BY <1>1 DEF Settling, LoadSelfTests, Goto, TypeOK, Started, Begun, shared
  <1>7. Latching'
    BY <1>1 DEF Latching, LoadSelfTests, Goto, TypeOK, shared
  <1>8. Gating'
    BY DEF Gating, LoadSelfTests, Goto, TypeOK, shared
  <1> QED BY <1>2, <1>3, <1>4, <1>5, <1>6, <1>7, <1>8

LEMMA StoreStartedInv ==
    ASSUME IndInv, NEW t \in Threads, StoreStarted(t) PROVE IndInv'
  <1> USE DEF IndInv
  <1>1. req[t].op = "initialize" /\ ~late[t] /\ Begun(t) /\ passed[t] = 0 /\ failed[t] = 0
    BY DEF StoreStarted, Latching, CallShape, Begun, ReportCounts, Started
  <1>2. TypeOK'
    <2>1. LocalsTyped'
      BY CastsAssumption DEF StoreStarted, Labels, LocalsTyped, Goto, TypeOK, AllRequests
    <2> QED BY <2>1, ObserveTyped DEF StoreStarted, TypeOK
  <1>3. CallShape'
    BY <1>1 DEF CallShape, StoreStarted, Goto, TypeOK, NoRequest
  <1>4. ReportCounts'
    BY <1>1, CastsAssumption DEF ReportCounts, StoreStarted, Goto, TypeOK, Started, Begun
  <1>5. Certification'
    BY DEF Certification, StoreStarted, Goto, TypeOK
  <1>6. Settling'
    BY <1>1 DEF Settling, StoreStarted, Goto, TypeOK, Started, Begun
  <1>7. Latching'
    BY <1>1 DEF Latching, StoreStarted, Goto, TypeOK
  <1>8. Gating'
    BY DEF Gating, StoreStarted, Goto, TypeOK
  <1> QED BY <1>2, <1>3, <1>4, <1>5, <1>6, <1>7, <1>8

\* One entry of the CAST table, for Cast and CastGate.
LEMMA CastOutcomeInv ==
    ASSUME IndInv, NEW t \in Threads,
           NEW r \in {"Ok", "SelfTestFailed", "ModuleErrorState"},
           pc[t] \in {"cast", "cast_gate"}, CastOutcome(t, r), Observe,
           UNCHANGED <<shared, certified, accepted>>
    PROVE  IndInv'
  <1> USE DEF IndInv
  <1>1. ~late[t] /\ cast[t] \in 1..NumCasts
    BY DEF Latching, ReportCounts
  <1>2. CASE req[t].op \in {"run_self_test", "reinitialize"} /\ \E x \in Results : Return(t, x)
    BY <1>1, <1>2, LocalReturn DEF Begun
  <1>3. CASE /\ req[t].op \in {"initialize", "reinitialize"}
             /\ req[t].op = "reinitialize" => cast[t] # NumCasts
             /\ Goto(t, IF cast[t] # NumCasts THEN "cast"
                        ELSE IF failed[t] > 0 \/ r # "Ok" THEN "store_error"
                        ELSE "store_passed")
             /\ passed' = [passed EXCEPT ![t] = IF r = "Ok" THEN @ + 1 ELSE @]
             /\ failed' = [failed EXCEPT ![t] = IF r = "Ok" THEN @ ELSE @ + 1]
             /\ cast' = [cast EXCEPT ![t] = IF cast[t] = NumCasts THEN @ ELSE @ + 1]
    <2>1. /\ passed[t] + failed[t] = cast[t] - 1
          /\ passed[t] \in Nat /\ failed[t] \in Nat
          /\ NumCasts \in Nat /\ passed \in [Threads -> 0..NumCasts]
          /\ failed \in [Threads -> 0..NumCasts] /\ cast \in [Threads -> 0..NumCasts]
      BY <1>3, CastsAssumption DEF ReportCounts, TypeOK
    <2>2. /\ passed[t] + 1 \in 0..NumCasts /\ failed[t] + 1 \in 0..NumCasts
          /\ cast[t] # NumCasts => cast[t] + 1 \in 1..NumCasts
      BY <1>1, <2>1
    <2>3. LocalsTyped'
      <3>1. /\ passed' \in [Threads -> 0..NumCasts]
            /\ failed' \in [Threads -> 0..NumCasts]
            /\ cast' \in [Threads -> 0..NumCasts]
        BY <1>3, <2>1, <2>2
      <3> QED
        BY <1>3, <3>1 DEF LocalsTyped, Goto, TypeOK, AllRequests, Labels
    <2>4. TypeOK'
      BY <2>3, SharedTyped
    <2>5. CallShape'
      BY <1>3 DEF CallShape, Goto, TypeOK, NoRequest
    <2>6. ReportCounts'
      <3>1. \A u \in Threads \ {t} :
              /\ pc'[u] = pc[u] /\ req'[u] = req[u] /\ cast'[u] = cast[u]
              /\ passed'[u] = passed[u] /\ failed'[u] = failed[u]
        BY <1>3 DEF Goto, TypeOK
      <3>2. /\ pc'[t] = IF cast[t] # NumCasts THEN "cast"
                        ELSE IF failed[t] > 0 \/ r # "Ok" THEN "store_error"
                        ELSE "store_passed"
            /\ req'[t] = req[t]
            /\ cast'[t] = IF cast[t] = NumCasts THEN cast[t] ELSE cast[t] + 1
            /\ passed'[t] = IF r = "Ok" THEN passed[t] + 1 ELSE passed[t]
            /\ failed'[t] = IF r = "Ok" THEN failed[t] ELSE failed[t] + 1
        BY <1>3 DEF Goto, TypeOK
      <3>3. pc'[t] = "cast" => /\ cast'[t] \in 1..NumCasts
                               /\ passed'[t] + failed'[t] = cast'[t] - 1
        BY <1>1, <2>1, <2>2, <3>2
      <3>4. pc'[t] = "store_passed" => passed'[t] = NumCasts
        BY <1>1, <2>1, <3>2
      <3>5. req'[t].op = "reinitialize" \/ Started(t)'
        BY <1>3, <3>2 DEF Started, Begun
      <3> QED
        BY <3>1, <3>2, <3>3, <3>4, <3>5 DEF ReportCounts, Started, Begun
    <2>7. Certification'
      BY <1>3 DEF Certification, Goto, TypeOK, shared
    <2>8. Settling'
      BY <1>3 DEF Settling, Goto, TypeOK, Started, Begun, shared
    <2>9. Latching'
      BY <1>1, <1>3 DEF Latching, Goto, TypeOK, shared
    <2>10. Gating'
      BY <1>3 DEF Gating, Goto, TypeOK, shared
    <2> QED BY <2>4, <2>5, <2>6, <2>7, <2>8, <2>9, <2>10
  <1> QED BY <1>2, <1>3 DEF CastOutcome, Results, Errors

LEMMA CastInv ==
    ASSUME IndInv, NEW t \in Threads, Cast(t) PROVE IndInv'
  <1> USE DEF IndInv
  <1>1. ASSUME NEW r \in {"Ok", "SelfTestFailed", "ModuleErrorState"}, CastOutcome(t, r)
        PROVE  IndInv'
    BY <1>1, CastOutcomeInv DEF Cast
  <1>2. CASE Goto(t, "cast_gate") /\ UNCHANGED report
    <2>1. TypeOK'
      BY <1>2, GotoTyped, SharedTyped DEF Labels, Cast
    <2>2. CallShape'
      BY <1>2 DEF CallShape, Cast, Goto, TypeOK, NoRequest
    <2>3. ReportCounts'
      BY <1>2 DEF ReportCounts, Cast, Goto, TypeOK, Started, Begun, report
    <2>4. Certification'
      BY <1>2 DEF Certification, Cast, Goto, TypeOK, shared
    <2>5. Settling'
      BY <1>2 DEF Settling, Cast, Goto, TypeOK, Started, Begun, shared
    <2>6. Latching'
      BY <1>2 DEF Latching, Cast, Goto, TypeOK, shared
    <2>7. Gating'
      BY <1>2 DEF Gating, Cast, Goto, TypeOK, shared
    <2> QED BY <2>1, <2>2, <2>3, <2>4, <2>5, <2>6, <2>7
  <1> QED BY <1>1, <1>2 DEF Cast, Computed

LEMMA CastGateInv ==
    ASSUME IndInv, NEW t \in Threads, CastGate(t) PROVE IndInv'
  BY CastOutcomeInv DEF CastGate, Computed

LEMMA StorePassedInv ==
    ASSUME IndInv, NEW t \in Threads, StorePassed(t) PROVE IndInv'
  <1> USE DEF IndInv
  <1>1. req[t].op = "initialize" /\ ~late[t] /\ Started(t) /\ passed[t] = NumCasts
    BY DEF StorePassed, Latching, CallShape, Begun, ReportCounts, Started
  <1>2. TypeOK'
    <2>1. LocalsTyped'
      BY GotoTyped DEF StorePassed, Labels
    <2> QED BY <2>1, ObserveTyped DEF StorePassed, TypeOK
  <1>3. CallShape'
    BY <1>1 DEF CallShape, StorePassed, Goto, TypeOK, NoRequest
  <1>4. ReportCounts'
    BY <1>1 DEF ReportCounts, StorePassed, Goto, TypeOK, Started, Begun, report
  <1>5. Certification'
    BY <1>1 DEF Certification, StorePassed, Goto, TypeOK
  <1>6. Settling'
    BY <1>1 DEF Settling, StorePassed, Goto, TypeOK, Started, Begun
  <1>7. Latching'
    BY <1>1 DEF Latching, StorePassed, Goto, TypeOK
  <1>8. Gating'
    BY DEF Gating, StorePassed, Goto, TypeOK
  <1> QED BY <1>2, <1>3, <1>4, <1>5, <1>6, <1>7, <1>8

LEMMA StoreInitialInv ==
    ASSUME IndInv, NEW t \in Threads, StoreInitial(t) PROVE IndInv'
  <1> USE DEF IndInv
  <1>1. req[t].op = "initialize" /\ ~late[t] /\ Started(t) /\ StateInitial \in Modes
    BY DEF StoreInitial, Latching, CallShape, Begun, Started, StateInitial, Modes
  <1>2. TypeOK'
    <2>1. LocalsTyped'
      BY ReturnTyped DEF StoreInitial, Results
    <2> QED BY <1>1, <2>1, ObserveTyped DEF StoreInitial, TypeOK, StateValues
  <1>3. CallShape'
    BY <1>1 DEF CallShape, StoreInitial, Return, TypeOK, NoRequest
  <1>4. ReportCounts'
    BY <1>1 DEF ReportCounts, StoreInitial, Return, TypeOK, Started, Begun, NoRequest
  <1>5. Certification'
    BY <1>1 DEF Certification, StoreInitial, Return, TypeOK
  <1>6. Settling'
    BY <1>1 DEF Settling, StoreInitial, Return, TypeOK, Started, Begun, Modes, NoRequest
  <1>7. Latching'
    BY <1>1 DEF Latching, StoreInitial, Return, TypeOK
  <1>8. Gating'
    BY DEF Gating, StoreInitial, Return, TypeOK
  <1> QED BY <1>2, <1>3, <1>4, <1>5, <1>6, <1>7, <1>8

LEMMA StoreErrorInv ==
    ASSUME IndInv, NEW t \in Threads, StoreError(t) PROVE IndInv'
  <1> USE DEF IndInv
  <1>1. req[t].op \in {"initialize", "enter_error_state"} /\ ~late[t]
    BY DEF StoreError, Latching, CallShape
  <1>2. TypeOK'
    <2>1. LocalsTyped'
      BY GotoTyped DEF StoreError, Labels
    <2> QED BY <2>1, ObserveTyped DEF StoreError, TypeOK, StateValues
  <1>3. CallShape'
    BY <1>1 DEF CallShape, StoreError, Goto, TypeOK, NoRequest
  <1>4. ReportCounts'
    BY <1>1 DEF ReportCounts, StoreError, Goto, TypeOK, Started, Begun, report
  <1>5. Certification'
    BY <1>1 DEF Certification, StoreError, Goto, TypeOK, Modes
  <1>6. Settling'
    BY <1>1 DEF Settling, StoreError, Goto, TypeOK, Started, Begun
  <1>7. Latching'
    BY <1>1 DEF Latching, StoreError, Goto, TypeOK
  <1>8. Gating'
    BY DEF Gating, StoreError, Goto, TypeOK
  <1> QED BY <1>2, <1>3, <1>4, <1>5, <1>6, <1>7, <1>8

LEMMA StoreFailedInv ==
    ASSUME IndInv, NEW t \in Threads, StoreFailed(t) PROVE IndInv'
  <1> USE DEF IndInv
  <1>1. req[t].op \in {"initialize", "enter_error_state", "keygen"} /\ ~late[t]
    BY DEF StoreFailed, Latching, CallShape
  <1>2. TypeOK'
    <2>1. LocalsTyped'
      BY ReturnTyped DEF StoreFailed, Results, Errors
    <2> QED BY <2>1, ObserveTyped DEF StoreFailed, TypeOK
  <1>3. CallShape'
    BY <1>1 DEF CallShape, StoreFailed, Return, TypeOK, NoRequest
  <1>4. ReportCounts'
    BY <1>1 DEF ReportCounts, StoreFailed, Return, TypeOK, Started, Begun, NoRequest
  <1>5. Certification'
    BY <1>1 DEF Certification, StoreFailed, Return, TypeOK
  <1>6. Settling'
    BY <1>1 DEF Settling, StoreFailed, Return, TypeOK, Started, Begun, NoRequest
  <1>7. Latching'
    BY <1>1 DEF Latching, StoreFailed, Return, TypeOK
  <1>8. Gating'
    BY DEF Gating, StoreFailed, Return, TypeOK
  <1> QED BY <1>2, <1>3, <1>4, <1>5, <1>6, <1>7, <1>8

LEMMA GateFailedInv ==
    ASSUME IndInv, NEW t \in Threads, GateFailed(t) PROVE IndInv'
  <1> USE DEF IndInv
  <1>1. ~Begun(t) /\ req[t].op \in {"service", "keygen", "guarded"}
    BY DEF GateFailed, Begun, CallShape
  <1>2. CASE FAILED /\ Return(t, "ModuleErrorState")
    BY <1>1, <1>2, LocalReturn DEF GateFailed, Results, Errors
  <1>3. CASE /\ ~FAILED /\ UNCHANGED report
             /\ Goto(t, IF StartupGate THEN "gate_tested" ELSE "serve")
    <2>1. CallShape'
      BY <1>3 DEF CallShape, GateFailed, Goto, TypeOK, NoRequest
    <2>2. ~late[t]
      BY <1>3 DEF Latching
    <2>3. CASE StartupGate
      BY <1>1, <1>3, <2>1, <2>2, <2>3, LocalGoto DEF GateFailed
    <2>4. CASE ~StartupGate
      BY <1>1, <1>3, <2>1, <2>2, <2>4, LocalGoto DEF GateFailed
    <2> QED BY <2>3, <2>4
  <1> QED BY <1>2, <1>3 DEF GateFailed

LEMMA GateTestedInv ==
    ASSUME IndInv, NEW t \in Threads, GateTested(t) PROVE IndInv'
  <1> USE DEF IndInv
  <1>1. ~Begun(t) /\ req[t].op \in {"service", "keygen", "guarded"} /\ ~late[t]
    BY DEF GateTested, Begun, CallShape, Latching
  <1>2. CASE Return(t, "ModuleErrorState")
    BY <1>1, <1>2, LocalReturn DEF GateTested, Results, Errors
  <1>3. CASE SELF_TESTS # "UNTESTED" /\ Goto(t, "serve") /\ UNCHANGED report
    <2>1. CallShape'
      BY <1>3 DEF CallShape, GateTested, Goto, TypeOK, NoRequest
    <2> QED BY <1>1, <1>3, <2>1, LocalGoto DEF GateTested
  <1> QED BY <1>2, <1>3 DEF GateTested

LEMMA ServeInv ==
    ASSUME IndInv, NEW t \in Threads, Serve(t) PROVE IndInv'
  <1> USE DEF IndInv
  <1>1. ~Begun(t) /\ req[t].op \in {"service", "keygen", "guarded"} /\ ~late[t]
    BY DEF Serve, Begun, CallShape, Latching
  <1>2. CASE Return(t, "Ok") \/ Return(t, "EntropyFailure")
    BY <1>1, <1>2, LocalReturn DEF Serve, Results, Errors
  <1>3. CASE req[t].op = "keygen" /\ Goto(t, "store_failed") /\ UNCHANGED report
    <2>1. CallShape'
      BY <1>3 DEF CallShape, Serve, Goto, TypeOK, NoRequest
    <2> QED BY <1>1, <1>3, <2>1, LocalGoto DEF Serve
  <1> QED BY <1>2, <1>3 DEF Serve

LEMMA CallInv ==
    ASSUME IndInv, NEW t \in Threads, Call(t) PROVE IndInv'
  <1> USE DEF IndInv
  <1>1. PICK r \in Requests :
          /\ pc' = [pc EXCEPT ![t] = FirstLabel(r.op)]
          /\ req' = [req EXCEPT ![t] = r]
          /\ \E c \in IF r.op = "run_self_test" THEN 1..NumCasts ELSE {0} :
               cast' = [cast EXCEPT ![t] = c]
          /\ late' = [late EXCEPT ![t] =
               reported /\ r.op \notin {"enter_error_state", "run_self_test"}]
    BY DEF Call
  <1>2. r.op \in {"initialize", "enter_error_state", "service", "keygen",
                  "run_self_test", "set_mode", "check", "guarded"}
    BY DEF Requests
  <1>3. r # NoRequest /\ passed[t] = 0 /\ failed[t] = 0 /\ req[t].op = "none"
    BY <1>2 DEF NoRequest, Call, CallShape, ReportCounts, Started, Begun
  <1>4. TypeOK'
    <2>1. cast' \in [Threads -> 0..NumCasts]
      BY <1>1, CastsAssumption DEF TypeOK
    <2>2. LocalsTyped'
      BY <1>1, <2>1 DEF LocalsTyped, Call, TypeOK, AllRequests, FirstLabel, Labels, Results
    <2> QED BY <2>2, SharedTyped DEF Call
  <1>5. CallShape'
    BY <1>1, <1>2, <1>3 DEF CallShape, Call, TypeOK, FirstLabel
  <1>6. ReportCounts'
    BY <1>1, <1>2, <1>3 DEF ReportCounts, Call, TypeOK, Started, Begun, FirstLabel
  <1>7. Certification'
    BY <1>1 DEF Certification, Call, TypeOK, shared, FirstLabel
  <1>8. Settling'
    BY <1>1, <1>2, <1>3 DEF Settling, Call, TypeOK, Started, Begun, shared, FirstLabel
  <1>9. Latching'
    <2>1. reported' = reported /\ FAILED' = FAILED
      BY DEF Call, shared
    <2>2. result' = [result EXCEPT ![t] = "none"]
      BY DEF Call
    <2>3. late'[t] => reported /\ FirstLabel(r.op) \in {"state_failed", "gate_failed"}
      BY <1>1, <1>2 DEF TypeOK, FirstLabel
    <2>4. pc'[t] = FirstLabel(r.op) /\ result'[t] = "none"
      BY <1>1, <2>2 DEF TypeOK
    <2>5. \A u \in Threads : u # t => /\ late'[u] = late[u] /\ pc'[u] = pc[u]
                                    /\ result'[u] = result[u]
      BY <1>1, <2>2 DEF TypeOK
    <2> QED BY <2>1, <2>3, <2>4, <2>5 DEF Latching
  <1>10. Gating'
    BY <1>1 DEF Gating, Call, TypeOK, shared, FirstLabel
  <1> QED BY <1>4, <1>5, <1>6, <1>7, <1>8, <1>9, <1>10

-----------------------------------------------------------------------------
(* The theorems about every program, disciplined or not.                    *)

LEMMA IndInvInit == Init => IndInv
  <1> SUFFICES ASSUME Init PROVE IndInv
    OBVIOUS
  <1>1. TypeOK
    <2>1. /\ cast \in [Threads -> 0..NumCasts]
          /\ passed \in [Threads -> 0..NumCasts]
          /\ failed \in [Threads -> 0..NumCasts]
      BY CastsAssumption DEF Init
    <2>2. seen \in [Threads -> SUBSET StateValues]
      BY DEF Init
    <2>3. accepted \in Modes /\ FIPS_STATE \in StateValues
      BY DEF Init, StateInitial, Modes, StateValues
    <2> QED BY <2>1, <2>2, <2>3 DEF Init, TypeOK, Labels, Results
  <1>2. CallShape /\ ReportCounts /\ Certification /\ Settling /\ Latching /\ Gating
    BY DEF Init, CallShape, ReportCounts, Certification, Settling, Latching, Gating,
           Begun, Started, NoRequest, Modes
  <1> QED BY <1>1, <1>2 DEF IndInv

LEMMA IndInvNext == IndInv /\ [Next]_vars => IndInv'
  <1> SUFFICES ASSUME IndInv, [Next]_vars PROVE IndInv'
    OBVIOUS
  <1>1. CASE UNCHANGED vars
    BY <1>1 DEF vars, shared, local, history, IndInv, TypeOK, CallShape, ReportCounts,
                Certification, Settling, Latching, Gating, Begun, Started
  <1>2. ASSUME NEW t \in Threads, Call(t) PROVE IndInv'
    BY <1>2, CallInv
  <1>3. ASSUME NEW t \in Threads, Step(t) PROVE IndInv'
    BY <1>3, StateFailedInv, InitializeStateInv, SetModeStateInv, CheckStateInv,
       ModeFailedInv, ModeLoadInv, StoreModeInv, StoreTestingInv, LoadSelfTestsInv,
       StoreStartedInv, CastInv, CastGateInv, StorePassedInv, StoreInitialInv,
       StoreErrorInv, StoreFailedInv, GateFailedInv, GateTestedInv, ServeInv
       DEF Step
  <1> QED BY <1>1, <1>2, <1>3 DEF Next

\* The six parts of the inductive invariant hold in every reachable state.
THEOREM Invariance == Spec => []IndInv
  BY IndInvInit, IndInvNext, PTL DEF Spec

\* Every variable keeps its type; in particular the report of the self-tests
\* never counts more outcomes than the table has entries.
THEOREM TypeCorrect == Spec => []TypeOK
  <1>1. IndInv => TypeOK
    BY DEF IndInv
  <1> QED BY <1>1, Invariance, PTL

\* No race of initialize, set_mode and enter_error_state makes the module
\* operational before all known-answer tests of one initialize have passed.
THEOREM TestedBeforeOperational == Spec => []OperationalOnlyAfterTests
  <1>1. IndInv => OperationalOnlyAfterTests
    BY DEF IndInv, Certification, OperationalOnlyAfterTests
  <1> QED BY <1>1, Invariance, PTL

\* When every initialize and enter_error_state has returned, ic-fips and
\* ic_core::module agree on the state of the module.
THEOREM Settles == Spec => []SettledState
  <1>1. IndInv => SettledState
    BY DEF IndInv, TypeOK, StateValues, Settling, Certification, Begun, Started,
           SettledState
  <1> QED BY <1>1, Invariance, PTL

\* Once a failure has been reported, every later call that the error state
\* refuses is refused.
THEOREM RefusesAfterFailure == Spec => []RefusedAfterFailure
  <1>1. IndInv => RefusedAfterFailure
    BY DEF IndInv, Latching, RefusedAfterFailure
  <1> QED BY <1>1, Invariance, PTL

-----------------------------------------------------------------------------
(* Disciplined programs.  Given the invariant above, Discipline is inductive *)
(* too; the facts each action needs are the parts of IndInv it cites.       *)

LEMMA StateFailedDiscipline ==
    ASSUME IndInv, Discipline, NEW t \in Threads, StateFailed(t) PROVE Discipline'
  BY DEF IndInv, Discipline, StateFailed, Goto, Return, TypeOK, CallShape, Begun, Started,
         Certification, Settling, NoRequest, Modes, shared

LEMMA InitializeStateDiscipline ==
    ASSUME IndInv, Discipline, NEW t \in Threads, InitializeState(t) PROVE Discipline'
  BY DEF IndInv, Discipline, InitializeState, Goto, Return, TypeOK, CallShape, Begun, Started,
         Certification, Settling, NoRequest, Modes, shared, Reinitialize

LEMMA SetModeStateDiscipline ==
    ASSUME IndInv, Discipline, NEW t \in Threads, SetModeState(t) PROVE Discipline'
  BY SMTT(30) DEF IndInv, Discipline, SetModeState, Goto, Return, TypeOK, CallShape, Begun, Started,
         Certification, Settling, NoRequest, Modes, shared

LEMMA CheckStateDiscipline ==
    ASSUME IndInv, Discipline, NEW t \in Threads, CheckState(t) PROVE Discipline'
  BY DEF IndInv, Discipline, CheckState, Goto, Return, TypeOK, CallShape, Begun, Started,
         Certification, Settling, NoRequest, Modes, shared

LEMMA LoadSelfTestsDiscipline ==
    ASSUME IndInv, Discipline, NEW t \in Threads, LoadSelfTests(t) PROVE Discipline'
  BY DEF IndInv, Discipline, LoadSelfTests, Goto, Return, TypeOK, CallShape, Begun, Started,
         Certification, Settling, NoRequest, Modes, shared

LEMMA GateFailedDiscipline ==
    ASSUME IndInv, Discipline, NEW t \in Threads, GateFailed(t) PROVE Discipline'
  BY SMTT(30) DEF IndInv, Discipline, GateFailed, Goto, Return, TypeOK, CallShape, Begun, Started,
         Certification, Settling, NoRequest, Modes, shared

LEMMA GateTestedDiscipline ==
    ASSUME IndInv, Discipline, NEW t \in Threads, GateTested(t) PROVE Discipline'
  BY SMTT(30) DEF IndInv, Discipline, GateTested, Goto, Return, TypeOK, CallShape, Begun, Started,
         Certification, Settling, NoRequest, Modes, shared

LEMMA ServeDiscipline ==
    ASSUME IndInv, Discipline, NEW t \in Threads, Serve(t) PROVE Discipline'
  BY SMTT(30) DEF IndInv, Discipline, Serve, Goto, Return, TypeOK, CallShape, Begun, Started,
         Certification, Settling, NoRequest, Modes, shared

LEMMA ModeFailedDiscipline ==
    ASSUME IndInv, Discipline, NEW t \in Threads, ModeFailed(t) PROVE Discipline'
  BY DEF IndInv, Discipline, ModeFailed, Goto, Return, TypeOK, CallShape, Begun, Started,
         Certification, Settling, NoRequest, Modes, shared, Verdict

LEMMA ModeLoadDiscipline ==
    ASSUME IndInv, Discipline, NEW t \in Threads, ModeLoad(t) PROVE Discipline'
  BY SMTT(30) DEF IndInv, Discipline, ModeLoad, Goto, Return, TypeOK, CallShape, Begun, Started,
         Certification, Settling, NoRequest, Modes, shared, Verdict

LEMMA CastDiscipline ==
    ASSUME IndInv, Discipline, NEW t \in Threads, Cast(t) PROVE Discipline'
  BY SMTT(30) DEF IndInv, Discipline, Cast, Goto, Return, TypeOK, CallShape, Begun, Started,
         Certification, Settling, NoRequest, Modes, shared, CastOutcome

LEMMA CastGateDiscipline ==
    ASSUME IndInv, Discipline, NEW t \in Threads, CastGate(t) PROVE Discipline'
  BY SMTT(30) DEF IndInv, Discipline, CastGate, Goto, Return, TypeOK, CallShape, Begun, Started,
         Certification, Settling, NoRequest, Modes, shared, CastOutcome

LEMMA StoreModeDiscipline ==
    ASSUME IndInv, Discipline, NEW t \in Threads, StoreMode(t) PROVE Discipline'
  BY DEF IndInv, Discipline, StoreMode, Goto, Return, TypeOK, CallShape, Begun, Started,
         Certification, Settling, NoRequest, Modes, shared

LEMMA StoreTestingDiscipline ==
    ASSUME IndInv, Discipline, NEW t \in Threads, StoreTesting(t) PROVE Discipline'
  BY DEF IndInv, Discipline, StoreTesting, Goto, Return, TypeOK, CallShape, Begun, Started,
         Certification, Settling, NoRequest, Modes, shared

LEMMA StoreStartedDiscipline ==
    ASSUME IndInv, Discipline, NEW t \in Threads, StoreStarted(t) PROVE Discipline'
  BY DEF IndInv, Discipline, StoreStarted, Goto, Return, TypeOK, CallShape, Begun, Started,
         Certification, Settling, NoRequest, Modes, shared

LEMMA StorePassedDiscipline ==
    ASSUME IndInv, Discipline, NEW t \in Threads, StorePassed(t) PROVE Discipline'
  BY DEF IndInv, Discipline, StorePassed, Goto, Return, TypeOK, CallShape, Begun, Started,
         Certification, Settling, NoRequest, Modes, shared

LEMMA StoreInitialDiscipline ==
    ASSUME IndInv, Discipline, NEW t \in Threads, StoreInitial(t) PROVE Discipline'
  BY DEF IndInv, Discipline, StoreInitial, Goto, Return, TypeOK, CallShape, Begun, Started,
         Certification, Settling, NoRequest, Modes, shared

LEMMA StoreErrorDiscipline ==
    ASSUME IndInv, Discipline, NEW t \in Threads, StoreError(t) PROVE Discipline'
  BY DEF IndInv, Discipline, StoreError, Goto, Return, TypeOK, CallShape, Begun, Started,
         Certification, Settling, NoRequest, Modes, shared

LEMMA StoreFailedDiscipline ==
    ASSUME IndInv, Discipline, NEW t \in Threads, StoreFailed(t) PROVE Discipline'
  BY DEF IndInv, Discipline, StoreFailed, Goto, Return, TypeOK, CallShape, Begun, Started,
         Certification, Settling, NoRequest, Modes, shared

LEMMA CallDiscipline ==
    ASSUME IndInv, Discipline, NEW t \in Threads, Call(t) PROVE Discipline'
  <1>1. PICK r \in Requests :
          pc' = [pc EXCEPT ![t] = FirstLabel(r.op)] /\ req' = [req EXCEPT ![t] = r]
    BY DEF Call
  <1>2. /\ FirstLabel(r.op) \in {"state_failed", "gate_failed", "store_error", "cast"}
        /\ r.op = "initialize" => FirstLabel(r.op) = "state_failed"
    BY DEF FirstLabel
  <1>3. \A u \in Threads : Begun(u)' => u # t /\ Begun(u)
    BY <1>1, <1>2 DEF IndInv, TypeOK, Begun
  <1> QED
    BY <1>1, <1>2, <1>3 DEF IndInv, TypeOK, Discipline, Call, shared

\* Discipline holds in every reachable state.
LEMMA DisciplineHolds == Spec => []Discipline
  <1>1. Init => Discipline
    BY DEF Init, Discipline, Begun, NoRequest, Modes, StateInitial
  <1>2. IndInv /\ Discipline /\ [Next]_vars => Discipline'
    <2> SUFFICES ASSUME IndInv, Discipline, [Next]_vars PROVE Discipline'
      OBVIOUS
    <2>1. CASE UNCHANGED vars
      BY <2>1 DEF vars, shared, local, history, Discipline, Begun
    <2>2. ASSUME NEW t \in Threads, Call(t) PROVE Discipline'
      BY <2>2, CallDiscipline
    <2>3. ASSUME NEW t \in Threads, Step(t) PROVE Discipline'
      BY <2>3, StateFailedDiscipline, InitializeStateDiscipline, SetModeStateDiscipline,
         CheckStateDiscipline, ModeFailedDiscipline, ModeLoadDiscipline,
         StoreModeDiscipline, StoreTestingDiscipline, LoadSelfTestsDiscipline,
         StoreStartedDiscipline, CastDiscipline, CastGateDiscipline,
         StorePassedDiscipline, StoreInitialDiscipline, StoreErrorDiscipline,
         StoreFailedDiscipline, GateFailedDiscipline, GateTestedDiscipline,
         ServeDiscipline DEF Step
    <2> QED BY <2>1, <2>2, <2>3 DEF Next
  <1> QED BY <1>1, <1>2, Invariance, PTL DEF Spec

\* In a program that starts its threads after initialize has returned, the
\* module operates in the mode last accepted and in no other.
THEOREM ModeOfDisciplinedPrograms == Spec => [](Disciplined => ModeSticks)
  <1>1. Discipline => (Disciplined => ModeSticks)
    BY DEF Discipline, ModeSticks
  <1> QED BY <1>1, DisciplineHolds, PTL

\* In a build with the start-up gate no primitive works before the self-tests
\* have passed; in an undisciplined program, none but those called while an
\* initialize runs.
THEOREM GateHolds == Spec => []ServedOnlyAfterTests
  <1>1. IndInv /\ Discipline => ServedOnlyAfterTests
    BY BuildAssumption DEF IndInv, TypeOK, Gating, Settling, Certification, Started, Begun,
       Discipline, ServedOnlyAfterTests
  <1> QED BY <1>1, Invariance, DisciplineHolds, PTL

-----------------------------------------------------------------------------
(* The policy of check.  Every step is an instant that the calls under way  *)
(* span, so only what a step does to its own thread matters.                *)

\* A thread's own step ends its call or goes on with it.
Proceeds(t) ==
    /\ Observe
    /\ pc[t] # "idle"
    /\ \/ \E r \in Results : Return(t, r)
       \/ \E label \in Labels :
            /\ pc' = [pc EXCEPT ![t] = label]
            /\ UNCHANGED result
            /\ req'[t].arg = req[t].arg
            /\ \A u \in Threads \ {t} : req'[u] = req[u]
            /\ ApprovedOnly /\ label \in {"mode_failed", "mode_load"} =>
                 permitted_in_approved_mode(Fips[req[t].arg])

LEMMA ProceedsLooking ==
    ASSUME IndInv, Looking, NEW t \in Threads, Proceeds(t) PROVE Looking'
  <1>1. \A u \in Threads : req'[u].op \in {"check", "guarded"} => Observed' \in seen'[u]
    BY DEF Proceeds, Observe
  <1>2. \A u \in Threads : pc'[u] # "idle" => result'[u] = "none"
    BY DEF Proceeds, Return, IndInv, TypeOK, Looking
  <1>3. \A u \in Threads : ApprovedOnly /\ pc'[u] \in {"mode_failed", "mode_load"} =>
          permitted_in_approved_mode(Fips[req'[u].arg])
    BY DEF Proceeds, Return, IndInv, TypeOK, Looking
  <1> QED BY <1>1, <1>2, <1>3 DEF Looking

\* Every step of a call is of that form.
LEMMA StepProceeds ==
    ASSUME IndInv, Looking, NEW t \in Threads, Step(t) PROVE Proceeds(t)
  <1> USE DEF Labels, Results, Errors, Indicators
  <1>0. \A label \in Labels \ {"mode_failed", "mode_load"} :
          Observe /\ pc[t] # "idle" /\ Goto(t, label) => Proceeds(t)
    BY DEF Proceeds, Goto
  <1>r. \A r \in Results : Observe /\ pc[t] # "idle" /\ Return(t, r) => Proceeds(t)
    BY DEF Proceeds
  <1>c. ASSUME NEW r \in {"Ok", "SelfTestFailed", "ModuleErrorState"}, CastOutcome(t, r),
               Observe, pc[t] # "idle"
        PROVE  Proceeds(t)
    BY <1>c, <1>0, <1>r DEF CastOutcome
  <1>1. CASE StateFailed(t)
    BY <1>1, <1>0, <1>r DEF StateFailed
  <1>2. CASE InitializeState(t)
    <2>1. CASE req' = [req EXCEPT ![t] = Reinitialize] /\ pc' = [pc EXCEPT ![t] = "cast"] /\ UNCHANGED result
      <3>1. req[t].arg = "-"
        BY <1>2 DEF InitializeState, IndInv, TypeOK, Requests, NoRequest, Reinitialize
      <3> QED BY <1>2, <2>1, <3>1 DEF InitializeState, Proceeds, Reinitialize, IndInv, TypeOK
    <2> QED BY <1>2, <2>1, <1>0, <1>r DEF InitializeState
  <1>3. CASE SetModeState(t)
    BY <1>3, <1>0, <1>r DEF SetModeState
  <1>4. CASE CheckState(t)
    <2>1. ASSUME NEW r \in Results, Return(t, r) PROVE Proceeds(t)
      BY <1>4, <2>1, <1>r DEF CheckState
    <2>2. CASE Goto(t, "mode_failed") /\ (ApprovedOnly => permitted_in_approved_mode(Fips[req[t].arg]))
      BY <1>4, <2>2 DEF CheckState, Goto, Proceeds
    <2> QED BY <1>4, <2>1, <2>2 DEF CheckState
  <1>5. CASE ModeFailed(t)
    <2>1. CASE Goto(t, "mode_load")
      BY <1>5, <2>1 DEF ModeFailed, Goto, Proceeds, Looking
    <2> QED BY <1>5, <2>1, <1>0, <1>r DEF ModeFailed, Verdict, Indicator
  <1>6. CASE ModeLoad(t)
    BY <1>6, <1>0, <1>r DEF ModeLoad, Verdict, Indicator
  <1>7. CASE StoreMode(t) \/ StoreInitial(t) \/ StoreFailed(t)
    BY <1>7, <1>r DEF StoreMode, StoreInitial, StoreFailed
  <1>8. CASE StoreTesting(t) \/ LoadSelfTests(t) \/ StoreStarted(t) \/ StorePassed(t) \/ StoreError(t)
    BY <1>8, <1>0 DEF StoreTesting, LoadSelfTests, StoreStarted, StorePassed, StoreError
  <1>9. CASE Cast(t)
    BY <1>9, <1>0, <1>c DEF Cast, Computed
  <1>10. CASE CastGate(t)
    BY <1>10, <1>c DEF CastGate, Computed
  <1>11. CASE GateFailed(t) \/ GateTested(t) \/ Serve(t)
    BY <1>11, <1>0, <1>r DEF GateFailed, GateTested, Serve
  <1> QED
    BY <1>1, <1>2, <1>3, <1>4, <1>5, <1>6, <1>7, <1>8, <1>9, <1>10, <1>11 DEF Step

LEMMA CallLooking ==
    ASSUME IndInv, Looking, NEW t \in Threads, Call(t) PROVE Looking'
  <1>1. \A u \in Threads : req'[u].op \in {"check", "guarded"} => Observed' \in seen'[u]
    BY DEF Call, Observe
  <1>2. PICK r \in Requests :
          pc' = [pc EXCEPT ![t] = FirstLabel(r.op)] /\ req' = [req EXCEPT ![t] = r]
    BY DEF Call
  <1>3. FirstLabel(r.op) \notin {"mode_failed", "mode_load"}
    BY DEF FirstLabel
  <1>4. result' = [result EXCEPT ![t] = "none"]
    BY DEF Call
  <1> QED BY <1>1, <1>2, <1>3, <1>4 DEF Looking, IndInv, TypeOK

LEMMA LookingHolds == Spec => []Looking
  <1>1. Init => Looking
    BY DEF Init, Looking, NoRequest
  <1>2. IndInv /\ Looking /\ [Next]_vars => Looking'
    <2> SUFFICES ASSUME IndInv, Looking, [Next]_vars PROVE Looking'
      OBVIOUS
    <2>1. CASE UNCHANGED vars
      BY <2>1 DEF vars, shared, local, history, Looking, Observed
    <2>2. ASSUME NEW t \in Threads, Call(t) PROVE Looking'
      BY <2>2, CallLooking
    <2>3. ASSUME NEW t \in Threads, Step(t) PROVE Looking'
      BY <2>3, StepProceeds, ProceedsLooking
    <2> QED BY <2>1, <2>2, <2>3 DEF Next
  <1> QED BY <1>1, <1>2, Invariance, PTL DEF Spec

\* An answer that accepts comes from the thread's own last look, in a build
\* that has unrestricted mode, at a state other than Approved.
LEMMA AcceptsOutsideApproved ==
    ASSUME IndInv, Looking, Next, NEW t \in Threads, Accepts(t), Unpermitted(req[t].arg)
    PROVE  seen[t] # {"Approved"}
  <1>1. pc[t] \in {"mode_failed", "mode_load"} /\ result[t] = "none" /\ ~ApprovedOnly
    BY BuildAssumption DEF Accepts, Unpermitted, Looking
  <1>2. Observed \in seen[t]
    BY <1>1 DEF Looking, IndInv, CallShape
  <1>3. PICK u \in Threads : Call(u) \/ Step(u)
    BY DEF Next
  <1>4. u = t
    <2> SUFFICES ASSUME u # t PROVE FALSE
      OBVIOUS
    <2>1. pc'[t] = pc[t] /\ result'[t] = result[t]
      <3>1. CASE Call(u)
        BY <3>1 DEF Call, IndInv, TypeOK
      <3>2. CASE Step(u)
        BY <3>2, StepProceeds DEF Proceeds, Return, IndInv, TypeOK
      <3> QED BY <1>3, <3>1, <3>2
    <2> QED BY <1>1, <2>1 DEF Accepts, Indicators
  <1>5. ModeFailed(t) \/ ModeLoad(t)
    BY <1>1, <1>3, <1>4 DEF Call, Step, StateFailed, InitializeState, SetModeState, CheckState,
       StoreMode, StoreTesting, LoadSelfTests, StoreStarted, Cast, CastGate, StorePassed,
       StoreInitial, StoreError, StoreFailed, GateFailed, GateTested, Serve
  <1>6. ~permitted_in_approved_mode(Fips[req[t].arg])
    BY DEF Unpermitted
  <1>7. CASE ModeFailed(t)
    <2>1. FAILED
      BY <1>7, <1>1 DEF ModeFailed, Goto, Accepts, IndInv, TypeOK, Indicators
    <2> QED BY <2>1, <1>2 DEF Observed
  <1>8. CASE ModeLoad(t)
    <2>1. FIPS_STATE # "Approved"
      <3> SUFFICES ASSUME FIPS_STATE = "Approved" PROVE FALSE
        OBVIOUS
      <3>1. Return(t, "NotApprovedInFipsMode")
        BY <1>6, <1>8 DEF ModeLoad, Verdict
      <3> QED BY <3>1, <1>1 DEF Return, Accepts, Indicators, IndInv, TypeOK
    <2> QED BY <2>1, <1>2 DEF Observed
  <1> QED BY <1>5, <1>7, <1>8

\* check refuses what is not permitted when the module was in approved mode
\* from the call to the answer, whatever other threads do between its two
\* looks at the state (lib.rs, check and guarded).
THEOREM PolicyHolds == Spec => ApprovedModeRefuses
  <1>1. IndInv /\ Looking /\ [Next]_vars =>
          [\A t \in Threads :
             Accepts(t) /\ Unpermitted(req[t].arg) => seen[t] # {"Approved"}]_vars
    BY AcceptsOutsideApproved
  <1> QED BY <1>1, Invariance, LookingHolds, PTL DEF Spec, ApprovedModeRefuses

-----------------------------------------------------------------------------
(* One thread: the state diagram.                                           *)

SingleThreaded == \E x : Threads = {x}

LEMMA UndisturbedStep ==
    ASSUME IndInv, Undisturbed, SingleThreaded, NEW t \in Threads, Call(t) \/ Step(t)
    PROVE  Undisturbed'
  <1> USE DEF IndInv, TypeOK, Undisturbed, Begun, shared
  <1>0. \A u \in Threads : u = t
    BY DEF SingleThreaded
  <1> SUFFICES /\ pc'[t] = "store_testing" => FIPS_STATE' \in {"Uninitialized", "Testing"}
               /\ pc'[t] = "store_mode" => FIPS_STATE' \in Modes
               /\ Begun(t)' /\ pc'[t] # "store_failed" => FIPS_STATE' = "Testing"
    BY <1>0
  <1>1. ASSUME UNCHANGED FIPS_STATE, NEW r, Return(t, r)
        PROVE  Undisturbed'
    BY <1>1, <1>0 DEF Return, NoRequest
  <1>2. CASE Call(t)
    <2>1. PICK r \in Requests :
            pc' = [pc EXCEPT ![t] = FirstLabel(r.op)] /\ req' = [req EXCEPT ![t] = r]
      BY <1>2 DEF Call
    <2> QED BY <2>1 DEF FirstLabel
  <1>3. CASE StateFailed(t) \/ InitializeState(t) \/ SetModeState(t) \/ CheckState(t)
    BY <1>3, <1>1, <1>0 DEF StateFailed, InitializeState, SetModeState, CheckState, Goto, Reinitialize
  <1>4. CASE ModeFailed(t) \/ ModeLoad(t)
    BY <1>4, <1>1, <1>0 DEF ModeFailed, ModeLoad, Verdict, Goto, CallShape
  <1>5. CASE StoreMode(t) \/ StoreInitial(t)
    BY <1>5 DEF StoreMode, StoreInitial, Return, NoRequest
  <1>6. CASE StoreTesting(t) \/ LoadSelfTests(t) \/ StoreStarted(t) \/ StorePassed(t)
    BY <1>6 DEF StoreTesting, LoadSelfTests, StoreStarted, StorePassed, Goto, CallShape
  <1>7. CASE Cast(t) \/ CastGate(t)
    BY <1>7, <1>1, <1>0 DEF Cast, CastGate, CastOutcome, Goto
  <1>8. CASE StoreError(t) \/ StoreFailed(t)
    BY <1>8, <1>1, <1>0 DEF StoreError, StoreFailed, Goto, Return, NoRequest
  <1>9. CASE GateFailed(t) \/ GateTested(t) \/ Serve(t)
    BY <1>9, <1>1, <1>0 DEF GateFailed, GateTested, Serve, Goto, CallShape
  <1> QED
    BY <1>2, <1>3, <1>4, <1>5, <1>6, <1>7, <1>8, <1>9 DEF Step

LEMMA UndisturbedHolds ==
    ASSUME SingleThreaded PROVE Spec => []Undisturbed
  <1>1. Init => Undisturbed
    BY DEF Init, Undisturbed, Begun, NoRequest
  <1>2. IndInv /\ Undisturbed /\ [Next]_vars => Undisturbed'
    <2>1. Undisturbed /\ UNCHANGED vars => Undisturbed'
      BY DEF vars, shared, local, Undisturbed, Begun
    <2> QED BY <2>1, UndisturbedStep DEF Next
  <1> QED BY <1>1, <1>2, Invariance, PTL DEF Spec

\* A step of the only thread is a transition of the diagram, or none.
LEMMA DiagramStep ==
    ASSUME IndInv, Undisturbed, SingleThreaded, NEW t \in Threads, Call(t) \/ Step(t)
    PROVE  Diagram!Next \/ UNCHANGED Observed
  <1>0. \A u \in Threads : u = t
    BY DEF SingleThreaded
  <1>1. FIPS_STATE = "Error" /\ ~FAILED => pc[t] = "store_failed"
    BY <1>0 DEF IndInv, Settling
  <1>2. CASE StoreTesting(t)
    BY <1>2, <1>1 DEF StoreTesting, Undisturbed, Observed, Diagram!Next, Diagram!Initialize
  <1>3. CASE StoreInitial(t)
    <2>1. Begun(t)
      BY <1>3 DEF StoreInitial, IndInv, CallShape, Begun
    <2>2. FIPS_STATE = "Testing"
      BY <1>3, <2>1 DEF StoreInitial, Undisturbed
    <2> QED BY <1>3, <2>2 DEF StoreInitial, Observed, Diagram!Next, Diagram!AllPass
  <1>4. CASE StoreMode(t)
    <2>1. FIPS_STATE \in Modes /\ FIPS_STATE' \in Modes /\ UNCHANGED FAILED
      BY <1>4 DEF StoreMode, Undisturbed, IndInv, CallShape
    <2> QED BY <2>1 DEF Observed, Modes, Diagram!Next, Diagram!SetMode, Diagram!Operational
  <1>5. CASE StoreError(t) \/ StoreFailed(t)
    BY <1>5 DEF StoreError, StoreFailed, Observed, Diagram!Next, Diagram!BringDown
  <1>6. CASE UNCHANGED <<FIPS_STATE, FAILED>>
    BY <1>6 DEF Observed
  <1> QED
    BY <1>2, <1>3, <1>4, <1>5, <1>6 DEF Step, Call, shared, StateFailed, InitializeState, SetModeState,
       CheckState, ModeFailed, ModeLoad, LoadSelfTests, StoreStarted, Cast, CastGate, StorePassed,
       GateFailed, GateTested, Serve

\* A program with one thread sees the state diagram of docs/FIPS.md: although
\* a transition is several stores, every step of initialize, set_mode and
\* enter_error_state is one arrow of it or none.
THEOREM DiagramFollowed ==
    ASSUME SingleThreaded PROVE Spec => Diagram!Safety
  <1>1. Init => Diagram!Init
    BY DEF Init, Diagram!Init, Observed
  <1>2. IndInv /\ Undisturbed /\ [Next]_vars => [Diagram!Next]_Observed
    <2>1. UNCHANGED vars => UNCHANGED Observed
      BY DEF vars, shared, Observed
    <2> QED BY <2>1, DiagramStep DEF Next
  <1> QED BY <1>1, <1>2, Invariance, UndisturbedHolds, PTL DEF Spec, Diagram!Safety
=============================================================================
