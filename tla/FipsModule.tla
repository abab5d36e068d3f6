----------------------------- MODULE FipsModule -----------------------------
(***************************************************************************)
(* The module boundary of IronCrypto: the lifecycle and policy engine of    *)
(* ic-fips (its STATE is FIPS_STATE here, STATE being a word of TLA+) over   *)
(* the process-wide flags of ic_core::module (FAILED, SELF_TESTS), used by  *)
(* any number of threads.                                                   *)
(*                                                                          *)
(* All three are atomics and no lock is ever held, so the grain of the      *)
(* model is one atomic load or store.  Whatever a thread computes between   *)
(* two of them is part of the step of the first.  Steps are interleaved     *)
(* (sequential consistency).                                                *)
(***************************************************************************)
EXTENDS Naturals, FiniteSets

CONSTANTS
    Threads,        \* threads that call the library
    ApprovedOnly,   \* the build was made with --cfg ic_approved_only
    StartupGate,    \* ... and without --cfg ic_startup_gate_off
    Disciplined,    \* threads wait for the first initialize to return
    Operations,     \* the operations that the program calls
    NumCasts,       \* length of the CASTS table
    GatedCasts,     \* the entries whose test calls an operation that can refuse
    Algorithms,     \* identifiers of the registry
    UnknownId,      \* an identifier that is not in the registry
    Fips,           \* Entry::fips of each algorithm
    Available       \* algorithms whose Entry::status is Available

FipsStatus ==
    {"Approved", "AllowedAsComponent", "NotApproved", "Deprecated", "Disallowed"}

permitted_in_approved_mode(f) ==
    f \in {"Approved", "AllowedAsComponent", "Deprecated"}

ASSUME BuildAssumption ==
    /\ ApprovedOnly \in BOOLEAN
    /\ StartupGate \in BOOLEAN
    /\ Disciplined \in BOOLEAN
    /\ StartupGate => ApprovedOnly

ASSUME CastsAssumption ==
    /\ NumCasts \in Nat \ {0}
    /\ GatedCasts \subseteq 1..NumCasts

ASSUME RegistryAssumption ==
    /\ UnknownId \notin Algorithms
    /\ Fips \in [Algorithms -> FipsStatus]
    /\ Available \subseteq Algorithms

-----------------------------------------------------------------------------
Modes == {"Approved", "Unrestricted"}

\* The values of ic_fips::STATE.  An operational state is named by its mode.
StateValues == {"Uninitialized", "Testing", "Error"} \union Modes

\* STATE_INITIAL: the operational state initialize leaves the module in.
StateInitial == IF ApprovedOnly THEN "Approved" ELSE "Unrestricted"

Identifiers == Algorithms \union {UnknownId}

\* The calls a thread can make.  "reinitialize" is an initialize that found
\* the module operational; "enter_error_state" is ic_fips::enter_error_state.
Requests ==
         [op: {"initialize", "enter_error_state", "service", "keygen",
               "run_self_test"}, arg: {"-"}]
  \union [op: {"set_mode"}, arg: Modes]
  \union [op: {"check", "guarded"}, arg: Identifiers]

NoRequest == [op |-> "none", arg |-> "-"]
Reinitialize == [op |-> "reinitialize", arg |-> "-"]

Errors == {"ModuleErrorState", "SelfTestFailed", "NotApprovedInFipsMode", "Unsupported",
           "EntropyFailure"}
Indicators == {"Approved", "ApprovedAsComponent", "NotApproved"}
Results == {"none", "Ok", "OkWithFailures"} \union Errors \union Indicators

Labels == {"idle", "state_failed", "state_load", "store_testing",
           "load_self_tests", "store_started", "cast", "cast_gate",
           "store_passed", "store_initial", "store_error", "store_failed",
           "store_mode", "mode_failed", "mode_load", "gate_failed",
           "gate_tested", "serve"}

VARIABLES
    FIPS_STATE,  \* ic_fips::STATE
    FAILED,      \* ic_core::module::FAILED
    SELF_TESTS,  \* ic_core::module::SELF_TESTS
    pc,          \* the next atomic access of each thread
    req,         \* the call each thread is in
    cast,        \* index into CASTS of the test being run
    passed,      \* SelfTestReport::passed so far
    failed,      \* SelfTestReport::failed so far
    result,      \* what the thread's last call returned
    \* History, which no step of the code reads:
    initialized, \* an initialize has returned
    certified,   \* a whole round of pre-operational tests has passed
    reported,    \* an initialize or a key generation has reported a failed
                 \* test, or an enter_error_state has returned
    late,        \* this thread's call is of one of the operations that the
                 \* error state refuses, and began when reported held
    accepted,    \* the mode last accepted by a set_mode, at first StateInitial
    seen         \* the states state() could have returned during this call

shared == <<FIPS_STATE, FAILED, SELF_TESTS>>
local == <<pc, req, cast, passed, failed, result>>
history == <<initialized, certified, reported, late, accepted, seen>>
vars == <<shared, local, history>>

report == <<cast, passed, failed>>

\* What state() returns when both of its loads see the same instant.
Observed == IF FAILED THEN "Error" ELSE FIPS_STATE

Init ==
    /\ FIPS_STATE = "Uninitialized"
    /\ FAILED = FALSE
    /\ SELF_TESTS = "UNTESTED"
    /\ pc = [t \in Threads |-> "idle"]
    /\ req = [t \in Threads |-> NoRequest]
    /\ cast = [t \in Threads |-> 0]
    /\ passed = [t \in Threads |-> 0]
    /\ failed = [t \in Threads |-> 0]
    /\ result = [t \in Threads |-> "none"]
    /\ initialized = FALSE
    /\ certified = FALSE
    /\ reported = FALSE
    /\ late = [t \in Threads |-> FALSE]
    /\ accepted = StateInitial
    /\ seen = [t \in Threads |-> {}]

-----------------------------------------------------------------------------
(* Control within a call. *)

\* The call goes on to its next atomic access.
Goto(t, label) ==
    /\ pc' = [pc EXCEPT ![t] = label]
    /\ UNCHANGED <<req, result, initialized, reported, late>>

\* The call of thread t returns r.
Return(t, r) ==
    /\ pc' = [pc EXCEPT ![t] = "idle"]
    /\ req' = [req EXCEPT ![t] = NoRequest]
    /\ cast' = [cast EXCEPT ![t] = 0]
    /\ passed' = [passed EXCEPT ![t] = 0]
    /\ failed' = [failed EXCEPT ![t] = 0]
    /\ result' = [result EXCEPT ![t] = r]
    /\ initialized' = (initialized \/ req[t].op = "initialize")
    /\ reported' = (reported \/ req[t].op = "enter_error_state"
                             \/ (req[t].op \in {"initialize", "keygen"} /\ r = "SelfTestFailed"))
    /\ UNCHANGED late

\* Every step is one more instant that the calls which look at the mode span.
Observe ==
    seen' = [t \in Threads |-> IF req'[t].op \in {"check", "guarded"}
                               THEN seen[t] \union {Observed'} ELSE {}]

FirstLabel(op) ==
    IF op \in {"initialize", "set_mode", "check", "guarded"} THEN "state_failed"
    ELSE IF op \in {"service", "keygen"} THEN "gate_failed"
    ELSE IF op = "enter_error_state" THEN "store_error"
    ELSE "cast"

\* The program calls the library.  A disciplined program is single-threaded
\* until its first initialize has returned, as ic_core::module asks.
Call(t) ==
    /\ pc[t] = "idle"
    /\ Disciplined /\ ~initialized => \A u \in Threads \ {t} : pc[u] = "idle"
    /\ \E r \in Requests :
         /\ r.op \in Operations
         /\ pc' = [pc EXCEPT ![t] = FirstLabel(r.op)]
         /\ req' = [req EXCEPT ![t] = r]
         /\ \E c \in IF r.op = "run_self_test" THEN 1..NumCasts ELSE {0} :
              cast' = [cast EXCEPT ![t] = c]
         /\ late' = [late EXCEPT ![t] =
              reported /\ r.op \notin {"enter_error_state", "run_self_test"}]
    /\ result' = [result EXCEPT ![t] = "none"]
    /\ UNCHANGED <<shared, passed, failed, initialized, certified, reported, accepted>>
    /\ Observe

-----------------------------------------------------------------------------
(* state(): a load of FAILED, then a load of STATE.  The caller's match on  *)
(* the result is part of the second load.                                   *)

StateFailed(t) ==
    /\ pc[t] = "state_failed"
    /\ \/ FAILED /\ Return(t, "ModuleErrorState")
       \/ ~FAILED /\ Goto(t, "state_load") /\ UNCHANGED report
    /\ UNCHANGED <<shared, certified, accepted>>
    /\ Observe

\* Mutant: initialize starts over in a module that is already operational.
InitializeState_Restart(t) ==
    /\ pc[t] = "state_load" /\ req[t].op = "initialize"
    /\ \/ FIPS_STATE = "Error" /\ Return(t, "ModuleErrorState")
       \/ /\ FIPS_STATE # "Error"
          /\ Goto(t, "store_testing") /\ UNCHANGED report
    /\ UNCHANGED <<shared, certified, accepted>>
    /\ Observe

\* initialize, lines up to the store of STATE_TESTING.  Uninitialized and
\* Testing both fall through.
InitializeState(t) ==
    /\ pc[t] = "state_load" /\ req[t].op = "initialize"
    /\ \/ FIPS_STATE = "Error" /\ Return(t, "ModuleErrorState")
       \/ /\ FIPS_STATE \in Modes
          /\ pc' = [pc EXCEPT ![t] = "cast"]
          /\ req' = [req EXCEPT ![t] = Reinitialize]
          /\ cast' = [cast EXCEPT ![t] = 1]
          /\ UNCHANGED <<passed, failed, result, initialized, reported, late>>
       \/ /\ FIPS_STATE \in {"Uninitialized", "Testing"}
          /\ Goto(t, "store_testing") /\ UNCHANGED report
    /\ UNCHANGED <<shared, certified, accepted>>
    /\ Observe

SetModeState(t) ==
    /\ pc[t] = "state_load" /\ req[t].op = "set_mode"
    /\ \/ /\ FIPS_STATE \in Modes
          /\ IF ApprovedOnly /\ req[t].arg = "Unrestricted"
             THEN Return(t, "NotApprovedInFipsMode")
             ELSE Goto(t, "store_mode") /\ UNCHANGED report
       \/ FIPS_STATE \notin Modes /\ Return(t, "ModuleErrorState")
    /\ UNCHANGED <<shared, certified, accepted>>
    /\ Observe

\* check up to its second look at the mode: the registry does not change, so
\* the lookup, the build's refusal and the availability test are local.
CheckState(t) ==
    /\ pc[t] = "state_load" /\ req[t].op \in {"check", "guarded"}
    /\ LET a == req[t].arg
           leftOut == ApprovedOnly /\ ~permitted_in_approved_mode(Fips[a])
       IN  \/ FIPS_STATE \notin Modes /\ Return(t, "ModuleErrorState")
           \/ FIPS_STATE \in Modes /\ a = UnknownId /\ Return(t, "Unsupported")
           \/ /\ FIPS_STATE \in Modes /\ a # UnknownId /\ leftOut
              /\ Return(t, "NotApprovedInFipsMode")
           \/ /\ FIPS_STATE \in Modes /\ a # UnknownId /\ ~leftOut
              /\ IF a \in Available
                 THEN Goto(t, "mode_failed") /\ UNCHANGED report
                 ELSE Return(t, "Unsupported")
    /\ UNCHANGED <<shared, certified, accepted>>
    /\ Observe

-----------------------------------------------------------------------------
(* The rest of check and guarded. *)

Indicator(f) ==
    IF f \in {"Approved", "Deprecated"} THEN "Approved"
    ELSE IF f = "AllowedAsComponent" THEN "ApprovedAsComponent"
    ELSE "NotApproved"

\* Mutant: check reports the indicator and refuses nothing.
Verdict_NoPolicy(t, approved_mode) ==
    IF req[t].op = "check"
    THEN Return(t, Indicator(Fips[req[t].arg]))
    ELSE Goto(t, "gate_failed") /\ UNCHANGED report

\* check's verdict once it knows whether mode() was Some(Approved).  guarded
\* goes on to run its closure, which calls a primitive.
Verdict(t, approved_mode) ==
    LET f == Fips[req[t].arg] IN
    IF approved_mode /\ ~permitted_in_approved_mode(f)
    THEN Return(t, "NotApprovedInFipsMode")
    ELSE IF req[t].op = "check"
    THEN Return(t, Indicator(f))
    ELSE Goto(t, "gate_failed") /\ UNCHANGED report

\* mode() calls state() again; in the error state it is None.
ModeFailed(t) ==
    /\ pc[t] = "mode_failed"
    /\ \/ FAILED /\ Verdict(t, FALSE)
       \/ ~FAILED /\ Goto(t, "mode_load") /\ UNCHANGED report
    /\ UNCHANGED <<shared, certified, accepted>>
    /\ Observe

ModeLoad(t) ==
    /\ pc[t] = "mode_load"
    /\ Verdict(t, FIPS_STATE = "Approved")
    /\ UNCHANGED <<shared, certified, accepted>>
    /\ Observe

StoreMode(t) ==
    /\ pc[t] = "store_mode"
    /\ FIPS_STATE' = req[t].arg
    /\ accepted' = req[t].arg
    /\ Return(t, "Ok")
    /\ UNCHANGED <<FAILED, SELF_TESTS, certified>>
    /\ Observe

-----------------------------------------------------------------------------
(* The rest of initialize. *)

StoreTesting(t) ==
    /\ pc[t] = "store_testing"
    /\ FIPS_STATE' = "Testing"
    /\ Goto(t, "load_self_tests")
    /\ UNCHANGED <<FAILED, SELF_TESTS, report, certified, accepted>>
    /\ Observe

\* self_tests_started is a load and a store, not a compare-exchange.
LoadSelfTests(t) ==
    /\ pc[t] = "load_self_tests"
    /\ \/ SELF_TESTS = "UNTESTED" /\ Goto(t, "store_started") /\ UNCHANGED cast
       \/ SELF_TESTS # "UNTESTED" /\ Goto(t, "cast") /\ cast' = [cast EXCEPT ![t] = 1]
    /\ UNCHANGED <<shared, passed, failed, certified, accepted>>
    /\ Observe

StoreStarted(t) ==
    /\ pc[t] = "store_started"
    /\ SELF_TESTS' = "TESTING"
    /\ Goto(t, "cast")
    /\ cast' = [cast EXCEPT ![t] = 1]
    /\ UNCHANGED <<FIPS_STATE, FAILED, passed, failed, certified, accepted>>
    /\ Observe

\* Mutant: the verdict is taken before the last outcome is counted.
CastOutcome_StaleCount(t, r) ==
    LET last == cast[t] = NumCasts
        bad  == failed[t] > 0
    IN  \/ /\ req[t].op = "run_self_test"
           /\ Return(t, r)
        \/ /\ req[t].op = "reinitialize" /\ last
           /\ Return(t, IF bad THEN "OkWithFailures" ELSE "Ok")
        \/ /\ req[t].op \in {"initialize", "reinitialize"}
           /\ req[t].op = "reinitialize" => ~last
           /\ Goto(t, IF ~last THEN "cast" ELSE IF bad THEN "store_error" ELSE "store_passed")
           /\ passed' = [passed EXCEPT ![t] = IF r = "Ok" THEN @ + 1 ELSE @]
           /\ failed' = [failed EXCEPT ![t] = IF r = "Ok" THEN @ ELSE @ + 1]
           /\ cast' = [cast EXCEPT ![t] = IF last THEN @ ELSE @ + 1]

\* The outcome of one entry of CASTS, and what its caller does with it: the
\* loop of run_all_self_tests counts it and goes on to the next entry, and
\* run_self_test passes it on.
CastOutcome(t, r) ==
    LET last == cast[t] = NumCasts
        bad  == failed[t] > 0 \/ r # "Ok"
    IN  \/ /\ req[t].op = "run_self_test"
           /\ Return(t, r)
        \/ /\ req[t].op = "reinitialize" /\ last
           /\ Return(t, IF bad THEN "OkWithFailures" ELSE "Ok")
        \/ /\ req[t].op \in {"initialize", "reinitialize"}
           /\ req[t].op = "reinitialize" => ~last
           /\ Goto(t, IF ~last THEN "cast" ELSE IF bad THEN "store_error" ELSE "store_passed")
           /\ passed' = [passed EXCEPT ![t] = IF r = "Ok" THEN @ + 1 ELSE @]
           /\ failed' = [failed EXCEPT ![t] = IF r = "Ok" THEN @ ELSE @ + 1]
           /\ cast' = [cast EXCEPT ![t] = IF last THEN @ ELSE @ + 1]

\* A known-answer test that computes gives the expected value or another.
Computed == {"Ok", "SelfTestFailed"}

\* A test whose operation can refuse consults operational() first.
Cast(t) ==
    /\ pc[t] = "cast"
    /\ \/ /\ cast[t] \in GatedCasts /\ FAILED
          /\ CastOutcome(t, "ModuleErrorState")
       \/ /\ cast[t] \in GatedCasts /\ ~FAILED /\ StartupGate
          /\ Goto(t, "cast_gate") /\ UNCHANGED report
       \/ /\ cast[t] \in GatedCasts => ~FAILED /\ ~StartupGate
          /\ \E r \in Computed : CastOutcome(t, r)
    /\ UNCHANGED <<shared, certified, accepted>>
    /\ Observe

CastGate(t) ==
    /\ pc[t] = "cast_gate"
    /\ \/ SELF_TESTS = "UNTESTED" /\ CastOutcome(t, "ModuleErrorState")
       \/ SELF_TESTS # "UNTESTED" /\ \E r \in Computed : CastOutcome(t, r)
    /\ UNCHANGED <<shared, certified, accepted>>
    /\ Observe

StorePassed(t) ==
    /\ pc[t] = "store_passed"
    /\ SELF_TESTS' = "PASSED"
    /\ certified' = (certified \/ passed[t] = NumCasts)
    /\ Goto(t, "store_initial")
    /\ UNCHANGED <<FIPS_STATE, FAILED, report, accepted>>
    /\ Observe

StoreInitial(t) ==
    /\ pc[t] = "store_initial"
    /\ FIPS_STATE' = StateInitial
    /\ Return(t, "Ok")
    /\ UNCHANGED <<FAILED, SELF_TESTS, certified, accepted>>
    /\ Observe

-----------------------------------------------------------------------------
(* ic_fips::enter_error_state stores STATE and then FAILED; ic_core's, which *)
(* a failed conditional self-test calls, stores FAILED alone.                *)

StoreError(t) ==
    /\ pc[t] = "store_error"
    /\ FIPS_STATE' = "Error"
    /\ Goto(t, "store_failed")
    /\ UNCHANGED <<FAILED, SELF_TESTS, report, certified, accepted>>
    /\ Observe

\* Mutant: the error state is known to ic-fips alone.
StoreFailed_PolicyOnly(t) ==
    /\ pc[t] = "store_failed"
    /\ Return(t, IF req[t].op = "enter_error_state" THEN "Ok" ELSE "SelfTestFailed")
    /\ UNCHANGED <<FIPS_STATE, FAILED, SELF_TESTS, certified, accepted>>
    /\ Observe

\* Mutant: conditional_self_test passes the failure on and does no more.
StoreFailed_NotConditional(t) ==
    /\ pc[t] = "store_failed"
    /\ FAILED' = (FAILED \/ req[t].op # "keygen")
    /\ Return(t, IF req[t].op = "enter_error_state" THEN "Ok" ELSE "SelfTestFailed")
    /\ UNCHANGED <<FIPS_STATE, SELF_TESTS, certified, accepted>>
    /\ Observe

StoreFailed(t) ==
    /\ pc[t] = "store_failed"
    /\ FAILED' = TRUE
    /\ Return(t, IF req[t].op = "enter_error_state" THEN "Ok" ELSE "SelfTestFailed")
    /\ UNCHANGED <<FIPS_STATE, SELF_TESTS, certified, accepted>>
    /\ Observe

-----------------------------------------------------------------------------
(* A primitive: operational() first, then its work.                         *)

\* Mutant: operational() asks about the error state only.
GateFailed_NoGate(t) ==
    /\ pc[t] = "gate_failed"
    /\ \/ FAILED /\ Return(t, "ModuleErrorState")
       \/ ~FAILED /\ Goto(t, "serve")
                  /\ UNCHANGED report
    /\ UNCHANGED <<shared, certified, accepted>>
    /\ Observe

GateFailed(t) ==
    /\ pc[t] = "gate_failed"
    /\ \/ FAILED /\ Return(t, "ModuleErrorState")
       \/ ~FAILED /\ Goto(t, IF StartupGate THEN "gate_tested" ELSE "serve")
                  /\ UNCHANGED report
    /\ UNCHANGED <<shared, certified, accepted>>
    /\ Observe

GateTested(t) ==
    /\ pc[t] = "gate_tested"
    /\ \/ SELF_TESTS = "UNTESTED" /\ Return(t, "ModuleErrorState")
       \/ SELF_TESTS # "UNTESTED" /\ Goto(t, "serve") /\ UNCHANGED report
    /\ UNCHANGED <<shared, certified, accepted>>
    /\ Observe

\* Key generation begins with two draws from the caller's source, which may
\* fail, and ends with the pairwise consistency test of its result.
Serve(t) ==
    /\ pc[t] = "serve"
    /\ \/ Return(t, "Ok")
       \/ req[t].op = "keygen" /\ Return(t, "EntropyFailure")
       \/ req[t].op = "keygen" /\ Goto(t, "store_failed") /\ UNCHANGED report
    /\ UNCHANGED <<shared, certified, accepted>>
    /\ Observe

-----------------------------------------------------------------------------
\* A thread inside a call takes its next step.
Step(t) ==
    \/ StateFailed(t) \/ InitializeState(t) \/ SetModeState(t) \/ CheckState(t)
    \/ ModeFailed(t) \/ ModeLoad(t) \/ StoreMode(t)
    \/ StoreTesting(t) \/ LoadSelfTests(t) \/ StoreStarted(t)
    \/ Cast(t) \/ CastGate(t) \/ StorePassed(t) \/ StoreInitial(t)
    \/ StoreError(t) \/ StoreFailed(t)
    \/ GateFailed(t) \/ GateTested(t) \/ Serve(t)

Next == \E t \in Threads : Call(t) \/ Step(t)

Spec == Init /\ [][Next]_vars

\* A thread inside the library is never blocked, so the operating system's
\* scheduler runs it to the end of its call.  Nothing makes a program call.
Fairness == \A t \in Threads : WF_vars(Step(t))

FairSpec == Spec /\ Fairness

-----------------------------------------------------------------------------
(* Properties. *)

TypeOK ==
    /\ FIPS_STATE \in StateValues
    /\ FAILED \in BOOLEAN
    /\ SELF_TESTS \in {"UNTESTED", "TESTING", "PASSED"}
    /\ pc \in [Threads -> Labels]
    /\ req \in [Threads -> Requests \union {NoRequest, Reinitialize}]
    /\ cast \in [Threads -> 0..NumCasts]
    /\ passed \in [Threads -> 0..NumCasts]
    /\ failed \in [Threads -> 0..NumCasts]
    /\ result \in [Threads -> Results]
    /\ initialized \in BOOLEAN
    /\ certified \in BOOLEAN
    /\ reported \in BOOLEAN
    /\ late \in [Threads -> BOOLEAN]
    /\ accepted \in Modes
    /\ seen \in [Threads -> SUBSET StateValues]

\* The module is operational only once every known-answer test of some
\* initialize has passed, whatever other initialize and set_mode calls raced
\* with that one (initialize runs the tests before it stores STATE_INITIAL;
\* set_mode stores a mode it decided on from an earlier load).
OperationalOnlyAfterTests ==
    FIPS_STATE \in Modes => certified

\* When no initialize and no enter_error_state is under way, the two crates
\* agree on where the module is: failed, never initialized, or operational
\* with the self-tests recorded as passed.  In particular the load-then-store
\* of self_tests_started never leaves TESTING behind once its callers are done.
SettledState ==
    (\A t \in Threads : req[t].op \notin {"initialize", "enter_error_state"}) =>
        \/ FAILED
        \/ FIPS_STATE = "Uninitialized" /\ SELF_TESTS = "UNTESTED"
        \/ FIPS_STATE \in Modes /\ SELF_TESTS = "PASSED"

\* Once an initialize has reported a failed known-answer test, a key generation
\* its failed pairwise test, or an enter_error_state has returned, every later
\* initialize, set_mode, check, guarded and primitive call is refused with
\* ModuleErrorState, whatever stores of STATE by calls already under way come
\* after it.
RefusedAfterFailure ==
    \A t \in Threads : late[t] /\ result[t] # "none" => result[t] = "ModuleErrorState"

\* In a build with the start-up gate no primitive does its work before a
\* whole round of self-tests has passed.  The window the documentation
\* concedes is the only exception: a thread that calls while another one is
\* inside initialize.
ServedOnlyAfterTests ==
    StartupGate =>
      \A t \in Threads : pc[t] = "serve" =>
        \/ certified
        \/ /\ ~Disciplined
           /\ FAILED \/ \E u \in Threads : req[u].op = "initialize"

\* The module operates in the mode that was last accepted: nothing but a
\* set_mode moves it out of approved mode and back into unrestricted mode.
ModeSticks ==
    FIPS_STATE \in Modes => FIPS_STATE = accepted

\* In this step, check (or the check of guarded) accepts the algorithm that
\* thread t asked about.
Accepts(t) ==
    /\ pc[t] \in {"mode_failed", "mode_load"}
    /\ result'[t] \in Indicators \/ pc'[t] = "gate_failed"

Unpermitted(a) == a \in Algorithms /\ ~permitted_in_approved_mode(Fips[a])

\* check never accepts an unpermitted algorithm when the module was in
\* approved mode from the call to the answer, although it looks at the state
\* twice and the state may change between its two looks.
ApprovedModeRefuses ==
    [][\A t \in Threads :
         Accepts(t) /\ Unpermitted(req[t].arg) => seen[t] # {"Approved"}]_vars

\* The error state latches: a module whose state() is Error never has another
\* state() again.
ErrorLatches == [][Observed = "Error" => Observed' = "Error"]_vars

\* A pre-operational known-answer test that fails brings the module down: the
\* initialize that ran it, which does not stop at the failure, reaches the
\* error state in the end.
FailureBringsModuleDown ==
    \A t \in Threads : (req[t].op = "initialize" /\ failed[t] > 0) ~> FAILED

-----------------------------------------------------------------------------
(* The inductive invariant behind the safety properties above. *)

\* An initialize has stored STATE_TESTING, and has gone past self_tests_started.
Begun(t) == req[t].op = "initialize" /\ pc[t] \notin {"state_failed", "state_load", "store_testing"}
Started(t) == Begun(t) /\ pc[t] \notin {"load_self_tests", "store_started"}

\* Which calls can be at which access.
CallShape ==
    \A t \in Threads :
      /\ pc[t] = "idle" <=> req[t] = NoRequest
      /\ pc[t] \in {"state_failed", "state_load"} =>
           req[t].op \in {"initialize", "set_mode", "check", "guarded"}
      /\ pc[t] \in {"store_testing", "load_self_tests", "store_started",
                    "store_passed", "store_initial"} => req[t].op = "initialize"
      /\ pc[t] \in {"cast", "cast_gate"} =>
           req[t].op \in {"initialize", "reinitialize", "run_self_test"}
      /\ pc[t] = "store_error" => req[t].op \in {"initialize", "enter_error_state"}
      /\ pc[t] = "store_failed" =>
           req[t].op \in {"initialize", "enter_error_state", "keygen"}
      /\ pc[t] = "store_mode" => req[t].op = "set_mode" /\ req[t].arg \in Modes
      /\ pc[t] \in {"mode_failed", "mode_load"} =>
           req[t].op \in {"check", "guarded"} /\ req[t].arg \in Algorithms
      /\ pc[t] \in {"gate_failed", "gate_tested", "serve"} =>
           req[t].op \in {"service", "keygen", "guarded"}

\* The report counts each test of the table once.
ReportCounts ==
    \A t \in Threads :
      /\ pc[t] \in {"cast", "cast_gate"} =>
           /\ cast[t] \in 1..NumCasts
           /\ req[t].op # "run_self_test" => passed[t] + failed[t] = cast[t] - 1
      /\ pc[t] \in {"store_passed", "store_initial"} => passed[t] = NumCasts
      /\ ~Started(t) /\ req[t].op # "reinitialize" => passed[t] = 0 /\ failed[t] = 0

Certification ==
    /\ FIPS_STATE \in Modes => certified
    /\ certified => SELF_TESTS # "UNTESTED"
    /\ \A t \in Threads : pc[t] \in {"store_mode", "store_initial"} => certified

\* Whatever is not settled has a thread that will settle it.
Settling ==
    /\ (\E t \in Threads : Started(t)) => SELF_TESTS # "UNTESTED"
    /\ FIPS_STATE = "Uninitialized" =>
         SELF_TESTS = "UNTESTED" /\ \A t \in Threads : ~Begun(t)
    /\ FIPS_STATE = "Testing" => FAILED \/ \E t \in Threads : Begun(t)
    /\ FIPS_STATE = "Error" =>
         FAILED \/ \E t \in Threads : req[t].op \in {"initialize", "enter_error_state"}
                                      /\ pc[t] = "store_failed"
    /\ SELF_TESTS = "TESTING" =>
         FAILED \/ \E t \in Threads : Started(t) /\ pc[t] # "store_initial"
    /\ SELF_TESTS = "PASSED" => certified

Latching ==
    /\ reported => FAILED
    /\ \A t \in Threads : late[t] =>
         /\ reported
         /\ pc[t] \in {"idle", "state_failed", "gate_failed"}
         /\ result[t] \in {"none", "ModuleErrorState"}

Gating ==
    StartupGate =>
      \A t \in Threads : pc[t] = "serve" => SELF_TESTS # "UNTESTED"

\* Together the parts are inductive.
IndInv ==
    TypeOK /\ CallShape /\ ReportCounts /\ Certification /\ Settling /\ Latching /\ Gating

\* What a disciplined program adds: one call at a time until the first
\* initialize has returned, and none that starts over after that.
Discipline ==
    Disciplined =>
      /\ ~initialized =>
           /\ \A t, u \in Threads : pc[t] # "idle" /\ pc[u] # "idle" => t = u
           /\ FIPS_STATE \notin Modes
           /\ accepted = StateInitial
           /\ \A t \in Threads : pc[t] # "store_mode"
      /\ initialized =>
           /\ FAILED \/ certified
           /\ \A t \in Threads : ~Begun(t) /\ pc[t] # "store_testing"
           /\ FIPS_STATE \in {"Uninitialized", "Testing"} =>
                FAILED /\ \A t \in Threads : pc[t] # "state_load"
      /\ FIPS_STATE \in Modes => FIPS_STATE = accepted
      /\ \A t \in Threads :
           pc[t] = "gate_tested" => certified \/ (~initialized /\ SELF_TESTS = "UNTESTED")
      /\ StartupGate => \A t \in Threads : pc[t] = "serve" => certified

\* What check relies on: a call that has not returned has no result, it has
\* seen the state it stands in, and in an approved-only build it has been
\* refused before it looks at the mode.
Looking ==
    \A t \in Threads :
      /\ pc[t] # "idle" => result[t] = "none"
      /\ req[t].op \in {"check", "guarded"} => Observed \in seen[t]
      /\ ApprovedOnly /\ pc[t] \in {"mode_failed", "mode_load"} =>
           permitted_in_approved_mode(Fips[req[t].arg])

\* What one thread on its own can rely on: the state its call last loaded or
\* stored is still the state.
Undisturbed ==
    \A t \in Threads :
      /\ pc[t] = "store_testing" => FIPS_STATE \in {"Uninitialized", "Testing"}
      /\ pc[t] = "store_mode" => FIPS_STATE \in Modes
      /\ Begun(t) /\ pc[t] # "store_failed" => FIPS_STATE = "Testing"

\* What a single-threaded program sees of the module is the state diagram of
\* docs/FIPS.md: the tests end, only set_mode changes the mode and the error
\* state latches, although each transition is several stores.
Diagram == INSTANCE Lifecycle WITH phase <- Observed, Initial <- StateInitial

ImplementsDiagram == Diagram!Spec

=============================================================================
