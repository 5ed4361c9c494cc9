--------------------------- MODULE CircuitBreaker ---------------------------
(***************************************************************************)
(* The circuit breaker of one provider (services/circuit-breaker.ts), the  *)
(* worker that probes the provider while the breaker is open               *)
(* (workers/cpaas-health-check.ts) and the operator's force-open and       *)
(* force-close (api/routes/admin.ts).                                      *)
(*                                                                         *)
(* The breaker is one Redis hash that every process reads and writes field *)
(* by field: each command is one action, and what an operation has read    *)
(* is kept in its continuation (op).  HALF_OPEN's random admission         *)
(* (canRequest) changes no state: it decides only which requests are made. *)
(* In this program only the worker reports outcomes; the callers stand for *)
(* whoever else reports them.                                              *)
(***************************************************************************)
EXTENDS Naturals

CONSTANTS
    Callers,           \* processes that report outcomes of provider requests
    Failing,           \* callers whose requests may also fail, and are counted
    Workers,           \* processes that run a CpaasHealthCheckWorker
    Operators,         \* TRUE when operators force the breaker
    FailureThreshold,  \* CB_FAILURE_THRESHOLD
    RecoveryCount,     \* CB_RECOVERY_CHECK_COUNT
    MinSamples,        \* least window size the error rate is judged on (10)
    RatePercent,       \* CB_ERROR_RATE_THRESHOLD, in percent
    MaxSamples         \* bound of the model on the window's samples, and on
                       \* the counts that an error or an operator would let
                       \* grow without end (Bounded)

ASSUME BreakerAssumption ==
    /\ Callers \cap Workers = {}
    /\ Failing \subseteq Callers
    /\ Operators \in BOOLEAN
    /\ {FailureThreshold, RecoveryCount} \subseteq Nat \ {0}
    /\ {MinSamples, RatePercent, MaxSamples} \subseteq Nat

VARIABLES
    state, consecutive, window, samples, failures, checks, hoSuccess, hoFailure,
                 \* the fields of cb:{provider}
    op,          \* the operation each process has in progress
    forced,      \* history: an operator was the last to write the state
    missed,      \* history: since the last failure was counted, an error has
                 \* cut short an operation that was going to trip the breaker
    overtaken    \* history: the callers with a success for which the state
                 \* has been written since they read it

hash == <<state, consecutive, window, samples, failures, checks, hoSuccess,
          hoFailure>>
history == <<forced, missed, overtaken>>
vars    == <<hash, op, history>>

Procs  == Callers \cup Workers
Idle   == [pc |-> "idle"]
States == {"CLOSED", "OPEN", "HALF_OPEN"}

FailurePcs == {"countProbeFailure", "countFailure", "readWindow", "openWindow",
               "countSample", "countError"}
CallerPcs  == {"resetFailures", "countSuccess", "judge", "close",
               "requestWindow", "requestSample", "requestOpens"}
WorkerPcs  == {"probe", "checkPassed", "checkFailed", "countCheck",
               "clearChecks", "halfOpen"}

(* A success on its way to a verdict, and a run of failures on its way to  *)
(* tripping the breaker.                                                   *)
Judging == {p \in Callers : op[p].pc \in {"countSuccess", "judge", "close"}}

WillTrip(p) ==
    \/ op[p].pc = "trip"
    \/ /\ op[p].pc \in {"readWindow", "openWindow", "countSample", "countError"}
       /\ op[p].run >= FailureThreshold

TypeOK ==
    /\ state \in States
    /\ {consecutive, samples, failures, checks, hoSuccess, hoFailure} \subseteq Nat
    /\ window \in {"none", "open", "elapsed"}
    /\ \A p \in Callers : op[p].pc \in {"idle", "trip"} \cup FailurePcs \cup CallerPcs
    /\ \A w \in Workers : op[w].pc \in {"idle", "trip"} \cup FailurePcs \cup WorkerPcs
    /\ overtaken \subseteq Judging

(* A missing hash reads as CLOSED with every counter 0.                    *)
Init ==
    /\ state = "CLOSED"
    /\ consecutive = 0 /\ window = "none" /\ samples = 0 /\ failures = 0
    /\ checks = 0 /\ hoSuccess = 0 /\ hoFailure = 0
    /\ op = [p \in Procs |-> Idle]
    /\ forced = FALSE
    /\ missed = FALSE
    /\ overtaken = {}

At(p, pc)   == op[p].pc = pc
Goto(p, pc) == op' = [op EXCEPT ![p] = [pc |-> pc]]

-----------------------------------------------------------------------------
(* The three transitions, each one HSET.                                   *)
ToOpen ==
    /\ state' = "OPEN"
    /\ checks' = 0 /\ hoSuccess' = 0 /\ hoFailure' = 0
    /\ UNCHANGED <<consecutive, window, samples, failures>>

(* (Mutant: the state is not one of the three.)                            *)
ToHalfOpenDashed ==
    /\ state' = "HALF-OPEN"
    /\ hoSuccess' = 0 /\ hoFailure' = 0
    /\ consecutive' = 0 /\ window' = "none" /\ samples' = 0 /\ failures' = 0
    /\ UNCHANGED checks

ToHalfOpen ==
    /\ state' = "HALF_OPEN"
    /\ hoSuccess' = 0 /\ hoFailure' = 0
    /\ consecutive' = 0 /\ window' = "none" /\ samples' = 0 /\ failures' = 0
    /\ UNCHANGED checks

ToClosed ==
    /\ state' = "CLOSED"
    /\ consecutive' = 0 /\ window' = "none" /\ samples' = 0 /\ failures' = 0
    /\ checks' = 0 /\ hoSuccess' = 0 /\ hoFailure' = 0

(* Whoever is judging a success when the state is written is overtaken.    *)
Overtakes == overtaken' = Judging'

Trip(p) ==
    /\ At(p, "trip") /\ ToOpen /\ Goto(p, "idle") /\ Overtakes
    /\ forced' = FALSE /\ missed' = FALSE

Close(p) ==
    /\ At(p, "close") /\ ToClosed /\ Goto(p, "idle") /\ Overtakes
    /\ forced' = FALSE /\ missed' = FALSE

Probation(p) ==
    /\ At(p, "halfOpen") /\ ToHalfOpen /\ Goto(p, "idle") /\ Overtakes
    /\ forced' = FALSE /\ missed' = FALSE

-----------------------------------------------------------------------------
(* recordSuccess.                                                          *)
SuccessRead(p) ==
    /\ At(p, "idle")
    /\ \/ state = "CLOSED" /\ Goto(p, "resetFailures")
       \/ state = "HALF_OPEN" /\ Goto(p, "countSuccess")
    /\ UNCHANGED <<hash, history>>

ResetFailures(p) ==
    /\ At(p, "resetFailures")
    /\ consecutive' = 0
    /\ Goto(p, "idle")
    /\ UNCHANGED <<state, window, samples, failures, checks, hoSuccess,
                   hoFailure, history>>

CountSuccess(p) ==
    /\ At(p, "countSuccess")
    /\ hoSuccess' = hoSuccess + 1
    /\ op' = [op EXCEPT ![p] = [pc |-> "judge", success |-> hoSuccess + 1]]
    /\ UNCHANGED <<state, consecutive, window, samples, failures, checks,
                   hoFailure, history>>

(* The failure count is read; the verdict is on more than 95 percent.      *)
(* (Mutant: the first probe decides.)                                      *)
JudgeAtOnce(p) ==
    LET total == op[p].success + hoFailure
    IN  /\ At(p, "judge")
        /\ Goto(p, IF 100 * op[p].success > 95 * total THEN "close" ELSE "trip")
        /\ overtaken' = overtaken \cap Judging'
        /\ UNCHANGED <<hash, forced, missed>>

Judge(p) ==
    LET total == op[p].success + hoFailure
    IN  /\ At(p, "judge")
        /\ Goto(p, IF total < RecoveryCount THEN "idle"
                   ELSE IF 100 * op[p].success > 95 * total THEN "close"
                   ELSE "trip")
        /\ overtaken' = overtaken \cap Judging'
        /\ UNCHANGED <<hash, forced, missed>>

-----------------------------------------------------------------------------
(* recordFailure, from "report" on (the worker calls it too).  When OPEN   *)
(* it only records the error's text.                                       *)
FailureRead(p, from) ==
    /\ At(p, from)
    /\ Goto(p, CASE state = "HALF_OPEN" -> "countProbeFailure"
                 [] state = "CLOSED"    -> "countFailure"
                 [] OTHER               -> "idle")
    /\ UNCHANGED <<hash, history>>

CountProbeFailure(p) ==
    /\ At(p, "countProbeFailure")
    /\ hoFailure' = hoFailure + 1
    /\ Goto(p, "trip")
    /\ UNCHANGED <<state, consecutive, window, samples, failures, checks,
                   hoSuccess, history>>

CountFailure(p) ==
    /\ At(p, "countFailure")
    /\ consecutive' = consecutive + 1
    /\ op' = [op EXCEPT ![p] = [pc |-> "readWindow", run |-> consecutive + 1]]
    /\ missed' = FALSE
    /\ UNCHANGED <<state, window, samples, failures, checks, hoSuccess,
                   hoFailure, forced, overtaken>>

(* The failure opens a new window or is the next sample of the open one.   *)
ReadWindow(p) ==
    /\ At(p, "readWindow")
    /\ op' = [op EXCEPT ![p].pc = IF window = "open" THEN "countSample"
                                                     ELSE "openWindow"]
    /\ UNCHANGED <<hash, history>>

(* (Mutant: off by one.)                                                   *)
TripsLate(run, n, f) ==
    \/ run > FailureThreshold
    \/ n >= MinSamples /\ 100 * f > RatePercent * n

Trips(run, n, f) ==
    \/ run >= FailureThreshold
    \/ n >= MinSamples /\ 100 * f > RatePercent * n

OpenWindow(p) ==
    /\ At(p, "openWindow")
    /\ window' = "open" /\ samples' = 1 /\ failures' = 1
    /\ Goto(p, IF Trips(op[p].run, 1, 1) THEN "trip" ELSE "idle")
    /\ UNCHANGED <<state, consecutive, checks, hoSuccess, hoFailure,
                   history>>

CountSample(p) ==
    /\ At(p, "countSample")
    /\ samples' = samples + 1
    /\ op' = [op EXCEPT ![p] = [pc |-> "countError", run |-> op[p].run,
                                total |-> samples + 1]]
    /\ UNCHANGED <<state, consecutive, window, failures, checks, hoSuccess,
                   hoFailure, history>>

CountError(p) ==
    /\ At(p, "countError")
    /\ failures' = failures + 1
    /\ Goto(p, IF Trips(op[p].run, op[p].total, failures + 1)
                 THEN "trip" ELSE "idle")
    /\ UNCHANGED <<state, consecutive, window, samples, checks, hoSuccess,
                   hoFailure, history>>

-----------------------------------------------------------------------------
(* recordRequest: the sample of a request that did not fail.               *)
RequestRead(p) ==
    /\ At(p, "idle")
    /\ state = "CLOSED"
    /\ samples < MaxSamples
    /\ Goto(p, "requestWindow")
    /\ UNCHANGED <<hash, history>>

RequestWindow(p) ==
    /\ At(p, "requestWindow")
    /\ Goto(p, IF window = "open" THEN "requestSample" ELSE "requestOpens")
    /\ UNCHANGED <<hash, history>>

RequestCount(p) ==
    /\ \/ /\ At(p, "requestOpens")
          /\ window' = "open" /\ samples' = 1 /\ failures' = 0
       \/ /\ At(p, "requestSample")
          /\ samples' = samples + 1
          /\ UNCHANGED <<window, failures>>
    /\ Goto(p, "idle")
    /\ UNCHANGED <<state, consecutive, checks, hoSuccess, hoFailure,
                   history>>

-----------------------------------------------------------------------------
(* CpaasHealthCheckWorker.tick: only an OPEN breaker is probed.            *)
Tick(w) ==
    /\ At(w, "idle")
    /\ state = "OPEN"
    /\ Goto(w, "probe")
    /\ UNCHANGED <<hash, history>>

Probe(w) ==
    /\ At(w, "probe")
    /\ Goto(w, "checkPassed") \/ Goto(w, "checkFailed")
    /\ UNCHANGED <<hash, history>>

(* recordHealthCheckSuccess.  (Mutant: it counts in HALF_OPEN.)            *)
CheckReadHalfOpen(w) ==
    /\ At(w, "checkPassed")
    /\ Goto(w, IF state = "HALF_OPEN" THEN "countCheck" ELSE "clearChecks")
    /\ UNCHANGED <<hash, history>>

CheckRead(w) ==
    /\ At(w, "checkPassed")
    /\ Goto(w, IF state = "OPEN" THEN "countCheck" ELSE "clearChecks")
    /\ UNCHANGED <<hash, history>>

CountCheck(w) ==
    /\ At(w, "countCheck")
    /\ checks' = checks + 1
    /\ Goto(w, IF checks + 1 >= RecoveryCount THEN "halfOpen" ELSE "idle")
    /\ UNCHANGED <<state, consecutive, window, samples, failures, hoSuccess,
                   hoFailure, history>>

ClearChecks(w) ==
    /\ At(w, "clearChecks")
    /\ checks' = 0
    /\ Goto(w, "idle")
    /\ UNCHANGED <<state, consecutive, window, samples, failures, hoSuccess,
                   hoFailure, history>>

(* A failed probe is reported with recordFailure.                          *)
CheckFailed(w) == FailureRead(w, "checkFailed")

-----------------------------------------------------------------------------
(* A command of Redis fails, or the process dies: the rest of the operation *)
(* is not done.  The worker's tick catches the error and logs it.          *)
Bounded ==
    /\ consecutive <= FailureThreshold
    /\ {checks, hoSuccess} \subseteq 0 .. RecoveryCount
    /\ {samples, failures, hoFailure} \subseteq 0 .. MaxSamples

CutShort(p) ==
    /\ ~At(p, "idle")
    /\ Bounded
    /\ Goto(p, "idle")
    /\ missed' = (missed \/ WillTrip(p))
    /\ overtaken' = overtaken \ {p}
    /\ UNCHANGED <<hash, forced>>

(* forceState sets the state field and nothing else.  (Bound of the model: *)
(* one operation at most is in progress then.)                             *)
Quiet == ~ \E p, q \in Procs : p # q /\ ~At(p, "idle") /\ ~At(q, "idle")

ForceState(s) ==
    /\ Operators
    /\ Bounded /\ Quiet
    /\ state' = s
    /\ forced' = TRUE
    /\ UNCHANGED <<consecutive, window, samples, failures, checks, hoSuccess,
                   hoFailure, op, missed>>
    /\ Overtakes

WindowElapses ==
    /\ window = "open"
    /\ window' = "elapsed"
    /\ UNCHANGED <<state, consecutive, samples, failures, checks, hoSuccess,
                   hoFailure, op, history>>

Report(p) ==
    \/ SuccessRead(p)
    \/ p \in Failing /\ (FailureRead(p, "idle") \/ RequestRead(p))

FailureSteps(p) ==
    \/ CountProbeFailure(p) \/ CountFailure(p) \/ ReadWindow(p)
    \/ OpenWindow(p) \/ CountSample(p) \/ CountError(p) \/ Trip(p)

CallerSteps(p) ==
    \/ ResetFailures(p) \/ CountSuccess(p) \/ Judge(p) \/ Close(p)
    \/ RequestWindow(p) \/ RequestCount(p)

WorkerSteps(w) ==
    \/ Tick(w) \/ Probe(w) \/ CheckRead(w) \/ CountCheck(w) \/ ClearChecks(w)
    \/ CheckFailed(w) \/ Probation(w)

Next ==
    \/ \E p \in Callers : Report(p) \/ CallerSteps(p)
    \/ \E w \in Workers : WorkerSteps(w)
    \/ \E p \in Procs : FailureSteps(p) \/ CutShort(p)
    \/ \E s \in {"OPEN", "CLOSED"} : ForceState(s)
    \/ WindowElapses

(* Operations that have started go on, and the probe timer keeps ticking;  *)
(* nothing obliges a caller to report, or the provider to come back.       *)
Fairness ==
    /\ \A p \in Callers : WF_vars(CallerSteps(p))
    /\ \A w \in Workers : WF_vars(WorkerSteps(w))
    /\ \A p \in Procs : WF_vars(FailureSteps(p))

Spec == Init /\ [][Next]_vars /\ Fairness

-----------------------------------------------------------------------------
(* Properties.                                                             *)

(* circuit-breaker.ts:31: a run of FailureThreshold failures opens the     *)
(* breaker.  Whichever reports race (lines 101-139), when no operation is  *)
(* in progress a CLOSED breaker that no operator forced has seen fewer,    *)
(* unless an error, which the worker swallows (cpaas-health-check.ts:      *)
(* 65-67), cut an operation between the count and the transition; then the *)
(* next failure that is counted trips it or is cut as well.                *)
TripsAtThreshold ==
    /\ ~forced /\ state = "CLOSED" /\ consecutive >= FailureThreshold
    /\ \A p \in Procs : At(p, "idle")
    => missed

(* circuit-breaker.ts:31-34, 217-221: a breaker is closed by its           *)
(* probation, on its probes' rate.  A caller that closes it, and for which *)
(* nobody wrote the state since it had read it, finds it HALF_OPEN, and    *)
(* over 95 percent of RecoveryCount successes were counted since it is,    *)
(* however the counts and verdicts of other callers come in between (lines *)
(* 68-77).  A caller that was overtaken closes the breaker whatever it is: *)
(* one that has tripped meanwhile, too.                                    *)
ClosingIsEarned ==
    [][\A p \in Callers :
         p \notin overtaken /\ Close(p)
         => state = "HALF_OPEN" /\ 100 * hoSuccess > 95 * RecoveryCount
      ]_vars

(* If the provider stays up, and Redis commands no longer fail, an open    *)
(* breaker lets traffic through again (cpaas-health-check.ts:43-70).       *)
ProbeFails(w) == At(w, "probe") /\ op'[w].pc = "checkFailed"

RecoversWhenUp ==
    <>[][\A w \in Workers : ~ProbeFails(w)]_vars /\ <>[][\A p \in Procs : ~CutShort(p)]_vars
      => (state = "OPEN" ~> state # "OPEN")

=============================================================================
