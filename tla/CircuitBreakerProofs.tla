------------------------- MODULE CircuitBreakerProofs -------------------------
(***************************************************************************)
(* Proofs about CircuitBreaker, for any callers, workers and thresholds.   *)
(***************************************************************************)
EXTENDS CircuitBreaker, TLAPS

(* What an operation holds between two of its commands.                    *)
PlainPcs ==
    {"idle", "trip", "countProbeFailure", "countFailure", "resetFailures",
     "countSuccess", "close", "requestWindow", "requestSample", "requestOpens",
     "probe", "checkPassed", "checkFailed", "countCheck", "clearChecks",
     "halfOpen"}
RunPcs == {"readWindow", "openWindow", "countSample"}

PlainOps == [pc : PlainPcs]
RunOps   == [pc : RunPcs, run : Nat]
ErrorOps == [pc : {"countError"}, run : Nat, total : Nat]
JudgeOps == [pc : {"judge"}, success : Nat]
Ops      == PlainOps \cup RunOps \cup ErrorOps \cup JudgeOps

TypeInv == TypeOK /\ op \in [Procs -> Ops]

(* A run of failures that has reached the threshold is still in the hands  *)
(* of an operation that is going to trip the breaker, unless an error took *)
(* it out of them.                                                         *)
TripInv ==
    ~forced /\ state = "CLOSED" /\ consecutive >= FailureThreshold
      => missed \/ \E p \in Procs : WillTrip(p)

-----------------------------------------------------------------------------
LEMMA Held ==
  ASSUME op \in [Procs -> Ops], NEW p \in Procs
  PROVE  /\ op[p] \in Ops
         /\ op[p].pc \in PlainPcs \cup RunPcs \cup {"countError", "judge"}
         /\ op[p].pc \in RunPcs => op[p] \in RunOps
         /\ op[p].pc = "countError" => op[p] \in ErrorOps
         /\ op[p].pc = "judge" => op[p] \in JudgeOps
BY DEF Ops, PlainOps, RunOps, ErrorOps, JudgeOps, PlainPcs, RunPcs

(* What is written into one operation has a type, and a step of a caller's *)
(* or of a worker's.                                                       *)
LEMMA OneOp ==
  ASSUME TypeInv, NEW p \in Procs, NEW t \in Ops, op' = [op EXCEPT ![p] = t],
         p \in Callers => t.pc \in {"idle", "trip"} \cup FailurePcs \cup CallerPcs,
         p \in Workers => t.pc \in {"idle", "trip"} \cup FailurePcs \cup WorkerPcs
  PROVE  /\ op' \in [Procs -> Ops]
         /\ \A q \in Callers : op'[q].pc \in {"idle", "trip"} \cup FailurePcs \cup CallerPcs
         /\ \A q \in Workers : op'[q].pc \in {"idle", "trip"} \cup FailurePcs \cup WorkerPcs
BY DEF TypeInv, TypeOK, Procs

OpsKeepType ==
    /\ op' \in [Procs -> Ops]
    /\ \A q \in Callers : op'[q].pc \in {"idle", "trip"} \cup FailurePcs \cup CallerPcs
    /\ \A q \in Workers : op'[q].pc \in {"idle", "trip"} \cup FailurePcs \cup WorkerPcs

LEMMA GotoType ==
  ASSUME TypeInv, NEW p \in Procs, NEW pc, Goto(p, pc), pc \in PlainPcs,
         p \in Callers => pc \in {"idle", "trip"} \cup FailurePcs \cup CallerPcs,
         p \in Workers => pc \in {"idle", "trip"} \cup FailurePcs \cup WorkerPcs
  PROVE  OpsKeepType
<1>1. [pc |-> pc] \in Ops
  BY DEF Ops, PlainOps
<1>2. QED
  BY <1>1, OneOp DEF Goto, OpsKeepType

(* The operations keep their types under every step, ...                   *)
LEMMA OpsStep ==
  ASSUME TypeInv, [Next]_vars
  PROVE  OpsKeepType
<1>1. ASSUME NEW p \in Callers, Report(p) \/ CallerSteps(p)
      PROVE  OpsKeepType
  <2>0. p \in Procs /\ p \notin Workers
    BY BreakerAssumption DEF Procs
  <2>1. CASE SuccessRead(p)
    BY <2>0, <2>1, GotoType DEF SuccessRead, PlainPcs, CallerPcs
  <2>2. CASE FailureRead(p, "idle") /\ p \in Failing
    <3>1. \E pc \in {"countProbeFailure", "countFailure", "idle"} : Goto(p, pc)
      BY <2>2 DEF FailureRead
    <3>2. QED
      BY <2>0, <3>1, GotoType DEF PlainPcs, FailurePcs
  <2>3. CASE RequestRead(p)
    BY <2>0, <2>3, GotoType DEF RequestRead, PlainPcs, CallerPcs
  <2>4. CASE ResetFailures(p) \/ Close(p) \/ RequestCount(p)
    BY <2>0, <2>4, GotoType DEF ResetFailures, Close, RequestCount, PlainPcs
  <2>5. CASE CountSuccess(p)
    <3>1. hoSuccess + 1 \in Nat
      BY DEF TypeInv, TypeOK
    <3>2. [pc |-> "judge", success |-> hoSuccess + 1] \in Ops
      BY <3>1 DEF Ops, JudgeOps
    <3>3. QED
      BY <2>0, <2>5, <3>2, OneOp DEF CountSuccess, OpsKeepType, CallerPcs
  <2>6. CASE Judge(p)
    <3>1. \E pc \in {"idle", "close", "trip"} : Goto(p, pc)
      BY <2>6 DEF Judge
    <3>2. QED
      BY <2>0, <3>1, GotoType DEF PlainPcs, CallerPcs
  <2>7. CASE RequestWindow(p)
    BY <2>0, <2>7, GotoType DEF RequestWindow, PlainPcs, CallerPcs
  <2>8. QED
    BY <1>1, <2>1, <2>2, <2>3, <2>4, <2>5, <2>6, <2>7 DEF Report, CallerSteps
<1>2. ASSUME NEW w \in Workers, WorkerSteps(w)
      PROVE  OpsKeepType
  <2>0. w \in Procs /\ w \notin Callers
    BY BreakerAssumption DEF Procs
  <2>1. CASE Tick(w) \/ Probe(w) \/ CheckRead(w)
    BY <2>0, <2>1, GotoType DEF Tick, Probe, CheckRead, PlainPcs, WorkerPcs
  <2>2. CASE CountCheck(w) \/ ClearChecks(w) \/ Probation(w)
    BY <2>0, <2>2, GotoType DEF CountCheck, ClearChecks, Probation, PlainPcs, WorkerPcs
  <2>3. CASE CheckFailed(w)
    <3>1. \E pc \in {"countProbeFailure", "countFailure", "idle"} : Goto(w, pc)
      BY <2>3 DEF CheckFailed, FailureRead
    <3>2. QED
      BY <2>0, <3>1, GotoType DEF PlainPcs, FailurePcs
  <2>4. QED
    BY <1>2, <2>1, <2>2, <2>3 DEF WorkerSteps
<1>3. ASSUME NEW p \in Procs, FailureSteps(p) \/ CutShort(p)
      PROVE  OpsKeepType
  <2>0. op \in [Procs -> Ops] /\ {consecutive, samples, failures} \subseteq Nat
    BY DEF TypeInv, TypeOK
  <2>1. CASE CountProbeFailure(p) \/ Trip(p) \/ CutShort(p)
    BY <2>1, GotoType DEF CountProbeFailure, Trip, CutShort, PlainPcs
  <2>2. CASE CountFailure(p)
    <3>1. [pc |-> "readWindow", run |-> consecutive + 1] \in Ops
      BY <2>0 DEF Ops, RunOps, RunPcs
    <3>2. QED
      BY <2>2, <3>1, OneOp DEF CountFailure, OpsKeepType, FailurePcs
  <2>3. CASE ReadWindow(p)
    <3>1. op[p] \in RunOps
      BY <2>0, <2>3, Held DEF ReadWindow, At, RunPcs
    <3>2. PICK pc \in {"countSample", "openWindow"} : op' = [op EXCEPT ![p].pc = pc]
      BY <2>3 DEF ReadWindow
    <3>3. [op[p] EXCEPT !.pc = pc] \in Ops /\ [op[p] EXCEPT !.pc = pc].pc = pc
      BY <3>1 DEF Ops, RunOps, RunPcs
    <3>4. op' = [op EXCEPT ![p] = [op[p] EXCEPT !.pc = pc]]
      BY <3>2
    <3>5. QED
      BY <3>3, <3>4, OneOp DEF OpsKeepType, FailurePcs
  <2>4. CASE OpenWindow(p)
    BY <2>4, GotoType DEF OpenWindow, PlainPcs
  <2>5. CASE CountSample(p)
    <3>1. op[p] \in RunOps
      BY <2>0, <2>5, Held DEF CountSample, At, RunPcs
    <3>2. [pc |-> "countError", run |-> op[p].run, total |-> samples + 1] \in Ops
      BY <2>0, <3>1 DEF Ops, RunOps, ErrorOps
    <3>3. QED
      BY <2>5, <3>2, OneOp DEF CountSample, OpsKeepType, FailurePcs
  <2>6. CASE CountError(p)
    BY <2>6, GotoType DEF CountError, PlainPcs
  <2>7. QED
    BY <1>3, <2>1, <2>2, <2>3, <2>4, <2>5, <2>6 DEF FailureSteps
<1>4. ASSUME UNCHANGED op
      PROVE  OpsKeepType
  BY <1>4 DEF TypeInv, TypeOK, OpsKeepType
<1>5. QED
  BY <1>1, <1>2, <1>3, <1>4 DEF Next, ForceState, WindowElapses, vars

(* ... and so do the fields of the hash, whatever the operations write.    *)
FieldsOK ==
    /\ state \in States
    /\ {consecutive, samples, failures, checks, hoSuccess, hoFailure} \subseteq Nat
    /\ window \in {"none", "open", "elapsed"}

LEMMA FieldsStep ==
  ASSUME FieldsOK, [Next]_vars
  PROVE  FieldsOK'
<1> USE DEF FieldsOK, States, hash
<1>1. ASSUME NEW p \in Callers, Report(p) \/ CallerSteps(p)
      PROVE  FieldsOK'
  BY <1>1 DEF Report, SuccessRead, FailureRead, RequestRead, CallerSteps, ResetFailures,
              CountSuccess, Judge, Close, ToClosed, RequestWindow, RequestCount
<1>2. ASSUME NEW w \in Workers, WorkerSteps(w)
      PROVE  FieldsOK'
  BY <1>2 DEF WorkerSteps, Tick, Probe, CheckRead, CountCheck, ClearChecks, CheckFailed,
              FailureRead, Probation, ToHalfOpen
<1>3. ASSUME NEW p \in Procs, FailureSteps(p) \/ CutShort(p)
      PROVE  FieldsOK'
  BY <1>3 DEF FailureSteps, CountProbeFailure, CountFailure, ReadWindow, OpenWindow,
              CountSample, CountError, Trip, ToOpen, CutShort
<1>4. CASE (\E s \in {"OPEN", "CLOSED"} : ForceState(s)) \/ WindowElapses
  BY <1>4 DEF ForceState, WindowElapses
<1>5. CASE UNCHANGED vars
  BY <1>5 DEF vars
<1>6. QED
  BY <1>1, <1>2, <1>3, <1>4, <1>5 DEF Next

(* Whoever is overtaken is still judging.                                  *)
LEMMA OvertakenKept ==
  ASSUME overtaken \subseteq Judging, overtaken' \subseteq overtaken,
         NEW p \in Procs, NEW t, op' = [op EXCEPT ![p] = t], op \in [Procs -> Ops],
         p \in overtaken' => t.pc \in {"countSuccess", "judge", "close"}
  PROVE  overtaken' \subseteq Judging'
BY DEF Judging, Procs

LEMMA OvertakenStep ==
  ASSUME TypeInv, [Next]_vars
  PROVE  overtaken' \subseteq Judging'
<1>0. /\ overtaken \subseteq Judging /\ op \in [Procs -> Ops]
      /\ \A w \in Workers : w \in Procs /\ w \notin overtaken
      /\ \A p \in Callers : p \in Procs
      /\ \A p \in overtaken : op[p].pc \in {"countSuccess", "judge", "close"}
  BY BreakerAssumption DEF TypeInv, TypeOK, Judging, Procs
<1>1. ASSUME NEW p \in Callers, Report(p) \/ CallerSteps(p)
      PROVE  overtaken' \subseteq Judging'
  <2>1. CASE Judge(p) \/ Close(p)
    BY <2>1 DEF Judge, Close, Overtakes
  <2>2. CASE CountSuccess(p)
    <3>1. op' = [op EXCEPT ![p] = [pc |-> "judge", success |-> hoSuccess + 1]]
          /\ overtaken' \subseteq overtaken
      BY <2>2 DEF CountSuccess, history
    <3>2. QED
      BY <1>0, <3>1, OvertakenKept
  <2>3. CASE ~Judge(p) /\ ~Close(p) /\ ~CountSuccess(p)
    <3>1. p \notin overtaken /\ overtaken' = overtaken
      BY <1>0, <1>1, <2>3 DEF Report, SuccessRead, FailureRead, RequestRead, CallerSteps,
         ResetFailures, RequestWindow, RequestCount, At, history
    <3>2. \E pc : Goto(p, pc)
      BY <1>1, <2>3 DEF Report, SuccessRead, FailureRead, RequestRead, CallerSteps,
         ResetFailures, RequestWindow, RequestCount
    <3>3. QED
      BY <1>0, <3>1, <3>2, OvertakenKept DEF Goto
  <2>4. QED
    BY <2>1, <2>2, <2>3
<1>2. ASSUME NEW w \in Workers, WorkerSteps(w)
      PROVE  overtaken' \subseteq Judging'
  <2>1. CASE Probation(w)
    BY <2>1 DEF Probation, Overtakes
  <2>2. CASE ~Probation(w)
    <3>1. overtaken' = overtaken /\ \E pc : Goto(w, pc)
      BY <1>2, <2>2 DEF WorkerSteps, Tick, Probe, CheckRead, CountCheck, ClearChecks,
         CheckFailed, FailureRead, history
    <3>2. QED
      BY <1>0, <3>1, OvertakenKept DEF Goto
  <2>3. QED
    BY <2>1, <2>2
<1>3. ASSUME NEW p \in Procs, FailureSteps(p) \/ CutShort(p)
      PROVE  overtaken' \subseteq Judging'
  <2>1. CASE Trip(p)
    BY <2>1 DEF Trip, Overtakes
  <2>2. CASE CutShort(p)
    <3>1. p \notin overtaken' /\ overtaken' \subseteq overtaken /\ Goto(p, "idle")
      BY <2>2 DEF CutShort
    <3>2. QED
      BY <1>0, <3>1, OvertakenKept DEF Goto
  <2>3. CASE ~Trip(p) /\ ~CutShort(p)
    <3>1. p \notin overtaken /\ overtaken' = overtaken
      BY <1>0, <1>3, <2>3 DEF FailureSteps, CountProbeFailure, CountFailure, ReadWindow,
         OpenWindow, CountSample, CountError, At, history
    <3>2. \E t : op' = [op EXCEPT ![p] = t]
      <4>1. CASE ReadWindow(p)
        BY <4>1 DEF ReadWindow
      <4>2. CASE ~ReadWindow(p)
        BY <1>3, <2>3, <4>2 DEF FailureSteps, CountProbeFailure, CountFailure,
           OpenWindow, CountSample, CountError, Goto
      <4>3. QED
        BY <4>1, <4>2
    <3>3. QED
      BY <1>0, <3>1, <3>2, OvertakenKept
  <2>4. QED
    BY <2>1, <2>2, <2>3
<1>4. ASSUME NEW s \in {"OPEN", "CLOSED"}, ForceState(s)
      PROVE  overtaken' \subseteq Judging'
  BY <1>4 DEF ForceState, Overtakes
<1>5. CASE WindowElapses \/ UNCHANGED vars
  BY <1>0, <1>5 DEF WindowElapses, vars, history, Judging
<1>6. QED
  BY <1>1, <1>2, <1>3, <1>4, <1>5 DEF Next

LEMMA TypeInvInit == Init => TypeInv
<1>1. Idle \in Ops
  BY DEF Idle, Ops, PlainOps, PlainPcs
<1>2. QED
  BY <1>1 DEF Init, TypeInv, TypeOK, States, Idle, Procs

LEMMA TypeInvStep ==
  ASSUME TypeInv, [Next]_vars
  PROVE  TypeInv'
<1>1. OpsKeepType
  BY OpsStep
<1>2. FieldsOK
  BY DEF TypeInv, TypeOK, FieldsOK
<1>3. FieldsOK'
  BY <1>2, FieldsStep
<1>4. QED
  BY <1>1, <1>3, OvertakenStep DEF TypeInv, TypeOK, OpsKeepType, FieldsOK

LEMMA TypeInvCorrect == Spec => []TypeInv
BY TypeInvInit, TypeInvStep, PTL DEF Spec

(* Every field and every operation always has its type, for any number of  *)
(* processes that report to, probe and force one breaker.                  *)
THEOREM BreakerTypeCorrect == Spec => []TypeOK
<1>1. TypeInv => TypeOK
  BY DEF TypeInv
<1>2. QED
  BY <1>1, TypeInvCorrect, PTL

-----------------------------------------------------------------------------
(* An operation that will trip keeps its intention until it does.          *)
LEMMA WillTripKept ==
  ASSUME TypeInv, Next, NEW q \in Procs, WillTrip(q), op'[q] # op[q], ~missed',
         state' = "CLOSED"
  PROVE  WillTrip(q)'
<1>0. op \in [Procs -> Ops] /\ samples \in Nat /\ failures \in Nat
  BY DEF TypeInv, TypeOK
<1>1. op[q].pc \in {"trip", "countError"} \cup RunPcs
  BY DEF WillTrip, RunPcs
<1>2. ASSUME NEW p \in Procs, p # q
      PROVE  ~ \E t : op' = [op EXCEPT ![p] = t]
  BY <1>0, <1>2
<1>3. ~ \E p \in Callers : Report(p) \/ CallerSteps(p)
  BY <1>1, <1>2 DEF Report, SuccessRead, FailureRead, RequestRead, CallerSteps,
     ResetFailures, CountSuccess, Judge, Close, RequestWindow, RequestCount, Goto, At, Procs, RunPcs
<1>4. ~ \E w \in Workers : WorkerSteps(w)
  BY <1>1, <1>2 DEF WorkerSteps, Tick, Probe, CheckRead, CountCheck, ClearChecks, CheckFailed,
              FailureRead, Probation, Goto, At, Procs, RunPcs
<1>5. FailureSteps(q)
  <2>0. ~ \E p \in Procs : CutShort(p)
    BY <1>2 DEF CutShort, Goto
  <2>1. PICK p \in Procs : FailureSteps(p)
    BY <1>3, <1>4, <2>0 DEF Next, ForceState, WindowElapses
  <2>2. CASE ReadWindow(p)
    BY <1>0, <2>1, <2>2 DEF ReadWindow
  <2>3. CASE ~ReadWindow(p)
    BY <1>2, <2>1, <2>3 DEF FailureSteps, CountProbeFailure, CountFailure, OpenWindow,
              CountSample, CountError, Trip, Goto
  <2>4. QED
    BY <2>1, <2>2, <2>3
<1>6. CASE ReadWindow(q)
  <2>1. op[q] \in RunOps /\ op[q].run >= FailureThreshold
    BY <1>0, <1>6, Held DEF ReadWindow, At, WillTrip, RunPcs
  <2>2. PICK pc \in {"countSample", "openWindow"} : op' = [op EXCEPT ![q].pc = pc]
    BY <1>6 DEF ReadWindow
  <2>3. op'[q].pc = pc /\ op'[q].run = op[q].run
    BY <1>0, <2>1, <2>2 DEF RunOps
  <2>4. QED
    BY <2>1, <2>3 DEF WillTrip, RunPcs
<1>7. CASE OpenWindow(q)
  BY <1>0, <1>7 DEF OpenWindow, Trips, Goto, WillTrip, At, RunPcs
<1>8. CASE CountSample(q)
  BY <1>0, <1>8 DEF CountSample, WillTrip, At, RunPcs
<1>9. CASE CountError(q)
  BY <1>0, <1>9 DEF CountError, Trips, Goto, WillTrip, At, RunPcs
<1>10. CASE Trip(q)
  BY <1>10 DEF Trip, ToOpen
<1>11. QED
  BY <1>1, <1>5, <1>6, <1>7, <1>8, <1>9, <1>10
     DEF FailureSteps, CountProbeFailure, CountFailure, At, RunPcs

(* Only the count that reaches the threshold puts the invariant at stake:  *)
(* it is left to its own operation.                                        *)
LEMMA TripInvStep ==
  ASSUME TypeInv, TripInv, [Next]_vars
  PROVE  TripInv'
<1> SUFFICES ASSUME ~forced', state' = "CLOSED", consecutive' >= FailureThreshold,
                    ~missed'
             PROVE  \E p \in Procs : WillTrip(p)'
  BY DEF TripInv
<1>0. /\ op \in [Procs -> Ops] /\ consecutive \in Nat
      /\ FailureThreshold \in Nat \ {0}
  BY BreakerAssumption DEF TypeInv, TypeOK
<1>1. CASE UNCHANGED vars
  BY <1>1 DEF TripInv, WillTrip, vars, hash, history
<1>2. ASSUME NEW p \in Procs, CountFailure(p)
      PROVE  WillTrip(p)'
  BY <1>0, <1>2 DEF CountFailure, WillTrip
<1> DEFINE Before == /\ ~forced /\ state = "CLOSED" /\ consecutive >= FailureThreshold
                     /\ ~missed
<1>3. ASSUME Next, ~ \E p \in Procs : CountFailure(p)
      PROVE  Before
  <2>1. ASSUME NEW p \in Callers, Report(p) \/ CallerSteps(p)
        PROVE  Before
    BY <1>0, <2>1 DEF Report, SuccessRead, FailureRead, RequestRead, CallerSteps, ResetFailures,
       CountSuccess, Judge, Close, ToClosed, RequestWindow, RequestCount, hash, history
  <2>2. ASSUME NEW w \in Workers, WorkerSteps(w)
        PROVE  Before
    BY <1>0, <2>2 DEF WorkerSteps, Tick, Probe, CheckRead, CountCheck, ClearChecks, CheckFailed,
              FailureRead, Probation, ToHalfOpen, hash, history
  <2>3. ASSUME NEW p \in Procs, FailureSteps(p) \/ CutShort(p)
        PROVE  Before
    <3>1. CASE CutShort(p)
      <4>1. missed' = (missed \/ WillTrip(p)) /\ UNCHANGED <<hash, forced>>
        BY <3>1 DEF CutShort
      <4>2. ~missed
        BY <4>1
      <4>3. QED
        BY <4>1, <4>2 DEF hash
    <3>2. CASE FailureSteps(p)
      BY <1>3, <3>2 DEF FailureSteps, CountProbeFailure, ReadWindow, OpenWindow,
              CountSample, CountError, Trip, ToOpen, hash, history
    <3>3. QED
      BY <2>3, <3>1, <3>2
  <2>4. QED
    BY <1>3, <2>1, <2>2, <2>3 DEF Next, ForceState, WindowElapses, hash, history
<1>4. ASSUME Next, ~ \E p \in Procs : CountFailure(p)
      PROVE  \E p \in Procs : WillTrip(p)'
  <2>1. PICK q \in Procs : WillTrip(q)
    BY <1>3, <1>4 DEF TripInv
  <2>2. CASE op'[q] = op[q]
    BY <2>1, <2>2 DEF WillTrip
  <2>3. CASE op'[q] # op[q]
    BY <1>4, <2>1, <2>3, WillTripKept
  <2>4. QED
    BY <2>2, <2>3
<1>5. QED
  BY <1>1, <1>2, <1>4

(* However many processes report failures, and whichever read, count and   *)
(* reset in between: one that is CLOSED with no operation under way has    *)
(* seen fewer failures in a row than its threshold, unless an operator was *)
(* the last to write its state or an error has taken the last run of       *)
(* failures from the operation that had counted it (circuit-breaker.ts:    *)
(* 108-133).                                                               *)
THEOREM TripsAlwaysAtThreshold == Spec => []TripsAtThreshold
<1>1. Init => TripInv
  BY BreakerAssumption DEF Init, TripInv
<1>2. TypeInv /\ TripInv /\ [Next]_vars => TripInv'
  BY TripInvStep
<1>3. TypeInv /\ TripInv => TripsAtThreshold
  BY DEF TripInv, TripsAtThreshold, WillTrip, At
<1>4. QED
  BY <1>1, <1>2, <1>3, TypeInvCorrect, PTL DEF Spec

-----------------------------------------------------------------------------
(* A success that nobody overtook is judged in the probation it was read   *)
(* in, whose successes only grow in number.                                *)
Enough == 100 * hoSuccess > 95 * RecoveryCount

Counted(p) ==
    /\ state = "HALF_OPEN"
    /\ At(p, "judge") => op[p].success <= hoSuccess
    /\ At(p, "close") => Enough

VerdictInv == \A p \in Judging : p \notin overtaken => Counted(p)

(* A step that overtakes nobody leaves the state, takes no success away    *)
(* and makes nobody less overtaken.                                        *)
Calm ==
    /\ state' = state
    /\ hoSuccess' \in {hoSuccess, hoSuccess + 1}
    /\ \A p \in Judging' : p \notin overtaken' => p \notin overtaken

LEMMA CalmSteps ==
  ASSUME TypeInv, [Next]_vars
  PROVE  overtaken' = Judging' \/ Calm
<1>1. ASSUME NEW p \in Callers, Report(p) \/ CallerSteps(p)
      PROVE  overtaken' = Judging' \/ Calm
  BY <1>1 DEF Report, SuccessRead, FailureRead, RequestRead, CallerSteps, ResetFailures,
     CountSuccess, Judge, Close, RequestWindow, RequestCount, Overtakes, hash, history, Calm
<1>2. ASSUME NEW w \in Workers, WorkerSteps(w)
      PROVE  overtaken' = Judging' \/ Calm
  BY <1>2 DEF WorkerSteps, Tick, Probe, CheckRead, CountCheck, ClearChecks, CheckFailed,
     FailureRead, Probation, Overtakes, hash, history, Calm
<1>3. ASSUME NEW p \in Procs, FailureSteps(p)
      PROVE  overtaken' = Judging' \/ Calm
  BY <1>3 DEF FailureSteps, CountProbeFailure, CountFailure, ReadWindow, OpenWindow,
     CountSample, CountError, Trip, Overtakes, hash, history, Calm
<1>4. ASSUME NEW p \in Procs, CutShort(p)
      PROVE  Calm
  <2>1. p \notin Judging'
    BY <1>4 DEF CutShort, Goto, Judging, TypeInv, Procs
  <2>2. QED
    BY <1>4, <2>1 DEF CutShort, hash, Calm
<1>5. CASE (\E s \in {"OPEN", "CLOSED"} : ForceState(s)) \/ WindowElapses \/ UNCHANGED vars
  BY <1>5 DEF ForceState, WindowElapses, Overtakes, vars, hash, history, Calm
<1>6. QED
  BY <1>1, <1>2, <1>3, <1>4, <1>5 DEF Next

(* Who comes to judge a success, or goes on with it, is a caller that does *)
(* one of three steps.                                                     *)
LEMMA JudgeMoves ==
  ASSUME TypeInv, [Next]_vars, NEW q \in Callers, q \in Judging'
  PROVE  \/ op'[q] = op[q] /\ q \in Judging
         \/ SuccessRead(q) /\ op'[q].pc = "countSuccess"
         \/ CountSuccess(q)
         \/ Judge(q) /\ op'[q].pc = "close"
<1>0. /\ op \in [Procs -> Ops] /\ q \in Procs /\ q \notin Workers
      /\ op'[q].pc \in {"countSuccess", "judge", "close"}
  BY BreakerAssumption DEF TypeInv, Judging, Procs
<1> SUFFICES ASSUME op'[q] # op[q]
             PROVE  \/ SuccessRead(q) /\ op'[q].pc = "countSuccess"
                    \/ CountSuccess(q)
                    \/ Judge(q) /\ op'[q].pc = "close"
  BY <1>0 DEF Judging
<1>2. ASSUME NEW p \in Procs, p # q
      PROVE  ~ \E t : op' = [op EXCEPT ![p] = t]
  BY <1>0, <1>2
<1>3. ASSUME NEW pc, Goto(q, pc)
      PROVE  op'[q].pc = pc
  BY <1>0, <1>3 DEF Goto
<1>4. ASSUME NEW p \in Callers, Report(p) \/ CallerSteps(p)
      PROVE  \/ SuccessRead(q) \/ CountSuccess(q)
             \/ Judge(q) /\ op'[q].pc = "close"
  <2>1. p = q
    BY <1>2, <1>4 DEF Report, SuccessRead, FailureRead, RequestRead, CallerSteps, ResetFailures,
       CountSuccess, Judge, Close, RequestWindow, RequestCount, Goto, Procs
  <2>2. CASE Judge(q)
    BY <1>0, <1>3, <2>2 DEF Judge
  <2>3. CASE FailureRead(q, "idle")
    BY <1>0, <1>3, <2>3 DEF FailureRead
  <2>4. CASE RequestRead(q) \/ ResetFailures(q) \/ Close(q) \/ RequestWindow(q) \/ RequestCount(q)
    BY <1>0, <1>3, <2>4 DEF RequestRead, ResetFailures, Close, RequestWindow, RequestCount
  <2>5. QED
    BY <1>4, <2>1, <2>2, <2>3, <2>4 DEF Report, CallerSteps
<1>5. ~ \E w \in Workers : WorkerSteps(w)
  BY <1>0, <1>2 DEF WorkerSteps, Tick, Probe, CheckRead, CountCheck, ClearChecks, CheckFailed,
     FailureRead, Probation, Goto, Procs
<1>6. ASSUME NEW p \in Procs, FailureSteps(p) \/ CutShort(p)
      PROVE  FALSE
  <2>1. p = q
    <3>1. CASE ReadWindow(p)
      BY <1>2, <3>1 DEF ReadWindow
    <3>2. CASE ~ReadWindow(p)
      BY <1>2, <1>6, <3>2 DEF FailureSteps, CountProbeFailure, CountFailure, OpenWindow,
         CountSample, CountError, Trip, CutShort, Goto
    <3>3. QED
      BY <3>1, <3>2
  <2>2. CASE ReadWindow(q)
    <3>1. op[q] \in RunOps
      BY <1>0, <2>2, Held DEF ReadWindow, At, RunPcs
    <3>2. QED
      BY <1>0, <2>2, <3>1 DEF ReadWindow, RunOps
  <2>3. CASE OpenWindow(q) \/ CountError(q)
    BY <1>0, <1>3, <2>3 DEF OpenWindow, CountError
  <2>4. CASE CountFailure(q) \/ CountSample(q)
    BY <1>0, <2>4 DEF CountFailure, CountSample
  <2>5. CASE CountProbeFailure(q) \/ Trip(q) \/ CutShort(q)
    BY <1>0, <1>3, <2>5 DEF CountProbeFailure, Trip, CutShort
  <2>6. QED
    BY <1>6, <2>1, <2>2, <2>3, <2>4, <2>5 DEF FailureSteps
<1>7. ~(\E s \in {"OPEN", "CLOSED"} : ForceState(s)) /\ ~WindowElapses /\ ~UNCHANGED vars
  BY DEF ForceState, WindowElapses, vars
<1>8. CASE SuccessRead(q)
  <2>1. op'[q].pc \in {"resetFailures", "countSuccess"}
    BY <1>3, <1>8 DEF SuccessRead
  <2>2. QED
    BY <1>0, <1>8, <2>1
<1>9. QED
  BY <1>4, <1>5, <1>6, <1>7, <1>8 DEF Next

LEMMA MoreIsEnough ==
  \A s, t, n \in Nat : t >= s /\ 100 * s > 95 * n => 100 * t > 95 * n
OBVIOUS

LEMMA TotalIsEnough ==
  \A s, h, f, n \in Nat :
    s <= h /\ s + f >= n /\ 100 * s > 95 * (s + f) => 100 * h > 95 * n
OBVIOUS

LEMMA VerdictStep ==
  ASSUME TypeInv, VerdictInv, [Next]_vars
  PROVE  VerdictInv'
<1>0. /\ {hoSuccess, hoFailure} \subseteq Nat /\ RecoveryCount \in Nat
      /\ op \in [Procs -> Ops]
  BY BreakerAssumption DEF TypeInv, TypeOK
<1> SUFFICES ASSUME NEW q \in Judging', q \notin overtaken'
             PROVE  Counted(q)'
  BY DEF VerdictInv
<1>1. q \in Callers /\ q \in Procs
  BY DEF Judging, Procs
<1>2. Calm /\ q \notin overtaken
  BY CalmSteps DEF Calm
<1>3. hoSuccess' >= hoSuccess /\ hoSuccess' \in Nat /\ hoSuccess \in Nat
  BY <1>0, <1>2 DEF Calm
<1>4. Enough => Enough'
  BY <1>0, <1>3, MoreIsEnough DEF Enough
<1>5. CASE op'[q] = op[q] /\ q \in Judging
  <2>1. Counted(q)
    BY <1>2, <1>5 DEF VerdictInv
  <2>2. At(q, "judge") => op[q].success \in Nat
    BY <1>0, <1>1, Held DEF At, JudgeOps
  <2>3. QED
    BY <1>0, <1>2, <1>3, <1>4, <1>5, <2>1, <2>2 DEF Counted, Calm, At
<1>6. CASE SuccessRead(q) /\ op'[q].pc = "countSuccess"
  <2>1. state = "HALF_OPEN"
    BY <1>0, <1>1, <1>6 DEF SuccessRead, Goto
  <2>2. QED
    BY <1>2, <1>6, <2>1 DEF Counted, Calm, At
<1>7. CASE CountSuccess(q)
  <2>1. At(q, "countSuccess") /\ op'[q] = [pc |-> "judge", success |-> hoSuccess + 1]
        /\ hoSuccess' = hoSuccess + 1
    BY <1>0, <1>1, <1>7 DEF CountSuccess
  <2>2. state = "HALF_OPEN"
    BY <1>1, <1>2, <2>1 DEF VerdictInv, Judging, At, Counted
  <2>3. QED
    BY <1>0, <1>2, <2>1, <2>2 DEF Counted, Calm, At
<1>8. CASE Judge(q) /\ op'[q].pc = "close"
  <2>1. op[q] \in JudgeOps /\ At(q, "judge")
    BY <1>0, <1>1, <1>8, Held DEF Judge, At
  <2>2. op[q].success <= hoSuccess /\ state = "HALF_OPEN" /\ op[q].success \in Nat
    BY <1>1, <1>2, <2>1 DEF VerdictInv, Judging, At, Counted, JudgeOps
  <2>3. /\ op[q].success + hoFailure >= RecoveryCount
        /\ 100 * op[q].success > 95 * (op[q].success + hoFailure)
    BY <1>0, <1>1, <1>8, <2>2 DEF Judge, Goto
  <2>4. Enough
    BY <1>0, <2>2, <2>3, TotalIsEnough DEF Enough
  <2>5. QED
    BY <1>2, <1>4, <1>8, <2>2, <2>4 DEF Counted, Calm, At
<1>9. QED
  BY <1>1, <1>5, <1>6, <1>7, <1>8, JudgeMoves

(* However many processes report, probe and force the breaker, and at      *)
(* whatever step errors cut them short: a caller that closes it, and that  *)
(* nobody has overtaken since it read the state, closes a probation, on    *)
(* over 95 percent of RecoveryCount successes (lines 68-77).               *)
THEOREM ClosingIsAlwaysEarned == Spec => ClosingIsEarned
<1>1. Init => VerdictInv
  BY DEF Init, VerdictInv, Judging, Idle, Procs
<1>2. TypeInv /\ VerdictInv /\ [Next]_vars => VerdictInv'
  BY VerdictStep
<1> DEFINE Earned ==
      \A p \in Callers :
        p \notin overtaken /\ Close(p)
        => state = "HALF_OPEN" /\ 100 * hoSuccess > 95 * RecoveryCount
<1>3. VerdictInv => Earned
  BY DEF VerdictInv, Close, At, Judging, Counted, Enough
<1>4. QED
  BY <1>1, <1>2, <1>3, TypeInvCorrect, PTL DEF Spec, ClosingIsEarned

=============================================================================
