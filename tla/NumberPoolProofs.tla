-------------------------- MODULE NumberPoolProofs --------------------------
(***************************************************************************)
(* Proofs about NumberPool, for any numbers, sessions, callers, reapers.   *)
(***************************************************************************)
EXTENDS NumberPool, TLAPS

(* The pool's variables keep their types under every step.                 *)
LEMMA PoolTypeStep ==
  ASSUME PoolTypeOK, [PoolNext]_poolVars
  PROVE  PoolTypeOK'
<1> USE DEF PoolTypeOK, Phases, Statuses, WriteBacks, ReapJobs
<1>1. ASSUME NEW s \in Sessions, NEW P \in SUBSET Parties, NEW n \in Numbers,
             Allocate(s, P, n)
      PROVE  PoolTypeOK'
  BY <1>1 DEF Allocate, AllocateAvailable, TakeOut, AllocateShared, Claim
<1>2. ASSUME NEW c \in Callers, NEW s \in Sessions, NEW n \in Numbers,
             NEW rest \in BOOLEAN, Release(c, s, n, rest)
      PROVE  PoolTypeOK'
  BY <1>2 DEF Release, LeavesLast, ReleaseLast, ReleasedStatus
<1>3. ASSUME NEW s \in Sessions, NEW n \in Numbers, Unclaim(s, n)
      PROVE  PoolTypeOK'
  BY <1>3 DEF Unclaim
<1>4. ASSUME NEW c \in Callers, WriteBack(c) \/ WriteBackLost(c)
      PROVE  PoolTypeOK'
  BY <1>4 DEF WriteBack, WriteBackLost, redisPool
<1>5. ASSUME NEW n \in Numbers, CooldownElapses(n)
      PROVE  PoolTypeOK'
  BY <1>5 DEF CooldownElapses
<1>6. ASSUME NEW r \in Reapers, ReapStep(r)
      PROVE  PoolTypeOK'
  <2>1. CASE ReapScan(r)
    BY <2>1 DEF ReapScan, Expired, redisPool
  <2>2. ASSUME NEW n \in Numbers, ReapLift(r, n)
        PROVE  PoolTypeOK'
    <3>1. reap[r] \in ReapJobs
      OBVIOUS
    <3>2. [reap[r] EXCEPT !.todo = @ \ {n}, !.lifted = {n}] \in ReapJobs
      BY <3>1
    <3>3. reap' \in [Reapers -> ReapJobs]
      BY <2>2, <3>2 DEF ReapLift
    <3>4. QED
      BY <2>2, <3>3 DEF ReapLift
  <2>3. ASSUME NEW n \in Numbers, ReapReturn(r, n)
        PROVE  PoolTypeOK'
    BY <2>3 DEF ReapReturn
  <2>4. CASE ReapWriteBack(r) \/ ReapWriteBackLost(r)
    BY <2>4 DEF ReapWriteBack, ReapWriteBackLost, ReapDone, NoJob, redisPool
  <2>5. QED
    BY <1>6, <2>1, <2>2, <2>3, <2>4 DEF ReapStep
<1>7. ASSUME NEW s \in Sessions, NEW P \in SUBSET Parties, HashChanges(s, P)
      PROVE  PoolTypeOK'
  BY <1>7 DEF HashChanges, redisPool
<1>8. CASE UNCHANGED poolVars
  BY <1>8 DEF poolVars, redisPool
<1> HIDE DEF PoolTypeOK, Phases, Statuses, WriteBacks, ReapJobs
<1>9. QED
  BY <1>1, <1>2, <1>3, <1>4, <1>5, <1>6, <1>7, <1>8 DEF PoolNext

(* The pool's variables always have their types.                           *)
THEOREM PoolTypeCorrect == PoolSpec => []PoolTypeOK
<1>1. PoolInit => PoolTypeOK
  BY DEF PoolInit, PoolTypeOK, Phases, Statuses, WriteBacks, ReapJobs, NoJob
<1>2. PoolTypeOK /\ [PoolNext]_poolVars => PoolTypeOK'
  BY PoolTypeStep
<1>3. QED
  BY <1>1, <1>2, PTL DEF PoolSpec

-----------------------------------------------------------------------------
(* A reap holds at most one number between its ZREM and its SADD, one it   *)
(* scanned; so a new scan never starts over a number still in its hands.   *)
JobsOrderly ==
  \A r \in Reapers :
    /\ reap[r].todo \subseteq reap[r].batch
    /\ reap[r].lifted \subseteq reap[r].batch
    /\ \A m, n \in reap[r].lifted : m = n

LEMMA LiftedDef ==
  \A n : n \in Lifted <=> \E r \in Reapers : n \in reap[r].lifted
BY DEF Lifted

LEMMA LiftedDefNext ==
  \A n : n \in Lifted' <=> \E r \in Reapers : n \in reap'[r].lifted
BY DEF Lifted

LEMMA JobsOrderlyStep ==
  ASSUME PoolTypeOK, JobsOrderly, [PoolNext]_poolVars
  PROVE  JobsOrderly'
<1>1. CASE UNCHANGED reap
  BY <1>1 DEF JobsOrderly
<1>2. ASSUME NEW r \in Reapers, ReapStep(r)
      PROVE  JobsOrderly'
  <2>1. reap \in [Reapers -> ReapJobs]
    BY DEF PoolTypeOK
  <2>2. CASE ReapScan(r)
    BY <2>1, <2>2 DEF ReapScan, JobsOrderly
  <2>3. ASSUME NEW n \in Numbers, ReapLift(r, n)
        PROVE  JobsOrderly'
    BY <2>1, <2>3 DEF ReapLift, JobsOrderly, ReapJobs
  <2>4. ASSUME NEW n \in Numbers, ReapReturn(r, n)
        PROVE  JobsOrderly'
    BY <2>1, <2>4 DEF ReapReturn, JobsOrderly, ReapJobs
  <2>5. CASE ReapWriteBack(r) \/ ReapWriteBackLost(r)
    BY <2>1, <2>5 DEF ReapWriteBack, ReapWriteBackLost, ReapDone, NoJob, JobsOrderly
  <2>6. QED
    BY <1>2, <2>2, <2>3, <2>4, <2>5 DEF ReapStep
<1>3. UNCHANGED reap \/ \E r \in Reapers : ReapStep(r)
  BY DEF PoolNext, poolVars, Allocate, Release, Unclaim, WriteBack,
         WriteBackLost, CooldownElapses, HashChanges
<1>4. QED
  BY <1>1, <1>2, <1>3

-----------------------------------------------------------------------------
(* PoolSafe is inductive once a reap's bookkeeping is known to be orderly. *)
LEMMA PoolSafeStep ==
  ASSUME PoolTypeOK, JobsOrderly, PoolSafe, [PoolNext]_poolVars
  PROVE  PoolSafe'
<1>1. ASSUME NEW s \in Sessions, NEW P \in SUBSET Parties, NEW n \in Numbers,
             Allocate(s, P, n)
      PROVE  PoolSafe'
  <2>1. HeldIsInUse'
    BY <1>1 DEF Allocate, AllocateAvailable, TakeOut, AllocateShared, Claim, PoolSafe,
                HeldIsInUse, Held, PoolTypeOK
  <2>2. NoNumberLost'
    BY <1>1 DEF Allocate, AllocateAvailable, TakeOut, AllocateShared, PoolSafe,
                NoNumberLost, Resting, Lifted
  <2>3. QED
    BY <2>1, <2>2 DEF PoolSafe
<1>2. ASSUME NEW c \in Callers, NEW s \in Sessions, NEW n \in Numbers,
             NEW rest \in BOOLEAN, Release(c, s, n, rest)
      PROVE  PoolSafe'
  <2>1. HeldIsInUse'
    BY <1>2 DEF Release, LeavesLast, ReleaseLast, PoolSafe, HeldIsInUse, Held, PoolTypeOK
  <2>2. NoNumberLost'
    BY <1>2 DEF Release, LeavesLast, ReleaseLast, PoolSafe, NoNumberLost, Resting, Lifted,
                PoolTypeOK
  <2>3. QED
    BY <2>1, <2>2 DEF PoolSafe
<1>3. ASSUME NEW s \in Sessions, NEW n \in Numbers, Unclaim(s, n)
      PROVE  PoolSafe'
  <2>1. HeldIsInUse'
    BY <1>3 DEF Unclaim, PoolSafe, HeldIsInUse, Held, PoolTypeOK
  <2>2. NoNumberLost'
    BY <1>3 DEF Unclaim, PoolSafe, NoNumberLost, Resting, Lifted
  <2>3. QED
    BY <2>1, <2>2 DEF PoolSafe
<1>4. ASSUME NEW n \in Numbers, CooldownElapses(n)
      PROVE  PoolSafe'
  BY <1>4 DEF CooldownElapses, PoolSafe, HeldIsInUse, Held, NoNumberLost,
              Resting, Lifted, PoolTypeOK
<1>5. ASSUME NEW r \in Reapers, ReapStep(r)
      PROVE  PoolSafe'
  <2>1. HeldIsInUse'
    BY <1>5 DEF ReapStep, ReapScan, ReapLift, ReapReturn, ReapWriteBack,
                ReapWriteBackLost, ReapDone, redisPool, PoolSafe, HeldIsInUse, Held
  <2>2. reap \in [Reapers -> ReapJobs]
    BY DEF PoolTypeOK
  <2>3. CASE ReapScan(r)
    <3>1. reap[r].lifted = {}
      BY <2>3 DEF ReapScan, JobsOrderly
    <3>2. Lifted' = Lifted
      BY <2>2, <2>3, <3>1, LiftedDef, LiftedDefNext DEF ReapScan
    <3>3. QED
      BY <2>1, <2>3, <3>2 DEF ReapScan, redisPool, PoolSafe, NoNumberLost, Resting
  <2>4. ASSUME NEW n \in Numbers, ReapLift(r, n)
        PROVE  PoolSafe'
    <3>1. Lifted' = Lifted \cup {n}
      BY <2>2, <2>4, LiftedDef, LiftedDefNext DEF ReapLift, ReapJobs
    <3>2. QED
      BY <2>1, <2>4, <3>1 DEF ReapLift, PoolSafe, NoNumberLost, Resting, PoolTypeOK
  <2>5. ASSUME NEW n \in Numbers, ReapReturn(r, n)
        PROVE  PoolSafe'
    <3>1. reap[r].lifted = {n}
      BY <2>5 DEF ReapReturn, JobsOrderly
    <3>2. Lifted \subseteq Lifted' \cup {n}
      BY <2>2, <2>5, <3>1, LiftedDef, LiftedDefNext DEF ReapReturn, ReapJobs
    <3>3. QED
      BY <2>1, <2>5, <3>2 DEF ReapReturn, PoolSafe, NoNumberLost, Resting
  <2>6. CASE ReapWriteBack(r) \/ ReapWriteBackLost(r)
    <3>1. \A q \in Reapers : reap'[q].lifted = reap[q].lifted
      BY <2>2, <2>6 DEF ReapWriteBack, ReapWriteBackLost, ReapDone, NoJob
    <3>2. Lifted' = Lifted
      BY <3>1, LiftedDef, LiftedDefNext
    <3>3. QED
      BY <2>1, <2>6, <3>2 DEF ReapWriteBack, ReapWriteBackLost, ReapDone,
                              redisPool, PoolSafe, NoNumberLost, Resting
  <2>7. QED
    BY <1>5, <2>3, <2>4, <2>5, <2>6 DEF ReapStep
<1>6. CASE UNCHANGED <<redisPool, reap>>
  BY <1>6 DEF redisPool, PoolSafe, HeldIsInUse, Held, NoNumberLost, Resting, Lifted
<1>7. ASSUME NEW c \in Callers, WriteBack(c) \/ WriteBackLost(c)
      PROVE  PoolSafe'
  BY <1>6, <1>7 DEF WriteBack, WriteBackLost
<1>8. ASSUME NEW s \in Sessions, NEW P \in SUBSET Parties, HashChanges(s, P)
      PROVE  PoolSafe'
  BY <1>6, <1>8 DEF HashChanges
<1>9. CASE UNCHANGED poolVars
  BY <1>6, <1>9 DEF poolVars
<1>10. QED
  BY <1>1, <1>2, <1>3, <1>4, <1>5, <1>7, <1>8, <1>9 DEF PoolNext

(* Whatever reapers and repeated releases do, a number a session claims is *)
(* in use, and no number drops out of the pool.                            *)
THEOREM PoolIsSafe == PoolSpec => []PoolSafe
<1>1. PoolInit => PoolTypeOK /\ JobsOrderly /\ PoolSafe
  BY DEF PoolInit, PoolTypeOK, Phases, Statuses, WriteBacks, ReapJobs, NoJob,
         JobsOrderly, PoolSafe, HeldIsInUse, Held, NoNumberLost
<1>2. PoolTypeOK /\ JobsOrderly /\ PoolSafe /\ [PoolNext]_poolVars
        => (PoolTypeOK /\ JobsOrderly /\ PoolSafe)'
  BY PoolTypeStep, JobsOrderlyStep, PoolSafeStep
<1>3. QED
  BY <1>1, <1>2, PTL DEF PoolSpec

-----------------------------------------------------------------------------
(* RestIsServed, of one step: a reaper moves only numbers of the list it   *)
(* read, and a list is read only from scores in the past.                  *)
RestKept ==
  \A n \in Numbers : cooldown[n] = "waiting" /\ ~Listed(n) =>
    /\ cooldown'[n] # "none"
    /\ cooldown'[n] = "waiting" => ~Listed(n)'
    /\ n \in available' \ available => Freed(n)

LEMMA ServedStep ==
  ASSUME PoolTypeOK, JobsOrderly, [PoolNext]_poolVars
  PROVE  RestKept
<1> SUFFICES ASSUME NEW n \in Numbers, cooldown[n] = "waiting", ~Listed(n)
             PROVE  /\ cooldown'[n] # "none"
                    /\ cooldown'[n] = "waiting" => ~Listed(n)'
                    /\ n \in available' \ available => Freed(n)
  BY DEF RestKept
<1>t. /\ reap \in [Reapers -> ReapJobs]
      /\ cooldown \in [Numbers -> Phases]
      /\ pending \in [Callers -> SUBSET WriteBacks]
  BY DEF PoolTypeOK
<1>l. \A r \in Reapers : n \notin reap[r].batch
  BY DEF Listed
<1>u. \A r \in Reapers : n \notin reap[r].todo /\ n \notin reap[r].lifted
  BY <1>l DEF JobsOrderly
<1>q. (\A r \in Reapers : n \notin reap'[r].batch) => ~Listed(n)'
  BY DEF Listed
<1>1. ASSUME NEW s \in Sessions, NEW P \in SUBSET Parties, NEW m \in Numbers,
             Allocate(s, P, m)
      PROVE  cooldown' = cooldown /\ reap' = reap /\ available' \subseteq available
  BY <1>1 DEF Allocate, AllocateAvailable, TakeOut, AllocateShared
<1>2. ASSUME NEW c \in Callers, NEW s \in Sessions, NEW m \in Numbers,
             NEW rest \in BOOLEAN, Release(c, s, m, rest)
      PROVE  /\ cooldown'[n] # "none"
             /\ cooldown'[n] = "waiting" => ~Listed(n)'
             /\ n \in available' \ available => Freed(n)
  <2>1. reap' = reap
    BY <1>2 DEF Release
  <2>2. cooldown'[n] = "waiting"
    BY <1>2, <1>t DEF Release, ReleaseLast
  <2>3. ASSUME n \in available' \ available
        PROVE  Freed(n)
    <3>1. ~rest /\ m = n /\ ReleaseLast(c, m, rest)
      BY <1>2, <2>3 DEF Release, ReleaseLast
    <3>2. pending[c] = {} /\ pending'[c] = {[number |-> n, status |-> "AVAILABLE"]}
      BY <1>2, <1>t, <3>1 DEF Release, ReleaseLast, ReleasedStatus
    <3>3. QED
      BY <3>2 DEF Freed
  <2>4. QED
    BY <1>l, <1>q, <2>1, <2>2, <2>3
<1>3. ASSUME NEW m \in Numbers, CooldownElapses(m)
      PROVE  cooldown'[n] # "none" /\ reap' = reap /\ available' = available
  BY <1>3, <1>t DEF CooldownElapses
<1>4. ASSUME NEW r \in Reapers, ReapStep(r)
      PROVE  /\ cooldown'[n] = "waiting"
             /\ \A q \in Reapers : n \notin reap'[q].batch
             /\ n \notin available' \ available
  <2>1. CASE ReapScan(r)
    BY <1>l, <1>t, <2>1 DEF ReapScan, Expired, redisPool
  <2>2. ASSUME NEW m \in Numbers, ReapLift(r, m)
        PROVE  /\ cooldown'[n] = "waiting"
               /\ \A q \in Reapers : n \notin reap'[q].batch
               /\ n \notin available' \ available
    BY <1>l, <1>t, <1>u, <2>2 DEF ReapLift, ReapJobs
  <2>3. ASSUME NEW m \in Numbers, ReapReturn(r, m)
        PROVE  /\ cooldown'[n] = "waiting"
               /\ \A q \in Reapers : n \notin reap'[q].batch
               /\ n \notin available' \ available
    BY <1>l, <1>t, <1>u, <2>3 DEF ReapReturn, ReapJobs
  <2>4. CASE ReapWriteBack(r) \/ ReapWriteBackLost(r)
    BY <1>l, <1>t, <2>4 DEF ReapWriteBack, ReapWriteBackLost, ReapDone, NoJob, redisPool
  <2>5. QED
    BY <1>4, <2>1, <2>2, <2>3, <2>4 DEF ReapStep
<1>5. CASE UNCHANGED <<available, cooldown, reap>>
  BY <1>5, <1>l, <1>q
<1>6. UNCHANGED <<available, cooldown, reap>>
        \/ (\E s \in Sessions, P \in SUBSET Parties, m \in Numbers : Allocate(s, P, m))
        \/ (\E c \in Callers, s \in Sessions, m \in Numbers, rest \in BOOLEAN :
              Release(c, s, m, rest))
        \/ (\E m \in Numbers : CooldownElapses(m))
        \/ (\E r \in Reapers : ReapStep(r))
  BY DEF PoolNext, poolVars, redisPool, Unclaim, WriteBack, WriteBackLost, HashChanges
<1>7. QED
  BY <1>1, <1>2, <1>3, <1>4, <1>5, <1>6, <1>l, <1>q

(* However many reapers run and whatever callers release, a rest that no   *)
(* reaper's list foresaw is served in full.                                *)
THEOREM RestIsAlwaysServed == PoolSpec => RestIsServed
<1>1. PoolInit => PoolTypeOK /\ JobsOrderly
  BY DEF PoolInit, PoolTypeOK, Phases, Statuses, WriteBacks, ReapJobs, NoJob, JobsOrderly
<1>2. PoolTypeOK /\ JobsOrderly /\ [PoolNext]_poolVars => (PoolTypeOK /\ JobsOrderly)'
  BY PoolTypeStep, JobsOrderlyStep
<1>3. PoolTypeOK /\ JobsOrderly /\ [PoolNext]_poolVars => [RestKept]_poolVars
  BY ServedStep
<1>4. RestIsServed <=> [][RestKept]_poolVars
  BY DEF RestIsServed, RestKept
<1>5. QED
  BY <1>1, <1>2, <1>3, <1>4, PTL DEF PoolSpec

=============================================================================
