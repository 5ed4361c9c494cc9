---------------------------- MODULE PoolOpsProofs ----------------------------
(***************************************************************************)
(* Proofs about PoolOps: the pool across crashes, boots on their own and   *)
(* beside processes that serve, commands that fail, a Redis that was       *)
(* emptied and the requests of any number of operators.                    *)
(***************************************************************************)
EXTENDS PoolOps, NumberPoolProofs, FiniteSetTheorems

(* A session that has something to do with the pool has a line, and only   *)
(* that number's set names it.                                             *)
LineInv ==
  \A s \in Sessions :
    /\ life[s] # "none" => line[s] \in Numbers
    /\ \A n \in Numbers : s \in proxySessions[n] => life[s] # "none" /\ line[s] = n

(* Nothing is under way in a process that is not up.                       *)
DownInv ==
  process # "up" =>
    /\ pending = [c \in Callers |-> {}]
    /\ reap = [r \in Reapers |-> NoJob]
    /\ op = [o \in Operators |-> NoOp]

BaseInv == OpsTypeOK /\ LineInv /\ DownInv /\ JobsOrderly

(* What the sessions, the reaper and the clock do to the pool.             *)
ServeMoves ==
  \/ \E s \in Sessions, P \in SUBSET Parties, n \in Numbers :
       Unclaimed(s) /\ Allocate(s, P, n)
  \/ \E c \in Callers, s \in Sessions, n \in Numbers, rest \in BOOLEAN :
       Release(c, s, n, rest)
  \/ \E c \in Callers : WriteBack(c)
  \/ \E n \in Numbers : CooldownElapses(n)
  \/ \E r \in Reapers : ReapWritten(r)

LEMMA ServeMovesMove == ServeMoves => PoolNext
BY DEF ServeMoves, PoolNext, ReapWritten, ReapStep

(* A step is one of these moves, a write that is lost, an operator's step, *)
(* or what a crash, an emptied Redis or a boot do.                         *)
Writes == ServeMoves /\ UNCHANGED <<process, op, barred, lapsed>>

Loses ==
  /\ \/ \E c \in Callers : LetGoUnwritten(c)
     \/ \E r \in Reapers : ReapUnwritten(r)
  /\ UNCHANGED <<process, life, line, op, barred>>

Operates(o) == \E n \in Numbers : Operate(o, n)

Boots == BootRead \/ BootDone \/ BootFails
           \/ \E n \in Numbers, done \in SUBSET Sets : BootPlace(n, done)

Stays == UNCHANGED <<poolVars, process, op, barred, lapsed>>

LEMMA OpsMoves ==
  ASSUME BaseInv, [OpsNext]_opsVars
  PROVE  \/ /\ process = "up" /\ Crosses
            /\ Writes \/ Loses \/ Stays \/ \E o \in Operators : Operates(o)
         \/ \E n \in Numbers : CooldownElapses(n) /\ UNCHANGED ownVars
         \/ Crash \/ RedisEmptied \/ Boots
         \/ UNCHANGED opsVars
<1>1. ASSUME NEW s \in Sessions, NEW n \in Numbers, ClaimNumber(s, n)
      PROVE  Writes
  <2>1. Unclaimed(s) /\ Allocate(s, {}, n)
    BY <1>1 DEF ClaimNumber, Becomes, BaseInv, LineInv, Unclaimed
  <2>2. {} \in SUBSET Parties
    OBVIOUS
  <2>3. ServeMoves
    BY <2>1, <2>2 DEF ServeMoves
  <2>4. QED
    BY <1>1, <2>3 DEF Writes, ClaimNumber, Becomes
<1>2. ASSUME NEW c \in Callers, NEW s \in Sessions, NEW rest \in BOOLEAN, LetGo(c, s, rest)
      PROVE  Writes
  <2>1. line[s] \in Numbers /\ Release(c, s, line[s], rest)
    BY <1>2 DEF LetGo, Becomes, BaseInv, LineInv
  <2>2. ServeMoves
    BY <2>1 DEF ServeMoves
  <2>3. QED
    BY <1>2, <2>2 DEF Writes, LetGo, Becomes
<1>3. ASSUME (\E c \in Callers : WriteBack(c)) \/ (\E r \in Reapers : ReapWritten(r)),
             UNCHANGED <<process, op, barred, lapsed>>
      PROVE  Writes
  BY <1>3 DEF Writes, ServeMoves
<1>4. ASSUME NEW s \in Sessions, Activate(s) \/ MarkExpired(s)
      PROVE  Stays
  BY <1>4 DEF Activate, MarkExpired, Becomes, Stays
<1>5. ASSUME Serve
      PROVE  Writes \/ Loses \/ Stays \/ \E o \in Operators : Operates(o)
  BY <1>1, <1>2, <1>3, <1>4, <1>5 DEF Serve, Operates, Loses
<1>6. QED
  BY <1>5 DEF OpsNext, Boots

(* The same, one kind at a time.                                           *)
LEMMA OpsCases ==
  ASSUME BaseInv, [OpsNext]_opsVars, NEW Goal,
         process = "up" /\ Crosses /\ Writes => Goal,
         process = "up" /\ Crosses /\ Loses => Goal,
         \A o \in Operators, n \in Numbers :
           process = "up" /\ Crosses /\ Operate(o, n) => Goal,
         process = "up" /\ Crosses /\ Stays => Goal,
         \A n \in Numbers : CooldownElapses(n) /\ UNCHANGED ownVars => Goal,
         Crash => Goal, RedisEmptied => Goal, BootRead => Goal,
         BootDone => Goal, BootFails => Goal,
         \A n \in Numbers, done \in SUBSET Sets : BootPlace(n, done) => Goal,
         UNCHANGED opsVars => Goal
  PROVE  Goal
BY OpsMoves DEF Operates, Boots

-----------------------------------------------------------------------------
(* An operator's step moves one number and his own request, no more.       *)
LEMMA OperateElsewhere ==
  ASSUME BaseInv, NEW o \in Operators, NEW m \in Numbers, Operate(o, m)
  PROVE  /\ UNCHANGED <<cooldown, proxySessions, hashParties, pending, reap,
                        process, life, line>>
         /\ \A n \in Numbers \ {m} :
              /\ n \in available' <=> n \in available
              /\ n \in inUse' <=> n \in inUse
              /\ n \in barred' <=> n \in barred
              /\ n \in lapsed' <=> n \in lapsed
              /\ numStatus'[n] = numStatus[n]
         /\ \A p \in Operators \ {o} : op'[p] = op[p]
         /\ \A n \in Numbers \ {m}, pc \in {"yank", "offer"} :
              ~Holds(o, pc, n) /\ ~Holds(o, pc, n)'
<1>1. OpsTypeOK /\ PoolTypeOK
  BY DEF BaseInv, OpsTypeOK
<1>2. CASE \/ QuarantineRead(o, m) \/ QuarantineRow(o, m) \/ QuarantineThrows(o, m)
           \/ QuarantineYank(o, m) \/ QuarantineYankFails(o, m)
  BY <1>1, <1>2 DEF QuarantineRead, QuarantineRow, QuarantineThrows, QuarantineYank,
     QuarantineYankFails, Yanked, Says, Asks, Holds, Answers, NoOp, OpsTypeOK,
     PoolTypeOK, poolVars, redisPool
<1>3. CASE \/ ReleaseRead(o, m) \/ ReleaseRow(o, m) \/ ReleaseThrows(o, m)
           \/ ReleaseOffer(o, m) \/ ReleaseOfferFails(o, m)
  BY <1>1, <1>3 DEF ReleaseRead, ReleaseRow, ReleaseThrows, ReleaseOffer,
     ReleaseOfferFails, Offered, Says, Asks, Holds, Answers, NoOp, OpsTypeOK,
     PoolTypeOK, poolVars, redisPool
<1>4. QED
  BY <1>2, <1>3 DEF Operate

(* A boot places one number, in one place.                                 *)
LEMMA PipelinedElsewhere ==
  ASSUME PoolTypeOK, NEW m \in Numbers, NEW done \in SUBSET Sets, Pipelined(m, done)
  PROVE  /\ available' \subseteq Numbers /\ inUse' \subseteq Numbers
         /\ cooldown' \in [Numbers -> Phases]
         /\ \A n \in Numbers \ {m} :
              /\ n \in available' <=> n \in available
              /\ n \in inUse' <=> n \in inUse
              /\ cooldown'[n] = cooldown[n]
BY DEF Pipelined, PoolTypeOK, Phases

LEMMA PipelinedAll ==
  ASSUME PoolTypeOK, NEW m \in Numbers, Pipelined(m, Sets)
  PROVE  /\ m \in available' <=> load.goal[m] = "available"
         /\ m \in inUse' <=> load.goal[m] = "inUse"
         /\ m \in Resting' <=> load.goal[m] = "cooldown"
<1>1. cooldown'[m] # "none" <=> load.goal[m] = "cooldown"
  BY DEF Pipelined, PoolTypeOK, Sets
<1>2. QED
  BY <1>1 DEF Pipelined, PoolTypeOK, Sets, Resting

-----------------------------------------------------------------------------
(* The variables keep their types.                                         *)
LEMMA LosesMove == Loses => PoolNext
BY DEF Loses, LetGoUnwritten, ReapUnwritten, PoolNext, ReapStep

LEMMA PoolSideStep ==
  ASSUME BaseInv, [OpsNext]_opsVars
  PROVE  PoolTypeOK'
<1>1. OpsTypeOK /\ PoolTypeOK
  BY DEF BaseInv, OpsTypeOK
<1>2. CASE Writes \/ Loses
  BY <1>1, <1>2, PoolTypeStep, ServeMovesMove, LosesMove DEF Writes
<1>3. ASSUME NEW n \in Numbers, CooldownElapses(n)
      PROVE  PoolTypeOK'
  BY <1>1, <1>3, PoolTypeStep DEF PoolNext
<1>4. ASSUME NEW o \in Operators, NEW n \in Numbers, Operate(o, n)
      PROVE  PoolTypeOK'
  <2>1. CASE \/ QuarantineRead(o, n) \/ QuarantineRow(o, n) \/ QuarantineThrows(o, n)
             \/ QuarantineYank(o, n) \/ QuarantineYankFails(o, n)
    BY <1>1, <2>1 DEF QuarantineRead, QuarantineRow, QuarantineThrows, QuarantineYank,
       QuarantineYankFails, Yanked, Says, PoolTypeOK, Statuses, poolVars, redisPool
  <2>2. CASE \/ ReleaseRead(o, n) \/ ReleaseRow(o, n) \/ ReleaseThrows(o, n)
             \/ ReleaseOffer(o, n) \/ ReleaseOfferFails(o, n)
    BY <1>1, <2>2 DEF ReleaseRead, ReleaseRow, ReleaseThrows, ReleaseOffer,
       ReleaseOfferFails, Offered, Says, PoolTypeOK, Statuses, poolVars, redisPool
  <2>3. QED
    BY <1>4, <2>1, <2>2 DEF Operate
<1>5. CASE Crash
  BY <1>1, <1>5 DEF Crash, PoolTypeOK, redisPool, NoJob, ReapJobs
<1>6. CASE RedisEmptied
  BY <1>1, <1>6 DEF RedisEmptied, PoolTypeOK, Phases
<1>7. ASSUME NEW n \in Numbers, NEW done \in SUBSET Sets, BootPlace(n, done)
      PROVE  PoolTypeOK'
  <2>1. Pipelined(n, done)
    BY <1>7 DEF BootPlace
  <2>2. QED
    BY <1>1, <1>7, <2>1, PipelinedElsewhere DEF BootPlace, PoolTypeOK
<1>8. CASE UNCHANGED poolVars
  BY <1>1, <1>8 DEF poolVars, redisPool, PoolTypeOK
<1>9. QED
  BY <1>2, <1>3, <1>4, <1>5, <1>6, <1>7, <1>8, OpsCases
     DEF BootRead, BootDone, BootFails, BootEnds, Stays, opsVars

Ops   == [Operators -> {NoOp} \cup [pc : {"bar", "yank", "clear", "offer"}, n : Numbers]]
Loads == [pc : {"idle", "placing"}, goal : [Numbers -> Goals],
          spoilt : SUBSET Numbers]

LEMMA LoadSideStep ==
  ASSUME OpsTypeOK, [OpsNext]_opsVars
  PROVE  load' \in Loads
<1>1. load \in Loads /\ Changed \subseteq Numbers
  BY DEF OpsTypeOK, Loads, Changed
<1>2. NoLoad \in Loads
  BY DEF NoLoad, Loads, Goals
<1>3. CASE Crosses
  BY <1>1, <1>3 DEF Crosses, Loads
<1>4. CASE BootRead
  <2>1. \A n \in Numbers : Place(n) \in Goals
    BY DEF Place, Goals
  <2>2. QED
    BY <1>4, <2>1 DEF BootRead, Loads
<1>5. ASSUME NEW n \in Numbers, NEW done \in SUBSET Sets, BootPlace(n, done)
      PROVE  load' \in Loads
  BY <1>1, <1>5 DEF BootPlace, Loads, Goals
<1>6. CASE Crash \/ BootDone \/ BootFails
  BY <1>2, <1>6 DEF Crash, BootDone, BootFails, BootEnds
<1>7. CASE RedisEmptied \/ UNCHANGED ownVars
  BY <1>1, <1>7 DEF RedisEmptied, ownVars
<1>8. QED
  BY <1>3, <1>4, <1>5, <1>6, <1>7 DEF OpsNext, opsVars

LEMMA OwnSideStep ==
  ASSUME OpsTypeOK, [OpsNext]_opsVars
  PROVE  /\ process' \in {"up", "down"}
         /\ life' \in [Sessions -> Lives]
         /\ line' \in [Sessions -> Numbers \cup {NoLine}]
         /\ op' \in Ops
         /\ lapsed' \subseteq Numbers
<1> DEFINE Own ==
      /\ process' \in {"up", "down"}
      /\ life' \in [Sessions -> Lives]
      /\ line' \in [Sessions -> Numbers \cup {NoLine}]
      /\ op' \in Ops
      /\ lapsed' \subseteq Numbers
<1> USE DEF OpsTypeOK, Lives, Ops
<1>1. ASSUME process = "up", Serve
      PROVE  Own
  <2>1. ASSUME NEW s \in Sessions, NEW n \in Numbers, ClaimNumber(s, n)
        PROVE  Own
    BY <2>1 DEF ClaimNumber, Becomes
  <2>2. ASSUME NEW s \in Sessions, Activate(s) \/ MarkExpired(s)
        PROVE  Own
    BY <2>2 DEF Activate, MarkExpired, Becomes
  <2>3. ASSUME NEW c \in Callers, NEW s \in Sessions, NEW rest \in BOOLEAN,
               LetGo(c, s, rest)
        PROVE  Own
    BY <2>3 DEF LetGo, Becomes
  <2>4. ASSUME NEW o \in Operators, NEW n \in Numbers, Operate(o, n)
        PROVE  Own
    <3>1. CASE \/ QuarantineRead(o, n) \/ QuarantineRow(o, n) \/ QuarantineThrows(o, n)
               \/ QuarantineYank(o, n) \/ QuarantineYankFails(o, n)
      BY <3>1 DEF QuarantineRead, QuarantineRow, QuarantineThrows, QuarantineYank,
         QuarantineYankFails, Asks, Answers
    <3>2. CASE \/ ReleaseRead(o, n) \/ ReleaseRow(o, n) \/ ReleaseThrows(o, n)
               \/ ReleaseOffer(o, n) \/ ReleaseOfferFails(o, n)
      BY <3>2 DEF ReleaseRead, ReleaseRow, ReleaseThrows, ReleaseOffer,
         ReleaseOfferFails, Asks, Answers
    <3>3. QED
      BY <2>4, <3>1, <3>2 DEF Operate
  <2>5. CASE UNCHANGED <<process, life, line, op, lapsed>>
    BY <2>5
  <2>6. ASSUME NEW c \in Callers, LetGoUnwritten(c), UNCHANGED <<process, life, line, op>>
        PROVE  Own
    BY <2>6 DEF LetGoUnwritten, Unwritten, PoolTypeOK, WriteBacks
  <2>7. ASSUME NEW r \in Reapers, ReapUnwritten(r), UNCHANGED <<process, life, line, op>>
        PROVE  Own
    BY <2>7 DEF ReapUnwritten, Unwritten, PoolTypeOK, ReapJobs
  <2>8. QED
    BY <1>1, <2>1, <2>2, <2>3, <2>4, <2>5, <2>6, <2>7 DEF Serve
<1>2. CASE Crash
  BY <1>2 DEF Crash
<1>3. CASE RedisEmptied
  BY <1>3 DEF RedisEmptied
<1>4. CASE BootRead \/ BootDone
  BY <1>4 DEF BootRead, BootDone, BootEnds
<1>5. ASSUME NEW n \in Numbers, NEW done \in SUBSET Sets, BootPlace(n, done)
      PROVE  Own
  BY <1>5 DEF BootPlace
<1>6. CASE BootFails
  BY <1>6 DEF BootFails, BootEnds, Todo
<1>7. CASE UNCHANGED ownVars
  BY <1>7 DEF ownVars
<1>8. QED
  BY <1>1, <1>2, <1>3, <1>4, <1>5, <1>6, <1>7 DEF OpsNext, opsVars

LEMMA OpsTypeStep ==
  ASSUME BaseInv, [OpsNext]_opsVars
  PROVE  OpsTypeOK'
BY PoolSideStep, OwnSideStep, LoadSideStep DEF BaseInv, OpsTypeOK, Ops, Loads

LEMMA LineStep ==
  ASSUME BaseInv, [OpsNext]_opsVars
  PROVE  LineInv'
<1>1. LineInv /\ OpsTypeOK /\ PoolTypeOK
  BY DEF BaseInv, OpsTypeOK
<1>2. ASSUME NEW s \in Sessions, NEW n \in Numbers, ClaimNumber(s, n)
      PROVE  LineInv'
  <2>1. proxySessions' = [proxySessions EXCEPT ![n] = @ \cup {s}]
    BY <1>2 DEF ClaimNumber, Allocate, AllocateAvailable, AllocateShared, Claim
  <2>2. QED
    BY <1>1, <1>2, <2>1 DEF ClaimNumber, Becomes, LineInv, OpsTypeOK, PoolTypeOK, Lives
<1>3. ASSUME NEW s \in Sessions, Activate(s) \/ MarkExpired(s)
      PROVE  LineInv'
  BY <1>1, <1>3 DEF Activate, MarkExpired, Becomes, LineInv, OpsTypeOK, poolVars, redisPool
<1>4. ASSUME NEW c \in Callers, NEW s \in Sessions, NEW rest \in BOOLEAN,
             LetGo(c, s, rest)
      PROVE  LineInv'
  BY <1>1, <1>4 DEF LetGo, Becomes, Release, LineInv, OpsTypeOK, PoolTypeOK, Lives
<1>5. ASSUME UNCHANGED <<proxySessions, life, line>>
      PROVE  LineInv'
  BY <1>1, <1>5 DEF LineInv
<1>6. CASE process = "up" /\ Serve
  <2>1. ASSUME NEW o \in Operators, NEW n \in Numbers, Operate(o, n)
        PROVE  UNCHANGED <<proxySessions, life, line>>
    BY <2>1, OperateElsewhere
  <2>2. ASSUME NEW c \in Callers, WriteBack(c) \/ LetGoUnwritten(c)
        PROVE  UNCHANGED proxySessions
    BY <2>2 DEF WriteBack, LetGoUnwritten, WriteBackLost, redisPool
  <2>3. ASSUME NEW r \in Reapers, ReapWritten(r) \/ ReapUnwritten(r)
        PROVE  UNCHANGED proxySessions
    BY <2>3 DEF ReapWritten, ReapUnwritten, ReapScan, ReapLift, ReapReturn,
       ReapWriteBack, ReapWriteBackLost, ReapDone, redisPool
  <2>4. QED
    BY <1>2, <1>3, <1>4, <1>5, <1>6, <2>1, <2>2, <2>3 DEF Serve
<1>7. CASE Crash
  BY <1>1, <1>7 DEF Crash, LineInv, OpsTypeOK, redisPool
<1>8. CASE RedisEmptied
  BY <1>1, <1>8 DEF RedisEmptied, LineInv, OpsTypeOK, Lives
<1>9. CASE \/ \E n \in Numbers : CooldownElapses(n) /\ UNCHANGED ownVars
           \/ BootRead \/ BootDone \/ BootFails
           \/ \E n \in Numbers, done \in SUBSET Sets : BootPlace(n, done)
           \/ UNCHANGED opsVars
  BY <1>5, <1>9 DEF CooldownElapses, BootRead, BootDone, BootFails, BootEnds, BootPlace,
     opsVars, poolVars, redisPool, ownVars
<1>10. QED
  BY <1>6, <1>7, <1>8, <1>9 DEF OpsNext

LEMMA DownStep ==
  ASSUME BaseInv, [OpsNext]_opsVars
  PROVE  DownInv'
<1>1. CASE process = "up" /\ (Writes \/ Loses \/ Stays)
  BY <1>1 DEF Writes, Loses, Stays, DownInv
<1>2. ASSUME process = "up", NEW o \in Operators, NEW n \in Numbers, Operate(o, n)
      PROVE  DownInv'
  BY <1>2, OperateElsewhere DEF DownInv
<1>3. CASE Crash
  BY <1>3 DEF Crash, DownInv
<1>4. ASSUME UNCHANGED <<pending, reap, op, process>>
      PROVE  DownInv'
  BY <1>4 DEF BaseInv, DownInv
<1>5. CASE RedisEmptied \/ BootRead
  BY <1>4, <1>5 DEF RedisEmptied, BootRead, poolVars
<1>6. ASSUME NEW n \in Numbers, CooldownElapses(n), UNCHANGED ownVars
      PROVE  DownInv'
  BY <1>4, <1>6 DEF CooldownElapses, ownVars
<1>7. ASSUME NEW n \in Numbers, NEW done \in SUBSET Sets, BootPlace(n, done)
      PROVE  DownInv'
  BY <1>4, <1>7 DEF BootPlace
<1>8. CASE BootDone \/ BootFails
  BY <1>8 DEF BootDone, BootFails, BootEnds, DownInv
<1>9. CASE UNCHANGED opsVars
  BY <1>4, <1>9 DEF opsVars, ownVars, poolVars
<1>10. QED
  BY <1>1, <1>2, <1>3, <1>5, <1>6, <1>7, <1>8, <1>9, OpsCases

LEMMA JobsStep ==
  ASSUME BaseInv, [OpsNext]_opsVars
  PROVE  JobsOrderly'
<1>1. JobsOrderly /\ PoolTypeOK
  BY DEF BaseInv, OpsTypeOK
<1>2. CASE Writes \/ Loses
  BY <1>1, <1>2, JobsOrderlyStep, ServeMovesMove, LosesMove DEF Writes
<1>3. CASE Crash
  BY <1>3 DEF Crash, NoJob, JobsOrderly
<1>4. CASE UNCHANGED reap
  BY <1>1, <1>4 DEF JobsOrderly
<1>5. ASSUME NEW o \in Operators, NEW n \in Numbers, Operate(o, n)
      PROVE  UNCHANGED reap
  BY <1>5, OperateElsewhere
<1>6. QED
  BY <1>2, <1>3, <1>4, <1>5, OpsCases DEF CooldownElapses, RedisEmptied, BootRead,
     BootDone, BootFails, BootEnds, BootPlace, Stays, opsVars, poolVars

LEMMA BaseStarts == OpsInit => BaseInv
<1>1. OpsInit => PoolTypeOK
  BY DEF OpsInit, PoolInit, PoolTypeOK, Phases, Statuses, WriteBacks, ReapJobs, NoJob
<1>2. OpsInit => OpsTypeOK
  BY <1>1 DEF OpsInit, OpsTypeOK, Lives, NoLoad, Goals
<1>3. OpsInit => JobsOrderly
  BY DEF OpsInit, PoolInit, NoJob, JobsOrderly
<1>4. OpsInit => LineInv
  BY DEF OpsInit, PoolInit, LineInv
<1>5. QED
  BY <1>2, <1>3, <1>4 DEF OpsInit, BaseInv, DownInv

LEMMA BaseAlways == OpsSpec => []BaseInv
<1>1. BaseInv /\ [OpsNext]_opsVars => BaseInv'
  BY OpsTypeStep, LineStep, DownStep, JobsStep DEF BaseInv
<1>2. QED
  BY <1>1, BaseStarts, PTL DEF OpsSpec

(* The pool, the sessions, a boot's reading and the operators' requests    *)
(* keep their types whatever crashes, fails and is emptied.                *)
THEOREM OpsTypeCorrect == OpsSpec => []OpsTypeOK
BY BaseAlways, PTL DEF BaseInv

-----------------------------------------------------------------------------
(* A number is still to go where its row and the sessions say, or a boot   *)
(* has put it there, but for the numbers it counts as spoilt.              *)
AsPlaced(n) ==
  /\ n \in available <=> Place(n) = "available"
  /\ n \in inUse <=> Place(n) = "inUse"
  /\ n \in Resting <=> Place(n) = "cooldown"

BootInv ==
  load.pc = "placing" =>
    \A n \in Numbers \ load.spoilt :
      IF n \in Todo THEN load.goal[n] = Place(n) ELSE AsPlaced(n)

(* The same place, told by the names of the sets.                          *)
LEMMA SamePlaces ==
  ASSUME NEW n \in Numbers, Places(n)' = Places(n)
  PROVE  /\ n \in available' <=> n \in available
         /\ n \in inUse' <=> n \in inUse
         /\ n \in Resting' <=> n \in Resting
<1>1. "available" \in Places(n)' <=> "available" \in Places(n)
  OBVIOUS
<1>2. "inUse" \in Places(n)' <=> "inUse" \in Places(n)
  OBVIOUS
<1>3. "cooldown" \in Places(n)' <=> "cooldown" \in Places(n)
  OBVIOUS
<1>4. /\ n \in available <=> "available" \in Places(n)
      /\ n \in inUse <=> "inUse" \in Places(n)
      /\ n \in Resting <=> "cooldown" \in Places(n)
  BY DEF Places
<1>5. /\ n \in available' <=> "available" \in Places(n)'
      /\ n \in inUse' <=> "inUse" \in Places(n)'
      /\ n \in Resting' <=> "cooldown" \in Places(n)'
  BY DEF Places
<1>6. QED
  BY <1>1, <1>2, <1>3, <1>4, <1>5

LEMMA BootStep ==
  ASSUME BaseInv, BootInv, [OpsNext]_opsVars
  PROVE  BootInv'
<1>1. OpsTypeOK /\ PoolTypeOK
  BY DEF BaseInv, OpsTypeOK
<1>2. CASE load'.pc # "placing"
  BY <1>2 DEF BootInv
<1>3. CASE BootRead
  <2>1. \A n \in Numbers : load'.goal[n] = Place(n) /\ Place(n)' = Place(n)
    BY <1>3 DEF BootRead, Place, LiveOn, poolVars
  <2>2. \A n \in Numbers : Place(n) # "placed"
    BY DEF Place
  <2>3. QED
    BY <2>1, <2>2 DEF BootInv, Todo
<1>4. CASE Crosses
  <2>1. CASE load.pc # "placing"
    BY <1>2, <1>4, <2>1 DEF Crosses
  <2>2. CASE load.pc = "placing"
    <3>1. load' = [load EXCEPT !.spoilt = @ \cup Changed]
      BY <1>4, <2>2 DEF Crosses
    <3>2. load'.spoilt = load.spoilt \cup Changed /\ UNCHANGED load.goal
      BY <1>1, <3>1 DEF OpsTypeOK
    <3>3. ASSUME NEW n \in Numbers \ load'.spoilt
          PROVE  IF n \in Todo' THEN load'.goal[n] = Place(n)' ELSE AsPlaced(n)'
      <4>1. /\ numStatus'[n] = numStatus[n]
            /\ LiveOn(n)' = LiveOn(n)
            /\ Places(n)' = Places(n)
        BY <3>2, <3>3 DEF Changed
      <4>2. Place(n)' = Place(n)
        BY <4>1 DEF Place
      <4>3. QED
        BY <2>2, <3>2, <3>3, <4>1, <4>2, SamePlaces DEF BootInv, AsPlaced, Todo
    <3>4. QED
      BY <3>3 DEF BootInv
  <2>3. QED
    BY <2>1, <2>2
<1>5. ASSUME NEW m \in Numbers, NEW done \in SUBSET Sets, BootPlace(m, done)
      PROVE  BootInv'
  <2>1. /\ load.pc = "placing" /\ m \in Todo
        /\ Pipelined(m, done)
        /\ UNCHANGED <<numStatus, life, line>>
    BY <1>5 DEF BootPlace
  <2>2. /\ load'.goal = [load.goal EXCEPT ![m] = "placed"]
        /\ load'.spoilt = IF done = Sets THEN load.spoilt ELSE load.spoilt \cup {m}
    BY <1>1, <1>5 DEF BootPlace, OpsTypeOK
  <2>3. load.goal \in [Numbers -> Goals]
    BY <1>1 DEF OpsTypeOK
  <2>4. ASSUME NEW n \in Numbers \ load'.spoilt
        PROVE  IF n \in Todo' THEN load'.goal[n] = Place(n)' ELSE AsPlaced(n)'
    <3>1. n \notin load.spoilt /\ (n = m => done = Sets)
      BY <2>2, <2>4
    <3>2. Place(n)' = Place(n)
      BY <2>1 DEF Place, LiveOn
    <3>3. CASE n = m
      <4>1. n \notin Todo' /\ load.goal[n] = Place(n)
        BY <2>1, <2>2, <2>3, <3>1, <3>3 DEF Todo, BootInv
      <4>2. QED
        BY <1>1, <2>1, <3>1, <3>2, <3>3, <4>1, PipelinedAll DEF AsPlaced
    <3>4. CASE n # m
      <4>1. /\ n \in available' <=> n \in available
            /\ n \in inUse' <=> n \in inUse
            /\ n \in Resting' <=> n \in Resting
        BY <1>1, <2>1, <3>4, PipelinedElsewhere DEF Resting
      <4>2. load'.goal[n] = load.goal[n]
        BY <2>2, <2>3, <3>4
      <4>3. QED
        BY <2>1, <3>1, <3>2, <3>4, <4>1, <4>2 DEF BootInv, AsPlaced, Todo
    <3>5. QED
      BY <3>3, <3>4
  <2>5. QED
    BY <2>4 DEF BootInv
<1>6. ASSUME NEW m \in Numbers, CooldownElapses(m), UNCHANGED ownVars
      PROVE  BootInv'
  <2>1. /\ UNCHANGED <<available, inUse, numStatus, load, life, line>>
        /\ Resting' = Resting
    BY <1>1, <1>6 DEF CooldownElapses, PoolTypeOK, ownVars, Resting
  <2>2. QED
    BY <2>1 DEF BootInv, LiveOn, Place, AsPlaced, Todo
<1>7. CASE UNCHANGED opsVars
  BY <1>7 DEF opsVars, ownVars, poolVars, redisPool, BootInv, LiveOn, Place, AsPlaced,
     Resting, Todo
<1>8. CASE Crash \/ BootDone \/ BootFails
  BY <1>2, <1>8 DEF Crash, BootDone, BootFails, BootEnds, NoLoad
<1>9. CASE RedisEmptied
  BY <1>2, <1>9 DEF RedisEmptied
<1>10. QED
  BY <1>3, <1>4, <1>5, <1>6, <1>7, <1>8, <1>9, OpsCases

LEMMA BootAlways == OpsSpec => [](BaseInv /\ BootInv)
<1>1. OpsInit => BootInv
  BY DEF OpsInit, NoLoad, BootInv
<1>2. BaseInv /\ BootInv /\ [OpsNext]_opsVars => BootInv'
  BY BootStep
<1>3. QED
  BY <1>1, <1>2, BaseAlways, PTL DEF OpsSpec

(* A boot ends with every number in the one place its row and the live     *)
(* sessions call for, and with no quarantined number in any, wherever      *)
(* processes died, whatever Redis lost and whoever serves beside it; but   *)
(* for the numbers it failed to place or others changed under it           *)
(* (loadPoolFromDb, index.ts:125-132).                                     *)
THEOREM BootAlwaysReconciles == OpsSpec => BootReconciles
<1> DEFINE Settled(n) == IF numStatus[n] = "QUARANTINED" THEN Places(n) = {}
                         ELSE IF LiveOn(n) THEN Places(n) = {"inUse"}
                         ELSE Cardinality(Places(n)) = 1
<1>1. ASSUME BaseInv, BootInv, load.pc = "placing",
             NEW n \in Numbers \ (Todo \cup load.spoilt)
      PROVE  Settled(n)
  <2>1. AsPlaced(n)
    BY <1>1 DEF BootInv
  <2>2. Places(n) = {place \in {"available", "inUse", "cooldown"} : Place(n) = place}
    BY <2>1 DEF Places, AsPlaced
  <2>3. CASE numStatus[n] = "QUARANTINED"
    <3>1. Place(n) = "nowhere"
      BY <2>1, <2>3 DEF Place
    <3>2. Places(n) = {}
      BY <2>2, <3>1
    <3>3. QED
      BY <2>3, <3>2
  <2>4. CASE numStatus[n] # "QUARANTINED" /\ LiveOn(n)
    <3>1. Place(n) = "inUse"
      BY <2>1, <2>4 DEF Place
    <3>2. Places(n) = {"inUse"}
      BY <2>2, <3>1
    <3>3. QED
      BY <2>4, <3>2
  <2>5. CASE numStatus[n] # "QUARANTINED" /\ ~LiveOn(n)
    <3>1. Place(n) \in {"available", "inUse", "cooldown"}
      BY <2>1, <2>5 DEF Place
    <3>2. Places(n) = {Place(n)}
      BY <2>2, <3>1
    <3>3. Cardinality(Places(n)) = 1
      BY <3>2, FS_Singleton
    <3>4. QED
      BY <2>5, <3>3
  <2>6. QED
    BY <2>3, <2>4, <2>5
<1>2. BaseInv /\ BootInv =>
        [load.pc = "placing" /\ load'.pc = "idle" /\ process' = "up" =>
           \A n \in Numbers \ (Todo \cup load.spoilt) : Settled(n)]_opsVars
  BY <1>1
<1>3. QED
  BY <1>2, BootAlways, PTL DEF OpsSpec, BootReconciles

-----------------------------------------------------------------------------
(* While a process is up, and as far as a boot has come in one that is not *)
(* up yet, a number is in the pool, or its quarantine has been answered,   *)
(* or its release is about to offer it.                                    *)
InPool(n) ==
  n \in available \/ n \in inUse \/ cooldown[n] # "none" \/ n \in Lifted

Placed(n) == InPool(n) \/ n \in barred \/ Offering(n)

Reached(n) == process = "up" \/ (load.pc = "placing" /\ n \notin Todo)

SurviveInv == \A n \in Numbers \ lapsed : Reached(n) => Placed(n)

(* The pool's own moves keep every number in the pool.                     *)
LEMMA InPoolKept ==
  ASSUME BaseInv, PoolNext, NEW n \in Numbers, InPool(n)
  PROVE  InPool(n)'
<1>1. PoolTypeOK /\ JobsOrderly
  BY DEF BaseInv, OpsTypeOK
<1>2. ASSUME NEW s \in Sessions, NEW P \in SUBSET Parties, NEW m \in Numbers,
             Allocate(s, P, m)
      PROVE  InPool(n)'
  BY <1>2 DEF Allocate, AllocateAvailable, AllocateShared, TakeOut, InPool, Lifted
<1>3. ASSUME NEW c \in Callers, NEW s \in Sessions, NEW m \in Numbers,
             NEW rest \in BOOLEAN, Release(c, s, m, rest)
      PROVE  InPool(n)'
  BY <1>1, <1>3 DEF Release, ReleaseLast, InPool, PoolTypeOK, Lifted
<1>4. ASSUME UNCHANGED <<available, inUse, cooldown, reap>>
      PROVE  InPool(n)'
  BY <1>4 DEF InPool, Lifted
<1>5. ASSUME NEW m \in Numbers, CooldownElapses(m)
      PROVE  InPool(n)'
  BY <1>1, <1>5 DEF CooldownElapses, InPool, PoolTypeOK, Lifted
<1>6. ASSUME NEW r \in Reapers, ReapStep(r)
      PROVE  InPool(n)'
  <2>1. reap \in [Reapers -> ReapJobs]
    BY <1>1 DEF PoolTypeOK
  <2>2. ASSUME ReapScan(r)
        PROVE  InPool(n)'
    <3>1. reap[r].lifted = {}
      BY <1>1, <2>2 DEF ReapScan, JobsOrderly
    <3>2. n \in Lifted => n \in Lifted'
      BY <2>1, <2>2, <3>1, LiftedDef, LiftedDefNext DEF ReapScan
    <3>3. QED
      BY <2>2, <3>2 DEF ReapScan, InPool, redisPool
  <2>3. ASSUME NEW m \in Numbers, ReapLift(r, m)
        PROVE  InPool(n)'
    <3>1. n \in Lifted => n \in Lifted'
      BY <2>1, <2>3, LiftedDef, LiftedDefNext DEF ReapLift, ReapJobs
    <3>2. m \in Lifted'
      BY <2>1, <2>3, LiftedDefNext DEF ReapLift, ReapJobs
    <3>3. QED
      BY <1>1, <2>3, <3>1, <3>2 DEF ReapLift, InPool, PoolTypeOK
  <2>4. ASSUME NEW m \in Numbers, ReapReturn(r, m)
        PROVE  InPool(n)'
    <3>1. n \in Lifted => n \in Lifted' \/ n = m
      BY <1>1, <2>1, <2>4, LiftedDef, LiftedDefNext DEF ReapReturn, ReapJobs, JobsOrderly
    <3>2. QED
      BY <2>4, <3>1 DEF ReapReturn, InPool
  <2>5. ASSUME ReapDone(r)
        PROVE  InPool(n)'
    <3>1. n \in Lifted => n \in Lifted'
      BY <2>1, <2>5, LiftedDef, LiftedDefNext DEF ReapDone, NoJob
    <3>2. QED
      BY <2>5, <3>1 DEF ReapDone, InPool, redisPool
  <2>6. QED
    BY <1>6, <2>2, <2>3, <2>4, <2>5 DEF ReapStep, ReapWriteBack, ReapWriteBackLost
<1>7. QED
  BY <1>2, <1>3, <1>4, <1>5, <1>6 DEF PoolNext, Unclaim, WriteBack, WriteBackLost,
     HashChanges, redisPool

LEMMA PlacedKept ==
  ASSUME UNCHANGED <<poolVars, op, barred>>, NEW n \in Numbers
  PROVE  Placed(n)' <=> Placed(n)
<1>1. Lifted' = Lifted
  BY DEF Lifted, poolVars
<1>2. QED
  BY <1>1 DEF Placed, InPool, Offering, Holds, poolVars, redisPool

LEMMA SurviveStep ==
  ASSUME BaseInv, BootInv, SurviveInv, [OpsNext]_opsVars
  PROVE  SurviveInv'
<1>1. BaseInv /\ OpsTypeOK /\ PoolTypeOK
  BY DEF BaseInv, OpsTypeOK
<1>2. ASSUME process = "up", PoolNext, UNCHANGED <<op, barred>>, lapsed \subseteq lapsed'
      PROVE  SurviveInv'
  BY <1>1, <1>2, InPoolKept DEF SurviveInv, Reached, Placed, Offering, Holds
<1>3. ASSUME process = "up", NEW o \in Operators, NEW m \in Numbers, Operate(o, m)
      PROVE  SurviveInv'
  <2>1. \A n \in Numbers \ lapsed : Placed(n)
    BY <1>3 DEF SurviveInv, Reached
  <2>2. ASSUME NEW n \in Numbers \ lapsed', n # m
        PROVE  Placed(n)'
    <3>1. n \notin lapsed /\ (InPool(n)' <=> InPool(n)) /\ (n \in barred' <=> n \in barred)
      BY <1>1, <1>3, <2>2, OperateElsewhere DEF InPool, Lifted
    <3>2. Offering(n) => Offering(n)'
      BY <1>1, <1>3, <2>2, OperateElsewhere DEF Offering, Holds
    <3>3. QED
      BY <2>1, <3>1, <3>2 DEF Placed
  <2>3. ASSUME m \notin lapsed'
        PROVE  Placed(m)'
    <3>1. Lifted' = Lifted /\ UNCHANGED cooldown
          /\ \A p \in Operators \ {o} : op'[p] = op[p]
      BY <1>1, <1>3, OperateElsewhere DEF Lifted
    <3>2. CASE QuarantineRead(o, m) \/ QuarantineRow(o, m) \/ ReleaseRead(o, m)
      <4>1. ~Holds(o, "offer", m)
        BY <3>2 DEF QuarantineRead, QuarantineRow, ReleaseRead, Holds, NoOp
      <4>2. UNCHANGED <<available, inUse, barred, lapsed>>
        BY <3>2 DEF QuarantineRead, QuarantineRow, ReleaseRead, poolVars, redisPool
      <4>3. QED
        BY <2>1, <2>3, <3>1, <4>1, <4>2 DEF Placed, InPool, Offering, Holds
    <3>3. CASE ReleaseRow(o, m)
      <4>1. Holds(o, "offer", m)'
        BY <1>1, <3>3 DEF ReleaseRow, Asks, Holds, OpsTypeOK
      <4>2. QED
        BY <4>1 DEF Placed, Offering
    <3>4. CASE QuarantineThrows(o, m) \/ ReleaseThrows(o, m)
      <4>1. ~Holds(o, "offer", m) /\ UNCHANGED <<available, inUse, barred>> /\ m \notin lapsed
        BY <2>3, <3>4 DEF QuarantineThrows, ReleaseThrows, Holds, redisPool
      <4>2. QED
        BY <2>1, <3>1, <4>1 DEF Placed, InPool, Offering, Holds
    <3>5. CASE QuarantineYank(o, m)
      BY <3>5 DEF QuarantineYank, Placed
    <3>6. CASE ReleaseOffer(o, m)
      BY <3>6 DEF ReleaseOffer, Offered, InPool, Placed
    <3>7. CASE QuarantineYankFails(o, m) \/ ReleaseOfferFails(o, m)
      BY <2>3, <3>7 DEF QuarantineYankFails, ReleaseOfferFails
    <3>8. QED
      BY <1>3, <3>2, <3>3, <3>4, <3>5, <3>6, <3>7 DEF Operate
  <2>4. QED
    BY <2>2, <2>3 DEF SurviveInv
<1>4. ASSUME UNCHANGED <<poolVars, process, load, op, barred, lapsed>>
      PROVE  SurviveInv'
  BY <1>4, PlacedKept DEF SurviveInv, Reached, Todo
<1>5. ASSUME NEW m \in Numbers, CooldownElapses(m), UNCHANGED ownVars
      PROVE  SurviveInv'
  BY <1>1, <1>5, InPoolKept DEF PoolNext, ownVars, SurviveInv, Reached, Todo, Placed,
     Offering, Holds
<1>6. ASSUME NEW m \in Numbers, NEW done \in SUBSET Sets, BootPlace(m, done)
      PROVE  SurviveInv'
  <2>1. /\ load.pc = "placing" /\ Pipelined(m, done)
        /\ m \in Todo /\ Todo' = Todo \ {m} /\ load'.pc = load.pc
        /\ UNCHANGED <<op, reap, process>>
    BY <1>1, <1>6 DEF BootPlace, OpsTypeOK, Todo
  <2>2. ASSUME NEW n \in Numbers \ lapsed', n # m, Reached(n)'
        PROVE  Placed(n)'
    <3>1. n \notin lapsed /\ Reached(n) /\ (n \in barred' <=> n \in barred)
      BY <1>6, <2>1, <2>2 DEF BootPlace, Reached
    <3>2. InPool(n)' <=> InPool(n)
      BY <1>1, <2>1, <2>2, PipelinedElsewhere DEF InPool, Lifted
    <3>3. QED
      BY <2>1, <3>1, <3>2 DEF SurviveInv, Placed, Offering, Holds
  <2>3. ASSUME m \notin lapsed'
        PROVE  Placed(m)'
    <3>1. done = Sets /\ (load.goal[m] = "nowhere" => m \in barred')
      <4>1. done = Sets /\ m \notin load.spoilt
        BY <1>6, <2>3 DEF BootPlace
      <4>2. load.goal[m] = Place(m)
        BY <2>1, <4>1 DEF BootInv
      <4>3. load.goal[m] = "nowhere" => numStatus[m] = "QUARANTINED"
        BY <4>2 DEF Place
      <4>4. QED
        BY <1>6, <4>1, <4>3 DEF BootPlace
    <3>2. load.goal[m] \in {"nowhere", "inUse", "cooldown", "available"}
      BY <1>1, <2>1 DEF OpsTypeOK, Goals, Todo
    <3>3. load.goal[m] # "nowhere" => InPool(m)'
      BY <1>1, <2>1, <3>1, <3>2, PipelinedAll DEF InPool, Resting
    <3>4. QED
      BY <3>1, <3>3 DEF Placed
  <2>4. QED
    BY <2>2, <2>3 DEF SurviveInv
<1>7. CASE Crash \/ RedisEmptied
  BY <1>7 DEF Crash, RedisEmptied, NoLoad, SurviveInv, Reached, Todo
<1>8. CASE BootRead
  <2>1. Todo' = Numbers /\ UNCHANGED <<poolVars, op, barred, lapsed, process>>
    BY <1>8 DEF BootRead, Todo, Place
  <2>2. QED
    BY <2>1, PlacedKept DEF SurviveInv, Reached, Todo
<1>9. CASE BootDone \/ BootFails
  <2>1. \A n \in Numbers : Placed(n)' <=> Placed(n)
    BY <1>9, PlacedKept DEF BootDone, BootFails, BootEnds
  <2>2. ASSUME NEW n \in Numbers \ lapsed'
        PROVE  n \notin lapsed /\ Reached(n)
    BY <1>9, <2>2 DEF BootDone, BootFails, Reached
  <2>3. QED
    BY <2>1, <2>2 DEF SurviveInv
<1>10. CASE process = "up" /\ Writes
  BY <1>2, <1>10, ServeMovesMove DEF Writes
<1>11. CASE process = "up" /\ Loses
  BY <1>2, <1>11, LosesMove DEF Loses, LetGoUnwritten, ReapUnwritten, Unwritten
<1>12. CASE process = "up" /\ Stays
  BY <1>12, PlacedKept DEF Stays, SurviveInv, Reached
<1>13. CASE UNCHANGED opsVars
  BY <1>4, <1>13 DEF opsVars, ownVars
<1>14. QED
  BY <1>3, <1>5, <1>6, <1>7, <1>8, <1>9, <1>10, <1>11, <1>12, <1>13, OpsCases

(* While a process is up, a number that is not quarantined is in one of    *)
(* the pool's sets, in a reaper's hands or about to be offered, wherever   *)
(* processes died before, for any number of operators and reapers; unless  *)
(* the last boot or request to deal with it failed over it.                *)
THEOREM NumbersAlwaysSurvive == OpsSpec => []NumbersSurvive
<1>1. OpsInit => SurviveInv
  BY DEF OpsInit, PoolInit, SurviveInv, Placed, InPool
<1>2. BaseInv /\ BootInv /\ SurviveInv /\ [OpsNext]_opsVars => SurviveInv'
  BY SurviveStep
<1>3. SurviveInv => NumbersSurvive
  BY DEF SurviveInv, Reached, Placed, InPool, NumbersSurvive, Resting
<1>4. QED
  BY <1>1, <1>2, <1>3, BootAlways, PTL DEF OpsSpec

-----------------------------------------------------------------------------
(* A number whose row says QUARANTINED is available only to those who had  *)
(* it before: each of them still has to write over the row, at which point *)
(* it no longer says so.                                                   *)
Leftover(n) ==
  /\ numStatus[n] = "QUARANTINED"
  /\ n \notin Held \cup Resting
  /\ ~Yanking(n) /\ ~Owed(n) /\ ~Reaped(n)

OneWrite == \A c \in Callers : \A v, w \in pending[c] : v = w

NothingLeft ==
  \A n \in Numbers \ lapsed : Reached(n) /\ Leftover(n) => n \notin available

QuarantineInv == OneWrite /\ NothingLeft

LEMMA LeftoverKept ==
  ASSUME UNCHANGED <<poolVars, op>>, NEW n \in Numbers
  PROVE  (Leftover(n)' <=> Leftover(n)) /\ (n \in available' <=> n \in available)
BY DEF Leftover, Yanking, Holds, Held, Resting, Owed, Reaped, poolVars, redisPool

(* The pool's own moves leave nothing behind that was not there before.    *)
LEMMA Excused ==
  ASSUME BaseInv, ServeMoves, OneWrite, NEW n \in Numbers,
         numStatus'[n] = "QUARANTINED", n \notin Held', n \notin Resting',
         ~Owed(n)', ~Reaped(n)', n \in available'
  PROVE  /\ n \in available /\ n \notin Held \cup Resting
         /\ ~Owed(n) /\ ~Reaped(n) /\ numStatus[n] = "QUARANTINED"
<1> DEFINE Before == /\ n \in available /\ n \notin Held \cup Resting
                     /\ ~Owed(n) /\ ~Reaped(n) /\ numStatus[n] = "QUARANTINED"
<1>1. PoolTypeOK /\ JobsOrderly
  BY DEF BaseInv, OpsTypeOK
<1> USE DEF Held, Resting
<1>2. ASSUME NEW s \in Sessions, NEW P \in SUBSET Parties, NEW m \in Numbers,
             Allocate(s, P, m)
      PROVE  Before
  <2>1. proxySessions' = [proxySessions EXCEPT ![m] = @ \cup {s}]
    BY <1>2 DEF Allocate, AllocateAvailable, AllocateShared, Claim
  <2>2. n \in available
    BY <1>2 DEF Allocate, AllocateAvailable, AllocateShared, TakeOut
  <2>3. QED
    BY <1>1, <1>2, <2>1, <2>2 DEF Allocate, Owed, Reaped, PoolTypeOK
<1>3. ASSUME NEW c \in Callers, NEW s \in Sessions, NEW m \in Numbers,
             NEW rest \in BOOLEAN, Release(c, s, m, rest)
      PROVE  Before
  <2>1. UNCHANGED <<numStatus, reap>>
    BY <1>3 DEF Release
  <2>2. ~Reaped(n)
    BY <2>1 DEF Reaped
  <2>3. pending[c] = {} /\ proxySessions' = [proxySessions EXCEPT ![m] = @ \ {s}]
    BY <1>3 DEF Release
  <2>4. ~Owed(n)
    BY <1>1, <1>3, <2>3 DEF Release, ReleaseLast, Owed, PoolTypeOK
  <2>5. CASE LeavesLast(s, m) /\ m = n
    <3>1. [number |-> n, status |-> ReleasedStatus(rest)] \in pending'[c]
      BY <1>1, <1>3, <2>5 DEF Release, ReleaseLast, PoolTypeOK
    <3>2. QED
      BY <3>1 DEF Owed
  <2>6. CASE LeavesLast(s, m) /\ m # n
    BY <1>1, <1>3, <2>1, <2>2, <2>3, <2>4, <2>6 DEF Release, ReleaseLast, PoolTypeOK
  <2>7. CASE ~LeavesLast(s, m)
    <3>1. UNCHANGED <<available, cooldown>>
      BY <1>3, <2>7 DEF Release
    <3>2. n \notin Held
      BY <1>1, <2>3, <2>7 DEF LeavesLast, PoolTypeOK
    <3>3. QED
      BY <2>1, <2>2, <2>4, <3>1, <3>2
  <2>8. QED
    BY <2>5, <2>6, <2>7
<1>4. ASSUME NEW c \in Callers, WriteBack(c)
      PROVE  Before
  <2>1. PICK w \in pending[c] : numStatus' = [numStatus EXCEPT ![w.number] = w.status]
    BY <1>4 DEF WriteBack
  <2>2. w \in WriteBacks /\ pending[c] = {w}
    BY <1>1, <2>1 DEF PoolTypeOK, OneWrite
  <2>3. w.number # n
    BY <1>1, <2>1, <2>2 DEF PoolTypeOK, WriteBacks
  <2>4. numStatus[n] = "QUARANTINED"
    BY <1>1, <2>1, <2>3 DEF PoolTypeOK
  <2>5. ~Owed(n)
    BY <1>1, <1>4, <2>2, <2>3 DEF WriteBack, Owed, PoolTypeOK
  <2>6. QED
    BY <1>4, <2>4, <2>5 DEF WriteBack, Reaped, redisPool
<1>5. ASSUME NEW m \in Numbers, CooldownElapses(m)
      PROVE  Before
  BY <1>1, <1>5 DEF CooldownElapses, Owed, Reaped, PoolTypeOK
<1>6. ASSUME NEW r \in Reapers, ReapWritten(r)
      PROVE  Before
  <2>1. /\ reap \in [Reapers -> ReapJobs]
        /\ numStatus \in [Numbers -> Statuses]
        /\ cooldown \in [Numbers -> Phases]
    BY <1>1 DEF PoolTypeOK
  <2>2. UNCHANGED <<proxySessions, pending>>
    BY <1>6 DEF ReapWritten, ReapScan, ReapLift, ReapReturn, ReapWriteBack,
       ReapDone, redisPool
  <2>3. n \notin Held /\ ~Owed(n)
    BY <2>2 DEF Owed
  <2>4. CASE ReapScan(r)
    BY <2>1, <2>3, <2>4 DEF ReapScan, Reaped, redisPool
  <2>5. ASSUME NEW m \in Numbers, ReapLift(r, m)
        PROVE  Before
    <3>1. ~Reaped(n)
      BY <2>1, <2>5 DEF ReapLift, Reaped, ReapJobs
    <3>2. m # n
      BY <1>1, <2>5, <3>1 DEF ReapLift, Reaped, JobsOrderly
    <3>3. QED
      BY <2>1, <2>3, <2>5, <3>1, <3>2 DEF ReapLift
  <2>6. ASSUME NEW m \in Numbers, ReapReturn(r, m)
        PROVE  Before
    <3>1. ~Reaped(n)
      BY <2>1, <2>6 DEF ReapReturn, Reaped, ReapJobs
    <3>2. m # n
      BY <1>1, <2>6, <3>1 DEF ReapReturn, Reaped, JobsOrderly
    <3>3. QED
      BY <2>1, <2>3, <2>6, <3>1, <3>2 DEF ReapReturn
  <2>7. CASE ReapWriteBack(r)
    <3>1. n \notin reap[r].batch /\ numStatus[n] = "QUARANTINED"
      BY <2>1, <2>7 DEF ReapWriteBack
    <3>2. ~Reaped(n)
      BY <2>1, <2>7, <3>1 DEF ReapWriteBack, ReapDone, Reaped
    <3>3. QED
      BY <2>3, <2>7, <3>1, <3>2 DEF ReapWriteBack, ReapDone, redisPool
  <2>8. QED
    BY <1>6, <2>4, <2>5, <2>6, <2>7 DEF ReapWritten
<1>7. QED
  BY <1>2, <1>3, <1>4, <1>5, <1>6 DEF ServeMoves

(* A write that is lost leaves a number to its quarantine only if it is    *)
(* marked as lapsed.                                                       *)
LEMMA LosesExcused ==
  ASSUME BaseInv, Loses, NEW n \in Numbers \ lapsed', Leftover(n)'
  PROVE  Leftover(n) /\ (n \in available' <=> n \in available) /\ n \notin lapsed
<1>1. PoolTypeOK
  BY DEF BaseInv, OpsTypeOK
<1>2. ASSUME NEW c \in Callers, LetGoUnwritten(c)
      PROVE  Leftover(n) /\ (n \in available' <=> n \in available) /\ n \notin lapsed
  <2>1. /\ UNCHANGED <<redisPool, numStatus, reap, op>>
        /\ pending' = [pending EXCEPT ![c] = {}]
        /\ Unwritten({w.number : w \in pending[c]})
    BY <1>2 DEF LetGoUnwritten, WriteBackLost, Loses
  <2>2. n \notin lapsed /\ \A w \in pending[c] : w.number # n
    BY <2>1 DEF Unwritten, Leftover
  <2>3. ~Owed(n)
    BY <1>1, <2>1, <2>2 DEF Leftover, Owed, PoolTypeOK
  <2>4. QED
    BY <2>1, <2>2, <2>3 DEF Leftover, Held, Resting, Yanking, Holds, Reaped, redisPool
<1>3. ASSUME NEW r \in Reapers, ReapUnwritten(r)
      PROVE  Leftover(n) /\ (n \in available' <=> n \in available) /\ n \notin lapsed
  <2>1. /\ UNCHANGED <<redisPool, numStatus, pending, op>>
        /\ reap' = [reap EXCEPT ![r] = NoJob]
        /\ Unwritten(reap[r].batch)
    BY <1>3 DEF ReapUnwritten, ReapWriteBackLost, ReapDone, Loses
  <2>2. n \notin lapsed /\ n \notin reap[r].batch
    BY <2>1 DEF Unwritten, Leftover
  <2>3. ~Reaped(n)
    BY <1>1, <2>1, <2>2 DEF Leftover, Reaped, PoolTypeOK
  <2>4. QED
    BY <2>1, <2>2, <2>3 DEF Leftover, Held, Resting, Yanking, Holds, Owed, redisPool
<1>4. QED
  BY <1>2, <1>3 DEF Loses

LEMMA OneWriteStep ==
  ASSUME BaseInv, OneWrite, [OpsNext]_opsVars
  PROVE  OneWrite'
<1>1. PoolTypeOK
  BY DEF BaseInv, OpsTypeOK
<1>2. ASSUME NEW c \in Callers, NEW s \in Sessions, NEW m \in Numbers,
             NEW rest \in BOOLEAN, Release(c, s, m, rest)
      PROVE  OneWrite'
  BY <1>1, <1>2 DEF Release, ReleaseLast, OneWrite, PoolTypeOK
<1>3. ASSUME NEW c \in Callers, WriteBack(c) \/ WriteBackLost(c)
      PROVE  OneWrite'
  BY <1>1, <1>3 DEF WriteBack, WriteBackLost, OneWrite, PoolTypeOK
<1>4. ASSUME UNCHANGED pending
      PROVE  OneWrite'
  BY <1>4 DEF OneWrite
<1>5. ASSUME NEW r \in Reapers, ReapStep(r)
      PROVE  UNCHANGED pending
  BY <1>5 DEF ReapStep, ReapScan, ReapLift, ReapReturn, ReapWriteBack,
     ReapWriteBackLost, ReapDone
<1>6. CASE Writes
  BY <1>2, <1>3, <1>4, <1>5, <1>6 DEF Writes, ServeMoves, Allocate, CooldownElapses,
     ReapWritten, ReapStep
<1>7. CASE Loses
  BY <1>3, <1>4, <1>5, <1>7 DEF Loses, LetGoUnwritten, ReapUnwritten, ReapStep
<1>8. ASSUME NEW o \in Operators, NEW m \in Numbers, Operate(o, m)
      PROVE  OneWrite'
  BY <1>4, <1>8, OperateElsewhere
<1>9. CASE Crash
  BY <1>9 DEF Crash, OneWrite
<1>10. QED
  BY <1>4, <1>6, <1>7, <1>8, <1>9, OpsCases DEF CooldownElapses, RedisEmptied, BootRead,
     BootDone, BootFails, BootEnds, BootPlace, Stays, opsVars, poolVars

LEMMA QuarantineStep ==
  ASSUME BaseInv, BootInv, QuarantineInv, [OpsNext]_opsVars
  PROVE  QuarantineInv'
<1>0. SUFFICES NothingLeft'
  BY OneWriteStep DEF QuarantineInv
<1>1. BaseInv /\ OpsTypeOK /\ PoolTypeOK /\ OneWrite /\ NothingLeft
  BY DEF BaseInv, OpsTypeOK, QuarantineInv
<1>2. CASE process = "up" /\ Writes
  <2>1. ASSUME NEW n \in Numbers \ lapsed', Leftover(n)', n \in available'
        PROVE  FALSE
    <3>1. ServeMoves /\ n \notin lapsed /\ UNCHANGED op
      BY <1>2, <2>1 DEF Writes
    <3>2. /\ n \in available /\ n \notin Held \cup Resting
          /\ ~Owed(n) /\ ~Reaped(n) /\ numStatus[n] = "QUARANTINED"
      BY <1>1, <2>1, <3>1, Excused DEF Leftover
    <3>3. ~Yanking(n)
      BY <2>1, <3>1 DEF Leftover, Yanking, Holds
    <3>4. QED
      BY <1>1, <1>2, <3>1, <3>2, <3>3 DEF NothingLeft, Leftover, Reached
  <2>2. QED
    BY <2>1 DEF NothingLeft
<1>3. CASE process = "up" /\ Loses
  BY <1>1, <1>3, LosesExcused DEF NothingLeft, Reached
<1>4. ASSUME process = "up", NEW o \in Operators, NEW m \in Numbers, Operate(o, m)
      PROVE  NothingLeft'
  <2>1. \A n \in Numbers \ lapsed : Leftover(n) => n \notin available
    BY <1>1, <1>4 DEF NothingLeft, Reached
  <2>2. UNCHANGED <<Held, Resting, cooldown, proxySessions, pending, reap>>
    BY <1>1, <1>4, OperateElsewhere DEF Held, Resting
  <2>3. ASSUME NEW n \in Numbers \ lapsed', n # m, Leftover(n)'
        PROVE  n \notin available'
    <3>1. /\ n \notin lapsed /\ (n \in available' <=> n \in available)
          /\ numStatus'[n] = numStatus[n]
      BY <1>1, <1>4, <2>3, OperateElsewhere
    <3>2. ~Yanking(n)
      <4>1. \A p \in Operators : Holds(p, "yank", n) => Holds(p, "yank", n)'
        BY <1>1, <1>4, <2>3, OperateElsewhere DEF Holds
      <4>2. QED
        BY <2>3, <4>1 DEF Leftover, Yanking
    <3>3. QED
      BY <2>1, <2>2, <2>3, <3>1, <3>2 DEF Leftover, Owed, Reaped
  <2>4. ASSUME m \notin lapsed', Leftover(m)'
        PROVE  m \notin available'
    <3>1. CASE QuarantineRead(o, m) \/ ReleaseRead(o, m)
      <4>1. ~Yanking(m)
        <5>1. \A p \in Operators : Holds(p, "yank", m) => Holds(p, "yank", m)'
          BY <1>1, <1>4, <3>1, OperateElsewhere
             DEF Holds, QuarantineRead, ReleaseRead, NoOp
        <5>2. QED
          BY <2>4, <5>1 DEF Leftover, Yanking
      <4>2. UNCHANGED <<available, lapsed, numStatus>>
        BY <3>1 DEF QuarantineRead, ReleaseRead, poolVars, redisPool
      <4>3. QED
        BY <2>1, <2>2, <2>4, <4>1, <4>2 DEF Leftover, Owed, Reaped
    <3>2. CASE QuarantineRow(o, m)
      <4>1. Holds(o, "yank", m)'
        BY <1>1, <3>2 DEF QuarantineRow, Asks, Holds, OpsTypeOK
      <4>2. QED
        BY <2>4, <4>1 DEF Leftover, Yanking
    <3>3. CASE QuarantineThrows(o, m) \/ ReleaseThrows(o, m)
      <4>1. UNCHANGED <<available, lapsed, numStatus>>
        BY <2>4, <3>3 DEF QuarantineThrows, ReleaseThrows, redisPool
      <4>2. ~Yanking(m)
        <5>1. \A p \in Operators : Holds(p, "yank", m) => Holds(p, "yank", m)'
          BY <1>1, <1>4, <3>3, OperateElsewhere
             DEF Holds, QuarantineThrows, ReleaseThrows, NoOp
        <5>2. QED
          BY <2>4, <5>1 DEF Leftover, Yanking
      <4>3. QED
        BY <2>1, <2>2, <2>4, <4>1, <4>2 DEF Leftover, Owed, Reaped
    <3>4. CASE QuarantineYank(o, m)
      BY <3>4 DEF QuarantineYank, Yanked
    <3>5. CASE QuarantineYankFails(o, m) \/ ReleaseOfferFails(o, m)
      BY <2>4, <3>5 DEF QuarantineYankFails, ReleaseOfferFails
    <3>6. CASE ReleaseRow(o, m)
      BY <1>1, <2>4, <3>6 DEF ReleaseRow, Says, Leftover, PoolTypeOK
    <3>7. CASE ReleaseOffer(o, m)
      BY <2>4, <3>7 DEF ReleaseOffer, Leftover
    <3>8. QED
      BY <1>4, <3>1, <3>2, <3>3, <3>4, <3>5, <3>6, <3>7 DEF Operate
  <2>5. QED
    BY <2>3, <2>4 DEF NothingLeft
<1>5. ASSUME UNCHANGED <<poolVars, process, load, op, lapsed>>
      PROVE  NothingLeft'
  BY <1>1, <1>5, LeftoverKept DEF NothingLeft, Reached, Todo
<1>6. CASE process = "up" /\ Stays
  BY <1>1, <1>6, LeftoverKept DEF NothingLeft, Stays, Reached
<1>7. ASSUME NEW m \in Numbers, CooldownElapses(m), UNCHANGED ownVars
      PROVE  NothingLeft'
  BY <1>1, <1>7 DEF NothingLeft, CooldownElapses, ownVars, Reached, Todo, Leftover, Yanking, Holds, Held,
     Resting, Owed, Reaped, PoolTypeOK
<1>8. ASSUME NEW m \in Numbers, NEW done \in SUBSET Sets, BootPlace(m, done)
      PROVE  NothingLeft'
  <2>1. /\ load.pc = "placing" /\ m \in Todo /\ Pipelined(m, done)
        /\ Todo' = Todo \ {m} /\ load'.pc = load.pc
        /\ UNCHANGED <<op, reap, process, pending, proxySessions, numStatus>>
    BY <1>1, <1>8 DEF BootPlace, OpsTypeOK, Todo
  <2>2. ASSUME NEW n \in Numbers \ lapsed', n # m, Reached(n)', Leftover(n)'
        PROVE  n \notin available'
    <3>1. n \notin lapsed /\ Reached(n)
      BY <1>8, <2>1, <2>2 DEF BootPlace, Reached
    <3>2. (n \in available' <=> n \in available) /\ cooldown'[n] = cooldown[n]
      BY <1>1, <2>1, <2>2, PipelinedElsewhere
    <3>3. Leftover(n)
      BY <2>1, <2>2, <3>2 DEF Leftover, Yanking, Holds, Held, Resting, Owed, Reaped
    <3>4. QED
      BY <1>1, <3>1, <3>2, <3>3 DEF NothingLeft
  <2>3. ASSUME m \notin lapsed', Leftover(m)'
        PROVE  m \notin available'
    <3>1. done = Sets /\ m \notin load.spoilt
      BY <1>8, <2>3 DEF BootPlace
    <3>2. load.goal[m] = Place(m)
      BY <2>1, <3>1 DEF BootInv
    <3>3. load.goal[m] = "nowhere"
      BY <2>1, <2>3, <3>2 DEF Place, Leftover
    <3>4. QED
      BY <1>1, <2>1, <3>1, <3>3, PipelinedAll
  <2>4. QED
    BY <2>2, <2>3 DEF NothingLeft
<1>9. CASE Crash \/ RedisEmptied
  BY <1>9 DEF Crash, RedisEmptied, NoLoad, NothingLeft, Reached, Todo
<1>10. CASE BootRead
  <2>1. Todo' = Numbers /\ UNCHANGED <<poolVars, op, lapsed, process>>
    BY <1>10 DEF BootRead, Todo, Place
  <2>2. QED
    BY <1>1, <2>1, LeftoverKept DEF NothingLeft, Reached, Todo
<1>11. CASE BootDone \/ BootFails
  <2>1. \A n \in Numbers : (Leftover(n)' <=> Leftover(n)) /\ (n \in available' <=> n \in available)
    BY <1>11, LeftoverKept DEF BootDone, BootFails, BootEnds
  <2>2. ASSUME NEW n \in Numbers \ lapsed'
        PROVE  n \notin lapsed /\ Reached(n)
    BY <1>11, <2>2 DEF BootDone, BootFails, Reached
  <2>3. QED
    BY <1>1, <2>1, <2>2 DEF NothingLeft
<1>12. CASE UNCHANGED opsVars
  BY <1>5, <1>12 DEF opsVars, ownVars
<1>13. QED
  BY <1>2, <1>3, <1>4, <1>6, <1>7, <1>8, <1>9, <1>10, <1>11, <1>12, OpsCases

(* For any number of operators and reapers, whatever fails: a number whose *)
(* row says QUARANTINED is not offered once nobody is left who held it,    *)
(* was about to write its row or had found it at rest; unless a command    *)
(* failed over it or an overtaken request offered it.                      *)
THEOREM QuarantineAlwaysHolds == OpsSpec => []QuarantineHolds
<1>1. OpsInit => QuarantineInv
  BY DEF OpsInit, PoolInit, QuarantineInv, NothingLeft, OneWrite, Leftover
<1>2. BaseInv /\ BootInv /\ QuarantineInv /\ [OpsNext]_opsVars => QuarantineInv'
  BY QuarantineStep
<1>3. QuarantineInv => QuarantineHolds
  BY DEF QuarantineInv, NothingLeft, Reached, Leftover, QuarantineHolds
<1>4. QED
  BY <1>1, <1>2, <1>3, BootAlways, PTL DEF OpsSpec

=============================================================================
