------------------------------- MODULE PoolOps -------------------------------
(***************************************************************************)
(* The number pool under its operators and across restarts: quarantine and *)
(* release from quarantine (api/routes/admin.ts), a crash of the process,  *)
(* and the boot that rebuilds the Redis sets from Postgres                 *)
(* (loadPoolFromDb, services/number-pool.ts, called by src/index.ts).      *)
(*                                                                         *)
(* `process' stands for the processes that serve the API and run the       *)
(* workers; they die together, and another one may boot beside them.       *)
(* Sessions are reduced to what a boot can tell apart, and an id that has  *)
(* left the pool stands for a new one.                                     *)
(***************************************************************************)
EXTENDS NumberPool

CONSTANTS
    Operators,
    RedisFails,     \* TRUE when commands of a boot or an operator may fail
    BootsBeside,    \* TRUE when a process may boot while others serve
    MayFlush        \* TRUE when Redis may lose its data while all are down

ASSUME OpsAssumption == {RedisFails, BootsBeside, MayFlush} \subseteq BOOLEAN

VARIABLES
    process,        \* "up" or "down"
    life,           \* what a session's row says, and who still works on it
    line,           \* the number a session was given, if any
    load,           \* a boot: where each number it has left to do goes by
                    \* what it has read, and the numbers it failed to place
                    \* or others changed since
    op,             \* the request an operator has in progress
    barred,         \* history: numbers whose quarantine has been answered,
                    \* or carried out by a boot
    lapsed          \* history: numbers that a failed or overtaken command
                    \* may have left where their row does not put them

ownVars == <<process, life, line, load, op, barred, lapsed>>
opsVars == <<poolVars, ownVars>>

Lives  == {"none", "claimed", "live", "ended", "stuck"}
NoLine == "none"
NoOp   == [pc |-> "idle"]
Goals  == {"nowhere", "available", "inUse", "cooldown", "placed"}
NoLoad == [pc |-> "idle", goal |-> [n \in Numbers |-> "placed"], spoilt |-> {}]

OpsTypeOK ==
    /\ PoolTypeOK
    /\ process \in {"up", "down"}
    /\ life \in [Sessions -> Lives]
    /\ line \in [Sessions -> Numbers \cup {NoLine}]
    /\ load \in [pc : {"idle", "placing"}, goal : [Numbers -> Goals],
                 spoilt : SUBSET Numbers]
    /\ op \in [Operators -> {NoOp} \cup
         [pc : {"bar", "yank", "clear", "offer"}, n : Numbers]]
    /\ lapsed \subseteq Numbers

OpsInit ==
    /\ PoolInit
    /\ process = "up"
    /\ life = [s \in Sessions |-> "none"]
    /\ line = [s \in Sessions |-> NoLine]
    /\ load = NoLoad
    /\ op = [o \in Operators |-> NoOp]
    /\ barred = {}
    /\ lapsed = {}

LiveOn(n) == \E s \in Sessions : life[s] = "live" /\ line[s] = n

Places(n) == {place \in {"available", "inUse", "cooldown"} :
                n \in CASE place = "available" -> available
                        [] place = "inUse"     -> inUse
                        [] place = "cooldown"  -> Resting}

(* A boot goes on from what it has read, whatever others do meanwhile.     *)
Changed == {n \in Numbers : \/ numStatus'[n] # numStatus[n]
                            \/ LiveOn(n)' # LiveOn(n)
                            \/ Places(n)' # Places(n)}

Crosses ==
    load' = IF load.pc = "placing"
              THEN [load EXCEPT !.spoilt = @ \cup Changed] ELSE load

-----------------------------------------------------------------------------
(* createSession claims a number, and four awaits later the row is ACTIVE. *)
(* Expiry marks the row first and releases the number afterwards.          *)
Becomes(s, from, to) ==
    /\ life[s] = from
    /\ life' = [life EXCEPT ![s] = to]
    /\ UNCHANGED <<process, op, barred, lapsed>>

ClaimNumber(s, n) ==
    /\ Becomes(s, "none", "claimed")
    /\ Allocate(s, {}, n)
    /\ line' = [line EXCEPT ![s] = n]

Activate(s) == Becomes(s, "claimed", "live") /\ UNCHANGED <<poolVars, line>>

MarkExpired(s) == Becomes(s, "live", "ended") /\ UNCHANGED <<poolVars, line>>

LetGo(c, s, rest) ==
    /\ Becomes(s, "ended", "none")
    /\ Release(c, s, line[s], rest)
    /\ line' = [line EXCEPT ![s] = NoLine]

(* The row that a release or a reap could not write keeps what it said.    *)
Unwritten(ns) ==
    lapsed' = lapsed \cup {n \in ns : numStatus[n] = "QUARANTINED"}

LetGoUnwritten(c) ==
    /\ WriteBackLost(c)
    /\ Unwritten({w.number : w \in pending[c]})

ReapWritten(r) ==
    \/ ReapScan(r)
    \/ \E n \in Numbers : ReapLift(r, n) \/ ReapReturn(r, n)
    \/ ReapWriteBack(r)

ReapUnwritten(r) ==
    /\ ReapWriteBackLost(r)
    /\ Unwritten(reap[r].batch)

-----------------------------------------------------------------------------
(* POST /admin/pool/quarantine: the row, if it is not QUARANTINED yet, ... *)
Asks(o, pc, n) == op' = [op EXCEPT ![o] = [pc |-> pc, n |-> n]]
Holds(o, pc, n) == op[o] = [pc |-> pc, n |-> n]
Answers(o) == op' = [op EXCEPT ![o] = NoOp]

QuarantineRead(o, n) ==
    /\ op[o] = NoOp
    /\ numStatus[n] # "QUARANTINED"
    /\ Asks(o, "bar", n)
    /\ UNCHANGED <<poolVars, process, life, line, barred, lapsed>>

Says(n, status) == numStatus' = [numStatus EXCEPT ![n] = status]

QuarantineRow(o, n) ==
    /\ Holds(o, "bar", n)
    /\ Says(n, "QUARANTINED")
    /\ Asks(o, "yank", n)
    /\ UNCHANGED <<redisPool, hashParties, pending, reap, process, life, line,
                   barred, lapsed>>

(* The UPDATE throws, with or without its effect.                          *)
QuarantineThrows(o, n) ==
    /\ DbFails
    /\ Holds(o, "bar", n)
    /\ \/ Says(n, "QUARANTINED") /\ lapsed' = lapsed \cup {n}
       \/ UNCHANGED <<numStatus, lapsed>>
    /\ Answers(o)
    /\ UNCHANGED <<redisPool, hashParties, pending, reap, process, life, line,
                   barred>>

(* ... and then the two sets.  (Mutant: only the in-use set.)              *)
YankedInUse(n) == inUse' = inUse \ {n} /\ UNCHANGED available

Yanked(n) == inUse' = inUse \ {n} /\ available' = available \ {n}

QuarantineYank(o, n) ==
    /\ Holds(o, "yank", n)
    /\ Yanked(n)
    /\ Answers(o)
    /\ barred' = barred \cup {n}
    /\ lapsed' = lapsed \ {n}
    /\ UNCHANGED <<cooldown, proxySessions, hashParties, numStatus, pending,
                   reap, process, life, line>>

(* Any of the commands may fail: that is logged, and the request succeeds. *)
QuarantineYankFails(o, n) ==
    /\ RedisFails
    /\ Holds(o, "yank", n)
    /\ inUse' \in {inUse, inUse \ {n}}
    /\ available' \in {available, available \ {n}}
    /\ Answers(o)
    /\ barred' = barred \cup {n}
    /\ lapsed' = lapsed \cup {n}
    /\ UNCHANGED <<cooldown, proxySessions, hashParties, numStatus, pending,
                   reap, process, life, line>>

(* POST /admin/pool/release: only a row that is QUARANTINED.               *)
ReleaseRead(o, n) ==
    /\ op[o] = NoOp
    /\ numStatus[n] = "QUARANTINED"
    /\ Asks(o, "clear", n)
    /\ UNCHANGED <<poolVars, process, life, line, barred, lapsed>>

ReleaseRow(o, n) ==
    /\ Holds(o, "clear", n)
    /\ Says(n, "AVAILABLE")
    /\ Asks(o, "offer", n)
    /\ barred' = barred \ {n}
    /\ UNCHANGED <<redisPool, hashParties, pending, reap, process, life, line,
                   lapsed>>

ReleaseThrows(o, n) ==
    /\ DbFails
    /\ Holds(o, "clear", n)
    /\ \/ Says(n, "AVAILABLE") /\ lapsed' = lapsed \cup {n}
       \/ UNCHANGED <<numStatus, lapsed>>
    /\ Answers(o)
    /\ UNCHANGED <<redisPool, hashParties, pending, reap, process, life, line,
                   barred>>

Offered(n) == available' = available \cup {n}

(* The number is offered even if its row has been quarantined meanwhile.   *)
ReleaseOffer(o, n) ==
    /\ Holds(o, "offer", n)
    /\ Offered(n)
    /\ Answers(o)
    /\ lapsed' = IF numStatus[n] = "QUARANTINED" THEN lapsed \cup {n}
                                                 ELSE lapsed \ {n}
    /\ UNCHANGED <<inUse, cooldown, proxySessions, hashParties, numStatus,
                   pending, reap, process, life, line, barred>>

ReleaseOfferFails(o, n) ==
    /\ RedisFails
    /\ Holds(o, "offer", n)
    /\ Offered(n) \/ UNCHANGED available
    /\ Answers(o)
    /\ lapsed' = lapsed \cup {n}
    /\ UNCHANGED <<inUse, cooldown, proxySessions, hashParties, numStatus,
                   pending, reap, process, life, line, barred>>

Operate(o, n) ==
    \/ QuarantineRead(o, n) \/ QuarantineRow(o, n) \/ QuarantineThrows(o, n)
    \/ QuarantineYank(o, n) \/ QuarantineYankFails(o, n)
    \/ ReleaseRead(o, n) \/ ReleaseRow(o, n) \/ ReleaseThrows(o, n)
    \/ ReleaseOffer(o, n) \/ ReleaseOfferFails(o, n)

-----------------------------------------------------------------------------
(* The processes die.  Of what they did only the stores' contents stay; no *)
(* worker selects a session that was claimed but never ACTIVE, nor one     *)
(* that is EXPIRED.                                                        *)
Crash ==
    /\ process = "up" \/ load.pc = "placing"
    /\ process' = "down"
    /\ life' = [s \in Sessions |->
         IF life[s] \in {"claimed", "ended"} THEN "stuck" ELSE life[s]]
    /\ pending' = [c \in Callers |-> {}]
    /\ reap' = [r \in Reapers |-> NoJob]
    /\ op' = [o \in Operators |-> NoOp]
    /\ load' = NoLoad
    /\ UNCHANGED <<redisPool, hashParties, numStatus, line, barred, lapsed>>

(* With Redis emptied, a stuck session leaves nothing behind.              *)
RedisEmptied ==
    /\ MayFlush
    /\ process = "down" /\ load.pc = "idle"
    /\ available' = {}
    /\ inUse' = {}
    /\ cooldown' = [n \in Numbers |-> "none"]
    /\ proxySessions' = [n \in Numbers |-> {}]
    /\ life' = [s \in Sessions |->
         IF life[s] = "stuck" THEN "none" ELSE life[s]]
    /\ line' = [s \in Sessions |->
         IF life[s] = "stuck" THEN NoLine ELSE line[s]]
    /\ UNCHANGED <<hashParties, numStatus, pending, reap, process, load, op,
                   barred, lapsed>>

(* Where a boot puts a number: quarantine comes first, then the sessions,  *)
(* then the status.  (Mutants: the status alone counts; a number at rest   *)
(* is left to the reaper.)                                                 *)
PlaceByStatus(n) ==
    CASE numStatus[n] = "QUARANTINED" -> "nowhere"
      [] numStatus[n] = "IN_USE"      -> "inUse"
      [] numStatus[n] = "COOLDOWN"    -> "cooldown"
      [] numStatus[n] = "AVAILABLE"   -> "available"

PlaceUnlessResting(n) ==
    IF numStatus[n] \in {"QUARANTINED", "COOLDOWN"} THEN "nowhere"
    ELSE IF LiveOn(n) \/ numStatus[n] = "IN_USE" THEN "inUse"
    ELSE "available"

Place(n) ==
    IF numStatus[n] = "QUARANTINED" THEN "nowhere"
    ELSE IF LiveOn(n) \/ numStatus[n] = "IN_USE" THEN "inUse"
    ELSE IF numStatus[n] = "COOLDOWN" THEN "cooldown"
    ELSE "available"

(* loadPoolFromDb reads the rows of the numbers and those of the sessions  *)
(* that are live, from which everything else follows, ...                  *)
BootRead ==
    /\ load.pc = "idle"
    /\ process = "down" \/ BootsBeside
    /\ load' = [pc |-> "placing", goal |-> [n \in Numbers |-> Place(n)],
                spoilt |-> {}]
    /\ UNCHANGED <<poolVars, process, life, line, op, barred, lapsed>>

(* ... and places each number, one at rest until the row's cooldown_until. *)
(* Commands of the pipeline that fail are not reported; `done' names the   *)
(* sets whose command is executed.                                         *)
Sets == {"available", "inUse", "cooldown"}

Todo == {n \in Numbers : load.goal[n] # "placed"}

Pipelined(n, done) ==
    LET put(set, name) == IF name \notin done THEN set
                          ELSE IF load.goal[n] = name THEN set \cup {n}
                          ELSE set \ {n}
        phases == IF "cooldown" \notin done THEN {cooldown[n]}
                  ELSE IF load.goal[n] = "cooldown" THEN {"waiting", "elapsed"}
                  ELSE {"none"}
    IN  /\ available' = put(available, "available")
        /\ inUse' = put(inUse, "inUse")
        /\ \E phase \in phases : cooldown' = [cooldown EXCEPT ![n] = phase]

BootPlace(n, done) ==
    LET clean == done = Sets /\ n \notin load.spoilt
    IN  /\ load.pc = "placing"
        /\ n \in Todo
        /\ done = Sets \/ RedisFails
        /\ Pipelined(n, done)
        /\ load' = [load EXCEPT !.goal[n] = "placed",
             !.spoilt = IF done = Sets THEN @ ELSE @ \cup {n}]
        /\ barred' = IF ~clean THEN barred
                     ELSE IF numStatus[n] = "QUARANTINED" THEN barred \cup {n}
                     ELSE barred \ {n}
        /\ lapsed' = IF clean THEN lapsed \ {n} ELSE lapsed \cup {n}
        /\ UNCHANGED <<proxySessions, hashParties, numStatus, pending, reap,
                       process, life, line, op>>

(* With the boot done, or given up after an error that is only logged, the *)
(* process serves.  It may give up before it has read anything.            *)
BootEnds ==
    /\ process' = "up"
    /\ load' = NoLoad
    /\ UNCHANGED <<poolVars, life, line, op, barred>>

BootDone ==
    /\ load.pc = "placing"
    /\ Todo = {}
    /\ BootEnds
    /\ UNCHANGED lapsed

BootFails ==
    LET missed == IF load.pc = "placing" THEN Todo ELSE Numbers
    IN  /\ RedisFails \/ DbFails
        /\ load.pc = "placing" \/ process = "down"
        /\ BootEnds
        /\ lapsed' = lapsed \cup missed

-----------------------------------------------------------------------------
Serve ==
    \/ \E s \in Sessions, n \in Numbers : ClaimNumber(s, n)
    \/ \E s \in Sessions : Activate(s) \/ MarkExpired(s)
    \/ \E c \in Callers, s \in Sessions, rest \in BOOLEAN : LetGo(c, s, rest)
    \/ \E o \in Operators, n \in Numbers : Operate(o, n)
    \/ /\ \/ \E c \in Callers : WriteBack(c)
          \/ \E r \in Reapers : ReapWritten(r)
       /\ UNCHANGED <<process, life, line, op, barred, lapsed>>
    \/ /\ \/ \E c \in Callers : LetGoUnwritten(c)
          \/ \E r \in Reapers : ReapUnwritten(r)
       /\ UNCHANGED <<process, life, line, op, barred>>

OpsNext ==
    \/ process = "up" /\ Serve /\ Crosses
    \/ \E n \in Numbers : CooldownElapses(n) /\ UNCHANGED ownVars
    \/ Crash
    \/ RedisEmptied
    \/ BootRead
    \/ \E n \in Numbers, done \in SUBSET Sets : BootPlace(n, done)
    \/ BootDone
    \/ BootFails

OpsSpec == OpsInit /\ [][OpsNext]_opsVars

-----------------------------------------------------------------------------
(* Properties.                                                             *)

Offering(n) == \E o \in Operators : Holds(o, "offer", n)
Yanking(n) == \E o \in Operators : Holds(o, "yank", n)
Owed(n) == \E c \in Callers : \E w \in pending[c] : w.number = n
Reaped(n) == \E r \in Reapers : n \in reap[r].batch

(* "Without this, a reboot re-adds an in-use number to the available pool"  *)
(* (number-pool.ts:358-362): wherever the processes died, and whatever      *)
(* Redis lost, a boot ends with every number in one place, in the in-use    *)
(* set if a live session holds it, and in none if it is quarantined.  Two   *)
(* exceptions: what the boot failed to place, an error that index.ts:130    *)
(* logs before it serves; and, of a boot beside processes that serve, what  *)
(* these changed after it had read the rows.                                *)
BootReconciles ==
    [][load.pc = "placing" /\ load'.pc = "idle" /\ process' = "up" =>
         \A n \in Numbers \ (Todo \cup load.spoilt) :
           IF numStatus[n] = "QUARANTINED" THEN Places(n) = {}
           ELSE IF LiveOn(n) THEN Places(n) = {"inUse"}
           ELSE Cardinality(Places(n)) = 1]_opsVars

(* While a process is up, no number drops out of the pool but by a          *)
(* quarantine, until the release from it is about to offer it again: also   *)
(* when processes died between the reaper's ZREM and SADD, between a        *)
(* release and its UPDATE, or in the middle of an operator's request        *)
(* (number-pool.ts:269-274, 242-247; admin.ts:678, 745-753).  The exception *)
(* is a number that the last boot or request to deal with it did not put    *)
(* where its row says: a command failed, and the error was only logged      *)
(* (admin.ts:690, 756, index.ts:130) or answered with a 500, or others had  *)
(* changed the row in between.                                              *)
NumbersSurvive ==
    process = "up" =>
      \A n \in Numbers \ lapsed :
        \/ n \in available \cup inUse \cup Resting \cup Lifted
        \/ n \in barred
        \/ Offering(n)

(* A number whose row says QUARANTINED is not offered, once nobody is left  *)
(* who held it when it was quarantined: sessions on it, a release that owes *)
(* its UPDATE, the reaper that found it at rest (admin.ts:678-690).  The    *)
(* exception is as above; a release or a reap whose UPDATE over such a row  *)
(* was lost (number-pool.ts:248, 280) also belongs to it.                   *)
QuarantineHolds ==
    \A n \in Numbers \ lapsed :
      /\ process = "up"
      /\ numStatus[n] = "QUARANTINED"
      /\ n \notin Held \cup Resting
      /\ ~Yanking(n) /\ ~Owed(n) /\ ~Reaped(n)
      => n \notin available

=============================================================================
