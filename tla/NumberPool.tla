----------------------------- MODULE NumberPool -----------------------------
(***************************************************************************)
(* The proxy-number pool of one region (services/number-pool.ts) and the   *)
(* loop that empties its cooldown set (workers/pool-reaper.ts).            *)
(*                                                                         *)
(* Redis runs a Lua script without interruption, so each script is one     *)
(* action.  Everything else is interleaved at the granularity of one store *)
(* command: the Postgres write that follows a release is a step of its own *)
(* (pending), and so are the commands of the reaper's pipeline, which is   *)
(* not a MULTI and may be cut by commands of other connections.            *)
(*                                                                         *)
(* Time is abstracted to what the reaper can tell apart: a number in the   *)
(* cooldown set is "waiting" until its score is in the past, then          *)
(* "elapsed".                                                              *)
(***************************************************************************)
EXTENDS FiniteSets

CONSTANTS
    Numbers,          \* the proxy numbers provisioned in the region
    Sessions,         \* session ids
    Parties,          \* (tenant-salted) phone hashes
    Callers,          \* asynchronous computations that call release()
    Reapers,          \* processes that run a PoolReaperWorker
    DbFails           \* TRUE when the best-effort Postgres writes may fail

ASSUME PoolAssumption == DbFails \in BOOLEAN

VARIABLES
    available,        \* pool:{region}:available
    inUse,            \* pool:{region}:in_use
    cooldown,         \* pool:{region}:cooldown, the score as a phase
    proxySessions,    \* proxy:{number}:sessions
    hashParties,      \* party_a_hash, party_b_hash of session:{sid}; {} if none
    numStatus,        \* proxy_numbers.status in Postgres
    pending,          \* the Postgres write a release() still owes
    reap              \* a reapCooldown() in progress, per process

redisPool == <<available, inUse, cooldown, proxySessions>>
poolVars  == <<redisPool, hashParties, numStatus, pending, reap>>

Phases    == {"none", "waiting", "elapsed"}
Statuses  == {"AVAILABLE", "IN_USE", "COOLDOWN", "QUARANTINED"}
WriteBacks == [number : Numbers, status : {"AVAILABLE", "COOLDOWN"}]
ReapJobs  == [batch : SUBSET Numbers, todo : SUBSET Numbers,
              lifted : SUBSET Numbers]
NoJob     == [batch |-> {}, todo |-> {}, lifted |-> {}]

PoolTypeOK ==
    /\ available \subseteq Numbers
    /\ inUse \subseteq Numbers
    /\ cooldown \in [Numbers -> Phases]
    /\ proxySessions \in [Numbers -> SUBSET Sessions]
    /\ hashParties \in [Sessions -> SUBSET Parties]
    /\ numStatus \in [Numbers -> Statuses]
    /\ pending \in [Callers -> SUBSET WriteBacks]
    /\ reap \in [Reapers -> ReapJobs]

-----------------------------------------------------------------------------
(* A freshly seeded region: every row of proxy_numbers is AVAILABLE and    *)
(* loadPoolFromDb has put every number in the available set.               *)
PoolInit ==
    /\ available = Numbers
    /\ inUse = {}
    /\ cooldown = [n \in Numbers |-> "none"]
    /\ proxySessions = [n \in Numbers |-> {}]
    /\ hashParties = [s \in Sessions |-> {}]
    /\ numStatus = [n \in Numbers |-> "AVAILABLE"]
    /\ pending = [c \in Callers |-> {}]
    /\ reap = [r \in Reapers |-> NoJob]

-----------------------------------------------------------------------------
(* ALLOCATE_SCRIPT.  P holds the two party hashes of the new session.  A   *)
(* session whose hash is missing has nil parties and overlaps nothing.     *)
(* (Mutant: only a session between the same two parties is an overlap.)    *)
OverlapsSamePair(n, P) == \E s \in proxySessions[n] : P \subseteq hashParties[s]

Overlaps(n, P) == \E s \in proxySessions[n] : hashParties[s] \cap P # {}

Claim(s, n) == proxySessions' = [proxySessions EXCEPT ![n] = @ \cup {s}]

(* The first session on a number moves it to the in-use set.               *)
(* (Mutant: it is added there, but stays available.)                       *)
TakeOutCopying(n) ==
    /\ inUse' = inUse \cup {n}
    /\ UNCHANGED available

TakeOut(n) ==
    /\ available' = available \ {n}
    /\ inUse' = inUse \cup {n}

(* One of the random draws over the available set succeeds.                *)
AllocateAvailable(s, P, n) ==
    /\ n \in available
    /\ ~Overlaps(n, P)
    /\ \/ /\ proxySessions[n] = {}
          /\ TakeOut(n)
       \/ /\ proxySessions[n] # {}
          /\ UNCHANGED <<available, inUse>>
    /\ Claim(s, n)

(* Every draw may have failed: nothing to draw, or an overlapping number   *)
(* that SRANDMEMBER returned each time.                                    *)
DrawsMayFail(P) == available = {} \/ \E m \in available : Overlaps(m, P)

(* The second loop shares a number that is already in use.                 *)
AllocateShared(s, P, n) ==
    /\ DrawsMayFail(P)
    /\ n \in inUse
    /\ ~Overlaps(n, P)
    /\ Claim(s, n)
    /\ UNCHANGED <<available, inUse>>

Allocate(s, P, n) ==
    /\ AllocateAvailable(s, P, n) \/ AllocateShared(s, P, n)
    /\ UNCHANGED <<cooldown, hashParties, numStatus, pending, reap>>

(* The script returns "": no number of either set can take the pair.       *)
Exhausted(P) ==
    /\ DrawsMayFail(P)
    /\ \A n \in inUse : Overlaps(n, P)

-----------------------------------------------------------------------------
(* RELEASE_SCRIPT and the write to Postgres that follows it.  rest says    *)
(* whether the caller asked for a cooldown.                                *)
(* (Mutants: any session that leaves counts as the last; the status is not *)
(* one of the column's; the number is not added to the cooldown set.)      *)
LeavesAny(s, n) == TRUE

LeavesLast(s, n) == proxySessions[n] \subseteq {s}

ReleasedResting(rest) == IF rest THEN "RESTING" ELSE "AVAILABLE"

ReleasedStatus(rest) == IF rest THEN "COOLDOWN" ELSE "AVAILABLE"

ReleaseLastForgets(c, n, rest) ==
    /\ inUse' = inUse \ {n}
    /\ available' = IF rest THEN available \ {n} ELSE available \cup {n}
    /\ pending' = [pending EXCEPT ![c] =
                     {[number |-> n, status |-> ReleasedStatus(rest)]}]
    /\ UNCHANGED cooldown

ReleaseLast(c, n, rest) ==
    /\ inUse' = inUse \ {n}
    /\ available' = IF rest THEN available \ {n} ELSE available \cup {n}
    /\ cooldown' = IF rest THEN [cooldown EXCEPT ![n] = "waiting"] ELSE cooldown
    /\ pending' = [pending EXCEPT ![c] =
                     {[number |-> n, status |-> ReleasedStatus(rest)]}]

Release(c, s, n, rest) ==
    /\ pending[c] = {}
    /\ proxySessions' = [proxySessions EXCEPT ![n] = @ \ {s}]
    /\ \/ /\ LeavesLast(s, n)
          /\ ReleaseLast(c, n, rest)
       \/ /\ ~LeavesLast(s, n)
          /\ UNCHANGED <<available, inUse, cooldown, pending>>
    /\ UNCHANGED <<hashParties, numStatus, reap>>

(* release() resumes and updates the row, or the update fails and is only  *)
(* logged.                                                                 *)
WriteBack(c) ==
    /\ \E w \in pending[c] :
         numStatus' = [numStatus EXCEPT ![w.number] = w.status]
    /\ pending' = [pending EXCEPT ![c] = {}]
    /\ UNCHANGED <<redisPool, hashParties, reap>>

WriteBackLost(c) ==
    /\ DbFails
    /\ pending[c] # {}
    /\ pending' = [pending EXCEPT ![c] = {}]
    /\ UNCHANGED <<redisPool, hashParties, numStatus, reap>>

-----------------------------------------------------------------------------
(* The clock passes a number's cooldown score.                             *)
CooldownElapses(n) ==
    /\ cooldown[n] = "waiting"
    /\ cooldown' = [cooldown EXCEPT ![n] = "elapsed"]
    /\ UNCHANGED <<available, inUse, proxySessions, hashParties, numStatus,
                   pending, reap>>

(* reapCooldown(): ZRANGEBYSCORE 0 now, ...                                *)
(* (Mutant: the range is not bounded by now.)                              *)
AllResting == {n \in Numbers : cooldown[n] # "none"}

Expired == {n \in Numbers : cooldown[n] = "elapsed"}

ReapScan(r) ==
    /\ reap[r].batch = {}
    /\ Expired # {}
    /\ reap' = [reap EXCEPT ![r] =
                  [batch |-> Expired, todo |-> Expired, lifted |-> {}]]
    /\ UNCHANGED <<redisPool, hashParties, numStatus, pending>>

(* ... then per number a ZREM ...                                          *)
ReapLift(r, n) ==
    /\ n \in reap[r].todo
    /\ reap[r].lifted = {}
    /\ cooldown' = [cooldown EXCEPT ![n] = "none"]
    /\ reap' = [reap EXCEPT ![r].todo = @ \ {n}, ![r].lifted = {n}]
    /\ UNCHANGED <<available, inUse, proxySessions, hashParties, numStatus,
                   pending>>

(* ... and a SADD, ...                                                     *)
ReapReturn(r, n) ==
    /\ n \in reap[r].lifted
    /\ available' = available \cup {n}
    /\ reap' = [reap EXCEPT ![r].lifted = {}]
    /\ UNCHANGED <<inUse, cooldown, proxySessions, hashParties, numStatus,
                   pending>>

(* ... and at the end one UPDATE of every row scanned, which may fail.     *)
ReapDone(r) ==
    /\ reap[r].batch # {}
    /\ reap[r].todo = {}
    /\ reap[r].lifted = {}
    /\ reap' = [reap EXCEPT ![r] = NoJob]
    /\ UNCHANGED <<redisPool, hashParties, pending>>

ReapWriteBack(r) ==
    /\ ReapDone(r)
    /\ numStatus' = [n \in Numbers |->
                       IF n \in reap[r].batch THEN "AVAILABLE" ELSE numStatus[n]]

ReapWriteBackLost(r) ==
    /\ DbFails
    /\ ReapDone(r)
    /\ UNCHANGED numStatus

ReapStep(r) ==
    \/ ReapScan(r)
    \/ \E n \in Numbers : ReapLift(r, n) \/ ReapReturn(r, n)
    \/ ReapWriteBack(r)
    \/ ReapWriteBackLost(r)

-----------------------------------------------------------------------------
(* The environment of the pool: session hashes come and go (createSession, *)
(* swapTarget, expiry, TTL), and callers allocate and release.             *)
HashChanges(s, P) ==
    /\ hashParties' = [hashParties EXCEPT ![s] = P]
    /\ UNCHANGED <<redisPool, numStatus, pending, reap>>

(* expireSession's own SREM on proxy:{number}:sessions, which changes      *)
(* something only when the release before it failed.                       *)
Unclaim(s, n) ==
    /\ proxySessions' = [proxySessions EXCEPT ![n] = @ \ {s}]
    /\ UNCHANGED <<available, inUse, cooldown, hashParties, numStatus, pending,
                   reap>>

Unclaimed(s) == \A n \in Numbers : s \notin proxySessions[n]

PoolNext ==
    \/ \E s \in Sessions, P \in SUBSET Parties, n \in Numbers :
         Unclaimed(s) /\ Allocate(s, P, n)
    \/ \E c \in Callers, s \in Sessions, n \in Numbers, rest \in BOOLEAN :
         Release(c, s, n, rest)
    \/ \E s \in Sessions, n \in Numbers : Unclaim(s, n)
    \/ \E c \in Callers : WriteBack(c) \/ WriteBackLost(c)
    \/ \E n \in Numbers : CooldownElapses(n)
    \/ \E r \in Reapers : ReapStep(r)
    \/ \E s \in Sessions, P \in SUBSET Parties : HashChanges(s, P)

PoolSpec == PoolInit /\ [][PoolNext]_poolVars

-----------------------------------------------------------------------------
(* Properties.                                                             *)

Lifted == UNION {reap[r].lifted : r \in Reapers}
Resting == {n \in Numbers : cooldown[n] # "none"}
Held == {n \in Numbers : proxySessions[n] # {}}

(* A number some session claims is in the in-use set, whatever reapers and *)
(* repeated releases do: the scripts move a number and its claims in one   *)
(* step, and only the last release takes it out (number-pool.ts:73-78,     *)
(* 138-146).                                                               *)
HeldIsInUse == Held \subseteq inUse

(* No number ever drops out of the pool: it is in one of the three sets or *)
(* in the hands of a reaper between its ZREM and its SADD                  *)
(* (number-pool.ts:139-145, 270-274).                                      *)
NoNumberLost == Numbers \subseteq available \cup inUse \cup Resting \cup Lifted

(* Both together: whatever callers release, and however often, and however *)
(* many reapers run, every number that is held is in the in-use set and no *)
(* number is lost (number-pool.ts:135-150, 260-287).                       *)
PoolSafe == HeldIsInUse /\ NoNumberLost

(* While one reaper runs and only holders release, every number is in       *)
(* exactly one place, and it is in use exactly while some session claims    *)
(* it.  What breaks it: a reaper acting on a list that is no longer true, a *)
(* release that forgets one of the sets (number-pool.ts:138-146, 260-274).  *)
Partition ==
    /\ inUse = Held
    /\ available \cap inUse = {}
    /\ Resting \cap (available \cup inUse) = {}
    /\ Lifted \cap (available \cup inUse \cup Resting) = {}

(* A reaper has the number on the list it read.                            *)
Listed(n) == \E r \in Reapers : n \in reap[r].batch

(* A step that releases the number for the last time and asks for no rest. *)
Freed(n) ==
    \E c \in Callers :
      pending[c] = {} /\ pending'[c] = {[number |-> n, status |-> "AVAILABLE"]}

(* However many reapers run, a rest that no reaper's list foresaw is served *)
(* in full: while its score lies ahead the number stays in the cooldown    *)
(* set, no reaper puts it on a list, and it is offered only by a release   *)
(* that asks for no rest.  (A reaper whose list is older than the rest may *)
(* cut it, number-pool.ts:260-274: reaped by another, taken and released   *)
(* meanwhile, the number looks the same to its pipeline.)                  *)
RestIsServed ==
    [][\A n \in Numbers : cooldown[n] = "waiting" /\ ~Listed(n) =>
         /\ cooldown'[n] # "none"
         /\ cooldown'[n] = "waiting" => ~Listed(n)'
         /\ n \in available' \ available => Freed(n)]_poolVars

(* The pool as its users see it: a lease of numbers (module NumberLease).  *)
Phase(n) ==
    CASE n \in inUse -> "held"
      [] n \in available -> "free"
      [] cooldown[n] = "waiting" -> "resting"
      [] OTHER -> "rested"

Lease == INSTANCE NumberLease WITH
           holders <- proxySessions, phase <- [n \in Numbers |-> Phase(n)]

(* While one reaper runs and only holders release, every step of the       *)
(* scripts and of the reaper is a step of the lease, or invisible to its   *)
(* users.                                                                  *)
LeaseSpec == Lease!Spec

=============================================================================
