--------------------------- MODULE SessionManager ---------------------------
(***************************************************************************)
(* Masking sessions over the number pool: the API requests that create,    *)
(* end, retarget and extend a session (services/session-manager.ts,        *)
(* api/routes/sessions.ts, services/tier-enforcer.ts), and the two parties *)
(* that expire one, the expiry workers (workers/session-expiry.ts) and     *)
(* operators (api/routes/admin.ts).                                        *)
(*                                                                         *)
(* A handler is a sequence of awaited store commands; each command is one  *)
(* action, and what the handler read before an await is kept in its        *)
(* continuation (req for requests, job for expirers).  An HSET and the     *)
(* EXPIRE of the same key that follows it are one action, whose EXPIRE may *)
(* fail.                                                                   *)
(***************************************************************************)
EXTENDS NumberPool, Naturals

CONSTANTS
    Tenants,
    Phones,
    Clients,        \* API connections, each with one request at a time
    Workers,        \* processes that run a SessionExpiryWorker
    Admins,         \* operators that force sessions to expire
    TierLimit,      \* maxConcurrentSessions of the tenants' tier
    Requests,       \* kinds of request the clients send besides create
    ListedIds,      \* TRUE: callers take ids from GET /sessions, else only
                    \* ids that POST /sessions has returned
    Rests,          \* whether expiry puts a number to rest (cooldown_min > 0)
    StoreFails      \* handlers in which a store command may fail

Expirers == Workers \cup Admins

ASSUME SessionAssumption ==
    /\ Parties = Tenants \X Phones
    /\ Callers = Clients \cup Expirers
    /\ Clients \cap Expirers = {}
    /\ Workers \cap Admins = {}
    /\ TierLimit \in Nat
    /\ Requests \subseteq {"end", "swap", "extend"}
    /\ ListedIds \in BOOLEAN
    /\ Rests \subseteq BOOLEAN
    /\ StoreFails \subseteq {"allocate", "create", "rollback", "expire"}

VARIABLES
    rows,           \* the sessions table
    due,            \* sessions whose expires_at is in the past
    hashState,      \* state field of session:{sid}; "none" if there is no key
    hashId,         \* sessions whose session:{sid} has its id field
    ttl,            \* how long session:{sid} lasts, against the row's deadline
    phoneSessions,  \* phone:{hash}:sessions
    tenantActive,   \* tenant:{id}:active_sessions
    req,            \* the request a client has in progress
    job             \* the expiry an expirer has in progress

cacheVars   == <<hashState, hashId, ttl>>
indexVars   == <<phoneSessions, tenantActive>>
sessionVars == <<rows, due, cacheVars, indexVars, req, job>>
vars        == <<poolVars, sessionVars>>

LiveStates  == {"ACTIVE", "GRACE_PERIOD"}
Pairs       == {p \in Parties \X Parties : p[1][1] = p[2][1] /\ p[1] # p[2]}
tenantOf(p) == p[1]

NoRow == [state |-> "NONE"]
Row   == [state : LiveStates \cup {"PENDING", "EXPIRED", "FAILED"},
          a : Parties, b : Parties, proxy : Numbers]
NoReq == [pc |-> "idle"]
NoExpiry == [pc |-> "idle", batch |-> {}]

SessionTypeOK ==
    /\ PoolTypeOK
    /\ rows \in [Sessions -> Row \cup {NoRow}]
    /\ due \subseteq Sessions
    /\ hashState \in [Sessions -> LiveStates \cup {"none", "bare"}]
    /\ hashId \subseteq Sessions
    /\ ttl \in [Sessions -> {"none", "full", "short"}]
    /\ phoneSessions \in [Parties -> SUBSET Sessions]
    /\ tenantActive \in [Tenants -> SUBSET Sessions]

SessionInit ==
    /\ PoolInit
    /\ rows = [s \in Sessions |-> NoRow]
    /\ due = {}
    /\ hashState = [s \in Sessions |-> "none"]
    /\ hashId = {}
    /\ ttl = [s \in Sessions |-> "none"]
    /\ phoneSessions = [p \in Parties |-> {}]
    /\ tenantActive = [t \in Tenants |-> {}]
    /\ req = [c \in Clients |-> NoReq]
    /\ job = [e \in Expirers |-> NoExpiry]

-----------------------------------------------------------------------------
(* Helpers on continuations and rows.                                      *)
At(c, pc)     == req[c].pc = pc
Goto(c, pc)   == req' = [req EXCEPT ![c].pc = pc]
Finish(c)     == req' = [req EXCEPT ![c] = NoReq]
HasRow(s)     == rows[s] # NoRow
IsLive(s)     == rows[s].state \in LiveStates
SetState(s, st) == rows' = [rows EXCEPT ![s].state = st]

CreatePcs == {"insert", "activate", "cache", "track", "reply"}
RollbackPcs == {"rollback", "failRow"}
Creating(s) ==
    \E c \in Clients : req[c].pc \in CreatePcs \cup RollbackPcs /\ req[c].s = s

(* Ids a caller may name in a request.                                     *)
Known(s) == HasRow(s) /\ (ListedIds \/ (~Creating(s) /\ rows[s].state # "FAILED"))

(* randomUUID() is new: nothing mentions it yet.                           *)
Fresh(s) == ~HasRow(s) /\ \A p \in Parties : s \notin phoneSessions[p]

-----------------------------------------------------------------------------
(* POST /sessions.  enforceSessionLimit counts the tenant's active set; a  *)
(* request over the limit is answered 429 and leaves no trace.             *)
(* (Mutant: one more is let in.)                                           *)
WithinLimitOrAt(t) == Cardinality(tenantActive[t]) <= TierLimit

WithinLimit(t) == Cardinality(tenantActive[t]) < TierLimit

CreateAdmit(c, t) ==
    /\ At(c, "idle")
    /\ WithinLimit(t)
    /\ req' = [req EXCEPT ![c] = [pc |-> "allocate", tenant |-> t]]
    /\ UNCHANGED <<poolVars, rows, due, cacheVars, indexVars, job>>

(* createSession: hash both phones, allocate (the script indexes the       *)
(* session under both phones), and go on, or answer 503 if the script took *)
(* effect and its reply is lost: allocate() swallows the error, and        *)
(* nothing is rolled back; ...                                             *)
CreateAllocate(c, s, p, n) ==
    /\ At(c, "allocate")
    /\ tenantOf(p[1]) = req[c].tenant
    /\ Fresh(s)
    /\ Allocate(s, {p[1], p[2]}, n)
    /\ phoneSessions' = [q \in Parties |->
         IF q \in {p[1], p[2]} THEN phoneSessions[q] \cup {s}
                               ELSE phoneSessions[q]]
    /\ \/ req' = [req EXCEPT ![c] = [pc |-> "insert", s |-> s,
                                     a |-> p[1], b |-> p[2], n |-> n]]
       \/ "allocate" \in StoreFails /\ Finish(c)
    /\ UNCHANGED <<rows, due, cacheVars, tenantActive, job>>

(* ... or answer 503 when the script returns "" or does not run.           *)
CreateExhausted(c, p) ==
    /\ At(c, "allocate")
    /\ tenantOf(p[1]) = req[c].tenant
    /\ Exhausted({p[1], p[2]}) \/ "allocate" \in StoreFails
    /\ Finish(c)
    /\ UNCHANGED <<poolVars, rows, due, cacheVars, indexVars, job>>

CreateInsert(c) ==
    /\ At(c, "insert")
    /\ rows' = [rows EXCEPT ![req[c].s] =
         [state |-> "PENDING", a |-> req[c].a, b |-> req[c].b,
          proxy |-> req[c].n]]
    /\ Goto(c, "activate")
    /\ UNCHANGED <<poolVars, due, cacheVars, indexVars, job>>

CreateActivate(c) ==
    /\ At(c, "activate")
    /\ SetState(req[c].s, "ACTIVE")
    /\ Goto(c, "cache")
    /\ UNCHANGED <<poolVars, due, cacheVars, indexVars, job>>

(* The hash, and its TTL: the key lasts as long as the row, or for ever    *)
(* when the EXPIRE fails.  (Mutant: its TTL leaves the grace period out.)  *)
FirstTtlWithoutGrace(s) == [ttl EXCEPT ![s] = "short"]

FirstTtl(s) == [ttl EXCEPT ![s] = "full"]

CreateCache(c) ==
    LET s == req[c].s
    IN  /\ At(c, "cache")
        /\ HashChanges(s, {req[c].a, req[c].b})
        /\ hashState' = [hashState EXCEPT ![s] = "ACTIVE"]
        /\ hashId' = hashId \cup {s}
        /\ \/ ttl' = FirstTtl(s) /\ Goto(c, "track")
           \/ "create" \in StoreFails /\ UNCHANGED ttl /\ Goto(c, "rollback")
        /\ UNCHANGED <<rows, due, indexVars, job>>

CreateTrack(c) ==
    /\ At(c, "track")
    /\ tenantActive' = [tenantActive EXCEPT ![tenantOf(req[c].a)] = @ \cup {req[c].s}]
    /\ Goto(c, "reply")
    /\ UNCHANGED <<poolVars, rows, due, cacheVars, phoneSessions, job>>

(* The row is read back and returned; rows are never deleted.              *)
CreateReply(c) ==
    /\ At(c, "reply")
    /\ Finish(c)
    /\ UNCHANGED <<poolVars, rows, due, cacheVars, indexVars, job>>

(* A command throws (before or after it took effect, see the step after):  *)
(* the catch block releases the number without a cooldown and marks the    *)
(* row FAILED, and swallows the failure of either (one that took effect is *)
(* the step itself, with WriteBackLost for the rest of release()).         *)
CreateFails(c) ==
    /\ "create" \in StoreFails
    /\ req[c].pc \in CreatePcs
    /\ Goto(c, "rollback")
    /\ UNCHANGED <<poolVars, rows, due, cacheVars, indexVars, job>>

RollbackRelease(c) ==
    /\ At(c, "rollback")
    /\ Release(c, req[c].s, req[c].n, FALSE)
    /\ Goto(c, "failRow")
    /\ UNCHANGED <<rows, due, cacheVars, indexVars, job>>

RollbackRow(c) ==
    /\ At(c, "failRow")
    /\ pending[c] = {}
    /\ IF HasRow(req[c].s) THEN SetState(req[c].s, "FAILED") ELSE UNCHANGED rows
    /\ Finish(c)
    /\ UNCHANGED <<poolVars, due, cacheVars, indexVars, job>>

RollbackFails(c) ==
    /\ "rollback" \in StoreFails
    /\ \/ At(c, "rollback") /\ Goto(c, "failRow")
       \/ At(c, "failRow") /\ pending[c] = {} /\ Finish(c)
    /\ UNCHANGED <<poolVars, rows, due, cacheVars, indexVars, job>>

Create(c) ==
    \/ \E t \in Tenants : CreateAdmit(c, t)
    \/ \E s \in Sessions, p \in Pairs, n \in Numbers : CreateAllocate(c, s, p, n)
    \/ \E p \in Pairs : CreateExhausted(c, p)
    \/ CreateInsert(c)
    \/ CreateActivate(c)
    \/ CreateCache(c)
    \/ CreateTrack(c)
    \/ CreateReply(c)
    \/ CreateFails(c)
    \/ RollbackRelease(c)
    \/ RollbackRow(c)
    \/ RollbackFails(c)

-----------------------------------------------------------------------------
(* POST /sessions/:id/end.  endSession reads the row and returns it as it  *)
(* is when it is already ending or over, ...                               *)
EndRead(c, s) ==
    /\ "end" \in Requests
    /\ At(c, "idle")
    /\ Known(s)
    /\ rows[s].state \notin {"EXPIRED", "GRACE_PERIOD"}
    /\ \E grace \in BOOLEAN :      \* whether the row's grace period is not 0
         req' = [req EXCEPT ![c] = [pc |-> "endRow", s |-> s, grace |-> grace]]
    /\ UNCHANGED <<poolVars, rows, due, cacheVars, indexVars, job>>

(* A new deadline for the row: the key's TTL no longer reaches it.         *)
NewDeadline(s) ==
    /\ due' = due \ {s}
    /\ ttl' = [ttl EXCEPT ![s] = IF @ = "full" THEN "short" ELSE @]

(* ... updates it whatever it has become since, ...                        *)
(* (Mutant: without a grace period the session is over at once.)           *)
EndStateOver(grace) == IF grace THEN "GRACE_PERIOD" ELSE "EXPIRED"

EndState(grace) == "GRACE_PERIOD"

EndRow(c) ==
    /\ At(c, "endRow")
    /\ SetState(req[c].s, EndState(req[c].grace))
    /\ \/ req[c].grace /\ NewDeadline(req[c].s)
       \/ ~req[c].grace /\ due' = due \cup {req[c].s} /\ UNCHANGED ttl
    /\ Goto(c, "endCache")
    /\ UNCHANGED <<poolVars, hashState, hashId, indexVars, job>>

(* ... and sets the state field of the hash, creating the key if it has    *)
(* gone, and its TTL unless the grace period is zero.                      *)
EndCache(c) ==
    LET s == req[c].s
    IN  /\ At(c, "endCache")
        /\ hashState' = [hashState EXCEPT ![s] = "GRACE_PERIOD"]
        /\ ttl' = IF req[c].grace THEN [ttl EXCEPT ![s] = "full"] ELSE ttl
        /\ Finish(c)
        /\ UNCHANGED <<poolVars, rows, due, hashId, indexVars, job>>

-----------------------------------------------------------------------------
(* PATCH /sessions/:id/target.  swapTarget reads the row, ...              *)
SwapRead(c, s, b) ==
    /\ "swap" \in Requests
    /\ At(c, "idle")
    /\ Known(s)
    /\ IsLive(s)
    /\ tenantOf(b) = tenantOf(rows[s].a)
    /\ b \notin {rows[s].a, rows[s].b}
    /\ req' = [req EXCEPT ![c] = [pc |-> "siblings", s |-> s, old |-> rows[s].b,
                                  new |-> b, n |-> rows[s].proxy]]
    /\ UNCHANGED <<poolVars, rows, due, cacheVars, indexVars, job>>

(* ... the sessions on its number, ...                                     *)
SwapSiblings(c) ==
    /\ At(c, "siblings")
    /\ req' = [req EXCEPT ![c] =
         [pc |-> "probe", s |-> req[c].s, old |-> req[c].old, new |-> req[c].new,
          todo |-> proxySessions[req[c].n] \ {req[c].s}]]
    /\ UNCHANGED <<poolVars, rows, due, cacheVars, indexVars, job>>

(* (Mutant: only the agent of the sibling is compared.)                    *)
ConflictsWithAgent(sid, b) ==
    sid \in hashId /\ hashState[sid] \in LiveStates /\ b = rows[sid].a

Conflicts(sid, b) ==
    sid \in hashId /\ hashState[sid] \in LiveStates /\ b \in hashParties[sid]

(* ... the hash of each of them, giving up with 409 on a conflict, ...     *)
SwapProbe(c, sid) ==
    /\ At(c, "probe")
    /\ sid \in req[c].todo
    /\ IF Conflicts(sid, req[c].new)
         THEN Finish(c)
         ELSE req' = [req EXCEPT ![c].todo = @ \ {sid}]
    /\ UNCHANGED <<poolVars, rows, due, cacheVars, indexVars, job>>

(* ... writes the new target to the row, ...                               *)
SwapRow(c) ==
    /\ At(c, "probe")
    /\ req[c].todo = {}
    /\ rows' = [rows EXCEPT ![req[c].s].b = req[c].new]
    /\ Goto(c, "script")
    /\ UNCHANGED <<poolVars, due, cacheVars, indexVars, job>>

Unindex(p, s) == phoneSessions' = [phoneSessions EXCEPT ![p] = @ \ {s}]
Index(p, s)   == phoneSessions' = [phoneSessions EXCEPT ![p] = @ \cup {s}]

(* ... and runs SWAP_TARGET_SCRIPT, ...                                    *)
(* (Mutants: the script moves the index and leaves the hash; it leaves the *)
(* old target's index.)                                                    *)
SwapScriptIndexOnly(c) ==
    /\ At(c, "script")
    /\ hashState[req[c].s] # "none"
    /\ phoneSessions' = [phoneSessions EXCEPT ![req[c].old] = @ \ {req[c].s},
                                              ![req[c].new] = @ \cup {req[c].s}]
    /\ Finish(c)
    /\ UNCHANGED <<poolVars, rows, due, cacheVars, tenantActive, job>>

SwapScriptOnlyAdds(c) ==
    LET s == req[c].s
    IN  /\ At(c, "script")
        /\ hashState[s] # "none"
        /\ Index(req[c].new, s)
        /\ HashChanges(s, {req[c].new} \cup IF s \in hashId THEN {rows[s].a} ELSE {})
        /\ Finish(c)
        /\ UNCHANGED <<rows, due, cacheVars, tenantActive, job>>

SwapScript(c) ==
    LET s == req[c].s
    IN  /\ At(c, "script")
        /\ hashState[s] # "none"
        /\ phoneSessions' = [phoneSessions EXCEPT ![req[c].old] = @ \ {s},
                                                  ![req[c].new] = @ \cup {s}]
        /\ HashChanges(s, {req[c].new} \cup IF s \in hashId THEN {rows[s].a} ELSE {})
        /\ Finish(c)
        /\ UNCHANGED <<rows, due, cacheVars, tenantActive, job>>

(* ... which returns 0 when the hash has gone; the two index sets are then *)
(* rewritten one by one.                                                   *)
SwapMissing(c) ==
    /\ At(c, "script")
    /\ hashState[req[c].s] = "none"
    /\ Goto(c, "repairOld")
    /\ UNCHANGED <<poolVars, rows, due, cacheVars, indexVars, job>>

SwapRepairOld(c) ==
    /\ At(c, "repairOld")
    /\ Unindex(req[c].old, req[c].s)
    /\ Goto(c, "repairNew")
    /\ UNCHANGED <<poolVars, rows, due, cacheVars, tenantActive, job>>

SwapRepairNew(c) ==
    /\ At(c, "repairNew")
    /\ Index(req[c].new, req[c].s)
    /\ Finish(c)
    /\ UNCHANGED <<poolVars, rows, due, cacheVars, tenantActive, job>>

-----------------------------------------------------------------------------
(* PATCH /sessions/:id with gracePeriodMinutes: a session in its grace     *)
(* period gets a new deadline in Postgres; Redis is not touched.           *)
ExtendRead(c, s) ==
    /\ "extend" \in Requests
    /\ At(c, "idle")
    /\ Known(s)
    /\ rows[s].state = "GRACE_PERIOD"
    /\ req' = [req EXCEPT ![c] = [pc |-> "extend", s |-> s]]
    /\ UNCHANGED <<poolVars, rows, due, cacheVars, indexVars, job>>

ExtendRow(c) ==
    /\ At(c, "extend")
    /\ NewDeadline(req[c].s)
    /\ Finish(c)
    /\ UNCHANGED <<poolVars, rows, hashState, hashId, indexVars, job>>

Modify(c) ==
    \/ \E s \in Sessions : EndRead(c, s) \/ ExtendRead(c, s) \/ SwapProbe(c, s)
    \/ EndRow(c)
    \/ EndCache(c)
    \/ \E s \in Sessions, b \in Parties : SwapRead(c, s, b)
    \/ SwapSiblings(c)
    \/ SwapRow(c)
    \/ SwapScript(c)
    \/ SwapMissing(c)
    \/ SwapRepairOld(c)
    \/ SwapRepairNew(c)
    \/ ExtendRow(c)

-----------------------------------------------------------------------------
(* SessionExpiryWorker.tick selects the rows that are due and expires them *)
(* one after the other.  (Mutant: sessions in their grace period are not   *)
(* selected.)                                                              *)
DueActive == {s \in due : rows[s].state = "ACTIVE"}

DueSessions == {s \in due : IsLive(s)}

WorkerSelect(w) ==
    /\ job[w] = NoExpiry
    /\ DueSessions # {}
    /\ job' = [job EXCEPT ![w].batch = DueSessions]
    /\ UNCHANGED <<poolVars, rows, due, cacheVars, indexVars, req>>

(* POST /admin/sessions/:id/expire, for any session that is not EXPIRED.   *)
AdminSelect(e, s) ==
    /\ job[e] = NoExpiry
    /\ Known(s)
    /\ rows[s].state # "EXPIRED"
    /\ job' = [job EXCEPT ![e].batch = {s}]
    /\ UNCHANGED <<poolVars, rows, due, cacheVars, indexVars, req>>

JobAt(e, pc)   == job[e].pc = pc
JobGoto(e, pc) == job' = [job EXCEPT ![e].pc = pc]
JobDone(e, s)  == job' = [job EXCEPT ![e] =
                            [pc |-> "idle", batch |-> job[e].batch \ {s}]]

(* expireSession reads the row, and stops if it is EXPIRED already, ...    *)
ExpireRead(e, s) ==
    /\ JobAt(e, "idle")
    /\ s \in job[e].batch
    /\ IF rows[s].state = "EXPIRED"
         THEN JobDone(e, s)
         ELSE job' = [job EXCEPT ![e] =
                [pc |-> "mark", batch |-> job[e].batch, s |-> s,
                 a |-> rows[s].a, b |-> rows[s].b, n |-> rows[s].proxy]]
    /\ UNCHANGED <<poolVars, rows, due, cacheVars, indexVars, req>>

(* ... marks it, and goes on; an update that took effect and threw ends    *)
(* the expiry, and the next one finds the row EXPIRED; ...                 *)
ExpireMark(e) ==
    /\ JobAt(e, "mark")
    /\ SetState(job[e].s, "EXPIRED")
    /\ \/ JobGoto(e, "release")
       \/ "expire" \in StoreFails /\ JobDone(e, job[e].s)
    /\ UNCHANGED <<poolVars, due, cacheVars, indexVars, req>>

(* (Mutant: the number is released whoever else shares it.)               *)
ExpireReleaseOutright(e) ==
    /\ JobAt(e, "release")
    /\ proxySessions' = [proxySessions EXCEPT ![job[e].n] = @ \ {job[e].s}]
    /\ \E rest \in Rests : ReleaseLast(e, job[e].n, rest)
    /\ JobGoto(e, "delHash")
    /\ UNCHANGED <<hashParties, numStatus, reap, rows, due, cacheVars,
                   indexVars, req>>

ExpireRelease(e) ==
    /\ JobAt(e, "release")
    /\ \E rest \in Rests : Release(e, job[e].s, job[e].n, rest)
    /\ JobGoto(e, "delHash")
    /\ UNCHANGED <<rows, due, cacheVars, indexVars, req>>

(* (Mutant: the hash is marked instead of deleted.)                        *)
DropHashMarks(s) ==
    /\ HashChanges(s, {})
    /\ hashState' = [hashState EXCEPT ![s] = "EXPIRED"]
    /\ hashId' = hashId \ {s}
    /\ ttl' = [ttl EXCEPT ![s] = "none"]

DropHash(s) ==
    /\ HashChanges(s, {})
    /\ hashState' = [hashState EXCEPT ![s] = "none"]
    /\ hashId' = hashId \ {s}
    /\ ttl' = [ttl EXCEPT ![s] = "none"]

(* ... and, once release() has returned, removes the session's keys: the   *)
(* hash, its memberships on the number and the phones it read, and its     *)
(* place in the tenant's active set.                                       *)
ExpireDelHash(e) ==
    /\ JobAt(e, "delHash")
    /\ pending[e] = {}
    /\ DropHash(job[e].s)
    /\ JobGoto(e, "unclaim")
    /\ UNCHANGED <<rows, due, indexVars, req>>

ExpireUnclaim(e) ==
    /\ JobAt(e, "unclaim")
    /\ Unclaim(job[e].s, job[e].n)
    /\ JobGoto(e, "unindexA")
    /\ UNCHANGED <<rows, due, cacheVars, indexVars, req>>

ExpireUnindexA(e) ==
    /\ JobAt(e, "unindexA")
    /\ Unindex(job[e].a, job[e].s)
    /\ JobGoto(e, "unindexB")
    /\ UNCHANGED <<poolVars, rows, due, cacheVars, tenantActive, req>>

ExpireUnindexB(e) ==
    /\ JobAt(e, "unindexB")
    /\ Unindex(job[e].b, job[e].s)
    /\ JobGoto(e, "untrack")
    /\ UNCHANGED <<poolVars, rows, due, cacheVars, tenantActive, req>>

(* (Mutant: the session stays in the tenant's set.)                        *)
ExpireUntrackForgets(e) ==
    /\ JobAt(e, "untrack")
    /\ JobDone(e, job[e].s)
    /\ UNCHANGED <<poolVars, rows, due, cacheVars, indexVars, req>>

ExpireUntrack(e) ==
    /\ JobAt(e, "untrack")
    /\ tenantActive' = [tenantActive EXCEPT ![tenantOf(job[e].a)] = @ \ {job[e].s}]
    /\ JobDone(e, job[e].s)
    /\ UNCHANGED <<poolVars, rows, due, cacheVars, phoneSessions, req>>

(* A failed read or update ends this expiry with an error; a failed release *)
(* is logged and the cleanup follows; a failed cleanup command skips the    *)
(* rest of the cleanup.                                                     *)
ExpireFails(e) ==
    /\ "expire" \in StoreFails
    /\ \/ JobAt(e, "release") /\ JobGoto(e, "delHash")
       \/ /\ ~JobAt(e, "idle")
          /\ ~JobAt(e, "release")
          /\ pending[e] = {}
          /\ JobDone(e, job[e].s)
    /\ UNCHANGED <<poolVars, rows, due, cacheVars, indexVars, req>>

Expire(e) ==
    \/ \E s \in Sessions : ExpireRead(e, s)
    \/ ExpireMark(e)
    \/ ExpireRelease(e)
    \/ ExpireDelHash(e)
    \/ ExpireUnclaim(e)
    \/ ExpireUnindexA(e)
    \/ ExpireUnindexB(e)
    \/ ExpireUntrack(e)
    \/ ExpireFails(e)

-----------------------------------------------------------------------------
(* The clock.  A deadline is at least a minute away when it is set, which  *)
(* is taken to be longer than the rest of createSession.  It is observed   *)
(* through a live row or a hash only.                                      *)
DeadlinePasses(s) ==
    /\ HasRow(s)
    /\ IsLive(s) \/ hashState[s] # "none"
    /\ ~Creating(s)
    /\ s \notin due
    /\ due' = due \cup {s}
    /\ UNCHANGED <<poolVars, rows, cacheVars, indexVars, req, job>>

(* Redis drops a hash at its TTL, which was set together with the row's    *)
(* deadline ("full"), or for an earlier deadline ("short").                *)
HashEvicted(s) ==
    /\ ttl[s] = "short" \/ (ttl[s] = "full" /\ s \in due)
    /\ DropHash(s)
    /\ UNCHANGED <<rows, due, indexVars, req, job>>

PoolBackground ==
    /\ \/ \E c \in Callers : WriteBack(c) \/ WriteBackLost(c)
       \/ \E n \in Numbers : CooldownElapses(n)
       \/ \E r \in Reapers : ReapStep(r)
    /\ UNCHANGED sessionVars

SessionNext ==
    \/ \E c \in Clients : Create(c) \/ Modify(c)
    \/ \E w \in Workers : WorkerSelect(w)
    \/ \E e \in Admins, s \in Sessions : AdminSelect(e, s)
    \/ \E e \in Expirers : Expire(e)
    \/ \E s \in Sessions : DeadlinePasses(s) \/ HashEvicted(s)
    \/ PoolBackground

SessionSpec == SessionInit /\ [][SessionNext]_vars

(* Fairness.  A handler that has started goes on: node runs its            *)
(* continuations, and a store answers (runs that use fairness have no      *)
(* StoreFails).  Workers and reapers are interval timers that never stop.  *)
(* The clock passes every deadline.  Nothing makes a client send a request.*)
Fairness ==
    /\ \A c \in Clients : WF_vars(~At(c, "idle") /\ (Create(c) \/ Modify(c)))
    /\ \A w \in Workers : WF_vars(WorkerSelect(w))
    /\ \A e \in Expirers : WF_vars(Expire(e))
    /\ \A s \in Sessions : WF_vars(DeadlinePasses(s)) /\ WF_vars(HashEvicted(s))
    /\ \A c \in Callers : WF_vars(WriteBack(c) /\ UNCHANGED sessionVars)
    /\ \A n \in Numbers : WF_vars(CooldownElapses(n) /\ UNCHANGED sessionVars)
    /\ \A r \in Reapers : WF_vars(ReapStep(r) /\ UNCHANGED sessionVars)

FairSessionSpec == SessionSpec /\ Fairness

-----------------------------------------------------------------------------
(* Properties.                                                             *)

Swapping(s) ==
    \E c \in Clients : req[c].pc \in {"script", "repairOld", "repairNew"} /\ req[c].s = s
Expiring(s) == \E e \in Expirers : ~JobAt(e, "idle") /\ job[e].s = s

(* What routeIncomingCall accepts as a candidate (call-router.ts:95-106).  *)
Routable(s, n) ==
    /\ s \in proxySessions[n]
    /\ s \in hashId
    /\ hashState[s] \in LiveStates

PhonesOf(s) == {p[2] : p \in hashParties[s]}

(* A call is routed by its caller's phone and the number it dialled, to the *)
(* first session that matches (call-router.ts:95-116): two sessions that    *)
(* can be routed on a number never share a phone, or the call may be        *)
(* connected to the wrong person.  README.md:6-7 calls the allocation       *)
(* "atomic, overlap-free".                                                  *)
RoutingUnambiguous ==
    \A n \in Numbers : \A s, t \in proxySessions[n] :
      s # t /\ Routable(s, n) /\ Routable(t, n) => PhonesOf(s) \cap PhonesOf(t) = {}

(* A session the API reports ACTIVE, before its deadline and outside the    *)
(* window of a swap, is wired up in Redis everywhere it is looked up: on    *)
(* its number, in its hash, under both phones and in its tenant's set       *)
(* (session-manager.ts:324-349), whatever expiries, evictions and other     *)
(* requests did meanwhile.                                                  *)
ActiveIsRoutable ==
    \A s \in Sessions :
      /\ rows[s].state = "ACTIVE"
      /\ s \notin due
      /\ ~Creating(s)
      /\ ~Swapping(s)
      => /\ Routable(s, rows[s].proxy)
         /\ hashParties[s] = {rows[s].a, rows[s].b}
         /\ s \in phoneSessions[rows[s].a] \cap phoneSessions[rows[s].b]
         /\ s \in tenantActive[tenantOf(rows[s].a)]

(* The phone index may keep a session that has gone (a rollback leaves its  *)
(* entries, line 386, and a repair may write one after the expiry removed   *)
(* them, line 534), and a recreated hash may lack the parties.  It never    *)
(* names a session whose hash can be believed and tells another party, so   *)
(* whoever reads index and hash one after the other (verifyCall, lines      *)
(* 625-659) finds a session of that phone or none.                          *)
IndexIsHonest ==
    \A p \in Parties : \A s \in phoneSessions[p] :
      s \in hashId /\ ~Creating(s) /\ ~Swapping(s) /\ ~Expiring(s)
        => p \in hashParties[s]

(* A claim whose allocate() lost its reply: no row will ever be inserted.   *)
Unanswered(s) == "allocate" \in StoreFails /\ ~HasRow(s)

(* A claim on a number outlives neither its session nor the handler that    *)
(* works on it: a claim nobody will drop keeps the number from ever being   *)
(* released (admin.ts:386-390).  The one way to leave such a claim is an    *)
(* allocation that takes effect and loses its reply (number-pool.ts:208-211,*)
(* nothing is rolled back).                                                 *)
NoGhostClaim ==
    \A n \in Numbers : \A s \in proxySessions[n] :
      \/ Creating(s)
      \/ Expiring(s)
      \/ IsLive(s) /\ rows[s].proxy = n
      \/ Unanswered(s)

(* The set the tier limit is counted on holds no session that is over, or   *)
(* the tenant loses a slot for good (tier-enforcer.ts:36-39).               *)
NoPhantomQuota ==
    \A t \in Tenants : \A s \in tenantActive[t] :
      Creating(s) \/ Expiring(s) \/ IsLive(s)

(* tier-enforcer.ts:53-55: the tier "permits at most" so many concurrent    *)
(* sessions.  Requests that are admitted together are counted before any of *)
(* them is there, so the tenant may exceed its limit by as many as it sends *)
(* at a time beyond the first, and by no more, however its sessions are     *)
(* ended and expired meanwhile.                                             *)
TierCap ==
    \A t \in Tenants :
      Cardinality({s \in Sessions : rows[s].state = "ACTIVE" /\ tenantOf(rows[s].a) = t})
        <= TierLimit + Cardinality(Clients) - 1

(* Every session ends: whatever order requests, workers and operators act   *)
(* in, a live session becomes EXPIRED (session-expiry.ts:46-91).            *)
SessionsEnd == \A s \in Sessions : IsLive(s) ~> rows[s].state = "EXPIRED"

(* "Without this, every expired session permanently shrinks the usable      *)
(* pool" (pool-reaper.ts:8-9): every number that is taken is offered again. *)
NumbersReturn == \A n \in Numbers : n \in inUse ~> n \in available

(* The composition uses the pool only through the pool's own steps.         *)
ImplementsPool == PoolSpec

=============================================================================
