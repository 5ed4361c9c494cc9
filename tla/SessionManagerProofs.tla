-------------------------- MODULE SessionManagerProofs --------------------------
(***************************************************************************)
(* Proofs about SessionManager, for any numbers, sessions, tenants, phones *)
(* and expirers.  Where a theorem needs a restriction on the requests, the *)
(* clients or the failures, it is an assumption of that theorem.           *)
(***************************************************************************)
EXTENDS SessionManager, NumberPoolProofs, FiniteSetTheorems

(* The continuations, by what they remember.                               *)
MakePcs    == CreatePcs \cup RollbackPcs
SwapPcs    == {"probe", "script", "repairOld", "repairNew"}
AdmitReqs  == [pc : {"allocate"}, tenant : Tenants]
MakeReqs   == [pc : MakePcs, s : Sessions, a : Parties, b : Parties, n : Numbers]
EndReqs    == [pc : {"endRow", "endCache"}, s : Sessions, grace : BOOLEAN]
SiblingReqs == [pc : {"siblings"}, s : Sessions, old : Parties, new : Parties, n : Numbers]
SwapReqs   == [pc : SwapPcs, s : Sessions, old : Parties, new : Parties,
               todo : SUBSET Sessions]
ExtendReqs == [pc : {"extend"}, s : Sessions]
Reqs       == {NoReq} \cup AdmitReqs \cup MakeReqs \cup EndReqs \cup SiblingReqs
                \cup SwapReqs \cup ExtendReqs

JobPcs   == {"mark", "release", "delHash", "unclaim", "unindexA", "unindexB", "untrack"}
IdleJobs == [pc : {"idle"}, batch : SUBSET Sessions]
WorkJobs == [pc : JobPcs, batch : SUBSET Sessions, s : Sessions,
             a : Parties, b : Parties, n : Numbers]
Jobs     == IdleJobs \cup WorkJobs

Makes(c) == req[c].pc \in MakePcs
Works(e) == job[e].pc # "idle"

(* What a request may name: a session that has its row, but for the one    *)
(* it is creating.                                                         *)
ReqOK(c) ==
    /\ req[c].pc \in MakePcs => /\ tenantOf(req[c].a) = tenantOf(req[c].b)
                                /\ req[c].a # req[c].b
                                /\ req[c].pc = "insert" => ~HasRow(req[c].s)
                                /\ req[c].pc \in CreatePcs \ {"insert"} => HasRow(req[c].s)
                                /\ HasRow(req[c].s) => /\ rows[req[c].s].a = req[c].a
                                                       /\ rows[req[c].s].proxy = req[c].n
                                /\ ~HasRow(req[c].s) => req[c].s \in phoneSessions[req[c].a]
    /\ req[c].pc \in {"endRow", "endCache", "siblings", "extend"} \cup SwapPcs =>
         HasRow(req[c].s)
    /\ req[c].pc \in {"siblings"} \cup SwapPcs =>
         /\ tenantOf(req[c].new) = tenantOf(rows[req[c].s].a)
         /\ req[c].new # rows[req[c].s].a

JobOK(e) ==
    /\ \A s \in job[e].batch : HasRow(s)
    /\ Works(e) => /\ HasRow(job[e].s)
                   /\ job[e].a = rows[job[e].s].a
                   /\ job[e].n = rows[job[e].s].proxy

StoresOK ==
    /\ rows \in [Sessions -> Row \cup {NoRow}]
    /\ due \subseteq Sessions
    /\ hashState \in [Sessions -> LiveStates \cup {"none", "bare"}]
    /\ hashId \subseteq Sessions
    /\ ttl \in [Sessions -> {"none", "full", "short"}]
    /\ phoneSessions \in [Parties -> SUBSET Sessions]
    /\ tenantActive \in [Tenants -> SUBSET Sessions]
    /\ req \in [Clients -> Reqs]
    /\ job \in [Expirers -> Jobs]

ReqsOK == /\ \A c \in Clients : ReqOK(c)
          /\ \A c, d \in Clients : Makes(c) /\ Makes(d) /\ req[c].s = req[d].s => c = d
JobsOK == \A e \in Expirers : JobOK(e)
RowsOK == \A s \in Sessions : HasRow(s) =>
            tenantOf(rows[s].a) = tenantOf(rows[s].b) /\ rows[s].a # rows[s].b

(* A session without a row has left no trace but on its number and in the  *)
(* phone index.                                                            *)
TracesOK ==
    \A s \in Sessions : ~HasRow(s) =>
      /\ s \notin due \cup hashId
      /\ hashState[s] = "none" /\ ttl[s] = "none" /\ hashParties[s] = {}
      /\ \A t \in Tenants : s \notin tenantActive[t]
      /\ \A n \in Numbers : s \in proxySessions[n] => \E p \in Parties : s \in phoneSessions[p]

(* A session claims no number but its own.                                 *)
ClaimsOK ==
    \A n \in Numbers : \A s \in proxySessions[n] :
      /\ HasRow(s) => rows[s].proxy = n
      /\ \A c \in Clients : Makes(c) /\ req[c].s = s => req[c].n = n

BaseInv == PoolTypeOK /\ StoresOK /\ ReqsOK /\ JobsOK /\ RowsOK /\ TracesOK /\ ClaimsOK

-----------------------------------------------------------------------------
(* Which actions write what.                                               *)
LEMMA RowsMove ==
  ASSUME [SessionNext]_vars
  PROVE  \/ UNCHANGED rows
         \/ \E c \in Clients : \/ CreateInsert(c) \/ CreateActivate(c) \/ RollbackRow(c)
                               \/ EndRow(c) \/ SwapRow(c)
         \/ \E e \in Expirers : ExpireMark(e)
<1>1. ASSUME NEW c \in Clients, Create(c)
      PROVE  UNCHANGED rows \/ CreateInsert(c) \/ CreateActivate(c) \/ RollbackRow(c)
  BY <1>1 DEF Create, CreateAdmit, CreateAllocate, CreateExhausted, CreateCache, CreateTrack,
     CreateReply, CreateFails, RollbackRelease, RollbackFails
<1>2. ASSUME NEW c \in Clients, Modify(c)
      PROVE  UNCHANGED rows \/ EndRow(c) \/ SwapRow(c)
  BY <1>2 DEF Modify, EndRead, EndCache, SwapRead, SwapSiblings, SwapProbe,
     SwapScript, SwapMissing, SwapRepairOld, SwapRepairNew, ExtendRead, ExtendRow
<1>3. ASSUME NEW e \in Expirers, Expire(e)
      PROVE  UNCHANGED rows \/ ExpireMark(e)
  BY <1>3 DEF Expire, ExpireRead, ExpireRelease, ExpireDelHash, ExpireUnclaim,
     ExpireUnindexA, ExpireUnindexB, ExpireUntrack, ExpireFails
<1>4. QED
  BY <1>1, <1>2, <1>3 DEF SessionNext, vars, sessionVars, PoolBackground, WorkerSelect,
     AdminSelect, DeadlinePasses, HashEvicted

LEMMA ReqMove ==
  ASSUME [SessionNext]_vars
  PROVE  UNCHANGED req \/ \E c \in Clients : Create(c) \/ Modify(c)
<1>1. ASSUME NEW e \in Expirers, Expire(e)
      PROVE  UNCHANGED req
  BY <1>1 DEF Expire, ExpireRead, ExpireMark, ExpireRelease, ExpireDelHash, ExpireUnclaim,
     ExpireUnindexA, ExpireUnindexB, ExpireUntrack, ExpireFails
<1>2. QED
  BY <1>1 DEF SessionNext, vars, sessionVars, PoolBackground, WorkerSelect,
     AdminSelect, DeadlinePasses, HashEvicted

LEMMA JobMove ==
  ASSUME [SessionNext]_vars
  PROVE  \/ UNCHANGED job
         \/ \E w \in Workers : WorkerSelect(w)
         \/ \E e \in Admins, s \in Sessions : AdminSelect(e, s)
         \/ \E e \in Expirers : Expire(e)
<1>1. ASSUME NEW c \in Clients, Create(c)
      PROVE  UNCHANGED job
  BY <1>1 DEF Create, CreateAdmit, CreateAllocate, CreateExhausted, CreateInsert,
     CreateActivate, CreateCache, CreateTrack, CreateReply, CreateFails, RollbackRelease,
     RollbackRow, RollbackFails
<1>2. ASSUME NEW c \in Clients, Modify(c)
      PROVE  UNCHANGED job
  BY <1>2 DEF Modify, EndRead, EndRow, EndCache, SwapRead, SwapSiblings, SwapProbe, SwapRow,
     SwapScript, SwapMissing, SwapRepairOld, SwapRepairNew, ExtendRead, ExtendRow
<1>3. QED
  BY <1>1, <1>2 DEF SessionNext, vars, sessionVars, PoolBackground, DeadlinePasses, HashEvicted

LEMMA CacheMove ==
  ASSUME [SessionNext]_vars
  PROVE  \/ UNCHANGED <<cacheVars, hashParties>>
         \/ \E c \in Clients : \/ CreateCache(c) \/ EndRow(c) \/ EndCache(c) \/ SwapScript(c)
                               \/ ExtendRow(c)
         \/ \E e \in Expirers : ExpireDelHash(e)
         \/ \E s \in Sessions : HashEvicted(s)
<1>1. ASSUME NEW c \in Clients, Create(c)
      PROVE  UNCHANGED <<cacheVars, hashParties>> \/ CreateCache(c)
  BY <1>1 DEF Create, CreateAdmit, CreateAllocate, CreateExhausted, CreateInsert,
     CreateActivate, CreateTrack, CreateReply, CreateFails, RollbackRelease,
     RollbackRow, RollbackFails, poolVars, Allocate, Release
<1>2. ASSUME NEW c \in Clients, Modify(c)
      PROVE  UNCHANGED <<cacheVars, hashParties>> \/ EndRow(c) \/ EndCache(c) \/ SwapScript(c)
               \/ ExtendRow(c)
  BY <1>2 DEF Modify, EndRead, SwapRead, SwapSiblings, SwapProbe, SwapRow,
     SwapMissing, SwapRepairOld, SwapRepairNew, ExtendRead, poolVars
<1>3. ASSUME NEW e \in Expirers, Expire(e)
      PROVE  UNCHANGED <<cacheVars, hashParties>> \/ ExpireDelHash(e)
  BY <1>3 DEF Expire, ExpireRead, ExpireMark, ExpireRelease, ExpireUnclaim,
     ExpireUnindexA, ExpireUnindexB, ExpireUntrack, ExpireFails, poolVars, Release, Unclaim
<1>4. CASE PoolBackground
  BY <1>4 DEF PoolBackground, sessionVars, cacheVars, WriteBack, WriteBackLost,
     CooldownElapses, ReapStep, ReapScan, ReapLift, ReapReturn, ReapWriteBack,
     ReapWriteBackLost, ReapDone
<1>5. QED
  BY <1>1, <1>2, <1>3, <1>4 DEF SessionNext, vars, sessionVars, poolVars, WorkerSelect,
     AdminSelect, DeadlinePasses

LEMMA IndexMove ==
  ASSUME [SessionNext]_vars
  PROVE  \/ UNCHANGED phoneSessions
         \/ \E c \in Clients, s \in Sessions, p \in Pairs, n \in Numbers :
              CreateAllocate(c, s, p, n)
         \/ \E c \in Clients : SwapScript(c) \/ SwapRepairOld(c) \/ SwapRepairNew(c)
         \/ \E e \in Expirers : ExpireUnindexA(e) \/ ExpireUnindexB(e)
<1>1. ASSUME NEW c \in Clients, Create(c)
      PROVE  \/ UNCHANGED phoneSessions
             \/ \E s \in Sessions, p \in Pairs, n \in Numbers : CreateAllocate(c, s, p, n)
  BY <1>1 DEF Create, CreateAdmit, CreateExhausted, CreateInsert,
     CreateActivate, CreateCache, CreateTrack, CreateReply, CreateFails, RollbackRelease,
     RollbackRow, RollbackFails, indexVars
<1>2. ASSUME NEW c \in Clients, Modify(c)
      PROVE  UNCHANGED phoneSessions \/ SwapScript(c) \/ SwapRepairOld(c) \/ SwapRepairNew(c)
  BY <1>2 DEF Modify, EndRead, EndRow, EndCache, SwapRead, SwapSiblings, SwapProbe, SwapRow,
     SwapMissing, ExtendRead, ExtendRow, indexVars
<1>3. ASSUME NEW e \in Expirers, Expire(e)
      PROVE  UNCHANGED phoneSessions \/ ExpireUnindexA(e) \/ ExpireUnindexB(e)
  BY <1>3 DEF Expire, ExpireRead, ExpireMark, ExpireRelease, ExpireDelHash, ExpireUnclaim,
     ExpireUntrack, ExpireFails, indexVars
<1>4. QED
  BY <1>1, <1>2, <1>3 DEF SessionNext, vars, sessionVars, indexVars, PoolBackground,
     WorkerSelect, AdminSelect, DeadlinePasses, HashEvicted

LEMMA QuotaMove ==
  ASSUME [SessionNext]_vars
  PROVE  \/ UNCHANGED tenantActive
         \/ \E c \in Clients : CreateTrack(c)
         \/ \E e \in Expirers : ExpireUntrack(e)
<1>1. ASSUME NEW c \in Clients, Create(c)
      PROVE  UNCHANGED tenantActive \/ CreateTrack(c)
  BY <1>1 DEF Create, CreateAdmit, CreateAllocate, CreateExhausted, CreateInsert,
     CreateActivate, CreateCache, CreateReply, CreateFails, RollbackRelease,
     RollbackRow, RollbackFails, indexVars
<1>2. ASSUME NEW c \in Clients, Modify(c)
      PROVE  UNCHANGED tenantActive
  BY <1>2 DEF Modify, EndRead, EndRow, EndCache, SwapRead, SwapSiblings, SwapProbe, SwapRow,
     SwapScript, SwapRepairOld, SwapRepairNew, SwapMissing, ExtendRead, ExtendRow, indexVars
<1>3. ASSUME NEW e \in Expirers, Expire(e)
      PROVE  UNCHANGED tenantActive \/ ExpireUntrack(e)
  BY <1>3 DEF Expire, ExpireRead, ExpireMark, ExpireRelease, ExpireDelHash, ExpireUnclaim,
     ExpireUnindexA, ExpireUnindexB, ExpireFails, indexVars
<1>4. QED
  BY <1>1, <1>2, <1>3 DEF SessionNext, vars, sessionVars, indexVars, PoolBackground,
     WorkerSelect, AdminSelect, DeadlinePasses, HashEvicted

LEMMA ClaimMove ==
  ASSUME [SessionNext]_vars
  PROVE  \/ UNCHANGED proxySessions
         \/ \E c \in Clients, s \in Sessions, p \in Pairs, n \in Numbers :
              CreateAllocate(c, s, p, n)
         \/ \E c \in Clients : RollbackRelease(c)
         \/ \E e \in Expirers : ExpireRelease(e) \/ ExpireUnclaim(e)
<1>1. ASSUME NEW c \in Clients, Create(c)
      PROVE  \/ UNCHANGED proxySessions
             \/ \E s \in Sessions, p \in Pairs, n \in Numbers : CreateAllocate(c, s, p, n)
             \/ RollbackRelease(c)
  BY <1>1 DEF Create, CreateAdmit, CreateExhausted, CreateInsert, CreateActivate,
     CreateCache, CreateTrack, CreateReply, CreateFails, RollbackRow, RollbackFails,
     poolVars, redisPool, HashChanges
<1>2. ASSUME NEW c \in Clients, Modify(c)
      PROVE  UNCHANGED proxySessions
  BY <1>2 DEF Modify, EndRead, EndRow, EndCache, SwapRead, SwapSiblings, SwapProbe, SwapRow,
     SwapScript, SwapMissing, SwapRepairOld, SwapRepairNew, ExtendRead, ExtendRow,
     poolVars, redisPool, HashChanges
<1>3. ASSUME NEW e \in Expirers, Expire(e)
      PROVE  UNCHANGED proxySessions \/ ExpireRelease(e) \/ ExpireUnclaim(e)
  BY <1>3 DEF Expire, ExpireRead, ExpireMark, ExpireDelHash, ExpireUnindexA, ExpireUnindexB,
     ExpireUntrack, ExpireFails, poolVars, redisPool, DropHash, HashChanges
<1>4. CASE PoolBackground
  BY <1>4 DEF PoolBackground, WriteBack, WriteBackLost, redisPool,
     CooldownElapses, ReapStep, ReapScan, ReapLift, ReapReturn, ReapWriteBack,
     ReapWriteBackLost, ReapDone
<1>5. QED
  BY <1>1, <1>2, <1>3, <1>4 DEF SessionNext, vars, sessionVars, poolVars, redisPool,
     WorkerSelect, AdminSelect, DeadlinePasses, HashEvicted, DropHash, HashChanges

LEMMA DueMove ==
  ASSUME [SessionNext]_vars
  PROVE  \/ UNCHANGED due
         \/ \E c \in Clients : EndRow(c) \/ ExtendRow(c)
         \/ \E s \in Sessions : DeadlinePasses(s)
<1>1. ASSUME NEW c \in Clients, Create(c)
      PROVE  UNCHANGED due
  BY <1>1 DEF Create, CreateAdmit, CreateAllocate, CreateExhausted, CreateInsert,
     CreateActivate, CreateCache, CreateTrack, CreateReply, CreateFails, RollbackRelease,
     RollbackRow, RollbackFails
<1>2. ASSUME NEW c \in Clients, Modify(c)
      PROVE  UNCHANGED due \/ EndRow(c) \/ ExtendRow(c)
  BY <1>2 DEF Modify, EndRead, EndCache, SwapRead, SwapSiblings, SwapProbe, SwapRow,
     SwapScript, SwapRepairOld, SwapRepairNew, SwapMissing, ExtendRead
<1>3. ASSUME NEW e \in Expirers, Expire(e)
      PROVE  UNCHANGED due
  BY <1>3 DEF Expire, ExpireRead, ExpireMark, ExpireRelease, ExpireDelHash, ExpireUnclaim,
     ExpireUnindexA, ExpireUnindexB, ExpireUntrack, ExpireFails
<1>4. QED
  BY <1>1, <1>2, <1>3 DEF SessionNext, vars, sessionVars, PoolBackground,
     WorkerSelect, AdminSelect, HashEvicted

-----------------------------------------------------------------------------
(* What a continuation remembers follows from where it stands.             *)
LEMMA ReqClass ==
  ASSUME NEW r \in Reqs
  PROVE  /\ r.pc = "allocate" => r \in AdmitReqs
         /\ r.pc \in MakePcs => r \in MakeReqs
         /\ r.pc \in {"endRow", "endCache"} => r \in EndReqs
         /\ r.pc = "siblings" => r \in SiblingReqs
         /\ r.pc \in SwapPcs => r \in SwapReqs
         /\ r.pc = "extend" => r \in ExtendReqs
BY DEF Reqs, NoReq, AdmitReqs, MakeReqs, EndReqs, SiblingReqs, SwapReqs, ExtendReqs, MakePcs,
   CreatePcs, RollbackPcs, SwapPcs

LEMMA JobClass ==
  ASSUME NEW j \in Jobs
  PROVE  /\ j.pc = "idle" => j \in IdleJobs
         /\ j.pc # "idle" => j \in WorkJobs /\ j.pc \in JobPcs
         /\ j.batch \subseteq Sessions
BY DEF Jobs, IdleJobs, WorkJobs, JobPcs

LEMMA ReqSet ==
  ASSUME StoresOK, NEW c \in Clients, NEW r \in Reqs, req' = [req EXCEPT ![c] = r]
  PROVE  /\ req' \in [Clients -> Reqs]
         /\ req'[c] = r
         /\ \A d \in Clients : d # c => req'[d] = req[d]
BY DEF StoresOK

LEMMA JobSet ==
  ASSUME StoresOK, NEW e \in Expirers, NEW j \in Jobs, job' = [job EXCEPT ![e] = j]
  PROVE  /\ job' \in [Expirers -> Jobs]
         /\ job'[e] = j
         /\ \A f \in Expirers : f # e => job'[f] = job[f]
BY DEF StoresOK

LEMMA MakerGoes ==
  ASSUME StoresOK, NEW c \in Clients, Makes(c), NEW q \in MakePcs, Goto(c, q)
  PROVE  /\ req[c] \in MakeReqs
         /\ req' \in [Clients -> Reqs]
         /\ req'[c] \in MakeReqs /\ req'[c].pc = q
         /\ req'[c].s = req[c].s /\ req'[c].a = req[c].a
         /\ req'[c].b = req[c].b /\ req'[c].n = req[c].n
         /\ \A d \in Clients : d # c => req'[d] = req[d]
<1>1. req[c] \in MakeReqs
  BY ReqClass DEF StoresOK, Makes
<1> DEFINE r == [req[c] EXCEPT !.pc = q]
<1>2. /\ r \in MakeReqs /\ r.pc = q
      /\ r.s = req[c].s /\ r.a = req[c].a /\ r.b = req[c].b /\ r.n = req[c].n
  BY <1>1 DEF MakeReqs
<1>3. req' = [req EXCEPT ![c] = r] /\ r \in Reqs
  BY <1>2 DEF Goto, Reqs
<1> HIDE DEF r
<1>4. QED
  BY <1>1, <1>2, <1>3, ReqSet

LEMMA SwapGoes ==
  ASSUME StoresOK, NEW c \in Clients, req[c].pc \in SwapPcs, NEW q \in SwapPcs, Goto(c, q)
  PROVE  /\ req[c] \in SwapReqs
         /\ req' \in [Clients -> Reqs]
         /\ req'[c] \in SwapReqs /\ req'[c].pc = q
         /\ req'[c].s = req[c].s /\ req'[c].old = req[c].old
         /\ req'[c].new = req[c].new /\ req'[c].todo = req[c].todo
         /\ \A d \in Clients : d # c => req'[d] = req[d]
<1>1. req[c] \in SwapReqs
  BY ReqClass DEF StoresOK
<1> DEFINE r == [req[c] EXCEPT !.pc = q]
<1>2. /\ r \in SwapReqs /\ r.pc = q
      /\ r.s = req[c].s /\ r.old = req[c].old /\ r.new = req[c].new /\ r.todo = req[c].todo
  BY <1>1 DEF SwapReqs
<1>3. req' = [req EXCEPT ![c] = r] /\ r \in Reqs
  BY <1>2 DEF Goto, Reqs
<1> HIDE DEF r
<1>4. QED
  BY <1>1, <1>2, <1>3, ReqSet

LEMMA EndGoes ==
  ASSUME StoresOK, NEW c \in Clients, EndRow(c)
  PROVE  /\ req[c] \in EndReqs
         /\ req' \in [Clients -> Reqs]
         /\ req'[c] \in EndReqs /\ req'[c].pc = "endCache" /\ req'[c].s = req[c].s
         /\ \A d \in Clients : d # c => req'[d] = req[d]
<1>1. req[c] \in EndReqs
  BY ReqClass DEF StoresOK, EndRow, At
<1> DEFINE r == [req[c] EXCEPT !.pc = "endCache"]
<1>2. r \in EndReqs /\ r.pc = "endCache" /\ r.s = req[c].s
  BY <1>1 DEF EndReqs
<1>3. req' = [req EXCEPT ![c] = r] /\ r \in Reqs
  BY <1>2 DEF EndRow, Goto, Reqs
<1> HIDE DEF r
<1>4. QED
  BY <1>1, <1>2, <1>3, ReqSet

LEMMA ReqEnds ==
  ASSUME StoresOK, NEW c \in Clients, Finish(c)
  PROVE  /\ req' \in [Clients -> Reqs]
         /\ req'[c] = NoReq /\ req'[c].pc = "idle"
         /\ \A d \in Clients : d # c => req'[d] = req[d]
BY ReqSet DEF Finish, NoReq, Reqs

LEMMA JobGoes ==
  ASSUME StoresOK, NEW e \in Expirers, Works(e), NEW q \in JobPcs, JobGoto(e, q)
  PROVE  /\ job[e] \in WorkJobs
         /\ job' \in [Expirers -> Jobs]
         /\ job'[e] \in WorkJobs /\ job'[e].pc = q
         /\ job'[e].batch = job[e].batch /\ job'[e].s = job[e].s
         /\ job'[e].a = job[e].a /\ job'[e].b = job[e].b /\ job'[e].n = job[e].n
         /\ \A f \in Expirers : f # e => job'[f] = job[f]
<1>1. job[e] \in WorkJobs
  BY JobClass DEF StoresOK, Works
<1> DEFINE j == [job[e] EXCEPT !.pc = q]
<1>2. /\ j \in WorkJobs /\ j.pc = q /\ j.batch = job[e].batch /\ j.s = job[e].s
      /\ j.a = job[e].a /\ j.b = job[e].b /\ j.n = job[e].n
  BY <1>1 DEF WorkJobs
<1>3. job' = [job EXCEPT ![e] = j] /\ j \in Jobs
  BY <1>2 DEF JobGoto, Jobs
<1> HIDE DEF j
<1>4. QED
  BY <1>1, <1>2, <1>3, JobSet

LEMMA JobEnds ==
  ASSUME StoresOK, NEW e \in Expirers, NEW s \in Sessions, JobDone(e, s)
  PROVE  /\ job' \in [Expirers -> Jobs]
         /\ job'[e].pc = "idle" /\ job'[e].batch = job[e].batch \ {s}
         /\ \A f \in Expirers : f # e => job'[f] = job[f]
<1> DEFINE j == [pc |-> "idle", batch |-> job[e].batch \ {s}]
<1>1. job[e].batch \subseteq Sessions
  BY JobClass DEF StoresOK
<1>2. j \in Jobs
  BY <1>1 DEF Jobs, IdleJobs
<1>3. job' = [job EXCEPT ![e] = j]
  BY DEF JobDone
<1>4. j.pc = "idle" /\ j.batch = job[e].batch \ {s}
  OBVIOUS
<1> HIDE DEF j
<1>5. QED
  BY <1>2, <1>3, <1>4, JobSet

-----------------------------------------------------------------------------
(* Rows are made by the request that creates the session, never deleted,   *)
(* and keep their agent and their number.                                  *)
RowKept(s) ==
    rows'[s] # NoRow /\ rows'[s].a = rows[s].a /\ rows'[s].proxy = rows[s].proxy

States == LiveStates \cup {"PENDING", "EXPIRED", "FAILED"}

LEMMA RowOf ==
  ASSUME StoresOK, NEW s \in Sessions
  PROVE  /\ HasRow(s) => rows[s] \in Row /\ rows[s].state \in States
         /\ HasRow(s) => rows[s].a \in Parties /\ rows[s].b \in Parties
                         /\ rows[s].proxy \in Numbers
         /\ ~HasRow(s) => rows[s].state = "NONE" /\ ~IsLive(s)
BY DEF StoresOK, HasRow, Row, NoRow, States, LiveStates, IsLive

LEMMA StateSet ==
  ASSUME StoresOK, NEW s \in Sessions, HasRow(s), NEW st \in States, SetState(s, st)
  PROVE  /\ rows' \in [Sessions -> Row \cup {NoRow}]
         /\ rows'[s].state = st /\ rows'[s].b = rows[s].b /\ RowKept(s)
         /\ \A t \in Sessions : t # s => rows'[t] = rows[t]
<1> DEFINE r == [rows[s] EXCEPT !.state = st]
<1>1. rows[s] \in Row
  BY RowOf
<1>2. /\ r \in Row /\ r.state = st /\ r.a = rows[s].a /\ r.b = rows[s].b
      /\ r.proxy = rows[s].proxy /\ r # NoRow
  BY <1>1 DEF Row, States, NoRow, LiveStates
<1>3. rows' = [rows EXCEPT ![s] = r]
  BY DEF SetState
<1> HIDE DEF r
<1>4. QED
  BY <1>2, <1>3 DEF StoresOK, RowKept, HasRow

LEMMA InsertSets ==
  ASSUME StoresOK, NEW c \in Clients, CreateInsert(c)
  PROVE  /\ req[c] \in MakeReqs
         /\ rows' \in [Sessions -> Row \cup {NoRow}]
         /\ rows'[req[c].s].state = "PENDING" /\ rows'[req[c].s].proxy = req[c].n
         /\ rows'[req[c].s].a = req[c].a /\ rows'[req[c].s].b = req[c].b
         /\ rows'[req[c].s] # NoRow
         /\ \A t \in Sessions : t # req[c].s => rows'[t] = rows[t]
<1>1. req[c] \in MakeReqs
  BY ReqClass DEF StoresOK, CreateInsert, At, MakePcs, CreatePcs
<1> DEFINE r == [state |-> "PENDING", a |-> req[c].a, b |-> req[c].b, proxy |-> req[c].n]
<1>2. /\ r \in Row /\ r # NoRow /\ req[c].s \in Sessions
      /\ r.state = "PENDING" /\ r.proxy = req[c].n /\ r.a = req[c].a /\ r.b = req[c].b
  BY <1>1 DEF MakeReqs, Row, NoRow
<1>3. rows' = [rows EXCEPT ![req[c].s] = r]
  BY DEF CreateInsert
<1> HIDE DEF r
<1>4. QED
  BY <1>1, <1>2, <1>3 DEF StoresOK

LEMMA TargetSet ==
  ASSUME StoresOK, ReqsOK, NEW c \in Clients, SwapRow(c)
  PROVE  /\ req[c] \in SwapReqs
         /\ rows' \in [Sessions -> Row \cup {NoRow}]
         /\ rows'[req[c].s].state = rows[req[c].s].state
         /\ rows'[req[c].s].b = req[c].new /\ RowKept(req[c].s)
         /\ \A t \in Sessions : t # req[c].s => rows'[t] = rows[t]
<1>1. req[c] \in SwapReqs
  BY ReqClass DEF StoresOK, SwapRow, At, SwapPcs
<1>2. HasRow(req[c].s) /\ req[c].s \in Sessions /\ req[c].new \in Parties
  BY <1>1 DEF ReqsOK, ReqOK, SwapReqs
<1> DEFINE r == [rows[req[c].s] EXCEPT !.b = req[c].new]
<1>3. rows[req[c].s] \in Row
  BY <1>2, RowOf
<1>4. /\ r \in Row /\ r # NoRow /\ r.state = rows[req[c].s].state
      /\ r.a = rows[req[c].s].a /\ r.b = req[c].new /\ r.proxy = rows[req[c].s].proxy
  BY <1>2, <1>3 DEF Row, NoRow, LiveStates
<1>5. rows' = [rows EXCEPT ![req[c].s] = r]
  BY DEF SwapRow
<1> HIDE DEF r
<1>6. QED
  BY <1>1, <1>2, <1>4, <1>5 DEF StoresOK, RowKept, HasRow

LEMMA NamedHasRow ==
  ASSUME StoresOK, ReqsOK, NEW c \in Clients,
         req[c].pc \in (CreatePcs \ {"insert"}) \cup {"endRow", "endCache", "siblings", "extend"}
                         \cup SwapPcs
  PROVE  HasRow(req[c].s) /\ req[c].s \in Sessions
<1>1. HasRow(req[c].s)
  BY DEF ReqsOK, ReqOK, MakePcs, CreatePcs
<1>2. req[c].s \in Sessions
  BY ReqClass DEF StoresOK, MakePcs, CreatePcs, MakeReqs, EndReqs, SiblingReqs, SwapReqs, ExtendReqs
<1>3. QED
  BY <1>1, <1>2

LEMMA RowsStep ==
  ASSUME BaseInv, [SessionNext]_vars
  PROVE  /\ rows' \in [Sessions -> Row \cup {NoRow}]
         /\ \A s \in Sessions : HasRow(s) => RowKept(s)
         /\ \A s \in Sessions : HasRow(s)' /\ ~HasRow(s) =>
              \E c \in Clients : CreateInsert(c) /\ req[c].s = s
         /\ RowsOK'
<1>0. StoresOK /\ ReqsOK /\ JobsOK /\ RowsOK
  BY DEF BaseInv
<1>1. CASE UNCHANGED rows
  BY <1>0, <1>1 DEF StoresOK, RowKept, HasRow, RowsOK
<1>2. ASSUME NEW s \in Sessions, NEW st \in States, HasRow(s), SetState(s, st)
      PROVE  /\ rows' \in [Sessions -> Row \cup {NoRow}]
             /\ \A t \in Sessions : HasRow(t) => RowKept(t)
             /\ \A t \in Sessions : HasRow(t)' => HasRow(t)
             /\ RowsOK'
  <2>1. /\ rows' \in [Sessions -> Row \cup {NoRow}]
        /\ rows'[s].b = rows[s].b /\ RowKept(s)
        /\ \A t \in Sessions : t # s => rows'[t] = rows[t]
    BY <1>0, <1>2, StateSet
  <2>2. QED
    BY <1>0, <1>2, <2>1 DEF RowKept, HasRow, RowsOK
<1>3. ASSUME NEW c \in Clients, CreateInsert(c)
      PROVE  /\ rows' \in [Sessions -> Row \cup {NoRow}]
             /\ \A t \in Sessions : HasRow(t) => RowKept(t)
             /\ \A t \in Sessions : HasRow(t)' /\ ~HasRow(t) => req[c].s = t
             /\ RowsOK'
  <2>1. /\ req[c] \in MakeReqs
        /\ rows' \in [Sessions -> Row \cup {NoRow}]
        /\ rows'[req[c].s].a = req[c].a /\ rows'[req[c].s].b = req[c].b
        /\ \A t \in Sessions : t # req[c].s => rows'[t] = rows[t]
    BY <1>0, <1>3, InsertSets
  <2>2. ~HasRow(req[c].s) /\ tenantOf(req[c].a) = tenantOf(req[c].b) /\ req[c].a # req[c].b
    BY <1>0, <1>3 DEF ReqsOK, ReqOK, CreateInsert, At, MakePcs, CreatePcs
  <2>3. QED
    BY <1>0, <2>1, <2>2 DEF RowKept, HasRow, RowsOK
<1>4. ASSUME NEW c \in Clients, SwapRow(c)
      PROVE  /\ rows' \in [Sessions -> Row \cup {NoRow}]
             /\ \A t \in Sessions : HasRow(t) => RowKept(t)
             /\ \A t \in Sessions : HasRow(t)' => HasRow(t)
             /\ RowsOK'
  <2>1. /\ rows' \in [Sessions -> Row \cup {NoRow}]
        /\ rows'[req[c].s].b = req[c].new /\ RowKept(req[c].s)
        /\ \A t \in Sessions : t # req[c].s => rows'[t] = rows[t]
    BY <1>0, <1>4, TargetSet
  <2>2. /\ HasRow(req[c].s)
        /\ tenantOf(req[c].new) = tenantOf(rows[req[c].s].a)
        /\ req[c].new # rows[req[c].s].a
    BY <1>0, <1>4 DEF ReqsOK, ReqOK, SwapRow, At, SwapPcs
  <2>3. QED
    BY <1>0, <2>1, <2>2 DEF RowKept, HasRow, RowsOK
<1>5. ASSUME NEW c \in Clients, CreateActivate(c) \/ EndRow(c)
      PROVE  req[c].s \in Sessions /\ HasRow(req[c].s) /\ \E st \in States : SetState(req[c].s, st)
  BY <1>0, <1>5, NamedHasRow DEF CreateActivate, EndRow, At, EndState, States, LiveStates, CreatePcs
<1>6. ASSUME NEW c \in Clients, RollbackRow(c)
      PROVE  \/ UNCHANGED rows
             \/ /\ req[c].s \in Sessions /\ HasRow(req[c].s)
                /\ \E st \in States : SetState(req[c].s, st)
  <2>1. req[c].s \in Sessions
    BY <1>0, <1>6, ReqClass DEF RollbackRow, At, StoresOK, MakePcs, RollbackPcs, MakeReqs
  <2>2. QED
    BY <1>6, <2>1 DEF RollbackRow, States
<1>7. ASSUME NEW e \in Expirers, ExpireMark(e)
      PROVE  job[e].s \in Sessions /\ HasRow(job[e].s) /\ \E st \in States : SetState(job[e].s, st)
  <2>1. job[e].s \in Sessions /\ HasRow(job[e].s)
    BY <1>0, <1>7, JobClass DEF ExpireMark, JobAt, StoresOK, WorkJobs, JobsOK, JobOK, Works
  <2>2. QED
    BY <1>7, <2>1 DEF ExpireMark, States
<1>8. QED
  BY <1>1, <1>2, <1>3, <1>4, <1>5, <1>6, <1>7, RowsMove

-----------------------------------------------------------------------------
(* The continuations.                                                      *)
MakerMoves(c) ==
    \/ CreateInsert(c) \/ CreateActivate(c) \/ CreateCache(c) \/ CreateTrack(c)
    \/ CreateFails(c) \/ RollbackRelease(c)
    \/ RollbackFails(c) /\ At(c, "rollback")

LEMMA MakerKept ==
  ASSUME StoresOK, NEW c \in Clients, MakerMoves(c)
  PROVE  /\ Makes(c)
         /\ req[c] \in MakeReqs /\ req'[c] \in MakeReqs
         /\ req' \in [Clients -> Reqs]
         /\ req'[c].s = req[c].s /\ req'[c].a = req[c].a
         /\ req'[c].b = req[c].b /\ req'[c].n = req[c].n
         /\ \A d \in Clients : d # c => req'[d] = req[d]
<1>1. Makes(c)
  BY DEF MakerMoves, CreateInsert, CreateActivate, CreateCache, CreateTrack, CreateFails,
     RollbackRelease, RollbackFails, At, Makes, MakePcs, CreatePcs, RollbackPcs
<1>2. \E q \in MakePcs : Goto(c, q)
  BY DEF MakerMoves, CreateInsert, CreateActivate, CreateCache, CreateTrack, CreateFails,
     RollbackRelease, RollbackFails, At, MakePcs, CreatePcs, RollbackPcs
<1>3. QED
  BY <1>1, <1>2, MakerGoes

LEMMA AllocateSets ==
  ASSUME StoresOK, NEW c \in Clients, NEW s \in Sessions, NEW p \in Pairs, NEW n \in Numbers,
         CreateAllocate(c, s, p, n)
  PROVE  /\ p[1] \in Parties /\ p[2] \in Parties
         /\ tenantOf(p[1]) = tenantOf(p[2]) /\ p[1] # p[2]
         /\ req' \in [Clients -> Reqs]
         /\ \/ /\ req'[c].pc = "insert" /\ req'[c].s = s
               /\ req'[c].a = p[1] /\ req'[c].b = p[2] /\ req'[c].n = n
            \/ "allocate" \in StoreFails /\ req'[c] = NoReq
         /\ \A d \in Clients : d # c => req'[d] = req[d]
<1>1. p[1] \in Parties /\ p[2] \in Parties /\ tenantOf(p[1]) = tenantOf(p[2]) /\ p[1] # p[2]
  BY DEF Pairs, tenantOf
<1> DEFINE r == [pc |-> "insert", s |-> s, a |-> p[1], b |-> p[2], n |-> n]
<1>2. r \in Reqs
  BY <1>1 DEF Reqs, MakeReqs, MakePcs, CreatePcs
<1>3. req' = [req EXCEPT ![c] = r] \/ ("allocate" \in StoreFails /\ Finish(c))
  BY DEF CreateAllocate
<1>4. r.pc = "insert" /\ r.s = s /\ r.a = p[1] /\ r.b = p[2] /\ r.n = n
  OBVIOUS
<1> HIDE DEF r
<1>5. QED
  BY <1>1, <1>2, <1>3, <1>4, ReqSet, ReqEnds

LEMMA AllocateGoes ==
  ASSUME StoresOK, NEW c \in Clients, NEW s \in Sessions, NEW p \in Pairs, NEW n \in Numbers,
         CreateAllocate(c, s, p, n)
  PROVE  /\ At(c, "allocate") /\ req'[c].pc \in {"insert", "idle"}
         /\ req'[c].pc # "idle" => /\ req'[c].pc = "insert" /\ req'[c].s = s
                                   /\ req'[c].a = p[1] /\ req'[c].b = p[2] /\ req'[c].n = n
<1>1. At(c, "allocate")
  BY DEF CreateAllocate
<1>2. NoReq.pc = "idle"
  BY DEF NoReq
<1>3. QED
  BY <1>1, <1>2, AllocateSets

LEMMA CreateReqs ==
  ASSUME StoresOK, NEW c \in Clients, Create(c)
  PROVE  /\ req' \in [Clients -> Reqs]
         /\ \A d \in Clients : d # c => req'[d] = req[d]
         /\ \/ MakerMoves(c)
            \/ \E s \in Sessions, p \in Pairs, n \in Numbers : CreateAllocate(c, s, p, n)
            \/ req'[c].pc \in {"idle", "allocate"}
<1>1. CASE MakerMoves(c)
  BY <1>1, MakerKept
<1>2. ASSUME NEW t \in Tenants, CreateAdmit(c, t)
      PROVE  /\ req' \in [Clients -> Reqs] /\ req'[c].pc = "allocate"
             /\ \A d \in Clients : d # c => req'[d] = req[d]
  <2>1. [pc |-> "allocate", tenant |-> t] \in Reqs
    BY DEF Reqs, AdmitReqs
  <2>2. QED
    BY <1>2, <2>1, ReqSet DEF CreateAdmit
<1>3. ASSUME NEW s \in Sessions, NEW p \in Pairs, NEW n \in Numbers, CreateAllocate(c, s, p, n)
      PROVE  /\ req' \in [Clients -> Reqs]
             /\ \A d \in Clients : d # c => req'[d] = req[d]
  BY <1>3, AllocateSets
<1>4. CASE Finish(c)
  BY <1>4, ReqEnds
<1>5. \/ MakerMoves(c) \/ Finish(c)
      \/ \E t \in Tenants : CreateAdmit(c, t)
      \/ \E s \in Sessions, p \in Pairs, n \in Numbers : CreateAllocate(c, s, p, n)
  BY DEF Create, MakerMoves, CreateExhausted, CreateReply, RollbackRow, RollbackFails
<1>6. QED
  BY <1>1, <1>2, <1>3, <1>4, <1>5

(* Ids are read from rows, and requests that modify a session end with it. *)
LEMMA ReadSets ==
  ASSUME BaseInv, NEW c \in Clients, NEW s \in Sessions,
         EndRead(c, s) \/ ExtendRead(c, s) \/ \E b \in Parties : SwapRead(c, s, b)
  PROVE  /\ req' \in [Clients -> Reqs]
         /\ \A d \in Clients : d # c => req'[d] = req[d]
         /\ req'[c].pc \in {"endRow", "extend", "siblings"}
         /\ HasRow(s) /\ req'[c].s = s
         /\ req'[c].pc = "siblings" =>
              /\ tenantOf(req'[c].new) = tenantOf(rows[s].a)
              /\ req'[c].new # rows[s].a /\ req'[c].new # rows[s].b
              /\ req'[c].old = rows[s].b /\ req'[c].n = rows[s].proxy
              /\ IsLive(s)
<1>0. StoresOK
  BY DEF BaseInv
<1>1. CASE EndRead(c, s)
  <2>1. PICK grace \in BOOLEAN :
          req' = [req EXCEPT ![c] = [pc |-> "endRow", s |-> s, grace |-> grace]]
    BY <1>1 DEF EndRead
  <2>2. [pc |-> "endRow", s |-> s, grace |-> grace] \in Reqs
    BY DEF Reqs, EndReqs
  <2>3. QED
    BY <1>0, <1>1, <2>1, <2>2, ReqSet DEF EndRead, Known
<1>2. CASE ExtendRead(c, s)
  <2>1. [pc |-> "extend", s |-> s] \in Reqs
    BY DEF Reqs, ExtendReqs
  <2>2. QED
    BY <1>0, <1>2, <2>1, ReqSet DEF ExtendRead, Known
<1>3. ASSUME NEW b \in Parties, SwapRead(c, s, b)
      PROVE  /\ req' \in [Clients -> Reqs]
             /\ \A d \in Clients : d # c => req'[d] = req[d]
             /\ req'[c].pc = "siblings"
             /\ HasRow(s) /\ req'[c].s = s
             /\ tenantOf(req'[c].new) = tenantOf(rows[s].a)
             /\ req'[c].new # rows[s].a /\ req'[c].new # rows[s].b
             /\ req'[c].old = rows[s].b /\ req'[c].n = rows[s].proxy
             /\ IsLive(s)
  <2> DEFINE r == [pc |-> "siblings", s |-> s, old |-> rows[s].b, new |-> b,
                   n |-> rows[s].proxy]
  <2>1. HasRow(s) /\ rows[s].b \in Parties /\ rows[s].proxy \in Numbers
    BY <1>0, <1>3, RowOf DEF SwapRead, Known
  <2>2. r \in Reqs
    BY <2>1 DEF Reqs, SiblingReqs
  <2>3. req' = [req EXCEPT ![c] = r]
    BY <1>3 DEF SwapRead
  <2>4. r.pc = "siblings" /\ r.s = s /\ r.new = b /\ r.old = rows[s].b /\ r.n = rows[s].proxy
    OBVIOUS
  <2> HIDE DEF r
  <2>5. QED
    BY <1>0, <1>3, <2>1, <2>2, <2>3, <2>4, ReqSet DEF SwapRead
<1>4. QED
  BY <1>1, <1>2, <1>3

LEMMA SiblingsSet ==
  ASSUME BaseInv, NEW c \in Clients, SwapSiblings(c)
  PROVE  /\ req' \in [Clients -> Reqs]
         /\ \A d \in Clients : d # c => req'[d] = req[d]
         /\ req[c] \in SiblingReqs
         /\ req'[c].pc = "probe" /\ req'[c].s = req[c].s
         /\ req'[c].old = req[c].old /\ req'[c].new = req[c].new
         /\ req'[c].todo = proxySessions[req[c].n] \ {req[c].s}
<1>1. req[c] \in SiblingReqs /\ StoresOK
  BY ReqClass DEF SwapSiblings, At, BaseInv, StoresOK
<1> DEFINE r == [pc |-> "probe", s |-> req[c].s, old |-> req[c].old, new |-> req[c].new,
                 todo |-> proxySessions[req[c].n] \ {req[c].s}]
<1>2. r \in Reqs
  BY <1>1 DEF Reqs, SwapReqs, SwapPcs, SiblingReqs, BaseInv, PoolTypeOK
<1>3. req' = [req EXCEPT ![c] = r]
  BY DEF SwapSiblings
<1>4. /\ r.pc = "probe" /\ r.s = req[c].s /\ r.old = req[c].old /\ r.new = req[c].new
      /\ r.todo = proxySessions[req[c].n] \ {req[c].s}
  OBVIOUS
<1> HIDE DEF r
<1>5. QED
  BY <1>1, <1>2, <1>3, <1>4, ReqSet

(* The steps of a swap after it has read the siblings.                     *)
SwapMoves(c) ==
    \/ \E s \in Sessions : SwapProbe(c, s) /\ ~Conflicts(s, req[c].new)
    \/ SwapRow(c) \/ SwapMissing(c) \/ SwapRepairOld(c)

LEMMA SwapKept ==
  ASSUME StoresOK, NEW c \in Clients, SwapMoves(c)
  PROVE  /\ req[c] \in SwapReqs /\ req'[c] \in SwapReqs
         /\ req' \in [Clients -> Reqs]
         /\ req'[c].s = req[c].s /\ req'[c].old = req[c].old /\ req'[c].new = req[c].new
         /\ \A d \in Clients : d # c => req'[d] = req[d]
<1>1. ASSUME NEW s \in Sessions, SwapProbe(c, s), ~Conflicts(s, req[c].new)
      PROVE  /\ req[c] \in SwapReqs /\ req'[c] \in SwapReqs
             /\ req' \in [Clients -> Reqs]
             /\ req'[c].s = req[c].s /\ req'[c].old = req[c].old /\ req'[c].new = req[c].new
             /\ \A d \in Clients : d # c => req'[d] = req[d]
  <2>1. req[c] \in SwapReqs
    BY <1>1, ReqClass DEF StoresOK, SwapProbe, At, SwapPcs
  <2> DEFINE r == [req[c] EXCEPT !.todo = req[c].todo \ {s}]
  <2>2. r \in SwapReqs /\ r.s = req[c].s /\ r.old = req[c].old /\ r.new = req[c].new
    BY <2>1 DEF SwapReqs
  <2>3. req' = [req EXCEPT ![c] = r] /\ r \in Reqs
    BY <1>1, <2>2 DEF SwapProbe, Reqs
  <2> HIDE DEF r
  <2>4. QED
    BY <2>1, <2>2, <2>3, ReqSet
<1>2. CASE SwapRow(c) \/ SwapMissing(c) \/ SwapRepairOld(c)
  BY <1>2, SwapGoes DEF SwapRow, SwapMissing, SwapRepairOld, At, SwapPcs
<1>3. QED
  BY <1>1, <1>2 DEF SwapMoves

LEMMA ModifyReqs ==
  ASSUME BaseInv, NEW c \in Clients, Modify(c)
  PROVE  /\ req' \in [Clients -> Reqs]
         /\ \A d \in Clients : d # c => req'[d] = req[d]
         /\ \/ req'[c].pc = "idle"
            \/ \E s \in Sessions :
                 EndRead(c, s) \/ ExtendRead(c, s) \/ \E b \in Parties : SwapRead(c, s, b)
            \/ SwapSiblings(c)
            \/ SwapMoves(c)
            \/ EndRow(c)
         /\ ~Makes(c) /\ req'[c].pc \notin MakePcs
<1>0. StoresOK
  BY DEF BaseInv
<1>1. ASSUME NEW s \in Sessions,
             EndRead(c, s) \/ ExtendRead(c, s) \/ \E b \in Parties : SwapRead(c, s, b)
      PROVE  /\ req' \in [Clients -> Reqs]
             /\ \A d \in Clients : d # c => req'[d] = req[d]
             /\ req'[c].pc \notin MakePcs
  BY <1>1, ReadSets DEF MakePcs, CreatePcs, RollbackPcs
<1>2. ASSUME SwapSiblings(c)
      PROVE  /\ req' \in [Clients -> Reqs]
             /\ \A d \in Clients : d # c => req'[d] = req[d]
             /\ req'[c].pc \notin MakePcs
  BY <1>2, SiblingsSet DEF MakePcs, CreatePcs, RollbackPcs
<1>3. ASSUME SwapMoves(c)
      PROVE  /\ req' \in [Clients -> Reqs]
             /\ \A d \in Clients : d # c => req'[d] = req[d]
             /\ req'[c].pc \notin MakePcs
  BY <1>0, <1>3, SwapKept DEF SwapReqs, SwapPcs, MakePcs, CreatePcs, RollbackPcs
<1>4. ASSUME EndRow(c)
      PROVE  /\ req' \in [Clients -> Reqs]
             /\ \A d \in Clients : d # c => req'[d] = req[d]
             /\ req'[c].pc \notin MakePcs
  BY <1>0, <1>4, EndGoes DEF MakePcs, CreatePcs, RollbackPcs
<1>5. ASSUME Finish(c)
      PROVE  /\ req' \in [Clients -> Reqs]
             /\ \A d \in Clients : d # c => req'[d] = req[d]
             /\ req'[c].pc = "idle" /\ req'[c].pc \notin MakePcs
  BY <1>0, <1>5, ReqEnds DEF MakePcs, CreatePcs, RollbackPcs
<1>6. \/ Finish(c) \/ SwapSiblings(c) \/ SwapMoves(c) \/ EndRow(c)
      \/ \E s \in Sessions :
           EndRead(c, s) \/ ExtendRead(c, s) \/ \E b \in Parties : SwapRead(c, s, b)
  BY DEF Modify, SwapMoves, SwapProbe, EndCache, ExtendRow, SwapScript, SwapRepairNew
<1>7. ~Makes(c)
  BY DEF Modify, SwapProbe, EndCache, ExtendRow, SwapScript, SwapRepairNew, EndRead, ExtendRead,
     SwapRead, SwapSiblings, SwapRow, SwapMissing, SwapRepairOld, EndRow, At, Makes,
     MakePcs, CreatePcs, RollbackPcs
<1>8. QED
  BY <1>0, <1>1, <1>2, <1>3, <1>4, <1>5, <1>6, <1>7

(* An expiry: what an expirer may do to what it remembers.                 *)
JobAdvances(e) ==
    \/ ExpireMark(e) /\ JobGoto(e, "release")
    \/ ExpireRelease(e) \/ ExpireDelHash(e) \/ ExpireUnclaim(e)
    \/ ExpireUnindexA(e) \/ ExpireUnindexB(e)
    \/ ExpireFails(e) /\ JobGoto(e, "delHash") /\ JobAt(e, "release")

LEMMA AdvanceKept ==
  ASSUME StoresOK, NEW e \in Expirers, JobAdvances(e)
  PROVE  /\ Works(e) /\ job[e] \in WorkJobs /\ job'[e] \in WorkJobs
         /\ job' \in [Expirers -> Jobs]
         /\ job'[e].batch = job[e].batch /\ job'[e].s = job[e].s
         /\ job'[e].a = job[e].a /\ job'[e].b = job[e].b /\ job'[e].n = job[e].n
         /\ \A f \in Expirers : f # e => job'[f] = job[f]
<1>1. Works(e) /\ \E q \in JobPcs : JobGoto(e, q)
  BY DEF JobAdvances, ExpireMark, ExpireRelease, ExpireDelHash, ExpireUnclaim,
     ExpireUnindexA, ExpireUnindexB, JobAt, Works, JobPcs
<1>2. QED
  BY <1>1, JobGoes

LEMMA ReadJob ==
  ASSUME BaseInv, NEW e \in Expirers, NEW s \in Sessions, ExpireRead(e, s),
         rows[s].state # "EXPIRED"
  PROVE  /\ job' \in [Expirers -> Jobs]
         /\ job'[e].pc = "mark" /\ job'[e].batch = job[e].batch /\ job'[e].s = s
         /\ job'[e].a = rows[s].a /\ job'[e].b = rows[s].b /\ job'[e].n = rows[s].proxy
         /\ HasRow(s) /\ \A f \in Expirers : f # e => job'[f] = job[f]
<1>0. StoresOK
  BY DEF BaseInv
<1>1. HasRow(s)
  BY DEF ExpireRead, BaseInv, JobsOK, JobOK
<1>2. rows[s].a \in Parties /\ rows[s].b \in Parties /\ rows[s].proxy \in Numbers
  BY <1>0, <1>1, RowOf
<1>3. job[e].batch \subseteq Sessions
  BY <1>0, JobClass DEF StoresOK
<1> DEFINE j == [pc |-> "mark", batch |-> job[e].batch, s |-> s,
                 a |-> rows[s].a, b |-> rows[s].b, n |-> rows[s].proxy]
<1>4. j \in Jobs
  BY <1>2, <1>3 DEF Jobs, WorkJobs, JobPcs
<1>5. job' = [job EXCEPT ![e] = j]
  BY DEF ExpireRead
<1>6. /\ j.pc = "mark" /\ j.batch = job[e].batch /\ j.s = s
      /\ j.a = rows[s].a /\ j.b = rows[s].b /\ j.n = rows[s].proxy
  OBVIOUS
<1> HIDE DEF j
<1>7. QED
  BY <1>0, <1>1, <1>4, <1>5, <1>6, JobSet

LEMMA SelectSets ==
  ASSUME StoresOK, NEW e \in Expirers, job[e] = NoExpiry, NEW B \in SUBSET Sessions,
         job' = [job EXCEPT ![e].batch = B]
  PROVE  /\ job' \in [Expirers -> Jobs]
         /\ job'[e].pc = "idle" /\ job'[e].batch = B
         /\ \A f \in Expirers : f # e => job'[f] = job[f]
<1> DEFINE j == [pc |-> "idle", batch |-> B]
<1>1. j \in Jobs /\ j.pc = "idle" /\ j.batch = B
  BY DEF Jobs, IdleJobs
<1>2. [job[e] EXCEPT !.batch = B] = j
  BY DEF NoExpiry
<1>3. job' = [job EXCEPT ![e] = j]
  BY <1>2
<1> HIDE DEF j
<1>4. QED
  BY <1>1, <1>3, JobSet

LEMMA ExpireJobs ==
  ASSUME BaseInv, NEW e \in Expirers, Expire(e)
  PROVE  \/ JobAdvances(e)
         \/ \E s \in Sessions : ExpireRead(e, s) /\ rows[s].state # "EXPIRED"
         \/ \E s \in Sessions : JobDone(e, s)
<1>1. Works(e) => job[e].s \in Sessions
  BY JobClass DEF BaseInv, StoresOK, WorkJobs, Works
<1>2. QED
  BY <1>1 DEF Expire, JobAdvances, ExpireRead, ExpireMark, ExpireUntrack, ExpireFails, Works, JobAt

LEMMA JobsStep ==
  ASSUME BaseInv, [SessionNext]_vars
  PROVE  job' \in [Expirers -> Jobs] /\ JobsOK'
<1>0. StoresOK /\ JobsOK
  BY DEF BaseInv
<1>a. \A s \in Sessions : HasRow(s) => RowKept(s)
  BY RowsStep
<1>b. /\ \A e \in Expirers : job[e].batch \subseteq Sessions
      /\ \A e \in Expirers : Works(e) => job[e].s \in Sessions
  BY <1>0, JobClass DEF StoresOK, WorkJobs, Works
<1>1. /\ \A s \in Sessions : HasRow(s) => RowKept(s)
      /\ \A e \in Expirers : job[e].batch \subseteq Sessions
      /\ \A e \in Expirers : Works(e) => job[e].s \in Sessions
  BY <1>a, <1>b
<1>2. ASSUME NEW e \in Expirers, job'[e] = job[e]
      PROVE  JobOK(e)'
  BY <1>0, <1>1, <1>2 DEF JobsOK, JobOK, RowKept, HasRow, Works
<1>3. ASSUME NEW e \in Expirers, job'[e].pc = "idle",
             \A s \in job'[e].batch : s \in Sessions /\ HasRow(s)
      PROVE  JobOK(e)'
  BY <1>1, <1>3 DEF JobOK, RowKept, HasRow, Works
<1>4. CASE UNCHANGED job
  BY <1>0, <1>2, <1>4 DEF StoresOK, JobsOK
<1>5. ASSUME NEW e \in Expirers, NEW B \in SUBSET Sessions, \A s \in B : HasRow(s),
             job[e] = NoExpiry, job' = [job EXCEPT ![e].batch = B]
      PROVE  job' \in [Expirers -> Jobs] /\ JobsOK'
  <2>1. /\ job' \in [Expirers -> Jobs]
        /\ job'[e].pc = "idle" /\ job'[e].batch = B
        /\ \A f \in Expirers : f # e => job'[f] = job[f]
    BY <1>0, <1>5, SelectSets
  <2>2. QED
    BY <1>2, <1>3, <1>5, <2>1 DEF JobsOK
<1>6. ASSUME NEW w \in Workers, WorkerSelect(w)
      PROVE  job' \in [Expirers -> Jobs] /\ JobsOK'
  <2>1. DueSessions \subseteq Sessions /\ \A s \in DueSessions : HasRow(s)
    BY <1>0, RowOf DEF DueSessions, StoresOK
  <2>2. w \in Expirers
    BY DEF Expirers
  <2>3. QED
    BY <1>5, <1>6, <2>1, <2>2 DEF WorkerSelect
<1>7. ASSUME NEW e \in Admins, NEW s \in Sessions, AdminSelect(e, s)
      PROVE  job' \in [Expirers -> Jobs] /\ JobsOK'
  <2>1. e \in Expirers
    BY DEF Expirers
  <2>2. /\ {s} \in SUBSET Sessions /\ \A t \in {s} : HasRow(t)
        /\ job[e] = NoExpiry /\ job' = [job EXCEPT ![e].batch = {s}]
    BY <1>7 DEF AdminSelect, Known
  <2>3. QED
    BY <1>5, <2>1, <2>2
<1>8. ASSUME NEW e \in Expirers, Expire(e)
      PROVE  job' \in [Expirers -> Jobs] /\ JobsOK'
  <2>1. CASE JobAdvances(e)
    <3>1. /\ Works(e) /\ job' \in [Expirers -> Jobs]
          /\ job'[e].batch = job[e].batch /\ job'[e].s = job[e].s
          /\ job'[e].a = job[e].a /\ job'[e].n = job[e].n
          /\ \A f \in Expirers : f # e => job'[f] = job[f]
      BY <1>0, <2>1, AdvanceKept
    <3>2. JobOK(e)'
      BY <1>0, <1>1, <3>1 DEF JobsOK, JobOK, RowKept, HasRow, Works
    <3>3. QED
      BY <1>2, <3>1, <3>2 DEF JobsOK
  <2>2. ASSUME NEW s \in Sessions, ExpireRead(e, s), rows[s].state # "EXPIRED"
        PROVE  job' \in [Expirers -> Jobs] /\ JobsOK'
    <3>1. /\ job' \in [Expirers -> Jobs]
          /\ job'[e].batch = job[e].batch /\ job'[e].s = s
          /\ job'[e].a = rows[s].a /\ job'[e].n = rows[s].proxy
          /\ HasRow(s) /\ \A f \in Expirers : f # e => job'[f] = job[f]
      BY <2>2, ReadJob
    <3>2. JobOK(e)'
      BY <1>0, <1>1, <3>1 DEF JobsOK, JobOK, RowKept, HasRow
    <3>3. QED
      BY <1>2, <3>1, <3>2 DEF JobsOK
  <2>3. ASSUME NEW s \in Sessions, JobDone(e, s)
        PROVE  job' \in [Expirers -> Jobs] /\ JobsOK'
    <3>1. /\ job' \in [Expirers -> Jobs]
          /\ job'[e].pc = "idle" /\ job'[e].batch = job[e].batch \ {s}
          /\ \A f \in Expirers : f # e => job'[f] = job[f]
      BY <1>0, <2>3, JobEnds
    <3>2. JobOK(e)'
      BY <1>0, <1>1, <1>3, <3>1 DEF JobsOK, JobOK
    <3>3. QED
      BY <1>2, <3>1, <3>2 DEF JobsOK
  <2>4. QED
    BY <1>8, <2>1, <2>2, <2>3, ExpireJobs
<1>9. QED
  BY <1>4, <1>6, <1>7, <1>8, JobMove

-----------------------------------------------------------------------------
(* To the pool, a session's requests and expiries are callers like others. *)
LEMMA FreshIsUnclaimed ==
  ASSUME BaseInv, NEW s \in Sessions, Fresh(s)
  PROVE  Unclaimed(s)
BY DEF BaseInv, TracesOK, Fresh, Unclaimed

LEMMA PoolUses ==
  ASSUME BaseInv, [SessionNext]_vars
  PROVE  \/ [PoolNext]_poolVars
         \/ \E c \in Clients : RollbackRelease(c)
         \/ \E e \in Expirers : ExpireRelease(e) \/ ExpireUnclaim(e)
<1>0. StoresOK /\ ReqsOK /\ RowsOK
  BY DEF BaseInv
<1>1. ASSUME NEW c \in Clients, Create(c)
      PROVE  [PoolNext]_poolVars \/ RollbackRelease(c)
  <2>0. Makes(c) => /\ req[c].s \in Sessions /\ req[c].n \in Numbers
                    /\ req[c].a \in Parties /\ req[c].b \in Parties
    BY <1>0, ReqClass DEF Makes, StoresOK, MakeReqs
  <2>1. ASSUME NEW s \in Sessions, NEW p \in Pairs, NEW n \in Numbers, CreateAllocate(c, s, p, n)
        PROVE  PoolNext
    <3>1. Unclaimed(s) /\ Allocate(s, {p[1], p[2]}, n)
      BY <2>1, FreshIsUnclaimed DEF CreateAllocate
    <3>2. {p[1], p[2]} \in SUBSET Parties
      BY DEF Pairs
    <3>3. QED
      BY <3>1, <3>2 DEF PoolNext
  <2>2. CASE CreateCache(c)
    <3>1. {req[c].a, req[c].b} \in SUBSET Parties /\ req[c].s \in Sessions
      BY <2>0, <2>2 DEF CreateCache, At, Makes, MakePcs, CreatePcs
    <3>2. HashChanges(req[c].s, {req[c].a, req[c].b})
      BY <2>2 DEF CreateCache
    <3>3. QED
      BY <3>1, <3>2 DEF PoolNext
  <2>3. \/ UNCHANGED poolVars \/ CreateCache(c) \/ RollbackRelease(c)
        \/ \E s \in Sessions, p \in Pairs, n \in Numbers : CreateAllocate(c, s, p, n)
    BY <1>1 DEF Create, CreateAdmit, CreateExhausted, CreateInsert, CreateActivate,
       CreateTrack, CreateReply, CreateFails, RollbackRow, RollbackFails
  <2>4. QED
    BY <2>1, <2>2, <2>3
<1>2. ASSUME NEW c \in Clients, Modify(c)
      PROVE  [PoolNext]_poolVars
  <2>1. CASE SwapScript(c)
    <3>1. req[c] \in SwapReqs
      BY <1>0, <2>1, ReqClass DEF SwapScript, At, StoresOK, SwapPcs
    <3>2. HasRow(req[c].s) /\ req[c].s \in Sessions
      BY <1>0, <2>1, NamedHasRow DEF SwapScript, At, SwapPcs
    <3>3. req[c].new \in Parties /\ rows[req[c].s].a \in Parties
      BY <1>0, <3>1, <3>2, RowOf DEF SwapReqs
    <3>4. \E P \in SUBSET Parties : HashChanges(req[c].s, P)
      BY <2>1, <3>3 DEF SwapScript
    <3>5. QED
      BY <3>2, <3>4 DEF PoolNext
  <2>2. UNCHANGED poolVars \/ SwapScript(c)
    BY <1>2 DEF Modify, EndRead, EndRow, EndCache, SwapRead, SwapSiblings, SwapProbe,
       SwapRow, SwapMissing, SwapRepairOld, SwapRepairNew, ExtendRead, ExtendRow
  <2>3. QED
    BY <2>1, <2>2
<1>3. ASSUME NEW s \in Sessions, DropHash(s)
      PROVE  PoolNext
  <2>1. HashChanges(s, {}) /\ {} \in SUBSET Parties
    BY <1>3 DEF DropHash
  <2>2. QED
    BY <2>1 DEF PoolNext
<1>4. ASSUME NEW e \in Expirers, Expire(e)
      PROVE  [PoolNext]_poolVars \/ ExpireRelease(e) \/ ExpireUnclaim(e)
  <2>0. Works(e) => job[e].s \in Sessions /\ job[e].n \in Numbers
    BY <1>0, JobClass DEF Works, StoresOK, WorkJobs
  <2>1. CASE ExpireDelHash(e)
    BY <1>3, <2>0, <2>1 DEF ExpireDelHash, JobAt, Works
  <2>2. UNCHANGED poolVars \/ ExpireRelease(e) \/ ExpireDelHash(e) \/ ExpireUnclaim(e)
    BY <1>4 DEF Expire, ExpireRead, ExpireMark, ExpireUnindexA, ExpireUnindexB,
       ExpireUntrack, ExpireFails
  <2>3. QED
    BY <2>1, <2>2
<1>5. CASE PoolBackground
  BY <1>5 DEF PoolBackground, PoolNext
<1>6. ASSUME NEW s \in Sessions, HashEvicted(s)
      PROVE  PoolNext
  BY <1>3, <1>6 DEF HashEvicted
<1>7. QED
  BY <1>1, <1>2, <1>4, <1>5, <1>6 DEF SessionNext, vars, WorkerSelect, AdminSelect, DeadlinePasses

LEMMA PoolStep ==
  ASSUME BaseInv, [SessionNext]_vars
  PROVE  [PoolNext]_poolVars
<1>0. StoresOK
  BY DEF BaseInv
<1>1. ASSUME NEW c \in Clients, RollbackRelease(c)
      PROVE  PoolNext
  <2>1. req[c].s \in Sessions /\ req[c].n \in Numbers /\ c \in Callers /\ FALSE \in BOOLEAN
    BY <1>0, <1>1, ReqClass, SessionAssumption DEF RollbackRelease, At, MakePcs, RollbackPcs,
       StoresOK, MakeReqs
  <2>2. Release(c, req[c].s, req[c].n, FALSE)
    BY <1>1 DEF RollbackRelease
  <2>3. QED
    BY <2>1, <2>2 DEF PoolNext
<1>2. ASSUME NEW e \in Expirers, ExpireRelease(e) \/ ExpireUnclaim(e)
      PROVE  PoolNext
  <2>1. e \in Callers /\ job[e].s \in Sessions /\ job[e].n \in Numbers
    BY <1>0, <1>2, JobClass, SessionAssumption DEF ExpireRelease, ExpireUnclaim, JobAt, StoresOK,
       WorkJobs
  <2>2. \/ \E rest \in BOOLEAN : Release(e, job[e].s, job[e].n, rest)
        \/ Unclaim(job[e].s, job[e].n)
    BY <1>2, SessionAssumption DEF ExpireRelease, ExpireUnclaim
  <2>3. QED
    BY <2>1, <2>2 DEF PoolNext
<1>3. QED
  BY <1>1, <1>2, PoolUses

-----------------------------------------------------------------------------
(* The caches and indexes.                                                 *)
LEMMA CacheTyped ==
  ASSUME BaseInv, [SessionNext]_vars
  PROVE  /\ hashState' \in [Sessions -> LiveStates \cup {"none", "bare"}]
         /\ hashId' \subseteq Sessions
         /\ ttl' \in [Sessions -> {"none", "full", "short"}]
<1>0. StoresOK /\ ReqsOK
  BY DEF BaseInv
<1>t. /\ hashState \in [Sessions -> LiveStates \cup {"none", "bare"}]
      /\ hashId \subseteq Sessions
      /\ ttl \in [Sessions -> {"none", "full", "short"}]
  BY <1>0 DEF StoresOK
<1>1. ASSUME NEW c \in Clients, CreateCache(c) \/ EndRow(c) \/ EndCache(c) \/ ExtendRow(c)
      PROVE  req[c].s \in Sessions
  BY <1>0, <1>1, NamedHasRow DEF CreateCache, EndRow, EndCache, ExtendRow, At, CreatePcs
<1>2. ASSUME NEW c \in Clients, CreateCache(c)
      PROVE  /\ hashState' \in [Sessions -> LiveStates \cup {"none", "bare"}]
             /\ hashId' \subseteq Sessions
             /\ ttl' \in [Sessions -> {"none", "full", "short"}]
  BY <1>t, <1>1, <1>2 DEF CreateCache, FirstTtl, LiveStates
<1>3. ASSUME NEW c \in Clients, EndRow(c) \/ EndCache(c) \/ ExtendRow(c)
      PROVE  /\ hashState' \in [Sessions -> LiveStates \cup {"none", "bare"}]
             /\ hashId' \subseteq Sessions
             /\ ttl' \in [Sessions -> {"none", "full", "short"}]
  BY <1>t, <1>1, <1>3 DEF EndRow, EndCache, ExtendRow, NewDeadline, LiveStates
<1>4. ASSUME NEW s \in Sessions, DropHash(s)
      PROVE  /\ hashState' \in [Sessions -> LiveStates \cup {"none", "bare"}]
             /\ hashId' \subseteq Sessions
             /\ ttl' \in [Sessions -> {"none", "full", "short"}]
  BY <1>t, <1>4 DEF DropHash
<1>5. ASSUME NEW e \in Expirers, ExpireDelHash(e)
      PROVE  job[e].s \in Sessions /\ DropHash(job[e].s)
  BY <1>0, <1>5, JobClass DEF ExpireDelHash, JobAt, StoresOK, WorkJobs
<1>6. QED
  BY <1>t, <1>2, <1>3, <1>4, <1>5, CacheMove DEF cacheVars, SwapScript, HashEvicted

LEMMA IndexTyped ==
  ASSUME BaseInv, [SessionNext]_vars
  PROVE  /\ phoneSessions' \in [Parties -> SUBSET Sessions]
         /\ \A s \in Sessions, p \in Parties :
              ~HasRow(s) /\ s \in phoneSessions[p] => s \in phoneSessions'[p]
<1>0. StoresOK /\ ReqsOK /\ JobsOK /\ phoneSessions \in [Parties -> SUBSET Sessions]
  BY DEF BaseInv, StoresOK
<1>1. ASSUME NEW c \in Clients, NEW s \in Sessions, NEW p \in Pairs, NEW n \in Numbers,
             CreateAllocate(c, s, p, n)
      PROVE  /\ phoneSessions' \in [Parties -> SUBSET Sessions]
             /\ \A q \in Parties : phoneSessions[q] \subseteq phoneSessions'[q]
  BY <1>0, <1>1 DEF CreateAllocate
<1>2. ASSUME NEW c \in Clients, SwapScript(c) \/ SwapRepairOld(c) \/ SwapRepairNew(c)
      PROVE  /\ phoneSessions' \in [Parties -> SUBSET Sessions]
             /\ HasRow(req[c].s)
             /\ \A q \in Parties : phoneSessions[q] \ {req[c].s} \subseteq phoneSessions'[q]
  <2>1. req[c].s \in Sessions /\ HasRow(req[c].s)
    BY <1>0, <1>2, NamedHasRow DEF SwapScript, SwapRepairOld, SwapRepairNew, At, SwapPcs
  <2>2. QED
    BY <1>0, <1>2, <2>1 DEF SwapScript, SwapRepairOld, SwapRepairNew, Unindex, Index
<1>3. ASSUME NEW e \in Expirers, ExpireUnindexA(e) \/ ExpireUnindexB(e)
      PROVE  /\ phoneSessions' \in [Parties -> SUBSET Sessions]
             /\ HasRow(job[e].s)
             /\ \A q \in Parties : phoneSessions[q] \ {job[e].s} \subseteq phoneSessions'[q]
  <2>1. HasRow(job[e].s)
    BY <1>0, <1>3 DEF ExpireUnindexA, ExpireUnindexB, JobAt, JobsOK, JobOK, Works
  <2>2. QED
    BY <1>0, <1>3, <2>1 DEF ExpireUnindexA, ExpireUnindexB, Unindex
<1>4. QED
  BY <1>0, <1>1, <1>2, <1>3, IndexMove

LEMMA QuotaTyped ==
  ASSUME BaseInv, [SessionNext]_vars
  PROVE  tenantActive' \in [Tenants -> SUBSET Sessions]
<1>0. StoresOK /\ ReqsOK /\ tenantActive \in [Tenants -> SUBSET Sessions]
  BY DEF BaseInv, StoresOK
<1>1. ASSUME NEW c \in Clients, CreateTrack(c)
      PROVE  tenantActive' \in [Tenants -> SUBSET Sessions]
  <2>1. req[c].s \in Sessions
    BY <1>0, <1>1, NamedHasRow DEF CreateTrack, At, CreatePcs
  <2>2. QED
    BY <1>0, <1>1, <2>1 DEF CreateTrack
<1>2. ASSUME NEW e \in Expirers, ExpireUntrack(e)
      PROVE  tenantActive' \in [Tenants -> SUBSET Sessions]
  BY <1>0, <1>2 DEF ExpireUntrack
<1>3. QED
  BY <1>0, <1>1, <1>2, QuotaMove

LEMMA DueTyped ==
  ASSUME BaseInv, [SessionNext]_vars
  PROVE  due' \subseteq Sessions
<1>0. StoresOK /\ ReqsOK /\ due \subseteq Sessions
  BY DEF BaseInv, StoresOK
<1>1. ASSUME NEW c \in Clients, EndRow(c) \/ ExtendRow(c)
      PROVE  due' \subseteq Sessions
  <2>1. req[c].s \in Sessions
    BY <1>0, <1>1, NamedHasRow DEF EndRow, ExtendRow, At
  <2>2. QED
    BY <1>0, <1>1, <2>1 DEF EndRow, ExtendRow, NewDeadline
<1>2. QED
  BY <1>0, <1>1, DueMove DEF DeadlinePasses

-----------------------------------------------------------------------------
(* A fresh id is nobody's, and what has no row has left no trace.          *)
LEMMA FreshIsNobodys ==
  ASSUME BaseInv, NEW s \in Sessions, Fresh(s)
  PROVE  \A c \in Clients : Makes(c) => req[c].s # s
<1>1. ASSUME NEW c \in Clients, Makes(c), req[c].s = s
      PROVE  FALSE
  <2>1. req[c].a \in Parties
    BY <1>1, ReqClass DEF BaseInv, StoresOK, Makes, MakeReqs
  <2>2. ~HasRow(s) /\ s \notin phoneSessions[req[c].a]
    BY <2>1 DEF Fresh
  <2>3. QED
    BY <1>1, <2>2 DEF BaseInv, ReqsOK, ReqOK, Makes
<1>2. QED
  BY <1>1

LEMMA TracesStep ==
  ASSUME BaseInv, [SessionNext]_vars
  PROVE  TracesOK'
<1> SUFFICES ASSUME NEW s \in Sessions, rows'[s] = NoRow
             PROVE  /\ s \notin due' \cup hashId'
                    /\ hashState'[s] = "none" /\ ttl'[s] = "none" /\ hashParties'[s] = {}
                    /\ \A t \in Tenants : s \notin tenantActive'[t]
                    /\ \A n \in Numbers : s \in proxySessions'[n] =>
                         \E p \in Parties : s \in phoneSessions'[p]
  BY DEF TracesOK, HasRow
<1>0. StoresOK /\ ReqsOK /\ JobsOK /\ PoolTypeOK
  BY DEF BaseInv
<1>t. /\ hashState \in [Sessions -> LiveStates \cup {"none", "bare"}]
      /\ ttl \in [Sessions -> {"none", "full", "short"}]
      /\ tenantActive \in [Tenants -> SUBSET Sessions]
      /\ hashParties \in [Sessions -> SUBSET Parties]
      /\ proxySessions \in [Numbers -> SUBSET Sessions]
  BY <1>0 DEF StoresOK, PoolTypeOK
<1>1. ~HasRow(s)
  BY RowsStep DEF RowKept, HasRow
<1>2. /\ s \notin due \cup hashId
      /\ hashState[s] = "none" /\ ttl[s] = "none" /\ hashParties[s] = {}
      /\ \A t \in Tenants : s \notin tenantActive[t]
      /\ \A n \in Numbers : s \in proxySessions[n] => \E p \in Parties : s \in phoneSessions[p]
  BY <1>1 DEF BaseInv, TracesOK
<1>3. \A c \in Clients :
        req[c].pc \in (CreatePcs \ {"insert"}) \cup {"endRow", "endCache", "siblings", "extend"}
                        \cup SwapPcs
          => req[c].s # s
  BY <1>0, <1>1, NamedHasRow
<1>4. s \notin due'
  BY <1>1, <1>2, <1>3, DueMove DEF EndRow, ExtendRow, NewDeadline, DeadlinePasses, At
<1>5. s \notin hashId' /\ hashState'[s] = "none" /\ ttl'[s] = "none" /\ hashParties'[s] = {}
  <2>1. ASSUME NEW c \in Clients, CreateCache(c) \/ EndRow(c) \/ EndCache(c) \/ SwapScript(c)
                                    \/ ExtendRow(c)
        PROVE  s \notin hashId' /\ hashState'[s] = "none" /\ ttl'[s] = "none" /\ hashParties'[s] = {}
    <3>1. req[c].s # s
      BY <1>3, <2>1 DEF CreateCache, EndRow, EndCache, SwapScript, ExtendRow, At, CreatePcs, SwapPcs
    <3>2. QED
      BY <1>t, <1>2, <2>1, <3>1 DEF CreateCache, FirstTtl, EndRow, EndCache, SwapScript, ExtendRow,
         NewDeadline, HashChanges, cacheVars, poolVars
  <2>2. ASSUME NEW r \in Sessions, DropHash(r)
        PROVE  s \notin hashId' /\ hashState'[s] = "none" /\ ttl'[s] = "none" /\ hashParties'[s] = {}
    BY <1>t, <1>2, <2>2 DEF DropHash, HashChanges
  <2>3. ASSUME NEW e \in Expirers, ExpireDelHash(e)
        PROVE  job[e].s \in Sessions /\ DropHash(job[e].s)
    BY <1>0, <2>3, JobClass DEF ExpireDelHash, JobAt, StoresOK, WorkJobs
  <2>4. QED
    BY <1>2, <2>1, <2>2, <2>3, CacheMove DEF cacheVars, HashEvicted
<1>6. \A t \in Tenants : s \notin tenantActive'[t]
  BY <1>t, <1>2, <1>3, QuotaMove DEF CreateTrack, ExpireUntrack, At, CreatePcs
<1>7. ASSUME NEW n \in Numbers, s \in proxySessions'[n]
      PROVE  \E p \in Parties : s \in phoneSessions'[p]
  <2>1. CASE s \in proxySessions[n]
    BY <1>1, <1>2, <2>1, IndexTyped
  <2>2. ASSUME NEW c \in Clients, NEW r \in Sessions, NEW p \in Pairs, NEW m \in Numbers,
               CreateAllocate(c, r, p, m), s \notin proxySessions[n]
        PROVE  \E q \in Parties : s \in phoneSessions'[q]
    <3>1. r = s
      BY <1>t, <1>7, <2>2 DEF CreateAllocate, Allocate, AllocateAvailable, AllocateShared, Claim
    <3>2. p[1] \in Parties
      BY DEF Pairs
    <3>3. s \in phoneSessions'[p[1]]
      BY <2>2, <3>1, <3>2 DEF CreateAllocate
    <3>4. QED
      BY <3>2, <3>3
  <2>3. CASE UNCHANGED proxySessions
    BY <1>7, <2>1, <2>3
  <2>4. ASSUME NEW r, NEW m, proxySessions' = [proxySessions EXCEPT ![m] = @ \ {r}]
        PROVE  s \in proxySessions[n]
    BY <1>t, <1>7, <2>4
  <2>5. QED
    BY <2>1, <2>2, <2>3, <2>4, ClaimMove DEF RollbackRelease, ExpireRelease, ExpireUnclaim,
       Release, Unclaim
<1>8. QED
  BY <1>4, <1>5, <1>6, <1>7

LEMMA ClaimsStep ==
  ASSUME BaseInv, [SessionNext]_vars
  PROVE  ClaimsOK'
<1>0. StoresOK /\ PoolTypeOK /\ proxySessions \in [Numbers -> SUBSET Sessions]
  BY DEF BaseInv, PoolTypeOK
<1>1. ASSUME NEW n \in Numbers, NEW s \in Sessions, s \in proxySessions[n]
      PROVE  /\ rows'[s] # NoRow => rows'[s].proxy = n
             /\ \A c \in Clients : Makes(c)' /\ req'[c].s = s => req'[c].n = n
  <2>1. /\ HasRow(s) => rows[s].proxy = n
        /\ \A c \in Clients : Makes(c) /\ req[c].s = s => req[c].n = n
    BY <1>1 DEF BaseInv, ClaimsOK
  <2>2. ASSUME NEW c \in Clients, CreateInsert(c), req[c].s = s
        PROVE  rows'[s].proxy = n
    BY <1>0, <2>1, <2>2, InsertSets DEF CreateInsert, At, Makes, MakePcs, CreatePcs
  <2>3. rows'[s] # NoRow => rows'[s].proxy = n
    BY <2>1, <2>2, RowsStep DEF RowKept, HasRow
  <2>4. ASSUME NEW c \in Clients, req'[c] = req[c], Makes(c)', req'[c].s = s
        PROVE  req'[c].n = n
    BY <2>1, <2>4 DEF Makes
  <2>5. ASSUME NEW c \in Clients, Create(c), Makes(c)', req'[c].s = s
        PROVE  req'[c].n = n
    <3>1. CASE MakerMoves(c)
      BY <1>0, <2>1, <2>5, <3>1, MakerKept
    <3>2. ASSUME NEW r \in Sessions, NEW p \in Pairs, NEW m \in Numbers, CreateAllocate(c, r, p, m)
          PROVE  FALSE
      <4>0. req'[c].pc # "idle"
        BY <2>5 DEF Makes, MakePcs, CreatePcs, RollbackPcs
      <4>1. req'[c].s = r /\ Unclaimed(r)
        BY <1>0, <3>2, <4>0, AllocateGoes, FreshIsUnclaimed DEF CreateAllocate
      <4>2. QED
        BY <1>1, <2>5, <4>1 DEF Unclaimed
    <3>3. req'[c].pc \notin {"idle", "allocate"}
      BY <2>5 DEF Makes, MakePcs, CreatePcs, RollbackPcs
    <3>4. QED
      BY <1>0, <2>5, <3>1, <3>2, <3>3, CreateReqs
  <2>6. \A c \in Clients : Makes(c)' => req'[c] = req[c] \/ Create(c)
    BY <1>0, ReqMove, CreateReqs, ModifyReqs DEF Makes
  <2>7. QED
    BY <2>3, <2>4, <2>5, <2>6
<1>2. ASSUME NEW c \in Clients, NEW s \in Sessions, NEW p \in Pairs, NEW m \in Numbers,
             CreateAllocate(c, s, p, m)
      PROVE  /\ rows'[s] = NoRow
             /\ \A d \in Clients : Makes(d)' /\ req'[d].s = s => req'[d].n = m
  <2>1. Fresh(s) /\ UNCHANGED rows
    BY <1>2 DEF CreateAllocate
  <2>2. (Makes(c)' => req'[c].n = m) /\ \A d \in Clients : d # c => req'[d] = req[d]
    BY <1>0, <1>2, AllocateSets DEF NoReq, Makes, MakePcs, CreatePcs, RollbackPcs
  <2>3. QED
    BY <2>1, <2>2, FreshIsNobodys DEF Fresh, HasRow, Makes
<1>3. ASSUME NEW n \in Numbers, NEW s \in proxySessions'[n]
      PROVE  \/ s \in Sessions /\ s \in proxySessions[n]
             \/ \E c \in Clients, p \in Pairs : s \in Sessions /\ CreateAllocate(c, s, p, n)
  <2>1. ASSUME NEW c \in Clients, NEW r \in Sessions, NEW p \in Pairs, NEW m \in Numbers,
               CreateAllocate(c, r, p, m), s \notin proxySessions[n]
        PROVE  r = s /\ m = n
    BY <1>0, <1>3, <2>1 DEF CreateAllocate, Allocate, AllocateAvailable, AllocateShared, Claim
  <2>2. ASSUME NEW r, NEW m, proxySessions' = [proxySessions EXCEPT ![m] = @ \ {r}]
        PROVE  s \in proxySessions[n]
    BY <1>0, <1>3, <2>2
  <2>3. s \in proxySessions[n] => s \in Sessions
    BY <1>0
  <2>4. QED
    BY <1>3, <2>1, <2>2, <2>3, ClaimMove DEF RollbackRelease, ExpireRelease, ExpireUnclaim,
       Release, Unclaim
<1>4. QED
  BY <1>1, <1>2, <1>3 DEF ClaimsOK, HasRow

-----------------------------------------------------------------------------
(* Requests name sessions that are there.                                  *)
LEMMA OtherReqs ==
  ASSUME BaseInv, [SessionNext]_vars, NEW d \in Clients, req'[d] = req[d], ~CreateInsert(d)
  PROVE  ReqOK(d)'
<1>0. StoresOK /\ ReqsOK /\ ReqOK(d)
  BY DEF BaseInv, ReqsOK
<1>1. CASE Makes(d)
  <2>1. req[d] \in MakeReqs
    BY <1>0, <1>1, ReqClass DEF StoresOK, Makes
  <2>2. req[d].s \in Sessions /\ req[d].a \in Parties
    BY <2>1 DEF MakeReqs
  <2>3. HasRow(req[d].s) => RowKept(req[d].s)
    BY <2>2, RowsStep
  <2>4. ~HasRow(req[d].s) => rows'[req[d].s] = NoRow
    <3>1. ASSUME NEW c \in Clients, CreateInsert(c), req[c].s = req[d].s
          PROVE  FALSE
      <4>1. Makes(c)
        BY <3>1 DEF CreateInsert, At, Makes, MakePcs, CreatePcs
      <4>2. QED
        BY <1>0, <1>1, <3>1, <4>1 DEF ReqsOK
    <3>2. QED
      BY <2>2, <3>1, RowsStep DEF HasRow
  <2>5. ~HasRow(req[d].s) /\ req[d].s \in phoneSessions[req[d].a]
          => req[d].s \in phoneSessions'[req[d].a]
    BY <2>2, IndexTyped
  <2>6. QED
    BY <1>0, <1>1, <2>3, <2>4, <2>5 DEF ReqOK, HasRow, RowKept, Makes, MakePcs, CreatePcs,
       RollbackPcs, SwapPcs
<1>2. CASE ~Makes(d)
  <2>1. req[d].pc \in {"endRow", "endCache", "siblings", "extend"} \cup SwapPcs =>
          req[d].s \in Sessions /\ HasRow(req[d].s)
    BY <1>0, NamedHasRow
  <2>2. req[d].pc \in {"endRow", "endCache", "siblings", "extend"} \cup SwapPcs =>
          RowKept(req[d].s)
    BY <2>1, RowsStep
  <2>3. QED
    BY <1>0, <1>2, <2>2 DEF ReqOK, HasRow, RowKept, Makes
<1>3. QED
  BY <1>1, <1>2

LEMMA MakerStep ==
  ASSUME BaseInv, [SessionNext]_vars, NEW c \in Clients, MakerMoves(c)
  PROVE  ReqOK(c)'
<1>0. StoresOK /\ ReqsOK /\ ReqOK(c)
  BY DEF BaseInv, ReqsOK
<1>1. /\ Makes(c) /\ req[c] \in MakeReqs
      /\ req'[c] \in MakeReqs
      /\ req'[c].s = req[c].s /\ req'[c].a = req[c].a
      /\ req'[c].b = req[c].b /\ req'[c].n = req[c].n
  BY <1>0, MakerKept
<1>2. req[c].s \in Sessions /\ req[c].a \in Parties /\ req'[c].pc \in MakePcs
  BY <1>1 DEF MakeReqs
<1>3. HasRow(req[c].s) => RowKept(req[c].s)
  BY <1>2, RowsStep
<1>4. CASE CreateInsert(c)
  <2>1. /\ rows'[req[c].s] # NoRow
        /\ rows'[req[c].s].a = req[c].a /\ rows'[req[c].s].proxy = req[c].n
    BY <1>0, <1>4, InsertSets
  <2>2. req'[c].pc = "activate"
    BY <1>0, <1>4 DEF CreateInsert, Goto, StoresOK, MakeReqs, BaseInv
  <2>3. QED
    BY <1>0, <1>1, <1>2, <2>1, <2>2 DEF ReqOK, HasRow, Makes, SwapPcs, CreatePcs
<1>5. CASE ~CreateInsert(c)
  <2>1. rows'[req[c].s] # NoRow => HasRow(req[c].s)
    <3>1. ASSUME NEW d \in Clients, CreateInsert(d), req[d].s = req[c].s
          PROVE  FALSE
      <4>1. Makes(d)
        BY <3>1 DEF CreateInsert, At, Makes, MakePcs, CreatePcs
      <4>2. QED
        BY <1>0, <1>1, <1>5, <3>1, <4>1 DEF ReqsOK
    <3>2. QED
      BY <1>2, <3>1, RowsStep DEF HasRow
  <2>2. ~HasRow(req[c].s) /\ req[c].s \in phoneSessions[req[c].a]
          => req[c].s \in phoneSessions'[req[c].a]
    BY <1>2, IndexTyped
  <2>3. req'[c].pc # "insert" /\ (req'[c].pc \in CreatePcs => HasRow(req[c].s))
    <3>1. CASE CreateActivate(c) \/ CreateCache(c) \/ CreateTrack(c)
      <4>1. HasRow(req[c].s)
        BY <1>0, <3>1, NamedHasRow DEF CreateActivate, CreateCache, CreateTrack, At, CreatePcs
      <4>2. req'[c].pc \in {"cache", "track", "reply", "rollback"}
        BY <1>0, <1>1, <3>1 DEF CreateActivate, CreateCache, CreateTrack, Goto, StoresOK, MakeReqs
      <4>3. QED
        BY <4>1, <4>2
    <3>2. CASE CreateFails(c) \/ RollbackRelease(c) \/ (RollbackFails(c) /\ At(c, "rollback"))
      <4>1. Goto(c, "rollback") \/ Goto(c, "failRow")
        BY <3>2 DEF CreateFails, RollbackRelease, RollbackFails, At
      <4>2. req'[c].pc \in {"rollback", "failRow"}
        BY <1>0, <1>1, <4>1 DEF Goto, StoresOK, MakeReqs
      <4>3. QED
        BY <4>2 DEF CreatePcs
    <3>3. QED
      BY <1>5, <3>1, <3>2 DEF MakerMoves
  <2>4. QED
    BY <1>0, <1>1, <1>2, <1>3, <2>1, <2>2, <2>3 DEF ReqOK, HasRow, RowKept, Makes, MakePcs,
       CreatePcs, RollbackPcs, SwapPcs
<1>6. QED
  BY <1>4, <1>5

LEMMA ReqsStep ==
  ASSUME BaseInv, [SessionNext]_vars
  PROVE  req' \in [Clients -> Reqs] /\ ReqsOK'
<1>0. StoresOK /\ ReqsOK
  BY DEF BaseInv
<1>r. \A s \in Sessions : HasRow(s) => RowKept(s)
  BY RowsStep
<1>i. ASSUME NEW d \in Clients, req'[d].pc \notin MakePcs,
             req'[d].pc \in {"endRow", "endCache", "siblings", "extend"} \cup SwapPcs =>
               rows'[req'[d].s] # NoRow,
             req'[d].pc \in {"siblings"} \cup SwapPcs =>
               /\ tenantOf(req'[d].new) = tenantOf(rows'[req'[d].s].a)
               /\ req'[d].new # rows'[req'[d].s].a
      PROVE  ReqOK(d)'
  BY <1>i DEF ReqOK, HasRow
<1>1. CASE UNCHANGED req
  <2>1. \A c \in Clients : ~CreateInsert(c)
    <3>1. ASSUME NEW c \in Clients, CreateInsert(c)
          PROVE  FALSE
      <4>1. Goto(c, "activate") /\ req[c].pc = "insert" /\ req[c] \in MakeReqs
        BY <1>0, <3>1, InsertSets DEF CreateInsert, At
      <4>2. req'[c].pc = "activate"
        BY <1>0, <4>1 DEF Goto, StoresOK, MakeReqs
      <4>3. QED
        BY <1>1, <4>1, <4>2
    <3>2. QED
      BY <3>1
  <2>2. QED
    BY <1>0, <1>1, <2>1, OtherReqs DEF StoresOK, ReqsOK, Makes
<1>2. ASSUME NEW c \in Clients, Create(c)
      PROVE  req' \in [Clients -> Reqs] /\ ReqsOK'
  <2>1. /\ req' \in [Clients -> Reqs]
        /\ \A d \in Clients : d # c => req'[d] = req[d]
        /\ \/ MakerMoves(c)
           \/ \E s \in Sessions, p \in Pairs, n \in Numbers : CreateAllocate(c, s, p, n)
           \/ req'[c].pc \in {"idle", "allocate"}
    BY <1>0, <1>2, CreateReqs
  <2>2. ASSUME NEW d \in Clients, d # c
        PROVE  ReqOK(d)'
    <3>1. ~CreateInsert(d)
      <4>1. ASSUME CreateInsert(d)
            PROVE  FALSE
        <5>1. req' = [req EXCEPT ![d].pc = "activate"] /\ req[d] \in MakeReqs /\ req[d].pc = "insert"
          BY <1>0, <4>1, InsertSets DEF CreateInsert, Goto, At
        <5>2. req'[d].pc = "activate"
          BY <1>0, <5>1 DEF StoresOK, MakeReqs
        <5>3. QED
          BY <2>1, <2>2, <5>1, <5>2
      <4>2. QED
        BY <4>1
    <3>2. QED
      BY <2>1, <2>2, <3>1, OtherReqs
  <2>3. CASE MakerMoves(c)
    <3>1. ReqOK(c)'
      BY <2>3, MakerStep
    <3>2. Makes(c) /\ req'[c].s = req[c].s
      BY <1>0, <2>3, MakerKept
    <3>3. QED
      BY <1>0, <2>1, <2>2, <3>1, <3>2 DEF ReqsOK, Makes
  <2>4. ASSUME NEW s \in Sessions, NEW p \in Pairs, NEW n \in Numbers, CreateAllocate(c, s, p, n),
               req'[c].pc # "idle"
        PROVE  ReqsOK'
    <3>1. /\ p[1] \in Parties /\ p[2] \in Parties
          /\ tenantOf(p[1]) = tenantOf(p[2]) /\ p[1] # p[2]
          /\ req'[c].pc = "insert" /\ req'[c].s = s
          /\ req'[c].a = p[1] /\ req'[c].b = p[2] /\ req'[c].n = n
      BY <1>0, <2>4, AllocateSets DEF NoReq
    <3>2. rows'[s] = NoRow /\ s \in phoneSessions'[p[1]] /\ Fresh(s)
      BY <2>4, <3>1 DEF CreateAllocate, Fresh, HasRow
    <3>3. ReqOK(c)'
      BY <3>1, <3>2 DEF ReqOK, HasRow, SwapPcs, CreatePcs
    <3>4. \A d \in Clients : Makes(d) => req[d].s # s
      BY <3>2, FreshIsNobodys
    <3>5. QED
      BY <1>0, <2>1, <2>2, <3>1, <3>3, <3>4 DEF ReqsOK, Makes
  <2>5. CASE req'[c].pc \in {"idle", "allocate"}
    <3>1. req'[c].pc \notin MakePcs
      BY <2>5 DEF MakePcs, CreatePcs, RollbackPcs
    <3>2. ReqOK(c)'
      BY <2>5, <3>1, <1>i DEF SwapPcs
    <3>3. QED
      BY <1>0, <2>1, <2>2, <3>1, <3>2 DEF ReqsOK, Makes
  <2>6. QED
    BY <2>1, <2>3, <2>4, <2>5
<1>3. ASSUME NEW c \in Clients, Modify(c)
      PROVE  req' \in [Clients -> Reqs] /\ ReqsOK'
  <2>1. /\ req' \in [Clients -> Reqs]
        /\ \A d \in Clients : d # c => req'[d] = req[d]
        /\ \/ req'[c].pc = "idle"
           \/ \E s \in Sessions :
                EndRead(c, s) \/ ExtendRead(c, s) \/ \E b \in Parties : SwapRead(c, s, b)
           \/ SwapSiblings(c)
           \/ SwapMoves(c)
           \/ EndRow(c)
        /\ ~Makes(c) /\ req'[c].pc \notin MakePcs
    BY <1>3, ModifyReqs
  <2>2. ASSUME NEW d \in Clients, d # c
        PROVE  ReqOK(d)'
    <3>1. ~CreateInsert(d)
      <4>1. ASSUME CreateInsert(d)
            PROVE  FALSE
        <5>1. req' = [req EXCEPT ![d].pc = "activate"] /\ req[d] \in MakeReqs /\ req[d].pc = "insert"
          BY <1>0, <4>1, InsertSets DEF CreateInsert, Goto, At
        <5>2. req'[d].pc = "activate"
          BY <1>0, <5>1 DEF StoresOK, MakeReqs
        <5>3. QED
          BY <2>1, <2>2, <5>1, <5>2
      <4>2. QED
        BY <4>1
    <3>2. QED
      BY <2>1, <2>2, <3>1, OtherReqs
  <2>3. ASSUME req'[c].pc = "idle"
        PROVE  ReqOK(c)'
    BY <2>1, <2>3, <1>i DEF SwapPcs
  <2>4. ASSUME NEW s \in Sessions,
               EndRead(c, s) \/ ExtendRead(c, s) \/ \E b \in Parties : SwapRead(c, s, b)
        PROVE  ReqOK(c)'
    <3>1. /\ req'[c].pc \in {"endRow", "extend", "siblings"}
          /\ HasRow(s) /\ req'[c].s = s
          /\ req'[c].pc = "siblings" =>
               tenantOf(req'[c].new) = tenantOf(rows[s].a) /\ req'[c].new # rows[s].a
      BY <2>4, ReadSets
    <3>2. RowKept(s)
      BY <1>r, <3>1
    <3>3. QED
      BY <2>1, <3>1, <3>2, <1>i DEF RowKept, SwapPcs
  <2>5. ASSUME SwapSiblings(c)
        PROVE  ReqOK(c)'
    <3>1. /\ req[c] \in SiblingReqs /\ req'[c].pc = "probe" /\ req'[c].s = req[c].s
          /\ req'[c].new = req[c].new
      BY <2>5, SiblingsSet
    <3>2. req[c].s \in Sessions /\ HasRow(req[c].s)
      BY <1>0, <3>1, NamedHasRow DEF SiblingReqs
    <3>3. RowKept(req[c].s)
      BY <1>r, <3>2
    <3>4. /\ tenantOf(req[c].new) = tenantOf(rows[req[c].s].a)
          /\ req[c].new # rows[req[c].s].a
      BY <1>0, <3>1 DEF ReqsOK, ReqOK, SiblingReqs
    <3>5. QED
      BY <2>1, <3>1, <3>3, <3>4, <1>i DEF RowKept
  <2>6. ASSUME SwapMoves(c)
        PROVE  ReqOK(c)'
    <3>1. /\ req[c] \in SwapReqs /\ req'[c].s = req[c].s /\ req'[c].new = req[c].new
      BY <1>0, <2>6, SwapKept
    <3>2. req[c].s \in Sessions /\ HasRow(req[c].s)
      BY <1>0, <3>1, NamedHasRow DEF SwapReqs
    <3>3. RowKept(req[c].s)
      BY <1>r, <3>2
    <3>4. /\ tenantOf(req[c].new) = tenantOf(rows[req[c].s].a)
          /\ req[c].new # rows[req[c].s].a
      BY <1>0, <3>1 DEF ReqsOK, ReqOK, SwapReqs
    <3>5. QED
      BY <2>1, <3>1, <3>3, <3>4, <1>i DEF RowKept
  <2>7. ASSUME EndRow(c)
        PROVE  ReqOK(c)'
    <3>1. req'[c].pc = "endCache" /\ req'[c].s = req[c].s /\ req[c].pc = "endRow"
      BY <1>0, <2>7, EndGoes DEF EndRow, At
    <3>2. req[c].s \in Sessions /\ HasRow(req[c].s)
      BY <1>0, <3>1, NamedHasRow
    <3>3. RowKept(req[c].s)
      BY <1>r, <3>2
    <3>4. QED
      BY <2>1, <3>1, <3>3, <1>i DEF RowKept, SwapPcs
  <2>8. ReqOK(c)'
    BY <2>1, <2>3, <2>4, <2>5, <2>6, <2>7
  <2>9. QED
    BY <1>0, <2>1, <2>2, <2>8 DEF ReqsOK, Makes
<1>4. QED
  BY <1>1, <1>2, <1>3, ReqMove

-----------------------------------------------------------------------------
(* Together: the base on which every theorem below stands.                 *)
LEMMA BaseInit == SessionInit => BaseInv
<1> SUFFICES ASSUME SessionInit
             PROVE  BaseInv
  OBVIOUS
<1>1. PoolTypeOK
  BY DEF SessionInit, PoolInit, PoolTypeOK, Phases, Statuses, WriteBacks, ReapJobs, NoJob
<1>2. NoReq \in Reqs /\ NoExpiry \in Jobs
  BY DEF Reqs, Jobs, IdleJobs, NoExpiry
<1>3. StoresOK
  BY <1>2 DEF SessionInit, StoresOK
<1>4. ReqsOK /\ JobsOK
  BY DEF SessionInit, ReqsOK, ReqOK, JobsOK, JobOK, Works, Makes, NoReq, NoExpiry, MakePcs,
     CreatePcs, RollbackPcs, SwapPcs
<1>5. RowsOK /\ TracesOK /\ ClaimsOK
  BY DEF SessionInit, PoolInit, RowsOK, TracesOK, ClaimsOK, HasRow
<1>6. QED
  BY <1>1, <1>3, <1>4, <1>5 DEF BaseInv

LEMMA BaseStep == BaseInv /\ [SessionNext]_vars => BaseInv'
<1> SUFFICES ASSUME BaseInv, [SessionNext]_vars
             PROVE  BaseInv'
  OBVIOUS
<1>1. PoolTypeOK'
  BY PoolStep, PoolTypeStep DEF BaseInv
<1>2. StoresOK'
  BY RowsStep, ReqsStep, JobsStep, CacheTyped, IndexTyped, QuotaTyped, DueTyped DEF StoresOK
<1>3. QED
  BY <1>1, <1>2, RowsStep, ReqsStep, JobsStep, TracesStep, ClaimsStep DEF BaseInv

LEMMA BaseAlways == SessionSpec => []BaseInv
BY BaseInit, BaseStep, PTL DEF SessionSpec

(* The stores and the continuations of session-manager.ts, tier-enforcer.ts *)
(* and session-expiry.ts keep their types, under every fault.              *)
THEOREM SessionTypeCorrect == SessionSpec => []SessionTypeOK
<1>1. BaseInv => SessionTypeOK
  BY DEF BaseInv, StoresOK, SessionTypeOK
<1>2. QED
  BY <1>1, BaseAlways, PTL

(* Whatever requests, expiries and faults do, the composition uses the     *)
(* pool through the pool's own steps (number-pool.ts:153-205), so what     *)
(* module NumberPool promises of any callers holds of sessions.            *)
THEOREM SessionsUsePool == SessionSpec => ImplementsPool
<1>1. SessionInit => PoolInit
  BY DEF SessionInit
<1>2. BaseInv /\ [SessionNext]_vars => [PoolNext]_poolVars
  BY PoolStep
<1>3. QED
  BY <1>1, <1>2, BaseAlways, PTL DEF SessionSpec, ImplementsPool, PoolSpec

(* A number a session claims is in the in-use set and no number is lost,   *)
(* whatever sessions do (number-pool.ts:135-150, 260-287).                 *)
THEOREM SessionPoolIsSafe == SessionSpec => []PoolSafe
<1>1. SessionInit => JobsOrderly /\ PoolSafe
  BY DEF SessionInit, PoolInit, NoJob, JobsOrderly, PoolSafe, HeldIsInUse, Held, NoNumberLost
<1>2. BaseInv /\ JobsOrderly /\ PoolSafe /\ [SessionNext]_vars => (JobsOrderly /\ PoolSafe)'
  BY PoolStep, JobsOrderlyStep, PoolSafeStep DEF BaseInv
<1>3. QED
  BY <1>1, <1>2, BaseAlways, PTL DEF SessionSpec

(* Whatever sessions do, and however many reapers and expirers run, a rest *)
(* that no reaper's list foresaw is served in full (number-pool.ts:265-274).*)
THEOREM SessionRestIsServed == SessionSpec => RestIsServed
<1>1. SessionInit => JobsOrderly
  BY DEF SessionInit, PoolInit, NoJob, JobsOrderly
<1>2. BaseInv /\ JobsOrderly /\ [SessionNext]_vars => JobsOrderly'
  BY PoolStep, JobsOrderlyStep DEF BaseInv
<1>3. BaseInv /\ JobsOrderly /\ [SessionNext]_vars => [RestKept]_poolVars
  BY PoolStep, ServedStep DEF BaseInv
<1>4. RestIsServed <=> [][RestKept]_poolVars
  BY DEF RestIsServed, RestKept
<1>5. QED
  BY <1>1, <1>2, <1>3, <1>4, BaseAlways, PTL DEF SessionSpec

-----------------------------------------------------------------------------
(* A session gets its id field from createSession alone, and only that and *)
(* the script of a swap write the parties of one that has it.              *)
LEMMA HashKept ==
  ASSUME BaseInv, [SessionNext]_vars,
         \A c \in Clients : ~CreateCache(c) /\ ~SwapScript(c)
  PROVE  \A t \in Sessions : t \in hashId' => t \in hashId /\ hashParties'[t] = hashParties[t]
<1>0. StoresOK /\ JobsOK /\ hashParties \in [Sessions -> SUBSET Parties]
  BY DEF BaseInv, PoolTypeOK
<1>1. ASSUME NEW r \in Sessions, DropHash(r), NEW t \in Sessions, t \in hashId'
      PROVE  t \in hashId /\ hashParties'[t] = hashParties[t]
  BY <1>0, <1>1 DEF DropHash, HashChanges
<1>2. ASSUME NEW c \in Clients, EndRow(c) \/ EndCache(c) \/ ExtendRow(c)
      PROVE  UNCHANGED <<hashId, hashParties>>
  BY <1>2 DEF EndRow, EndCache, ExtendRow, poolVars
<1>3. ASSUME NEW e \in Expirers, ExpireDelHash(e)
      PROVE  job[e].s \in Sessions /\ DropHash(job[e].s)
  BY <1>0, <1>3, JobClass DEF ExpireDelHash, JobAt, StoresOK, WorkJobs
<1>4. QED
  BY <1>1, <1>2, <1>3, CacheMove DEF cacheVars, HashEvicted

(* Only an allocation adds a claim.                                        *)
LEMMA ClaimGrows ==
  ASSUME BaseInv, [SessionNext]_vars, NEW n \in Numbers, NEW s \in proxySessions'[n]
  PROVE  \/ s \in Sessions /\ s \in proxySessions[n]
         \/ \E c \in Clients, p \in Pairs : s \in Sessions /\ CreateAllocate(c, s, p, n)
<1>0. proxySessions \in [Numbers -> SUBSET Sessions]
  BY DEF BaseInv, PoolTypeOK
<1>1. ASSUME NEW c \in Clients, NEW r \in Sessions, NEW p \in Pairs, NEW m \in Numbers,
             CreateAllocate(c, r, p, m), s \notin proxySessions[n]
      PROVE  r = s /\ m = n
  BY <1>0, <1>1 DEF CreateAllocate, Allocate, AllocateAvailable, AllocateShared, Claim
<1>2. ASSUME NEW r, NEW m, proxySessions' = [proxySessions EXCEPT ![m] = @ \ {r}]
      PROVE  s \in proxySessions[n]
  BY <1>0, <1>2
<1>3. s \in proxySessions[n] => s \in Sessions
  BY <1>0
<1>4. QED
  BY <1>1, <1>2, <1>3, ClaimMove DEF RollbackRelease, ExpireRelease, ExpireUnclaim,
     Release, Unclaim

(* A step that leaves a request where it is is not a step of it.           *)
LEMMA StepsMove ==
  ASSUME BaseInv, NEW c \in Clients, req'[c] = req[c]
  PROVE  /\ ~CreateCache(c) /\ ~SwapScript(c) /\ ~CreateTrack(c)
         /\ ~RollbackRow(c) /\ ~CreateActivate(c) /\ ~CreateInsert(c)
         /\ ~EndRow(c) /\ ~SwapRow(c) /\ ~RollbackRelease(c)
         /\ ~SwapRepairOld(c) /\ ~SwapRepairNew(c) /\ ~EndCache(c) /\ ~ExtendRow(c)
         /\ \A s \in Sessions, p \in Pairs, n \in Numbers : ~CreateAllocate(c, s, p, n)
<1>0. StoresOK
  BY DEF BaseInv
<1>1. ASSUME CreateCache(c) \/ CreateTrack(c) \/ CreateActivate(c) \/ CreateInsert(c)
               \/ RollbackRelease(c)
      PROVE  FALSE
  <2>1. /\ Makes(c)
        /\ \E q \in MakePcs : Goto(c, q) /\ q # req[c].pc
    BY <1>1 DEF CreateCache, CreateTrack, CreateActivate, CreateInsert, RollbackRelease, At, Makes,
       MakePcs, CreatePcs, RollbackPcs
  <2>2. QED
    BY <1>0, <2>1, MakerGoes
<1>2. ASSUME SwapScript(c) \/ RollbackRow(c) \/ SwapRepairNew(c) \/ EndCache(c) \/ ExtendRow(c)
      PROVE  FALSE
  BY <1>0, <1>2, ReqEnds DEF SwapScript, RollbackRow, SwapRepairNew, EndCache, ExtendRow, At
<1>3. ASSUME SwapRow(c) \/ SwapRepairOld(c)
      PROVE  FALSE
  BY <1>0, <1>3, SwapGoes DEF SwapRow, SwapRepairOld, At, SwapPcs
<1>4. ASSUME EndRow(c)
      PROVE  FALSE
  BY <1>0, <1>4, EndGoes DEF EndRow, At
<1>5. ASSUME NEW s \in Sessions, NEW p \in Pairs, NEW n \in Numbers, CreateAllocate(c, s, p, n)
      PROVE  FALSE
  BY <1>0, <1>5, AllocateGoes DEF At
<1>6. QED
  BY <1>1, <1>2, <1>3, <1>4, <1>5

-----------------------------------------------------------------------------
(* Routing.  What allocateNumber found out about a number stays true until *)
(* the hash is there, and what swapTarget found out about the sessions on  *)
(* it stays true until the script runs: nobody else adds a party.          *)
OneClient == \A c, d \in Clients : c = d

(* A creation between its allocation and its hash, or a swap between its   *)
(* first probe and its script, stands on the number it was told to be free *)
(* for it.  Nothing in the code keeps two of them apart (H1, H12).         *)
InWindow(c, n) ==
    \/ req[c].pc \in {"insert", "activate", "cache"} /\ req[c].n = n
    \/ req[c].pc \in {"probe", "script"} /\ rows[req[c].s].proxy = n

OneInWindow ==
    \A n \in Numbers : \A c, d \in Clients : InWindow(c, n) /\ InWindow(d, n) => c = d

OneTenant == \A t, u \in Tenants : t = u

HashesOK ==
    \A s \in hashId : /\ HasRow(s)
                      /\ hashState[s] \in LiveStates
                      /\ rows[s].a \in hashParties[s]

Apart ==
    \A n \in Numbers : \A s, t \in proxySessions[n] :
      s # t /\ s \in hashId /\ t \in hashId => hashParties[s] \cap hashParties[t] = {}

MakerApart(c) ==
    req[c].pc \in {"insert", "activate", "cache"} =>
      \A n \in Numbers : \A t \in proxySessions[n] :
        /\ req[c].s \in proxySessions[n]
        /\ t # req[c].s
        /\ t \in hashId
        => req[c].a \notin hashParties[t] /\ req[c].b \notin hashParties[t]

SwapApart(c) ==
    /\ req[c].pc = "siblings" => req[c].n = rows[req[c].s].proxy
    /\ req[c].pc \in {"probe", "script"} =>
         \A t \in proxySessions[rows[req[c].s].proxy] :
           /\ t # req[c].s
           /\ t \notin req[c].todo
           /\ t \in hashId
           => req[c].new \notin hashParties[t]
    /\ req[c].pc = "script" => req[c].todo = {}

RouteInv == HashesOK /\ Apart /\ \A c \in Clients : MakerApart(c) /\ SwapApart(c)

LEMMA HashesStep ==
  ASSUME BaseInv, HashesOK, [SessionNext]_vars
  PROVE  HashesOK'
<1>0. StoresOK /\ ReqsOK /\ JobsOK
  BY DEF BaseInv
<1>t. /\ hashState \in [Sessions -> LiveStates \cup {"none", "bare"}]
      /\ hashId \subseteq Sessions
      /\ hashParties \in [Sessions -> SUBSET Parties]
  BY DEF BaseInv, StoresOK, PoolTypeOK
<1>k. \A s \in hashId : HasRow(s) /\ RowKept(s)
  BY <1>t, RowsStep DEF HashesOK
<1>1. ASSUME NEW c \in Clients, CreateCache(c)
      PROVE  HashesOK'
  <2>1. HasRow(req[c].s) /\ req[c].s \in Sessions
    BY <1>0, <1>1, NamedHasRow DEF CreateCache, At, CreatePcs
  <2>2. rows[req[c].s].a = req[c].a /\ RowKept(req[c].s)
    BY <1>0, <1>1, <2>1, RowsStep DEF ReqsOK, ReqOK, CreateCache, At, MakePcs, CreatePcs
  <2>3. /\ hashId' = hashId \cup {req[c].s}
        /\ hashState' = [hashState EXCEPT ![req[c].s] = "ACTIVE"]
        /\ hashParties' = [hashParties EXCEPT ![req[c].s] = {req[c].a, req[c].b}]
    BY <1>1 DEF CreateCache, HashChanges
  <2>4. QED
    BY <1>k, <1>t, <2>1, <2>2, <2>3 DEF HashesOK, HasRow, RowKept, LiveStates
<1>2. ASSUME NEW c \in Clients, SwapScript(c)
      PROVE  HashesOK'
  <2>1. HasRow(req[c].s) /\ req[c].s \in Sessions
    BY <1>0, <1>2, NamedHasRow DEF SwapScript, At, SwapPcs
  <2>2. QED
    BY <1>k, <1>t, <1>2, <2>1 DEF SwapScript, HashChanges, cacheVars, HashesOK, HasRow, RowKept
<1>3. ASSUME NEW c \in Clients, EndRow(c) \/ EndCache(c) \/ ExtendRow(c)
      PROVE  HashesOK'
  BY <1>k, <1>t, <1>3 DEF EndRow, EndCache, ExtendRow, poolVars, HashesOK, HasRow, RowKept,
     LiveStates
<1>4. ASSUME NEW s \in Sessions, DropHash(s)
      PROVE  HashesOK'
  BY <1>k, <1>t, <1>4 DEF DropHash, HashChanges, HashesOK, HasRow, RowKept
<1>5. ASSUME NEW e \in Expirers, ExpireDelHash(e)
      PROVE  job[e].s \in Sessions /\ DropHash(job[e].s)
  BY <1>0, <1>5, JobClass DEF ExpireDelHash, JobAt, StoresOK, WorkJobs
<1>6. CASE UNCHANGED <<cacheVars, hashParties>>
  BY <1>k, <1>6 DEF cacheVars, HashesOK, HasRow, RowKept
<1>7. QED
  BY <1>1, <1>2, <1>3, <1>4, <1>5, <1>6, CacheMove DEF HashEvicted

(* Two sessions on a number were there before any step that touches their  *)
(* hashes.                                                                 *)
LEMMA ApartStep ==
  ASSUME BaseInv, RouteInv, [SessionNext]_vars
  PROVE  Apart'
<1>0. /\ StoresOK /\ ReqsOK /\ hashId \subseteq Sessions
      /\ hashParties \in [Sessions -> SUBSET Parties]
      /\ HashesOK /\ Apart
  BY DEF BaseInv, StoresOK, PoolTypeOK, RouteInv
<1> SUFFICES ASSUME NEW n \in Numbers, NEW s \in proxySessions'[n], NEW t \in proxySessions'[n],
                    s # t, s \in hashId', t \in hashId'
             PROVE  hashParties'[s] \cap hashParties'[t] = {}
  BY DEF Apart
<1>1. ASSUME NEW r \in proxySessions'[n], r \in hashId'
      PROVE  r \in Sessions /\ r \in proxySessions[n]
  <2>1. ASSUME NEW c \in Clients, NEW p \in Pairs, CreateAllocate(c, r, p, n)
        PROVE  FALSE
    <3>1. ~HasRow(r) /\ UNCHANGED hashId
      BY <2>1 DEF CreateAllocate, Fresh, cacheVars
    <3>2. QED
      BY <1>0, <1>1, <3>1 DEF HashesOK
  <2>2. QED
    BY <2>1, ClaimGrows
<1>2. s \in proxySessions[n] /\ t \in proxySessions[n] /\ s \in Sessions /\ t \in Sessions
  BY <1>1
<1>3. ASSUME NEW c \in Clients, CreateCache(c), NEW r \in proxySessions[n], NEW q \in proxySessions[n],
             r \in Sessions, q \in Sessions, r # q, r = req[c].s, q \in hashId'
      PROVE  hashParties'[r] \cap hashParties'[q] = {}
  <2>1. q \in hashId
    BY <1>3 DEF CreateCache
  <2>2. MakerApart(c) /\ req[c].pc = "cache"
    BY <1>3 DEF RouteInv, CreateCache, At
  <2>3. req[c].a \notin hashParties[q] /\ req[c].b \notin hashParties[q]
    BY <1>3, <2>1, <2>2 DEF MakerApart
  <2>4. hashParties'[r] = {req[c].a, req[c].b} /\ hashParties'[q] = hashParties[q]
    BY <1>0, <1>3 DEF CreateCache, HashChanges
  <2>5. QED
    BY <2>3, <2>4
<1>4. ASSUME NEW c \in Clients, CreateCache(c), s # req[c].s, t # req[c].s
      PROVE  hashParties'[s] \cap hashParties'[t] = {}
  BY <1>0, <1>2, <1>4 DEF CreateCache, HashChanges, Apart
<1>5. ASSUME NEW c \in Clients, SwapScript(c), NEW r \in proxySessions[n], NEW q \in proxySessions[n],
             r \in Sessions, q \in Sessions, r # q, r = req[c].s, r \in hashId', q \in hashId'
      PROVE  hashParties'[r] \cap hashParties'[q] = {}
  <2>1. r \in hashId /\ q \in hashId
    BY <1>5 DEF SwapScript, cacheVars
  <2>2. SwapApart(c) /\ req[c].pc = "script"
    BY <1>5 DEF RouteInv, SwapScript, At
  <2>3. rows[r].proxy = n
    BY <1>0, <1>5, <2>1 DEF BaseInv, ClaimsOK, HashesOK
  <2>4. req[c].new \notin hashParties[q]
    BY <1>5, <2>1, <2>2, <2>3 DEF SwapApart
  <2>5. rows[r].a \in hashParties[r] /\ rows[r].a \notin hashParties[q]
    BY <1>0, <1>5, <2>1 DEF HashesOK, Apart
  <2>6. hashParties'[r] = {req[c].new, rows[r].a} /\ hashParties'[q] = hashParties[q]
    BY <1>0, <1>5, <2>1 DEF SwapScript, HashChanges
  <2>7. QED
    BY <2>4, <2>5, <2>6
<1>6. ASSUME NEW c \in Clients, SwapScript(c), s # req[c].s, t # req[c].s
      PROVE  hashParties'[s] \cap hashParties'[t] = {}
  BY <1>0, <1>2, <1>6 DEF SwapScript, cacheVars, HashChanges, Apart
<1>7. CASE \A c \in Clients : ~CreateCache(c) /\ ~SwapScript(c)
  BY <1>0, <1>2, <1>7, HashKept DEF Apart
<1>8. ASSUME NEW c \in Clients, CreateCache(c) \/ SwapScript(c)
      PROVE  hashParties'[s] \cap hashParties'[t] = {}
  <2>1. CASE s = req[c].s
    BY <1>2, <1>3, <1>5, <1>8, <2>1
  <2>2. CASE t = req[c].s
    BY <1>2, <1>3, <1>5, <1>8, <2>2
  <2>3. QED
    BY <1>4, <1>6, <1>8, <2>1, <2>2
<1>9. QED
  BY <1>7, <1>8

(* A request that stands still in the one window of a number keeps what it *)
(* knows of the number: nobody else adds a session that can be routed      *)
(* there, or a party to one that can.                                      *)
LEMMA StillKept ==
  ASSUME OneInWindow, BaseInv, HashesOK, [SessionNext]_vars,
         NEW c \in Clients, req'[c] = req[c], NEW n \in Numbers, InWindow(c, n),
         NEW t \in proxySessions'[n], t \in hashId'
  PROVE  t \in proxySessions[n] /\ t \in hashId /\ hashParties'[t] = hashParties[t]
<1>0. /\ StoresOK /\ ReqsOK /\ hashId \subseteq Sessions
      /\ hashParties \in [Sessions -> SUBSET Parties]
  BY DEF BaseInv, StoresOK, PoolTypeOK
<1>1. \A d \in Clients : InWindow(d, n) => ~CreateCache(d) /\ ~SwapScript(d)
  BY StepsMove DEF OneInWindow
<1>2. t \in Sessions /\ t \in proxySessions[n]
  <2>1. ASSUME NEW d \in Clients, NEW p \in Pairs, CreateAllocate(d, t, p, n)
        PROVE  FALSE
    <3>1. ~HasRow(t) /\ UNCHANGED hashId
      BY <2>1 DEF CreateAllocate, Fresh, cacheVars
    <3>2. QED
      BY <3>1 DEF HashesOK
  <2>2. QED
    BY <2>1, ClaimGrows
<1>3. ASSUME NEW d \in Clients, CreateCache(d) \/ SwapScript(d)
      PROVE  t \in hashId /\ hashParties'[t] = hashParties[t]
  <2>1. req[d].s # t
    <3>1. ASSUME CreateCache(d), req[d].s = t
          PROVE  FALSE
      <4>1. req[d].pc = "cache" /\ req[d].n = n
        BY <1>2, <3>1 DEF CreateCache, At, Makes, MakePcs, CreatePcs, BaseInv, ClaimsOK
      <4>2. QED
        BY <1>1, <3>1, <4>1 DEF InWindow
    <3>2. ASSUME SwapScript(d), req[d].s = t
          PROVE  FALSE
      <4>1. req[d].pc = "script" /\ HasRow(t)
        BY <1>0, <3>2, NamedHasRow DEF SwapScript, At, SwapPcs
      <4>2. rows[t].proxy = n
        BY <1>2, <4>1 DEF BaseInv, ClaimsOK
      <4>3. QED
        BY <1>1, <3>2, <4>1, <4>2 DEF InWindow
    <3>3. QED
      BY <1>3, <3>1, <3>2
  <2>2. QED
    BY <1>0, <1>2, <1>3, <2>1 DEF CreateCache, SwapScript, HashChanges, cacheVars
<1>4. CASE \A d \in Clients : ~CreateCache(d) /\ ~SwapScript(d)
  BY <1>2, <1>4, HashKept
<1>5. QED
  BY <1>2, <1>3, <1>4

LEMMA OneMoves ==
  ASSUME BaseInv, [SessionNext]_vars, NEW c \in Clients
  PROVE  \/ req'[c] = req[c]
         \/ MakerMoves(c)
         \/ \E s \in Sessions, p \in Pairs, n \in Numbers : CreateAllocate(c, s, p, n)
         \/ req'[c].pc \in {"idle", "allocate"}
         \/ \E s \in Sessions :
              EndRead(c, s) \/ ExtendRead(c, s) \/ \E b \in Parties : SwapRead(c, s, b)
         \/ SwapSiblings(c)
         \/ SwapMoves(c)
         \/ EndRow(c)
<1>0. StoresOK
  BY DEF BaseInv
<1>1. QED
  BY <1>0, ReqMove, CreateReqs, ModifyReqs

LEMMA MakerApartStep ==
  ASSUME OneInWindow, BaseInv, RouteInv, [SessionNext]_vars, NEW c \in Clients
  PROVE  MakerApart(c)'
<1>0. StoresOK /\ MakerApart(c) /\ HashesOK /\ hashId \subseteq Sessions
  BY DEF BaseInv, RouteInv, StoresOK
<1> SUFFICES ASSUME req'[c].pc \in {"insert", "activate", "cache"},
                    NEW n \in Numbers, NEW t \in proxySessions'[n],
                    req'[c].s \in proxySessions'[n], t # req'[c].s, t \in hashId'
             PROVE  req'[c].a \notin hashParties'[t] /\ req'[c].b \notin hashParties'[t]
  BY DEF MakerApart
<1>1. CASE req'[c] = req[c]
  <2>1. req[c].s \in proxySessions[n] /\ req[c].n = n
    <3>1. req[c].s \in proxySessions[n]
      BY <1>1, ClaimGrows, FreshIsNobodys DEF CreateAllocate, Makes, MakePcs, CreatePcs
    <3>2. req[c].s \in Sessions
      BY <3>1 DEF BaseInv, PoolTypeOK
    <3>3. QED
      BY <1>1, <3>1, <3>2 DEF BaseInv, ClaimsOK, Makes, MakePcs, CreatePcs
  <2>2. t \in proxySessions[n] /\ t \in hashId /\ hashParties'[t] = hashParties[t]
    BY <1>0, <1>1, <2>1, StillKept DEF InWindow
  <2>3. QED
    BY <1>0, <1>1, <2>1, <2>2 DEF MakerApart
<1>2. CASE MakerMoves(c)
  <2>1. /\ req'[c].s = req[c].s /\ req'[c].a = req[c].a /\ req'[c].b = req[c].b
        /\ req[c] \in MakeReqs
    BY <1>0, <1>2, MakerKept
  <2>2. CreateInsert(c) \/ CreateActivate(c)
    <3>1. ASSUME Goto(c, "track") \/ Goto(c, "reply") \/ Goto(c, "rollback") \/ Goto(c, "failRow")
          PROVE  FALSE
      <4>1. Makes(c)
        BY <2>1 DEF Makes, MakeReqs
      <4>2. QED
        BY <1>0, <3>1, <4>1, MakerGoes DEF MakePcs, CreatePcs, RollbackPcs
    <3>2. QED
      BY <1>2, <3>1 DEF MakerMoves, CreateCache, CreateTrack, CreateFails, RollbackRelease,
         RollbackFails, At
  <2>3. UNCHANGED <<proxySessions, hashId, hashParties>>
    BY <2>2 DEF CreateInsert, CreateActivate, poolVars, redisPool, cacheVars
  <2>4. req[c].pc \in {"insert", "activate"}
    BY <2>2 DEF CreateInsert, CreateActivate, At
  <2>5. QED
    BY <1>0, <2>1, <2>3, <2>4 DEF MakerApart
<1>3. ASSUME NEW s \in Sessions, NEW p \in Pairs, NEW m \in Numbers, CreateAllocate(c, s, p, m)
      PROVE  req'[c].a \notin hashParties'[t] /\ req'[c].b \notin hashParties'[t]
  <2>0. req'[c].pc # "idle"
    BY <1>0 DEF Makes, MakePcs, CreatePcs
  <2>1. req'[c].s = s /\ req'[c].a = p[1] /\ req'[c].b = p[2] /\ Unclaimed(s)
    <3>1. Fresh(s)
      BY <1>3 DEF CreateAllocate
    <3>2. Unclaimed(s)
      BY <3>1, FreshIsUnclaimed
    <3>3. QED
      BY <1>0, <1>3, <2>0, <3>2, AllocateGoes
  <2>2. /\ hashParties' = hashParties
        /\ ~Overlaps(m, {p[1], p[2]})
        /\ proxySessions' = [proxySessions EXCEPT ![m] = @ \cup {s}]
    BY <1>3 DEF CreateAllocate, Allocate, AllocateAvailable, AllocateShared, Claim
  <2>3. n = m /\ t \in proxySessions[m]
    BY <2>1, <2>2 DEF Unclaimed, BaseInv, PoolTypeOK
  <2>4. hashParties[t] \cap {p[1], p[2]} = {}
    BY <2>2, <2>3 DEF Overlaps
  <2>5. QED
    BY <2>1, <2>2, <2>4
<1>4. ~SwapMoves(c) /\ ~SwapSiblings(c) /\ ~EndRow(c)
      /\ ~\E s \in Sessions :
            EndRead(c, s) \/ ExtendRead(c, s) \/ \E b \in Parties : SwapRead(c, s, b)
  <2>1. ASSUME SwapMoves(c)
        PROVE  FALSE
    BY <1>0, <2>1, SwapKept DEF SwapReqs, SwapPcs
  <2>2. QED
    BY <1>0, <2>1, SiblingsSet, EndGoes, ReadSets
<1>5. QED
  BY <1>1, <1>2, <1>3, <1>4, OneMoves

LEMMA SwapApartStep ==
  ASSUME OneInWindow, BaseInv, RouteInv, [SessionNext]_vars, NEW c \in Clients
  PROVE  SwapApart(c)'
<1>0. /\ StoresOK /\ ReqsOK /\ SwapApart(c) /\ HashesOK
      /\ hashState \in [Sessions -> LiveStates \cup {"none", "bare"}]
      /\ \A n \in Numbers : proxySessions[n] \subseteq Sessions
      /\ rows \in [Sessions -> Row \cup {NoRow}]
  BY DEF BaseInv, RouteInv, StoresOK, PoolTypeOK
<1>i. ASSUME req'[c].pc \notin {"siblings", "probe", "script"}
      PROVE  SwapApart(c)'
  BY <1>i DEF SwapApart
<1>1. CASE req'[c] = req[c]
  <2>1. CASE req[c].pc \in {"siblings", "probe", "script"}
    <3>1. HasRow(req[c].s) /\ req[c].s \in Sessions
      BY <1>0, <2>1, NamedHasRow DEF SwapPcs
    <3>2. rows'[req[c].s].proxy = rows[req[c].s].proxy /\ rows[req[c].s].proxy \in Numbers
      BY <1>0, <3>1, RowsStep, RowOf DEF RowKept
    <3>3. ASSUME req[c].pc \in {"probe", "script"},
                 NEW t \in proxySessions'[rows[req[c].s].proxy], t \in hashId'
          PROVE  /\ t \in proxySessions[rows[req[c].s].proxy] /\ t \in hashId
                 /\ hashParties'[t] = hashParties[t]
      BY <1>0, <1>1, <3>2, <3>3, StillKept DEF InWindow
    <3>4. QED
      BY <1>0, <1>1, <3>2, <3>3 DEF SwapApart
  <2>2. QED
    BY <1>1, <1>i, <2>1
<1>2. CASE MakerMoves(c)
  BY <1>0, <1>2, <1>i, MakerKept DEF MakeReqs, MakePcs, CreatePcs, RollbackPcs
<1>3. ASSUME NEW s \in Sessions, NEW p \in Pairs, NEW n \in Numbers, CreateAllocate(c, s, p, n)
      PROVE  SwapApart(c)'
  BY <1>0, <1>3, <1>i, AllocateSets DEF NoReq
<1>4. CASE req'[c].pc \in {"idle", "allocate"}
  BY <1>4, <1>i
<1>5. ASSUME NEW s \in Sessions,
             EndRead(c, s) \/ ExtendRead(c, s) \/ \E b \in Parties : SwapRead(c, s, b)
      PROVE  SwapApart(c)'
  <2>1. /\ req'[c].pc \in {"endRow", "extend", "siblings"}
        /\ req'[c].s = s
        /\ req'[c].pc = "siblings" => req'[c].n = rows[s].proxy
    BY <1>5, ReadSets
  <2>2. UNCHANGED rows
    BY <1>5 DEF EndRead, ExtendRead, SwapRead
  <2>3. QED
    BY <2>1, <2>2 DEF SwapApart
<1>6. CASE SwapSiblings(c)
  <2>1. /\ req'[c].pc = "probe" /\ req'[c].s = req[c].s
        /\ req'[c].todo = proxySessions[req[c].n] \ {req[c].s}
        /\ req[c].pc = "siblings"
    BY <1>6, SiblingsSet DEF SwapSiblings, At
  <2>2. UNCHANGED <<rows, proxySessions>>
    BY <1>6 DEF SwapSiblings, poolVars, redisPool
  <2>3. req[c].n = rows[req[c].s].proxy
    BY <1>0, <2>1 DEF SwapApart
  <2>4. QED
    BY <2>1, <2>2, <2>3 DEF SwapApart
<1>7. CASE SwapMoves(c)
  <2>1. /\ req[c] \in SwapReqs /\ req' \in [Clients -> Reqs]
        /\ req'[c].s = req[c].s /\ req'[c].new = req[c].new
    BY <1>0, <1>7, SwapKept
  <2>2. HasRow(req[c].s) /\ req[c].s \in Sessions
    BY <1>0, <2>1, NamedHasRow DEF SwapReqs
  <2>3. rows'[req[c].s].proxy = rows[req[c].s].proxy /\ rows[req[c].s].proxy \in Numbers
    BY <1>0, <2>2, RowsStep, RowOf DEF RowKept
  <2>4. ASSUME NEW s \in Sessions, SwapProbe(c, s), ~Conflicts(s, req[c].new)
        PROVE  SwapApart(c)'
    <3>1. /\ req' = [req EXCEPT ![c].todo = @ \ {s}]
          /\ req[c].pc = "probe"
          /\ UNCHANGED <<rows, proxySessions, hashId, hashParties>>
      BY <2>4 DEF SwapProbe, At, poolVars, redisPool, cacheVars
    <3>2. req'[c].pc = "probe" /\ req'[c].todo = req[c].todo \ {s}
      BY <1>0, <2>1, <3>1 DEF StoresOK, SwapReqs
    <3>3. s \in hashId => req[c].new \notin hashParties[s]
      BY <1>0, <2>4 DEF Conflicts, HashesOK
    <3>4. QED
      BY <1>0, <2>1, <3>1, <3>2, <3>3 DEF SwapApart
  <2>5. CASE SwapRow(c)
    <3>1. /\ req[c].pc = "probe" /\ req[c].todo = {}
          /\ UNCHANGED <<proxySessions, hashId, hashParties>>
      BY <2>5 DEF SwapRow, At, poolVars, redisPool, cacheVars
    <3>2. req'[c].pc = "script" /\ req'[c].todo = {}
      BY <1>0, <2>5, <3>1, SwapGoes DEF SwapRow, SwapPcs
    <3>3. QED
      BY <1>0, <2>1, <2>3, <3>1, <3>2 DEF SwapApart
  <2>6. CASE SwapMissing(c) \/ SwapRepairOld(c)
    <3>1. req'[c].pc \in {"repairOld", "repairNew"}
      BY <1>0, <2>6, SwapGoes DEF SwapMissing, SwapRepairOld, At, SwapPcs
    <3>2. QED
      BY <1>i, <3>1
  <2>7. QED
    BY <1>7, <2>4, <2>5, <2>6 DEF SwapMoves
<1>8. CASE EndRow(c)
  BY <1>0, <1>8, <1>i, EndGoes
<1>9. QED
  BY <1>1, <1>2, <1>3, <1>4, <1>5, <1>6, <1>7, <1>8, OneMoves

LEMMA RouteStarts == SessionInit => RouteInv
BY DEF SessionInit, PoolInit, NoReq, RouteInv, HashesOK, Apart, MakerApart, SwapApart

LEMMA RouteStep ==
  ASSUME OneInWindow, BaseInv, RouteInv, [SessionNext]_vars
  PROVE  RouteInv'
<1>1. HashesOK'
  BY HashesStep DEF RouteInv
<1>2. \A c \in Clients : MakerApart(c)' /\ SwapApart(c)'
  BY MakerApartStep, SwapApartStep
<1>3. QED
  BY <1>1, <1>2, ApartStep DEF RouteInv

(* Two sessions that can be routed on a number never share a phone         *)
(* (call-router.ts:95-116), with any number of clients, whatever expiries, *)
(* evictions and failures do, as long as no two requests are in the window *)
(* of one number at a time.  So the windows of InWindow are all there is   *)
(* to close; with two in one, a run refutes it.                            *)
THEOREM RoutingIsUnambiguous ==
  ASSUME OneTenant
  PROVE  SessionSpec /\ []OneInWindow => []RoutingUnambiguous
<1>1. SessionInit => RouteInv
  BY RouteStarts
<1>2. OneInWindow /\ BaseInv /\ RouteInv /\ [SessionNext]_vars => RouteInv'
  BY RouteStep
<1>3. BaseInv /\ RouteInv => RoutingUnambiguous
  <2> SUFFICES ASSUME BaseInv, RouteInv, NEW n \in Numbers,
                      NEW s \in proxySessions[n], NEW t \in proxySessions[n],
                      s # t, s \in hashId, t \in hashId
               PROVE  PhonesOf(s) \cap PhonesOf(t) = {}
    BY DEF RoutingUnambiguous, Routable
  <2>1. hashParties[s] \cap hashParties[t] = {}
    BY DEF RouteInv, Apart
  <2>2. hashParties[s] \subseteq Tenants \X Phones /\ hashParties[t] \subseteq Tenants \X Phones
    BY SessionAssumption DEF BaseInv, StoresOK, PoolTypeOK
  <2>3. \A p, q \in Tenants \X Phones : p[2] = q[2] => p = q
    BY DEF OneTenant
  <2>4. QED
    BY <2>1, <2>2, <2>3 DEF PhonesOf
<1>4. QED
  BY <1>1, <1>2, <1>3, BaseAlways, PTL DEF SessionSpec

-----------------------------------------------------------------------------
(* Ghost claims.  A claim is accounted for by the handler that creates its *)
(* session, by an expiry about to release it, or by a live session.  While *)
(* the handler is past its writes to the row, one of the latter two holds  *)
(* already, since it goes without a further step on the row; and it has    *)
(* dropped the claim before it gives the row up.  A claim whose allocation *)
(* was not answered stays: nobody knows its session, which has no row.     *)
Releasing(s) == \E e \in Expirers : job[e].pc = "release" /\ job[e].s = s

Accounted(s) == IsLive(s) \/ Releasing(s)

GhostInv ==
    /\ \A n \in Numbers : \A s \in proxySessions[n] :
         Creating(s) \/ Accounted(s) \/ Unanswered(s)
    /\ \A c \in Clients, n \in Numbers :
         /\ req[c].pc \in {"cache", "track", "reply"} /\ req[c].s \in proxySessions[n] =>
              Accounted(req[c].s)
         /\ req[c].pc = "failRow" => req[c].s \notin proxySessions[n]

(* How a live session stops being live.                                    *)
LEMMA LiveStep ==
  ASSUME "expire" \notin StoreFails, BaseInv, [SessionNext]_vars, NEW s \in Sessions, IsLive(s)
  PROVE  \/ rows'[s].state \in LiveStates
         \/ \E e \in Expirers : /\ ExpireMark(e) /\ job[e].s = s
                                /\ job'[e].pc = "release" /\ job'[e].s = s
         \/ \E c \in Clients : RollbackRow(c) /\ req[c].s = s
<1>0. StoresOK /\ ReqsOK /\ JobsOK
  BY DEF BaseInv
<1>1. HasRow(s)
  BY <1>0, RowOf
<1>2. ASSUME NEW c \in Clients, CreateActivate(c) \/ EndRow(c)
      PROVE  rows'[s].state \in LiveStates
  <2>1. HasRow(req[c].s) /\ req[c].s \in Sessions
    BY <1>0, <1>2, NamedHasRow DEF CreateActivate, EndRow, At, CreatePcs
  <2>2. \E st \in LiveStates : SetState(req[c].s, st)
    BY <1>2 DEF CreateActivate, EndRow, EndState, LiveStates
  <2>3. QED
    BY <1>0, <2>1, <2>2, StateSet DEF States, IsLive
<1>3. ASSUME NEW c \in Clients, CreateInsert(c)
      PROVE  rows'[s].state \in LiveStates
  <2>1. ~HasRow(req[c].s)
    BY <1>0, <1>3 DEF ReqsOK, ReqOK, CreateInsert, At, MakePcs, CreatePcs
  <2>2. QED
    BY <1>0, <1>1, <1>3, <2>1, InsertSets DEF IsLive
<1>4. ASSUME NEW c \in Clients, SwapRow(c)
      PROVE  rows'[s].state \in LiveStates
  BY <1>0, <1>4, TargetSet DEF IsLive
<1>5. ASSUME NEW c \in Clients, RollbackRow(c), req[c].s # s
      PROVE  rows'[s].state \in LiveStates
  BY <1>0, <1>5 DEF RollbackRow, SetState, IsLive, StoresOK
<1>6. ASSUME NEW e \in Expirers, ExpireMark(e)
      PROVE  \/ rows'[s].state \in LiveStates
             \/ job[e].s = s /\ job'[e].pc = "release" /\ job'[e].s = s
  <2>1. Works(e) /\ JobGoto(e, "release") /\ SetState(job[e].s, "EXPIRED")
    BY <1>6 DEF ExpireMark, JobAt, Works
  <2>2. job'[e].pc = "release" /\ job'[e].s = job[e].s
    BY <1>0, <2>1, JobGoes DEF JobPcs
  <2>3. job[e].s # s => rows'[s] = rows[s]
    BY <1>0, <2>1 DEF SetState, StoresOK
  <2>4. QED
    BY <2>2, <2>3 DEF IsLive
<1>7. QED
  BY <1>2, <1>3, <1>4, <1>5, <1>6, RowsMove DEF IsLive

(* What a session that is accounted for can become while a claim stays.    *)
LEMMA AccountedStep ==
  ASSUME StoreFails \subseteq {"create", "allocate"}, BaseInv, GhostInv, [SessionNext]_vars,
         NEW n \in Numbers, NEW s \in Sessions, s \in proxySessions[n], s \in proxySessions'[n],
         Accounted(s)
  PROVE  \/ rows'[s].state \in LiveStates
         \/ \E e \in Expirers : job'[e].pc = "release" /\ job'[e].s = s
<1>0. StoresOK /\ ReqsOK /\ JobsOK
  BY DEF BaseInv
<1>t. proxySessions \in [Numbers -> SUBSET Sessions]
  BY DEF BaseInv, PoolTypeOK
<1>1. CASE IsLive(s)
  <2>1. \A c \in Clients : RollbackRow(c) => req[c].s # s
    BY DEF RollbackRow, At, GhostInv
  <2>2. QED
    BY <1>1, <2>1, LiveStep
<1>2. ASSUME NEW e \in Expirers, job[e].pc = "release", job[e].s = s
      PROVE  job'[e].pc = "release" /\ job'[e].s = s
  <2>1. ~ExpireRelease(e)
    <3>1. job[e].n = n
      BY <1>0, <1>2 DEF JobsOK, JobOK, Works, BaseInv, ClaimsOK
    <3>2. QED
      BY <1>2, <1>t, <3>1 DEF ExpireRelease, Release
  <2>2. ~Expire(e)
    BY <1>2, <2>1 DEF Expire, ExpireRead, ExpireMark, ExpireDelHash, ExpireUnclaim,
       ExpireUnindexA, ExpireUnindexB, ExpireUntrack, ExpireFails, JobAt
  <2>3. ~WorkerSelect(e) /\ \A r \in Sessions : ~AdminSelect(e, r)
    BY <1>2 DEF WorkerSelect, AdminSelect, NoExpiry
  <2>4. ASSUME NEW f \in Expirers, f # e, Expire(f) \/ WorkerSelect(f)
                                            \/ \E r \in Sessions : AdminSelect(f, r)
        PROVE  job'[e] = job[e]
    BY <1>0, <2>4 DEF StoresOK, Expire, ExpireRead, ExpireMark, ExpireRelease, ExpireDelHash,
       ExpireUnclaim, ExpireUnindexA, ExpireUnindexB, ExpireUntrack, ExpireFails, JobGoto, JobDone,
       WorkerSelect, AdminSelect
  <2>5. Workers \subseteq Expirers /\ Admins \subseteq Expirers
    BY DEF Expirers
  <2>6. job'[e] = job[e]
    BY <2>2, <2>3, <2>4, <2>5, JobMove
  <2>7. QED
    BY <1>2, <2>6
<1>3. QED
  BY <1>1, <1>2 DEF Accounted, Releasing

(* Where a request that creates a session goes in one step.                *)
LEMMA MakerNext ==
  ASSUME BaseInv, [SessionNext]_vars, NEW c \in Clients, Makes(c)
  PROVE  \/ req'[c] = req[c]
         \/ MakerMoves(c)
         \/ CreateReply(c) \/ RollbackRow(c)
         \/ "rollback" \in StoreFails /\ At(c, "failRow") /\ Finish(c)
<1>0. StoresOK
  BY DEF BaseInv
<1>1. ASSUME Create(c)
      PROVE  \/ MakerMoves(c) \/ CreateReply(c) \/ RollbackRow(c)
             \/ "rollback" \in StoreFails /\ At(c, "failRow") /\ Finish(c)
  BY <1>1 DEF Create, MakerMoves, Makes, MakePcs, CreatePcs, RollbackPcs, CreateAdmit, CreateAllocate,
     CreateExhausted, RollbackFails, At
<1>2. QED
  BY <1>0, <1>1, ReqMove, CreateReqs, ModifyReqs

(* A request in the middle of a creation has come there by a step of it.   *)
LEMMA MakerCame ==
  ASSUME BaseInv, [SessionNext]_vars, NEW c \in Clients, req'[c].pc \in MakePcs
  PROVE  \/ req'[c] = req[c]
         \/ MakerMoves(c)
         \/ \E s \in Sessions, p \in Pairs, n \in Numbers : CreateAllocate(c, s, p, n)
<1>0. StoresOK
  BY DEF BaseInv
<1>1. req'[c].pc \notin {"idle", "allocate"}
  BY DEF MakePcs, CreatePcs, RollbackPcs
<1>2. QED
  BY <1>0, <1>1, ReqMove, CreateReqs, ModifyReqs

LEMMA GhostStep ==
  ASSUME StoreFails \subseteq {"create", "allocate"}, BaseInv, GhostInv, [SessionNext]_vars
  PROVE  GhostInv'
<1>0. StoresOK /\ ReqsOK /\ proxySessions \in [Numbers -> SUBSET Sessions]
  BY DEF BaseInv, PoolTypeOK
<1>a. ASSUME NEW n \in Numbers, NEW s \in Sessions, s \in proxySessions[n], s \in proxySessions'[n],
             Accounted(s)
      PROVE  Accounted(s)'
  BY <1>a, AccountedStep DEF Accounted, Releasing, IsLive
<1>1. ASSUME NEW n \in Numbers, NEW s \in proxySessions'[n]
      PROVE  Creating(s)' \/ Accounted(s)' \/ Unanswered(s)'
  <2>1. ASSUME NEW c \in Clients, NEW p \in Pairs, s \in Sessions, CreateAllocate(c, s, p, n)
        PROVE  Creating(s)' \/ Unanswered(s)'
    <3>1. CASE req'[c].pc = "insert" /\ req'[c].s = s
      BY <3>1 DEF Creating, CreatePcs
    <3>2. CASE "allocate" \in StoreFails
      BY <2>1, <3>2 DEF CreateAllocate, Fresh, HasRow, Unanswered
    <3>3. QED
      BY <1>0, <2>1, <3>1, <3>2, AllocateSets
  <2>2. ASSUME s \in Sessions, s \in proxySessions[n], NEW c \in Clients, Makes(c), req[c].s = s
        PROVE  Creating(s)' \/ Accounted(s)'
    <3>1. CASE req'[c] = req[c]
      BY <2>2, <3>1 DEF Creating, Makes, MakePcs
    <3>2. CASE MakerMoves(c)
      <4>1. req'[c].pc \in MakePcs /\ req'[c].s = s
        BY <1>0, <2>2, <3>2, MakerKept DEF MakeReqs
      <4>2. QED
        BY <4>1 DEF Creating, MakePcs
    <3>3. CASE CreateReply(c)
      <4>1. Accounted(s)
        BY <2>2, <3>3 DEF CreateReply, At, GhostInv
      <4>2. QED
        BY <1>a, <2>2, <4>1
    <3>4. ~RollbackRow(c)
      BY <2>2 DEF RollbackRow, At, GhostInv
    <3>5. QED
      BY <2>2, <3>1, <3>2, <3>3, <3>4, MakerNext
  <2>3. s \in Sessions /\ s \in proxySessions[n]
          => Creating(s) \/ Accounted(s) \/ (Unanswered(s) /\ ~Creating(s))
    BY DEF GhostInv
  <2>4. ASSUME s \in Sessions, Unanswered(s), ~Creating(s)
        PROVE  Unanswered(s)'
    <3>1. \A c \in Clients : CreateInsert(c) => req[c].s # s
      BY <2>4 DEF CreateInsert, At, Creating, CreatePcs
    <3>2. QED
      BY <2>4, <3>1, RowsStep DEF Unanswered
  <2>5. QED
    BY <1>a, <2>1, <2>2, <2>3, <2>4, ClaimGrows DEF Creating, Makes, MakePcs
<1>2. ASSUME NEW c \in Clients, NEW n \in Numbers, NEW s \in Sessions, req'[c].s = s,
             s \in proxySessions'[n], req'[c].pc \in {"cache", "track", "reply"}
      PROVE  Accounted(s)'
  <2>1. req'[c] = req[c] \/ MakerMoves(c)
    BY <1>0, <1>2, MakerCame, AllocateSets DEF MakePcs, CreatePcs, NoReq
  <2>2. Makes(c) /\ req[c].s = s
    BY <1>0, <1>2, <2>1, MakerKept DEF Makes, MakePcs, CreatePcs
  <2>3. s \in proxySessions[n]
    BY <1>2, <2>2, ClaimGrows, FreshIsNobodys DEF CreateAllocate
  <2>4. CASE req[c].pc \in {"cache", "track", "reply"}
    <3>1. Accounted(s)
      BY <2>2, <2>3, <2>4 DEF GhostInv
    <3>2. QED
      BY <1>a, <1>2, <2>3, <3>1
  <2>5. CASE CreateActivate(c)
    <3>1. HasRow(s)
      BY <1>0, <2>2, <2>5, NamedHasRow DEF CreateActivate, At, CreatePcs
    <3>2. rows'[s].state = "ACTIVE"
      BY <1>0, <2>2, <2>5, <3>1, StateSet DEF CreateActivate, States, LiveStates
    <3>3. QED
      BY <3>2 DEF Accounted, IsLive, LiveStates
  <2>6. CASE CreateInsert(c) \/ CreateFails(c) \/ RollbackRelease(c)
                \/ (RollbackFails(c) /\ At(c, "rollback"))
    <3>1. Goto(c, "activate") \/ Goto(c, "rollback") \/ Goto(c, "failRow")
      BY <2>6 DEF CreateInsert, CreateFails, RollbackRelease, RollbackFails, At
    <3>2. req'[c].pc \in {"activate", "rollback", "failRow"}
      BY <1>0, <2>2, <3>1, MakerGoes DEF MakePcs, CreatePcs, RollbackPcs
    <3>3. QED
      BY <1>2, <3>2
  <2>7. QED
    BY <1>2, <2>1, <2>4, <2>5, <2>6 DEF MakerMoves, CreateCache, CreateTrack, At
<1>3. ASSUME NEW c \in Clients, NEW n \in Numbers, req'[c].pc = "failRow"
      PROVE  req'[c].s \notin proxySessions'[n]
  <2>1. req'[c] = req[c] \/ MakerMoves(c)
    BY <1>0, <1>3, MakerCame, AllocateSets DEF MakePcs, RollbackPcs, NoReq
  <2>2. Makes(c) /\ req[c].s = req'[c].s
    BY <1>0, <1>3, <2>1, MakerKept DEF Makes, MakePcs, RollbackPcs
  <2>3. req[c].s \in proxySessions'[n] => req[c].s \in proxySessions[n]
    BY <2>2, ClaimGrows, FreshIsNobodys DEF CreateAllocate
  <2>4. CASE req'[c] = req[c]
    BY <1>3, <2>3, <2>4 DEF GhostInv
  <2>5. CASE RollbackRelease(c)
    <3>1. req[c].s \in proxySessions[n] => req[c].n = n
      BY <2>2 DEF BaseInv, ClaimsOK
    <3>2. proxySessions' = [proxySessions EXCEPT ![req[c].n] = @ \ {req[c].s}]
      BY <2>5 DEF RollbackRelease, Release
    <3>3. QED
      BY <1>0, <2>2, <2>3, <3>1, <3>2
  <2>6. ASSUME MakerMoves(c), ~RollbackRelease(c)
        PROVE  FALSE
    <3>1. \E q \in CreatePcs \cup {"rollback"} : Goto(c, q)
      BY <2>6 DEF MakerMoves, CreateInsert, CreateActivate, CreateCache, CreateTrack, CreateFails,
         RollbackFails, CreatePcs
    <3>2. QED
      BY <1>0, <1>3, <2>2, <3>1, MakerGoes DEF MakePcs, RollbackPcs, CreatePcs
  <2>7. QED
    BY <2>1, <2>4, <2>5, <2>6
<1>4. \A c \in Clients : req'[c].pc \in {"cache", "track", "reply"} => req'[c].s \in Sessions
  BY ReqsStep, ReqClass DEF MakeReqs, MakePcs, CreatePcs
<1>5. QED
  BY <1>1, <1>2, <1>3, <1>4 DEF GhostInv, Accounted, Releasing, IsLive

(* A claim on a number outlives neither its session nor the handler that   *)
(* works on it (admin.ts:386-390), with any number of clients, workers and *)
(* operators and every request, also when createSession fails halfway.     *)
(* What does leave one is an allocation that lost its reply                *)
(* (number-pool.ts:208-211), and it is a claim of a session that has no    *)
(* row; a release that fails leaves one too.                               *)
THEOREM NoClaimIsGhost ==
  ASSUME StoreFails \subseteq {"create", "allocate"}
  PROVE  SessionSpec => []NoGhostClaim
<1>1. SessionInit => GhostInv
  BY DEF SessionInit, PoolInit, NoReq, GhostInv
<1>2. BaseInv /\ GhostInv /\ [SessionNext]_vars => GhostInv'
  BY GhostStep
<1>3. BaseInv /\ GhostInv => NoGhostClaim
  <2> SUFFICES ASSUME BaseInv, GhostInv, NEW n \in Numbers, NEW s \in proxySessions[n]
               PROVE  \/ Creating(s) \/ Expiring(s)
                      \/ IsLive(s) /\ rows[s].proxy = n
                      \/ Unanswered(s)
    BY DEF NoGhostClaim
  <2>1. s \in Sessions
    BY DEF BaseInv, PoolTypeOK
  <2>2. IsLive(s) => rows[s].proxy = n
    BY <2>1, RowOf DEF BaseInv, ClaimsOK
  <2>3. Releasing(s) => Expiring(s)
    BY DEF Releasing, Expiring, JobAt
  <2>4. QED
    BY <2>2, <2>3 DEF GhostInv, Accounted
<1>4. QED
  BY <1>1, <1>2, <1>3, BaseAlways, PTL DEF SessionSpec

-----------------------------------------------------------------------------
(* While a session is being created nobody else names it, if callers take  *)
(* ids from the reply of POST /sessions only: no request, no expiry, and   *)
(* the clock.  So it goes PENDING, ACTIVE, and from then on its row can    *)
(* only leave ACTIVE: one that any end, extension or expiry has reached    *)
(* never is ACTIVE again.                                                  *)
AskPcs == {"endRow", "endCache", "siblings", "extend"} \cup SwapPcs

Alone(s) ==
    /\ s \notin due
    /\ \A d \in Clients : req[d].pc \in AskPcs => req[d].s # s
    /\ \A e \in Expirers : s \notin job[e].batch /\ (Works(e) => job[e].s # s)

AloneInv == \A c \in Clients : Makes(c) => Alone(req[c].s)

PastMark == JobPcs \ {"mark"}

ActiveInv ==
    /\ \A c \in Clients :
         /\ req[c].pc = "activate" => rows[req[c].s].state = "PENDING"
         /\ req[c].pc \in {"cache", "track", "reply"} => rows[req[c].s].state = "ACTIVE"
         /\ req[c].pc \in {"endCache", "extend"} => rows[req[c].s].state # "ACTIVE"
    /\ \A e \in Expirers : job[e].pc \in PastMark => rows[job[e].s].state # "ACTIVE"

LEMMA AskerCame ==
  ASSUME BaseInv, [SessionNext]_vars, NEW d \in Clients, req'[d].pc \in AskPcs
  PROVE  \/ req'[d] = req[d]
         \/ \E s \in Sessions :
              EndRead(d, s) \/ ExtendRead(d, s) \/ \E b \in Parties : SwapRead(d, s, b)
         \/ SwapSiblings(d)
         \/ SwapMoves(d)
         \/ EndRow(d)
<1>0. StoresOK
  BY DEF BaseInv
<1>1. req'[d].pc \notin {"idle", "allocate"} \cup MakePcs
  BY DEF AskPcs, SwapPcs, MakePcs, CreatePcs, RollbackPcs
<1>2. ASSUME MakerMoves(d) \/ \E s \in Sessions, p \in Pairs, n \in Numbers : CreateAllocate(d, s, p, n)
      PROVE  FALSE
  BY <1>0, <1>1, <1>2, MakerKept, AllocateSets DEF MakeReqs, MakePcs, CreatePcs, NoReq
<1>3. QED
  BY <1>0, <1>1, <1>2, ReqMove, CreateReqs, ModifyReqs

LEMMA AskedBefore ==
  ASSUME BaseInv, [SessionNext]_vars, NEW d \in Clients, req'[d].pc \in AskPcs
  PROVE  \/ req[d].pc \in AskPcs /\ req'[d].s = req[d].s
         \/ req'[d].s \in Sessions /\ Known(req'[d].s)
<1>0. StoresOK
  BY DEF BaseInv
<1>1. CASE req'[d] = req[d]
  BY <1>1
<1>2. ASSUME NEW s \in Sessions,
             EndRead(d, s) \/ ExtendRead(d, s) \/ \E b \in Parties : SwapRead(d, s, b)
      PROVE  req'[d].s = s /\ Known(s)
  BY <1>2, ReadSets DEF EndRead, ExtendRead, SwapRead
<1>3. ASSUME SwapSiblings(d) \/ SwapMoves(d) \/ EndRow(d)
      PROVE  req[d].pc \in AskPcs /\ req'[d].s = req[d].s
  <2>1. CASE SwapSiblings(d)
    BY <2>1, SiblingsSet DEF SwapSiblings, At, AskPcs
  <2>2. CASE SwapMoves(d)
    BY <1>0, <2>2, SwapKept DEF SwapReqs, AskPcs
  <2>3. CASE EndRow(d)
    BY <1>0, <2>3, EndGoes DEF EndRow, At, AskPcs
  <2>4. QED
    BY <1>3, <2>1, <2>2, <2>3
<1>4. QED
  BY <1>1, <1>2, <1>3, AskerCame

LEMMA JobNames ==
  ASSUME BaseInv, [SessionNext]_vars, NEW e \in Expirers
  PROVE  /\ \A t \in job'[e].batch : t \in job[e].batch \/ t \in DueSessions \/ Known(t)
         /\ job'[e].pc # "idle" => \/ Works(e) /\ job'[e].s = job[e].s
                                   \/ job'[e].s \in job[e].batch
<1>0. StoresOK /\ due \subseteq Sessions
  BY DEF BaseInv, StoresOK
<1>1. ASSUME NEW B \in SUBSET Sessions, NEW f \in Expirers, job[f] = NoExpiry,
             job' = [job EXCEPT ![f].batch = B], \A t \in B : t \in DueSessions \/ Known(t)
      PROVE  /\ \A t \in job'[e].batch : t \in job[e].batch \/ t \in DueSessions \/ Known(t)
             /\ job'[e].pc # "idle" => Works(e) /\ job'[e].s = job[e].s
  BY <1>0, <1>1, SelectSets DEF Works
<1>2. ASSUME NEW f \in Expirers, f \in Workers, WorkerSelect(f)
      PROVE  /\ \A t \in job'[e].batch : t \in job[e].batch \/ t \in DueSessions \/ Known(t)
             /\ job'[e].pc # "idle" => Works(e) /\ job'[e].s = job[e].s
  <2>1. DueSessions \in SUBSET Sessions
    BY <1>0 DEF DueSessions
  <2>2. QED
    BY <1>1, <1>2, <2>1 DEF WorkerSelect
<1>3. ASSUME NEW f \in Expirers, NEW s \in Sessions, AdminSelect(f, s)
      PROVE  /\ \A t \in job'[e].batch : t \in job[e].batch \/ t \in DueSessions \/ Known(t)
             /\ job'[e].pc # "idle" => Works(e) /\ job'[e].s = job[e].s
  <2>1. {s} \in SUBSET Sessions
    OBVIOUS
  <2>2. QED
    BY <1>1, <1>3, <2>1 DEF AdminSelect
<1>4. ASSUME NEW f \in Expirers, Expire(f)
      PROVE  /\ \A t \in job'[e].batch : t \in job[e].batch
             /\ job'[e].pc # "idle" => \/ Works(e) /\ job'[e].s = job[e].s
                                       \/ job'[e].s \in job[e].batch
  <2>1. CASE JobAdvances(f)
    BY <1>0, <2>1, AdvanceKept DEF Works
  <2>2. ASSUME NEW s \in Sessions, ExpireRead(f, s), rows[s].state # "EXPIRED"
        PROVE  /\ \A t \in job'[e].batch : t \in job[e].batch
               /\ job'[e].pc # "idle" => \/ Works(e) /\ job'[e].s = job[e].s
                                         \/ job'[e].s \in job[e].batch
    BY <2>2, ReadJob DEF ExpireRead, Works
  <2>3. ASSUME NEW s \in Sessions, JobDone(f, s)
        PROVE  /\ \A t \in job'[e].batch : t \in job[e].batch
               /\ job'[e].pc # "idle" => Works(e) /\ job'[e].s = job[e].s
    BY <1>0, <2>3, JobEnds DEF Works
  <2>4. QED
    BY <1>4, <2>1, <2>2, <2>3, ExpireJobs
<1>5. CASE UNCHANGED job
  BY <1>5 DEF Works
<1>6. Workers \subseteq Expirers /\ Admins \subseteq Expirers
  BY DEF Expirers
<1>7. QED
  BY <1>2, <1>3, <1>4, <1>5, <1>6, JobMove

LEMMA AloneStep ==
  ASSUME ~ListedIds, BaseInv, AloneInv, [SessionNext]_vars
  PROVE  AloneInv'
<1>0. StoresOK /\ ReqsOK /\ JobsOK
  BY DEF BaseInv
<1> SUFFICES ASSUME NEW c \in Clients, req'[c].pc \in MakePcs, NEW s \in Sessions, s = req'[c].s
             PROVE  /\ s \notin due'
                    /\ \A d \in Clients : req'[d].pc \in AskPcs => req'[d].s # s
                    /\ \A e \in Expirers :
                         s \notin job'[e].batch /\ (job'[e].pc # "idle" => job'[e].s # s)
  <2>1. \A c \in Clients : req'[c].pc \in MakePcs => req'[c].s \in Sessions
    BY ReqsStep, ReqClass DEF MakeReqs
  <2>2. QED
    BY <2>1 DEF AloneInv, Alone, Makes, Works
<1>1. ASSUME NEW p \in Pairs, NEW n \in Numbers, CreateAllocate(c, s, p, n)
      PROVE  /\ s \notin due'
             /\ \A d \in Clients : req'[d].pc \in AskPcs => req'[d].s # s
             /\ \A e \in Expirers :
                  s \notin job'[e].batch /\ (job'[e].pc # "idle" => job'[e].s # s)
  <2>1. ~HasRow(s) /\ UNCHANGED <<due, job>>
    BY <1>1 DEF CreateAllocate, Fresh
  <2>2. req'[c].pc = "insert" /\ \A d \in Clients : d # c => req'[d] = req[d]
    BY <1>0, <1>1, AllocateSets DEF NoReq, MakePcs, CreatePcs, RollbackPcs
  <2>3. \A d \in Clients : req[d].pc \in AskPcs => req[d].s # s
    BY <1>0, <2>1, NamedHasRow DEF AskPcs
  <2>4. QED
    BY <1>0, <2>1, <2>2, <2>3 DEF BaseInv, TracesOK, JobsOK, JobOK, Works, AskPcs, SwapPcs
<1>2. ASSUME Makes(c), req[c].s = s
      PROVE  /\ s \notin due'
             /\ \A d \in Clients : req'[d].pc \in AskPcs => req'[d].s # s
             /\ \A e \in Expirers :
                  s \notin job'[e].batch /\ (job'[e].pc # "idle" => job'[e].s # s)
  <2>1. Alone(s)
    BY <1>2 DEF AloneInv
  <2>2. ~Known(s) /\ Creating(s)
    BY <1>2 DEF Known, Creating, Makes, MakePcs
  <2>3. s \notin due'
    BY <2>1, <2>2, DueMove DEF Alone, AskPcs, EndRow, ExtendRow, NewDeadline, DeadlinePasses, At
  <2>4. \A d \in Clients : req'[d].pc \in AskPcs => req'[d].s # s
    BY <2>1, <2>2, AskedBefore DEF Alone
  <2>5. \A e \in Expirers : s \notin job'[e].batch /\ (job'[e].pc # "idle" => job'[e].s # s)
    BY <2>1, <2>2, JobNames DEF Alone, DueSessions
  <2>6. QED
    BY <2>3, <2>4, <2>5
<1>3. CASE req'[c] = req[c] \/ MakerMoves(c)
  BY <1>0, <1>2, <1>3, MakerKept DEF Makes
<1>4. ASSUME NEW r \in Sessions, NEW p \in Pairs, NEW n \in Numbers, CreateAllocate(c, r, p, n)
      PROVE  r = s
  BY <1>0, <1>4, AllocateSets DEF NoReq, MakePcs, CreatePcs, RollbackPcs
<1>5. QED
  BY <1>1, <1>3, <1>4, MakerCame

(* A row becomes ACTIVE in the request that creates it, and nowhere else.  *)
LEMMA OnlyActivated ==
  ASSUME BaseInv, [SessionNext]_vars, NEW s \in Sessions, rows'[s].state = "ACTIVE"
  PROVE  rows[s].state = "ACTIVE" \/ \E c \in Clients : CreateActivate(c) /\ req[c].s = s
<1>0. StoresOK /\ ReqsOK /\ JobsOK
  BY DEF BaseInv
<1>1. ASSUME NEW r \in Sessions, NEW st \in States, HasRow(r), SetState(r, st),
             st # "ACTIVE" \/ r # s
      PROVE  rows[s].state = "ACTIVE"
  BY <1>0, <1>1, StateSet
<1>2. ASSUME NEW c \in Clients, CreateActivate(c)
      PROVE  rows[s].state = "ACTIVE" \/ req[c].s = s
  BY <1>0, <1>1, <1>2, NamedHasRow DEF CreateActivate, At, CreatePcs, States, LiveStates
<1>3. ASSUME NEW c \in Clients, CreateInsert(c)
      PROVE  rows[s].state = "ACTIVE"
  BY <1>0, <1>3, InsertSets
<1>4. ASSUME NEW c \in Clients, RollbackRow(c)
      PROVE  rows[s].state = "ACTIVE"
  <2>1. req[c].s \in Sessions
    BY <1>0, <1>4, ReqClass DEF RollbackRow, At, StoresOK, MakePcs, RollbackPcs, MakeReqs
  <2>2. QED
    BY <1>1, <1>4, <2>1 DEF RollbackRow, States
<1>5. ASSUME NEW c \in Clients, EndRow(c)
      PROVE  rows[s].state = "ACTIVE"
  BY <1>0, <1>1, <1>5, NamedHasRow DEF EndRow, EndState, At, States, LiveStates
<1>6. ASSUME NEW c \in Clients, SwapRow(c)
      PROVE  rows[s].state = "ACTIVE"
  BY <1>0, <1>6, TargetSet
<1>7. ASSUME NEW e \in Expirers, ExpireMark(e)
      PROVE  rows[s].state = "ACTIVE"
  <2>1. job[e].s \in Sessions /\ HasRow(job[e].s)
    BY <1>0, <1>7, JobClass DEF ExpireMark, JobAt, StoresOK, WorkJobs, JobsOK, JobOK, Works
  <2>2. QED
    BY <1>1, <1>7, <2>1 DEF ExpireMark, States
<1>8. QED
  BY <1>2, <1>3, <1>4, <1>5, <1>6, <1>7, RowsMove

(* What nobody else names is written by its creation only.                 *)
LEMMA MakerRowKept ==
  ASSUME BaseInv, AloneInv, [SessionNext]_vars, NEW c \in Clients, Makes(c)
  PROVE  \/ rows'[req[c].s] = rows[req[c].s]
         \/ CreateInsert(c) \/ CreateActivate(c) \/ RollbackRow(c)
<1>0. StoresOK /\ ReqsOK /\ JobsOK
  BY DEF BaseInv
<1>1. Alone(req[c].s)
  BY DEF AloneInv
<1>2. req[c].s \in Sessions
  BY <1>0, ReqClass DEF StoresOK, Makes, MakeReqs
<1>3. ASSUME NEW d \in Clients, d # c, CreateInsert(d) \/ CreateActivate(d) \/ RollbackRow(d)
      PROVE  rows'[req[c].s] = rows[req[c].s]
  <2>1. Makes(d)
    BY <1>3 DEF CreateInsert, CreateActivate, RollbackRow, At, Makes, MakePcs, CreatePcs, RollbackPcs
  <2>2. req[d].s # req[c].s
    BY <1>0, <1>3, <2>1 DEF ReqsOK
  <2>3. QED
    BY <1>0, <1>2, <1>3, <2>2 DEF CreateInsert, CreateActivate, RollbackRow, SetState, StoresOK
<1>4. ASSUME NEW d \in Clients, EndRow(d) \/ SwapRow(d)
      PROVE  rows'[req[c].s] = rows[req[c].s]
  <2>1. req[d].s # req[c].s
    BY <1>1, <1>4 DEF Alone, AskPcs, SwapPcs, EndRow, SwapRow, At
  <2>2. QED
    BY <1>0, <1>2, <1>4, <2>1 DEF EndRow, SwapRow, SetState, StoresOK
<1>5. ASSUME NEW e \in Expirers, ExpireMark(e)
      PROVE  rows'[req[c].s] = rows[req[c].s]
  <2>1. job[e].s # req[c].s
    BY <1>1, <1>5 DEF Alone, Works, ExpireMark, JobAt
  <2>2. QED
    BY <1>0, <1>2, <1>5, <2>1 DEF ExpireMark, SetState, StoresOK
<1>6. QED
  BY <1>3, <1>4, <1>5, RowsMove

(* Where an expiry comes from.                                             *)
LEMMA JobCame ==
  ASSUME BaseInv, [SessionNext]_vars, NEW e \in Expirers, job'[e].pc # "idle"
  PROVE  \/ job'[e] = job[e]
         \/ JobAdvances(e)
         \/ \E s \in Sessions : ExpireRead(e, s) /\ rows[s].state # "EXPIRED"
<1>0. StoresOK
  BY DEF BaseInv
<1>1. ASSUME NEW B \in SUBSET Sessions, NEW f \in Expirers, job[f] = NoExpiry,
             job' = [job EXCEPT ![f].batch = B]
      PROVE  job'[e] = job[e]
  BY <1>0, <1>1, SelectSets
<1>2. ASSUME NEW f \in Expirers, f \in Workers, WorkerSelect(f)
      PROVE  job'[e] = job[e]
  <2>1. DueSessions \in SUBSET Sessions
    BY <1>0 DEF DueSessions, StoresOK
  <2>2. QED
    BY <1>1, <1>2, <2>1 DEF WorkerSelect
<1>3. ASSUME NEW f \in Expirers, NEW s \in Sessions, AdminSelect(f, s)
      PROVE  job'[e] = job[e]
  <2>1. {s} \in SUBSET Sessions
    OBVIOUS
  <2>2. QED
    BY <1>1, <1>3, <2>1 DEF AdminSelect
<1>4. ASSUME NEW f \in Expirers, Expire(f), job'[e] # job[e]
      PROVE  \/ JobAdvances(e)
             \/ \E s \in Sessions : ExpireRead(e, s) /\ rows[s].state # "EXPIRED"
  <2>1. CASE JobAdvances(f)
    BY <1>0, <1>4, <2>1, AdvanceKept
  <2>2. ASSUME NEW s \in Sessions, ExpireRead(f, s), rows[s].state # "EXPIRED"
        PROVE  f = e
    BY <1>4, <2>2, ReadJob
  <2>3. ~\E s \in Sessions : JobDone(f, s)
    BY <1>0, <1>4, JobEnds
  <2>4. QED
    BY <1>4, <2>1, <2>2, <2>3, ExpireJobs
<1>5. Workers \subseteq Expirers /\ Admins \subseteq Expirers
  BY DEF Expirers
<1>6. QED
  BY <1>2, <1>3, <1>4, <1>5, JobMove

LEMMA PastMarkCame ==
  ASSUME BaseInv, [SessionNext]_vars, NEW e \in Expirers, job'[e].pc \in PastMark
  PROVE  /\ Works(e) /\ job'[e].s = job[e].s
         /\ job'[e].a = job[e].a /\ job'[e].b = job[e].b /\ job'[e].n = job[e].n
         /\ job[e].pc \in PastMark \/ ExpireMark(e)
<1>0. StoresOK
  BY DEF BaseInv
<1>1. job'[e].pc # "idle" /\ job'[e].pc # "mark"
  BY DEF PastMark, JobPcs
<1>2. job'[e] = job[e] \/ JobAdvances(e)
  BY <1>1, JobCame, ReadJob
<1>3. CASE job'[e] = job[e]
  BY <1>3 DEF Works, PastMark, JobPcs
<1>4. CASE JobAdvances(e)
  <2>1. /\ Works(e) /\ job'[e].s = job[e].s /\ job[e] \in WorkJobs
        /\ job'[e].a = job[e].a /\ job'[e].b = job[e].b /\ job'[e].n = job[e].n
    BY <1>0, <1>4, AdvanceKept
  <2>2. job[e].pc \in PastMark \/ ExpireMark(e)
    BY <1>4, <2>1 DEF JobAdvances, ExpireRelease, ExpireDelHash, ExpireUnclaim, ExpireUnindexA,
       ExpireUnindexB, JobAt, PastMark, JobPcs
  <2>3. QED
    BY <2>1, <2>2
<1>5. QED
  BY <1>2, <1>3, <1>4

LEMMA ActiveStep ==
  ASSUME BaseInv, AloneInv, ActiveInv, [SessionNext]_vars
  PROVE  ActiveInv'
<1>0. StoresOK /\ ReqsOK /\ JobsOK
  BY DEF BaseInv
<1>n. ASSUME NEW s \in Sessions, rows[s].state # "ACTIVE",
             \A c \in Clients : Makes(c) => req[c].s # s
      PROVE  rows'[s].state # "ACTIVE"
  BY <1>n, OnlyActivated DEF CreateActivate, At, Makes, MakePcs, CreatePcs
<1>1. ASSUME NEW c \in Clients, req'[c].pc \in {"activate", "cache", "track", "reply"}
      PROVE  /\ req'[c].pc = "activate" => rows'[req'[c].s].state = "PENDING"
             /\ req'[c].pc \in {"cache", "track", "reply"} => rows'[req'[c].s].state = "ACTIVE"
  <2>1. req'[c] = req[c] \/ MakerMoves(c)
    BY <1>0, <1>1, MakerCame, AllocateSets DEF MakePcs, CreatePcs, NoReq
  <2>2. Makes(c) /\ req'[c].s = req[c].s /\ req[c] \in MakeReqs
    BY <1>0, <1>1, <2>1, MakerKept, ReqClass DEF StoresOK, Makes, MakePcs, CreatePcs
  <2>3. CASE req'[c] = req[c]
    <3>1. rows'[req[c].s] = rows[req[c].s]
      BY <2>2, <2>3, MakerRowKept, StepsMove
    <3>2. QED
      BY <2>3, <3>1 DEF ActiveInv
  <2>4. CASE CreateInsert(c)
    <3>1. rows'[req[c].s].state = "PENDING"
      BY <1>0, <2>4, InsertSets
    <3>2. req'[c].pc = "activate"
      BY <1>0, <2>2, <2>4, MakerGoes DEF CreateInsert, MakePcs, CreatePcs
    <3>3. QED
      BY <2>2, <3>1, <3>2
  <2>5. CASE CreateActivate(c)
    <3>1. HasRow(req[c].s) /\ req[c].s \in Sessions
      BY <1>0, <2>5, NamedHasRow DEF CreateActivate, At, CreatePcs
    <3>2. rows'[req[c].s].state = "ACTIVE"
      BY <1>0, <2>5, <3>1, StateSet DEF CreateActivate, States, LiveStates
    <3>3. req'[c].pc = "cache"
      BY <1>0, <2>2, <2>5, MakerGoes DEF CreateActivate, MakePcs, CreatePcs
    <3>4. QED
      BY <2>2, <3>2, <3>3
  <2>6. CASE CreateCache(c) \/ CreateTrack(c)
    <3>1. UNCHANGED rows /\ req[c].pc \in {"cache", "track"}
      BY <2>6 DEF CreateCache, CreateTrack, At
    <3>2. req'[c].pc \in {"track", "reply", "rollback"}
      BY <1>0, <2>2, <2>6, MakerGoes DEF CreateCache, CreateTrack, MakePcs, CreatePcs, RollbackPcs
    <3>3. QED
      BY <1>1, <2>2, <3>1, <3>2 DEF ActiveInv
  <2>7. ~CreateFails(c) /\ ~RollbackRelease(c) /\ ~(RollbackFails(c) /\ At(c, "rollback"))
    <3>1. ASSUME Goto(c, "rollback") \/ Goto(c, "failRow")
          PROVE  FALSE
      BY <1>0, <1>1, <2>2, <3>1, MakerGoes DEF MakePcs, RollbackPcs
    <3>2. QED
      BY <3>1 DEF CreateFails, RollbackRelease, RollbackFails, At
  <2>8. QED
    BY <2>1, <2>3, <2>4, <2>5, <2>6, <2>7 DEF MakerMoves
<1>2. ASSUME NEW c \in Clients, req'[c].pc \in {"endCache", "extend"}
      PROVE  rows'[req'[c].s].state # "ACTIVE"
  <2>1. CASE req'[c] = req[c]
    <3>1. req[c].s \in Sessions /\ rows[req[c].s].state # "ACTIVE"
      BY <1>0, <1>2, <2>1, NamedHasRow DEF ActiveInv
    <3>2. \A d \in Clients : Makes(d) => req[d].s # req[c].s
      BY <1>2, <2>1 DEF AloneInv, Alone, AskPcs
    <3>3. QED
      BY <1>n, <2>1, <3>1, <3>2
  <2>2. ASSUME NEW s \in Sessions,
               EndRead(c, s) \/ ExtendRead(c, s) \/ \E b \in Parties : SwapRead(c, s, b)
        PROVE  rows'[req'[c].s].state # "ACTIVE"
    <3>1. req'[c].s = s /\ req'[c].pc \in {"endRow", "extend", "siblings"}
      BY <2>2, ReadSets
    <3>2. ASSUME EndRead(c, s)
          PROVE  req'[c].pc # "extend"
      BY <1>0, <3>2 DEF EndRead, StoresOK
    <3>3. ExtendRead(c, s)
      <4>1. ASSUME NEW b \in Parties, SwapRead(c, s, b)
            PROVE  req'[c].pc # "extend"
        BY <1>0, <4>1 DEF SwapRead, StoresOK
      <4>2. QED
        BY <1>2, <2>2, <3>1, <3>2, <4>1
    <3>4. QED
      BY <3>1, <3>3 DEF ExtendRead
  <2>3. ~SwapSiblings(c) /\ ~SwapMoves(c)
    BY <1>0, <1>2, SiblingsSet, SwapKept DEF SwapReqs, SwapPcs
  <2>4. CASE EndRow(c)
    <3>1. req'[c].s = req[c].s /\ req[c].s \in Sessions /\ HasRow(req[c].s)
      BY <1>0, <2>4, EndGoes, NamedHasRow DEF EndRow, At
    <3>2. QED
      BY <1>0, <2>4, <3>1, StateSet DEF EndRow, EndState, States, LiveStates
  <2>5. QED
    BY <1>2, <2>1, <2>2, <2>3, <2>4, AskerCame DEF AskPcs
<1>3. ASSUME NEW e \in Expirers, job'[e].pc \in PastMark
      PROVE  rows'[job'[e].s].state # "ACTIVE"
  <2>1. Works(e) /\ job'[e].s = job[e].s /\ (job[e].pc \in PastMark \/ ExpireMark(e))
    BY <1>3, PastMarkCame
  <2>2. job[e].s \in Sessions /\ HasRow(job[e].s)
    BY <1>0, <2>1, JobClass DEF StoresOK, WorkJobs, JobsOK, JobOK, Works
  <2>3. CASE job[e].pc \in PastMark
    <3>1. \A d \in Clients : Makes(d) => req[d].s # job[e].s
      BY <2>1 DEF AloneInv, Alone
    <3>2. QED
      BY <1>n, <2>1, <2>2, <2>3, <3>1 DEF ActiveInv
  <2>4. CASE ExpireMark(e)
    BY <1>0, <2>1, <2>2, <2>4, StateSet DEF ExpireMark, States
  <2>5. QED
    BY <2>1, <2>3, <2>4
<1>4. QED
  BY <1>1, <1>2, <1>3 DEF ActiveInv

LEMMA ActiveInit == SessionInit => AloneInv /\ ActiveInv
BY DEF SessionInit, NoReq, NoExpiry, AloneInv, Alone, ActiveInv, Makes, Works, MakePcs, CreatePcs,
   RollbackPcs, AskPcs, SwapPcs, PastMark, JobPcs

LEMMA ActiveAlways ==
  ASSUME ~ListedIds
  PROVE  SessionSpec => [](BaseInv /\ AloneInv /\ ActiveInv)
<1>1. BaseInv /\ AloneInv /\ ActiveInv /\ [SessionNext]_vars => (AloneInv /\ ActiveInv)'
  BY AloneStep, ActiveStep
<1>2. QED
  BY <1>1, ActiveInit, BaseAlways, PTL DEF SessionSpec

-----------------------------------------------------------------------------
(* The quota.  A session in its tenant's set is live or being undone.      *)
Undoing(s) == \E e \in Expirers : job[e].pc \in PastMark /\ job[e].s = s

QuotaInv ==
    /\ \A c \in Clients : req[c].pc \notin RollbackPcs
    /\ \A t \in Tenants : \A s \in tenantActive[t] :
         /\ HasRow(s)
         /\ tenantOf(rows[s].a) = t
         /\ IsLive(s) \/ Undoing(s)

(* An expiry that nothing interrupts goes on to its last step.             *)
LEMMA UndoStep ==
  ASSUME "expire" \notin StoreFails, BaseInv, [SessionNext]_vars,
         NEW e \in Expirers, job[e].pc \in PastMark
  PROVE  \/ job'[e].pc \in PastMark /\ job'[e].s = job[e].s
         \/ ExpireUntrack(e)
<1>0. StoresOK /\ Works(e)
  BY DEF BaseInv, Works, PastMark, JobPcs
<1>1. ASSUME Expire(e), ~ExpireUntrack(e)
      PROVE  job'[e].pc \in PastMark /\ job'[e].s = job[e].s
  <2>1. \E q \in PastMark : JobGoto(e, q)
    BY <1>1 DEF Expire, ExpireRead, ExpireMark, ExpireRelease, ExpireDelHash, ExpireUnclaim,
       ExpireUnindexA, ExpireUnindexB, ExpireFails, JobAt, PastMark, JobPcs
  <2>2. QED
    BY <1>0, <2>1, JobGoes DEF PastMark
<1>2. ~WorkerSelect(e) /\ \A r \in Sessions : ~AdminSelect(e, r)
  BY <1>0 DEF WorkerSelect, AdminSelect, NoExpiry, Works
<1>3. ASSUME NEW f \in Expirers, f # e, Expire(f) \/ WorkerSelect(f)
                                          \/ \E r \in Sessions : AdminSelect(f, r)
      PROVE  job'[e] = job[e]
  BY <1>0, <1>3 DEF StoresOK, Expire, ExpireRead, ExpireMark, ExpireRelease, ExpireDelHash,
     ExpireUnclaim, ExpireUnindexA, ExpireUnindexB, ExpireUntrack, ExpireFails, JobGoto, JobDone,
     WorkerSelect, AdminSelect
<1>4. Workers \subseteq Expirers /\ Admins \subseteq Expirers
  BY DEF Expirers
<1>5. job'[e] = job[e] \/ Expire(e)
  BY <1>2, <1>3, <1>4, JobMove
<1>6. QED
  BY <1>1, <1>5

LEMMA NoRollback ==
  ASSUME "create" \notin StoreFails, BaseInv, [SessionNext]_vars,
         \A c \in Clients : req[c].pc \notin RollbackPcs
  PROVE  \A c \in Clients : req'[c].pc \notin RollbackPcs
<1>0. StoresOK
  BY DEF BaseInv
<1> SUFFICES ASSUME NEW c \in Clients, req'[c].pc \in RollbackPcs
             PROVE  FALSE
  OBVIOUS
<1>1. req'[c] = req[c] \/ MakerMoves(c)
  BY <1>0, MakerCame, AllocateSets DEF MakePcs, RollbackPcs, NoReq
<1>2. ASSUME MakerMoves(c)
      PROVE  FALSE
  <2>1. Makes(c) /\ \E q \in CreatePcs : Goto(c, q)
    BY <1>0, <1>2, MakerKept DEF MakerMoves, CreateInsert, CreateActivate, CreateCache, CreateTrack,
       CreateFails, RollbackRelease, RollbackFails, At, CreatePcs, RollbackPcs
  <2>2. QED
    BY <1>0, <2>1, MakerGoes DEF MakePcs, CreatePcs, RollbackPcs
<1>3. QED
  BY <1>1, <1>2

LEMMA QuotaStep ==
  ASSUME "create" \notin StoreFails, "expire" \notin StoreFails,
         BaseInv, AloneInv, ActiveInv, QuotaInv, [SessionNext]_vars
  PROVE  QuotaInv'
<1>0. StoresOK /\ ReqsOK /\ JobsOK /\ tenantActive \in [Tenants -> SUBSET Sessions]
  BY DEF BaseInv, StoresOK
<1>1. \A c \in Clients : req'[c].pc \notin RollbackPcs
  BY NoRollback DEF QuotaInv
<1>2. ASSUME NEW t \in Tenants, NEW s \in Sessions, s \in tenantActive'[t], s \in tenantActive[t]
      PROVE  /\ rows'[s] # NoRow /\ tenantOf(rows'[s].a) = t
             /\ \/ rows'[s].state \in LiveStates
                \/ \E e \in Expirers : job'[e].pc \in PastMark /\ job'[e].s = s
  <2>1. HasRow(s) /\ tenantOf(rows[s].a) = t /\ (IsLive(s) \/ Undoing(s))
    BY <1>2 DEF QuotaInv
  <2>2. RowKept(s)
    BY <2>1, RowsStep
  <2>3. CASE IsLive(s)
    <3>1. \A c \in Clients : ~RollbackRow(c)
      BY DEF QuotaInv, RollbackRow, At, RollbackPcs
    <3>2. QED
      BY <2>1, <2>2, <2>3, <3>1, LiveStep DEF RowKept, PastMark, JobPcs
  <2>4. ASSUME NEW e \in Expirers, job[e].pc \in PastMark, job[e].s = s
        PROVE  job'[e].pc \in PastMark /\ job'[e].s = s
    <3>1. ASSUME ExpireUntrack(e)
          PROVE  FALSE
      <4>1. job[e].a = rows[s].a
        BY <1>0, <2>4 DEF JobsOK, JobOK, Works, PastMark, JobPcs
      <4>2. s \notin tenantActive'[t]
        BY <1>0, <2>1, <2>4, <3>1, <4>1 DEF ExpireUntrack
      <4>3. QED
        BY <1>2, <4>2
    <3>2. QED
      BY <2>4, <3>1, UndoStep
  <2>5. QED
    BY <2>1, <2>2, <2>3, <2>4 DEF RowKept, Undoing
<1>3. ASSUME NEW c \in Clients, CreateTrack(c), NEW t \in Tenants, NEW s \in Sessions,
             s \in tenantActive'[t], s \notin tenantActive[t]
      PROVE  rows'[s] # NoRow /\ tenantOf(rows'[s].a) = t /\ rows'[s].state \in LiveStates
  <2>1. s = req[c].s /\ t = tenantOf(req[c].a) /\ UNCHANGED rows /\ req[c].pc = "track"
    BY <1>0, <1>3 DEF CreateTrack, At
  <2>2. HasRow(s) /\ rows[s].a = req[c].a /\ rows[s].state = "ACTIVE"
    BY <1>0, <2>1 DEF ReqsOK, ReqOK, MakePcs, CreatePcs, ActiveInv
  <2>3. QED
    BY <2>1, <2>2 DEF HasRow, LiveStates
<1>4. ASSUME NEW t \in Tenants, NEW s \in tenantActive'[t]
      PROVE  \/ s \in Sessions /\ s \in tenantActive[t]
             \/ s \in Sessions /\ \E c \in Clients : CreateTrack(c)
  BY <1>0, QuotaMove, QuotaTyped DEF ExpireUntrack
<1>5. QED
  BY <1>1, <1>2, <1>3, <1>4 DEF QuotaInv, HasRow, IsLive, Undoing

(* The set the tier limit is counted on holds no session that is over      *)
(* (tier-enforcer.ts:36-39), with any number of clients, workers and       *)
(* operators, if callers name only sessions whose creation was answered    *)
(* and no command of a creation or of an expiry fails.                     *)
THEOREM QuotaIsNeverPhantom ==
  ASSUME ~ListedIds, "create" \notin StoreFails, "expire" \notin StoreFails
  PROVE  SessionSpec => []NoPhantomQuota
<1>1. SessionInit => QuotaInv
  BY DEF SessionInit, NoReq, QuotaInv, RollbackPcs
<1>2. BaseInv /\ AloneInv /\ ActiveInv /\ QuotaInv /\ [SessionNext]_vars => QuotaInv'
  BY QuotaStep
<1>3. QuotaInv => NoPhantomQuota
  BY DEF QuotaInv, NoPhantomQuota, Undoing, Expiring, JobAt, PastMark, JobPcs
<1>4. QED
  BY <1>1, <1>2, <1>3, ActiveAlways, PTL DEF SessionSpec

-----------------------------------------------------------------------------
(* The tier limit.  A request that was let in reserves a place from the    *)
(* count until its session is in the set; the tenant's sessions and the    *)
(* reservations together exceed the limit by less than the clients.        *)
Reserves(c, t) ==
    \/ req[c].pc = "allocate" /\ req[c].tenant = t
    \/ Makes(c) /\ tenantOf(req[c].a) = t /\ req[c].s \notin tenantActive[t]

TrackInv ==
    \A c \in Clients : req[c].pc = "reply" => req[c].s \in tenantActive[tenantOf(req[c].a)]

Reserving(t) == {c \in Clients : Reserves(c, t)}

Capped(t) ==
    /\ IsFiniteSet(tenantActive[t])
    /\ Cardinality(tenantActive[t]) + Cardinality(Reserving(t))
         <= TierLimit + Cardinality(Clients) - 1

CapInv ==
    /\ \A t \in Tenants : Capped(t)
    /\ \A s \in Sessions : rows[s].state = "ACTIVE" =>
         s \in tenantActive[tenantOf(rows[s].a)] \/ \E c \in Clients : Makes(c) /\ req[c].s = s
    /\ TrackInv

LEMMA FewerLeft ==
  ASSUME NEW S, NEW T \in SUBSET S, IsFiniteSet(S)
  PROVE  /\ IsFiniteSet(T) /\ Cardinality(T) <= Cardinality(S)
         /\ Cardinality(S) \in Nat /\ Cardinality(T) \in Nat
BY FS_Subset, FS_CardinalityType

LEMMA Untracked ==
  ASSUME BaseInv, [SessionNext]_vars, NEW t \in Tenants, NEW s \in tenantActive[t],
         s \notin tenantActive'[t]
  PROVE  \E e \in Expirers : job[e].pc = "untrack" /\ job[e].s = s
<1>1. tenantActive \in [Tenants -> SUBSET Sessions]
  BY DEF BaseInv, StoresOK
<1>2. QED
  BY <1>1, QuotaMove DEF CreateTrack, ExpireUntrack, JobAt

(* Only the counting request adds to its tenant's set.                     *)
LEMMA Tracked ==
  ASSUME BaseInv, [SessionNext]_vars, NEW t \in Tenants
  PROVE  \/ tenantActive'[t] \subseteq tenantActive[t]
         \/ \E c \in Clients : /\ CreateTrack(c) /\ t = tenantOf(req[c].a)
                               /\ tenantActive'[t] = tenantActive[t] \cup {req[c].s}
<1>1. tenantActive \in [Tenants -> SUBSET Sessions]
  BY DEF BaseInv, StoresOK
<1>2. QED
  BY <1>1, QuotaMove DEF CreateTrack, ExpireUntrack

LEMMA AdmitCame ==
  ASSUME BaseInv, [SessionNext]_vars, NEW c \in Clients, req'[c].pc = "allocate"
  PROVE  req'[c] = req[c] \/ \E t \in Tenants : CreateAdmit(c, t) /\ req'[c].tenant = t
<1>0. StoresOK
  BY DEF BaseInv
<1>1. ASSUME NEW d \in Clients, Create(d) \/ Modify(d), d # c
      PROVE  req'[c] = req[c]
  BY <1>0, <1>1, CreateReqs, ModifyReqs
<1>2. ASSUME Modify(c)
      PROVE  FALSE
  <2>1. ASSUME NEW s \in Sessions,
               EndRead(c, s) \/ ExtendRead(c, s) \/ \E b \in Parties : SwapRead(c, s, b)
        PROVE  FALSE
    BY <2>1, ReadSets
  <2>2. ~SwapSiblings(c) /\ ~EndRow(c)
    BY <1>0, SiblingsSet, EndGoes
  <2>3. ~SwapMoves(c)
    BY <1>0, SwapKept DEF SwapReqs, SwapPcs
  <2>4. QED
    BY <1>2, <2>1, <2>2, <2>3, ModifyReqs
<1>3. ASSUME Create(c)
      PROVE  \E t \in Tenants : CreateAdmit(c, t)
  <2>1. ~MakerMoves(c)
    BY <1>0, MakerKept DEF MakeReqs, MakePcs, CreatePcs, RollbackPcs
  <2>2. ASSUME NEW s \in Sessions, NEW p \in Pairs, NEW n \in Numbers, CreateAllocate(c, s, p, n)
        PROVE  FALSE
    BY <1>0, <2>2, AllocateGoes
  <2>3. ~Finish(c)
    BY <1>0, ReqEnds
  <2>4. QED
    BY <1>3, <2>1, <2>2, <2>3 DEF Create, MakerMoves, CreateExhausted, CreateReply, RollbackRow,
       RollbackFails
<1>4. ASSUME NEW t \in Tenants, CreateAdmit(c, t)
      PROVE  req'[c].tenant = t
  BY <1>0, <1>4 DEF CreateAdmit, StoresOK
<1>5. QED
  BY <1>1, <1>2, <1>3, <1>4, ReqMove

(* A request that is about to answer has counted its session.              *)
LEMMA TrackStep ==
  ASSUME BaseInv, AloneInv, TrackInv, [SessionNext]_vars
  PROVE  TrackInv'
<1> SUFFICES ASSUME NEW c \in Clients, req'[c].pc = "reply"
             PROVE  req'[c].s \in tenantActive'[tenantOf(req'[c].a)]
  BY DEF TrackInv
<1>0. StoresOK /\ tenantActive \in [Tenants -> SUBSET Sessions] /\ Parties = Tenants \X Phones
  BY SessionAssumption DEF BaseInv, StoresOK
<1>m. ASSUME Makes(c), NEW t \in Tenants, req[c].s \in tenantActive[t]
      PROVE  req[c].s \in tenantActive'[t]
  BY <1>m, Untracked DEF AloneInv, Alone, Works
<1>1. req'[c] = req[c] \/ MakerMoves(c)
  BY <1>0, MakerCame, AllocateSets DEF MakePcs, CreatePcs, NoReq
<1>2. /\ Makes(c) /\ req[c] \in MakeReqs
      /\ req'[c].s = req[c].s /\ req'[c].a = req[c].a
  BY <1>0, <1>1, MakerKept, ReqClass DEF Makes, MakePcs, CreatePcs, StoresOK
<1>3. tenantOf(req[c].a) \in Tenants
  BY <1>0, <1>2 DEF MakeReqs, tenantOf
<1>4. CASE req'[c] = req[c]
  BY <1>m, <1>2, <1>3, <1>4 DEF TrackInv
<1>5. CASE CreateTrack(c)
  BY <1>0, <1>2, <1>3, <1>5 DEF CreateTrack
<1>6. ASSUME MakerMoves(c), ~CreateTrack(c)
      PROVE  FALSE
  <2>1. \E q \in MakePcs \ {"reply"} : Goto(c, q)
    BY <1>6 DEF MakerMoves, CreateInsert, CreateActivate, CreateCache, CreateFails,
       RollbackRelease, RollbackFails, At, MakePcs, CreatePcs, RollbackPcs
  <2>2. QED
    BY <1>0, <1>2, <2>1, MakerGoes
<1>7. QED
  BY <1>1, <1>4, <1>5, <1>6

LEMMA CapStep ==
  ASSUME IsFiniteSet(Clients), ~ListedIds, "rollback" \notin StoreFails,
         BaseInv, AloneInv, ActiveInv, CapInv, [SessionNext]_vars
  PROVE  CapInv'
<1>0. /\ StoresOK /\ ReqsOK /\ JobsOK /\ TierLimit \in Nat
      /\ tenantActive \in [Tenants -> SUBSET Sessions]
  BY SessionAssumption DEF BaseInv, StoresOK
<1>p. Parties = Tenants \X Phones
  BY SessionAssumption
<1>m. ASSUME NEW c \in Clients, Makes(c), NEW t \in Tenants, req[c].s \in tenantActive[t]
      PROVE  req[c].s \in tenantActive'[t]
  BY <1>m, Untracked DEF AloneInv, Alone, Works
<1>2. ASSUME NEW c \in Clients, NEW t \in Tenants,
             \/ req'[c].pc = "allocate" /\ req'[c].tenant = t
             \/ /\ req'[c].pc \in MakePcs
                /\ tenantOf(req'[c].a) = t /\ req'[c].s \notin tenantActive'[t]
      PROVE  \/ Reserves(c, t) /\ ~CreateTrack(c)
             \/ CreateAdmit(c, t)
  <2>1. CASE req'[c] = req[c]
    BY <1>2, <1>m, <2>1, StepsMove DEF Reserves, Makes
  <2>2. ASSUME req'[c].pc = "allocate", NEW u \in Tenants, CreateAdmit(c, u), req'[c].tenant = u
        PROVE  t = u
    BY <1>2, <2>2 DEF MakePcs, CreatePcs, RollbackPcs
  <2>3. CASE MakerMoves(c)
    <3>1. /\ Makes(c) /\ req'[c].s = req[c].s /\ req'[c].a = req[c].a
          /\ req'[c].pc \in MakePcs
      BY <1>0, <2>3, MakerKept DEF MakeReqs
    <3>2. req'[c].pc # "allocate"
      BY <3>1 DEF MakePcs, CreatePcs, RollbackPcs
    <3>3. Reserves(c, t)
      BY <1>2, <1>m, <3>1, <3>2 DEF Reserves
    <3>4. ~CreateTrack(c)
      <4>1. ASSUME CreateTrack(c)
            PROVE  FALSE
        BY <1>0, <1>2, <3>1, <3>2, <4>1 DEF CreateTrack
      <4>2. QED
        BY <4>1
    <3>5. QED
      BY <3>3, <3>4
  <2>4. ASSUME NEW s \in Sessions, NEW p \in Pairs, NEW n \in Numbers, CreateAllocate(c, s, p, n)
        PROVE  Reserves(c, t) /\ ~CreateTrack(c)
    <3>1. req'[c].pc = "insert" /\ req'[c].a = p[1]
      BY <1>0, <1>2, <2>4, AllocateSets DEF NoReq, MakePcs, CreatePcs, RollbackPcs
    <3>2. req[c].pc = "allocate" /\ req[c].tenant = t
      BY <1>2, <2>4, <3>1 DEF CreateAllocate, At
    <3>3. QED
      BY <3>2 DEF CreateTrack, At, Reserves
  <2>5. QED
    BY <1>2, <2>1, <2>2, <2>3, <2>4, AdmitCame, MakerCame
<1> DEFINE R(t) == {c \in Clients :
                     \/ req'[c].pc = "allocate" /\ req'[c].tenant = t
                     \/ /\ req'[c].pc \in MakePcs
                        /\ tenantOf(req'[c].a) = t /\ req'[c].s \notin tenantActive'[t]}
<1>f. ASSUME NEW t \in Tenants
      PROVE  /\ R(t) \in SUBSET Clients /\ Reserving(t) \in SUBSET Clients
             /\ IsFiniteSet(tenantActive[t]) /\ IsFiniteSet(Reserving(t)) /\ IsFiniteSet(R(t))
             /\ Cardinality(R(t)) \in Nat /\ Cardinality(R(t)) <= Cardinality(Clients)
             /\ Cardinality(Reserving(t)) \in Nat /\ Cardinality(Clients) \in Nat
             /\ Cardinality(tenantActive[t]) \in Nat
  <2>1. R(t) \in SUBSET Clients /\ Reserving(t) \in SUBSET Clients /\ IsFiniteSet(tenantActive[t])
    BY DEF Reserving, CapInv, Capped
  <2>2. QED
    BY <2>1, FewerLeft, FS_CardinalityType
<1>1. ASSUME NEW t \in Tenants
      PROVE  /\ IsFiniteSet(tenantActive'[t])
             /\ Cardinality(tenantActive'[t]) + Cardinality(R(t))
                  <= TierLimit + Cardinality(Clients) - 1
  <2>1. Cardinality(tenantActive[t]) + Cardinality(Reserving(t))
          <= TierLimit + Cardinality(Clients) - 1
    BY DEF CapInv, Capped
  <2>2. ASSUME NEW c \in Clients, CreateAdmit(c, t)
        PROVE  /\ IsFiniteSet(tenantActive'[t])
               /\ Cardinality(tenantActive'[t]) + Cardinality(R(t))
                    <= TierLimit + Cardinality(Clients) - 1
    <3>1. tenantActive' = tenantActive /\ Cardinality(tenantActive[t]) < TierLimit
      BY <2>2 DEF CreateAdmit, WithinLimit, indexVars
    <3>2. Cardinality(tenantActive[t]) + Cardinality(R(t)) <= TierLimit + Cardinality(Clients) - 1
      <4> HIDE DEF R
      <4> QED
        BY <1>0, <1>f, <3>1
    <3>3. QED
      BY <1>f, <3>1, <3>2
  <2>3. ASSUME \A c \in Clients : ~CreateAdmit(c, t)
        PROVE  R(t) \in SUBSET Reserving(t) /\ \A c \in R(t) : ~CreateTrack(c)
    BY <1>2, <2>3 DEF Reserving
  <2>4. ASSUME \A c \in Clients : ~CreateAdmit(c, t), tenantActive'[t] \subseteq tenantActive[t]
        PROVE  /\ IsFiniteSet(tenantActive'[t])
               /\ Cardinality(tenantActive'[t]) + Cardinality(R(t))
                    <= TierLimit + Cardinality(Clients) - 1
    <3> HIDE DEF R
    <3>1. /\ IsFiniteSet(tenantActive'[t])
          /\ Cardinality(tenantActive'[t]) <= Cardinality(tenantActive[t])
          /\ Cardinality(tenantActive'[t]) \in Nat
      BY <1>f, <2>4, FewerLeft
    <3>2. Cardinality(R(t)) <= Cardinality(Reserving(t))
      BY <1>f, <2>3, <2>4, FewerLeft
    <3>3. QED
      BY <1>0, <1>f, <2>1, <3>1, <3>2
  <2>5. ASSUME \A d \in Clients : ~CreateAdmit(d, t),
               NEW c \in Clients, CreateTrack(c), t = tenantOf(req[c].a),
               tenantActive'[t] = tenantActive[t] \cup {req[c].s}, req[c].s \notin tenantActive[t]
        PROVE  /\ IsFiniteSet(tenantActive'[t])
               /\ Cardinality(tenantActive'[t]) + Cardinality(R(t))
                    <= TierLimit + Cardinality(Clients) - 1
    <3>1. c \in Reserving(t)
      BY <2>5 DEF Reserving, Reserves, CreateTrack, At, Makes, MakePcs, CreatePcs
    <3> HIDE DEF R
    <3>2. R(t) \in SUBSET (Reserving(t) \ {c})
      BY <2>3, <2>5
    <3>3. /\ IsFiniteSet(Reserving(t) \ {c})
          /\ Cardinality(Reserving(t) \ {c}) = Cardinality(Reserving(t)) - 1
      BY <1>f, <3>1, FS_RemoveElement
    <3>4. Cardinality(R(t)) <= Cardinality(Reserving(t)) - 1
      BY <3>2, <3>3, FewerLeft
    <3>5. /\ IsFiniteSet(tenantActive'[t])
          /\ Cardinality(tenantActive'[t]) = Cardinality(tenantActive[t]) + 1
      <4> DEFINE A == tenantActive[t]
                 x == req[c].s
      <4>1. IsFiniteSet(A) /\ x \notin A /\ tenantActive'[t] = A \cup {x}
        BY <1>f, <2>5
      <4>2. IsFiniteSet(A \cup {x}) /\ Cardinality(A \cup {x}) = Cardinality(A) + 1
        <5> HIDE DEF A, x
        <5> QED
          BY <4>1, FS_AddElement
      <4>3. QED
        BY <4>1, <4>2
    <3>6. QED
      BY <1>0, <1>f, <2>1, <3>4, <3>5
  <2>6. QED
    BY <2>2, <2>4, <2>5, Tracked
<1>3. ASSUME NEW s \in Sessions, rows'[s].state = "ACTIVE"
      PROVE  \/ s \in tenantActive'[tenantOf(rows'[s].a)]
             \/ \E c \in Clients : req'[c].pc \in MakePcs /\ req'[c].s = s
  <2>1. ASSUME NEW c \in Clients, CreateActivate(c), req[c].s = s
        PROVE  req'[c].pc \in MakePcs /\ req'[c].s = s
    BY <1>0, <2>1, MakerKept DEF MakerMoves, MakeReqs
  <2>2. ASSUME rows[s].state = "ACTIVE"
        PROVE  \/ s \in tenantActive'[tenantOf(rows'[s].a)]
               \/ \E c \in Clients : req'[c].pc \in MakePcs /\ req'[c].s = s
    <3>1. HasRow(s) /\ rows'[s].a = rows[s].a /\ tenantOf(rows[s].a) \in Tenants
      BY <1>0, <1>p, <2>2, RowOf, RowsStep DEF RowKept, tenantOf
    <3>2. CASE s \in tenantActive[tenantOf(rows[s].a)]
      <4>1. ASSUME NEW e \in Expirers, job[e].pc = "untrack", job[e].s = s
            PROVE  FALSE
        BY <2>2, <4>1 DEF ActiveInv, PastMark, JobPcs
      <4>2. s \in tenantActive'[tenantOf(rows[s].a)]
        BY <3>1, <3>2, <4>1, Untracked
      <4>3. QED
        BY <3>1, <4>2
    <3>3. ASSUME NEW c \in Clients, Makes(c), req[c].s = s
          PROVE  \/ s \in tenantActive'[tenantOf(rows'[s].a)]
                 \/ req'[c].pc \in MakePcs /\ req'[c].s = s
      <4>1. CASE req'[c] = req[c]
        BY <3>3, <4>1 DEF Makes
      <4>2. CASE MakerMoves(c)
        BY <1>0, <3>3, <4>2, MakerKept DEF MakeReqs
      <4>3. CASE CreateReply(c)
        <5>1. UNCHANGED tenantActive /\ req[c].pc = "reply"
          BY <4>3 DEF CreateReply, At, indexVars
        <5>2. s \in tenantActive[tenantOf(req[c].a)]
          BY <3>3, <5>1 DEF CapInv, TrackInv
        <5>3. rows[s].a = req[c].a
          BY <1>0, <3>1, <3>3 DEF ReqsOK, ReqOK, Makes
        <5>4. QED
          BY <3>1, <5>1, <5>2, <5>3
      <4>4. ASSUME RollbackRow(c)
            PROVE  FALSE
        <5>1. SetState(s, "FAILED")
          BY <3>1, <3>3, <4>4 DEF RollbackRow
        <5>2. QED
          BY <1>0, <1>3, <3>1, <5>1, StateSet DEF States
      <4>5. QED
        BY <3>3, <4>1, <4>2, <4>3, <4>4, MakerNext
    <3>4. QED
      BY <2>2, <3>2, <3>3 DEF CapInv
  <2>3. QED
    BY <1>3, <2>1, <2>2, OnlyActivated
<1>4. TrackInv'
  BY TrackStep DEF CapInv
<1>5. QED
  BY <1>1, <1>3, <1>4 DEF CapInv, Capped, Reserving, Reserves, Makes

(* The tier "permits at most" so many concurrent sessions                  *)
(* (tier-enforcer.ts:53-55).  With any number of clients the tenant may    *)
(* exceed that by as many requests as are counted at a time beyond the     *)
(* first, and never by more, however its sessions are ended, retargeted    *)
(* and expired meanwhile and also when createSession or an expiry fails    *)
(* halfway, as long as a rollback is carried out.                          *)
THEOREM TierIsNeverExceeded ==
  ASSUME IsFiniteSet(Clients), Clients # {}, ~ListedIds, "rollback" \notin StoreFails
  PROVE  SessionSpec => []TierCap
<1>0. /\ TierLimit \in Nat /\ IsFiniteSet({}) /\ Cardinality({}) = 0
      /\ Cardinality(Clients) \in Nat /\ Cardinality(Clients) # 0
  BY SessionAssumption, FS_EmptySet, FS_CardinalityType
<1>1. SessionInit => CapInv
  <2> SUFFICES ASSUME SessionInit
               PROVE  CapInv
    OBVIOUS
  <2>1. \A t \in Tenants : tenantActive[t] = {} /\ Reserving(t) = {}
    BY DEF SessionInit, NoReq, Reserving, Reserves, Makes, MakePcs, CreatePcs, RollbackPcs
  <2>2. ASSUME NEW t \in Tenants
        PROVE  Capped(t)
    <3>1. IsFiniteSet(tenantActive[t]) /\ Cardinality(tenantActive[t]) = 0
      BY <1>0, <2>1
    <3>2. Cardinality(Reserving(t)) = 0
      BY <1>0, <2>1
    <3>3. 0 + 0 <= TierLimit + Cardinality(Clients) - 1
      BY <1>0
    <3>4. QED
      BY <3>1, <3>2, <3>3 DEF Capped
  <2>3. QED
    BY <2>2 DEF SessionInit, NoReq, NoRow, CapInv, TrackInv
<1>2. BaseInv /\ AloneInv /\ ActiveInv /\ CapInv /\ [SessionNext]_vars => CapInv'
  BY CapStep
<1>3. BaseInv /\ CapInv => TierCap
  <2> SUFFICES ASSUME BaseInv, CapInv, NEW t \in Tenants
               PROVE  Cardinality({s \in Sessions :
                        rows[s].state = "ACTIVE" /\ tenantOf(rows[s].a) = t})
                          <= TierLimit + Cardinality(Clients) - 1
    BY DEF TierCap
  <2> DEFINE A == {s \in Sessions : rows[s].state = "ACTIVE" /\ tenantOf(rows[s].a) = t}
             f == [c \in Reserving(t) |-> req[c].s]
             T == {f[c] : c \in Reserving(t)}
  <2>1. A \in SUBSET (tenantActive[t] \cup T)
    <3> SUFFICES ASSUME NEW s \in A, s \notin tenantActive[t]
                 PROVE  s \in T
      OBVIOUS
    <3>1. PICK c \in Clients : Makes(c) /\ req[c].s = s
      BY DEF CapInv
    <3>2. HasRow(s)
      BY RowOf DEF BaseInv
    <3>3. rows[s].a = req[c].a
      BY <3>1, <3>2 DEF BaseInv, ReqsOK, ReqOK, Makes
    <3>4. c \in Reserving(t) /\ f[c] = s
      BY <3>1, <3>3 DEF Reserving, Reserves
    <3>5. QED
      BY <3>4
  <2>2. IsFiniteSet(tenantActive[t]) /\ IsFiniteSet(Reserving(t))
    BY FS_Subset DEF CapInv, Capped, Reserving
  <2>3. f \in Surjection(Reserving(t), T)
    BY DEF Surjection
  <2> HIDE DEF f
  <2>4. IsFiniteSet(T) /\ Cardinality(T) <= Cardinality(Reserving(t))
    BY <2>2, <2>3, FS_Surjection
  <2> HIDE DEF T, A
  <2>5. /\ Cardinality(tenantActive[t]) \in Nat /\ Cardinality(T) \in Nat
        /\ Cardinality(Reserving(t)) \in Nat
    BY <2>2, <2>4, FS_CardinalityType
  <2>6. /\ IsFiniteSet(tenantActive[t] \cup T)
        /\ Cardinality(tenantActive[t] \cup T)
             = Cardinality(tenantActive[t]) + Cardinality(T) - Cardinality(tenantActive[t] \cap T)
        /\ Cardinality(tenantActive[t] \cap T) \in Nat
    BY <2>2, <2>4, FS_Union, FS_Intersection, FS_CardinalityType
  <2>7. Cardinality(A) <= Cardinality(tenantActive[t] \cup T) /\ Cardinality(A) \in Nat
        /\ Cardinality(tenantActive[t] \cup T) \in Nat
    BY <2>1, <2>6, FewerLeft
  <2>8. Cardinality(tenantActive[t]) + Cardinality(Reserving(t))
          <= TierLimit + Cardinality(Clients) - 1
    BY DEF CapInv, Capped
  <2>9. Cardinality(A) <= TierLimit + Cardinality(Clients) - 1
    BY <1>0, <2>4, <2>5, <2>6, <2>7, <2>8
  <2>10. QED
    BY <2>9 DEF A
<1>4. QED
  BY <1>1, <1>2, <1>3, ActiveAlways, PTL DEF SessionSpec

-----------------------------------------------------------------------------
(* Retargeting.  While one request at a time may retarget, the row has the *)
(* target its creation gave it, or the one the swap in progress knows.     *)
OneSwapper == "swap" \in Requests => OneClient

SwapKnows(c) ==
    /\ Makes(c) /\ HasRow(req[c].s) => rows[req[c].s].b = req[c].b
    /\ req[c].pc \in {"siblings"} \cup SwapPcs =>
         /\ "swap" \in Requests
         /\ req[c].old # rows[req[c].s].a
         /\ req[c].old # req[c].new
         /\ rows[req[c].s].b = IF req[c].pc \in {"siblings", "probe"} THEN req[c].old
                                                                      ELSE req[c].new

SwapInv == \A c \in Clients : SwapKnows(c)

LEMMA OnlyRetargeted ==
  ASSUME BaseInv, [SessionNext]_vars, NEW s \in Sessions, HasRow(s)
  PROVE  \/ rows'[s].b = rows[s].b
         \/ \E c \in Clients : SwapRow(c) /\ req[c].s = s
<1>0. StoresOK /\ ReqsOK /\ JobsOK
  BY DEF BaseInv
<1>1. ASSUME NEW c \in Clients, CreateInsert(c)
      PROVE  rows'[s].b = rows[s].b
  <2>1. ~HasRow(req[c].s)
    BY <1>0, <1>1 DEF ReqsOK, ReqOK, CreateInsert, At, MakePcs, CreatePcs
  <2>2. QED
    BY <1>0, <1>1, <2>1, InsertSets
<1>2. ASSUME NEW t, NEW st, SetState(t, st)
      PROVE  rows'[s].b = rows[s].b
  BY <1>0, <1>2 DEF SetState, StoresOK, HasRow, Row
<1>3. ASSUME NEW c \in Clients, SwapRow(c)
      PROVE  rows'[s].b = rows[s].b \/ req[c].s = s
  BY <1>0, <1>3, TargetSet
<1>4. QED
  BY <1>1, <1>2, <1>3, RowsMove DEF CreateActivate, RollbackRow, EndRow, ExpireMark

(* No other request takes part in a swap's steps.                          *)
LEMMA NoOtherSwap ==
  ASSUME OneSwapper, SwapInv, NEW c \in Clients, NEW d \in Clients,
         req[d].pc \in {"siblings"} \cup SwapPcs
  PROVE  c = d
BY DEF OneSwapper, OneClient, SwapInv, SwapKnows

LEMMA MakerTargetKept ==
  ASSUME OneSwapper, BaseInv, SwapInv, [SessionNext]_vars, NEW c \in Clients, Makes(c),
         req'[c] = req[c] \/ MakerMoves(c), rows'[req[c].s] # NoRow
  PROVE  rows'[req[c].s].b = req[c].b
<1>0. StoresOK /\ ReqsOK /\ SwapKnows(c) /\ req[c].s \in Sessions
  BY ReqClass DEF BaseInv, SwapInv, StoresOK, MakeReqs, Makes
<1>1. CASE HasRow(req[c].s)
  <2>1. ASSUME NEW d \in Clients, SwapRow(d)
        PROVE  FALSE
    <3>1. req[d].pc = "probe"
      BY <2>1 DEF SwapRow, At
    <3>2. c = d
      BY <3>1, NoOtherSwap DEF SwapPcs
    <3>3. QED
      BY <3>1, <3>2 DEF Makes, MakePcs, CreatePcs, RollbackPcs
  <2>2. QED
    BY <1>0, <1>1, <2>1, OnlyRetargeted DEF SwapKnows
<1>2. CASE ~HasRow(req[c].s)
  <2>1. PICK d \in Clients : CreateInsert(d) /\ req[d].s = req[c].s
    BY <1>0, <1>2, RowsStep DEF HasRow
  <2>2. Makes(d)
    BY <2>1 DEF CreateInsert, At, Makes, MakePcs, CreatePcs
  <2>3. d = c
    BY <1>0, <2>1, <2>2 DEF ReqsOK
  <2>4. QED
    BY <1>0, <2>1, <2>3, InsertSets
<1>3. QED
  BY <1>1, <1>2

LEMMA SwapStep ==
  ASSUME OneSwapper, BaseInv, SwapInv, [SessionNext]_vars
  PROVE  SwapInv'
<1> SUFFICES ASSUME NEW c \in Clients
             PROVE  SwapKnows(c)'
  BY DEF SwapInv
<1>0. StoresOK /\ ReqsOK /\ RowsOK /\ SwapKnows(c)
  BY DEF BaseInv, SwapInv
<1>1. ASSUME req'[c].pc \in MakePcs
      PROVE  rows'[req'[c].s] # NoRow => rows'[req'[c].s].b = req'[c].b
  <2>1. CASE req'[c] = req[c]
    BY <1>1, <2>1, MakerTargetKept DEF Makes
  <2>2. CASE MakerMoves(c)
    BY <1>0, <2>2, MakerKept, MakerTargetKept
  <2>3. ASSUME NEW s \in Sessions, NEW p \in Pairs, NEW n \in Numbers, CreateAllocate(c, s, p, n)
        PROVE  rows'[req'[c].s] = NoRow
    <3>1. req'[c].s = s
      BY <1>0, <1>1, <2>3, AllocateGoes DEF MakePcs, CreatePcs, RollbackPcs
    <3>2. QED
      BY <2>3, <3>1 DEF CreateAllocate, Fresh, HasRow
  <2>4. QED
    BY <1>1, <2>1, <2>2, <2>3, MakerCame
<1>2. ASSUME req'[c].pc \in {"siblings"} \cup SwapPcs
      PROVE  /\ "swap" \in Requests
             /\ req'[c].old # rows'[req'[c].s].a
             /\ req'[c].old # req'[c].new
             /\ rows'[req'[c].s].b = IF req'[c].pc \in {"siblings", "probe"} THEN req'[c].old
                                                                             ELSE req'[c].new
  <2> DEFINE P == /\ "swap" \in Requests
                  /\ req'[c].old # rows'[req'[c].s].a
                  /\ req'[c].old # req'[c].new
                  /\ rows'[req'[c].s].b = IF req'[c].pc \in {"siblings", "probe"}
                                            THEN req'[c].old ELSE req'[c].new
  <2>0. req'[c].pc \in AskPcs
    BY <1>2 DEF AskPcs
  <2>1. CASE req'[c] = req[c]
    <3>1. HasRow(req[c].s) /\ req[c].s \in Sessions
      BY <1>0, <1>2, <2>1, NamedHasRow
    <3>2. ASSUME NEW d \in Clients, SwapRow(d)
          PROVE  FALSE
      BY <1>2, <2>1, <3>2, NoOtherSwap, StepsMove DEF SwapRow, At, SwapPcs
    <3>3. rows'[req[c].s].b = rows[req[c].s].b /\ rows'[req[c].s].a = rows[req[c].s].a
      BY <3>1, <3>2, OnlyRetargeted, RowsStep DEF RowKept
    <3>4. QED
      BY <1>0, <1>2, <2>1, <3>3 DEF SwapKnows
  <2>2. ASSUME NEW s \in Sessions, EndRead(c, s) \/ ExtendRead(c, s)
        PROVE  FALSE
    <3>1. req'[c].pc \in {"endRow", "extend"}
      BY <1>0, <2>2 DEF EndRead, ExtendRead, StoresOK
    <3>2. QED
      BY <1>2, <3>1 DEF SwapPcs
  <2>3. ASSUME NEW s \in Sessions, NEW b \in Parties, SwapRead(c, s, b)
        PROVE  P
    <3>1. "swap" \in Requests /\ UNCHANGED rows /\ req'[c].pc = "siblings"
      BY <1>0, <2>3 DEF SwapRead, StoresOK
    <3>2. /\ HasRow(s) /\ req'[c].s = s /\ req'[c].old = rows[s].b
          /\ req'[c].new # rows[s].b
      BY <2>3, <3>1, ReadSets
    <3>3. rows[s].a # rows[s].b
      BY <1>0, <3>2 DEF RowsOK
    <3>4. QED
      BY <3>1, <3>2, <3>3
  <2>4. CASE SwapSiblings(c)
    <3>1. UNCHANGED rows /\ req[c].pc = "siblings"
      BY <2>4 DEF SwapSiblings, At
    <3>2. /\ req'[c].pc = "probe" /\ req'[c].s = req[c].s
          /\ req'[c].old = req[c].old /\ req'[c].new = req[c].new
      BY <2>4, SiblingsSet
    <3>3. QED
      BY <1>0, <3>1, <3>2 DEF SwapKnows
  <2>5. CASE SwapMoves(c)
    <3>1. /\ req[c] \in SwapReqs /\ req[c].pc \in SwapPcs
          /\ req'[c].s = req[c].s /\ req'[c].old = req[c].old /\ req'[c].new = req[c].new
      BY <1>0, <2>5, SwapKept DEF SwapReqs
    <3>2. HasRow(req[c].s) /\ req[c].s \in Sessions
      BY <1>0, <3>1, NamedHasRow
    <3>3. CASE SwapRow(c)
      <4>1. req[c].pc = "probe" /\ req'[c].pc = "script"
        BY <1>0, <3>3, SwapGoes DEF SwapRow, At, SwapPcs
      <4>2. /\ rows'[req[c].s].b = req[c].new
            /\ rows'[req[c].s].a = rows[req[c].s].a
        BY <1>0, <3>3, TargetSet DEF RowKept
      <4>3. QED
        BY <1>0, <3>1, <4>1, <4>2 DEF SwapKnows
    <3>4. CASE SwapMissing(c) \/ SwapRepairOld(c)
      <4>1. /\ req[c].pc \in {"script", "repairOld"}
            /\ req'[c].pc \in {"repairOld", "repairNew"}
            /\ UNCHANGED rows
        BY <1>0, <3>4, SwapGoes DEF SwapMissing, SwapRepairOld, At, SwapPcs
      <4>2. QED
        BY <1>0, <3>1, <4>1 DEF SwapKnows
    <3>5. ASSUME NEW s \in Sessions, SwapProbe(c, s), ~Conflicts(s, req[c].new)
          PROVE  P
      <4>1. /\ req[c].pc = "probe" /\ UNCHANGED rows
            /\ req' = [req EXCEPT ![c].todo = @ \ {s}]
        BY <3>5 DEF SwapProbe, At
      <4>2. req'[c].pc = "probe"
        BY <1>0, <3>1, <4>1 DEF StoresOK, SwapReqs
      <4>3. QED
        BY <1>0, <3>1, <4>1, <4>2 DEF SwapKnows
    <3>6. QED
      BY <2>5, <3>3, <3>4, <3>5 DEF SwapMoves
  <2>6. CASE EndRow(c)
    BY <1>0, <1>2, <2>6, EndGoes DEF SwapPcs
  <2>7. QED
    BY <2>0, <2>1, <2>2, <2>3, <2>4, <2>5, <2>6, AskerCame
<1>3. QED
  BY <1>1, <1>2 DEF SwapKnows, Makes, HasRow

-----------------------------------------------------------------------------
(* Index and hash.  A hash that has its id names the row's two parties,    *)
(* except between a swap's update of the row and its script, when it names *)
(* the old target; once the swap has found the hash gone, it cannot come   *)
(* back with an id.  The phone index holds no more than the two parties,   *)
(* and the old target until a swap has removed it.                         *)
HashTells ==
    \A s \in hashId :
      /\ HasRow(s)
      /\ hashState[s] # "none"
      /\ ~Swapping(s) => hashParties[s] = {rows[s].a, rows[s].b}

SwapTells(c) ==
    /\ req[c].pc = "script" /\ req[c].s \in hashId =>
         hashParties[req[c].s] = {rows[req[c].s].a, req[c].old}
    /\ req[c].pc \in {"repairOld", "repairNew"} => req[c].s \notin hashId

Leaves(s, p) ==
    \E c \in Clients : req[c].pc \in {"script", "repairOld"} /\ req[c].s = s /\ req[c].old = p

MakerIndexed(c) ==
    Makes(c) => \A p \in Parties : req[c].s \in phoneSessions[p] => p \in {req[c].a, req[c].b}

IndexTells ==
    \A s \in Sessions, p \in Parties :
      HasRow(s) /\ s \in phoneSessions[p] => p \in {rows[s].a, rows[s].b} \/ Leaves(s, p)

HonestInv == HashTells /\ IndexTells /\ \A c \in Clients : SwapTells(c) /\ MakerIndexed(c)

(* What gives a session its id field and its parties.                      *)
LEMMA HashCame ==
  ASSUME BaseInv, [SessionNext]_vars, NEW s \in Sessions, s \in hashId'
  PROVE  \/ s \in hashId /\ hashParties'[s] = hashParties[s]
         \/ \E c \in Clients : CreateCache(c) /\ req[c].s = s
         \/ \E c \in Clients : SwapScript(c) /\ req[c].s = s
<1>0. /\ hashId \subseteq Sessions
      /\ hashParties \in [Sessions -> SUBSET Parties]
  BY DEF BaseInv, StoresOK, PoolTypeOK
<1>1. ASSUME NEW c \in Clients, CreateCache(c)
      PROVE  req[c].s = s \/ (s \in hashId /\ hashParties'[s] = hashParties[s])
  <2>1. /\ hashId' = hashId \cup {req[c].s}
        /\ hashParties' = [hashParties EXCEPT ![req[c].s] = {req[c].a, req[c].b}]
    BY <1>1 DEF CreateCache, HashChanges
  <2>2. QED
    BY <1>0, <2>1
<1>2. ASSUME NEW c \in Clients, SwapScript(c)
      PROVE  req[c].s = s \/ (s \in hashId /\ hashParties'[s] = hashParties[s])
  <2>1. PICK P : UNCHANGED hashId /\ hashParties' = [hashParties EXCEPT ![req[c].s] = P]
    BY <1>2 DEF SwapScript, HashChanges, cacheVars
  <2>2. QED
    BY <1>0, <2>1
<1>3. ASSUME \A c \in Clients : ~CreateCache(c) /\ ~SwapScript(c)
      PROVE  s \in hashId /\ hashParties'[s] = hashParties[s]
  BY <1>3, HashKept
<1>4. QED
  BY <1>1, <1>2, <1>3

(* What lists a session under a phone.                                     *)
LEMMA IndexCame ==
  ASSUME BaseInv, [SessionNext]_vars, NEW p \in Parties, NEW s \in Sessions,
         s \in phoneSessions'[p]
  PROVE  \/ s \in phoneSessions[p]
         \/ \E c \in Clients, q \in Pairs, n \in Numbers : CreateAllocate(c, s, q, n)
         \/ \E c \in Clients : /\ SwapScript(c) \/ SwapRepairNew(c)
                               /\ req[c].s = s /\ req[c].new = p
<1>0. phoneSessions \in [Parties -> SUBSET Sessions]
  BY DEF BaseInv, StoresOK
<1>1. ASSUME NEW c \in Clients, NEW r \in Sessions, NEW q \in Pairs, NEW n \in Numbers,
             CreateAllocate(c, r, q, n), s \notin phoneSessions[p]
      PROVE  r = s
  BY <1>0, <1>1 DEF CreateAllocate
<1>2. ASSUME NEW c \in Clients, SwapScript(c), s \notin phoneSessions[p]
      PROVE  req[c].s = s /\ req[c].new = p
  <2> DEFINE old == [phoneSessions EXCEPT ![req[c].old] = @ \ {req[c].s}]
  <2>1. phoneSessions' = [old EXCEPT ![req[c].new] = @ \cup {req[c].s}]
    BY <1>2 DEF SwapScript
  <2>2. old \in [Parties -> SUBSET Sessions] /\ s \notin old[p]
    BY <1>0, <1>2
  <2>3. QED
    BY <2>1, <2>2
<1>3. ASSUME NEW c \in Clients, SwapRepairNew(c), s \notin phoneSessions[p]
      PROVE  req[c].s = s /\ req[c].new = p
  BY <1>0, <1>3 DEF SwapRepairNew, Index
<1>4. ASSUME NEW c \in Clients, SwapRepairOld(c)
      PROVE  s \in phoneSessions[p]
  BY <1>0, <1>4 DEF SwapRepairOld, Unindex
<1>5. ASSUME NEW e \in Expirers, ExpireUnindexA(e) \/ ExpireUnindexB(e)
      PROVE  s \in phoneSessions[p]
  BY <1>0, <1>5 DEF ExpireUnindexA, ExpireUnindexB, Unindex
<1>6. QED
  BY <1>1, <1>2, <1>3, <1>4, <1>5, IndexMove

(* Where a swap that has written the row goes in one step.                 *)
LEMMA SwapNext ==
  ASSUME BaseInv, [SessionNext]_vars, NEW c \in Clients,
         req[c].pc \in {"script", "repairOld", "repairNew"}
  PROVE  \/ req'[c] = req[c]
         \/ SwapScript(c) \/ SwapMissing(c) \/ SwapRepairOld(c) \/ SwapRepairNew(c)
<1>0. StoresOK
  BY DEF BaseInv
<1>1. ASSUME Create(c)
      PROVE  FALSE
  BY <1>1 DEF Create, CreateAdmit, CreateAllocate, CreateExhausted, CreateInsert, CreateActivate,
     CreateCache, CreateTrack, CreateReply, CreateFails, RollbackRelease, RollbackRow,
     RollbackFails, At, CreatePcs
<1>2. ASSUME Modify(c)
      PROVE  SwapScript(c) \/ SwapMissing(c) \/ SwapRepairOld(c) \/ SwapRepairNew(c)
  BY <1>2 DEF Modify, EndRead, EndRow, EndCache, SwapRead, SwapSiblings, SwapProbe, SwapRow,
     ExtendRead, ExtendRow, At
<1>3. ASSUME NEW d \in Clients, d # c, Create(d) \/ Modify(d)
      PROVE  req'[c] = req[c]
  BY <1>0, <1>3, CreateReqs, ModifyReqs
<1>4. QED
  BY <1>1, <1>2, <1>3, ReqMove

LEMMA HashTellsStep ==
  ASSUME OneSwapper, BaseInv, SwapInv, HonestInv, [SessionNext]_vars
  PROVE  HashTells'
<1>0. /\ StoresOK /\ ReqsOK /\ HashTells
      /\ hashState \in [Sessions -> LiveStates \cup {"none", "bare"}]
      /\ hashId \subseteq Sessions /\ hashId' \subseteq Sessions
      /\ hashParties \in [Sessions -> SUBSET Parties]
  BY CacheTyped DEF BaseInv, StoresOK, PoolTypeOK, HonestInv
<1> SUFFICES ASSUME NEW s \in Sessions, s \in hashId'
             PROVE  /\ HasRow(s)'
                    /\ hashState'[s] # "none"
                    /\ ~Swapping(s)' => hashParties'[s] = {rows'[s].a, rows'[s].b}
  BY <1>0 DEF HashTells
<1>1. hashState'[s] # "none"
  <2>1. CASE UNCHANGED <<cacheVars, hashParties>>
    BY <1>0, <2>1 DEF HashTells, cacheVars
  <2>2. ASSUME NEW c \in Clients, CreateCache(c)
        PROVE  hashState'[s] # "none"
    BY <1>0, <2>2 DEF CreateCache, HashTells
  <2>3. ASSUME NEW c \in Clients, EndRow(c) \/ EndCache(c) \/ SwapScript(c) \/ ExtendRow(c)
        PROVE  hashState'[s] # "none"
    BY <1>0, <2>3 DEF EndRow, EndCache, SwapScript, ExtendRow, cacheVars, HashTells
  <2>4. ASSUME NEW t, DropHash(t)
        PROVE  hashState'[s] # "none"
    BY <1>0, <2>4 DEF DropHash, HashTells
  <2>5. QED
    BY <2>1, <2>2, <2>3, <2>4, CacheMove DEF ExpireDelHash, HashEvicted
<1>2. ASSUME NEW c \in Clients, CreateCache(c), req[c].s = s
      PROVE  HasRow(s)' /\ hashParties'[s] = {rows'[s].a, rows'[s].b}
  <2>1. Makes(c) /\ HasRow(s) /\ UNCHANGED rows
    BY <1>0, <1>2, NamedHasRow DEF CreateCache, At, Makes, MakePcs, CreatePcs
  <2>2. rows[s].a = req[c].a /\ rows[s].b = req[c].b
    BY <1>2, <1>0, <2>1 DEF ReqsOK, ReqOK, Makes, SwapInv, SwapKnows
  <2>3. hashParties'[s] = {req[c].a, req[c].b}
    BY <1>0, <1>2 DEF CreateCache, HashChanges
  <2>4. QED
    BY <2>1, <2>2, <2>3 DEF HasRow
<1>3. ASSUME NEW c \in Clients, SwapScript(c), req[c].s = s
      PROVE  HasRow(s)' /\ hashParties'[s] = {rows'[s].a, rows'[s].b}
  <2>1. HasRow(s) /\ UNCHANGED rows /\ s \in hashId
    BY <1>0, <1>3, NamedHasRow DEF SwapScript, At, SwapPcs, cacheVars
  <2>2. rows[s].b = req[c].new
    BY <1>3 DEF SwapInv, SwapKnows, SwapScript, At, SwapPcs
  <2>3. hashParties'[s] = {req[c].new, rows[s].a}
    BY <1>0, <1>3, <2>1 DEF SwapScript, HashChanges
  <2>4. QED
    BY <2>1, <2>2, <2>3 DEF HasRow
<1>4. ASSUME s \in hashId, hashParties'[s] = hashParties[s],
             \A c \in Clients : ~(SwapScript(c) /\ req[c].s = s)
      PROVE  HasRow(s)' /\ (~Swapping(s)' => hashParties'[s] = {rows'[s].a, rows'[s].b})
  <2>1. HasRow(s) /\ HasRow(s)' /\ rows'[s].a = rows[s].a
    BY <1>0, <1>4, RowsStep DEF HashTells, RowKept, HasRow
  <2>2. ASSUME NEW c \in Clients, req[c].pc \in {"script", "repairOld", "repairNew"}, req[c].s = s
        PROVE  Swapping(s)'
    <3>1. req[c].pc = "script"
      BY <1>4, <2>2 DEF HonestInv, SwapTells
    <3>2. CASE req'[c] = req[c]
      BY <2>2, <3>2 DEF Swapping
    <3>3. CASE SwapMissing(c)
      <4>1. req'[c].pc = "repairOld" /\ req'[c].s = s
        BY <1>0, <2>2, <3>1, <3>3, SwapGoes DEF SwapMissing, SwapPcs
      <4>2. QED
        BY <4>1 DEF Swapping
    <3>4. QED
      BY <1>4, <2>2, <3>1, <3>2, <3>3, SwapNext DEF SwapRepairOld, SwapRepairNew, At
  <2>3. ASSUME NEW c \in Clients, SwapRow(c), req[c].s = s
        PROVE  Swapping(s)'
    <3>1. req'[c].pc = "script" /\ req'[c].s = s
      BY <1>0, <2>3, SwapGoes DEF SwapRow, At, SwapPcs
    <3>2. QED
      BY <3>1 DEF Swapping
  <2>4. ASSUME ~Swapping(s)'
        PROVE  hashParties'[s] = {rows'[s].a, rows'[s].b}
    <3>1. ~Swapping(s)
      BY <2>2, <2>4 DEF Swapping
    <3>2. rows'[s].b = rows[s].b
      BY <2>1, <2>3, <2>4, OnlyRetargeted
    <3>3. QED
      BY <1>0, <1>4, <2>1, <3>1, <3>2 DEF HashTells
  <2>5. QED
    BY <2>1, <2>4
<1>5. QED
  BY <1>1, <1>2, <1>3, <1>4, HashCame

LEMMA SwapTellsStep ==
  ASSUME OneSwapper, BaseInv, SwapInv, HonestInv, [SessionNext]_vars, NEW c \in Clients
  PROVE  SwapTells(c)'
<1>0. /\ StoresOK /\ ReqsOK /\ HashTells /\ SwapTells(c)
      /\ hashId \subseteq Sessions
  BY DEF BaseInv, StoresOK, HonestInv
<1>i. ASSUME req'[c].pc \notin {"script", "repairOld", "repairNew"}
      PROVE  SwapTells(c)'
  BY <1>i DEF SwapTells
<1>1. CASE req'[c] = req[c]
  <2>1. CASE req[c].pc \in {"script", "repairOld", "repairNew"}
    <3>1. HasRow(req[c].s) /\ req[c].s \in Sessions
      BY <1>0, <2>1, NamedHasRow DEF SwapPcs
    <3>2. ASSUME NEW d \in Clients, CreateCache(d) \/ SwapScript(d)
          PROVE  FALSE
      BY <1>1, <2>1, <3>2, NoOtherSwap, StepsMove DEF SwapPcs
    <3>3. req[c].s \in hashId' => /\ req[c].s \in hashId
                                  /\ hashParties'[req[c].s] = hashParties[req[c].s]
      BY <3>1, <3>2, HashCame
    <3>4. rows'[req[c].s].a = rows[req[c].s].a
      BY <3>1, RowsStep DEF RowKept
    <3>5. QED
      BY <1>0, <1>1, <3>3, <3>4 DEF SwapTells
  <2>2. QED
    BY <1>1, <1>i, <2>1
<1>2. CASE SwapMoves(c)
  <2>1. /\ req[c] \in SwapReqs /\ req[c].pc \in SwapPcs
        /\ req'[c].s = req[c].s /\ req'[c].old = req[c].old
    BY <1>0, <1>2, SwapKept DEF SwapReqs
  <2>2. CASE SwapRow(c)
    <3>1. req[c].pc = "probe" /\ req'[c].pc = "script" /\ UNCHANGED <<hashId, hashParties>>
      BY <1>0, <2>2, SwapGoes DEF SwapRow, At, SwapPcs, cacheVars, poolVars
    <3>2. ~Swapping(req[c].s)
      <4>1. \A d \in Clients : d = c
        BY <2>1, NoOtherSwap
      <4>2. QED
        BY <3>1, <4>1 DEF Swapping
    <3>3. rows[req[c].s].b = req[c].old
      BY <2>1, <3>1 DEF SwapInv, SwapKnows
    <3>4. rows'[req[c].s].a = rows[req[c].s].a
      BY <1>0, <2>2, TargetSet DEF RowKept
    <3>5. QED
      BY <1>0, <2>1, <3>1, <3>2, <3>3, <3>4 DEF SwapTells, HashTells
  <2>3. CASE SwapMissing(c)
    <3>1. req'[c].pc = "repairOld" /\ UNCHANGED hashId
      BY <1>0, <2>1, <2>3, SwapGoes DEF SwapMissing, SwapPcs, cacheVars
    <3>2. req[c].s \notin hashId
      BY <1>0, <2>3 DEF SwapMissing, HashTells
    <3>3. QED
      BY <2>1, <3>1, <3>2 DEF SwapTells
  <2>4. CASE SwapRepairOld(c)
    <3>1. req[c].pc = "repairOld" /\ req'[c].pc = "repairNew" /\ UNCHANGED hashId
      BY <1>0, <2>4, SwapGoes DEF SwapRepairOld, At, SwapPcs, cacheVars
    <3>2. QED
      BY <1>0, <2>1, <3>1 DEF SwapTells
  <2>5. ASSUME NEW s \in Sessions, SwapProbe(c, s), ~Conflicts(s, req[c].new)
        PROVE  SwapTells(c)'
    <3>1. req[c].pc = "probe" /\ req' = [req EXCEPT ![c].todo = @ \ {s}]
      BY <2>5 DEF SwapProbe, At
    <3>2. req'[c].pc = "probe"
      BY <1>0, <2>1, <3>1 DEF StoresOK, SwapReqs
    <3>3. QED
      BY <1>i, <3>2
  <2>6. QED
    BY <1>2, <2>2, <2>3, <2>4, <2>5 DEF SwapMoves
<1>3. ASSUME NEW s \in Sessions,
             EndRead(c, s) \/ ExtendRead(c, s) \/ \E b \in Parties : SwapRead(c, s, b)
      PROVE  SwapTells(c)'
  BY <1>i, <1>3, ReadSets
<1>4. CASE SwapSiblings(c)
  BY <1>i, <1>4, SiblingsSet
<1>5. CASE EndRow(c)
  BY <1>0, <1>i, <1>5, EndGoes
<1>6. QED
  BY <1>i, <1>1, <1>2, <1>3, <1>4, <1>5, AskerCame DEF AskPcs, SwapPcs

LEMMA MakerIndexedStep ==
  ASSUME OneSwapper, BaseInv, SwapInv, HonestInv, [SessionNext]_vars, NEW c \in Clients
  PROVE  MakerIndexed(c)'
<1>0. /\ StoresOK /\ MakerIndexed(c)
      /\ phoneSessions \in [Parties -> SUBSET Sessions]
  BY DEF BaseInv, StoresOK, HonestInv
<1> SUFFICES ASSUME req'[c].pc \in MakePcs,
                    NEW p \in Parties, req'[c].s \in phoneSessions'[p]
             PROVE  p \in {req'[c].a, req'[c].b}
  BY DEF MakerIndexed, Makes
<1>1. ASSUME Makes(c), req'[c].s = req[c].s, req'[c].a = req[c].a, req'[c].b = req[c].b
      PROVE  p \in {req'[c].a, req'[c].b}
  <2>1. req[c].s \in Sessions
    BY <1>0, <1>1, ReqClass DEF StoresOK, Makes, MakeReqs
  <2>2. ASSUME NEW d \in Clients, NEW q \in Pairs, NEW n \in Numbers,
               CreateAllocate(d, req[c].s, q, n)
        PROVE  FALSE
    BY <1>1, <2>1, <2>2, FreshIsNobodys DEF CreateAllocate
  <2>3. ASSUME NEW d \in Clients, SwapScript(d) \/ SwapRepairNew(d)
        PROVE  FALSE
    <3>1. req[d].pc \in {"script", "repairNew"}
      BY <2>3 DEF SwapScript, SwapRepairNew, At
    <3>2. c = d
      BY <3>1, NoOtherSwap DEF SwapPcs
    <3>3. QED
      BY <1>1, <3>1, <3>2 DEF Makes, MakePcs, CreatePcs, RollbackPcs
  <2>4. req[c].s \in phoneSessions[p]
    BY <1>1, <2>1, <2>2, <2>3, IndexCame
  <2>5. QED
    BY <1>0, <1>1, <2>4 DEF MakerIndexed
<1>2. CASE req'[c] = req[c]
  BY <1>1, <1>2 DEF Makes
<1>3. CASE MakerMoves(c)
  BY <1>0, <1>1, <1>3, MakerKept
<1>4. ASSUME NEW s \in Sessions, NEW q \in Pairs, NEW n \in Numbers, CreateAllocate(c, s, q, n)
      PROVE  p \in {req'[c].a, req'[c].b}
  <2>1. req'[c].s = s /\ req'[c].a = q[1] /\ req'[c].b = q[2]
    BY <1>0, <1>4, AllocateGoes DEF MakePcs, CreatePcs, RollbackPcs
  <2>2. s \notin phoneSessions[p]
    BY <1>4 DEF CreateAllocate, Fresh
  <2>3. phoneSessions'[p] = IF p \in {q[1], q[2]} THEN phoneSessions[p] \cup {s}
                                                  ELSE phoneSessions[p]
    BY <1>4 DEF CreateAllocate
  <2>4. QED
    BY <2>1, <2>2, <2>3
<1>5. QED
  BY <1>2, <1>3, <1>4, MakerCame

LEMMA IndexTellsStep ==
  ASSUME OneSwapper, BaseInv, SwapInv, HonestInv, [SessionNext]_vars
  PROVE  IndexTells'
<1>0. /\ StoresOK /\ ReqsOK /\ IndexTells
      /\ phoneSessions \in [Parties -> SUBSET Sessions]
  BY DEF BaseInv, StoresOK, HonestInv
<1> SUFFICES ASSUME NEW s \in Sessions, NEW p \in Parties,
                    rows'[s] # NoRow, s \in phoneSessions'[p]
             PROVE  p \in {rows'[s].a, rows'[s].b} \/ Leaves(s, p)'
  BY DEF IndexTells, HasRow
<1>1. CASE ~HasRow(s)
  <2>1. PICK c \in Clients : CreateInsert(c) /\ req[c].s = s
    BY <1>1, RowsStep DEF HasRow
  <2>2. UNCHANGED phoneSessions /\ Makes(c)
    BY <2>1 DEF CreateInsert, At, Makes, MakePcs, CreatePcs, indexVars
  <2>3. p \in {req[c].a, req[c].b}
    BY <2>1, <2>2 DEF HonestInv, MakerIndexed
  <2>4. rows'[s].a = req[c].a /\ rows'[s].b = req[c].b
    BY <1>0, <2>1, InsertSets
  <2>5. QED
    BY <2>3, <2>4
<1>2. ASSUME HasRow(s), NEW c \in Clients, SwapScript(c) \/ SwapRepairNew(c),
             req[c].s = s, req[c].new = p
      PROVE  p = rows'[s].b
  BY <1>2 DEF SwapInv, SwapKnows, SwapScript, SwapRepairNew, At, SwapPcs
<1>3. ASSUME NEW c \in Clients, NEW q \in Pairs, NEW n \in Numbers, CreateAllocate(c, s, q, n)
      PROVE  ~HasRow(s)
  BY <1>3 DEF CreateAllocate, Fresh
<1>4. ASSUME HasRow(s), s \in phoneSessions[p]
      PROVE  p \in {rows'[s].a, rows'[s].b} \/ Leaves(s, p)'
  <2>1. rows'[s].a = rows[s].a
    BY <1>4, RowsStep DEF RowKept
  <2>2. CASE p = rows[s].b
    <3>1. ASSUME NEW c \in Clients, SwapRow(c), req[c].s = s
          PROVE  Leaves(s, p)'
      <4>1. /\ req[c].pc = "probe" /\ req'[c].pc = "script"
            /\ req'[c].s = s /\ req'[c].old = req[c].old
        BY <1>0, <3>1, SwapGoes DEF SwapRow, At, SwapPcs
      <4>2. req[c].old = p
        BY <2>2, <3>1, <4>1 DEF SwapInv, SwapKnows, SwapPcs
      <4>3. QED
        BY <4>1, <4>2 DEF Leaves
    <3>2. QED
      BY <1>4, <2>2, <3>1, OnlyRetargeted
  <2>3. ASSUME NEW c \in Clients, req[c].pc \in {"script", "repairOld"},
               req[c].s = s, req[c].old = p
        PROVE  Leaves(s, p)'
    <3>1. req[c].old # req[c].new
      BY <2>3 DEF SwapInv, SwapKnows, SwapPcs
    <3>2. CASE req'[c] = req[c]
      BY <2>3, <3>2 DEF Leaves
    <3>3. CASE SwapMissing(c)
      <4>1. req'[c].pc = "repairOld" /\ req'[c].s = s /\ req'[c].old = p
        BY <1>0, <2>3, <3>3, SwapGoes DEF SwapMissing, SwapPcs
      <4>2. QED
        BY <4>1 DEF Leaves
    <3>4. ASSUME SwapScript(c)
          PROVE  s \notin phoneSessions'[p]
      <4>1. phoneSessions' = [phoneSessions EXCEPT ![req[c].old] = @ \ {s},
                                                   ![req[c].new] = @ \cup {s}]
        BY <2>3, <3>4 DEF SwapScript
      <4>2. QED
        BY <1>0, <2>3, <3>1, <4>1
    <3>5. ASSUME SwapRepairOld(c)
          PROVE  s \notin phoneSessions'[p]
      BY <1>0, <2>3, <3>5 DEF SwapRepairOld, Unindex
    <3>6. QED
      BY <2>3, <3>2, <3>3, <3>4, <3>5, SwapNext DEF SwapRepairNew, At
  <2>4. QED
    BY <1>0, <1>4, <2>1, <2>2, <2>3 DEF IndexTells, Leaves
<1>5. QED
  BY <1>1, <1>2, <1>3, <1>4, IndexCame

LEMMA SwapStarts == SessionInit => SwapInv
BY DEF SessionInit, NoReq, SwapInv, SwapKnows, Makes, MakePcs, CreatePcs, RollbackPcs, SwapPcs

LEMMA SwapAlways ==
  ASSUME OneSwapper
  PROVE  SessionSpec => [](BaseInv /\ SwapInv)
<1>1. SessionInit => SwapInv
  BY SwapStarts
<1>2. BaseInv /\ SwapInv /\ [SessionNext]_vars => SwapInv'
  BY SwapStep
<1>3. QED
  BY <1>1, <1>2, BaseAlways, PTL DEF SessionSpec

(* Whoever finds a session under a phone and believes its hash is told of  *)
(* that phone (session-manager.ts:625-659), however sessions are created,  *)
(* ended and expired meanwhile, also when handlers fail halfway and        *)
(* callers name sessions that are not ready: retargeting is the one        *)
(* request that must not run twice at a time.                              *)
THEOREM IndexIsAlwaysHonest ==
  ASSUME OneSwapper
  PROVE  SessionSpec => []IndexIsHonest
<1>1. SessionInit => HonestInv
  BY DEF SessionInit, NoReq, NoRow, HonestInv, HashTells, IndexTells, SwapTells, MakerIndexed,
     Makes, HasRow, MakePcs, CreatePcs, RollbackPcs
<1>2. BaseInv /\ SwapInv /\ HonestInv /\ [SessionNext]_vars => HonestInv'
  BY HashTellsStep, IndexTellsStep, SwapTellsStep, MakerIndexedStep DEF HonestInv
<1>3. BaseInv /\ HonestInv => IndexIsHonest
  <2> SUFFICES ASSUME BaseInv, HonestInv, NEW p \in Parties, NEW s \in phoneSessions[p],
                      s \in hashId, ~Swapping(s)
               PROVE  p \in hashParties[s]
    BY DEF IndexIsHonest
  <2>1. s \in Sessions /\ HasRow(s) /\ hashParties[s] = {rows[s].a, rows[s].b}
    BY DEF BaseInv, StoresOK, HonestInv, HashTells
  <2>2. ~Leaves(s, p)
    BY DEF Leaves, Swapping
  <2>3. QED
    BY <2>1, <2>2 DEF HonestInv, IndexTells
<1>4. QED
  BY <1>1, <1>2, <1>3, SwapAlways, PTL DEF SessionSpec

-----------------------------------------------------------------------------
(* Wiring.  From its answer until its deadline, an end, an expiry or a     *)
(* swap reaches it, an ACTIVE session is in every store it is looked up    *)
(* in.  Creation wires it piece by piece; between a swap's update of the   *)
(* row and its script it stays wired to the old target, and a swap that    *)
(* finds the hash gone is one of a session past its deadline.              *)
Wired(s, a, b) ==
    /\ s \in hashId /\ hashState[s] = "ACTIVE" /\ ttl[s] = "full"
    /\ hashParties[s] = {a, b}
    /\ s \in phoneSessions[a] /\ s \in phoneSessions[b]

MakerWired(c) ==
    /\ req[c].pc \in CreatePcs => /\ req[c].s \in proxySessions[req[c].n]
                                  /\ req[c].s \in phoneSessions[req[c].a]
                                  /\ req[c].s \in phoneSessions[req[c].b]
    /\ req[c].pc \in {"track", "reply"} => Wired(req[c].s, req[c].a, req[c].b)

SwapWired(c) ==
    /\ rows[req[c].s].state = "ACTIVE"
    /\ req[c].s \notin due
    => /\ req[c].pc \notin {"repairOld", "repairNew"}
       /\ req[c].pc = "script" => Wired(req[c].s, rows[req[c].s].a, req[c].old)

RowWired(s) ==
    rows[s].state = "ACTIVE" /\ ~Creating(s) =>
      /\ s \in proxySessions[rows[s].proxy]
      /\ s \in tenantActive[tenantOf(rows[s].a)]
      /\ ~Swapping(s) /\ s \notin due => Wired(s, rows[s].a, rows[s].b)

WiredInv ==
    /\ TrackInv
    /\ \A c \in Clients : MakerWired(c)
    /\ \A c \in Clients : req[c].pc \in SwapPcs => SwapWired(c)
    /\ \A s \in Sessions : RowWired(s)

(* Who takes a claim, an index entry or a hash away from a session.        *)
LEMMA ClaimDropped ==
  ASSUME BaseInv, [SessionNext]_vars, NEW n \in Numbers, NEW s \in proxySessions[n],
         s \notin proxySessions'[n]
  PROVE  \/ \E c \in Clients : RollbackRelease(c) /\ req[c].s = s
         \/ \E e \in Expirers : (ExpireRelease(e) \/ ExpireUnclaim(e)) /\ job[e].s = s
<1>0. proxySessions \in [Numbers -> SUBSET Sessions]
  BY DEF BaseInv, PoolTypeOK
<1>1. ASSUME NEW c \in Clients, NEW r \in Sessions, NEW p \in Pairs, NEW m \in Numbers,
             CreateAllocate(c, r, p, m)
      PROVE  FALSE
  BY <1>0, <1>1 DEF CreateAllocate, Allocate, AllocateAvailable, AllocateShared, Claim
<1>2. ASSUME NEW r, NEW m, proxySessions' = [proxySessions EXCEPT ![m] = @ \ {r}]
      PROVE  r = s
  BY <1>0, <1>2
<1>3. QED
  BY <1>1, <1>2, ClaimMove DEF RollbackRelease, ExpireRelease, ExpireUnclaim, Release, Unclaim

LEMMA ClaimKept ==
  ASSUME BaseInv, [SessionNext]_vars, NEW n \in Numbers, NEW s \in proxySessions[n],
         \A c \in Clients : RollbackRelease(c) => req[c].s # s,
         \A e \in Expirers : job[e].pc \in PastMark => job[e].s # s
  PROVE  s \in proxySessions'[n]
BY ClaimDropped DEF ExpireRelease, ExpireUnclaim, JobAt, PastMark, JobPcs

LEMMA IndexKept ==
  ASSUME BaseInv, [SessionNext]_vars, NEW p \in Parties, NEW s \in phoneSessions[p],
         \A c \in Clients : SwapScript(c) \/ SwapRepairOld(c) => req[c].s # s,
         \A e \in Expirers : job[e].pc \in PastMark => job[e].s # s
  PROVE  s \in phoneSessions'[p]
<1>0. phoneSessions \in [Parties -> SUBSET Sessions]
  BY DEF BaseInv, StoresOK
<1>1. ASSUME NEW c \in Clients, NEW r \in Sessions, NEW q \in Pairs, NEW m \in Numbers,
             CreateAllocate(c, r, q, m)
      PROVE  s \in phoneSessions'[p]
  BY <1>0, <1>1 DEF CreateAllocate
<1>2. ASSUME NEW c \in Clients, SwapScript(c)
      PROVE  s \in phoneSessions'[p]
  <2> DEFINE kept == [phoneSessions EXCEPT ![req[c].old] = @ \ {req[c].s}]
  <2>1. phoneSessions' = [kept EXCEPT ![req[c].new] = @ \cup {req[c].s}]
    BY <1>2 DEF SwapScript
  <2>2. kept \in [Parties -> SUBSET Sessions] /\ s \in kept[p]
    BY <1>0, <1>2
  <2>3. QED
    BY <2>1, <2>2
<1>3. ASSUME NEW c \in Clients, SwapRepairNew(c)
      PROVE  s \in phoneSessions'[p]
  BY <1>0, <1>3 DEF SwapRepairNew, Index
<1>4. ASSUME NEW c \in Clients, SwapRepairOld(c)
      PROVE  s \in phoneSessions'[p]
  BY <1>0, <1>4 DEF SwapRepairOld, Unindex
<1>5. ASSUME NEW e \in Expirers, ExpireUnindexA(e) \/ ExpireUnindexB(e)
      PROVE  s \in phoneSessions'[p]
  <2>1. job[e].s # s
    BY <1>5 DEF ExpireUnindexA, ExpireUnindexB, JobAt, PastMark, JobPcs
  <2>2. QED
    BY <1>0, <1>5, <2>1 DEF ExpireUnindexA, ExpireUnindexB, Unindex
<1>6. QED
  BY <1>1, <1>2, <1>3, <1>4, <1>5, IndexMove

LEMMA HashStays ==
  ASSUME BaseInv, [SessionNext]_vars, NEW s \in Sessions,
         s \in hashId, hashState[s] = "ACTIVE", ttl[s] = "full", s \notin due,
         \A c \in Clients : CreateCache(c) \/ EndRow(c) \/ EndCache(c) \/ SwapScript(c)
                              \/ ExtendRow(c) => req[c].s # s,
         \A e \in Expirers : job[e].pc \in PastMark => job[e].s # s
  PROVE  /\ s \in hashId' /\ hashState'[s] = "ACTIVE" /\ ttl'[s] = "full"
         /\ hashParties'[s] = hashParties[s]
<1>0. /\ hashId \subseteq Sessions
      /\ hashState \in [Sessions -> LiveStates \cup {"none", "bare"}]
      /\ ttl \in [Sessions -> {"none", "full", "short"}]
      /\ hashParties \in [Sessions -> SUBSET Parties]
  BY DEF BaseInv, StoresOK, PoolTypeOK
<1> DEFINE P == /\ s \in hashId' /\ hashState'[s] = "ACTIVE" /\ ttl'[s] = "full"
                /\ hashParties'[s] = hashParties[s]
<1>1. ASSUME NEW c \in Clients, CreateCache(c)
      PROVE  P
  <2>1. /\ req[c].s # s
        /\ hashId' = hashId \cup {req[c].s}
        /\ hashState' = [hashState EXCEPT ![req[c].s] = "ACTIVE"]
        /\ ttl' = [ttl EXCEPT ![req[c].s] = "full"] \/ ttl' = ttl
        /\ hashParties' = [hashParties EXCEPT ![req[c].s] = {req[c].a, req[c].b}]
    BY <1>1 DEF CreateCache, FirstTtl, HashChanges
  <2>2. QED
    BY <1>0, <2>1
<1>2. ASSUME NEW c \in Clients, EndRow(c)
      PROVE  P
  <2>1. /\ req[c].s # s
        /\ UNCHANGED <<hashState, hashId, hashParties>>
        /\ \/ UNCHANGED ttl
           \/ ttl' = [ttl EXCEPT ![req[c].s] = IF @ = "full" THEN "short" ELSE @]
    BY <1>2 DEF EndRow, NewDeadline, poolVars
  <2>2. QED
    BY <1>0, <2>1
<1>3. ASSUME NEW c \in Clients, EndCache(c)
      PROVE  P
  <2>1. /\ req[c].s # s
        /\ UNCHANGED <<hashId, hashParties>>
        /\ hashState' = [hashState EXCEPT ![req[c].s] = "GRACE_PERIOD"]
        /\ UNCHANGED ttl \/ ttl' = [ttl EXCEPT ![req[c].s] = "full"]
    BY <1>3 DEF EndCache, poolVars
  <2>2. QED
    BY <1>0, <2>1
<1>4. ASSUME NEW c \in Clients, SwapScript(c)
      PROVE  P
  <2>1. PICK Q : hashParties' = [hashParties EXCEPT ![req[c].s] = Q]
    BY <1>4 DEF SwapScript, HashChanges
  <2>2. req[c].s # s /\ UNCHANGED <<hashState, hashId, ttl>>
    BY <1>4 DEF SwapScript, cacheVars
  <2>3. QED
    BY <1>0, <2>1, <2>2
<1>5. ASSUME NEW c \in Clients, ExtendRow(c)
      PROVE  P
  <2>1. /\ req[c].s # s
        /\ UNCHANGED <<hashState, hashId, hashParties>>
        /\ ttl' = [ttl EXCEPT ![req[c].s] = IF @ = "full" THEN "short" ELSE @]
    BY <1>5 DEF ExtendRow, NewDeadline, poolVars
  <2>2. QED
    BY <1>0, <2>1
<1>6. ASSUME NEW r, DropHash(r), r # s
      PROVE  P
  BY <1>0, <1>6 DEF DropHash, HashChanges
<1>7. ASSUME NEW e \in Expirers, ExpireDelHash(e)
      PROVE  job[e].s # s /\ DropHash(job[e].s)
  BY <1>7 DEF ExpireDelHash, JobAt, PastMark, JobPcs
<1>8. ASSUME NEW r \in Sessions, HashEvicted(r)
      PROVE  r # s /\ DropHash(r)
  BY <1>8 DEF HashEvicted
<1>9. CASE UNCHANGED <<cacheVars, hashParties>>
  BY <1>9 DEF cacheVars
<1>10. QED
  BY <1>1, <1>2, <1>3, <1>4, <1>5, <1>6, <1>7, <1>8, <1>9, CacheMove

(* A deadline that has passed stays passed while the session is ACTIVE.    *)
LEMMA StaysDue ==
  ASSUME BaseInv, ActiveInv, [SessionNext]_vars, NEW s \in Sessions,
         rows'[s].state = "ACTIVE", s \notin due'
  PROVE  s \notin due
<1>0. StoresOK /\ ReqsOK
  BY DEF BaseInv
<1>1. ASSUME NEW c \in Clients, EndRow(c), s \in due
      PROVE  FALSE
  <2>1. req[c].s = s
    BY <1>1 DEF EndRow, NewDeadline
  <2>2. HasRow(s) /\ SetState(s, "GRACE_PERIOD")
    BY <1>0, <1>1, <2>1, NamedHasRow DEF EndRow, EndState, At
  <2>3. QED
    BY <1>0, <2>2, StateSet DEF States, LiveStates
<1>2. ASSUME NEW c \in Clients, ExtendRow(c), s \in due
      PROVE  FALSE
  <2>1. req[c].s = s /\ req[c].pc = "extend" /\ UNCHANGED rows
    BY <1>2 DEF ExtendRow, NewDeadline, At
  <2>2. QED
    BY <2>1 DEF ActiveInv
<1>3. QED
  BY <1>1, <1>2, DueMove DEF DeadlinePasses

(* What a request that creates a session has written stays, since nobody   *)
(* else names the session.                                                 *)
LEMMA MakerWiredStep ==
  ASSUME BaseInv, AloneInv, WiredInv, [SessionNext]_vars, NEW c \in Clients
  PROVE  MakerWired(c)'
<1>0. /\ StoresOK /\ ReqsOK /\ MakerWired(c)
      /\ proxySessions \in [Numbers -> SUBSET Sessions]
      /\ phoneSessions \in [Parties -> SUBSET Sessions]
      /\ hashState \in [Sessions -> LiveStates \cup {"none", "bare"}]
      /\ hashId \subseteq Sessions
      /\ ttl \in [Sessions -> {"none", "full", "short"}]
      /\ hashParties \in [Sessions -> SUBSET Parties]
  BY DEF BaseInv, StoresOK, PoolTypeOK, WiredInv
<1>i. ASSUME req'[c].pc \notin CreatePcs
      PROVE  MakerWired(c)'
  BY <1>i DEF MakerWired, CreatePcs
<1>m. ASSUME Makes(c)
      PROVE  /\ req[c] \in MakeReqs
             /\ req[c].s \in Sessions /\ req[c].a \in Parties /\ req[c].b \in Parties
             /\ req[c].n \in Numbers
  BY <1>0, <1>m, ReqClass DEF StoresOK, Makes, MakeReqs
<1>k. ASSUME Makes(c), NEW d \in Clients, req[d].s = req[c].s,
             \/ CreateCache(d) \/ CreateTrack(d) \/ RollbackRelease(d)
             \/ EndRow(d) \/ EndCache(d) \/ SwapScript(d) \/ SwapRepairOld(d) \/ ExtendRow(d)
      PROVE  d = c /\ ~EndRow(d) /\ ~EndCache(d) /\ ~SwapScript(d) /\ ~SwapRepairOld(d)
               /\ ~ExtendRow(d)
  <2>1. req[d].pc \notin AskPcs
    BY <1>k DEF AloneInv, Alone
  <2>2. ~EndRow(d) /\ ~EndCache(d) /\ ~SwapScript(d) /\ ~SwapRepairOld(d) /\ ~ExtendRow(d)
    BY <2>1 DEF EndRow, EndCache, SwapScript, SwapRepairOld, ExtendRow, At, AskPcs, SwapPcs
  <2>3. Makes(d)
    BY <1>k, <2>2 DEF CreateCache, CreateTrack, RollbackRelease, At, Makes, MakePcs, CreatePcs,
       RollbackPcs
  <2>4. QED
    BY <1>0, <1>k, <2>2, <2>3 DEF ReqsOK
<1>w. ASSUME Makes(c)
      PROVE  /\ req[c].s \notin due
             /\ \A e \in Expirers : job[e].pc \in PastMark => job[e].s # req[c].s
  BY <1>w DEF AloneInv, Alone, Works, PastMark, JobPcs
<1>c. ASSUME req[c].pc \in CreatePcs, ~RollbackRelease(c)
      PROVE  /\ req[c].s \in proxySessions'[req[c].n]
             /\ req[c].s \in phoneSessions'[req[c].a]
             /\ req[c].s \in phoneSessions'[req[c].b]
  <2>1. Makes(c)
    BY <1>c DEF Makes, MakePcs
  <2>2. /\ req[c].s \in proxySessions[req[c].n]
        /\ req[c].s \in phoneSessions[req[c].a]
        /\ req[c].s \in phoneSessions[req[c].b]
    BY <1>0, <1>c DEF MakerWired
  <2>3. req[c].s \in proxySessions'[req[c].n]
    BY <1>c, <1>k, <1>m, <1>w, <2>1, <2>2, ClaimKept
  <2>4. req[c].s \in phoneSessions'[req[c].a] /\ req[c].s \in phoneSessions'[req[c].b]
    BY <1>k, <1>m, <1>w, <2>1, <2>2, IndexKept
  <2>5. QED
    BY <2>3, <2>4
<1>1. CASE req'[c] = req[c]
  <2>1. CASE req[c].pc \in CreatePcs
    <3>1. ~RollbackRelease(c) /\ ~CreateCache(c) /\ Makes(c)
      BY <1>1, <2>1, StepsMove DEF Makes, MakePcs
    <3>2. ASSUME req[c].pc \in {"track", "reply"}
          PROVE  Wired(req[c].s, req[c].a, req[c].b)'
      <4> DEFINE s == req[c].s
                 a == req[c].a
                 b == req[c].b
      <4>1. Wired(s, a, b)
        BY <1>0, <3>2 DEF MakerWired
      <4>2. /\ s \in hashId' /\ hashState'[s] = "ACTIVE" /\ ttl'[s] = "full"
            /\ hashParties'[s] = hashParties[s]
        BY <1>k, <1>m, <1>w, <3>1, <4>1, HashStays DEF Wired
      <4>3. s \in phoneSessions'[a] /\ s \in phoneSessions'[b]
        BY <1>c, <2>1, <3>1
      <4>4. QED
        BY <1>1, <4>1, <4>2, <4>3 DEF Wired
    <3>3. QED
      BY <1>1, <1>c, <2>1, <3>1, <3>2 DEF MakerWired
  <2>2. QED
    BY <1>1, <1>i, <2>1
<1>2. CASE MakerMoves(c)
  <2>1. /\ Makes(c)
        /\ req'[c].s = req[c].s /\ req'[c].a = req[c].a
        /\ req'[c].b = req[c].b /\ req'[c].n = req[c].n
    BY <1>0, <1>2, MakerKept
  <2>2. CASE CreateInsert(c) \/ CreateActivate(c)
    <3>1. /\ req[c].pc \in CreatePcs /\ req'[c].pc \in {"activate", "cache"}
          /\ ~RollbackRelease(c)
      BY <1>0, <2>1, <2>2, MakerGoes DEF CreateInsert, CreateActivate, RollbackRelease, At, MakePcs,
         CreatePcs
    <3>2. QED
      BY <1>c, <2>1, <3>1 DEF MakerWired
  <2>3. ASSUME CreateCache(c), ttl' = FirstTtl(req[c].s), Goto(c, "track")
        PROVE  MakerWired(c)'
    <3>1. req[c].pc = "cache" /\ req'[c].pc = "track"
      BY <1>0, <2>1, <2>3, MakerGoes DEF CreateCache, At, MakePcs, CreatePcs
    <3>2. /\ req[c].s \in proxySessions'[req[c].n]
          /\ req[c].s \in phoneSessions'[req[c].a]
          /\ req[c].s \in phoneSessions'[req[c].b]
      BY <1>c, <3>1 DEF CreatePcs, RollbackRelease, At
    <3>3. /\ hashId' = hashId \cup {req[c].s}
          /\ hashState' = [hashState EXCEPT ![req[c].s] = "ACTIVE"]
          /\ ttl' = [ttl EXCEPT ![req[c].s] = "full"]
          /\ hashParties' = [hashParties EXCEPT ![req[c].s] = {req[c].a, req[c].b}]
      BY <2>3 DEF CreateCache, FirstTtl, HashChanges
    <3>4. /\ req[c].s \in hashId' /\ hashState'[req[c].s] = "ACTIVE"
          /\ ttl'[req[c].s] = "full" /\ hashParties'[req[c].s] = {req[c].a, req[c].b}
      BY <1>0, <1>m, <2>1, <3>3
    <3>5. QED
      BY <2>1, <3>1, <3>2, <3>4 DEF MakerWired, Wired
  <2>4. CASE CreateTrack(c)
    <3>1. req[c].pc = "track" /\ req'[c].pc = "reply"
      BY <1>0, <2>1, <2>4, MakerGoes DEF CreateTrack, At, MakePcs, CreatePcs
    <3>2. UNCHANGED <<proxySessions, phoneSessions, hashId, hashState, ttl, hashParties>>
      BY <2>4 DEF CreateTrack, poolVars, redisPool, cacheVars
    <3>3. QED
      BY <1>0, <2>1, <3>1, <3>2 DEF MakerWired, Wired, CreatePcs
  <2>5. CASE \/ CreateFails(c) \/ RollbackRelease(c)
             \/ (RollbackFails(c) /\ At(c, "rollback"))
             \/ (CreateCache(c) /\ Goto(c, "rollback"))
    <3>1. Goto(c, "rollback") \/ Goto(c, "failRow")
      BY <2>5 DEF CreateFails, RollbackRelease, RollbackFails, At
    <3>2. req'[c].pc \in {"rollback", "failRow"}
      BY <1>0, <2>1, <3>1, MakerGoes DEF MakePcs, RollbackPcs
    <3>3. QED
      BY <1>i, <3>2 DEF CreatePcs
  <2>6. QED
    BY <1>2, <2>2, <2>3, <2>4, <2>5 DEF MakerMoves, CreateCache
<1>3. ASSUME NEW s \in Sessions, NEW p \in Pairs, NEW n \in Numbers, CreateAllocate(c, s, p, n)
      PROVE  MakerWired(c)'
  <2> SUFFICES ASSUME req'[c].pc # "idle"
               PROVE  MakerWired(c)'
    BY DEF MakerWired, CreatePcs
  <2>1. /\ req'[c].pc = "insert" /\ req'[c].s = s /\ req'[c].n = n
        /\ req'[c].a = p[1] /\ req'[c].b = p[2] /\ p[1] \in Parties /\ p[2] \in Parties
    BY <1>0, <1>3, AllocateSets, AllocateGoes
  <2>2. s \in proxySessions'[n]
    BY <1>0, <1>3 DEF CreateAllocate, Allocate, AllocateAvailable, AllocateShared, Claim
  <2>3. s \in phoneSessions'[p[1]] /\ s \in phoneSessions'[p[2]]
    BY <1>3, <2>1 DEF CreateAllocate
  <2>4. QED
    BY <2>1, <2>2, <2>3 DEF MakerWired
<1>4. QED
  BY <1>i, <1>1, <1>2, <1>3, MakerCame DEF MakePcs

LEMMA SwapWiredStep ==
  ASSUME OneSwapper, BaseInv, ActiveInv, SwapInv, WiredInv, [SessionNext]_vars,
         NEW c \in Clients, req'[c].pc \in SwapPcs
  PROVE  SwapWired(c)'
<1>0. /\ StoresOK /\ ReqsOK
      /\ req[c].pc \in SwapPcs => SwapWired(c)
  BY DEF BaseInv, WiredInv
<1> SUFFICES ASSUME rows'[req'[c].s].state = "ACTIVE", req'[c].s \notin due',
                    req'[c].pc \in {"script", "repairOld", "repairNew"}
             PROVE  /\ req'[c].pc = "script"
                    /\ Wired(req[c].s, rows[req[c].s].a, req[c].old)'
  BY DEF SwapWired
<1>1. /\ req[c] \in SwapReqs /\ req[c].pc \in SwapPcs
      /\ req'[c].s = req[c].s /\ req'[c].old = req[c].old
      /\ req'[c] = req[c] \/ SwapMoves(c)
  <2>1. CASE req'[c] = req[c]
    BY <1>0, <2>1, ReqClass DEF StoresOK, SwapPcs
  <2>2. CASE SwapMoves(c)
    BY <1>0, <2>2, SwapKept DEF SwapReqs
  <2>3. ASSUME NEW s \in Sessions,
               EndRead(c, s) \/ ExtendRead(c, s) \/ \E b \in Parties : SwapRead(c, s, b)
        PROVE  FALSE
    BY <2>3, ReadSets
  <2>4. CASE SwapSiblings(c)
    BY <2>4, SiblingsSet
  <2>5. CASE EndRow(c)
    BY <1>0, <2>5, EndGoes
  <2>6. QED
    BY <2>1, <2>2, <2>3, <2>4, <2>5, AskerCame DEF AskPcs
<1> DEFINE s == req[c].s
<1>2. /\ s \in Sessions /\ HasRow(s) /\ rows[s].a \in Parties /\ req[c].old \in Parties
      /\ rows'[s].a = rows[s].a
  <2>1. s \in Sessions /\ HasRow(s) /\ req[c].old \in Parties
    BY <1>0, <1>1, NamedHasRow DEF SwapReqs
  <2>2. QED
    BY <1>0, <2>1, RowOf, RowsStep DEF RowKept
<1>3. \A d \in Clients : d = c
  BY <1>1, NoOtherSwap
<1>4. rows[s].state = "ACTIVE" /\ s \notin due
  <2>1. ~CreateActivate(c)
    BY <1>1 DEF CreateActivate, At, SwapPcs
  <2>2. QED
    BY <1>1, <1>2, <1>3, <2>1, OnlyActivated, StaysDue
<1>5. CASE req'[c] = req[c]
  <2>1. req[c].pc = "script" /\ Wired(s, rows[s].a, req[c].old)
    BY <1>0, <1>1, <1>4, <1>5 DEF SwapWired
  <2>2. ~EndRow(c) /\ ~EndCache(c) /\ ~SwapScript(c) /\ ~SwapRepairOld(c) /\ ~ExtendRow(c)
          /\ ~CreateCache(c)
    BY <1>5, StepsMove
  <2>3. \A e \in Expirers : job[e].pc \in PastMark => job[e].s # s
    BY <1>4 DEF ActiveInv
  <2> DEFINE a == rows[s].a
             b == req[c].old
  <2>4. /\ s \in hashId' /\ hashState'[s] = "ACTIVE" /\ ttl'[s] = "full"
        /\ hashParties'[s] = hashParties[s]
    BY <1>2, <1>3, <1>4, <2>1, <2>2, <2>3, HashStays DEF Wired
  <2>5. s \in phoneSessions'[a] /\ s \in phoneSessions'[b]
    BY <1>2, <1>3, <2>1, <2>2, <2>3, IndexKept DEF Wired
  <2>6. QED
    BY <1>2, <1>5, <2>1, <2>4, <2>5 DEF Wired
<1>6. CASE SwapRow(c)
  <2>1. /\ req[c].pc = "probe" /\ req'[c].pc = "script"
        /\ UNCHANGED <<hashId, hashState, ttl, hashParties, phoneSessions>>
    BY <1>0, <1>6, SwapGoes DEF SwapRow, At, SwapPcs, poolVars, cacheVars, indexVars
  <2>2. ~Creating(s) /\ ~Swapping(s)
    BY <1>3, <2>1 DEF Creating, Swapping, CreatePcs, RollbackPcs
  <2>3. rows[s].b = req[c].old
    BY <1>1, <2>1 DEF SwapInv, SwapKnows
  <2>4. Wired(s, rows[s].a, req[c].old)
    BY <1>2, <1>4, <2>2, <2>3 DEF WiredInv, RowWired
  <2>5. QED
    BY <1>1, <1>2, <2>1, <2>4 DEF Wired
<1>7. ASSUME SwapMissing(c) \/ SwapRepairOld(c)
      PROVE  FALSE
  BY <1>0, <1>1, <1>4, <1>7 DEF SwapMissing, SwapRepairOld, At, SwapWired, Wired
<1>8. ASSUME NEW t \in Sessions, SwapProbe(c, t), ~Conflicts(t, req[c].new)
      PROVE  FALSE
  <2>1. req[c].pc = "probe" /\ req' = [req EXCEPT ![c].todo = @ \ {t}]
    BY <1>8 DEF SwapProbe, At
  <2>2. req'[c].pc = "probe"
    BY <1>0, <1>1, <2>1 DEF StoresOK, SwapReqs
  <2>3. QED
    BY <2>2
<1>9. QED
  BY <1>1, <1>5, <1>6, <1>7, <1>8 DEF SwapMoves

LEMMA RowWiredStep ==
  ASSUME OneSwapper, "rollback" \notin StoreFails, BaseInv, AloneInv, ActiveInv, SwapInv, WiredInv,
         [SessionNext]_vars, NEW s \in Sessions
  PROVE  RowWired(s)'
<1>0. /\ StoresOK /\ ReqsOK
      /\ tenantActive \in [Tenants -> SUBSET Sessions] /\ Parties = Tenants \X Phones
      /\ phoneSessions \in [Parties -> SUBSET Sessions]
      /\ hashParties \in [Sessions -> SUBSET Parties]
  BY SessionAssumption DEF BaseInv, StoresOK, PoolTypeOK
<1> SUFFICES ASSUME rows'[s].state = "ACTIVE", ~Creating(s)'
             PROVE  /\ s \in proxySessions'[rows'[s].proxy]
                    /\ s \in tenantActive'[tenantOf(rows'[s].a)]
                    /\ ~Swapping(s)' /\ s \notin due' => Wired(s, rows[s].a, rows[s].b)'
  BY DEF RowWired
<1>1. rows[s].state = "ACTIVE"
  <2>1. ASSUME NEW c \in Clients, CreateActivate(c), req[c].s = s
        PROVE  FALSE
    <3>1. req'[c].pc \in MakePcs /\ req'[c].s = s
      BY <1>0, <2>1, MakerKept DEF MakerMoves, MakeReqs
    <3>2. QED
      BY <3>1 DEF Creating, MakePcs
  <2>2. QED
    BY <2>1, OnlyActivated
<1>2. /\ HasRow(s) /\ rows'[s].a = rows[s].a /\ rows'[s].proxy = rows[s].proxy
      /\ rows[s].a \in Parties /\ rows[s].b \in Parties /\ rows[s].proxy \in Numbers
      /\ tenantOf(rows[s].a) \in Tenants
  BY <1>0, <1>1, RowOf, RowsStep DEF RowKept, tenantOf
<1>e. \A e \in Expirers : job[e].pc \in PastMark => job[e].s # s
  BY <1>1 DEF ActiveInv
<1>3. ASSUME NEW c \in Clients, Makes(c), req[c].s = s
      PROVE  /\ s \in proxySessions'[rows'[s].proxy]
             /\ s \in tenantActive'[tenantOf(rows'[s].a)]
             /\ Wired(s, rows[s].a, rows[s].b)'
  <2>1. req'[c] # req[c] /\ ~MakerMoves(c)
    <3>1. CASE req'[c] = req[c]
      BY <1>3, <3>1 DEF Creating, Makes, MakePcs
    <3>2. CASE MakerMoves(c)
      BY <1>0, <1>3, <3>2, MakerKept DEF Creating, MakeReqs, MakePcs
    <3>3. QED
      BY <3>1, <3>2
  <2>2. ~RollbackRow(c)
    <3>1. ASSUME RollbackRow(c)
          PROVE  FALSE
      <4>1. SetState(s, "FAILED")
        BY <1>2, <1>3, <3>1 DEF RollbackRow
      <4>2. QED
        BY <1>0, <1>2, <4>1, StateSet DEF States
    <3>2. QED
      BY <3>1
  <2>3. CreateReply(c)
    BY <1>3, <2>1, <2>2, MakerNext
  <2>4. /\ req[c].pc = "reply"
        /\ UNCHANGED <<rows, proxySessions, tenantActive, hashId, hashState, ttl, hashParties,
                       phoneSessions>>
    BY <2>3 DEF CreateReply, At, poolVars, redisPool, cacheVars, indexVars
  <2>5. rows[s].a = req[c].a /\ rows[s].proxy = req[c].n /\ rows[s].b = req[c].b
    BY <1>0, <1>2, <1>3 DEF ReqsOK, ReqOK, Makes, SwapInv, SwapKnows
  <2>6. MakerWired(c) /\ s \in tenantActive[tenantOf(req[c].a)]
    BY <1>3, <2>4 DEF WiredInv, TrackInv
  <2>7. s \in proxySessions[req[c].n] /\ Wired(s, req[c].a, req[c].b)
    BY <1>3, <2>4, <2>6 DEF MakerWired, CreatePcs
  <2>8. QED
    BY <2>4, <2>5, <2>6, <2>7 DEF Wired
<1>4. ASSUME ~Creating(s)
      PROVE  /\ s \in proxySessions'[rows'[s].proxy]
             /\ s \in tenantActive'[tenantOf(rows'[s].a)]
  <2>1. s \in proxySessions[rows[s].proxy] /\ s \in tenantActive[tenantOf(rows[s].a)]
    BY <1>1, <1>4 DEF WiredInv, RowWired
  <2>2. ASSUME NEW c \in Clients, RollbackRelease(c)
        PROVE  req[c].s # s
    BY <1>4, <2>2 DEF RollbackRelease, At, Creating, RollbackPcs
  <2>3. s \in proxySessions'[rows[s].proxy]
    BY <1>2, <1>e, <2>1, <2>2, ClaimKept
  <2>4. s \in tenantActive'[tenantOf(rows[s].a)]
    BY <1>2, <1>e, <2>1, Untracked DEF PastMark, JobPcs
  <2>5. QED
    BY <1>2, <2>3, <2>4
<1>5. ASSUME ~Creating(s), ~Swapping(s)', s \notin due'
      PROVE  Wired(s, rows[s].a, rows[s].b)'
  <2>1. s \notin due
    BY <1>5, StaysDue
  <2>2. ASSUME NEW c \in Clients, EndRow(c)
        PROVE  req[c].s # s
    <3>1. SetState(req[c].s, "GRACE_PERIOD")
      BY <2>2 DEF EndRow, EndState
    <3>2. QED
      BY <1>0, <1>2, <3>1, StateSet DEF States, LiveStates
  <2>3. ASSUME NEW c \in Clients, CreateCache(c) \/ EndCache(c) \/ ExtendRow(c)
        PROVE  req[c].s # s
    BY <1>1, <1>5, <2>3 DEF CreateCache, EndCache, ExtendRow, At, Creating, CreatePcs, ActiveInv
  <2>4. CASE ~Swapping(s)
    <3>1. ASSUME NEW c \in Clients, SwapScript(c) \/ SwapRepairOld(c)
          PROVE  req[c].s # s
      BY <2>4, <3>1 DEF SwapScript, SwapRepairOld, At, Swapping
    <3>2. Wired(s, rows[s].a, rows[s].b)
      BY <1>1, <1>5, <2>1, <2>4 DEF WiredInv, RowWired
    <3>3. ASSUME NEW c \in Clients, SwapRow(c)
          PROVE  req[c].s # s
      <4>1. req'[c].pc = "script" /\ req'[c].s = req[c].s
        BY <1>0, <3>3, SwapGoes DEF SwapRow, At, SwapPcs
      <4>2. QED
        BY <1>5, <4>1 DEF Swapping
    <3>4. rows'[s].b = rows[s].b
      BY <1>2, <3>3, OnlyRetargeted
    <3>5. /\ s \in hashId' /\ hashState'[s] = "ACTIVE" /\ ttl'[s] = "full"
          /\ hashParties'[s] = hashParties[s]
      BY <1>e, <2>1, <2>2, <2>3, <3>1, <3>2, HashStays DEF Wired
    <3>6. s \in phoneSessions'[rows[s].a] /\ s \in phoneSessions'[rows[s].b]
      BY <1>2, <1>e, <3>1, <3>2, IndexKept DEF Wired
    <3>7. QED
      BY <1>2, <3>2, <3>4, <3>5, <3>6 DEF Wired
  <2>5. CASE Swapping(s)
    <3>1. PICK c \in Clients : /\ req[c].pc \in {"script", "repairOld", "repairNew"}
                               /\ req[c].s = s
      BY <2>5 DEF Swapping
    <3>2. req[c].pc = "script" /\ Wired(s, rows[s].a, req[c].old)
      BY <1>1, <2>1, <3>1 DEF WiredInv, SwapWired, SwapPcs
    <3>3. SwapScript(c)
      <4>1. req'[c] # req[c]
        BY <1>5, <3>1 DEF Swapping
      <4>2. ~SwapMissing(c)
        BY <3>1, <3>2 DEF SwapMissing, Wired
      <4>3. QED
        BY <3>1, <3>2, <4>1, <4>2, SwapNext DEF SwapRepairOld, SwapRepairNew, At
    <3>4. /\ req[c].old # rows[s].a /\ req[c].old # req[c].new /\ rows[s].b = req[c].new
          /\ req[c].old \in Parties
      <4>1. req[c].old \in Parties
        BY <1>0, <3>2, ReqClass DEF StoresOK, SwapPcs, SwapReqs
      <4>2. QED
        BY <3>1, <3>2, <4>1 DEF SwapInv, SwapKnows, SwapPcs
    <3>5. /\ UNCHANGED <<rows, hashId, hashState, ttl>>
          /\ phoneSessions' = [phoneSessions EXCEPT ![req[c].old] = @ \ {s},
                                                    ![req[c].new] = @ \cup {s}]
          /\ s \in hashId => hashParties' = [hashParties EXCEPT ![s] = {req[c].new} \cup {rows[s].a}]
      BY <3>1, <3>3 DEF SwapScript, HashChanges, cacheVars
    <3>6. s \in phoneSessions'[rows[s].a] /\ s \in phoneSessions'[rows[s].b]
      BY <1>0, <1>2, <3>2, <3>4, <3>5 DEF Wired
    <3>7. hashParties'[s] = {rows[s].a, rows[s].b}
      BY <1>0, <3>2, <3>4, <3>5 DEF Wired
    <3>8. QED
      BY <3>2, <3>5, <3>6, <3>7 DEF Wired
  <2>6. QED
    BY <2>4, <2>5
<1>6. QED
  BY <1>3, <1>4, <1>5 DEF Creating, Makes, MakePcs

LEMMA WiredStarts == SessionInit => WiredInv
BY DEF SessionInit, NoReq, NoRow, WiredInv, TrackInv, MakerWired, SwapWired, RowWired, CreatePcs,
   SwapPcs

LEMMA WiredStep ==
  ASSUME OneSwapper, "rollback" \notin StoreFails, BaseInv, AloneInv, ActiveInv, SwapInv, WiredInv,
         [SessionNext]_vars
  PROVE  WiredInv'
BY TrackStep, MakerWiredStep, SwapWiredStep, RowWiredStep DEF WiredInv

(* A session that is ACTIVE, before its deadline and outside the window of *)
(* a swap can be found in Redis everywhere it is looked up                 *)
(* (session-manager.ts:324-349), whatever ends, extensions, expiries and   *)
(* evictions did meanwhile and also when createSession or an expiry fails  *)
(* halfway, if callers name only sessions whose creation was answered and  *)
(* retarget one at a time, and a rollback is carried out.                  *)
THEOREM ActiveIsAlwaysRoutable ==
  ASSUME OneSwapper, ~ListedIds, "rollback" \notin StoreFails
  PROVE  SessionSpec => []ActiveIsRoutable
<1>1. SessionInit => WiredInv
  BY WiredStarts
<1>2. BaseInv /\ AloneInv /\ ActiveInv /\ SwapInv /\ WiredInv /\ [SessionNext]_vars => WiredInv'
  BY WiredStep
<1>3. WiredInv => ActiveIsRoutable
  BY DEF WiredInv, RowWired, Wired, ActiveIsRoutable, Routable, LiveStates
<1>4. QED
  BY <1>1, <1>2, <1>3, ActiveAlways, SwapAlways, PTL DEF SessionSpec

=============================================================================
