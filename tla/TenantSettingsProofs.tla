------------------------- MODULE TenantSettingsProofs -------------------------
(***************************************************************************)
(* Proofs about TenantSettings, for any sets of processes and requests.    *)
(***************************************************************************)
EXTENDS TenantSettings, TLAPS

(* What a request of each kind holds between two of its steps.             *)
KeepTasks    == [pc : {"keep"}, p : Procs, mode : Modes,
                 use : Defaults, floor : Nat]
UseTasks     == [pc : {"use"}, p : Procs, mode : Modes,
                 use : Defaults \cup {Environment}, floor : Nat]
Outcomes     == [recording : {"on", "off"}, consent : Consents]
WriteTasks   == [pc : {"write"}, p : Procs, edit : Edits, checked : Outcomes]
DropTasks    == [pc : {"drop"}, p : Procs]
IssueTasks   == [pc : {"issue"}, mode : Modes]
LiveTasks    == [pc : {"url", "count", "activate"}, p : Procs]
SessionTasks == KeepTasks \cup UseTasks
EditTasks    == WriteTasks \cup DropTasks
OwnerTasks   == IssueTasks \cup LiveTasks
Tasks        == {Idle} \cup SessionTasks \cup EditTasks \cup OwnerTasks

RowType == [mode : Modes, hooked : BOOLEAN, recording : {"on", "off"},
            consent : Consents, defaults : Nat]

TaskInv ==
    /\ task \in [Requests -> Tasks]
    /\ \A q \in Sessioners : task[q] \in {Idle} \cup SessionTasks
    /\ \A q \in Editors : task[q] \in {Idle} \cup EditTasks
    /\ \A q \in Owners : task[q] \in {Idle} \cup OwnerTasks

StoreInv ==
    /\ tenant \in RowType
    /\ keys \subseteq Modes /\ tokens \subseteq Modes /\ opened \subseteq Modes
    /\ memo \in [Procs -> Defaults \cup {NoMemo}]
    /\ answered \in [Procs -> Nat]
    /\ outdated \in BOOLEAN

TypeInv == TaskInv /\ StoreInv

(* The mode that is asserted anywhere has been earned, also by the         *)
(* requests that are still under way.                                      *)
Earned(mode) == mode = "live" => tenant.mode = "live"

Sound(t) ==
    /\ t.pc \in {"keep", "use", "issue"} => Earned(t.mode)
    /\ t.pc = "activate" => "sandbox" \in opened

LiveInv ==
    /\ tenant.mode = "live" => "sandbox" \in opened
    /\ \A mode \in keys \cup tokens \cup opened : Earned(mode)
    /\ \A q \in Requests : Sound(task[q])

(* Whatever may answer a request that starts now is as new as the last     *)
(* edit that was answered, or was crossed by it.                           *)
Fresh(use, floor) == use.crossed \/ use.version >= floor

Recent(t) ==
    /\ t.pc = "keep" => /\ Fresh(t.use, answered[t.p])
                        /\ Fresh(t.use, t.floor)
    /\ t.pc = "use" /\ t.use # Environment => Fresh(t.use, t.floor)

MemoInv ==
    /\ \A p \in Procs :
         /\ answered[p] <= tenant.defaults
         /\ memo[p] # NoMemo => Fresh(memo[p], answered[p])
    /\ \A q \in Requests : Recent(task[q])

(* Every edit that is to be written was found lawful when it was checked.  *)
CheckedOK(q) == At(q, "write") => ~Unlawful(task[q].checked)

ConsentInv ==
    /\ ConsentKept
    /\ \A q \in Editors : CheckedOK(q)

-----------------------------------------------------------------------------
(* What is written into one task is of the kind of its request.            *)
LEMMA OneTask ==
  ASSUME TaskInv, NEW q \in Requests, NEW t \in Tasks,
         task' = [task EXCEPT ![q] = t],
         q \in Sessioners => t \in {Idle} \cup SessionTasks,
         q \in Editors => t \in {Idle} \cup EditTasks,
         q \in Owners => t \in {Idle} \cup OwnerTasks
  PROVE  TaskInv'
BY DEF TaskInv, Requests

LEMMA SessionTask ==
  ASSUME TaskInv, NEW q \in Sessioners, NEW t \in {Idle} \cup SessionTasks,
         task' = [task EXCEPT ![q] = t]
  PROVE  TaskInv'
<1>1. q \in Requests /\ q \notin Editors /\ q \notin Owners /\ t \in Tasks
  BY SettingsAssumption DEF Requests, Tasks
<1>2. QED
  BY <1>1, OneTask

LEMMA EditTask ==
  ASSUME TaskInv, NEW q \in Editors, NEW t \in {Idle} \cup EditTasks,
         task' = [task EXCEPT ![q] = t]
  PROVE  TaskInv'
<1>1. q \in Requests /\ q \notin Sessioners /\ q \notin Owners /\ t \in Tasks
  BY SettingsAssumption DEF Requests, Tasks
<1>2. QED
  BY <1>1, OneTask

LEMMA OwnerTask ==
  ASSUME TaskInv, NEW q \in Owners, NEW t \in {Idle} \cup OwnerTasks,
         task' = [task EXCEPT ![q] = t]
  PROVE  TaskInv'
<1>1. q \in Requests /\ q \notin Sessioners /\ q \notin Editors /\ t \in Tasks
  BY SettingsAssumption DEF Requests, Tasks
<1>2. QED
  BY <1>1, OneTask

(* What an edit would leave is what a row may hold.                        *)
LEMMA LeftTyped ==
  ASSUME StoreInv, NEW edit \in Edits
  PROVE  Left(edit) \in Outcomes
BY DEF StoreInv, RowType, Left, Effective, Edits, Outcomes

(* What is known of a request that is at a step.                           *)
LEMMA Held ==
  ASSUME TaskInv
  PROVE  /\ \A q \in Sessioners : At(q, "keep") => task[q] \in KeepTasks
         /\ \A q \in Sessioners : At(q, "use") => task[q] \in UseTasks
         /\ \A q \in Editors : At(q, "write") => task[q] \in WriteTasks
         /\ \A q \in Editors : At(q, "drop") => task[q] \in DropTasks
         /\ \A q \in Owners : At(q, "issue") => task[q] \in IssueTasks
         /\ \A q \in Owners :
              At(q, "url") \/ At(q, "count") \/ At(q, "activate")
                => task[q] \in LiveTasks
BY DEF TaskInv, At, Idle, SessionTasks, EditTasks, OwnerTasks, KeepTasks,
       UseTasks, WriteTasks, DropTasks, IssueTasks, LiveTasks

(* The tasks keep their types under every step, ...                        *)
LEMMA TaskStep ==
  ASSUME TypeInv, [SettingsNext]_settingsVars
  PROVE  TaskInv'
<1>0. /\ TaskInv /\ StoreInv
      /\ Idle \in {Idle} \cup SessionTasks
      /\ Idle \in {Idle} \cup EditTasks
      /\ Idle \in {Idle} \cup OwnerTasks
  BY DEF TypeInv
<1>1. ASSUME NEW q \in Sessioners, SessionStep(q)
      PROVE  TaskInv'
  <2>1. ASSUME NEW p \in Procs, NEW mode \in Modes, MemoHit(q, p, mode)
        PROVE  TaskInv'
    <3>1. [pc |-> "use", p |-> p, mode |-> mode, use |-> memo[p],
           floor |-> answered[p]] \in SessionTasks
      BY <1>0, <2>1 DEF MemoHit, SessionTasks, UseTasks, StoreInv
    <3>2. QED
      BY <1>0, <2>1, <3>1, SessionTask DEF MemoHit, Begin
  <2>2. ASSUME NEW p \in Procs, NEW mode \in Modes, LoadRow(q, p, mode)
        PROVE  TaskInv'
    <3>1. [pc |-> "keep", p |-> p, mode |-> mode,
           use |-> [from |-> "row", version |-> tenant.defaults,
                    crossed |-> FALSE],
           floor |-> answered[p]] \in SessionTasks
      BY <1>0 DEF SessionTasks, KeepTasks, StoreInv, RowType, Defaults
    <3>2. [pc |-> "use", p |-> p, mode |-> mode, use |-> Environment,
           floor |-> answered[p]] \in SessionTasks
      BY <1>0 DEF SessionTasks, UseTasks, StoreInv
    <3>3. QED
      BY <1>0, <2>2, <3>1, <3>2, SessionTask DEF LoadRow, Begin
  <2>3. CASE Keep(q)
    <3>1. task[q] \in KeepTasks
      BY <1>0, <2>3, Held DEF Keep
    <3>2. [task[q] EXCEPT !.pc = "use"] \in SessionTasks
      BY <3>1 DEF SessionTasks, KeepTasks, UseTasks
    <3>3. QED
      BY <1>0, <2>3, <3>2, SessionTask DEF Keep, Goto
  <2>4. CASE Use(q)
    BY <1>0, <2>4, SessionTask DEF Use, Finish
  <2>5. QED
    BY <1>1, <2>1, <2>2, <2>3, <2>4 DEF SessionStep
<1>2. ASSUME NEW q \in Editors, EditStep(q)
      PROVE  TaskInv'
  <2>1. ASSUME NEW p \in Procs, NEW edit \in Bodies, EditRead(q, p, edit)
        PROVE  TaskInv'
    <3>1. [pc |-> "write", p |-> p, edit |-> edit, checked |-> Left(edit)] \in EditTasks
      BY <1>0, LeftTyped, SettingsAssumption DEF EditTasks, WriteTasks
    <3>2. QED
      BY <1>0, <2>1, <3>1, EditTask DEF EditRead, Begin
  <2>2. CASE EditWrite(q)
    <3>1. task[q] \in WriteTasks
      BY <1>0, <2>2, Held DEF EditWrite
    <3>2. [pc |-> "drop", p |-> task[q].p] \in EditTasks
      BY <3>1 DEF EditTasks, WriteTasks, DropTasks
    <3>3. QED
      BY <1>0, <2>2, <3>2, EditTask DEF EditWrite
  <2>3. CASE EditDone(q)
    <3> DEFINE p == task[q].p
    <3>1. ASSUME NEW r \in Requests
          PROVE  /\ Crossed(p)[r] = task[r] \/ At(r, "keep")
                 /\ At(r, "keep") => Crossed(p)[r] \in {task[r],
                                      [task[r] EXCEPT !.use.crossed = TRUE]}
      BY DEF Crossed
    <3>2. ASSUME NEW r \in Requests, At(r, "keep")
          PROVE  /\ r \in Sessioners
                 /\ task[r] \in KeepTasks
                 /\ [task[r] EXCEPT !.use.crossed = TRUE] \in SessionTasks
      <4>1. r \in Sessioners
        BY <1>0, <3>2 DEF TaskInv, Requests, At, Idle, EditTasks, OwnerTasks,
                          WriteTasks, DropTasks, IssueTasks, LiveTasks
      <4>2. task[r] \in KeepTasks
        BY <1>0, <3>2, <4>1, Held
      <4>3. [task[r] EXCEPT !.use.crossed = TRUE] \in SessionTasks
        BY <4>2 DEF SessionTasks, KeepTasks, Defaults
      <4>4. QED
        BY <4>1, <4>2, <4>3
    <3>3. ASSUME NEW r \in Requests
          PROVE  task'[r] \in {Idle, task[r]} \/
                   (r \in Sessioners /\ task'[r] \in SessionTasks)
      BY <2>3, <3>1, <3>2 DEF EditDone, Crossed, SessionTasks
    <3>4. task' = [r \in Requests |-> task'[r]]
      BY <2>3 DEF EditDone, Crossed
    <3>5. ASSUME NEW r \in Requests
          PROVE  /\ task'[r] \in Tasks
                 /\ r \in Sessioners => task'[r] \in {Idle} \cup SessionTasks
                 /\ r \in Editors => task'[r] \in {Idle} \cup EditTasks
                 /\ r \in Owners => task'[r] \in {Idle} \cup OwnerTasks
      <4>1. CASE task'[r] \in {Idle, task[r]}
        BY <1>0, <4>1 DEF TaskInv, Tasks
      <4>2. CASE r \in Sessioners /\ task'[r] \in SessionTasks
        BY <4>2, SettingsAssumption DEF Tasks
      <4>3. QED
        BY <3>3, <4>1, <4>2
    <3>6. QED
      BY <3>4, <3>5 DEF TaskInv, Requests
  <2>4. ASSUME NEW hooked \in BOOLEAN, SetWebhook(q, hooked)
        PROVE  TaskInv'
    BY <1>0, <2>4 DEF SetWebhook, TaskInv
  <2>5. QED
    BY <1>2, <2>1, <2>2, <2>3, <2>4 DEF EditStep
<1>3. ASSUME NEW q \in Owners, OwnerStep(q)
      PROVE  TaskInv'
  <2>1. ASSUME NEW mode \in Modes, GenerateRead(q, mode)
        PROVE  TaskInv'
    <3>1. [pc |-> "issue", mode |-> mode] \in OwnerTasks
      BY DEF OwnerTasks, IssueTasks
    <3>2. QED
      BY <1>0, <2>1, <3>1, OwnerTask DEF GenerateRead, Begin
  <2>2. CASE RotateRead(q)
    <3>1. [pc |-> "issue", mode |-> tenant.mode] \in OwnerTasks
      BY <1>0 DEF OwnerTasks, IssueTasks, StoreInv, RowType
    <3>2. QED
      BY <1>0, <2>2, <3>1, OwnerTask DEF RotateRead, Begin
  <2>3. CASE IssueKeys(q)
    BY <1>0, <2>3, OwnerTask DEF IssueKeys, Finish
  <2>4. ASSUME NEW p \in Procs, ActivateRead(q, p)
        PROVE  TaskInv'
    <3>1. [pc |-> "url", p |-> p] \in OwnerTasks
      BY DEF OwnerTasks, LiveTasks
    <3>2. QED
      BY <1>0, <2>4, <3>1, OwnerTask DEF ActivateRead, Begin
  <2>5. CASE RequireUrl(q) \/ RequireSession(q) \/ Activate(q)
    <3>1. task[q] \in LiveTasks
      BY <1>0, <2>5, Held DEF RequireUrl, RequireSession, Activate
    <3>2. /\ [task[q] EXCEPT !.pc = "count"] \in OwnerTasks
          /\ [task[q] EXCEPT !.pc = "activate"] \in OwnerTasks
      BY <3>1 DEF LiveTasks, OwnerTasks
    <3>3. QED
      BY <1>0, <2>5, <3>2, OwnerTask
         DEF RequireUrl, RequireSession, Activate, Goto, Finish
  <2>6. QED
    BY <1>3, <2>1, <2>2, <2>3, <2>4, <2>5 DEF OwnerStep
<1>4. ASSUME UNCHANGED task
      PROVE  TaskInv'
  BY <1>0, <1>4 DEF TaskInv
<1>5. QED
  BY <1>1, <1>2, <1>3, <1>4
     DEF SettingsNext, MemoLapses, ExchangeKey, Login, Sign, settingsVars

(* ... and so does what is stored.                                         *)
LEMMA StoreStep ==
  ASSUME TypeInv, [SettingsNext]_settingsVars
  PROVE  StoreInv'
<1>0. TaskInv /\ StoreInv
  BY DEF TypeInv
<1>1. ASSUME NEW q \in Sessioners, SessionStep(q)
      PROVE  StoreInv'
  <2>1. ASSUME NEW p \in Procs, NEW mode \in Modes,
               MemoHit(q, p, mode) \/ LoadRow(q, p, mode)
        PROVE  StoreInv'
    BY <1>0, <2>1 DEF MemoHit, LoadRow, StoreInv, stored
  <2>2. CASE Keep(q)
    <3>1. task[q] \in KeepTasks
      BY <1>0, <2>2, Held DEF Keep
    <3>2. task[q].use \in Defaults
      BY <3>1 DEF KeepTasks
    <3>3. QED
      BY <1>0, <2>2, <3>2 DEF Keep, StoreInv, stored
  <2>3. CASE Use(q)
    <3>1. task[q] \in UseTasks
      BY <1>0, <2>3, Held DEF Use
    <3>2. task[q].mode \in Modes
      BY <3>1 DEF UseTasks
    <3>3. QED
      BY <1>0, <2>3, <3>2 DEF Use, StoreInv
  <2>4. QED
    BY <1>1, <2>1, <2>2, <2>3 DEF SessionStep
<1>2. ASSUME NEW q \in Editors, EditStep(q)
      PROVE  StoreInv'
  <2>1. ASSUME NEW p \in Procs, NEW edit \in Bodies, EditRead(q, p, edit)
        PROVE  StoreInv'
    BY <1>0, <2>1 DEF EditRead, StoreInv, stored
  <2>2. CASE EditWrite(q)
    <3>1. task[q] \in WriteTasks
      BY <1>0, <2>2, Held DEF EditWrite
    <3>2. task[q].edit \in Edits
      BY <3>1 DEF WriteTasks
    <3>3. /\ Effective(task[q].edit.recording, tenant.recording) \in {"on", "off"}
          /\ Effective(task[q].edit.consent, tenant.consent) \in Consents
      BY <1>0, <3>2 DEF Effective, Edits, StoreInv, RowType
    <3> DEFINE r == Effective(task[q].edit.recording, tenant.recording)
               c == Effective(task[q].edit.consent, tenant.consent)
               d == IF task[q].edit.defaults THEN tenant.defaults + 1
                                             ELSE tenant.defaults
    <3>4. tenant' \in RowType
      <4>1. tenant' = [tenant EXCEPT !.recording = r, !.consent = c, !.defaults = d]
        BY <2>2 DEF EditWrite
      <4>2. tenant \in RowType /\ d \in Nat
        BY <1>0 DEF StoreInv, RowType
      <4>3. r \in {"on", "off"} /\ c \in Consents
        BY <3>3
      <4> HIDE DEF r, c, d
      <4>4. QED
        BY <4>1, <4>2, <4>3 DEF RowType
    <3>5. QED
      BY <1>0, <2>2, <3>4 DEF EditWrite, StoreInv
  <2>3. CASE EditDone(q)
    <3>1. tenant.defaults \in Nat
      BY <1>0 DEF StoreInv, RowType
    <3>2. QED
      BY <1>0, <2>3, <3>1 DEF EditDone, Invalidated, StoreInv, stored
  <2>4. ASSUME NEW hooked \in BOOLEAN, SetWebhook(q, hooked)
        PROVE  StoreInv'
    <3>1. tenant' \in RowType
      BY <1>0, <2>4 DEF SetWebhook, StoreInv, RowType
    <3>2. QED
      BY <1>0, <2>4, <3>1 DEF SetWebhook, StoreInv
  <2>5. QED
    BY <1>2, <2>1, <2>2, <2>3, <2>4 DEF EditStep
<1>3. ASSUME NEW q \in Owners, OwnerStep(q)
      PROVE  StoreInv'
  <2>1. CASE UNCHANGED <<stored, memo, answered>>
    BY <1>0, <2>1 DEF StoreInv, stored
  <2>2. CASE IssueKeys(q)
    <3>1. task[q] \in IssueTasks
      BY <1>0, <2>2, Held DEF IssueKeys
    <3>2. Pair(task[q].mode) \in Modes
      BY <3>1 DEF IssueTasks, Pair
    <3>3. QED
      BY <1>0, <2>2, <3>2 DEF IssueKeys, StoreInv
  <2>3. CASE Activate(q)
    <3>1. tenant' \in RowType
      BY <1>0, <2>3 DEF Activate, StoreInv, RowType, Modes
    <3>2. QED
      BY <1>0, <2>3, <3>1 DEF Activate, Invalidated, StoreInv
  <2>4. QED
    BY <1>3, <2>1, <2>2, <2>3
       DEF OwnerStep, GenerateRead, RotateRead, ActivateRead, RequireUrl,
           RequireSession
<1>4. ASSUME NEW p \in Procs, MemoLapses(p)
      PROVE  StoreInv'
  BY <1>0, <1>4 DEF MemoLapses, StoreInv, stored
<1>5. ASSUME NEW mode \in Modes, ExchangeKey(mode)
      PROVE  StoreInv'
  BY <1>0, <1>5 DEF ExchangeKey, Sign, StoreInv
<1>6. CASE Login
  <2>1. tenant.mode \in Modes
    BY <1>0 DEF StoreInv, RowType
  <2>2. QED
    BY <1>0, <1>6, <2>1 DEF Login, Sign, StoreInv
<1>7. CASE UNCHANGED settingsVars
  BY <1>0, <1>7 DEF settingsVars, stored, StoreInv
<1>8. QED
  BY <1>1, <1>2, <1>3, <1>4, <1>5, <1>6, <1>7 DEF SettingsNext

LEMMA TypeInit == SettingsInit => TypeInv
<1> SUFFICES ASSUME SettingsInit
             PROVE  TypeInv
  OBVIOUS
<1>1. TaskInv
  BY DEF SettingsInit, TaskInv, Tasks, Requests
<1>2. tenant \in RowType
  BY DEF SettingsInit, RowType, Modes, Consents
<1>3. StoreInv
  BY <1>2 DEF SettingsInit, StoreInv, Modes
<1>4. QED
  BY <1>1, <1>3 DEF TypeInv

LEMMA TypeStep == TypeInv /\ [SettingsNext]_settingsVars => TypeInv'
BY TaskStep, StoreStep DEF TypeInv

LEMMA TypeAlways == SettingsSpec => []TypeInv
BY TypeInit, TypeStep, PTL DEF SettingsSpec

LEMMA TypeImplies == TypeInv => SettingsTypeOK
<1> SUFFICES ASSUME TypeInv
             PROVE  SettingsTypeOK
  OBVIOUS
<1>1. TaskInv /\ StoreInv
  BY DEF TypeInv
<1>2. ASSUME NEW q \in Sessioners, ~At(q, "idle")
      PROVE  task[q].use \in Defaults \cup {Environment} /\ task[q].floor \in Nat
  <2>1. task[q] \in SessionTasks
    BY <1>1, <1>2 DEF TaskInv, At, Idle
  <2>2. QED
    BY <2>1 DEF SessionTasks, KeepTasks, UseTasks
<1>3. QED
  BY <1>1, <1>2 DEF SettingsTypeOK, StoreInv, RowType

(* Every memo holds defaults of the row or nothing, every request holds    *)
(* what its next step needs, and nothing else is ever stored.              *)
THEOREM SettingsTypeCorrect == SettingsSpec => []SettingsTypeOK
BY TypeAlways, TypeImplies, PTL

-----------------------------------------------------------------------------
(* A step that only writes tasks which are sound keeps LiveInv, ...        *)
LEMMA SoundTask ==
  ASSUME LiveInv, UNCHANGED stored, NEW q \in Requests, NEW t,
         task' = [task EXCEPT ![q] = t], task \in [Requests -> Tasks], Sound(t)
  PROVE  LiveInv'
BY DEF LiveInv, Sound, Earned, stored

(* ... and so does one that adds modes which have been earned and never    *)
(* takes back live mode or a session.                                      *)
LEMMA SoundStore ==
  ASSUME LiveInv, task \in [Requests -> Tasks],
         tenant.mode = "live" => tenant'.mode = "live",
         tenant'.mode = "live" => "sandbox" \in opened',
         opened \subseteq opened',
         \A mode \in keys' \cup tokens' \cup opened' :
           mode \in keys \cup tokens \cup opened \/ Earned(mode),
         \A q \in Requests : task'[q] = task[q] \/ task'[q] = Idle
  PROVE  LiveInv'
<1>1. ASSUME NEW q \in Requests
      PROVE  Sound(task[q])'
  BY DEF LiveInv, Sound, Earned, Idle
<1>2. ASSUME NEW mode \in keys' \cup tokens' \cup opened'
      PROVE  Earned(mode)'
  BY DEF LiveInv, Earned
<1>3. QED
  BY <1>1, <1>2 DEF LiveInv

LEMMA IdleIsSound == Sound(Idle)
BY DEF Sound, Idle

LEMMA LiveInit == SettingsInit => LiveInv
BY DEF SettingsInit, LiveInv, Sound, Earned, Idle

LEMMA LiveStep ==
  ASSUME TypeInv, LiveInv, [SettingsNext]_settingsVars
  PROVE  LiveInv'
<1>0. /\ TaskInv /\ StoreInv
      /\ task \in [Requests -> Tasks]
      /\ \A mode \in tokens : Earned(mode)
      /\ \A q \in Requests : Sound(task[q])
  BY DEF TypeInv, TaskInv, LiveInv
<1>1. ASSUME NEW q \in Sessioners, SessionStep(q)
      PROVE  LiveInv'
  <2>0. q \in Requests
    BY DEF Requests
  <2>1. ASSUME NEW p \in Procs, NEW mode \in Modes, MemoHit(q, p, mode)
        PROVE  LiveInv'
    <3> DEFINE t == [pc |-> "use", p |-> p, mode |-> mode, use |-> memo[p],
                     floor |-> answered[p]]
    <3>1. Sound(t)
      BY <1>0, <2>1 DEF MemoHit, Authenticated, Sound
    <3>2. task' = [task EXCEPT ![q] = t] /\ UNCHANGED stored
      BY <2>1 DEF MemoHit, Begin
    <3> HIDE DEF t
    <3>3. QED
      BY <1>0, <2>0, <3>1, <3>2, SoundTask
  <2>2. ASSUME NEW p \in Procs, NEW mode \in Modes, LoadRow(q, p, mode)
        PROVE  LiveInv'
    <3>1. PICK t : /\ t.pc \in {"keep", "use"} /\ t.mode = mode
                   /\ task' = [task EXCEPT ![q] = t]
      BY <2>2 DEF LoadRow, Begin
    <3>2. Sound(t)
      BY <1>0, <2>2, <3>1 DEF LoadRow, Authenticated, Sound
    <3>3. UNCHANGED stored
      BY <2>2 DEF LoadRow
    <3>4. QED
      BY <1>0, <2>0, <3>1, <3>2, <3>3, SoundTask
  <2>3. CASE Keep(q)
    <3> DEFINE t == [task[q] EXCEPT !.pc = "use"]
    <3>1. task[q] \in KeepTasks
      BY <1>0, <2>3, Held DEF Keep
    <3>2. Sound(t)
      BY <1>0, <2>0, <3>1 DEF Sound, KeepTasks
    <3>3. task' = [task EXCEPT ![q] = t] /\ UNCHANGED stored
      BY <2>3, <1>0, <2>0 DEF Keep, Goto
    <3> HIDE DEF t
    <3>4. QED
      BY <1>0, <2>0, <3>2, <3>3, SoundTask
  <2>4. CASE Use(q)
    <3>1. Earned(task[q].mode)
      BY <1>0, <2>0, <2>4 DEF Use, At, Sound
    <3>2. \A r \in Requests : task'[r] = task[r] \/ task'[r] = Idle
      BY <1>0, <2>0, <2>4 DEF Use, Finish
    <3>3. tenant.mode = "live" => "sandbox" \in opened
      BY DEF LiveInv
    <3>4. QED
      BY <1>0, <2>4, <3>1, <3>2, <3>3, SoundStore DEF Use
  <2>5. QED
    BY <1>1, <2>1, <2>2, <2>3, <2>4 DEF SessionStep
<1>2. ASSUME NEW q \in Editors, EditStep(q)
      PROVE  LiveInv'
  <2>0. q \in Requests
    BY DEF Requests
  <2>1. ASSUME NEW p \in Procs, NEW edit \in Bodies, EditRead(q, p, edit)
        PROVE  LiveInv'
    <3> DEFINE t == [pc |-> "write", p |-> p, edit |-> edit, checked |-> Left(edit)]
    <3>1. Sound(t)
      BY DEF Sound
    <3>2. task' = [task EXCEPT ![q] = t] /\ UNCHANGED stored
      BY <2>1 DEF EditRead, Begin
    <3> HIDE DEF t
    <3>3. QED
      BY <1>0, <2>0, <3>1, <3>2, SoundTask
  <2>2. CASE EditWrite(q)
    <3>1. /\ tenant'.mode = tenant.mode
          /\ UNCHANGED <<keys, tokens, opened>>
      BY <1>0, <2>2 DEF EditWrite, StoreInv, RowType
    <3>2. ASSUME NEW r \in Requests
          PROVE  Sound(task'[r])
      BY <1>0, <2>0, <2>2, <3>2 DEF EditWrite, Sound
    <3>3. ASSUME NEW r \in Requests
          PROVE  Sound(task[r])'
      BY <3>1, <3>2 DEF Sound, Earned
    <3>4. QED
      BY <3>1, <3>3 DEF LiveInv, Earned
  <2>3. CASE EditDone(q)
    <3>1. ASSUME NEW r \in Requests
          PROVE  Sound(task'[r])
      <4>1. CASE r = q
        BY <2>3, <4>1, IdleIsSound DEF EditDone, Crossed, Requests
      <4>2. CASE r # q
        <5>1. task'[r] = Crossed(task[q].p)[r]
          BY <2>3, <4>2 DEF EditDone, Crossed
        <5>2. CASE At(r, "keep") /\ task[r].p = task[q].p
          <6>1. task[r] \in KeepTasks
            BY <1>0, <5>2, Held DEF TaskInv, At, Idle, EditTasks, OwnerTasks,
                 WriteTasks, DropTasks, IssueTasks, LiveTasks, Requests
          <6>2. /\ task'[r].pc = task[r].pc
                /\ task'[r].mode = task[r].mode
            BY <5>1, <5>2, <6>1 DEF Crossed, KeepTasks
          <6>3. QED
            BY <1>0, <6>2 DEF Sound
        <5>3. CASE ~(At(r, "keep") /\ task[r].p = task[q].p)
          BY <1>0, <5>1, <5>3 DEF Crossed
        <5>4. QED
          BY <5>2, <5>3
      <4>3. QED
        BY <4>1, <4>2
    <3>2. UNCHANGED stored
      BY <2>3 DEF EditDone
    <3>3. ASSUME NEW r \in Requests
          PROVE  Sound(task[r])'
      BY <3>1, <3>2 DEF Sound, Earned, stored
    <3>4. QED
      BY <3>2, <3>3 DEF LiveInv, Earned, stored
  <2>4. ASSUME NEW hooked \in BOOLEAN, SetWebhook(q, hooked)
        PROVE  LiveInv'
    <3>1. tenant'.mode = tenant.mode /\ UNCHANGED <<keys, tokens, opened, task>>
      BY <1>0, <2>4 DEF SetWebhook, StoreInv, RowType
    <3>2. QED
      BY <1>0, <3>1, SoundStore DEF LiveInv
  <2>5. QED
    BY <1>2, <2>1, <2>2, <2>3, <2>4 DEF EditStep
<1>3. ASSUME NEW q \in Owners, OwnerStep(q)
      PROVE  LiveInv'
  <2>0. q \in Requests
    BY DEF Requests
  <2>1. ASSUME NEW t, Begin(q, t), UNCHANGED stored, Sound(t)
        PROVE  LiveInv'
    BY <1>0, <2>0, <2>1, SoundTask DEF Begin
  <2>2. ASSUME NEW mode \in Modes, GenerateRead(q, mode)
        PROVE  LiveInv'
    <3>1. Sound([pc |-> "issue", mode |-> mode])
      BY <2>2 DEF GenerateRead, MayHaveKeys, Sound, Earned, Modes
    <3>2. QED
      BY <2>1, <2>2, <3>1 DEF GenerateRead
  <2>3. CASE RotateRead(q)
    <3>1. Sound([pc |-> "issue", mode |-> tenant.mode])
      BY DEF Sound, Earned
    <3>2. QED
      BY <2>1, <2>3, <3>1 DEF RotateRead
  <2>4. CASE IssueKeys(q)
    <3>1. Earned(Pair(task[q].mode))
      BY <1>0, <2>0, <2>4 DEF IssueKeys, At, Sound, Pair
    <3>2. \A r \in Requests : task'[r] = task[r] \/ task'[r] = Idle
      BY <1>0, <2>0, <2>4 DEF IssueKeys, Finish
    <3>3. QED
      BY <1>0, <2>4, <3>1, <3>2, SoundStore DEF IssueKeys, LiveInv
  <2>5. ASSUME NEW p \in Procs, ActivateRead(q, p)
        PROVE  LiveInv'
    <3>1. Sound([pc |-> "url", p |-> p])
      BY DEF Sound
    <3>2. QED
      BY <2>1, <2>5, <3>1 DEF ActivateRead
  <2>6. CASE RequireUrl(q) \/ RequireSession(q)
    <3>1. task[q] \in LiveTasks
      BY <1>0, <2>6, Held DEF RequireUrl, RequireSession
    <3>2. /\ Sound([task[q] EXCEPT !.pc = "count"])
          /\ Tried => Sound([task[q] EXCEPT !.pc = "activate"])
      BY <3>1 DEF LiveTasks, Sound, Tried
    <3>3. UNCHANGED stored
      BY <2>6 DEF RequireUrl, RequireSession
    <3>4. CASE Finish(q)
      BY <1>0, <2>0, <3>3, <3>4, IdleIsSound, SoundTask DEF Finish
    <3>5. CASE Goto(q, "count")
      <4> DEFINE t == [task[q] EXCEPT !.pc = "count"]
      <4>1. task' = [task EXCEPT ![q] = t]
        BY <3>5 DEF Goto
      <4>2. Sound(t)
        BY <3>2
      <4> HIDE DEF t
      <4>3. QED
        BY <1>0, <2>0, <3>3, <4>1, <4>2, SoundTask
    <3>6. CASE Tried /\ Goto(q, "activate")
      <4> DEFINE t == [task[q] EXCEPT !.pc = "activate"]
      <4>1. task' = [task EXCEPT ![q] = t]
        BY <3>6 DEF Goto
      <4>2. Sound(t)
        BY <3>2, <3>6
      <4> HIDE DEF t
      <4>3. QED
        BY <1>0, <2>0, <3>3, <4>1, <4>2, SoundTask
    <3>7. QED
      BY <2>6, <3>4, <3>5, <3>6 DEF RequireUrl, RequireSession
  <2>7. CASE Activate(q)
    <3>1. "sandbox" \in opened
      BY <1>0, <2>0, <2>7 DEF Activate, At, Sound
    <3>2. \A r \in Requests : task'[r] = task[r] \/ task'[r] = Idle
      BY <1>0, <2>0, <2>7 DEF Activate, Finish
    <3>3. tenant'.mode = "live"
      BY <1>0, <2>7 DEF Activate, StoreInv, RowType
    <3>4. QED
      BY <1>0, <2>7, <3>1, <3>2, <3>3, SoundStore DEF Activate
  <2>8. QED
    BY <1>3, <2>2, <2>3, <2>4, <2>5, <2>6, <2>7 DEF OwnerStep
<1>4. ASSUME NEW mode \in Modes, ExchangeKey(mode) \/ Login
      PROVE  LiveInv'
  <2>1. PICK m : Earned(m) /\ Sign(m)
    BY <1>4 DEF ExchangeKey, Login, LiveInv, Earned
  <2>2. QED
    BY <1>0, <2>1, SoundStore DEF Sign, LiveInv
<1>5. CASE UNCHANGED <<stored, task>>
  BY <1>5 DEF LiveInv, Sound, Earned, stored
<1>6. QED
  BY <1>1, <1>2, <1>3, <1>4, <1>5
     DEF SettingsNext, MemoLapses, settingsVars, Modes

(* Whatever requests overlap, live mode, and any live key, token or        *)
(* session, comes after a session of the sandbox.                          *)
THEOREM LiveAlwaysEarned == SettingsSpec => []LiveIsEarned
<1>1. LiveInv => LiveIsEarned
  BY DEF LiveInv, LiveIsEarned, Earned
<1>2. TypeInv /\ LiveInv /\ [SettingsNext]_settingsVars => LiveInv'
  BY LiveStep
<1>3. QED
  BY <1>1, <1>2, LiveInit, TypeAlways, PTL DEF SettingsSpec

-----------------------------------------------------------------------------
(* A step that leaves the memos and what was answered alone, and writes a  *)
(* recent task, keeps MemoInv.                                             *)
LEMMA RecentTask ==
  ASSUME MemoInv, UNCHANGED <<tenant, memo, answered>>, NEW q \in Requests,
         NEW t, task' = [task EXCEPT ![q] = t], task \in [Requests -> Tasks],
         Recent(t)
  PROVE  MemoInv'
<1>1. ASSUME NEW r \in Requests
      PROVE  Recent(task[r])'
  BY DEF MemoInv, Recent
<1>2. QED
  BY <1>1 DEF MemoInv

LEMMA IdleIsRecent == Recent(Idle)
BY DEF Recent, Idle

LEMMA MemoInit == SettingsInit => MemoInv
BY DEF SettingsInit, MemoInv, Recent, Idle

LEMMA MemoStep ==
  ASSUME TypeInv, MemoInv, [SettingsNext]_settingsVars
  PROVE  MemoInv'
<1>0. /\ TaskInv /\ StoreInv
      /\ task \in [Requests -> Tasks]
      /\ tenant.defaults \in Nat
      /\ memo \in [Procs -> Defaults \cup {NoMemo}]
      /\ answered \in [Procs -> Nat]
      /\ \A q \in Requests : Recent(task[q])
  BY DEF TypeInv, TaskInv, MemoInv, StoreInv, RowType
<1>1. ASSUME NEW q \in Sessioners, SessionStep(q)
      PROVE  MemoInv'
  <2>0. q \in Requests
    BY DEF Requests
  <2>1. ASSUME NEW p \in Procs, NEW mode \in Modes, MemoHit(q, p, mode)
        PROVE  MemoInv'
    <3> DEFINE t == [pc |-> "use", p |-> p, mode |-> mode, use |-> memo[p],
                     floor |-> answered[p]]
    <3>1. Recent(t)
      BY <2>1 DEF MemoHit, MemoInv, Recent
    <3>2. task' = [task EXCEPT ![q] = t] /\ UNCHANGED <<tenant, memo, answered>>
      BY <2>1 DEF MemoHit, Begin, stored
    <3> HIDE DEF t
    <3>3. QED
      BY <1>0, <2>0, <3>1, <3>2, RecentTask
  <2>2. ASSUME NEW p \in Procs, NEW mode \in Modes, LoadRow(q, p, mode)
        PROVE  MemoInv'
    <3>0. UNCHANGED <<tenant, memo, answered>>
      BY <2>2 DEF LoadRow, stored
    <3> DEFINE t == [pc |-> "keep", p |-> p, mode |-> mode,
                     use |-> [from |-> "row", version |-> tenant.defaults,
                              crossed |-> FALSE],
                     floor |-> answered[p]]
               u == [pc |-> "use", p |-> p, mode |-> mode,
                     use |-> Environment, floor |-> answered[p]]
    <3>1. Recent(t)
      BY <1>0 DEF MemoInv, Recent, Fresh
    <3>2. Recent(u)
      BY DEF Recent
    <3>3. task' = [task EXCEPT ![q] = t] \/ task' = [task EXCEPT ![q] = u]
      BY <2>2 DEF LoadRow, Begin
    <3> HIDE DEF t, u
    <3>4. QED
      BY <1>0, <2>0, <3>0, <3>1, <3>2, <3>3, RecentTask
  <2>3. CASE Keep(q)
    <3> DEFINE t == [task[q] EXCEPT !.pc = "use"]
               p == task[q].p
    <3>1. task[q] \in KeepTasks
      BY <1>0, <2>3, Held DEF Keep
    <3>2. Fresh(task[q].use, answered[p]) /\ Fresh(task[q].use, task[q].floor)
      BY <1>0, <2>0, <2>3 DEF Keep, At, Recent
    <3>3. Recent(t)
      BY <3>1, <3>2 DEF Recent, KeepTasks
    <3>4. task' = [task EXCEPT ![q] = t]
      BY <1>0, <2>0, <2>3 DEF Keep, Goto
    <3>5. memo' = [memo EXCEPT ![p] = task[q].use] /\ UNCHANGED <<tenant, answered>>
      BY <2>3 DEF Keep, stored
    <3> HIDE DEF t, p
    <3>6. ASSUME NEW r \in Requests
          PROVE  Recent(task[r])'
      BY <1>0, <2>0, <3>3, <3>4, <3>5 DEF Recent
    <3>7. ASSUME NEW o \in Procs, memo'[o] # NoMemo
          PROVE  Fresh(memo'[o], answered[o])
      BY <1>0, <3>2, <3>5, <3>7 DEF MemoInv
    <3>8. QED
      BY <3>5, <3>6, <3>7 DEF MemoInv, Fresh
  <2>4. CASE Use(q)
    BY <1>0, <2>0, <2>4, IdleIsRecent, RecentTask DEF Use, Finish
  <2>5. QED
    BY <1>1, <2>1, <2>2, <2>3, <2>4 DEF SessionStep
<1>2. ASSUME NEW q \in Editors, EditStep(q)
      PROVE  MemoInv'
  <2>0. q \in Requests
    BY DEF Requests
  <2>1. ASSUME NEW p \in Procs, NEW edit \in Bodies, EditRead(q, p, edit)
        PROVE  MemoInv'
    <3> DEFINE t == [pc |-> "write", p |-> p, edit |-> edit, checked |-> Left(edit)]
    <3>1. Recent(t)
      BY DEF Recent
    <3>2. task' = [task EXCEPT ![q] = t] /\ UNCHANGED <<tenant, memo, answered>>
      BY <2>1 DEF EditRead, Begin, stored
    <3> HIDE DEF t
    <3>3. QED
      BY <1>0, <2>0, <3>1, <3>2, RecentTask
  <2>2. CASE EditWrite(q)
    <3> DEFINE t == [pc |-> "drop", p |-> task[q].p]
    <3>1. UNCHANGED <<memo, answered>> /\ task' = [task EXCEPT ![q] = t]
      BY <2>2 DEF EditWrite
    <3>2. Recent(t)
      BY DEF Recent
    <3>3. tenant'.defaults >= tenant.defaults
      BY <1>0, <2>2 DEF EditWrite, StoreInv, RowType
    <3>4. tenant'.defaults \in Nat
      BY StoreStep DEF StoreInv, RowType
    <3> HIDE DEF t
    <3>5. ASSUME NEW r \in Requests
          PROVE  Recent(task[r])'
      BY <1>0, <2>0, <3>1, <3>2 DEF Recent
    <3>6. ASSUME NEW o \in Procs
          PROVE  answered'[o] <= tenant'.defaults
      BY <1>0, <3>1, <3>3, <3>4 DEF MemoInv
    <3>7. QED
      BY <3>1, <3>5, <3>6 DEF MemoInv, Fresh
  <2>3. CASE EditDone(q)
    <3> DEFINE p == task[q].p
    <3>1. /\ memo' = [memo EXCEPT ![p] = NoMemo]
          /\ answered' = [answered EXCEPT ![p] = tenant.defaults]
          /\ UNCHANGED tenant
      BY <2>3 DEF EditDone, Invalidated, stored
    <3>2. ASSUME NEW r \in Requests
          PROVE  Recent(task[r])'
      <4>1. CASE r = q
        <5>1. task'[r] = Idle
          BY <2>3, <4>1 DEF EditDone, Crossed, Requests
        <5>2. QED
          BY <5>1 DEF Recent, Idle
      <4>2. CASE r # q
        <5>1. task'[r] = Crossed(p)[r]
          BY <2>3, <4>2 DEF EditDone, Crossed
        <5>2. CASE At(r, "keep") /\ task[r].p = p
          <6>1. task[r] \in KeepTasks
            BY <1>0, <5>2, Held DEF TaskInv, At, Idle, EditTasks, OwnerTasks,
                 WriteTasks, DropTasks, IssueTasks, LiveTasks, Requests
          <6>2. task'[r].pc = "keep" /\ task'[r].use.crossed
            BY <5>1, <5>2, <6>1 DEF Crossed, KeepTasks, Defaults, At
          <6>3. QED
            BY <6>2 DEF Recent, Fresh
        <5>3. CASE ~(At(r, "keep") /\ task[r].p = p)
          <6>1. task'[r] = task[r]
            BY <5>1, <5>3 DEF Crossed
          <6>2. task[r].pc = "keep" => answered'[task[r].p] = answered[task[r].p]
            BY <1>0, <3>1, <5>3 DEF At
          <6>3. QED
            BY <1>0, <6>1, <6>2 DEF Recent, Fresh
        <5>4. QED
          BY <5>2, <5>3
      <4>3. QED
        BY <4>1, <4>2
    <3>3. ASSUME NEW o \in Procs
          PROVE  /\ answered'[o] <= tenant'.defaults
                 /\ memo'[o] # NoMemo => Fresh(memo'[o], answered'[o])
      BY <1>0, <3>1 DEF MemoInv
    <3>4. QED
      BY <3>2, <3>3 DEF MemoInv, Fresh
  <2>4. ASSUME NEW hooked \in BOOLEAN, SetWebhook(q, hooked)
        PROVE  MemoInv'
    <3>1. tenant'.defaults = tenant.defaults /\ UNCHANGED <<memo, answered, task>>
      BY <1>0, <2>4 DEF SetWebhook, StoreInv, RowType
    <3>2. QED
      BY <3>1 DEF MemoInv, Recent, Fresh
  <2>5. QED
    BY <1>2, <2>1, <2>2, <2>3, <2>4 DEF EditStep
<1>3. ASSUME NEW q \in Owners, OwnerStep(q)
      PROVE  MemoInv'
  <2>0. q \in Requests
    BY DEF Requests
  <2>1. ASSUME NEW t, Begin(q, t), UNCHANGED <<tenant, memo, answered>>,
               t.pc \in {"issue", "url"}
        PROVE  MemoInv'
    BY <1>0, <2>0, <2>1, RecentTask DEF Begin, Recent
  <2>2. ASSUME NEW mode \in Modes, GenerateRead(q, mode)
        PROVE  MemoInv'
    BY <2>1, <2>2 DEF GenerateRead, stored
  <2>3. CASE RotateRead(q)
    BY <2>1, <2>3 DEF RotateRead, stored
  <2>4. CASE IssueKeys(q)
    BY <1>0, <2>0, <2>4, IdleIsRecent, RecentTask DEF IssueKeys, Finish
  <2>5. ASSUME NEW p \in Procs, ActivateRead(q, p)
        PROVE  MemoInv'
    BY <2>1, <2>5 DEF ActivateRead, stored
  <2>6. CASE RequireUrl(q) \/ RequireSession(q)
    <3>1. task[q] \in LiveTasks
      BY <1>0, <2>6, Held DEF RequireUrl, RequireSession
    <3>2. UNCHANGED <<tenant, memo, answered>>
      BY <2>6 DEF RequireUrl, RequireSession, stored
    <3>3. ASSUME NEW pc \in {"count", "activate"}, Goto(q, pc)
          PROVE  MemoInv'
      <4> DEFINE t == [task[q] EXCEPT !.pc = pc]
      <4>1. Recent(t)
        BY <3>1 DEF LiveTasks, Recent
      <4>2. task' = [task EXCEPT ![q] = t]
        BY <3>3 DEF Goto
      <4> HIDE DEF t
      <4>3. QED
        BY <1>0, <2>0, <3>2, <4>1, <4>2, RecentTask
    <3>4. CASE Finish(q)
      BY <1>0, <2>0, <3>2, <3>4, IdleIsRecent, RecentTask DEF Finish
    <3>5. QED
      BY <2>6, <3>3, <3>4 DEF RequireUrl, RequireSession
  <2>7. CASE Activate(q)
    <3>1. /\ tenant'.defaults = tenant.defaults
          /\ memo' = [memo EXCEPT ![task[q].p] = NoMemo]
          /\ task' = [task EXCEPT ![q] = Idle]
          /\ UNCHANGED answered
      BY <1>0, <2>7 DEF Activate, Invalidated, Finish, StoreInv, RowType
    <3>2. ASSUME NEW r \in Requests
          PROVE  Recent(task[r])'
      BY <1>0, <2>0, <3>1, IdleIsRecent DEF Recent
    <3>3. ASSUME NEW o \in Procs
          PROVE  memo'[o] # NoMemo => memo'[o] = memo[o]
      BY <1>0, <3>1
    <3>4. QED
      BY <3>1, <3>2, <3>3 DEF MemoInv, Fresh
  <2>8. QED
    BY <1>3, <2>2, <2>3, <2>4, <2>5, <2>6, <2>7 DEF OwnerStep
<1>4. ASSUME NEW p \in Procs, MemoLapses(p)
      PROVE  MemoInv'
  <2>1. /\ memo' = [memo EXCEPT ![p] = NoMemo]
        /\ UNCHANGED <<tenant, task, answered>>
    BY <1>4 DEF MemoLapses, stored
  <2>2. \A o \in Procs : memo'[o] # NoMemo => memo'[o] = memo[o]
    BY <1>0, <2>1
  <2>3. QED
    BY <2>1, <2>2 DEF MemoInv, Recent, Fresh
<1>5. CASE UNCHANGED <<tenant, memo, task, answered>>
  BY <1>5 DEF MemoInv, Recent, Fresh
<1>6. QED
  BY <1>1, <1>2, <1>3, <1>4, <1>5
     DEF SettingsNext, ExchangeKey, Login, Sign, settingsVars, stored

(* However loads, lapses and edits interleave, a session that starts after *)
(* an edit was answered by its process uses the edited defaults, unless    *)
(* the load it relies on was crossed by the edit.                          *)
THEOREM EditsAlwaysTakeEffect == SettingsSpec => []EditsTakeEffect
<1>1. TypeInv /\ MemoInv => EditsTakeEffect
  BY DEF MemoInv, EditsTakeEffect, Recent, Fresh, At, Requests
<1>2. TypeInv /\ MemoInv /\ [SettingsNext]_settingsVars => MemoInv'
  BY MemoStep
<1>3. QED
  BY <1>1, <1>2, MemoInit, TypeAlways, PTL DEF SettingsSpec

-----------------------------------------------------------------------------
(* A step that leaves the row alone and starts no write that was found      *)
(* unlawful keeps ConsentInv.                                              *)
LEMMA SameConsent ==
  ASSUME ConsentInv, UNCHANGED outdated,
         tenant'.recording = tenant.recording,
         tenant'.consent = tenant.consent,
         \A q \in Editors : \/ task'[q] = task[q]
                            \/ task'[q].pc # "write"
                            \/ ~Unlawful(task'[q].checked)
  PROVE  ConsentInv'
<1>1. ConsentKept'
  BY DEF ConsentInv, ConsentKept, Unlawful
<1>2. \A q \in Editors : CheckedOK(q)'
  BY DEF ConsentInv, CheckedOK, At, Unlawful
<1>3. QED
  BY <1>1, <1>2 DEF ConsentInv

(* An edit that is written leaves the outcome it was checked for, or the   *)
(* row is outdated.                                                        *)
LEMMA WriteConsent ==
  ASSUME TypeInv, ConsentInv, NEW q \in Editors, EditWrite(q)
  PROVE  ConsentInv'
<1>0. StoreInv /\ task \in [Requests -> Tasks] /\ q \in Requests
  BY DEF TypeInv, TaskInv, Requests
<1> DEFINE left == Left(task[q].edit)
<1>1. tenant'.recording = left.recording /\ tenant'.consent = left.consent
  BY <1>0 DEF EditWrite, StoreInv, RowType, Left
<1>2. outdated' = (left # task[q].checked) /\ ~Unlawful(task[q].checked)
  BY DEF EditWrite, ConsentInv, CheckedOK
<1> HIDE DEF left
<1>3. ConsentKept'
  BY <1>1, <1>2 DEF ConsentKept, Unlawful
<1>4. \A r \in Editors : CheckedOK(r)'
  BY <1>0 DEF EditWrite, ConsentInv, CheckedOK, At, Requests, Unlawful
<1>5. QED
  BY <1>3, <1>4 DEF ConsentInv

LEMMA ConsentStep ==
  ASSUME TypeInv, ConsentInv, [SettingsNext]_settingsVars
  PROVE  ConsentInv'
<1>0. TaskInv /\ StoreInv /\ task \in [Requests -> Tasks]
  BY DEF TypeInv, TaskInv
<1>1. ASSUME NEW q \in Sessioners \cup Owners, SessionStep(q) \/ OwnerStep(q)
      PROVE  ConsentInv'
  <2>1. /\ tenant'.recording = tenant.recording /\ tenant'.consent = tenant.consent
        /\ UNCHANGED outdated
    BY <1>0, <1>1
       DEF SessionStep, MemoHit, LoadRow, Keep, Use, OwnerStep, GenerateRead,
           RotateRead, IssueKeys, ActivateRead, RequireUrl, RequireSession,
           Activate, stored, StoreInv, RowType
  <2>2. \A r \in Requests : r # q => task'[r] = task[r]
    BY <1>0, <1>1
       DEF SessionStep, MemoHit, LoadRow, Keep, Use, OwnerStep, GenerateRead,
           RotateRead, IssueKeys, ActivateRead, RequireUrl, RequireSession,
           Activate, Begin, Goto, Finish
  <2>3. q \notin Editors
    BY SettingsAssumption
  <2>4. QED
    BY <2>1, <2>2, <2>3, SameConsent DEF Requests
<1>2. ASSUME NEW q \in Editors, EditStep(q)
      PROVE  ConsentInv'
  <2>0. q \in Requests /\ Editors \subseteq Requests
    BY DEF Requests
  <2>1. ASSUME NEW p \in Procs, NEW edit \in Bodies, EditRead(q, p, edit)
        PROVE  ConsentInv'
    <3> DEFINE t == [pc |-> "write", p |-> p, edit |-> edit, checked |-> Left(edit)]
    <3>1. task' = [task EXCEPT ![q] = t] /\ UNCHANGED <<tenant, outdated>>
      BY <2>1 DEF EditRead, Begin, stored
    <3>2. ~Unlawful(t.checked)
      BY <2>1 DEF EditRead, Allowed
    <3> HIDE DEF t
    <3>3. \A r \in Editors : task'[r] = task[r] \/ task'[r] = t
      BY <1>0, <2>0, <3>1
    <3>4. QED
      BY <3>1, <3>2, <3>3, SameConsent
  <2>2. CASE EditWrite(q)
    BY <2>2, WriteConsent
  <2>3. CASE EditDone(q)
    <3>1. UNCHANGED <<tenant, outdated>>
      BY <2>3 DEF EditDone, stored
    <3>2. ASSUME NEW r \in Editors
          PROVE  task'[r] = task[r] \/ task'[r].pc # "write"
      <4>1. ~At(r, "keep")
        BY <1>0 DEF TaskInv, At, Idle, EditTasks, WriteTasks, DropTasks
      <4>2. task'[r] = IF r = q THEN Idle ELSE Crossed(task[q].p)[r]
        BY <2>0, <2>3 DEF EditDone, Crossed
      <4>3. Crossed(task[q].p)[r] = task[r]
        BY <2>0, <4>1 DEF Crossed
      <4>4. QED
        BY <4>2, <4>3 DEF Idle
    <3>3. QED
      BY <3>1, <3>2, SameConsent
  <2>4. ASSUME NEW hooked \in BOOLEAN, SetWebhook(q, hooked)
        PROVE  ConsentInv'
    <3>1. /\ tenant'.recording = tenant.recording
          /\ tenant'.consent = tenant.consent
          /\ UNCHANGED <<task, outdated>>
      BY <1>0, <2>4 DEF SetWebhook, StoreInv, RowType
    <3>2. QED
      BY <3>1, SameConsent
  <2>5. QED
    BY <1>2, <2>1, <2>2, <2>3, <2>4 DEF EditStep
<1>3. CASE UNCHANGED <<tenant, task, outdated>>
  BY <1>3, SameConsent
<1>4. QED
  BY <1>1, <1>2, <1>3
     DEF SettingsNext, MemoLapses, ExchangeKey, Login, Sign, settingsVars, stored

(* However many edits overlap, and whatever each says and leaves unsaid, a *)
(* row that records calls without consent was left so by an edit that      *)
(* another one overtook between its check and its write.                   *)
THEOREM ConsentAlwaysKept == SettingsSpec => []ConsentKept
<1>1. SettingsInit => ConsentInv
  BY DEF SettingsInit, ConsentInv, ConsentKept, CheckedOK, Unlawful, At, Idle, Requests
<1>2. TypeInv /\ ConsentInv /\ [SettingsNext]_settingsVars => ConsentInv'
  BY ConsentStep
<1>3. ConsentInv => ConsentKept
  BY DEF ConsentInv
<1>4. QED
  BY <1>1, <1>2, <1>3, TypeAlways, PTL DEF SettingsSpec

=============================================================================
