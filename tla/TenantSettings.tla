---------------------------- MODULE TenantSettings ----------------------------
(***************************************************************************)
(* One tenant's row and what is derived from it: the settings that PATCH   *)
(* /config edits, the memo of the session defaults that every process      *)
(* keeps (services/session-manager.ts, utils/cache.ts), the credentials    *)
(* and tokens of the two modes, and the activation of live mode            *)
(* (api/routes/tenants.ts).                                                *)
(*                                                                         *)
(* A request is one asynchronous computation of one process.  Users, roles *)
(* and passwords, the columns that are only displayed, and everything that *)
(* happens to a session after its insert are left out.                     *)
(***************************************************************************)
EXTENDS Naturals

CONSTANTS
    Procs,          \* processes, each with its own memo
    Sessioners,     \* requests to create a session, and expiries of one
    Editors,        \* requests that edit the row
    Owners,         \* the owner's requests on credentials and on live mode
    Bodies,         \* bodies of these edits
    MaxEdits,       \* bound: edits of the session defaults
    DbFails         \* TRUE when the load of the defaults may fail

Consents == {"asked", "NONE"}     \* "asked": DEFAULT or CUSTOM

(* What a body of PATCH /config says.                                      *)
Edits ==
    [defaults : BOOLEAN, recording : {"on", "off", "keep"},
     consent : Consents \cup {"keep"}]

ASSUME SettingsAssumption ==
    /\ Bodies \subseteq Edits
    /\ MaxEdits \in Nat /\ DbFails \in BOOLEAN
    /\ Sessioners \cap (Editors \cup Owners) = {}
    /\ Editors \cap Owners = {}

VARIABLES
    tenant,         \* the row: mode, whether it has a webhook_url, recording,
                    \* consent, and the version of the session defaults
    keys,           \* modes that the row has a key pair for
    tokens,         \* modes of the access tokens signed so far: that they
                    \* expire only takes some away
    opened,         \* modes of the tenant's rows in sessions
    memo,           \* tenantConfigCache of each process
    task,           \* the requests in progress
    answered,       \* history: the last version whose edit was answered
    outdated        \* history: the row is not what the last edit that wrote
                    \* it had been checked to leave

stored == <<tenant, keys, tokens, opened, outdated>>
settingsVars == <<stored, memo, task, answered>>

Modes    == {"sandbox", "live"}
Requests == Sessioners \cup Editors \cup Owners
Idle     == [pc |-> "idle"]

(* What a request holds of the session defaults: a version, or those of    *)
(* the environment; and, as history, whether an edit was answered while    *)
(* the version was being loaded.                                           *)
Environment == [from |-> "environment", version |-> 0, crossed |-> FALSE]
NoMemo      == [from |-> "nowhere", version |-> 0, crossed |-> FALSE]
Defaults    == [from : {"row"}, version : Nat, crossed : BOOLEAN]

(* A new tenant: sandboxed, with the columns' defaults; signup returned a  *)
(* token of the sandbox.                                                   *)
SettingsInit ==
    /\ tenant = [mode |-> "sandbox", hooked |-> FALSE, recording |-> "off",
                 consent |-> "asked", defaults |-> 0]
    /\ keys = {}
    /\ tokens = {"sandbox"}
    /\ opened = {}
    /\ memo = [p \in Procs |-> NoMemo]
    /\ task = [q \in Requests |-> Idle]
    /\ answered = [p \in Procs |-> 0]
    /\ outdated = FALSE

At(q, pc)   == task[q].pc = pc
Begin(q, t) == At(q, "idle") /\ task' = [task EXCEPT ![q] = t]
Goto(q, pc) == task' = [task EXCEPT ![q].pc = pc]
Finish(q)   == task' = [task EXCEPT ![q] = Idle]

-----------------------------------------------------------------------------
(* A request is authenticated by a token, which says the mode.             *)
Authenticated(mode) == mode \in tokens

(* loadTenantConfig: createSession wants the durations.  (expireSession,   *)
(* which wants the cooldown, asks in the same way.)  The memo answers, ... *)
MemoHit(q, p, mode) ==
    /\ Authenticated(mode)
    /\ memo[p] # NoMemo
    /\ Begin(q, [pc |-> "use", p |-> p, mode |-> mode, use |-> memo[p],
                 floor |-> answered[p]])
    /\ UNCHANGED <<stored, memo, answered>>

(* ... or the row, which is kept once the load has come back.  A load that *)
(* fails leaves the memo alone, and the environment's defaults apply.      *)
LoadRow(q, p, mode) ==
    /\ Authenticated(mode)
    /\ memo[p] = NoMemo
    /\ \/ Begin(q, [pc |-> "keep", p |-> p, mode |-> mode,
                    use |-> [from |-> "row", version |-> tenant.defaults,
                             crossed |-> FALSE],
                    floor |-> answered[p]])
       \/ DbFails /\ Begin(q, [pc |-> "use", p |-> p, mode |-> mode,
                               use |-> Environment, floor |-> answered[p]])
    /\ UNCHANGED <<stored, memo, answered>>

Keep(q) ==
    /\ At(q, "keep")
    /\ memo' = [memo EXCEPT ![task[q].p] = task[q].use]
    /\ Goto(q, "use")
    /\ UNCHANGED <<stored, answered>>

(* The session's row is inserted in the mode of the token.                 *)
Use(q) ==
    /\ At(q, "use")
    /\ opened' = opened \cup {task[q].mode}
    /\ Finish(q)
    /\ UNCHANGED <<tenant, keys, tokens, outdated, memo, answered>>

(* An entry lives for 60 s.                                                *)
MemoLapses(p) ==
    /\ memo[p] # NoMemo
    /\ memo' = [memo EXCEPT ![p] = NoMemo]
    /\ UNCHANGED <<stored, task, answered>>

-----------------------------------------------------------------------------
(* PATCH /config: the row is read, and the body is checked against it where *)
(* it says nothing itself; ...                                             *)
(* (Mutant: what the body does not say is not looked at.)                  *)
Effective(said, current) == IF said = "keep" THEN current ELSE said

Left(edit) == [recording |-> Effective(edit.recording, tenant.recording),
               consent |-> Effective(edit.consent, tenant.consent)]

Unlawful(row) == row.recording = "on" /\ row.consent = "NONE"

AllowedByBody(edit) == ~Unlawful(edit)

Allowed(edit) == ~Unlawful(Left(edit))

EditRead(q, p, edit) ==
    /\ edit.defaults => tenant.defaults < MaxEdits
    /\ Allowed(edit)
    /\ Begin(q, [pc |-> "write", p |-> p, edit |-> edit,
                 checked |-> Left(edit)])
    /\ UNCHANGED <<stored, memo, answered>>

(* ... the columns of the body are written, whatever became of the others, *)
(* ...                                                                     *)
EditWrite(q) ==
    LET edit == task[q].edit
    IN  /\ At(q, "write")
        /\ tenant' = [tenant EXCEPT
             !.recording = Effective(edit.recording, @),
             !.consent = Effective(edit.consent, @),
             !.defaults = IF edit.defaults THEN @ + 1 ELSE @]
        /\ outdated' = (Left(edit) # task[q].checked)
        /\ task' = [task EXCEPT ![q] = [pc |-> "drop", p |-> @.p]]
        /\ UNCHANGED <<keys, tokens, opened, memo, answered>>

(* ... and the memo is dropped.  (Mutant: it is left to its 60 s.)         *)
InvalidatedLater(p) == UNCHANGED memo

Invalidated(p) == memo' = [memo EXCEPT ![p] = NoMemo]

Crossed(p) ==
    [q \in Requests |->
       IF At(q, "keep") /\ task[q].p = p
         THEN [task[q] EXCEPT !.use.crossed = TRUE] ELSE task[q]]

EditDone(q) ==
    LET p == task[q].p
    IN  /\ At(q, "drop")
        /\ Invalidated(p)
        /\ answered' = [answered EXCEPT ![p] = tenant.defaults]
        /\ task' = [Crossed(p) EXCEPT ![q] = Idle]
        /\ UNCHANGED stored

(* The webhook's URL, by PATCH /config or by POST /webhooks.               *)
SetWebhook(q, hooked) ==
    /\ At(q, "idle")
    /\ tenant' = [tenant EXCEPT !.hooked = hooked]
    /\ UNCHANGED <<keys, tokens, opened, outdated, memo, task, answered>>

-----------------------------------------------------------------------------
(* POST /auth/keys/generate and /auth/rotate-key: the row is read, the new *)
(* secret is hashed, and the pair of that mode is written.                 *)
(* (Mutants: live keys are for everybody; the pair is named by the tag of  *)
(* its keys.)                                                              *)
MayHaveAny(mode) == TRUE

MayHaveKeys(mode) == mode = "sandbox" \/ tenant.mode = "live"

GenerateRead(q, mode) ==
    /\ MayHaveKeys(mode)
    /\ Begin(q, [pc |-> "issue", mode |-> mode])
    /\ UNCHANGED <<stored, memo, answered>>

RotateRead(q) ==
    /\ Begin(q, [pc |-> "issue", mode |-> tenant.mode])
    /\ UNCHANGED <<stored, memo, answered>>

PairTag(mode) == IF mode = "live" THEN "live" ELSE "test"

Pair(mode) == mode

IssueKeys(q) ==
    /\ At(q, "issue")
    /\ keys' = keys \cup {Pair(task[q].mode)}
    /\ Finish(q)
    /\ UNCHANGED <<tenant, tokens, opened, outdated, memo, answered>>

(* POST /auth/token: the key that is presented selects the mode.           *)
Sign(mode) ==
    /\ tokens' = tokens \cup {mode}
    /\ UNCHANGED <<tenant, keys, opened, outdated, memo, task, answered>>

ExchangeKey(mode) == mode \in keys /\ Sign(mode)

(* POST /auth/dashboard/login: the mode of the tenant.                     *)
Login == Sign(tenant.mode)

(* POST /auth/keys/activate-live: the row and the requirements are read    *)
(* one after the other, ...                                                *)
ActivateRead(q, p) ==
    /\ tenant.mode # "live"
    /\ Begin(q, [pc |-> "url", p |-> p])
    /\ UNCHANGED <<stored, memo, answered>>

RequireUrl(q) ==
    /\ At(q, "url")
    /\ IF tenant.hooked THEN Goto(q, "count") ELSE Finish(q)
    /\ UNCHANGED <<stored, memo, answered>>

Tried == "sandbox" \in opened

RequireSession(q) ==
    /\ At(q, "count")
    /\ IF Tried THEN Goto(q, "activate") ELSE Finish(q)
    /\ UNCHANGED <<stored, memo, answered>>

(* ... and when they are met the mode is written and the memo dropped.     *)
Activate(q) ==
    /\ At(q, "activate")
    /\ tenant' = [tenant EXCEPT !.mode = "live"]
    /\ Invalidated(task[q].p)
    /\ Finish(q)
    /\ UNCHANGED <<keys, tokens, opened, outdated, answered>>

-----------------------------------------------------------------------------
SessionStep(q) ==
    \/ \E p \in Procs, mode \in Modes :
         MemoHit(q, p, mode) \/ LoadRow(q, p, mode)
    \/ Keep(q) \/ Use(q)

EditStep(q) ==
    \/ \E p \in Procs, edit \in Bodies : EditRead(q, p, edit)
    \/ EditWrite(q) \/ EditDone(q)
    \/ \E hooked \in BOOLEAN : SetWebhook(q, hooked)

OwnerStep(q) ==
    \/ \E mode \in Modes : GenerateRead(q, mode)
    \/ RotateRead(q) \/ IssueKeys(q)
    \/ \E p \in Procs : ActivateRead(q, p)
    \/ RequireUrl(q) \/ RequireSession(q) \/ Activate(q)

SettingsNext ==
    \/ \E q \in Sessioners : SessionStep(q)
    \/ \E q \in Editors : EditStep(q)
    \/ \E q \in Owners : OwnerStep(q)
    \/ \E p \in Procs : MemoLapses(p)
    \/ \E mode \in Modes : ExchangeKey(mode)
    \/ Login

SettingsSpec == SettingsInit /\ [][SettingsNext]_settingsVars

-----------------------------------------------------------------------------
(* Properties.                                                             *)

SettingsTypeOK ==
    /\ tenant \in [mode : Modes, hooked : BOOLEAN, recording : {"on", "off"},
                   consent : Consents, defaults : Nat]
    /\ keys \subseteq Modes /\ tokens \subseteq Modes /\ opened \subseteq Modes
    /\ memo \in [Procs -> Defaults \cup {NoMemo}]
    /\ \A q \in Sessioners : ~At(q, "idle") =>
         /\ task[q].use \in Defaults \cup {Environment}
         /\ task[q].floor \in Nat
    /\ answered \in [Procs -> Nat]
    /\ outdated \in BOOLEAN

(* "the first live call is not also the first call ever attempted"         *)
(* (tenants.ts:89-92): whatever keys and tokens of either mode are issued  *)
(* and rotated, and whichever requests overlap, the tenant is live, and    *)
(* has live keys, tokens and sessions, only after a session of the sandbox *)
(* was opened.                                                             *)
LiveIsEarned ==
    "live" \in {tenant.mode} \cup keys \cup tokens \cup opened
      => tenant.mode = "live" /\ "sandbox" \in opened

(* "a config change takes effect on the next session rather than up to a   *)
(* minute later" (tenants.ts:799-801): a session, or an expiry, that the   *)
(* process which answered the edit starts afterwards uses the edited       *)
(* defaults or later ones, whatever loads and lapses of the memo are under *)
(* way, unless the load it relies on was crossed by the edit.              *)
EditsTakeEffect ==
    \A q \in Sessioners :
      At(q, "use") /\ task[q].use # Environment /\ ~task[q].use.crossed
        => task[q].use.version >= task[q].floor

(* "Invariant: recordingEnabled=true requires consentMode != NONE"         *)
(* (tenants.ts:776-795): however many partial edits overlap, each checked  *)
(* against the row that it read and written later, a row that records      *)
(* calls without consent was left so by an edit for which a column that it *)
(* had relied on was changed in between, and is left so no longer than     *)
(* until an edit is written for which none was.                            *)
ConsentKept == Unlawful(tenant) => outdated

=============================================================================
