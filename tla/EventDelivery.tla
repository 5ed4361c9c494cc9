---------------------------- MODULE EventDelivery ----------------------------
(***************************************************************************)
(* One event type on the bus (services/event-bus.ts) and two of its        *)
(* consumer groups (workers/event-consumers.ts): metering, which writes    *)
(* usage rows (services/billing-manager.ts), and tenant-webhook, which     *)
(* posts to the tenant's endpoint (services/tenant-webhook-delivery.ts).   *)
(*                                                                         *)
(* Every process runs one read loop per group.  A command to Redis or      *)
(* Postgres is one action.  All events are of one tenant and, for the      *)
(* metering group, of a metric that is known; the trimming of the stream   *)
(* at about 10000 entries and the websocket fan-out are left out.          *)
(***************************************************************************)
EXTENDS Naturals, Sequences, FiniteSets

CONSTANTS
    Events,        \* the entries ever published, each by one XADD
    Live,          \* those of sessions opened in live mode
    Procs,         \* processes that run startEventConsumers
    Subscriptions, \* the sets of groups that event types are subscribed with
    Count,         \* COUNT of XREADGROUP (10)
    MaxAttempts,   \* attempts of a webhook: the first and the retries (4)
    DbFails,       \* TRUE when a command to Postgres may fail
    RedisFails,    \* TRUE when a command to Redis or its reply may be lost
    MayFlush       \* TRUE when Redis may lose its data

Groups == {"metering", "tenant-webhook"}

ASSUME DeliveryAssumption ==
    /\ Subscriptions \subseteq SUBSET Groups
    /\ Live \subseteq Events
    /\ {Count, MaxAttempts} \subseteq Nat \ {0}
    /\ {DbFails, RedisFails, MayFlush} \subseteq BOOLEAN

VARIABLES
    subscribed,    \* the groups of this event type; never changes
    published,     \* history: the events that were published
    stream,        \* events:{type}
    groups,        \* the consumer groups that exist on the stream
    cursor,        \* entries of the stream each group has delivered
    pending,       \* the pending-entries list of each group
    status,        \* what each process is doing
    loop,          \* the read loops
    hasPeriod,     \* the tenant has its billing_periods row of the month
    metered,       \* how many usage_records rows each event has
    billed,        \* events with a usage_records row in live mode
    deliveries,    \* webhooks a process has in memory, posting or backing off
    posts          \* history: the outcomes of each event's posts

busVars     == <<subscribed, published, stream, groups, cursor, pending>>
billingVars == <<hasPeriod, metered, billed>>
hookVars    == <<deliveries, posts>>
vars        == <<busVars, status, loop, billingVars, hookVars>>

Loops  == Procs \X Groups
Off    == [pc |-> "off", batch |-> <<>>, live |-> FALSE]
Pcs    == {"off", "read", "handle", "period", "open", "record", "ack"}

DeliveryTypeOK ==
    /\ subscribed \in Subscriptions
    /\ published \subseteq Events
    /\ stream \in Seq(published)
    /\ groups \subseteq subscribed
    /\ \A g \in groups : cursor[g] \in 0 .. Len(stream)
    /\ pending \in [Groups -> SUBSET published]
    /\ status \in [Procs -> {"down", "up", "stopping"}]
    /\ \A l \in Loops :
         /\ loop[l].pc \in Pcs
         /\ loop[l].batch \in Seq(published)
         /\ loop[l].batch = <<>> <=> loop[l].pc \in {"off", "read"}
    /\ hasPeriod \in BOOLEAN
    /\ metered \in [Events -> Nat]
    /\ billed \subseteq published
    /\ \A p \in Procs :
         deliveries[p] \subseteq [event : published, attempt : 1 .. MaxAttempts]
    /\ posts \in [Events -> Seq(BOOLEAN)]

Init ==
    /\ subscribed \in Subscriptions
    /\ published = {}
    /\ stream = <<>>
    /\ groups = {}
    /\ cursor = [g \in Groups |-> 0]
    /\ pending = [g \in Groups |-> {}]
    /\ status = [p \in Procs |-> "down"]
    /\ loop = [l \in Loops |-> Off]
    /\ hasPeriod = FALSE
    /\ metered = [e \in Events |-> 0]
    /\ billed = {}
    /\ deliveries = [p \in Procs |-> {}]
    /\ posts = [e \in Events |-> <<>>]

At(l, pc)   == loop[l].pc = pc
Goto(l, pc) == loop' = [loop EXCEPT ![l].pc = pc]
Entry(l)    == Head(loop[l].batch)

-----------------------------------------------------------------------------
(* publish: XADD.  An XADD that fails is logged, and the event is gone.    *)
Publish(e) ==
    /\ e \notin published
    /\ published' = published \cup {e}
    /\ stream' = Append(stream, e)
    /\ UNCHANGED <<subscribed, groups, cursor, pending, status, loop,
                   billingVars, hookVars>>

(* Redis restarts empty.                                                   *)
Flush ==
    /\ MayFlush
    /\ stream' = <<>>
    /\ groups' = {}
    /\ cursor' = [g \in Groups |-> 0]
    /\ pending' = [g \in Groups |-> {}]
    /\ UNCHANGED <<subscribed, published, status, loop, billingVars, hookVars>>

-----------------------------------------------------------------------------
(* Processes start, are asked to stop, and exit, asked or not.             *)
Start(p) ==
    /\ status[p] = "down"
    /\ status' = [status EXCEPT ![p] = "up"]
    /\ UNCHANGED <<busVars, loop, billingVars, hookVars>>

(* close: running is set to false and the readers quit.                    *)
Stop(p) ==
    /\ status[p] = "up"
    /\ status' = [status EXCEPT ![p] = "stopping"]
    /\ UNCHANGED <<busVars, loop, billingVars, hookVars>>

Exit(p) ==
    /\ status[p] # "down"
    /\ status' = [status EXCEPT ![p] = "down"]
    /\ loop' = [l \in Loops |-> IF l[1] = p THEN Off ELSE loop[l]]
    /\ deliveries' = [deliveries EXCEPT ![p] = {}]
    /\ UNCHANGED <<busVars, billingVars, posts>>

-----------------------------------------------------------------------------
(* XGROUP CREATE at "$": a group that exists is left as it is.              *)
(* (Mutant: the group is created on another key.)                          *)
EnsureElsewhere(g) == UNCHANGED <<groups, cursor>>

EnsureGroup(g) ==
    IF g \in groups THEN UNCHANGED <<groups, cursor>>
    ELSE /\ groups' = groups \cup {g}
         /\ cursor' = [cursor EXCEPT ![g] = Len(stream)]

(* subscribe: the loop starts also when the group could not be created.    *)
Subscribe(l) ==
    /\ status[l[1]] = "up"
    /\ l[2] \in subscribed
    /\ At(l, "off")
    /\ \/ EnsureGroup(l[2])
       \/ RedisFails /\ UNCHANGED <<groups, cursor>>
    /\ Goto(l, "read")
    /\ UNCHANGED <<subscribed, published, stream, pending, status,
                   billingVars, hookVars>>

(* The read loop.  XREADGROUP ">" delivers the next entries, once for the  *)
(* group: they are pending until acknowledged.                             *)
FreshEntries(g) ==
    SubSeq(stream, cursor[g] + 1,
           IF cursor[g] + Count < Len(stream) THEN cursor[g] + Count
                                              ELSE Len(stream))

ReadEntries(g, entries) ==
    /\ g \in groups
    /\ entries # <<>>
    /\ cursor' = [cursor EXCEPT ![g] =
         IF @ + Count < Len(stream) THEN @ + Count ELSE Len(stream)]
    /\ pending' = [pending EXCEPT ![g] =
         @ \cup {entries[i] : i \in DOMAIN entries}]

Read(l) ==
    LET entries == FreshEntries(l[2])
    IN  /\ At(l, "read")
        /\ ReadEntries(l[2], entries)
        /\ loop' = [loop EXCEPT ![l] =
             [pc |-> "handle", batch |-> entries, live |-> FALSE]]
        /\ UNCHANGED <<subscribed, published, stream, groups, status,
                       billingVars, hookVars>>

(* The reply gets lost with the connection: an error, and the next read    *)
(* unless the loop was stopped.                                            *)
Resume(l) == IF status[l[1]] = "stopping" THEN "off" ELSE "read"

ReadLost(l) ==
    /\ RedisFails
    /\ At(l, "read")
    /\ ReadEntries(l[2], FreshEntries(l[2]))
    /\ Goto(l, Resume(l))
    /\ UNCHANGED <<subscribed, published, stream, groups, status,
                   billingVars, hookVars>>

(* NOGROUP: the loop creates the group again.                              *)
Recover(l) ==
    /\ status[l[1]] = "up"
    /\ At(l, "read")
    /\ l[2] \notin groups
    /\ EnsureGroup(l[2])
    /\ UNCHANGED <<subscribed, published, stream, pending, status, loop,
                   billingVars, hookVars>>

(* The loop goes on to the next entry of its batch; after the last one it  *)
(* reads again, unless it was stopped.                                     *)
(* (Mutant: it handles one entry more than it has.)                        *)
NextEntryOrNone(l) ==
    loop' = [loop EXCEPT ![l] =
      [pc |-> IF @.batch # <<>> THEN "handle" ELSE "read",
       batch |-> Tail(@.batch), live |-> FALSE]]

NextEntry(l) ==
    LET rest == Tail(loop[l].batch)
    IN  loop' = [loop EXCEPT ![l] =
          [pc |-> IF rest # <<>> THEN "handle" ELSE Resume(l),
           batch |-> rest, live |-> FALSE]]

(* XACK.                                                                   *)
Ack(l) ==
    /\ At(l, "ack")
    /\ status[l[1]] = "up"
    /\ pending' = [pending EXCEPT ![l[2]] = @ \ {Entry(l)}]
    /\ NextEntry(l)
    /\ UNCHANGED <<subscribed, published, stream, groups, cursor, status,
                   billingVars, hookVars>>

(* It fails when the reader has quit or the connection is lost; the entry  *)
(* stays pending.                                                          *)
AckFails(l) ==
    /\ At(l, "ack")
    /\ RedisFails \/ status[l[1]] = "stopping"
    /\ NextEntry(l)
    /\ UNCHANGED <<busVars, status, billingVars, hookVars>>

-----------------------------------------------------------------------------
(* The metering handler.  resolveMode: the mode the payload carries or     *)
(* that of its session; sandbox when the lookup fails.                     *)
(* (Mutant: live when it fails.)                                           *)
ModesOrLive(e) == {e \in Live} \cup IF DbFails THEN {TRUE} ELSE {}

Modes(e) == {e \in Live} \cup IF DbFails THEN {FALSE} ELSE {}

ResolveMode(l) ==
    /\ l[2] = "metering"
    /\ At(l, "handle")
    /\ \E live \in Modes(Entry(l)) :
         loop' = [loop EXCEPT ![l].pc = "period", ![l].live = live]
    /\ UNCHANGED <<busVars, status, billingVars, hookVars>>

(* ensureActivePeriod: look the period up, ...                             *)
FindPeriod(l) ==
    /\ At(l, "period")
    /\ Goto(l, IF hasPeriod THEN "record" ELSE "open")
    /\ UNCHANGED <<busVars, status, billingVars, hookVars>>

(* ... or insert it.                                                       *)
OpenPeriod(l) ==
    /\ At(l, "open")
    /\ ~hasPeriod
    /\ hasPeriod' = TRUE
    /\ Goto(l, "record")
    /\ UNCHANGED <<busVars, status, metered, billed, hookVars>>

(* (tenant_id, period_start) is unique: an insert that comes second fails, *)
(* and recordUsage swallows the error.                                     *)
OpenCollides(l) ==
    /\ At(l, "open")
    /\ hasPeriod
    /\ Goto(l, "ack")
    /\ UNCHANGED <<busVars, status, billingVars, hookVars>>

RecordUsage(l) ==
    /\ At(l, "record")
    /\ metered' = [metered EXCEPT ![Entry(l)] = @ + 1]
    /\ billed' = IF loop[l].live THEN billed \cup {Entry(l)} ELSE billed
    /\ Goto(l, "ack")
    /\ UNCHANGED <<busVars, status, hasPeriod, hookVars>>

(* recordUsage never throws.                                               *)
MeteringFails(l) ==
    /\ DbFails
    /\ loop[l].pc \in {"period", "open", "record"}
    /\ Goto(l, "ack")
    /\ UNCHANGED <<busVars, status, billingVars, hookVars>>

-----------------------------------------------------------------------------
(* The tenant-webhook handler looks the endpoint up and returns; the posts *)
(* go on by themselves.  A tenant may have no endpoint, and a failed       *)
(* lookup counts as none.                                                  *)
Deliver(l) ==
    /\ l[2] = "tenant-webhook"
    /\ At(l, "handle")
    /\ \E hooked \in BOOLEAN :
         deliveries' = [deliveries EXCEPT ![l[1]] =
           @ \cup IF hooked THEN {[event |-> Entry(l), attempt |-> 1]} ELSE {}]
    /\ Goto(l, "ack")
    /\ UNCHANGED <<busVars, status, billingVars, posts>>

(* attempt: a post, and the next one after the backoff if it failed.       *)
(* (Mutant: whether it failed or not.)                                     *)
RetriesAll(d, ok) == d.attempt < MaxAttempts

Retries(d, ok) == ~ok /\ d.attempt < MaxAttempts

Attempt(p, d, ok) ==
    /\ d \in deliveries[p]
    /\ posts' = [posts EXCEPT ![d.event] = Append(@, ok)]
    /\ deliveries' = [deliveries EXCEPT ![p] =
         (@ \ {d}) \cup IF Retries(d, ok)
                          THEN {[d EXCEPT !.attempt = @ + 1]} ELSE {}]
    /\ UNCHANGED <<busVars, status, loop, billingVars>>

-----------------------------------------------------------------------------
LoopStep(l) ==
    \/ Subscribe(l)
    \/ Read(l)
    \/ ReadLost(l)
    \/ Recover(l)
    \/ Ack(l)
    \/ AckFails(l)
    \/ ResolveMode(l)
    \/ FindPeriod(l)
    \/ OpenPeriod(l)
    \/ OpenCollides(l)
    \/ RecordUsage(l)
    \/ MeteringFails(l)
    \/ Deliver(l)

Next ==
    \/ \E e \in Events : Publish(e)
    \/ Flush
    \/ \E p \in Procs : Start(p) \/ Stop(p) \/ Exit(p)
    \/ \E l \in Loops : LoopStep(l)
    \/ \E p \in Procs : \E d \in deliveries[p], ok \in BOOLEAN :
         Attempt(p, d, ok)

(* A read loop goes on for as long as its process does, a process that is  *)
(* down is started again, and timers fire.  Nothing obliges anybody to     *)
(* publish.                                                                *)
Fairness ==
    /\ \A l \in Loops : WF_vars(LoopStep(l))
    /\ \A p \in Procs :
         /\ WF_vars(Start(p))
         /\ WF_vars(\E d \in deliveries[p], ok \in BOOLEAN : Attempt(p, d, ok))

Spec == Init /\ [][Next]_vars /\ Fairness

-----------------------------------------------------------------------------
(* Properties.                                                             *)

(* "Never invent billable usage" (event-consumers.ts:50-51): however often *)
(* processes die, replies get lost and Redis is emptied between reading,   *)
(* recording and acknowledging, an event is metered once at most, and      *)
(* billed only if its session was live (billing-manager.ts:59-60).         *)
NeverOvercharged ==
    \A e \in Events : metered[e] <= 1 /\ (e \in billed => e \in Live)

(* tenant-webhook-delivery.ts:28-36, 137-174: one event's posts are        *)
(* MaxAttempts at most and end with the first that succeeds, whichever     *)
(* processes read, crashed and restarted meanwhile.                        *)
PostsEndWithSuccess ==
    \A e \in Events :
      /\ Len(posts[e]) <= MaxAttempts
      /\ \A i \in 1 .. Len(posts[e]) - 1 : ~posts[e][i]

(* event-bus.ts:161-191: a loop that loses its group creates it again, so  *)
(* that no group falls behind for ever while some process stays up.        *)
StreamIsDrained ==
    (\E p \in Procs : <>[](status[p] = "up"))
      => \A g \in Groups :
           []<>(g \in subscribed => g \in groups /\ cursor[g] = Len(stream))

(* event-bus.ts:155: an entry that was not acknowledged "remains as        *)
(* pending for retry / claim by another consumer"; line 34 promises        *)
(* "at-least-once delivery with replay".  While some process stays up, an  *)
(* entry that is pending is acknowledged in the end.                       *)
PendingIsRetried ==
    (\E p \in Procs : <>[](status[p] = "up"))
      => \A g \in Groups, e \in Events : e \in pending[g] ~> e \notin pending[g]

=============================================================================
