---------------------------- MODULE InboundRouting ----------------------------
(***************************************************************************)
(* The provider's webhooks over the sessions: inbound calls                *)
(* (services/call-router.ts), inbound SMS (services/sms-router.ts), reports *)
(* on a call's status (services/webhook-handler.ts), and the dead-letter   *)
(* list with the operators' two requests on it (api/routes/admin.ts).      *)
(*                                                                         *)
(* The provider repeats a webhook it had no answer to; the repetition may  *)
(* overtake the handling of the first.  What a handler starts without      *)
(* awaiting it is a task of its own.  A webhook's signature, the wording   *)
(* of its answer, call counters and published events are left out.  What a *)
(* hash says of mode, direction and recording never changes and is chosen  *)
(* where it is read.                                                       *)
(***************************************************************************)
EXTENDS SessionManager

CONSTANTS
    Calls,          \* sessionIds the provider gives to inbound calls
    Texts,          \* ids it gives to inbound SMS
    Reports,        \* kinds of status report on a call
    Deliveries,     \* places for requests that are handled at one time
    MaxMail,        \* bound: calls and texts that ever come in
    MaxRequests,    \* bound: requests of the provider and of the clients
    Failing         \* the deliveries whose store commands may fail

ASSUME InboundAssumption ==
    /\ MaxMail \in Nat /\ MaxRequests \in Nat
    /\ Deliveries \subseteq Nat
    /\ Failing \subseteq Deliveries
    /\ Calls \cap Texts = {}
    /\ Reports \subseteq
         {"ringing", "answered", "completed", "missed", "failed"}

(* parseVoiceWebhook and parseSmsWebhook: the eventId of a webhook joins    *)
(* the provider's id and the kind of event.                                *)
IncomingCalls == {[id |-> k, type |-> "incoming_call"] : k \in Calls}
IncomingTexts == {[id |-> m, type |-> "sms"] : m \in Texts}
StatusReports == {[id |-> k, type |-> r] : k \in Calls, r \in Reports}
Incoming      == IncomingCalls \cup IncomingTexts
Events        == Incoming \cup StatusReports

StatusOf(type) ==
    CASE type = "ringing" -> "RINGING"
      [] type = "answered" -> "ANSWERED" [] type = "completed" -> "COMPLETED"
      [] type = "missed" -> "MISSED"     [] type = "failed" -> "FAILED"

VARIABLES
    mail,           \* from and to of each call and text that came in
    requests,       \* how many requests were made
    handler,        \* the webhook a delivery is handling
    decision,       \* webhook:dedup:{eventId}
    tasks,          \* work that handlers started and did not await
    callRecords,    \* call_records: the id they carry, and their status
    smsRecords,     \* sms_records
    dlq,            \* webhook_dlq
    told,           \* history: what the provider was told about an event
    sent,           \* history: how often a text was handed to the carrier
    fate,           \* history: what became of the calls and the texts
    seen            \* history: what was right while a delivery was handled

storeVars   == <<decision, callRecords, smsRecords, dlq>>
historyVars == <<told, sent, fate>>
inboundVars == <<mail, handler, tasks, storeVars, historyVars>>
allVars     == <<vars, inboundVars, requests, seen>>

NoMail   == [to |-> "nobody"]
Idle     == [pc |-> "idle"]
Unseen   == [ends |-> {}, nobody |-> FALSE]
NoAnswer == [action |-> "none"]
Refuse    == [action |-> "refuse"]
Processed == [action |-> "status_processed"]
Split     == [action |-> "two answers"]
Waived    == [action |-> "no promise"]

InboundInit ==
    /\ SessionInit
    /\ mail = [i \in Calls \cup Texts |-> NoMail]
    /\ requests = 0
    /\ handler = [d \in Deliveries |-> Idle]
    /\ decision = [e \in Events |-> NoAnswer]
    /\ tasks = {}
    /\ callRecords = {}
    /\ smsRecords = <<>>
    /\ dlq = {}
    /\ told = [e \in Incoming |-> NoAnswer]
    /\ sent = [e \in IncomingTexts |-> 0]
    /\ fate = {}
    /\ seen = [d \in Deliveries |-> Unseen]

HandlerAt(d, pc) == handler[d].pc = pc
Proceed(d, pc)   == handler' = [handler EXCEPT ![d].pc = pc]
Event(d)         == handler[d].ev
Mail(d)          == mail[Event(d).id]
IsCall(e)        == e.type = "incoming_call"

(* The provider is told `ans' about e.  Once the dedup key could not do its *)
(* work, there is no promise about e any more.                             *)
Tell(e, ans) ==
    told' = [told EXCEPT ![e] = IF @ = NoAnswer THEN ans
                                ELSE IF @ \in {ans, Waived} THEN @ ELSE Split]

WaiveIf(e, exposed) ==
    told' = [i \in Incoming |-> IF i = e /\ exposed THEN Waived ELSE told[i]]

(* The provider got a decision on e; or e was to be listed for the         *)
(* operators and could not be, which only the log knows.                   *)
Answered(e) == fate' = fate \cup {[ev |-> e, is |-> "answered"]}
Lost(e)     == fate' = fate \cup {[ev |-> e, is |-> "lost"]}

-----------------------------------------------------------------------------
(* A webhook arrives, and takes the first free place.  Status reports are  *)
(* on calls that came in.                                                  *)
Receive(d, e) ==
    /\ HandlerAt(d, "idle")
    /\ \A o \in Deliveries : HandlerAt(o, "idle") => d <= o
    /\ \/ /\ e \in Incoming
          /\ mail[e.id] = NoMail
          /\ Cardinality({i \in DOMAIN mail : mail[i] # NoMail}) < MaxMail
          /\ \E ph \in Phones, n \in Numbers :
               mail' = [mail EXCEPT ![e.id] = [from |-> ph, to |-> n]]
       \/ /\ mail[e.id] # NoMail
          /\ UNCHANGED mail
    /\ handler' = [handler EXCEPT ![d] =
         [pc |-> "lookup", ev |-> e]]
    /\ UNCHANGED <<tasks, storeVars, historyVars>>

(* The dedup key is read, for calls and texts a second time by the router, *)
(* which decides.  A hit answers the decision of the first delivery, ...   *)
LookupHit(d) ==
    /\ HandlerAt(d, "lookup")
    /\ decision[Event(d)] # NoAnswer
    /\ IF Event(d) \in Incoming
         THEN Tell(Event(d), decision[Event(d)]) /\ Answered(Event(d))
         ELSE UNCHANGED <<told, fate>>
    /\ handler' = [handler EXCEPT ![d] = Idle]
    /\ UNCHANGED <<mail, tasks, storeVars, sent>>

(* ... a miss starts over, also when another delivery of the event is      *)
(* being handled; so does a lookup that fails.                             *)
Overtakes(d) ==
    \E o \in Deliveries \ {d} : ~HandlerAt(o, "idle") /\ Event(o) = Event(d)

LookupMiss(d) ==
    /\ HandlerAt(d, "lookup")
    /\ decision[Event(d)] = NoAnswer \/ d \in Failing
    /\ Proceed(d, IF Event(d) \in Incoming THEN "members" ELSE "report")
    /\ WaiveIf(Event(d), decision[Event(d)] # NoAnswer \/ Overtakes(d))
    /\ UNCHANGED <<mail, tasks, storeVars, sent, fate>>

-----------------------------------------------------------------------------
(* routeIncomingCall and routeIncomingSms: the sessions on the number      *)
(* dialled, none if the command fails.  A handler that had to go on without *)
(* what it asked for is `impaired': its answer need not be the right one.  *)
SearchFor(d, todo, impaired) ==
    handler' = [handler EXCEPT ![d] =
      [pc |-> "probe", ev |-> @.ev, todo |-> todo, impaired |-> impaired]]

Members(d) ==
    /\ HandlerAt(d, "members")
    /\ \/ SearchFor(d, proxySessions[Mail(d).to], FALSE)
       \/ d \in Failing /\ SearchFor(d, {}, TRUE)
    /\ UNCHANGED <<mail, tasks, storeVars, historyVars>>

(* ... one by one, until the caller's phone, hashed for the session's      *)
(* tenant, is one of its parties.                                          *)
Hashed(s, ph) == <<tenantOf(rows[s].a), ph>>

Candidate(s, ph) ==
    /\ s \in hashId
    /\ hashState[s] \in LiveStates
    /\ Hashed(s, ph) \in hashParties[s]

(* A session of the sandbox answers a call with a message, and one with a  *)
(* direction or with inconsistent recording settings may refuse it.        *)
(* What a routed call leaves behind is not awaited: its record, under the  *)
(* webhook's eventId, and the counters in the session's hash.              *)
CallTasks(d, s) ==
    {[task |-> t, d |-> d, ev |-> Event(d), s |-> s] :
       t \in {"record", "bump"}}

Verdicts(d) ==
    {"connect", "deny"} \cup IF IsCall(Event(d)) THEN {"simulate"} ELSE {}

Probe(d, s) ==
    /\ HandlerAt(d, "probe")
    /\ s \in handler[d].todo
    /\ \/ /\ Candidate(s, Mail(d).from)
          /\ \E v \in Verdicts(d) :
               /\ handler' = [handler EXCEPT ![d] =
                    [pc |-> IF v = "connect" THEN "dest" ELSE "remember",
                     ev |-> @.ev, s |-> s,
                     isA |-> Hashed(s, Mail(d).from) = rows[s].a,
                     ans |-> [action |-> v, s |-> s],
                     impaired |-> @.impaired]]
               /\ tasks' = IF v = "simulate" THEN tasks \cup CallTasks(d, s)
                                             ELSE tasks
       \/ /\ ~Candidate(s, Mail(d).from)
          /\ handler' = [handler EXCEPT ![d].todo = @ \ {s}]
          /\ UNCHANGED tasks
    /\ UNCHANGED <<mail, storeVars, historyVars>>

(* A hash that cannot be read is skipped for a call; an SMS fails.         *)
ProbeFails(d, s) ==
    /\ HandlerAt(d, "probe")
    /\ s \in handler[d].todo
    /\ d \in Failing
    /\ IF IsCall(Event(d))
         THEN handler' = [handler EXCEPT ![d].todo = @ \ {s},
                                         ![d].impaired = TRUE]
         ELSE Proceed(d, "throw")
    /\ UNCHANGED <<mail, tasks, storeVars, historyVars>>

(* No session: the call gets what the tenant configured for it, the SMS is *)
(* dropped.                                                                *)
Unmatched(d) ==
    /\ HandlerAt(d, "probe")
    /\ handler[d].todo = {}
    /\ handler' = [handler EXCEPT ![d] =
         [pc |-> "remember", ev |-> @.ev, ans |-> Refuse,
          impaired |-> @.impaired]]
    /\ UNCHANGED <<mail, tasks, storeVars, historyVars>>

(* The destination is the other party, from the session's row.             *)
(* (Mutant: the parties are mixed up.)                                     *)
DestinationSame(d) ==
    IF handler[d].isA THEN rows[handler[d].s].a ELSE rows[handler[d].s].b

Destination(d) ==
    IF handler[d].isA THEN rows[handler[d].s].b ELSE rows[handler[d].s].a

Resolve(d) ==
    /\ HandlerAt(d, "dest")
    /\ \/ handler' = [handler EXCEPT ![d].pc = "remember", ![d].ans =
            [action |-> "connect", s |-> handler[d].s, to |-> Destination(d)]]
       \/ /\ d \in Failing
          /\ handler' = [handler EXCEPT ![d].pc = "remember",
                           ![d].ans = Refuse, ![d].impaired = TRUE]
    /\ UNCHANGED <<mail, tasks, storeVars, historyVars>>

-----------------------------------------------------------------------------
(* The decision is cached for 60 s; a failure is only logged.              *)
(* (Mutant: refusals are not cached.)                                      *)
RememberConnects(d) ==
    decision' = IF handler[d].ans = Refuse THEN decision
                ELSE [decision EXCEPT ![Event(d)] = handler[d].ans]

Remember(d) == decision' = [decision EXCEPT ![Event(d)] = handler[d].ans]

Answer(d) ==
    LET e    == Event(d)
        text == ~IsCall(e) /\ handler[d].ans.action = "connect"
    IN  /\ HandlerAt(d, "remember")
        /\ \/ /\ Remember(d)
              /\ IF text THEN UNCHANGED told ELSE Tell(e, handler[d].ans)
           \/ /\ d \in Failing
              /\ WaiveIf(e, TRUE)
              /\ UNCHANGED decision
        /\ IF text THEN Proceed(d, "insert") /\ UNCHANGED fate
                   ELSE handler' = [handler EXCEPT ![d] = Idle] /\ Answered(e)
        /\ tasks' = IF IsCall(e) /\ handler[d].ans.action = "connect"
                      THEN tasks \cup CallTasks(d, handler[d].s) ELSE tasks
        /\ UNCHANGED <<mail, callRecords, smsRecords, dlq, sent>>

(* An SMS is recorded first, then handed to forward() and answered.        *)
InsertText(d) ==
    LET text == [d |-> d, ev |-> Event(d)]
    IN  /\ HandlerAt(d, "insert")
        /\ \/ smsRecords' = [i \in DOMAIN smsRecords \cup {text} |->
                             IF i = text THEN "PENDING" ELSE smsRecords[i]]
           \/ d \in Failing /\ UNCHANGED smsRecords
        /\ tasks' = tasks \cup {[task |-> "forward", d |-> d, ev |-> Event(d)]}
        /\ Tell(Event(d), handler[d].ans)
        /\ Answered(Event(d))
        /\ handler' = [handler EXCEPT ![d] = Idle]
        /\ UNCHANGED <<mail, decision, callRecords, dlq, sent>>

Done(t) == tasks' = tasks \ {t}

Record(t) ==
    /\ t \in tasks
    /\ t.task = "record"
    /\ \/ callRecords' = callRecords \cup
                           {[cpaas_call_id |-> t.ev, status |-> "RINGING"]}
       \/ t.d \in Failing /\ UNCHANGED callRecords
    /\ Done(t)
    /\ UNCHANGED <<mail, handler, decision, smsRecords, dlq, historyVars>>

(* HSET last_call_at and HINCRBY call_count create the key if it has gone, *)
(* without an id, a state or a TTL.                                        *)
Bump(t) ==
    /\ t \in tasks
    /\ t.task = "bump"
    /\ hashState' = IF hashState[t.s] = "none"
                      THEN [hashState EXCEPT ![t.s] = "bare"] ELSE hashState
    /\ Done(t)
    /\ UNCHANGED <<mail, handler, storeVars, historyVars>>

(* forward(): the carrier accepts the message or not, or the session is of *)
(* the sandbox and it is not asked; then the record gets its final status. *)
(* (Mutant: the carrier's own word is written.)                            *)
OutcomesRaw == {"sent", "failed"}

Outcomes == {"DELIVERED", "FAILED"}

Forward(t) ==
    /\ t \in tasks
    /\ t.task = "forward"
    /\ \E status \in Outcomes :
         tasks' = (tasks \ {t}) \cup {[t EXCEPT !.task = status]}
    /\ \/ told[t.ev] # Waived /\ sent' = [sent EXCEPT ![t.ev] = @ + 1]
       \/ UNCHANGED sent
    /\ UNCHANGED <<mail, handler, storeVars, told, fate>>

Settle(t) ==
    LET text == [d |-> t.d, ev |-> t.ev]
    IN  /\ t \in tasks
        /\ t.task \in Outcomes
        /\ \/ /\ text \in DOMAIN smsRecords
              /\ smsRecords' = [smsRecords EXCEPT ![text] = t.task]
           \/ /\ t.d \in Failing \/ text \notin DOMAIN smsRecords
              /\ UNCHANGED smsRecords
        /\ Done(t)
        /\ UNCHANGED <<mail, handler, decision, callRecords, dlq, historyVars>>

-----------------------------------------------------------------------------
(* handleStatusEvent updates the call's records by the provider's          *)
(* sessionId; a failure is only logged.                                    *)
Matches(r, e) == r.cpaas_call_id = e.id

Report(d) ==
    /\ HandlerAt(d, "report")
    /\ \/ callRecords' = {IF Matches(r, Event(d))
                            THEN [r EXCEPT !.status = StatusOf(Event(d).type)]
                            ELSE r : r \in callRecords}
       \/ d \in Failing /\ UNCHANGED callRecords
    /\ Proceed(d, "mark")
    /\ UNCHANGED <<mail, tasks, decision, smsRecords, dlq, historyVars>>

(* Its dedup key is set afterwards, and a failure of that does throw.      *)
MarkProcessed(d) ==
    /\ HandlerAt(d, "mark")
    /\ \/ /\ decision' = [decision EXCEPT ![Event(d)] = Processed]
          /\ handler' = [handler EXCEPT ![d] = Idle]
       \/ d \in Failing /\ Proceed(d, "throw") /\ UNCHANGED decision
    /\ UNCHANGED <<mail, tasks, callRecords, smsRecords, dlq, historyVars>>

(* A handler that throws puts the webhook into the dead-letter list; the    *)
(* provider is answered 200 all the same, and a failure of the insert is   *)
(* only logged.  (Mutant: only voice webhooks are put there.)              *)
PushVoiceOnly(e) ==
    IF e \in IncomingTexts THEN UNCHANGED dlq
    ELSE dlq' = dlq \cup {[ev |-> e, status |-> "PENDING"]}

PushToDlq(e) == dlq' = dlq \cup {[ev |-> e, status |-> "PENDING"]}

Throw(d) ==
    /\ HandlerAt(d, "throw")
    /\ \/ PushToDlq(Event(d)) /\ UNCHANGED fate
       \/ d \in Failing /\ Lost(Event(d)) /\ UNCHANGED dlq
    /\ handler' = [handler EXCEPT ![d] = Idle]
    /\ UNCHANGED <<mail, tasks, decision, callRecords, smsRecords, told, sent>>

(* POST /admin/dlq/retry for all or some of the PENDING entries, and       *)
(* POST /admin/dlq/:id/abandon for any entry.                              *)
DlqRetry ==
    /\ \E ids \in (SUBSET {r \in dlq : r.status = "PENDING"}) \ {{}} :
         dlq' = (dlq \ ids) \cup {[r EXCEPT !.status = "RETRYING"] : r \in ids}
    /\ UNCHANGED <<mail, handler, tasks, decision, callRecords, smsRecords,
                   historyVars>>

DlqAbandon(r) ==
    /\ r.status # "ABANDONED"
    /\ dlq' = (dlq \ {r}) \cup {[r EXCEPT !.status = "ABANDONED"]}
    /\ UNCHANGED <<mail, handler, tasks, decision, callRecords, smsRecords,
                   historyVars>>

(* The dedup key's 60 s are over, which only a later lookup can tell.      *)
DecisionLapses(e) ==
    /\ decision[e] # NoAnswer
    /\ \E d \in Deliveries : HandlerAt(d, "lookup") /\ Event(d) = e
    /\ decision' = [decision EXCEPT ![e] = NoAnswer]
    /\ WaiveIf(e, TRUE)
    /\ UNCHANGED <<mail, handler, tasks, callRecords, smsRecords, dlq, sent,
                   fate>>

Handle(d) ==
    \/ \E e \in Events : Receive(d, e)
    \/ LookupHit(d)
    \/ LookupMiss(d)
    \/ Members(d)
    \/ \E s \in Sessions : Probe(d, s) \/ ProbeFails(d, s)
    \/ Unmatched(d)
    \/ Resolve(d)
    \/ Answer(d)
    \/ InsertText(d)
    \/ Report(d)
    \/ MarkProcessed(d)
    \/ Throw(d)

InboundStep ==
    \/ /\ \/ \E d \in Deliveries : Handle(d)
          \/ \E t \in tasks : Record(t) \/ Forward(t) \/ Settle(t)
          \/ DlqRetry
          \/ \E r \in dlq : DlqAbandon(r)
          \/ \E e \in Events : DecisionLapses(e)
       /\ UNCHANGED vars
    \/ /\ \E t \in tasks : Bump(t)
       /\ UNCHANGED <<poolVars, rows, due, hashId, ttl, indexVars, req, job>>

-----------------------------------------------------------------------------
(* What is right, of the sessions as they are: the phones that a caller    *)
(* matched to s may be connected to, and whether it may be told that there *)
(* is no session.                                                          *)
InForce(s) == HasRow(s) /\ (IsLive(s) \/ Expiring(s) \/ Swapping(s))

Peers(s, p) ==
    LET lines == {rows[s].b} \cup (hashParties[s] \ {rows[s].a})
    IN  CASE p = rows[s].a -> lines
          [] p \in lines  -> {rows[s].a}
          [] OTHER         -> {}

Ends(s, m) ==
    IF InForce(s) /\ rows[s].proxy = m.to
      THEN Peers(s, Hashed(s, m.from)) ELSE {}

Steady(s) ==
    rows[s].state = "ACTIVE" /\ s \notin due /\ ~Creating(s) /\ ~Swapping(s)

Nobody(m) ==
    \A s \in Sessions : Steady(s) => Ends(s, m) = {}

(* `seen' gathers it in each state of the search, and from a match to the  *)
(* answer.                                                                 *)
Searching(d) ==
    /\ handler[d].pc \in {"lookup", "members", "probe"}
    /\ Event(d) \in Incoming

Answering(d) == handler[d].pc \in {"remember", "insert"}

Observe ==
    seen' = [d \in Deliveries |->
      CASE Searching(d)' ->
             [ends |-> {}, nobody |-> seen[d].nobody \/ Nobody(Mail(d))']
        [] HandlerAt(d, "dest")' ->
             [ends |-> seen[d].ends \cup Ends(handler[d].s, Mail(d))',
              nobody |-> FALSE]
        [] Answering(d)' -> seen[d]
        [] OTHER -> Unseen]

(* Requests that arrive in a step, of the provider or of a client.         *)
Arrivals ==
    {d \in Deliveries : HandlerAt(d, "idle") /\ ~HandlerAt(d, "idle")'}
      \cup {c \in Clients : At(c, "idle") /\ ~At(c, "idle")'}

(* A behaviour ends when the last request has been handled.                *)
Watched ==
    \/ requests < MaxRequests
    \/ tasks # {}
    \/ \E d \in Deliveries : ~HandlerAt(d, "idle")
    \/ \E c \in Clients : ~At(c, "idle")

InboundNext ==
    /\ Watched
    /\ InboundStep \/ (SessionNext /\ UNCHANGED inboundVars)
    /\ requests' = requests + Cardinality(Arrivals)
    /\ requests' <= MaxRequests
    /\ Observe

InboundSpec == InboundInit /\ [][InboundNext]_allVars

-----------------------------------------------------------------------------
(* Properties.                                                             *)

InboundTypeOK ==
    /\ SessionTypeOK
    /\ \A t \in tasks : t.task \in {"record", "bump", "forward"} \cup Outcomes
    /\ callRecords \subseteq [cpaas_call_id : IncomingCalls,
                             status : {"RINGING", "ANSWERED", "COMPLETED",
                                       "MISSED", "FAILED"}]
    /\ smsRecords \in [DOMAIN smsRecords -> {"PENDING", "DELIVERED", "FAILED"}]
    /\ dlq \subseteq [ev : Events,
                      status : {"PENDING", "RETRYING", "ABANDONED"}]

(* An answer is put together from the number's set, the hashes and a row,  *)
(* read one after the other while sessions come, go and change their       *)
(* target (call-router.ts:85-210, sms-router.ts:47-134).  Nevertheless a   *)
(* caller is connected to somebody who was, after the match, the other     *)
(* party of a session the caller then had on that number, and is told that *)
(* there is none only if at some moment of the search there was none.      *)
AnswersWereRight ==
    \A d \in Deliveries :
      Answering(d) /\ ~handler[d].impaired
      => LET ans == handler[d].ans
         IN  /\ ans = Refuse => seen[d].nobody
             /\ ans.action = "connect" => ans.to \in seen[d].ends

(* webhook-parser.ts:84 says the dedup key makes the provider's retries    *)
(* "idempotent": whatever became of the session meanwhile, a repeated      *)
(* webhook gets the answer of the first, and an SMS goes out at most once, *)
(* unless the key lapsed, failed, or was not yet written (call-router.ts:  *)
(* 70-80, 258-259; sms-router.ts:156-186).                                 *)
RetriesAgree ==
    /\ \A e \in Incoming : told[e] # Split
    /\ \A e \in IncomingTexts : sent[e] <= 1

(* The provider is answered 200 whatever became of its webhook, and does    *)
(* not repeat it.  A call that came in is being handled or has been given  *)
(* a decision, whatever fails: its handling never throws.  A text that has *)
(* no decision is being handled or is listed for the operators, who may    *)
(* retry or abandon it, with one exception, `lost': after its handling had *)
(* thrown, the insert into the list failed as well (webhook-handler.ts:    *)
(* 150-155, 251-253; call-router.ts:85-210; admin.ts:614-645).             *)
NothingVanishes ==
    \A e \in Incoming : mail[e.id] # NoMail =>
      \/ [ev |-> e, is |-> "answered"] \in fate
      \/ \E d \in Deliveries : ~HandlerAt(d, "idle") /\ Event(d) = e
      \/ /\ e \in IncomingTexts
         /\ \/ \E r \in dlq : r.ev = e
            \/ [ev |-> e, is |-> "lost"] \in fate

(* webhook-handler.ts:99: "Status events update call_records & emit        *)
(* events", and test/integration/call-routing.test.ts:269 "Full call       *)
(* status lifecycle updates call_records": a report on a call brings the   *)
(* records that the call then has to the reported status.                  *)
StatusReachesRecord ==
    [][\A d \in Deliveries, r \in callRecords :
         /\ HandlerAt(d, "report") /\ handler'[d].pc = "mark"
         /\ r.cpaas_call_id.id = Event(d).id
         => [r EXCEPT !.status = StatusOf(Event(d).type)] \in callRecords'
      ]_allVars

=============================================================================
