------------------------- MODULE InboundRoutingProofs -------------------------
(***************************************************************************)
(* Proofs about InboundRouting, for any calls, texts, reports and places   *)
(* for deliveries, and any number of requests, over the invariants of the  *)
(* sessions.  Which deliveries' store commands fail is a constant.         *)
(***************************************************************************)
EXTENDS InboundRouting, SessionManagerProofs

(* The answers a router decides on.                                        *)
Answers == {Refuse} \cup [action : {"deny", "simulate", "connect"}, s : Sessions]
             \cup [action : {"connect"}, s : Sessions, to : Parties]

(* What a handler remembers, by where it stands.                           *)
Starts   == [pc : {"lookup", "members", "report", "mark", "throw"}, ev : Events]
Searches == [pc : {"probe", "throw"}, ev : Events, todo : SUBSET Sessions,
             impaired : BOOLEAN]
Routed   == [pc : {"dest", "remember", "insert"}, ev : Events, s : Sessions,
             isA : BOOLEAN, ans : Answers, impaired : BOOLEAN]
Unrouted == [pc : {"remember"}, ev : Events, ans : {Refuse}, impaired : BOOLEAN]
Handlers == {Idle} \cup Starts \cup Searches \cup Routed \cup Unrouted

CallJobs == [task : {"record", "bump"}, d : Deliveries, ev : IncomingCalls, s : Sessions]
TextJobs == [task : {"forward"} \cup Outcomes, d : Deliveries, ev : IncomingTexts]

Letters == [from : Phones, to : Numbers]
Routing == {"members", "probe", "dest", "remember", "insert"}

Busy(d)  == handler[d].pc # "idle"

(* Calls and texts are routed, reports are reported; what is handled has   *)
(* come in; and a session that was matched has its row.                    *)
HandlerOK(d) ==
    /\ Busy(d) => mail[Event(d).id] # NoMail
    /\ handler[d].pc \in Routing => Event(d) \in Incoming
    /\ handler[d].pc \in {"report", "mark"} => Event(d) \in StatusReports
    /\ handler[d].pc = "insert" => Event(d) \in IncomingTexts
    /\ handler[d].pc = "throw" => Event(d) \notin IncomingCalls
    /\ handler[d] \in Routed => HasRow(handler[d].s)

RecordStates == {"RINGING", "ANSWERED", "COMPLETED", "MISSED", "FAILED"}

DeskInv ==
    /\ mail \in [Calls \cup Texts -> Letters \cup {NoMail}]
    /\ handler \in [Deliveries -> Handlers]
    /\ \A d \in Deliveries : HandlerOK(d)
    /\ decision \in [Events -> Answers \cup {NoAnswer, Processed}]
    /\ \A e \in Incoming : decision[e] # Processed
    /\ tasks \subseteq CallJobs \cup TextJobs
    /\ \A t \in tasks : t \in CallJobs => HasRow(t.s)
    /\ callRecords \subseteq [cpaas_call_id : IncomingCalls, status : RecordStates]
    /\ smsRecords \in [DOMAIN smsRecords -> {"PENDING", "DELIVERED", "FAILED"}]
    /\ dlq \subseteq [ev : Events, status : {"PENDING", "RETRYING", "ABANDONED"}]
    /\ told \in [Incoming -> Answers \cup {NoAnswer, Waived, Split}]
    /\ sent \in [IncomingTexts -> Nat]

-----------------------------------------------------------------------------
LEMMA Kinds ==
  /\ Incoming \subseteq Events /\ StatusReports \subseteq Events
  /\ IncomingCalls \subseteq Incoming /\ IncomingTexts \subseteq Incoming
  /\ Incoming \cap StatusReports = {}
  /\ IncomingCalls \cap IncomingTexts = {}
  /\ \A e \in Incoming : IsCall(e) <=> e \in IncomingCalls
  /\ \A e \in Events : e.id \in Calls \cup Texts
  /\ \A e, f \in Incoming : e.id = f.id => e = f
BY InboundAssumption DEF Incoming, Events, IncomingCalls, IncomingTexts, StatusReports, IsCall

LEMMA Marks ==
  /\ NoAnswer # Waived /\ NoAnswer # Split /\ Waived # Split /\ Processed # NoAnswer
  /\ Waived # Processed /\ Split # Processed /\ Refuse # Processed
  /\ \A a \in Answers : a # NoAnswer /\ a # Waived /\ a # Split /\ a # Processed
<1>1. /\ NoAnswer.action = "none" /\ Waived.action = "no promise" /\ Split.action = "two answers"
      /\ Processed.action = "status_processed" /\ Refuse.action = "refuse"
  BY DEF NoAnswer, Waived, Split, Processed, Refuse
<1>2. \A a \in Answers : a.action \in {"refuse", "deny", "simulate", "connect"}
  BY DEF Answers, Refuse
<1>3. QED
  BY <1>1, <1>2

LEMMA HandlerClass ==
  ASSUME NEW h \in Handlers
  PROVE  /\ h.pc \in {"lookup", "members", "report", "mark"} => h \in Starts
         /\ h.pc = "probe" => h \in Searches
         /\ h.pc \in {"dest", "insert"} => h \in Routed
         /\ h.pc = "remember" => h \in Routed \/ h \in Unrouted
         /\ h.pc = "throw" => h \in Starts \/ h \in Searches
         /\ h.pc # "idle" => h.ev \in Events
         /\ h.pc \in {"idle", "lookup", "members", "report", "mark", "throw"} \cup Routing
         /\ h.pc = "idle" => h = Idle
BY DEF Handlers, Idle, Starts, Searches, Routed, Unrouted, Routing

LEMMA HandlerSet ==
  ASSUME DeskInv, NEW d \in Deliveries, NEW h \in Handlers, handler' = [handler EXCEPT ![d] = h]
  PROVE  /\ handler' \in [Deliveries -> Handlers]
         /\ handler'[d] = h
         /\ \A o \in Deliveries : o # d => handler'[o] = handler[o]
BY DEF DeskInv

-----------------------------------------------------------------------------
(* What each step of a handler makes of what it remembers.                 *)
Only(d) ==
    /\ handler' \in [Deliveries -> Handlers]
    /\ \A o \in Deliveries : o # d => handler'[o] = handler[o]

LEMMA Leaving ==
  ASSUME DeskInv, NEW d \in Deliveries, handler' = [handler EXCEPT ![d] = Idle]
  PROVE  Only(d) /\ handler'[d] = Idle /\ ~Busy(d)'
BY HandlerSet DEF Handlers, Only, Busy, Idle

LEMMA StartGoes ==
  ASSUME DeskInv, NEW d \in Deliveries, handler[d] \in Starts,
         NEW q \in {"members", "report", "mark", "throw"}, Proceed(d, q)
  PROVE  Only(d) /\ handler'[d] \in Starts /\ handler'[d].pc = q /\ Event(d)' = Event(d)
<1> DEFINE h == [handler[d] EXCEPT !.pc = q]
<1>1. h \in Starts /\ h.pc = q /\ h.ev = handler[d].ev
  BY DEF Starts
<1>2. h \in Handlers /\ handler' = [handler EXCEPT ![d] = h]
  BY <1>1 DEF Handlers, Proceed
<1> HIDE DEF h
<1>3. QED
  BY <1>1, <1>2, HandlerSet DEF Only, Event

LEMMA ReceiveSets ==
  ASSUME DeskInv, NEW d \in Deliveries, NEW e \in Events, Receive(d, e)
  PROVE  /\ Only(d) /\ ~Busy(d)
         /\ handler'[d] \in Starts /\ handler'[d].pc = "lookup" /\ Event(d)' = e
         /\ mail' \in [Calls \cup Texts -> Letters \cup {NoMail}]
         /\ \A i \in Calls \cup Texts : mail[i] # NoMail => mail'[i] = mail[i]
         /\ \A i \in Calls \cup Texts : i # e.id => mail'[i] = mail[i]
         /\ mail'[e.id] # NoMail
<1> DEFINE h == [pc |-> "lookup", ev |-> e]
<1>1. h \in Starts /\ h.pc = "lookup" /\ h.ev = e
  BY DEF Starts
<1>2. h \in Handlers /\ handler' = [handler EXCEPT ![d] = h]
  BY <1>1 DEF Handlers, Receive
<1>3. Only(d) /\ handler'[d] = h
  BY <1>2, HandlerSet DEF Only
<1> HIDE DEF h
<1>4. e.id \in Calls \cup Texts
  BY Kinds
<1>5. ASSUME NEW ph \in Phones, NEW n \in Numbers, mail[e.id] = NoMail,
             mail' = [mail EXCEPT ![e.id] = [from |-> ph, to |-> n]]
      PROVE  /\ mail' \in [Calls \cup Texts -> Letters \cup {NoMail}]
             /\ \A i \in Calls \cup Texts : mail[i] # NoMail => mail'[i] = mail[i]
             /\ \A i \in Calls \cup Texts : i # e.id => mail'[i] = mail[i]
             /\ mail'[e.id] # NoMail
  <2>1. [from |-> ph, to |-> n] \in Letters /\ [from |-> ph, to |-> n] # NoMail
    BY DEF Letters, NoMail
  <2>2. QED
    BY <1>4, <1>5, <2>1 DEF DeskInv
<1>6. /\ mail' \in [Calls \cup Texts -> Letters \cup {NoMail}]
      /\ \A i \in Calls \cup Texts : mail[i] # NoMail => mail'[i] = mail[i]
      /\ \A i \in Calls \cup Texts : i # e.id => mail'[i] = mail[i]
      /\ mail'[e.id] # NoMail
  <2>1. CASE UNCHANGED mail /\ mail[e.id] # NoMail
    BY <2>1 DEF DeskInv
  <2>2. CASE ~(UNCHANGED mail /\ mail[e.id] # NoMail)
    BY <2>2, <1>5 DEF Receive
  <2>3. QED
    BY <2>1, <2>2
<1>7. QED
  BY <1>1, <1>3, <1>6 DEF Receive, HandlerAt, Busy, Event

LEMMA MissSets ==
  ASSUME DeskInv, NEW d \in Deliveries, LookupMiss(d)
  PROVE  /\ Only(d) /\ handler[d].pc = "lookup" /\ Event(d) \in Events
         /\ handler'[d] \in Starts /\ Event(d)' = Event(d)
         /\ handler'[d].pc = IF Event(d) \in Incoming THEN "members" ELSE "report"
<1>1. handler[d] \in Starts /\ handler[d].pc = "lookup" /\ handler[d].ev \in Events
  BY HandlerClass DEF DeskInv, LookupMiss, HandlerAt
<1>2. CASE Event(d) \in Incoming
  BY <1>1, <1>2, StartGoes DEF LookupMiss, Event
<1>3. CASE Event(d) \notin Incoming
  BY <1>1, <1>3, StartGoes DEF LookupMiss, Event
<1>4. QED
  BY <1>2, <1>3

LEMMA MembersSets ==
  ASSUME BaseInv, DeskInv, NEW d \in Deliveries, Members(d)
  PROVE  /\ Only(d) /\ handler[d].pc = "members" /\ Event(d) \in Incoming
         /\ handler'[d] \in Searches /\ handler'[d].pc = "probe" /\ Event(d)' = Event(d)
         /\ Mail(d) \in Letters
         /\ \/ handler'[d].todo = proxySessions[Mail(d).to]
            \/ handler'[d].todo = {} /\ handler'[d].impaired
<1>1. /\ handler[d] \in Starts /\ handler[d].pc = "members" /\ Event(d) \in Incoming
      /\ mail[Event(d).id] # NoMail
  BY HandlerClass DEF DeskInv, HandlerOK, Routing, Members, HandlerAt, Busy
<1>2. Mail(d) \in Letters
  BY <1>1, Kinds DEF DeskInv, Mail
<1>3. proxySessions[Mail(d).to] \in SUBSET Sessions
  BY <1>2 DEF Letters, BaseInv, PoolTypeOK
<1>4. ASSUME NEW S \in SUBSET Sessions, NEW i \in BOOLEAN, SearchFor(d, S, i)
      PROVE  /\ Only(d) /\ handler'[d] \in Searches /\ handler'[d].pc = "probe"
             /\ Event(d)' = Event(d) /\ handler'[d].todo = S /\ handler'[d].impaired = i
  <2> DEFINE h == [pc |-> "probe", ev |-> handler[d].ev, todo |-> S, impaired |-> i]
  <2>1. h \in Searches /\ h.pc = "probe" /\ h.ev = handler[d].ev /\ h.todo = S /\ h.impaired = i
    BY <1>1, Kinds DEF Searches, Event
  <2>2. h \in Handlers /\ handler' = [handler EXCEPT ![d] = h]
    BY <2>1, <1>4 DEF Handlers, SearchFor, DeskInv
  <2> HIDE DEF h
  <2>3. QED
    BY <2>1, <2>2, HandlerSet DEF Only, Event
<1>5. CASE SearchFor(d, proxySessions[Mail(d).to], FALSE)
  BY <1>1, <1>2, <1>3, <1>4, <1>5
<1>6. CASE SearchFor(d, {}, TRUE)
  BY <1>1, <1>2, <1>4, <1>6
<1>7. QED
  BY <1>5, <1>6 DEF Members

(* A probe finds a session, and goes on to its destination or to an answer *)
(* without one; or it passes over a session; or it gives up.               *)
Match(d, s, v) ==
    /\ HandlerAt(d, "probe") /\ s \in handler[d].todo
    /\ Candidate(s, Mail(d).from)
    /\ v \in Verdicts(d)
    /\ handler' = [handler EXCEPT ![d] =
         [pc |-> IF v = "connect" THEN "dest" ELSE "remember",
          ev |-> @.ev, s |-> s,
          isA |-> Hashed(s, Mail(d).from) = rows[s].a,
          ans |-> [action |-> v, s |-> s],
          impaired |-> @.impaired]]
    /\ tasks' = IF v = "simulate" THEN tasks \cup CallTasks(d, s) ELSE tasks

Pass(d, s) ==
    /\ HandlerAt(d, "probe") /\ s \in handler[d].todo
    /\ \/ ~Candidate(s, Mail(d).from) /\ handler' = [handler EXCEPT ![d].todo = @ \ {s}]
       \/ /\ IsCall(Event(d))
          /\ handler' = [handler EXCEPT ![d].todo = @ \ {s}, ![d].impaired = TRUE]
    /\ UNCHANGED tasks

GivesUp(d) ==
    /\ HandlerAt(d, "probe") /\ ~IsCall(Event(d))
    /\ Proceed(d, "throw") /\ UNCHANGED tasks

LEMMA ProbeCases ==
  ASSUME NEW d \in Deliveries, NEW s \in Sessions, Probe(d, s) \/ ProbeFails(d, s)
  PROVE  (\E v \in Verdicts(d) : Match(d, s, v)) \/ Pass(d, s) \/ GivesUp(d)
BY DEF Probe, ProbeFails, Match, Pass, GivesUp

LEMMA Probing ==
  ASSUME DeskInv, NEW d \in Deliveries, HandlerAt(d, "probe")
  PROVE  handler[d] \in Searches /\ Event(d) \in Incoming /\ Mail(d) \in Letters
<1>1. /\ handler[d] \in Searches /\ Event(d) \in Incoming /\ mail[Event(d).id] # NoMail
  BY HandlerClass DEF DeskInv, HandlerOK, Routing, HandlerAt, Busy
<1>2. QED
  BY <1>1, Kinds DEF DeskInv, Mail

LEMMA MatchSets ==
  ASSUME BaseInv, DeskInv, NEW d \in Deliveries, NEW s \in Sessions, NEW v, Match(d, s, v)
  PROVE  /\ Only(d) /\ Event(d) \in Incoming /\ Event(d)' = Event(d)
         /\ handler'[d] \in Routed
         /\ handler'[d].pc = IF v = "connect" THEN "dest" ELSE "remember"
         /\ handler'[d].s = s /\ HasRow(s)
         /\ handler'[d].isA = (Hashed(s, Mail(d).from) = rows[s].a)
         /\ handler'[d].ans.action = v
         /\ handler'[d].impaired = handler[d].impaired
         /\ v \in {"connect", "deny", "simulate"}
         /\ v = "simulate" => Event(d) \in IncomingCalls
         /\ v # "simulate" => tasks' = tasks
         /\ tasks' \in {tasks, tasks \cup CallTasks(d, s)}
<1>1. handler[d] \in Searches /\ Event(d) \in Incoming
  BY Probing DEF Match
<1>2. v \in {"connect", "deny", "simulate"} /\ (v = "simulate" => Event(d) \in IncomingCalls)
  BY <1>1, Kinds DEF Match, Verdicts
<1> DEFINE h == [pc |-> IF v = "connect" THEN "dest" ELSE "remember",
                 ev |-> handler[d].ev, s |-> s,
                 isA |-> Hashed(s, Mail(d).from) = rows[s].a,
                 ans |-> [action |-> v, s |-> s],
                 impaired |-> handler[d].impaired]
<1>3. [action |-> v, s |-> s] \in Answers
  BY <1>2 DEF Answers
<1>4. /\ h \in Routed
      /\ h.pc = IF v = "connect" THEN "dest" ELSE "remember"
      /\ h.ev = handler[d].ev /\ h.s = s /\ h.isA = (Hashed(s, Mail(d).from) = rows[s].a)
      /\ h.ans.action = v /\ h.impaired = handler[d].impaired
  BY <1>1, <1>2, <1>3, Kinds DEF Routed, Searches, Event
<1>5. h \in Handlers /\ handler' = [handler EXCEPT ![d] = h]
  BY <1>4 DEF Handlers, Match, DeskInv
<1> HIDE DEF h
<1>6. HasRow(s)
  BY DEF Match, Candidate, BaseInv, TracesOK
<1>7. QED
  BY <1>1, <1>2, <1>4, <1>5, <1>6, HandlerSet DEF Only, Event, Match

LEMMA PassSets ==
  ASSUME DeskInv, NEW d \in Deliveries, NEW s \in Sessions, Pass(d, s)
  PROVE  /\ Only(d) /\ Event(d) \in Incoming /\ Event(d)' = Event(d)
         /\ handler'[d] \in Searches /\ handler'[d].pc = "probe"
         /\ handler'[d].todo = handler[d].todo \ {s}
         /\ handler[d].impaired => handler'[d].impaired
         /\ ~handler'[d].impaired => ~Candidate(s, Mail(d).from)
<1>1. handler[d] \in Searches /\ Event(d) \in Incoming /\ handler[d].pc = "probe"
  BY Probing DEF Pass, HandlerAt
<1>2. ASSUME NEW i \in BOOLEAN,
             handler' = [handler EXCEPT ![d] = [pc |-> "probe", ev |-> handler[d].ev,
                           todo |-> handler[d].todo \ {s}, impaired |-> i]]
      PROVE  /\ Only(d) /\ handler'[d] \in Searches /\ handler'[d].pc = "probe"
             /\ Event(d)' = Event(d) /\ handler'[d].todo = handler[d].todo \ {s}
             /\ handler'[d].impaired = i
  <2> DEFINE h == [pc |-> "probe", ev |-> handler[d].ev, todo |-> handler[d].todo \ {s},
                   impaired |-> i]
  <2>1. /\ h \in Searches /\ h.pc = "probe" /\ h.ev = handler[d].ev
        /\ h.todo = handler[d].todo \ {s} /\ h.impaired = i
    BY <1>1 DEF Searches
  <2>2. h \in Handlers /\ handler' = [handler EXCEPT ![d] = h]
    BY <2>1, <1>2 DEF Handlers
  <2> HIDE DEF h
  <2>3. QED
    BY <2>1, <2>2, HandlerSet DEF Only, Event
<1>3. ASSUME handler' = [handler EXCEPT ![d].todo = @ \ {s}]
      PROVE  handler' = [handler EXCEPT ![d] = [pc |-> "probe", ev |-> handler[d].ev,
                           todo |-> handler[d].todo \ {s}, impaired |-> handler[d].impaired]]
  <2>1. [handler[d] EXCEPT !.todo = @ \ {s}] =
          [pc |-> "probe", ev |-> handler[d].ev, todo |-> handler[d].todo \ {s},
           impaired |-> handler[d].impaired]
    BY <1>1 DEF Searches
  <2>2. QED
    BY <1>3, <2>1 DEF DeskInv
<1>4. ASSUME handler' = [handler EXCEPT ![d].todo = @ \ {s}, ![d].impaired = TRUE]
      PROVE  handler' = [handler EXCEPT ![d] = [pc |-> "probe", ev |-> handler[d].ev,
                           todo |-> handler[d].todo \ {s}, impaired |-> TRUE]]
  <2> DEFINE g == [pc |-> "probe", ev |-> handler[d].ev, todo |-> handler[d].todo \ {s},
                   impaired |-> handler[d].impaired]
             h == [pc |-> "probe", ev |-> handler[d].ev, todo |-> handler[d].todo \ {s},
                   impaired |-> TRUE]
  <2>1. [handler[d] EXCEPT !.todo = @ \ {s}] = g
    BY <1>1 DEF Searches
  <2>2. \A i \in BOOLEAN : [g EXCEPT !.impaired = i] =
          [pc |-> "probe", ev |-> handler[d].ev, todo |-> handler[d].todo \ {s}, impaired |-> i]
    <3>1. /\ g \in Searches /\ g.pc = "probe" /\ g.ev = handler[d].ev
          /\ g.todo = handler[d].todo \ {s}
      BY <1>1 DEF Searches
    <3> HIDE DEF g
    <3>2. QED
      BY <3>1 DEF Searches
  <2>3. handler' = [handler EXCEPT ![d] = [[handler[d] EXCEPT !.todo = @ \ {s}]
                                             EXCEPT !.impaired = TRUE]]
    BY <1>4 DEF DeskInv
  <2> HIDE DEF g
  <2>4. [g EXCEPT !.impaired = TRUE] = h
    BY <2>2
  <2> HIDE DEF h
  <2>5. handler' = [handler EXCEPT ![d] = h]
    BY <2>1, <2>4, <2>3
  <2>6. QED
    BY <2>5 DEF h
<1>5. handler[d].impaired \in BOOLEAN
  BY <1>1 DEF Searches
<1>6. CASE ~Candidate(s, Mail(d).from) /\ handler' = [handler EXCEPT ![d].todo = @ \ {s}]
  BY <1>1, <1>2, <1>3, <1>5, <1>6
<1>7. CASE handler' = [handler EXCEPT ![d].todo = @ \ {s}, ![d].impaired = TRUE]
  BY <1>1, <1>2, <1>4, <1>7
<1>8. QED
  BY <1>6, <1>7 DEF Pass

LEMMA GivesUpSets ==
  ASSUME DeskInv, NEW d \in Deliveries, GivesUp(d)
  PROVE  /\ Only(d) /\ Event(d) \in Incoming /\ Event(d)' = Event(d)
         /\ handler'[d] \in Searches /\ handler'[d].pc = "throw"
         /\ Event(d) \notin IncomingCalls
<1>1. handler[d] \in Searches /\ Event(d) \in Incoming /\ Event(d) \notin IncomingCalls
  BY Probing, Kinds DEF GivesUp
<1> DEFINE h == [handler[d] EXCEPT !.pc = "throw"]
<1>2. h \in Searches /\ h.pc = "throw" /\ h.ev = handler[d].ev
  BY <1>1 DEF Searches
<1>3. h \in Handlers /\ handler' = [handler EXCEPT ![d] = h]
  BY <1>2 DEF Handlers, GivesUp, Proceed
<1> HIDE DEF h
<1>4. QED
  BY <1>1, <1>2, <1>3, HandlerSet DEF Only, Event

LEMMA UnmatchedSets ==
  ASSUME DeskInv, NEW d \in Deliveries, Unmatched(d)
  PROVE  /\ Only(d) /\ Event(d) \in Incoming /\ Event(d)' = Event(d)
         /\ handler'[d] \in Unrouted /\ handler'[d].pc = "remember"
         /\ handler'[d].ans = Refuse /\ handler'[d].impaired = handler[d].impaired
         /\ handler[d].pc = "probe" /\ handler[d].todo = {}
<1>1. handler[d] \in Searches /\ Event(d) \in Incoming
  BY Probing DEF Unmatched
<1> DEFINE h == [pc |-> "remember", ev |-> handler[d].ev, ans |-> Refuse,
                 impaired |-> handler[d].impaired]
<1>2. /\ h \in Unrouted /\ h.pc = "remember" /\ h.ev = handler[d].ev
      /\ h.ans = Refuse /\ h.impaired = handler[d].impaired
  BY <1>1 DEF Searches, Unrouted
<1>3. h \in Handlers /\ handler' = [handler EXCEPT ![d] = h]
  BY <1>2 DEF Handlers, Unmatched, DeskInv
<1> HIDE DEF h
<1>4. QED
  BY <1>1, <1>2, <1>3, HandlerSet DEF Only, Event, Unmatched, HandlerAt

(* The steps past a match keep what it found.                              *)
LEMMA RoutedGoes ==
  ASSUME NEW h \in Routed, NEW q \in {"remember", "insert"}
  PROVE  LET g == [h EXCEPT !.pc = q]
         IN  /\ g \in Routed /\ g.pc = q /\ g.ev = h.ev /\ g.s = h.s /\ g.isA = h.isA
             /\ g.ans = h.ans /\ g.impaired = h.impaired
BY DEF Routed

LEMMA RoutedAnswers ==
  ASSUME NEW h \in Routed, NEW a \in Answers
  PROVE  LET g == [h EXCEPT !.ans = a]
         IN  /\ g \in Routed /\ g.pc = h.pc /\ g.ev = h.ev /\ g.s = h.s /\ g.isA = h.isA
             /\ g.ans = a /\ g.impaired = h.impaired
BY DEF Routed

LEMMA RoutedImpaired ==
  ASSUME NEW h \in Routed, NEW i \in BOOLEAN
  PROVE  LET g == [h EXCEPT !.impaired = i]
         IN  /\ g \in Routed /\ g.pc = h.pc /\ g.ev = h.ev /\ g.s = h.s /\ g.isA = h.isA
             /\ g.ans = h.ans /\ g.impaired = i
BY DEF Routed

LEMMA ResolveSets ==
  ASSUME BaseInv, DeskInv, NEW d \in Deliveries, Resolve(d)
  PROVE  /\ Only(d) /\ Event(d) \in Incoming /\ Event(d)' = Event(d)
         /\ handler[d] \in Routed /\ handler[d].pc = "dest"
         /\ handler'[d] \in Routed /\ handler'[d].pc = "remember"
         /\ handler'[d].s = handler[d].s
         /\ \/ /\ handler'[d].ans.action = "connect" /\ handler'[d].ans.to = Destination(d)
            \/ /\ handler'[d].ans = Refuse /\ handler'[d].impaired
<1>1. handler[d] \in Routed /\ Event(d) \in Incoming /\ HasRow(handler[d].s)
  BY HandlerClass DEF DeskInv, HandlerOK, Routing, Resolve, HandlerAt
<1>2. handler[d].s \in Sessions
  BY <1>1 DEF Routed
<1>3. Destination(d) \in Parties
  BY <1>1, <1>2, RowOf DEF Destination, BaseInv
<1> DEFINE a == [action |-> "connect", s |-> handler[d].s, to |-> Destination(d)]
<1>4. a \in Answers /\ a.action = "connect" /\ a.to = Destination(d) /\ Refuse \in Answers
  BY <1>2, <1>3 DEF Answers
<1> HIDE DEF a
<1> DEFINE g == [handler[d] EXCEPT !.pc = "remember"]
<1>5a. g \in Routed /\ g.pc = "remember" /\ g.ev = handler[d].ev /\ g.s = handler[d].s
  BY <1>1, RoutedGoes
<1> HIDE DEF g
<1> DEFINE k == [g EXCEPT !.ans = a]
           k2 == [g EXCEPT !.ans = Refuse]
<1>5. /\ k \in Routed /\ k.pc = "remember" /\ k.ev = handler[d].ev /\ k.s = handler[d].s
      /\ k.ans = a
  BY <1>4, <1>5a, RoutedAnswers
<1>5b. /\ k2 \in Routed /\ k2.pc = "remember" /\ k2.ev = handler[d].ev /\ k2.s = handler[d].s
       /\ k2.ans = Refuse
  BY <1>4, <1>5a, RoutedAnswers
<1> HIDE DEF k2
<1> DEFINE m == [k2 EXCEPT !.impaired = TRUE]
<1>6. /\ m \in Routed /\ m.pc = "remember" /\ m.ev = handler[d].ev /\ m.s = handler[d].s
      /\ m.ans = Refuse /\ m.impaired = TRUE
  BY <1>5b, RoutedImpaired
<1>7. handler' \in {[handler EXCEPT ![d] = k], [handler EXCEPT ![d] = m]}
  BY DEF Resolve, DeskInv, a, g, k2
<1> HIDE DEF k, m
<1>8. k \in Handlers /\ m \in Handlers
  BY <1>5, <1>6 DEF Handlers
<1>9. CASE handler' = [handler EXCEPT ![d] = k]
  BY <1>1, <1>4, <1>5, <1>8, <1>9, HandlerSet DEF Only, Event, Resolve, HandlerAt
<1>10. CASE handler' = [handler EXCEPT ![d] = m]
  BY <1>1, <1>6, <1>8, <1>10, HandlerSet DEF Only, Event, Resolve, HandlerAt
<1>11. QED
  BY <1>7, <1>9, <1>10

(* Whether the text of d is to be recorded and forwarded.                  *)
Forwards(d) == ~IsCall(Event(d)) /\ handler[d].ans.action = "connect"

LEMMA AnswerSets ==
  ASSUME DeskInv, NEW d \in Deliveries, Answer(d)
  PROVE  /\ Only(d) /\ Event(d) \in Incoming /\ handler[d].pc = "remember"
         /\ handler[d].ans \in Answers
         /\ handler[d].ans.action = "connect" => /\ handler[d] \in Routed
                                                 /\ handler[d].s \in Sessions
                                                 /\ HasRow(handler[d].s)
         /\ Forwards(d) => /\ Event(d) \in IncomingTexts
                           /\ handler'[d] \in Routed /\ handler'[d].pc = "insert"
                           /\ Event(d)' = Event(d) /\ handler'[d].ans = handler[d].ans
                           /\ handler'[d].impaired = handler[d].impaired
                           /\ handler'[d].s = handler[d].s
         /\ ~Forwards(d) => handler'[d] = Idle
<1>1. /\ handler[d] \in Routed \/ handler[d] \in Unrouted
      /\ Event(d) \in Incoming /\ handler[d].pc = "remember"
      /\ handler[d] \in Routed => HasRow(handler[d].s)
  BY HandlerClass DEF DeskInv, HandlerOK, Routing, Answer, HandlerAt
<1>2. handler[d].ans \in Answers
  BY <1>1 DEF Routed, Unrouted, Answers
<1>3. ASSUME handler[d].ans.action = "connect"
      PROVE  handler[d] \in Routed /\ handler[d].s \in Sessions /\ HasRow(handler[d].s)
  <2>1. handler[d] \notin Unrouted
    BY <1>3 DEF Unrouted, Refuse
  <2>2. QED
    BY <1>1, <2>1 DEF Routed
<1>4. CASE Forwards(d)
  <2> DEFINE g == [handler[d] EXCEPT !.pc = "insert"]
  <2>1. /\ g \in Routed /\ g.pc = "insert" /\ g.ev = handler[d].ev /\ g.ans = handler[d].ans
        /\ g.impaired = handler[d].impaired /\ g.s = handler[d].s
    BY <1>3, <1>4, RoutedGoes DEF Forwards
  <2>2. handler' = [handler EXCEPT ![d] = g]
    BY <1>4 DEF Answer, Forwards, Proceed, DeskInv
  <2> HIDE DEF g
  <2>3. g \in Handlers
    BY <2>1 DEF Handlers
  <2>4. Event(d) \in IncomingTexts
    BY <1>1, <1>4, Kinds DEF Forwards, Incoming
  <2>5. QED
    BY <1>1, <1>2, <1>3, <1>4, <2>1, <2>2, <2>3, <2>4, HandlerSet DEF Only, Event
<1>5. CASE ~Forwards(d)
  <2>1. handler' = [handler EXCEPT ![d] = Idle]
    BY <1>5 DEF Answer, Forwards
  <2>2. QED
    BY <1>1, <1>2, <1>3, <1>5, <2>1, Leaving
<1>6. QED
  BY <1>4, <1>5

LEMMA InsertTextSets ==
  ASSUME DeskInv, NEW d \in Deliveries, InsertText(d)
  PROVE  /\ Only(d) /\ handler'[d] = Idle
         /\ handler[d] \in Routed /\ handler[d].pc = "insert"
         /\ Event(d) \in IncomingTexts /\ handler[d].ans \in Answers
<1>1. handler[d] \in Routed /\ handler[d].pc = "insert" /\ Event(d) \in IncomingTexts
  BY HandlerClass DEF DeskInv, HandlerOK, InsertText, HandlerAt
<1>2. handler[d].ans \in Answers
  BY <1>1 DEF Routed
<1>3. QED
  BY <1>1, <1>2, Leaving DEF InsertText

LEMMA ReportSets ==
  ASSUME DeskInv, NEW d \in Deliveries, Report(d)
  PROVE  /\ Only(d) /\ Event(d) \in StatusReports /\ Event(d)' = Event(d)
         /\ handler'[d] \in Starts /\ handler'[d].pc = "mark" /\ handler[d].pc = "report"
<1>1. /\ handler[d] \in Starts /\ Event(d) \in StatusReports /\ handler[d].pc = "report"
  BY HandlerClass DEF DeskInv, HandlerOK, Report, HandlerAt
<1>2. QED
  BY <1>1, StartGoes DEF Report

LEMMA MarkSets ==
  ASSUME DeskInv, NEW d \in Deliveries, MarkProcessed(d)
  PROVE  /\ Only(d) /\ Event(d) \in StatusReports /\ handler[d].pc = "mark"
         /\ \/ handler'[d] = Idle
            \/ /\ handler'[d] \in Starts /\ handler'[d].pc = "throw" /\ Event(d)' = Event(d)
<1>1. /\ handler[d] \in Starts /\ Event(d) \in StatusReports /\ handler[d].pc = "mark"
  BY HandlerClass DEF DeskInv, HandlerOK, MarkProcessed, HandlerAt
<1>2. QED
  BY <1>1, StartGoes, Leaving DEF MarkProcessed

LEMMA HitSets ==
  ASSUME DeskInv, NEW d \in Deliveries, LookupHit(d)
  PROVE  Only(d) /\ handler'[d] = Idle /\ handler[d].pc = "lookup" /\ Event(d) \in Events
BY HandlerClass, Leaving DEF DeskInv, LookupHit, HandlerAt, Event

LEMMA ThrowSets ==
  ASSUME DeskInv, NEW d \in Deliveries, Throw(d)
  PROVE  Only(d) /\ handler'[d] = Idle /\ handler[d].pc = "throw" /\ Event(d) \in Events
BY HandlerClass, Leaving DEF DeskInv, Throw, HandlerAt, Event

-----------------------------------------------------------------------------
(* Types of the desk.                                                      *)
LEMMA TellSets ==
  ASSUME DeskInv, NEW e \in Incoming, NEW a \in Answers, Tell(e, a)
  PROVE  /\ told' \in [Incoming -> Answers \cup {NoAnswer, Waived, Split}]
         /\ \A f \in Incoming : f # e => told'[f] = told[f]
         /\ told'[e] = IF told[e] = NoAnswer THEN a
                       ELSE IF told[e] \in {a, Waived} THEN told[e] ELSE Split
BY DEF DeskInv, Tell

LEMMA WaiveSets ==
  ASSUME DeskInv, NEW e, NEW x \in BOOLEAN, WaiveIf(e, x)
  PROVE  /\ told' \in [Incoming -> Answers \cup {NoAnswer, Waived, Split}]
         /\ \A f \in Incoming : told'[f] = IF f = e /\ x THEN Waived ELSE told[f]
BY DEF DeskInv, WaiveIf

MailKept == \A i \in Calls \cup Texts : mail[i] # NoMail => mail'[i] = mail[i]

LEMMA OthersOK ==
  ASSUME DeskInv, NEW d \in Deliveries, Only(d), MailKept,
         \A s \in Sessions : HasRow(s) => HasRow(s)', HandlerOK(d)'
  PROVE  \A o \in Deliveries : HandlerOK(o)'
<1> SUFFICES ASSUME NEW o \in Deliveries, o # d
             PROVE  HandlerOK(o)'
  OBVIOUS
<1>1. handler'[o] = handler[o] /\ HandlerOK(o) /\ handler[o] \in Handlers
  BY DEF Only, DeskInv
<1>2. Busy(o) => Event(o).id \in Calls \cup Texts
  BY <1>1, HandlerClass, Kinds DEF Busy, Event
<1>3. handler[o] \in Routed => handler[o].s \in Sessions
  BY DEF Routed
<1>4. QED
  BY <1>1, <1>2, <1>3 DEF HandlerOK, MailKept, Busy, Event

(* Whatever a handler does, it stays in order.                             *)
LEMMA HandleMoves ==
  ASSUME BaseInv, DeskInv, UNCHANGED vars, NEW d \in Deliveries, Handle(d)
  PROVE  /\ Only(d) /\ HandlerOK(d)' /\ MailKept
         /\ mail' \in [Calls \cup Texts -> Letters \cup {NoMail}]
<1> USE DEF HandlerOK, Busy, Routing
<1>0. /\ HandlerOK(d) /\ UNCHANGED rows
      /\ Busy(d) => mail[Event(d).id] # NoMail
      /\ mail \in [Calls \cup Texts -> Letters \cup {NoMail}]
  BY DEF DeskInv, vars, sessionVars
<1>1. /\ \A h \in Starts : h \notin Routed
      /\ \A h \in Searches : h \notin Routed
      /\ \A h \in Unrouted : h \notin Routed
      /\ Idle \notin Routed /\ Idle.pc = "idle"
  BY DEF Starts, Searches, Unrouted, Idle, Routed
<1>2. ASSUME NEW e \in Events, Receive(d, e)
      PROVE  Only(d) /\ HandlerOK(d)' /\ MailKept /\ mail' \in [Calls \cup Texts -> Letters \cup {NoMail}]
  <2>1. /\ handler'[d].pc = "lookup" /\ handler'[d] \notin Routed
        /\ handler'[d].ev = e /\ mail'[e.id] # NoMail
    BY <1>1, <1>2, ReceiveSets DEF Event
  <2>2. HandlerOK(d)'
    BY <2>1 DEF Event
  <2>3. QED
    BY <1>2, <2>2, ReceiveSets DEF MailKept
<1> DEFINE Good == Only(d) /\ HandlerOK(d)' /\ UNCHANGED mail
<1>3. CASE LookupHit(d)
  <2>1. Good
    BY <1>1, <1>3, HitSets DEF LookupHit
  <2>2. QED
    BY <1>0, <2>1 DEF MailKept
<1>4. CASE LookupMiss(d)
  <2>1. Event(d) \notin Incoming => Event(d) \in StatusReports
    BY <1>4, MissSets DEF Events
  <2>2. Good
    BY <1>0, <1>1, <1>4, <2>1, MissSets DEF LookupMiss, Event
  <2>3. QED
    BY <1>0, <2>2 DEF MailKept
<1>5. CASE Members(d)
  <2>1. Good
    BY <1>0, <1>1, <1>5, MembersSets DEF Members, Event
  <2>2. QED
    BY <1>0, <2>1 DEF MailKept
<1>6. ASSUME NEW s \in Sessions, Probe(d, s) \/ ProbeFails(d, s)
      PROVE  Good
  <2>0. UNCHANGED mail /\ handler[d].pc = "probe"
    BY <1>6 DEF Probe, ProbeFails, HandlerAt
  <2>1. ASSUME NEW v, Match(d, s, v)
        PROVE  Good
    BY <1>0, <2>0, <2>1, MatchSets DEF Event, HasRow
  <2>2. CASE Pass(d, s)
    BY <1>0, <1>1, <2>0, <2>2, PassSets DEF Event
  <2>3. CASE GivesUp(d)
    BY <1>0, <1>1, <2>0, <2>3, GivesUpSets DEF Event
  <2>4. QED
    BY <1>6, <2>1, <2>2, <2>3, ProbeCases
<1>7. CASE Unmatched(d)
  <2>1. Good
    BY <1>0, <1>1, <1>7, UnmatchedSets DEF Unmatched, HandlerAt, Event
  <2>2. QED
    BY <1>0, <2>1 DEF MailKept
<1>8. CASE Resolve(d)
  <2>0. UNCHANGED mail
    BY <1>8 DEF Resolve
  <2>1. Good
    BY <1>0, <1>8, <2>0, ResolveSets DEF Event, HasRow
  <2>2. QED
    BY <1>0, <2>1 DEF MailKept
<1>9. CASE Answer(d)
  <2>1. CASE Forwards(d)
    <3>1. Good
      BY <1>0, <1>9, <2>1, AnswerSets DEF Answer, Forwards, Event, HasRow
    <3>2. QED
      BY <1>0, <3>1 DEF MailKept
  <2>2. CASE ~Forwards(d)
    <3>1. Good
      BY <1>1, <1>9, <2>2, AnswerSets DEF Answer
    <3>2. QED
      BY <1>0, <3>1 DEF MailKept
  <2>3. QED
    BY <2>1, <2>2
<1>10. CASE InsertText(d)
  <2>1. Good
    BY <1>1, <1>10, InsertTextSets DEF InsertText
  <2>2. QED
    BY <1>0, <2>1 DEF MailKept
<1>11. CASE Report(d)
  <2>1. Good
    BY <1>0, <1>1, <1>11, ReportSets DEF Report, Event
  <2>2. QED
    BY <1>0, <2>1 DEF MailKept
<1>12. CASE MarkProcessed(d)
  <2>1. Good
    BY <1>0, <1>1, <1>12, Kinds, MarkSets DEF MarkProcessed, Event
  <2>2. QED
    BY <1>0, <2>1 DEF MailKept
<1>13. CASE Throw(d)
  <2>1. Good
    BY <1>1, <1>13, ThrowSets DEF Throw
  <2>2. QED
    BY <1>0, <2>1 DEF MailKept
<1>14. Good => Only(d) /\ HandlerOK(d)' /\ MailKept /\ mail' \in [Calls \cup Texts -> Letters \cup {NoMail}]
  BY <1>0 DEF MailKept
<1> HIDE DEF Good
<1>15. QED
  BY <1>2, <1>3, <1>4, <1>5, <1>6, <1>7, <1>8, <1>9, <1>10, <1>11, <1>12, <1>13, <1>14 DEF Handle

(* What a step of a handler writes, and which steps write what.            *)
LEMMA HandleWrites ==
  ASSUME NEW d \in Deliveries, Handle(d)
  PROVE  /\ UNCHANGED decision \/ Answer(d) \/ MarkProcessed(d)
         /\ UNCHANGED told \/ LookupHit(d) \/ LookupMiss(d) \/ Answer(d) \/ InsertText(d)
         /\ fate \subseteq fate'
         /\ UNCHANGED callRecords \/ Report(d)
         /\ UNCHANGED smsRecords \/ InsertText(d)
         /\ UNCHANGED dlq \/ Throw(d)
         /\ UNCHANGED sent
         /\ \/ UNCHANGED tasks
            \/ \E s \in Sessions, v \in Verdicts(d) : Match(d, s, v)
            \/ Answer(d) \/ InsertText(d)
<1>1. ASSUME NEW s \in Sessions, Probe(d, s) \/ ProbeFails(d, s)
      PROVE  /\ UNCHANGED <<decision, told, callRecords, smsRecords, dlq, sent, fate>>
             /\ UNCHANGED tasks \/ \E v \in Verdicts(d) : Match(d, s, v)
  <2>1. UNCHANGED <<storeVars, historyVars>>
    BY <1>1 DEF Probe, ProbeFails
  <2>2. UNCHANGED tasks \/ \E v \in Verdicts(d) : Match(d, s, v)
    BY <1>1, ProbeCases DEF Pass, GivesUp
  <2>3. QED
    BY <2>1, <2>2 DEF storeVars, historyVars
<1>2. ASSUME NEW e \in Events, Receive(d, e)
      PROVE  UNCHANGED <<tasks, storeVars, historyVars>>
  BY <1>2 DEF Receive
<1>3. Resolve(d) \/ Unmatched(d) \/ Members(d) => UNCHANGED <<tasks, storeVars, historyVars>>
  BY DEF Resolve, Unmatched, Members
<1>4. LookupHit(d) \/ LookupMiss(d) => UNCHANGED <<tasks, storeVars, sent>> /\ fate \subseteq fate'
  BY DEF LookupHit, LookupMiss, Answered
<1>5. /\ Answer(d) => UNCHANGED <<callRecords, smsRecords, dlq, sent>> /\ fate \subseteq fate'
      /\ InsertText(d) => UNCHANGED <<decision, callRecords, dlq, sent>> /\ fate \subseteq fate'
  BY DEF Answer, InsertText, Answered
<1>6. /\ Report(d) => UNCHANGED <<tasks, decision, smsRecords, dlq, historyVars>>
      /\ MarkProcessed(d) => UNCHANGED <<tasks, callRecords, smsRecords, dlq, historyVars>>
      /\ Throw(d) => UNCHANGED <<tasks, decision, callRecords, smsRecords, told, sent>>
                      /\ fate \subseteq fate'
  BY DEF Report, MarkProcessed, Throw, Lost
<1>7. QED
  BY <1>1, <1>2, <1>3, <1>4, <1>5, <1>6 DEF Handle, storeVars, historyVars

LEMMA DecisionTyped ==
  ASSUME DeskInv, NEW d \in Deliveries, Handle(d)
  PROVE  /\ decision' \in [Events -> Answers \cup {NoAnswer, Processed}]
         /\ \A e \in Incoming : decision'[e] # Processed
<1>1. CASE Answer(d)
  <2>1. Event(d) \in Events /\ handler[d].ans \in Answers
    BY <1>1, AnswerSets, Kinds
  <2>2. UNCHANGED decision \/ decision' = [decision EXCEPT ![Event(d)] = handler[d].ans]
    BY <1>1 DEF Answer, Remember
  <2>3. QED
    BY <2>1, <2>2, Marks, Kinds DEF DeskInv
<1>2. CASE MarkProcessed(d)
  <2>1. Event(d) \in StatusReports
    BY <1>2, MarkSets
  <2>2. UNCHANGED decision \/ decision' = [decision EXCEPT ![Event(d)] = Processed]
    BY <1>2 DEF MarkProcessed
  <2>3. QED
    BY <2>1, <2>2, Kinds DEF DeskInv
<1>3. QED
  BY <1>1, <1>2, HandleWrites DEF DeskInv

LEMMA ToldTyped ==
  ASSUME DeskInv, NEW d \in Deliveries, Handle(d)
  PROVE  told' \in [Incoming -> Answers \cup {NoAnswer, Waived, Split}]
<1>1. CASE LookupHit(d)
  <2>1. CASE Event(d) \in Incoming
    <3>1. decision[Event(d)] \in Answers /\ Tell(Event(d), decision[Event(d)])
      BY <1>1, <2>1, Kinds DEF LookupHit, DeskInv
    <3>2. QED
      BY <2>1, <3>1, TellSets
  <2>2. CASE Event(d) \notin Incoming
    BY <1>1, <2>2 DEF LookupHit, DeskInv
  <2>3. QED
    BY <2>1, <2>2
<1>2. CASE LookupMiss(d)
  BY <1>2 DEF LookupMiss, WaiveIf, DeskInv
<1>3. CASE Answer(d)
  <2>1. Event(d) \in Incoming /\ handler[d].ans \in Answers
    BY <1>3, AnswerSets
  <2>2. UNCHANGED told \/ Tell(Event(d), handler[d].ans) \/ WaiveIf(Event(d), TRUE)
    BY <1>3 DEF Answer
  <2>3. QED
    BY <2>1, <2>2, TellSets, WaiveSets DEF DeskInv
<1>4. CASE InsertText(d)
  <2>1. Event(d) \in Incoming /\ handler[d].ans \in Answers /\ Tell(Event(d), handler[d].ans)
    BY <1>4, InsertTextSets, Kinds DEF InsertText
  <2>2. QED
    BY <2>1, TellSets
<1>5. CASE Throw(d)
  <2>1. UNCHANGED told \/ WaiveIf(Event(d), TRUE)
    BY <1>5 DEF Throw
  <2>2. QED
    BY <2>1, WaiveSets DEF DeskInv
<1>6. QED
  BY <1>1, <1>2, <1>3, <1>4, <1>5, HandleWrites DEF DeskInv

LEMMA TasksTyped ==
  ASSUME BaseInv, DeskInv, UNCHANGED vars, NEW d \in Deliveries, Handle(d)
  PROVE  /\ tasks' \subseteq CallJobs \cup TextJobs
         /\ \A t \in tasks' : t \in CallJobs => HasRow(t.s)'
<1>0. UNCHANGED rows
  BY DEF vars, sessionVars
<1>1. ASSUME NEW s \in Sessions, HasRow(s), Event(d) \in IncomingCalls,
             NEW t \in CallTasks(d, s)
      PROVE  t \in CallJobs /\ t.s = s
  BY <1>1 DEF CallTasks, CallJobs
<1>2. ASSUME NEW s \in Sessions, NEW v \in Verdicts(d), Match(d, s, v)
      PROVE  /\ tasks' \subseteq CallJobs \cup TextJobs
             /\ \A t \in tasks' : t \in CallJobs => HasRow(t.s)'
  <2>1. /\ tasks' = tasks \/ Event(d) \in IncomingCalls
        /\ tasks' \in {tasks, tasks \cup CallTasks(d, s)} /\ HasRow(s)
    BY <1>2, MatchSets
  <2>2. QED
    BY <1>0, <1>1, <2>1 DEF DeskInv, HasRow
<1>3. CASE Answer(d)
  <2>1. CASE IsCall(Event(d)) /\ handler[d].ans.action = "connect"
    <3>1. /\ Event(d) \in IncomingCalls /\ handler[d].s \in Sessions /\ HasRow(handler[d].s)
      BY <1>3, <2>1, AnswerSets, Kinds
    <3>2. tasks' = tasks \cup CallTasks(d, handler[d].s)
      BY <1>3, <2>1 DEF Answer
    <3>3. QED
      BY <1>0, <1>1, <3>1, <3>2 DEF DeskInv, HasRow
  <2>2. CASE ~(IsCall(Event(d)) /\ handler[d].ans.action = "connect")
    <3>1. tasks' = tasks
      BY <1>3, <2>2 DEF Answer
    <3>2. QED
      BY <1>0, <3>1 DEF DeskInv, HasRow
  <2>3. QED
    BY <2>1, <2>2
<1>4. CASE InsertText(d)
  <2> DEFINE t == [task |-> "forward", d |-> d, ev |-> Event(d)]
  <2>1. t \in TextJobs /\ t \notin CallJobs
    BY <1>4, InsertTextSets DEF TextJobs, CallJobs
  <2>2. tasks' = tasks \cup {t}
    BY <1>4 DEF InsertText
  <2> HIDE DEF t
  <2>3. QED
    BY <1>0, <2>1, <2>2 DEF DeskInv, HasRow
<1>5. CASE UNCHANGED tasks
  BY <1>0, <1>5 DEF DeskInv, HasRow
<1>6. QED
  BY <1>2, <1>3, <1>4, <1>5, HandleWrites

LEMMA StatusTyped == \A e \in StatusReports : StatusOf(e.type) \in RecordStates
<1> SUFFICES ASSUME NEW e \in StatusReports
             PROVE  StatusOf(e.type) \in RecordStates
  OBVIOUS
<1>1. e.type \in {"ringing", "answered", "completed", "missed", "failed"}
  BY InboundAssumption DEF StatusReports
<1>2. QED
  BY <1>1 DEF StatusOf, RecordStates

LEMMA RecordsTyped ==
  ASSUME DeskInv, NEW d \in Deliveries, Handle(d)
  PROVE  /\ callRecords' \subseteq [cpaas_call_id : IncomingCalls, status : RecordStates]
         /\ smsRecords' \in [DOMAIN smsRecords' -> {"PENDING", "DELIVERED", "FAILED"}]
         /\ dlq' \subseteq [ev : Events, status : {"PENDING", "RETRYING", "ABANDONED"}]
<1>1. callRecords' \subseteq [cpaas_call_id : IncomingCalls, status : RecordStates]
  <2>1. CASE Report(d) /\ callRecords' # callRecords
    <3>1. StatusOf(Event(d).type) \in RecordStates
      BY <2>1, ReportSets, StatusTyped
    <3>2. \A r \in callRecords :
            [r EXCEPT !.status = StatusOf(Event(d).type)]
              \in [cpaas_call_id : IncomingCalls, status : RecordStates]
      BY <3>1 DEF DeskInv
    <3>3. \A q \in callRecords' : \E r \in callRecords :
            q = r \/ q = [r EXCEPT !.status = StatusOf(Event(d).type)]
      BY <2>1 DEF Report
    <3>4. QED
      BY <3>2, <3>3 DEF DeskInv
  <2>2. QED
    BY <2>1, HandleWrites DEF DeskInv
<1>2. smsRecords' \in [DOMAIN smsRecords' -> {"PENDING", "DELIVERED", "FAILED"}]
  <2>1. CASE InsertText(d)
    <3> DEFINE text == [d |-> d, ev |-> Event(d)]
    <3>1. \/ UNCHANGED smsRecords
          \/ smsRecords' = [i \in DOMAIN smsRecords \cup {text} |->
                             IF i = text THEN "PENDING" ELSE smsRecords[i]]
      BY <2>1 DEF InsertText
    <3> HIDE DEF text
    <3>2. QED
      BY <3>1 DEF DeskInv
  <2>2. QED
    BY <2>1, HandleWrites DEF DeskInv
<1>3. dlq' \subseteq [ev : Events, status : {"PENDING", "RETRYING", "ABANDONED"}]
  <2>1. CASE Throw(d)
    <3>1. UNCHANGED dlq \/ dlq' = dlq \cup {[ev |-> Event(d), status |-> "PENDING"]}
      BY <2>1 DEF Throw, PushToDlq
    <3>2. QED
      BY <2>1, <3>1, ThrowSets DEF DeskInv
  <2>2. QED
    BY <2>1, HandleWrites DEF DeskInv
<1>4. QED
  BY <1>1, <1>2, <1>3

LEMMA HandleStep ==
  ASSUME BaseInv, DeskInv, UNCHANGED vars, NEW d \in Deliveries, Handle(d)
  PROVE  DeskInv'
<1>1. UNCHANGED rows /\ UNCHANGED sent
  BY HandleWrites DEF vars, sessionVars
<1>2. Only(d) /\ HandlerOK(d)' /\ MailKept /\ mail' \in [Calls \cup Texts -> Letters \cup {NoMail}]
  BY HandleMoves
<1>3. \A o \in Deliveries : HandlerOK(o)'
  BY <1>1, <1>2, OthersOK DEF HasRow
<1>4. handler' \in [Deliveries -> Handlers]
  BY <1>2 DEF Only
<1>5. sent' \in [IncomingTexts -> Nat]
  BY <1>1 DEF DeskInv
<1>6. QED
  BY <1>2, <1>3, <1>4, <1>5, DecisionTyped, ToldTyped, TasksTyped, RecordsTyped DEF DeskInv

LEMMA TaskClass ==
  ASSUME DeskInv, NEW t \in tasks
  PROVE  /\ t.task \in {"record", "bump"} => t \in CallJobs /\ t.ev \in IncomingCalls
                                             /\ t.s \in Sessions /\ HasRow(t.s)
         /\ t.task \in {"forward"} \cup Outcomes => t \in TextJobs /\ t.ev \in IncomingTexts
                                                    /\ t \notin CallJobs
         /\ t.task \in {"record", "bump", "forward"} \cup Outcomes
BY DEF DeskInv, CallJobs, TextJobs, Outcomes

(* What is left undone is done later, or by an operator, or lapses.        *)
Later ==
    \/ \E t \in tasks : Record(t) \/ Forward(t) \/ Settle(t)
    \/ DlqRetry
    \/ \E r \in dlq : DlqAbandon(r)
    \/ \E e \in Events : DecisionLapses(e)

LEMMA ForwardSets ==
  ASSUME DeskInv, NEW t \in tasks, Forward(t)
  PROVE  /\ t \in TextJobs /\ t.task = "forward" /\ t.ev \in IncomingTexts
         /\ \E u \in TextJobs \ CallJobs : /\ u.task \in Outcomes
                                           /\ tasks' = (tasks \ {t}) \cup {u}
         /\ sent' \in [IncomingTexts -> Nat]
         /\ \A e \in IncomingTexts : e # t.ev => sent'[e] = sent[e]
         /\ \/ sent'[t.ev] = sent[t.ev]
            \/ told[t.ev] # Waived /\ sent'[t.ev] = sent[t.ev] + 1
<1>1. t \in TextJobs /\ t.ev \in IncomingTexts /\ t.task = "forward"
  BY TaskClass DEF Forward
<1>2. ASSUME NEW q \in Outcomes
      PROVE  [t EXCEPT !.task = q] \in TextJobs \ CallJobs /\ [t EXCEPT !.task = q].task = q
  BY <1>1, <1>2 DEF TextJobs, CallJobs, Outcomes
<1>3. PICK q \in Outcomes : tasks' = (tasks \ {t}) \cup {[t EXCEPT !.task = q]}
  BY DEF Forward
<1>4. \/ UNCHANGED sent
      \/ told[t.ev] # Waived /\ sent' = [sent EXCEPT ![t.ev] = @ + 1]
  BY DEF Forward
<1>5. \E u \in TextJobs \ CallJobs : u.task \in Outcomes /\ tasks' = (tasks \ {t}) \cup {u}
  BY <1>2, <1>3
<1>6. /\ sent' \in [IncomingTexts -> Nat]
      /\ \A e \in IncomingTexts : e # t.ev => sent'[e] = sent[e]
      /\ \/ sent'[t.ev] = sent[t.ev]
         \/ told[t.ev] # Waived /\ sent'[t.ev] = sent[t.ev] + 1
  BY <1>1, <1>4 DEF DeskInv
<1>7. QED
  BY <1>1, <1>5, <1>6

LEMMA DlqSets ==
  ASSUME DeskInv, NEW r \in dlq, NEW q \in {"PENDING", "RETRYING", "ABANDONED"}
  PROVE  /\ [r EXCEPT !.status = q] \in [ev : Events, status : {"PENDING", "RETRYING", "ABANDONED"}]
         /\ [r EXCEPT !.status = q].ev = r.ev
BY DEF DeskInv

LEMMA LaterDlq ==
  ASSUME DeskInv, Later
  PROVE  /\ dlq' \subseteq [ev : Events, status : {"PENDING", "RETRYING", "ABANDONED"}]
         /\ \A r \in dlq : \E q \in dlq' : q.ev = r.ev
<1>1. CASE DlqRetry
  <2>1. PICK ids \in SUBSET dlq :
          dlq' = (dlq \ ids) \cup {[r EXCEPT !.status = "RETRYING"] : r \in ids}
    BY <1>1 DEF DlqRetry
  <2> DEFINE new(r) == [r EXCEPT !.status = "RETRYING"]
  <2>2. ASSUME NEW r \in ids
        PROVE  /\ new(r) \in [ev : Events, status : {"PENDING", "RETRYING", "ABANDONED"}]
               /\ new(r).ev = r.ev
    BY <2>1, DlqSets
  <2>3. dlq' = (dlq \ ids) \cup {new(r) : r \in ids}
    BY <2>1
  <2> HIDE DEF new
  <2>4. dlq' \subseteq [ev : Events, status : {"PENDING", "RETRYING", "ABANDONED"}]
    BY <2>2, <2>3 DEF DeskInv
  <2>5. ASSUME NEW r \in dlq
        PROVE  \E q \in dlq' : q.ev = r.ev
    BY <2>2, <2>3
  <2>6. QED
    BY <2>4, <2>5
<1>2. ASSUME NEW r \in dlq, DlqAbandon(r)
      PROVE  /\ dlq' \subseteq [ev : Events, status : {"PENDING", "RETRYING", "ABANDONED"}]
             /\ \A i \in dlq : \E q \in dlq' : q.ev = i.ev
  BY <1>2, DlqSets DEF DlqAbandon, DeskInv
<1>3. CASE UNCHANGED dlq
  BY <1>3 DEF DeskInv
<1>4. (\E t \in tasks : Record(t) \/ Forward(t) \/ Settle(t)) \/ (\E e \in Events : DecisionLapses(e))
         => UNCHANGED dlq
  BY DEF Record, Forward, Settle, DecisionLapses, storeVars
<1>5. QED
  BY <1>1, <1>2, <1>3, <1>4 DEF Later

LEMMA LaterSets ==
  ASSUME DeskInv, Later
  PROVE  /\ UNCHANGED <<mail, handler>>
         /\ UNCHANGED <<decision, told>> \/ \E e \in Events : DecisionLapses(e)
         /\ UNCHANGED sent \/ \E t \in tasks : Forward(t)
         /\ UNCHANGED fate
         /\ tasks' \subseteq tasks \/ \E t \in tasks : Forward(t)
BY DEF Later, Record, Forward, Settle, Done, DlqRetry, DlqAbandon, DecisionLapses, storeVars,
   historyVars

LEMMA LaterStep ==
  ASSUME BaseInv, DeskInv, UNCHANGED vars, Later
  PROVE  DeskInv'
<1>0. UNCHANGED rows /\ UNCHANGED <<mail, handler>>
  BY LaterSets DEF vars, sessionVars
<1>1. \A d \in Deliveries : HandlerOK(d)'
  BY <1>0 DEF DeskInv, HandlerOK, Busy, Event, HasRow
<1>2. /\ decision' \in [Events -> Answers \cup {NoAnswer, Processed}]
      /\ \A e \in Incoming : decision'[e] # Processed
      /\ told' \in [Incoming -> Answers \cup {NoAnswer, Waived, Split}]
  <2>1. ASSUME NEW e \in Events, DecisionLapses(e)
        PROVE  /\ decision' \in [Events -> Answers \cup {NoAnswer, Processed}]
               /\ \A f \in Incoming : decision'[f] # Processed
               /\ told' \in [Incoming -> Answers \cup {NoAnswer, Waived, Split}]
    BY <2>1, Marks, Kinds DEF DeskInv, DecisionLapses, WaiveIf
  <2>2. QED
    BY <2>1, LaterSets DEF DeskInv
<1>3. /\ tasks' \subseteq CallJobs \cup TextJobs
      /\ \A t \in tasks' : t \in CallJobs => HasRow(t.s)'
      /\ sent' \in [IncomingTexts -> Nat]
  <2>1. CASE \E t \in tasks : Forward(t)
    BY <1>0, <2>1, ForwardSets DEF DeskInv, HasRow
  <2>2. CASE ~\E t \in tasks : Forward(t)
    BY <1>0, <2>2, LaterSets DEF DeskInv, HasRow
  <2>3. QED
    BY <2>1, <2>2
<1>4. callRecords' \subseteq [cpaas_call_id : IncomingCalls, status : RecordStates]
  <2>1. ASSUME NEW t \in tasks, Record(t)
        PROVE  callRecords' \subseteq [cpaas_call_id : IncomingCalls, status : RecordStates]
    BY <2>1, TaskClass DEF Record, DeskInv, RecordStates
  <2>2. UNCHANGED callRecords \/ \E t \in tasks : Record(t)
    BY DEF Later, Forward, Settle, DlqRetry, DlqAbandon, DecisionLapses, storeVars
  <2>3. QED
    BY <2>1, <2>2 DEF DeskInv
<1>5. smsRecords' \in [DOMAIN smsRecords' -> {"PENDING", "DELIVERED", "FAILED"}]
  <2>1. ASSUME NEW t \in tasks, Settle(t)
        PROVE  smsRecords' \in [DOMAIN smsRecords' -> {"PENDING", "DELIVERED", "FAILED"}]
    BY <2>1 DEF Settle, Outcomes, DeskInv
  <2>2. UNCHANGED smsRecords \/ \E t \in tasks : Settle(t)
    BY DEF Later, Record, Forward, DlqRetry, DlqAbandon, DecisionLapses, storeVars
  <2>3. QED
    BY <2>1, <2>2 DEF DeskInv
<1>6. QED
  BY <1>0, <1>1, <1>2, <1>3, <1>4, <1>5, LaterDlq DEF DeskInv

-----------------------------------------------------------------------------
(* The one task that touches the sessions' stores: it may create a hash    *)
(* that has gone, with neither id nor state, of a session that has a row.  *)
Bumped ==
    /\ UNCHANGED <<poolVars, rows, due, hashId, ttl, indexVars, req, job>>
    /\ \/ UNCHANGED hashState
       \/ \E s \in Sessions : /\ HasRow(s) /\ hashState[s] = "none"
                              /\ hashState' = [hashState EXCEPT ![s] = "bare"]

LEMMA BumpIsBumped ==
  ASSUME DeskInv, NEW t \in tasks, Bump(t),
         UNCHANGED <<poolVars, rows, due, hashId, ttl, indexVars, req, job>>
  PROVE  Bumped
BY TaskClass DEF Bump, Bumped

LEMMA BumpedBase ==
  ASSUME BaseInv, Bumped
  PROVE  BaseInv'
<1>1. /\ UNCHANGED <<available, inUse, cooldown, proxySessions, hashParties, numStatus, pending, reap>>
      /\ UNCHANGED <<rows, due, hashId, ttl, phoneSessions, tenantActive, req, job>>
  BY DEF Bumped, poolVars, redisPool, indexVars
<1>2. PoolTypeOK'
  BY <1>1 DEF BaseInv, PoolTypeOK
<1>3. StoresOK'
  BY <1>1 DEF BaseInv, StoresOK, Bumped
<1>4. ReqsOK' /\ JobsOK' /\ RowsOK'
  BY <1>1 DEF BaseInv, ReqsOK, JobsOK, RowsOK, ReqOK, JobOK, HasRow, Makes, Works
<1>5. TracesOK'
  <2>1. \A s \in Sessions : ~HasRow(s) => hashState'[s] = hashState[s]
    BY DEF Bumped, BaseInv, StoresOK
  <2>2. QED
    BY <1>1, <2>1 DEF BaseInv, TracesOK, HasRow
<1>6. ClaimsOK'
  BY <1>1 DEF BaseInv, ClaimsOK, HasRow, Makes
<1>7. QED
  BY <1>2, <1>3, <1>4, <1>5, <1>6 DEF BaseInv

LEMMA BumpStep ==
  ASSUME BaseInv, DeskInv, Bumped, NEW t \in tasks, Bump(t)
  PROVE  DeskInv'
<1>1. /\ UNCHANGED <<mail, handler, decision, callRecords, smsRecords, dlq, told, sent, rows>>
      /\ tasks' \subseteq tasks
  BY DEF Bump, Done, storeVars, historyVars, Bumped
<1>2. \A d \in Deliveries : HandlerOK(d)'
  BY <1>1 DEF DeskInv, HandlerOK, Busy, Event, HasRow
<1>3. QED
  BY <1>1, <1>2 DEF DeskInv, HasRow

(* The sessions' own steps leave the desk alone, and rows are kept.        *)
LEMMA SessionsStep ==
  ASSUME BaseInv, DeskInv, [SessionNext]_vars, UNCHANGED inboundVars
  PROVE  DeskInv'
<1>1. UNCHANGED <<mail, handler, decision, tasks, callRecords, smsRecords, dlq, told, sent>>
  BY DEF inboundVars, storeVars, historyVars
<1>2. \A s \in Sessions : HasRow(s) => HasRow(s)'
  BY RowsStep DEF HasRow, RowKept
<1>3. \A d \in Deliveries : HandlerOK(d)'
  <2> SUFFICES ASSUME NEW d \in Deliveries
               PROVE  HandlerOK(d)'
    OBVIOUS
  <2>1. handler[d] \in Routed => handler[d].s \in Sessions
    BY DEF Routed
  <2>2. QED
    BY <1>1, <1>2, <2>1 DEF DeskInv, HandlerOK, Busy, Event
<1>4. \A t \in tasks : t \in CallJobs => HasRow(t.s)'
  BY <1>2 DEF DeskInv, CallJobs
<1>5. QED
  BY <1>1, <1>3, <1>4 DEF DeskInv

LEMMA InboundCases ==
  ASSUME DeskInv, [InboundNext]_allVars
  PROVE  \/ UNCHANGED vars /\ \E d \in Deliveries : Handle(d)
         \/ UNCHANGED vars /\ Later
         \/ \E t \in tasks : Bump(t) /\ Bumped
         \/ [SessionNext]_vars /\ UNCHANGED inboundVars
BY BumpIsBumped DEF InboundNext, InboundStep, Later, allVars

LEMMA InboundStarts == InboundInit => BaseInv /\ DeskInv
<1> SUFFICES ASSUME InboundInit
             PROVE  BaseInv /\ DeskInv
  OBVIOUS
<1>1. BaseInv
  BY BaseInit DEF InboundInit
<1>2. Idle \in Handlers /\ Idle.pc = "idle" /\ Idle \notin Routed
  BY DEF Handlers, Idle, Routed
<1>3. DeskInv
  BY <1>2, Marks, Kinds DEF InboundInit, DeskInv, HandlerOK, Busy, Routing
<1>4. QED
  BY <1>1, <1>3

LEMMA DeskAlways == InboundSpec => [](BaseInv /\ DeskInv)
<1>1. BaseInv /\ DeskInv /\ [InboundNext]_allVars => (BaseInv /\ DeskInv)'
  <2> SUFFICES ASSUME BaseInv, DeskInv, [InboundNext]_allVars
               PROVE  BaseInv' /\ DeskInv'
    OBVIOUS
  <2>1. CASE UNCHANGED vars /\ \E d \in Deliveries : Handle(d)
    BY <2>1, HandleStep, BaseStep
  <2>2. CASE UNCHANGED vars /\ Later
    BY <2>2, LaterStep, BaseStep
  <2>3. CASE \E t \in tasks : Bump(t) /\ Bumped
    BY <2>3, BumpStep, BumpedBase
  <2>4. CASE [SessionNext]_vars /\ UNCHANGED inboundVars
    BY <2>4, SessionsStep, BaseStep
  <2>5. QED
    BY <2>1, <2>2, <2>3, <2>4, InboundCases
<1>2. QED
  BY <1>1, InboundStarts, PTL DEF InboundSpec

(* Webhooks, their tasks and their records are of their types, and the     *)
(* sessions' stores stay of theirs, whatever calls, texts, reports and     *)
(* operators' requests come in and whichever store commands fail           *)
(* (call-router.ts, sms-router.ts, webhook-handler.ts:86-155).             *)
THEOREM InboundTypeCorrect == InboundSpec => []InboundTypeOK
<1>1. BaseInv /\ DeskInv => InboundTypeOK
  <2> SUFFICES ASSUME BaseInv, DeskInv
               PROVE  InboundTypeOK
    OBVIOUS
  <2>1. SessionTypeOK
    BY DEF BaseInv, StoresOK, SessionTypeOK
  <2>2. \A t \in tasks : t.task \in {"record", "bump", "forward"} \cup Outcomes
    BY TaskClass
  <2>3. QED
    BY <2>1, <2>2 DEF InboundTypeOK, DeskInv, RecordStates
<1>2. QED
  BY <1>1, DeskAlways, PTL

-----------------------------------------------------------------------------
(* Nothing vanishes.                                                       *)
Decided(e) == [ev |-> e, is |-> "answered"] \in fate
Gone(e)    == [ev |-> e, is |-> "lost"] \in fate
InDlq(e)   == \E r \in dlq : r.ev = e

Attended(e) ==
    \/ Decided(e)
    \/ \E d \in Deliveries : Busy(d) /\ Event(d) = e
    \/ e \in IncomingTexts /\ (InDlq(e) \/ Gone(e))

LEMMA Vanishing ==
  NothingVanishes <=> \A e \in Incoming : mail[e.id] # NoMail => Attended(e)
BY DEF NothingVanishes, Attended, Decided, Gone, InDlq, Busy, HandlerAt

LEMMA WordStays ==
  ASSUME NEW d \in Deliveries, Handle(d)
  PROVE  dlq \subseteq dlq' /\ fate \subseteq fate'
<1>1. Throw(d) => dlq \subseteq dlq'
  BY DEF Throw, PushToDlq
<1>2. QED
  BY <1>1, HandleWrites

(* A handler leaves a call or a text in no other way than by answering it, *)
(* or, of a text, by listing it or by losing it.                           *)
LEMMA LeavesWord ==
  ASSUME BaseInv, DeskInv, NEW d \in Deliveries, Handle(d), Busy(d),
         NEW e \in Incoming, Event(d) = e
  PROVE  \/ Busy(d)' /\ Event(d)' = e
         \/ Decided(e)'
         \/ e \in IncomingTexts /\ (InDlq(e)' \/ Gone(e)')
<1> DEFINE Word == \/ Busy(d)' /\ Event(d)' = e
                   \/ Decided(e)'
<1>1. Answered(e) => Decided(e)'
  BY DEF Answered, Decided
<1>2. Lost(e) => Gone(e)'
  BY DEF Lost, Gone
<1>3. ASSUME NEW f \in Events, Receive(d, f)
      PROVE  FALSE
  BY <1>3, ReceiveSets
<1>4. CASE LookupHit(d)
  BY <1>1, <1>4 DEF LookupHit
<1>5. CASE LookupMiss(d) \/ Members(d) \/ Unmatched(d) \/ Resolve(d) \/ Report(d)
  <2>1. Event(d)' = e /\ handler'[d].pc # "idle"
    BY <1>5, MissSets, MembersSets, UnmatchedSets, ResolveSets, ReportSets
  <2>2. QED
    BY <2>1 DEF Busy
<1>6. ASSUME NEW s \in Sessions, Probe(d, s) \/ ProbeFails(d, s)
      PROVE  Word
  <2>1. ASSUME NEW v, Match(d, s, v)
        PROVE  handler'[d].pc # "idle" /\ Event(d)' = e
    BY <2>1, MatchSets
  <2>2. Pass(d, s) \/ GivesUp(d) => handler'[d].pc # "idle" /\ Event(d)' = e
    BY PassSets, GivesUpSets
  <2>3. QED
    BY <1>6, <2>1, <2>2, ProbeCases DEF Busy
<1>7. CASE Answer(d)
  <2>1. CASE Forwards(d)
    BY <1>7, <2>1, AnswerSets DEF Busy
  <2>2. CASE ~Forwards(d)
    BY <1>1, <1>7, <2>2 DEF Answer, Forwards
  <2>3. QED
    BY <2>1, <2>2
<1>8. CASE InsertText(d)
  BY <1>1, <1>8 DEF InsertText
<1>9. CASE MarkProcessed(d)
  BY <1>9, MarkSets, Kinds
<1>10. CASE Throw(d)
  <2>1. e \in IncomingTexts
    <3>1. e \notin IncomingCalls
      BY <1>10, ThrowSets DEF DeskInv, HandlerOK
    <3>2. QED
      BY <3>1 DEF Incoming
  <2>2. CASE PushToDlq(e)
    <3>1. [ev |-> e, status |-> "PENDING"] \in dlq'
      BY <2>2 DEF PushToDlq
    <3>2. [ev |-> e, status |-> "PENDING"].ev = e
      OBVIOUS
    <3>3. QED
      BY <2>1, <3>1, <3>2 DEF InDlq
  <2>3. PushToDlq(e) \/ Lost(e)
    BY <1>10 DEF Throw
  <2>4. QED
    BY <1>2, <2>1, <2>2, <2>3
<1>11. QED
  BY <1>3, <1>4, <1>5, <1>6, <1>7, <1>8, <1>9, <1>10 DEF Handle

(* A call or a text that came in with this step is the one received.       *)
LEMMA CameIn ==
  ASSUME BaseInv, DeskInv, UNCHANGED vars, NEW d \in Deliveries, Handle(d), NEW e \in Incoming,
         mail'[e.id] # NoMail, mail[e.id] = NoMail
  PROVE  Busy(d)' /\ Event(d)' = e
<1>0. mail' # mail
  OBVIOUS
<1>1. PICK f \in Events : Receive(d, f)
  <2>1. LookupHit(d) \/ LookupMiss(d) \/ Members(d) \/ Unmatched(d) => UNCHANGED mail
    BY DEF LookupHit, LookupMiss, Members, Unmatched
  <2>2. \A s \in Sessions : Probe(d, s) \/ ProbeFails(d, s) => UNCHANGED mail
    BY DEF Probe, ProbeFails
  <2>3. Resolve(d) \/ Report(d) \/ MarkProcessed(d) \/ Throw(d) => UNCHANGED mail
    BY DEF Resolve, Report, MarkProcessed, Throw
  <2>4. Answer(d) \/ InsertText(d) => UNCHANGED mail
    BY DEF Answer, InsertText
  <2>5. QED
    BY <1>0, <2>1, <2>2, <2>3, <2>4 DEF Handle
<1>2. mail[f.id] = NoMail => f \in Incoming
  BY <1>1 DEF Receive
<1>3. mail'[e.id] # mail[e.id] => e.id = f.id
  BY <1>1, ReceiveSets, Kinds
<1>4. e = f
  BY <1>2, <1>3, Kinds
<1>5. QED
  BY <1>1, <1>4, ReceiveSets DEF Busy

LEMMA VanishStep ==
  ASSUME BaseInv, DeskInv, NothingVanishes, [InboundNext]_allVars
  PROVE  NothingVanishes'
<1> SUFFICES ASSUME NEW e \in Incoming, mail'[e.id] # NoMail
             PROVE  Attended(e)'
  BY DEF NothingVanishes, Attended, Decided, Gone, InDlq, Busy, HandlerAt
<1>0. mail[e.id] # NoMail => Attended(e)
  BY Vanishing
<1>1. ASSUME NEW d \in Deliveries, Handle(d), UNCHANGED vars
      PROVE  Attended(e)'
  <2>1. CASE mail[e.id] = NoMail
    BY <1>1, <2>1, CameIn DEF Attended
  <2>2. CASE Decided(e) \/ (e \in IncomingTexts /\ (InDlq(e) \/ Gone(e)))
    BY <1>1, <2>2, WordStays DEF Attended, Decided, InDlq, Gone
  <2>3. ASSUME NEW o \in Deliveries, Busy(o), Event(o) = e
        PROVE  Attended(e)'
    <3>1. CASE o = d
      BY <1>1, <2>3, <3>1, LeavesWord DEF Attended
    <3>2. CASE o # d
      <4>1. handler'[o] = handler[o]
        BY <1>1, <3>2, HandleMoves DEF Only
      <4>2. QED
        BY <2>3, <4>1 DEF Attended, Busy, Event
    <3>3. QED
      BY <3>1, <3>2
  <2>4. QED
    BY <1>0, <2>1, <2>2, <2>3 DEF Attended
<1>2. CASE Later
  <2>1. UNCHANGED <<mail, handler, fate>>
    BY <1>2, LaterSets
  <2>2. InDlq(e) => InDlq(e)'
    BY <1>2, LaterDlq DEF InDlq
  <2>3. QED
    BY <1>0, <2>1, <2>2 DEF Attended, Decided, Gone, Busy, Event
<1>3. CASE UNCHANGED <<mail, handler, fate, dlq>>
  BY <1>0, <1>3 DEF Attended, Decided, Gone, InDlq, Busy, Event
<1>4. QED
  BY <1>1, <1>2, <1>3, InboundCases DEF Bump, inboundVars, storeVars, historyVars

(* A call that came in is being handled or has been given a decision; a    *)
(* text, too, or it is listed for the operators, or the insert into their  *)
(* list failed after its handling had thrown (webhook-handler.ts:150-155,  *)
(* 251-253; call-router.ts:85-210; admin.ts:614-645), however many         *)
(* deliveries overtake one another and whichever commands fail.            *)
THEOREM NothingEverVanishes == InboundSpec => []NothingVanishes
<1>1. InboundInit => NothingVanishes
  <2> SUFFICES ASSUME InboundInit, NEW e \in Incoming
               PROVE  mail[e.id] = NoMail
    BY Vanishing
  <2>1. e.id \in Calls \cup Texts
    BY Kinds
  <2>2. QED
    BY <2>1 DEF InboundInit
<1>2. BaseInv /\ DeskInv /\ NothingVanishes /\ [InboundNext]_allVars => NothingVanishes'
  BY VanishStep
<1>3. QED
  BY <1>1, <1>2, DeskAlways, PTL DEF InboundSpec

-----------------------------------------------------------------------------
(* Retries agree.  While the promise about a call or a text holds, one     *)
(* delivery of it at most is past its lookup, and none is once there is a  *)
(* decision, but for the one that records a text it has decided to         *)
(* connect; the provider has been told nothing else than the decision; and *)
(* a text is handed to the carrier, or about to be, only when the delivery *)
(* that decided on it is done.                                             *)
Past(d, e) == handler[d].pc \notin {"idle", "lookup"} /\ Event(d) = e

Fwd(e) == {t \in tasks : t.task = "forward" /\ t.ev = e}

AgreeAt(e) ==
    /\ told[e] # Split
    /\ told[e] # Waived =>
         /\ \A d, o \in Deliveries : Past(d, e) /\ Past(o, e) => d = o
         /\ told[e] # NoAnswer => decision[e] = told[e]
         /\ \A d \in Deliveries : Past(d, e) =>
              decision[e] = IF HandlerAt(d, "insert") THEN handler[d].ans ELSE NoAnswer

OnceAt(e) ==
    /\ sent[e] \in {0, 1}
    /\ told[e] # Waived =>
         /\ decision[e] = NoAnswer \/ (\E d \in Deliveries : Past(d, e)) =>
              sent[e] = 0 /\ Fwd(e) = {}
         /\ Fwd(e) # {} => sent[e] = 0
         /\ \A t, u \in Fwd(e) : t = u

AgreeInv ==
    /\ \A e \in Incoming : AgreeAt(e)
    /\ \A e \in IncomingTexts : OnceAt(e)

(* What a step means to an event: nothing, when its promise does not gain, *)
(* no delivery of it moves past its lookup, and no forwarding begins.      *)
Quiet(e) ==
    /\ told'[e] \in {told[e], Waived}
    /\ told'[e] = Waived \/ decision'[e] = decision[e]
    /\ \A o \in Deliveries : Past(o, e)' =>
         /\ Past(o, e)
         /\ HandlerAt(o, "insert")' = HandlerAt(o, "insert")
         /\ HandlerAt(o, "insert") => handler'[o].ans = handler[o].ans
    /\ e \in IncomingTexts => Fwd(e)' \subseteq Fwd(e) /\ sent'[e] = sent[e]

LEMMA QuietAgrees ==
  ASSUME NEW e \in Incoming, Quiet(e), AgreeAt(e)
  PROVE  AgreeAt(e)'
<1>1. CASE told'[e] = Waived
  BY <1>1, Marks DEF AgreeAt
<1>2. CASE told'[e] # Waived
  <2>1. told'[e] = told[e] /\ decision'[e] = decision[e] /\ told[e] # Waived
    BY <1>2 DEF Quiet
  <2>2. \A d \in Deliveries : Past(d, e)' =>
          decision'[e] = IF HandlerAt(d, "insert")' THEN handler'[d].ans ELSE NoAnswer
    BY <2>1 DEF Quiet, AgreeAt
  <2>3. \A d, o \in Deliveries : Past(d, e)' /\ Past(o, e)' => d = o
    BY <2>1 DEF Quiet, AgreeAt
  <2>4. told'[e] # Split /\ (told'[e] # NoAnswer => decision'[e] = told'[e])
    BY <2>1 DEF AgreeAt
  <2>5. QED
    BY <2>2, <2>3, <2>4 DEF AgreeAt
<1>3. QED
  BY <1>1, <1>2

LEMMA QuietOnce ==
  ASSUME NEW e \in IncomingTexts, Quiet(e), OnceAt(e)
  PROVE  OnceAt(e)'
<1>1. Fwd(e)' \subseteq Fwd(e) /\ sent'[e] = sent[e]
  BY DEF Quiet
<1>2. CASE told'[e] = Waived
  BY <1>1, <1>2 DEF OnceAt
<1>3. CASE told'[e] # Waived
  <2>1. told'[e] = told[e] /\ decision'[e] = decision[e] /\ told[e] # Waived
    BY <1>3 DEF Quiet
  <2>2. (\E d \in Deliveries : Past(d, e)') => \E d \in Deliveries : Past(d, e)
    BY DEF Quiet
  <2>3. QED
    BY <1>1, <2>1, <2>2 DEF OnceAt
<1>4. QED
  BY <1>2, <1>3

(* Handlers leave the forwarding to a text's last step.                    *)
LEMMA FwdStep ==
  ASSUME BaseInv, DeskInv, NEW d \in Deliveries, Handle(d), NEW e \in IncomingTexts
  PROVE  /\ ~InsertText(d) => Fwd(e)' = Fwd(e)
         /\ InsertText(d) =>
              Fwd(e)' = IF Event(d) = e
                          THEN Fwd(e) \cup {[task |-> "forward", d |-> d, ev |-> e]} ELSE Fwd(e)
<1>1. \A s : \A t \in CallTasks(d, s) : t.task # "forward"
  BY DEF CallTasks
<1>2. ASSUME NEW s \in Sessions, NEW v \in Verdicts(d), Match(d, s, v)
      PROVE  Fwd(e)' = Fwd(e)
  BY <1>1, <1>2, MatchSets DEF Fwd
<1>3. CASE Answer(d)
  <2>1. tasks' \in {tasks, tasks \cup CallTasks(d, handler[d].s)}
    BY <1>3 DEF Answer
  <2>2. QED
    BY <1>1, <1>3, <2>1 DEF Fwd, InsertText, Answer, HandlerAt
<1>4. CASE InsertText(d)
  <2> DEFINE t == [task |-> "forward", d |-> d, ev |-> Event(d)]
  <2>1. t.task = "forward" /\ t.ev = Event(d)
    OBVIOUS
  <2>2. tasks' = tasks \cup {t}
    BY <1>4 DEF InsertText
  <2>3. Event(d) = e => t = [task |-> "forward", d |-> d, ev |-> e]
    OBVIOUS
  <2> HIDE DEF t
  <2>4. QED
    BY <1>4, <2>1, <2>2, <2>3 DEF Fwd
<1>5. CASE UNCHANGED tasks /\ ~InsertText(d)
  BY <1>5 DEF Fwd
<1>6. \A s, v : Match(d, s, v) => ~InsertText(d)
  BY DEF Match, InsertText, HandlerAt
<1>7. QED
  BY <1>2, <1>3, <1>4, <1>5, <1>6, HandleWrites

LEMMA EventKept ==
  ASSUME BaseInv, DeskInv, NEW d \in Deliveries, Handle(d)
  PROVE  /\ Busy(d) => ~Busy(d)' \/ Event(d)' = Event(d)
         /\ ~Busy(d) => handler'[d].pc = "lookup"
<1>0. Idle.pc = "idle"
  BY DEF Idle
<1>1. ASSUME NEW e \in Events, Receive(d, e)
      PROVE  ~Busy(d) /\ handler'[d].pc = "lookup"
  BY <1>1, ReceiveSets
<1>2. LookupHit(d) \/ InsertText(d) \/ Throw(d) => Busy(d) /\ ~Busy(d)'
  BY <1>0, HitSets, InsertTextSets, ThrowSets DEF Busy
<1>3. LookupMiss(d) \/ Members(d) \/ Unmatched(d) \/ Resolve(d) \/ Report(d) =>
        Busy(d) /\ Event(d)' = Event(d)
  BY MissSets, MembersSets, UnmatchedSets, ResolveSets, ReportSets DEF Busy
<1>4. ASSUME NEW s \in Sessions, Probe(d, s) \/ ProbeFails(d, s)
      PROVE  Busy(d) /\ Event(d)' = Event(d)
  <2>1. \A v : Match(d, s, v) => Event(d)' = Event(d)
    BY MatchSets
  <2>2. Pass(d, s) \/ GivesUp(d) => Event(d)' = Event(d)
    BY PassSets, GivesUpSets
  <2>3. HandlerAt(d, "probe")
    BY <1>4 DEF Probe, ProbeFails
  <2>4. QED
    BY <1>4, <2>1, <2>2, <2>3, ProbeCases DEF Busy, HandlerAt
<1>5. Answer(d) => Busy(d) /\ (~Busy(d)' \/ Event(d)' = Event(d))
  BY <1>0, AnswerSets DEF Busy
<1>6. MarkProcessed(d) => Busy(d) /\ (~Busy(d)' \/ Event(d)' = Event(d))
  BY <1>0, MarkSets DEF Busy
<1>7. QED
  BY <1>1, <1>2, <1>3, <1>4, <1>5, <1>6 DEF Handle

(* A delivery of another event changes nothing for this one.               *)
LEMMA OtherQuiet ==
  ASSUME BaseInv, DeskInv, UNCHANGED vars, NEW d \in Deliveries, Handle(d), NEW e \in Incoming,
         Busy(d) => Event(d) # e
  PROVE  Quiet(e)
<1>1. told'[e] = told[e]
  <2>1. CASE LookupHit(d)
    <3>1. Event(d) # e
      BY <2>1, HitSets DEF Busy
    <3>2. UNCHANGED told \/ Tell(Event(d), decision[Event(d)])
      BY <2>1 DEF LookupHit
    <3>3. QED
      BY <3>1, <3>2 DEF Tell, DeskInv
  <2>2. CASE LookupMiss(d)
    BY <2>2, MissSets DEF Busy, LookupMiss, WaiveIf
  <2>3. CASE Answer(d)
    <3>1. Event(d) # e
      BY <2>3, AnswerSets DEF Busy
    <3>2. UNCHANGED told \/ Tell(Event(d), handler[d].ans) \/ WaiveIf(Event(d), TRUE)
      BY <2>3 DEF Answer
    <3>3. QED
      BY <3>1, <3>2, WaiveSets DEF Tell, DeskInv
  <2>4. CASE InsertText(d)
    <3>1. Event(d) # e
      BY <2>4, InsertTextSets DEF Busy
    <3>2. QED
      BY <2>4, <3>1 DEF InsertText, Tell, DeskInv
  <2>5. CASE Throw(d)
    <3>1. Event(d) # e
      BY <2>5, ThrowSets DEF Busy
    <3>2. UNCHANGED told \/ WaiveIf(Event(d), TRUE)
      BY <2>5 DEF Throw
    <3>3. QED
      BY <3>1, <3>2, WaiveSets
  <2>6. QED
    BY <2>1, <2>2, <2>3, <2>4, <2>5, HandleWrites
<1>2. decision'[e] = decision[e]
  <2>1. CASE Answer(d)
    BY <2>1, AnswerSets, Kinds DEF Busy, Answer, Remember, DeskInv
  <2>2. CASE MarkProcessed(d)
    BY <2>2, MarkSets, Kinds DEF Busy, MarkProcessed, DeskInv
  <2>3. QED
    BY <2>1, <2>2, HandleWrites
<1>3. ASSUME NEW o \in Deliveries, Past(o, e)'
      PROVE  o # d /\ handler'[o] = handler[o]
  BY <1>3, EventKept, HandleMoves DEF Past, Busy, Only
<1>4. ASSUME e \in IncomingTexts
      PROVE  Fwd(e)' \subseteq Fwd(e) /\ sent'[e] = sent[e]
  <2>1. ~(InsertText(d) /\ Event(d) = e)
    BY InsertTextSets DEF Busy
  <2>2. QED
    BY <1>4, <2>1, FwdStep, HandleWrites
<1>5. QED
  BY <1>1, <1>2, <1>3, <1>4 DEF Quiet, Past, HandlerAt, Event

(* The steps of the search leave promises and decisions alone.             *)
LEMMA InnerQuiet ==
  ASSUME BaseInv, DeskInv, UNCHANGED vars, NEW d \in Deliveries, Handle(d),
         UNCHANGED <<told, decision>>, ~InsertText(d), ~LookupMiss(d), ~Answer(d), NEW e \in Incoming
  PROVE  Quiet(e)
<1>1. ASSUME Past(d, e)'
      PROVE  Past(d, e) /\ ~HandlerAt(d, "insert") /\ ~HandlerAt(d, "insert")'
  <2>1. \A f \in Events : ~Receive(d, f)
    BY <1>1, ReceiveSets DEF Past
  <2>2. LookupHit(d) \/ Throw(d) => FALSE
    BY <1>1, HitSets, ThrowSets DEF Past, Idle
  <2>3. Members(d) \/ Unmatched(d) \/ Resolve(d) =>
          Past(d, e) /\ ~HandlerAt(d, "insert") /\ ~HandlerAt(d, "insert")'
    BY <1>1, MembersSets, UnmatchedSets, ResolveSets DEF Past, HandlerAt
  <2>4. Report(d) \/ MarkProcessed(d) => FALSE
    BY <1>1, ReportSets, MarkSets, Kinds DEF Past, Idle
  <2>5. ASSUME NEW s \in Sessions, Probe(d, s) \/ ProbeFails(d, s)
        PROVE  Past(d, e) /\ ~HandlerAt(d, "insert") /\ ~HandlerAt(d, "insert")'
    <3>1. HandlerAt(d, "probe")
      BY <2>5 DEF Probe, ProbeFails
    <3>2. ASSUME NEW v, Match(d, s, v)
          PROVE  handler'[d].pc # "insert" /\ Event(d)' = Event(d)
      BY <3>2, MatchSets
    <3>3. Pass(d, s) \/ GivesUp(d) => handler'[d].pc # "insert" /\ Event(d)' = Event(d)
      BY PassSets, GivesUpSets
    <3>4. handler'[d].pc # "insert" /\ Event(d)' = Event(d)
      BY <2>5, <3>2, <3>3, ProbeCases
    <3>5. handler[d].pc = "probe" /\ Event(d)' = e
      BY <1>1, <3>1 DEF Past, HandlerAt
    <3>6. QED
      BY <3>4, <3>5 DEF Past, HandlerAt
  <2>6. QED
    BY <2>1, <2>2, <2>3, <2>4, <2>5 DEF Handle
<1>2. ASSUME NEW o \in Deliveries, o # d
      PROVE  handler'[o] = handler[o]
  BY <1>2, HandleMoves DEF Only
<1>3. e \in IncomingTexts => Fwd(e)' \subseteq Fwd(e) /\ sent'[e] = sent[e]
  BY FwdStep, HandleWrites
<1>4. ASSUME NEW o \in Deliveries, Past(o, e)'
      PROVE  /\ Past(o, e)
             /\ HandlerAt(o, "insert")' = HandlerAt(o, "insert")
             /\ HandlerAt(o, "insert") => handler'[o].ans = handler[o].ans
  <2>1. CASE o = d
    <3>1. Past(d, e) /\ ~HandlerAt(d, "insert") /\ ~HandlerAt(d, "insert")'
      BY <1>1, <1>4, <2>1
    <3>2. QED
      BY <2>1, <3>1 DEF Past, HandlerAt, Event
  <2>2. CASE o # d
    BY <1>2, <1>4, <2>2 DEF Past, HandlerAt, Event
  <2>3. QED
    BY <2>1, <2>2
<1>5. QED
  BY <1>3, <1>4 DEF Quiet

(* The other deliveries of an event stand where they stood.                *)
LEMMA OthersPast ==
  ASSUME NEW d \in Deliveries, Only(d), NEW o \in Deliveries, o # d, NEW e
  PROVE  /\ Past(o, e)' <=> Past(o, e)
         /\ HandlerAt(o, "insert")' <=> HandlerAt(o, "insert")
         /\ handler'[o].ans = handler[o].ans
BY DEF Only, Past, HandlerAt, Event

(* A hit answers the decision, ...                                         *)
LEMMA HitAgrees ==
  ASSUME BaseInv, DeskInv, NEW d \in Deliveries, Handle(d), LookupHit(d),
         NEW e \in Incoming, Event(d) = e, AgreeAt(e)
  PROVE  AgreeAt(e)' /\ (e \in IncomingTexts /\ OnceAt(e) => OnceAt(e)')
<1>2. /\ decision[e] # NoAnswer /\ UNCHANGED decision
      /\ decision[e] \in Answers /\ Tell(e, decision[e])
  BY Kinds DEF LookupHit, DeskInv, storeVars
<1>3. told'[e] = IF told[e] = NoAnswer THEN decision[e]
                 ELSE IF told[e] \in {decision[e], Waived} THEN told[e] ELSE Split
  BY <1>2, TellSets
<1>4. Only(d) /\ ~Past(d, e) /\ ~Past(d, e)'
  BY HitSets DEF Past, Idle
<1>5. \A o \in Deliveries : /\ Past(o, e)' <=> Past(o, e)
                            /\ Past(o, e) => /\ HandlerAt(o, "insert")' <=> HandlerAt(o, "insert")
                                             /\ handler'[o].ans = handler[o].ans
  BY <1>4, OthersPast
<1>6. AgreeAt(e)'
  <2>1. CASE told[e] = Waived
    BY <1>3, <2>1, Marks DEF AgreeAt
  <2>2. CASE told[e] # Waived
    <3>1. told'[e] = decision[e] /\ told'[e] # Split
      BY <1>2, <1>3, <2>2, Marks DEF AgreeAt
    <3>2. \A o, p \in Deliveries : Past(o, e)' /\ Past(p, e)' => o = p
      BY <1>5, <2>2 DEF AgreeAt
    <3>3. \A o \in Deliveries : Past(o, e)' =>
            decision'[e] = IF HandlerAt(o, "insert")' THEN handler'[o].ans ELSE NoAnswer
      BY <1>2, <1>5, <2>2 DEF AgreeAt
    <3>4. QED
      BY <1>2, <3>1, <3>2, <3>3 DEF AgreeAt
  <2>3. QED
    BY <2>1, <2>2
<1>7. ASSUME e \in IncomingTexts, OnceAt(e)
      PROVE  OnceAt(e)'
  <2>1. ~InsertText(d)
    BY DEF LookupHit, InsertText, HandlerAt
  <2>2. Fwd(e)' = Fwd(e) /\ sent'[e] = sent[e]
    BY <1>7, <2>1, FwdStep, HandleWrites
  <2>3. told'[e] # Waived => told[e] # Waived
    BY <1>3, Marks
  <2>4. (\E o \in Deliveries : Past(o, e)') => \E o \in Deliveries : Past(o, e)
    BY <1>5
  <2>5. decision'[e] = decision[e]
    BY <1>2
  <2>6. CASE told'[e] = Waived
    BY <1>7, <2>2, <2>6 DEF OnceAt
  <2>7. CASE told'[e] # Waived
    <3>1. /\ decision[e] = NoAnswer \/ (\E o \in Deliveries : Past(o, e)) =>
               sent[e] = 0 /\ Fwd(e) = {}
          /\ Fwd(e) # {} => sent[e] = 0
          /\ \A t, u \in Fwd(e) : t = u
          /\ sent[e] \in {0, 1}
      BY <1>7, <2>3, <2>7 DEF OnceAt
    <3>2. QED
      BY <2>2, <2>4, <2>5, <3>1 DEF OnceAt
  <2>8. QED
    BY <2>6, <2>7
<1>8. QED
  BY <1>6, <1>7

(* ... a miss that keeps the promise finds neither another delivery nor a  *)
(* decision, ...                                                           *)
LEMMA MissAgrees ==
  ASSUME BaseInv, DeskInv, NEW d \in Deliveries, Handle(d), LookupMiss(d),
         NEW e \in Incoming, Event(d) = e, AgreeAt(e)
  PROVE  AgreeAt(e)' /\ (e \in IncomingTexts /\ OnceAt(e) => OnceAt(e)')
<1>1. /\ Only(d) /\ ~Past(d, e) /\ Past(d, e)' /\ ~HandlerAt(d, "insert")'
      /\ UNCHANGED decision
  BY MissSets DEF Past, HandlerAt, LookupMiss, storeVars
<1>2. /\ told'[e] \in {told[e], Waived}
      /\ told'[e] # Waived => decision[e] = NoAnswer /\ ~Overtakes(d)
  BY DEF LookupMiss, WaiveIf
<1>3. ASSUME told'[e] # Waived, NEW o \in Deliveries, o # d
      PROVE  ~Past(o, e)'
  <2>1. ~(~HandlerAt(o, "idle") /\ Event(o) = Event(d))
    BY <1>2, <1>3 DEF Overtakes
  <2>2. ~Past(o, e)
    BY <2>1 DEF Past, HandlerAt
  <2>3. QED
    BY <1>1, <1>3, <2>2, OthersPast
<1>4. AgreeAt(e)'
  <2>1. CASE told'[e] = Waived
    BY <2>1, Marks DEF AgreeAt
  <2>2. CASE told'[e] # Waived
    <3>1. told'[e] = told[e] /\ decision'[e] = decision[e] /\ decision[e] = NoAnswer
      BY <1>1, <1>2, <2>2
    <3>2. \A o \in Deliveries : Past(o, e)' => o = d
      BY <1>3, <2>2
    <3>3. told'[e] # Split /\ (told'[e] # NoAnswer => decision'[e] = told'[e])
      BY <3>1, <2>2 DEF AgreeAt
    <3>4. \A o \in Deliveries : Past(o, e)' =>
            decision'[e] = IF HandlerAt(o, "insert")' THEN handler'[o].ans ELSE NoAnswer
      BY <1>1, <3>1, <3>2
    <3>5. QED
      BY <3>2, <3>3, <3>4 DEF AgreeAt
  <2>3. QED
    BY <2>1, <2>2
<1>5. ASSUME e \in IncomingTexts, OnceAt(e)
      PROVE  OnceAt(e)'
  <2>1. ~InsertText(d)
    BY DEF LookupMiss, InsertText, HandlerAt
  <2>2. Fwd(e)' = Fwd(e) /\ sent'[e] = sent[e]
    BY <1>5, <2>1, FwdStep, HandleWrites
  <2>3. CASE told'[e] = Waived
    BY <1>5, <2>2, <2>3 DEF OnceAt
  <2>4. CASE told'[e] # Waived
    <3>1. sent[e] = 0 /\ Fwd(e) = {}
      BY <1>2, <1>5, <2>4 DEF OnceAt
    <3>2. QED
      BY <2>2, <3>1 DEF OnceAt
  <2>5. QED
    BY <2>3, <2>4
<1>6. QED
  BY <1>4, <1>5

(* ... the answer is decided on and remembered by the only delivery that   *)
(* is past its lookup, or the promise goes, ...                            *)
LEMMA AnswerAgrees ==
  ASSUME BaseInv, DeskInv, NEW d \in Deliveries, Handle(d), Answer(d),
         NEW e \in Incoming, Event(d) = e, AgreeAt(e)
  PROVE  AgreeAt(e)' /\ (e \in IncomingTexts /\ OnceAt(e) => OnceAt(e)')
<1>1. /\ Only(d) /\ Past(d, e) /\ ~HandlerAt(d, "insert") /\ handler[d].ans \in Answers
  BY AnswerSets DEF Past, HandlerAt
<1>2. \/ decision' = [decision EXCEPT ![e] = handler[d].ans]
      \/ told'[e] = Waived
  BY DEF Answer, Remember, WaiveIf
<1>3. \/ told'[e] = Waived
      \/ told'[e] = told[e]
      \/ ~Forwards(d) /\ Tell(e, handler[d].ans)
  BY DEF Answer, Forwards, WaiveIf
<1>4. /\ Forwards(d) => HandlerAt(d, "insert")' /\ handler'[d].ans = handler[d].ans
      /\ ~Forwards(d) => ~Past(d, e)'
  BY AnswerSets DEF HandlerAt, Past, Idle
<1>5. told[e] = Waived => told'[e] = Waived
  BY <1>1, <1>3, TellSets, Marks
<1>6. ASSUME told'[e] # Waived
      PROVE  /\ told[e] = NoAnswer /\ decision[e] = NoAnswer
             /\ decision'[e] = handler[d].ans
             /\ told'[e] \in {NoAnswer, handler[d].ans}
             /\ \A o \in Deliveries : Past(o, e)' => o = d /\ Forwards(d)
  <2>1. decision[e] = NoAnswer /\ told[e] = NoAnswer
    BY <1>1, <1>5, <1>6 DEF AgreeAt
  <2>2. decision'[e] = handler[d].ans
    BY <1>2, <1>6, Kinds DEF DeskInv
  <2>3. told'[e] \in {NoAnswer, handler[d].ans}
    BY <1>1, <1>3, <1>6, <2>1, TellSets
  <2>4. \A o \in Deliveries : Past(o, e) => o = d
    BY <1>1, <1>5, <1>6 DEF AgreeAt
  <2>5. \A o \in Deliveries : Past(o, e)' => o = d /\ Forwards(d)
    BY <1>1, <1>4, <2>4, OthersPast
  <2>6. QED
    BY <2>1, <2>2, <2>3, <2>5
<1>7. AgreeAt(e)'
  <2>1. CASE told'[e] = Waived
    BY <2>1, Marks DEF AgreeAt
  <2>2. CASE told'[e] # Waived
    <3>1. told'[e] # Split /\ (told'[e] # NoAnswer => decision'[e] = told'[e])
      BY <1>1, <1>6, <2>2, Marks
    <3>2. \A o, p \in Deliveries : Past(o, e)' /\ Past(p, e)' => o = p
      BY <1>6, <2>2
    <3>3. \A o \in Deliveries : Past(o, e)' =>
            decision'[e] = IF HandlerAt(o, "insert")' THEN handler'[o].ans ELSE NoAnswer
      BY <1>4, <1>6, <2>2
    <3>4. QED
      BY <3>1, <3>2, <3>3 DEF AgreeAt
  <2>3. QED
    BY <2>1, <2>2
<1>8. ASSUME e \in IncomingTexts, OnceAt(e)
      PROVE  OnceAt(e)'
  <2>1. ~InsertText(d)
    BY DEF Answer, InsertText, HandlerAt
  <2>2. Fwd(e)' = Fwd(e) /\ sent'[e] = sent[e]
    BY <1>8, <2>1, FwdStep, HandleWrites
  <2>3. CASE told'[e] = Waived
    BY <1>8, <2>2, <2>3 DEF OnceAt
  <2>4. CASE told'[e] # Waived
    <3>1. sent[e] = 0 /\ Fwd(e) = {}
      BY <1>1, <1>5, <1>8, <2>4 DEF OnceAt
    <3>2. QED
      BY <2>2, <3>1 DEF OnceAt
  <2>5. QED
    BY <2>3, <2>4
<1>9. QED
  BY <1>7, <1>8

(* ... a text is forwarded once the decision to connect it stands, ...     *)
LEMMA InsertAgrees ==
  ASSUME BaseInv, DeskInv, NEW d \in Deliveries, Handle(d), InsertText(d),
         NEW e \in Incoming, Event(d) = e, AgreeAt(e)
  PROVE  AgreeAt(e)' /\ (e \in IncomingTexts /\ OnceAt(e) => OnceAt(e)')
<1>1. /\ Only(d) /\ Past(d, e) /\ HandlerAt(d, "insert") /\ handler[d].ans \in Answers
      /\ ~Past(d, e)' /\ UNCHANGED decision
      /\ Tell(e, handler[d].ans)
  <2>1. Only(d) /\ handler'[d] = Idle /\ handler[d].pc = "insert" /\ handler[d].ans \in Answers
    BY InsertTextSets
  <2>2. UNCHANGED decision /\ Tell(Event(d), handler[d].ans)
    BY DEF InsertText
  <2>3. Idle.pc = "idle"
    BY DEF Idle
  <2>4. QED
    BY <2>1, <2>2, <2>3 DEF Past, HandlerAt
<1>2. told'[e] = IF told[e] = NoAnswer THEN handler[d].ans
                 ELSE IF told[e] \in {handler[d].ans, Waived} THEN told[e] ELSE Split
  BY <1>1, TellSets
<1>3. told[e] = Waived => told'[e] = Waived
  BY <1>2, Marks
<1>4. told[e] # Waived => /\ decision[e] = handler[d].ans
                          /\ told'[e] = decision[e]
                          /\ \A o \in Deliveries : ~Past(o, e)'
  <2> SUFFICES ASSUME told[e] # Waived
               PROVE  /\ decision[e] = handler[d].ans /\ told'[e] = decision[e]
                      /\ \A o \in Deliveries : ~Past(o, e)'
    OBVIOUS
  <2>1. decision[e] = handler[d].ans /\ (told[e] # NoAnswer => told[e] = decision[e])
    BY <1>1 DEF AgreeAt
  <2>2. \A o \in Deliveries : Past(o, e) => o = d
    BY <1>1 DEF AgreeAt
  <2>3. QED
    BY <1>1, <1>2, <2>1, <2>2, OthersPast
<1>5. AgreeAt(e)'
  <2>1. CASE told'[e] = Waived
    BY <2>1, Marks DEF AgreeAt
  <2>2. CASE told'[e] # Waived
    BY <1>1, <1>3, <1>4, <2>2, Marks DEF AgreeAt
  <2>3. QED
    BY <2>1, <2>2
<1>6. ASSUME e \in IncomingTexts, OnceAt(e)
      PROVE  OnceAt(e)'
  <2>1. sent'[e] = sent[e]
    BY HandleWrites
  <2>2. CASE told'[e] = Waived
    BY <1>6, <2>1, <2>2 DEF OnceAt
  <2>3. CASE told'[e] # Waived
    <3>1. sent[e] = 0 /\ Fwd(e) = {}
      BY <1>1, <1>3, <1>6, <2>3 DEF OnceAt
    <3>2. Fwd(e)' = {[task |-> "forward", d |-> d, ev |-> e]}
      BY <1>6, <3>1, FwdStep
    <3>3. /\ decision'[e] # NoAnswer
          /\ \A o \in Deliveries : ~Past(o, e)'
      BY <1>1, <1>3, <1>4, <2>3, Marks
    <3>4. QED
      BY <2>1, <3>1, <3>2, <3>3 DEF OnceAt
  <2>4. QED
    BY <2>2, <2>3
<1>7. QED
  BY <1>5, <1>6

(* ... and a handler that throws has not decided.                          *)
LEMMA ThrowAgrees ==
  ASSUME BaseInv, DeskInv, NEW d \in Deliveries, Handle(d), Throw(d),
         NEW e \in Incoming, Event(d) = e
  PROVE  Quiet(e)
<1>1. Only(d) /\ ~Past(d, e)' /\ UNCHANGED decision
  <2>1. Only(d) /\ handler'[d] = Idle
    BY ThrowSets
  <2>2. Idle.pc = "idle"
    BY DEF Idle
  <2>3. UNCHANGED decision
    BY DEF Throw
  <2>4. QED
    BY <2>1, <2>2, <2>3 DEF Past
<1>2. told'[e] \in {told[e], Waived}
  BY DEF Throw, WaiveIf
<1>3. ~InsertText(d)
  BY DEF Throw, InsertText, HandlerAt
<1>4. e \in IncomingTexts => Fwd(e)' \subseteq Fwd(e) /\ sent'[e] = sent[e]
  BY <1>3, FwdStep, HandleWrites
<1>5. \A o \in Deliveries : Past(o, e)' =>
        /\ Past(o, e)
        /\ HandlerAt(o, "insert")' = HandlerAt(o, "insert")
        /\ HandlerAt(o, "insert") => handler'[o].ans = handler[o].ans
  <2> SUFFICES ASSUME NEW o \in Deliveries, Past(o, e)'
               PROVE  /\ Past(o, e) /\ handler'[o] = handler[o]
    BY DEF HandlerAt
  <2>1. o # d
    BY <1>1
  <2>2. QED
    BY <1>1, <2>1, OthersPast DEF Only
<1>6. decision'[e] = decision[e]
  BY <1>1
<1>7. QED
  BY <1>2, <1>4, <1>5, <1>6 DEF Quiet

(* Whatever step a handler takes, the promise is kept or gone.             *)
LEMMA HandleAgrees ==
  ASSUME BaseInv, DeskInv, UNCHANGED vars, NEW d \in Deliveries, Handle(d),
         NEW e \in Incoming, AgreeAt(e)
  PROVE  AgreeAt(e)' /\ (e \in IncomingTexts /\ OnceAt(e) => OnceAt(e)')
<1>1. CASE Quiet(e)
  BY <1>1, QuietAgrees, QuietOnce
<1>2. CASE ~(Busy(d) /\ Event(d) = e)
  BY <1>1, <1>2, OtherQuiet
<1>3. CASE Event(d) = e /\ Busy(d)
  <2>1. ~MarkProcessed(d)
    BY <1>3, MarkSets, Kinds
  <2>2. CASE LookupHit(d)
    BY <1>3, <2>2, HitAgrees
  <2>3. CASE LookupMiss(d)
    BY <1>3, <2>3, MissAgrees
  <2>4. CASE Answer(d)
    BY <1>3, <2>4, AnswerAgrees
  <2>5. CASE InsertText(d)
    BY <1>3, <2>5, InsertAgrees
  <2>6. CASE Throw(d)
    BY <1>1, <1>3, <2>6, ThrowAgrees
  <2>7. CASE ~(LookupHit(d) \/ LookupMiss(d) \/ Answer(d) \/ InsertText(d) \/ Throw(d))
    BY <1>1, <2>1, <2>7, HandleWrites, InnerQuiet
  <2>8. QED
    BY <2>2, <2>3, <2>4, <2>5, <2>6, <2>7
<1>4. QED
  BY <1>2, <1>3

(* Nothing that is done later reopens the question: ...                    *)
LEMMA UnhandledQuiet ==
  ASSUME UNCHANGED <<handler, sent>>, tasks' \subseteq tasks, NEW e \in Incoming,
         \/ told'[e] = told[e] /\ decision'[e] = decision[e]
         \/ told'[e] = Waived
  PROVE  Quiet(e)
<1>1. \A o \in Deliveries : Past(o, e)' =>
        /\ Past(o, e)
        /\ HandlerAt(o, "insert")' = HandlerAt(o, "insert")
        /\ HandlerAt(o, "insert") => handler'[o].ans = handler[o].ans
  BY DEF Past, HandlerAt, Event
<1>2. Fwd(e)' \subseteq Fwd(e)
  BY DEF Fwd
<1>3. QED
  BY <1>1, <1>2 DEF Quiet

(* ... the one task that hands a text to the carrier is used up.           *)
LEMMA ForwardOnce ==
  ASSUME DeskInv, NEW t \in tasks, Forward(t), NEW e \in IncomingTexts, OnceAt(e)
  PROVE  OnceAt(e)'
<1>1. UNCHANGED <<handler, decision, told>>
  BY DEF Forward, storeVars
<1>2. PICK u : /\ u.task \in Outcomes
               /\ tasks' = (tasks \ {t}) \cup {u}
  BY ForwardSets
<1>3. Fwd(e)' = Fwd(e) \ {t}
  BY <1>2 DEF Fwd, Outcomes
<1>4. \A d \in Deliveries : Past(d, e)' <=> Past(d, e)
  BY <1>1 DEF Past, Event
<1>5. CASE told[e] = Waived
  <2>1. sent'[e] = sent[e]
    BY <1>5, ForwardSets
  <2>2. QED
    BY <1>1, <1>5, <2>1 DEF OnceAt
<1>6. CASE told[e] # Waived /\ t.ev # e
  <2>1. sent'[e] = sent[e]
    BY <1>6, ForwardSets
  <2>2. QED
    BY <1>1, <1>3, <1>4, <1>6, <2>1 DEF OnceAt
<1>7. CASE told[e] # Waived /\ t.ev = e
  <2>1. t \in Fwd(e)
    BY <1>7, ForwardSets DEF Fwd
  <2>2. /\ sent[e] = 0
        /\ \A v, w \in Fwd(e) : v = w
        /\ ~(decision[e] = NoAnswer \/ \E d \in Deliveries : Past(d, e))
    BY <1>7, <2>1 DEF OnceAt
  <2>3. Fwd(e)' = {} /\ sent'[e] \in {0, 1}
    BY <1>3, <1>7, <2>1, <2>2, ForwardSets
  <2>4. QED
    BY <1>1, <1>4, <2>2, <2>3 DEF OnceAt
<1>8. QED
  BY <1>5, <1>6, <1>7

LEMMA LaterAgrees ==
  ASSUME DeskInv, Later, NEW e \in Incoming, AgreeAt(e)
  PROVE  AgreeAt(e)' /\ (e \in IncomingTexts /\ OnceAt(e) => OnceAt(e)')
<1>1. CASE Quiet(e)
  BY <1>1, QuietAgrees, QuietOnce
<1>2. UNCHANGED handler
  BY LaterSets
<1>3. ASSUME NEW t \in tasks, Forward(t)
      PROVE  AgreeAt(e)' /\ (e \in IncomingTexts /\ OnceAt(e) => OnceAt(e)')
  <2>1. UNCHANGED <<handler, decision, told>>
    BY <1>3 DEF Forward, storeVars
  <2>2. AgreeAt(e)'
    BY <2>1 DEF AgreeAt, Past, HandlerAt, Event
  <2>3. QED
    BY <1>3, <2>2, ForwardOnce
<1>4. ASSUME ~\E t \in tasks : Forward(t)
      PROVE  Quiet(e)
  <2>1. UNCHANGED sent /\ tasks' \subseteq tasks
    BY <1>4, LaterSets
  <2>2. ASSUME NEW f \in Events, DecisionLapses(f)
        PROVE  \/ told'[e] = told[e] /\ decision'[e] = decision[e]
               \/ told'[e] = Waived
    <3>1. WaiveIf(f, TRUE) /\ decision' = [decision EXCEPT ![f] = NoAnswer]
      BY <2>2 DEF DecisionLapses
    <3>2. told'[e] = IF e = f THEN Waived ELSE told[e]
      BY <3>1, WaiveSets
    <3>3. e # f => decision'[e] = decision[e]
      BY <3>1, Kinds DEF DeskInv
    <3>4. QED
      BY <3>2, <3>3
  <2>3. \/ told'[e] = told[e] /\ decision'[e] = decision[e]
        \/ told'[e] = Waived
    <3>1. CASE UNCHANGED <<decision, told>>
      BY <3>1
    <3>2. QED
      BY <2>2, <3>1, LaterSets
  <2>4. QED
    BY <1>2, <2>1, <2>3, UnhandledQuiet
<1>5. QED
  BY <1>1, <1>3, <1>4

LEMMA AgreeStep ==
  ASSUME BaseInv, DeskInv, AgreeInv, [InboundNext]_allVars
  PROVE  AgreeInv'
<1> SUFFICES ASSUME NEW e \in Incoming, AgreeAt(e)
             PROVE  AgreeAt(e)' /\ (e \in IncomingTexts /\ OnceAt(e) => OnceAt(e)')
  BY Kinds DEF AgreeInv
<1>1. CASE UNCHANGED vars /\ \E d \in Deliveries : Handle(d)
  BY <1>1, HandleAgrees
<1>2. CASE Later
  BY <1>2, LaterAgrees
<1>3. CASE UNCHANGED <<handler, sent, told, decision>> /\ tasks' \subseteq tasks
  BY <1>3, UnhandledQuiet, QuietAgrees, QuietOnce
<1>4. \A t \in tasks : Bump(t) => UNCHANGED <<handler, sent, told, decision>> /\ tasks' \subseteq tasks
  BY DEF Bump, Done, storeVars, historyVars
<1>5. UNCHANGED inboundVars => UNCHANGED <<handler, sent, told, decision>> /\ tasks' \subseteq tasks
  BY DEF inboundVars, storeVars, historyVars
<1>6. QED
  BY <1>1, <1>2, <1>3, <1>4, <1>5, InboundCases

LEMMA AgreeStarts == InboundInit => AgreeInv
<1> SUFFICES ASSUME InboundInit
             PROVE  AgreeInv
  OBVIOUS
<1>1. \A d \in Deliveries, e \in Incoming : ~Past(d, e)
  BY DEF InboundInit, Past, Idle
<1>2. ASSUME NEW e \in Incoming
      PROVE  AgreeAt(e)
  BY <1>1, Marks, Kinds DEF InboundInit, AgreeAt
<1>3. ASSUME NEW e \in IncomingTexts
      PROVE  OnceAt(e)
  BY <1>1, Kinds DEF InboundInit, OnceAt, Fwd
<1>4. QED
  BY <1>2, <1>3 DEF AgreeInv

(* webhook-parser.ts:84 calls the provider's retries idempotent: for any   *)
(* calls, texts and places for requests, a repeated webhook is given the   *)
(* answer of the first, and a text goes to the carrier once at most, while *)
(* sessions and their targets change, unless the dedup key lapsed, failed, *)
(* or was not yet written when the repetition asked for it                 *)
(* (call-router.ts:70-80, 258-259; sms-router.ts:156-186).                 *)
THEOREM RetriesAlwaysAgree == InboundSpec => []RetriesAgree
<1>1. AgreeInv => RetriesAgree
  BY DEF AgreeInv, AgreeAt, OnceAt, RetriesAgree
<1>2. BaseInv /\ DeskInv /\ AgreeInv /\ [InboundNext]_allVars => AgreeInv'
  BY AgreeStep
<1>3. QED
  BY <1>1, <1>2, AgreeStarts, DeskAlways, PTL DEF InboundSpec

-----------------------------------------------------------------------------
(* Answers.  What a hash that has its id says is in force: its session is  *)
(* live, or an expiry is about to delete the hash.  (A rollback or an      *)
(* expiry that fails leaves a hash that calls would still be routed by.)   *)
Dying(s) == \E e \in Expirers : job[e].pc \in {"release", "delHash"} /\ job[e].s = s

ForceInv ==
    /\ \A c \in Clients : req[c].pc \notin RollbackPcs
    /\ \A s \in hashId : IsLive(s) \/ Dying(s)

LEMMA DyingStep ==
  ASSUME "expire" \notin StoreFails, BaseInv, [SessionNext]_vars, NEW s \in Sessions,
         s \in hashId', Dying(s)
  PROVE  Dying(s)'
<1>0. StoresOK
  BY DEF BaseInv
<1>1. PICK e \in Expirers : job[e].pc \in {"release", "delHash"} /\ job[e].s = s
  BY DEF Dying
<1>2. Works(e) /\ job[e].pc \in PastMark
  BY <1>1 DEF Works, PastMark, JobPcs
<1>3. CASE job'[e] = job[e]
  BY <1>1, <1>3 DEF Dying
<1>4. CASE Expire(e)
  <2>1. ExpireRelease(e) \/ ExpireDelHash(e)
    BY <1>1, <1>4 DEF Expire, ExpireRead, ExpireMark, ExpireUnclaim, ExpireUnindexA,
       ExpireUnindexB, ExpireUntrack, ExpireFails, JobAt
  <2>2. ~ExpireDelHash(e)
    BY <1>1 DEF ExpireDelHash, DropHash
  <2>3. JobGoto(e, "delHash")
    BY <2>1, <2>2 DEF ExpireRelease
  <2>4. job'[e].pc = "delHash" /\ job'[e].s = s
    BY <1>0, <1>1, <1>2, <2>3, JobGoes DEF JobPcs
  <2>5. QED
    BY <2>4 DEF Dying
<1>5. ~WorkerSelect(e) /\ \A r \in Sessions : ~AdminSelect(e, r)
  BY <1>2 DEF WorkerSelect, AdminSelect, NoExpiry, Works
<1>6. ASSUME NEW f \in Expirers, f # e, Expire(f) \/ WorkerSelect(f)
                                          \/ \E r \in Sessions : AdminSelect(f, r)
      PROVE  job'[e] = job[e]
  BY <1>0, <1>6 DEF StoresOK, Expire, ExpireRead, ExpireMark, ExpireRelease, ExpireDelHash,
     ExpireUnclaim, ExpireUnindexA, ExpireUnindexB, ExpireUntrack, ExpireFails, JobGoto, JobDone,
     WorkerSelect, AdminSelect
<1>7. Workers \subseteq Expirers /\ Admins \subseteq Expirers
  BY DEF Expirers
<1>8. QED
  BY <1>3, <1>4, <1>5, <1>6, <1>7, JobMove

LEMMA ForceStep ==
  ASSUME "create" \notin StoreFails, "expire" \notin StoreFails,
         BaseInv, ActiveInv, ForceInv, [SessionNext]_vars
  PROVE  ForceInv'
<1>0. hashId' \subseteq Sessions
  BY BaseStep DEF BaseInv, StoresOK
<1>1. \A c \in Clients : req'[c].pc \notin RollbackPcs
  BY NoRollback DEF ForceInv
<1>2. ASSUME NEW s \in Sessions, s \in hashId', s \in hashId
      PROVE  IsLive(s)' \/ Dying(s)'
  <2>1. CASE IsLive(s)
    <3>1. \A c \in Clients : ~RollbackRow(c)
      BY DEF RollbackRow, At, ForceInv, RollbackPcs
    <3>2. QED
      BY <2>1, <3>1, LiveStep DEF Dying, IsLive
  <2>2. CASE Dying(s)
    BY <1>2, <2>2, DyingStep
  <2>3. QED
    BY <1>2, <2>1, <2>2 DEF ForceInv
<1>3. ASSUME NEW c \in Clients, CreateCache(c)
      PROVE  rows'[req[c].s].state \in LiveStates
  BY <1>3 DEF CreateCache, At, ActiveInv, LiveStates
<1>4. \A c \in Clients : SwapScript(c) => UNCHANGED hashId
  BY DEF SwapScript, cacheVars
<1>5. ASSUME NEW s \in Sessions, s \in hashId'
      PROVE  IsLive(s)' \/ Dying(s)'
  BY <1>2, <1>3, <1>4, <1>5, HashCame DEF IsLive
<1>6. QED
  BY <1>0, <1>1, <1>5 DEF ForceInv

(* All that the sessions promise to who routes a call.                     *)
SessInv == RouteInv /\ AloneInv /\ ActiveInv /\ SwapInv /\ WiredInv /\ ForceInv

LEMMA SessStarts == SessionInit => SessInv
<1>1. SessionInit => ForceInv
  BY DEF SessionInit, NoReq, ForceInv, RollbackPcs
<1>2. QED
  BY <1>1, RouteStarts, ActiveInit, SwapStarts, WiredStarts DEF SessInv

LEMMA SessStep ==
  ASSUME OneClient, ~ListedIds, StoreFails = {}, BaseInv, SessInv, [SessionNext]_vars
  PROVE  SessInv'
<1>1. OneSwapper /\ OneInWindow /\ "rollback" \notin StoreFails
  BY DEF OneClient, OneSwapper, OneInWindow
<1>2. QED
  BY <1>1, RouteStep, AloneStep, ActiveStep, SwapStep, WiredStep, ForceStep DEF SessInv

(* A bumped hash had no id, and gets none.                                 *)
LEMMA SessBumped ==
  ASSUME BaseInv, SessInv, Bumped
  PROVE  SessInv'
<1>1. /\ UNCHANGED <<proxySessions, hashParties, rows, due, hashId, ttl, phoneSessions,
                     tenantActive, req, job>>
      /\ \A s \in Sessions : hashState[s] # "none" => hashState'[s] = hashState[s]
  BY DEF Bumped, poolVars, redisPool, indexVars, BaseInv, StoresOK
<1>2. hashId \subseteq Sessions /\ \A c \in Clients : Makes(c) => req[c].s \in Sessions
  BY ReqClass DEF BaseInv, StoresOK, Makes, MakeReqs
<1>3. RouteInv'
  BY <1>1, <1>2 DEF SessInv, RouteInv, HashesOK, Apart, MakerApart, SwapApart, HasRow, LiveStates
<1>4. AloneInv' /\ ActiveInv'
  BY <1>1 DEF SessInv, AloneInv, Alone, ActiveInv, Makes, Works
<1>5. SwapInv'
  BY <1>1 DEF SessInv, SwapInv, SwapKnows, Makes, HasRow
<1>6. ForceInv'
  BY <1>1 DEF SessInv, ForceInv, Dying, IsLive
<1>7. ASSUME NEW s, NEW a, NEW b, Wired(s, a, b)
      PROVE  Wired(s, a, b)'
  BY <1>1, <1>2, <1>7 DEF Wired
<1>8. TrackInv' /\ \A c \in Clients : MakerWired(c)'
  BY <1>1, <1>7 DEF SessInv, WiredInv, TrackInv, MakerWired
<1>9. \A c \in Clients : req'[c].pc \in SwapPcs => SwapWired(c)'
  BY <1>1, <1>7 DEF SessInv, WiredInv, SwapWired
<1>10. \A s \in Sessions : RowWired(s)'
  BY <1>1, <1>7 DEF SessInv, WiredInv, RowWired, Creating, Swapping
<1>11. QED
  BY <1>3, <1>4, <1>5, <1>6, <1>8, <1>9, <1>10 DEF SessInv, WiredInv

-----------------------------------------------------------------------------
(* A session that a letter should find is on the number dialled, and says  *)
(* so when it is probed; and there is one at the most.                     *)
Sought(s, m) == Steady(s) /\ Ends(s, m) # {}

LEMMA PeersOf ==
  ASSUME NEW s, NEW p, hashParties[s] = {rows[s].a, rows[s].b}
  PROVE  Peers(s, p) # {} => p \in hashParties[s]
BY DEF Peers

LEMMA SoughtIs ==
  BaseInv /\ SessInv =>
    \A m \in Letters : \A s \in Sessions : Sought(s, m) =>
      /\ HasRow(s) /\ rows[s].proxy = m.to
      /\ s \in proxySessions[m.to]
      /\ Candidate(s, m.from)
<1> SUFFICES ASSUME BaseInv, SessInv, NEW m \in Letters, NEW s \in Sessions, Sought(s, m)
             PROVE  /\ HasRow(s) /\ rows[s].proxy = m.to
                    /\ s \in proxySessions[m.to]
                    /\ Candidate(s, m.from)
  OBVIOUS
<1>1. /\ rows[s].state = "ACTIVE" /\ s \notin due /\ ~Creating(s) /\ ~Swapping(s)
      /\ Ends(s, m) # {}
  BY DEF Sought, Steady
<1>2. HasRow(s)
  BY <1>1, RowOf DEF BaseInv
<1>3. s \in proxySessions[rows[s].proxy] /\ Wired(s, rows[s].a, rows[s].b)
  BY <1>1 DEF SessInv, WiredInv, RowWired
<1>4. rows[s].proxy = m.to /\ Peers(s, Hashed(s, m.from)) # {}
  BY <1>1 DEF Ends
<1>5. Hashed(s, m.from) \in hashParties[s]
  BY <1>3, <1>4, PeersOf DEF Wired
<1>6. QED
  BY <1>2, <1>3, <1>4, <1>5 DEF Wired, Candidate, LiveStates

LEMMA OneSought ==
  ASSUME OneTenant
  PROVE  BaseInv /\ SessInv =>
           \A m \in Letters : \A s, t \in Sessions : Sought(s, m) /\ Sought(t, m) => s = t
<1> SUFFICES ASSUME BaseInv, SessInv, NEW m \in Letters, NEW s \in Sessions, NEW t \in Sessions,
                    Sought(s, m), Sought(t, m), s # t
             PROVE  FALSE
  OBVIOUS
<1>1. /\ HasRow(s) /\ s \in proxySessions[m.to] /\ Candidate(s, m.from)
      /\ HasRow(t) /\ t \in proxySessions[m.to] /\ Candidate(t, m.from)
  BY SoughtIs
<1>2. rows[s].a \in Tenants \X Phones /\ rows[t].a \in Tenants \X Phones
  BY <1>1, RowOf, SessionAssumption DEF BaseInv
<1>3. tenantOf(rows[s].a) = tenantOf(rows[t].a)
  BY <1>2 DEF OneTenant, tenantOf
<1>4. Hashed(s, m.from) = Hashed(t, m.from)
  BY <1>3 DEF Hashed
<1>5. m.to \in Numbers
  BY DEF Letters
<1>6. hashParties[s] \cap hashParties[t] = {}
  BY <1>1, <1>5 DEF SessInv, RouteInv, Apart, Candidate
<1>7. QED
  BY <1>1, <1>4, <1>6 DEF Candidate

LEMMA OneSoughtThen ==
  ASSUME OneTenant
  PROVE  (BaseInv /\ SessInv =>
            \A m \in Letters : \A s, t \in Sessions : Sought(s, m) /\ Sought(t, m) => s = t)'
BY OneSought, PTL

LEMMA SoughtIsThen ==
  (BaseInv /\ SessInv =>
    \A m \in Letters : \A s \in Sessions : Sought(s, m) =>
      /\ HasRow(s) /\ rows[s].proxy = m.to
      /\ s \in proxySessions[m.to]
      /\ Candidate(s, m.from))'
BY SoughtIs, PTL

(* What a step that only ends a request leaves as it was.                  *)
LEMMA EndedRequest ==
  ASSUME StoresOK, NEW c \in Clients, Finish(c), NEW s
  PROVE  /\ Creating(s)' => Creating(s)
         /\ Swapping(s)' => Swapping(s)
BY ReqEnds DEF Creating, Swapping, CreatePcs, RollbackPcs

(* Nobody comes to be sought who was not, while another one is: a session  *)
(* becomes steady when its creation or its swap ends, and it would not be  *)
(* apart from the other.                                                   *)
LEMMA SoughtKept ==
  ASSUME OneTenant, OneClient, BaseInv, SessInv, BaseInv', SessInv', [SessionNext]_vars,
         NEW m \in Letters, NEW t \in Sessions, Sought(t, m), NEW s \in Sessions, Sought(s, m)'
  PROVE  Sought(s, m)
<1>0. StoresOK /\ ReqsOK /\ Parties = Tenants \X Phones
  BY SessionAssumption DEF BaseInv
<1>1. /\ rows'[s].state = "ACTIVE" /\ s \notin due' /\ ~Creating(s)' /\ ~Swapping(s)'
  BY DEF Sought, Steady
<1>2. HasRow(s)' /\ rows'[s].proxy = m.to /\ Ends(s, m)' # {}
  BY SoughtIsThen DEF Sought
<1>3. rows[s].state = "ACTIVE"
  <2>1. ASSUME NEW c \in Clients, CreateActivate(c), req[c].s = s
        PROVE  FALSE
    <3>1. req'[c].pc \in MakePcs /\ req'[c].s = s
      BY <1>0, <2>1, MakerKept DEF MakerMoves, MakeReqs
    <3>2. QED
      BY <1>1, <3>1 DEF Creating, MakePcs
  <2>2. QED
    BY <1>1, <2>1, OnlyActivated
<1>4. /\ s \notin due /\ HasRow(s) /\ rows'[s].a = rows[s].a /\ rows'[s].proxy = rows[s].proxy
  <2>1. s \notin due
    BY <1>1, StaysDue DEF SessInv
  <2>2. HasRow(s)
    BY <1>0, <1>3, RowOf
  <2>3. QED
    BY <2>1, <2>2, RowsStep DEF RowKept
<1>5. ASSUME NEW c \in Clients, Finish(c), UNCHANGED <<rows, due, job>>, Creating(s) \/ Swapping(s)
      PROVE  FALSE
  <2>1. s # t
    BY <1>5 DEF Sought, Steady
  <2>2. Steady(t)'
    BY <1>0, <1>5, EndedRequest DEF Sought, Steady
  <2>3. HasRow(t) /\ rows[t].proxy = m.to /\ Candidate(t, m.from)
    BY SoughtIs
  <2>4. hashParties'[t] = {rows'[t].a, rows'[t].b}
    BY <2>2 DEF SessInv, WiredInv, RowWired, Wired, Steady
  <2>5. hashParties[t] = {rows[t].a, rows[t].b}
    BY DEF Sought, SessInv, WiredInv, RowWired, Wired, Steady
  <2>6. InForce(t)'
    BY <1>5, <2>2, <2>3 DEF InForce, HasRow, IsLive, Steady, LiveStates
  <2>7. Hashed(t, m.from)' = Hashed(t, m.from)
    BY <1>5 DEF Hashed
  <2>8. Peers(t, Hashed(t, m.from))' # {}
    BY <1>5, <2>3, <2>4, <2>5, <2>7 DEF Peers, Candidate
  <2>9. Sought(t, m)'
    BY <1>5, <2>2, <2>3, <2>6, <2>8 DEF Sought, Ends
  <2>10. QED
    BY <2>1, <2>9, OneSoughtThen
<1>6. ~Creating(s)
  <2>1. ASSUME NEW c \in Clients, Makes(c), req[c].s = s
        PROVE  FALSE
    <3>1. req'[c] # req[c]
      BY <1>1, <2>1 DEF Creating, Makes, MakePcs
    <3>2. ~MakerMoves(c)
      BY <1>0, <1>1, <2>1, MakerKept DEF Creating, MakeReqs, MakePcs
    <3>3. ~RollbackRow(c) /\ ~At(c, "failRow")
      BY DEF SessInv, ForceInv, RollbackRow, At, RollbackPcs
    <3>4. CreateReply(c)
      BY <2>1, <3>1, <3>2, <3>3, MakerNext
    <3>5. Finish(c) /\ UNCHANGED <<rows, due, job>> /\ Creating(s)
      BY <2>1, <3>4 DEF CreateReply, Creating, Makes, MakePcs
    <3>6. QED
      BY <1>5, <3>5
  <2>2. QED
    BY <2>1 DEF Creating, Makes, MakePcs
<1>7. ~Swapping(s)
  <2>1. ASSUME NEW c \in Clients, req[c].pc \in {"script", "repairOld", "repairNew"}, req[c].s = s
        PROVE  FALSE
    <3>1. req[c].pc = "script" /\ Wired(s, rows[s].a, req[c].old)
      BY <1>3, <1>4, <2>1 DEF SessInv, WiredInv, SwapWired, SwapPcs
    <3>2. req'[c] # req[c]
      BY <1>1, <2>1 DEF Swapping
    <3>3. SwapScript(c)
      BY <2>1, <3>1, <3>2, SwapNext DEF SwapMissing, SwapRepairOld, SwapRepairNew, At, Wired
    <3>4. Finish(c) /\ UNCHANGED <<rows, due, job>> /\ Swapping(s)
      BY <2>1, <3>3 DEF SwapScript, Swapping
    <3>5. QED
      BY <1>5, <3>4
  <2>2. QED
    BY <2>1 DEF Swapping
<1>8. rows'[s].b = rows[s].b
  <2>1. ASSUME NEW c \in Clients, SwapRow(c), req[c].s = s
        PROVE  FALSE
    <3>1. req'[c].pc = "script" /\ req'[c].s = s
      BY <1>0, <2>1, SwapGoes DEF SwapRow, At, SwapPcs
    <3>2. QED
      BY <1>1, <3>1 DEF Swapping
  <2>2. QED
    BY <1>4, <2>1, OnlyRetargeted
<1>9. Steady(s)
  BY <1>3, <1>4, <1>6, <1>7 DEF Steady
<1>10. hashParties'[s] = {rows'[s].a, rows'[s].b} /\ hashParties[s] = {rows[s].a, rows[s].b}
  BY <1>1, <1>9 DEF SessInv, WiredInv, RowWired, Wired, Steady
<1>11. Candidate(s, m.from)'
  BY SoughtIsThen
<1>12. Hashed(s, m.from)' = Hashed(s, m.from)
  BY <1>4 DEF Hashed
<1>13. Peers(s, Hashed(s, m.from)) # {}
  BY <1>4, <1>8, <1>10, <1>11, <1>12 DEF Peers, Candidate
<1>14. QED
  BY <1>2, <1>4, <1>3, <1>9, <1>13 DEF Sought, Ends, InForce, IsLive, LiveStates

(* What a search may rely on of a session that was on the number when it   *)
(* read the number's set: it is of that number, or will be.                *)
Fits(s, n) ==
    /\ HasRow(s) => rows[s].proxy = n
    /\ \A c \in Clients : Makes(c) /\ req[c].s = s => req[c].n = n
    /\ ~HasRow(s) => \E p \in Parties : s \in phoneSessions[p]

LEMMA FitsClaimed ==
  ASSUME BaseInv, NEW n \in Numbers, NEW s \in proxySessions[n]
  PROVE  s \in Sessions /\ Fits(s, n)
<1>1. s \in Sessions
  BY DEF BaseInv, PoolTypeOK
<1>2. QED
  BY <1>1 DEF Fits, BaseInv, ClaimsOK, TracesOK

LEMMA FitsKept ==
  ASSUME BaseInv, [SessionNext]_vars, NEW n \in Numbers, NEW s \in Sessions, Fits(s, n)
  PROVE  Fits(s, n)'
<1>0. StoresOK /\ ReqsOK /\ JobsOK
  BY DEF BaseInv
<1>1. HasRow(s) => HasRow(s)' /\ rows'[s].proxy = n
  BY RowsStep DEF RowKept, HasRow, Fits
<1>2. ASSUME ~HasRow(s), HasRow(s)'
      PROVE  rows'[s].proxy = n
  <2>1. PICK c \in Clients : CreateInsert(c) /\ req[c].s = s
    BY <1>2, RowsStep
  <2>2. Makes(c)
    BY <2>1 DEF CreateInsert, At, Makes, MakePcs, CreatePcs
  <2>3. rows'[s].proxy = req[c].n
    BY <1>0, <2>1 DEF CreateInsert, StoresOK
  <2>4. QED
    BY <2>1, <2>2, <2>3 DEF Fits
<1>3. ASSUME NEW c \in Clients, Makes(c)', req'[c].s = s
      PROVE  req'[c].n = n
  <2>1. CASE req'[c] = req[c]
    BY <1>3, <2>1 DEF Fits, Makes
  <2>2. CASE MakerMoves(c)
    BY <1>0, <1>3, <2>2, MakerKept DEF Fits
  <2>3. ASSUME NEW r \in Sessions, NEW p \in Pairs, NEW m \in Numbers, CreateAllocate(c, r, p, m)
        PROVE  FALSE
    <3>1. r = s
      BY <1>0, <1>3, <2>3, AllocateGoes DEF Makes, MakePcs, CreatePcs, RollbackPcs
    <3>2. QED
      BY <2>3, <3>1 DEF CreateAllocate, Fresh, Fits
  <2>4. QED
    BY <1>3, <2>1, <2>2, <2>3, MakerCame DEF Makes
<1>4. ASSUME ~HasRow(s)'
      PROVE  \E p \in Parties : s \in phoneSessions'[p]
  <2>1. ~HasRow(s)
    BY <1>1, <1>4
  <2>2. PICK p \in Parties : s \in phoneSessions[p]
    BY <2>1 DEF Fits
  <2>3. \A c \in Clients : SwapScript(c) \/ SwapRepairOld(c) => req[c].s # s
    BY <1>0, <2>1, NamedHasRow DEF SwapScript, SwapRepairOld, At, SwapPcs
  <2>4. \A e \in Expirers : job[e].pc \in PastMark => job[e].s # s
    BY <1>0, <2>1 DEF JobsOK, JobOK, Works, PastMark, JobPcs
  <2>5. QED
    BY <2>2, <2>3, <2>4, IndexKept
<1>5. QED
  BY <1>1, <1>2, <1>3, <1>4 DEF Fits

(* The other party of a caller who was matched stays the right one, or the *)
(* one a swap puts in its place becomes right.                             *)
Other(s, isA) == IF isA THEN rows[s].b ELSE rows[s].a

LEMMA EndsKept ==
  ASSUME BaseInv, [SessionNext]_vars, NEW m \in Letters, NEW s \in Sessions, HasRow(s),
         rows[s].proxy = m.to, NEW isA \in BOOLEAN, isA = (Hashed(s, m.from) = rows[s].a)
  PROVE  /\ HasRow(s)' /\ rows'[s].proxy = m.to
         /\ isA = (Hashed(s, m.from)' = rows'[s].a)
         /\ Other(s, isA)' = Other(s, isA) \/ Other(s, isA)' \in Ends(s, m)'
<1>0. StoresOK /\ ReqsOK
  BY DEF BaseInv
<1>1. HasRow(s)' /\ rows'[s].proxy = m.to /\ rows'[s].a = rows[s].a
  BY RowsStep DEF RowKept, HasRow
<1>2. Hashed(s, m.from)' = Hashed(s, m.from)
  BY <1>1 DEF Hashed
<1>3. ASSUME isA, rows'[s].b # rows[s].b
      PROVE  rows'[s].b \in Ends(s, m)'
  <2>1. PICK c \in Clients : SwapRow(c) /\ req[c].s = s
    BY <1>3, OnlyRetargeted
  <2>2. req'[c].pc = "script" /\ req'[c].s = s
    BY <1>0, <2>1, SwapGoes DEF SwapRow, At, SwapPcs
  <2>3. InForce(s)'
    BY <1>1, <2>2 DEF InForce, Swapping
  <2>4. rows'[s].b \in Peers(s, Hashed(s, m.from))'
    BY <1>1, <1>2, <1>3 DEF Peers
  <2>5. QED
    BY <1>1, <2>3, <2>4 DEF Ends
<1>4. QED
  BY <1>1, <1>2, <1>3 DEF Other

LEMMA EndsMatched ==
  ASSUME BaseInv, SessInv, NEW m \in Letters, NEW s \in Sessions, Candidate(s, m.from),
         Fits(s, m.to), NEW isA, isA = (Hashed(s, m.from) = rows[s].a)
  PROVE  rows[s].proxy = m.to /\ Other(s, isA) \in Ends(s, m)
<1>1. HasRow(s) /\ s \in hashId /\ Hashed(s, m.from) \in hashParties[s]
  BY DEF Candidate, SessInv, RouteInv, HashesOK
<1>2. rows[s].proxy = m.to
  BY <1>1 DEF Fits
<1>3. InForce(s)
  BY <1>1 DEF InForce, SessInv, ForceInv, Dying, Expiring, JobAt
<1>4. Other(s, isA) \in Peers(s, Hashed(s, m.from))
  BY <1>1 DEF Other, Peers
<1>5. QED
  BY <1>2, <1>3, <1>4 DEF Ends

(* The same of the step that bumps a hash, and of a step of the desk: they *)
(* leave alone what decides on who is sought.                              *)
LEMMA SameStores ==
  ASSUME UNCHANGED <<rows, due, hashParties, phoneSessions, req, job>>, NEW s, NEW m
  PROVE  /\ Ends(s, m)' = Ends(s, m)
         /\ Sought(s, m)' <=> Sought(s, m)
         /\ Fits(s, m)' <=> Fits(s, m)
         /\ Hashed(s, m)' = Hashed(s, m)
<1>1. Hashed(s, m)' = Hashed(s, m) /\ Hashed(s, m.from)' = Hashed(s, m.from)
  BY DEF Hashed
<1>2. InForce(s)' <=> InForce(s)
  BY DEF InForce, HasRow, IsLive, Expiring, JobAt, Swapping
<1>3. Ends(s, m)' = Ends(s, m)
  BY <1>1, <1>2 DEF Ends, Peers
<1>4. Steady(s)' <=> Steady(s)
  BY DEF Steady, Creating, Swapping
<1>5. Fits(s, m)' <=> Fits(s, m)
  BY DEF Fits, HasRow, Makes
<1>6. QED
  BY <1>1, <1>3, <1>4, <1>5 DEF Sought

LEMMA StillStores ==
  ASSUME UNCHANGED vars
  PROVE  UNCHANGED <<rows, due, hashParties, phoneSessions, req, job>>
BY DEF vars, sessionVars, poolVars, indexVars

SessionsMove == [SessionNext]_vars \/ Bumped

LEMMA BumpedSame ==
  ASSUME Bumped
  PROVE  UNCHANGED <<rows, due, hashParties, phoneSessions, req, job>>
BY DEF Bumped, poolVars, indexVars

LEMMA StoresMove ==
  ASSUME OneTenant, OneClient, BaseInv, SessInv, BaseInv', SessInv', SessionsMove,
         NEW m \in Letters, NEW s \in Sessions
  PROVE  /\ Fits(s, m.to) => Fits(s, m.to)'
         /\ Sought(s, m)' /\ ~Nobody(m) => Sought(s, m)
         /\ \A isA \in BOOLEAN :
              /\ HasRow(s) /\ rows[s].proxy = m.to
              /\ isA = (Hashed(s, m.from) = rows[s].a)
              => /\ rows'[s].proxy = m.to
                 /\ isA = (Hashed(s, m.from)' = rows'[s].a)
                 /\ Other(s, isA)' = Other(s, isA) \/ Other(s, isA)' \in Ends(s, m)'
<1>0. m.to \in Numbers
  BY DEF Letters
<1>1. CASE [SessionNext]_vars
  <2>1. Sought(s, m)' /\ ~Nobody(m) => Sought(s, m)
    BY <1>1, SoughtKept DEF Nobody, Sought
  <2>2. Fits(s, m.to) => Fits(s, m.to)'
    BY <1>0, <1>1, FitsKept
  <2>3. QED
    BY <1>1, <2>1, <2>2, EndsKept
<1>2. CASE Bumped
  <2>1. UNCHANGED rows /\ Hashed(s, m.from)' = Hashed(s, m.from)
    BY <1>2, BumpedSame, SameStores
  <2>2. Fits(s, m.to)' <=> Fits(s, m.to)
    BY <1>2, BumpedSame, SameStores
  <2>3. Sought(s, m)' <=> Sought(s, m)
    BY <1>2, BumpedSame, SameStores
  <2>4. \A isA \in BOOLEAN : Other(s, isA)' = Other(s, isA)
    BY <2>1 DEF Other
  <2>5. QED
    BY <2>1, <2>2, <2>3, <2>4
<1>3. QED
  BY <1>1, <1>2 DEF SessionsMove

-----------------------------------------------------------------------------
(* What a delivery has found so far.  Unless it was impaired, its search   *)
(* has not passed over the session that should be found, as long as there  *)
(* always was one; and its destination and its answer were right.          *)
SearchOK(d) ==
    HandlerAt(d, "probe") =>
      /\ \A s \in handler[d].todo : Fits(s, Mail(d).to)
      /\ ~seen[d].nobody /\ ~handler[d].impaired =>
           \A s \in Sessions : Sought(s, Mail(d)) => s \in handler[d].todo

LooksOK(d) == Searching(d) /\ ~seen[d].nobody => ~Nobody(Mail(d))

DestOK(d) ==
    HandlerAt(d, "dest") =>
      LET h == handler[d]
      IN  /\ Destination(d) \in seen[d].ends
          /\ rows[h.s].proxy = Mail(d).to
          /\ h.isA = (Hashed(h.s, Mail(d).from) = rows[h.s].a)

AnswerOK(d) ==
    Answering(d) /\ ~handler[d].impaired =>
      /\ handler[d].ans = Refuse => seen[d].nobody
      /\ handler[d].ans.action = "connect" => handler[d].ans.to \in seen[d].ends

FoundOK(d) == SearchOK(d) /\ LooksOK(d) /\ DestOK(d) /\ AnswerOK(d)

LEMMA SeenSets ==
  ASSUME Observe, NEW d \in Deliveries
  PROVE  /\ Searching(d)' /\ ~seen'[d].nobody => ~seen[d].nobody /\ ~Nobody(Mail(d))'
         /\ HandlerAt(d, "dest")' =>
              seen'[d].ends = seen[d].ends \cup Ends(handler[d].s, Mail(d))'
         /\ Answering(d)' => seen'[d] = seen[d]
<1> DEFINE b == seen[d].nobody \/ Nobody(Mail(d))'
           E == seen[d].ends \cup Ends(handler[d].s, Mail(d))'
<1>1. seen'[d] = CASE Searching(d)' -> [ends |-> {}, nobody |-> b]
                   [] HandlerAt(d, "dest")' -> [ends |-> E, nobody |-> FALSE]
                   [] Answering(d)' -> seen[d]
                   [] OTHER -> Unseen
  BY Zenon DEF Observe
<1>2. /\ Searching(d)' => ~HandlerAt(d, "dest")' /\ ~Answering(d)'
      /\ HandlerAt(d, "dest")' => ~Answering(d)'
  BY DEF Searching, HandlerAt, Answering
<1>3. ~b => ~seen[d].nobody /\ ~Nobody(Mail(d))'
  OBVIOUS
<1>4. b \in BOOLEAN
  OBVIOUS
<1> HIDE DEF b, E
<1>5. Searching(d)' => seen'[d].nobody = b
  BY <1>1, <1>2
<1>6. HandlerAt(d, "dest")' => seen'[d].ends = E
  BY <1>1, <1>2
<1>7. Answering(d)' => seen'[d] = seen[d]
  BY <1>1, <1>2
<1>8. QED
  BY <1>3, <1>4, <1>5, <1>6, <1>7 DEF E

(* While a delivery waits, what it has found stays right.                  *)
LEMMA Addressed ==
  ASSUME DeskInv, NEW d \in Deliveries, Busy(d), Event(d) \in Incoming
  PROVE  Mail(d) \in Letters /\ (MailKept /\ handler'[d] = handler[d] => Mail(d)' = Mail(d))
BY Kinds DEF DeskInv, HandlerOK, Mail, MailKept, Event

LEMMA FoundKept ==
  ASSUME OneTenant, OneClient, BaseInv, DeskInv, SessInv, BaseInv', SessInv', SessionsMove,
         Observe, NEW d \in Deliveries, handler'[d] = handler[d], MailKept, FoundOK(d)
  PROVE  FoundOK(d)'
<1>1. LooksOK(d)'
  BY SeenSets DEF LooksOK
<1>2. SearchOK(d)'
  <2> SUFFICES ASSUME HandlerAt(d, "probe")'
               PROVE  /\ (\A s \in handler[d].todo : Fits(s, Mail(d).to))'
                      /\ ~seen'[d].nobody /\ ~handler'[d].impaired =>
                           (\A s \in Sessions : Sought(s, Mail(d)) => s \in handler[d].todo)'
    BY DEF SearchOK
  <2>1. HandlerAt(d, "probe") /\ Event(d) \in Incoming /\ handler[d].todo \subseteq Sessions
    BY Probing DEF HandlerAt, Searches
  <2>2. PICK m \in Letters : Mail(d) = m /\ Mail(d)' = m
    BY <2>1, Addressed DEF HandlerAt, Busy
  <2>3. \A s \in handler'[d].todo : Fits(s, m.to)'
    BY <2>1, <2>2, StoresMove DEF FoundOK, SearchOK
  <2>4. ASSUME ~seen'[d].nobody, ~handler'[d].impaired, NEW s \in Sessions, Sought(s, m)'
        PROVE  s \in handler'[d].todo
    <3>1. Searching(d) /\ Searching(d)'
      BY <2>1 DEF Searching, HandlerAt, Event
    <3>2. ~seen[d].nobody
      BY <2>4, <3>1, SeenSets
    <3>3. ~Nobody(m)
      BY <2>2, <3>1, <3>2 DEF FoundOK, LooksOK
    <3>4. Sought(s, m)
      BY <2>4, <3>3, StoresMove
    <3>5. QED
      BY <2>1, <2>2, <2>4, <3>2, <3>4 DEF FoundOK, SearchOK
  <2>5. QED
    BY <2>2, <2>3, <2>4
<1>3. DestOK(d)'
  <2> SUFFICES ASSUME HandlerAt(d, "dest")'
               PROVE  /\ Destination(d)' \in seen'[d].ends
                      /\ rows'[handler'[d].s].proxy = Mail(d).to'
                      /\ handler'[d].isA =
                           (Hashed(handler[d].s, Mail(d).from)' = rows'[handler'[d].s].a)
    BY DEF DestOK
  <2>1. /\ HandlerAt(d, "dest") /\ Event(d) \in Incoming
        /\ handler[d] \in Routed /\ HasRow(handler[d].s)
    BY HandlerClass DEF HandlerAt, DeskInv, HandlerOK, Routing
  <2>2. PICK m \in Letters : Mail(d) = m /\ Mail(d)' = m
    BY <2>1, Addressed DEF HandlerAt, Busy
  <2>3. PICK s \in Sessions : s = handler[d].s
    BY <2>1 DEF Routed
  <2>4. PICK isA \in BOOLEAN : isA = handler[d].isA
    BY <2>1 DEF Routed
  <2>5. /\ HasRow(s) /\ rows[s].proxy = m.to /\ isA = (Hashed(s, m.from) = rows[s].a)
        /\ Other(s, isA) \in seen[d].ends
    BY <2>1, <2>2, <2>3, <2>4 DEF FoundOK, DestOK, Destination, Other
  <2>6. /\ rows'[s].proxy = m.to /\ isA = (Hashed(s, m.from)' = rows'[s].a)
        /\ Other(s, isA)' = Other(s, isA) \/ Other(s, isA)' \in Ends(s, m)'
    BY <2>5, StoresMove
  <2>7. handler'[d].s = s /\ handler'[d].isA = isA
    BY <2>3, <2>4
  <2>8. seen'[d].ends = seen[d].ends \cup Ends(s, m)'
    BY <2>2, <2>7, SeenSets
  <2>9. Destination(d)' = Other(s, isA)'
    BY <2>7 DEF Destination, Other
  <2>10. QED
    BY <2>2, <2>5, <2>6, <2>7, <2>8, <2>9
<1>4. AnswerOK(d)'
  <2>1. Answering(d)' => Answering(d) /\ seen'[d] = seen[d]
    BY SeenSets DEF Answering
  <2>2. QED
    BY <2>1 DEF FoundOK, AnswerOK
<1>5. QED
  BY <1>1, <1>2, <1>3, <1>4 DEF FoundOK

(* A search starts with the sessions on the number, ...                    *)
LEMMA SearchStarts ==
  ASSUME BaseInv, DeskInv, SessInv, UNCHANGED vars, NEW d \in Deliveries, Members(d)
  PROVE  SearchOK(d)'
<1>1. /\ Event(d)' = Event(d) /\ Mail(d) \in Letters /\ UNCHANGED mail
      /\ \/ handler'[d].todo = proxySessions[Mail(d).to]
         \/ handler'[d].todo = {} /\ handler'[d].impaired
  BY MembersSets DEF Members
<1>2. PICK m \in Letters : Mail(d) = m /\ Mail(d)' = m
  BY <1>1 DEF Mail
<1>3. m.to \in Numbers
  BY DEF Letters
<1>4. UNCHANGED <<rows, due, hashParties, phoneSessions, req, job>>
  BY StillStores
<1>5. ASSUME NEW s \in handler'[d].todo
      PROVE  Fits(s, m.to)'
  <2>1. Fits(s, m.to)
    BY <1>1, <1>2, <1>3, <1>5, FitsClaimed
  <2>2. QED
    BY <1>4, <2>1, SameStores
<1>6. ASSUME ~handler'[d].impaired, NEW s \in Sessions, Sought(s, m)'
      PROVE  s \in handler'[d].todo
  <2>1. Sought(s, m)
    BY <1>4, <1>6, SameStores
  <2>2. QED
    BY <1>1, <1>2, <1>6, <2>1, SoughtIs
<1>7. QED
  BY <1>2, <1>5, <1>6 DEF SearchOK

(* ... and passes over one that is not to be found.                        *)
LEMMA SearchPasses ==
  ASSUME BaseInv, DeskInv, SessInv, UNCHANGED vars, Observe, NEW d \in Deliveries,
         NEW r \in Sessions, UNCHANGED mail, Pass(d, r), SearchOK(d)
  PROVE  SearchOK(d)'
<1>1. /\ Event(d) \in Incoming /\ Event(d)' = Event(d)
      /\ handler'[d].pc = "probe" /\ handler'[d].todo = handler[d].todo \ {r}
      /\ handler[d].impaired => handler'[d].impaired
      /\ ~handler'[d].impaired => ~Candidate(r, Mail(d).from)
  BY PassSets
<1>2. HandlerAt(d, "probe") /\ Mail(d) \in Letters
  BY Probing DEF Pass
<1>3. PICK m \in Letters : Mail(d) = m /\ Mail(d)' = m
  BY <1>1, <1>2 DEF Mail
<1>4. UNCHANGED <<rows, due, hashParties, phoneSessions, req, job>>
  BY StillStores
<1>5. Searching(d)'
  BY <1>1 DEF Searching
<1>6. \A s \in handler'[d].todo : Fits(s, m.to)'
  BY <1>1, <1>2, <1>3, <1>4, SameStores DEF SearchOK
<1>7. ASSUME ~seen'[d].nobody, ~handler'[d].impaired, NEW s \in Sessions, Sought(s, m)'
      PROVE  s \in handler'[d].todo
  <2>1. Sought(s, m)
    BY <1>4, <1>7, SameStores
  <2>2. ~seen[d].nobody
    BY <1>5, <1>7, SeenSets
  <2>3. s \in handler[d].todo
    BY <1>1, <1>2, <1>3, <1>7, <2>1, <2>2 DEF SearchOK
  <2>4. s # r
    BY <1>1, <1>3, <1>7, <2>1, SoughtIs
  <2>5. QED
    BY <1>1, <2>3, <2>4
<1>8. QED
  BY <1>3, <1>6, <1>7 DEF SearchOK

(* The destination of a match is the right one, as the stores are.         *)
LEMMA MatchIsRight ==
  ASSUME BaseInv, DeskInv, SessInv, UNCHANGED vars, Observe, NEW d \in Deliveries,
         NEW s \in Sessions, NEW v, UNCHANGED mail, Match(d, s, v), SearchOK(d)
  PROVE  DestOK(d)' /\ AnswerOK(d)'
<1>1. /\ Event(d)' = Event(d)
      /\ handler'[d].pc = IF v = "connect" THEN "dest" ELSE "remember"
      /\ handler'[d].s = s
      /\ handler'[d].isA = (Hashed(s, Mail(d).from) = rows[s].a)
      /\ handler'[d].ans.action = v
      /\ v \in {"connect", "deny", "simulate"}
  BY MatchSets
<1>2. HandlerAt(d, "probe") /\ Mail(d) \in Letters
  BY Probing DEF Match
<1>3. PICK m \in Letters : Mail(d) = m /\ Mail(d)' = m
  BY <1>1, <1>2 DEF Mail
<1>4. UNCHANGED <<rows, due, hashParties, phoneSessions, req, job>>
  BY StillStores
<1>5. Candidate(s, m.from) /\ Fits(s, m.to)
  BY <1>2, <1>3 DEF Match, SearchOK
<1>6. PICK isA : isA = (Hashed(s, m.from) = rows[s].a)
  OBVIOUS
<1>7. rows[s].proxy = m.to /\ Other(s, isA) \in Ends(s, m)
  BY <1>5, <1>6, EndsMatched
<1>8. DestOK(d)'
  <2> SUFFICES ASSUME HandlerAt(d, "dest")'
               PROVE  /\ Destination(d)' \in seen'[d].ends
                      /\ rows'[handler'[d].s].proxy = Mail(d).to'
                      /\ handler'[d].isA =
                           (Hashed(handler[d].s, Mail(d).from)' = rows'[handler'[d].s].a)
    BY DEF DestOK
  <2>1. handler'[d].s = s /\ handler'[d].isA = isA
    BY <1>1, <1>3, <1>6
  <2>2. seen'[d].ends = seen[d].ends \cup Ends(s, m)'
    BY <1>3, <2>1, SeenSets
  <2>3. Ends(s, m)' = Ends(s, m) /\ Hashed(s, m.from)' = Hashed(s, m.from)
    BY <1>4, SameStores
  <2>4. Destination(d)' = Other(s, isA)
    BY <1>4, <2>1 DEF Destination, Other
  <2>5. QED
    BY <1>3, <1>4, <1>6, <1>7, <2>1, <2>2, <2>3, <2>4
<1>9. AnswerOK(d)'
  <2>1. handler'[d].pc = "remember" => v \in {"deny", "simulate"}
    BY <1>1
  <2>2. Refuse.action = "refuse"
    BY DEF Refuse
  <2>3. handler'[d].pc # "insert"
    BY <1>1
  <2>4. QED
    BY <1>1, <2>1, <2>2, <2>3 DEF AnswerOK, Answering
<1>10. QED
  BY <1>8, <1>9

(* What a step of its own makes of what a delivery has found.              *)
LEMMA FoundMoves ==
  ASSUME BaseInv, DeskInv, SessInv, UNCHANGED vars, Observe, NEW d \in Deliveries,
         Handle(d), FoundOK(d)
  PROVE  FoundOK(d)'
<1> DEFINE Nowhere == handler'[d].pc \notin {"probe", "dest", "remember", "insert"}
<1>1. LooksOK(d)'
  BY SeenSets DEF LooksOK
<1>2. Nowhere => FoundOK(d)'
  BY <1>1 DEF FoundOK, SearchOK, DestOK, AnswerOK, Answering, HandlerAt
<1>3. Idle.pc = "idle"
  BY DEF Idle
<1>4. ASSUME NEW e \in Events, Receive(d, e)
      PROVE  Nowhere
  BY <1>4, ReceiveSets
<1>5. LookupHit(d) \/ InsertText(d) \/ Throw(d) => Nowhere
  BY <1>3, HitSets, InsertTextSets, ThrowSets
<1>6. LookupMiss(d) \/ Report(d) \/ MarkProcessed(d) => Nowhere
  BY <1>3, MissSets, ReportSets, MarkSets
<1>7. CASE Members(d)
  <2>1. SearchOK(d)' /\ handler'[d].pc = "probe"
    BY <1>7, SearchStarts, MembersSets
  <2>2. QED
    BY <1>1, <2>1 DEF FoundOK, DestOK, AnswerOK, Answering, HandlerAt
<1>8. ASSUME NEW s \in Sessions, Probe(d, s) \/ ProbeFails(d, s)
      PROVE  FoundOK(d)'
  <2>0. UNCHANGED mail
    BY <1>8 DEF Probe, ProbeFails
  <2>1. ASSUME NEW v \in Verdicts(d), Match(d, s, v)
        PROVE  FoundOK(d)'
    <3>1. DestOK(d)' /\ AnswerOK(d)'
      BY <2>0, <2>1, MatchIsRight DEF FoundOK
    <3>2. handler'[d].pc # "probe"
      BY <2>1, MatchSets
    <3>3. QED
      BY <1>1, <3>1, <3>2 DEF FoundOK, SearchOK, HandlerAt
  <2>2. CASE Pass(d, s)
    <3>1. SearchOK(d)' /\ handler'[d].pc = "probe"
      BY <2>0, <2>2, SearchPasses, PassSets DEF FoundOK
    <3>2. QED
      BY <1>1, <3>1 DEF FoundOK, DestOK, AnswerOK, Answering, HandlerAt
  <2>3. CASE GivesUp(d)
    BY <1>2, <2>3, GivesUpSets
  <2>4. QED
    BY <1>8, <2>1, <2>2, <2>3, ProbeCases
<1>9. CASE Unmatched(d)
  <2>1. /\ Event(d) \in Incoming /\ handler'[d].pc = "remember"
        /\ handler'[d].ans = Refuse /\ handler'[d].impaired = handler[d].impaired
        /\ HandlerAt(d, "probe") /\ handler[d].todo = {}
    BY <1>9, UnmatchedSets DEF HandlerAt
  <2>2. seen'[d] = seen[d]
    BY <2>1, SeenSets DEF Answering
  <2>3. ASSUME ~handler[d].impaired, ~seen[d].nobody
        PROVE  FALSE
    <3>1. ~Nobody(Mail(d))
      BY <2>1, <2>3 DEF FoundOK, LooksOK, Searching, HandlerAt
    <3>2. PICK s \in Sessions : Sought(s, Mail(d))
      BY <3>1 DEF Nobody, Sought
    <3>3. QED
      BY <2>1, <2>3, <3>2 DEF FoundOK, SearchOK
  <2>4. AnswerOK(d)'
    BY <2>1, <2>2, <2>3 DEF AnswerOK, Refuse
  <2>5. QED
    BY <1>1, <2>1, <2>4 DEF FoundOK, SearchOK, DestOK, HandlerAt
<1>10. CASE Resolve(d)
  <2>1. /\ HandlerAt(d, "dest") /\ handler'[d].pc = "remember"
        /\ \/ handler'[d].ans.action = "connect" /\ handler'[d].ans.to = Destination(d)
           \/ handler'[d].ans = Refuse /\ handler'[d].impaired
    BY <1>10, ResolveSets DEF HandlerAt
  <2>2. seen'[d] = seen[d]
    BY <2>1, SeenSets DEF Answering
  <2>3. Destination(d) \in seen[d].ends
    BY <2>1 DEF FoundOK, DestOK
  <2>4. AnswerOK(d)'
    BY <2>1, <2>2, <2>3 DEF AnswerOK, Refuse
  <2>5. QED
    BY <1>1, <2>1, <2>4 DEF FoundOK, SearchOK, DestOK, HandlerAt
<1>11. CASE Answer(d)
  <2>1. CASE Forwards(d)
    <3>1. /\ handler[d].pc = "remember" /\ handler'[d].pc = "insert"
          /\ handler'[d].ans = handler[d].ans /\ handler'[d].impaired = handler[d].impaired
      BY <1>11, <2>1, AnswerSets
    <3>2. seen'[d] = seen[d] /\ Answering(d)
      BY <3>1, SeenSets DEF Answering
    <3>3. AnswerOK(d)'
      BY <3>1, <3>2 DEF FoundOK, AnswerOK
    <3>4. QED
      BY <1>1, <3>1, <3>3 DEF FoundOK, SearchOK, DestOK, HandlerAt
  <2>2. CASE ~Forwards(d)
    BY <1>2, <1>3, <1>11, <2>2, AnswerSets
  <2>3. QED
    BY <2>1, <2>2
<1> HIDE DEF Nowhere
<1>12. QED
  BY <1>2, <1>4, <1>5, <1>6, <1>7, <1>8, <1>9, <1>10, <1>11 DEF Handle

(* Together: whatever happens, what the deliveries have found stays right. *)
LEMMA FoundStep ==
  ASSUME OneTenant, OneClient, ~ListedIds, StoreFails = {}, BaseInv, DeskInv, SessInv,
         \A d \in Deliveries : FoundOK(d), [InboundNext]_allVars
  PROVE  SessInv' /\ \A d \in Deliveries : FoundOK(d)'
<1>1. CASE UNCHANGED allVars
  <2>1. UNCHANGED vars /\ UNCHANGED <<mail, handler, seen>>
    BY <1>1 DEF allVars, inboundVars
  <2>2. SessInv'
    BY <2>1, SessStep
  <2>3. UNCHANGED <<rows, due, hashParties, phoneSessions, req, job>>
    BY <2>1, StillStores
  <2>4. ASSUME NEW d \in Deliveries
        PROVE  FoundOK(d)'
    <3>1. PICK m : Mail(d) = m /\ Mail(d)' = m
      BY <2>1 DEF Mail, Event
    <3>2. \A s : Ends(s, m)' = Ends(s, m) /\ (Sought(s, m)' <=> Sought(s, m))
                 /\ (Fits(s, m.to)' <=> Fits(s, m.to))
                 /\ Hashed(s, m.from)' = Hashed(s, m.from)
      BY <2>3, SameStores
    <3>3. PICK h : handler[d] = h /\ handler'[d] = h
      BY <2>1
    <3>4. SearchOK(d)'
      BY <2>1, <3>1, <3>2, <3>3 DEF FoundOK, SearchOK, HandlerAt
    <3>5. Nobody(m)' <=> Nobody(m)
      BY <3>2 DEF Nobody, Sought
    <3>6. LooksOK(d)'
      BY <2>1, <3>1, <3>3, <3>5 DEF FoundOK, LooksOK, Searching, Event
    <3>7. DestOK(d)'
      BY <2>1, <2>3, <3>1, <3>2, <3>3 DEF FoundOK, DestOK, HandlerAt, Destination
    <3>8. AnswerOK(d)'
      BY <2>1, <3>3 DEF FoundOK, AnswerOK, Answering
    <3>9. QED
      BY <3>4, <3>6, <3>7, <3>8 DEF FoundOK
  <2>5. QED
    BY <2>2, <2>4
<1>2. CASE InboundNext
  <2>0. Observe
    BY <1>2 DEF InboundNext
  <2>1. BaseInv' /\ SessInv' /\ SessionsMove
    <3>1. CASE [SessionNext]_vars
      BY <3>1, BaseStep, SessStep DEF SessionsMove
    <3>2. CASE Bumped
      BY <3>2, BumpedBase, SessBumped DEF SessionsMove
    <3>3. ASSUME NEW t \in tasks, Bump(t),
                 UNCHANGED <<poolVars, rows, due, hashId, ttl, indexVars, req, job>>
          PROVE  Bumped
      BY <3>3, BumpIsBumped
    <3>4. QED
      BY <1>2, <3>1, <3>2, <3>3, InboundCases
  <2>2. ASSUME NEW d \in Deliveries, UNCHANGED <<mail, handler>>
        PROVE  FoundOK(d)'
    BY <2>0, <2>1, <2>2, FoundKept DEF MailKept
  <2>3. ASSUME UNCHANGED vars, NEW e \in Deliveries, Handle(e), NEW d \in Deliveries
        PROVE  FoundOK(d)'
    <3>1. CASE d = e
      BY <2>0, <2>3, <3>1, FoundMoves
    <3>2. CASE d # e
      BY <2>0, <2>1, <2>3, <3>2, HandleMoves, FoundKept DEF Only
    <3>3. QED
      BY <3>1, <3>2
  <2>4. Later => UNCHANGED <<mail, handler>>
    BY LaterSets
  <2>5. \A t \in tasks : Bump(t) => UNCHANGED <<mail, handler>>
    BY DEF Bump
  <2>6. UNCHANGED inboundVars => UNCHANGED <<mail, handler>>
    BY DEF inboundVars
  <2>7. QED
    BY <1>2, <2>1, <2>2, <2>3, <2>4, <2>5, <2>6, InboundCases
<1>3. QED
  BY <1>1, <1>2

LEMMA FoundStarts == InboundInit => SessInv /\ \A d \in Deliveries : FoundOK(d)
<1> SUFFICES ASSUME InboundInit
             PROVE  SessInv /\ \A d \in Deliveries : FoundOK(d)
  OBVIOUS
<1>1. SessInv
  BY SessStarts DEF InboundInit
<1>2. \A d \in Deliveries : handler[d].pc = "idle"
  BY DEF InboundInit, Idle
<1>3. QED
  BY <1>1, <1>2 DEF FoundOK, SearchOK, LooksOK, DestOK, AnswerOK, HandlerAt, Searching, Answering

(* call-router.ts:85-210 and sms-router.ts:47-134 put an answer together   *)
(* from the number's set, the hashes and a row, read one after the other   *)
(* while sessions are created, ended and swapped: for any calls and texts, *)
(* any number of them at one time and any failures of the handlers' own    *)
(* commands, whom a caller is connected to was the other party of one of   *)
(* its sessions since the match, and a caller is told that there is no     *)
(* session only if there was a moment of the search when there was none.   *)
(* The hypotheses: phones of one tenant, one client, no listed ids, and no *)
(* command of the sessions' own that fails, since a hash that a rollback   *)
(* or an expiry then leaves behind would be routed by.                     *)
THEOREM AnswersAreAlwaysRight ==
  ASSUME OneTenant, OneClient, ~ListedIds, StoreFails = {}
  PROVE  InboundSpec => []AnswersWereRight
<1> DEFINE RightInv == SessInv /\ \A d \in Deliveries : FoundOK(d)
<1>1. InboundInit => RightInv
  BY FoundStarts
<1>2. BaseInv /\ DeskInv /\ RightInv /\ [InboundNext]_allVars => RightInv'
  BY FoundStep
<1>3. RightInv => AnswersWereRight
  BY DEF FoundOK, AnswerOK, AnswersWereRight
<1> HIDE DEF RightInv
<1>4. QED
  BY <1>1, <1>2, <1>3, DeskAlways, PTL DEF InboundSpec

=============================================================================
