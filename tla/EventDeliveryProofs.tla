-------------------------- MODULE EventDeliveryProofs --------------------------
(***************************************************************************)
(* Proofs about EventDelivery, for any events, processes, batch sizes and  *)
(* numbers of attempts.                                                    *)
(***************************************************************************)
EXTENDS EventDelivery, SequenceTheorems, TLAPS

(* Types, loop by loop and store by store.                                 *)
LoopType == [pc : Pcs, batch : Seq(Events), live : BOOLEAN]

BatchOK(t) ==
    /\ t.batch \in Seq(published)
    /\ t.batch = <<>> <=> t.pc \in {"off", "read"}

LoopsOK ==
    /\ loop \in [Loops -> LoopType]
    /\ \A l \in Loops : BatchOK(loop[l])

BusOK ==
    /\ subscribed \in Subscriptions
    /\ published \subseteq Events
    /\ stream \in Seq(published)
    /\ groups \subseteq subscribed
    /\ cursor \in [Groups -> Nat]
    /\ \A g \in Groups : cursor[g] <= Len(stream)
    /\ pending \in [Groups -> SUBSET published]
    /\ status \in [Procs -> {"down", "up", "stopping"}]

BillsOK ==
    /\ hasPeriod \in BOOLEAN
    /\ metered \in [Events -> Nat]
    /\ billed \subseteq published

HooksOK ==
    /\ deliveries \in [Procs -> SUBSET [event : published, attempt : 1 .. MaxAttempts]]
    /\ posts \in [Events -> Seq(BOOLEAN)]

(* A loop runs only for a group that the event type is subscribed with.    *)
RunsOK == \A l \in Loops : loop[l].pc # "off" => l[2] \in subscribed

TypeInv == BusOK /\ LoopsOK /\ RunsOK /\ BillsOK /\ HooksOK

-----------------------------------------------------------------------------
(* Sequences.                                                              *)
LEMMA TailOf ==
  ASSUME NEW S, NEW s \in Seq(S), s # <<>>
  PROVE  /\ Head(s) \in S /\ Head(s) = s[1]
         /\ Tail(s) \in Seq(S)
         /\ Len(s) \in Nat \ {0} /\ Len(Tail(s)) = Len(s) - 1
         /\ \A i \in 1 .. Len(Tail(s)) : Tail(s)[i] = s[i + 1]
BY HeadTailProperties, EmptySeq, LenProperties

LEMMA Widens ==
  ASSUME NEW S, NEW T, S \subseteq T
  PROVE  Seq(S) \subseteq Seq(T)
BY SeqMonotonic

(* The entries that XREADGROUP hands to a group are those after its cursor.*)
Reached(g) ==
    IF cursor[g] + Count < Len(stream) THEN cursor[g] + Count ELSE Len(stream)

LEMMA FreshOf ==
  ASSUME BusOK, NEW g \in Groups
  PROVE  /\ FreshEntries(g) \in Seq(published)
         /\ Reached(g) \in Nat /\ cursor[g] <= Reached(g) /\ Reached(g) <= Len(stream)
         /\ Len(FreshEntries(g)) = Reached(g) - cursor[g]
         /\ \A i \in 1 .. Len(FreshEntries(g)) :
              FreshEntries(g)[i] = stream[cursor[g] + i]
<1>1. /\ stream \in Seq(published) /\ Len(stream) \in Nat
      /\ cursor[g] \in Nat /\ Count \in Nat /\ cursor[g] <= Len(stream)
  BY DeliveryAssumption, LenProperties DEF BusOK
<1>2. Reached(g) \in Nat /\ cursor[g] <= Reached(g) /\ Reached(g) <= Len(stream)
  BY <1>1 DEF Reached
<1>3. \A i \in cursor[g] + 1 .. Reached(g) : stream[i] \in published
  BY <1>1, <1>2, ElementOfSeq
<1>4. FreshEntries(g) = SubSeq(stream, cursor[g] + 1, Reached(g))
  BY DEF FreshEntries, Reached
<1>5. CASE cursor[g] + 1 <= Reached(g)
  BY <1>1, <1>2, <1>3, <1>4, <1>5, SubSeqProperties
<1>6. CASE Reached(g) = cursor[g]
  <2>1. SubSeq(stream, cursor[g] + 1, Reached(g)) = << >>
    BY <1>1, <1>6, SubSeqEmpty
  <2>2. QED
    BY <1>1, <1>2, <1>4, <1>6, <2>1, EmptySeq
<1>7. QED
  BY <1>1, <1>2, <1>5, <1>6

(* What a loop is about to handle is a published event.                    *)
LEMMA EntryOf ==
  ASSUME TypeInv, NEW l \in Loops, loop[l].pc \notin {"off", "read"}
  PROVE  /\ loop[l] \in LoopType
         /\ loop[l].batch \in Seq(published) /\ loop[l].batch # <<>>
         /\ Entry(l) \in published /\ Entry(l) \in Events
         /\ Entry(l) = loop[l].batch[1]
<1>1. loop[l] \in LoopType /\ loop[l].batch \in Seq(published) /\ loop[l].batch # <<>>
  BY DEF TypeInv, LoopsOK, BatchOK
<1>2. QED
  BY <1>1, TailOf DEF Entry, TypeInv, BusOK

(* One loop moves on within its batch, or takes another.                   *)
LEMMA OneLoop ==
  ASSUME TypeInv, UNCHANGED published, NEW l \in Loops, NEW t \in LoopType,
         BatchOK(t), loop' = [loop EXCEPT ![l] = t]
  PROVE  LoopsOK'
<1>1. \A m \in Loops : loop'[m] = IF m = l THEN t ELSE loop[m]
  BY DEF TypeInv, LoopsOK
<1>2. \A m \in Loops : BatchOK(loop'[m])
  BY <1>1 DEF TypeInv, LoopsOK
<1>3. QED
  BY <1>2 DEF TypeInv, LoopsOK, BatchOK

LEMMA LoopGoes ==
  ASSUME TypeInv, UNCHANGED published, NEW l \in Loops,
         NEW pc \in Pcs, Goto(l, pc),
         loop[l].pc \in {"off", "read"} <=> pc \in {"off", "read"}
  PROVE  LoopsOK'
<1>1. loop[l] \in LoopType /\ BatchOK(loop[l])
  BY DEF TypeInv, LoopsOK
<1> DEFINE t == [loop[l] EXCEPT !.pc = pc]
<1>2. t \in LoopType /\ t.pc = pc /\ t.batch = loop[l].batch
  BY <1>1 DEF LoopType
<1>3. loop' = [loop EXCEPT ![l] = t]
  BY DEF Goto
<1>4. BatchOK(t)
  BY <1>1, <1>2 DEF BatchOK
<1> HIDE DEF t
<1>5. QED
  BY <1>2, <1>3, <1>4, OneLoop

LEMMA EntryDone ==
  ASSUME TypeInv, UNCHANGED published, NEW l \in Loops,
         loop[l].pc \notin {"off", "read"}, NextEntry(l)
  PROVE  LoopsOK'
<1> DEFINE rest == Tail(loop[l].batch)
           t == [pc |-> IF rest # <<>> THEN "handle" ELSE Resume(l),
                 batch |-> rest, live |-> FALSE]
<1>1. loop[l].batch \in Seq(published) /\ loop[l].batch # <<>>
  BY EntryOf
<1>2. rest \in Seq(published) /\ rest \in Seq(Events)
  BY <1>1, TailOf, Widens DEF TypeInv, BusOK
<1>3. t \in LoopType /\ BatchOK(t)
  BY <1>2 DEF LoopType, BatchOK, Pcs, Resume
<1>4. loop' = [loop EXCEPT ![l] = t]
  BY DEF NextEntry
<1> HIDE DEF t
<1>5. QED
  BY <1>3, <1>4, OneLoop

(* The loops keep their types under every step, ...                        *)
LEMMA LoopsStep ==
  ASSUME TypeInv, [Next]_vars
  PROVE  LoopsOK'
<1>1. ASSUME UNCHANGED loop, published \subseteq published'
      PROVE  LoopsOK'
  <2>1. Seq(published) \subseteq Seq(published')
    BY <1>1, Widens
  <2>2. QED
    BY <1>1, <2>1 DEF TypeInv, LoopsOK, BatchOK
<1>2. ASSUME NEW p \in Procs, Exit(p)
      PROVE  LoopsOK'
  <2>1. published' = published
    BY <1>2 DEF Exit, busVars
  <2>2. Off \in LoopType /\ BatchOK(Off)
    BY DEF Off, LoopType, BatchOK, Pcs
  <2>3. loop' \in [Loops -> LoopType] /\ \A l \in Loops : BatchOK(loop'[l])
    BY <1>2, <2>2 DEF Exit, TypeInv, LoopsOK
  <2>4. QED
    BY <2>1, <2>3 DEF LoopsOK, BatchOK
<1>3. ASSUME NEW l \in Loops, LoopStep(l)
      PROVE  LoopsOK'
  <2>0. published' = published /\ \A q \in Procs : \A g \in Groups : <<q, g>> \in Loops
    BY <1>3 DEF LoopStep, Subscribe, Read, ReadLost, Recover, Ack, AckFails, ResolveMode,
       FindPeriod, OpenPeriod, OpenCollides, RecordUsage, MeteringFails, Deliver, busVars, Loops
  <2>1. CASE Subscribe(l)
    BY <2>0, <2>1, LoopGoes DEF Subscribe, At, Pcs
  <2>2. CASE Read(l)
    <3> DEFINE t == [pc |-> "handle", batch |-> FreshEntries(l[2]), live |-> FALSE]
    <3>1. l[2] \in Groups
      BY DEF Loops
    <3>2. FreshEntries(l[2]) \in Seq(published) /\ FreshEntries(l[2]) # <<>>
      BY <2>2, <3>1, FreshOf DEF Read, ReadEntries, TypeInv
    <3>3. FreshEntries(l[2]) \in Seq(Events)
      BY <3>2, Widens DEF TypeInv, BusOK
    <3>4. t \in LoopType /\ BatchOK(t)
      BY <3>2, <3>3 DEF LoopType, BatchOK, Pcs
    <3>5. loop' = [loop EXCEPT ![l] = t]
      BY <2>2 DEF Read
    <3> HIDE DEF t
    <3>6. QED
      BY <2>0, <3>4, <3>5, OneLoop
  <2>3. CASE ReadLost(l)
    BY <2>0, <2>3, LoopGoes DEF ReadLost, At, Pcs, Resume
  <2>4. CASE Recover(l)
    BY <1>1, <2>0, <2>4 DEF Recover
  <2>5. CASE Ack(l) \/ AckFails(l)
    BY <2>0, <2>5, EntryDone DEF Ack, AckFails, At
  <2>6. CASE ResolveMode(l)
    <3>1. PICK live \in Modes(Entry(l)) :
            loop' = [loop EXCEPT ![l].pc = "period", ![l].live = live]
      BY <2>6 DEF ResolveMode
    <3>2. live \in BOOLEAN
      BY DEF Modes
    <3>3. loop[l] \in LoopType /\ BatchOK(loop[l]) /\ loop[l].pc = "handle"
      BY <2>6 DEF ResolveMode, At, TypeInv, LoopsOK
    <3> DEFINE t == [loop[l] EXCEPT !.pc = "period", !.live = live]
    <3>4. t \in LoopType /\ t.pc = "period" /\ t.batch = loop[l].batch
      BY <3>2, <3>3 DEF LoopType, Pcs
    <3>5. BatchOK(t)
      BY <3>3, <3>4 DEF BatchOK
    <3>6. loop' = [loop EXCEPT ![l] = t]
      BY <3>1
    <3> HIDE DEF t
    <3>7. QED
      BY <2>0, <3>4, <3>5, <3>6, OneLoop
  <2>7. CASE FindPeriod(l)
    BY <2>0, <2>7, LoopGoes DEF FindPeriod, At, Pcs
  <2>8. CASE OpenPeriod(l) \/ OpenCollides(l) \/ RecordUsage(l)
    BY <2>0, <2>8, LoopGoes DEF OpenPeriod, OpenCollides, RecordUsage, At, Pcs
  <2>9. CASE MeteringFails(l) \/ Deliver(l)
    BY <2>0, <2>9, LoopGoes DEF MeteringFails, Deliver, At, Pcs
  <2>10. QED
    BY <1>3, <2>1, <2>2, <2>3, <2>4, <2>5, <2>6, <2>7, <2>8, <2>9 DEF LoopStep
<1>4. QED
  BY <1>1, <1>2, <1>3 DEF Next, vars, busVars, Publish, Flush, Start, Stop, Attempt

(* ... and so do the bus, ...                                              *)
LEMMA ReadKeepsBus ==
  ASSUME BusOK, NEW g \in Groups, ReadEntries(g, FreshEntries(g)),
         UNCHANGED <<subscribed, published, stream, groups, status>>
  PROVE  BusOK'
<1>1. \A i \in DOMAIN FreshEntries(g) : FreshEntries(g)[i] \in published
  BY FreshOf, ElementOfSeq, LenProperties
<1>2. cursor' = [cursor EXCEPT ![g] = Reached(g)]
  BY DEF ReadEntries, Reached
<1>3. Reached(g) \in Nat /\ Reached(g) <= Len(stream)
  BY FreshOf
<1>4. pending' \in [Groups -> SUBSET published]
  BY <1>1 DEF ReadEntries, BusOK
<1>5. QED
  BY <1>2, <1>3, <1>4 DEF BusOK

LEMMA EnsureKeepsBus ==
  ASSUME BusOK, NEW g \in subscribed, g \in Groups,
         EnsureGroup(g) \/ UNCHANGED <<groups, cursor>>,
         UNCHANGED <<subscribed, published, stream, pending, status>>
  PROVE  BusOK'
<1>1. Len(stream) \in Nat
  BY LenProperties DEF BusOK
<1>2. QED
  BY <1>1 DEF BusOK, EnsureGroup

LEMMA BusTyped ==
  ASSUME TypeInv, [Next]_vars
  PROVE  BusOK'
<1>0. BusOK /\ LoopsOK
  BY DEF TypeInv
<1>1. ASSUME UNCHANGED <<subscribed, published, stream, groups, cursor, pending, status>>
      PROVE  BusOK'
  BY <1>0, <1>1 DEF BusOK
<1>2. ASSUME NEW e \in Events, Publish(e)
      PROVE  BusOK'
  <2>1. published \subseteq published' /\ e \in published' /\ published' \subseteq Events
    BY <1>0, <1>2 DEF Publish, BusOK
  <2>2. stream \in Seq(published')
    BY <1>0, <2>1, Widens DEF BusOK
  <2>3. stream' \in Seq(published') /\ Len(stream') = Len(stream) + 1
    BY <1>2, <2>1, <2>2, AppendProperties DEF Publish
  <2>4. Len(stream) \in Nat
    BY <2>2, LenProperties
  <2>5. \A g \in Groups : cursor[g] <= Len(stream')
    BY <1>0, <2>3, <2>4 DEF BusOK
  <2>6. QED
    BY <1>0, <1>2, <2>1, <2>3, <2>5 DEF Publish, BusOK
<1>3. CASE Flush
  BY <1>0, <1>3, EmptySeq DEF Flush, BusOK
<1>4. ASSUME NEW p \in Procs, Start(p) \/ Stop(p) \/ Exit(p)
      PROVE  BusOK'
  BY <1>0, <1>4 DEF Start, Stop, Exit, BusOK, busVars
<1>5. ASSUME NEW l \in Loops, LoopStep(l)
      PROVE  BusOK'
  <2>0. l[2] \in Groups
    BY DEF Loops
  <2>1. CASE Subscribe(l)
    BY <1>0, <2>0, <2>1, EnsureKeepsBus DEF Subscribe
  <2>2. CASE Read(l) \/ ReadLost(l)
    BY <1>0, <2>0, <2>2, ReadKeepsBus DEF Read, ReadLost
  <2>3. CASE Recover(l)
    <3>1. groups' = groups \cup {l[2]}
      BY <2>3 DEF Recover, EnsureGroup
    <3>2. l[2] \in subscribed
      BY <2>3 DEF Recover, At, TypeInv, RunsOK
    <3>3. QED
      BY <1>0, <2>0, <2>3, <3>2, EnsureKeepsBus DEF Recover
  <2>4. CASE Ack(l)
    BY <1>0, <2>0, <2>4 DEF Ack, BusOK
  <2>5. CASE AckFails(l) \/ ResolveMode(l) \/ FindPeriod(l) \/ OpenPeriod(l) \/ OpenCollides(l)
             \/ RecordUsage(l) \/ MeteringFails(l) \/ Deliver(l)
    BY <1>1, <2>5 DEF AckFails, ResolveMode, FindPeriod, OpenPeriod, OpenCollides,
       RecordUsage, MeteringFails, Deliver, busVars
  <2>6. QED
    BY <1>5, <2>1, <2>2, <2>3, <2>4, <2>5 DEF LoopStep
<1>6. ASSUME NEW p \in Procs, NEW d \in deliveries[p], NEW ok \in BOOLEAN, Attempt(p, d, ok)
      PROVE  BusOK'
  BY <1>1, <1>6 DEF Attempt, busVars
<1>7. CASE UNCHANGED vars
  BY <1>1, <1>7 DEF vars, busVars
<1>8. QED
  BY <1>2, <1>3, <1>4, <1>5, <1>6, <1>7 DEF Next

LEMMA RunsStep ==
  ASSUME TypeInv, [Next]_vars
  PROVE  RunsOK'
<1>1. ASSUME NEW l \in Loops, LoopStep(l)
      PROVE  /\ l[2] \in subscribed
             /\ \A m \in Loops : m # l => loop'[m] = loop[m]
  <2>1. l[2] \in subscribed
    BY <1>1 DEF LoopStep, Subscribe, Read, ReadLost, Recover, Ack, AckFails, ResolveMode,
       FindPeriod, OpenPeriod, OpenCollides, RecordUsage, MeteringFails, Deliver, At, TypeInv, RunsOK
  <2>2. (\E t : loop' = [loop EXCEPT ![l] = t]) \/ UNCHANGED loop
    BY <1>1 DEF LoopStep, Subscribe, Read, ReadLost, Recover, Ack, AckFails, ResolveMode,
       FindPeriod, OpenPeriod, OpenCollides, RecordUsage, MeteringFails, Deliver, Goto, NextEntry
  <2>3. QED
    BY <2>1, <2>2 DEF TypeInv, LoopsOK
<1>2. UNCHANGED subscribed
  BY DEF Next, vars, busVars, Publish, Flush, Start, Stop, Exit, LoopStep, Subscribe, Read,
     ReadLost, Recover, Ack, AckFails, ResolveMode, FindPeriod, OpenPeriod, OpenCollides,
     RecordUsage, MeteringFails, Deliver, Attempt
<1>3. ASSUME NEW p \in Procs, Exit(p)
      PROVE  \A m \in Loops : loop'[m].pc # "off" => loop'[m] = loop[m]
  BY <1>3 DEF Exit, Off
<1>4. UNCHANGED loop \/ (\E p \in Procs : Exit(p)) \/ (\E l \in Loops : LoopStep(l))
  BY DEF Next, vars, Publish, Flush, Start, Stop, Attempt
<1>5. QED
  BY <1>1, <1>2, <1>3, <1>4 DEF TypeInv, RunsOK

(* ... the usage rows, ...                                                 *)
LEMMA BillsStep ==
  ASSUME TypeInv, [Next]_vars
  PROVE  BillsOK'
<1>0. BillsOK
  BY DEF TypeInv
<1>1. ASSUME UNCHANGED billingVars, published \subseteq published'
      PROVE  BillsOK'
  BY <1>0, <1>1 DEF BillsOK, billingVars
<1>2. ASSUME NEW l \in Loops, OpenPeriod(l) \/ RecordUsage(l)
      PROVE  BillsOK'
  <2>1. published' = published
    BY <1>2 DEF OpenPeriod, RecordUsage, busVars
  <2>2. Entry(l) \in published /\ Entry(l) \in Events
    BY <1>2, EntryOf DEF OpenPeriod, RecordUsage, At
  <2>3. CASE OpenPeriod(l)
    BY <1>0, <2>1, <2>3 DEF OpenPeriod, BillsOK
  <2>4. CASE RecordUsage(l)
    <3>1. metered' \in [Events -> Nat]
      BY <1>0, <2>2, <2>4 DEF RecordUsage, BillsOK
    <3>2. billed' \subseteq published'
      <4>1. CASE loop[l].live
        BY <1>0, <2>1, <2>2, <2>4, <4>1 DEF RecordUsage, BillsOK
      <4>2. CASE ~loop[l].live
        BY <1>0, <2>1, <2>4, <4>2 DEF RecordUsage, BillsOK
      <4>3. QED
        BY <4>1, <4>2
    <3>3. QED
      BY <1>0, <2>4, <3>1, <3>2 DEF RecordUsage, BillsOK
  <2>5. QED
    BY <1>2, <2>3, <2>4
<1>3. UNCHANGED billingVars \/ \E l \in Loops : OpenPeriod(l) \/ RecordUsage(l)
  BY DEF Next, vars, Publish, Flush, Start, Stop, Exit, LoopStep, Subscribe, Read, ReadLost,
     Recover, Ack, AckFails, ResolveMode, FindPeriod, OpenCollides, MeteringFails, Deliver, Attempt
<1>4. published \subseteq published'
  BY DEF Next, vars, busVars, Publish, Flush, Start, Stop, Exit, LoopStep, Subscribe, Read,
     ReadLost, Recover, Ack, AckFails, ResolveMode, FindPeriod, OpenPeriod, OpenCollides,
     RecordUsage, MeteringFails, Deliver, Attempt
<1>5. QED
  BY <1>1, <1>2, <1>3, <1>4

(* ... and the webhooks.                                                   *)
LEMMA HooksStep ==
  ASSUME TypeInv, [Next]_vars
  PROVE  HooksOK'
<1>0. HooksOK /\ MaxAttempts \in Nat \ {0}
  BY DeliveryAssumption DEF TypeInv
<1>1. ASSUME UNCHANGED hookVars, published \subseteq published'
      PROVE  HooksOK'
  <2>1. SUBSET [event : published, attempt : 1 .. MaxAttempts]
          \subseteq SUBSET [event : published', attempt : 1 .. MaxAttempts]
    BY <1>1
  <2>2. QED
    BY <1>0, <1>1, <2>1 DEF HooksOK, hookVars
<1>2. ASSUME NEW p \in Procs, Exit(p)
      PROVE  HooksOK'
  BY <1>0, <1>2 DEF Exit, HooksOK, busVars
<1>3. ASSUME NEW l \in Loops, Deliver(l)
      PROVE  HooksOK'
  <2>1. published' = published /\ l[1] \in Procs
    BY <1>3 DEF Deliver, busVars, Loops
  <2>2. Entry(l) \in published
    BY <1>3, EntryOf DEF Deliver, At
  <2>3. [event |-> Entry(l), attempt |-> 1] \in [event : published, attempt : 1 .. MaxAttempts]
    BY <1>0, <2>2
  <2>4. QED
    BY <1>0, <1>3, <2>1, <2>3 DEF Deliver, HooksOK
<1>4. ASSUME NEW p \in Procs, NEW d \in deliveries[p], NEW ok \in BOOLEAN, Attempt(p, d, ok)
      PROVE  HooksOK'
  <2>1. published' = published
    BY <1>4 DEF Attempt, busVars
  <2>2. d \in [event : published, attempt : 1 .. MaxAttempts] /\ d.event \in Events
    BY <1>0 DEF HooksOK, TypeInv, BusOK
  <2>3. Retries(d, ok) => [d EXCEPT !.attempt = @ + 1]
                            \in [event : published, attempt : 1 .. MaxAttempts]
    BY <1>0, <2>2 DEF Retries
  <2>4. Append(posts[d.event], ok) \in Seq(BOOLEAN)
    BY <1>0, <2>2, AppendProperties DEF HooksOK
  <2>5. posts' \in [Events -> Seq(BOOLEAN)]
    BY <1>0, <1>4, <2>4 DEF Attempt, HooksOK
  <2>6. deliveries' \in [Procs -> SUBSET [event : published, attempt : 1 .. MaxAttempts]]
    BY <1>0, <1>4, <2>3 DEF Attempt, HooksOK
  <2>7. QED
    BY <2>1, <2>5, <2>6 DEF HooksOK
<1>5. \/ UNCHANGED hookVars
      \/ \E p \in Procs : Exit(p)
      \/ \E l \in Loops : Deliver(l)
      \/ \E p \in Procs : \E d \in deliveries[p], ok \in BOOLEAN : Attempt(p, d, ok)
  BY DEF Next, vars, Publish, Flush, Start, Stop, LoopStep, Subscribe, Read, ReadLost,
     Recover, Ack, AckFails, ResolveMode, FindPeriod, OpenPeriod, OpenCollides, RecordUsage,
     MeteringFails
<1>6. published \subseteq published'
  BY DEF Next, vars, busVars, Publish, Flush, Start, Stop, Exit, LoopStep, Subscribe, Read,
     ReadLost, Recover, Ack, AckFails, ResolveMode, FindPeriod, OpenPeriod, OpenCollides,
     RecordUsage, MeteringFails, Deliver, Attempt
<1>7. QED
  BY <1>1, <1>2, <1>3, <1>4, <1>5, <1>6

LEMMA TypeInvInit == Init => TypeInv
<1> SUFFICES ASSUME Init PROVE TypeInv
  OBVIOUS
<1>1. <<>> \in Seq(published) /\ <<>> \in Seq(Events) /\ <<>> \in Seq(BOOLEAN)
  BY EmptySeq
<1>2. Off \in LoopType /\ Off.batch = <<>> /\ Off.pc = "off" /\ BatchOK(Off)
  BY <1>1 DEF Off, LoopType, Pcs, BatchOK
<1>3. LoopsOK /\ RunsOK
  BY <1>2 DEF Init, LoopsOK, RunsOK
<1>4. Len(stream) \in Nat /\ BusOK
  BY EmptySeq DEF Init, BusOK
<1>5. BillsOK
  BY DEF Init, BillsOK
<1>6. HooksOK
  <2>1. deliveries \in [Procs -> SUBSET [event : published, attempt : 1 .. MaxAttempts]]
    BY DEF Init
  <2>2. posts \in [Events -> Seq(BOOLEAN)]
    BY <1>1 DEF Init
  <2>3. QED
    BY <2>1, <2>2 DEF HooksOK
<1>7. QED
  BY <1>3, <1>4, <1>5, <1>6 DEF TypeInv

LEMMA TypeInvCorrect == Spec => []TypeInv
<1>1. TypeInv /\ [Next]_vars => TypeInv'
  BY LoopsStep, BusTyped, RunsStep, BillsStep, HooksStep DEF TypeInv
<1>2. QED
  BY <1>1, TypeInvInit, PTL DEF Spec

(* The bus, the read loops, the usage rows and the webhooks always have    *)
(* their types: a batch is empty exactly when its loop has nothing to      *)
(* handle, and a cursor never runs ahead of its stream.                    *)
THEOREM DeliveryTypeCorrect == Spec => []DeliveryTypeOK
<1>1. TypeInv => DeliveryTypeOK
  <2> SUFFICES ASSUME TypeInv PROVE DeliveryTypeOK
    OBVIOUS
  <2>1. groups \subseteq Groups /\ Len(stream) \in Nat
    BY DeliveryAssumption, LenProperties DEF TypeInv, BusOK
  <2>2. \A g \in groups : cursor[g] \in 0 .. Len(stream)
    BY <2>1 DEF TypeInv, BusOK
  <2>3. \A l \in Loops : /\ loop[l].pc \in Pcs
                         /\ loop[l].batch \in Seq(published)
                         /\ loop[l].batch = <<>> <=> loop[l].pc \in {"off", "read"}
    BY DEF TypeInv, LoopsOK, BatchOK, LoopType
  <2>4. QED
    BY <2>2, <2>3 DEF TypeInv, BusOK, BillsOK, HooksOK, DeliveryTypeOK
<1>2. QED
  BY <1>1, TypeInvCorrect, PTL

-----------------------------------------------------------------------------
(* An entry is delivered to a group once: no stream and no batch holds it  *)
(* twice, no two batches of a group share it, and what is in a batch is    *)
(* not ahead of the group's cursor.                                        *)
Distinct(s) == \A i, j \in 1 .. Len(s) : s[i] = s[j] => i = j
Elems(s)    == {s[i] : i \in 1 .. Len(s)}
Rest(s)     == {s[i] : i \in 2 .. Len(s)}

Ahead(g)     == {stream[k] : k \in cursor[g] + 1 .. Len(stream)}
InBatch(l)   == Elems(loop[l].batch)
Unhandled(l) == IF At(l, "ack") THEN Rest(loop[l].batch) ELSE InBatch(l)

OnceInv ==
    /\ Distinct(stream)
    /\ \A l \in Loops :
         /\ Distinct(loop[l].batch)
         /\ InBatch(l) \cap Ahead(l[2]) = {}
    /\ \A l, m \in Loops :
         l # m /\ l[2] = m[2] => InBatch(l) \cap InBatch(m) = {}

(* What a group has yet to handle.                                         *)
Unseen(g) ==
    (Events \ published) \cup Ahead(g)
      \cup UNION {Unhandled(l) : l \in {m \in Loops : m[2] = g}}

LEMMA ElemsOf ==
  ASSUME NEW S, NEW s \in Seq(S)
  PROVE  /\ Elems(s) \subseteq S
         /\ Rest(s) \subseteq Elems(s)
         /\ s = <<>> => Elems(s) = {}
         /\ s # <<>> => Elems(Tail(s)) = Rest(s) /\ s[1] \in Elems(s)
         /\ s # <<>> /\ Distinct(s) => Distinct(Tail(s)) /\ s[1] \notin Rest(s)
<1>1. Len(s) \in Nat /\ \A i \in 1 .. Len(s) : s[i] \in S
  BY LenProperties, ElementOfSeq
<1>2. s = <<>> => Len(s) = 0
  BY EmptySeq
<1>3. ASSUME s # <<>>
      PROVE  /\ Len(Tail(s)) = Len(s) - 1 /\ Len(s) > 0
             /\ \A i \in 1 .. Len(Tail(s)) : Tail(s)[i] = s[i + 1]
  BY <1>3, <1>1, TailOf
<1>4. ASSUME s # <<>>
      PROVE  Elems(Tail(s)) = Rest(s)
  <2>1. Elems(Tail(s)) \subseteq Rest(s)
    BY <1>1, <1>3, <1>4 DEF Elems, Rest
  <2>2. ASSUME NEW i \in 2 .. Len(s)
        PROVE  s[i] \in Elems(Tail(s))
    <3>1. i - 1 \in 1 .. Len(Tail(s)) /\ Tail(s)[i - 1] = s[i]
      BY <1>1, <1>3, <1>4
    <3>2. QED
      BY <3>1 DEF Elems
  <2>3. QED
    BY <2>1, <2>2 DEF Rest
<1>5. ASSUME s # <<>>, Distinct(s)
      PROVE  Distinct(Tail(s)) /\ s[1] \notin Rest(s)
  <2>1. s[1] \notin Rest(s)
    BY <1>1, <1>3, <1>5 DEF Distinct, Rest
  <2>2. ASSUME NEW i \in 1 .. Len(Tail(s)), NEW j \in 1 .. Len(Tail(s)), Tail(s)[i] = Tail(s)[j]
        PROVE  i = j
    <3>1. i + 1 \in 1 .. Len(s) /\ j + 1 \in 1 .. Len(s) /\ s[i + 1] = s[j + 1]
      BY <1>1, <1>3, <1>5, <2>2
    <3>2. QED
      BY <1>5, <3>1 DEF Distinct
  <2>3. QED
    BY <2>1, <2>2 DEF Distinct
<1>6. /\ Elems(s) \subseteq S
      /\ Rest(s) \subseteq Elems(s)
      /\ s = <<>> => Elems(s) = {}
  BY <1>1, <1>2 DEF Elems, Rest
<1>7. s # <<>> => s[1] \in Elems(s)
  BY <1>1, <1>3 DEF Elems
<1>8. QED
  BY <1>4, <1>5, <1>6, <1>7

LEMMA EntryUnhandled ==
  ASSUME TypeInv, NEW l \in Loops, loop[l].pc \notin {"off", "read", "ack"}
  PROVE  Entry(l) \in Unhandled(l) /\ Entry(l) \in Unseen(l[2])
<1>1. Entry(l) = loop[l].batch[1] /\ loop[l].batch \in Seq(published) /\ loop[l].batch # <<>>
  BY EntryOf
<1>2. Entry(l) \in Unhandled(l)
  BY <1>1, ElemsOf DEF Unhandled, InBatch, At
<1>3. QED
  BY <1>2 DEF Unseen

LEMMA NextEntryOf ==
  ASSUME TypeInv, NEW l \in Loops, At(l, "ack"), NextEntry(l)
  PROVE  /\ loop'[l].batch = Tail(loop[l].batch)
         /\ InBatch(l)' = Rest(loop[l].batch)
         /\ ~At(l, "ack")'
         /\ \A m \in Loops : m # l => loop'[m] = loop[m]
<1>1. loop[l].batch \in Seq(published) /\ loop[l].batch # <<>>
  BY EntryOf DEF At
<1>2. /\ loop'[l].batch = Tail(loop[l].batch)
      /\ loop'[l].pc \in {"handle", "off", "read"}
      /\ \A m \in Loops : m # l => loop'[m] = loop[m]
  BY DEF NextEntry, Resume, TypeInv, LoopsOK
<1>3. QED
  BY <1>1, <1>2, ElemsOf DEF InBatch, At

LEMMA GotoOf ==
  ASSUME TypeInv, NEW l \in Loops, NEW pc, Goto(l, pc)
  PROVE  /\ loop'[l].batch = loop[l].batch /\ loop'[l].pc = pc
         /\ InBatch(l)' = InBatch(l)
         /\ \A m \in Loops : m # l => loop'[m] = loop[m]
<1>1. loop[l] \in LoopType
  BY DEF TypeInv, LoopsOK
<1>2. /\ loop'[l].batch = loop[l].batch /\ loop'[l].pc = pc
      /\ \A m \in Loops : m # l => loop'[m] = loop[m]
  BY <1>1 DEF Goto, TypeInv, LoopsOK, LoopType
<1>3. QED
  BY <1>2 DEF InBatch

(* A cursor that moves leaves less ahead of it.                            *)
LEMMA AheadShrinks ==
  ASSUME TypeInv, NEW g \in Groups, UNCHANGED stream, cursor'[g] \in Nat,
         cursor[g] <= cursor'[g]
  PROVE  Ahead(g)' \subseteq Ahead(g)
<1>1. cursor[g] \in Nat /\ Len(stream) \in Nat
  BY LenProperties DEF TypeInv, BusOK
<1>2. QED
  BY <1>1 DEF Ahead

LEMMA EnsureMoves ==
  ASSUME TypeInv, NEW g \in Groups, EnsureGroup(g) \/ UNCHANGED <<groups, cursor>>,
         UNCHANGED stream, NEW h \in Groups
  PROVE  Ahead(h)' \subseteq Ahead(h)
<1>1. Len(stream) \in Nat /\ cursor \in [Groups -> Nat] /\ cursor[h] <= Len(stream)
  BY LenProperties DEF TypeInv, BusOK
<1>2. cursor'[h] \in {cursor[h], Len(stream)}
  BY <1>1 DEF EnsureGroup
<1>3. QED
  BY <1>1, <1>2, AheadShrinks

LEMMA ReadMoves ==
  ASSUME TypeInv, OnceInv, NEW g \in Groups, ReadEntries(g, FreshEntries(g)),
         UNCHANGED stream
  PROVE  /\ \A h \in Groups : Ahead(h)' \subseteq Ahead(h)
         /\ Distinct(FreshEntries(g))
         /\ Elems(FreshEntries(g)) \subseteq Ahead(g)
         /\ Elems(FreshEntries(g)) \cap Ahead(g)' = {}
<1>1. /\ BusOK /\ Len(stream) \in Nat /\ cursor \in [Groups -> Nat]
      /\ Distinct(stream)
  BY LenProperties DEF TypeInv, BusOK, OnceInv
<1>2. /\ Reached(g) \in Nat /\ cursor[g] <= Reached(g) /\ Reached(g) <= Len(stream)
      /\ Len(FreshEntries(g)) = Reached(g) - cursor[g]
      /\ \A i \in 1 .. Len(FreshEntries(g)) : FreshEntries(g)[i] = stream[cursor[g] + i]
  BY <1>1, FreshOf
<1>3. cursor' = [cursor EXCEPT ![g] = Reached(g)]
  BY DEF ReadEntries, Reached
<1>4. ASSUME NEW h \in Groups
      PROVE  Ahead(h)' \subseteq Ahead(h)
  BY <1>1, <1>2, <1>3, AheadShrinks
<1>5. Distinct(FreshEntries(g))
  BY <1>1, <1>2 DEF Distinct
<1>6. Elems(FreshEntries(g)) \subseteq Ahead(g)
  BY <1>1, <1>2 DEF Elems, Ahead
<1>7. ASSUME NEW i \in 1 .. Len(FreshEntries(g)), NEW k \in Reached(g) + 1 .. Len(stream)
      PROVE  FreshEntries(g)[i] # stream[k]
  BY <1>1, <1>2 DEF Distinct
<1>8. Ahead(g)' = {stream[k] : k \in Reached(g) + 1 .. Len(stream)}
  BY <1>1, <1>3 DEF Ahead
<1>9. QED
  BY <1>4, <1>5, <1>6, <1>7, <1>8 DEF Elems

(* A loop that takes no new batch only drops entries from the one it has,  *)
(* and a group's cursor never turns back.                                  *)
Drops(l) ==
    /\ InBatch(l)' \subseteq InBatch(l)
    /\ Unhandled(l)' \subseteq Unhandled(l)
    /\ Distinct(loop'[l].batch)

LEMMA SameDrops ==
  ASSUME OnceInv, NEW l \in Loops, loop'[l] = loop[l]
  PROVE  Drops(l)
BY DEF Drops, InBatch, Unhandled, At, OnceInv

LEMMA EmptyDrops ==
  ASSUME NEW l \in Loops, loop'[l].batch = <<>>
  PROVE  Drops(l)
<1>1. Len(loop'[l].batch) = 0
  BY EmptySeq
<1>2. InBatch(l)' = {} /\ Unhandled(l)' = {}
  BY <1>1 DEF InBatch, Unhandled, Elems, Rest
<1>3. QED
  BY <1>1, <1>2 DEF Drops, Distinct

LEMMA GotoDrops ==
  ASSUME TypeInv, OnceInv, NEW l \in Loops, NEW pc, Goto(l, pc), ~At(l, "ack")
  PROVE  \A m \in Loops : Drops(m)
<1>1. loop'[l].batch = loop[l].batch
  BY GotoOf
<1>2. InBatch(l)' = InBatch(l) /\ Distinct(loop'[l].batch)
  BY <1>1 DEF InBatch, OnceInv
<1>3. Rest(loop[l].batch) \subseteq InBatch(l)
  BY ElemsOf DEF TypeInv, LoopsOK, BatchOK, InBatch
<1>4. Unhandled(l)' \subseteq Unhandled(l)
  BY <1>1, <1>2, <1>3 DEF Unhandled
<1>5. QED
  BY <1>2, <1>4, GotoOf, SameDrops DEF Drops

LEMMA LoopCalm ==
  ASSUME TypeInv, OnceInv, NEW l \in Loops, LoopStep(l), ~Read(l)
  PROVE  /\ UNCHANGED <<published, stream>>
         /\ \A g \in Groups : Ahead(g)' \subseteq Ahead(g)
         /\ \A m \in Loops : Drops(m)
<1>0. l[2] \in Groups
  BY DEF Loops
<1>1. UNCHANGED <<published, stream>>
  BY DEF LoopStep, Subscribe, Read, ReadLost, Recover, Ack, AckFails, ResolveMode,
     FindPeriod, OpenPeriod, OpenCollides, RecordUsage, MeteringFails, Deliver, busVars
<1>2. ASSUME UNCHANGED cursor
      PROVE  \A g \in Groups : Ahead(g)' \subseteq Ahead(g)
  BY <1>1, <1>2 DEF Ahead
<1>3. CASE Subscribe(l)
  BY <1>0, <1>1, <1>3, EnsureMoves, GotoDrops DEF Subscribe, At
<1>4. CASE ReadLost(l)
  BY <1>0, <1>1, <1>4, ReadMoves, GotoDrops DEF ReadLost, At
<1>5. CASE Recover(l)
  BY <1>0, <1>1, <1>5, EnsureMoves, SameDrops DEF Recover
<1>6. CASE Ack(l) \/ AckFails(l)
  <2>1. At(l, "ack") /\ NextEntry(l) /\ UNCHANGED cursor
    BY <1>6 DEF Ack, AckFails, busVars
  <2>2. loop[l].batch \in Seq(published) /\ loop[l].batch # <<>>
    BY <2>1, EntryOf DEF At
  <2>3. /\ loop'[l].batch = Tail(loop[l].batch)
        /\ InBatch(l)' = Rest(loop[l].batch)
        /\ ~At(l, "ack")'
        /\ \A m \in Loops : m # l => loop'[m] = loop[m]
    BY <2>1, NextEntryOf
  <2>4. /\ Rest(loop[l].batch) \subseteq InBatch(l)
        /\ Distinct(loop'[l].batch)
    BY <2>2, <2>3, ElemsOf DEF InBatch, OnceInv
  <2>5. Drops(l)
    BY <2>1, <2>3, <2>4 DEF Drops, Unhandled
  <2>6. QED
    BY <1>1, <1>2, <2>1, <2>3, <2>5, SameDrops
<1>7. CASE ResolveMode(l)
  <2>1. loop[l] \in LoopType
    BY DEF TypeInv, LoopsOK
  <2>2. /\ loop'[l].batch = loop[l].batch /\ loop'[l].pc = "period" /\ loop[l].pc = "handle"
        /\ \A m \in Loops : m # l => loop'[m] = loop[m]
        /\ UNCHANGED cursor
    BY <1>7, <2>1 DEF ResolveMode, At, TypeInv, LoopsOK, LoopType, busVars
  <2>3. Drops(l)
    BY <2>2 DEF Drops, InBatch, Unhandled, At, OnceInv
  <2>4. QED
    BY <1>1, <1>2, <2>2, <2>3, SameDrops
<1>8. CASE \/ FindPeriod(l) \/ OpenPeriod(l) \/ OpenCollides(l) \/ RecordUsage(l)
           \/ MeteringFails(l) \/ Deliver(l)
  BY <1>1, <1>2, <1>8, GotoDrops DEF FindPeriod, OpenPeriod, OpenCollides, RecordUsage,
     MeteringFails, Deliver, At, busVars
<1>9. QED
  BY <1>3, <1>4, <1>5, <1>6, <1>7, <1>8 DEF LoopStep

LEMMA ReadTakes ==
  ASSUME TypeInv, OnceInv, NEW l \in Loops, Read(l)
  PROVE  /\ UNCHANGED <<published, stream>>
         /\ \A g \in Groups : Ahead(g)' \subseteq Ahead(g)
         /\ \A m \in Loops : m # l => loop'[m] = loop[m]
         /\ Distinct(loop'[l].batch)
         /\ InBatch(l)' = Unhandled(l)'
         /\ InBatch(l)' \subseteq Ahead(l[2])
         /\ InBatch(l)' \cap Ahead(l[2])' = {}
<1>1. l[2] \in Groups
  BY DEF Loops
<1>2. /\ loop'[l].batch = FreshEntries(l[2]) /\ loop'[l].pc = "handle"
      /\ \A m \in Loops : m # l => loop'[m] = loop[m]
  BY DEF Read, TypeInv, LoopsOK
<1>3. UNCHANGED <<published, stream>> /\ ReadEntries(l[2], FreshEntries(l[2]))
  BY DEF Read
<1>4. QED
  BY <1>1, <1>2, <1>3, ReadMoves DEF InBatch, Unhandled, At

(* What each step does to the stream and to the batches.                   *)
LEMMA Steps ==
  ASSUME TypeInv, OnceInv, [Next]_vars
  PROVE  /\ published \subseteq published'
         /\ Distinct(stream')
         /\ \A g \in Groups : Ahead(g)' \subseteq Ahead(g) \cup (Events \ published)
         /\ (\A m \in Loops : Drops(m)) \/ (\E l \in Loops : Read(l))
<1>0. Distinct(stream) /\ stream \in Seq(published) /\ cursor \in [Groups -> Nat]
  BY DEF OnceInv, TypeInv, BusOK
<1>1. ASSUME UNCHANGED <<published, stream, cursor, loop>>
      PROVE  /\ Distinct(stream')
             /\ \A g \in Groups : Ahead(g)' \subseteq Ahead(g)
             /\ \A m \in Loops : Drops(m)
  BY <1>0, <1>1, SameDrops DEF Ahead
<1>2. ASSUME NEW e \in Events, Publish(e)
      PROVE  /\ published \subseteq published'
             /\ Distinct(stream')
             /\ \A g \in Groups : Ahead(g)' \subseteq Ahead(g) \cup (Events \ published)
             /\ \A m \in Loops : Drops(m)
  <2>1. /\ e \notin published /\ stream' = Append(stream, e)
        /\ UNCHANGED <<cursor, loop>> /\ published \subseteq published'
    BY <1>2 DEF Publish
  <2>2. /\ Len(stream) \in Nat /\ Len(stream') = Len(stream) + 1
        /\ \A i \in 1 .. Len(stream) : stream'[i] = stream[i] /\ stream[i] \in published
        /\ stream'[Len(stream) + 1] = e
    BY <1>0, <2>1, AppendProperties, LenProperties, ElementOfSeq, Widens
  <2>3. Distinct(stream')
    BY <1>0, <2>1, <2>2 DEF Distinct
  <2>4. ASSUME NEW g \in Groups, NEW k \in cursor[g] + 1 .. Len(stream')
        PROVE  stream'[k] \in Ahead(g) \cup (Events \ published)
    BY <1>0, <2>1, <2>2 DEF Ahead
  <2>5. ASSUME NEW g \in Groups
        PROVE  Ahead(g)' \subseteq Ahead(g) \cup (Events \ published)
    <3>1. Ahead(g)' = {stream'[k] : k \in cursor[g] + 1 .. Len(stream')}
      BY <2>1 DEF Ahead
    <3>2. QED
      BY <2>4, <3>1
  <2>6. QED
    BY <2>1, <2>3, <2>5, SameDrops
<1>3. ASSUME Flush
      PROVE  /\ UNCHANGED published
             /\ Distinct(stream')
             /\ \A g \in Groups : Ahead(g)' = {}
             /\ \A m \in Loops : Drops(m)
  <2>1. UNCHANGED <<published, loop>> /\ Len(stream') = 0 /\ \A g \in Groups : cursor'[g] = 0
    BY <1>3, EmptySeq DEF Flush
  <2>2. QED
    BY <2>1, SameDrops DEF Ahead, Distinct
<1>4. ASSUME NEW p \in Procs, Exit(p)
      PROVE  UNCHANGED <<published, stream, cursor>> /\ \A m \in Loops : Drops(m)
  <2>1. /\ UNCHANGED <<published, stream, cursor>>
        /\ \A m \in Loops : loop'[m] = loop[m] \/ loop'[m].batch = <<>>
    BY <1>4 DEF Exit, busVars, Off
  <2>2. QED
    BY <2>1, SameDrops, EmptyDrops
<1>5. ASSUME NEW p \in Procs, Start(p) \/ Stop(p)
      PROVE  UNCHANGED <<published, stream, cursor, loop>>
  BY <1>5 DEF Start, Stop, busVars
<1>6. ASSUME NEW p \in Procs, NEW d \in deliveries[p], NEW ok \in BOOLEAN, Attempt(p, d, ok)
      PROVE  UNCHANGED <<published, stream, cursor, loop>>
  BY <1>6 DEF Attempt, busVars
<1>7. UNCHANGED vars => UNCHANGED <<published, stream, cursor, loop>>
  BY DEF vars, busVars
<1>8. CASE \E l \in Loops : LoopStep(l)
  BY <1>0, <1>8, LoopCalm, ReadTakes
<1>9. CASE UNCHANGED <<published, stream, cursor, loop>>
  BY <1>1, <1>9
<1>10. CASE \E p \in Procs : Exit(p)
  BY <1>0, <1>4, <1>10 DEF Ahead
<1>11. CASE \E e \in Events : Publish(e)
  BY <1>2, <1>11
<1>12. CASE Flush
  BY <1>3, <1>12
<1>13. QED
  BY <1>5, <1>6, <1>7, <1>8, <1>9, <1>10, <1>11, <1>12 DEF Next

LEMMA OnceStep ==
  ASSUME TypeInv, OnceInv, [Next]_vars
  PROVE  OnceInv'
<1>1. /\ Distinct(stream')
      /\ \A g \in Groups : Ahead(g)' \subseteq Ahead(g) \cup (Events \ published)
      /\ (\A m \in Loops : Drops(m)) \/ (\E l \in Loops : Read(l))
  BY Steps
<1>2. ASSUME NEW m \in Loops
      PROVE  /\ InBatch(m) \subseteq published /\ m[2] \in Groups
             /\ InBatch(m) \cap Ahead(m[2]) = {}
  <2>1. InBatch(m) \subseteq published
    BY ElemsOf DEF TypeInv, LoopsOK, BatchOK, InBatch
  <2>2. m[2] \in Groups
    BY DEF Loops
  <2>3. QED
    BY <2>1, <2>2 DEF OnceInv
<1>3. CASE \A m \in Loops : Drops(m)
  <2>1. \A m \in Loops : Distinct(loop'[m].batch) /\ InBatch(m)' \subseteq InBatch(m)
    BY <1>3 DEF Drops
  <2>2. \A m \in Loops : InBatch(m)' \cap Ahead(m[2])' = {}
    BY <1>1, <1>2, <2>1
  <2>3. \A l, m \in Loops : l # m /\ l[2] = m[2] => InBatch(l)' \cap InBatch(m)' = {}
    BY <2>1 DEF OnceInv
  <2>4. QED
    BY <1>1, <2>1, <2>2, <2>3 DEF OnceInv
<1>4. ASSUME NEW l \in Loops, Read(l)
      PROVE  OnceInv'
  <2>1. /\ \A g \in Groups : Ahead(g)' \subseteq Ahead(g)
        /\ \A m \in Loops : m # l => loop'[m] = loop[m]
        /\ Distinct(loop'[l].batch)
        /\ InBatch(l)' \subseteq Ahead(l[2])
        /\ InBatch(l)' \cap Ahead(l[2])' = {}
    BY <1>4, ReadTakes
  <2>2. \A m \in Loops : m # l => InBatch(m)' = InBatch(m) /\ Distinct(loop'[m].batch)
    BY <2>1 DEF InBatch, OnceInv
  <2>3. \A m \in Loops : InBatch(m)' \cap Ahead(m[2])' = {}
    BY <1>2, <2>1, <2>2
  <2>4. \A m \in Loops : m # l /\ m[2] = l[2] => InBatch(l)' \cap InBatch(m)' = {}
    BY <1>2, <2>1, <2>2
  <2>5. \A m, n \in Loops : m # n /\ m[2] = n[2] => InBatch(m)' \cap InBatch(n)' = {}
    BY <2>2, <2>4 DEF OnceInv
  <2>6. QED
    BY <1>1, <2>1, <2>2, <2>3, <2>5 DEF OnceInv
<1>5. QED
  BY <1>1, <1>3, <1>4

(* Nothing a group is done with comes back to it.                          *)
LEMMA Seen ==
  ASSUME TypeInv, OnceInv, [Next]_vars, NEW g \in Groups
  PROVE  Unseen(g)' \subseteq Unseen(g)
<1>1. /\ published \subseteq published'
      /\ Ahead(g)' \subseteq Ahead(g) \cup (Events \ published)
      /\ (\A m \in Loops : Drops(m)) \/ (\E l \in Loops : Read(l))
  BY Steps
<1>2. ASSUME NEW m \in Loops, m[2] = g
      PROVE  Unhandled(m)' \subseteq Unhandled(m) \cup Ahead(g)
  <2>1. CASE \A l \in Loops : Drops(l)
    BY <2>1 DEF Drops
  <2>2. ASSUME NEW l \in Loops, Read(l)
        PROVE  Unhandled(m)' \subseteq Unhandled(m) \cup Ahead(g)
    BY <1>2, <2>2, ReadTakes DEF Unhandled, InBatch, At
  <2>3. QED
    BY <1>1, <2>1, <2>2
<1>3. QED
  BY <1>1, <1>2 DEF Unseen

(* An entry whose handler is done with is seen: no other loop of the group *)
(* holds it and it is behind the cursor.                                   *)
LEMMA HandledLeaves ==
  ASSUME TypeInv, OnceInv, NEW l \in Loops, loop[l].pc \notin {"off", "read", "ack"},
         Goto(l, "ack"), UNCHANGED <<published, stream, cursor>>
  PROVE  /\ Entry(l) \notin Unseen(l[2])'
         /\ Entry(l)' = Entry(l)
<1>1. /\ loop'[l].batch = loop[l].batch /\ At(l, "ack")'
      /\ \A m \in Loops : m # l => loop'[m] = loop[m]
  BY GotoOf DEF At
<1>2. /\ Entry(l) = loop[l].batch[1] /\ Entry(l) \in published
      /\ loop[l].batch \in Seq(published) /\ loop[l].batch # <<>>
  BY EntryOf
<1>3. Entry(l) \in InBatch(l) /\ Entry(l) \notin Rest(loop[l].batch)
  BY <1>2, ElemsOf DEF InBatch, OnceInv
<1>4. Entry(l) \notin Ahead(l[2])'
  BY <1>3 DEF OnceInv, Ahead
<1>5. Entry(l) \notin Unhandled(l)'
  BY <1>1, <1>3 DEF Unhandled
<1>6. ASSUME NEW m \in Loops, m # l, m[2] = l[2]
      PROVE  Entry(l) \notin Unhandled(m)'
  <2>1. Unhandled(m)' \subseteq InBatch(m)
    BY <1>1, <1>6, ElemsOf DEF Unhandled, InBatch, At, TypeInv, LoopsOK, BatchOK
  <2>2. QED
    BY <1>3, <1>6, <2>1 DEF OnceInv
<1>7. QED
  BY <1>1, <1>2, <1>4, <1>5, <1>6 DEF Unseen, Entry

-----------------------------------------------------------------------------
(* Billing: an event that metering has yet to see has no usage row, and a  *)
(* loop remembers "live" only of a session that was.                       *)
Billing(l) ==
    loop[l].pc \in {"period", "open", "record"} =>
      l[2] = "metering" /\ (loop[l].live => Entry(l) \in Live)

MeterInv ==
    /\ NeverOvercharged
    /\ \A e \in Unseen("metering") : metered[e] = 0
    /\ \A l \in Loops : Billing(l)

LEMMA BillingStep ==
  ASSUME TypeInv, MeterInv, [Next]_vars
  PROVE  \A l \in Loops : Billing(l)'
<1>1. ASSUME NEW m \in Loops, loop'[m] = loop[m] \/ loop'[m].pc \in {"off", "read", "handle", "ack"}
      PROVE  Billing(m)'
  BY <1>1 DEF Billing, MeterInv, Entry
<1>2. ASSUME NEW l \in Loops, NEW pc, Goto(l, pc), loop[l].pc \in {"period", "open", "record"}
      PROVE  \A m \in Loops : Billing(m)'
  <2>1. loop[l] \in LoopType
    BY DEF TypeInv, LoopsOK
  <2>2. /\ loop'[l].batch = loop[l].batch /\ loop'[l].live = loop[l].live
        /\ \A m \in Loops : m # l => loop'[m] = loop[m]
    BY <1>2, <2>1 DEF Goto, TypeInv, LoopsOK, LoopType
  <2>3. Billing(l)'
    BY <1>2, <2>2 DEF MeterInv, Billing, Entry
  <2>4. QED
    BY <1>1, <2>2, <2>3
<1>3. ASSUME NEW l \in Loops, LoopStep(l)
      PROVE  \A m \in Loops : Billing(m)'
  <2>1. CASE Subscribe(l) \/ Deliver(l) \/ MeteringFails(l) \/ OpenCollides(l) \/ RecordUsage(l)
             \/ ReadLost(l)
    <3>1. \E pc \in {"read", "ack", "off"} : Goto(l, pc)
      BY <2>1 DEF Subscribe, Deliver, MeteringFails, OpenCollides, RecordUsage, ReadLost, Resume
    <3>2. QED
      BY <1>1, <3>1, GotoOf
  <2>2. CASE Read(l) \/ Ack(l) \/ AckFails(l) \/ Recover(l)
    <3>1. \A m \in Loops : loop'[m] = loop[m] \/ loop'[m].pc \in {"off", "read", "handle"}
      BY <2>2 DEF Read, Ack, AckFails, Recover, NextEntry, Resume, TypeInv, LoopsOK
    <3>2. QED
      BY <1>1, <3>1
  <2>3. CASE FindPeriod(l) \/ OpenPeriod(l)
    BY <1>2, <2>3 DEF FindPeriod, OpenPeriod, At
  <2>4. CASE ResolveMode(l)
    <3>1. PICK live \in Modes(Entry(l)) :
            loop' = [loop EXCEPT ![l].pc = "period", ![l].live = live]
      BY <2>4 DEF ResolveMode
    <3>2. live => Entry(l) \in Live
      BY <3>1 DEF Modes
    <3>3. loop[l] \in LoopType
      BY DEF TypeInv, LoopsOK
    <3>4. /\ loop'[l].batch = loop[l].batch /\ loop'[l].live = live
          /\ \A m \in Loops : m # l => loop'[m] = loop[m]
      BY <3>1, <3>3 DEF TypeInv, LoopsOK, LoopType
    <3>5. Billing(l)'
      BY <2>4, <3>2, <3>4 DEF Billing, Entry, ResolveMode
    <3>6. QED
      BY <1>1, <3>4, <3>5
  <2>5. QED
    BY <1>3, <2>1, <2>2, <2>3, <2>4 DEF LoopStep
<1>4. ASSUME NEW p \in Procs, Exit(p)
      PROVE  \A m \in Loops : Billing(m)'
  <2>1. \A m \in Loops : loop'[m] = loop[m] \/ loop'[m].pc = "off"
    BY <1>4 DEF Exit, Off
  <2>2. QED
    BY <1>1, <2>1
<1>5. UNCHANGED loop \/ (\E p \in Procs : Exit(p)) \/ (\E l \in Loops : LoopStep(l))
  BY DEF Next, vars, Publish, Flush, Start, Stop, Attempt
<1>6. QED
  BY <1>1, <1>3, <1>4, <1>5

LEMMA MeterStep ==
  ASSUME TypeInv, OnceInv, MeterInv, [Next]_vars
  PROVE  MeterInv'
<1>1. \A l \in Loops : Billing(l)'
  BY BillingStep
<1>2. Unseen("metering")' \subseteq Unseen("metering")
  BY Seen DEF Groups
<1>3. CASE UNCHANGED <<metered, billed>>
  BY <1>1, <1>2, <1>3 DEF MeterInv, NeverOvercharged
<1>4. ASSUME NEW l \in Loops, RecordUsage(l)
      PROVE  MeterInv'
  <2>1. /\ l[2] = "metering"
        /\ loop[l].live => Entry(l) \in Live
        /\ Goto(l, "ack") /\ UNCHANGED <<published, stream, cursor>>
        /\ loop[l].pc \notin {"off", "read", "ack"}
    BY <1>4 DEF MeterInv, Billing, RecordUsage, At, busVars
  <2>2. Entry(l) \in Events /\ metered \in [Events -> Nat]
    BY <2>1, EntryOf DEF TypeInv, BillsOK
  <2>3. metered[Entry(l)] = 0
    BY <2>1, EntryUnhandled DEF MeterInv
  <2>4. Entry(l) \notin Unseen("metering")'
    BY <2>1, HandledLeaves
  <2>5. metered' = [metered EXCEPT ![Entry(l)] = 1]
    BY <1>4, <2>2, <2>3 DEF RecordUsage
  <2>6. \A e \in Events : e \in billed' => e \in Live
    BY <1>4, <2>1 DEF RecordUsage, MeterInv, NeverOvercharged
  <2>7. \A e \in Events : metered'[e] <= 1
    BY <2>2, <2>5 DEF MeterInv, NeverOvercharged
  <2>8. \A e \in Unseen("metering")' : metered'[e] = 0
    BY <1>2, <2>2, <2>4, <2>5 DEF MeterInv
  <2>9. QED
    BY <1>1, <2>6, <2>7, <2>8 DEF MeterInv, NeverOvercharged
<1>5. UNCHANGED <<metered, billed>> \/ \E l \in Loops : RecordUsage(l)
  BY DEF Next, vars, billingVars, Publish, Flush, Start, Stop, Exit, Attempt, LoopStep,
     Subscribe, Read, ReadLost, Recover, Ack, AckFails, ResolveMode, FindPeriod, OpenPeriod,
     OpenCollides, MeteringFails, Deliver
<1>6. QED
  BY <1>3, <1>4, <1>5

LEMMA OnceInit == Init => OnceInv
<1> SUFFICES ASSUME Init PROVE OnceInv
  OBVIOUS
<1>1. /\ Len(stream) = 0
      /\ \A l \in Loops : Len(loop[l].batch) = 0
  BY EmptySeq DEF Init, Off
<1>2. \A l \in Loops : InBatch(l) = {}
  BY <1>1 DEF InBatch, Elems
<1>3. QED
  BY <1>1, <1>2 DEF OnceInv, Distinct

LEMMA UnseenInit ==
  ASSUME Init, NEW g \in Groups
  PROVE  Unseen(g) \subseteq Events
<1>1. Len(stream) = 0 /\ cursor[g] = 0
  BY EmptySeq DEF Init
<1>2. Ahead(g) = {}
  BY <1>1 DEF Ahead
<1>3. \A l \in Loops : Len(loop[l].batch) = 0 /\ ~At(l, "ack")
  BY EmptySeq DEF Init, Off, At
<1>4. \A l \in Loops : Unhandled(l) = {}
  BY <1>3 DEF Unhandled, InBatch, Elems
<1>5. QED
  BY <1>2, <1>4 DEF Unseen

(* However many processes die between reading, recording and acknowledging *)
(* an event, whatever replies are lost and whenever Redis is emptied, no   *)
(* event has two usage rows and none is billed but those of live sessions. *)
THEOREM NeverBilledTwice == Spec => []NeverOvercharged
<1>1. Init => MeterInv
  <2> SUFFICES ASSUME Init PROVE MeterInv
    OBVIOUS
  <2>1. \A e \in Unseen("metering") : metered[e] = 0
    BY UnseenInit DEF Init, Groups
  <2>2. \A l \in Loops : Billing(l)
    BY DEF Init, Off, Billing
  <2>3. NeverOvercharged
    BY DEF Init, NeverOvercharged
  <2>4. QED
    BY <2>1, <2>2, <2>3 DEF MeterInv
<1>2. TypeInv /\ OnceInv /\ MeterInv /\ [Next]_vars => OnceInv' /\ MeterInv'
  BY OnceStep, MeterStep
<1>3. MeterInv => NeverOvercharged
  BY DEF MeterInv
<1>4. QED
  BY <1>1, <1>2, <1>3, OnceInit, TypeInvCorrect, PTL DEF Spec

-----------------------------------------------------------------------------
(* Webhooks: one delivery of an event at a time, whose attempts are the    *)
(* posts that failed so far; and none before the group has the event.      *)
AllFailed(e) == \A i \in 1 .. Len(posts[e]) : ~posts[e][i]

HookInv ==
    /\ PostsEndWithSuccess
    /\ \A e \in Unseen("tenant-webhook") :
         posts[e] = <<>> /\ \A p \in Procs : \A d \in deliveries[p] : d.event # e
    /\ \A p \in Procs : \A d \in deliveries[p] :
         Len(posts[d.event]) = d.attempt - 1 /\ AllFailed(d.event)
    /\ \A p, q \in Procs : \A c \in deliveries[p], d \in deliveries[q] :
         c.event = d.event => p = q /\ c = d

LEMMA HookFewer ==
  ASSUME HookInv, Unseen("tenant-webhook")' \subseteq Unseen("tenant-webhook"),
         UNCHANGED posts, \A p \in Procs : deliveries'[p] \subseteq deliveries[p]
  PROVE  HookInv'
BY DEF HookInv, AllFailed, PostsEndWithSuccess

LEMMA DeliverKeepsHook ==
  ASSUME TypeInv, OnceInv, HookInv, NEW l \in Loops, Deliver(l),
         Unseen("tenant-webhook")' \subseteq Unseen("tenant-webhook")
  PROVE  HookInv'
<1> DEFINE e == Entry(l)
           new == [event |-> e, attempt |-> 1]
<1>1. /\ l[1] \in Procs /\ l[2] = "tenant-webhook" /\ Goto(l, "ack")
      /\ UNCHANGED <<published, stream, cursor, posts>> /\ loop[l].pc = "handle"
  BY DEF Deliver, At, Loops, busVars
<1>2. e \in Unseen("tenant-webhook") /\ e \in Events
  BY <1>1, EntryUnhandled, EntryOf
<1>3. /\ posts[e] = <<>> /\ Len(posts[e]) = 0
      /\ \A p \in Procs : \A d \in deliveries[p] : d.event # e
  BY <1>2, EmptySeq DEF HookInv
<1>4. e \notin Unseen("tenant-webhook")'
  BY <1>1, HandledLeaves
<1>5. \A p \in Procs : \A d \in deliveries'[p] : d \in deliveries[p] \/ (p = l[1] /\ d = new)
  BY DEF Deliver, TypeInv, HooksOK
<1>6. PostsEndWithSuccess'
  BY <1>1 DEF HookInv, PostsEndWithSuccess
<1>7. \A f \in Unseen("tenant-webhook")' :
        posts'[f] = <<>> /\ \A p \in Procs : \A d \in deliveries'[p] : d.event # f
  BY <1>1, <1>4, <1>5 DEF HookInv
<1>8. \A p \in Procs : \A d \in deliveries'[p] :
        Len(posts'[d.event]) = d.attempt - 1 /\ AllFailed(d.event)'
  BY <1>1, <1>3, <1>5 DEF HookInv, AllFailed
<1>9. \A p, q \in Procs : \A c \in deliveries'[p], d \in deliveries'[q] :
        c.event = d.event => p = q /\ c = d
  BY <1>3, <1>5 DEF HookInv
<1>10. QED
  BY <1>6, <1>7, <1>8, <1>9 DEF HookInv

LEMMA AttemptKeepsHook ==
  ASSUME TypeInv, HookInv, NEW p \in Procs, NEW d \in deliveries[p], NEW ok \in BOOLEAN,
         Attempt(p, d, ok),
         Unseen("tenant-webhook")' \subseteq Unseen("tenant-webhook")
  PROVE  HookInv'
<1> DEFINE e == d.event
           again == [d EXCEPT !.attempt = @ + 1]
<1>1. /\ d \in [event : published, attempt : 1 .. MaxAttempts]
      /\ e \in Events /\ d.attempt \in 1 .. MaxAttempts /\ MaxAttempts \in Nat
      /\ again.event = e /\ again.attempt = d.attempt + 1
  BY DeliveryAssumption DEF TypeInv, HooksOK, BusOK
<1>2. /\ posts[e] \in Seq(BOOLEAN) /\ Len(posts[e]) = d.attempt - 1
      /\ \A i \in 1 .. Len(posts[e]) : ~posts[e][i]
  BY <1>1 DEF TypeInv, HooksOK, HookInv, AllFailed
<1>3. /\ posts'[e] = Append(posts[e], ok)
      /\ \A f \in Events : f # e => posts'[f] = posts[f]
  BY <1>1 DEF Attempt, TypeInv, HooksOK
<1>4. /\ Len(posts'[e]) = d.attempt
      /\ \A i \in 1 .. d.attempt - 1 : ~posts'[e][i]
      /\ posts'[e][d.attempt] = ok
  BY <1>1, <1>2, <1>3, AppendProperties
<1>5. ASSUME NEW q \in Procs, NEW c \in deliveries'[q]
      PROVE  \/ c \in deliveries[q] /\ c.event # e
             \/ q = p /\ c = again /\ ~ok
  BY DEF Attempt, Retries, HookInv, TypeInv, HooksOK
<1>6. ASSUME NEW f \in Events
      PROVE  /\ Len(posts'[f]) <= MaxAttempts
             /\ \A i \in 1 .. Len(posts'[f]) - 1 : ~posts'[f][i]
  BY <1>1, <1>3, <1>4 DEF HookInv, PostsEndWithSuccess
<1>7. ASSUME NEW f \in Unseen("tenant-webhook")'
      PROVE  /\ posts'[f] = <<>>
             /\ \A q \in Procs : \A c \in deliveries'[q] : c.event # f
  <2>1. /\ posts[f] = <<>> /\ f # e
        /\ \A q \in Procs : \A c \in deliveries[q] : c.event # f
    BY <1>7 DEF HookInv
  <2>2. posts'[f] = posts[f]
    BY <2>1 DEF Attempt, TypeInv, HooksOK
  <2>3. QED
    BY <1>1, <1>5, <2>1, <2>2
<1>8. ASSUME NEW q \in Procs, NEW c \in deliveries'[q]
      PROVE  Len(posts'[c.event]) = c.attempt - 1 /\ AllFailed(c.event)'
  <2>1. CASE c \in deliveries[q] /\ c.event # e
    <3>1. c.event \in Events
      BY <2>1 DEF TypeInv, HooksOK, BusOK
    <3>2. QED
      BY <1>3, <2>1, <3>1 DEF HookInv, AllFailed
  <2>2. CASE c = again /\ ~ok
    BY <1>1, <1>4, <2>2 DEF AllFailed
  <2>3. QED
    BY <1>5, <1>8, <2>1, <2>2
<1>9. ASSUME NEW q \in Procs, NEW r \in Procs, NEW b \in deliveries'[q], NEW c \in deliveries'[r],
             b.event = c.event
      PROVE  q = r /\ b = c
  BY <1>1, <1>5, <1>9 DEF HookInv
<1>10. QED
  BY <1>6, <1>7, <1>8, <1>9 DEF HookInv, PostsEndWithSuccess

LEMMA HookStep ==
  ASSUME TypeInv, OnceInv, HookInv, [Next]_vars
  PROVE  HookInv'
<1>1. Unseen("tenant-webhook")' \subseteq Unseen("tenant-webhook")
  BY Seen DEF Groups
<1>2. CASE UNCHANGED hookVars
  BY <1>1, <1>2, HookFewer DEF hookVars
<1>3. ASSUME NEW p \in Procs, Exit(p)
      PROVE  HookInv'
  <2>1. UNCHANGED posts /\ \A q \in Procs : deliveries'[q] \subseteq deliveries[q]
    BY <1>3 DEF Exit, TypeInv, HooksOK
  <2>2. QED
    BY <1>1, <2>1, HookFewer
<1>4. \/ UNCHANGED hookVars
      \/ \E p \in Procs : Exit(p)
      \/ \E l \in Loops : Deliver(l)
      \/ \E p \in Procs : \E d \in deliveries[p], ok \in BOOLEAN : Attempt(p, d, ok)
  BY DEF Next, vars, Publish, Flush, Start, Stop, LoopStep, Subscribe, Read, ReadLost,
     Recover, Ack, AckFails, ResolveMode, FindPeriod, OpenPeriod, OpenCollides, RecordUsage,
     MeteringFails
<1>5. QED
  BY <1>1, <1>2, <1>3, <1>4, DeliverKeepsHook, AttemptKeepsHook

(* An event is posted MaxAttempts times at most and never again after a    *)
(* success, whichever processes read, crash and restart meanwhile: a       *)
(* delivery that a crash takes away is not made up for by another process. *)
THEOREM DeliveryStopsAtSuccess == Spec => []PostsEndWithSuccess
<1>1. Init => HookInv
  <2> SUFFICES ASSUME Init PROVE HookInv
    OBVIOUS
  <2>1. \A e \in Events : posts[e] = <<>> /\ Len(posts[e]) = 0
    BY EmptySeq DEF Init
  <2>2. Unseen("tenant-webhook") \subseteq Events
    BY UnseenInit DEF Groups
  <2>3. \A p \in Procs : deliveries[p] = {}
    BY DEF Init
  <2>4. PostsEndWithSuccess
    BY <2>1, DeliveryAssumption DEF PostsEndWithSuccess
  <2>5. QED
    BY <2>1, <2>2, <2>3, <2>4 DEF HookInv
<1>2. TypeInv /\ OnceInv /\ HookInv /\ [Next]_vars => OnceInv' /\ HookInv'
  BY OnceStep, HookStep
<1>3. HookInv => PostsEndWithSuccess
  BY DEF HookInv
<1>4. QED
  BY <1>1, <1>2, <1>3, OnceInit, TypeInvCorrect, PTL DEF Spec

=============================================================================
