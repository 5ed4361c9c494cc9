-------------------------- MODULE EventFanoutProofs --------------------------
(***************************************************************************)
(* Proofs about EventFanout, for any events, processes and clients and for *)
(* queues of commands and replies of any length.                           *)
(***************************************************************************)
EXTENDS EventFanout, EventDeliveryProofs

Commands == [name : {"subscribe", "unsubscribe"}, by : Clients]

Replies ==
  [name : {"subscribe", "unsubscribe", "failed"}, by : Clients]
    \cup [name : Events]

Servers ==
  [conns : SUBSET Clients, subscribed : BOOLEAN, listens : BOOLEAN,
   commands : Seq(Commands), inbox : Seq(Replies)]

FanTypeOK ==
  /\ server \in [Procs -> Servers]
  /\ peer \in [Clients -> {"new", "there", "silent", "gone"}]
  /\ owed \in [Clients -> SUBSET Events]
  /\ sent \in [Clients -> SUBSET Events]
  /\ skipped \in [Clients -> SUBSET Events]
  /\ excused \subseteq Clients

(* A connection is served by one process, and owed something only there.   *)
PeerInv ==
  /\ \A p \in Procs : \A c \in server[p].conns :
       /\ peer[c] \in {"there", "silent"}
       /\ \A q \in Procs : c \in server[q].conns => q = p
  /\ \A c \in Clients :
       (\A p \in Procs : c \notin server[p].conns) => owed[c] = {}

Sent(p, name) ==
  \E i \in 1..Len(server[p].commands) : server[p].commands[i].name = name

Came(p, name) ==
  \E i \in 1..Len(server[p].inbox) : server[p].inbox[i].name = name

(* A channel that is marked as subscribed is listened to, unless the reply *)
(* to an unsubscribe is not read yet; and so will it be when it is marked. *)
Marked(p) ==
  /\ server[p].subscribed => server[p].listens \/ Came(p, "unsubscribe")
  /\ \A i \in 1..Len(server[p].inbox) :
       server[p].inbox[i].name = "subscribe" =>
         \/ server[p].listens
         \/ \E j \in i..Len(server[p].inbox) : server[p].inbox[j].name = "unsubscribe"

(* A client with a promise is listened for, or will be by a subscribe of   *)
(* its own, and nothing that ends this is to be executed afterwards.       *)
LastWord(p, i, name) ==
  \A j \in i..Len(server[p].commands) : server[p].commands[j].name = name

Heard(p, c) ==
  \/ /\ server[p].listens
     /\ LastWord(p, 1, "subscribe")
  \/ \E i \in 1..Len(server[p].commands) :
       /\ server[p].commands[i].by = c
       /\ LastWord(p, i, "subscribe")

(* A process without clients does not listen, or will not after an         *)
(* unsubscribe of a client that has left, or has an excuse.                *)
Left(p) ==
  \/ /\ ~server[p].listens
     /\ LastWord(p, 1, "unsubscribe")
  \/ \E i \in 1..Len(server[p].commands) :
       /\ peer[server[p].commands[i].by] = "gone"
       /\ LastWord(p, i, "unsubscribe")
  \/ \E c \in excused : peer[c] = "gone"

QueueInv ==
  /\ \A p \in Procs : Marked(p)
  /\ \A p \in Procs : \A c \in server[p].conns \ excused : Heard(p, c)
  /\ \A p \in Procs : server[p].conns = {} => Left(p)

(* What a client is owed has been fanned out or is on its way to it.       *)
ToldInv ==
  \A p \in Procs : \A c \in server[p].conns : \A e \in owed[c] :
    e \in sent[c] \cup skipped[c] \/ Came(p, e)

(* The excuses of those that have left are kept.                           *)
ExcusesStay == \A c \in excused : peer[c] = "gone" => c \in excused'

FanInv == FanTypeOK /\ PeerInv /\ QueueInv /\ ToldInv

-----------------------------------------------------------------------------
LEMMA UnderWayDef ==
  ASSUME FanTypeOK, NEW p \in Procs
  PROVE  \A name : name \in UnderWay(p) <=> Sent(p, name) \/ Came(p, name)
<1>1. server[p].commands \in Seq(Commands) /\ server[p].inbox \in Seq(Replies)
  BY DEF FanTypeOK, Servers
<1>2. DOMAIN server[p].commands = 1..Len(server[p].commands)
  BY <1>1, LenProperties
<1>3. DOMAIN server[p].inbox = 1..Len(server[p].inbox)
  BY <1>1, LenProperties
<1>4. QED
  BY <1>2, <1>3 DEF UnderWay, Sent, Came

LEMMA SettledMeans ==
  ASSUME FanTypeOK, NEW p \in Procs, Settled(p)
  PROVE  /\ Len(server[p].commands) = 0
         /\ ~Came(p, "subscribe") /\ ~Came(p, "unsubscribe")
<1>1. server[p].commands \in Seq(Commands)
  BY DEF FanTypeOK, Servers
<1>2. \A name \in {"subscribe", "unsubscribe"} : ~Sent(p, name) /\ ~Came(p, name)
  BY UnderWayDef, FanoutAssumption DEF Settled
<1>3. ASSUME Len(server[p].commands) # 0
      PROVE  FALSE
  <2>1. 1 \in 1..Len(server[p].commands)
    BY <1>1, <1>3, LenProperties
  <2>2. server[p].commands[1] \in Commands
    BY <1>1, <2>1, ElementOfSeq
  <2>3. QED
    BY <1>2, <2>1, <2>2 DEF Commands, Sent
<1>4. QED
  BY <1>2, <1>3

LEMMA CommandNames ==
  ASSUME FanTypeOK, NEW p \in Procs, NEW i \in 1..Len(server[p].commands)
  PROVE  /\ server[p].commands[i].name \in {"subscribe", "unsubscribe"}
         /\ server[p].commands[i].by \in Clients
<1>1. server[p].commands \in Seq(Commands)
  BY DEF FanTypeOK, Servers
<1>2. server[p].commands[i] \in Commands
  BY <1>1, ElementOfSeq
<1>3. QED
  BY <1>2 DEF Commands

(* A process whose queues and flags stay as they are keeps its invariants, *)
(* as long as those that have left stay away and their excuses are kept.   *)
LEMMA Frame ==
  ASSUME FanTypeOK, NEW p \in Procs,
         server'[p].commands = server[p].commands, server'[p].listens = server[p].listens,
         ExcusesStay,
         \A c \in Clients : peer[c] = "gone" => peer'[c] = "gone"
  PROVE  /\ \A c : Heard(p, c) => Heard(p, c)'
         /\ Left(p) => Left(p)'
<1>1. \A i, name : LastWord(p, i, name)' = LastWord(p, i, name)
  BY DEF LastWord
<1>2. \A c : Heard(p, c) => Heard(p, c)'
  BY <1>1 DEF Heard
<1>3. Left(p) => Left(p)'
  BY <1>1, CommandNames DEF Left, FanTypeOK, ExcusesStay
<1>4. QED
  BY <1>2, <1>3

LEMMA MarkedFrame ==
  ASSUME NEW p \in Procs, server'[p].inbox = server[p].inbox,
         server'[p].listens = server[p].listens, server'[p].subscribed = server[p].subscribed
  PROVE  Marked(p) => Marked(p)'
BY DEF Marked, Came

LEMMA ConnectStep ==
  ASSUME FanInv, NEW c \in Clients, NEW p \in Procs, Connect(c, p)
  PROVE  FanInv'
<1> DEFINE v == server[p]
           ask == [name |-> "subscribe", by |-> c]
<1>1. FanTypeOK /\ PeerInv /\ QueueInv /\ ToldInv
  BY DEF FanInv
<1>2. v \in Servers /\ v.commands \in Seq(Commands) /\ ask \in Commands
  BY <1>1 DEF FanTypeOK, Servers, Commands
<1>3. Append(v.commands, ask) \in Seq(Commands)
  BY <1>2, AppendProperties
<1>4. server' = [server EXCEPT
         ![p].conns = @ \cup {c},
         ![p].commands = IF ~v.subscribed THEN Append(v.commands, ask) ELSE @]
  BY DEF Connect, Add, Ask
<1>5. /\ \A q \in Procs \ {p} : server'[q] = server[q]
      /\ server'[p] = [v EXCEPT !.conns = @ \cup {c},
           !.commands = IF ~v.subscribed THEN Append(v.commands, ask) ELSE @]
  BY <1>1, <1>4 DEF FanTypeOK
<1>6. /\ server'[p].conns = v.conns \cup {c}
      /\ server'[p].commands = IF ~v.subscribed THEN Append(v.commands, ask) ELSE v.commands
      /\ UNCHANGED <<server[p].subscribed, server[p].listens, server[p].inbox>>
      /\ server'[p] \in Servers
  <2>1. v = [conns |-> v.conns, subscribed |-> v.subscribed, listens |-> v.listens,
             commands |-> v.commands, inbox |-> v.inbox]
    BY <1>2 DEF Servers
  <2>2. server'[p] = [conns |-> v.conns \cup {c}, subscribed |-> v.subscribed,
          listens |-> v.listens, inbox |-> v.inbox,
          commands |-> IF ~v.subscribed THEN Append(v.commands, ask) ELSE v.commands]
    BY <1>5, <2>1
  <2>3. QED
    BY <1>2, <1>3, <2>2 DEF Servers
<1>7. /\ peer[c] = "new" /\ peer' = [peer EXCEPT ![c] = "there"]
      /\ UNCHANGED <<owed, sent, skipped>>
  BY DEF Connect
<1>8. /\ excused \subseteq excused' /\ excused' \subseteq Clients
      /\ v.subscribed /\ c \notin excused' => "unsubscribe" \notin UnderWay(p)
      /\ ExcusesStay
  BY <1>1 DEF Connect, Add, FanTypeOK, ExcusesStay
<1>9. \A d \in Clients : peer[d] = "gone" => peer'[d] = "gone"
  BY <1>1, <1>7 DEF FanTypeOK
<1>10. FanTypeOK'
  <2>1. server' \in [Procs -> Servers]
    BY <1>1, <1>4, <1>6 DEF FanTypeOK
  <2>2. QED
    BY <1>1, <1>7, <1>8, <2>1 DEF FanTypeOK
<1>11. PeerInv'
  <2>1. \A q \in Procs : c \notin server[q].conns
    BY <1>1, <1>7 DEF PeerInv
  <2>2. \A q \in Procs : server'[q].conns = IF q = p THEN v.conns \cup {c} ELSE server[q].conns
    BY <1>5, <1>6
  <2>3. \A d \in Clients : peer'[d] = IF d = c THEN "there" ELSE peer[d]
    BY <1>1, <1>7 DEF FanTypeOK
  <2>4. \A q \in Procs : server[q].conns \subseteq Clients
    BY <1>1 DEF FanTypeOK, Servers
  <2>5. QED
    BY <1>1, <1>7, <2>1, <2>2, <2>3, <2>4 DEF PeerInv
<1>12. \A q \in Procs : Marked(q)'
  BY <1>1, <1>5, <1>6, MarkedFrame DEF QueueInv
<1>13. ASSUME NEW d \in server'[p].conns \ excused'
       PROVE  Heard(p, d)'
  <2>1. CASE ~v.subscribed
    <3>1. server'[p].commands = Append(v.commands, ask)
      BY <1>6, <2>1
    <3>2. /\ Len(server'[p].commands) = Len(v.commands) + 1
          /\ \A i \in 1..Len(v.commands) : server'[p].commands[i] = v.commands[i]
          /\ server'[p].commands[Len(v.commands) + 1] = ask
      BY <1>2, <3>1, AppendProperties
    <3>3. Len(v.commands) \in Nat
      BY <1>2, LenProperties
    <3>4. CASE d = c
      <4>1. \A i : i = Len(v.commands) + 1 => LastWord(p, i, "subscribe")'
        BY <3>2, <3>3 DEF LastWord
      <4>2. QED
        BY <3>2, <3>3, <3>4, <4>1 DEF Heard
    <3>5. CASE d # c
      <4>1. Heard(p, d)
        BY <1>1, <1>6, <1>8, <1>13, <3>5 DEF QueueInv
      <4>2. \A i \in 1..Len(v.commands) + 1 :
              LastWord(p, i, "subscribe") => LastWord(p, i, "subscribe")'
        <5>1. ASSUME NEW i \in 1..Len(v.commands) + 1, LastWord(p, i, "subscribe"),
                     NEW j \in i..Len(server'[p].commands)
              PROVE  server'[p].commands[j].name = "subscribe"
          <6>1. CASE j = Len(v.commands) + 1
            BY <3>2, <6>1
          <6>2. CASE j # Len(v.commands) + 1
            <7>1. j \in i..Len(v.commands) /\ j \in 1..Len(v.commands)
              BY <3>2, <3>3, <5>1, <6>2
            <7>2. server[p].commands[j].name = "subscribe"
              BY <5>1, <7>1 DEF LastWord
            <7>3. QED
              BY <3>2, <7>1, <7>2
          <6>3. QED
            BY <6>1, <6>2
        <5>2. QED
          BY <5>1 DEF LastWord
      <4>3. QED
        BY <1>6, <3>2, <3>3, <4>1, <4>2 DEF Heard
    <3>6. QED
      BY <3>4, <3>5
  <2>2. CASE v.subscribed
    <3>1. server'[p].commands = v.commands
      BY <1>6, <2>2
    <3>2. CASE d # c
      BY <1>1, <1>6, <1>8, <1>9, <1>13, <3>1, <3>2, Frame DEF QueueInv
    <3>3. CASE d = c
      <4>1. ~Sent(p, "unsubscribe") /\ ~Came(p, "unsubscribe")
        BY <1>1, <1>8, <1>13, <2>2, <3>3, UnderWayDef
      <4>2. v.listens
        BY <1>1, <2>2, <4>1 DEF QueueInv, Marked
      <4>3. LastWord(p, 1, "subscribe")
        BY <1>1, <4>1, CommandNames DEF LastWord, Sent
      <4>4. QED
        BY <1>6, <3>1, <4>2, <4>3 DEF Heard, LastWord
    <3>4. QED
      BY <3>2, <3>3
  <2>3. QED
    BY <2>1, <2>2
<1>14. QueueInv'
  <2>1. \A q \in Procs \ {p} : /\ \A d : Heard(q, d) => Heard(q, d)'
                               /\ Left(q) => Left(q)'
    BY <1>1, <1>5, <1>8, <1>9, Frame
  <2>2. server'[p].conns # {}
    BY <1>6
  <2>3. \A q \in Procs : server'[q].conns = {} => Left(q)'
    BY <1>1, <1>5, <2>1, <2>2 DEF QueueInv
  <2>4. \A q \in Procs : \A d \in server'[q].conns \ excused' : Heard(q, d)'
    BY <1>1, <1>5, <1>8, <1>13, <2>1 DEF QueueInv
  <2>5. QED
    BY <1>12, <2>3, <2>4 DEF QueueInv
<1>15. ToldInv'
  <2>1. owed[c] = {}
    BY <1>1, <1>7 DEF PeerInv
  <2>2. \A q \in Procs : server'[q].inbox = server[q].inbox
    BY <1>5, <1>6
  <2>3. \A q \in Procs : \A e : Came(q, e)' = Came(q, e)
    BY <2>2 DEF Came
  <2>4. \A q \in Procs : server'[q].conns \subseteq server[q].conns \cup {c}
    BY <1>5, <1>6
  <2>5. QED
    BY <1>1, <1>7, <2>1, <2>3, <2>4 DEF ToldInv
<1>16. QED
  BY <1>10, <1>11, <1>14, <1>15 DEF FanInv

LEMMA ServerFields ==
  ASSUME NEW v \in Servers
  PROVE  /\ v = [conns |-> v.conns, subscribed |-> v.subscribed, listens |-> v.listens,
                 commands |-> v.commands, inbox |-> v.inbox]
         /\ v.conns \subseteq Clients /\ v.subscribed \in BOOLEAN /\ v.listens \in BOOLEAN
         /\ v.commands \in Seq(Commands) /\ Len(v.commands) \in Nat
         /\ v.inbox \in Seq(Replies) /\ Len(v.inbox) \in Nat
<1>1. v.commands \in Seq(Commands) /\ v.inbox \in Seq(Replies)
  BY DEF Servers
<1>2. QED
  BY <1>1, LenProperties DEF Servers

LEMMA CleanupStep ==
  ASSUME FanInv, NEW c \in Clients, NEW p \in Procs, Cleanup(c, p)
  PROVE  FanInv'
<1> DEFINE v == server[p]
           ask == [name |-> "unsubscribe", by |-> c]
<1>1. FanTypeOK /\ PeerInv /\ QueueInv /\ ToldInv
  BY DEF FanInv
<1>2. v \in Servers /\ ask \in Commands
  BY <1>1 DEF FanTypeOK, Commands
<1>3. Append(v.commands, ask) \in Seq(Commands)
  BY <1>2, ServerFields, AppendProperties
<1>4. server' = [server EXCEPT
         ![p].conns = @ \ {c},
         ![p].commands = IF v.conns = {c} THEN Append(v.commands, ask) ELSE @]
  BY DEF Cleanup, Remove, LastLeaves, Ask
<1>5. /\ \A q \in Procs \ {p} : server'[q] = server[q]
      /\ server'[p] = [v EXCEPT !.conns = @ \ {c},
           !.commands = IF v.conns = {c} THEN Append(v.commands, ask) ELSE @]
  BY <1>1, <1>4 DEF FanTypeOK
<1>6. /\ server'[p].conns = v.conns \ {c}
      /\ server'[p].commands = IF v.conns = {c} THEN Append(v.commands, ask) ELSE v.commands
      /\ UNCHANGED <<server[p].subscribed, server[p].listens, server[p].inbox>>
      /\ server'[p] \in Servers
  <2>1. server'[p] = [conns |-> v.conns \ {c}, subscribed |-> v.subscribed,
          listens |-> v.listens, inbox |-> v.inbox,
          commands |-> IF v.conns = {c} THEN Append(v.commands, ask) ELSE v.commands]
    BY <1>2, <1>5, ServerFields
  <2>2. QED
    BY <1>2, <1>3, <2>1, ServerFields DEF Servers
<1>7. /\ c \in v.conns /\ peer' = [peer EXCEPT ![c] = "gone"]
      /\ owed' = [d \in Clients |-> IF d \in {c} THEN {} ELSE owed[d]]
      /\ sent' = [d \in Clients |-> IF d \in {c} THEN {} ELSE sent[d]]
      /\ skipped' = [d \in Clients |-> IF d \in {c} THEN {} ELSE skipped[d]]
      /\ excused' = excused
  BY DEF Cleanup, Forget
<1>8. \A d \in Clients : peer'[d] = IF d = c THEN "gone" ELSE peer[d]
  BY <1>1, <1>7 DEF FanTypeOK
<1>9. FanTypeOK'
  <2>1. server' \in [Procs -> Servers]
    BY <1>1, <1>4, <1>6 DEF FanTypeOK
  <2>2. QED
    BY <1>1, <1>7, <2>1 DEF FanTypeOK
<1>10. \A q \in Procs : server'[q].conns = server[q].conns \ {c}
  <2>1. \A q \in Procs \ {p} : c \notin server[q].conns
    BY <1>1, <1>7 DEF PeerInv
  <2>2. \A q \in Procs \ {p} : server'[q].conns = server[q].conns
    BY <1>5
  <2>3. QED
    BY <1>6, <2>1, <2>2
<1>11. \A q \in Procs : server[q].conns \subseteq Clients
  BY <1>1, ServerFields DEF FanTypeOK
<1>12. PeerInv'
  BY <1>1, <1>7, <1>8, <1>10, <1>11 DEF PeerInv
<1>13. \A q \in Procs : Marked(q)'
  BY <1>1, <1>5, <1>6, MarkedFrame DEF QueueInv
<1>14. \A q \in Procs : server'[q].commands = server[q].commands =>
         /\ \A d : Heard(q, d) => Heard(q, d)'
         /\ Left(q) => Left(q)'
  BY <1>1, <1>5, <1>6, <1>7, <1>8, Frame DEF ExcusesStay
<1>15. \A q \in Procs : \A d \in server'[q].conns \ excused' : Heard(q, d)'
  BY <1>1, <1>5, <1>6, <1>7, <1>10, <1>14 DEF QueueInv
<1>16. ASSUME NEW q \in Procs, server'[q].conns = {}
       PROVE  Left(q)'
  <2>1. CASE q # p
    BY <1>1, <1>5, <1>14, <1>16, <2>1 DEF QueueInv
  <2>2. CASE q = p
    <3>1. server'[p].commands = Append(v.commands, ask)
      BY <1>6, <1>7, <1>16, <2>2
    <3>2. /\ Len(server'[p].commands) = Len(v.commands) + 1
          /\ server'[p].commands[Len(v.commands) + 1] = ask
          /\ Len(v.commands) \in Nat
      BY <1>2, <3>1, ServerFields, AppendProperties
    <3>3. \A i : i = Len(v.commands) + 1 => LastWord(p, i, "unsubscribe")'
      BY <3>2 DEF LastWord
    <3>4. peer'[c] = "gone"
      BY <1>8
    <3>5. \E i \in 1..Len(server'[p].commands) :
            /\ peer'[server'[p].commands[i].by] = "gone"
            /\ LastWord(p, i, "unsubscribe")'
      BY <3>2, <3>3, <3>4
    <3>6. QED
      BY <2>2, <3>5 DEF Left
  <2>3. QED
    BY <2>1, <2>2
<1>17. QueueInv'
  BY <1>13, <1>15, <1>16 DEF QueueInv
<1>18. ToldInv'
  <2>1. \A q \in Procs : \A e : Came(q, e)' = Came(q, e)
    BY <1>5, <1>6 DEF Came
  <2>2. QED
    BY <1>1, <1>7, <1>10, <1>11, <2>1 DEF ToldInv
<1>19. QED
  BY <1>9, <1>12, <1>17, <1>18 DEF FanInv

(* A step that only changes who is there or silent, or who is pinged.      *)
LEMMA QuietStep ==
  ASSUME FanInv, UNCHANGED <<server, owed, sent, skipped, excused>>,
         peer' = peer \/ \E c \in Clients : peer[c] = "there" /\ peer' = [peer EXCEPT ![c] = "silent"]
  PROVE  FanInv'
<1>1. FanTypeOK /\ PeerInv /\ QueueInv /\ ToldInv
  BY DEF FanInv
<1>2. FanTypeOK'
  BY <1>1 DEF FanTypeOK
<1>3. \A c \in Clients : /\ peer[c] = "gone" => peer'[c] = "gone"
                         /\ peer[c] \in {"there", "silent"} => peer'[c] \in {"there", "silent"}
  BY <1>1 DEF FanTypeOK
<1>4. \A p \in Procs : server[p].conns \subseteq Clients
  BY <1>1, ServerFields DEF FanTypeOK
<1>5. PeerInv'
  BY <1>1, <1>3, <1>4 DEF PeerInv
<1>6. \A p \in Procs : /\ \A c : Heard(p, c) => Heard(p, c)'
                       /\ Left(p) => Left(p)'
                       /\ Marked(p)'
  BY <1>1, <1>3, Frame, MarkedFrame DEF QueueInv, ExcusesStay
<1>7. QueueInv'
  BY <1>1, <1>6 DEF QueueInv
<1>8. ToldInv'
  BY <1>1 DEF ToldInv, Came
<1>9. QED
  BY <1>2, <1>5, <1>7, <1>8 DEF FanInv

LEMMA ClientInvStep ==
  ASSUME FanInv, ClientStep
  PROVE  FanInv'
<1>1. ASSUME NEW c \in Clients, NEW p \in Procs, Heartbeat(c, p)
      PROVE  FanInv'
  BY <1>1, CleanupStep, QuietStep DEF Heartbeat
<1>2. ASSUME NEW c \in Clients, FallSilent(c) \/ Pong(c)
      PROVE  FanInv'
  BY <1>2, QuietStep DEF FallSilent, Pong
<1>3. QED
  BY <1>1, <1>2, ConnectStep, CleanupStep DEF ClientStep, Leave

-----------------------------------------------------------------------------
(* A step on the queues of one process alone, seen from the others.        *)
LEMMA QueueStep ==
  ASSUME FanInv, NEW p \in Procs, server' \in [Procs -> Servers],
         \A q \in Procs \ {p} : server'[q] = server[q],
         server'[p].conns = server[p].conns,
         UNCHANGED <<peer, owed>>, sent' \in [Clients -> SUBSET Events],
         skipped' \in [Clients -> SUBSET Events],
         excused' \subseteq Clients, ExcusesStay,
         \A q \in Procs \ {p} : \A c \in server[q].conns : c \in excused => c \in excused',
         Marked(p)', \A c \in server[p].conns \ excused' : Heard(p, c)',
         server[p].conns = {} => Left(p)',
         \A q \in Procs : \A c \in server[q].conns, e \in Events :
           e \in sent[c] \cup skipped[c] \/ Came(q, e)
             => e \in sent'[c] \cup skipped'[c] \/ Came(q, e)'
  PROVE  FanInv'
<1>1. FanTypeOK /\ PeerInv /\ QueueInv /\ ToldInv
  BY DEF FanInv
<1>2. FanTypeOK'
  BY <1>1 DEF FanTypeOK
<1>3. \A q \in Procs : server'[q].conns = server[q].conns /\ server[q].conns \subseteq Clients
  BY <1>1, ServerFields DEF FanTypeOK
<1>4. PeerInv'
  BY <1>1, <1>3 DEF PeerInv
<1>5. \A q \in Procs \ {p} : /\ \A c : Heard(q, c) => Heard(q, c)'
                             /\ Left(q) => Left(q)'
                             /\ Marked(q)'
  BY <1>1, Frame, MarkedFrame DEF QueueInv
<1>6. QueueInv'
  <2>1. \A q \in Procs : Marked(q)'
    BY <1>5
  <2>2. \A q \in Procs : \A c \in server'[q].conns \ excused' : Heard(q, c)'
    BY <1>1, <1>3, <1>5 DEF QueueInv
  <2>3. \A q \in Procs : server'[q].conns = {} => Left(q)'
    BY <1>1, <1>3, <1>5 DEF QueueInv
  <2>4. QED
    BY <2>1, <2>2, <2>3 DEF QueueInv
<1>7. ToldInv'
  BY <1>1, <1>3 DEF ToldInv, FanTypeOK
<1>8. QED
  BY <1>2, <1>4, <1>6, <1>7 DEF FanInv

(* What an execution does to the queues of p, whether it fails or not.     *)
LEMMA ExecuteMoves ==
  ASSUME FanTypeOK, NEW p \in Procs, Execute(p)
  PROVE  LET v == server[p]
             w == server'[p]
             command == v.commands[1]
             r == w.inbox[Len(w.inbox)]
         IN  /\ server' \in [Procs -> Servers]
             /\ \A q \in Procs \ {p} : server'[q] = server[q]
             /\ Len(v.commands) > 0
             /\ Len(w.commands) = Len(v.commands) - 1
             /\ \A i \in 1..Len(w.commands) : w.commands[i] = v.commands[i + 1]
             /\ Len(w.inbox) = Len(v.inbox) + 1
             /\ \A i \in 1..Len(v.inbox) : w.inbox[i] = v.inbox[i]
             /\ w.conns = v.conns /\ w.subscribed = v.subscribed
             /\ \/ /\ r = command
                   /\ w.listens = (command.name = "subscribe")
                   /\ excused' = IF Serves(p) THEN excused \ v.conns ELSE excused
                \/ /\ r.name = "failed"
                   /\ w.listens = v.listens
                   /\ excused' = excused \cup {command.by}
<1> DEFINE v == server[p]
           w == server'[p]
           head == Head(v.commands)
<1>1. v \in Servers /\ v.commands # <<>>
  BY DEF FanTypeOK, Execute
<1>2. v.commands \in Seq(Commands) /\ v.inbox \in Seq(Replies)
      /\ Len(v.commands) \in Nat /\ Len(v.inbox) \in Nat
  BY <1>1, ServerFields
<1>3. /\ head \in Commands /\ Tail(v.commands) \in Seq(Commands)
      /\ Len(Tail(v.commands)) = Len(v.commands) - 1
      /\ \A i \in 1..Len(Tail(v.commands)) : Tail(v.commands)[i] = v.commands[i + 1]
  BY <1>1, <1>2, HeadTailProperties
<1>4. head = v.commands[1] /\ Len(v.commands) > 0
  BY <1>1, <1>2, EmptySeq
<1>5. head \in Replies /\ [head EXCEPT !.name = "failed"] \in Replies
  BY <1>3 DEF Commands, Replies
<1>6. ASSUME NEW reply \in Replies
      PROVE  /\ Append(v.inbox, reply) \in Seq(Replies)
             /\ Len(Append(v.inbox, reply)) = Len(v.inbox) + 1
             /\ \A i \in 1..Len(v.inbox) : Append(v.inbox, reply)[i] = v.inbox[i]
             /\ Append(v.inbox, reply)[Len(v.inbox) + 1] = reply
  BY <1>2, AppendProperties
<1>7. /\ \A q \in Procs \ {p} : server'[q] = server[q]
      /\ server' \in [Procs -> Servers]
      /\ w.commands = Tail(v.commands)
      /\ w.conns = v.conns /\ w.subscribed = v.subscribed
      /\ \E reply \in Replies :
           /\ w.inbox = Append(v.inbox, reply)
           /\ \/ /\ reply = head /\ w.listens = (head.name = "subscribe")
                 /\ excused' = IF Serves(p) THEN excused \ v.conns ELSE excused
              \/ /\ reply.name = "failed" /\ w.listens = v.listens
                 /\ excused' = excused \cup {head.by}
  <2> DEFINE Reply(r) == [server EXCEPT ![p].commands = Tail(@),
                                        ![p].inbox = Append(@, r)]
  <2>1. ASSUME NEW r \in Replies
        PROVE  /\ Reply(r) \in [Procs -> Servers]
               /\ \A q \in Procs \ {p} : Reply(r)[q] = server[q]
               /\ Reply(r)[p].commands = Tail(v.commands)
               /\ Reply(r)[p].inbox = Append(v.inbox, r)
               /\ Reply(r)[p].conns = v.conns
               /\ Reply(r)[p].subscribed = v.subscribed
               /\ Reply(r)[p].listens = v.listens
    <3>1. Append(v.inbox, r) \in Seq(Replies) /\ Tail(v.commands) \in Seq(Commands)
      BY <1>3, <1>6, <2>1
    <3>2. QED
      BY <3>1 DEF FanTypeOK, Servers
  <2>2. CASE /\ server' = [Reply(head) EXCEPT ![p].listens = head.name = "subscribe"]
             /\ excused' = IF Serves(p) THEN excused \ v.conns ELSE excused
    <3> DEFINE f == Reply(head)
    <3>1. /\ f \in [Procs -> Servers]
          /\ \A q \in Procs \ {p} : f[q] = server[q]
          /\ f[p].commands = Tail(v.commands)
          /\ f[p].inbox = Append(v.inbox, head)
          /\ f[p].conns = v.conns /\ f[p].subscribed = v.subscribed
      BY <1>5, <2>1
    <3> HIDE DEF f
    <3>2. /\ server' \in [Procs -> Servers]
          /\ \A q \in Procs \ {p} : server'[q] = f[q]
          /\ w.commands = f[p].commands /\ w.inbox = f[p].inbox
          /\ w.conns = f[p].conns /\ w.subscribed = f[p].subscribed
          /\ w.listens = (head.name = "subscribe")
      BY <2>2, <3>1 DEF f, Servers
    <3>3. QED
      BY <1>5, <2>2, <3>1, <3>2
  <2>3. CASE /\ server' = Reply([head EXCEPT !.name = "failed"])
             /\ excused' = excused \cup {head.by}
    <3>1. [head EXCEPT !.name = "failed"].name = "failed"
      BY <1>3 DEF Commands
    <3>2. QED
      BY <1>5, <2>1, <2>3, <3>1
  <2>4. QED
    BY <2>2, <2>3 DEF Execute
<1>8. PICK reply \in Replies :
        /\ w.inbox = Append(v.inbox, reply)
        /\ \/ /\ reply = head /\ w.listens = (head.name = "subscribe")
              /\ excused' = IF Serves(p) THEN excused \ v.conns ELSE excused
           \/ /\ reply.name = "failed" /\ w.listens = v.listens
              /\ excused' = excused \cup {head.by}
  BY <1>7
<1>9. w.inbox[Len(w.inbox)] = reply /\ Len(w.inbox) = Len(v.inbox) + 1
      /\ \A i \in 1..Len(v.inbox) : w.inbox[i] = v.inbox[i]
  BY <1>6, <1>8
<1>10. QED
  BY <1>3, <1>4, <1>7, <1>8, <1>9

LEMMA ExecuteStep ==
  ASSUME FanInv, NEW p \in Procs, Execute(p)
  PROVE  FanInv'
<1> DEFINE v == server[p]
           w == server'[p]
           command == v.commands[1]
           r == w.inbox[Len(w.inbox)]
<1>1. FanTypeOK /\ PeerInv /\ QueueInv /\ ToldInv
  BY DEF FanInv
<1>2. /\ server' \in [Procs -> Servers]
      /\ \A q \in Procs \ {p} : server'[q] = server[q]
      /\ Len(v.commands) > 0
      /\ Len(w.commands) = Len(v.commands) - 1
      /\ \A i \in 1..Len(w.commands) : w.commands[i] = v.commands[i + 1]
      /\ Len(w.inbox) = Len(v.inbox) + 1
      /\ \A i \in 1..Len(v.inbox) : w.inbox[i] = v.inbox[i]
      /\ w.conns = v.conns /\ w.subscribed = v.subscribed
  BY <1>1, ExecuteMoves
<1>3. \/ /\ r = command
         /\ w.listens = (command.name = "subscribe")
         /\ excused' = IF Serves(p) THEN excused \ v.conns ELSE excused
      \/ /\ r.name = "failed"
         /\ w.listens = v.listens
         /\ excused' = excused \cup {command.by}
  BY <1>1, ExecuteMoves
<1>4. v \in Servers /\ Len(v.commands) \in Nat /\ Len(v.inbox) \in Nat /\ 1 \in 1..Len(v.commands)
  BY <1>1, <1>2, ServerFields DEF FanTypeOK
<1>5. command.name \in {"subscribe", "unsubscribe"} /\ command.by \in Clients
  BY <1>1, <1>4, CommandNames
<1>6. UNCHANGED <<peer, owed, sent, skipped>>
  BY DEF Execute
<1>7. \A e : Came(p, e) => Came(p, e)'
  BY <1>2, <1>4 DEF Came
<1>8. \A e : r = command /\ e = command.name => Came(p, e)'
  BY <1>2, <1>4 DEF Came
<1>9. Marked(p)'
  <2>1. CASE r = command /\ w.listens = (command.name = "subscribe")
    <3>1. CASE command.name = "subscribe"
      BY <2>1, <3>1 DEF Marked
    <3>2. CASE command.name = "unsubscribe"
      <4>1. Came(p, "unsubscribe")'
        BY <1>8, <2>1, <3>2
      <4>2. \A i \in 1..Len(w.inbox) : \E j \in i..Len(w.inbox) : w.inbox[j].name = "unsubscribe"
        <5>1. Len(w.inbox) \in Nat
          BY <1>2, <1>4
        <5>2. w.inbox[Len(w.inbox)].name = "unsubscribe"
          BY <2>1, <3>2
        <5>3. \A i \in 1..Len(w.inbox) : Len(w.inbox) \in i..Len(w.inbox)
          BY <5>1
        <5>4. QED
          BY <5>2, <5>3
      <4>3. QED
        BY <4>1, <4>2 DEF Marked
    <3>3. QED
      BY <1>5, <3>1, <3>2
  <2>2. CASE r.name = "failed" /\ w.listens = v.listens
    <3>1. Marked(p)
      BY <1>1 DEF QueueInv
    <3>2. w.subscribed => w.listens \/ Came(p, "unsubscribe")'
      BY <1>2, <1>7, <2>2, <3>1 DEF Marked
    <3>3. ASSUME NEW i \in 1..Len(w.inbox), w.inbox[i].name = "subscribe"
          PROVE  \/ w.listens
                 \/ \E j \in i..Len(w.inbox) : w.inbox[j].name = "unsubscribe"
      <4>1. i \in 1..Len(v.inbox)
        BY <1>2, <1>4, <2>2, <3>3
      <4>2. v.inbox[i].name = "subscribe"
        BY <1>2, <3>3, <4>1
      <4>3. v.listens \/ \E j \in i..Len(v.inbox) : v.inbox[j].name = "unsubscribe"
        BY <3>1, <4>1, <4>2 DEF Marked
      <4>4. QED
        BY <1>2, <1>4, <2>2, <4>1, <4>3
    <3>4. QED
      BY <3>2, <3>3 DEF Marked
  <2>3. QED
    BY <1>3, <2>1, <2>2
<1>10. ASSUME NEW name \in {"subscribe", "unsubscribe"}
       PROVE  /\ LastWord(p, 1, name) => LastWord(p, 1, name)' /\ command.name = name
              /\ \A i \in 2..Len(v.commands) : \A k :
                   k = i - 1 /\ LastWord(p, i, name) => LastWord(p, k, name)'
  <2>1. ASSUME NEW i \in 1..Len(v.commands), LastWord(p, i, name),
               NEW j \in 1..Len(w.commands), j + 1 >= i
        PROVE  w.commands[j].name = name
    <3>1. j + 1 \in i..Len(v.commands)
      BY <1>2, <1>4, <2>1
    <3>2. v.commands[j + 1].name = name
      BY <2>1, <3>1 DEF LastWord
    <3>3. QED
      BY <1>2, <2>1, <3>2
  <2>2. ASSUME LastWord(p, 1, name)
        PROVE  LastWord(p, 1, name)' /\ command.name = name
    <3>1. \A j \in 1..Len(w.commands) : w.commands[j].name = name
      BY <1>4, <2>1, <2>2
    <3>2. command.name = name
      BY <1>4, <2>2 DEF LastWord
    <3>3. QED
      BY <3>1, <3>2 DEF LastWord
  <2>3. ASSUME NEW i \in 2..Len(v.commands), NEW k, k = i - 1, LastWord(p, i, name)
        PROVE  LastWord(p, k, name)'
    <3>1. ASSUME NEW j \in k..Len(w.commands)
          PROVE  w.commands[j].name = name
      <4>1. i \in 1..Len(v.commands) /\ j \in 1..Len(w.commands) /\ j + 1 >= i
        BY <1>2, <1>4, <2>3, <3>1
      <4>2. QED
        BY <2>1, <2>3, <4>1
    <3>2. QED
      BY <3>1 DEF LastWord
  <2>4. QED
    BY <2>2, <2>3
<1>14. excused' \subseteq Clients /\ ExcusesStay
         /\ \A q \in Procs \ {p} : \A c \in server[q].conns : c \in excused => c \in excused'
  <2>1. \A c \in v.conns : peer[c] # "gone" /\ \A q \in Procs \ {p} : c \notin server[q].conns
    BY <1>1 DEF PeerInv
  <2>2. \A c \in excused \ v.conns : c \in excused'
    BY <1>3
  <2>3. excused' \subseteq Clients
    BY <1>1, <1>3, <1>5 DEF FanTypeOK
  <2>4. QED
    BY <2>1, <2>2, <2>3 DEF ExcusesStay
<1>11. ASSUME NEW c \in v.conns \ excused'
       PROVE  Heard(p, c)'
  <2>6. CASE r = command /\ w.listens = (command.name = "subscribe") /\ Serves(p)
    <3>1. \A i \in 1..Len(v.commands) : v.commands[i].name = "subscribe"
      BY <1>4, <2>6, ServerFields, LenProperties DEF Serves
    <3>2. LastWord(p, 1, "subscribe") /\ w.listens
      BY <1>4, <2>6, <3>1 DEF LastWord
    <3>3. LastWord(p, 1, "subscribe")'
      BY <1>10, <3>2
    <3>4. QED
      BY <3>2, <3>3 DEF Heard
  <2>7. SUFFICES ASSUME ~(r = command /\ w.listens = (command.name = "subscribe") /\ Serves(p))
                 PROVE  Heard(p, c)'
    BY <2>6
  <2>1. Heard(p, c)
    BY <1>1, <1>3, <1>11, <2>7 DEF QueueInv
  <2>2. CASE LastWord(p, 1, "subscribe") /\ (v.listens \/ command.by = c)
    <3>1. LastWord(p, 1, "subscribe")' /\ command.name = "subscribe"
      BY <1>10, <2>2
    <3>2. w.listens
      BY <1>3, <1>11, <2>2, <3>1
    <3>3. QED
      BY <3>1, <3>2 DEF Heard
  <2>3. ASSUME NEW i \in 2..Len(v.commands), v.commands[i].by = c, LastWord(p, i, "subscribe")
        PROVE  Heard(p, c)'
    <3>1. \A k : k = i - 1 => LastWord(p, k, "subscribe")'
      BY <1>10, <2>3
    <3>2. i - 1 \in 1..Len(w.commands) /\ w.commands[i - 1].by = c
      BY <1>2, <1>4, <2>3
    <3>3. QED
      BY <3>1, <3>2 DEF Heard
  <2>4. \A i \in 1..Len(v.commands) : i = 1 \/ i \in 2..Len(v.commands)
    BY <1>4
  <2>5. QED
    BY <2>1, <2>2, <2>3, <2>4 DEF Heard
<1>12. ASSUME v.conns = {}
       PROVE  Left(p)'
  <2>1. Left(p)
    BY <1>1, <1>12 DEF QueueInv
  <2>2. CASE LastWord(p, 1, "unsubscribe") /\ (~v.listens \/ peer[command.by] = "gone")
    <3>1. LastWord(p, 1, "unsubscribe")' /\ command.name = "unsubscribe"
      BY <1>10, <2>2
    <3>2. CASE ~w.listens
      BY <3>1, <3>2 DEF Left
    <3>3. CASE w.listens
      <4>1. command.by \in excused' /\ peer'[command.by] = "gone"
        BY <1>3, <1>6, <2>2, <3>1, <3>3
      <4>2. QED
        BY <4>1 DEF Left
    <3>4. QED
      BY <3>2, <3>3
  <2>3. ASSUME NEW i \in 2..Len(v.commands), peer[v.commands[i].by] = "gone",
               LastWord(p, i, "unsubscribe")
        PROVE  Left(p)'
    <3>1. \A k : k = i - 1 => LastWord(p, k, "unsubscribe")'
      BY <1>10, <2>3
    <3>2. i - 1 \in 1..Len(w.commands) /\ peer'[w.commands[i - 1].by] = "gone"
      BY <1>2, <1>4, <1>6, <2>3
    <3>3. QED
      BY <3>1, <3>2 DEF Left
  <2>4. CASE \E c \in excused : peer[c] = "gone"
    BY <1>6, <1>14, <2>4 DEF Left, ExcusesStay
  <2>5. \A i \in 1..Len(v.commands) : i = 1 \/ i \in 2..Len(v.commands)
    BY <1>4
  <2>6. QED
    BY <2>1, <2>2, <2>3, <2>4, <2>5 DEF Left
<1>13. \A q \in Procs : \A c \in server[q].conns, e \in Events :
         e \in sent[c] \cup skipped[c] \/ Came(q, e)
             => e \in sent'[c] \cup skipped'[c] \/ Came(q, e)'
  BY <1>2, <1>6, <1>7 DEF Came
<1>15. sent' \in [Clients -> SUBSET Events] /\ skipped' \in [Clients -> SUBSET Events]
  BY <1>1, <1>6 DEF FanTypeOK
<1>16. QED
  BY <1>2, <1>6, <1>9, <1>11, <1>12, <1>13, <1>14, <1>15, QueueStep

(* What a reply or a message does to the process that reads it.            *)
LEMMA ReceiveMoves ==
  ASSUME FanTypeOK, NEW p \in Procs, Receive(p)
  PROVE  LET v == server[p]
             w == server'[p]
             name == v.inbox[1].name
         IN  /\ server' \in [Procs -> Servers]
             /\ \A q \in Procs \ {p} : server'[q] = server[q]
             /\ Len(v.inbox) > 0
             /\ Len(w.inbox) = Len(v.inbox) - 1
             /\ \A i \in 1..Len(w.inbox) : w.inbox[i] = v.inbox[i + 1]
             /\ w.conns = v.conns /\ w.listens = v.listens /\ w.commands = v.commands
             /\ w.subscribed = Mark(p, name)
             /\ sent' = [c \in Clients |->
                  sent[c] \cup {e \in {name} \cap Events : c \in v.conns \ pinged}]
             /\ skipped' = [c \in Clients |->
                  skipped[c] \cup {e \in {name} \cap Events : c \in v.conns \cap pinged}]
<1> DEFINE v == server[p]
           w == server'[p]
           head == Head(v.inbox)
<1>1. v \in Servers /\ v.inbox # <<>>
  BY DEF FanTypeOK, Receive
<1>2. v.inbox \in Seq(Replies) /\ Len(v.inbox) \in Nat
  BY <1>1, ServerFields
<1>3. /\ Tail(v.inbox) \in Seq(Replies)
      /\ Len(Tail(v.inbox)) = Len(v.inbox) - 1
      /\ \A i \in 1..Len(Tail(v.inbox)) : Tail(v.inbox)[i] = v.inbox[i + 1]
  BY <1>1, <1>2, HeadTailProperties
<1>4. head = v.inbox[1] /\ Len(v.inbox) > 0
  BY <1>1, <1>2, EmptySeq
<1>5. Mark(p, head.name) \in BOOLEAN
  BY <1>1, ServerFields DEF Mark
<1>6. server' = [server EXCEPT ![p].inbox = Tail(@), ![p].subscribed = Mark(p, head.name)]
  BY DEF Receive
<1>7. /\ server' \in [Procs -> Servers]
      /\ \A q \in Procs \ {p} : server'[q] = server[q]
      /\ w.inbox = Tail(v.inbox) /\ w.subscribed = Mark(p, head.name)
      /\ w.conns = v.conns /\ w.listens = v.listens /\ w.commands = v.commands
  BY <1>3, <1>5, <1>6 DEF FanTypeOK, Servers
<1>8. QED
  BY <1>3, <1>4, <1>7 DEF Receive

LEMMA ReceiveStep ==
  ASSUME FanInv, NEW p \in Procs, Receive(p)
  PROVE  FanInv'
<1> DEFINE v == server[p]
           w == server'[p]
           name == v.inbox[1].name
<1>1. FanTypeOK /\ PeerInv /\ QueueInv /\ ToldInv
  BY DEF FanInv
<1>2. /\ server' \in [Procs -> Servers]
      /\ \A q \in Procs \ {p} : server'[q] = server[q]
      /\ Len(v.inbox) > 0
      /\ Len(w.inbox) = Len(v.inbox) - 1
      /\ \A i \in 1..Len(w.inbox) : w.inbox[i] = v.inbox[i + 1]
      /\ w.conns = v.conns /\ w.listens = v.listens /\ w.commands = v.commands
      /\ w.subscribed = Mark(p, name)
      /\ sent' = [c \in Clients |->
           sent[c] \cup {e \in {name} \cap Events : c \in v.conns \ pinged}]
      /\ skipped' = [c \in Clients |->
           skipped[c] \cup {e \in {name} \cap Events : c \in v.conns \cap pinged}]
  BY <1>1, ReceiveMoves
<1>3. v \in Servers /\ Len(v.inbox) \in Nat
  BY <1>1, ServerFields DEF FanTypeOK
<1>4. UNCHANGED <<peer, owed, excused>>
  BY DEF Receive
<1>5. \A e : Came(p, e) => e = name \/ Came(p, e)'
  <2>1. ASSUME NEW i \in 1..Len(v.inbox), i # 1
        PROVE  i - 1 \in 1..Len(w.inbox) /\ w.inbox[i - 1] = v.inbox[i]
    BY <1>2, <1>3, <2>1
  <2>2. QED
    BY <2>1 DEF Came
<1>6. Marked(p)
  BY <1>1 DEF QueueInv
<1>7. ASSUME NEW i \in 1..Len(v.inbox), v.inbox[i].name = "subscribe"
      PROVE  \/ v.listens
             \/ \E j \in 1..Len(w.inbox) : j + 1 > i /\ w.inbox[j].name = "unsubscribe"
  <2>1. CASE ~v.listens
    <3>1. PICK j \in i..Len(v.inbox) : v.inbox[j].name = "unsubscribe"
      BY <1>6, <1>7, <2>1 DEF Marked
    <3>2. j # i
      BY <1>7, <3>1
    <3>3. j - 1 \in 1..Len(w.inbox) /\ w.inbox[j - 1] = v.inbox[j] /\ (j - 1) + 1 > i
      BY <1>2, <1>3, <3>1, <3>2
    <3>4. QED
      BY <3>1, <3>3
  <2>2. QED
    BY <2>1
<1>8. Marked(p)'
  <2>1. ASSUME w.subscribed
        PROVE  w.listens \/ Came(p, "unsubscribe")'
    <3>1. CASE name = "subscribe"
      BY <1>2, <1>3, <1>7, <3>1 DEF Came
    <3>2. CASE name # "subscribe"
      <4>1. name # "unsubscribe" /\ v.subscribed
        BY <1>2, <2>1, <3>2 DEF Mark
      <4>2. QED
        BY <1>2, <1>5, <1>6, <4>1 DEF Marked
    <3>3. QED
      BY <3>1, <3>2
  <2>2. ASSUME NEW i \in 1..Len(w.inbox), w.inbox[i].name = "subscribe"
        PROVE  w.listens \/ \E j \in i..Len(w.inbox) : w.inbox[j].name = "unsubscribe"
    <3>1. i + 1 \in 1..Len(v.inbox) /\ v.inbox[i + 1].name = "subscribe"
      BY <1>2, <1>3, <2>2
    <3>2. v.listens \/ \E j \in 1..Len(w.inbox) : j + 1 > i + 1 /\ w.inbox[j].name = "unsubscribe"
      BY <1>7, <3>1
    <3>3. QED
      BY <1>2, <1>3, <3>2
  <2>3. QED
    BY <2>1, <2>2 DEF Marked
<1>9. /\ \A c : Heard(p, c) => Heard(p, c)'
      /\ Left(p) => Left(p)'
  BY <1>1, <1>2, <1>4, Frame DEF ExcusesStay
<1>10. \A c \in v.conns \ excused' : Heard(p, c)'
  BY <1>1, <1>4, <1>9 DEF QueueInv
<1>11. v.conns = {} => Left(p)'
  BY <1>1, <1>9 DEF QueueInv
<1>12. sent' \in [Clients -> SUBSET Events] /\ skipped' \in [Clients -> SUBSET Events]
  BY <1>1, <1>2 DEF FanTypeOK
<1>13. ASSUME NEW q \in Procs, NEW c \in server[q].conns, NEW e \in Events,
              e \in sent[c] \cup skipped[c] \/ Came(q, e)
       PROVE  e \in sent'[c] \cup skipped'[c] \/ Came(q, e)'
  <2>1. c \in Clients
    BY <1>1, ServerFields DEF FanTypeOK
  <2>2. sent[c] \subseteq sent'[c] /\ skipped[c] \subseteq skipped'[c]
    BY <1>2, <2>1
  <2>3. CASE q = p
    BY <1>2, <1>5, <1>13, <2>1, <2>2, <2>3
  <2>4. CASE q # p
    BY <1>2, <1>13, <2>2, <2>4 DEF Came
  <2>5. QED
    BY <2>3, <2>4
<1>14. excused' = excused /\ excused' \subseteq Clients /\ ExcusesStay
  BY <1>1, <1>4 DEF FanTypeOK, ExcusesStay
<1>15. QED
  BY <1>2, <1>4, <1>8, <1>10, <1>11, <1>12, <1>13, <1>14, QueueStep

LEMMA AnnounceStep ==
  ASSUME FanInv, NEW e \in Events, Announce(e)
  PROVE  FanInv'
<1>1. FanTypeOK /\ PeerInv /\ QueueInv /\ ToldInv
  BY DEF FanInv
<1>2. /\ server' = [p \in Procs |->
           IF server[p].listens
             THEN [server[p] EXCEPT !.inbox = Append(@, [name |-> e])]
             ELSE server[p]]
      /\ owed' = [c \in Clients |->
           IF \E p \in Procs : Settled(p) /\ c \in server[p].conns \ excused
             THEN owed[c] \cup {e} ELSE owed[c]]
      /\ UNCHANGED <<peer, sent, skipped, excused>>
  BY DEF Announce
<1>3. ASSUME NEW p \in Procs
      PROVE  /\ server'[p] \in Servers
             /\ server'[p].conns = server[p].conns
             /\ server'[p].commands = server[p].commands
             /\ server'[p].listens = server[p].listens
             /\ server'[p].subscribed = server[p].subscribed
             /\ \A n : Came(p, n) => Came(p, n)'
             /\ server[p].listens => Came(p, e)'
             /\ Marked(p) => Marked(p)'
    <2> DEFINE v == server[p]
    <2>1. v \in Servers /\ v.inbox \in Seq(Replies) /\ Len(v.inbox) \in Nat
      BY <1>1, ServerFields DEF FanTypeOK
    <2>2. [name |-> e] \in Replies
      BY DEF Replies
    <2>3. CASE v.listens
      <3>1. /\ Append(v.inbox, [name |-> e]) \in Seq(Replies)
            /\ Len(Append(v.inbox, [name |-> e])) = Len(v.inbox) + 1
            /\ \A i \in 1..Len(v.inbox) : Append(v.inbox, [name |-> e])[i] = v.inbox[i]
            /\ Append(v.inbox, [name |-> e])[Len(v.inbox) + 1].name = e
        BY <2>1, <2>2, AppendProperties
      <3>2. server'[p] = [v EXCEPT !.inbox = Append(@, [name |-> e])]
        BY <1>2, <2>3
      <3>3. /\ server'[p] \in Servers
            /\ server'[p].conns = v.conns /\ server'[p].commands = v.commands
            /\ server'[p].listens = v.listens /\ server'[p].subscribed = v.subscribed
            /\ server'[p].inbox = Append(v.inbox, [name |-> e])
        BY <2>1, <3>1, <3>2 DEF Servers
      <3>4. \A n : (Came(p, n) => Came(p, n)') /\ Came(p, e)'
        BY <2>1, <3>1, <3>3 DEF Came
      <3>5. Marked(p)'
        BY <2>3, <3>3 DEF Marked
      <3>6. QED
        BY <3>3, <3>4, <3>5
    <2>4. CASE ~v.listens
      <3>1. server'[p] = v
        BY <1>2, <2>4
      <3>2. QED
        BY <2>1, <2>4, <3>1 DEF Came, Marked
    <2>5. QED
      BY <2>3, <2>4
<1>4. FanTypeOK'
  <2>1. server' \in [Procs -> Servers]
    BY <1>2, <1>3
  <2>2. QED
    BY <1>1, <1>2, <2>1 DEF FanTypeOK
<1>5. \A p \in Procs : server[p].conns \subseteq Clients
  BY <1>1, ServerFields DEF FanTypeOK
<1>6. PeerInv'
  <2>1. \A c \in Clients : (\A p \in Procs : c \notin server[p].conns) => owed'[c] = owed[c]
    BY <1>2
  <2>2. QED
    BY <1>1, <1>2, <1>3, <1>5, <2>1 DEF PeerInv
<1>7. QueueInv'
  <2>1. \A p \in Procs : /\ \A c : Heard(p, c) => Heard(p, c)'
                         /\ Left(p) => Left(p)'
    BY <1>1, <1>2, <1>3, Frame DEF ExcusesStay
  <2>2. QED
    BY <1>1, <1>2, <1>3, <2>1 DEF QueueInv
<1>8. ASSUME NEW p \in Procs, NEW c \in server[p].conns, NEW f \in owed'[c]
      PROVE  f \in sent[c] \cup skipped[c] \/ Came(p, f)'
  <2>1. c \in Clients
    BY <1>5
  <2>2. CASE f \in owed[c]
    BY <1>1, <1>3, <2>2 DEF ToldInv
  <2>3. CASE f \notin owed[c]
    <3>1. f = e /\ \E q \in Procs : Settled(q) /\ c \in server[q].conns \ excused
      BY <1>2, <1>8, <2>1, <2>3
    <3>2. Settled(p) /\ c \notin excused
      BY <1>1, <3>1 DEF PeerInv
    <3>3. Heard(p, c) /\ Len(server[p].commands) = 0
      BY <1>1, <3>2, SettledMeans DEF QueueInv
    <3>4. server[p].listens
      BY <3>3 DEF Heard
    <3>5. QED
      BY <1>3, <3>1, <3>4
  <2>4. QED
    BY <2>2, <2>3
<1>9. ToldInv'
  BY <1>2, <1>3, <1>8 DEF ToldInv
<1>10. QED
  BY <1>4, <1>6, <1>7, <1>9 DEF FanInv

(* A process that goes down loses its clients, and nobody else's.          *)
LEMMA BusInvStep ==
  ASSUME FanInv, BusStep
  PROVE  FanInv'
<1> DEFINE down == {p \in Procs : status'[p] = "down"}
           lost == UNION {server[p].conns : p \in down}
<1>1. FanTypeOK /\ PeerInv /\ QueueInv /\ ToldInv
  BY DEF FanInv
<1>2. /\ server' = [p \in Procs |-> IF p \in down THEN Nobody ELSE server[p]]
      /\ peer' = [c \in Clients |-> IF c \in lost THEN "gone" ELSE peer[c]]
      /\ owed' = [c \in Clients |-> IF c \in lost THEN {} ELSE owed[c]]
      /\ sent' = [c \in Clients |-> IF c \in lost THEN {} ELSE sent[c]]
      /\ skipped' = [c \in Clients |-> IF c \in lost THEN {} ELSE skipped[c]]
      /\ UNCHANGED excused
  BY DEF BusStep, Forget
<1>3. Nobody \in Servers /\ Nobody.conns = {} /\ Nobody.subscribed = FALSE
      /\ Nobody.listens = FALSE /\ Nobody.commands = <<>> /\ Nobody.inbox = <<>>
  BY EmptySeq DEF Nobody, Servers
<1>4. FanTypeOK'
  BY <1>1, <1>2, <1>3 DEF FanTypeOK
<1>5. \A p \in Procs : server[p].conns \subseteq Clients
  BY <1>1, ServerFields DEF FanTypeOK
<1>6. \A p \in Procs \ down : server'[p] = server[p] /\ \A c \in server[p].conns : c \notin lost
  BY <1>1, <1>2 DEF PeerInv
<1>7. \A p \in down : server'[p] = Nobody
  BY <1>2
<1>8. PeerInv'
  <2>1. ASSUME NEW p \in Procs, NEW c \in server'[p].conns
        PROVE  /\ peer'[c] \in {"there", "silent"}
               /\ \A q \in Procs : c \in server'[q].conns => q = p
    <3>1. p \notin down /\ c \in server[p].conns /\ c \in Clients /\ c \notin lost
      BY <1>3, <1>5, <1>6, <1>7, <2>1
    <3>2. peer'[c] = peer[c]
      BY <1>2, <3>1
    <3>3. \A q \in Procs : c \in server'[q].conns => c \in server[q].conns
      BY <1>3, <1>6, <1>7
    <3>4. QED
      BY <1>1, <3>1, <3>2, <3>3 DEF PeerInv
  <2>2. ASSUME NEW c \in Clients, \A p \in Procs : c \notin server'[p].conns
        PROVE  owed'[c] = {}
    <3>1. CASE c \in lost
      BY <1>2, <3>1
    <3>2. CASE c \notin lost
      <4>1. \A p \in Procs : c \notin server[p].conns
        BY <1>6, <2>2, <3>2
      <4>2. QED
        BY <1>1, <1>2, <3>2, <4>1 DEF PeerInv
    <3>3. QED
      BY <3>1, <3>2
  <2>3. QED
    BY <2>1, <2>2 DEF PeerInv
<1>9. \A p \in Procs \ down : /\ \A c : Heard(p, c) => Heard(p, c)'
                              /\ Left(p) => Left(p)'
                              /\ Marked(p)'
  <2>1. \A c \in Clients : peer[c] = "gone" => peer'[c] = "gone"
    BY <1>2
  <2>2. QED
    BY <1>1, <1>2, <1>6, <2>1, Frame, MarkedFrame DEF QueueInv, ExcusesStay
<1>10. \A p \in down : Marked(p)' /\ Left(p)' /\ server'[p].conns = {}
  <2>1. Len(<<>>) = 0
    BY EmptySeq
  <2>2. QED
    BY <1>3, <1>7, <2>1 DEF Marked, Left, LastWord
<1>11. QueueInv'
  BY <1>1, <1>2, <1>6, <1>9, <1>10 DEF QueueInv
<1>12. ToldInv'
  <2>1. ASSUME NEW p \in Procs, NEW c \in server'[p].conns, NEW e \in owed'[c]
        PROVE  e \in sent'[c] \cup skipped'[c] \/ Came(p, e)'
    <3>1. p \notin down /\ c \in server[p].conns /\ c \in Clients /\ c \notin lost
      BY <1>5, <1>6, <1>10, <2>1
    <3>2. UNCHANGED <<owed[c], sent[c], skipped[c], server[p]>>
      BY <1>2, <1>6, <3>1
    <3>3. QED
      BY <1>1, <2>1, <3>1, <3>2 DEF ToldInv, Came
  <2>2. QED
    BY <2>1 DEF ToldInv
<1>13. QED
  BY <1>4, <1>8, <1>11, <1>12 DEF FanInv

-----------------------------------------------------------------------------
LEMMA FanInvAlways == FanSpec => []FanInv
<1>1. FanInit => FanInv
  <2>1. SUFFICES ASSUME FanInit PROVE FanInv
    OBVIOUS
  <2>2. Nobody \in Servers /\ Nobody.conns = {} /\ Nobody.subscribed = FALSE
        /\ Nobody.listens = FALSE /\ Nobody.commands = <<>> /\ Nobody.inbox = <<>>
    BY EmptySeq DEF Nobody, Servers
  <2>3. FanTypeOK
    BY <2>1, <2>2 DEF FanInit, FanTypeOK
  <2>4. Len(<<>>) = 0 /\ \A p \in Procs : server[p] = Nobody
    BY <2>1, EmptySeq DEF FanInit
  <2>5. PeerInv /\ ToldInv
    BY <2>1, <2>2, <2>4 DEF FanInit, PeerInv, ToldInv
  <2>6. QueueInv
    BY <2>2, <2>4 DEF QueueInv, Marked, Left, LastWord
  <2>7. QED
    BY <2>3, <2>5, <2>6 DEF FanInv
<1>2. FanInv /\ [FanNext]_allVars => FanInv'
  <2>1. ASSUME FanInv, UNCHANGED allVars
        PROVE  FanInv'
    BY <2>1, QuietStep DEF allVars, fanVars
  <2>2. QED
    BY <2>1, ClientInvStep, ExecuteStep, ReceiveStep, AnnounceStep, BusInvStep
       DEF FanNext, FanStep
<1>3. QED
  BY <1>1, <1>2, PTL DEF FanSpec

(* However clients of a tenant come, go and fall silent, whatever          *)
(* processes crash and however subscribe and unsubscribe commands overlap  *)
(* or fail: what a client is owed has been written to its socket, was kept *)
(* from it for a ping without a pong, or is on its way, for queues of any  *)
(* length (websocket-server.ts, add, remove, fanout).                      *)
THEOREM ClientsAreAlwaysTold == FanSpec => []ClientsAreTold
<1>1. FanInv => ClientsAreTold
  BY UnderWayDef DEF FanInv, ToldInv, ClientsAreTold
<1>2. QED
  BY <1>1, FanInvAlways, PTL

(* A process that serves nobody and has nothing under way does not listen  *)
(* to the channel, unless a command failed whose client has left.          *)
THEOREM LastOneAlwaysUnsubscribes == FanSpec => []LastOneUnsubscribes
<1>1. FanInv => LastOneUnsubscribes
  <2>1. ASSUME FanInv, NEW p \in Procs, Settled(p), server[p].conns = {}, server[p].listens
        PROVE  \E c \in excused : peer[c] = "gone"
    <3>1. FanTypeOK /\ Left(p)
      BY <2>1 DEF FanInv, QueueInv
    <3>2. Len(server[p].commands) = 0
      BY <2>1, <3>1, SettledMeans
    <3>3. QED
      BY <2>1, <3>1, <3>2 DEF Left
  <2>2. QED
    BY <2>1 DEF LastOneUnsubscribes
<1>2. QED
  BY <1>1, FanInvAlways, PTL

(* With its announcements the bus is still the bus: whatever holds of      *)
(* every behaviour of EventDelivery holds when clients are served as well. *)
THEOREM FanoutKeepsDelivery == FanSpec => Spec
<1>1. FanInit => Init
  BY DEF FanInit
<1>2. [FanNext]_allVars => [Next]_vars
  BY DEF FanNext, BusStep, allVars
<1>3. QED
  BY <1>1, <1>2, PTL DEF FanSpec, Spec

=============================================================================
