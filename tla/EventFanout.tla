----------------------------- MODULE EventFanout -----------------------------
(***************************************************************************)
(* The other way out of the bus: what publish announces on the tenant's    *)
(* Redis channel (services/event-bus.ts), and the websocket clients that   *)
(* each process serves from one shared subscription to that channel        *)
(* (services/websocket-server.ts).                                         *)
(*                                                                         *)
(* A process talks to Redis over one subscriber connection: commands are   *)
(* executed, and replies and messages come back, in order.  Tokens, the    *)
(* welcome message and the clients' own pings are left out, and so is that *)
(* connection's loss.                                                      *)
(***************************************************************************)
EXTENDS EventDelivery

CONSTANTS
    Clients,       \* connections; a client that comes back is another one
    Visits,        \* who may connect where, for each value of `subscribed'
    Scoped         \* the events that carry a tenantId

ASSUME FanoutAssumption ==
    /\ Visits \in [Subscriptions -> SUBSET (Clients \X Procs)]
    /\ Scoped \subseteq Events
    /\ {"subscribe", "unsubscribe", "failed"} \cap Events = {}

VARIABLES
    announced,     \* the events whose PUBLISH was executed, or is lost
    server,        \* of each process: its sockets and its subscription
    peer,          \* each client: "new", "there", "silent" or "gone"
    pinged,        \* clients with a ping outstanding (not conn.alive)
    owed,          \* history: what each client should be told of, ...
    sent,          \* ... what fanout handed to its socket, ...
    skipped,       \* ... and what it did not, for a ping without a pong
    excused        \* history: clients whose connect met an unsubscribe in
                   \* flight, or whose command failed, until a subscribe of
                   \* another client makes up for it

fanVars == <<announced, server, peer, pinged, owed, sent, skipped, excused>>
allVars == <<vars, fanVars>>

Nobody ==
    [conns |-> {}, subscribed |-> FALSE, listens |-> FALSE,
     commands |-> <<>>, inbox |-> <<>>]

FanInit ==
    /\ Init
    /\ announced = {}
    /\ server = [p \in Procs |-> Nobody]
    /\ peer = [c \in Clients |-> "new"]
    /\ pinged = {}
    /\ owed = [c \in Clients |-> {}]
    /\ sent = [c \in Clients |-> {}]
    /\ skipped = [c \in Clients |-> {}]
    /\ excused = {}

Ask(p, name, c) ==
    Append(server[p].commands, [name |-> name, by |-> c])

(* What a process has under way: commands that are not executed, replies   *)
(* and messages that are not read.                                         *)
UnderWay(p) ==
    {server[p].commands[i].name : i \in DOMAIN server[p].commands}
      \cup {server[p].inbox[i].name : i \in DOMAIN server[p].inbox}

Settled(p) == UnderWay(p) \subseteq Events

-----------------------------------------------------------------------------
(* add: the connection joins the tenant's set, and the channel is          *)
(* subscribed to unless it is known to be.                                 *)
Add(c, p) ==
    LET asks == ~server[p].subscribed
    IN  /\ server' = [server EXCEPT
             ![p].conns = @ \cup {c},
             ![p].commands = IF asks THEN Ask(p, "subscribe", c) ELSE @]
        /\ excused' = IF ~asks /\ "unsubscribe" \in UnderWay(p)
                        THEN excused \cup {c} ELSE excused

Connect(c, p) ==
    /\ <<c, p>> \in Visits[subscribed]
    /\ peer[c] = "new"
    /\ status[p] = "up"
    /\ Add(c, p)
    /\ peer' = [peer EXCEPT ![c] = "there"]
    /\ UNCHANGED <<announced, pinged, owed, sent, skipped>>

(* remove: when the last connection leaves, the channel is unsubscribed    *)
(* from.  (Mutant: the set is looked at before it has left.)               *)
LeftEmpty(c, p) == server[p].conns = {}

LastLeaves(c, p) == server[p].conns = {c}

Remove(c, p) ==
    server' = [server EXCEPT
      ![p].conns = @ \ {c},
      ![p].commands = IF LastLeaves(c, p) THEN Ask(p, "unsubscribe", c) ELSE @]

(* There is no promise to those that have left.                            *)
Forget(cs) ==
    /\ owed' = [c \in Clients |-> IF c \in cs THEN {} ELSE owed[c]]
    /\ sent' = [c \in Clients |-> IF c \in cs THEN {} ELSE sent[c]]
    /\ skipped' = [c \in Clients |-> IF c \in cs THEN {} ELSE skipped[c]]

(* cleanup, after a close, an error or the end of a silent connection.     *)
Cleanup(c, p) ==
    /\ c \in server[p].conns
    /\ Remove(c, p)
    /\ peer' = [peer EXCEPT ![c] = "gone"]
    /\ pinged' = pinged \ {c}
    /\ Forget({c})
    /\ UNCHANGED <<announced, excused>>

Leave(c, p) == peer[c] = "there" /\ Cleanup(c, p)

(* The client's network goes away without a word.                          *)
FallSilent(c) ==
    /\ peer[c] = "there"
    /\ peer' = [peer EXCEPT ![c] = "silent"]
    /\ UNCHANGED <<announced, server, pinged, owed, sent, skipped, excused>>

(* Every 30 s: no pong since the last ping ends the connection, otherwise  *)
(* there is another ping.  (Mutant: alive is not reset by a ping.)         *)
PingAgain(c) == UNCHANGED pinged

Ping(c) == pinged' = pinged \cup {c}

Heartbeat(c, p) ==
    /\ c \in server[p].conns
    /\ \/ c \in pinged /\ Cleanup(c, p)
       \/ /\ c \notin pinged
          /\ Ping(c)
          /\ UNCHANGED <<announced, server, peer, owed, sent, skipped, excused>>

Pong(c) ==
    /\ c \in pinged
    /\ peer[c] = "there"
    /\ pinged' = pinged \ {c}
    /\ UNCHANGED <<announced, server, peer, owed, sent, skipped, excused>>

-----------------------------------------------------------------------------
(* Redis executes a command of the subscriber connection; one that fails   *)
(* has no effect.  A subscribe that no unsubscribe follows serves all who  *)
(* are connected.                                                          *)
Serves(p) ==
    \A i \in DOMAIN server[p].commands :
      server[p].commands[i].name = "subscribe"

Execute(p) ==
    LET command == Head(server[p].commands)
        Reply(r) == [server EXCEPT ![p].commands = Tail(@),
                                   ![p].inbox = Append(@, r)]
    IN  /\ server[p].commands # <<>>
        /\ \/ /\ server' = [Reply(command) EXCEPT
                   ![p].listens = command.name = "subscribe"]
              /\ excused' = IF Serves(p) THEN excused \ server[p].conns
                                         ELSE excused
           \/ /\ RedisFails
              /\ server' = Reply([command EXCEPT !.name = "failed"])
              /\ excused' = excused \cup {command.by}
        /\ UNCHANGED <<announced, peer, pinged, owed, sent, skipped>>

(* PUBLISH, after the XADD and also when that failed, for every process    *)
(* that listens; left out where no client ever comes.                      *)
Announce(e) ==
    /\ e \in Scoped \ announced
    /\ Visits[subscribed] # {}
    /\ e \in published \/ subscribed = {} \/ RedisFails
    /\ announced' = announced \cup {e}
    /\ server' = [p \in Procs |->
         IF server[p].listens
           THEN [server[p] EXCEPT !.inbox = Append(@, [name |-> e])]
           ELSE server[p]]
    /\ owed' = [c \in Clients |->
         IF \E p \in Procs : Settled(p) /\ c \in server[p].conns \ excused
           THEN owed[c] \cup {e} ELSE owed[c]]
    /\ UNCHANGED <<peer, pinged, sent, skipped, excused>>

(* The continuations of subscribe and unsubscribe, and fanout, which skips *)
(* those with a ping outstanding.                                          *)
(* (Mutant: unsubscribe forgets to clear the mark.)                        *)
MarkKept(p, name) == server[p].subscribed \/ name = "subscribe"

Mark(p, name) ==
    CASE name = "subscribe"   -> TRUE
      [] name = "unsubscribe" -> FALSE
      [] OTHER                -> server[p].subscribed

Receive(p) ==
    LET name == Head(server[p].inbox).name
    IN  /\ server[p].inbox # <<>>
        /\ server' = [server EXCEPT ![p].inbox = Tail(@),
                                    ![p].subscribed = Mark(p, name)]
        /\ sent' = [c \in Clients |->
             sent[c] \cup
               {e \in {name} \cap Events : c \in server[p].conns \ pinged}]
        /\ skipped' = [c \in Clients |->
             skipped[c] \cup
               {e \in {name} \cap Events : c \in server[p].conns \cap pinged}]
        /\ UNCHANGED <<announced, peer, pinged, owed, excused>>

-----------------------------------------------------------------------------
ClientStep ==
    \/ \E c \in Clients, p \in Procs :
         Connect(c, p) \/ Leave(c, p) \/ Heartbeat(c, p)
    \/ \E c \in Clients : FallSilent(c) \/ Pong(c)

FanStep ==
    \/ ClientStep
    \/ \E p \in Procs : Execute(p) \/ Receive(p)
    \/ \E e \in Events : Announce(e)

(* A process that exits takes its connections along.  An event is added to *)
(* the stream before it is announced or not at all; where no group reads   *)
(* the stream, what is added to it is left out.                            *)
BusStep ==
    LET down == {p \in Procs : status'[p] = "down"}
        lost == UNION {server[p].conns : p \in down}
    IN  /\ Next
        /\ published' # published => subscribed # {}
        /\ (published' \ published) \cap announced = {}
        /\ server' = [p \in Procs |->
             IF p \in down THEN Nobody ELSE server[p]]
        /\ peer' = [c \in Clients |-> IF c \in lost THEN "gone" ELSE peer[c]]
        /\ pinged' = pinged \ lost
        /\ Forget(lost)
        /\ UNCHANGED <<announced, excused>>

FanNext == BusStep \/ (FanStep /\ UNCHANGED vars)

(* The timers fire, and Redis and the subscriber connection go on.         *)
FanFairness ==
    /\ \A p \in Procs :
         WF_allVars((Execute(p) \/ Receive(p)) /\ UNCHANGED vars)
    /\ \A c \in Clients :
         WF_allVars(\E p \in Procs : Heartbeat(c, p) /\ UNCHANGED vars)

FanSpec ==
    FanInit /\ [][FanNext]_allVars /\ Fairness /\ FanFairness

-----------------------------------------------------------------------------
(* Properties.                                                             *)

(* websocket-server.ts:23-27: however connections of one tenant come and   *)
(* go while subscribe and unsubscribe are awaited, what is announced once  *)
(* nothing is under way reaches the socket of every client, or is on its   *)
(* way there.  The code makes two exceptions.  A client whose ping has no  *)
(* pong yet is skipped, silent or not (line 77).  A client that found the  *)
(* channel marked while an unsubscribe was in flight (line 59), or whose   *)
(* own subscribe failed, is told nothing, but only until another client    *)
(* subscribes.                                                             *)
ClientsAreTold ==
    \A p \in Procs : \A c \in server[p].conns : \A e \in owed[c] :
      e \in sent[c] \cup skipped[c] \cup UnderWay(p)

(* "when the last one drops, we unsubscribe": once nothing is under way, a *)
(* process without clients does not listen, unless a command failed.       *)
LastOneUnsubscribes ==
    \A p \in Procs :
      Settled(p) /\ server[p].conns = {} /\ server[p].listens
        => \E c \in excused : peer[c] = "gone"

(* websocket-server.ts:143-158: a client that falls silent is dropped in   *)
(* the end, whatever is under way.                                         *)
SilentIsDropped == \A c \in Clients : peer[c] = "silent" ~> peer[c] = "gone"

=============================================================================
