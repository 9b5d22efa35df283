------------------------------ MODULE LivePush ------------------------------
(***************************************************************************)
(* The backend's WebSocket pusher (internal/backend/wspush) and the        *)
(* handler of a browser's connection (internal/backend/handler/ws.go).     *)
(*                                                                         *)
(* One goroutine reads the event streams through the group "ws-push" and   *)
(* broadcasts each event to the clients in the pusher's map, under a read  *)
(* lock.  Each client has a handler, which registers it, reads until the   *)
(* connection ends and unregisters it, and a write pump, which takes from  *)
(* the client's bounded channel.                                           *)
(*                                                                         *)
(* One backend process, killed and started again.  Entries that cannot be  *)
(* parsed, which nobody writes, are left out; so is the consumer's second  *)
(* process during a rolling update, which takes events away from this one. *)
(***************************************************************************)
EXTENDS RedisStream, Sequences, Functions

CONSTANTS
    Clients,     \* connections: each is made once
    Agents,
    NoAgent,     \* an event of no agent, a client that receives all
    NumStreams,  \* streams in Run, visited in order
    MaxEntries,  \* bound on the entries ever added to one stream
    MaxLen,      \* MAXLEN of the producers' XADD
    BatchSize,   \* COUNT of a read
    ChannelSize, \* of a client's channel
    MaxFaults    \* bound on kills and lost replies

ASSUME LivePushAssumption ==
    /\ NoAgent \notin Agents
    /\ NumStreams \in Nat \ {0}
    /\ MaxEntries \in Nat
    /\ MaxLen \in Nat \ {0}
    /\ BatchSize \in Nat \ {0}
    /\ ChannelSize \in Nat \ {0}
    /\ MaxFaults \in Nat

Streams == 1 .. NumStreams
Ids     == 1 .. MaxEntries
Entries == Streams \X Ids
Names   == Agents \cup {NoAgent}

VARIABLES
    \* Redis, per stream
    added, first, grouped, delivered, pel,
    agent,      \* the agent of an entry's event
    \* Pusher.Run
    pc,         \* "down", "read", "push", "send" (the read lock is held), "ack"
    turn,       \* the stream its loop is at
    batch,      \* messages not yet broadcast
    ids,        \* messages to acknowledge
    todo,       \* clients the broadcast has yet to visit
    \* per client
    conn,       \* its handler: "new", "reading" (registered), "done"
    alive,      \* the connection works
    filter,     \* agentID
    channel,    \* send
    pump,       \* its write pump: "none", "run", "ended"
    got,        \* what the browser received
    \* observability only
    handed,     \* entries the group ever delivered
    pushed,     \* entries whose broadcast was finished
    excused,    \* what a client need not get: pushed before it was registered,
                \* or when its channel was full
    \* bound
    faults

streamVars == <<added, first, grouped, delivered, pel, agent, handed>>
runVars    == <<pc, turn, batch, ids, todo, pushed>>
netVars    == <<conn, alive, filter>>
pumpVars   == <<pump, got>>
queueVars  == <<channel, excused>>
clientVars == <<netVars, pumpVars, queueVars>>
pushVars == <<streamVars, runVars, clientVars, faults>>

PushInit ==
    /\ added = [s \in Streams |-> 0]
    /\ first = [s \in Streams |-> 1]
    /\ grouped = [s \in Streams |-> FALSE]
    /\ delivered = [s \in Streams |-> 0]
    /\ pel = [s \in Streams |-> {}]
    /\ agent = [e \in Entries |-> NoAgent]
    /\ handed = [s \in Streams |-> {}]
    /\ pc = "down"
    /\ turn = 1
    /\ batch = <<>>
    /\ ids = {}
    /\ todo = {}
    /\ pushed = {}
    /\ conn = [c \in Clients |-> "new"]
    /\ alive = [c \in Clients |-> TRUE]
    /\ filter = [c \in Clients |-> NoAgent]
    /\ pump = [c \in Clients |-> "none"]
    /\ got = [c \in Clients |-> <<>>]
    /\ channel = [c \in Clients |-> <<>>]
    /\ excused = [c \in Clients |-> {}]
    /\ faults = 0

Fault == faults < MaxFaults /\ faults' = faults + 1

\* What a connection was for is forgotten.
Forget(C) ==
    /\ filter' = [c \in Clients |-> IF c \in C THEN NoAgent ELSE filter[c]]
    /\ got' = [c \in Clients |-> IF c \in C THEN <<>> ELSE got[c]]
    /\ excused' = [c \in Clients |-> IF c \in C THEN {} ELSE excused[c]]

\* Pusher.clients, whose channels are open.
clients == {c \in Clients : conn[c] = "reading"}

-----------------------------------------------------------------------------
(* Redis                                                                   *)

\* The gateway, the collector or the detector appends an event.
Publish(s) ==
    /\ added[s] < MaxEntries
    /\ added' = [added EXCEPT ![s] = @ + 1]
    /\ \E f \in TrimmedTo(first[s], added'[s], MaxLen) :
          first' = [first EXCEPT ![s] = f]
    /\ \E a \in Names : agent' = [agent EXCEPT ![<<s, added'[s]>>] = a]
    /\ UNCHANGED <<grouped, delivered, pel, handed, runVars, clientVars, faults>>

-----------------------------------------------------------------------------
(* The process                                                             *)

\* The backend starts: it creates the groups at the streams' ends, unless they
\* exist, and ignores an error.
Start ==
    /\ pc = "down"
    /\ \/ /\ grouped' = [s \in Streams |-> TRUE]
          /\ delivered' = [s \in Streams |->
                              IF grouped[s] THEN delivered[s] ELSE added[s]]
          /\ UNCHANGED faults
       \/ Fault /\ UNCHANGED <<grouped, delivered>>
    /\ pc' = "read"
    /\ turn' = 1
    /\ UNCHANGED <<added, first, pel, agent, handed, batch, ids, todo, pushed,
                   clientVars>>

\* The backend is killed; its connections end.
Kill ==
    /\ pc # "down"
    /\ Fault
    /\ pc' = "down"
    /\ batch' = <<>>
    /\ ids' = {}
    /\ todo' = {}
    /\ conn' = [c \in Clients |-> IF conn[c] = "new" THEN "new" ELSE "done"]
    /\ alive' = [c \in Clients |-> conn[c] = "new"]
    /\ pump' = [c \in Clients |-> IF pump[c] = "none" THEN "none" ELSE "ended"]
    /\ channel' = [c \in Clients |-> <<>>]
    /\ Forget(Clients)
    /\ UNCHANGED <<streamVars, turn, pushed>>

-----------------------------------------------------------------------------
(* Pusher.Run                                                              *)

NextTurn == turn' = IF turn = NumStreams THEN 1 ELSE turn + 1

\* The run of a read's entries.
From(s) == FreshFrom(first[s], delivered[s])
To(s)   == FreshTo(first[s], added[s], delivered[s], BatchSize)
New(s)  == Fresh(first[s], added[s], delivered[s], BatchSize)

\* Mutant of Read: it goes back to the oldest pending entry.
ReadPending ==
    /\ pc = "read"
    /\ grouped[turn]
    /\ pel[turn] \cup New(turn) # {}
    /\ delivered' = [delivered EXCEPT ![turn] = To(turn)]
    /\ pel' = [pel EXCEPT ![turn] = @ \cup New(turn)]
    /\ handed' = [handed EXCEPT ![turn] = @ \cup New(turn)]
    /\ pc' = "push"
    /\ batch' = MessagesOf(CHOOSE i \in pel'[turn] : \A j \in pel'[turn] : i <= j, To(turn))
    /\ ids' = pel'[turn]
    /\ UNCHANGED <<added, first, grouped, agent, turn, todo, pushed, clientVars,
                   faults>>

\* The group hands out the messages; a reply that is lost leaves them pending.
Read ==
    /\ pc = "read"
    /\ grouped[turn]
    /\ New(turn) # {}
    /\ delivered' = [delivered EXCEPT ![turn] = To(turn)]
    /\ pel' = [pel EXCEPT ![turn] = @ \cup New(turn)]
    /\ handed' = [handed EXCEPT ![turn] = @ \cup New(turn)]
    /\ \/ /\ pc' = "push"
          /\ batch' = MessagesOf(From(turn), To(turn))
          /\ ids' = New(turn)
          /\ UNCHANGED <<turn, faults>>
       \/ /\ Fault
          /\ NextTurn
          /\ UNCHANGED <<pc, batch, ids>>
    /\ UNCHANGED <<added, first, grouped, agent, todo, pushed, clientVars>>

\* Nothing new within a second, or an error.
ReadNothing ==
    /\ pc = "read"
    /\ ~grouped[turn] \/ New(turn) = {}
    /\ NextTurn
    /\ UNCHANGED <<streamVars, pc, batch, ids, todo, pushed, clientVars, faults>>

\* broadcast takes the read lock.
Broadcast ==
    /\ pc = "push"
    /\ pc' = "send"
    /\ todo' = clients
    /\ UNCHANGED <<streamVars, turn, batch, ids, pushed, clientVars, faults>>

Event == <<turn, Head(batch)>>

Matches(c, e) == filter[c] \in {NoAgent, agent[e]}

\* Mutant of Send: a full channel is waited for.
SendBlocking(c) ==
    /\ pc = "send"
    /\ c \in todo
    /\ todo' = todo \ {c}
    /\ \/ /\ Matches(c, Event)
          /\ Len(channel[c]) < ChannelSize
          /\ channel' = [channel EXCEPT ![c] = Append(@, Event)]
          /\ UNCHANGED excused
       \/ /\ ~Matches(c, Event)
          /\ UNCHANGED queueVars
    /\ UNCHANGED <<streamVars, pc, turn, batch, ids, pushed, netVars, pumpVars,
                   faults>>

\* The clients in the order of a Go map, which is none; a full channel is
\* skipped.
Send(c) ==
    /\ pc = "send"
    /\ c \in todo
    /\ todo' = todo \ {c}
    /\ \/ /\ Matches(c, Event)
          /\ Len(channel[c]) < ChannelSize
          /\ channel' = [channel EXCEPT ![c] = Append(@, Event)]
          /\ UNCHANGED excused
       \/ /\ Matches(c, Event)
          /\ Len(channel[c]) = ChannelSize
          /\ excused' = [excused EXCEPT ![c] = @ \cup {Event}]
          /\ UNCHANGED channel
       \/ /\ ~Matches(c, Event)
          /\ UNCHANGED queueVars
    /\ UNCHANGED <<streamVars, pc, turn, batch, ids, pushed, netVars, pumpVars,
                   faults>>

\* broadcast releases the lock.
Sent ==
    /\ pc = "send"
    /\ todo = {}
    /\ pushed' = pushed \cup {Event}
    /\ batch' = Tail(batch)
    /\ pc' = IF Len(batch) = 1 THEN "ack" ELSE "push"
    /\ UNCHANGED <<streamVars, turn, ids, todo, clientVars, faults>>

\* The error of ACK is ignored.
Ack ==
    /\ pc = "ack"
    /\ \/ /\ pel' = [pel EXCEPT ![turn] = @ \ ids]
          /\ UNCHANGED faults
       \/ Fault /\ UNCHANGED pel
    /\ pc' = "read"
    /\ ids' = {}
    /\ NextTurn
    /\ UNCHANGED <<added, first, grouped, delivered, agent, handed, batch, todo,
                   pushed, clientVars>>

-----------------------------------------------------------------------------
(* A connection                                                            *)

\* No broadcast holds the read lock.
Unlocked == pc # "send"

\* A client is in the map, for the events of one agent or for all.
Enter(c) ==
    /\ pc # "down"
    /\ conn[c] = "new"
    /\ conn' = [conn EXCEPT ![c] = "reading"]
    /\ \E a \in Names : filter' = [filter EXCEPT ![c] = a]
    /\ excused' = [excused EXCEPT ![c] = pushed]
    /\ pump' = [pump EXCEPT ![c] = "run"]
    /\ UNCHANGED <<streamVars, runVars, alive, got, channel, faults>>

\* Mutant of Register: without the lock.
RegisterUnlocked(c) == Enter(c)

\* A browser connects and is registered.
Register(c) == Unlocked /\ Enter(c)

\* The browser goes away, or the network does.
Break(c) ==
    /\ conn[c] = "reading"
    /\ alive[c]
    /\ alive' = [alive EXCEPT ![c] = FALSE]
    /\ UNCHANGED <<streamVars, runVars, conn, filter, pumpVars, queueVars, faults>>

\* ReadMessage has returned an error: the client leaves the map and its channel
\* is closed.
Leave(c) ==
    /\ conn[c] = "reading"
    /\ ~alive[c]
    /\ conn' = [conn EXCEPT ![c] = "done"]
    /\ Forget({c})
    /\ UNCHANGED <<streamVars, runVars, alive, pump, channel, faults>>

\* Mutant of Unregister: without the lock.
UnregisterUnlocked(c) == Leave(c)

\* Sooner or later ReadMessage returns an error.
Unregister(c) == Unlocked /\ Leave(c)

-----------------------------------------------------------------------------
(* Its write pump                                                          *)

Stop(c) == pump' = [pump EXCEPT ![c] = "ended"]

\* A message is written; over a connection that does not work it is lost, with
\* an error, which ends the pump, or without.
PumpOne(c) ==
    /\ pump[c] = "run"
    /\ channel[c] # <<>>
    /\ channel' = [channel EXCEPT ![c] = Tail(@)]
    /\ \/ /\ alive[c]
          /\ got' = [got EXCEPT ![c] = Append(@, Head(channel[c]))]
          /\ UNCHANGED pump
       \/ ~alive[c] /\ UNCHANGED pumpVars
       \/ ~alive[c] /\ Stop(c) /\ UNCHANGED got
    /\ UNCHANGED <<streamVars, runVars, netVars, excused, faults>>

\* A ping fails.
PingFails(c) ==
    /\ pump[c] = "run"
    /\ ~alive[c]
    /\ Stop(c)
    /\ UNCHANGED <<streamVars, runVars, netVars, got, queueVars, faults>>

\* The channel is closed, and what was in it is written.
PumpEnds(c) ==
    /\ pump[c] = "run"
    /\ conn[c] = "done"
    /\ channel[c] = <<>>
    /\ Stop(c)
    /\ UNCHANGED <<streamVars, runVars, netVars, got, queueVars, faults>>

-----------------------------------------------------------------------------
RunStep ==
    \/ Read \/ ReadNothing \/ Broadcast \/ Sent \/ Ack
    \/ \E c \in Clients : Send(c)

PumpStep(c) == PumpOne(c) \/ PingFails(c) \/ PumpEnds(c)

PushNext ==
    \/ \E s \in Streams : Publish(s)
    \/ Start \/ Kill
    \/ RunStep
    \/ \E c \in Clients : Register(c) \/ Break(c) \/ Unregister(c) \/ PumpStep(c)

PushSpec == PushInit /\ [][PushNext]_pushVars

\* The process is started again and Run keeps going; nothing is assumed of the
\* clients.
PushFairSpec == PushSpec /\ WF_pushVars(Start) /\ WF_pushVars(RunStep)

-----------------------------------------------------------------------------
PushTypeOK ==
    /\ added \in [Streams -> 0 .. MaxEntries]
    /\ first \in [Streams -> Nat \ {0}]
    /\ grouped \in [Streams -> BOOLEAN]
    /\ delivered \in [Streams -> 0 .. MaxEntries]
    /\ pel \in [Streams -> SUBSET Ids]
    /\ agent \in [Entries -> Names]
    /\ handed \in [Streams -> SUBSET Ids]
    /\ pc \in {"down", "read", "push", "send", "ack"}
    /\ turn \in Streams
    /\ batch \in Seq(Ids)
    /\ ids \subseteq Ids
    /\ todo \subseteq Clients
    /\ pushed \subseteq Entries
    /\ conn \in [Clients -> {"new", "reading", "done"}]
    /\ alive \in [Clients -> BOOLEAN]
    /\ filter \in [Clients -> Names]
    /\ pump \in [Clients -> {"none", "run", "ended"}]
    /\ got \in [Clients -> Seq(Entries)]
    /\ channel \in [Clients -> Seq(Entries)]
    /\ \A c \in Clients : Len(channel[c]) <= ChannelSize
    /\ excused \in [Clients -> SUBSET Entries]
    /\ faults \in 0 .. MaxFaults

\* broadcast never sends on a channel that Unregister closed, which would end
\* the process, however connections come and go around it.
SendIsSafe == todo \subseteq clients

\* Before and behind each other in one stream.
InOrder(q) == \A m, n \in DOMAIN q : m < n /\ q[m][1] = q[n][1] => q[m][2] < q[n][2]

\* A browser receives the events of a stream in their order and each at most
\* once, and so is what waits for it, whatever is skipped, lost or trimmed, and
\* whatever a restarted process reads.
ReceivedInOrder == \A c \in Clients : InOrder(got[c] \o channel[c])

\* Every event broadcast while a client is registered has reached it or is on
\* its way, unless its channel was full at that moment or its connection
\* stopped working: connecting and disconnecting clients cost no other an
\* event.
NothingElseIsMissed ==
    \A c \in clients :
        alive[c] =>
            \A e \in pushed \ excused[c] :
                Matches(c, e) => e \in Range(got[c]) \cup Range(channel[c])

\* An entry leaves the pending list only when it was offered to every client.
AckedIsPushed ==
    \A s \in Streams : \A i \in handed[s] \ pel[s] : <<s, i>> \in pushed

\* Registering, unregistering and broadcasting agree on who is connected, and
\* the broadcast and the acknowledgement on what was sent.
DeliveriesAgree == PushTypeOK /\ SendIsSafe /\ AckedIsPushed

\* Delivered to a process that was killed, or lost the reply: nobody claims it.
Abandoned(s, i) == i \in pel[s] /\ ~(turn = s /\ i \in ids)

\* No client holds up the others: once the groups exist every event is
\* broadcast, or trimmed, or abandoned, even if no pump and no handler ever
\* takes another step.
PublishedIsPushed ==
    \A s \in Streams, i \in Ids :
        (grouped[s] /\ delivered[s] < i /\ i <= added[s])
            ~> (<<s, i>> \in pushed \/ i < first[s] \/ Abandoned(s, i))
=============================================================================
