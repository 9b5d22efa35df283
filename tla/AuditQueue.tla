----------------------------- MODULE AuditQueue -----------------------------
(***************************************************************************)
(* The gateway's audit event writer (internal/gateway/audit): request      *)
(* handlers put events into a channel without ever waiting, and one        *)
(* goroutine takes them out and appends them to the stream events:gateway. *)
(*                                                                         *)
(* An event is identified by the request it records.                       *)
(***************************************************************************)
EXTENDS Naturals, Sequences

CONSTANTS
    Requests,     \* requests that may record an event
    NoRequest,    \* not one of them
    ChannelSize,  \* channelSize
    MaxCopies     \* most entries one Write may add: the Redis client retries

ASSUME AuditQueueAssumption ==
    /\ NoRequest \notin Requests
    /\ ChannelSize \in Nat \ {0}
    /\ MaxCopies \in Nat \ {0}

VARIABLES
    channel,  \* ew.ch
    writing,  \* the event Run is writing, or NoRequest
    stream,   \* entries this gateway appended to events:gateway
    gone      \* observability only: events dropped, not written, or lost

queueVars == <<channel, writing, stream, gone>>

Elements(seq) == {seq[i] : i \in DOMAIN seq}

QueueInit ==
    /\ channel = <<>>
    /\ writing = NoRequest
    /\ stream = <<>>
    /\ gone = {}

\* Mutant of Enqueue: a plain send, which waits for room.
EnqueueBlocking(r) ==
    /\ Len(channel) < ChannelSize
    /\ channel' = Append(channel, r)
    /\ UNCHANGED <<writing, stream, gone>>

\* Mutant of Enqueue: an event that finds the channel full is written at once.
EnqueueAround(r) ==
    /\ \/ /\ Len(channel) < ChannelSize
          /\ channel' = Append(channel, r)
          /\ UNCHANGED stream
       \/ /\ Len(channel) = ChannelSize
          /\ stream' = Append(stream, r)
          /\ UNCHANGED channel
    /\ UNCHANGED <<writing, gone>>

\* The select of Enqueue: send if there is room, else drop the event.
Enqueue(r) ==
    /\ \/ /\ Len(channel) < ChannelSize
          /\ channel' = Append(channel, r)
          /\ UNCHANGED gone
       \/ /\ Len(channel) = ChannelSize
          /\ gone' = gone \cup {r}
          /\ UNCHANGED channel
    /\ UNCHANGED <<writing, stream>>

\* Run receives the next event.
Take ==
    /\ writing = NoRequest
    /\ channel # <<>>
    /\ writing' = Head(channel)
    /\ channel' = Tail(channel)
    /\ UNCHANGED <<stream, gone>>

\* The Redis client sends the XADD again when its reply is late, so the entry
\* may be there more than once.
Appended(n) == stream' = stream \o [i \in 1 .. n |-> writing]

\* Write appends the event.
WriteOK ==
    /\ writing # NoRequest
    /\ \E n \in 1 .. MaxCopies : Appended(n)
    /\ writing' = NoRequest
    /\ UNCHANGED <<channel, gone>>

\* Write returns an error, which is logged: the event is gone, unless Redis
\* took it and only the replies were late.
WriteFails ==
    /\ writing # NoRequest
    /\ \E n \in 0 .. MaxCopies : Appended(n)
    /\ gone' = gone \cup {writing}
    /\ writing' = NoRequest
    /\ UNCHANGED channel

\* The gateway is killed: what was not written is lost.
LoseQueue ==
    /\ gone' = gone \cup Elements(channel) \cup ({writing} \ {NoRequest})
    /\ channel' = <<>>
    /\ writing' = NoRequest
    /\ UNCHANGED stream

RunStep == Take \/ WriteOK \/ WriteFails

Accounted == Elements(channel) \cup {writing} \cup Elements(stream) \cup gone

QueueTypeOK ==
    /\ channel \in Seq(Requests)
    /\ Len(channel) <= ChannelSize
    /\ writing \in Requests \cup {NoRequest}
    /\ stream \in Seq(Requests)
    /\ gone \subseteq Requests
=============================================================================
