------------------------------ MODULE ChWriter ------------------------------
(***************************************************************************)
(* The backend's ClickHouse writer (internal/backend/chwriter): one        *)
(* goroutine per backend process reads the event streams through the       *)
(* consumer group "ch-writer", batches the entries, inserts each batch     *)
(* into ClickHouse with a bounded number of attempts, falls back to a      *)
(* dead-letter file, and acknowledges the batch.                           *)
(*                                                                         *)
(* A process may be killed at any step and started again; two processes    *)
(* overlap during a rolling update.  Both use the same group and the same  *)
(* consumer name, so the group's state is global.  What the environment    *)
(* may do wrong (kill a process, fail its claim, lose a reply, lose an     *)
(* acknowledgement, report as failed an insert that happened) is bounded   *)
(* by MaxFaults; an insert, a read or a dead-letter write that just fails  *)
(* is not.                                                                 *)
(***************************************************************************)
EXTENDS RedisStream

CONSTANTS
    Procs,       \* backend processes
    NumStreams,  \* streams in watchedStreams, visited in order
    MaxEntries,  \* bound on the entries ever added to one stream
    MaxLen,      \* MAXLEN of the producers' XADD
    BatchSize,   \* batchSize, the COUNT of a read and the flush threshold
    ClaimCount,  \* COUNT of the XAUTOCLAIM at start
    MaxRetries,  \* maxRetries, insert attempts per flush
    Malformed,   \* per stream, the entries parseXMessage refuses
    MaxFaults    \* bound on the faults listed above

ASSUME ChWriterAssumption ==
    /\ NumStreams \in Nat \ {0}
    /\ MaxEntries \in Nat
    /\ MaxLen \in Nat \ {0}
    /\ BatchSize \in Nat \ {0}
    /\ ClaimCount \in Nat \ {0}
    /\ MaxRetries \in Nat \ {0}
    /\ Malformed \in [1 .. NumStreams -> SUBSET (1 .. MaxEntries)]
    /\ MaxFaults \in Nat

Streams == 1 .. NumStreams
Ids == 1 .. MaxEntries

VARIABLES
    \* Redis, per stream
    added,       \* number of entries ever added
    first,       \* id of the oldest retained entry
    grouped,     \* does the consumer group exist?
    delivered,   \* the group's last-delivered id
    pel,         \* delivered and not acknowledged
    idle,        \* the part of pel idle for claimMinIdle (30 s)
    \* the writer goroutine, per process
    pc,          \* where Run is
    turn,        \* the stream its loop over watchedStreams is at
    from,        \* the loop that called flush
    attempt,     \* failed insert attempts of the current flush
    batch,       \* the entries being flushed
    buf,         \* buffers: read and not yet flushed, per stream
    \* durable results, per stream
    rows,        \* rows in ClickHouse, per entry
    dlq,         \* entries in the dead-letter files of earlier seconds
    file,        \* the newest dead-letter file: its writers and its entries
    \* observability only: no action is guarded by these four
    handed,      \* entries the group ever delivered
    redo,        \* entries re-delivered or inserted without the writer knowing
    abandoned,   \* entries whose dead-letter write failed, or claimed too late
    erased,      \* dead letters another process's file of that name replaced
    \* bound
    faults

redisVars   == <<added, first, grouped, delivered, pel, idle>>
procVars    == <<pc, turn, from, attempt, batch, buf>>
durableVars == <<rows, dlq, file>>
ghostVars   == <<handed, redo, abandoned, erased>>
vars == <<redisVars, procVars, durableVars, ghostVars, faults>>

Loops == {"claim", "tick", "read"}
PCs   == Loops \cup {"down", "insert", "ack", "dlq"}

Init ==
    /\ added = [s \in Streams |-> 0]
    /\ first = [s \in Streams |-> 1]
    /\ grouped = [s \in Streams |-> FALSE]
    /\ delivered = [s \in Streams |-> 0]
    /\ pel = [s \in Streams |-> {}]
    /\ idle = [s \in Streams |-> {}]
    /\ pc = [p \in Procs |-> "down"]
    /\ turn = [p \in Procs |-> 1]
    /\ from = [p \in Procs |-> "claim"]
    /\ attempt = [p \in Procs |-> 0]
    /\ batch = [p \in Procs |-> {}]
    /\ buf = [p \in Procs |-> [s \in Streams |-> {}]]
    /\ rows = [s \in Streams |-> [i \in Ids |-> 0]]
    /\ dlq = [s \in Streams |-> {}]
    /\ file = [s \in Streams |-> [by |-> {}, ids |-> {}]]
    /\ handed = [s \in Streams |-> {}]
    /\ redo = [s \in Streams |-> {}]
    /\ abandoned = [s \in Streams |-> {}]
    /\ erased = [s \in Streams |-> {}]
    /\ faults = 0

Fault ==
    /\ faults < MaxFaults
    /\ faults' = faults + 1

-----------------------------------------------------------------------------
(* The environment of the writer.                                          *)

\* A producer's XADD (StreamWriter.Write), with its approximate trimming.
Publish(s) ==
    /\ added[s] < MaxEntries
    /\ added' = [added EXCEPT ![s] = @ + 1]
    /\ \E f \in TrimmedTo(first[s], added[s] + 1, MaxLen) :
          first' = [first EXCEPT ![s] = f]
    /\ UNCHANGED <<grouped, delivered, pel, idle, procVars, durableVars,
                   ghostVars, faults>>

\* Time passes for a pending entry.
Age(s, i) ==
    /\ i \in pel[s] \ idle[s]
    /\ idle' = [idle EXCEPT ![s] = @ \cup {i}]
    /\ UNCHANGED <<added, first, grouped, delivered, pel, procVars,
                   durableVars, ghostVars, faults>>

\* The process is killed (main never cancels the writer's context, so a
\* shutdown is a kill): what it held in memory is gone.
Crash(p) ==
    /\ pc[p] # "down"
    /\ Fault
    /\ pc' = [pc EXCEPT ![p] = "down"]
    /\ turn' = [turn EXCEPT ![p] = 1]
    /\ from' = [from EXCEPT ![p] = "claim"]
    /\ attempt' = [attempt EXCEPT ![p] = 0]
    /\ batch' = [batch EXCEPT ![p] = {}]
    /\ buf' = [buf EXCEPT ![p] = [s \in Streams |-> {}]]
    /\ UNCHANGED <<redisVars, durableVars, ghostVars>>

\* main creates the group on every stream, ignoring errors: on the streams in
\* failed the group stays as it was.  A new group starts at "$", behind
\* everything published so far.
Start(p) ==
    /\ pc[p] = "down"
    /\ \E failed \in SUBSET Streams :
          /\ grouped' = [s \in Streams |-> grouped[s] \/ s \notin failed]
          /\ delivered' = [s \in Streams |->
                IF grouped'[s] /\ ~grouped[s] THEN added[s] ELSE delivered[s]]
    /\ pc' = [pc EXCEPT ![p] = "claim"]
    /\ UNCHANGED <<added, first, pel, idle, turn, from, attempt, batch, buf,
                   durableVars, ghostVars, faults>>

-----------------------------------------------------------------------------
(* Control of Run: each of its three loops visits the streams in order.    *)

\* The loop l moves on from the stream it is at; after the last one Run
\* re-enters its select, whose default case starts the reads.
Advance(p, l) ==
    /\ pc' = [pc EXCEPT ![p] = IF turn[p] < NumStreams THEN l ELSE "read"]
    /\ turn' = [turn EXCEPT ![p] = IF turn[p] < NumStreams THEN @ + 1 ELSE 1]

\* The loop l calls flush on the entries ids.
Flush(p, l, ids) ==
    /\ pc' = [pc EXCEPT ![p] = "insert"]
    /\ from' = [from EXCEPT ![p] = l]
    /\ attempt' = [attempt EXCEPT ![p] = 0]
    /\ batch' = [batch EXCEPT ![p] = ids]
    /\ UNCHANGED turn

\* reclaimPending for one stream.  XAUTOCLAIM hands over the claimable entries
\* still in the stream and forgets those that were trimmed; a malformed entry
\* is skipped and stays pending; an empty result skips the flush.
Claim(p) ==
    LET s == turn[p]
        seen == Claimable(pel[s], idle[s], first[s], ClaimCount)
        dead == {i \in seen : i < first[s]}
        ids == (seen \ dead) \ Malformed[s]
    IN  /\ pc[p] = "claim"
        /\ grouped[s]
        /\ pel' = [pel EXCEPT ![s] = @ \ dead]
        /\ idle' = [idle EXCEPT ![s] = @ \ seen]
        /\ abandoned' = [abandoned EXCEPT ![s] = @ \cup dead]
        /\ redo' = [redo EXCEPT ![s] = @ \cup ids]
        /\ \/ /\ ids # {}
              /\ Flush(p, "claim", ids)
           \/ /\ ids = {}
              /\ Advance(p, "claim")
              /\ UNCHANGED <<from, attempt, batch>>
        /\ UNCHANGED <<added, first, grouped, delivered, buf, durableVars,
                       handed, erased, faults>>

\* The claim fails (there is no group, or Redis fails just then); the stream
\* is skipped until the next start.
ClaimError(p) ==
    /\ pc[p] = "claim"
    /\ IF grouped[turn[p]] THEN Fault ELSE UNCHANGED faults
    /\ Advance(p, "claim")
    /\ UNCHANGED <<redisVars, from, attempt, batch, buf, durableVars,
                   ghostVars>>

\* The ticker case of the select: only between two passes over the streams.
TickFires(p) ==
    /\ pc[p] = "read"
    /\ turn[p] = 1
    /\ pc' = [pc EXCEPT ![p] = "tick"]
    /\ UNCHANGED <<redisVars, turn, from, attempt, batch, buf, durableVars,
                   ghostVars, faults>>

\* Mutant of TickStream: the flushed buffer is not emptied.
TickStreamKeeping(p) ==
    LET s == turn[p]
    IN  /\ pc[p] = "tick"
        /\ \/ buf[p][s] # {} /\ Flush(p, "tick", buf[p][s])
           \/ /\ buf[p][s] = {}
              /\ Advance(p, "tick")
              /\ UNCHANGED <<from, attempt, batch>>
        /\ UNCHANGED <<redisVars, buf, durableVars, ghostVars, faults>>

\* Mutant of TickStream: a tick flushes full buffers only.
TickStreamFullOnly(p) ==
    LET s == turn[p]
    IN  /\ pc[p] = "tick"
        /\ Cardinality(buf[p][s]) < BatchSize
        /\ Advance(p, "tick")
        /\ UNCHANGED <<redisVars, from, attempt, batch, buf, durableVars,
                       ghostVars, faults>>

\* One stream of the ticker's loop: flush what is buffered.
TickStream(p) ==
    LET s == turn[p]
    IN  /\ pc[p] = "tick"
        /\ \/ /\ buf[p][s] # {}
              /\ Flush(p, "tick", buf[p][s])
              /\ buf' = [buf EXCEPT ![p][s] = {}]
           \/ /\ buf[p][s] = {}
              /\ Advance(p, "tick")
              /\ UNCHANGED <<from, attempt, batch, buf>>
        /\ UNCHANGED <<redisVars, durableVars, ghostVars, faults>>

\* Mutant of Deliver: read without tracking (NOACK).
DeliverUntracked(s, ids) ==
    /\ delivered' = [delivered EXCEPT ![s] =
          IF ids = {} THEN @ ELSE FreshTo(first[s], added[s], @, BatchSize)]
    /\ handed' = [handed EXCEPT ![s] = @ \cup ids]
    /\ UNCHANGED <<added, first, grouped, pel, idle>>

\* The group delivers a run of fresh entries.
Deliver(s, ids) ==
    /\ delivered' = [delivered EXCEPT ![s] =
          IF ids = {} THEN @ ELSE FreshTo(first[s], added[s], @, BatchSize)]
    /\ pel' = [pel EXCEPT ![s] = @ \cup ids]
    /\ handed' = [handed EXCEPT ![s] = @ \cup ids]
    /\ UNCHANGED <<added, first, grouped, idle>>

\* One stream of the default case: read, append to the buffer what parses (the
\* rest stays pending, in no buffer), and flush the buffer when it has reached
\* the batch size.
Read(p) ==
    LET s == turn[p]
        ids == Fresh(first[s], added[s], delivered[s], BatchSize)
        filled == buf[p][s] \cup (ids \ Malformed[s])
    IN  /\ pc[p] = "read"
        /\ grouped[s]
        /\ Deliver(s, ids)
        /\ \/ /\ Cardinality(filled) >= BatchSize
              /\ Flush(p, "read", filled)
              /\ buf' = [buf EXCEPT ![p][s] = {}]
           \/ /\ Cardinality(filled) < BatchSize
              /\ buf' = [buf EXCEPT ![p][s] = filled]
              /\ Advance(p, "read")
              /\ UNCHANGED <<from, attempt, batch>>
        /\ UNCHANGED <<durableVars, redo, abandoned, erased, faults>>

\* The read fails (Redis is unreachable, or the group does not exist) and the
\* loop continues with the next stream.
ReadError(p) ==
    /\ pc[p] = "read"
    /\ Advance(p, "read")
    /\ UNCHANGED <<redisVars, from, attempt, batch, buf, durableVars,
                   ghostVars, faults>>

\* Redis delivers the entries but its reply is lost: the same error for the
\* writer, while the entries are now pending.
ReadReplyLost(p) ==
    LET s == turn[p]
        ids == Fresh(first[s], added[s], delivered[s], BatchSize)
    IN  /\ pc[p] = "read"
        /\ grouped[s]
        /\ ids # {}
        /\ Fault
        /\ Deliver(s, ids)
        /\ Advance(p, "read")
        /\ UNCHANGED <<from, attempt, batch, buf, durableVars, redo,
                       abandoned, erased>>

-----------------------------------------------------------------------------
(* flush: attempts, dead-letter file, acknowledgement.                     *)

AddRows(s, ids) ==
    rows' = [rows EXCEPT ![s] =
                [i \in Ids |-> IF i \in ids THEN @[i] + 1 ELSE @[i]]]

\* Mutant of CountAttempt: one attempt too many.
CountAttemptOffByOne(p) ==
    /\ attempt' = [attempt EXCEPT ![p] = @ + 1]
    /\ pc' = [pc EXCEPT ![p] =
                IF attempt[p] < MaxRetries THEN "insert" ELSE "dlq"]

\* Mutant of CountAttempt: after the last attempt the batch is acknowledged
\* without a dead-letter file.
CountAttemptNoDLQ(p) ==
    /\ attempt' = [attempt EXCEPT ![p] = @ + 1]
    /\ pc' = [pc EXCEPT ![p] =
                IF attempt[p] + 1 < MaxRetries THEN "insert" ELSE "ack"]

\* What follows a failed attempt: another one, or the dead-letter file.
CountAttempt(p) ==
    /\ attempt' = [attempt EXCEPT ![p] = @ + 1]
    /\ pc' = [pc EXCEPT ![p] =
                IF attempt[p] + 1 < MaxRetries THEN "insert" ELSE "dlq"]

InsertOK(p) ==
    /\ pc[p] = "insert"
    /\ AddRows(turn[p], batch[p])
    /\ pc' = [pc EXCEPT ![p] = "ack"]
    /\ UNCHANGED <<redisVars, turn, from, attempt, batch, buf, dlq, file,
                   ghostVars, faults>>

InsertFails(p) ==
    /\ pc[p] = "insert"
    /\ CountAttempt(p)
    /\ UNCHANGED <<redisVars, turn, from, batch, buf, durableVars, ghostVars,
                   faults>>

\* ClickHouse stores the batch but the writer is told it failed.
InsertOutcomeLost(p) ==
    LET s == turn[p]
    IN  /\ pc[p] = "insert"
        /\ Fault
        /\ AddRows(s, batch[p])
        /\ redo' = [redo EXCEPT ![s] = @ \cup batch[p]]
        /\ CountAttempt(p)
        /\ UNCHANGED <<redisVars, turn, from, batch, buf, dlq, file, handed,
                       abandoned, erased>>

DeadLetters(s) == dlq[s] \cup file[s].ids

\* MkdirAll or Create fails: writeDLQ logs it and the batch is given up.
NoFile(s, ids) ==
    /\ abandoned' = [abandoned EXCEPT ![s] = @ \cup ids]
    /\ UNCHANGED <<dlq, file, erased>>

\* The batch goes to a file of a new name; the errors of Encode are dropped,
\* so any part of it may be written.
NewFile(p, s, ids) ==
    /\ dlq' = [dlq EXCEPT ![s] = DeadLetters(s)]
    /\ \E written \in SUBSET ids :
          /\ file' = [file EXCEPT ![s] = [by |-> {p}, ids |-> written]]
          /\ abandoned' = [abandoned EXCEPT ![s] = @ \cup (ids \ written)]
    /\ UNCHANGED erased

\* The name is the second and the stream.  A process sleeps for seconds before
\* each dead letter, so only another process sharing the volume can have made
\* a file of that name; Create truncates it, and when that writer is still
\* writing, any part of the two batches is what the file ends up holding.
SameFile(p, s, ids) ==
    /\ file[s].by # {} /\ p \notin file[s].by
    /\ \E left \in SUBSET (file[s].ids \cup ids) :
          /\ file' = [file EXCEPT ![s] = [by |-> @.by \cup {p}, ids |-> left]]
          /\ erased' = [erased EXCEPT ![s] = @ \cup (file[s].ids \ (left \cup dlq[s]))]
          /\ abandoned' = [abandoned EXCEPT ![s] = @ \cup (ids \ left)]
    /\ UNCHANGED dlq

\* writeDLQ returns no error: flush goes on to its ACK.
WriteDLQ(p) ==
    LET s == turn[p]
    IN  /\ pc[p] = "dlq"
        /\ NoFile(s, batch[p]) \/ NewFile(p, s, batch[p]) \/ SameFile(p, s, batch[p])
        /\ pc' = [pc EXCEPT ![p] = "ack"]
        /\ UNCHANGED <<redisVars, turn, from, attempt, batch, buf, rows,
                       handed, redo, faults>>

\* flush returns to the loop that called it.
Return(p) ==
    /\ Advance(p, from[p])
    /\ batch' = [batch EXCEPT ![p] = {}]
    /\ attempt' = [attempt EXCEPT ![p] = 0]
    /\ UNCHANGED <<from, buf>>

Ack(p) ==
    LET s == turn[p]
    IN  /\ pc[p] = "ack"
        /\ pel' = [pel EXCEPT ![s] = @ \ batch[p]]
        /\ idle' = [idle EXCEPT ![s] = @ \ batch[p]]
        /\ Return(p)
        /\ UNCHANGED <<added, first, grouped, delivered, durableVars,
                       ghostVars, faults>>

\* The error of ACK is ignored: the entries stay pending.
AckLost(p) ==
    /\ pc[p] = "ack"
    /\ Fault
    /\ Return(p)
    /\ UNCHANGED <<redisVars, durableVars, ghostVars>>

-----------------------------------------------------------------------------
WriterStep(p) ==
    \/ Claim(p) \/ ClaimError(p)
    \/ TickFires(p) \/ TickStream(p)
    \/ Read(p) \/ ReadError(p) \/ ReadReplyLost(p)
    \/ InsertOK(p) \/ InsertFails(p) \/ InsertOutcomeLost(p)
    \/ WriteDLQ(p) \/ Ack(p) \/ AckLost(p)

Next ==
    \/ \E s \in Streams : Publish(s)
    \/ \E s \in Streams, i \in Ids : Age(s, i)
    \/ \E p \in Procs : Crash(p) \/ Start(p) \/ WriterStep(p)

Spec == Init /\ [][Next]_vars

\* The select takes its default case: a pass of reads begins.
DefaultCase(p) ==
    /\ turn[p] = 1
    /\ Read(p) \/ ReadError(p)

\* Fairness.  The goroutine and the restart by Kubernetes keep going (WF).
\* A tick that fired waits in the ticker's channel and select prefers it to
\* its default case (SF); the channel holds one tick and flushing empty
\* buffers takes no time, so ticks do not keep the default case away (SF).
\* Redis is not unreachable for ever (SF on the read).  Nothing is assumed of
\* Publish, of the faults, nor of ClickHouse.
Fairness ==
    /\ \A s \in Streams, i \in Ids : WF_vars(Age(s, i))
    /\ \A p \in Procs :
          /\ WF_vars(Start(p))
          /\ WF_vars(WriterStep(p))
          /\ SF_vars(TickFires(p))
          /\ SF_vars(DefaultCase(p))
          /\ \A s \in Streams : SF_vars(turn[p] = s /\ Read(p))

FairSpec == Spec /\ Fairness

-----------------------------------------------------------------------------
Files == [by : SUBSET Procs, ids : SUBSET Ids]

TypeOK ==
    /\ added \in [Streams -> 0 .. MaxEntries]
    /\ first \in [Streams -> Nat \ {0}]
    /\ grouped \in [Streams -> BOOLEAN]
    /\ delivered \in [Streams -> 0 .. MaxEntries]
    /\ pel \in [Streams -> SUBSET Ids]
    /\ idle \in [Streams -> SUBSET Ids]
    /\ pc \in [Procs -> PCs]
    /\ turn \in [Procs -> Streams]
    /\ from \in [Procs -> Loops]
    /\ attempt \in [Procs -> 0 .. MaxRetries]
    /\ batch \in [Procs -> SUBSET Ids]
    /\ buf \in [Procs -> [Streams -> SUBSET Ids]]
    /\ rows \in [Streams -> [Ids -> Nat]]
    /\ dlq \in [Streams -> SUBSET Ids]
    /\ file \in [Streams -> Files]
    /\ handed \in [Streams -> SUBSET Ids]
    /\ redo \in [Streams -> SUBSET Ids]
    /\ abandoned \in [Streams -> SUBSET Ids]
    /\ erased \in [Streams -> SUBSET Ids]
    /\ faults \in 0 .. MaxFaults

Stored(s) == {i \in Ids : rows[s][i] > 0}

\* What the code lets go of for good: an entry nobody wrote anywhere, and a dead
\* letter whose file another process replaced.
GivenUp(s) == abandoned[s] \cup erased[s]

\* flush acknowledges a batch only when each entry of it is accounted for, in
\* whatever order two processes, kills, claims and lost replies interleave: an
\* entry the group delivered is pending, in ClickHouse, in a dead-letter file,
\* or was given up by the three steps that may give an entry up (a failed
\* dead-letter write, a claim that comes after the stream was trimmed, and a
\* dead-letter file that two processes name alike).
DeliveredIsAccounted ==
    \A s \in Streams :
        handed[s] \subseteq pel[s] \cup Stored(s) \cup DeadLetters(s) \cup GivenUp(s)

\* What a process holds in memory is still pending in Redis, so that killing
\* it there loses nothing, unless another process claimed the entry or found
\* it trimmed.
HeldIsRecoverable ==
    \A p \in Procs, s \in Streams :
        buf[p][s] \subseteq pel[s] \cup redo[s] \cup abandoned[s]

\* A second row for an event (each insert makes its own trace_id), or a row
\* besides a dead letter, needs a re-delivery or an insert reported as failed.
DuplicatesNeedRedelivery ==
    \A s \in Streams : \A i \in Ids \ redo[s] :
        /\ rows[s][i] <= 1
        /\ ~(rows[s][i] = 1 /\ i \in DeadLetters(s))

\* The threshold test after every read keeps a buffer below the batch size
\* between reads, whatever the ticks do: with a read of at most a batch, one
\* flush stays below twice the batch size.
BuffersBounded ==
    \A p \in Procs, s \in Streams : Cardinality(buf[p][s]) < BatchSize

\* What a process holds between two reads is recoverable and bounded, however
\* ticks, claims and kills of two processes interleave.
BuffersAreSafe == HeldIsRecoverable /\ BuffersBounded

\* Whatever ClickHouse does, an entry in a buffer does not stay there: it is
\* stored, dead-lettered or given up, or the process that held it is killed.
BufferedIsFlushed ==
    \A p \in Procs, s \in Streams, i \in Ids :
        i \in buf[p][s] ~>
            (i \in Stored(s) \cup DeadLetters(s) \cup GivenUp(s) \/ pc[p] = "down")

\* Once the group exists, every published entry is delivered to a process or
\* trimmed before it could be: a flush of one stream does not starve another.
PublishedIsDelivered ==
    \A s \in Streams, i \in Ids :
        (grouped[s] /\ i <= added[s]) ~> (i <= delivered[s] \/ i < first[s])

\* No entry rests in the stream or in a buffer for ever while a process runs:
\* ClickHouse failing without end or another stream's batch only delay it.
EntriesMoveOn == PublishedIsDelivered /\ BufferedIsFlushed

-----------------------------------------------------------------------------
(* The writer implements an at-least-once sink of the group's entries.     *)

Kept    == [s \in Streams |-> Stored(s)]
Parked  == [s \in Streams |-> DeadLetters(s)]
Dropped == [s \in Streams |-> GivenUp(s)]

Entries(ids) == {e \in Streams \X Ids : e[2] \in ids[e[1]]}

Sink == INSTANCE AtLeastOnce WITH
    Events <- Streams \X Ids,
    accepted <- Entries(handed),
    outstanding <- Entries(pel),
    kept <- Entries(Kept),
    parked <- Entries(Parked),
    dropped <- Entries(Dropped)

\* Every step of the writer is a step of the sink or leaves it unchanged: in
\* particular no entry leaves the pending list before it is kept, parked or
\* given up, no row is taken back, and a dead letter that disappears counts as
\* given up.
ImplementsSink == Sink!SinkSpec
=============================================================================
