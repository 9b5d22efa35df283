---------------------------- MODULE ChWriterInv ----------------------------
(***************************************************************************)
(* The inductive strengthening of ChWriter's safety properties: what holds *)
(* between Redis, a process's memory and the durable results in every      *)
(* state, not only at the points where the properties look.                *)
(***************************************************************************)
EXTENDS ChWriter

\* flush tries an insert only while it has an attempt left.
AttemptInv == \A p \in Procs : pc[p] = "insert" => attempt[p] < MaxRetries

Flushing == {"insert", "dlq", "ack"}

\* The batch is the flush's argument: empty outside flush, entries of the
\* stream the loop is at within it.
BatchInv ==
    \A p \in Procs :
        IF pc[p] \in Flushing
        THEN batch[p] \subseteq handed[turn[p]]
        ELSE batch[p] = {}

\* Only what the group delivered is pending or in memory.
HandedInv ==
    \A s \in Streams :
        /\ handed[s] \subseteq 1 .. delivered[s]
        /\ ~grouped[s] => handed[s] = {}
        /\ idle[s] \subseteq pel[s]
        /\ pel[s] \subseteq handed[s]
        /\ \A p \in Procs : buf[p][s] \subseteq handed[s]

\* When flush reaches its ACK, every entry of the batch is accounted for.
AckInv ==
    \A p \in Procs :
        pc[p] = "ack" =>
            batch[p] \subseteq
                Stored(turn[p]) \cup DeadLetters(turn[p]) \cup GivenUp(turn[p])

\* The safety half of the accounting.
AccountInv == BatchInv /\ HandedInv /\ AckInv /\ DeliveredIsAccounted

\* The batch of p as entries of stream s.
BatchOf(p, s) == IF turn[p] = s THEN batch[p] ELSE {}

\* Outside re-delivery an entry has one holder: one buffer or one batch.
HolderInv ==
    \A p \in Procs, s \in Streams :
        /\ buf[p][s] \cap BatchOf(p, s) \subseteq redo[s]
        /\ \A q \in Procs \ {p} :
              (buf[p][s] \cup BatchOf(p, s)) \cap (buf[q][s] \cup BatchOf(q, s))
                  \subseteq redo[s]

\* Outside re-delivery an entry has no result before its flush writes one.
UnsettledInv ==
    \A s \in Streams : \A i \in Ids \ redo[s] :
        /\ (i \notin handed[s] \/ \E p \in Procs : i \in buf[p][s])
               => rows[s][i] = 0 /\ i \notin DeadLetters(s)
        /\ \A p \in Procs :
              pc[p] \in {"insert", "dlq"} /\ i \in BatchOf(p, s)
                  => rows[s][i] = 0 /\ i \notin DeadLetters(s)

\* What is in memory is pending, redelivered or found trimmed.
MemoryInv ==
    \A p \in Procs, s \in Streams :
        buf[p][s] \cup BatchOf(p, s) \subseteq pel[s] \cup redo[s] \cup abandoned[s]

DuplicateInv == HolderInv /\ UnsettledInv /\ DuplicatesNeedRedelivery

IInv ==
    TypeOK /\ AttemptInv /\ AccountInv /\ DuplicateInv /\ MemoryInv /\ BuffersBounded
=============================================================================
