--------------------------- MODULE ChWriterProofs ---------------------------
(***************************************************************************)
(* Proofs about the ClickHouse writer, for any number of processes,        *)
(* streams, entries, faults, and any batch size and number of attempts.    *)
(***************************************************************************)
EXTENDS ChWriterInv, FiniteSetTheorems, TLAPS

-----------------------------------------------------------------------------
(* Facts about the operators of RedisStream.                               *)

\* A scan returns members of what it scans.
LEMMA LowestOfSubset ==
    ASSUME NEW S, NEW count
    PROVE  LowestOf(S, count) \subseteq S
BY DEF LowestOf

\* What XREADGROUP ">" returns lies behind the group's position and within the
\* stream, and the position moves to its end.
LEMMA FreshBounds ==
    ASSUME NEW f \in Nat \ {0}, NEW a \in Nat, NEW d \in Nat,
           NEW c \in Nat \ {0}
    PROVE  /\ \A i \in Fresh(f, a, d, c) : i \in Nat /\ i > d /\ i <= a
           /\ \A i \in Fresh(f, a, d, c) : i <= FreshTo(f, a, d, c)
           /\ Fresh(f, a, d, c) # {} =>
                 /\ FreshTo(f, a, d, c) \in Nat
                 /\ FreshTo(f, a, d, c) > d
                 /\ FreshTo(f, a, d, c) <= a
BY DEF Fresh, FreshFrom, FreshTo

-----------------------------------------------------------------------------
(* Type correctness.                                                       *)

\* The loop control stays within its type.
LEMMA AdvanceType ==
    ASSUME TypeOK, NEW p \in Procs, NEW l \in Loops, Advance(p, l)
    PROVE  pc' \in [Procs -> PCs] /\ turn' \in [Procs -> Streams]
<1>1. pc \in [Procs -> PCs] /\ turn \in [Procs -> Streams]
  BY DEF TypeOK
<1>2. l \in PCs /\ "read" \in PCs
  BY DEF PCs, Loops
<1>3. 1 \in Streams
  BY ChWriterAssumption DEF Streams
<1>4. turn[p] < NumStreams => turn[p] + 1 \in Streams
  BY <1>1, ChWriterAssumption DEF Streams
<1> QED
  BY <1>1, <1>2, <1>3, <1>4 DEF Advance

\* The delivery of fresh entries stays within its type.
LEMMA DeliverType ==
    ASSUME TypeOK, NEW s \in Streams,
           Deliver(s, Fresh(first[s], added[s], delivered[s], BatchSize))
    PROVE  /\ delivered' \in [Streams -> 0 .. MaxEntries]
           /\ pel' \in [Streams -> SUBSET Ids]
           /\ handed' \in [Streams -> SUBSET Ids]
           /\ Fresh(first[s], added[s], delivered[s], BatchSize) \subseteq Ids
<1> DEFINE ids == Fresh(first[s], added[s], delivered[s], BatchSize)
<1>1. /\ first[s] \in Nat \ {0}
      /\ added[s] \in Nat /\ added[s] <= MaxEntries
      /\ delivered[s] \in Nat
      /\ BatchSize \in Nat \ {0}
      /\ MaxEntries \in Nat
  BY ChWriterAssumption DEF TypeOK
<1>2. \A i \in ids : i \in Nat /\ i > delivered[s] /\ i <= added[s]
  BY <1>1, FreshBounds
<1>3. ids \subseteq Ids
  BY <1>1, <1>2 DEF Ids
<1>4. ids # {} =>
        FreshTo(first[s], added[s], delivered[s], BatchSize) \in 0 .. MaxEntries
  BY <1>1, FreshBounds
<1> HIDE DEF ids
<1>5. /\ delivered' = [delivered EXCEPT ![s] =
              IF ids = {} THEN delivered[s]
              ELSE FreshTo(first[s], added[s], delivered[s], BatchSize)]
      /\ pel' = [pel EXCEPT ![s] = pel[s] \cup ids]
      /\ handed' = [handed EXCEPT ![s] = handed[s] \cup ids]
  BY DEF Deliver, ids
<1> QED
  BY <1>3, <1>4, <1>5 DEF TypeOK, ids

\* Inserting a batch keeps the row counts natural numbers.
LEMMA AddRowsType ==
    ASSUME TypeOK, NEW s \in Streams, NEW S \in SUBSET Ids, AddRows(s, S)
    PROVE  rows' \in [Streams -> [Ids -> Nat]]
BY DEF TypeOK, AddRows

\* Every step keeps every variable within its type.
LEMMA TypeStep == TypeOK /\ AttemptInv /\ [Next]_vars => TypeOK'
<1> SUFFICES ASSUME TypeOK, AttemptInv, [Next]_vars PROVE TypeOK'
  OBVIOUS
<1> USE ChWriterAssumption
<1>1. ASSUME NEW s \in Streams, Publish(s) PROVE TypeOK'
  BY <1>1 DEF TypeOK, Publish, TrimmedTo, procVars, durableVars, ghostVars
<1>2. ASSUME NEW s \in Streams, NEW i \in Ids, Age(s, i) PROVE TypeOK'
  BY <1>2 DEF TypeOK, Age, procVars, durableVars, ghostVars
<1>3. ASSUME NEW p \in Procs, Crash(p) PROVE TypeOK'
  <2>1. 1 \in Streams /\ 0 \in 0 .. MaxRetries
    BY DEF Streams
  <2>2. "down" \in PCs /\ "claim" \in Loops
    BY DEF PCs, Loops
  <2>3. faults' \in 0 .. MaxFaults
    BY <1>3 DEF TypeOK, Crash, Fault
  <2> QED
    BY <1>3, <2>1, <2>2, <2>3 DEF TypeOK, Crash, redisVars, durableVars,
                                  ghostVars
<1>4. ASSUME NEW p \in Procs, Start(p) PROVE TypeOK'
  BY <1>4 DEF TypeOK, Start, durableVars, ghostVars, PCs, Loops
<1>5. ASSUME NEW p \in Procs, Claim(p) PROVE TypeOK'
  <2> DEFINE s == turn[p]
             seen == Claimable(pel[s], idle[s], first[s], ClaimCount)
             dead == {i \in seen : i < first[s]}
             ids == (seen \ dead) \ Malformed[s]
  <2>1. s \in Streams
    BY DEF TypeOK
  <2>2. seen \subseteq pel[s]
    BY LowestOfSubset DEF Claimable
  <2>3. dead \subseteq Ids /\ ids \subseteq Ids
    BY <2>1, <2>2 DEF TypeOK
  <2>4. /\ pel' \in [Streams -> SUBSET Ids]
        /\ idle' \in [Streams -> SUBSET Ids]
        /\ abandoned' \in [Streams -> SUBSET Ids]
        /\ redo' \in [Streams -> SUBSET Ids]
    BY <1>5, <2>1, <2>3 DEF TypeOK, Claim
  <2>5. CASE Flush(p, "claim", ids)
    BY <1>5, <2>3, <2>4, <2>5 DEF TypeOK, Claim, Flush, durableVars, PCs, Loops
  <2>6. CASE Advance(p, "claim") /\ UNCHANGED <<from, attempt, batch>>
    BY <1>5, <2>4, <2>6, AdvanceType DEF TypeOK, Claim, durableVars, Loops
  <2> QED
    BY <1>5, <2>5, <2>6 DEF Claim
<1>6. ASSUME NEW p \in Procs, ClaimError(p) PROVE TypeOK'
  <2>1. pc' \in [Procs -> PCs] /\ turn' \in [Procs -> Streams]
    BY <1>6, AdvanceType DEF ClaimError, Loops
  <2>2. faults' \in 0 .. MaxFaults
    BY <1>6 DEF TypeOK, ClaimError, Fault
  <2> QED
    BY <1>6, <2>1, <2>2 DEF TypeOK, ClaimError, redisVars, durableVars, ghostVars
<1>7. ASSUME NEW p \in Procs, TickFires(p) PROVE TypeOK'
  BY <1>7 DEF TypeOK, TickFires, redisVars, durableVars, ghostVars, PCs, Loops
<1>8. ASSUME NEW p \in Procs, TickStream(p) PROVE TypeOK'
  <2> DEFINE s == turn[p]
  <2>0. s \in Streams /\ buf[p][s] \in SUBSET Ids
    BY DEF TypeOK
  <2>1. CASE Flush(p, "tick", buf[p][s]) /\ buf' = [buf EXCEPT ![p][s] = {}]
    <3>1. buf' \in [Procs -> [Streams -> SUBSET Ids]]
      BY <2>0, <2>1 DEF TypeOK
    <3> QED
      BY <1>8, <2>0, <2>1, <3>1 DEF TypeOK, TickStream, Flush, redisVars,
                                    durableVars, ghostVars, PCs, Loops
  <2>2. CASE Advance(p, "tick") /\ UNCHANGED <<from, attempt, batch, buf>>
    BY <1>8, <2>2, AdvanceType DEF TypeOK, TickStream, redisVars, durableVars,
                                   ghostVars, Loops
  <2> QED
    BY <1>8, <2>1, <2>2 DEF TickStream
<1>9. ASSUME NEW p \in Procs, Read(p) PROVE TypeOK'
  <2> DEFINE s == turn[p]
             ids == Fresh(first[s], added[s], delivered[s], BatchSize)
             filled == buf[p][s] \cup (ids \ Malformed[s])
  <2>1. s \in Streams
    BY DEF TypeOK
  <2>2. Deliver(s, ids)
    BY <1>9 DEF Read
  <2>3. /\ delivered' \in [Streams -> 0 .. MaxEntries]
        /\ pel' \in [Streams -> SUBSET Ids]
        /\ handed' \in [Streams -> SUBSET Ids]
        /\ ids \subseteq Ids
    BY <2>1, <2>2, DeliverType
  <2>4. filled \subseteq Ids
    BY <2>1, <2>3 DEF TypeOK
  <2> HIDE DEF ids, filled
  <2>5. CASE Flush(p, "read", filled) /\ buf' = [buf EXCEPT ![p][s] = {}]
    BY <1>9, <2>1, <2>2, <2>3, <2>4, <2>5
       DEF TypeOK, Read, Deliver, Flush, durableVars, PCs, Loops
  <2>6. CASE /\ buf' = [buf EXCEPT ![p][s] = filled]
             /\ Advance(p, "read")
             /\ UNCHANGED <<from, attempt, batch>>
    <3>1. pc' \in [Procs -> PCs] /\ turn' \in [Procs -> Streams]
      BY <2>6, AdvanceType DEF Loops
    <3>2. UNCHANGED <<added, first, grouped, idle, rows, dlq, file, redo,
                      abandoned, erased, faults>>
      BY <1>9, <2>2 DEF Read, Deliver, durableVars
    <3>3. buf' \in [Procs -> [Streams -> SUBSET Ids]]
      BY <2>1, <2>4, <2>6 DEF TypeOK
    <3> QED
      BY <2>3, <2>6, <3>1, <3>2, <3>3 DEF TypeOK
  <2> QED
    BY <1>9, <2>5, <2>6 DEF Read, filled, ids
<1>10. ASSUME NEW p \in Procs, ReadError(p) PROVE TypeOK'
  BY <1>10, AdvanceType DEF TypeOK, ReadError, redisVars, durableVars,
                            ghostVars, Loops
<1>11. ASSUME NEW p \in Procs, ReadReplyLost(p) PROVE TypeOK'
  <2>1. turn[p] \in Streams
    BY DEF TypeOK
  <2>2. /\ Deliver(turn[p], Fresh(first[turn[p]], added[turn[p]],
                                 delivered[turn[p]], BatchSize))
        /\ Advance(p, "read")
        /\ faults' \in 0 .. MaxFaults
    BY <1>11 DEF ReadReplyLost, Fault, TypeOK
  <2>3. /\ delivered' \in [Streams -> 0 .. MaxEntries]
        /\ pel' \in [Streams -> SUBSET Ids]
        /\ handed' \in [Streams -> SUBSET Ids]
    BY <2>1, <2>2, DeliverType
  <2>4. pc' \in [Procs -> PCs] /\ turn' \in [Procs -> Streams]
    BY <2>2, AdvanceType DEF Loops
  <2>5. UNCHANGED <<added, first, grouped, idle>>
    BY <2>2 DEF Deliver
  <2> QED
    BY <1>11, <2>2, <2>3, <2>4, <2>5 DEF TypeOK, ReadReplyLost, durableVars
<1>12. ASSUME NEW p \in Procs, InsertOK(p) PROVE TypeOK'
  <2>1. turn[p] \in Streams /\ batch[p] \in SUBSET Ids
    BY DEF TypeOK
  <2> QED
    BY <1>12, <2>1, AddRowsType DEF TypeOK, InsertOK, redisVars, ghostVars, PCs
<1>13. ASSUME NEW p \in Procs, InsertFails(p) PROVE TypeOK'
  BY <1>13 DEF TypeOK, AttemptInv, InsertFails, CountAttempt, redisVars,
               durableVars, ghostVars, PCs
<1>14. ASSUME NEW p \in Procs, InsertOutcomeLost(p) PROVE TypeOK'
  <2>1. turn[p] \in Streams /\ batch[p] \in SUBSET Ids
    BY DEF TypeOK
  <2>2. faults' \in 0 .. MaxFaults
    BY <1>14 DEF TypeOK, InsertOutcomeLost, Fault
  <2>3. attempt' \in [Procs -> 0 .. MaxRetries] /\ pc' \in [Procs -> PCs]
    BY <1>14 DEF TypeOK, AttemptInv, InsertOutcomeLost, CountAttempt, PCs
  <2> QED
    BY <1>14, <2>1, <2>2, <2>3, AddRowsType
       DEF TypeOK, InsertOutcomeLost, redisVars
<1>15. ASSUME NEW p \in Procs, WriteDLQ(p) PROVE TypeOK'
  <2> DEFINE s == turn[p]
  <2>1. s \in Streams /\ batch[p] \in SUBSET Ids
    BY DEF TypeOK
  <2>2. DeadLetters(s) \in SUBSET Ids
    BY <2>1 DEF TypeOK, DeadLetters, Files
  <2>3. /\ dlq' \in [Streams -> SUBSET Ids]
        /\ file' \in [Streams -> Files]
        /\ abandoned' \in [Streams -> SUBSET Ids]
        /\ erased' \in [Streams -> SUBSET Ids]
    <3>1. CASE NoFile(s, batch[p])
      BY <2>1, <3>1 DEF TypeOK, NoFile
    <3>2. CASE NewFile(p, s, batch[p])
      <4> HIDE DEF s
      <4> QED
        BY <2>1, <2>2, <3>2 DEF TypeOK, NewFile, Files
    <3>3. CASE SameFile(p, s, batch[p])
      <4>1. PICK left \in SUBSET (file[s].ids \cup batch[p]) :
              /\ file' = [file EXCEPT ![s] = [by |-> @.by \cup {p}, ids |-> left]]
              /\ erased' = [erased EXCEPT ![s] =
                                @ \cup (file[s].ids \ (left \cup dlq[s]))]
              /\ abandoned' = [abandoned EXCEPT ![s] = @ \cup (batch[p] \ left)]
        BY <3>3 DEF SameFile
      <4>2. dlq' = dlq
        BY <3>3 DEF SameFile
      <4> HIDE DEF s
      <4>3. file[s].by \in SUBSET Procs /\ file[s].ids \in SUBSET Ids
        BY <2>1 DEF TypeOK, Files
      <4>4. [by |-> file[s].by \cup {p}, ids |-> left] \in Files
        BY <2>1, <4>3 DEF Files
      <4> QED
        BY <2>1, <4>1, <4>2, <4>3, <4>4 DEF TypeOK
    <3> QED
      BY <1>15, <3>1, <3>2, <3>3 DEF WriteDLQ
  <2> QED
    BY <1>15, <2>3 DEF TypeOK, WriteDLQ, redisVars, PCs
<1>16. ASSUME NEW p \in Procs, Ack(p) PROVE TypeOK'
  <2>1. from[p] \in Loops
    BY DEF TypeOK
  <2> QED
    <3>1. pc' \in [Procs -> PCs] /\ turn' \in [Procs -> Streams]
      BY <1>16, <2>1, AdvanceType DEF Ack, Return
    <3>2. /\ pel' \in [Streams -> SUBSET Ids] /\ idle' \in [Streams -> SUBSET Ids]
          /\ batch' \in [Procs -> SUBSET Ids] /\ attempt' \in [Procs -> 0 .. MaxRetries]
      BY <1>16 DEF TypeOK, Ack, Return
    <3>3. UNCHANGED <<added, first, grouped, delivered, from, buf, rows, dlq,
                      file, handed, redo, abandoned, erased, faults>>
      BY <1>16 DEF Ack, Return, durableVars, ghostVars
    <3> QED
      BY <3>1, <3>2, <3>3 DEF TypeOK
<1>17. ASSUME NEW p \in Procs, AckLost(p) PROVE TypeOK'
  <2>1. from[p] \in Loops
    BY DEF TypeOK
  <2> QED
    <3>1. pc' \in [Procs -> PCs] /\ turn' \in [Procs -> Streams]
      BY <1>17, <2>1, AdvanceType DEF AckLost, Return
    <3>2. faults' \in 0 .. MaxFaults
      BY <1>17 DEF TypeOK, AckLost, Fault
    <3>3. batch' \in [Procs -> SUBSET Ids] /\ attempt' \in [Procs -> 0 .. MaxRetries]
      BY <1>17 DEF TypeOK, AckLost, Return
    <3>4. UNCHANGED <<redisVars, from, buf, durableVars, ghostVars>>
      BY <1>17 DEF AckLost, Return
    <3> QED
      BY <3>1, <3>2, <3>3, <3>4 DEF TypeOK, redisVars, durableVars, ghostVars
<1>18. CASE UNCHANGED vars
  BY <1>18 DEF TypeOK, vars, redisVars, procVars, durableVars, ghostVars
<1> QED
  BY <1>1, <1>2, <1>3, <1>4, <1>5, <1>6, <1>7, <1>8, <1>9, <1>10, <1>11,
     <1>12, <1>13, <1>14, <1>15, <1>16, <1>17, <1>18 DEF Next, WriterStep

\* An attempt is left whenever flush tries an insert.
LEMMA AttemptStep == TypeOK /\ AttemptInv /\ [Next]_vars => AttemptInv'
<1> SUFFICES ASSUME TypeOK, AttemptInv, [Next]_vars PROVE AttemptInv'
  OBVIOUS
<1> USE ChWriterAssumption DEF AttemptInv
<1>1. ASSUME NEW p \in Procs, Claim(p) \/ TickStream(p) \/ Read(p)
      PROVE  AttemptInv'
  BY <1>1 DEF TypeOK, Claim, TickStream, Read, Flush, Advance
<1>2. ASSUME NEW p \in Procs, InsertFails(p) \/ InsertOutcomeLost(p)
      PROVE  AttemptInv'
  BY <1>2 DEF TypeOK, InsertFails, InsertOutcomeLost, CountAttempt
<1>3. ASSUME NEW p \in Procs,
             \/ Crash(p) \/ Start(p) \/ ClaimError(p) \/ TickFires(p)
             \/ ReadError(p) \/ ReadReplyLost(p) \/ InsertOK(p)
             \/ WriteDLQ(p)
      PROVE  AttemptInv'
  BY <1>3 DEF TypeOK, Crash, Start, ClaimError, TickFires, ReadError,
              ReadReplyLost, InsertOK, WriteDLQ, Advance
<1>4. ASSUME NEW p \in Procs, Ack(p) \/ AckLost(p) PROVE AttemptInv'
  BY <1>4 DEF TypeOK, Ack, AckLost, Return, Advance, Loops
<1>5. CASE UNCHANGED procVars
  BY <1>5 DEF procVars
<1> QED
  BY <1>1, <1>2, <1>3, <1>4, <1>5
     DEF Next, WriterStep, Publish, Age, vars

\* The type invariant, with the bound it needs to be inductive.
LEMMA TypeAndAttempts == Spec => [](TypeOK /\ AttemptInv)
<1>1. Init => TypeOK /\ AttemptInv
  BY ChWriterAssumption
     DEF Init, TypeOK, AttemptInv, PCs, Loops, Streams, Files
<1> QED
  BY <1>1, TypeStep, AttemptStep, PTL DEF Spec

\* Type correctness of the writer: every variable stays within its type, row
\* counts and buffers included.
THEOREM TypeCorrect == Spec => []TypeOK
BY TypeAndAttempts, PTL

-----------------------------------------------------------------------------
(* Nothing delivered is lost.                                              *)

\* The loop control decides nothing but pc and turn, and enters no flush.
LEMMA AdvanceFacts ==
    ASSUME TypeOK, NEW p \in Procs, NEW l \in Loops, Advance(p, l)
    PROVE  /\ pc'[p] \in Loops
           /\ \A q \in Procs \ {p} : pc'[q] = pc[q] /\ turn'[q] = turn[q]
BY DEF TypeOK, Advance, Loops

\* A delivery only adds entries, all of them new and behind the position.
LEMMA DeliverFacts ==
    ASSUME TypeOK, HandedInv, NEW s \in Streams,
           Deliver(s, Fresh(first[s], added[s], delivered[s], BatchSize))
    PROVE  LET ids == Fresh(first[s], added[s], delivered[s], BatchSize)
           IN  /\ ids \subseteq Ids
               /\ ids \cap handed[s] = {}
               /\ handed'[s] = handed[s] \cup ids
               /\ pel'[s] = pel[s] \cup ids
               /\ \A t \in Streams : handed'[t] \subseteq 1 .. delivered'[t]
               /\ \A t \in Streams \ {s} :
                     handed'[t] = handed[t] /\ pel'[t] = pel[t]
               /\ idle' = idle
<1> DEFINE ids == Fresh(first[s], added[s], delivered[s], BatchSize)
           to == FreshTo(first[s], added[s], delivered[s], BatchSize)
<1>1. /\ first[s] \in Nat \ {0}
      /\ added[s] \in Nat /\ added[s] <= MaxEntries
      /\ delivered[s] \in Nat
      /\ BatchSize \in Nat \ {0}
      /\ MaxEntries \in Nat
  BY ChWriterAssumption DEF TypeOK
<1>2. /\ \A i \in ids : i \in Nat /\ i > delivered[s] /\ i <= added[s]
      /\ \A i \in ids : i <= to
      /\ ids # {} => to \in Nat /\ to > delivered[s] /\ to <= added[s]
  BY <1>1, FreshBounds
<1>3. ids \subseteq Ids
  BY <1>1, <1>2 DEF Ids
<1>4. handed[s] \subseteq 1 .. delivered[s]
  BY DEF HandedInv
<1>5. ids \cap handed[s] = {}
  BY <1>1, <1>2, <1>4
<1> HIDE DEF ids, to
<1>6. /\ delivered' = [delivered EXCEPT ![s] = IF ids = {} THEN @ ELSE to]
      /\ pel' = [pel EXCEPT ![s] = @ \cup ids]
      /\ handed' = [handed EXCEPT ![s] = @ \cup ids]
      /\ idle' = idle
  BY DEF Deliver, ids, to
<1>7. /\ handed'[s] = handed[s] \cup ids
      /\ pel'[s] = pel[s] \cup ids
      /\ delivered'[s] = IF ids = {} THEN delivered[s] ELSE to
      /\ \A t \in Streams \ {s} : /\ handed'[t] = handed[t]
                                  /\ pel'[t] = pel[t]
                                  /\ delivered'[t] = delivered[t]
  BY <1>6 DEF TypeOK
<1>8. handed'[s] \subseteq 1 .. delivered'[s]
  <2>1. CASE ids = {}
    BY <1>4, <1>7, <2>1
  <2>2. CASE ids # {}
    <3>1. delivered'[s] = to /\ to \in Nat /\ to > delivered[s]
      BY <1>2, <1>7, <2>2
    <3>2. ASSUME NEW i \in handed'[s] PROVE i \in 1 .. to
      BY <1>1, <1>2, <1>4, <1>7, <3>1, <3>2
    <3> QED
      BY <3>1, <3>2
  <2> QED
    BY <2>1, <2>2
<1>9. \A t \in Streams : handed'[t] \subseteq 1 .. delivered'[t]
  BY <1>7, <1>8 DEF HandedInv
<1> QED
  BY <1>3, <1>5, <1>6, <1>7, <1>9 DEF ids

\* Rows are only ever added.
LEMMA AddRowsFacts ==
    ASSUME TypeOK, NEW s \in Streams, NEW S \in SUBSET Ids, AddRows(s, S)
    PROVE  /\ \A t \in Streams \ {s} : rows'[t] = rows[t]
           /\ \A i \in S : rows'[s][i] = rows[s][i] + 1
           /\ \A i \in Ids \ S : rows'[s][i] = rows[s][i]
           /\ Stored(s)' = Stored(s) \cup S
           /\ \A t \in Streams \ {s} : Stored(t)' = Stored(t)
BY DEF TypeOK, AddRows, Stored, DeadLetters, GivenUp

\* What writeDLQ does to a stream: some entries of the batch are in a file then
\* and the others given up, and a dead letter that disappears is given up too.
LEMMA DeadLetterFacts ==
    ASSUME TypeOK, NEW p \in Procs, NEW s \in Streams, s = turn[p], WriteDLQ(p)
    PROVE  /\ \E K, D \in SUBSET batch[p], L \in SUBSET DeadLetters(s) :
                 /\ batch[p] = K \cup D
                 /\ DeadLetters(s)' = (DeadLetters(s) \ L) \cup K
                 /\ GivenUp(s)' = GivenUp(s) \cup D \cup L
           /\ \A t \in Streams \ {s} : /\ DeadLetters(t)' = DeadLetters(t)
                                       /\ GivenUp(t)' = GivenUp(t)
           /\ \A t \in Streams : abandoned[t] \subseteq abandoned'[t]
<1>0. /\ dlq \in [Streams -> SUBSET Ids] /\ abandoned \in [Streams -> SUBSET Ids]
      /\ erased \in [Streams -> SUBSET Ids]
      /\ file \in [Streams -> [by : SUBSET Procs, ids : SUBSET Ids]]
  BY DEF TypeOK, Files
<1>1. CASE NoFile(s, batch[p])
  <2>1. /\ \A t \in Streams \ {s} : abandoned'[t] = abandoned[t]
        /\ abandoned'[s] = abandoned[s] \cup batch[p]
        /\ UNCHANGED <<dlq, file, erased>>
    BY <1>0, <1>1 DEF NoFile
  <2>2. DeadLetters(s)' = (DeadLetters(s) \ {}) \cup {}
    BY <2>1 DEF DeadLetters
  <2>3. GivenUp(s)' = GivenUp(s) \cup batch[p] \cup {}
    BY <2>1 DEF GivenUp
  <2>4. \A t \in Streams \ {s} : /\ DeadLetters(t)' = DeadLetters(t)
                               /\ GivenUp(t)' = GivenUp(t)
    BY <2>1 DEF DeadLetters, GivenUp
  <2>9. \E K, D \in SUBSET batch[p], L \in SUBSET DeadLetters(s) :
          /\ batch[p] = K \cup D
          /\ DeadLetters(s)' = (DeadLetters(s) \ L) \cup K
          /\ GivenUp(s)' = GivenUp(s) \cup D \cup L
    <3> WITNESS {} \in SUBSET batch[p], batch[p] \in SUBSET batch[p],
                {} \in SUBSET DeadLetters(s)
    <3> QED
      BY <2>2, <2>3
  <2> QED
    BY <2>1, <2>4, <2>9
<1>2. CASE NewFile(p, s, batch[p])
  <2>1. PICK written \in SUBSET batch[p] :
          /\ file' = [file EXCEPT ![s] = [by |-> {p}, ids |-> written]]
          /\ abandoned' = [abandoned EXCEPT ![s] = @ \cup (batch[p] \ written)]
    BY <1>2 DEF NewFile
  <2>2. /\ dlq' = [dlq EXCEPT ![s] = DeadLetters(s)] /\ erased' = erased
    BY <1>2 DEF NewFile
  <2>3. /\ dlq'[s] = DeadLetters(s) /\ file'[s].ids = written
        /\ abandoned'[s] = abandoned[s] \cup (batch[p] \ written)
        /\ \A t \in Streams \ {s} : /\ dlq'[t] = dlq[t] /\ file'[t] = file[t]
                                    /\ abandoned'[t] = abandoned[t]
    BY <1>0, <2>1, <2>2
  <2>4. DeadLetters(s)' = (DeadLetters(s) \ {}) \cup written
    BY <2>3 DEF DeadLetters
  <2>5. GivenUp(s)' = GivenUp(s) \cup (batch[p] \ written) \cup {}
    BY <2>2, <2>3 DEF GivenUp
  <2>6. \A t \in Streams \ {s} : /\ DeadLetters(t)' = DeadLetters(t)
                               /\ GivenUp(t)' = GivenUp(t)
    BY <2>2, <2>3 DEF DeadLetters, GivenUp
  <2>7. batch[p] = written \cup (batch[p] \ written)
    OBVIOUS
  <2>9. \E K, D \in SUBSET batch[p], L \in SUBSET DeadLetters(s) :
          /\ batch[p] = K \cup D
          /\ DeadLetters(s)' = (DeadLetters(s) \ L) \cup K
          /\ GivenUp(s)' = GivenUp(s) \cup D \cup L
    <3> WITNESS written \in SUBSET batch[p], batch[p] \ written \in SUBSET batch[p],
                {} \in SUBSET DeadLetters(s)
    <3> QED
      BY <2>4, <2>5, <2>7
  <2> QED
    BY <2>3, <2>6, <2>9
<1>3. CASE SameFile(p, s, batch[p])
  <2>1. PICK left \in SUBSET (file[s].ids \cup batch[p]) :
          /\ file' = [file EXCEPT ![s] = [by |-> @.by \cup {p}, ids |-> left]]
          /\ erased' = [erased EXCEPT ![s] =
                            @ \cup (file[s].ids \ (left \cup dlq[s]))]
          /\ abandoned' = [abandoned EXCEPT ![s] = @ \cup (batch[p] \ left)]
    BY <1>3 DEF SameFile
  <2> DEFINE still == left \cap batch[p]
             gone == file[s].ids \ (left \cup dlq[s])
  <2>2. /\ dlq' = dlq /\ file'[s].ids = left
        /\ abandoned'[s] = abandoned[s] \cup (batch[p] \ left)
        /\ erased'[s] = erased[s] \cup gone
        /\ \A t \in Streams \ {s} : /\ file'[t] = file[t] /\ erased'[t] = erased[t]
                                    /\ abandoned'[t] = abandoned[t]
    BY <1>0, <1>3, <2>1 DEF SameFile
  <2>3. DeadLetters(s)' = (DeadLetters(s) \ gone) \cup still
    BY <2>2 DEF DeadLetters
  <2>4. GivenUp(s)' = GivenUp(s) \cup (batch[p] \ left) \cup gone
    BY <2>2 DEF GivenUp
  <2>5. \A t \in Streams \ {s} : /\ DeadLetters(t)' = DeadLetters(t)
                               /\ GivenUp(t)' = GivenUp(t)
    BY <2>2 DEF DeadLetters, GivenUp
  <2>6. batch[p] = still \cup (batch[p] \ left) /\ gone \subseteq DeadLetters(s)
    BY DEF DeadLetters
  <2> HIDE DEF gone
  <2>9. \E K, D \in SUBSET batch[p], L \in SUBSET DeadLetters(s) :
          /\ batch[p] = K \cup D
          /\ DeadLetters(s)' = (DeadLetters(s) \ L) \cup K
          /\ GivenUp(s)' = GivenUp(s) \cup D \cup L
    <3> USE <2>6
    <3> WITNESS still \in SUBSET batch[p], batch[p] \ left \in SUBSET batch[p],
                gone \in SUBSET DeadLetters(s)
    <3> QED
      BY <2>3, <2>4, <2>6
  <2>7. \A t \in Streams : abandoned[t] \subseteq abandoned'[t]
    BY <2>2
  <2> QED
    BY <2>5, <2>7, <2>9
<1> QED
  BY <1>1, <1>2, <1>3 DEF WriteDLQ

\* Every step keeps the accounting.
LEMMA AccountStep == TypeOK /\ AccountInv /\ [Next]_vars => AccountInv'
<1> SUFFICES ASSUME TypeOK, AccountInv, [Next]_vars PROVE AccountInv'
  OBVIOUS
<1> USE DEF AccountInv, Flushing
<1>1. ASSUME NEW s \in Streams, Publish(s) PROVE AccountInv'
  BY <1>1 DEF Publish, procVars, durableVars, ghostVars, BatchInv, HandedInv,
              AckInv, DeliveredIsAccounted, Stored, DeadLetters, GivenUp
<1>2. ASSUME NEW s \in Streams, NEW i \in Ids, Age(s, i) PROVE AccountInv'
  BY <1>2 DEF TypeOK, Age, procVars, durableVars, ghostVars, BatchInv,
              HandedInv, AckInv, DeliveredIsAccounted, Stored, DeadLetters, GivenUp
<1>3. ASSUME NEW p \in Procs, Crash(p) PROVE AccountInv'
  BY <1>3 DEF TypeOK, Crash, redisVars, durableVars, ghostVars, BatchInv,
              HandedInv, AckInv, DeliveredIsAccounted, Stored, DeadLetters, GivenUp
<1>4. ASSUME NEW p \in Procs, Start(p) PROVE AccountInv'
  <2>1. BatchInv' /\ AckInv' /\ DeliveredIsAccounted'
    BY <1>4 DEF TypeOK, Start, durableVars, ghostVars, BatchInv, AckInv,
                DeliveredIsAccounted, Stored, DeadLetters, GivenUp
  <2>2. \A s \in Streams :
          /\ grouped[s] => grouped'[s] /\ delivered'[s] = delivered[s]
          /\ ~grouped'[s] => ~grouped[s] /\ delivered'[s] = delivered[s]
    BY <1>4 DEF TypeOK, Start
  <2>3. HandedInv'
    BY <1>4, <2>2 DEF HandedInv, Start, ghostVars
  <2> QED
    BY <2>1, <2>3
<1>5. ASSUME NEW p \in Procs, Claim(p) PROVE AccountInv'
  <2> DEFINE s == turn[p]
             seen == Claimable(pel[s], idle[s], first[s], ClaimCount)
             dead == {i \in seen : i < first[s]}
             ids == (seen \ dead) \ Malformed[s]
  <2>1. s \in Streams
    BY DEF TypeOK
  <2>2. seen \subseteq pel[s]
    BY LowestOfSubset DEF Claimable
  <2>3. dead \subseteq pel[s] /\ ids \subseteq pel[s] /\ dead \subseteq seen
    BY <2>2
  <2> HIDE DEF dead, ids, seen
  <2>4. /\ pel' = [pel EXCEPT ![s] = pel[s] \ dead]
        /\ idle' = [idle EXCEPT ![s] = idle[s] \ seen]
        /\ abandoned' = [abandoned EXCEPT ![s] = abandoned[s] \cup dead]
        /\ UNCHANGED <<delivered, grouped, buf, rows, dlq, file, handed, erased>>
        /\ \/ Flush(p, "claim", ids)
           \/ Advance(p, "claim") /\ UNCHANGED batch
    BY <1>5 DEF Claim, durableVars, dead, ids, seen
  <2>5. HandedInv'
    BY <2>1, <2>3, <2>4 DEF TypeOK, HandedInv
  <2>6. DeliveredIsAccounted'
    BY <2>1, <2>4 DEF TypeOK, DeliveredIsAccounted, Stored, DeadLetters, GivenUp
  <2>7. BatchInv' /\ AckInv'
    <3>1. ids \subseteq handed[s] /\ pc[p] = "claim"
      BY <1>5, <2>1, <2>3 DEF HandedInv, Claim
    <3>2. \A q \in Procs \ {p} : /\ pc'[q] = pc[q] /\ turn'[q] = turn[q]
                                /\ batch'[q] = batch[q]
      BY <2>4 DEF TypeOK, Flush, Advance
    <3>3. \/ pc'[p] \in Loops /\ batch'[p] = {}
          \/ pc'[p] = "insert" /\ batch'[p] = ids /\ turn'[p] = s
      BY <2>4, <3>1 DEF TypeOK, Flush, Advance, Loops, BatchInv
    <3>4. BatchInv'
      BY <2>4, <3>1, <3>2, <3>3 DEF BatchInv, Loops
    <3>5. AckInv'
      BY <2>1, <2>4, <3>2, <3>3 DEF TypeOK, AckInv, Loops, Stored, DeadLetters, GivenUp
    <3> QED
      BY <3>4, <3>5
  <2> QED
    BY <2>5, <2>6, <2>7
<1>6. ASSUME NEW p \in Procs,
             ClaimError(p) \/ TickFires(p) \/ ReadError(p)
      PROVE  AccountInv'
  <2>1. UNCHANGED <<grouped, delivered, pel, idle, batch, buf, rows, dlq, file,
                    handed, abandoned, erased>>
    BY <1>6 DEF ClaimError, TickFires, ReadError, redisVars, durableVars,
                ghostVars
  <2>2. HandedInv' /\ DeliveredIsAccounted'
    BY <2>1 DEF HandedInv, DeliveredIsAccounted, Stored, DeadLetters, GivenUp
  <2>3. /\ pc[p] \notin Flushing /\ pc'[p] \notin Flushing
        /\ \A q \in Procs \ {p} : pc'[q] = pc[q] /\ turn'[q] = turn[q]
    BY <1>6 DEF TypeOK, ClaimError, TickFires, ReadError, Advance
  <2>4. BatchInv' /\ AckInv'
    BY <2>1, <2>3 DEF BatchInv, AckInv, Stored, DeadLetters, GivenUp
  <2> QED
    BY <2>2, <2>4
<1>7. ASSUME NEW p \in Procs, TickStream(p) PROVE AccountInv'
  <2> DEFINE s == turn[p]
  <2>1. /\ UNCHANGED <<grouped, delivered, pel, idle, rows, dlq, file, handed,
                       abandoned, erased>>
        /\ s \in Streams
        /\ pc[p] = "tick"
    BY <1>7 DEF TypeOK, TickStream, redisVars, durableVars, ghostVars
  <2>2. DeliveredIsAccounted'
    BY <2>1 DEF DeliveredIsAccounted, Stored, DeadLetters, GivenUp
  <2>3. \A q \in Procs, t \in Streams : buf'[q][t] \subseteq buf[q][t]
    <3>1. buf' = [buf EXCEPT ![p][s] = {}] \/ buf' = buf
      BY <1>7 DEF TickStream
    <3>2. buf \in [Procs -> [Streams -> SUBSET Ids]]
      BY DEF TypeOK
    <3> QED
      BY <2>1, <3>1, <3>2
  <2>4. HandedInv'
    <3>1. \A q \in Procs, t \in Streams : buf'[q][t] \subseteq handed'[t]
      BY <2>1, <2>3 DEF HandedInv
    <3> QED
      BY <2>1, <3>1 DEF HandedInv
  <2>5. buf[p][s] \subseteq handed[s] /\ batch[p] = {}
    BY <2>1 DEF HandedInv, BatchInv
  <2>6. \/ Flush(p, "tick", buf[p][s])
        \/ Advance(p, "tick") /\ UNCHANGED batch
    BY <1>7 DEF TickStream
  <2>7. \A q \in Procs \ {p} : /\ pc'[q] = pc[q] /\ turn'[q] = turn[q]
                              /\ batch'[q] = batch[q]
    BY <2>6 DEF TypeOK, Flush, Advance
  <2>8. \/ pc'[p] \in Loops /\ batch'[p] = {}
        \/ pc'[p] = "insert" /\ batch'[p] = buf[p][s] /\ turn'[p] = s
    BY <2>5, <2>6 DEF TypeOK, Flush, Advance, Loops
  <2>9. BatchInv'
    BY <2>1, <2>5, <2>7, <2>8 DEF BatchInv, Loops
  <2>10. AckInv'
    BY <2>1, <2>7, <2>8 DEF AckInv, Stored, DeadLetters, GivenUp, Loops
  <2> QED
    BY <2>2, <2>4, <2>9, <2>10
<1>8. ASSUME NEW p \in Procs, Read(p) PROVE AccountInv'
  <2> DEFINE s == turn[p]
             ids == Fresh(first[s], added[s], delivered[s], BatchSize)
             filled == buf[p][s] \cup (ids \ Malformed[s])
  <2>1. s \in Streams /\ Deliver(s, ids) /\ pc[p] = "read" /\ grouped[s]
    BY <1>8 DEF TypeOK, Read
  <2>2. /\ handed'[s] = handed[s] \cup ids
        /\ pel'[s] = pel[s] \cup ids
        /\ \A t \in Streams : handed'[t] \subseteq 1 .. delivered'[t]
        /\ \A t \in Streams \ {s} : handed'[t] = handed[t] /\ pel'[t] = pel[t]
        /\ idle' = idle
    BY <2>1, DeliverFacts
  <2>3. UNCHANGED <<grouped, rows, dlq, file, abandoned, erased>>
    BY <1>8, <2>1 DEF Read, Deliver, durableVars
  <2> HIDE DEF ids
  <2>4. /\ \A q \in Procs \ {p} : buf'[q] = buf[q]
        /\ \A t \in Streams \ {s} : buf'[p][t] = buf[p][t]
        /\ buf'[p][s] \subseteq filled
    BY <1>8, <2>1 DEF TypeOK, Read, ids
  <2>5. HandedInv'
    BY <2>1, <2>2, <2>3, <2>4 DEF HandedInv
  <2>6. DeliveredIsAccounted'
    BY <2>1, <2>2, <2>3 DEF DeliveredIsAccounted, Stored, DeadLetters, GivenUp
  <2>7. \/ Flush(p, "read", filled)
        \/ Advance(p, "read") /\ UNCHANGED batch
    BY <1>8 DEF Read, ids
  <2>8. \A q \in Procs \ {p} : /\ pc'[q] = pc[q] /\ turn'[q] = turn[q]
                              /\ batch'[q] = batch[q]
    BY <2>7 DEF TypeOK, Flush, Advance
  <2>9. \/ pc'[p] \in Loops /\ batch'[p] = {}
        \/ pc'[p] = "insert" /\ batch'[p] = filled /\ turn'[p] = s
    BY <2>1, <2>7 DEF TypeOK, Flush, Advance, Loops, BatchInv
  <2>10. filled \subseteq handed'[s]
    BY <2>1, <2>2 DEF HandedInv
  <2>11. \A t \in Streams : handed[t] \subseteq handed'[t]
    BY <2>2
  <2> HIDE DEF filled
  <2>12. BatchInv'
    BY <2>8, <2>9, <2>10, <2>11 DEF TypeOK, BatchInv, Loops
  <2>13. AckInv'
    BY <2>3, <2>8, <2>9 DEF TypeOK, AckInv, Stored, DeadLetters, GivenUp, Loops
  <2> QED
    BY <2>5, <2>6, <2>12, <2>13
<1>9. ASSUME NEW p \in Procs, ReadReplyLost(p) PROVE AccountInv'
  <2> DEFINE s == turn[p]
             ids == Fresh(first[s], added[s], delivered[s], BatchSize)
  <2>1. s \in Streams /\ Deliver(s, ids) /\ pc[p] = "read" /\ grouped[s]
    BY <1>9 DEF TypeOK, ReadReplyLost
  <2>2. /\ handed'[s] = handed[s] \cup ids
        /\ pel'[s] = pel[s] \cup ids
        /\ \A t \in Streams : handed'[t] \subseteq 1 .. delivered'[t]
        /\ \A t \in Streams \ {s} : handed'[t] = handed[t] /\ pel'[t] = pel[t]
        /\ idle' = idle
    BY <2>1, DeliverFacts
  <2> HIDE DEF ids
  <2>3. UNCHANGED <<grouped, rows, dlq, file, abandoned, erased, batch, buf>>
    BY <1>9, <2>1 DEF ReadReplyLost, Deliver, durableVars, ids
  <2>4. HandedInv'
    BY <2>1, <2>2, <2>3 DEF HandedInv
  <2>5. DeliveredIsAccounted'
    BY <2>1, <2>2, <2>3 DEF DeliveredIsAccounted, Stored, DeadLetters, GivenUp
  <2>6. /\ \A q \in Procs \ {p} : pc'[q] = pc[q] /\ turn'[q] = turn[q]
        /\ pc'[p] \in Loops
    BY <1>9, AdvanceFacts DEF ReadReplyLost, Loops
  <2>7. \A t \in Streams : handed[t] \subseteq handed'[t]
    BY <2>2
  <2>8. BatchInv' /\ AckInv'
    BY <2>1, <2>3, <2>6, <2>7 DEF TypeOK, BatchInv, AckInv, Stored, DeadLetters, GivenUp, Loops
  <2> QED
    BY <2>4, <2>5, <2>8
<1>10. ASSUME NEW p \in Procs, InsertOK(p) \/ InsertOutcomeLost(p)
       PROVE  AccountInv'
  <2>1. /\ turn[p] \in Streams /\ batch[p] \in SUBSET Ids
        /\ AddRows(turn[p], batch[p])
        /\ pc[p] = "insert"
        /\ UNCHANGED <<redisVars, turn, batch, buf, dlq, file, handed, abandoned, erased>>
    BY <1>10 DEF TypeOK, InsertOK, InsertOutcomeLost, ghostVars
  <2>2. /\ Stored(turn[p])' = Stored(turn[p]) \cup batch[p]
        /\ \A t \in Streams : Stored(t) \subseteq Stored(t)'
    BY <2>1, AddRowsFacts
  <2>3. HandedInv'
    BY <2>1 DEF HandedInv, redisVars
  <2>4. DeliveredIsAccounted'
    BY <2>1, <2>2 DEF DeliveredIsAccounted, redisVars, DeadLetters, GivenUp
  <2>5. /\ pc'[p] \in Flushing
        /\ pc'[p] = "ack" => InsertOK(p)
        /\ \A q \in Procs \ {p} : pc'[q] = pc[q]
    BY <1>10 DEF TypeOK, InsertOK, InsertOutcomeLost, CountAttempt
  <2>6. BatchInv'
    BY <2>1, <2>5 DEF BatchInv
  <2>7. AckInv'
    <3>1. \A q \in Procs : turn'[q] = turn[q] /\ turn[q] \in Streams
      BY <2>1 DEF TypeOK
    <3> QED
      BY <2>1, <2>2, <2>5, <3>1 DEF AckInv, DeadLetters, GivenUp
  <2> QED
    BY <2>3, <2>4, <2>6, <2>7
<1>11. ASSUME NEW p \in Procs, InsertFails(p) PROVE AccountInv'
  BY <1>11 DEF TypeOK, InsertFails, CountAttempt, redisVars, durableVars,
               ghostVars, BatchInv, HandedInv, AckInv, DeliveredIsAccounted,
               Stored, DeadLetters, GivenUp
<1>12. ASSUME NEW p \in Procs, WriteDLQ(p) PROVE AccountInv'
  <2>1. /\ turn[p] \in Streams
        /\ pc[p] = "dlq"
        /\ pc' = [pc EXCEPT ![p] = "ack"]
        /\ UNCHANGED <<redisVars, turn, batch, buf, rows, handed>>
    BY <1>12 DEF TypeOK, WriteDLQ
  <2>2. /\ \A t \in Streams : /\ Stored(t)' = Stored(t)
                             /\ DeadLetters(t) \cup GivenUp(t)
                                   \subseteq (DeadLetters(t) \cup GivenUp(t))'
        /\ batch[p] \subseteq (DeadLetters(turn[p]) \cup GivenUp(turn[p]))'
    <3>1. \A t \in Streams : Stored(t)' = Stored(t)
      BY <2>1 DEF Stored
    <3>2. PICK s \in Streams : s = turn[p] /\ turn'[p] = s
      BY <2>1
    <3> QED
      BY <1>12, <2>1, <3>1, <3>2, DeadLetterFacts
  <2>3. HandedInv' /\ BatchInv'
    BY <2>1 DEF TypeOK, HandedInv, BatchInv, redisVars
  <2>4. DeliveredIsAccounted'
    BY <2>1, <2>2 DEF DeliveredIsAccounted, redisVars
  <2>5. AckInv'
    <3>1. \A q \in Procs : turn'[q] = turn[q] /\ turn[q] \in Streams
      BY <2>1 DEF TypeOK
    <3>2. \A q \in Procs \ {p} : pc'[q] = pc[q]
      BY <2>1 DEF TypeOK
    <3> QED
      BY <2>1, <2>2, <3>1, <3>2 DEF AckInv
  <2> QED
    BY <2>3, <2>4, <2>5
<1>13. ASSUME NEW p \in Procs, Ack(p) PROVE AccountInv'
  <2>1. /\ turn[p] \in Streams /\ from[p] \in Loops
        /\ pc[p] = "ack"
        /\ pel' = [pel EXCEPT ![turn[p]] = @ \ batch[p]]
        /\ idle' = [idle EXCEPT ![turn[p]] = @ \ batch[p]]
        /\ Advance(p, from[p])
        /\ batch' = [batch EXCEPT ![p] = {}]
        /\ UNCHANGED <<grouped, delivered, buf, rows, dlq, file, handed, abandoned, erased>>
    BY <1>13 DEF TypeOK, Ack, Return, durableVars, ghostVars
  <2>2. HandedInv'
    BY <2>1 DEF TypeOK, HandedInv
  <2>3. DeliveredIsAccounted'
    BY <2>1 DEF TypeOK, DeliveredIsAccounted, Stored, DeadLetters, GivenUp, AckInv
  <2>4. /\ pc'[p] \in Loops
        /\ \A q \in Procs \ {p} : pc'[q] = pc[q] /\ turn'[q] = turn[q]
    BY <2>1, AdvanceFacts
  <2>5. BatchInv' /\ AckInv'
    BY <2>1, <2>4 DEF TypeOK, BatchInv, AckInv, Stored, DeadLetters, GivenUp, Loops
  <2> QED
    BY <2>2, <2>3, <2>5
<1>14. ASSUME NEW p \in Procs, AckLost(p) PROVE AccountInv'
  <2>1. /\ from[p] \in Loops
        /\ Advance(p, from[p])
        /\ batch' = [batch EXCEPT ![p] = {}]
        /\ UNCHANGED <<redisVars, buf, durableVars, ghostVars>>
    BY <1>14 DEF TypeOK, AckLost, Return
  <2>2. HandedInv' /\ DeliveredIsAccounted'
    BY <2>1 DEF HandedInv, DeliveredIsAccounted, Stored, DeadLetters, GivenUp, redisVars,
                durableVars, ghostVars
  <2>3. /\ pc'[p] \in Loops
        /\ \A q \in Procs \ {p} : pc'[q] = pc[q] /\ turn'[q] = turn[q]
    BY <2>1, AdvanceFacts
  <2>4. BatchInv' /\ AckInv'
    BY <2>1, <2>3 DEF TypeOK, BatchInv, AckInv, Stored, DeadLetters, GivenUp, Loops, durableVars,
                      ghostVars
  <2> QED
    BY <2>2, <2>4
<1>15. CASE UNCHANGED vars
  BY <1>15 DEF vars, redisVars, procVars, durableVars, ghostVars, BatchInv,
               HandedInv, AckInv, DeliveredIsAccounted, Stored, DeadLetters, GivenUp
<1> QED
  BY <1>1, <1>2, <1>3, <1>4, <1>5, <1>6, <1>7, <1>8, <1>9, <1>10, <1>11,
     <1>12, <1>13, <1>14, <1>15 DEF Next, WriterStep

\* No step, in any interleaving of any number of processes, kills and losses,
\* acknowledges an entry that is neither stored, dead-lettered nor given up.
THEOREM NothingIsLost == Spec => []DeliveredIsAccounted
<1>1. Init => AccountInv
  BY DEF Init, AccountInv, BatchInv, HandedInv, AckInv, DeliveredIsAccounted,
         Stored, DeadLetters, GivenUp, Flushing
<1>2. AccountInv => DeliveredIsAccounted
  BY DEF AccountInv
<1> QED
  BY <1>1, <1>2, AccountStep, TypeCorrect, PTL DEF Spec

\* Together with types: the accounting invariant of every behaviour.
LEMMA AccountInvariant == Spec => []AccountInv
<1>1. Init => AccountInv
  BY DEF Init, AccountInv, BatchInv, HandedInv, AckInv, DeliveredIsAccounted,
         Stored, DeadLetters, GivenUp, Flushing
<1> QED
  BY <1>1, AccountStep, TypeCorrect, PTL DEF Spec

-----------------------------------------------------------------------------
(* The writer implements the at-least-once sink.                           *)

\* The entries of one stream, as events of the sink.
LEMMA EntriesOf ==
    ASSUME NEW s \in Streams, NEW S \in SUBSET Ids
    PROVE  {s} \X S \in SUBSET (Streams \X Ids)
OBVIOUS

\* Adding ids to one stream, or removing them, in the sink's view.
LEMMA EntriesChange ==
    ASSUME NEW f, NEW g, NEW s \in Streams, NEW S \in SUBSET Ids,
           \A t \in Streams \ {s} : g[t] = f[t]
    PROVE  /\ g[s] = f[s] \cup S => Entries(g) = Entries(f) \cup ({s} \X S)
           /\ g[s] = f[s] \ S => Entries(g) = Entries(f) \ ({s} \X S)
<1>1. ASSUME g[s] = f[s] \cup S
      PROVE  Entries(g) = Entries(f) \cup ({s} \X S)
  <2>1. ASSUME NEW e \in Streams \X Ids
        PROVE  e \in Entries(g) <=> e \in Entries(f) \cup ({s} \X S)
    BY <1>1 DEF Entries
  <2> QED
    BY <2>1, EntriesOf DEF Entries
<1>2. ASSUME g[s] = f[s] \ S
      PROVE  Entries(g) = Entries(f) \ ({s} \X S)
  <2>1. ASSUME NEW e \in Streams \X Ids
        PROVE  e \in Entries(g) <=> e \in Entries(f) \ ({s} \X S)
    BY <1>2 DEF Entries
  <2> QED
    BY <2>1 DEF Entries
<1> QED
  BY <1>1, <1>2

LEMMA EntriesSame ==
    ASSUME NEW f, NEW g, \A t \in Streams : g[t] = f[t]
    PROVE  Entries(g) = Entries(f)
BY DEF Entries

LEMMA EntriesMember ==
    ASSUME NEW f, NEW s \in Streams, NEW S \in SUBSET Ids
    PROVE  /\ S \subseteq f[s] <=> {s} \X S \subseteq Entries(f)
           /\ S \cap f[s] = {} <=> ({s} \X S) \cap Entries(f) = {}
<1>1. \A i \in Ids : i \in f[s] <=> <<s, i>> \in Entries(f)
  BY DEF Entries
<1>2. \A i \in Ids : i \in S <=> <<s, i>> \in {s} \X S
  OBVIOUS
<1>3. \A e \in {s} \X S : e = <<s, e[2]>> /\ e[2] \in S
  OBVIOUS
<1> QED
  BY <1>1, <1>2, <1>3

\* A step that changes none of what the mapping reads is a stutter of the sink.
LEMMA SinkStutter ==
    UNCHANGED <<pel, rows, dlq, file, handed, abandoned, erased>> => UNCHANGED Sink!sinkVars
BY DEF Sink!sinkVars, Entries, Kept, Parked, Dropped, Stored, DeadLetters,
       GivenUp

\* Every step of the writer is a step of the sink or a stutter of it.
LEMMA SinkStep ==
    TypeOK /\ AccountInv /\ [Next]_vars => [Sink!SinkNext]_(Sink!sinkVars)
<1> SUFFICES ASSUME TypeOK, AccountInv, [Next]_vars
             PROVE  [Sink!SinkNext]_(Sink!sinkVars)
  OBVIOUS
<1> DEFINE Events == Streams \X Ids
<1>1. ASSUME \/ \E s \in Streams : Publish(s)
             \/ \E s \in Streams, i \in Ids : Age(s, i)
             \/ \E p \in Procs :
                   \/ Crash(p) \/ Start(p) \/ ClaimError(p) \/ TickFires(p)
                   \/ TickStream(p) \/ ReadError(p) \/ InsertFails(p)
                   \/ AckLost(p)
             \/ UNCHANGED vars
      PROVE  [Sink!SinkNext]_(Sink!sinkVars)
  <2>1. UNCHANGED <<pel, rows, dlq, file, handed, abandoned, erased>>
    BY <1>1 DEF Publish, Age, Crash, Start, ClaimError, TickFires, TickStream,
                ReadError, InsertFails, AckLost, vars, redisVars, durableVars,
                ghostVars
  <2> QED
    BY <2>1, SinkStutter
<1>2. ASSUME NEW p \in Procs, Claim(p)
      PROVE  [Sink!SinkNext]_(Sink!sinkVars)
  <2> DEFINE s == turn[p]
             seen == Claimable(pel[s], idle[s], first[s], ClaimCount)
             dead == {i \in seen : i < first[s]}
  <2>1. s \in Streams /\ dead \subseteq pel[s] /\ dead \in SUBSET Ids
    BY LowestOfSubset DEF TypeOK, Claimable
  <2> HIDE DEF dead
  <2>2. /\ pel' = [pel EXCEPT ![s] = pel[s] \ dead]
        /\ abandoned' = [abandoned EXCEPT ![s] = abandoned[s] \cup dead]
        /\ UNCHANGED <<rows, dlq, file, handed, erased>>
    BY <1>2 DEF Claim, durableVars, dead
  <2> HIDE DEF s
  <2>3. /\ pel'[s] = pel[s] \ dead
        /\ abandoned'[s] = abandoned[s] \cup dead
        /\ \A t \in Streams \ {s} : pel'[t] = pel[t] /\ abandoned'[t] = abandoned[t]
    BY <2>1, <2>2 DEF TypeOK
  <2>4. /\ Dropped'[s] = Dropped[s] \cup dead
        /\ \A t \in Streams \ {s} : Dropped'[t] = Dropped[t]
    BY <2>1, <2>2, <2>3 DEF Dropped, GivenUp
  <2>8. /\ Entries(pel)' = Entries(pel) \ ({s} \X dead)
        /\ Entries(Dropped)' = Entries(Dropped) \cup ({s} \X dead)
    BY <2>1, <2>3, <2>4, EntriesChange DEF Entries
  <2>5. {s} \X dead \subseteq Entries(pel)
    BY <2>1, EntriesMember
  <2>6. /\ Entries(handed)' = Entries(handed) /\ Entries(Kept)' = Entries(Kept)
        /\ Entries(Parked)' = Entries(Parked)
    BY <2>2 DEF Entries, Kept, Parked, Stored, DeadLetters
  <2>7. Sink!Discard({s} \X dead)
    BY <2>5, <2>6, <2>8 DEF Sink!Discard
  <2> QED
    BY <2>1, <2>7, EntriesOf DEF Sink!SinkNext
<1>3. ASSUME NEW p \in Procs, Read(p) \/ ReadReplyLost(p)
      PROVE  [Sink!SinkNext]_(Sink!sinkVars)
  <2> DEFINE s == turn[p]
             ids == Fresh(first[s], added[s], delivered[s], BatchSize)
  <2>1. /\ s \in Streams
        /\ Deliver(s, ids)
        /\ UNCHANGED <<rows, dlq, file, abandoned, erased>>
    BY <1>3 DEF TypeOK, Read, ReadReplyLost, durableVars
  <2>2. /\ ids \in SUBSET Ids
        /\ ids \cap handed[s] = {}
        /\ handed'[s] = handed[s] \cup ids
        /\ pel'[s] = pel[s] \cup ids
        /\ \A t \in Streams \ {s} : handed'[t] = handed[t] /\ pel'[t] = pel[t]
    BY <2>1, DeliverFacts DEF AccountInv
  <2> HIDE DEF s, ids
  <2>3. /\ Entries(pel)' = Entries(pel) \cup ({s} \X ids)
        /\ Entries(handed)' = Entries(handed) \cup ({s} \X ids)
    BY <2>1, <2>2, EntriesChange DEF Entries
  <2>4. ({s} \X ids) \cap Entries(handed) = {}
    BY <2>1, <2>2, EntriesMember
  <2>5. /\ Entries(Kept)' = Entries(Kept) /\ Entries(Parked)' = Entries(Parked)
        /\ Entries(Dropped)' = Entries(Dropped)
    BY <2>1 DEF Entries, Kept, Parked, Dropped, Stored, DeadLetters, GivenUp
  <2>6. Sink!Accept({s} \X ids)
    BY <2>3, <2>4, <2>5 DEF Sink!Accept
  <2> QED
    BY <2>1, <2>2, <2>6, EntriesOf DEF Sink!SinkNext
<1>4. ASSUME NEW p \in Procs, InsertOK(p) \/ InsertOutcomeLost(p)
      PROVE  [Sink!SinkNext]_(Sink!sinkVars)
  <2>0. PICK s \in Streams, S \in SUBSET Ids : s = turn[p] /\ S = batch[p]
    BY DEF TypeOK
  <2>1. /\ pc[p] = "insert"
        /\ AddRows(s, S)
        /\ UNCHANGED <<pel, dlq, file, handed, abandoned, erased>>
    BY <1>4, <2>0 DEF TypeOK, InsertOK, InsertOutcomeLost, redisVars, ghostVars
  <2>2. S \subseteq handed[s]
    BY <2>0, <2>1 DEF AccountInv, BatchInv, Flushing
  <2>3. /\ Stored(s)' = Stored(s) \cup S
        /\ \A t \in Streams \ {s} : Stored(t)' = Stored(t)
    BY <2>1, AddRowsFacts
  <2>4. /\ Kept'[s] = Kept[s] \cup S
        /\ \A t \in Streams \ {s} : Kept'[t] = Kept[t]
    BY <2>1, <2>3 DEF Kept
  <2>5. Entries(Kept)' = Entries(Kept) \cup ({s} \X S)
    BY <2>1, <2>4, EntriesChange DEF Entries
  <2>6. {s} \X S \subseteq Entries(handed)
    BY <2>1, <2>2, EntriesMember
  <2>7. /\ Entries(Dropped)' = Entries(Dropped)
        /\ Entries(Parked)' = Entries(Parked)
        /\ Entries(handed)' = Entries(handed)
        /\ Entries(pel)' = Entries(pel)
    BY <2>1 DEF Entries, Parked, Dropped, DeadLetters, GivenUp
  <2>8. Sink!Settle({s} \X S, {}, {}, {})
    BY <2>5, <2>6, <2>7 DEF Sink!Settle
  <2> QED
    BY <2>1, <2>8, EntriesOf DEF Sink!SinkNext
<1>5. ASSUME NEW p \in Procs, WriteDLQ(p)
      PROVE  [Sink!SinkNext]_(Sink!sinkVars)
  <2>0. PICK s \in Streams : s = turn[p]
    BY DEF TypeOK
  <2>1. /\ pc[p] = "dlq"
        /\ UNCHANGED <<pel, rows, handed>>
    BY <1>5 DEF TypeOK, WriteDLQ, redisVars
  <2>2. PICK K \in SUBSET batch[p], D \in SUBSET batch[p], L \in SUBSET DeadLetters(s) :
          /\ batch[p] = K \cup D
          /\ DeadLetters(s)' = (DeadLetters(s) \ L) \cup K
          /\ GivenUp(s)' = GivenUp(s) \cup D \cup L
    BY <1>5, <2>0, DeadLetterFacts
  <2>3. \A t \in Streams \ {s} : /\ DeadLetters(t)' = DeadLetters(t)
                               /\ GivenUp(t)' = GivenUp(t)
    BY <1>5, <2>0, DeadLetterFacts
  <2>4. /\ K \in SUBSET Ids /\ D \in SUBSET Ids /\ L \in SUBSET Ids
        /\ K \subseteq handed[s] /\ D \subseteq handed[s]
    BY <2>0, <2>1 DEF TypeOK, AccountInv, BatchInv, Flushing, DeadLetters, Files
  <2>5. {s} \X K \subseteq Entries(handed) /\ {s} \X D \subseteq Entries(handed)
    BY <2>4, EntriesMember
  <2>6. {s} \X L \subseteq Entries(Parked)
    <3>1. L \subseteq Parked[s]
      BY DEF Parked
    <3> QED
      BY <2>4, <3>1, EntriesMember
  <2>7. Entries(Parked)' = (Entries(Parked) \ ({s} \X L)) \cup ({s} \X K)
    <3>1. ASSUME NEW e \in Streams \X Ids
          PROVE  e \in Entries(Parked)' <=>
                    e \in (Entries(Parked) \ ({s} \X L)) \cup ({s} \X K)
      BY <2>2, <2>3, <3>1 DEF Entries, Parked
    <3> QED
      BY <2>4, <3>1, EntriesOf DEF Entries
  <2>8. Entries(Dropped)' = Entries(Dropped) \cup ({s} \X D) \cup ({s} \X L)
    <3>1. ASSUME NEW e \in Streams \X Ids
          PROVE  e \in Entries(Dropped)' <=>
                    e \in Entries(Dropped) \cup ({s} \X D) \cup ({s} \X L)
      BY <2>2, <2>3, <3>1 DEF Entries, Dropped
    <3> QED
      BY <2>4, <3>1, EntriesOf DEF Entries
  <2>9. /\ Entries(handed)' = Entries(handed) /\ Entries(pel)' = Entries(pel)
        /\ Entries(Kept)' = Entries(Kept)
    BY <2>1 DEF Entries, Kept, Stored
  <2>10. Sink!Settle({}, {s} \X K, {s} \X D, {s} \X L)
    BY <2>5, <2>6, <2>7, <2>8, <2>9 DEF Sink!Settle
  <2> QED
    BY <2>4, <2>10, EntriesOf DEF Sink!SinkNext
<1>6. ASSUME NEW p \in Procs, Ack(p)
      PROVE  [Sink!SinkNext]_(Sink!sinkVars)
  <2> DEFINE s == turn[p]
             S == batch[p]
  <2>1. /\ s \in Streams /\ S \in SUBSET Ids
        /\ pel' = [pel EXCEPT ![s] = pel[s] \ S]
        /\ UNCHANGED <<rows, dlq, file, handed, abandoned, erased>>
    BY <1>6 DEF TypeOK, Ack, durableVars, ghostVars
  <2>2. S \subseteq Kept[s] \cup Parked[s] \cup Dropped[s]
    BY <1>6, <2>1 DEF AccountInv, AckInv, Ack, Kept, Parked, Dropped
  <2> HIDE DEF s, S
  <2>3. pel'[s] = pel[s] \ S /\ \A t \in Streams \ {s} : pel'[t] = pel[t]
    BY <2>1 DEF TypeOK
  <2>4. Entries(pel)' = Entries(pel) \ ({s} \X S)
    BY <2>1, <2>3, EntriesChange DEF Entries
  <2>5. {s} \X S \subseteq Entries(Kept) \cup Entries(Parked) \cup Entries(Dropped)
    BY <2>1, <2>2 DEF Entries
  <2>6. /\ Entries(handed)' = Entries(handed)
        /\ Entries(Kept)' = Entries(Kept) /\ Entries(Parked)' = Entries(Parked)
        /\ Entries(Dropped)' = Entries(Dropped)
    BY <2>1 DEF Entries, Kept, Parked, Dropped, Stored, DeadLetters, GivenUp
  <2>7. Sink!Release({s} \X S)
    BY <2>4, <2>5, <2>6 DEF Sink!Release
  <2> QED
    BY <2>1, <2>7, EntriesOf DEF Sink!SinkNext
<1> QED
  BY <1>1, <1>2, <1>3, <1>4, <1>5, <1>6 DEF Next, WriterStep

\* The writer implements the at-least-once sink: it takes each entry from the
\* group once, and lets go of it only when it has a row, is in a dead-letter
\* file, or is dropped; what a file loses to another process is dropped too.
THEOREM WriterImplementsSink == Spec => ImplementsSink
<1>1. Init => Sink!SinkInit
  BY DEF Init, Sink!SinkInit, Entries, Kept, Parked, Dropped, Stored,
         DeadLetters, GivenUp
<1> QED
  BY <1>1, SinkStep, TypeCorrect, AccountInvariant, PTL
     DEF Spec, ImplementsSink, Sink!SinkSpec

\* What the sink promises follows from the sink's steps alone: whatever
\* implements it, like flush with its claims and retries, lets no entry vanish
\* that the group delivered to it.
THEOREM SinkLosesNothing == Sink!SinkSpec => []Sink!NothingVanishes
<1>1. Sink!SinkInit => Sink!NothingVanishes
  BY DEF Sink!SinkInit, Sink!NothingVanishes
<1>2. Sink!NothingVanishes /\ [Sink!SinkNext]_(Sink!sinkVars) => Sink!NothingVanishes'
  <2> SUFFICES ASSUME Sink!NothingVanishes, [Sink!SinkNext]_(Sink!sinkVars)
               PROVE  Sink!NothingVanishes'
    OBVIOUS
  <2>1. CASE UNCHANGED Sink!sinkVars
    BY <2>1 DEF Sink!sinkVars, Sink!NothingVanishes
  <2>2. ASSUME NEW S, Sink!Accept(S) PROVE Sink!NothingVanishes'
    BY <2>2 DEF Sink!Accept, Sink!NothingVanishes
  <2>3. ASSUME NEW K, NEW P, NEW D, NEW L, Sink!Settle(K, P, D, L)
        PROVE  Sink!NothingVanishes'
    BY <2>3 DEF Sink!Settle, Sink!NothingVanishes
  <2>4. ASSUME NEW S, Sink!Release(S) PROVE Sink!NothingVanishes'
    BY <2>4 DEF Sink!Release, Sink!NothingVanishes
  <2>5. ASSUME NEW S, Sink!Discard(S) PROVE Sink!NothingVanishes'
    BY <2>5 DEF Sink!Discard, Sink!NothingVanishes
  <2> QED
    BY <2>1, <2>2, <2>3, <2>4, <2>5 DEF Sink!SinkNext
<1> QED
  BY <1>1, <1>2, PTL DEF Sink!SinkSpec

-----------------------------------------------------------------------------
(* Duplicates need a re-delivery, and what is in memory is recoverable.    *)

\* What a step of p does that handles entries in memory and writes no result:
\* p ends up with entries it had in its buffers, entries just delivered, and
\* entries re-delivered to it, none of them in two places; what leaves the
\* pending list was in p's batch or is given up.
Gathers(p) ==
    /\ rows' = rows /\ dlq' = dlq /\ file' = file
    /\ \A q \in Procs \ {p} : pc'[q] = pc[q]
    /\ \A q \in Procs \ {p}, t \in Streams :
          buf'[q][t] = buf[q][t] /\ BatchOf(q, t)' = BatchOf(q, t)
    /\ \A t \in Streams :
          /\ handed[t] \subseteq handed'[t]
          /\ redo[t] \subseteq redo'[t]
          /\ abandoned[t] \subseteq abandoned'[t]
          /\ buf'[p][t] \cup BatchOf(p, t)'
                \subseteq buf[p][t] \cup (pel'[t] \cap (handed'[t] \ handed[t]))
                              \cup redo'[t]
          /\ buf'[p][t] \cap BatchOf(p, t)' \subseteq redo'[t]
          /\ pel[t] \subseteq pel'[t] \cup abandoned'[t] \cup BatchOf(p, t)

\* A loop that moves on without a batch handles no entries beyond its buffers.
LEMMA AdvanceGathers ==
    ASSUME TypeOK, NEW p \in Procs, NEW l \in Loops, Advance(p, l),
           batch' = [batch EXCEPT ![p] = {}]
    PROVE  /\ pc'[p] \in Loops
           /\ \A t \in Streams : BatchOf(p, t)' = {}
           /\ \A q \in Procs \ {p} : pc'[q] = pc[q]
           /\ \A q \in Procs \ {p}, t \in Streams : BatchOf(q, t)' = BatchOf(q, t)
BY AdvanceFacts DEF TypeOK, BatchOf

\* Within the loops the batch is empty, so that leaving it alone empties it.
LEMMA NoBatch ==
    ASSUME TypeOK, AccountInv, NEW p \in Procs, pc[p] \in Loops,
           UNCHANGED batch
    PROVE  batch' = [batch EXCEPT ![p] = {}]
BY DEF TypeOK, AccountInv, BatchInv, Flushing, Loops

\* Calling flush puts its argument into the batch, as entries of the stream
\* the loop is at.
LEMMA FlushFacts ==
    ASSUME TypeOK, NEW p \in Procs, NEW l, NEW ids, Flush(p, l, ids),
           NEW s \in Streams, s = turn[p]
    PROVE  /\ BatchOf(p, s)' = ids
           /\ \A t \in Streams \ {s} : BatchOf(p, t)' = {}
           /\ \A q \in Procs \ {p} : pc'[q] = pc[q]
           /\ \A q \in Procs \ {p}, t \in Streams : BatchOf(q, t)' = BatchOf(q, t)
BY DEF TypeOK, Flush, BatchOf

\* The steps of the loops, the end of a flush and a kill only gather.
LEMMA GatherEffect ==
    ASSUME TypeOK, AccountInv, NEW p \in Procs,
           \/ Crash(p) \/ Claim(p) \/ ClaimError(p) \/ TickStream(p)
           \/ Read(p) \/ ReadError(p) \/ ReadReplyLost(p)
           \/ Ack(p) \/ AckLost(p)
    PROVE  Gathers(p)
<1>0. from[p] \in Loops
  BY DEF TypeOK
<1>s. PICK s \in Streams : s = turn[p]
  BY DEF TypeOK
<1>1. CASE Crash(p)
  <2>1. /\ UNCHANGED <<rows, dlq, file, handed, redo, abandoned, erased, pel>>
        /\ pc'[p] = "down"
        /\ \A q \in Procs \ {p} : /\ pc'[q] = pc[q] /\ turn'[q] = turn[q]
                                  /\ batch'[q] = batch[q] /\ buf'[q] = buf[q]
        /\ batch'[p] = {} /\ \A t \in Streams : buf'[p][t] = {}
    BY <1>1 DEF TypeOK, Crash, redisVars, durableVars, ghostVars
  <2> QED
    BY <2>1 DEF Gathers, BatchOf
<1>2. CASE Claim(p)
  <2> DEFINE seen == Claimable(pel[s], idle[s], first[s], ClaimCount)
             dead == {i \in seen : i < first[s]}
             ids == (seen \ dead) \ Malformed[s]
  <2>0. dead \cap ids = {}
    OBVIOUS
  <2> HIDE DEF dead, ids, seen
  <2>1. /\ pel' = [pel EXCEPT ![s] = pel[s] \ dead]
        /\ abandoned' = [abandoned EXCEPT ![s] = abandoned[s] \cup dead]
        /\ redo' = [redo EXCEPT ![s] = redo[s] \cup ids]
        /\ UNCHANGED <<buf, rows, dlq, file, handed>>
        /\ pc[p] = "claim"
        /\ \/ Flush(p, "claim", ids)
           \/ Advance(p, "claim") /\ UNCHANGED batch
    BY <1>2, <1>s DEF Claim, durableVars, dead, ids, seen
  <2>2. /\ \A q \in Procs \ {p} : pc'[q] = pc[q]
        /\ \A q \in Procs \ {p}, t \in Streams : BatchOf(q, t)' = BatchOf(q, t)
        /\ BatchOf(p, s)' \subseteq ids
        /\ \A t \in Streams \ {s} : BatchOf(p, t)' = {}
    <3>1. CASE Flush(p, "claim", ids)
      BY <1>s, <3>1, FlushFacts
    <3>2. CASE Advance(p, "claim") /\ UNCHANGED batch
      <4>1. pc[p] \in Loops /\ "claim" \in Loops
        BY <2>1 DEF Loops
      <4>2. batch' = [batch EXCEPT ![p] = {}]
        BY <3>2, <4>1, NoBatch
      <4>3. \A t \in Streams : BatchOf(p, t)' = {}
        BY <3>2, <4>1, <4>2, AdvanceGathers
      <4> QED
        BY <1>0, <1>s, <3>2, <4>1, <4>2, <4>3, AdvanceGathers
    <3> QED
      BY <2>1, <3>1, <3>2
  <2>3. \A t \in Streams :
          /\ abandoned[t] \subseteq abandoned'[t]
          /\ redo[t] \subseteq redo'[t]
          /\ pel[t] \subseteq pel'[t] \cup abandoned'[t]
          /\ t = s => ids \subseteq redo'[t]
    BY <1>0, <1>s, <2>1 DEF TypeOK
  <2>4. ASSUME NEW t \in Streams
        PROVE  /\ BatchOf(p, t)' \subseteq redo'[t]
               /\ buf'[p][t] = buf[p][t] /\ handed'[t] = handed[t]
    BY <1>0, <1>s, <2>1, <2>2, <2>3
  <2> QED
    BY <2>1, <2>2, <2>3, <2>4 DEF Gathers
<1>3. CASE ClaimError(p) \/ ReadError(p)
  <2>1. /\ UNCHANGED <<rows, dlq, file, handed, redo, abandoned, erased, pel, buf, batch>>
        /\ pc[p] \in Loops
        /\ Advance(p, "claim") \/ Advance(p, "read")
    BY <1>3 DEF ClaimError, ReadError, redisVars, durableVars, ghostVars, Loops
  <2>2. batch' = [batch EXCEPT ![p] = {}]
    BY <2>1, NoBatch
  <2> QED
    BY <2>1, <2>2, AdvanceGathers DEF Gathers, Loops
<1>4. CASE TickStream(p)
  <2>1. /\ UNCHANGED <<rows, dlq, file, handed, redo, abandoned, erased, pel>>
        /\ pc[p] = "tick"
    BY <1>4 DEF TickStream, redisVars, durableVars, ghostVars
  <2>2. CASE Flush(p, "tick", buf[p][s]) /\ buf' = [buf EXCEPT ![p][s] = {}]
    <3>1. /\ \A q \in Procs \ {p} : buf'[q] = buf[q]
          /\ buf'[p][s] = {}
          /\ \A t \in Streams \ {s} : buf'[p][t] = buf[p][t]
      BY <1>0, <1>s, <2>2 DEF TypeOK
    <3>2. /\ BatchOf(p, s)' = buf[p][s]
          /\ \A t \in Streams \ {s} : BatchOf(p, t)' = {}
          /\ \A q \in Procs \ {p} : pc'[q] = pc[q]
          /\ \A q \in Procs \ {p}, t \in Streams : BatchOf(q, t)' = BatchOf(q, t)
      BY <1>s, <2>2, FlushFacts
    <3>3. ASSUME NEW t \in Streams
          PROVE  /\ buf'[p][t] \cup BatchOf(p, t)' \subseteq buf[p][t]
                 /\ buf'[p][t] \cap BatchOf(p, t)' = {}
      BY <3>1, <3>2
    <3> QED
      BY <2>1, <3>1, <3>2, <3>3 DEF Gathers
  <2>3. CASE Advance(p, "tick") /\ UNCHANGED <<batch, buf>>
    <3>1. batch' = [batch EXCEPT ![p] = {}]
      BY <2>1, <2>3, NoBatch DEF Loops
    <3> QED
      BY <2>1, <2>3, <3>1, AdvanceGathers DEF Gathers, Loops
  <2> QED
    BY <1>4, <1>s, <2>2, <2>3 DEF TickStream
<1>5. CASE Read(p)
  <2> DEFINE ids == Fresh(first[s], added[s], delivered[s], BatchSize)
             filled == buf[p][s] \cup (ids \ Malformed[s])
  <2>1. /\ pc[p] = "read"
        /\ UNCHANGED <<rows, dlq, file, redo, abandoned, erased>>
        /\ Deliver(s, ids)
    BY <1>5, <1>s DEF Read, durableVars
  <2>2. /\ ids \cap handed[s] = {}
        /\ handed'[s] = handed[s] \cup ids
        /\ pel'[s] = pel[s] \cup ids
        /\ \A t \in Streams \ {s} : handed'[t] = handed[t] /\ pel'[t] = pel[t]
    BY <1>0, <1>s, <2>1, DeliverFacts DEF AccountInv
  <2>3. \/ Flush(p, "read", filled) /\ buf' = [buf EXCEPT ![p][s] = {}]
        \/ /\ buf' = [buf EXCEPT ![p][s] = filled]
           /\ Advance(p, "read")
           /\ UNCHANGED batch
    BY <1>5, <1>s DEF Read
  <2> HIDE DEF ids
  <2>4. CASE Flush(p, "read", filled) /\ buf' = [buf EXCEPT ![p][s] = {}]
    <3>1. /\ \A q \in Procs \ {p} : buf'[q] = buf[q]
          /\ buf'[p][s] = {}
          /\ \A t \in Streams \ {s} : buf'[p][t] = buf[p][t]
      BY <1>0, <1>s, <2>4 DEF TypeOK
    <3>2. /\ BatchOf(p, s)' = filled
          /\ \A t \in Streams \ {s} : BatchOf(p, t)' = {}
          /\ \A q \in Procs \ {p} : pc'[q] = pc[q]
          /\ \A q \in Procs \ {p}, t \in Streams : BatchOf(q, t)' = BatchOf(q, t)
      BY <1>s, <2>4, FlushFacts
    <3>3. ASSUME NEW t \in Streams
          PROVE  /\ buf'[p][t] \cup BatchOf(p, t)'
                       \subseteq buf[p][t] \cup (pel'[t] \cap (handed'[t] \ handed[t]))
                 /\ buf'[p][t] \cap BatchOf(p, t)' = {}
                 /\ handed[t] \subseteq handed'[t] /\ pel[t] \subseteq pel'[t]
      BY <1>s, <2>2, <3>1, <3>2
    <3> QED
      BY <2>1, <3>1, <3>2, <3>3 DEF Gathers
  <2>5. CASE /\ buf' = [buf EXCEPT ![p][s] = filled]
             /\ Advance(p, "read")
             /\ UNCHANGED batch
    <3>1. /\ \A q \in Procs \ {p} : buf'[q] = buf[q]
          /\ buf'[p][s] = filled
          /\ \A t \in Streams \ {s} : buf'[p][t] = buf[p][t]
      BY <1>0, <1>s, <2>5 DEF TypeOK
    <3>2. batch' = [batch EXCEPT ![p] = {}]
      BY <2>1, <2>5, NoBatch DEF Loops
    <3>3. /\ \A t \in Streams : BatchOf(p, t)' = {}
          /\ \A q \in Procs \ {p} : pc'[q] = pc[q]
          /\ \A q \in Procs \ {p}, t \in Streams : BatchOf(q, t)' = BatchOf(q, t)
      BY <1>0, <2>5, <3>2, AdvanceGathers DEF Loops
    <3>4. ASSUME NEW t \in Streams
          PROVE  buf'[p][t] \subseteq buf[p][t] \cup (pel'[t] \cap (handed'[t] \ handed[t]))
      BY <1>s, <2>2, <3>1
    <3> QED
      BY <2>1, <2>2, <3>1, <3>3, <3>4 DEF Gathers
  <2> QED
    BY <2>3, <2>4, <2>5
<1>6. CASE ReadReplyLost(p)
  <2> DEFINE ids == Fresh(first[s], added[s], delivered[s], BatchSize)
  <2>1. /\ pc[p] = "read"
        /\ UNCHANGED <<rows, dlq, file, redo, abandoned, erased, buf, batch>>
        /\ Deliver(s, ids)
        /\ Advance(p, "read")
    BY <1>6, <1>s DEF ReadReplyLost, durableVars
  <2>2. /\ handed'[s] = handed[s] \cup ids
        /\ pel'[s] = pel[s] \cup ids
        /\ \A t \in Streams \ {s} : handed'[t] = handed[t] /\ pel'[t] = pel[t]
    BY <1>0, <1>s, <2>1, DeliverFacts DEF AccountInv
  <2>3. batch' = [batch EXCEPT ![p] = {}]
    BY <2>1, NoBatch DEF Loops
  <2> HIDE DEF ids
  <2> QED
    BY <1>0, <1>s, <2>1, <2>2, <2>3, AdvanceGathers DEF Gathers, Loops
<1>7. CASE Ack(p) \/ AckLost(p)
  <2>1. /\ UNCHANGED <<rows, dlq, file, handed, redo, abandoned, erased, buf>>
        /\ Advance(p, from[p])
        /\ batch' = [batch EXCEPT ![p] = {}]
        /\ pel' = [pel EXCEPT ![s] = pel[s] \ batch[p]] \/ pel' = pel
    BY <1>7, <1>s DEF Ack, AckLost, Return, redisVars, durableVars, ghostVars
  <2>2. \A t \in Streams : pel[t] \subseteq pel'[t] \cup BatchOf(p, t)
    <3>1. CASE pel' = pel
      BY <3>1
    <3>2. CASE pel' = [pel EXCEPT ![s] = pel[s] \ batch[p]]
      <4>1. /\ pel'[s] = pel[s] \ batch[p]
            /\ \A t \in Streams \ {s} : pel'[t] = pel[t]
        BY <1>0, <1>s, <3>2 DEF TypeOK
      <4>2. BatchOf(p, s) = batch[p]
        BY <1>s DEF BatchOf
      <4> QED
        BY <4>1, <4>2
    <3> QED
      BY <2>1, <3>1, <3>2
  <2> QED
    BY <1>0, <1>s, <2>1, <2>2, AdvanceGathers DEF Gathers, Loops
<1> QED
  BY <1>1, <1>2, <1>3, <1>4, <1>5, <1>6, <1>7

\* Gathering keeps one holder per entry and no result before its flush.
LEMMA GatherKeeps ==
    ASSUME TypeOK, AccountInv, DuplicateInv, MemoryInv, NEW p \in Procs, Gathers(p)
    PROVE  DuplicateInv' /\ MemoryInv'
<1> USE DEF Gathers
<1>1. \A q \in Procs, t \in Streams : buf[q][t] \cup BatchOf(q, t) \subseteq handed[t]
  BY DEF AccountInv, BatchInv, HandedInv, BatchOf
<1>2. \A t \in Streams :
        /\ buf'[p][t] \cup BatchOf(p, t)'
              \subseteq buf[p][t] \cup (handed'[t] \ handed[t]) \cup redo'[t]
        /\ redo[t] \subseteq redo'[t] /\ handed[t] \subseteq handed'[t]
        /\ rows'[t] = rows[t] /\ DeadLetters(t)' = DeadLetters(t)
  BY DEF DeadLetters
<1>3. HolderInv'
  <2>1. ASSUME NEW t \in Streams, NEW q \in Procs \ {p}
        PROVE  (buf'[p][t] \cup BatchOf(p, t)') \cap (buf'[q][t] \cup BatchOf(q, t)')
                  \subseteq redo'[t]
    <3>1. (buf[p][t] \cup BatchOf(p, t)) \cap (buf[q][t] \cup BatchOf(q, t))
              \subseteq redo[t]
      BY DEF DuplicateInv, HolderInv
    <3>2. buf'[q][t] = buf[q][t] /\ BatchOf(q, t)' = BatchOf(q, t)
      OBVIOUS
    <3> QED
      BY <1>1, <1>2, <3>1, <3>2
  <2>2. ASSUME NEW t \in Streams, NEW q \in Procs \ {p}, NEW r \in Procs \ {p, q}
        PROVE  (buf'[q][t] \cup BatchOf(q, t)') \cap (buf'[r][t] \cup BatchOf(r, t)')
                  \subseteq redo'[t]
    <3>1. (buf[q][t] \cup BatchOf(q, t)) \cap (buf[r][t] \cup BatchOf(r, t))
              \subseteq redo[t]
      BY DEF DuplicateInv, HolderInv
    <3>2. /\ buf'[q][t] = buf[q][t] /\ BatchOf(q, t)' = BatchOf(q, t)
          /\ buf'[r][t] = buf[r][t] /\ BatchOf(r, t)' = BatchOf(r, t)
      OBVIOUS
    <3> QED
      BY <1>2, <3>1, <3>2
  <2>3. ASSUME NEW t \in Streams, NEW q \in Procs
        PROVE  buf'[q][t] \cap BatchOf(q, t)' \subseteq redo'[t]
    <3>1. buf[q][t] \cap BatchOf(q, t) \subseteq redo[t]
      BY DEF DuplicateInv, HolderInv
    <3> QED
      BY <1>2, <3>1
  <2> QED
    BY <2>1, <2>2, <2>3 DEF HolderInv
<1>4. UnsettledInv'
  <2>1. ASSUME NEW t \in Streams, NEW i \in Ids \ redo'[t],
               i \notin handed'[t] \/ \E q \in Procs : i \in buf'[q][t]
        PROVE  rows'[t][i] = 0 /\ i \notin DeadLetters(t)'
    <3>1. i \in Ids \ redo[t]
      BY <1>2, <2>1
    <3>2. i \notin handed[t] \/ \E q \in Procs : i \in buf[q][t]
      BY <1>2, <2>1
    <3> QED
      BY <1>2, <3>1, <3>2 DEF DuplicateInv, UnsettledInv
  <2>2. ASSUME NEW t \in Streams, NEW i \in Ids \ redo'[t], NEW q \in Procs,
               pc'[q] \in {"insert", "dlq"}, i \in BatchOf(q, t)'
        PROVE  rows'[t][i] = 0 /\ i \notin DeadLetters(t)'
    <3>1. i \in Ids \ redo[t]
      BY <1>2, <2>2
    <3>2. CASE q = p
      BY <1>2, <2>2, <3>1, <3>2 DEF DuplicateInv, UnsettledInv
    <3>3. CASE q # p
      BY <1>2, <2>2, <3>1, <3>3 DEF DuplicateInv, UnsettledInv
    <3> QED
      BY <3>2, <3>3
  <2> QED
    BY <2>1, <2>2 DEF UnsettledInv
<1>5. DuplicatesNeedRedelivery'
  BY <1>2 DEF DuplicateInv, DuplicatesNeedRedelivery
<1>6. MemoryInv'
  <2>1. ASSUME NEW t \in Streams, NEW q \in Procs \ {p}
        PROVE  buf'[q][t] \cup BatchOf(q, t)'
                  \subseteq pel'[t] \cup redo'[t] \cup abandoned'[t]
    <3>1. (buf[p][t] \cup BatchOf(p, t)) \cap (buf[q][t] \cup BatchOf(q, t))
              \subseteq redo[t]
      BY DEF DuplicateInv, HolderInv
    <3>2. buf[q][t] \cup BatchOf(q, t) \subseteq pel[t] \cup redo[t] \cup abandoned[t]
      BY DEF MemoryInv
    <3>3. buf'[q][t] = buf[q][t] /\ BatchOf(q, t)' = BatchOf(q, t)
      OBVIOUS
    <3>4. /\ abandoned[t] \subseteq abandoned'[t]
          /\ pel[t] \subseteq pel'[t] \cup abandoned'[t] \cup BatchOf(p, t)
      OBVIOUS
    <3> QED
      BY <1>2, <3>1, <3>2, <3>3, <3>4
  <2>2. ASSUME NEW t \in Streams
        PROVE  buf'[p][t] \cup BatchOf(p, t)'
                  \subseteq pel'[t] \cup redo'[t] \cup abandoned'[t]
    <3>1. buf[p][t] \subseteq pel[t] \cup redo[t] \cup abandoned[t]
      BY DEF MemoryInv
    <3>2. buf[p][t] \cap BatchOf(p, t) \subseteq redo[t]
      BY DEF DuplicateInv, HolderInv
    <3>3. /\ abandoned[t] \subseteq abandoned'[t]
          /\ pel[t] \subseteq pel'[t] \cup abandoned'[t] \cup BatchOf(p, t)
          /\ buf'[p][t] \cup BatchOf(p, t)'
                \subseteq buf[p][t] \cup pel'[t] \cup redo'[t]
      OBVIOUS
    <3> QED
      BY <1>2, <3>1, <3>2, <3>3
  <2> QED
    BY <2>1, <2>2 DEF MemoryInv
<1> QED
  BY <1>3, <1>4, <1>5, <1>6 DEF DuplicateInv

\* Every step keeps one holder per entry, one result per delivery, and what is
\* in memory recoverable.
LEMMA DuplicateStep ==
    /\ TypeOK /\ AccountInv /\ DuplicateInv /\ MemoryInv
    /\ [Next]_vars
    => DuplicateInv' /\ MemoryInv'
<1> SUFFICES ASSUME TypeOK, AccountInv, DuplicateInv, MemoryInv, [Next]_vars
             PROVE  DuplicateInv' /\ MemoryInv'
  OBVIOUS
<1>1. ASSUME \/ \E s \in Streams : Publish(s)
             \/ \E s \in Streams, i \in Ids : Age(s, i)
             \/ \E p \in Procs : Start(p) \/ TickFires(p) \/ InsertFails(p)
             \/ UNCHANGED vars
      PROVE  DuplicateInv' /\ MemoryInv'
  <2>1. /\ UNCHANGED <<pel, turn, batch, buf, rows, dlq, file, handed, redo, abandoned, erased>>
        /\ \A q \in Procs : pc'[q] \in {"insert", "dlq"} =>
                               pc'[q] = pc[q] \/ pc[q] = "insert"
    BY <1>1 DEF TypeOK, Publish, Age, Start, TickFires, InsertFails,
                CountAttempt, vars, redisVars, procVars, durableVars, ghostVars
  <2>2. \A q \in Procs, t \in Streams : BatchOf(q, t)' = BatchOf(q, t)
    BY <2>1 DEF BatchOf
  <2> QED
    BY <2>1, <2>2 DEF DuplicateInv, MemoryInv, HolderInv, UnsettledInv,
                      DuplicatesNeedRedelivery, DeadLetters
<1>2. ASSUME NEW p \in Procs,
             \/ Crash(p) \/ Claim(p) \/ ClaimError(p) \/ TickStream(p)
             \/ Read(p) \/ ReadError(p) \/ ReadReplyLost(p)
             \/ Ack(p) \/ AckLost(p)
      PROVE  DuplicateInv' /\ MemoryInv'
  BY <1>2, GatherEffect, GatherKeeps
<1>3. ASSUME NEW p \in Procs,
             InsertOK(p) \/ InsertOutcomeLost(p) \/ WriteDLQ(p)
      PROVE  DuplicateInv' /\ MemoryInv'
  <2> DEFINE s == turn[p]
             S == batch[p]
  <2>1. /\ s \in Streams /\ S \in SUBSET Ids /\ BatchOf(p, s) = S
        /\ pc[p] \in {"insert", "dlq"}
        /\ UNCHANGED <<pel, turn, batch, buf, handed>>
    BY <1>3 DEF TypeOK, InsertOK, InsertOutcomeLost, WriteDLQ, redisVars,
                ghostVars, BatchOf
  <2>2. S \subseteq handed[s]
    BY <2>1 DEF AccountInv, BatchInv, Flushing
  <2>3. \A q \in Procs, t \in Streams : BatchOf(q, t)' = BatchOf(q, t)
    BY <2>1 DEF BatchOf
  <2>4. \A t \in Streams : redo[t] \subseteq redo'[t] /\ abandoned[t] \subseteq abandoned'[t]
    <3>1. CASE InsertOK(p)
      BY <3>1 DEF InsertOK, ghostVars
    <3>2. CASE InsertOutcomeLost(p)
      BY <2>1, <3>2 DEF TypeOK, InsertOutcomeLost
    <3>3. CASE WriteDLQ(p)
      <4>1. redo' = redo
        BY <3>3 DEF WriteDLQ
      <4> QED
        BY <2>1, <3>3, <4>1, DeadLetterFacts
    <3> QED
      BY <1>3, <3>1, <3>2, <3>3
  <2>5. /\ \A q \in Procs \ {p} : pc'[q] = pc[q]
        /\ \/ pc'[p] = "ack"
           \/ InsertOutcomeLost(p)
    BY <1>3 DEF TypeOK, InsertOK, InsertOutcomeLost, CountAttempt, WriteDLQ
  <2>6. HolderInv' /\ MemoryInv'
    BY <2>1, <2>3, <2>4 DEF DuplicateInv, HolderInv, MemoryInv
  <2>7. \A i \in S \ redo[s] : rows[s][i] = 0 /\ i \notin DeadLetters(s)
    BY <2>1 DEF DuplicateInv, UnsettledInv
  <2>8. \A t \in Streams : \A i \in Ids \ redo'[t] :
          \/ rows'[t][i] = rows[t][i] /\ (i \in DeadLetters(t)' => i \in DeadLetters(t))
          \/ /\ t = s /\ i \in S /\ pc'[p] = "ack"
             /\ rows'[t][i] <= 1
             /\ ~(rows'[t][i] = 1 /\ i \in DeadLetters(t)')
    <3>1. CASE InsertOK(p)
      <4>1. /\ AddRows(s, S) /\ UNCHANGED <<dlq, file, redo>> /\ pc'[p] = "ack"
        BY <3>1 DEF TypeOK, InsertOK, ghostVars
      <4> HIDE DEF s, S
      <4> QED
        BY <2>1, <2>7, <4>1, AddRowsFacts DEF DeadLetters
    <3>2. CASE InsertOutcomeLost(p)
      <4>1. /\ AddRows(s, S) /\ UNCHANGED <<dlq, file>>
            /\ S \subseteq redo'[s]
        BY <2>1, <3>2 DEF TypeOK, InsertOutcomeLost
      <4> HIDE DEF s, S
      <4> QED
        BY <2>1, <4>1, AddRowsFacts DEF DeadLetters
    <3>3. CASE WriteDLQ(p)
      <4>1. UNCHANGED <<rows, redo>> /\ pc'[p] = "ack"
        BY <3>3 DEF TypeOK, WriteDLQ
      <4>2. PICK u \in Streams : u = s
        BY <2>1
      <4>3. /\ \A t \in Streams \ {u} : DeadLetters(t)' = DeadLetters(t)
            /\ DeadLetters(u)' \subseteq DeadLetters(u) \cup S
        BY <3>3, <4>2, DeadLetterFacts
      <4> HIDE DEF s, S
      <4>4. ASSUME NEW t \in Streams, NEW i \in Ids \ redo'[t], ~(t = s /\ i \in S)
            PROVE  rows'[t][i] = rows[t][i] /\ (i \in DeadLetters(t)' => i \in DeadLetters(t))
        BY <4>1, <4>2, <4>3, <4>4
      <4>5. ASSUME NEW i \in S \ redo'[s], i \in Ids
            PROVE  rows'[s][i] = 0
        BY <2>7, <4>1, <4>5
      <4> QED
        BY <4>1, <4>4, <4>5
    <3> QED
      BY <1>3, <3>1, <3>2, <3>3
  <2>9. DuplicatesNeedRedelivery'
    BY <2>4, <2>8 DEF DuplicateInv, DuplicatesNeedRedelivery
  <2>10. UnsettledInv'
    <3>1. ASSUME NEW t \in Streams, NEW i \in Ids \ redo'[t],
                 \/ i \notin handed[t]
                 \/ \E q \in Procs : i \in buf[q][t]
                 \/ \E q \in Procs \ {p} :
                       pc[q] \in {"insert", "dlq"} /\ i \in BatchOf(q, t)
          PROVE  rows'[t][i] = 0 /\ i \notin DeadLetters(t)'
      <4>1. i \in Ids \ redo[t] /\ rows[t][i] = 0 /\ i \notin DeadLetters(t)
        BY <2>4, <3>1 DEF DuplicateInv, UnsettledInv
      <4>2. ~(t = s /\ i \in S)
        BY <2>1, <2>2, <3>1, <4>1 DEF DuplicateInv, HolderInv
      <4> QED
        BY <2>8, <4>1, <4>2
    <3>2. ASSUME NEW t \in Streams, NEW i \in Ids \ redo'[t],
                 pc'[p] \in {"insert", "dlq"}, i \in BatchOf(p, t)
          PROVE  FALSE
      <4>1. InsertOutcomeLost(p)
        BY <2>5, <3>2
      <4>2. t = s /\ i \in S
        BY <3>2 DEF BatchOf
      <4>3. S \subseteq redo'[s]
        BY <2>1, <4>1 DEF TypeOK, InsertOutcomeLost
      <4> QED
        BY <3>2, <4>2, <4>3
    <3> QED
      BY <2>1, <2>3, <2>5, <3>1, <3>2 DEF UnsettledInv
  <2> QED
    BY <2>6, <2>9, <2>10 DEF DuplicateInv
<1> QED
  BY <1>1, <1>2, <1>3 DEF Next, WriterStep

LEMMA MemoryInvariant == Spec => [](DuplicateInv /\ MemoryInv)
<1>1. Init => DuplicateInv /\ MemoryInv
  BY DEF Init, DuplicateInv, MemoryInv, HolderInv, UnsettledInv, BatchOf,
         DuplicatesNeedRedelivery, DeadLetters
<1> QED
  BY <1>1, DuplicateStep, TypeCorrect, AccountInvariant, PTL DEF Spec

\* However two or more processes, claims, kills and lost replies interleave, an
\* event has a second row, or a row besides its dead letter, only after Redis
\* re-delivered it or an insert that happened was reported as failed.
THEOREM DuplicatesAreRedelivered == Spec => []DuplicatesNeedRedelivery
<1>1. DuplicateInv => DuplicatesNeedRedelivery
  BY DEF DuplicateInv
<1> QED
  BY <1>1, MemoryInvariant, PTL

\* The test after every read keeps a buffer below the batch size.
LEMMA BoundStep == TypeOK /\ BuffersBounded /\ [Next]_vars => BuffersBounded'
<1> SUFFICES ASSUME TypeOK, BuffersBounded, [Next]_vars PROVE BuffersBounded'
  OBVIOUS
<1>1. Cardinality({}) = 0 /\ 0 < BatchSize
  BY FS_EmptySet, ChWriterAssumption
<1> HIDE DEF Cardinality
<1>2. ASSUME NEW p \in Procs, Crash(p) PROVE BuffersBounded'
  <2>1. /\ \A q \in Procs \ {p} : buf'[q] = buf[q]
        /\ \A t \in Streams : buf'[p][t] = {}
    BY <1>2 DEF TypeOK, Crash
  <2> QED
    BY <1>1, <2>1 DEF BuffersBounded
<1>3. ASSUME NEW p \in Procs, NEW s \in Streams, NEW S,
             S = {} \/ Cardinality(S) < BatchSize,
             buf' = [buf EXCEPT ![p][s] = S]
      PROVE  BuffersBounded'
  <2>1. /\ \A q \in Procs \ {p} : buf'[q] = buf[q]
        /\ buf'[p][s] = S
        /\ \A t \in Streams \ {s} : buf'[p][t] = buf[p][t]
    BY <1>3 DEF TypeOK
  <2> QED
    BY <1>1, <1>3, <2>1 DEF BuffersBounded
<1>4. ASSUME NEW p \in Procs, TickStream(p) \/ Read(p) PROVE BuffersBounded'
  <2>1. turn[p] \in Streams
    BY DEF TypeOK
  <2>2. \/ UNCHANGED buf
        \/ \E S : /\ S = {} \/ Cardinality(S) < BatchSize
                  /\ buf' = [buf EXCEPT ![p][turn[p]] = S]
    BY <1>4 DEF TickStream, Read
  <2> QED
    BY <1>3, <2>1, <2>2 DEF BuffersBounded
<1>5. CASE UNCHANGED buf
  BY <1>5 DEF BuffersBounded
<1> QED
  BY <1>2, <1>4, <1>5
     DEF Next, WriterStep, Publish, Age, Start, Claim, ClaimError, TickFires,
         ReadError, ReadReplyLost, InsertOK, InsertFails, InsertOutcomeLost,
         WriteDLQ, Ack, AckLost, Return, vars, procVars

\* What a process has read and not flushed is still pending in Redis, unless
\* it was re-delivered or found trimmed, and is less than a batch.
THEOREM BuffersStaySafe == Spec => []BuffersAreSafe
<1>1. Init => BuffersBounded
  BY FS_EmptySet, ChWriterAssumption DEF Init, BuffersBounded
<1>2. Spec => []BuffersBounded
  BY <1>1, BoundStep, TypeCorrect, PTL DEF Spec
<1>3. MemoryInv /\ BuffersBounded => BuffersAreSafe
  BY DEF MemoryInv, BuffersAreSafe, HeldIsRecoverable
<1> QED
  BY <1>2, <1>3, MemoryInvariant, PTL
=============================================================================
