---------------------------- MODULE GatewayProofs ----------------------------
(***************************************************************************)
(* What the gateway's audit trail shows for any number of requests, any    *)
(* size of channel, any lengths of bodies and responses and any number of  *)
(* restarts; and what its rate limiter admits and refuses, for any number  *)
(* of agents, handlers, buckets and ticks, any cost and any bucket size.   *)
(***************************************************************************)
EXTENDS Gateway, RateLimiterInv, SequenceTheorems, TLAPS

\* An event on its way is that of a request that is over; whoever was over when
\* a request began still is.
BeforeInv ==
    /\ pc \in [Requests -> PCs]
    /\ before \in [Requests -> SUBSET Requests]
    /\ \A r \in Requests : /\ r \notin before[r]
                           /\ \A q \in before[r] : pc[q] \in Over
    /\ \A i \in DOMAIN stream : pc[stream[i]] = "ended"
    /\ \A k \in DOMAIN channel : pc[channel[k]] = "ended"
    /\ writing # NoRequest => pc[writing] = "ended"

\* The order of the stream, of the event being written, and of the channel
\* behind it.
OrderInv ==
    /\ AuditOrder
    /\ \A i \in DOMAIN stream :
          /\ writing \notin before[stream[i]]
          /\ \A k \in DOMAIN channel : channel[k] \notin before[stream[i]]
    /\ writing # NoRequest => \A k \in DOMAIN channel : channel[k] \notin before[writing]
    /\ \A k, l \in DOMAIN channel : k < l => channel[l] \notin before[channel[k]]

TrailInv == QueueTypeOK /\ BeforeInv /\ OrderInv /\ EndedIsAudited

-----------------------------------------------------------------------------
(* The steps of the queue                                                  *)

LEMMA EnqueueEffect ==
    ASSUME QueueTypeOK, NEW r \in Requests, Enqueue(r)
    PROVE  /\ QueueTypeOK'
           /\ stream' = stream /\ writing' = writing
           /\ \A k \in DOMAIN channel' :
                 \/ k \in DOMAIN channel /\ channel'[k] = channel[k]
                 \/ channel'[k] = r /\ \A l \in DOMAIN channel' : l <= k
           /\ Elements(channel) \subseteq Elements(channel)'
           /\ gone \subseteq gone'
           /\ r \in Elements(channel)' \cup gone'
<1>. USE DEF QueueTypeOK
<1>1. stream' = stream /\ writing' = writing
  BY DEF Enqueue
<1>2. Len(channel) \in Nat /\ DOMAIN channel = 1 .. Len(channel)
  OBVIOUS
<1>3. CASE Len(channel) < ChannelSize /\ channel' = Append(channel, r) /\ gone' = gone
  <2>1. /\ channel' \in Seq(Requests)
        /\ Len(channel') = Len(channel) + 1
        /\ \A k \in 1 .. Len(channel) : channel'[k] = channel[k]
        /\ channel'[Len(channel) + 1] = r
    BY <1>3, AppendProperties
  <2>2. DOMAIN channel' = 1 .. Len(channel) + 1
    BY <2>1
  <2>3. QueueTypeOK'
    BY <1>1, <1>2, <1>3, <2>1, AuditQueueAssumption
  <2>4. ASSUME NEW k \in DOMAIN channel', k \notin DOMAIN channel
        PROVE  k = Len(channel) + 1
    BY <1>2, <2>2, <2>4
  <2>5. \A k \in DOMAIN channel' :
           \/ k \in DOMAIN channel /\ channel'[k] = channel[k]
           \/ channel'[k] = r /\ \A l \in DOMAIN channel' : l <= k
    BY <1>2, <2>1, <2>2, <2>4
  <2>6. Elements(channel) \subseteq Elements(channel)'
    BY <1>2, <2>1, <2>2 DEF Elements
  <2>7. r \in Elements(channel)'
    <3>1. Len(channel) + 1 \in DOMAIN channel'
      BY <1>2, <2>2
    <3>. QED
      BY <2>1, <3>1 DEF Elements
  <2>. QED
    BY <1>1, <1>3, <2>3, <2>5, <2>6, <2>7
<1>4. CASE channel' = channel /\ gone' = gone \cup {r}
  BY <1>1, <1>4 DEF Elements
<1>. QED
  BY <1>3, <1>4 DEF Enqueue

LEMMA TakeEffect ==
    ASSUME QueueTypeOK, Take
    PROVE  /\ QueueTypeOK'
           /\ stream' = stream /\ gone' = gone
           /\ channel # <<>> /\ 1 \in DOMAIN channel
           /\ writing = NoRequest /\ writing' = channel[1]
           /\ \A k \in DOMAIN channel' : k > 0 /\ k + 1 \in DOMAIN channel
                                         /\ channel'[k] = channel[k + 1]
           /\ \A k \in DOMAIN channel : k \in Nat /\ (k = 1 \/ k - 1 \in DOMAIN channel')
<1>. USE DEF QueueTypeOK
<1>1. /\ channel # <<>> /\ writing = NoRequest
      /\ writing' = Head(channel) /\ channel' = Tail(channel)
      /\ stream' = stream /\ gone' = gone
  BY DEF Take
<1>2. Len(channel) \in Nat \ {0} /\ DOMAIN channel = 1 .. Len(channel)
  BY <1>1, EmptySeq
<1>3. /\ Head(channel) \in Requests /\ Head(channel) = channel[1]
      /\ channel' \in Seq(Requests)
      /\ Len(channel') = Len(channel) - 1
      /\ \A k \in 1 .. Len(channel') : channel'[k] = channel[k + 1]
  BY <1>1, HeadTailProperties
<1>4. DOMAIN channel' = 1 .. Len(channel) - 1
  BY <1>3
<1>5. QueueTypeOK'
  BY <1>1, <1>2, <1>3, AuditQueueAssumption
<1>. QED
  BY <1>1, <1>2, <1>3, <1>4, <1>5

LEMMA AppendEffect ==
    ASSUME QueueTypeOK, writing \in Requests, NEW n \in Nat, Appended(n)
    PROVE  /\ stream' \in Seq(Requests)
           /\ \A i \in DOMAIN stream : i \in DOMAIN stream' /\ stream'[i] = stream[i]
           /\ \A i \in DOMAIN stream' : \/ i \in DOMAIN stream
                                        \/ stream'[i] = writing /\ \A j \in DOMAIN stream : j < i
           /\ n > 0 => writing \in Elements(stream)'
<1>. DEFINE copies == [i \in 1 .. n |-> writing]
<1>1. copies \in Seq(Requests) /\ Len(copies) = n /\ \A i \in 1 .. n : copies[i] = writing
  OBVIOUS
<1>2. stream \in Seq(Requests) /\ Len(stream) \in Nat /\ DOMAIN stream = 1 .. Len(stream)
  BY DEF QueueTypeOK
<1>3. stream' = stream \o copies
  BY DEF Appended
<1>. HIDE DEF copies
<1>4. /\ stream' \in Seq(Requests)
      /\ Len(stream') = Len(stream) + n
      /\ \A i \in 1 .. Len(stream) + n :
            stream'[i] = IF i <= Len(stream) THEN stream[i] ELSE copies[i - Len(stream)]
  BY <1>1, <1>2, <1>3, ConcatProperties
<1>5. DOMAIN stream' = 1 .. Len(stream) + n
  BY <1>4
<1>6. \A i \in DOMAIN stream : i \in DOMAIN stream' /\ stream'[i] = stream[i]
  BY <1>2, <1>4, <1>5
<1>7. ASSUME NEW i \in DOMAIN stream', i \notin DOMAIN stream
      PROVE  stream'[i] = writing /\ \A j \in DOMAIN stream : j < i
  <2>1. i \in Nat /\ i > Len(stream) /\ i - Len(stream) \in 1 .. n
    BY <1>2, <1>5, <1>7
  <2>. QED
    BY <1>1, <1>2, <1>4, <1>5, <2>1
<1>8. ASSUME n > 0 PROVE writing \in Elements(stream)'
  <2>1. Len(stream) + 1 \in DOMAIN stream' /\ Len(stream) + 1 \notin DOMAIN stream
    BY <1>2, <1>5, <1>8
  <2>. QED
    BY <1>7, <2>1 DEF Elements
<1>. QED
  BY <1>4, <1>6, <1>7, <1>8

-----------------------------------------------------------------------------
(* The trail, step by step                                                 *)

\* A handler moves on without recording anything.
LEMMA TrailQuiet ==
    ASSUME TrailInv, UNCHANGED <<queueVars, before>>, pc' \in [Requests -> PCs],
           \A q \in Requests : /\ pc[q] \in Over => pc'[q] = pc[q]
                               /\ pc'[q] = "ended" => pc[q] = "ended"
    PROVE  TrailInv'
<1>. USE DEF TrailInv
<1>1. /\ channel' = channel /\ writing' = writing /\ stream' = stream /\ gone' = gone
      /\ before' = before
  BY DEF queueVars
<1>2. QueueTypeOK'
  BY <1>1 DEF QueueTypeOK
<1>3. BeforeInv'
  BY <1>1 DEF BeforeInv, QueueTypeOK, Over
<1>4. OrderInv'
  BY <1>1 DEF OrderInv, AuditOrder
<1>5. EndedIsAudited'
  BY <1>1 DEF EndedIsAudited, Accounted, Elements
<1>. QED
  BY <1>2, <1>3, <1>4, <1>5

\* A handler records its event and ends.
LEMMA TrailEnqueue ==
    ASSUME TrailInv, NEW r \in Requests, Enqueue(r), pc[r] \notin Over,
           pc' = [pc EXCEPT ![r] = "ended"], before' = before
    PROVE  TrailInv'
<1>. USE DEF TrailInv
<1>1. /\ QueueTypeOK' /\ stream' = stream /\ writing' = writing
      /\ Elements(channel) \subseteq Elements(channel)'
      /\ gone \subseteq gone'
      /\ r \in Elements(channel)' \cup gone'
  BY EnqueueEffect
<1>2. \A k \in DOMAIN channel' :
         \/ k \in DOMAIN channel /\ channel'[k] = channel[k]
         \/ channel'[k] = r /\ \A l \in DOMAIN channel' : l <= k
  BY EnqueueEffect
<1>3. /\ \A q \in Requests : pc'[q] = IF q = r THEN "ended" ELSE pc[q]
      /\ pc' \in [Requests -> PCs]
  BY DEF BeforeInv, PCs
<1>4. \A q \in Requests : r \notin before[q]
  BY DEF BeforeInv
<1>5. /\ \A i \in DOMAIN stream : stream[i] \in Requests
      /\ \A k \in DOMAIN channel : channel[k] \in Requests
      /\ writing # NoRequest => writing \in Requests
      /\ \A k \in DOMAIN channel' : k \in Nat
  BY <1>1 DEF QueueTypeOK
<1>6. BeforeInv'
  <2>1. \A q \in Requests : /\ q \notin before[q]
                            /\ \A p \in before[q] : pc'[p] \in Over
    BY <1>3 DEF BeforeInv, Over
  <2>2. \A i \in DOMAIN stream : pc'[stream[i]] = "ended"
    BY <1>3, <1>5 DEF BeforeInv
  <2>3. \A k \in DOMAIN channel' : pc'[channel'[k]] = "ended"
    BY <1>2, <1>3, <1>5 DEF BeforeInv
  <2>4. writing # NoRequest => pc'[writing] = "ended"
    BY <1>3, <1>5 DEF BeforeInv
  <2>. QED
    BY <1>1, <1>3, <2>1, <2>2, <2>3, <2>4 DEF BeforeInv
<1>7. OrderInv'
  <2>1. AuditOrder'
    BY <1>1 DEF OrderInv, AuditOrder
  <2>2. \A i \in DOMAIN stream :
           /\ writing \notin before[stream[i]]
           /\ \A k \in DOMAIN channel' : channel'[k] \notin before[stream[i]]
    BY <1>2, <1>4, <1>5 DEF OrderInv
  <2>3. writing # NoRequest => \A k \in DOMAIN channel' : channel'[k] \notin before[writing]
    BY <1>2, <1>4, <1>5 DEF OrderInv
  <2>4. ASSUME NEW k \in DOMAIN channel', NEW l \in DOMAIN channel', k < l
        PROVE  channel'[l] \notin before[channel'[k]]
    <3>1. k \in DOMAIN channel /\ channel'[k] = channel[k]
      BY <1>2, <1>5, <2>4
    <3>2. CASE channel'[l] = r
      BY <1>4, <1>5, <3>1, <3>2
    <3>3. CASE l \in DOMAIN channel /\ channel'[l] = channel[l]
      BY <2>4, <3>1, <3>3 DEF OrderInv
    <3>. QED
      BY <1>2, <3>2, <3>3
  <2>. QED
    BY <1>1, <2>1, <2>2, <2>3, <2>4 DEF OrderInv
<1>8. EndedIsAudited'
  BY <1>1, <1>3 DEF EndedIsAudited, Accounted
<1>. QED
  BY <1>1, <1>6, <1>7, <1>8

\* A request arrives after all that are over.
LEMMA TrailArrive ==
    ASSUME TrailInv, NEW r \in Requests, Arrive(r)
    PROVE  TrailInv'
<1>. USE DEF TrailInv
<1>1. /\ channel' = channel /\ writing' = writing /\ stream' = stream /\ gone' = gone
      /\ pc[r] = "idle" /\ pc' = [pc EXCEPT ![r] = "auth"]
      /\ before' = [before EXCEPT ![r] = {q \in Requests : pc[q] \in Over}]
  BY DEF Arrive, queueVars
<1>2. /\ pc' \in [Requests -> PCs]
      /\ \A q \in Requests : pc'[q] = IF q = r THEN "auth" ELSE pc[q]
      /\ before' \in [Requests -> SUBSET Requests]
      /\ \A q \in Requests :
            before'[q] = IF q = r THEN {p \in Requests : pc[p] \in Over} ELSE before[q]
  BY <1>1 DEF BeforeInv, PCs
<1>3. /\ \A i \in DOMAIN stream : stream[i] \in Requests /\ stream[i] # r
      /\ \A k \in DOMAIN channel : channel[k] \in Requests /\ channel[k] # r
      /\ writing # NoRequest => writing \in Requests /\ writing # r
  BY <1>1 DEF BeforeInv, QueueTypeOK
<1>4. QueueTypeOK'
  BY <1>1 DEF QueueTypeOK
<1>5. BeforeInv'
  <2>1. \A q \in Requests : /\ q \notin before'[q]
                            /\ \A p \in before'[q] : pc'[p] \in Over
    BY <1>1, <1>2 DEF BeforeInv, Over
  <2>2. /\ \A i \in DOMAIN stream : pc'[stream[i]] = "ended"
        /\ \A k \in DOMAIN channel : pc'[channel[k]] = "ended"
        /\ writing # NoRequest => pc'[writing] = "ended"
    BY <1>2, <1>3 DEF BeforeInv
  <2>. QED
    BY <1>1, <1>2, <2>1, <2>2 DEF BeforeInv
<1>6. OrderInv'
  <2>1. /\ \A i \in DOMAIN stream : before'[stream[i]] = before[stream[i]]
        /\ \A k \in DOMAIN channel : before'[channel[k]] = before[channel[k]]
        /\ writing # NoRequest => before'[writing] = before[writing]
    BY <1>2, <1>3
  <2>. QED
    BY <1>1, <2>1 DEF OrderInv, AuditOrder
<1>7. EndedIsAudited'
  BY <1>1, <1>2 DEF EndedIsAudited, Accounted, Elements
<1>. QED
  BY <1>4, <1>5, <1>6, <1>7

\* Run takes an event,
LEMMA TrailTake ==
    ASSUME TrailInv, Take, UNCHANGED <<pc, before>>
    PROVE  TrailInv'
<1>. USE DEF TrailInv
<1>1. /\ QueueTypeOK' /\ stream' = stream /\ gone' = gone
      /\ 1 \in DOMAIN channel /\ writing = NoRequest /\ writing' = channel[1]
  BY TakeEffect
<1>2. \A k \in DOMAIN channel' : k > 0 /\ k + 1 \in DOMAIN channel
                                 /\ channel'[k] = channel[k + 1]
  BY TakeEffect
<1>3. \A k \in DOMAIN channel : k \in Nat /\ (k = 1 \/ k - 1 \in DOMAIN channel')
  BY TakeEffect
<1>4. /\ channel[1] \in Requests /\ channel[1] # NoRequest
      /\ \A k \in DOMAIN channel' : k \in Nat
  BY <1>1, AuditQueueAssumption DEF QueueTypeOK
<1>5. BeforeInv'
  BY <1>1, <1>2 DEF BeforeInv
<1>6. OrderInv'
  <2>1. AuditOrder'
    BY <1>1 DEF OrderInv, AuditOrder
  <2>2. \A i \in DOMAIN stream :
           /\ channel[1] \notin before[stream[i]]
           /\ \A k \in DOMAIN channel' : channel'[k] \notin before[stream[i]]
    BY <1>1, <1>2 DEF OrderInv
  <2>3. \A k \in DOMAIN channel' : channel'[k] \notin before[channel[1]]
    BY <1>1, <1>2, <1>4 DEF OrderInv
  <2>4. \A k, l \in DOMAIN channel' : k < l => channel'[l] \notin before[channel'[k]]
    BY <1>2, <1>4 DEF OrderInv
  <2>. QED
    BY <1>1, <2>1, <2>2, <2>3, <2>4 DEF OrderInv
<1>7. EndedIsAudited'
  <2>1. ASSUME NEW k \in DOMAIN channel, k # 1
        PROVE  channel[k] \in Elements(channel)'
    <3>1. k - 1 \in DOMAIN channel' /\ channel'[k - 1] = channel[k]
      BY <1>2, <1>3, <2>1
    <3>. QED
      BY <3>1 DEF Elements
  <2>2. Elements(channel) \subseteq Elements(channel)' \cup {writing'}
    BY <1>1, <2>1 DEF Elements
  <2>3. \A r \in Requests : pc[r] = "ended" => r \in Accounted /\ r # NoRequest
    BY AuditQueueAssumption DEF EndedIsAudited
  <2>. QED
    BY <1>1, <2>2, <2>3 DEF EndedIsAudited, Accounted
<1>. QED
  BY <1>1, <1>5, <1>6, <1>7

\* and writes it, with or without success.
LEMMA TrailWrite ==
    ASSUME TrailInv, WriteOK \/ WriteFails, UNCHANGED <<pc, before>>
    PROVE  TrailInv'
<1>. USE DEF TrailInv
<1>1. PICK n \in Nat : /\ Appended(n)
                       /\ (n > 0 /\ gone' = gone) \/ gone' = gone \cup {writing}
  BY AuditQueueAssumption DEF WriteOK, WriteFails
<1>2. /\ writing # NoRequest /\ writing \in Requests
      /\ writing' = NoRequest /\ channel' = channel
  BY DEF WriteOK, WriteFails, QueueTypeOK
<1>3. /\ stream' \in Seq(Requests)
      /\ \A i \in DOMAIN stream : i \in DOMAIN stream' /\ stream'[i] = stream[i]
      /\ n > 0 => writing \in Elements(stream)'
  BY <1>1, <1>2, AppendEffect
<1>4. \A i \in DOMAIN stream' : \/ i \in DOMAIN stream
                                \/ stream'[i] = writing /\ \A j \in DOMAIN stream : j < i
  BY <1>1, <1>2, AppendEffect
<1>5. QueueTypeOK'
  BY <1>1, <1>2, <1>3 DEF QueueTypeOK
<1>6. /\ \A q \in Requests : NoRequest \notin before[q]
      /\ \A i \in DOMAIN stream' : i \in Nat /\ stream'[i] \in Requests
  BY <1>3, AuditQueueAssumption DEF BeforeInv
<1>7. BeforeInv'
  <2>1. \A i \in DOMAIN stream' : pc[stream'[i]] = "ended"
    BY <1>2, <1>3, <1>4 DEF BeforeInv
  <2>. QED
    BY <1>2, <2>1 DEF BeforeInv
<1>8. OrderInv'
  <2>1. ASSUME NEW i \in DOMAIN stream', NEW j \in DOMAIN stream', i < j
        PROVE  stream'[j] \notin before[stream'[i]]
    <3>1. CASE j \in DOMAIN stream
      <4>1. i \in DOMAIN stream
        BY <1>4, <1>6, <2>1, <3>1
      <4>. QED
        BY <1>3, <2>1, <3>1, <4>1 DEF OrderInv, AuditOrder
    <3>2. CASE i \in DOMAIN stream /\ stream'[j] = writing
      BY <1>3, <3>2 DEF OrderInv
    <3>3. CASE stream'[i] = writing /\ stream'[j] = writing
      BY <1>2, <3>3 DEF BeforeInv
    <3>. QED
      BY <1>4, <3>1, <3>2, <3>3
  <2>2. \A i \in DOMAIN stream' :
           \A k \in DOMAIN channel : channel[k] \notin before[stream'[i]]
    BY <1>2, <1>3, <1>4 DEF OrderInv
  <2>. QED
    BY <1>2, <1>6, <2>1, <2>2 DEF OrderInv, AuditOrder
<1>9. EndedIsAudited'
  <2>1. Elements(stream) \subseteq Elements(stream)'
    BY <1>3 DEF Elements
  <2>2. writing \in Elements(stream)' \cup gone'
    BY <1>1, <1>3
  <2>. QED
    BY <1>1, <1>2, <2>1, <2>2 DEF EndedIsAudited, Accounted, Elements
<1>. QED
  BY <1>5, <1>7, <1>8, <1>9

\* A restart empties the queue.
LEMMA TrailCrash ==
    ASSUME TrailInv, Crash
    PROVE  TrailInv'
<1>. USE DEF TrailInv
<1>1. /\ gone' = gone \cup Elements(channel) \cup ({writing} \ {NoRequest})
      /\ channel' = <<>> /\ writing' = NoRequest /\ stream' = stream
      /\ before' = before
      /\ pc' = [r \in Requests |-> IF pc[r] \in Over \cup {"idle"} THEN pc[r] ELSE "aborted"]
  BY DEF Crash, LoseQueue
<1>2. /\ pc' \in [Requests -> PCs]
      /\ \A q \in Requests : /\ pc[q] \in Over => pc'[q] = pc[q]
                             /\ pc'[q] = "ended" => pc[q] = "ended"
  BY <1>1 DEF BeforeInv, PCs, Over
<1>3. QueueTypeOK'
  BY <1>1, AuditQueueAssumption DEF QueueTypeOK, Elements
<1>4. \A q \in Requests : NoRequest \notin before[q]
  BY AuditQueueAssumption DEF BeforeInv
<1>5. BeforeInv'
  <2>1. \A i \in DOMAIN stream : stream[i] \in Requests
    BY DEF QueueTypeOK
  <2>. QED
    BY <1>1, <1>2, <2>1 DEF BeforeInv, Over
<1>6. OrderInv'
  <2>1. \A i \in DOMAIN stream : stream[i] \in Requests
    BY DEF QueueTypeOK
  <2>. QED
    BY <1>1, <1>4, <2>1 DEF OrderInv, AuditOrder
<1>7. EndedIsAudited'
  BY <1>1, <1>2, AuditQueueAssumption DEF EndedIsAudited, Accounted, Elements
<1>. QED
  BY <1>3, <1>5, <1>6, <1>7

LEMMA TrailStep ==
    ASSUME TrailInv, [Next]_vars
    PROVE  TrailInv'
<1>1. ASSUME NEW r \in Requests, Arrive(r) PROVE TrailInv'
  BY <1>1, TrailArrive
<1>2. ASSUME NEW r \in Requests, AuthFails(r) \/ Heartbeat(r) \/ Finish(r) PROVE TrailInv'
  <2>1. /\ Enqueue(r) /\ pc[r] \notin Over
        /\ pc' = [pc EXCEPT ![r] = "ended"] /\ before' = before
    BY <1>2 DEF AuthFails, Heartbeat, Finish, Over
  <2>. QED
    BY <2>1, TrailEnqueue
<1>3. ASSUME NEW r \in Requests,
             AuthPasses(r) \/ Limited(r) \/ Forward(r) \/ AbortReply(r)
      PROVE  TrailInv'
  <2>1. /\ UNCHANGED <<queueVars, before>> /\ pc[r] \notin Over
        /\ \E to \in {"limit", "limited", "proxy", "aborted"} : pc' = [pc EXCEPT ![r] = to]
    BY <1>3 DEF AuthPasses, Limited, Forward, AbortReply, Over
  <2>2. /\ pc' \in [Requests -> PCs]
        /\ \A q \in Requests : /\ pc[q] \in Over => pc'[q] = pc[q]
                               /\ pc'[q] = "ended" => pc[q] = "ended"
    BY <2>1 DEF TrailInv, BeforeInv, PCs
  <2>. QED
    BY <2>1, <2>2, TrailQuiet
<1>4. ASSUME UNCHANGED <<queueVars, before, pc>> PROVE TrailInv'
  <2>1. pc' \in [Requests -> PCs] /\ UNCHANGED <<queueVars, before>>
    BY <1>4 DEF TrailInv, BeforeInv
  <2>. QED
    BY <1>4, <2>1, TrailQuiet
<1>5. ASSUME NEW r \in Requests, Reply(r) PROVE TrailInv'
  BY <1>4, <1>5 DEF Reply
<1>6. CASE RunStep /\ UNCHANGED <<requestVars, crashes>>
  <2>1. UNCHANGED <<pc, before>>
    BY <1>6 DEF requestVars
  <2>. QED
    BY <1>6, <2>1, TrailTake, TrailWrite DEF RunStep
<1>7. CASE Crash
  BY <1>7, TrailCrash
<1>8. CASE UNCHANGED vars
  BY <1>4, <1>8 DEF vars, requestVars
<1>. QED
  BY <1>1, <1>2, <1>3, <1>5, <1>6, <1>7, <1>8 DEF Next, HandlerStep

-----------------------------------------------------------------------------
(* What is recorded of a request                                           *)

RecordTypes ==
    /\ pc \in [Requests -> PCs]
    /\ kind \in [Requests -> Kinds]
    /\ size \in [Requests -> BodySizes \cup {0}]
    /\ forwarded \in [Requests -> Nat]
    /\ replied \in [Requests -> 0 .. MaxReply]
    /\ captured \in [Requests -> 0 .. MaxReply]
    /\ record \in [Requests ->
          [req : 0 .. MaxBody, resp : 0 .. MaxBody, truncated : BOOLEAN]]

\* What is known of a request's lengths at each point: before the proxy there is
\* no response, at the proxy an LLM request is forwarded as far as it was read,
\* and only at the end something is recorded.
Request(r) ==
    /\ pc[r] # "ended" => record[r] = NoRecord
    /\ pc[r] \in {"idle", "auth", "limit"} => replied[r] = 0 /\ captured[r] = 0
    /\ pc[r] = "proxy" /\ kind[r] = "llm" => forwarded[r] = Captured(size[r])
    /\ kind[r] = "llm" => captured[r] = Least(replied[r], MaxBody)
    /\ pc[r] = "ended" /\ record[r].req < size[r] /\ record[r] # NoRecord
          => record[r].truncated
    /\ record[r].truncated => size[r] > MaxBody \/ replied[r] > MaxBody

RecordInv == RecordTypes /\ \A r \in Requests : Request(r)

LEMMA Numbers ==
    /\ MaxBody \in Nat /\ MaxReply \in Nat
    /\ BodySizes \cup {0} \subseteq Nat
    /\ Chunks \subseteq Nat \ {0}
BY GatewayAssumption

\* A request whose variables a step leaves alone.
LEMMA RequestKept ==
    ASSUME NEW r \in Requests, Request(r),
           pc'[r] = pc[r], kind'[r] = kind[r], size'[r] = size[r],
           forwarded'[r] = forwarded[r], replied'[r] = replied[r],
           captured'[r] = captured[r], record'[r] = record[r]
    PROVE  Request(r)'
BY DEF Request

\* A handler that only moves on.
LEMMA RequestMoves ==
    ASSUME RecordInv, pc' \in [Requests -> PCs],
           UNCHANGED <<kind, size, forwarded, replied, captured, record>>,
           \A q \in Requests :
              \/ pc'[q] = pc[q]
              \/ pc[q] = "auth" /\ pc'[q] = "limit"
              \/ pc[q] # "ended" /\ pc'[q] \in {"limited", "aborted", "ended"}
    PROVE  RecordInv'
<1>1. RecordTypes'
  BY DEF RecordInv, RecordTypes
<1>2. ASSUME NEW q \in Requests PROVE Request(q)'
  <2>1. CASE pc'[q] = pc[q]
    BY <2>1, RequestKept DEF RecordInv
  <2>2. CASE pc[q] = "auth" /\ pc'[q] = "limit"
    BY <2>2 DEF RecordInv, Request
  <2>3. CASE pc[q] # "ended" /\ pc'[q] \in {"limited", "aborted", "ended"}
    BY <2>3 DEF RecordInv, Request
  <2>. QED
    BY <2>1, <2>2, <2>3
<1>. QED
  BY <1>1, <1>2 DEF RecordInv

LEMMA RecordStep ==
    ASSUME RecordInv, [Next]_vars
    PROVE  RecordInv'
<1>. USE DEF RecordInv
<1>1. ASSUME NEW r \in Requests, Arrive(r) PROVE RecordInv'
  <2>1. /\ pc[r] = "idle" /\ pc' = [pc EXCEPT ![r] = "auth"]
        /\ \E k \in Kinds : kind' = [kind EXCEPT ![r] = k]
        /\ \E n \in BodySizes : size' = [size EXCEPT ![r] = n]
        /\ UNCHANGED <<forwarded, replied, captured, record>>
    BY <1>1 DEF Arrive
  <2>2. RecordTypes'
    BY <2>1 DEF RecordTypes, PCs
  <2>3. ASSUME NEW q \in Requests, q # r PROVE Request(q)'
    <3>1. pc'[q] = pc[q] /\ kind'[q] = kind[q] /\ size'[q] = size[q]
      BY <2>1, <2>3 DEF RecordTypes
    <3>. QED
      BY <2>1, <3>1, RequestKept
  <2>4. Request(r)'
    <3>1. /\ pc'[r] = "auth" /\ record'[r] = NoRecord
          /\ replied'[r] = 0 /\ captured'[r] = 0
      BY <2>1 DEF RecordTypes, Request
    <3>2. 0 = Least(0, MaxBody) /\ NoRecord.truncated = FALSE
      BY Numbers DEF Least, NoRecord
    <3>. QED
      BY <3>1, <3>2 DEF Request
  <2>. QED
    BY <2>2, <2>3, <2>4
<1>2. ASSUME NEW r \in Requests,
             AuthFails(r) \/ Heartbeat(r) \/ AuthPasses(r) \/ Limited(r) \/ AbortReply(r)
      PROVE  RecordInv'
  <2>1. /\ UNCHANGED <<kind, size, forwarded, replied, captured, record>>
        /\ \/ pc[r] = "auth" /\ pc' = [pc EXCEPT ![r] = "limit"]
           \/ /\ pc[r] \in {"auth", "limit", "proxy"}
              /\ \E to \in {"limited", "aborted", "ended"} : pc' = [pc EXCEPT ![r] = to]
    BY <1>2 DEF AuthFails, Heartbeat, AuthPasses, Limited, AbortReply
  <2>2. /\ pc' \in [Requests -> PCs]
        /\ \A q \in Requests :
              \/ pc'[q] = pc[q]
              \/ pc[q] = "auth" /\ pc'[q] = "limit"
              \/ pc[q] # "ended" /\ pc'[q] \in {"limited", "aborted", "ended"}
    BY <2>1 DEF RecordTypes, PCs
  <2>. QED
    BY <2>1, <2>2, RequestMoves
<1>3. ASSUME NEW r \in Requests, Forward(r) PROVE RecordInv'
  <2>1. /\ pc[r] = "limit" /\ pc' = [pc EXCEPT ![r] = "proxy"]
        /\ forwarded' = [forwarded EXCEPT ![r] =
              IF kind[r] = "llm" THEN Captured(size[r]) ELSE size[r]]
        /\ UNCHANGED <<kind, size, replied, captured, record>>
    BY <1>3 DEF Forward
  <2>2. size[r] \in Nat /\ Captured(size[r]) \in Nat
    BY Numbers DEF RecordTypes, Captured, Least
  <2>3. RecordTypes'
    BY <2>1, <2>2 DEF RecordTypes, PCs
  <2>4. ASSUME NEW q \in Requests, q # r PROVE Request(q)'
    <3>1. pc'[q] = pc[q] /\ forwarded'[q] = forwarded[q]
      BY <2>1, <2>4 DEF RecordTypes
    <3>. QED
      BY <2>1, <3>1, RequestKept
  <2>5. Request(r)'
    <3>1. /\ pc'[r] = "proxy"
          /\ kind[r] = "llm" => forwarded'[r] = Captured(size[r])
      BY <2>1 DEF RecordTypes
    <3>. QED
      BY <2>1, <3>1 DEF Request, Captured
  <2>. QED
    BY <2>3, <2>4, <2>5
<1>4. ASSUME NEW r \in Requests, Reply(r) PROVE RecordInv'
  <2>1. PICK n \in Chunks :
           /\ pc[r] = "proxy" /\ replied[r] + n <= MaxReply
           /\ replied' = [replied EXCEPT ![r] = @ + n]
           /\ captured' = [captured EXCEPT ![r] =
                 IF kind[r] = "llm" THEN Recorded(@, n) ELSE @]
           /\ UNCHANGED <<pc, kind, size, forwarded, record>>
    BY <1>4 DEF Reply
  <2>2. /\ n \in Nat /\ replied[r] \in Nat /\ captured[r] \in 0 .. MaxReply
        /\ replied'[r] = replied[r] + n
        /\ captured'[r] = IF kind[r] = "llm" THEN Recorded(captured[r], n) ELSE captured[r]
    BY <2>1, Numbers DEF RecordTypes
  <2>3. kind[r] = "llm" => Recorded(captured[r], n) = Least(replied[r] + n, MaxBody)
    BY <2>2, Numbers DEF Request, Recorded, Least
  <2>4. RecordTypes'
    <3>1. replied[r] + n \in 0 .. MaxReply
      BY <2>1, <2>2, Numbers
    <3>2. captured'[r] \in 0 .. MaxReply
      BY <2>2, <2>3, <3>1, Numbers DEF Least
    <3>3. captured' \in [Requests -> 0 .. MaxReply]
      BY <2>1, <2>2, <3>2 DEF RecordTypes
    <3>. QED
      BY <2>1, <3>1, <3>3 DEF RecordTypes
  <2>5. ASSUME NEW q \in Requests, q # r PROVE Request(q)'
    <3>1. replied'[q] = replied[q] /\ captured'[q] = captured[q]
      BY <2>1, <2>5 DEF RecordTypes
    <3>. QED
      BY <2>1, <3>1, RequestKept
  <2>6. Request(r)'
    <3>1. record[r] = NoRecord /\ NoRecord.truncated = FALSE
      BY <2>1 DEF Request, NoRecord
    <3>. QED
      BY <2>1, <2>2, <2>3, <3>1 DEF Request, Captured, Least
  <2>. QED
    BY <2>4, <2>5, <2>6
<1>5. ASSUME NEW r \in Requests, Finish(r) PROVE RecordInv'
  <2>1. /\ pc[r] = "proxy" /\ pc' = [pc EXCEPT ![r] = "ended"]
        /\ record' = [record EXCEPT ![r] = Payload(r)]
        /\ UNCHANGED <<kind, size, forwarded, replied, captured>>
    BY <1>5 DEF Finish
  <2>2. /\ size[r] \in Nat /\ forwarded[r] \in Nat /\ replied[r] \in Nat /\ captured[r] \in Nat
    BY Numbers DEF RecordTypes
  <2>3. CASE kind[r] # "llm"
    <3>1. Payload(r) = NoRecord
      BY <2>3 DEF Payload
    <3>2. NoRecord \in [req : 0 .. MaxBody, resp : 0 .. MaxBody, truncated : BOOLEAN]
      BY Numbers DEF NoRecord
    <3>3. Payload(r).truncated = FALSE
      BY <3>1 DEF NoRecord
    <3>4. record'[r] = NoRecord /\ pc'[r] = "ended"
      BY <2>1, <3>1 DEF RecordTypes
    <3>5. RecordTypes'
      BY <2>1, <3>1, <3>2 DEF RecordTypes, PCs
    <3>6. Request(r)'
      BY <2>1, <2>3, <3>1, <3>3, <3>4 DEF Request
    <3>7. ASSUME NEW q \in Requests, q # r PROVE Request(q)'
      BY <2>1, <3>7, RequestKept DEF RecordTypes
    <3>. QED
      BY <3>5, <3>6, <3>7
  <2>4. CASE kind[r] = "llm"
    <3>. DEFINE p == Payload(r)
    <3>1. /\ p.req = Least(forwarded[r], MaxBody)
          /\ p.resp = Least(captured[r], MaxBody)
          /\ p.truncated = (forwarded[r] > MaxBody \/ captured[r] > MaxBody)
      BY <2>4 DEF Payload, Truncated
    <3>2. p \in [req : 0 .. MaxBody, resp : 0 .. MaxBody, truncated : BOOLEAN]
      <4>1. /\ Least(forwarded[r], MaxBody) \in 0 .. MaxBody
            /\ Least(captured[r], MaxBody) \in 0 .. MaxBody
        BY <2>2, Numbers DEF Least
      <4>. QED
        BY <2>4, <4>1 DEF Payload, Truncated
    <3>. HIDE DEF p
    <3>3. /\ forwarded[r] = Captured(size[r])
          /\ captured[r] = Least(replied[r], MaxBody)
      BY <2>1, <2>4 DEF Request
    <3>4. /\ p.req < size[r] => p.truncated
          /\ p.truncated => size[r] > MaxBody
      <4>1. /\ forwarded[r] > MaxBody <=> size[r] > MaxBody
            /\ ~(captured[r] > MaxBody)
            /\ Least(forwarded[r], MaxBody) < size[r] => size[r] > MaxBody
        BY <2>2, <3>3, Numbers DEF Captured, Least
      <4>2. p.truncated <=> size[r] > MaxBody
        BY <3>1, <4>1, Zenon
      <4>. QED
        BY <3>1, <4>1, <4>2
    <3>5. record'[r] = p /\ pc'[r] = "ended"
      BY <2>1 DEF RecordTypes, p
    <3>6. RecordTypes'
      BY <2>1, <3>2 DEF RecordTypes, PCs, p
    <3>7. Request(r)'
      BY <2>1, <2>4, <3>3, <3>4, <3>5 DEF Request
    <3>8. ASSUME NEW q \in Requests, q # r PROVE Request(q)'
      BY <2>1, <3>8, RequestKept DEF RecordTypes
    <3>. QED
      BY <3>6, <3>7, <3>8
  <2>. QED
    BY <2>3, <2>4
<1>6. CASE Crash
  <2>1. /\ pc' = [r \in Requests |-> IF pc[r] \in Over \cup {"idle"} THEN pc[r] ELSE "aborted"]
        /\ UNCHANGED <<kind, size, forwarded, replied, captured, record>>
    BY <1>6 DEF Crash
  <2>2. /\ pc' \in [Requests -> PCs]
        /\ \A q \in Requests : pc'[q] = pc[q] \/ (pc[q] # "ended" /\ pc'[q] = "aborted")
    BY <2>1 DEF RecordTypes, PCs, Over
  <2>. QED
    BY <2>1, <2>2, RequestMoves
<1>7. CASE UNCHANGED requestVars
  <2>1. UNCHANGED <<pc, kind, size, forwarded, replied, captured, record>>
    BY <1>7 DEF requestVars
  <2>2. RecordTypes'
    BY <2>1 DEF RecordTypes
  <2>. QED
    BY <2>1, <2>2, RequestKept
<1>. QED
  BY <1>1, <1>2, <1>3, <1>4, <1>5, <1>6, <1>7 DEF Next, HandlerStep, vars

-----------------------------------------------------------------------------
(* The theorems                                                            *)

IInv == TrailInv /\ RecordInv /\ crashes \in 0 .. MaxCrashes

LEMMA Invariance == Spec => []IInv
<1>1. Init => IInv
  <2>1. SUFFICES ASSUME Init PROVE IInv
    OBVIOUS
  <2>2. QueueTypeOK
    BY <2>1, AuditQueueAssumption DEF Init, QueueInit, QueueTypeOK
  <2>3. BeforeInv
    BY <2>1 DEF Init, QueueInit, BeforeInv, PCs
  <2>4. OrderInv
    BY <2>1 DEF Init, QueueInit, OrderInv, AuditOrder
  <2>5. EndedIsAudited
    BY <2>1 DEF Init, EndedIsAudited
  <2>6. RecordTypes
    BY <2>1, Numbers DEF Init, RecordTypes, PCs, Kinds, NoRecord
  <2>7. ASSUME NEW r \in Requests PROVE Request(r)
    <3>1. /\ record[r] = NoRecord /\ NoRecord.truncated = FALSE /\ pc[r] = "idle"
          /\ kind[r] = "heartbeat" /\ replied[r] = 0 /\ captured[r] = 0
      BY <2>1 DEF Init, NoRecord
    <3>. QED
      BY <3>1 DEF Request
  <2>8. crashes \in 0 .. MaxCrashes
    BY <2>1, GatewayAssumption DEF Init
  <2>. QED
    BY <2>2, <2>3, <2>4, <2>5, <2>6, <2>7, <2>8 DEF IInv, TrailInv, RecordInv
<1>2. IInv /\ [Next]_vars => IInv'
  <2>1. SUFFICES ASSUME IInv, [Next]_vars PROVE IInv'
    OBVIOUS
  <2>2. crashes' = crashes \/ (crashes < MaxCrashes /\ crashes' = crashes + 1)
    BY <2>1 DEF Next, HandlerStep, Arrive, AuthFails, AuthPasses, Limited, Heartbeat, Forward,
                Reply, AbortReply, Finish, Crash, vars
  <2>3. crashes' \in 0 .. MaxCrashes
    BY <2>1, <2>2, GatewayAssumption DEF IInv
  <2>. QED
    BY <2>1, <2>3, TrailStep, RecordStep DEF IInv
<1>. QED
  BY <1>1, <1>2, PTL DEF Spec

\* Every request that was served or refused is in the channel, being written, in
\* the stream, or among the events the writer may drop.
THEOREM TrailComplete == Spec => []EndedIsAudited
<1>1. IInv => EndedIsAudited
  BY DEF IInv, TrailInv
<1>. QED
  BY <1>1, Invariance, PTL

\* No event in the stream is behind that of a request that began after it was
\* over, whatever is written twice or lost with a restart.
THEOREM TrailOrdered == Spec => []AuditOrder
<1>1. IInv => AuditOrder
  BY DEF IInv, TrailInv, OrderInv
<1>. QED
  BY <1>1, Invariance, PTL

\* What is recorded of a body is as much as fits, and says when there was more
\* of the request.
THEOREM RecordsHold == Spec => []RecordsAreSound
<1>1. IInv => TypeOK
  BY DEF IInv, TrailInv, BeforeInv, RecordInv, RecordTypes, TypeOK
<1>2. IInv => CutRequestIsFlagged /\ CaptureIsPrefix
  BY DEF IInv, RecordInv, Request, CutRequestIsFlagged, CaptureIsPrefix
<1>. QED
  BY <1>1, <1>2, Invariance, PTL DEF RecordsAreSound

-----------------------------------------------------------------------------
(* The rate limiter                                                        *)

\* Nothing has been given away at the start.
LEMMA InitInv == LimiterInit => LimiterInv
<1>1. SUFFICES ASSUME LimiterInit PROVE LimiterInv
  OBVIOUS
<1>2. \A b \in Buckets : Level(b) = Full
  BY RateLimiterAssumption, <1>1 DEF LimiterInit, Level, AtMost
<1>. QED
  BY RateLimiterAssumption, <1>1, <1>2
  DEF LimiterInit, LimiterInv, LimiterTypeOK, ClockInv, OwnerInv, DebtInv,
      CreditInv, LevelOf, NoBucket, Buckets

\* Time fills the real and the ideal buckets at one rate, up to one bound.
LEMMA TickInv == LimiterInv /\ Tick => LimiterInv'
<1>1. SUFFICES ASSUME LimiterInv, Tick PROVE LimiterInv'
  OBVIOUS
<1>. USE RateLimiterAssumption
<1>2. LimiterTypeOK'
  BY <1>1
  DEF LimiterInv, LimiterTypeOK, Tick, AtMost, bucketVars, handlerVars,
      cleanerVars
<1>3. ClockInv'
  BY <1>1
  DEF LimiterInv, LimiterTypeOK, ClockInv, Tick, bucketVars, handlerVars,
      cleanerVars, Buckets
<1>4. OwnerInv'
  BY <1>1 DEF LimiterInv, OwnerInv, Tick, bucketVars, handlerVars, cleanerVars
<1>5. \A b \in Buckets : Level(b)' = AtMost(Level(b) + 1, Full)
  <2>1. ASSUME NEW b \in Buckets
        PROVE  Level(b)' = AtMost(Level(b) + 1, Full)
    <3>1. tokens[b] \in Nat /\ last[b] \in Nat /\ now \in Nat /\ last[b] <= now
      BY <1>1 DEF LimiterInv, LimiterTypeOK, ClockInv
    <3>2. tokens' = tokens /\ last' = last /\ now' = now + 1
      BY <1>1 DEF Tick, bucketVars
    <3>. QED
      BY <3>1, <3>2 DEF Level, AtMost
  <2>. QED
    BY <2>1
<1>6. \A a \in Agents : LevelOf(a)' = AtMost(LevelOf(a) + 1, Full)
  BY <1>1, <1>5
  DEF LimiterInv, LimiterTypeOK, Tick, LevelOf, AtMost, bucketVars, Buckets,
      NoBucket
<1>7. \A a \in Agents : LevelOf(a) \in Int
  <2>1. \A b \in Buckets : Level(b) \in Int
    BY <1>1 DEF LimiterInv, LimiterTypeOK, Level, AtMost
  <2>2. \A a \in Agents : key[a] # NoBucket => key[a] \in Buckets
    BY <1>1 DEF LimiterInv, LimiterTypeOK, Buckets, NoBucket
  <2>. QED
    BY <2>1, <2>2 DEF LevelOf
<1>8. DebtInv'
  BY <1>1, <1>6, <1>7 DEF LimiterInv, LimiterTypeOK, DebtInv, Tick, AtMost
<1>9. CreditInv'
  <2>1. \A a \in Agents : (credit[a] <= LevelOf(a))'
    BY <1>1, <1>6, <1>7 DEF LimiterInv, LimiterTypeOK, CreditInv, Tick, AtMost
  <2>2. ASSUME NEW h \in Handlers, held[h] # NoBucket
        PROVE  credit'[agent[h]] <= Level(held[h])'
    <3>1. held[h] \in Buckets /\ agent[h] \in Agents
      <4>1. held[h] \in 0 .. made /\ made \in 0 .. MaxBuckets
        BY <1>1 DEF LimiterInv, LimiterTypeOK
      <4>2. agent[h] \in Agents
        BY <1>1, <2>2 DEF LimiterInv, OwnerInv
      <4>. QED
        BY <2>2, <4>1, <4>2 DEF Buckets, NoBucket
    <3>2. Level(held[h]) \in Int
      BY <1>1, <3>1 DEF LimiterInv, LimiterTypeOK, Level, AtMost
    <3>3. Level(held[h])' = AtMost(Level(held[h]) + 1, Full)
      BY <1>1, <1>5, <3>1 DEF Tick, handlerVars, Level
    <3>. QED
      BY <1>1, <2>2, <3>1, <3>2, <3>3
      DEF LimiterInv, LimiterTypeOK, CreditInv, Tick, AtMost
  <2>. QED
    BY <1>1, <2>1, <2>2 DEF CreditInv, Tick, handlerVars, Level
<1>. QED
  BY <1>2, <1>3, <1>4, <1>8, <1>9 DEF LimiterInv

\* Level keeps its bounds; an untouched bucket keeps its level.
LEMMA LevelType ==
  ASSUME LimiterTypeOK, ClockInv,
    NEW b \in Buckets
  PROVE  Level(b) \in 0 .. Full
<1>1. tokens[b] \in 0 .. Full /\ last[b] \in Nat /\ now \in Nat /\ last[b] <= now
  BY DEF LimiterTypeOK, ClockInv
<1>. QED
  BY RateLimiterAssumption, <1>1 DEF Level, AtMost

\* What the agents' keys and the handlers' buckets refer to.
LEMMA References ==
  ASSUME LimiterTypeOK, OwnerInv
  PROVE  /\ \A a \in Agents : key[a] # NoBucket => key[a] \in Buckets
         /\ \A h \in Handlers : held[h] # NoBucket =>
               held[h] \in Buckets /\ agent[h] \in Agents
         /\ condemned # NoAgent =>
               condemned \in Agents /\ key[condemned] \in Buckets
<1>1. made \in 0 .. MaxBuckets
  BY DEF LimiterTypeOK
<1>2. \A n \in 0 .. made : n # NoBucket => n \in Buckets
  BY <1>1, RateLimiterAssumption DEF Buckets, NoBucket
<1>3. (\A a \in Agents : key[a] \in 0 .. made) /\ (\A h \in Handlers : held[h] \in 0 .. made)
  BY DEF LimiterTypeOK
<1>4. \A h \in Handlers : held[h] # NoBucket => agent[h] \in Agents
  BY DEF OwnerInv
<1>5. condemned # NoAgent => condemned \in Agents /\ key[condemned] # NoBucket
  BY DEF LimiterTypeOK, OwnerInv
<1>. QED
  BY <1>2, <1>3, <1>4, <1>5

\* A handler gets its agent's bucket, or a full new one.
LEMMA LoadInv ==
  ASSUME LimiterInv, NEW h \in Handlers, NEW a \in Agents,
    LoadOrStore(h, a)
  PROVE  LimiterInv'
<1>. USE RateLimiterAssumption
<1>0. /\ LimiterTypeOK /\ ClockInv /\ OwnerInv /\ DebtInv /\ CreditInv
      /\ now' = now /\ UNCHANGED <<verdict, cutoff, unvisited, condemned, credit, slack>>
  BY DEF LimiterInv, LoadOrStore, cleanerVars, ghostVars
<1>1. CASE key[a] # NoBucket
  <2>1. /\ UNCHANGED <<made, tokens, last, key>>
        /\ agent' = [agent EXCEPT ![h] = a]
        /\ held' = [held EXCEPT ![h] = key[a]]
        /\ held[h] = NoBucket
    BY <1>1 DEF LoadOrStore, bucketVars
  <2>2. LimiterTypeOK'
    BY <1>0, <2>1 DEF LimiterTypeOK
  <2>3. ClockInv'
    BY <1>0, <2>1 DEF ClockInv
  <2>4. OwnerInv'
    BY <1>0, <1>1, <2>1 DEF LimiterTypeOK, OwnerInv
  <2>5. \A b \in Buckets : Level(b)' = Level(b)
    BY <1>0, <2>1 DEF Level
  <2>6. \A c \in Agents : LevelOf(c)' = LevelOf(c)
    BY <1>0, <2>1, <2>5 DEF LevelOf, Level
  <2>7. DebtInv'
    BY <1>0, <2>6 DEF DebtInv
  <2>8. CreditInv'
    <3>1. \A c \in Agents : (credit[c] <= LevelOf(c))'
      BY <1>0, <2>6 DEF CreditInv
    <3>2. ASSUME NEW g \in Handlers, held'[g] # NoBucket
          PROVE  (credit[agent[g]] <= Level(held[g]))'
      <4>1. CASE g = h
        BY <1>0, <1>1, <2>1, <4>1 DEF LimiterTypeOK, CreditInv, LevelOf, Level
      <4>2. CASE g # h
        BY <1>0, <2>1, <3>2, <4>2 DEF LimiterTypeOK, CreditInv, Level
      <4>. QED
        BY <4>1, <4>2
    <3>. QED
      BY <3>1, <3>2 DEF CreditInv
  <2>. QED
    BY <2>2, <2>3, <2>4, <2>7, <2>8 DEF LimiterInv
<1>2. CASE key[a] = NoBucket
  <2>0. PICK n \in Nat : n = made + 1
    BY <1>0 DEF LimiterTypeOK
  <2>1. /\ made < MaxBuckets /\ made' = n
        /\ tokens' = [tokens EXCEPT ![n] = Full]
        /\ last' = [last EXCEPT ![n] = now]
        /\ key' = [key EXCEPT ![a] = n]
        /\ agent' = [agent EXCEPT ![h] = a]
        /\ held' = [held EXCEPT ![h] = n]
        /\ held[h] = NoBucket
    BY <1>2, <2>0 DEF LoadOrStore
  <2>2. /\ n \in Buckets /\ n # NoBucket
        /\ \A c \in Agents : key[c] \in 0 .. n /\ key[c] # n
        /\ \A g \in Handlers : held[g] \in 0 .. n /\ held[g] # n
    <3>1. /\ made \in Nat /\ MaxBuckets \in Nat
          /\ \A c \in Agents : key[c] \in 0 .. made
          /\ \A g \in Handlers : held[g] \in 0 .. made
      BY <1>0 DEF LimiterTypeOK
    <3>2. \A i \in 0 .. made : i \in 0 .. n /\ i # n
      BY <2>0, <3>1
    <3>. QED
      BY <2>0, <2>1, <3>1, <3>2 DEF Buckets, NoBucket
  <2>3. LimiterTypeOK'
    <3>1. key' \in [Agents -> 0 .. n] /\ held' \in [Handlers -> 0 .. n]
      BY <1>0, <2>1, <2>2 DEF LimiterTypeOK
    <3>2. tokens' \in [Buckets -> 0 .. Full] /\ last' \in [Buckets -> 0 .. MaxTime]
      BY <1>0, <2>1, <2>2 DEF LimiterTypeOK
    <3>3. agent' \in [Handlers -> Agents \cup {NoAgent}]
      BY <1>0, <2>1 DEF LimiterTypeOK
    <3>4. n \in 0 .. MaxBuckets
      BY <2>0, <2>2 DEF Buckets
    <3>. QED
      BY <1>0, <2>1, <3>1, <3>2, <3>3, <3>4 DEF LimiterTypeOK
  <2>4. ClockInv'
    BY <1>0, <2>1 DEF LimiterTypeOK, ClockInv
  <2>5. OwnerInv'
    <3>1. \A c \in Agents : key'[c] = IF c = a THEN n ELSE key[c]
      BY <1>0, <2>1 DEF LimiterTypeOK
    <3>2. \A g \in Handlers :
              /\ held'[g] = IF g = h THEN n ELSE held[g]
              /\ agent'[g] = IF g = h THEN a ELSE agent[g]
      BY <1>0, <2>1 DEF LimiterTypeOK
    <3>3. condemned # NoAgent => condemned \in Agents
      BY <1>0 DEF LimiterTypeOK
    <3>. QED
      BY <1>0, <1>2, <2>2, <3>1, <3>2, <3>3 DEF OwnerInv
  <2>6. /\ \A b \in Buckets : b # n => Level(b)' = Level(b)
        /\ Level(n)' = Full
    <3>1. /\ tokens'[n] = Full /\ last'[n] = now
          /\ \A b \in Buckets : b # n =>
                tokens'[b] = tokens[b] /\ last'[b] = last[b]
      BY <1>0, <2>1, <2>2 DEF LimiterTypeOK
    <3>2. now \in Nat
      BY <1>0 DEF LimiterTypeOK
    <3>. QED
      BY <1>0, <3>1, <3>2 DEF Level, AtMost
  <2>7. \A c \in Agents : LevelOf(c)' = LevelOf(c)
    <3>1. ASSUME NEW c \in Agents PROVE LevelOf(c)' = LevelOf(c)
      <4>1. CASE c = a
        <5>1. key'[c] = n
          BY <1>0, <2>1, <4>1 DEF LimiterTypeOK
        <5>. QED
          BY <1>2, <2>2, <2>6, <4>1, <5>1 DEF LevelOf, Level
      <4>2. CASE c # a
        <5>1. key'[c] = key[c] /\ (key[c] # NoBucket => key[c] \in Buckets)
          BY <1>0, <2>1, <4>2, References DEF LimiterTypeOK
        <5>. QED
          BY <2>2, <2>6, <5>1 DEF LevelOf, Level
      <4>. QED
        BY <4>1, <4>2
    <3>. QED
      BY <3>1
  <2>8. DebtInv'
    BY <1>0, <2>7 DEF DebtInv
  <2>9. CreditInv'
    <3>1. \A c \in Agents : (credit[c] <= LevelOf(c))'
      BY <1>0, <2>7 DEF CreditInv
    <3>2. ASSUME NEW g \in Handlers, held'[g] # NoBucket
          PROVE  (credit[agent[g]] <= Level(held[g]))'
      <4>1. CASE g = h
        <5>1. held'[g] = n /\ agent'[g] = a
          BY <1>0, <2>1, <4>1 DEF LimiterTypeOK
        <5>2. credit[a] <= Full
          BY <1>0, <1>2 DEF CreditInv, LevelOf
        <5>. QED
          BY <1>0, <2>6, <5>1, <5>2 DEF Level
      <4>2. CASE g # h
        <5>1. held'[g] = held[g] /\ agent'[g] = agent[g]
          BY <1>0, <2>1, <4>2 DEF LimiterTypeOK
        <5>2. held[g] \in Buckets
          BY <1>0, <3>2, <5>1, References
        <5>. QED
          BY <1>0, <2>2, <2>6, <3>2, <5>1, <5>2 DEF CreditInv, Level
      <4>. QED
        BY <4>1, <4>2
    <3>. QED
      BY <3>1, <3>2 DEF CreditInv
  <2>. QED
    BY <2>3, <2>4, <2>5, <2>8, <2>9 DEF LimiterInv
<1>. QED
  BY <1>1, <1>2 DEF NoBucket

\* What Allow does to its bucket, spelled out.
LEMMA AllowEffect ==
  ASSUME LimiterInv, NEW h \in Handlers, Allow(h)
  PROVE  \E b \in Buckets, a \in Agents, paid \in {0, Cost} :
            /\ held[h] = b /\ agent[h] = a /\ b # NoBucket
            /\ verdict'[h] = (paid = Cost)
            /\ paid <= Level(b)
            /\ paid = 0 => Level(b) < Cost
            /\ tokens' = [tokens EXCEPT ![b] = Level(b) - paid]
            /\ last' = [last EXCEPT ![b] = now]
            /\ credit' = [credit EXCEPT ![a] = @ - paid]
            /\ slack' = [slack EXCEPT ![a] = IF key[a] = b THEN @ ELSE @ + paid]
            /\ held' = [held EXCEPT ![h] = NoBucket]
            /\ verdict' \in [Handlers -> BOOLEAN]
            /\ UNCHANGED <<now, made, key, agent, cutoff, unvisited, condemned>>
<1>. USE RateLimiterAssumption
<1>0. LimiterTypeOK /\ ClockInv /\ OwnerInv
  BY DEF LimiterInv
<1>1. /\ held[h] # NoBucket /\ held[h] \in Buckets /\ agent[h] \in Agents
  BY <1>0, References DEF Allow
<1>2. Level(held[h]) \in Int /\ Level(held[h]) >= 0
  BY <1>0, <1>1, LevelType
<1>3. UNCHANGED <<now, made, key, agent, cutoff, unvisited, condemned>>
  BY DEF Allow, cleanerVars
<1>4. /\ credit[agent[h]] \in Int /\ slack[agent[h]] \in Nat
      /\ credit = [credit EXCEPT ![agent[h]] = credit[agent[h]]]
      /\ slack = [slack EXCEPT ![agent[h]] = slack[agent[h]]]
  BY <1>0, <1>1 DEF LimiterTypeOK
<1>5. /\ last' = [last EXCEPT ![held[h]] = now]
      /\ held' = [held EXCEPT ![h] = NoBucket]
      /\ verdict' = [verdict EXCEPT ![h] = (Level(held[h]) >= Cost)]
  BY DEF Allow
<1>6. verdict' \in [Handlers -> BOOLEAN] /\ verdict'[h] = (Level(held[h]) >= Cost)
  BY <1>0, <1>5 DEF LimiterTypeOK
<1>7. CASE Level(held[h]) >= Cost
  <2>1. /\ tokens' = [tokens EXCEPT ![held[h]] = Level(held[h]) - Cost]
        /\ credit' = [credit EXCEPT ![agent[h]] = @ - Cost]
        /\ slack' = [slack EXCEPT ![agent[h]] =
              IF key[agent[h]] = held[h] THEN @ ELSE @ + Cost]
    BY <1>7 DEF Allow
  <2>2. verdict'[h] = (Cost = Cost)
    BY <1>6, <1>7
  <2>3. Cost <= Level(held[h]) /\ (Cost = 0 => Level(held[h]) < Cost)
    BY <1>2, <1>7
  <2>. QED
    BY <1>1, <1>3, <1>5, <1>6, <2>1, <2>2, <2>3
<1>8. CASE ~(Level(held[h]) >= Cost)
  <2>1. /\ tokens' = [tokens EXCEPT ![held[h]] = Level(held[h])]
        /\ credit' = [credit EXCEPT ![agent[h]] = @]
        /\ slack' = [slack EXCEPT ![agent[h]] = @]
    BY <1>8 DEF Allow
  <2>2. /\ Level(held[h]) = Level(held[h]) - 0
        /\ credit[agent[h]] = credit[agent[h]] - 0
        /\ slack[agent[h]] = slack[agent[h]] + 0
    BY <1>2, <1>4
  <2>3. /\ tokens' = [tokens EXCEPT ![held[h]] = Level(held[h]) - 0]
        /\ credit' = [credit EXCEPT ![agent[h]] = @ - 0]
        /\ slack' = [slack EXCEPT ![agent[h]] =
              IF key[agent[h]] = held[h] THEN @ ELSE @ + 0]
    BY <1>4, <2>1, <2>2
  <2>4. verdict'[h] = (0 = Cost)
    BY <1>6, <1>8
  <2>5. 0 <= Level(held[h]) /\ Level(held[h]) < Cost
    BY <1>2, <1>8
  <2>. QED
    BY <1>1, <1>3, <1>5, <1>6, <2>3, <2>4, <2>5
<1>. QED
  BY <1>7, <1>8

\* A request lowers the ideal bucket and the real one alike; one admitted by a
\* removed bucket is accounted in slack instead.
LEMMA AllowInv ==
  ASSUME LimiterInv, NEW h \in Handlers, Allow(h)
  PROVE  LimiterInv'
<1>. USE RateLimiterAssumption
<1>0. LimiterTypeOK /\ ClockInv /\ OwnerInv /\ DebtInv /\ CreditInv
  BY DEF LimiterInv
<1>1. PICK b \in Buckets, a \in Agents, paid \in {0, Cost} :
            /\ held[h] = b /\ agent[h] = a /\ b # NoBucket
            /\ verdict'[h] = (paid = Cost)
            /\ paid <= Level(b)
            /\ paid = 0 => Level(b) < Cost
            /\ tokens' = [tokens EXCEPT ![b] = Level(b) - paid]
            /\ last' = [last EXCEPT ![b] = now]
            /\ credit' = [credit EXCEPT ![a] = @ - paid]
            /\ slack' = [slack EXCEPT ![a] = IF key[a] = b THEN @ ELSE @ + paid]
            /\ held' = [held EXCEPT ![h] = NoBucket]
            /\ verdict' \in [Handlers -> BOOLEAN]
            /\ UNCHANGED <<now, made, key, agent, cutoff, unvisited, condemned>>
  BY AllowEffect
<1>2. /\ Level(b) \in 0 .. Full /\ paid \in Nat /\ now \in Nat
      /\ Level(b) - paid \in 0 .. Full
  <2>1. Level(b) \in 0 .. Full
    BY <1>0, LevelType
  <2>. QED
    BY <1>0, <1>1, <2>1 DEF LimiterTypeOK
<1>3. LimiterTypeOK'
  <2>1. credit' \in [Agents -> Int] /\ slack' \in [Agents -> Nat]
    BY <1>0, <1>1, <1>2 DEF LimiterTypeOK
  <2>2. tokens' \in [Buckets -> 0 .. Full] /\ last' \in [Buckets -> 0 .. MaxTime]
    BY <1>0, <1>1, <1>2 DEF LimiterTypeOK
  <2>3. held' \in [Handlers -> 0 .. made]
    BY <1>0, <1>1 DEF LimiterTypeOK, NoBucket
  <2>. QED
    BY <1>0, <1>1, <2>1, <2>2, <2>3 DEF LimiterTypeOK
<1>4. ClockInv'
  BY <1>0, <1>1, <1>2 DEF LimiterTypeOK, ClockInv
<1>5. \A g \in Handlers : held'[g] # NoBucket => g # h /\ held'[g] = held[g]
  BY <1>0, <1>1 DEF LimiterTypeOK
<1>6. OwnerInv'
  BY <1>0, <1>1, <1>5 DEF OwnerInv
<1>7. \A c \in Buckets : Level(c)' = IF c = b THEN Level(b) - paid ELSE Level(c)
  <2>1. /\ tokens'[b] = Level(b) - paid /\ last'[b] = now
        /\ \A c \in Buckets : c # b => tokens'[c] = tokens[c] /\ last'[c] = last[c]
    BY <1>0, <1>1 DEF LimiterTypeOK
  <2>2. AtMost((Level(b) - paid) + (now - now), Full) = Level(b) - paid
    BY <1>2 DEF AtMost
  <2>3. \A c : Level(c)' = AtMost(tokens'[c] + (now - last'[c]), Full)
    BY <1>1 DEF Level, AtMost
  <2>. QED
    BY <2>1, <2>2, <2>3 DEF Level
<1>8. \A c \in Agents :
        /\ LevelOf(c) \in Int
        /\ LevelOf(c)' = IF key[c] = b THEN LevelOf(c) - paid ELSE LevelOf(c)
        /\ key[c] = b => c = a
  <2>1. ASSUME NEW c \in Agents
        PROVE  /\ LevelOf(c) \in Int
               /\ LevelOf(c)' = IF key[c] = b THEN LevelOf(c) - paid ELSE LevelOf(c)
               /\ key[c] = b => c = a
    <3>1. key'[c] = key[c] /\ (key[c] # NoBucket => key[c] \in Buckets)
      BY <1>0, <1>1, References
    <3>2. key[c] # NoBucket => Level(key[c]) \in Int
      BY <1>0, <3>1, LevelType
    <3>3. LevelOf(c)' = IF key[c] = NoBucket THEN Full ELSE Level(key[c])'
      BY <3>1 DEF LevelOf, Level
    <3>4. key[c] = b => c = a
      BY <1>0, <1>1 DEF OwnerInv
    <3>5. key[c] # NoBucket =>
            Level(key[c])' = IF key[c] = b THEN Level(b) - paid ELSE Level(key[c])
      BY <1>1, <1>7, <3>1 DEF Level
    <3>. QED
      BY <1>1, <3>2, <3>3, <3>4, <3>5 DEF LevelOf
  <2>. QED
    BY <2>1
<1>9. \A c \in Agents :
        /\ credit[c] \in Int /\ slack[c] \in Nat
        /\ credit'[c] = IF c = a THEN credit[c] - paid ELSE credit[c]
        /\ slack'[c] = IF c = a /\ key[c] # b THEN slack[c] + paid ELSE slack[c]
  BY <1>0, <1>1 DEF LimiterTypeOK
<1>10. DebtInv'
  BY <1>0, <1>2, <1>8, <1>9 DEF DebtInv
<1>11. CreditInv'
  <2>1. \A c \in Agents : (credit[c] <= LevelOf(c))'
    BY <1>0, <1>2, <1>8, <1>9 DEF CreditInv
  <2>2. ASSUME NEW g \in Handlers, held'[g] # NoBucket
        PROVE  (credit[agent[g]] <= Level(held[g]))'
    <3>1. /\ held'[g] = held[g] /\ agent'[g] = agent[g]
          /\ held[g] \in Buckets /\ agent[g] \in Agents
      BY <1>0, <1>1, <1>5, <2>2, References
    <3>2. credit[agent[g]] <= Level(held[g]) /\ Level(held[g]) \in Int
      BY <1>0, <2>2, <3>1, LevelType DEF CreditInv
    <3>3. held[g] = b => agent[g] = a
      BY <1>0, <1>1, <3>1 DEF OwnerInv
    <3>4. Level(held[g])' = IF held[g] = b THEN Level(b) - paid ELSE Level(held[g])
      BY <1>7, <3>1 DEF Level
    <3>. QED
      BY <1>2, <1>9, <3>1, <3>2, <3>3, <3>4 DEF Level
  <2>. QED
    BY <2>1, <2>2 DEF CreditInv
<1>. QED
  BY <1>3, <1>4, <1>6, <1>10, <1>11 DEF LimiterInv

\* The cleaner starts a round, or looks at one key.
LEMMA LookInv ==
  ASSUME LimiterInv,
    Sweep \/ \E a \in Agents : Visit(a)
  PROVE  LimiterInv'
<1>. USE RateLimiterAssumption
<1>0. /\ LimiterTypeOK /\ ClockInv /\ OwnerInv /\ DebtInv /\ CreditInv
      /\ UNCHANGED <<now, made, tokens, last, key, agent, held, verdict, credit, slack>>
  BY DEF LimiterInv, Sweep, Visit, bucketVars, handlerVars, ghostVars
<1>1. /\ unvisited' \subseteq Agents /\ cutoff' \in Int /\ cutoff' <= now - IdleTicks
      /\ condemned' \in Agents \cup {NoAgent}
      /\ condemned' # NoAgent => key[condemned'] # NoBucket
  BY <1>0 DEF LimiterTypeOK, ClockInv, OwnerInv, Sweep, Visit
<1>2. LimiterTypeOK'
  BY <1>0, <1>1 DEF LimiterTypeOK
<1>3. ClockInv'
  BY <1>0, <1>1 DEF ClockInv
<1>4. OwnerInv'
  BY <1>0, <1>1 DEF OwnerInv
<1>5. DebtInv' /\ CreditInv'
  BY <1>0 DEF DebtInv, CreditInv, LevelOf, Level
<1>. QED
  BY <1>2, <1>3, <1>4, <1>5 DEF LimiterInv

\* A removed bucket is replaced by a full one; the difference goes to slack.
LEMMA DeleteInv ==
    ASSUME LimiterInv, Delete PROVE LimiterInv'
<1>. USE RateLimiterAssumption
<1>0. /\ LimiterTypeOK /\ ClockInv /\ OwnerInv /\ DebtInv /\ CreditInv
      /\ UNCHANGED <<now, made, tokens, last, agent, held, verdict, cutoff, unvisited, credit>>
  BY DEF LimiterInv, Delete, handlerVars
<1>1. PICK a \in Agents : a = condemned /\ key[a] \in Buckets /\ key[a] # NoBucket
  BY <1>0, References DEF Delete, OwnerInv
<1>2. Level(key[a]) \in 0 .. Full
  BY <1>0, <1>1, LevelType
<1>3. /\ key' = [key EXCEPT ![a] = NoBucket]
      /\ slack' = [slack EXCEPT ![a] = @ + (Full - Level(key[a]))]
      /\ condemned' = NoAgent
  BY <1>1 DEF Delete
<1>4. \A c \in Agents :
        /\ key'[c] = IF c = a THEN NoBucket ELSE key[c]
        /\ slack'[c] = IF c = a THEN slack[a] + (Full - Level(key[a])) ELSE slack[c]
        /\ slack[c] \in Nat /\ credit[c] \in Int
  BY <1>0, <1>3 DEF LimiterTypeOK
<1>5. LimiterTypeOK'
  <2>1. slack[a] + (Full - Level(key[a])) \in Nat
    BY <1>2, <1>4
  <2>2. slack' \in [Agents -> Nat] /\ key' \in [Agents -> 0 .. made]
    BY <1>0, <1>3, <2>1 DEF LimiterTypeOK, NoBucket
  <2>. QED
    BY <1>0, <1>3, <2>2 DEF LimiterTypeOK
<1>6. ClockInv'
  BY <1>0 DEF ClockInv
<1>7. OwnerInv'
  BY <1>0, <1>3, <1>4 DEF OwnerInv
<1>8. /\ LevelOf(a) = Level(key[a]) /\ LevelOf(a)' = Full
      /\ \A c \in Agents : c # a => LevelOf(c)' = LevelOf(c)
  BY <1>0, <1>1, <1>4 DEF LevelOf, Level
<1>9. DebtInv'
  BY <1>0, <1>2, <1>4, <1>8 DEF DebtInv
<1>10. CreditInv'
  <2>1. \A c \in Agents : (credit[c] <= LevelOf(c))'
    BY <1>0, <1>2, <1>4, <1>8 DEF CreditInv
  <2>2. \A g \in Handlers : (held[g] # NoBucket => credit[agent[g]] <= Level(held[g]))'
    BY <1>0 DEF CreditInv, Level
  <2>. QED
    BY <2>1, <2>2 DEF CreditInv
<1>. QED
  BY <1>5, <1>6, <1>7, <1>9, <1>10 DEF LimiterInv

LEMMA StepInv == LimiterInv /\ [LimiterNext]_limiterVars => LimiterInv'
<1>1. SUFFICES ASSUME LimiterInv, [LimiterNext]_limiterVars PROVE LimiterInv'
  OBVIOUS
<1>2. CASE Tick
  BY <1>1, <1>2, TickInv
<1>3. CASE \E h \in Handlers, a \in Agents : LoadOrStore(h, a)
  BY <1>1, <1>3, LoadInv
<1>4. CASE \E h \in Handlers : Allow(h)
  BY <1>1, <1>4, AllowInv
<1>5. CASE Sweep \/ \E a \in Agents : Visit(a)
  BY <1>1, <1>5, LookInv
<1>6. CASE Delete
  BY <1>1, <1>6, DeleteInv
<1>7. CASE UNCHANGED limiterVars
  <2>1. UNCHANGED <<now, made, tokens, last, key, agent, held, verdict, cutoff,
                    unvisited, condemned, credit, slack>>
    BY <1>7 DEF limiterVars, bucketVars, handlerVars, cleanerVars, ghostVars
  <2>2. LimiterTypeOK' /\ ClockInv' /\ OwnerInv'
    BY <1>1, <2>1 DEF LimiterInv, LimiterTypeOK, ClockInv, OwnerInv
  <2>3. DebtInv' /\ CreditInv'
    BY <1>1, <2>1 DEF LimiterInv, DebtInv, CreditInv, LevelOf, Level
  <2>. QED
    BY <2>2, <2>3 DEF LimiterInv
<1>. QED
  BY <1>1, <1>2, <1>3, <1>4, <1>5, <1>6, <1>7 DEF LimiterNext

LEMMA LimiterInvariance == LimiterSpec => []LimiterInv
<1>1. LimiterInit => LimiterInv
  BY InitInv
<1>2. LimiterInv /\ [LimiterNext]_limiterVars => LimiterInv'
  BY StepInv
<1>. QED
  BY <1>1, <1>2, PTL DEF LimiterSpec

-----------------------------------------------------------------------------
\* Every variable keeps its type; in particular no bucket ever holds more than
\* its burst.
THEOREM LimiterTypes == LimiterSpec => []LimiterTypeOK
<1>1. LimiterInv => LimiterTypeOK
  BY DEF LimiterInv
<1>. QED
  BY <1>1, LimiterInvariance, PTL

\* Allow, LoadOrStore and the cleaner together never admit more than one
\* bucket would, plus what racing removals gave away.
THEOREM AdmissionIsBounded == LimiterSpec => []AdmissionBound
<1>1. LimiterInv => AdmissionBound
  <2>1. SUFFICES ASSUME LimiterInv, NEW a \in Agents PROVE credit[a] + slack[a] >= 0
    BY DEF AdmissionBound
  <2>2. LevelOf(a) \in Nat
    <3>1. CASE key[a] = NoBucket
      BY RateLimiterAssumption, <3>1 DEF LevelOf
    <3>2. CASE key[a] # NoBucket
      <4>1. key[a] \in Buckets
        BY <2>1, <3>2, References DEF LimiterInv
      <4>. QED
        BY <2>1, <3>2, <4>1, LevelType DEF LimiterInv, LevelOf
    <3>. QED
      BY <3>1, <3>2
  <2>. QED
    BY <2>1, <2>2 DEF LimiterInv, LimiterTypeOK, DebtInv
<1>. QED
  BY <1>1, LimiterInvariance, PTL

\* The cleaner's age limit is long enough: a bucket it removes gives nothing
\* away unless the bucket was used after the cleaner looked at it.
THEOREM RemovalIsHarmless == LimiterSpec => []IdleIsFull
<1>1. LimiterInv => IdleIsFull
  <2>1. SUFFICES ASSUME LimiterInv, condemned # NoAgent, last[key[condemned]] < cutoff
                 PROVE  Level(key[condemned]) = Full
    BY DEF IdleIsFull
  <2>2. key[condemned] \in Buckets
    BY <2>1, References DEF LimiterInv
  <2>3. /\ tokens[key[condemned]] \in 0 .. Full
        /\ last[key[condemned]] \in Nat
        /\ now \in Nat /\ cutoff \in Int /\ cutoff <= now - IdleTicks
    BY <2>1, <2>2 DEF LimiterInv, LimiterTypeOK, ClockInv
  <2>. QED
    BY RateLimiterAssumption, <2>1, <2>3 DEF Level, AtMost
<1>. QED
  BY <1>1, LimiterInvariance, PTL

\* Real and ideal buckets differ by no more than removals account for, and a
\* bucket the cleaner may remove without harm is full.
THEOREM BucketsConsistent == LimiterSpec => []BucketsAgree
<1>. QED
  BY LimiterInvariance, RemovalIsHarmless, PTL DEF BucketsAgree

\* No handler refuses what an ideal bucket would admit, whichever bucket it
\* holds.
THEOREM RefusalsAreJustified == LimiterSpec => RefusalIsJustified
<1>1. LimiterInv /\ [LimiterNext]_limiterVars =>
        [\A h \in Handlers :
            held[h] # NoBucket /\ held'[h] = NoBucket /\ ~verdict'[h]
                => credit[agent[h]] < Cost]_limiterVars
  <2>1. SUFFICES ASSUME LimiterInv, LimiterNext, NEW h \in Handlers,
                        held[h] # NoBucket, held'[h] = NoBucket, ~verdict'[h]
                 PROVE  credit[agent[h]] < Cost
    OBVIOUS
  <2>2. LimiterTypeOK /\ ClockInv /\ OwnerInv /\ CreditInv
    BY <2>1 DEF LimiterInv
  <2>3. held[h] \in Buckets /\ agent[h] \in Agents
    BY <2>1, <2>2, References
  <2>4. Allow(h)
    <3>1. CASE \E g \in Handlers, a \in Agents : LoadOrStore(g, a)
      <4>1. PICK g \in Handlers, a \in Agents : LoadOrStore(g, a)
        BY <3>1
      <4>2. g # h
        BY <2>1, <4>1 DEF LoadOrStore
      <4>3. held'[h] = held[h]
        BY <2>2, <4>1, <4>2 DEF LoadOrStore, LimiterTypeOK
      <4>. QED
        BY <2>1, <4>3
    <3>2. CASE \E g \in Handlers : Allow(g)
      <4>1. PICK g \in Handlers : Allow(g)
        BY <3>2
      <4>2. CASE g # h
        <5>1. held'[h] = held[h]
          BY <2>2, <4>1, <4>2 DEF Allow, LimiterTypeOK
        <5>. QED
          BY <2>1, <5>1
      <4>. QED
        BY <4>1, <4>2
    <3>3. CASE Tick \/ Sweep \/ Delete \/ \E a \in Agents : Visit(a)
      <4>1. held' = held
        BY <3>3 DEF Tick, Sweep, Delete, Visit, handlerVars
      <4>. QED
        BY <2>1, <4>1
    <3>. QED
      BY <2>1, <3>1, <3>2, <3>3 DEF LimiterNext
  <2>5. PICK b \in Buckets, a \in Agents, paid \in {0, Cost} :
            /\ held[h] = b /\ agent[h] = a
            /\ verdict'[h] = (paid = Cost)
            /\ paid = 0 => Level(b) < Cost
    BY <2>1, <2>4, AllowEffect
  <2>6. Level(b) < Cost
    BY <2>1, <2>5
  <2>7. credit[a] <= Level(b) /\ credit[a] \in Int
    BY <2>1, <2>2, <2>5 DEF CreditInv, LimiterTypeOK
  <2>8. Level(b) \in 0 .. Full
    BY <2>2, LevelType
  <2>. QED
    BY RateLimiterAssumption, <2>5, <2>6, <2>7, <2>8
<1>. QED
  BY <1>1, LimiterInvariance, PTL DEF LimiterSpec, RefusalIsJustified

=============================================================================
