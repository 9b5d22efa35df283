------------------------------ MODULE Gateway ------------------------------
(***************************************************************************)
(* The gateway's request pipeline (cmd/gateway, internal/gateway/handler): *)
(* authentication, rate limit, then the heartbeat handler or the proxy to  *)
(* LiteLLM and Gitea, which records the exchange through the audit writer. *)
(* One goroutine serves each request.                                      *)
(*                                                                         *)
(* A body is its length.  Whether the limiter lets a request pass is left  *)
(* open here; RateLimiter models it.  An upstream that fails is answered   *)
(* by the proxy's ErrorHandler, a response like any other.                 *)
(***************************************************************************)
EXTENDS AuditQueue

CONSTANTS
    MaxBody,    \* proxyMaxBodySize and maxBodyBytes (64 KiB both)
    BodySizes,  \* lengths of the request bodies that arrive
    Chunks,     \* lengths of the response's Write calls
    MaxReply,   \* bound on the length of a response
    MaxCrashes  \* bound on the gateway's restarts

ASSUME GatewayAssumption ==
    /\ MaxBody \in Nat
    /\ BodySizes \subseteq Nat
    /\ Chunks \subseteq Nat \ {0}
    /\ MaxReply \in Nat
    /\ MaxCrashes \in Nat

Kinds == {"heartbeat", "llm", "gitea"}

VARIABLES
    pc,         \* where the handler of a request is
    kind,       \* the route of the request
    size,       \* length of the request body that arrives
    forwarded,  \* length of the body sent upstream
    replied,    \* length of the response passed on to the agent
    captured,   \* length of the response in the recorder's buffer
    record,     \* what buildPayload puts into the event: lengths and flag
    before,     \* observability only: the requests over when this one began
    crashes     \* bound

requestVars == <<pc, kind, size, forwarded, replied, captured, record, before>>
vars == <<queueVars, requestVars, crashes>>

PCs == {"idle", "auth", "limit", "proxy", "ended", "limited", "aborted"}
Over == {"ended", "limited", "aborted"}
NoRecord == [req |-> 0, resp |-> 0, truncated |-> FALSE]

Least(a, b) == IF a < b THEN a ELSE b

Init ==
    /\ QueueInit
    /\ pc = [r \in Requests |-> "idle"]
    /\ kind = [r \in Requests |-> "heartbeat"]
    /\ size = [r \in Requests |-> 0]
    /\ forwarded = [r \in Requests |-> 0]
    /\ replied = [r \in Requests |-> 0]
    /\ captured = [r \in Requests |-> 0]
    /\ record = [r \in Requests |-> NoRecord]
    /\ before = [r \in Requests |-> {}]
    /\ crashes = 0

\* A request arrives; a body whose upload breaks off arrives shorter, since
\* ServeHTTP ignores the error of ReadAll.
Arrive(r) ==
    /\ pc[r] = "idle"
    /\ pc' = [pc EXCEPT ![r] = "auth"]
    /\ \E k \in Kinds, n \in BodySizes :
          /\ kind' = [kind EXCEPT ![r] = k]
          /\ size' = [size EXCEPT ![r] = n]
    /\ before' = [before EXCEPT ![r] = {q \in Requests : pc[q] \in Over}]
    /\ UNCHANGED <<queueVars, forwarded, replied, captured, record, crashes>>

\* verifyToken fails: an auth_failed event and 401.
AuthFails(r) ==
    /\ pc[r] = "auth"
    /\ Enqueue(r)
    /\ pc' = [pc EXCEPT ![r] = "ended"]
    /\ UNCHANGED <<kind, size, forwarded, replied, captured, record, before,
                   crashes>>

AuthPasses(r) ==
    /\ pc[r] = "auth"
    /\ pc' = [pc EXCEPT ![r] = "limit"]
    /\ UNCHANGED <<queueVars, kind, size, forwarded, replied, captured,
                   record, before, crashes>>

\* The limiter answers 429; nothing is recorded.
Limited(r) ==
    /\ pc[r] = "limit"
    /\ pc' = [pc EXCEPT ![r] = "limited"]
    /\ UNCHANGED <<queueVars, kind, size, forwarded, replied, captured,
                   record, before, crashes>>

\* HeartbeatHandler.ServeHTTP.
Heartbeat(r) ==
    /\ pc[r] = "limit"
    /\ kind[r] = "heartbeat"
    /\ Enqueue(r)
    /\ pc' = [pc EXCEPT ![r] = "ended"]
    /\ UNCHANGED <<kind, size, forwarded, replied, captured, record, before,
                   crashes>>

\* Mutant of Captured: the reader stops at the limit.
CapturedToLimit(n) == Least(n, MaxBody)

\* What the LimitReader lets through of an LLM request.
Captured(n) == Least(n, MaxBody + 1)

\* ProxyHandler.ServeHTTP up to the proxy: the body of an LLM request is read
\* first, and what was read replaces it.
Forward(r) ==
    /\ pc[r] = "limit"
    /\ kind[r] # "heartbeat"
    /\ forwarded' = [forwarded EXCEPT ![r] =
          IF kind[r] = "llm" THEN Captured(size[r]) ELSE size[r]]
    /\ pc' = [pc EXCEPT ![r] = "proxy"]
    /\ UNCHANGED <<queueVars, kind, size, replied, captured, record, before,
                   crashes>>

\* responseRecorder.Write: the buffer takes what still fits.
Recorded(have, n) ==
    IF have < MaxBody THEN have + Least(n, MaxBody - have) ELSE have

\* The proxy copies a piece of the response to the agent.
Reply(r) ==
    /\ pc[r] = "proxy"
    /\ \E n \in Chunks :
          /\ replied[r] + n <= MaxReply
          /\ replied' = [replied EXCEPT ![r] = @ + n]
          /\ captured' = [captured EXCEPT ![r] =
                IF kind[r] = "llm" THEN Recorded(@, n) ELSE @]
    /\ UNCHANGED <<queueVars, pc, kind, size, forwarded, record, before,
                   crashes>>

\* The copy breaks off (either side hangs up): the reverse proxy aborts the
\* handler, which never reaches the audit writer.
AbortReply(r) ==
    /\ pc[r] = "proxy"
    /\ pc' = [pc EXCEPT ![r] = "aborted"]
    /\ UNCHANGED <<queueVars, kind, size, forwarded, replied, captured,
                   record, before, crashes>>

\* truncateBody, on lengths.
Truncated(n) == n > MaxBody
Payload(r) ==
    IF kind[r] = "llm"
    THEN [req |-> Least(forwarded[r], MaxBody),
          resp |-> Least(captured[r], MaxBody),
          truncated |-> Truncated(forwarded[r]) \/ Truncated(captured[r])]
    ELSE NoRecord

\* Mutant of Finish: only LLM calls are recorded.
FinishLLMOnly(r) ==
    /\ pc[r] = "proxy"
    /\ record' = [record EXCEPT ![r] = Payload(r)]
    /\ IF kind[r] = "llm" THEN Enqueue(r) ELSE UNCHANGED queueVars
    /\ pc' = [pc EXCEPT ![r] = "ended"]
    /\ UNCHANGED <<kind, size, forwarded, replied, captured, before, crashes>>

\* The response is complete: EnqueueRequest.
Finish(r) ==
    /\ pc[r] = "proxy"
    /\ record' = [record EXCEPT ![r] = Payload(r)]
    /\ Enqueue(r)
    /\ pc' = [pc EXCEPT ![r] = "ended"]
    /\ UNCHANGED <<kind, size, forwarded, replied, captured, before, crashes>>

\* The gateway's process is killed and restarted.
Crash ==
    /\ crashes < MaxCrashes
    /\ crashes' = crashes + 1
    /\ LoseQueue
    /\ pc' = [r \in Requests |->
                IF pc[r] \in Over \cup {"idle"} THEN pc[r] ELSE "aborted"]
    /\ UNCHANGED <<kind, size, forwarded, replied, captured, record, before>>

HandlerStep(r) ==
    \/ AuthFails(r) \/ AuthPasses(r) \/ Limited(r) \/ Heartbeat(r)
    \/ Forward(r) \/ Finish(r)

Next ==
    \/ \E r \in Requests :
          Arrive(r) \/ HandlerStep(r) \/ Reply(r) \/ AbortReply(r)
    \/ RunStep /\ UNCHANGED <<requestVars, crashes>>
    \/ Crash

Spec == Init /\ [][Next]_vars

\* The goroutine of a request keeps going (the server's 300 s write timeout
\* ends a response the upstream does not); nothing is assumed of Run.
HandlersRun == \A r \in Requests : WF_vars(HandlerStep(r))

-----------------------------------------------------------------------------
TypeOK ==
    /\ QueueTypeOK
    /\ pc \in [Requests -> PCs]
    /\ kind \in [Requests -> Kinds]
    /\ size \in [Requests -> BodySizes \cup {0}]
    /\ forwarded \in [Requests -> Nat]
    /\ replied \in [Requests -> 0 .. MaxReply]
    /\ captured \in [Requests -> 0 .. MaxReply]
    /\ record \in [Requests ->
          [req : 0 .. MaxBody, resp : 0 .. MaxBody, truncated : BOOLEAN]]
    /\ before \in [Requests -> SUBSET Requests]
    /\ crashes \in 0 .. MaxCrashes

\* A request that was served or refused as unauthenticated is recorded: its
\* event is on its way, in the stream, or among those the writer may drop.
EndedIsAudited ==
    \A r \in Requests : pc[r] = "ended" => r \in Accounted

\* The stream shows requests in an order that could have happened: the event
\* of a request is not behind that of one that began after it was over, even
\* with entries written twice and a restart in between.
AuditOrder ==
    \A i, j \in DOMAIN stream :
        i < j => stream[j] \notin before[stream[i]]

\* A request body that is stored cut off is marked as truncated, and a marked
\* event has a body that was too long.
CutRequestIsFlagged ==
    \A r \in Requests :
        /\ pc[r] = "ended" /\ record[r].req < size[r] /\ record[r] # NoRecord
              => record[r].truncated
        /\ record[r].truncated => size[r] > MaxBody \/ replied[r] > MaxBody

\* However the response is split into writes, the recorder holds its longest
\* prefix that fits.
CaptureIsPrefix ==
    \A r \in Requests :
        kind[r] = "llm" => captured[r] = Least(replied[r], MaxBody)

\* What is recorded of a request's and a response's body is as much of it as
\* fits, and says when there was more of the request.
RecordsAreSound == TypeOK /\ CutRequestIsFlagged /\ CaptureIsPrefix

\* No handler waits for the audit writer, even when Redis never answers: a
\* request that began is over at some point if the handlers alone keep going.
RequestsEnd ==
    HandlersRun =>
    \A r \in Requests : pc[r] \in {"auth", "limit", "proxy"} ~> pc[r] \in Over
=============================================================================
