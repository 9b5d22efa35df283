---------------------------- MODULE EventSources ----------------------------
(***************************************************************************)
(* The writers of the streams events:gitea and events:k8s: the webhook     *)
(* (internal/event-collector/webhook) and the watcher of pod events        *)
(* (internal/event-collector/k8swatch), which are one process              *)
(* (cmd/event-collector), and the backend's AssignIssue                    *)
(* (internal/backend/handler/agents.go), whose issue Gitea also reports to *)
(* the webhook.                                                            *)
(*                                                                         *)
(* Gitea is answered before its event is written.  No write is repeated by *)
(* these programs when it fails; the Redis client does repeat it when only *)
(* the reply is lost.  The order and the trimming of the streams are the   *)
(* matter of their readers' modules and left out.                          *)
(***************************************************************************)
EXTENDS Naturals, Sequences, FiniteSets, Bags

CONSTANTS
    Kinds,       \* of what Gitea reports
    Sizes,       \* of bodies: to 4 KB 0, to 16 KB 1, to 1 MB 2, above 3
    KubeEvents,  \* the Event objects of the agents' namespace
    Reasons,     \* theirs
    None,        \* not yet, no status, nothing in hand
    MaxFailures, \* bound on kills, failing calls and lost replies
    MaxEvents    \* bound on those and on what happens in Gitea, in Kubernetes
                 \* and at the API

\* The X-Gitea-Event and action of what is published.
Published ==
    {"push", "issues opened", "issues closed", "issue_comment",
     "pull_request opened", "pull_request merged",
     "pull_request_review_comment", "workflow_run"}

Hooks   == [kind : Kinds, size : Sizes, genuine : BOOLEAN]
EventStreams == {"gitea", "k8s"}

HookStates   == {"sent", "accepted", "answered", "refused", "cut"}
AssignStates == {"called", "created", "answered", "refused", "cut"}

\* What is made of an Event's reason; of other reasons, nothing.
Statuses ==
    [Running     |-> {"Scheduled", "Started", "Pulled", "Created"},
     Failed      |-> {"Failed", "BackOff", "FailedMount"},
     OOMKilled   |-> {"OOMKilling"},
     Terminating |-> {"Killing"}]
StatusOf(r)  == {s \in DOMAIN Statuses : r \in Statuses[s]}
PodStatus(r) == CHOOSE s \in DOMAIN Statuses : s \in StatusOf(r)

ASSUME EventSourcesAssumption ==
    /\ "issues opened" \in Kinds
    /\ 0 \in Sizes /\ Sizes \subseteq 0 .. 3
    /\ None \notin Reasons \cup KubeEvents
    /\ MaxFailures \in Nat
    /\ MaxEvents \in Nat

VARIABLES
    \* Gitea and Redis
    hooks,     \* the webhook's deliveries, in the order they are sent
    issues,    \* how many issues AssignIssue made
    stream,    \* the entries of each stream, with how often they are there
    \* Kubernetes
    reason,    \* of each Event, or None before it happens
    there,     \* the Events not expired
    \* the collector
    state,     \* of each delivery
    writers,   \* the deliveries whose goroutine is writing
    store,     \* the informer's objects
    handling,  \* the Event HandleEvent writes, or None
    \* the backend
    assigns,   \* the calls of AssignIssue: their states and issues
    \* observability only
    lost,      \* entries a kill or a failing write cost, with how often
    again,     \* entries written again because the reply was lost
    restarts,  \* of the collector
    seen,      \* of each Event, the collector's processes that looked at it
    \* bounds
    events, failures

webhookVars == <<hooks, state, writers>>
kubeVars    == <<reason, there>>
watcherVars == <<store, handling>>
assignVars  == <<assigns, issues>>
ghostVars   == <<lost, again, restarts, seen>>
boundVars   == <<events, failures>>
sourceVars == <<webhookVars, kubeVars, watcherVars, assignVars, stream, ghostVars, boundVars>>

SourcesInit ==
    /\ hooks = <<>>
    /\ issues = 0
    /\ stream = [s \in EventStreams |-> EmptyBag]
    /\ reason = [e \in KubeEvents |-> None]
    /\ there = {}
    /\ state = <<>>
    /\ writers = {}
    /\ store = {}
    /\ handling = None
    /\ assigns = <<>>
    /\ lost = EmptyBag
    /\ again = EmptyBag
    /\ restarts = 0
    /\ seen = [e \in KubeEvents |-> {}]
    /\ events = 0
    /\ failures = 0

Occurrence ==
    /\ events < MaxEvents
    /\ events' = events + 1

Failure ==
    /\ Occurrence
    /\ failures < MaxFailures
    /\ failures' = failures + 1

\* StreamWriter.Write succeeds, or fails, and is over;
Written(s, entry) ==
    \/ /\ stream' = [stream EXCEPT ![s] = @ (+) SetToBag({entry})]
       /\ UNCHANGED <<ghostVars, boundVars>>
    \/ /\ Failure
       /\ lost' = lost (+) SetToBag({entry})
       /\ UNCHANGED <<stream, again, restarts, seen>>

\* or Redis is not heard, and asked again.
Unheard(s, entry) ==
    /\ Failure
    /\ stream' = [stream EXCEPT ![s] = @ (+) SetToBag({entry})]
    /\ again' = again (+) SetToBag({entry})
    /\ UNCHANGED <<lost, restarts, seen>>

-----------------------------------------------------------------------------
(* Gitea and the webhook                                                   *)

Deliver(hook) ==
    /\ hooks' = Append(hooks, hook)
    /\ state' = Append(state, "sent")
    /\ UNCHANGED writers

\* Something happens in Gitea, or somebody else sends a request.
Report(hook) ==
    /\ Occurrence
    /\ Deliver(hook)
    /\ UNCHANGED <<kubeVars, watcherVars, assignVars, stream, ghostVars, failures>>

\* Somebody has a delivery repeated.
Redeliver(d) == Report(hooks[d])

\* A body longer than 1 MB is cut, and not what was signed.
VerifySignature(hook) == hook.genuine /\ hook.size < 3

\* What is kept of a body.
Payload(hook) ==
    IF hook.kind = "push" THEN IF hook.size = 0 THEN "whole" ELSE "stripped"
    ELSE IF hook.size <= 1 THEN "whole" ELSE "marker"

HookEntry(d) == [from |-> "hook", n |-> d, payload |-> Payload(hooks[d])]

\* parseEvent knows it.
Accepts(hook) == VerifySignature(hook) /\ hook.kind \in Published

\* ServeHTTP up to the reply of what it takes on; what is not published is
\* answered like the rest.
ServeHTTP(d) ==
    /\ state[d] = "sent"
    /\ state' = [state EXCEPT ![d] =
                    IF Accepts(hooks[d]) THEN "accepted"
                    ELSE IF VerifySignature(hooks[d]) THEN "answered"
                    ELSE "refused"]
    /\ writers' = IF Accepts(hooks[d]) THEN writers \cup {d} ELSE writers
    /\ UNCHANGED <<hooks, kubeVars, watcherVars, assignVars, stream, ghostVars, boundVars>>

\* The body does not come in time.
ReadFails(d) ==
    /\ state[d] = "sent"
    /\ Failure
    /\ state' = [state EXCEPT ![d] = "refused"]
    /\ UNCHANGED <<hooks, writers, kubeVars, watcherVars, assignVars, stream, ghostVars>>

\* Mutant of Replied: the write has the request's context, which ends here.
RepliedCancelling(d) == writers' = writers \ {d}

\* Mutant of Replied: the answer waits for the event to be written.
RepliedWhenWritten(d) ==
    /\ HookEntry(d) \in BagToSet(stream["gitea"])
    /\ UNCHANGED writers

\* The write goes on.
Replied(d) == UNCHANGED writers

Reply(d) ==
    /\ state[d] = "accepted"
    /\ state' = [state EXCEPT ![d] = "answered"]
    /\ Replied(d)
    /\ UNCHANGED <<hooks, kubeVars, watcherVars, assignVars, stream, ghostVars, boundVars>>

\* The goroutine's write, given ten seconds.
WriteHook(d) ==
    /\ d \in writers
    /\ \/ Written("gitea", HookEntry(d)) /\ writers' = writers \ {d}
       \/ Unheard("gitea", HookEntry(d)) /\ UNCHANGED writers
    /\ UNCHANGED <<hooks, state, kubeVars, watcherVars, assignVars>>

-----------------------------------------------------------------------------
(* Kubernetes and the pod watcher                                          *)

Happen(e, r) ==
    /\ Occurrence
    /\ reason[e] = None
    /\ reason' = [reason EXCEPT ![e] = r]
    /\ there' = there \cup {e}
    /\ UNCHANGED <<webhookVars, watcherVars, assignVars, stream, ghostVars, failures>>

\* The informer's copy goes with the Event.
Expire(e) ==
    /\ Occurrence
    /\ e \in there
    /\ there' = there \ {e}
    /\ store' = store \ {e}
    /\ UNCHANGED <<webhookVars, reason, handling, assignVars, stream, ghostVars, failures>>

\* Mutant of Updated: there is an UpdateFunc like AddFunc.
UpdatedHandled(e) == store' = store \ {e}

\* There is no UpdateFunc.
Updated(e) == UNCHANGED store

\* It happens again: the Event's count goes up.
Repeat(e) ==
    /\ Occurrence
    /\ e \in there
    /\ Updated(e)
    /\ UNCHANGED <<webhookVars, kubeVars, handling, assignVars, stream, ghostVars, failures>>

PodEntry(e) ==
    [from |-> "pod", n |-> e, payload |-> PodStatus(reason[e])]

\* AddFunc, for an Event new to this process; one at a time.
HandleEvent(e) ==
    /\ handling = None
    /\ e \in there \ store
    /\ store' = store \cup {e}
    /\ handling' = IF StatusOf(reason[e]) = {} THEN None ELSE e
    /\ seen' = [seen EXCEPT ![e] = @ \cup {restarts}]
    /\ UNCHANGED <<webhookVars, kubeVars, assignVars, stream, lost, again, restarts, boundVars>>

WriteEvent ==
    /\ handling # None
    /\ \/ Written("k8s", PodEntry(handling)) /\ handling' = None
       \/ Unheard("k8s", PodEntry(handling)) /\ UNCHANGED handling
    /\ UNCHANGED <<webhookVars, kubeVars, store, assignVars>>

\* The collector is killed and starts again.
Restart ==
    /\ Failure
    /\ lost' = lost (+) SetToBag({HookEntry(d) : d \in writers})
                    (+) SetToBag({PodEntry(e) : e \in {handling} \ {None}})
    /\ restarts' = restarts + 1
    /\ state' = [d \in DOMAIN state |->
                    IF state[d] \in {"sent", "accepted"} THEN "cut" ELSE state[d]]
    /\ writers' = {}
    /\ store' = {}
    /\ handling' = None
    /\ UNCHANGED <<hooks, kubeVars, assignVars, stream, again, seen>>

-----------------------------------------------------------------------------
(* AssignIssue                                                             *)

AssignEntry(a) == [from |-> "assign", n |-> assigns[a].issue, payload |-> "whole"]

\* The agent is known and the request in order.
AssignIssue ==
    /\ Occurrence
    /\ assigns' = Append(assigns, [state |-> "called", issue |-> 0])
    /\ UNCHANGED <<webhookVars, issues, kubeVars, watcherVars, stream, ghostVars, failures>>

\* Gitea makes the issue, and reports it.
Made ==
    /\ issues' = issues + 1
    /\ Deliver([kind |-> "issues opened", size |-> 0, genuine |-> TRUE])

CreateIssue(a) ==
    /\ assigns[a].state = "called"
    /\ \/ /\ Made
          /\ assigns' = [assigns EXCEPT ![a] = [state |-> "created", issue |-> issues']]
          /\ UNCHANGED boundVars
       \* refused, or not heard of
       \/ /\ Failure
          /\ assigns' = [assigns EXCEPT ![a].state = "refused"]
          /\ Made \/ UNCHANGED <<issues, webhookVars>>
    /\ UNCHANGED <<kubeVars, watcherVars, stream, ghostVars>>

\* Whether or not the event is written, the answer is the issue.
WriteAssigned(a) ==
    /\ assigns[a].state = "created"
    /\ \/ /\ Written("gitea", AssignEntry(a))
          /\ assigns' = [assigns EXCEPT ![a].state = "answered"]
       \/ Unheard("gitea", AssignEntry(a)) /\ UNCHANGED assigns
    /\ UNCHANGED <<webhookVars, issues, kubeVars, watcherVars>>

\* The client goes, whose context the write has, or the backend.
Abandon(a) ==
    /\ assigns[a].state \in {"called", "created"}
    /\ Failure
    /\ assigns' = [assigns EXCEPT ![a].state = "cut"]
    /\ lost' = IF assigns[a].issue = 0 THEN lost ELSE lost (+) SetToBag({AssignEntry(a)})
    /\ UNCHANGED <<webhookVars, issues, kubeVars, watcherVars, stream, again, restarts, seen>>

-----------------------------------------------------------------------------
WebhookStep(d) ==
    /\ d \in DOMAIN hooks
    /\ ServeHTTP(d) \/ Reply(d) \/ WriteHook(d)

AssignStep(a) ==
    /\ a \in DOMAIN assigns
    /\ CreateIssue(a) \/ WriteAssigned(a)

WatcherStep == WriteEvent \/ \E e \in KubeEvents : HandleEvent(e)

SourcesNext ==
    \/ \E hook \in Hooks : Report(hook)
    \/ \E d \in DOMAIN hooks : Redeliver(d) \/ ReadFails(d) \/ WebhookStep(d)
    \/ \E e \in KubeEvents : Expire(e) \/ Repeat(e) \/ \E r \in Reasons : Happen(e, r)
    \/ WatcherStep
    \/ Restart
    \/ AssignIssue
    \/ \E a \in DOMAIN assigns : AssignStep(a) \/ Abandon(a)

SourcesSpec == SourcesInit /\ [][SourcesNext]_sourceVars

\* Every request is served and every write ends, Redis's client having its
\* timeouts; the informer goes through the Events that are there.  Gitea's
\* client has no timeout and ignores the request's context (client.go:22,115):
\* nothing ends CreateIssue.
Fairness ==
    /\ \A d \in 1 .. MaxEvents :
          /\ WF_sourceVars(d \in DOMAIN hooks /\ (ServeHTTP(d) \/ Reply(d)))
          /\ WF_sourceVars(d \in DOMAIN hooks /\ WriteHook(d))
    /\ \A a \in 1 .. MaxEvents :
          WF_sourceVars(a \in DOMAIN assigns /\ WriteAssigned(a))
    /\ WF_sourceVars(WatcherStep)

SourcesFairSpec == SourcesSpec /\ Fairness

-----------------------------------------------------------------------------
EntriesOf(s)      == BagToSet(stream[s])
Count(entry, bag) == IF BagIn(entry, bag) THEN bag[entry] ELSE 0

\* Only what is signed and known is written, and of an issue only if there is one.
SourcesTypeOK ==
    /\ hooks \in Seq(Hooks)
    /\ state \in [DOMAIN hooks -> HookStates]
    /\ writers \subseteq {d \in DOMAIN hooks : state[d] \in {"accepted", "answered"}}
    /\ \A d \in writers : VerifySignature(hooks[d]) /\ hooks[d].kind \in Published
    /\ issues \in 0 .. MaxEvents
    /\ assigns \in Seq([state : AssignStates, issue : 0 .. issues])
    /\ reason \in [KubeEvents -> Reasons \cup {None}]
    /\ there \subseteq {e \in KubeEvents : reason[e] # None}
    /\ store \subseteq there
    /\ handling \in {e \in KubeEvents : StatusOf(reason[e]) # {}} \cup {None}
    /\ \A entry \in EntriesOf("gitea") \cup {l \in BagToSet(lost) : l.from # "pod"} :
          \/ entry.from = "hook" /\ entry.n \in DOMAIN hooks
          \/ entry.from = "assign" /\ entry.n \in 1 .. issues
    /\ \A entry \in EntriesOf("k8s") : entry.from = "pod" /\ entry.n \in KubeEvents
    /\ \A s \in EventStreams : IsABag(stream[s])
    /\ IsABag(lost) /\ IsABag(again)
    /\ restarts \in 0 .. failures
    /\ seen \in [KubeEvents -> SUBSET (0 .. restarts)]
    /\ events \in 0 .. MaxEvents
    /\ failures \in 0 .. MaxFailures

OnItsWay(s, entry) == entry \in EntriesOf(s) \cup BagToSet(lost)

\* What was answered as accepted, and what the informer holds, is in its stream
\* or being written, unless a fault took it (gitea_handler.go:64-74,
\* pod_watcher.go:66-73, agents.go:371-374).
NothingIsLostQuietly ==
    /\ \A d \in DOMAIN hooks :
          state[d] = "answered" /\ hooks[d].kind \in Published =>
              d \in writers \/ OnItsWay("gitea", HookEntry(d))
    /\ \A a \in DOMAIN assigns :
          assigns[a].state = "answered" => OnItsWay("gitea", AssignEntry(a))
    /\ \A e \in store :
          StatusOf(reason[e]) # {} => handling = e \/ OnItsWay("k8s", PodEntry(e))

\* An Event is published exactly once by every process of the collector that
\* looks at it, but for what a fault loses and what the Redis client writes
\* again: a repetition of it publishes nothing (UpdateFunc is left out,
\* pod_watcher.go:73), and after a restart every Event that has not expired is
\* published once more, although line 64 says that the code "prevents
\* reprocessing historical events on restart" (66-72).
OncePerProcess ==
    \A e \in KubeEvents : StatusOf(reason[e]) # {} =>
        Count(PodEntry(e), stream["k8s"]) + Count(PodEntry(e), lost)
            + (IF handling = e THEN 1 ELSE 0)
        = Cardinality(seen[e]) + Count(PodEntry(e), again)

\* A delivery, or an assignment, is published once but for what the Redis client
\* writes again (gitea_handler.go:66-73, agents.go:371-374).
OncePerReport ==
    \A entry \in EntriesOf("gitea") : Count(entry, stream["gitea"]) <= 1 + Count(entry, again)

\* What is on the streams is what was accepted, as often as it was accepted, by
\* each process of the collector, and as the Redis client repeats it.
StreamsExplained == SourcesTypeOK /\ OncePerProcess /\ OncePerReport

\* Nothing waits for ever but for Gitea: every delivery gets an answer or is cut
\* and its write ends, every Event is looked at by the process there is, or
\* expires, and every call of AssignIssue that has its issue is answered or cut.
Settled ==
    /\ \A d \in DOMAIN hooks : d \notin writers /\ state[d] \notin {"sent", "accepted"}
    /\ \A a \in DOMAIN assigns : assigns[a].state # "created"
    /\ there \subseteq store
    /\ handling = None
Settles == <>[]Settled
=============================================================================
