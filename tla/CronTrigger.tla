---------------------------- MODULE CronTrigger ----------------------------
(***************************************************************************)
(* Cron triggers: the operator's scheduler (internal/operator/scheduler)   *)
(* keeps one cron job for an agent and appends a trigger to the agent's    *)
(* stream when it fires; the poller of the agent's observer                *)
(* (internal/observer/poller.go) reads the stream through the group        *)
(* "observer", posts each prompt to the agent's runtime, and acknowledges. *)
(*                                                                         *)
(* One agent: agents share nothing here.  The agent's Deployment has one   *)
(* replica and the default rolling update, so that two pods, each with an  *)
(* observer and a runtime of its own, overlap; all observers read as the   *)
(* consumer poller-0 of the group (cmd/observer/main.go:54).  The cron     *)
(* library starts every firing in a goroutine of its own.  Sync is the     *)
(* scheduler's interface: in this version nothing calls it (the reconciler *)
(* only calls Remove), so that no trigger fires yet, and the scheduler is  *)
(* modelled as what its tests use.  The Redis client sends an XADD again   *)
(* when its reply is late, so one firing may leave several entries.        *)
(***************************************************************************)
EXTENDS RedisStream, Sequences

CONSTANTS
    Schedules,   \* schedules Sync may be given
    Invalid,     \* those the cron library rejects
    Prompts,
    NoJob,       \* no entry in CronScheduler.jobs
    MaxSyncs,    \* bound on the cron entries ever made
    MaxTriggers, \* bound on the firings
    MaxLenAgent, \* of the agent's stream
    PollBatch,   \* pollBatch
    Observers,   \* the pods an agent ever has, each with an observer and a runtime
    MaxMishaps   \* bound on kills, repeated writes and lost replies

ASSUME CronTriggerAssumption ==
    /\ Invalid \subseteq Schedules
    /\ NoJob \notin [id : Nat, schedule : Schedules]
    /\ MaxSyncs \in Nat
    /\ MaxTriggers \in Nat
    /\ MaxLenAgent \in Nat \ {0}
    /\ PollBatch \in Nat \ {0}
    /\ MaxMishaps \in Nat

Firings  == 1 .. MaxTriggers
Triggers == 1 .. (MaxTriggers + MaxMishaps)

VARIABLES
    \* the scheduler
    job,         \* jobs[agent]: [id, schedule], or NoJob
    entries,     \* the cron library's entries: [id, schedule, prompt]
    made,        \* ids given to entries so far
    fired,       \* firings so far
    firing,      \* firings whose fire has not returned
    stopped,     \* Stop has returned
    asked,       \* observability only: the schedule of the last Sync, or NoJob
    \* the agent's stream and its group
    written, oldest, joined, position, pending,
    taken,       \* observability only: entries the group ever handed over
    \* the pollers, per observer
    poller,      \* "down", "poll", "send", "ack", or "gone": Run returned
    messages,    \* read and not yet handled
    \* what the runtimes may have seen
    posts,       \* calls of sendToOpenClaw, per observer and entry of the stream
    succeeded,   \* entries whose post was answered with success
    \* bound
    mishaps

schedulerVars == <<job, entries, made, fired, firing, stopped, asked>>
triggerVars   == <<written, oldest, joined, position, pending, taken>>
pollerVars    == <<poller, messages>>
runtimeVars   == <<posts, succeeded>>
cronVars == <<schedulerVars, triggerVars, pollerVars, runtimeVars, mishaps>>

CronInit ==
    /\ job = NoJob
    /\ entries = {}
    /\ made = 0
    /\ fired = 0
    /\ firing = {}
    /\ stopped = FALSE
    /\ asked = NoJob
    /\ written = 0
    /\ oldest = 1
    /\ joined = FALSE
    /\ position = 0
    /\ pending = {}
    /\ taken = {}
    /\ poller = [o \in Observers |-> "down"]
    /\ messages = [o \in Observers |-> <<>>]
    /\ posts = [o \in Observers |-> [i \in Triggers |-> 0]]
    /\ succeeded = {}
    /\ mishaps = 0

Mishap ==
    /\ mishaps < MaxMishaps
    /\ mishaps' = mishaps + 1

-----------------------------------------------------------------------------
(* CronScheduler.  Sync and Remove hold the scheduler's mutex throughout.  *)

\* The entries without the one the job refers to.
Unscheduled ==
    IF job = NoJob THEN entries ELSE {e \in entries : e.id # job.id}

\* Mutant of SyncChange: the old entry stays in the cron library.
SyncChangeKeeping(schedule, prompt) ==
    /\ made < MaxSyncs
    /\ made' = made + 1
    /\ job' = [id |-> made', schedule |-> schedule]
    /\ entries' = entries \cup
          {[id |-> made', schedule |-> schedule, prompt |-> prompt]}

\* The job is replaced by one with the new schedule; an invalid schedule only
\* removes the old one.
SyncChange(schedule, prompt) ==
    \/ /\ schedule \notin Invalid
       /\ made < MaxSyncs
       /\ made' = made + 1
       /\ job' = [id |-> made', schedule |-> schedule]
       /\ entries' = Unscheduled \cup
             {[id |-> made', schedule |-> schedule, prompt |-> prompt]}
    \/ /\ schedule \in Invalid
       /\ job' = NoJob
       /\ entries' = Unscheduled
       /\ UNCHANGED made

\* The agent has a job on this schedule.
Scheduled(schedule) == IF job = NoJob THEN FALSE ELSE job.schedule = schedule

\* A job with the same schedule is kept, with the prompt it has.
Sync(schedule, prompt) ==
    /\ asked' = schedule
    /\ \/ Scheduled(schedule) /\ UNCHANGED <<job, entries, made>>
       \/ ~Scheduled(schedule) /\ SyncChange(schedule, prompt)
    /\ UNCHANGED <<fired, firing, stopped, triggerVars, pollerVars, runtimeVars,
                   mishaps>>

Remove ==
    /\ job # NoJob
    /\ entries' = Unscheduled
    /\ job' = NoJob
    /\ asked' = NoJob
    /\ UNCHANGED <<made, fired, firing, stopped, triggerVars, pollerVars,
                   runtimeVars, mishaps>>

\* The cron library starts a job's function; removing the entry later does not
\* stop it.
Fire ==
    /\ ~stopped
    /\ entries # {}
    /\ fired < MaxTriggers
    /\ fired' = fired + 1
    /\ firing' = firing \cup {fired'}
    /\ UNCHANGED <<job, entries, made, stopped, asked, triggerVars, pollerVars,
                   runtimeVars, mishaps>>

\* The XADD of Write.
AddTrigger ==
    /\ written' = written + 1
    /\ oldest' \in TrimmedTo(oldest, written', MaxLenAgent)
    /\ UNCHANGED <<joined, position, pending, taken>>

\* fire writes its trigger; firings may overtake each other.
WriteTrigger(n) ==
    /\ n \in firing
    /\ firing' = firing \ {n}
    /\ AddTrigger
    /\ UNCHANGED <<job, entries, made, fired, stopped, asked, pollerVars,
                   runtimeVars, mishaps>>

\* The trigger was written but the reply is lost: the client will send it again.
WriteReplyLost(n) ==
    /\ n \in firing
    /\ Mishap
    /\ AddTrigger
    /\ UNCHANGED <<schedulerVars, pollerVars, runtimeVars>>

\* The write fails or runs into its 5 s timeout; the error is ignored.
WriteTriggerFails(n) ==
    /\ n \in firing
    /\ firing' = firing \ {n}
    /\ UNCHANGED <<job, entries, made, fired, stopped, asked, triggerVars,
                   pollerVars, runtimeVars, mishaps>>

\* Main calls Stop when the manager has returned; Stop does not use the context
\* with which the cron library would let it wait.
StopScheduler ==
    /\ ~stopped
    /\ stopped' = TRUE
    /\ UNCHANGED <<job, entries, made, fired, firing, asked, triggerVars,
                   pollerVars, runtimeVars, mishaps>>

\* The operator's process ends, and with it its jobs and firings, and another
\* one starts.
OperatorRestarts ==
    /\ Mishap
    /\ job' = NoJob
    /\ entries' = {}
    /\ firing' = {}
    /\ stopped' = FALSE
    /\ asked' = NoJob
    /\ UNCHANGED <<made, fired, triggerVars, pollerVars, runtimeVars>>

-----------------------------------------------------------------------------
(* Poller.Run                                                              *)

PollerTo(o, where) == poller' = [poller EXCEPT ![o] = where]

\* Mutant of StartPoller: an existing group (BUSYGROUP) is an error, and Run
\* returns.
StartPollerBusy(o) ==
    /\ poller[o] = "down"
    /\ ~joined
    /\ PollerTo(o, "poll")
    /\ joined' = TRUE
    /\ position' = written
    /\ UNCHANGED <<schedulerVars, written, oldest, pending, taken, messages,
                   runtimeVars, mishaps>>

\* An observer starts, beside those that run or after them, and creates the
\* group, at "$" if it is new.
StartPoller(o) ==
    /\ poller[o] = "down"
    /\ PollerTo(o, "poll")
    /\ joined' = TRUE
    /\ position' = IF joined THEN position ELSE written
    /\ UNCHANGED <<schedulerVars, written, oldest, pending, taken, messages,
                   runtimeVars, mishaps>>

\* The group cannot be created: Run returns, and nothing calls it again while
\* the observer's process lives on.
StartFails(o) ==
    /\ poller[o] = "down"
    /\ Mishap
    /\ PollerTo(o, "gone")
    /\ UNCHANGED <<schedulerVars, triggerVars, messages, runtimeVars>>

\* The observer is killed, or its pod is deleted.
Crash(o) ==
    /\ poller[o] # "down"
    /\ Mishap
    /\ PollerTo(o, "down")
    /\ messages' = [messages EXCEPT ![o] = <<>>]
    /\ UNCHANGED <<schedulerVars, triggerVars, runtimeVars>>

FreshIds == Fresh(oldest, written, position, PollBatch)

\* Mutant of Hand: the group's position stays where it was.
HandAgain ==
    /\ pending' = pending \cup FreshIds
    /\ taken' = taken \cup FreshIds
    /\ UNCHANGED <<written, oldest, joined, position>>

\* The group hands over the fresh entries.
Hand ==
    /\ pending' = pending \cup FreshIds
    /\ taken' = taken \cup FreshIds
    /\ position' = FreshTo(oldest, written, position, PollBatch)
    /\ UNCHANGED <<written, oldest, joined>>

\* Read returns the messages; a read error, or none, polls again.
Poll(o) ==
    /\ poller[o] = "poll"
    /\ FreshIds # {}
    /\ Hand
    /\ messages' = [messages EXCEPT ![o] =
          MessagesOf(FreshFrom(oldest, position),
                     FreshTo(oldest, written, position, PollBatch))]
    /\ PollerTo(o, "send")
    /\ UNCHANGED <<schedulerVars, runtimeVars, mishaps>>

\* Redis hands the messages over but its reply is lost.
PollReplyLost(o) ==
    /\ poller[o] = "poll"
    /\ FreshIds # {}
    /\ Mishap
    /\ Hand
    /\ UNCHANGED <<schedulerVars, pollerVars, runtimeVars>>

\* The loop goes on with the next message, or polls when there is none.
NextMessage(o) ==
    /\ messages' = [messages EXCEPT ![o] = Tail(@)]
    /\ PollerTo(o, IF Len(messages[o]) = 1 THEN "poll" ELSE "send")

\* sendToOpenClaw posts the message to the runtime of the observer's pod.
Post(o) == posts' = [posts EXCEPT ![o][Head(messages[o])] = @ + 1]

\* sendToOpenClaw succeeds.
SendOK(o) ==
    /\ poller[o] = "send"
    /\ Post(o)
    /\ succeeded' = succeeded \cup {Head(messages[o])}
    /\ PollerTo(o, "ack")
    /\ UNCHANGED <<schedulerVars, triggerVars, messages, mishaps>>

\* sendToOpenClaw fails; after a timeout the post may have reached the runtime.
\* The message is not acknowledged.
SendFails(o) ==
    /\ poller[o] = "send"
    /\ Post(o)
    /\ NextMessage(o)
    /\ UNCHANGED <<schedulerVars, triggerVars, succeeded, mishaps>>

AckMessage(o) ==
    /\ poller[o] = "ack"
    /\ pending' = pending \ {Head(messages[o])}
    /\ NextMessage(o)
    /\ UNCHANGED <<schedulerVars, written, oldest, joined, position, taken,
                   runtimeVars, mishaps>>

\* The error of ACK is ignored.
AckLost(o) ==
    /\ poller[o] = "ack"
    /\ Mishap
    /\ NextMessage(o)
    /\ UNCHANGED <<schedulerVars, triggerVars, runtimeVars>>

\* What a running poller does next.
PollerStep(o) == Poll(o) \/ SendOK(o) \/ SendFails(o) \/ AckMessage(o) \/ AckLost(o)

\* The Deployment replaces its last pod.
StartLast ==
    /\ \A o \in Observers : poller[o] = "down"
    /\ \E o \in Observers : StartPoller(o)

CronNext ==
    \/ \E schedule \in Schedules, prompt \in Prompts : Sync(schedule, prompt)
    \/ Remove
    \/ Fire
    \/ \E n \in Firings :
          WriteTrigger(n) \/ WriteReplyLost(n) \/ WriteTriggerFails(n)
    \/ StopScheduler
    \/ OperatorRestarts
    \/ \E o \in Observers :
          \/ StartPoller(o) \/ StartFails(o) \/ Crash(o)
          \/ Poll(o) \/ PollReplyLost(o)
          \/ SendOK(o) \/ SendFails(o)
          \/ AckMessage(o) \/ AckLost(o)

CronSpec == CronInit /\ [][CronNext]_cronVars

\* A poller's goroutine keeps going, and when no observer is left one is started
\* (another may or may not be); a post returns within the client's 5 minutes.
CronFairSpec ==
    /\ CronSpec
    /\ WF_cronVars(StartLast)
    /\ \A o \in Observers : WF_cronVars(PollerStep(o))

-----------------------------------------------------------------------------
CronTypeOK ==
    /\ job \in [id : 1 .. MaxSyncs, schedule : Schedules] \cup {NoJob}
    /\ entries \subseteq
          [id : 1 .. MaxSyncs, schedule : Schedules, prompt : Prompts]
    /\ made \in 0 .. MaxSyncs
    /\ fired \in 0 .. MaxTriggers
    /\ firing \subseteq Firings
    /\ stopped \in BOOLEAN
    /\ asked \in Schedules \cup {NoJob}
    /\ written \in Triggers \cup {0}
    /\ oldest \in Nat \ {0}
    /\ joined \in BOOLEAN
    /\ position \in Triggers \cup {0}
    /\ pending \subseteq Triggers
    /\ taken \subseteq Triggers
    /\ poller \in [Observers -> {"down", "poll", "send", "ack", "gone"}]
    /\ messages \in [Observers -> Seq(Triggers)]
    /\ posts \in [Observers -> [Triggers -> Nat]]
    /\ succeeded \subseteq Triggers
    /\ mishaps \in 0 .. MaxMishaps

\* The scheduler's map and the cron library agree: the library fires for the
\* job in the map and for nothing else, so that an agent is not triggered
\* twice, nor after Remove, and it fires on the schedule last asked for.
OneEntryPerAgent ==
    /\ {e.id : e \in entries} = (IF job = NoJob THEN {} ELSE {job.id})
    /\ job # NoJob => job.schedule = asked
    /\ job = NoJob => asked \in Invalid \cup {NoJob}

\* A trigger is posted at most once by all observers together, and each runtime
\* gets its triggers in the order of the stream, whatever is killed, lost or
\* overtaken: a prompt starts work that must not be done twice.  In particular
\* a trigger whose post failed is never posted again, by this observer or a
\* later one, although poller.go:82 leaves it pending to "retry on next poll".
\* Between two overlapping observers there is no order.
PostedOnceInOrder ==
    [][\A o \in Observers, i \in Triggers :
          posts'[o][i] > posts[o][i] =>
              /\ \A q \in Observers : posts[q][i] = 0
              /\ \A j \in Triggers : i <= j => posts[o][j] = 0]_cronVars

\* A trigger handed to a poller stays pending unless its post succeeded.
AckedIsDone == taken \subseteq pending \cup succeeded

\* The two records each side keeps never part: the scheduler's map and the
\* library's entries, the pending list and what the runtime has done.
RecordsAgree == CronTypeOK /\ OneEntryPerAgent /\ AckedIsDone

\* Once the group exists every trigger is read or trimmed, unless Redis was
\* away when the observer started: neither a slow nor failing runtime nor a
\* restart stops the reading for good.
TriggerIsRead ==
    \A i \in Triggers :
        (joined /\ i <= written) ~>
            \/ i <= position \/ i < oldest
            \/ \E o \in Observers : poller[o] = "gone"
=============================================================================
